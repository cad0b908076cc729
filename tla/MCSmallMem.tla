----------------------------- MODULE MCSmallMem -----------------------------
EXTENDS SmallMem

\* No call reads parent.max or what an earlier call returned.
View == <<heap.items, heap.lfree, heap.used, held>>
=============================================================================

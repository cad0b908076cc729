------------------------------ MODULE SmallMem ------------------------------
(***************************************************************************)
(* The small-memory allocator of mem.c.  heap.items maps the offset of     *)
(* every item header to the header (used is the low bit of pool_ptr); a    *)
(* header that plug_holes merges into its neighbour is gone.  The callers  *)
(* serialise the calls (the heap lock is outside this code), so a call is  *)
(* one step.  Byte counts are those of the code.                           *)
(***************************************************************************)
EXTENDS Integers, FiniteSets, FiniteSetsExt

CONSTANTS MemSize,        \* mem_size_aligned
          Align,          \* RT_ALIGN_SIZE
          Header,         \* SIZEOF_STRUCT_MEM
          MIN_SIZE,
          WordSize,       \* the values of rt_size_t: 2^32
          Sizes,          \* requested sizes
          null            \* RT_NULL

ASSUME MemAssumption ==
  /\ {MemSize, Align, Header, MIN_SIZE, WordSize} \subseteq Nat \ {0}
  /\ MemSize % Align = 0 /\ Header % Align = 0 /\ WordSize % Align = 0
  /\ WordSize > MemSize + Header /\ Sizes \subseteq 0 .. WordSize - 1

VARIABLES heap,    \* [items, lfree, used, max]
          held,    \* the offsets of the blocks callers hold
          ret      \* the size last asked for, and the offset of the block or null

vars == <<heap, held, ret>>

Rounded(size) == ((size + Align - 1) \div Align) * Align
RT_ALIGN(size) == Rounded(size) % WordSize     \* 0 for the largest sizes

Larger(a, b) == IF a >= b THEN a ELSE b
MIN_SIZE_ALIGNED == RT_ALIGN(MIN_SIZE)
Need(size) == Larger(RT_ALIGN(size), MIN_SIZE_ALIGNED)

heap_end == MemSize + Header
Room(items, o) == items[o].next - (o + Header)     \* bytes after the header

\* rt_smem_init.
Init ==
  /\ heap = [items |-> [o \in {0, heap_end} |->
                          [used |-> o = heap_end, next |-> heap_end,
                           prev |-> o]],
             lfree |-> 0, used |-> 0, max |-> 0]
  /\ held = {} /\ ret = [size |-> 0, at |-> null]

-----------------------------------------------------------------------------

\* The block at o keeps size bytes; the rest becomes a free item.
Split(items, o, size) ==
  LET o2 == o + Header + size
      n == items[o].next
  IN  [x \in DOMAIN items \cup {o2} |->
         CASE x = o2 -> [used |-> FALSE, next |-> n, prev |-> o]
           [] x = o -> [items[o] EXCEPT !.next = o2]
           [] x = n /\ n # heap_end -> [items[n] EXCEPT !.prev = o2]
           [] OTHER -> items[x]]

\* Mutant: the item that follows still points back to the merged header.
MergeForgetsPrev(items, a, b) ==
  [x \in DOMAIN items \ {b} |->
     IF x = a THEN [items[a] EXCEPT !.next = items[b].next] ELSE items[x]]

\* Item b becomes part of a, its left neighbour.
Merge(items, a, b) ==
  [x \in DOMAIN items \ {b} |->
     CASE x = a -> [items[a] EXCEPT !.next = items[b].next]
       [] x = items[b].next -> [items[x] EXCEPT !.prev = a]
       [] OTHER -> items[x]]

Absorb(h, a, b) ==
  [h EXCEPT !.items = Merge(@, a, b), !.lfree = IF @ = b THEN a ELSE @]

PlugForward(h, o) ==
  LET n == h.items[o].next
  IN  IF n # o /\ ~h.items[n].used /\ n # heap_end THEN Absorb(h, o, n) ELSE h

\* Mutant: the item on the left is not merged.
PlugBackwardNever(h, o) == h

PlugBackward(h, o) ==
  LET p == h.items[o].prev
  IN  IF p # o /\ ~h.items[p].used THEN Absorb(h, p, o) ELSE h

plug_holes(h, o) == PlugBackward(PlugForward(h, o), o)

\* The while loop that moves lfree to the next free item.
NextFree(items, o) ==
  Min({x \in DOMAIN items : x >= o /\ (x = heap_end \/ ~items[x].used)})

\* Mutant: the header is not counted.
FitsWithoutHeader(h, size) ==
  {o \in DOMAIN h.items : /\ h.lfree <= o /\ o <= MemSize - size
                          /\ ~h.items[o].used /\ h.items[o].next - o >= size}

\* The items the scan from lfree finds large enough.
Fits(h, size) ==
  {o \in DOMAIN h.items : /\ h.lfree <= o /\ o <= MemSize - size
                          /\ ~h.items[o].used /\ Room(h.items, o) >= size}

CanAlloc(h, size) == Need(size) <= MemSize /\ Fits(h, Need(size)) # {}

\* Mutant: a block that is not split counts with the size asked for.
ChargeRequest(items, o, size) == size + Header

\* What parent.used grows by: the rest of an item too small to split goes along.
Charge(items, o, size) ==
  IF Room(items, o) >= size + Header + MIN_SIZE_ALIGNED
    THEN size + Header ELSE Room(items, o) + Header

\* The successful rt_smem_alloc: the first item that fits, at offset Found.
Found(h, size) == Min(Fits(h, Need(size)))

Allocated(h, size) ==
  LET n == Need(size)
      o == Found(h, size)
      whole == Room(h.items, o) < n + Header + MIN_SIZE_ALIGNED
      cut == IF whole THEN h.items ELSE Split(h.items, o, n)
      items == [cut EXCEPT ![o].used = TRUE]
      used == h.used + Charge(h.items, o, n)
  IN  [items |-> items,
       lfree |-> IF o = h.lfree THEN NextFree(items, o) ELSE h.lfree,
       used |-> used, max |-> Larger(h.max, used)]

\* Mutant: a block freed below lfree is not noticed.
FreedKeepsLfree(h, o) ==
  plug_holes([h EXCEPT !.items[o].used = FALSE,
                       !.used = @ - (h.items[o].next - o)], o)

\* rt_smem_free of the block at offset o.
Freed(h, o) ==
  plug_holes([h EXCEPT !.items[o].used = FALSE,
                       !.lfree = IF o < @ THEN o ELSE @,
                       !.used = @ - (h.items[o].next - o)], o)

\* The branch "split memory block" of rt_smem_realloc.
Shrinks(h, o, n) == n + Header + MIN_SIZE < Room(h.items, o)

Shrunk(h, o, n) ==
  LET o2 == o + Header + n
  IN  plug_holes([h EXCEPT !.items = Split(@, o, n),
                           !.lfree = IF o2 < @ THEN o2 ELSE @,
                           !.used = @ - (Room(h.items, o) - n)], o2)

-----------------------------------------------------------------------------

Returns(size, o) == ret' = [size |-> size, at |-> o]
Fail(size) == Returns(size, null) /\ UNCHANGED <<heap, held>>

rt_smem_alloc(size) ==
  IF size = 0 \/ ~CanAlloc(heap, size) THEN Fail(size)
  ELSE /\ heap' = Allocated(heap, size)
       /\ Returns(size, Found(heap, size))
       /\ held' = held \cup {Found(heap, size)}

rt_smem_free(o) ==
  /\ heap' = Freed(heap, o)
  /\ held' = held \ {o} /\ Returns(0, null)

\* rt_smem_realloc of the block at o.  A size that neither is the same nor
\* leaves room for an item is served by a new block, even if it is smaller.
rt_smem_realloc(o, newsize) ==
  LET n == RT_ALIGN(newsize)
  IN  \/ n > MemSize /\ Fail(newsize)
      \/ n = 0 /\ rt_smem_free(o)
      \/ /\ n \in 1 .. MemSize
         /\ \/ /\ n = Room(heap.items, o)
               /\ Returns(newsize, o) /\ UNCHANGED <<heap, held>>
            \/ /\ Shrinks(heap, o, n)
               /\ heap' = Shrunk(heap, o, n)
               /\ Returns(newsize, o) /\ UNCHANGED held
            \/ /\ n # Room(heap.items, o) /\ ~Shrinks(heap, o, n)
               /\ IF ~CanAlloc(heap, n) THEN Fail(newsize)
                  ELSE /\ heap' = Freed(Allocated(heap, n), o)
                       /\ Returns(newsize, Found(heap, n))
                       /\ held' = (held \ {o}) \cup {Found(heap, n)}

Next ==
  \/ \E size \in Sizes : rt_smem_alloc(size)
  \/ \E o \in held : \/ rt_smem_free(o)
                     \/ \E size \in Sizes : rt_smem_realloc(o, size)

Spec == Init /\ [][Next]_vars

-----------------------------------------------------------------------------

TypeOK ==
  /\ DOMAIN heap.items \subseteq 0 .. heap_end /\ {0, heap_end} \subseteq DOMAIN heap.items
  /\ \A o \in DOMAIN heap.items :
       /\ o % Align = 0
       /\ heap.items[o] \in [used : BOOLEAN, next : 0 .. heap_end, prev : 0 .. heap_end]
  /\ heap.lfree \in DOMAIN heap.items
  /\ heap.used \in 0 .. heap_end /\ heap.max \in heap.used .. heap_end
  /\ ret.at \in held \cup {null}

\* The headers are well formed and form one chain over the whole heap, in both
\* directions, and the used ones are exactly the blocks callers hold.
Chained ==
  /\ TypeOK
  /\ \A o \in DOMAIN heap.items \ {heap_end} :
       LET n == heap.items[o].next
       IN  /\ n \in DOMAIN heap.items /\ o < n
           /\ \A x \in DOMAIN heap.items : ~(o < x /\ x < n)
           /\ n # heap_end => heap.items[n].prev = o
           /\ heap.items[o].used <=> o \in held
  /\ held \subseteq DOMAIN heap.items \ {heap_end} /\ heap.items[0].prev = 0
  /\ heap.items[heap_end].used /\ heap.items[heap_end].next = heap_end

\* No two neighbouring items are both free.
Coalesced ==
  \A o \in DOMAIN heap.items \ {heap_end} :
    heap.items[o].used \/ heap.items[heap.items[o].next].used

\* Scans start at lfree: there is no free item below it.
LfreeLowest ==
  heap.lfree = NextFree(heap.items, 0)

\* parent.used counts the used items with their headers.
UsedExact ==
  heap.used = SumSet({heap.items[o].next : o \in held}) - SumSet(held)

\* A block holds what was asked for, never overlaps another, and a request is
\* refused only if no gap between blocks is large enough.
Smallest(size) == Header + Larger(Rounded(size), MIN_SIZE_ALIGNED)
Blocks == [o \in held |-> heap.items[o].next - o]
H == INSTANCE Heap WITH Pool <- heap_end, Need <- Smallest, blocks <- Blocks

IsHeap == H!Spec

\* "The length of each block must be at least MIN_SIZE_ALIGNED" (rt_smem_alloc).
BlocksAtLeastMin ==
  \A o \in DOMAIN heap.items \ {heap_end} : Room(heap.items, o) >= MIN_SIZE_ALIGNED
=============================================================================

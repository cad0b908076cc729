-------------------------------- MODULE Heap --------------------------------
(***************************************************************************)
(* What a memory manager promises: blocks that do not overlap and hold     *)
(* what was asked for, and a refusal only when no gap is large enough.  A  *)
(* block includes its header; its address is that of the header.           *)
(***************************************************************************)
EXTENDS Integers

CONSTANTS Pool,       \* bytes that blocks may occupy
          Header,     \* bytes of a header
          Need(_),    \* bytes of the smallest block made for a request
          Sizes,      \* the requests
          null        \* RT_NULL

VARIABLES blocks,     \* from the addresses of the blocks in use to their lengths
          ret         \* the size last asked for, and the address returned

Vacant(a, n) ==
  a + n <= Pool /\ \A b \in DOMAIN blocks : a + n <= b \/ b + blocks[b] <= a
\* A gap begins at 0 or where a block ends.
Room(n) == \E a \in {0} \cup {b + blocks[b] : b \in DOMAIN blocks} : Vacant(a, n)
Without(a) == [x \in DOMAIN blocks \ {a} |-> blocks[x]]

Init == blocks = <<>> /\ ret = [size |-> 0, at |-> null]

Returns(size, a) == ret' = [size |-> size, at |-> a]

Refuse(size) == ~Room(Need(size)) /\ Returns(size, null) /\ UNCHANGED blocks

\* The call returns a block of n bytes at a; kept are the blocks of others.
Grant(size, kept) ==
  LET a == ret'.at
      n == blocks'[a]
  IN  /\ Returns(size, a) /\ a \in DOMAIN blocks'
      /\ n >= Header + size /\ Vacant(a, n)
      /\ blocks' = [x \in DOMAIN kept \cup {a} |-> IF x = a THEN n ELSE kept[x]]

Alloc(size) ==
  \/ size = 0 /\ Returns(0, null) /\ UNCHANGED blocks
  \/ size > 0 /\ (Grant(size, blocks) \/ Refuse(size))

Free(a) == blocks' = Without(a) /\ Returns(0, null)

\* In place, moved to a block that does not overlap the old one, or refused.
Realloc(a, size) ==
  \/ size = 0 /\ Free(a)
  \/ /\ size > 0 /\ Returns(size, a)
     /\ blocks'[a] \in (Header + size) .. blocks[a]
     /\ blocks' = [blocks EXCEPT ![a] = blocks'[a]]
  \/ size > 0 /\ (Grant(size, Without(a)) \/ Refuse(size))

Next ==
  \/ \E size \in Sizes : Alloc(size)
  \/ \E a \in DOMAIN blocks : Free(a) \/ \E size \in Sizes : Realloc(a, size)

Spec == Init /\ [][Next]_<<blocks, ret>>
=============================================================================

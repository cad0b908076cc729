--------------------------- MODULE SmallMemProofs ---------------------------
(***************************************************************************)
(* The theorems about SmallMem: MemInv is inductive, the four invariants   *)
(* of the run follow from it, and the allocator implements Heap as long as *)
(* no requested size wraps when it is rounded up.                          *)
(*                                                                         *)
(* The order is bottom up: sums of finite sets, multiples of Align, the    *)
(* chain of headers and what Split, Merge and a mark make of it, the bytes *)
(* of a set of items, then plug_holes and the three calls on any heap, and *)
(* at last the state of the module and the refinement.                     *)
(***************************************************************************)
EXTENDS SmallMem, FiniteSetTheorems, NaturalsInduction, WellFoundedInduction, TLAPS

-----------------------------------------------------------------------------
\* Sums of finite sets.  Induction is over the least counterexample.

\* A set of naturals that is not empty has a least element.
LEMMA LeastNat ==
  ASSUME NEW T \in SUBSET Nat, T # {}
  PROVE  \E n \in T : \A m \in T : n <= m
<1>1. IsWellFoundedOn(OpToRel(<, Nat), Nat)
  BY NatLessThanWellFounded
<1>2. PICK n \in T : \A m \in T : ~ (<<m, n>> \in OpToRel(<, Nat))
  BY <1>1, WFMin
<1>3. \A m \in T : ~ (m < n)
  BY <1>2 DEF OpToRel
<1> QED BY <1>3

\* A family of finite sets has one that no removal of an element keeps in it.
LEMMA LeastSet ==
  ASSUME NEW F, F # {}, \A s \in F : IsFiniteSet(s)
  PROVE  \E s \in F : \A x \in s : s \ {x} \notin F
<1> DEFINE T == {Cardinality(s) : s \in F}
<1>1. T \in SUBSET Nat /\ T # {}
  BY FS_CardinalityType
<1>2. PICK n \in T : \A m \in T : n <= m
  BY <1>1, LeastNat
<1>3. PICK s \in F : n = Cardinality(s)
  BY <1>2
<1>4. ASSUME NEW x \in s, s \ {x} \in F PROVE FALSE
  <2>1. Cardinality(s \ {x}) = Cardinality(s) - 1 /\ Cardinality(s) \in Nat
    BY <1>4, FS_RemoveElement, FS_CardinalityType
  <2>2. Cardinality(s \ {x}) \in T
    BY <1>4
  <2> QED BY <1>2, <1>3, <2>1, <2>2
<1> QED BY <1>4

\* The element SumSet takes first, and the recursion it follows.
Pick(s) == CHOOSE x \in s : TRUE

LEMMA PickIn ==
  ASSUME NEW s, s # {}
  PROVE  Pick(s) \in s
BY DEF Pick

IsSum(g, S) == g = [s \in SUBSET S |-> IF s = {} THEN 0 ELSE Pick(s) + g[s \ {Pick(s)}]]

LEMMA SumUnfold ==
  ASSUME NEW S
  PROVE  SumSet(S) = (CHOOSE g : IsSum(g, S))[S]
BY DEF SumSet, FoldSet, MapThenFoldSet, IsSum, Pick

\* The recursion has a solution ...
LEMMA SumExists ==
  ASSUME NEW S, IsFiniteSet(S)
  PROVE  \E g : IsSum(g, S)
<1> DEFINE G(n) == {s \in SUBSET S : Cardinality(s) <= n}
           Rec(g, n) == g = [s \in G(n) |-> IF s = {} THEN 0 ELSE Pick(s) + g[s \ {Pick(s)}]]
           T == {n \in Nat : ~ \E g : Rec(g, n)}
<1>0. \A s \in SUBSET S : IsFiniteSet(s) /\ Cardinality(s) \in Nat
  BY FS_Subset, FS_CardinalityType
<1>1. \E g : Rec(g, 0)
  <2>1. \A s \in G(0) : s = {}
    BY <1>0, FS_EmptySet
  <2>2. Rec([s \in G(0) |-> 0], 0)
    BY <2>1
  <2> HIDE DEF Rec
  <2> QED BY <2>2
<1>2. ASSUME NEW n \in Nat, NEW g, Rec(g, n) PROVE \E h : Rec(h, n + 1)
  <2> DEFINE h == [s \in G(n + 1) |-> IF s = {} THEN 0 ELSE Pick(s) + g[s \ {Pick(s)}]]
  <2>1. ASSUME NEW s \in G(n + 1), s # {}
        PROVE  s \ {Pick(s)} \in G(n)
    BY <2>1, <1>0, PickIn, FS_RemoveElement
  <2>2. \A s \in G(n) : s \in G(n + 1) /\ h[s] = g[s]
    <3>1. \A s \in G(n) : s \in G(n + 1)
      BY <1>0
    <3> QED BY <3>1, <1>2
  <2>3. \A s \in G(n + 1) : s # {} => h[s \ {Pick(s)}] = g[s \ {Pick(s)}]
    BY <2>1, <2>2
  <2>4. Rec(h, n + 1)
    BY <2>3
  <2> HIDE DEF Rec, h
  <2> QED BY <2>4
<1>3. T = {}
  <2> SUFFICES ASSUME T # {} PROVE FALSE
    OBVIOUS
  <2> HIDE DEF Rec
  <2>1. PICK n \in T : \A m \in T : n <= m
    BY LeastNat
  <2>2. n # 0 /\ n \in Nat /\ n - 1 \in Nat /\ n - 1 \notin T
    BY <2>1, <1>1
  <2>3. PICK g : Rec(g, n - 1)
    BY <2>2
  <2>4. \E h : Rec(h, (n - 1) + 1)
    BY <2>2, <2>3, <1>2
  <2>5. (n - 1) + 1 = n
    BY <2>2
  <2> QED BY <2>1, <2>4, <2>5
<1>4. PICK g : Rec(g, Cardinality(S))
  <2> HIDE DEF Rec
  <2> QED BY <1>0, <1>3
<1>5. G(Cardinality(S)) = SUBSET S
  BY FS_Subset
<1> QED BY <1>4, <1>5 DEF IsSum

\* ... and only one.
LEMMA SumAgree ==
  ASSUME NEW S, NEW R, IsFiniteSet(S), NEW g, NEW h, IsSum(g, S), IsSum(h, R)
  PROVE  \A s \in SUBSET (S \cap R) : g[s] = h[s]
<1> DEFINE F == {s \in SUBSET (S \cap R) : g[s] # h[s]}
<1> SUFFICES ASSUME F # {} PROVE FALSE
  OBVIOUS
<1>1. \A s \in F : IsFiniteSet(s)
  BY FS_Subset
<1>2. PICK s \in F : \A x \in s : s \ {x} \notin F
  <2> HIDE DEF F
  <2> QED BY <1>1, LeastSet
<1>3. s # {} => Pick(s) \in s /\ s \ {Pick(s)} \notin F
  BY <1>2, PickIn
<1>4. s # {} => g[s \ {Pick(s)}] = h[s \ {Pick(s)}]
  BY <1>3
<1>5. /\ s = {} => g[s] = 0 /\ h[s] = 0
      /\ s # {} => /\ g[s] = Pick(s) + g[s \ {Pick(s)}]
                   /\ h[s] = Pick(s) + h[s \ {Pick(s)}]
  BY DEF IsSum
<1> QED BY <1>4, <1>5

\* The recursion of SumSet.
LEMMA SumStep ==
  ASSUME NEW S, IsFiniteSet(S)
  PROVE  /\ S = {} => SumSet(S) = 0
         /\ S # {} => /\ Pick(S) \in S
                      /\ SumSet(S) = Pick(S) + SumSet(S \ {Pick(S)})
<1> DEFINE g == CHOOSE f : IsSum(f, S)
           R == S \ {Pick(S)}
           h == CHOOSE f : IsSum(f, R)
<1>1. IsSum(g, S) /\ SumSet(S) = g[S]
  BY SumExists, SumUnfold
<1>2. IsFiniteSet(R)
  BY FS_Subset
<1>3. IsSum(h, R) /\ SumSet(R) = h[R]
  BY <1>2, SumExists, SumUnfold
<1>4. g[R] = h[R]
  <2>1. R \in SUBSET (S \cap R)
    OBVIOUS
  <2> HIDE DEF g, h, R
  <2> QED BY <1>1, <1>3, <2>1, SumAgree
<1>5. /\ S = {} => g[S] = 0
      /\ S # {} => g[S] = Pick(S) + g[R]
  <2> HIDE DEF g
  <2> QED BY <1>1 DEF IsSum
<1>6. S # {} => Pick(S) \in S
  BY PickIn
<1> HIDE DEF g, h, R
<1>7. SumSet(S \ {Pick(S)}) = SumSet(R)
  BY DEF R
<1> QED BY <1>1, <1>3, <1>4, <1>5, <1>6, <1>7

LEMMA SumInt ==
  ASSUME NEW S \in SUBSET Int, IsFiniteSet(S)
  PROVE  SumSet(S) \in Int
<1> DEFINE F == {s \in SUBSET S : SumSet(s) \notin Int}
<1> SUFFICES ASSUME F # {} PROVE FALSE
  OBVIOUS
<1>1. \A s \in F : IsFiniteSet(s)
  BY FS_Subset
<1>2. PICK s \in F : \A x \in s : s \ {x} \notin F
  <2> HIDE DEF F
  <2> QED BY <1>1, LeastSet
<1>3. s = {} => SumSet(s) = 0
  BY <1>1, SumStep
<1>4. s # {} => /\ Pick(s) \in s
                /\ SumSet(s) = Pick(s) + SumSet(s \ {Pick(s)})
                /\ SumSet(s \ {Pick(s)}) \in Int
  BY <1>1, <1>2, SumStep
<1>5. s \in SUBSET Int /\ SumSet(s) \notin Int
  BY <1>2
<1>6. CASE s = {}
  BY <1>3, <1>5, <1>6
<1>7. CASE s # {}
  <2>1. Pick(s) \in Int
    BY <1>4, <1>5, <1>7
  <2> QED BY <1>4, <1>5, <1>7, <2>1
<1> QED BY <1>6, <1>7

\* An element counts once, whatever SumSet takes first.
LEMMA SumRemove ==
  ASSUME NEW S \in SUBSET Int, IsFiniteSet(S)
  PROVE  \A x \in S : SumSet(S) = x + SumSet(S \ {x})
<1> DEFINE Bad(s, x) == SumSet(s) # x + SumSet(s \ {x})
           F == {s \in SUBSET S : \E x \in s : Bad(s, x)}
<1> SUFFICES ASSUME F # {} PROVE FALSE
  OBVIOUS
<1>1. \A s \in F : IsFiniteSet(s)
  BY FS_Subset
<1>2. PICK s \in F : \A y \in s : s \ {y} \notin F
  <2> HIDE DEF F
  <2> QED BY <1>1, LeastSet
<1>3. PICK x \in s : Bad(s, x)
  OBVIOUS
<1> DEFINE p == Pick(s)
           both == (s \ {p}) \ {x}
<1>4. p \in s /\ SumSet(s) = p + SumSet(s \ {p}) /\ p # x
  <2>1. p \in s /\ SumSet(s) = p + SumSet(s \ {p})
    BY <1>1, <1>3, SumStep
  <2> QED BY <2>1, <1>3
<1>5. SumSet(s \ {p}) = x + SumSet(both)
  BY <1>2, <1>3, <1>4
<1>6. SumSet(s \ {x}) = p + SumSet((s \ {x}) \ {p})
  BY <1>2, <1>3, <1>4
<1>7. (s \ {x}) \ {p} = both
  OBVIOUS
<1>8. SumSet(both) \in Int /\ p \in Int /\ x \in Int
  <2>1. IsFiniteSet(both) /\ both \in SUBSET Int
    BY <1>1, FS_Subset
  <2> HIDE DEF both, p
  <2> QED BY <1>3, <1>4, <2>1, SumInt
<1> QED BY <1>3, <1>4, <1>5, <1>6, <1>7, <1>8

LEMMA SumAdd ==
  ASSUME NEW S \in SUBSET Int, IsFiniteSet(S), NEW x \in Int, x \notin S
  PROVE  SumSet(S \cup {x}) = SumSet(S) + x /\ SumSet(S) \in Int
<1>1. IsFiniteSet(S \cup {x}) /\ (S \cup {x}) \ {x} = S
  BY FS_AddElement
<1>2. SumSet(S \cup {x}) = x + SumSet(S)
  BY <1>1, SumRemove
<1> QED BY <1>2, SumInt

-----------------------------------------------------------------------------
\* Division, and multiples of Align.

LEMMA Division ==
  ASSUME NEW a \in Int, NEW m \in Nat \ {0}
  PROVE  /\ a = m * (a \div m) + (a % m) /\ a \div m \in Int
         /\ a % m \in 0 .. m - 1
OBVIOUS

\* A product of m is divisible by m.
LEMMA Product ==
  ASSUME NEW k \in Int, NEW m \in Nat \ {0}
  PROVE  (m * k) % m = 0
<1> DEFINE q == (m * k) \div m
           r == (m * k) % m
<1>0. m * k \in Int
  OBVIOUS
<1>1. m * k = m * q + r /\ q \in Int /\ r \in 0 .. m - 1
  BY <1>0, Division
<1> HIDE DEF q, r
<1>2. m * (k - q) = r
  BY <1>1
<1>3. CASE k - q >= 1
  <2>1. m * (k - q) >= m
    BY <1>1, <1>3
  <2> QED BY <1>1, <1>2, <2>1
<1>4. CASE k - q <= -1
  <2>1. m * (k - q) <= -m
    BY <1>1, <1>4
  <2> QED BY <1>1, <1>2, <2>1
<1>5. CASE k - q = 0
  BY <1>1, <1>2, <1>5 DEF r
<1> QED BY <1>1, <1>3, <1>4, <1>5

Multiple(a) == a % Align = 0

LEMMA MultipleSum ==
  ASSUME NEW a \in Int, NEW b \in Int, Multiple(a), Multiple(b)
  PROVE  Multiple(a + b)
<1> DEFINE p == a \div Align
           q == b \div Align
<1>0. Align \in Nat \ {0}
  BY MemAssumption
<1>1. a = Align * p /\ b = Align * q /\ p \in Int /\ q \in Int
  BY <1>0, Division DEF Multiple
<1> HIDE DEF p, q
<1>2. a + b = Align * (p + q)
  BY <1>0, <1>1
<1>3. (Align * (p + q)) % Align = 0
  BY <1>0, <1>1, Product
<1> QED BY <1>2, <1>3 DEF Multiple

LEMMA RoundedOK ==
  ASSUME NEW size \in Nat
  PROVE  /\ Rounded(size) \in Nat /\ Multiple(Rounded(size))
         /\ size <= Rounded(size) /\ Rounded(size) < size + Align
<1> DEFINE b == size + Align - 1
           q == b \div Align
<1>0. Align \in Nat \ {0} /\ b \in Int
  BY MemAssumption
<1>1. b = Align * q + (b % Align) /\ q \in Int /\ b % Align \in 0 .. Align - 1
  BY <1>0, Division
<1>2. Rounded(size) = Align * q
  BY <1>0, <1>1 DEF Rounded
<1>3. Multiple(Align * q)
  BY <1>0, <1>1, Product DEF Multiple
<1>4. Align * q = b - (b % Align)
  <2> HIDE DEF b, q
  <2> QED BY <1>0, <1>1
<1> HIDE DEF q
<1> QED BY <1>0, <1>1, <1>2, <1>3, <1>4

LEMMA AlignOK ==
  ASSUME NEW size \in Nat
  PROVE  /\ RT_ALIGN(size) \in 0 .. WordSize - 1 /\ Multiple(RT_ALIGN(size))
         /\ Rounded(size) < WordSize => RT_ALIGN(size) = Rounded(size)
<1> DEFINE x == Rounded(size)
           q == x \div WordSize
           w == WordSize \div Align
           k == x \div Align
           r == x % WordSize
<1>0. /\ WordSize \in Nat \ {0} /\ Align \in Nat \ {0}
      /\ x \in Int /\ x >= 0 /\ Multiple(x) /\ Multiple(WordSize)
  <2>1. x \in Nat /\ Multiple(x)
    BY RoundedOK
  <2>2. Multiple(WordSize)
    BY MemAssumption DEF Multiple
  <2> HIDE DEF x
  <2> QED BY <2>1, <2>2, MemAssumption
<1> HIDE DEF x
<1>1. x = WordSize * q + r /\ q \in Int /\ r \in 0 .. WordSize - 1
  BY <1>0, Division
<1>2. WordSize = Align * w /\ w \in Int /\ x = Align * k /\ k \in Int
  BY <1>0, Division DEF Multiple
<1>3. r = x - WordSize * q
  BY <1>0, <1>1
<1> HIDE DEF q, w, k, r
<1>4. WordSize * q = Align * (w * q)
  BY <1>0, <1>1, <1>2
<1>5. r = Align * (k - w * q) /\ k - w * q \in Int
  BY <1>0, <1>1, <1>2, <1>3, <1>4
<1>6. Multiple(r)
  BY <1>0, <1>5, Product DEF Multiple
<1>7. ASSUME x < WordSize PROVE r = x
  <2>1. CASE q >= 1
    <3>1. WordSize * q >= WordSize
      BY <1>0, <1>1, <2>1
    <3> QED BY <1>0, <1>1, <1>7, <3>1
  <2>2. CASE q <= -1
    <3>1. WordSize * q <= -WordSize
      BY <1>0, <1>1, <2>2
    <3> QED BY <1>0, <1>1, <1>7, <3>1
  <2>3. CASE q = 0
    BY <1>0, <1>1, <2>3
  <2> QED BY <1>1, <2>1, <2>2, <2>3
<1>8. RT_ALIGN(size) = r
  BY DEF RT_ALIGN, r, x
<1> QED BY <1>1, <1>6, <1>7, <1>8 DEF x

-----------------------------------------------------------------------------
\* The chain of headers.

Item == [used : BOOLEAN, next : 0 .. heap_end, prev : 0 .. heap_end]

Inner(items) == DOMAIN items \ {heap_end}

\* The headers form one chain over the heap, in both directions.
Chain(items) ==
  /\ DOMAIN items \subseteq 0 .. heap_end /\ 0 \in DOMAIN items /\ heap_end \in DOMAIN items
  /\ \A o \in DOMAIN items : Multiple(o) /\ items[o] \in Item
  /\ \A o \in Inner(items) :
       /\ items[o].next \in DOMAIN items /\ o < items[o].next
       /\ \A x \in DOMAIN items : ~ (o < x /\ x < items[o].next)
       /\ items[o].next # heap_end => items[items[o].next].prev = o
  /\ items[0].prev = 0 /\ items[heap_end].used /\ items[heap_end].next = heap_end

LEMMA MemSizes ==
  /\ MemSize \in Nat \ {0} /\ Header \in Nat \ {0} /\ Align \in Nat \ {0}
  /\ MIN_SIZE \in Nat \ {0} /\ WordSize \in Nat \ {0}
  /\ heap_end \in Nat /\ heap_end > 0 /\ heap_end = MemSize + Header
  /\ WordSize > heap_end /\ Sizes \subseteq Nat
  /\ Multiple(MemSize) /\ Multiple(Header) /\ Multiple(heap_end) /\ Multiple(0)
  /\ MIN_SIZE_ALIGNED \in Nat
<1>1. /\ MemSize \in Nat \ {0} /\ Header \in Nat \ {0} /\ Align \in Nat \ {0}
      /\ MIN_SIZE \in Nat \ {0} /\ WordSize \in Nat \ {0}
      /\ WordSize > MemSize + Header /\ Sizes \subseteq Nat
  BY MemAssumption
<1>2. Multiple(MemSize) /\ Multiple(Header)
  BY MemAssumption DEF Multiple
<1>3. Multiple(MemSize + Header)
  BY <1>1, <1>2, MultipleSum
<1>4. Multiple(0)
  BY <1>1, Product DEF Multiple
<1>5. MIN_SIZE_ALIGNED \in Nat
  BY <1>1, AlignOK DEF MIN_SIZE_ALIGNED
<1> QED BY <1>1, <1>2, <1>3, <1>4, <1>5 DEF heap_end

LEMMA ChainFacts ==
  ASSUME NEW items, Chain(items)
  PROVE  /\ \A x \in DOMAIN items : x \in Int /\ 0 <= x /\ x <= heap_end
         /\ \A x \in Inner(items) : x < items[x].next /\ items[x].next \in DOMAIN items
         /\ \A x, y \in Inner(items) : x < y => items[x].next <= y
         /\ \A x, y \in Inner(items) : items[x].next = items[y].next => x = y
         /\ 0 \in Inner(items)
<1>1. \A x \in DOMAIN items : x \in Int /\ 0 <= x /\ x <= heap_end
  BY MemSizes DEF Chain
<1>2. \A x \in Inner(items) : x < items[x].next /\ items[x].next \in DOMAIN items
  BY DEF Chain
<1>3. ASSUME NEW x \in Inner(items), NEW y \in Inner(items), x < y
      PROVE  items[x].next <= y
  <2>1. ~ (x < y /\ y < items[x].next)
    BY DEF Chain, Inner
  <2> QED BY <1>1, <1>2, <1>3, <2>1 DEF Inner
<1>4. ASSUME NEW x \in Inner(items), NEW y \in Inner(items), items[x].next = items[y].next
      PROVE  x = y
  BY <1>1, <1>2, <1>3, <1>4 DEF Inner
<1>5. 0 \in Inner(items)
  BY MemSizes DEF Chain, Inner
<1> QED BY <1>1, <1>2, <1>3, <1>4, <1>5

\* Every header but the first has a neighbour on its left.
LEMMA Predecessor ==
  ASSUME NEW items, Chain(items), NEW o \in DOMAIN items, o # 0
  PROVE  \E p \in Inner(items) : items[p].next = o
<1> DEFINE D == DOMAIN items
           T == {heap_end - x : x \in {y \in D : y < o}}
<1>1. \A x \in D : x \in Int /\ 0 <= x /\ x <= heap_end
  BY ChainFacts
<1>2. heap_end \in Int /\ o > 0
  BY <1>1, MemSizes
<1>3. T \in SUBSET Nat /\ T # {}
  <2>1. 0 \in {y \in D : y < o}
    BY <1>2 DEF Chain
  <2> QED BY <1>1, <1>2, <2>1
<1>4. PICK n \in T : \A m \in T : n <= m
  <2> HIDE DEF T
  <2> QED BY <1>3, LeastNat
<1>5. PICK p \in D : p < o /\ n = heap_end - p
  BY <1>4
<1>6. \A x \in D : x < o => x <= p
  <2> SUFFICES ASSUME NEW x \in D, x < o PROVE x <= p
    OBVIOUS
  <2>1. heap_end - x \in T
    OBVIOUS
  <2>2. heap_end - p <= heap_end - x
    BY <1>4, <1>5, <2>1
  <2> QED BY <1>1, <1>2, <2>2
<1>7. p \in Inner(items)
  BY <1>1, <1>2, <1>5 DEF Inner
<1>8. items[p].next \in D /\ p < items[p].next /\ ~ (p < o /\ o < items[p].next)
  BY <1>7 DEF Chain
<1>9. ~ (items[p].next < o)
  BY <1>1, <1>6, <1>8
<1> QED BY <1>1, <1>5, <1>7, <1>8, <1>9

LEMMA PredOf ==
  ASSUME NEW items, Chain(items), NEW o \in Inner(items)
  PROVE  /\ o = 0 => items[o].prev = 0
         /\ o # 0 => /\ items[o].prev \in Inner(items) /\ items[o].prev < o
                     /\ items[items[o].prev].next = o
<1>1. o = 0 => items[o].prev = 0
  BY DEF Chain
<1>2. ASSUME o # 0
      PROVE  /\ items[o].prev \in Inner(items) /\ items[o].prev < o
             /\ items[items[o].prev].next = o
  <2>1. PICK p \in Inner(items) : items[p].next = o
    BY <1>2, Predecessor DEF Inner
  <2>2. items[o].prev = p /\ p < o
    BY <2>1 DEF Chain, Inner
  <2> QED BY <2>1, <2>2
<1> QED BY <1>1, <1>2

\* The item at o was cut at o2, and the part from o2 on is free.
Cut(items, s, o, o2) ==
  /\ Chain(s) /\ DOMAIN s = DOMAIN items \cup {o2} /\ o2 \notin DOMAIN items
  /\ o < o2 /\ o2 < items[o].next /\ o2 \in Inner(s) /\ o2 \in Int
  /\ s[o2].next = items[o].next /\ ~ s[o2].used
  /\ s[o].next = o2 /\ s[o].used = items[o].used
  /\ \A x \in DOMAIN items \ {o} : s[x].next = items[x].next /\ s[x].used = items[x].used

LEMMA SplitOK ==
  ASSUME NEW items, Chain(items), NEW o \in Inner(items), NEW size \in Nat, Multiple(size),
         o + Header + size < items[o].next
  PROVE  Cut(items, Split(items, o, size), o, o + Header + size)
<1> DEFINE D == DOMAIN items
           o2 == o + Header + size
           n == items[o].next
           s == Split(items, o, size)
<1>1. /\ \A x \in D : x \in Int /\ 0 <= x /\ x <= heap_end /\ Multiple(x) /\ items[x] \in Item
      /\ o \in D /\ o # heap_end /\ n \in D
  BY ChainFacts DEF Chain, Inner
<1>2. o2 \in Int /\ o < o2 /\ o2 < n /\ 0 <= o2 /\ o2 < heap_end /\ Multiple(o2)
  <2>1. o2 \in Int /\ o < o2 /\ o2 < n
    BY <1>1, MemSizes
  <2>2. Multiple(o + Header) /\ o + Header \in Int
    <3>1. o \in Int /\ Header \in Int /\ Multiple(o) /\ Multiple(Header)
      BY <1>1, MemSizes
    <3> QED BY <3>1, MultipleSum
  <2>3. Multiple(o2)
    BY <2>2, MultipleSum
  <2> QED BY <1>1, <2>1, <2>3, MemSizes
<1>3. o2 \notin D
  <2>1. \A x \in D : ~ (o < x /\ x < n)
    BY DEF Chain
  <2> QED BY <1>2, <2>1
<1>4. /\ DOMAIN s = D \cup {o2}
      /\ s[o2] = [used |-> FALSE, next |-> n, prev |-> o]
      /\ s[o] = [items[o] EXCEPT !.next = o2]
      /\ n # heap_end => s[n] = [items[n] EXCEPT !.prev = o2]
      /\ \A x \in D \ {o, n} : s[x] = items[x]
      /\ n = heap_end => s[n] = items[n]
  BY <1>1, <1>2, <1>3 DEF Split
<1> HIDE DEF s
<1>5. \A x \in D : x # o => s[x].next = items[x].next /\ s[x].used = items[x].used
  BY <1>1, <1>4 DEF Item
<1>6. \A x \in D \cup {o2} : Multiple(x) /\ s[x] \in Item
  <2>1. n \in 0 .. heap_end /\ o \in 0 .. heap_end /\ o2 \in 0 .. heap_end
    BY <1>1, <1>2, MemSizes
  <2>2. s[o2] \in Item /\ s[o] \in Item /\ s[n] \in Item
    BY <1>1, <1>4, <2>1 DEF Item
  <2>3. \A x \in D \ {o, n} : s[x] \in Item
    BY <1>1, <1>4
  <2> QED BY <1>1, <1>2, <2>2, <2>3
<1>7. s[o].next = o2 /\ s[o].used = items[o].used /\ s[o].prev = items[o].prev
  BY <1>1, <1>4 DEF Item
<1>8. s[o2].next = n /\ ~ s[o2].used /\ s[o2].prev = o
  BY <1>4
<1>9. s[0].prev = 0 /\ s[heap_end].used /\ s[heap_end].next = heap_end
  <2>1. n # 0 /\ 0 \in D /\ heap_end \in D /\ items[0].prev = 0 /\ items[heap_end].used
        /\ items[heap_end].next = heap_end
    BY <1>1, <1>2 DEF Chain
  <2> QED BY <1>1, <1>4, <1>5, <1>7, <2>1 DEF Item
<1>10. ASSUME NEW x \in D \cup {o2}, x # heap_end
       PROVE  /\ s[x].next \in D \cup {o2} /\ x < s[x].next
              /\ \A y \in D \cup {o2} : ~ (x < y /\ y < s[x].next)
              /\ s[x].next # heap_end => s[s[x].next].prev = x
  <2>1. CASE x = o
    <3>1. \A y \in D : ~ (o < y /\ y < n)
      BY DEF Chain
    <3> QED BY <1>1, <1>2, <1>7, <1>8, <2>1, <3>1
  <2>2. CASE x = o2
    <3>1. \A y \in D : ~ (o < y /\ y < n)
      BY DEF Chain
    <3>2. n # heap_end => s[n].prev = o2
      BY <1>1, <1>4 DEF Item
    <3> QED BY <1>1, <1>2, <1>8, <2>2, <3>1, <3>2
  <2>3. CASE x \in D /\ x # o
    <3> DEFINE m == items[x].next
    <3>1. /\ s[x].next = m /\ m \in D /\ x < m /\ x \in Inner(items)
          /\ \A y \in D : ~ (x < y /\ y < m)
          /\ m # heap_end => items[m].prev = x
      BY <1>5, <1>10, <2>3 DEF Chain, Inner
    <3>2. m # n
      BY <2>3, <3>1, ChainFacts
    <3>3. m # heap_end => s[m].prev = x
      BY <1>1, <1>4, <1>7, <3>1, <3>2
    <3>4. ~ (x < o2 /\ o2 < m)
      <4>1. x < o => m <= o
        BY <3>1, ChainFacts
      <4>2. x > o => n <= x
        BY <3>1, ChainFacts
      <4> HIDE DEF o2, n, m
      <4> QED BY <1>1, <1>2, <2>3, <3>1, <4>1, <4>2
    <3> HIDE DEF m, o2
    <3> QED BY <3>1, <3>3, <3>4
  <2> QED BY <1>10, <2>1, <2>2, <2>3
<1>11. Chain(s)
  <2>1. D \cup {o2} \subseteq 0 .. heap_end /\ 0 \in D /\ heap_end \in D
    BY <1>1, <1>2, MemSizes DEF Chain
  <2> HIDE DEF o2
  <2> QED BY <1>4, <1>6, <1>9, <1>10, <2>1 DEF Chain, Inner
<1> QED
  <2>1. o2 \in Inner(s)
    BY <1>1, <1>2, <1>4 DEF Inner
  <2>2. Cut(items, s, o, o2)
    <3> HIDE DEF o2
    <3> QED BY <1>2, <1>3, <1>4, <1>5, <1>7, <1>8, <1>11, <2>1 DEF Cut
  <2> QED BY <2>2 DEF s

-----------------------------------------------------------------------------
\* The bytes of a set of items, and the chain under a mark and a merge.

\* The bytes of the items at the offsets s, headers included.
Bytes(items, s) == SumSet({items[o].next : o \in s}) - SumSet(s)

LEMMA FiniteItems ==
  ASSUME NEW items, Chain(items), NEW s \in SUBSET DOMAIN items
  PROVE  IsFiniteSet(s) /\ s \in SUBSET Int
<1>1. IsFiniteSet(0 .. heap_end)
  BY MemSizes, FS_Interval
<1>2. s \subseteq 0 .. heap_end
  BY DEF Chain
<1>3. IsFiniteSet(s)
  BY <1>1, <1>2, FS_Subset
<1>4. \A x \in s : x \in Int
  BY ChainFacts
<1> QED BY <1>3, <1>4

LEMMA BytesAdd ==
  ASSUME NEW items, Chain(items), NEW s \in SUBSET Inner(items), NEW o \in Inner(items),
         o \notin s
  PROVE  /\ Bytes(items, s) \in Int
         /\ Bytes(items, s \cup {o}) = Bytes(items, s) + (items[o].next - o)
<1> DEFINE Im(t) == {items[x].next : x \in t}
<1>1. /\ IsFiniteSet(s) /\ s \in SUBSET Int /\ o \in Int
      /\ IsFiniteSet(Im(s)) /\ Im(s) \in SUBSET Int /\ items[o].next \in Int
  <2>1. s \in SUBSET DOMAIN items /\ {o} \in SUBSET DOMAIN items
    BY DEF Inner
  <2>2. Im(s) \in SUBSET DOMAIN items /\ items[o].next \in DOMAIN items
    BY ChainFacts
  <2> HIDE DEF Im
  <2> QED BY <2>1, <2>2, FiniteItems
<1>2. items[o].next \notin Im(s) /\ Im(s \cup {o}) = Im(s) \cup {items[o].next}
  BY ChainFacts
<1>3. SumSet(s \cup {o}) = SumSet(s) + o /\ SumSet(s) \in Int
  BY <1>1, SumAdd
<1>4. /\ SumSet(Im(s) \cup {items[o].next}) = SumSet(Im(s)) + items[o].next
      /\ SumSet(Im(s)) \in Int
  <2> HIDE DEF Im
  <2> QED BY <1>1, <1>2, SumAdd
<1>5. Bytes(items, s) = SumSet(Im(s)) - SumSet(s)
  BY DEF Bytes
<1>6. Bytes(items, s \cup {o}) = SumSet(Im(s \cup {o})) - SumSet(s \cup {o})
  BY DEF Bytes
<1>7. Bytes(items, s \cup {o}) = (SumSet(Im(s)) + items[o].next) - (SumSet(s) + o)
  <2> HIDE DEF Im
  <2> QED BY <1>2, <1>3, <1>4, <1>6
<1> HIDE DEF Im
<1> QED BY <1>1, <1>3, <1>4, <1>5, <1>7

LEMMA BytesRemove ==
  ASSUME NEW items, Chain(items), NEW s \in SUBSET Inner(items), NEW o \in s
  PROVE  /\ Bytes(items, s \ {o}) \in Int
         /\ Bytes(items, s) = Bytes(items, s \ {o}) + (items[o].next - o)
<1>1. (s \ {o}) \cup {o} = s /\ s \ {o} \in SUBSET Inner(items) /\ o \in Inner(items)
  OBVIOUS
<1> QED BY <1>1, BytesAdd

LEMMA BytesMore ==
  ASSUME NEW items, Chain(items), NEW t \in SUBSET Inner(items), NEW s \in SUBSET t
  PROVE  Bytes(items, s) <= Bytes(items, t) /\ Bytes(items, s) \in Int /\ Bytes(items, t) \in Int
<1> DEFINE F == {r \in SUBSET (t \ s) : ~ (Bytes(items, s) <= Bytes(items, s \cup r))}
<1>1. \A u \in SUBSET Inner(items) : Bytes(items, u) \in Int
  <2> SUFFICES ASSUME NEW u \in SUBSET Inner(items) PROVE Bytes(items, u) \in Int
    OBVIOUS
  <2>1. u \in SUBSET DOMAIN items /\ {items[o].next : o \in u} \in SUBSET DOMAIN items
    BY ChainFacts DEF Inner
  <2>2. SumSet(u) \in Int /\ SumSet({items[o].next : o \in u}) \in Int
    BY <2>1, FiniteItems, SumInt
  <2> QED BY <2>2 DEF Bytes
<1>2. F = {}
  <2> SUFFICES ASSUME F # {} PROVE FALSE
    OBVIOUS
  <2>1. \A r \in F : IsFiniteSet(r)
    BY FiniteItems DEF Inner
  <2>2. PICK r \in F : \A x \in r : r \ {x} \notin F
    <3> HIDE DEF F
    <3> QED BY <2>1, LeastSet
  <2>3. /\ r \in SUBSET (t \ s) /\ ~ (Bytes(items, s) <= Bytes(items, s \cup r))
        /\ s \cup r \in SUBSET Inner(items)
    BY <2>2
  <2>4. r # {}
    <3>1. s \cup {} = s /\ s \in SUBSET Inner(items)
      OBVIOUS
    <3> QED BY <1>1, <2>3, <3>1
  <2>5. PICK x \in r : TRUE
    BY <2>4
  <2>6. Bytes(items, s) <= Bytes(items, s \cup (r \ {x}))
    BY <2>2, <2>3
  <2>7. /\ Bytes(items, s \cup r) = Bytes(items, s \cup (r \ {x})) + (items[x].next - x)
        /\ items[x].next - x > 0
    <3>1. s \cup r = (s \cup (r \ {x})) \cup {x} /\ x \notin s \cup (r \ {x})
          /\ s \cup (r \ {x}) \in SUBSET Inner(items) /\ x \in Inner(items)
      BY <2>3
    <3>2. Bytes(items, s \cup r) = Bytes(items, s \cup (r \ {x})) + (items[x].next - x)
      BY <3>1, BytesAdd
    <3>3. items[x].next > x /\ x \in Int /\ items[x].next \in Int
      BY <3>1, ChainFacts DEF Inner
    <3> QED BY <3>2, <3>3
  <2>8. /\ Bytes(items, s) \in Int /\ Bytes(items, s \cup (r \ {x})) \in Int
        /\ items[x].next - x \in Int
    <3>1. s \in SUBSET Inner(items) /\ s \cup (r \ {x}) \in SUBSET Inner(items)
          /\ x \in Inner(items)
      BY <2>3
    <3>2. items[x].next \in Int /\ x \in Int
      BY <3>1, ChainFacts DEF Inner
    <3> QED BY <1>1, <3>1, <3>2
  <2> HIDE DEF F
  <2> QED BY <2>3, <2>6, <2>7, <2>8
<1>3. s \cup (t \ s) = t
  OBVIOUS
<1>4. Bytes(items, s) <= Bytes(items, s \cup (t \ s))
  BY <1>2
<1> QED BY <1>1, <1>3, <1>4

\* The items fill the heap.
LEMMA BytesTotal ==
  ASSUME NEW items, Chain(items)
  PROVE  Bytes(items, Inner(items)) = heap_end /\ Bytes(items, {}) = 0
<1> DEFINE D == DOMAIN items
<1>1. {items[o].next : o \in Inner(items)} = D \ {0}
  <2>1. \A o \in Inner(items) : items[o].next \in D \ {0}
    BY ChainFacts DEF Inner
  <2>2. \A x \in D \ {0} : \E p \in Inner(items) : items[p].next = x
    BY Predecessor
  <2> QED BY <2>1, <2>2
<1>2. IsFiniteSet(D) /\ D \in SUBSET Int /\ 0 \in D /\ heap_end \in D /\ heap_end \in Int
  BY FiniteItems, MemSizes DEF Chain
<1>3. SumSet(D) = 0 + SumSet(D \ {0}) /\ SumSet(D) = heap_end + SumSet(D \ {heap_end})
  BY <1>2, SumRemove
<1>4. SumSet(D \ {0}) \in Int /\ SumSet(D \ {heap_end}) \in Int
  <2>1. D \ {0} \in SUBSET D /\ D \ {heap_end} \in SUBSET D
    OBVIOUS
  <2> QED BY <2>1, FiniteItems, SumInt
<1>5. SumSet({items[o].next : o \in Inner(items)}) - SumSet(Inner(items)) = heap_end
  <2>1. Inner(items) = D \ {heap_end}
    BY DEF Inner
  <2>2. SumSet(D \ {0}) - SumSet(D \ {heap_end}) = heap_end
    <3> HIDE DEF D
    <3> QED BY <1>2, <1>3, <1>4
  <2> QED BY <1>1, <2>1, <2>2
<1>6. SumSet({}) = 0 /\ {items[o].next : o \in {}} = {}
  BY SumStep, FS_EmptySet
<1> QED BY <1>5, <1>6 DEF Bytes

LEMMA BytesBound ==
  ASSUME NEW items, Chain(items), NEW s \in SUBSET Inner(items)
  PROVE  Bytes(items, s) \in Int /\ 0 <= Bytes(items, s) /\ Bytes(items, s) <= heap_end
<1>1. {} \in SUBSET s /\ Inner(items) \in SUBSET Inner(items)
  OBVIOUS
<1> QED BY <1>1, BytesMore, BytesTotal

\* Marking an item leaves the chain alone.
LEMMA MarkOK ==
  ASSUME NEW items, Chain(items), NEW o \in Inner(items), NEW v \in BOOLEAN
  PROVE  LET m == [items EXCEPT ![o].used = v]
         IN  /\ Chain(m) /\ DOMAIN m = DOMAIN items /\ m[o].used = v
             /\ \A x \in DOMAIN items : m[x].next = items[x].next /\ m[x].prev = items[x].prev
             /\ \A x \in DOMAIN items \ {o} : m[x].used = items[x].used
<1> DEFINE m == [items EXCEPT ![o].used = v]
<1>1. \A x \in DOMAIN items : items[x] \in Item
  BY DEF Chain
<1>2. o \in DOMAIN items /\ o # heap_end /\ heap_end \in DOMAIN items /\ 0 \in DOMAIN items
  BY DEF Inner, Chain
<1>3. /\ DOMAIN m = DOMAIN items /\ m[o] = [items[o] EXCEPT !.used = v]
      /\ \A x \in DOMAIN items \ {o} : m[x] = items[x]
  BY <1>2
<1> HIDE DEF m
<1>4. /\ m[o].used = v /\ m[o].next = items[o].next /\ m[o].prev = items[o].prev
      /\ m[o] \in Item
  BY <1>1, <1>2, <1>3 DEF Item
<1>5. /\ \A x \in DOMAIN items : m[x].next = items[x].next /\ m[x].prev = items[x].prev
      /\ \A x \in DOMAIN items \ {o} : m[x].used = items[x].used
  BY <1>3, <1>4
<1>6. Chain(m)
  <2>1. \A x \in DOMAIN m : Multiple(x) /\ m[x] \in Item
    BY <1>3, <1>4 DEF Chain
  <2>2. \A x \in Inner(m) :
          /\ m[x].next \in DOMAIN m /\ x < m[x].next
          /\ \A y \in DOMAIN m : ~ (x < y /\ y < m[x].next)
          /\ m[x].next # heap_end => m[m[x].next].prev = x
    BY <1>3, <1>5 DEF Chain, Inner
  <2>3. m[0].prev = 0 /\ m[heap_end].used /\ m[heap_end].next = heap_end
    BY <1>2, <1>5 DEF Chain
  <2> QED BY <1>3, <2>1, <2>2, <2>3 DEF Chain
<1> QED BY <1>3, <1>4, <1>5, <1>6 DEF m

\* Merging an item into its left neighbour.
LEMMA MergeOK ==
  ASSUME NEW items, Chain(items), NEW a \in Inner(items), NEW b, b = items[a].next,
         b # heap_end
  PROVE  LET m == Merge(items, a, b)
         IN  /\ Chain(m) /\ DOMAIN m = DOMAIN items \ {b} /\ b \in Inner(items) /\ b > a
             /\ m[a].next = items[b].next /\ m[a].prev = items[a].prev
             /\ \A x \in DOMAIN m : m[x].used = items[x].used
             /\ \A x \in DOMAIN m \ {a} : m[x].next = items[x].next
<1> DEFINE D == DOMAIN items
           n == items[b].next
           m == Merge(items, a, b)
<1>1. /\ \A x \in D : x \in Int /\ 0 <= x /\ x <= heap_end /\ Multiple(x) /\ items[x] \in Item
      /\ a \in D /\ a # heap_end /\ b \in Inner(items) /\ b \in D /\ a < b
  BY ChainFacts DEF Chain, Inner
<1>2. n \in D /\ b < n /\ a < n /\ n # a /\ n # b /\ b # a /\ b # 0
  BY <1>1, ChainFacts
<1>3. /\ DOMAIN m = D \ {b}
      /\ m[a] = [items[a] EXCEPT !.next = n]
      /\ m[n] = [items[n] EXCEPT !.prev = a]
      /\ \A x \in D \ {a, b, n} : m[x] = items[x]
  BY <1>1, <1>2 DEF Merge
<1> HIDE DEF m
<1>4. /\ m[a].next = n /\ m[a].prev = items[a].prev /\ m[a].used = items[a].used
      /\ m[a] \in Item
      /\ m[n].next = items[n].next /\ m[n].prev = a /\ m[n].used = items[n].used
      /\ m[n] \in Item
  <2>1. n \in 0 .. heap_end /\ a \in 0 .. heap_end
    BY <1>1, <1>2, MemSizes
  <2> QED BY <1>1, <1>2, <1>3, <2>1 DEF Item
<1>5. /\ \A x \in DOMAIN m : m[x].used = items[x].used
      /\ \A x \in DOMAIN m \ {a} : m[x].next = items[x].next
      /\ \A x \in DOMAIN m \ {n} : m[x].prev = items[x].prev
  BY <1>3, <1>4
<1>6. \A x \in DOMAIN m : Multiple(x) /\ m[x] \in Item
  BY <1>1, <1>3, <1>4
<1>7. ASSUME NEW x \in Inner(m)
      PROVE  /\ m[x].next \in DOMAIN m /\ x < m[x].next
             /\ \A y \in DOMAIN m : ~ (x < y /\ y < m[x].next)
             /\ m[x].next # heap_end => m[m[x].next].prev = x
  <2>0. x \in Inner(items) /\ x # b
    BY <1>3 DEF Inner
  <2>1. CASE x = a
    <3>1. \A y \in D : ~ (a < y /\ y < b)
      BY DEF Chain
    <3>2. \A y \in D : ~ (b < y /\ y < n)
      BY <1>1 DEF Chain
    <3>3. \A y \in D \ {b} : ~ (a < y /\ y < n)
      BY <1>1, <1>2, <3>1, <3>2
    <3> QED BY <1>2, <1>3, <1>4, <2>1, <3>3
  <2>2. CASE x # a
    <3> DEFINE k == items[x].next
    <3>1. /\ m[x].next = k /\ k \in D /\ x < k
          /\ \A y \in D : ~ (x < y /\ y < k)
          /\ k # heap_end => items[k].prev = x
      BY <1>3, <1>5, <2>0, <2>2 DEF Chain, Inner
    <3>2. k # b /\ k # n
      BY <1>1, <2>0, <2>2, ChainFacts
    <3>3. k \in DOMAIN m /\ m[k].prev = items[k].prev
      BY <1>3, <1>5, <3>1, <3>2
    <3> HIDE DEF k
    <3> QED BY <1>3, <3>1, <3>3
  <2> QED BY <2>1, <2>2
<1>8. m[0].prev = 0 /\ m[heap_end].used /\ m[heap_end].next = heap_end
  <2>1. 0 \in DOMAIN m /\ heap_end \in DOMAIN m /\ 0 # n /\ heap_end # a
    BY <1>1, <1>2, <1>3 DEF Chain
  <2> QED BY <1>5, <2>1 DEF Chain
<1>9. Chain(m)
  <2>1. DOMAIN m \subseteq 0 .. heap_end /\ 0 \in DOMAIN m /\ heap_end \in DOMAIN m
    BY <1>1, <1>2, <1>3 DEF Chain
  <2> QED BY <1>6, <1>7, <1>8, <2>1 DEF Chain
<1> QED BY <1>1, <1>3, <1>4, <1>5, <1>9 DEF m

-----------------------------------------------------------------------------
\* plug_holes, on any heap.

LEMMA MinOK ==
  ASSUME NEW S \in SUBSET Nat, S # {}
  PROVE  Min(S) \in S /\ \A x \in S : Min(S) <= x
BY LeastNat DEF Min

\* No two free items are neighbours, o left aside in the second.
Tidy(items) ==
  \A a \in Inner(items) : items[a].used \/ items[items[a].next].used
NearlyTidy(items, o) ==
  \A a \in Inner(items) :
    a # o /\ items[a].next # o => items[a].used \/ items[items[a].next].used

\* lfree is the first free item.
Lowest(items, l) ==
  /\ l \in DOMAIN items /\ (l = heap_end \/ ~ items[l].used)
  /\ \A x \in DOMAIN items : x < l => items[x].used

\* A heap whose callers hold the blocks at the offsets s.
HeapOK(h, s) ==
  /\ h = [items |-> h.items, lfree |-> h.lfree, used |-> h.used, max |-> h.max]
  /\ Chain(h.items) /\ s = {o \in Inner(h.items) : h.items[o].used}
  /\ h.used = Bytes(h.items, s) /\ h.max \in h.used .. heap_end
  /\ Lowest(h.items, h.lfree)

LEMMA LowestOK ==
  ASSUME NEW items, Chain(items)
  PROVE  \A l : Lowest(items, l) <=> l = NextFree(items, 0)
<1> DEFINE T(o) == {x \in DOMAIN items : x >= o /\ (x = heap_end \/ ~ items[x].used)}
<1>1. T(0) \in SUBSET Nat /\ heap_end \in T(0)
  BY ChainFacts, MemSizes DEF Chain
<1>2. Min(T(0)) \in T(0) /\ \A x \in T(0) : Min(T(0)) <= x
  <2> HIDE DEF T
  <2> QED BY <1>1, MinOK
<1>3. NextFree(items, 0) = Min(T(0))
  BY DEF NextFree
<1>4. \A x \in DOMAIN items : x \in Int /\ 0 <= x /\ x <= heap_end
  BY ChainFacts
<1> DEFINE m == Min(T(0))
<1>5. m \in T(0) /\ \A x \in T(0) : m <= x
  BY <1>2
<1> HIDE DEF m
<1>6. Lowest(items, m)
  <2>1. ASSUME NEW x \in DOMAIN items, x < m PROVE items[x].used
    <3>1. x \notin T(0)
      BY <1>4, <1>5, <2>1
    <3> QED BY <1>4, <3>1
  <2> QED BY <1>5, <2>1 DEF Lowest
<1>7. ASSUME NEW l, Lowest(items, l) PROVE l = m
  <2>1. l \in T(0) /\ m <= l
    BY <1>4, <1>5, <1>7 DEF Lowest
  <2>2. ~ (m < l)
    <3>1. m < l => items[m].used
      BY <1>5, <1>7 DEF Lowest
    <3>2. m = heap_end \/ ~ items[m].used
      BY <1>5
    <3>3. l <= heap_end /\ l \in Int /\ m \in Int
      BY <1>4, <1>5, <1>7 DEF Lowest
    <3> QED BY <3>1, <3>2, <3>3, MemSizes
  <2> QED BY <1>4, <1>5, <2>1, <2>2
<1> QED BY <1>3, <1>6, <1>7 DEF m

\* The search for the next free item, from the first free one on.
LEMMA NextFreeOK ==
  ASSUME NEW items, Chain(items), NEW o \in DOMAIN items,
         \A x \in DOMAIN items : x < o => items[x].used
  PROVE  Lowest(items, NextFree(items, o))
<1> DEFINE T == {x \in DOMAIN items : x >= o /\ (x = heap_end \/ ~ items[x].used)}
           m == Min(T)
<1>1. /\ \A x \in DOMAIN items : x \in Int /\ 0 <= x /\ x <= heap_end
      /\ heap_end \in DOMAIN items
  BY ChainFacts DEF Chain
<1>2. T \in SUBSET Nat /\ heap_end \in T
  BY <1>1
<1>3. m \in T /\ \A x \in T : m <= x
  <2> HIDE DEF T
  <2> QED BY <1>2, MinOK
<1>4. NextFree(items, o) = m
  BY DEF NextFree
<1> HIDE DEF m
<1>5. ASSUME NEW x \in DOMAIN items, x < m PROVE items[x].used
  <2>1. x \notin T
    BY <1>1, <1>3, <1>5
  <2> QED BY <1>1, <1>5, <2>1
<1> QED BY <1>3, <1>4, <1>5 DEF Lowest

LEMMA AbsorbOK ==
  ASSUME NEW h, NEW s, HeapOK(h, s), NEW a \in Inner(h.items), NEW b, b = h.items[a].next,
         b # heap_end, ~ h.items[a].used, ~ h.items[b].used
  PROVE  LET g == Absorb(h, a, b)
         IN  HeapOK(g, s) /\ g.items = Merge(h.items, a, b)
<1> DEFINE g == Absorb(h, a, b)
           m == Merge(h.items, a, b)
<1>0. Chain(h.items) /\ DOMAIN h = {"items", "lfree", "used", "max"}
  BY DEF HeapOK
<1>1. /\ Chain(m) /\ DOMAIN m = DOMAIN h.items \ {b} /\ b \in Inner(h.items) /\ b > a
      /\ \A x \in DOMAIN m : m[x].used = h.items[x].used
      /\ \A x \in DOMAIN m \ {a} : m[x].next = h.items[x].next
  BY <1>0, MergeOK
<1> HIDE DEF m
<1>2. /\ g.items = m /\ g.lfree = (IF h.lfree = b THEN a ELSE h.lfree)
      /\ g.used = h.used /\ g.max = h.max
      /\ g = [items |-> g.items, lfree |-> g.lfree, used |-> g.used, max |-> g.max]
  <2>1. /\ g.items = m /\ g.lfree = (IF h.lfree = b THEN a ELSE h.lfree)
        /\ g.used = h.used /\ g.max = h.max
    BY <1>0 DEF Absorb, m
  <2>2. DOMAIN g = {"items", "lfree", "used", "max"}
        /\ g = [x \in DOMAIN g |-> g[x]]
    BY <1>0 DEF Absorb
  <2> HIDE DEF g
  <2> QED BY <2>1, <2>2
<1> HIDE DEF g
<1>3. s = {o \in Inner(m) : m[o].used}
  BY <1>1 DEF HeapOK, Inner
<1>4. \A x \in s : m[x].next = h.items[x].next
  BY <1>1, <1>3 DEF Inner, HeapOK
<1>5. Bytes(m, s) = Bytes(h.items, s)
  <2>1. {m[o].next : o \in s} = {h.items[o].next : o \in s}
    BY <1>4
  <2> QED BY <2>1 DEF Bytes
<1>6. Lowest(m, g.lfree)
  <2>1. h.lfree # b
    <3>1. a \in DOMAIN h.items
      BY DEF Inner
    <3>2. ~ (a < h.lfree)
      BY <3>1 DEF HeapOK, Lowest
    <3> QED BY <1>1, <3>2
  <2> QED BY <1>1, <1>2, <2>1 DEF HeapOK, Lowest
<1>7. HeapOK(g, s)
  BY <1>1, <1>2, <1>3, <1>5, <1>6 DEF HeapOK
<1> QED BY <1>2, <1>7 DEF g, m

LEMMA PlugForwardOK ==
  ASSUME NEW h, NEW s, HeapOK(h, s), NEW o \in Inner(h.items), ~ h.items[o].used,
         NearlyTidy(h.items, o)
  PROVE  LET g == PlugForward(h, o)
         IN  /\ HeapOK(g, s) /\ o \in Inner(g.items) /\ ~ g.items[o].used
             /\ \A a \in Inner(g.items) :
                  g.items[a].next # o => g.items[a].used \/ g.items[g.items[a].next].used
             /\ \A x \in s : g.items[x].next = h.items[x].next
<1> DEFINE n == h.items[o].next
           g == PlugForward(h, o)
<1>0. Chain(h.items) /\ n # o /\ n \in DOMAIN h.items
  BY ChainFacts DEF HeapOK, Inner
<1>1. CASE h.items[n].used \/ n = heap_end
  <2>1. g = h
    BY <1>0, <1>1 DEF PlugForward
  <2>2. h.items[n].used
    BY <1>0, <1>1 DEF Chain
  <2> QED BY <2>1, <2>2 DEF NearlyTidy
<1>2. CASE ~ h.items[n].used /\ n # heap_end
  <2> DEFINE m == Merge(h.items, o, n)
  <2>1. HeapOK(g, s) /\ g.items = m
    <3>1. g = Absorb(h, o, n)
      BY <1>0, <1>2 DEF PlugForward
    <3> QED BY <1>2, <3>1, AbsorbOK
  <2>2. /\ Chain(m) /\ DOMAIN m = DOMAIN h.items \ {n} /\ n \in Inner(h.items) /\ n > o
        /\ m[o].next = h.items[n].next
        /\ \A x \in DOMAIN m : m[x].used = h.items[x].used
        /\ \A x \in DOMAIN m \ {o} : m[x].next = h.items[x].next
    BY <1>0, <1>2, MergeOK
  <2> HIDE DEF m, g
  <2>3. o \in Inner(m) /\ ~ m[o].used
    BY <1>0, <2>2 DEF Inner
  <2>4. \A x \in s : m[x].next = h.items[x].next
    <3>1. \A x \in s : x \in DOMAIN h.items /\ x # n /\ x # o
      BY <1>2 DEF HeapOK, Inner
    <3> QED BY <2>2, <3>1
  <2>5. ASSUME NEW a \in Inner(m), m[a].next # o PROVE m[a].used \/ m[m[a].next].used
    <3>0. a \in Inner(h.items) /\ a # n /\ m[a].next \in DOMAIN m
      BY <2>2, ChainFacts DEF Inner
    <3>1. CASE a = o
      <4>1. h.items[h.items[n].next].used
        <5>1. h.items[n].next # o /\ n # o
          BY <1>0, <2>2, ChainFacts DEF Inner
        <5> QED BY <1>2, <2>2, <5>1 DEF NearlyTidy
      <4> QED BY <2>2, <3>0, <3>1, <4>1
    <3>2. CASE a # o
      <4>1. m[a].next = h.items[a].next
        BY <2>2, <3>0, <3>2 DEF Inner
      <4>2. h.items[a].used \/ h.items[h.items[a].next].used
        BY <2>5, <3>0, <3>2, <4>1 DEF NearlyTidy
      <4> QED BY <2>2, <3>0, <4>1, <4>2 DEF Inner
    <3> QED BY <3>1, <3>2
  <2> QED BY <2>1, <2>3, <2>4, <2>5 DEF g
<1> QED BY <1>0, <1>1, <1>2

LEMMA PlugBackwardOK ==
  ASSUME NEW h, NEW s, HeapOK(h, s), NEW o \in Inner(h.items), ~ h.items[o].used,
         \A a \in Inner(h.items) :
           h.items[a].next # o => h.items[a].used \/ h.items[h.items[a].next].used
  PROVE  LET g == PlugBackward(h, o)
         IN  /\ HeapOK(g, s) /\ Tidy(g.items)
             /\ \A x \in s : g.items[x].next = h.items[x].next
<1> DEFINE p == h.items[o].prev
           g == PlugBackward(h, o)
<1>0. Chain(h.items) /\ h.items[o].next # o
  BY ChainFacts DEF HeapOK, Inner
<1>1. /\ o = 0 => p = 0
      /\ o # 0 => p \in Inner(h.items) /\ p < o /\ h.items[p].next = o
  BY <1>0, PredOf
<1>4. PlugBackward(h, o) = IF p # o /\ ~ h.items[p].used THEN Absorb(h, p, o) ELSE h
  BY DEF PlugBackward
<1> HIDE DEF p
<1>2. CASE p = o \/ h.items[p].used
  <2>1. g = h
    BY <1>2, <1>4
  <2>2. ASSUME NEW a \in Inner(h.items), h.items[a].next = o PROVE h.items[a].used
    <3>1. o # 0 /\ p # o
      BY <1>0, <1>1, <2>2, ChainFacts DEF Inner
    <3>2. a = p
      BY <1>0, <1>1, <2>2, <3>1, ChainFacts
    <3> QED BY <1>2, <3>1, <3>2
  <2> QED BY <2>1, <2>2 DEF Tidy
<1>3. CASE p # o /\ ~ h.items[p].used
  <2> DEFINE m == Merge(h.items, p, o)
  <2>0. p \in Inner(h.items) /\ h.items[p].next = o /\ o # heap_end /\ p < o
    BY <1>1, <1>3 DEF Inner
  <2>1. HeapOK(g, s) /\ g.items = m
    <3>1. g = Absorb(h, p, o)
      BY <1>3, <1>4
    <3> QED BY <1>3, <2>0, <3>1, AbsorbOK
  <2>2. /\ Chain(m) /\ DOMAIN m = DOMAIN h.items \ {o}
        /\ m[p].next = h.items[o].next
        /\ \A x \in DOMAIN m : m[x].used = h.items[x].used
        /\ \A x \in DOMAIN m \ {p} : m[x].next = h.items[x].next
    BY <1>0, <2>0, MergeOK
  <2> HIDE DEF m, g
  <2>4. \A x \in s : m[x].next = h.items[x].next
    <3>1. \A x \in s : x \in DOMAIN h.items /\ x # o /\ x # p
      BY <1>3 DEF HeapOK, Inner
    <3> QED BY <2>2, <3>1
  <2>5. ASSUME NEW a \in Inner(m) PROVE m[a].used \/ m[m[a].next].used
    <3>0. a \in Inner(h.items) /\ a # o /\ m[a].next \in DOMAIN m
      BY <2>2, ChainFacts DEF Inner
    <3>1. CASE a = p
      BY <1>0, <2>2, <3>0, <3>1
    <3>2. CASE a # p
      <4>1. m[a].next = h.items[a].next /\ m[a].next # o
        BY <2>2, <3>0, <3>2 DEF Inner
      <4> QED BY <2>2, <3>0, <4>1 DEF Inner
    <3> QED BY <3>1, <3>2
  <2> QED BY <2>1, <2>4, <2>5 DEF g, Tidy
<1> QED BY <1>2, <1>3

LEMMA PlugOK ==
  ASSUME NEW h, NEW s, HeapOK(h, s), NEW o \in Inner(h.items), ~ h.items[o].used,
         NearlyTidy(h.items, o)
  PROVE  LET g == plug_holes(h, o)
         IN  /\ HeapOK(g, s) /\ Tidy(g.items)
             /\ \A x \in s : g.items[x].next = h.items[x].next
<1> DEFINE f == PlugForward(h, o)
           g == PlugBackward(f, o)
<1>1. /\ HeapOK(f, s) /\ o \in Inner(f.items) /\ ~ f.items[o].used
      /\ \A a \in Inner(f.items) :
           f.items[a].next # o => f.items[a].used \/ f.items[f.items[a].next].used
      /\ \A x \in s : f.items[x].next = h.items[x].next
  BY PlugForwardOK
<1> HIDE DEF f
<1>2. HeapOK(g, s) /\ Tidy(g.items) /\ \A x \in s : g.items[x].next = f.items[x].next
  BY <1>1, PlugBackwardOK
<1>3. plug_holes(h, o) = g
  BY DEF plug_holes, f
<1> HIDE DEF g
<1> QED BY <1>1, <1>2, <1>3

-----------------------------------------------------------------------------
\* The calls, on any heap.

LEMMA NeedOK ==
  ASSUME NEW size \in Nat
  PROVE  Need(size) \in Nat /\ Multiple(Need(size)) /\ MIN_SIZE_ALIGNED \in Nat
<1>1. RT_ALIGN(size) \in Nat /\ Multiple(RT_ALIGN(size))
  BY AlignOK, MemSizes
<1>2. MIN_SIZE_ALIGNED \in Nat /\ Multiple(MIN_SIZE_ALIGNED)
  BY AlignOK, MemSizes DEF MIN_SIZE_ALIGNED
<1> QED BY <1>1, <1>2 DEF Need, Larger

\* What holds of a heap between two calls.
HeapInv(h, s) == HeapOK(h, s) /\ Tidy(h.items)

\* Parts of HeapOK that are arithmetic.
LEMMA HeapNumbers ==
  ASSUME NEW h, NEW s, HeapOK(h, s)
  PROVE  /\ h.used \in 0 .. heap_end /\ h.max \in h.used .. heap_end
         /\ DOMAIN h = {"items", "lfree", "used", "max"}
         /\ s \in SUBSET Inner(h.items) /\ s \in SUBSET Int
<1>1. Chain(h.items) /\ s \in SUBSET Inner(h.items) /\ h.used = Bytes(h.items, s)
      /\ h.max \in h.used .. heap_end
  BY DEF HeapOK
<1>2. h.used \in Int /\ 0 <= h.used /\ h.used <= heap_end
  BY <1>1, BytesBound
<1>3. DOMAIN h = {"items", "lfree", "used", "max"}
  BY DEF HeapOK
<1>4. s \in SUBSET Int
  BY <1>1, FiniteItems DEF Inner
<1>5. h.used \in 0 .. heap_end
  BY <1>2, MemSizes
<1> QED BY <1>1, <1>3, <1>4, <1>5

LEMMA FreedOK ==
  ASSUME NEW h, NEW s, HeapInv(h, s), NEW o \in s
  PROVE  LET g == Freed(h, o)
         IN  /\ HeapInv(g, s \ {o})
             /\ \A x \in s \ {o} : g.items[x].next = h.items[x].next
<1> DEFINE m == [h.items EXCEPT ![o].used = FALSE]
           l == IF o < h.lfree THEN o ELSE h.lfree
           u == h.used - (h.items[o].next - o)
           f == [h EXCEPT !.items[o].used = FALSE, !.lfree = l, !.used = u]
<1>1. /\ Chain(h.items) /\ o \in Inner(h.items) /\ Tidy(h.items)
      /\ h.used \in 0 .. heap_end /\ h.max \in h.used .. heap_end
      /\ DOMAIN h = {"items", "lfree", "used", "max"}
      /\ s = {x \in Inner(h.items) : h.items[x].used} /\ s \in SUBSET Inner(h.items)
      /\ Lowest(h.items, h.lfree) /\ h.used = Bytes(h.items, s)
  BY HeapNumbers DEF HeapInv, HeapOK
<1>2. /\ Chain(m) /\ DOMAIN m = DOMAIN h.items /\ ~ m[o].used
      /\ \A x \in DOMAIN h.items : m[x].next = h.items[x].next
      /\ \A x \in DOMAIN h.items \ {o} : m[x].used = h.items[x].used
  BY <1>1, MarkOK
<1>3. /\ f.items = m /\ f.lfree = l /\ f.used = u /\ f.max = h.max
      /\ f = [items |-> f.items, lfree |-> f.lfree, used |-> f.used, max |-> f.max]
  <2>1. f.items = m /\ f.lfree = l /\ f.used = u /\ f.max = h.max
    BY <1>1
  <2>2. DOMAIN f = {"items", "lfree", "used", "max"} /\ f = [x \in DOMAIN f |-> f[x]]
    BY <1>1
  <2> HIDE DEF f
  <2> QED BY <2>1, <2>2
<1>4. Freed(h, o) = plug_holes(f, o)
  BY DEF Freed
<1> HIDE DEF f, m
<1>5. s \ {o} = {x \in Inner(m) : m[x].used}
  BY <1>1, <1>2 DEF Inner
<1>6. u = Bytes(m, s \ {o}) /\ f.max \in u .. heap_end
  <2>1. {m[x].next : x \in s \ {o}} = {h.items[x].next : x \in s \ {o}}
    BY <1>1, <1>2 DEF Inner
  <2>2. Bytes(m, s \ {o}) = Bytes(h.items, s \ {o})
    BY <2>1 DEF Bytes
  <2>3. /\ Bytes(h.items, s \ {o}) \in Int
        /\ Bytes(h.items, s) = Bytes(h.items, s \ {o}) + (h.items[o].next - o)
    BY <1>1, BytesRemove
  <2>4. o \in Int /\ h.items[o].next \in Int /\ o < h.items[o].next
    BY <1>1, ChainFacts DEF Inner
  <2> QED BY <1>1, <1>3, <2>2, <2>3, <2>4, MemSizes
<1>7. Lowest(m, l)
  <2>1. \A x \in DOMAIN m : x \in Int
    BY <1>2, ChainFacts
  <2> QED BY <1>1, <1>2, <2>1 DEF Lowest, Inner
<1>8. HeapOK(f, s \ {o})
  BY <1>2, <1>3, <1>5, <1>6, <1>7 DEF HeapOK
<1>9. o \in Inner(f.items) /\ ~ f.items[o].used /\ NearlyTidy(f.items, o)
  <2>1. o \in Inner(m) /\ ~ m[o].used
    BY <1>1, <1>2 DEF Inner
  <2>2. ASSUME NEW a \in Inner(m), a # o, m[a].next # o
        PROVE  m[a].used \/ m[m[a].next].used
    <3>1. a \in Inner(h.items) /\ m[a].next = h.items[a].next /\ m[a].next \in DOMAIN h.items
      BY <1>2, ChainFacts DEF Inner
    <3> QED BY <1>1, <1>2, <2>2, <3>1 DEF Tidy, Inner
  <2> QED BY <1>3, <2>1, <2>2 DEF NearlyTidy
<1>10. \A x \in s \ {o} : f.items[x].next = h.items[x].next
  BY <1>1, <1>2, <1>3 DEF Inner
<1> QED BY <1>4, <1>8, <1>9, <1>10, PlugOK DEF HeapInv

LEMMA FoundOK ==
  ASSUME NEW h, NEW s, HeapInv(h, s), NEW size \in Nat, CanAlloc(h, size)
  PROVE  /\ Found(h, size) \in Inner(h.items) /\ ~ h.items[Found(h, size)].used
         /\ Found(h, size) \in Int /\ h.lfree <= Found(h, size)
         /\ h.items[Found(h, size)].next - (Found(h, size) + Header) >= Need(size)
<1> DEFINE F == Fits(h, Need(size))
           o == Found(h, size)
<1>1. Chain(h.items)
  BY DEF HeapInv, HeapOK
<1>2. F \in SUBSET Nat /\ F # {}
  BY <1>1, ChainFacts DEF Fits, CanAlloc
<1>3. o \in F
  <2> HIDE DEF F
  <2>1. o = Min(F)
    BY DEF Found, F
  <2> QED BY <1>2, <2>1, MinOK
<1>4. o \in DOMAIN h.items /\ ~ h.items[o].used /\ h.lfree <= o /\ Room(h.items, o) >= Need(size)
  BY <1>3 DEF Fits
<1> HIDE DEF o
<1>5. o \in Inner(h.items)
  BY <1>1, <1>4 DEF Inner, Chain
<1> QED BY <1>1, <1>4, <1>5, ChainFacts DEF Room, o

LEMMA AllocatedOK ==
  ASSUME NEW h, NEW s, HeapInv(h, s), NEW size \in Nat, CanAlloc(h, size)
  PROVE  LET o == Found(h, size)
             g == Allocated(h, size)
         IN  /\ HeapInv(g, s \cup {o}) /\ o \notin s /\ o \in Inner(h.items)
             /\ \A x \in s : g.items[x].next = h.items[x].next
             /\ g.items[o].next >= o + Header + Need(size)
             /\ g.items[o].next <= h.items[o].next
<1> DEFINE n == Need(size)
           o == Found(h, size)
           k == h.items[o].next
           whole == k - (o + Header) < n + Header + MIN_SIZE_ALIGNED
           cut == IF whole THEN h.items ELSE Split(h.items, o, n)
           m == [cut EXCEPT ![o].used = TRUE]
           l == IF o = h.lfree THEN NextFree(m, o) ELSE h.lfree
           u == h.used + (IF whole THEN (k - (o + Header)) + Header ELSE n + Header)
           g == Allocated(h, size)
           t == s \cup {o}
<1>1. /\ Chain(h.items) /\ Tidy(h.items)
      /\ h.used \in 0 .. heap_end /\ h.max \in h.used .. heap_end
      /\ DOMAIN h = {"items", "lfree", "used", "max"}
      /\ s = {x \in Inner(h.items) : h.items[x].used} /\ s \in SUBSET Inner(h.items)
      /\ Lowest(h.items, h.lfree) /\ h.used = Bytes(h.items, s)
  BY HeapNumbers DEF HeapInv, HeapOK
<1>2. /\ o \in Inner(h.items) /\ ~ h.items[o].used /\ o \in Int /\ h.lfree <= o
      /\ k - (o + Header) >= n
  BY FoundOK
<1>3. n \in Nat /\ Multiple(n) /\ MIN_SIZE_ALIGNED \in Nat /\ Header \in Nat /\ Header > 0
      /\ heap_end \in Nat
  BY NeedOK, MemSizes
<1>4. g = [items |-> m, lfree |-> l, used |-> u, max |-> Larger(h.max, u)]
  <2>1. Room(h.items, o) = k - (o + Header)
    BY DEF Room
  <2>2. whole <=> ~ (Room(h.items, o) >= n + Header + MIN_SIZE_ALIGNED)
    <3>1. k \in Int
      BY <1>1, <1>2, ChainFacts
    <3> HIDE DEF k, n, o
    <3> QED BY <1>2, <1>3, <2>1, <3>1
  <2>3. u = h.used + Charge(h.items, o, n)
    BY <2>1, <2>2 DEF Charge
  <2> HIDE DEF u, o, n
  <2>4. g = [items |-> m, lfree |-> l, used |-> h.used + Charge(h.items, o, n),
             max |-> Larger(h.max, h.used + Charge(h.items, o, n))]
    BY <2>1 DEF Allocated, o, n
  <2> QED BY <2>3, <2>4
<1> HIDE DEF o, n, g
<1>5. k \in Int /\ o < k /\ k \in DOMAIN h.items /\ k <= heap_end
  BY <1>1, <1>2, ChainFacts
<1>6. h.items[k].used
  BY <1>1, <1>2 DEF Tidy
<1>7. /\ Chain(cut) /\ o \in Inner(cut) /\ DOMAIN h.items \subseteq DOMAIN cut
      /\ \A x \in DOMAIN h.items \ {o} :
           cut[x].next = h.items[x].next /\ cut[x].used = h.items[x].used
      /\ \A x \in DOMAIN cut \ DOMAIN h.items :
           ~ cut[x].used /\ cut[x].next = k /\ o < x
      /\ cut[o].next \in Int /\ o + Header + n <= cut[o].next /\ cut[o].next <= k
      /\ cut[o].next - o = IF whole THEN (k - (o + Header)) + Header ELSE n + Header
  <2>1. CASE whole
    <3>1. cut = h.items
      BY <2>1
    <3> HIDE DEF cut
    <3>2. o + Header + n <= k /\ k <= k /\ k - o = (k - (o + Header)) + Header
      BY <1>2, <1>3, <1>5
    <3> QED BY <1>1, <1>2, <1>5, <2>1, <3>1, <3>2
  <2>2. CASE ~ whole
    <3>1. cut = Split(h.items, o, n) /\ o + Header + n < k
      BY <1>2, <1>3, <1>5, <2>2
    <3> DEFINE o2 == o + Header + n
    <3> HIDE DEF cut, whole
    <3>2. /\ Chain(cut) /\ DOMAIN cut = DOMAIN h.items \cup {o2} /\ o2 \notin DOMAIN h.items
          /\ o < o2 /\ o2 < k /\ o2 \in Int
          /\ cut[o2].next = k /\ ~ cut[o2].used /\ cut[o].next = o2
          /\ \A x \in DOMAIN h.items \ {o} :
               cut[x].next = h.items[x].next /\ cut[x].used = h.items[x].used
      <4>1. /\ Chain(h.items) /\ o \in Inner(h.items) /\ n \in Nat /\ Multiple(n)
            /\ o + Header + n < h.items[o].next
        BY <1>1, <1>2, <1>3, <3>1
      <4>2. Cut(h.items, cut, o, o2)
        BY <3>1, <4>1, SplitOK
      <4> QED BY <4>2 DEF Cut
    <3>3. o2 - o = n + Header /\ o2 <= k /\ o + Header + n <= o2
      BY <1>2, <1>3, <1>5, <3>2
    <3> HIDE DEF o2
    <3>4. cut[o].next \in Int /\ o + Header + n <= cut[o].next /\ cut[o].next <= k
          /\ cut[o].next - o = n + Header
      BY <3>2, <3>3
    <3>5. o \in Inner(cut)
      BY <1>2, <3>2 DEF Inner
    <3> QED BY <2>2, <3>2, <3>4, <3>5
  <2> QED BY <2>1, <2>2
<1> HIDE DEF cut
<1>8. /\ Chain(m) /\ DOMAIN m = DOMAIN cut /\ m[o].used
      /\ \A x \in DOMAIN cut : m[x].next = cut[x].next
      /\ \A x \in DOMAIN cut \ {o} : m[x].used = cut[x].used
  <2>1. Chain(cut) /\ o \in Inner(cut)
    BY <1>7
  <2>2. \A v \in BOOLEAN :
          LET c == [cut EXCEPT ![o].used = v]
          IN  /\ Chain(c) /\ DOMAIN c = DOMAIN cut /\ c[o].used = v
              /\ \A x \in DOMAIN cut : c[x].next = cut[x].next
              /\ \A x \in DOMAIN cut \ {o} : c[x].used = cut[x].used
    BY <2>1, MarkOK
  <2> QED BY <2>2
<1> HIDE DEF m
<1>9. t = {x \in Inner(m) : m[x].used} /\ o \notin s
  BY <1>1, <1>2, <1>7, <1>8 DEF Inner
<1>10. \A x \in s : m[x].next = h.items[x].next
  BY <1>1, <1>7, <1>8, <1>9 DEF Inner
<1>11. u = Bytes(m, t)
  <2>1. {m[x].next : x \in s} = {h.items[x].next : x \in s}
    BY <1>10
  <2>2. Bytes(m, s) = h.used
    BY <1>1, <2>1 DEF Bytes
  <2>3. o \in Inner(m) /\ s \in SUBSET Inner(m)
    BY <1>9
  <2>4. Bytes(m, t) = h.used + (m[o].next - o)
    BY <1>8, <1>9, <2>2, <2>3, BytesAdd
  <2>5. m[o].next = cut[o].next
    BY <1>7, <1>8 DEF Inner
  <2> HIDE DEF u, whole, k
  <2> QED BY <1>7, <2>4, <2>5 DEF u
<1>12. u \in 0 .. heap_end
  <2>1. t \in SUBSET Inner(m)
    BY <1>9
  <2> HIDE DEF u
  <2> QED BY <1>3, <1>8, <1>11, <2>1, BytesBound
<1>13. Larger(h.max, u) \in u .. heap_end
  <2> HIDE DEF u
  <2> QED BY <1>1, <1>3, <1>12 DEF Larger
<1>14. Lowest(m, l)
  <2>0. \A x \in DOMAIN m : x \in Int
    BY <1>8, ChainFacts
  <2>1. ASSUME NEW x \in DOMAIN m, x < h.lfree PROVE m[x].used
    <3>1. h.lfree \in DOMAIN h.items
      BY <1>1 DEF Lowest
    <3>2. x \in DOMAIN h.items /\ x # o
      BY <1>2, <1>7, <1>8, <2>0, <2>1, <3>1
    <3> QED BY <1>1, <1>7, <1>8, <2>1, <3>2 DEF Lowest
  <2>2. CASE o = h.lfree
    <3>1. l = NextFree(m, o) /\ o \in DOMAIN m
      BY <1>7, <1>8, <2>2 DEF Inner
    <3> QED BY <1>8, <2>1, <2>2, <3>1, NextFreeOK
  <2>3. CASE o # h.lfree
    <3>1. l = h.lfree /\ l \in DOMAIN m /\ (l = heap_end \/ ~ m[l].used)
      BY <1>1, <1>7, <1>8, <2>3 DEF Lowest
    <3> QED BY <2>1, <3>1 DEF Lowest
  <2> QED BY <2>2, <2>3
<1>15. Tidy(m)
  <2> SUFFICES ASSUME NEW a \in Inner(m), ~ m[a].used PROVE m[m[a].next].used
    BY DEF Tidy
  <2>0. k \in DOMAIN m /\ m[k].used
    BY <1>2, <1>5, <1>6, <1>7, <1>8
  <2>1. a # o /\ m[a].next = cut[a].next /\ ~ cut[a].used
    BY <1>8 DEF Inner
  <2>2. CASE a \in DOMAIN h.items
    <3> DEFINE b == h.items[a].next
    <3>1. m[a].next = b /\ a \in Inner(h.items) /\ ~ h.items[a].used /\ b \in DOMAIN h.items
      BY <1>1, <1>7, <2>1, <2>2, ChainFacts DEF Inner
    <3>2. h.items[b].used
      BY <1>1, <3>1 DEF Tidy
    <3> HIDE DEF b
    <3> QED BY <1>2, <1>7, <1>8, <3>1, <3>2
  <2>3. CASE a \notin DOMAIN h.items
    BY <1>7, <1>8, <2>0, <2>1, <2>3 DEF Inner
  <2> QED BY <2>2, <2>3
<1>16. HeapOK(g, t)
  <2> HIDE DEF u, l
  <2> QED BY <1>4, <1>8, <1>9, <1>11, <1>13, <1>14 DEF HeapOK
<1>17. g.items = m /\ m[o].next = cut[o].next
  BY <1>4, <1>7, <1>8 DEF Inner
<1> QED BY <1>2, <1>7, <1>9, <1>10, <1>15, <1>16, <1>17 DEF HeapInv, o, g, n

LEMMA ShrunkOK ==
  ASSUME NEW h, NEW s, HeapInv(h, s), NEW o \in s, NEW n \in Nat, Multiple(n), Shrinks(h, o, n)
  PROVE  LET g == Shrunk(h, o, n)
         IN  /\ HeapInv(g, s) /\ g.items[o].next = o + Header + n
             /\ g.items[o].next <= h.items[o].next
             /\ \A x \in s \ {o} : g.items[x].next = h.items[x].next
<1> DEFINE o2 == o + Header + n
           k == h.items[o].next
           m == Split(h.items, o, n)
           l == IF o2 < h.lfree THEN o2 ELSE h.lfree
           u == h.used - (Room(h.items, o) - n)
           f == [h EXCEPT !.items = m, !.lfree = l, !.used = u]
<1>1. /\ Chain(h.items) /\ o \in Inner(h.items) /\ Tidy(h.items) /\ h.items[o].used
      /\ h.used \in 0 .. heap_end /\ h.max \in h.used .. heap_end
      /\ DOMAIN h = {"items", "lfree", "used", "max"}
      /\ s = {x \in Inner(h.items) : h.items[x].used} /\ s \in SUBSET Inner(h.items)
      /\ Lowest(h.items, h.lfree) /\ h.used = Bytes(h.items, s)
  BY HeapNumbers DEF HeapInv, HeapOK
<1>2. o \in Int /\ k \in Int /\ o < k /\ k <= heap_end /\ heap_end \in Nat
      /\ Header \in Nat /\ MIN_SIZE \in Nat
  BY <1>1, MemSizes, ChainFacts DEF Inner
<1>3. Room(h.items, o) = k - (o + Header) /\ o2 < k /\ o2 \in Int
  BY <1>2 DEF Room, Shrinks
<1>4. /\ Chain(m) /\ DOMAIN m = DOMAIN h.items \cup {o2} /\ o2 \notin DOMAIN h.items
      /\ o < o2 /\ o2 \in Inner(m) /\ m[o2].next = k /\ ~ m[o2].used
      /\ m[o].next = o2 /\ m[o].used
      /\ \A x \in DOMAIN h.items \ {o} : m[x].next = h.items[x].next /\ m[x].used = h.items[x].used
  <2>1. /\ Chain(h.items) /\ o \in Inner(h.items) /\ n \in Nat /\ Multiple(n)
        /\ o + Header + n < h.items[o].next /\ h.items[o].used
    BY <1>1, <1>3
  <2>2. Cut(h.items, m, o, o2)
    BY <2>1, SplitOK
  <2> HIDE DEF m, o2
  <2> QED BY <2>1, <2>2 DEF Cut
<1>5. /\ f.items = m /\ f.lfree = l /\ f.used = u /\ f.max = h.max
      /\ f = [items |-> f.items, lfree |-> f.lfree, used |-> f.used, max |-> f.max]
  <2>1. f.items = m /\ f.lfree = l /\ f.used = u /\ f.max = h.max
    BY <1>1
  <2>2. DOMAIN f = {"items", "lfree", "used", "max"} /\ f = [x \in DOMAIN f |-> f[x]]
    BY <1>1
  <2> HIDE DEF f
  <2> QED BY <2>1, <2>2
<1>6. Shrunk(h, o, n) = plug_holes(f, o2)
  BY DEF Shrunk
<1> HIDE DEF f, m, o2
<1>7. s = {x \in Inner(m) : m[x].used} /\ \A x \in s \ {o} : m[x].next = h.items[x].next
  BY <1>1, <1>4 DEF Inner
<1>8. u = Bytes(m, s) /\ u <= h.used
  <2>1. {m[x].next : x \in s \ {o}} = {h.items[x].next : x \in s \ {o}}
    BY <1>7
  <2>2. Bytes(m, s \ {o}) = Bytes(h.items, s \ {o})
    BY <2>1 DEF Bytes
  <2>3. /\ Bytes(h.items, s \ {o}) \in Int
        /\ Bytes(h.items, s) = Bytes(h.items, s \ {o}) + (k - o)
    BY <1>1, BytesRemove
  <2>4. Bytes(m, s) = Bytes(m, s \ {o}) + (o2 - o)
    BY <1>4, <1>7, BytesRemove
  <2>5. o2 = o + Header + n
    BY DEF o2
  <2> QED BY <1>1, <1>2, <1>3, <2>2, <2>3, <2>4, <2>5
<1>9. f.max \in u .. heap_end
  <2>1. u \in Int
    <3>1. s \in SUBSET Inner(m)
      BY <1>7
    <3> QED BY <1>4, <1>8, <3>1, BytesBound
  <2> HIDE DEF u
  <2> QED BY <1>1, <1>2, <1>5, <1>8, <2>1
<1>10. Lowest(m, l)
  <2>1. \A x \in DOMAIN m : x \in Int
    BY <1>4, ChainFacts
  <2>2. h.lfree \in DOMAIN h.items /\ h.lfree # o
    BY <1>1 DEF Lowest, Inner
  <2>3. \A x \in DOMAIN m : x < l => m[x].used
    BY <1>1, <1>4, <2>1, <2>2 DEF Lowest, Inner
  <2> QED BY <1>1, <1>4, <2>2, <2>3 DEF Lowest, Inner
<1>11. HeapOK(f, s)
  BY <1>4, <1>5, <1>7, <1>8, <1>9, <1>10 DEF HeapOK
<1>12. o2 \in Inner(f.items) /\ ~ f.items[o2].used /\ NearlyTidy(f.items, o2)
  <2>1. ASSUME NEW a \in Inner(m), a # o2, m[a].next # o2
        PROVE  m[a].used \/ m[m[a].next].used
    <3>1. a \in Inner(h.items) /\ a # o /\ m[a].next = h.items[a].next
          /\ h.items[a].next \in DOMAIN h.items
      BY <1>1, <1>4, <2>1, ChainFacts DEF Inner
    <3>2. h.items[a].used \/ h.items[h.items[a].next].used
      BY <1>1, <3>1 DEF Tidy
    <3> QED BY <1>4, <3>1, <3>2 DEF Inner
  <2> QED BY <1>4, <1>5, <2>1 DEF NearlyTidy
<1>13. /\ HeapInv(plug_holes(f, o2), s)
       /\ \A x \in s : plug_holes(f, o2).items[x].next = m[x].next
  BY <1>5, <1>11, <1>12, PlugOK DEF HeapInv
<1> DEFINE g == plug_holes(f, o2)
<1>14. /\ HeapInv(g, s) /\ g.items[o].next = o2 /\ o2 <= h.items[o].next
       /\ \A x \in s \ {o} : g.items[x].next = h.items[x].next
  <2>1. g.items[o].next = o2
    BY <1>4, <1>13
  <2>2. \A x \in s \ {o} : g.items[x].next = h.items[x].next
    BY <1>7, <1>13
  <2>3. o2 <= h.items[o].next
    BY <1>2, <1>3
  <2>4. HeapInv(g, s)
    BY <1>13
  <2> HIDE DEF g
  <2> QED BY <2>1, <2>2, <2>3, <2>4
<1>15. o2 = o + Header + n
  BY DEF o2
<1> HIDE DEF g
<1>16. Shrunk(h, o, n) = g
  BY <1>6 DEF g
<1> QED BY <1>14, <1>15, <1>16

-----------------------------------------------------------------------------
\* The state of the module.

\* The inductive invariant.
MemInv == HeapInv(heap, held) /\ ret.at \in held \cup {null}

LEMMA InitMem == Init => MemInv
<1> SUFFICES ASSUME Init PROVE MemInv
  OBVIOUS
<1> DEFINE m == [o \in {0, heap_end} |->
                   [used |-> o = heap_end, next |-> heap_end, prev |-> o]]
<1>0. heap = [items |-> m, lfree |-> 0, used |-> 0, max |-> 0] /\ held = {}
  BY DEF Init
<1>1. /\ DOMAIN m = {0, heap_end} /\ heap_end \in Nat /\ heap_end > 0
      /\ \A o \in {0, heap_end} : m[o] \in Item
  <2>1. heap_end \in Nat /\ heap_end > 0
    BY MemSizes
  <2>2. \A o \in {0, heap_end} : (o = heap_end) \in BOOLEAN
    OBVIOUS
  <2> QED BY <2>1, <2>2 DEF Item
<1>2. /\ m[0].next = heap_end /\ m[0].prev = 0 /\ ~ m[0].used
      /\ m[heap_end].used /\ m[heap_end].next = heap_end
  <2>1. 0 \in {0, heap_end} /\ heap_end \in {0, heap_end} /\ ~ (0 = heap_end)
    BY <1>1
  <2>2. \A o \in {0, heap_end} :
          m[o].next = heap_end /\ m[o].prev = o /\ m[o].used = (o = heap_end)
    OBVIOUS
  <2>3. m[0].used = (0 = heap_end) /\ m[heap_end].used = (heap_end = heap_end)
    BY <2>1, <2>2
  <2>4. m[0].next = heap_end /\ m[0].prev = 0 /\ m[heap_end].next = heap_end
    BY <2>1, <2>2
  <2> HIDE DEF m
  <2>5. ~ m[0].used /\ m[heap_end].used
    BY <2>1, <2>3, Zenon
  <2> QED BY <2>4, <2>5
<1> HIDE DEF m
<1>3. Chain(m)
  <2>1. \A o \in DOMAIN m : Multiple(o)
    BY <1>1, MemSizes
  <2>2. Inner(m) = {0} /\ DOMAIN m \subseteq 0 .. heap_end
    BY <1>1 DEF Inner
  <2>3. \A o \in DOMAIN m : m[o] \in Item
    BY <1>1
  <2>4. \A x \in DOMAIN m : ~ (0 < x /\ x < heap_end)
    BY <1>1
  <2> QED BY <1>1, <1>2, <2>1, <2>2, <2>3, <2>4 DEF Chain
<1>4. Inner(m) = {0} /\ held = {o \in Inner(m) : m[o].used}
  BY <1>0, <1>1, <1>2 DEF Inner
<1>5. Bytes(m, held) = 0
  BY <1>0, <1>3, BytesTotal
<1>6. Lowest(m, 0) /\ Tidy(m)
  BY <1>1, <1>2, <1>4 DEF Lowest, Tidy
<1>7. HeapOK(heap, held)
  <2>1. /\ heap.items = m /\ heap.lfree = 0 /\ heap.used = 0 /\ heap.max = 0
        /\ 0 \in 0 .. heap_end
    BY <1>0, <1>1
  <2> QED BY <1>0, <1>3, <1>4, <1>5, <1>6, <2>1 DEF HeapOK
<1>8. heap.items = m /\ ret.at = null
  BY <1>0 DEF Init
<1> QED BY <1>6, <1>7, <1>8 DEF MemInv, HeapInv

\* What a request that finds an item makes of the heap.
LEMMA AllocMem ==
  ASSUME MemInv, NEW size \in Nat, CanAlloc(heap, size), heap' = Allocated(heap, size),
         held' = held \cup {Found(heap, size)}, ret'.at = Found(heap, size)
  PROVE  MemInv'
BY AllocatedOK DEF MemInv

LEMMA FreeMem ==
  ASSUME MemInv, NEW o \in held, rt_smem_free(o)
  PROVE  MemInv'
BY FreedOK DEF MemInv, rt_smem_free, Returns

LEMMA FailMem ==
  ASSUME MemInv, NEW size, Fail(size)
  PROVE  MemInv'
BY DEF MemInv, Fail, Returns

LEMMA MoveMem ==
  ASSUME MemInv, NEW o \in held, NEW n \in Nat, CanAlloc(heap, n),
         heap' = Freed(Allocated(heap, n), o),
         held' = (held \ {o}) \cup {Found(heap, n)}, ret'.at = Found(heap, n)
  PROVE  /\ MemInv'
         /\ \A x \in held' : heap'.items[x].next = Allocated(heap, n).items[x].next
<1> DEFINE f == Found(heap, n)
           g == Allocated(heap, n)
<1>1. HeapInv(g, held \cup {f}) /\ f \notin held
  BY AllocatedOK DEF MemInv
<1> HIDE DEF f, g
<1>2. /\ HeapInv(Freed(g, o), (held \cup {f}) \ {o})
      /\ \A x \in (held \cup {f}) \ {o} : Freed(g, o).items[x].next = g.items[x].next
  BY <1>1, FreedOK
<1>3. (held \cup {f}) \ {o} = held' /\ f \in held'
  BY <1>1 DEF f
<1> QED BY <1>2, <1>3 DEF MemInv, f, g

LEMMA ReallocMem ==
  ASSUME MemInv, NEW o \in held, NEW size \in Nat, rt_smem_realloc(o, size)
  PROVE  MemInv'
<1> DEFINE n == RT_ALIGN(size)
<1>0. n \in Nat /\ Multiple(n)
  BY AlignOK, MemSizes
<1> HIDE DEF n
<1>1. CASE Fail(size)
  BY <1>1, FailMem
<1>2. CASE rt_smem_free(o)
  BY <1>2, FreeMem
<1>3. CASE Returns(size, o) /\ UNCHANGED <<heap, held>>
  BY <1>3 DEF MemInv, Returns
<1>4. CASE Shrinks(heap, o, n) /\ heap' = Shrunk(heap, o, n) /\ Returns(size, o) /\ UNCHANGED held
  BY <1>0, <1>4, ShrunkOK DEF MemInv, Returns
<1>5. CASE /\ CanAlloc(heap, n) /\ heap' = Freed(Allocated(heap, n), o)
           /\ Returns(size, Found(heap, n))
           /\ held' = (held \ {o}) \cup {Found(heap, n)}
  BY <1>0, <1>5, MoveMem DEF Returns
<1> QED BY <1>1, <1>2, <1>3, <1>4, <1>5 DEF rt_smem_realloc, n

LEMMA NextMem == MemInv /\ [Next]_vars => MemInv'
<1> SUFFICES ASSUME MemInv, [Next]_vars PROVE MemInv'
  OBVIOUS
<1>1. ASSUME NEW size \in Sizes, rt_smem_alloc(size) PROVE MemInv'
  <2>1. size \in Nat
    BY MemSizes
  <2>2. CASE Fail(size)
    BY <2>2, FailMem
  <2>3. CASE /\ CanAlloc(heap, size) /\ heap' = Allocated(heap, size)
             /\ Returns(size, Found(heap, size)) /\ held' = held \cup {Found(heap, size)}
    BY <2>1, <2>3, AllocMem DEF Returns
  <2> QED BY <1>1, <2>2, <2>3 DEF rt_smem_alloc
<1>2. ASSUME NEW o \in held, NEW size \in Sizes, rt_smem_realloc(o, size) PROVE MemInv'
  <2>1. size \in Nat
    BY MemSizes
  <2> QED BY <1>2, <2>1, ReallocMem
<1>3. CASE UNCHANGED vars
  BY <1>3 DEF vars, MemInv
<1> QED BY <1>1, <1>2, <1>3, FreeMem DEF Next

\* MemInv is an inductive invariant: every call keeps the heap well formed.
THEOREM HeapInvariant == Spec => []MemInv
BY InitMem, NextMem, PTL DEF Spec

LEMMA MemInvFacts == MemInv => Chained /\ Coalesced /\ LfreeLowest /\ UsedExact
<1> SUFFICES ASSUME MemInv PROVE Chained /\ Coalesced /\ LfreeLowest /\ UsedExact
  OBVIOUS
<1> DEFINE m == heap.items
<1>1. /\ Chain(m) /\ Tidy(m) /\ heap.used \in 0 .. heap_end
      /\ heap.max \in heap.used .. heap_end /\ ret.at \in held \cup {null}
      /\ held = {o \in Inner(m) : m[o].used} /\ Lowest(m, heap.lfree)
      /\ heap.used = Bytes(m, held)
  BY HeapNumbers DEF MemInv, HeapInv, HeapOK
<1>2. TypeOK
  BY <1>1 DEF TypeOK, Chain, Item, Multiple, Lowest
<1>3. Chained
  BY <1>1, <1>2 DEF Chained, Chain, Inner
<1>4. Coalesced
  BY <1>1 DEF Coalesced, Tidy, Inner
<1>5. LfreeLowest
  BY <1>1, LowestOK DEF LfreeLowest
<1>6. UsedExact
  BY <1>1 DEF UsedExact, Bytes
<1> QED BY <1>3, <1>4, <1>5, <1>6

\* The headers form one chain over the whole heap, in both directions, and the
\* used ones are the blocks callers hold, whatever calls came before.
THEOREM BlocksChained == Spec => []Chained
BY HeapInvariant, MemInvFacts, PTL

\* plug_holes leaves no two free neighbours, wherever the freed block lay.
THEOREM FreeCoalesced == Spec => []Coalesced
BY HeapInvariant, MemInvFacts, PTL

\* lfree is the lowest free item after every call: a scan misses none.
THEOREM LowestFree == Spec => []LfreeLowest
BY HeapInvariant, MemInvFacts, PTL

\* parent.used is the bytes of the blocks callers hold, headers included.
THEOREM UsedCounted == Spec => []UsedExact
BY HeapInvariant, MemInvFacts, PTL

-----------------------------------------------------------------------------
\* The abstract heap.

\* No requested size is so large that rounding it up wraps around.
NoWrap == \A size \in Sizes : Rounded(size) < WordSize

LEMMA AlignedStays ==
  ASSUME NEW n \in Nat, Multiple(n)
  PROVE  Rounded(n) = n
<1>0. Align \in Nat \ {0} /\ n \in Int
  BY MemSizes
<1> DEFINE r == Rounded(n)
<1>1. r \in Nat /\ r \in Int /\ Multiple(r) /\ n <= r /\ r < n + Align
  BY RoundedOK
<1> HIDE DEF r
<1> DEFINE p == n \div Align
           q == r \div Align
<1>2. n = Align * p /\ p \in Int
  BY <1>0, Division DEF Multiple
<1>3. r = Align * q /\ q \in Int
  BY <1>0, <1>1, Division DEF Multiple
<1> HIDE DEF p, q
<1>4. Align * (q - p) = r - n
  BY <1>0, <1>2, <1>3
<1>5. CASE q - p >= 1
  <2>1. Align * (q - p) >= Align
    BY <1>0, <1>2, <1>3, <1>5
  <2> QED BY <1>0, <1>1, <1>4, <2>1
<1>6. CASE q - p <= -1
  <2>1. Align * (q - p) <= -Align
    BY <1>0, <1>2, <1>3, <1>6
  <2> QED BY <1>0, <1>1, <1>4, <2>1
<1>7. CASE q - p = 0
  <2>1. q = p
    BY <1>2, <1>3, <1>7
  <2> QED BY <1>2, <1>3, <2>1 DEF r
<1> QED BY <1>2, <1>3, <1>5, <1>6, <1>7

\* A request that does not wrap.
LEMMA NeedSmallest ==
  ASSUME NEW size \in Nat, Rounded(size) < WordSize
  PROVE  /\ RT_ALIGN(size) = Rounded(size) /\ RT_ALIGN(size) \in Nat /\ RT_ALIGN(size) >= size
         /\ Smallest(size) = Header + Need(size)
         /\ Need(RT_ALIGN(size)) = Need(size)
         /\ Need(size) \in Nat /\ Need(size) >= size /\ Need(size) >= RT_ALIGN(size)
<1>1. /\ RT_ALIGN(size) = Rounded(size) /\ Rounded(size) \in Nat /\ Rounded(size) >= size
      /\ Multiple(Rounded(size))
  BY AlignOK, RoundedOK
<1>2. RT_ALIGN(RT_ALIGN(size)) = RT_ALIGN(size)
  <2>1. Rounded(Rounded(size)) = Rounded(size)
    BY <1>1, AlignedStays
  <2>2. RT_ALIGN(Rounded(size)) = Rounded(Rounded(size))
    BY <1>1, <2>1, AlignOK
  <2> QED BY <1>1, <2>1, <2>2
<1>3. MIN_SIZE_ALIGNED \in Nat
  BY MemSizes
<1>4. Need(size) = Larger(Rounded(size), MIN_SIZE_ALIGNED)
  BY <1>1 DEF Need
<1>5. Need(size) \in Nat /\ Need(size) >= Rounded(size)
  BY <1>1, <1>3, <1>4 DEF Larger
<1> QED BY <1>1, <1>2, <1>4, <1>5 DEF Smallest, Need

\* A free item is vacant, and a gap lies in a free item.
LEMMA FreeVacant ==
  ASSUME MemInv, NEW o \in Inner(heap.items), ~ heap.items[o].used,
         NEW n \in Int, o + n <= heap.items[o].next
  PROVE  H!Vacant(o, n)
<1> DEFINE m == heap.items
<1>1. Chain(m) /\ held = {x \in Inner(m) : m[x].used}
  BY DEF MemInv, HeapInv, HeapOK
<1>2. o \in Int /\ m[o].next \in Int /\ m[o].next <= heap_end /\ heap_end \in Nat
  BY <1>1, MemSizes, ChainFacts DEF Inner
<1>3. ASSUME NEW b \in held PROVE o + n <= b \/ b + Blocks[b] <= o
  <2>1. b \in Inner(m) /\ b # o /\ b \in Int /\ m[b].next \in Int
    BY <1>1, ChainFacts DEF Inner
  <2>2. b < o => m[b].next <= o
    BY <1>1, <2>1, ChainFacts
  <2>3. o < b => m[o].next <= b
    BY <1>1, <2>1, ChainFacts
  <2>4. b + Blocks[b] = m[b].next
    BY <2>1 DEF Blocks
  <2> QED BY <1>2, <2>1, <2>2, <2>3, <2>4
<1>4. DOMAIN Blocks = held
  BY DEF Blocks
<1> QED BY <1>2, <1>3, <1>4 DEF H!Vacant

LEMMA RefusedFull ==
  ASSUME MemInv, NEW size \in Nat, ~ CanAlloc(heap, size)
  PROVE  ~ H!Room(Header + Need(size))
<1> DEFINE m == heap.items
           n == Header + Need(size)
<1>1. /\ Chain(m) /\ held = {x \in Inner(m) : m[x].used} /\ Tidy(m)
      /\ Lowest(m, heap.lfree)
  BY DEF MemInv, HeapInv, HeapOK
<1>2. /\ Need(size) \in Nat /\ Header \in Nat \ {0} /\ n \in Nat /\ n > 0 /\ heap_end \in Nat
      /\ heap_end = MemSize + Header /\ MemSize \in Nat
  BY NeedOK, MemSizes
<1> SUFFICES ASSUME NEW a \in {0} \cup {b + Blocks[b] : b \in held}, H!Vacant(a, n)
             PROVE  FALSE
  BY DEF H!Room, Blocks
<1>3. \A b \in held : b + Blocks[b] = m[b].next /\ b \in Inner(m) /\ m[b].next \in DOMAIN m
  BY <1>1, ChainFacts DEF Blocks, Inner
<1>4. a \in DOMAIN m /\ a \in Int /\ 0 <= a
  BY <1>1, <1>3, ChainFacts DEF Chain
<1>5. a + n <= heap_end /\ \A b \in held : a + n <= b \/ m[b].next <= a
  BY <1>3 DEF H!Vacant, Blocks
<1> HIDE DEF m, n
<1>6. a \in Inner(m)
  BY <1>2, <1>4, <1>5 DEF Inner
<1>7. m[a].next \in Int /\ m[a].next <= heap_end /\ a < m[a].next /\ m[a].next \in DOMAIN m
  BY <1>1, <1>6, ChainFacts
<1>8. ~ m[a].used
  BY <1>1, <1>2, <1>4, <1>5, <1>6, <1>7
<1>9. a + n <= m[a].next
  <2>1. CASE m[a].next = heap_end
    BY <1>5, <2>1
  <2>2. CASE m[a].next # heap_end
    <3>1. m[a].next \in held
      BY <1>1, <1>6, <1>7, <1>8, <2>2 DEF Tidy, Inner
    <3>2. m[m[a].next].next > m[a].next /\ m[m[a].next].next \in Int
      BY <1>1, <1>7, <2>2, ChainFacts DEF Inner
    <3> QED BY <1>4, <1>5, <1>7, <3>1, <3>2
  <2> QED BY <2>1, <2>2
<1>10. Need(size) <= MemSize /\ a <= MemSize - Need(size) /\ Room(m, a) >= Need(size)
  BY <1>2, <1>4, <1>7, <1>9, <1>5 DEF Room, n
<1>11. heap.lfree <= a
  <2>1. heap.lfree \in Int
    BY <1>1, ChainFacts DEF Lowest
  <2> QED BY <1>1, <1>4, <1>8, <2>1 DEF Lowest
<1>12. a \in Fits(heap, Need(size))
  BY <1>4, <1>8, <1>10, <1>11 DEF Fits, m
<1> QED BY <1>10, <1>12 DEF CanAlloc

LEMMA InitHeap == Init => H!Init
<1> SUFFICES ASSUME Init PROVE H!Init
  OBVIOUS
<1>1. Blocks = << >>
  BY DEF Init, Blocks
<1> QED BY <1>1 DEF Init, H!Init

\* A block handed out where a free item was.
LEMMA GrantHeap ==
  ASSUME MemInv, MemInv', NEW size \in Nat, Rounded(size) < WordSize,
         NEW o \in Inner(heap.items), ~ heap.items[o].used, Returns(size, o),
         NEW kept \in SUBSET held, held' = kept \cup {o}, o \notin held,
         \A x \in kept : heap'.items[x].next = heap.items[x].next,
         heap'.items[o].next >= o + Header + Need(size),
         heap'.items[o].next <= heap.items[o].next
  PROVE  H!Grant(size, [x \in kept |-> Blocks[x]])
<1> DEFINE n == heap'.items[o].next - o
           k == [x \in kept |-> Blocks[x]]
<1>1. /\ o \in Int /\ heap'.items[o].next \in Int /\ Header \in Nat
      /\ Need(size) \in Nat /\ Need(size) >= size
  <2>1. o \in held' /\ Chain(heap'.items) /\ held' \subseteq Inner(heap'.items)
    BY DEF MemInv, HeapInv, HeapOK
  <2>2. o \in Int /\ heap'.items[o].next \in Int
    BY <2>1, ChainFacts DEF Inner
  <2> QED BY <2>2, NeedSmallest, MemSizes
<1>2. ret'.at = o /\ o \in DOMAIN Blocks' /\ Blocks'[o] = n
  BY DEF Returns, Blocks
<1>3. n >= Header + size /\ n \in Int /\ o + n <= heap.items[o].next
  BY <1>1, ChainFacts DEF MemInv, HeapInv, HeapOK, Inner
<1>4. H!Vacant(o, n)
  BY <1>3, FreeVacant
<1>5. Blocks' = [x \in DOMAIN k \cup {o} |-> IF x = o THEN n ELSE k[x]]
  <2>1. DOMAIN k = kept /\ \A x \in kept : k[x] = Blocks[x]
    OBVIOUS
  <2>2. Blocks' = [x \in kept \cup {o} |-> IF x = o THEN n ELSE k[x]]
    BY DEF Blocks
  <2> QED BY <2>1, <2>2
<1>6. ret' = [size |-> size, at |-> o]
  BY DEF Returns
<1> QED BY <1>2, <1>3, <1>4, <1>5, <1>6 DEF H!Grant, H!Returns

LEMMA RefuseHeap ==
  ASSUME MemInv, NEW size \in Nat, Rounded(size) < WordSize, Fail(size),
         \/ RT_ALIGN(size) > MemSize
         \/ ~ CanAlloc(heap, size)
         \/ ~ CanAlloc(heap, RT_ALIGN(size))
  PROVE  H!Refuse(size)
<1>1. /\ RT_ALIGN(size) \in Nat /\ Need(RT_ALIGN(size)) = Need(size)
      /\ Smallest(size) = Header + Need(size)
      /\ Need(size) \in Nat /\ Need(size) >= RT_ALIGN(size)
  BY NeedSmallest
<1>2. RT_ALIGN(size) > MemSize => ~ CanAlloc(heap, size)
  BY <1>1, MemSizes DEF CanAlloc
<1>3. ~ H!Room(Smallest(size))
  BY <1>1, <1>2, RefusedFull
<1>4. Blocks' = Blocks /\ ret' = [size |-> size, at |-> null]
  BY DEF Fail, Returns, Blocks
<1> QED BY <1>3, <1>4 DEF H!Refuse, H!Returns

LEMMA FreeHeap ==
  ASSUME MemInv, NEW o \in held, rt_smem_free(o)
  PROVE  H!Free(o)
<1>1. \A x \in held \ {o} : heap'.items[x].next = heap.items[x].next
  BY FreedOK DEF MemInv, rt_smem_free
<1>2. held' = held \ {o} /\ ret' = [size |-> 0, at |-> null] /\ DOMAIN Blocks = held
  BY DEF rt_smem_free, Returns, Blocks
<1>3. Blocks' = [x \in held \ {o} |-> Blocks[x]]
  BY <1>1, <1>2 DEF Blocks
<1> QED BY <1>2, <1>3 DEF H!Free, H!Without, H!Returns

LEMMA NextHeap == NoWrap /\ MemInv /\ MemInv' /\ [Next]_vars => [H!Next]_<<Blocks, ret>>
<1> SUFFICES ASSUME NoWrap, MemInv, MemInv', [Next]_vars PROVE [H!Next]_<<Blocks, ret>>
  OBVIOUS
<1>0. \A x \in held : [y \in held |-> Blocks[y]] = Blocks /\ DOMAIN Blocks = held
  BY DEF Blocks
<1>1. ASSUME NEW size \in Sizes, rt_smem_alloc(size) PROVE H!Alloc(size)
  <2>0. size \in Nat /\ Rounded(size) < WordSize
    BY MemSizes DEF NoWrap
  <2>1. CASE size = 0 /\ Fail(size)
    BY <2>1 DEF H!Alloc, H!Returns, Fail, Returns, Blocks
  <2>2. CASE size # 0 /\ ~ CanAlloc(heap, size) /\ Fail(size)
    BY <2>0, <2>2, RefuseHeap DEF H!Alloc
  <2>3. CASE /\ size # 0 /\ CanAlloc(heap, size) /\ heap' = Allocated(heap, size)
             /\ Returns(size, Found(heap, size)) /\ held' = held \cup {Found(heap, size)}
    <3> DEFINE o == Found(heap, size)
    <3>1. /\ o \notin held /\ o \in Inner(heap.items) /\ ~ heap.items[o].used
          /\ \A x \in held : heap'.items[x].next = heap.items[x].next
          /\ heap'.items[o].next >= o + Header + Need(size)
          /\ heap'.items[o].next <= heap.items[o].next
      BY <2>0, <2>3, AllocatedOK, FoundOK DEF MemInv
    <3>2. Returns(size, o) /\ held' = held \cup {o}
      BY <2>3
    <3> HIDE DEF o
    <3>3. H!Grant(size, [x \in held |-> Blocks[x]])
      BY <2>0, <3>1, <3>2, GrantHeap
    <3>4. [x \in held |-> Blocks[x]] = Blocks
      BY DEF Blocks
    <3> QED BY <2>0, <2>3, <3>3, <3>4 DEF H!Alloc
  <2> QED BY <1>1, <2>1, <2>2, <2>3 DEF rt_smem_alloc
<1>2. ASSUME NEW o \in held, NEW size \in Sizes, rt_smem_realloc(o, size)
      PROVE  H!Realloc(o, size) \/ H!Free(o)
  <2> DEFINE n == RT_ALIGN(size)
  <2>0. /\ size \in Nat /\ Rounded(size) < WordSize
        /\ n \in Nat /\ n >= size /\ Multiple(n) /\ Need(n) = Need(size) /\ Need(size) >= n
    <3>1. size \in Nat /\ Rounded(size) < WordSize
      BY MemSizes DEF NoWrap
    <3> QED BY <3>1, NeedSmallest, AlignOK
  <2> HIDE DEF n
  <2>1. CASE n > MemSize /\ Fail(size)
    <3>1. H!Refuse(size) /\ size > 0
      <4>1. n = 0 \/ size > 0
        <5>1. size = 0 => Rounded(size) = 0
          <6>1. Multiple(0)
            BY MemSizes
          <6> QED BY <6>1, AlignedStays
        <5> QED BY <2>0, <5>1, NeedSmallest DEF n
      <4>2. MemSize \in Nat
        BY MemSizes
      <4> QED BY <2>0, <2>1, <4>1, <4>2, RefuseHeap DEF n
    <3> QED BY <3>1 DEF H!Realloc
  <2>2. CASE rt_smem_free(o)
    BY <2>2, FreeHeap
  <2>3. ASSUME n \in 1 .. MemSize PROVE size > 0
    <3>1. size = 0 => Rounded(size) = 0
      <4>1. Multiple(0)
        BY MemSizes
      <4> QED BY <4>1, AlignedStays
    <3> QED BY <2>0, <2>3, <3>1, NeedSmallest DEF n
  <2>4. /\ o \in Inner(heap.items) /\ o \in Int /\ heap.items[o].next \in Int /\ Header \in Nat
        /\ Blocks[o] = heap.items[o].next - o /\ o \in DOMAIN Blocks
    <3>1. Chain(heap.items) /\ o \in Inner(heap.items)
      BY DEF MemInv, HeapInv, HeapOK
    <3> QED BY <3>1, MemSizes, ChainFacts DEF Inner, Blocks
  <2>5. CASE /\ n \in 1 .. MemSize /\ n = Room(heap.items, o)
             /\ Returns(size, o) /\ UNCHANGED <<heap, held>>
    <3>1. Blocks' = Blocks
      BY <2>5 DEF Blocks
    <3>2. Blocks[o] \in (Header + size) .. Blocks[o]
      BY <2>0, <2>4, <2>5 DEF Room
    <3>3. Blocks' = [Blocks EXCEPT ![o] = Blocks'[o]]
      BY <2>4, <3>1 DEF Blocks
    <3>4. H!Returns(size, o)
      BY <2>5 DEF H!Returns, Returns
    <3> QED BY <2>3, <2>5, <3>1, <3>2, <3>3, <3>4 DEF H!Realloc
  <2>6. CASE /\ n \in 1 .. MemSize /\ Shrinks(heap, o, n) /\ heap' = Shrunk(heap, o, n)
             /\ Returns(size, o) /\ UNCHANGED held
    <3>1. /\ heap'.items[o].next = o + Header + n
          /\ heap'.items[o].next <= heap.items[o].next
          /\ \A x \in held \ {o} : heap'.items[x].next = heap.items[x].next
      BY <2>0, <2>6, ShrunkOK DEF MemInv
    <3>2. /\ Blocks' = [Blocks EXCEPT ![o] = heap'.items[o].next - o]
          /\ Blocks'[o] = heap'.items[o].next - o
      BY <2>6, <3>1 DEF Blocks
    <3>3. Blocks'[o] \in (Header + size) .. Blocks[o]
      BY <2>0, <2>4, <3>1, <3>2
    <3>4. H!Returns(size, o)
      BY <2>6 DEF H!Returns, Returns
    <3> QED BY <2>3, <2>6, <3>2, <3>3, <3>4 DEF H!Realloc
  <2>7. CASE n \in 1 .. MemSize /\ ~ CanAlloc(heap, n) /\ Fail(size)
    <3>1. H!Refuse(size)
      BY <2>0, <2>7, RefuseHeap DEF n
    <3> QED BY <2>3, <2>7, <3>1 DEF H!Realloc
  <2>8. CASE /\ n \in 1 .. MemSize /\ CanAlloc(heap, n) /\ heap' = Freed(Allocated(heap, n), o)
             /\ Returns(size, Found(heap, n))
             /\ held' = (held \ {o}) \cup {Found(heap, n)}
    <3> DEFINE f == Found(heap, n)
               g == Allocated(heap, n)
    <3>1. /\ f \notin held /\ f \in Inner(heap.items) /\ ~ heap.items[f].used
          /\ \A x \in held : g.items[x].next = heap.items[x].next
          /\ g.items[f].next >= f + Header + Need(n)
          /\ g.items[f].next <= heap.items[f].next
      <4>1. HeapInv(heap, held) /\ CanAlloc(heap, n)
        BY <2>8 DEF MemInv
      <4>2. f \in Inner(heap.items) /\ ~ heap.items[f].used
        BY <2>0, <4>1, FoundOK
      <4> QED BY <2>0, <4>1, <4>2, AllocatedOK
    <3>2. \A x \in held' : heap'.items[x].next = g.items[x].next
      <4>1. ret'.at = Found(heap, n)
        BY <2>8 DEF Returns
      <4> QED BY <2>0, <2>8, <4>1, MoveMem
    <3>3. Returns(size, f) /\ held' = (held \ {o}) \cup {f} /\ f \in held'
      BY <2>8
    <3> HIDE DEF f, g
    <3>4. H!Grant(size, [x \in held \ {o} |-> Blocks[x]])
      BY <2>0, <3>1, <3>2, <3>3, GrantHeap
    <3>5. [x \in held \ {o} |-> Blocks[x]] = H!Without(o)
      BY DEF Blocks, H!Without
    <3> QED BY <2>3, <2>8, <3>4, <3>5 DEF H!Realloc
  <2> QED BY <1>2, <2>1, <2>2, <2>5, <2>6, <2>7, <2>8 DEF rt_smem_realloc, n
<1>3. CASE UNCHANGED vars
  BY <1>3 DEF vars, Blocks
<1>4. \A o \in held : o \in DOMAIN Blocks
  BY DEF Blocks
<1> QED BY <1>1, <1>2, <1>3, <1>4, FreeHeap DEF Next, H!Next

\* The allocator implements the abstract heap: blocks never overlap and hold
\* what was asked for, and a request is refused only if no gap is large enough.
THEOREM AllocatorIsHeap == NoWrap => (Spec => IsHeap)
<1> SUFFICES ASSUME NoWrap PROVE Spec => IsHeap
  OBVIOUS
<1>1. MemInv /\ MemInv' /\ [Next]_vars => [H!Next]_<<Blocks, ret>>
  BY NextHeap
<1> QED BY <1>1, InitHeap, HeapInvariant, PTL DEF Spec, IsHeap, H!Spec
=============================================================================

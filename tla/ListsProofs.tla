---------------------------- MODULE ListsProofs ----------------------------
(***************************************************************************)
(* What the list operations do to membership and to the absence of         *)
(* duplicates, for lists over any set.                                     *)
(***************************************************************************)
EXTENDS Lists, SequenceTheorems, WellFoundedInduction, TLAPS

\* A set of places or priorities that is not empty has a least element.
LEMMA LeastNatural ==
  ASSUME NEW S \in SUBSET Nat, S # {}
  PROVE  \E p \in S : \A q \in S : p <= q
<1>1. PICK p \in S : \A q \in S : <<q, p>> \notin OpToRel(<, Nat)
  BY WFMin, NatLessThanWellFounded, Zenon
<1>2. \A q \in S : ~(q < p)
  BY <1>1, Zenon DEF OpToRel
<1> QED BY <1>2

\* Place by place, r is s with x inserted at i.
InsertedAt(s, i, x, r) ==
  /\ Len(r) = Len(s) + 1
  /\ \A j \in 1 .. (Len(s) + 1) : r[j] = IF j < i THEN s[j] ELSE IF j = i THEN x ELSE s[j - 1]

\* Inserting x at place i of a list: every element keeps its order, x is at i.
LEMMA InsertAtPlaces ==
  ASSUME NEW S, NEW s \in Seq(S), NEW x \in S, NEW i \in 1 .. (Len(s) + 1)
  PROVE  InsertAt(s, i, x) \in Seq(S) /\ InsertedAt(s, i, x, InsertAt(s, i, x))
<1> DEFINE a == SubSeq(s, 1, i - 1)
           b == SubSeq(s, i, Len(s))
           c == a \o <<x>>
<1>1. Len(s) \in Nat /\ \A j \in 1 .. Len(s) : s[j] \in S
  BY LenProperties
<1>2. /\ a \in Seq(S) /\ Len(a) = i - 1
      /\ \A j \in 1 .. (i - 1) : a[j] = s[j]
  <2>1. \A j \in 1 .. (i - 1) : s[j] \in S
    BY <1>1
  <2> QED BY <1>1, <2>1, SubSeqProperties
<1>3. /\ b \in Seq(S) /\ Len(b) = Len(s) - i + 1
      /\ \A j \in 1 .. (Len(s) - i + 1) : b[j] = s[i + j - 1]
  <2>1. \A j \in i .. Len(s) : s[j] \in S
    BY <1>1
  <2> QED BY <1>1, <2>1, SubSeqProperties
<1>4. <<x>> \in Seq(S) /\ Len(<<x>>) = 1 /\ <<x>>[1] = x
  OBVIOUS
<1> HIDE DEF a, b
<1>5. /\ c \in Seq(S) /\ Len(c) = i
      /\ \A j \in 1 .. i : c[j] = IF j <= i - 1 THEN a[j] ELSE <<x>>[j - (i - 1)]
  BY <1>1, <1>2, <1>4, ConcatProperties
<1>6. \A j \in 1 .. i : c[j] = IF j < i THEN s[j] ELSE x
  BY <1>1, <1>2, <1>4, <1>5
<1> HIDE DEF c
<1>7. /\ c \o b \in Seq(S) /\ Len(c \o b) = Len(s) + 1
      /\ \A j \in 1 .. (Len(s) + 1) : (c \o b)[j] = IF j <= i THEN c[j] ELSE b[j - i]
  BY <1>1, <1>3, <1>5, ConcatProperties
<1>8. \A j \in 1 .. (Len(s) + 1) :
        (c \o b)[j] = IF j < i THEN s[j] ELSE IF j = i THEN x ELSE s[j - 1]
  BY <1>1, <1>3, <1>6, <1>7
<1>9. InsertAt(s, i, x) = c \o b
  BY DEF InsertAt, a, b, c
<1> QED BY <1>7, <1>8, <1>9 DEF InsertedAt

\* Removing place i: the elements before and after it close up.
LEMMA RemoveAtPlaces ==
  ASSUME NEW S, NEW s \in Seq(S), NEW i \in 1 .. Len(s)
  PROVE  /\ RemoveAt(s, i) \in Seq(S)
         /\ Len(RemoveAt(s, i)) = Len(s) - 1
         /\ \A j \in 1 .. (Len(s) - 1) :
              RemoveAt(s, i)[j] = IF j < i THEN s[j] ELSE s[j + 1]
<1> DEFINE a == SubSeq(s, 1, i - 1)
           b == SubSeq(s, i + 1, Len(s))
<1>1. Len(s) \in Nat /\ \A j \in 1 .. Len(s) : s[j] \in S
  BY LenProperties
<1>2. /\ a \in Seq(S) /\ Len(a) = i - 1
      /\ \A j \in 1 .. (i - 1) : a[j] = s[j]
  <2>1. \A j \in 1 .. (i - 1) : s[j] \in S
    BY <1>1
  <2> QED BY <1>1, <2>1, SubSeqProperties
<1>3. /\ b \in Seq(S) /\ Len(b) = Len(s) - i
      /\ \A j \in 1 .. (Len(s) - i) : b[j] = s[i + j]
  <2>1. \A j \in (i + 1) .. Len(s) : s[j] \in S
    BY <1>1
  <2> QED BY <1>1, <2>1, SubSeqProperties
<1> HIDE DEF a, b
<1>4. /\ a \o b \in Seq(S) /\ Len(a \o b) = Len(s) - 1
      /\ \A j \in 1 .. (Len(s) - 1) :
           (a \o b)[j] = IF j <= i - 1 THEN a[j] ELSE b[j - (i - 1)]
  <2>1. /\ a \o b \in Seq(S) /\ Len(a \o b) = Len(a) + Len(b)
        /\ \A j \in 1 .. (Len(a) + Len(b)) :
             (a \o b)[j] = IF j <= Len(a) THEN a[j] ELSE b[j - Len(a)]
    BY <1>2, <1>3, ConcatProperties
  <2>2. Len(a) + Len(b) = Len(s) - 1
    BY <1>1, <1>2, <1>3
  <2> QED BY <2>1, <2>2, <1>2
<1>5. ASSUME NEW j \in 1 .. (Len(s) - 1)
      PROVE  (a \o b)[j] = IF j < i THEN s[j] ELSE s[j + 1]
  <2>1. CASE j < i
    <3>1. j \in 1 .. (i - 1) /\ j <= i - 1
      BY <2>1, <1>1
    <3>2. (a \o b)[j] = a[j]
      BY <3>1, <1>4
    <3> QED BY <2>1, <3>1, <3>2, <1>2
  <2>2. CASE ~(j < i)
    <3>1. j - (i - 1) \in 1 .. (Len(s) - i) /\ ~(j <= i - 1) /\ i + (j - (i - 1)) = j + 1
      BY <2>2, <1>1
    <3>2. (a \o b)[j] = b[j - (i - 1)]
      BY <3>1, <1>4
    <3> QED BY <2>2, <3>1, <3>2, <1>3
  <2> QED BY <2>1, <2>2
<1> QED BY <1>4, <1>5 DEF RemoveAt, a, b

\* rt_list_remove: x is gone, everything else is still linked, nothing twice.
LEMMA ListRemove ==
  ASSUME NEW S, NEW s \in Seq(S), NEW x, Distinct(s)
  PROVE  /\ rt_list_remove(s, x) \in Seq(S)
         /\ Distinct(rt_list_remove(s, x))
         /\ \A y : Linked(rt_list_remove(s, x), y) <=> Linked(s, y) /\ y # x
<1>1. CASE ~Linked(s, x)
  BY <1>1 DEF rt_list_remove, Linked
<1>2. CASE Linked(s, x)
  <2> DEFINE i == PlaceOf(s, x)
             r == RemoveAt(s, i)
  <2>1. Len(s) \in Nat /\ DOMAIN s = 1 .. Len(s)
    BY LenProperties
  <2>2. i \in 1 .. Len(s) /\ s[i] = x
    BY <1>2, <2>1 DEF Linked, PlaceOf
  <2> HIDE DEF i
  <2>3. /\ r \in Seq(S) /\ Len(r) = Len(s) - 1
        /\ \A j \in 1 .. (Len(s) - 1) : r[j] = IF j < i THEN s[j] ELSE s[j + 1]
    BY <2>2, RemoveAtPlaces
  <2> HIDE DEF r
  <2>4. DOMAIN r = 1 .. (Len(s) - 1)
    BY <2>3, LenProperties
  <2>5. Distinct(r)
    <3> SUFFICES ASSUME NEW j \in DOMAIN r, NEW k \in DOMAIN r, r[j] = r[k]
                 PROVE  j = k
      BY DEF Distinct
    <3> DEFINE jj == IF j < i THEN j ELSE j + 1
               kk == IF k < i THEN k ELSE k + 1
    <3>1. jj \in 1 .. Len(s) /\ kk \in 1 .. Len(s) /\ s[jj] = s[kk]
      BY <2>1, <2>2, <2>3, <2>4
    <3>2. jj = kk
      BY <3>1, <2>1 DEF Distinct
    <3> QED BY <3>2, <2>1, <2>2, <2>4
  <2>6. ASSUME NEW y, Linked(r, y)
        PROVE  Linked(s, y) /\ y # x
    <3>1. PICK j \in DOMAIN r : r[j] = y
      BY <2>6 DEF Linked
    <3> DEFINE jj == IF j < i THEN j ELSE j + 1
    <3>2. jj \in 1 .. Len(s) /\ s[jj] = y /\ jj # i
      BY <3>1, <2>1, <2>2, <2>3, <2>4
    <3> QED BY <3>2, <2>1, <2>2 DEF Linked, Distinct
  <2>7. ASSUME NEW y, Linked(s, y), y # x
        PROVE  Linked(r, y)
    <3>1. PICK j \in 1 .. Len(s) : s[j] = y
      BY <2>7, <2>1 DEF Linked
    <3>2. j # i
      BY <3>1, <2>2, <2>7
    <3> DEFINE jj == IF j < i THEN j ELSE j - 1
    <3>3. jj \in 1 .. (Len(s) - 1) /\ r[jj] = y
      BY <3>1, <3>2, <2>1, <2>2, <2>3
    <3> QED BY <3>3, <2>4 DEF Linked
  <2> QED BY <1>2, <2>3, <2>5, <2>6, <2>7 DEF rt_list_remove, r, i
<1> QED BY <1>1, <1>2

\* Inserting an object that is not linked, at any place.
LEMMA ListInsertAt ==
  ASSUME NEW S, NEW s \in Seq(S), NEW x \in S, NEW i \in 1 .. (Len(s) + 1),
         Distinct(s), ~Linked(s, x)
  PROVE  /\ InsertAt(s, i, x) \in Seq(S)
         /\ Distinct(InsertAt(s, i, x))
         /\ \A y : Linked(InsertAt(s, i, x), y) <=> Linked(s, y) \/ y = x
<1> DEFINE r == InsertAt(s, i, x)
<1>1. Len(s) \in Nat /\ DOMAIN s = 1 .. Len(s)
  BY LenProperties
<1>2. /\ r \in Seq(S) /\ Len(r) = Len(s) + 1
      /\ \A j \in 1 .. (Len(s) + 1) :
           r[j] = IF j < i THEN s[j] ELSE IF j = i THEN x ELSE s[j - 1]
  <2>1. r \in Seq(S) /\ InsertedAt(s, i, x, r)
    BY InsertAtPlaces
  <2> HIDE DEF r
  <2> QED BY <2>1 DEF InsertedAt
<1> HIDE DEF r
<1>3. DOMAIN r = 1 .. (Len(s) + 1)
  BY <1>2, LenProperties
<1>4. \A j \in 1 .. Len(s) : s[j] # x
  BY <1>1 DEF Linked
<1>5. Distinct(r)
  <2> SUFFICES ASSUME NEW j \in DOMAIN r, NEW k \in DOMAIN r, r[j] = r[k]
               PROVE  j = k
    BY DEF Distinct
  <2> DEFINE jj == IF j < i THEN j ELSE j - 1
             kk == IF k < i THEN k ELSE k - 1
  <2>1. CASE j = i \/ k = i
    BY <2>1, <1>1, <1>2, <1>3, <1>4
  <2>2. CASE j # i /\ k # i
    <3>1. jj \in 1 .. Len(s) /\ kk \in 1 .. Len(s) /\ s[jj] = s[kk]
      BY <2>2, <1>1, <1>2, <1>3
    <3>2. jj = kk
      BY <3>1, <1>1 DEF Distinct
    <3> QED BY <3>2, <2>2, <1>1, <1>3
  <2> QED BY <2>1, <2>2
<1>6. ASSUME NEW y, Linked(r, y)
      PROVE  Linked(s, y) \/ y = x
  <2>1. PICK j \in 1 .. (Len(s) + 1) : r[j] = y
    BY <1>6, <1>3 DEF Linked
  <2>2. CASE j = i
    BY <2>1, <2>2, <1>1, <1>2
  <2>3. CASE j # i
    <3> DEFINE jj == IF j < i THEN j ELSE j - 1
    <3>1. jj \in 1 .. Len(s) /\ s[jj] = y
      BY <2>1, <2>3, <1>1, <1>2
    <3> QED BY <3>1, <1>1 DEF Linked
  <2> QED BY <2>2, <2>3
<1>7. Linked(r, x)
  BY <1>1, <1>2, <1>3 DEF Linked
<1>8. ASSUME NEW y, Linked(s, y)
      PROVE  Linked(r, y)
  <2>1. PICK j \in 1 .. Len(s) : s[j] = y
    BY <1>8, <1>1 DEF Linked
  <2> DEFINE jj == IF j < i THEN j ELSE j + 1
  <2>2. jj \in 1 .. (Len(s) + 1) /\ r[jj] = y
    BY <2>1, <1>1, <1>2
  <2> QED BY <2>2, <1>3 DEF Linked
<1> QED BY <1>2, <1>5, <1>6, <1>7, <1>8 DEF r

\* rt_list_insert_before the list head: the new object is the last one.
LEMMA ListInsertBefore ==
  ASSUME NEW S, NEW s \in Seq(S), NEW x \in S, Distinct(s), ~Linked(s, x)
  PROVE  /\ rt_list_insert_before(s, x) \in Seq(S)
         /\ Distinct(rt_list_insert_before(s, x))
         /\ \A y : Linked(rt_list_insert_before(s, x), y) <=> Linked(s, y) \/ y = x
<1> DEFINE r == rt_list_insert_before(s, x)
<1>1. Len(s) \in Nat /\ DOMAIN s = 1 .. Len(s)
  BY LenProperties
<1>2. /\ r \in Seq(S) /\ Len(r) = Len(s) + 1
      /\ \A j \in 1 .. (Len(s) + 1) : r[j] = IF j <= Len(s) THEN s[j] ELSE x
  BY <1>1, AppendProperties DEF rt_list_insert_before
<1> HIDE DEF r
<1>3. DOMAIN r = 1 .. (Len(s) + 1)
  BY <1>2, LenProperties
<1>4. Distinct(r)
  BY <1>1, <1>2, <1>3 DEF Distinct, Linked
<1>5. \A y : Linked(r, y) <=> Linked(s, y) \/ y = x
  <2> SUFFICES ASSUME NEW y
               PROVE  Linked(r, y) <=> Linked(s, y) \/ y = x
    OBVIOUS
  <2>1. Linked(r, x)
    BY <1>1, <1>2, <1>3 DEF Linked
  <2>2. Linked(r, y) <=> \E j \in 1 .. (Len(s) + 1) : r[j] = y
    BY <1>3 DEF Linked
  <2>3. Linked(s, y) <=> \E j \in 1 .. Len(s) : s[j] = y
    BY <1>1 DEF Linked
  <2> QED BY <2>1, <2>2, <2>3, <1>1, <1>2
<1> QED BY <1>2, <1>4, <1>5 DEF r

\* rt_list_insert_after the list head: the new object is the first one.
LEMMA ListInsertAfter ==
  ASSUME NEW S, NEW s \in Seq(S), NEW x \in S, Distinct(s), ~Linked(s, x)
  PROVE  /\ rt_list_insert_after(s, x) \in Seq(S)
         /\ Distinct(rt_list_insert_after(s, x))
         /\ \A y : Linked(rt_list_insert_after(s, x), y) <=> Linked(s, y) \/ y = x
<1> DEFINE r == rt_list_insert_after(s, x)
<1>1. Len(s) \in Nat /\ DOMAIN s = 1 .. Len(s)
  BY LenProperties
<1>2. <<x>> \in Seq(S) /\ Len(<<x>>) = 1 /\ <<x>>[1] = x
  OBVIOUS
<1>3. /\ r \in Seq(S) /\ Len(r) = 1 + Len(s)
      /\ \A j \in 1 .. (1 + Len(s)) : r[j] = IF j <= 1 THEN <<x>>[j] ELSE s[j - 1]
  BY <1>1, <1>2, ConcatProperties DEF rt_list_insert_after
<1> HIDE DEF r
<1>4. /\ DOMAIN r = 1 .. (Len(s) + 1)
      /\ \A j \in 1 .. (Len(s) + 1) : r[j] = IF j = 1 THEN x ELSE s[j - 1]
  BY <1>1, <1>2, <1>3, LenProperties
<1>5. Distinct(r)
  <2> SUFFICES ASSUME NEW j \in DOMAIN r, NEW k \in DOMAIN r, r[j] = r[k]
               PROVE  j = k
    BY DEF Distinct
  <2>1. CASE j = 1 \/ k = 1
    BY <2>1, <1>1, <1>4 DEF Linked
  <2>2. CASE j # 1 /\ k # 1
    <3>1. j - 1 \in DOMAIN s /\ k - 1 \in DOMAIN s /\ s[j - 1] = s[k - 1]
      BY <2>2, <1>1, <1>4
    <3>2. j - 1 = k - 1
      BY <3>1 DEF Distinct
    <3> QED BY <3>2, <1>1, <1>4
  <2> QED BY <2>1, <2>2
<1>6. ASSUME NEW y
      PROVE  Linked(r, y) <=> Linked(s, y) \/ y = x
  <2>1. Linked(r, x)
    BY <1>1, <1>4 DEF Linked
  <2>2. ASSUME Linked(s, y)
        PROVE  Linked(r, y)
    <3>1. PICK j \in 1 .. Len(s) : s[j] = y
      BY <2>2, <1>1 DEF Linked
    <3>2. j + 1 \in DOMAIN r /\ r[j + 1] = y
      BY <3>1, <1>1, <1>4
    <3> QED BY <3>2 DEF Linked
  <2>3. ASSUME Linked(r, y), y # x
        PROVE  Linked(s, y)
    <3>1. PICK j \in DOMAIN r : r[j] = y
      BY <2>3 DEF Linked
    <3>2. j - 1 \in DOMAIN s /\ s[j - 1] = y
      BY <3>1, <2>3, <1>1, <1>4
    <3> QED BY <3>2 DEF Linked
  <2> QED BY <2>1, <2>2, <2>3
<1> QED BY <1>3, <1>5, <1>6 DEF r

\* The head of a list that is not empty is linked; an empty list links nothing.
LEMMA ListHead ==
  ASSUME NEW S, NEW s \in Seq(S)
  PROVE  /\ s # <<>> => Head(s) \in S /\ Linked(s, Head(s))
         /\ s = <<>> <=> \A y : ~Linked(s, y)
<1>1. Len(s) \in Nat /\ DOMAIN s = 1 .. Len(s)
  BY LenProperties
<1>2. ASSUME s # <<>>
      PROVE  Head(s) \in S /\ Linked(s, Head(s))
  <2>1. Len(s) # 0
    BY <1>2, EmptySeq
  <2>2. Head(s) = s[1] /\ 1 \in DOMAIN s /\ Head(s) \in S
    BY <1>1, <1>2, <2>1, HeadTailProperties
  <2> QED BY <2>2 DEF Linked
<1>3. ASSUME NEW y
      PROVE  ~Linked(<<>>, y)
  BY DEF Linked
<1> QED BY <1>2, <1>3

\* The first element leaves: the rest stays in its order.
LEMMA ListRemoveHead ==
  ASSUME NEW S, NEW s \in Seq(S), s # <<>>, Distinct(s)
  PROVE  rt_list_remove(s, Head(s)) = Tail(s)
<1> DEFINE x == Head(s)
           r == RemoveAt(s, 1)
<1>1. /\ Len(s) \in Nat /\ Len(s) >= 1 /\ DOMAIN s = 1 .. Len(s)
  BY LenProperties, EmptySeq
<1>2. x = s[1] /\ 1 \in DOMAIN s
  BY <1>1
<1>3. Linked(s, x)
  BY <1>2 DEF Linked
<1>4. PlaceOf(s, x) = 1
  <2>1. \A i \in DOMAIN s : s[i] = x <=> i = 1
    BY <1>2 DEF Distinct
  <2> HIDE DEF x
  <2> QED BY <1>2, <2>1 DEF PlaceOf
<1>5. r \in Seq(S) /\ Len(r) = Len(s) - 1 /\ \A j \in 1 .. (Len(s) - 1) : r[j] = s[j + 1]
  <2>1. 1 \in 1 .. Len(s)
    BY <1>1
  <2>2. /\ r \in Seq(S) /\ Len(r) = Len(s) - 1
        /\ \A j \in 1 .. (Len(s) - 1) : r[j] = IF j < 1 THEN s[j] ELSE s[j + 1]
    BY <2>1, RemoveAtPlaces
  <2> HIDE DEF r
  <2> QED BY <1>1, <2>2
<1>6. Tail(s) \in Seq(S) /\ Len(Tail(s)) = Len(s) - 1 /\ \A j \in 1 .. Len(Tail(s)) : Tail(s)[j] = s[j + 1]
  BY HeadTailProperties
<1>7. r = Tail(s)
  <2> HIDE DEF r
  <2> QED BY <1>5, <1>6, SeqEqual
<1> QED BY <1>3, <1>4, <1>7 DEF rt_list_remove

\* The same of a list that something joins.
LEMMA ListRemoveHeadAppend ==
  ASSUME NEW S, NEW s \in Seq(S), NEW y \in S, s # <<>>, Distinct(s), ~Linked(s, y)
  PROVE  rt_list_remove(Append(s, y), Head(s)) = Append(Tail(s), y)
<1> DEFINE a == Append(s, y)
<1>1. a \in Seq(S) /\ Distinct(a)
  BY ListInsertBefore DEF rt_list_insert_before
<1>2. a # <<>> /\ Head(a) = Head(s) /\ Tail(a) = Append(Tail(s), y)
  OBVIOUS
<1> HIDE DEF a
<1> QED BY <1>1, <1>2, ListRemoveHead DEF a
=============================================================================

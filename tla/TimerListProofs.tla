-------------------------- MODULE TimerListProofs --------------------------
(***************************************************************************)
(* The timer operations keep the list free of duplicates and in agreement  *)
(* with RT_TIMER_FLAG_ACTIVATED, and in the order of the ticks that are    *)
(* left of each timeout, also across the wrap of the tick counter.         *)
(***************************************************************************)
EXTENDS TimerList, ListsProofs

TimersOK(X, tb) ==
  /\ tb \in Bases(X) /\ Distinct(tb.list)
  /\ \A x \in X : Linked(tb.list, x) <=> x \in tb.act

\* The empty timer list satisfies the invariant of the timers.
LEMMA InitialTimers ==
  ASSUME NEW X
  PROVE  TimersOK(X, [list |-> <<>>, timeout |-> [x \in X |-> 0],
                      init |-> [x \in X |-> 0], act |-> {}])
<1>1. 0 \in Ticks /\ 0 \in Durations
  <2>1. 0 < (TickMod - 1) \div 2
    BY TickModAssumption
  <2> QED BY <2>1, TickModAssumption DEF Ticks, Durations, RT_TICK_MAX
<1>2. Distinct(<<>>) /\ \A y : ~Linked(<<>>, y)
  BY DEF Distinct, Linked
<1> QED BY <1>1, <1>2 DEF TimersOK, Bases

\* rt_timer_detach leaves exactly the other timers active and linked.
LEMMA DetachOK ==
  ASSUME NEW X, NEW tb, TimersOK(X, tb), NEW x \in X
  PROVE  /\ TimersOK(X, rt_timer_detach(tb, x))
         /\ rt_timer_detach(tb, x).act = tb.act \ {x}
<1> DEFINE s == rt_list_remove(tb.list, x)
           r == rt_timer_detach(tb, x)
<1>1. /\ tb \in Bases(X) /\ tb.list \in Seq(X) /\ Distinct(tb.list) /\ tb.act \in SUBSET X
      /\ \A y \in X : Linked(tb.list, y) <=> y \in tb.act
  BY DEF TimersOK, Bases
<1>2. /\ s \in Seq(X) /\ Distinct(s)
      /\ \A y : Linked(s, y) <=> Linked(tb.list, y) /\ y # x
  BY <1>1, ListRemove
<1>3. r = [tb EXCEPT !.list = s, !.act = tb.act \ {x}]
  BY <1>1 DEF rt_timer_detach, timer_remove, Bases
<1> HIDE DEF s, r
<1>4. r \in Bases(X) /\ r.list = s /\ r.act = tb.act \ {x}
  BY <1>1, <1>2, <1>3 DEF Bases
<1> QED BY <1>1, <1>2, <1>4 DEF TimersOK, r

\* rt_timer_stop does the same to an active timer, and nothing otherwise.
LEMMA StopOK ==
  ASSUME NEW X, NEW tb, TimersOK(X, tb), NEW x \in X
  PROVE  /\ TimersOK(X, rt_timer_stop(tb, x))
         /\ rt_timer_stop(tb, x).act = tb.act \ {x}
<1>1. CASE x \in tb.act
  <2>1. rt_timer_stop(tb, x) = rt_timer_detach(tb, x)
    BY <1>1 DEF rt_timer_stop, rt_timer_detach
  <2> QED BY <2>1, DetachOK
<1>2. CASE x \notin tb.act
  <2>1. rt_timer_stop(tb, x) = tb /\ tb.act \ {x} = tb.act
    BY <1>2 DEF rt_timer_stop
  <2> QED BY <2>1
<1> QED BY <1>1, <1>2

\* The scan of rt_timer_start ends inside the list or at its end.
LEMMA InsertPositionOK ==
  ASSUME NEW tb, NEW X, NEW s \in Seq(X), NEW timeout
  PROVE  InsertPosition(tb, s, timeout) \in 1 .. (Len(s) + 1)
<1> DEFINE later == {i \in DOMAIN s : Later(tb, s[i], timeout)}
<1>1. Len(s) \in Nat /\ DOMAIN s = 1 .. Len(s)
  BY LenProperties
<1>2. CASE later = {}
  BY <1>1, <1>2 DEF InsertPosition
<1>3. CASE later # {}
  <2>1. later \in SUBSET Nat
    BY <1>1
  <2>2. \E i \in later : \A j \in later : i <= j
    BY <1>3, <2>1, LeastNatural
  <2>3. InsertPosition(tb, s, timeout) \in later
    BY <1>3, <2>2 DEF InsertPosition
  <2> QED BY <1>1, <2>3
<1> QED BY <1>2, <1>3

\* rt_timer_start links the timer once, whether or not it was active.
LEMMA StartOK ==
  ASSUME NEW X, NEW tb, TimersOK(X, tb), NEW x \in X, NEW now \in Ticks
  PROVE  /\ TimersOK(X, rt_timer_start(tb, x, now))
         /\ rt_timer_start(tb, x, now).act = tb.act \cup {x}
<1> DEFINE timeout == (now + tb.init[x]) % TickMod
           s == rt_list_remove(tb.list, x)
           i == InsertPosition(tb, s, timeout)
           z == InsertAt(s, i, x)
           r == rt_timer_start(tb, x, now)
<1>1. /\ tb \in Bases(X) /\ tb.list \in Seq(X) /\ Distinct(tb.list) /\ tb.act \in SUBSET X
      /\ tb.timeout \in [X -> Ticks] /\ tb.init[x] \in Durations
      /\ \A y \in X : Linked(tb.list, y) <=> y \in tb.act
  BY DEF TimersOK, Bases
<1>2. timeout \in Ticks
  <2>1. now \in Int /\ tb.init[x] \in Int /\ TickMod \in Nat /\ TickMod >= 4
    BY <1>1, TickModAssumption DEF Ticks, Durations
  <2>2. timeout \in 0 .. (TickMod - 1)
    <3> HIDE DEF s, i, z, r
    <3> QED BY <2>1
  <2> QED BY <2>2 DEF Ticks
<1> HIDE DEF timeout
<1>3. /\ s \in Seq(X) /\ Distinct(s)
      /\ \A y : Linked(s, y) <=> Linked(tb.list, y) /\ y # x
  BY <1>1, ListRemove
<1>4. i \in 1 .. (Len(s) + 1)
  <2> HIDE DEF s
  <2> QED BY <1>3, InsertPositionOK
<1>5. z \in Seq(X) /\ Distinct(z) /\ \A y : Linked(z, y) <=> Linked(s, y) \/ y = x
  <2> HIDE DEF s, i
  <2> QED BY <1>3, <1>4, ListInsertAt
<1>6. r = [tb EXCEPT !.list = z, !.timeout = [tb.timeout EXCEPT ![x] = timeout],
                     !.act = tb.act \cup {x}]
  BY <1>1 DEF rt_timer_start, timeout, Bases
<1> HIDE DEF s, i, z, r
<1>7. r \in Bases(X) /\ r.list = z /\ r.act = tb.act \cup {x}
  BY <1>1, <1>2, <1>5, <1>6 DEF Bases
<1> QED BY <1>1, <1>3, <1>5, <1>7 DEF TimersOK, r

\* RT_TIMER_CTRL_SET_TIME moves no timer.
LEMMA SetTimeOK ==
  ASSUME NEW X, NEW tb, TimersOK(X, tb), NEW x \in X, NEW d \in Durations
  PROVE  TimersOK(X, timer_set_time(tb, x, d)) /\ timer_set_time(tb, x, d).act = tb.act
<1>1. tb \in Bases(X) /\ tb.init \in [X -> Durations]
  BY DEF TimersOK, Bases
<1>2. timer_set_time(tb, x, d) = [tb EXCEPT !.init = [tb.init EXCEPT ![x] = d]]
  BY <1>1 DEF timer_set_time, Bases
<1>3. [tb.init EXCEPT ![x] = d] \in [X -> Durations]
  BY <1>1
<1> QED BY <1>1, <1>2, <1>3 DEF TimersOK, Bases

\* _timer_init clears the flags; the timer must not be linked.
LEMMA InitTimerOK ==
  ASSUME NEW X, NEW tb, TimersOK(X, tb), NEW x \in X, x \notin tb.act,
         NEW d \in Durations
  PROVE  TimersOK(X, timer_init(tb, x, d)) /\ timer_init(tb, x, d).act = tb.act
<1>1. tb \in Bases(X) /\ tb.init \in [X -> Durations] /\ tb.timeout \in [X -> Ticks]
  BY DEF TimersOK, Bases
<1>2. timer_init(tb, x, d) = [tb EXCEPT !.timeout = [tb.timeout EXCEPT ![x] = 0],
                                        !.init = [tb.init EXCEPT ![x] = d]]
  BY <1>1 DEF timer_init, Bases
<1>3. /\ [tb.init EXCEPT ![x] = d] \in [X -> Durations]
      /\ [tb.timeout EXCEPT ![x] = 0] \in [X -> Ticks]
  <2>1. 0 \in Ticks
    BY TickModAssumption DEF Ticks
  <2> QED BY <1>1, <2>1
<1> QED BY <1>1, <1>2, <1>3 DEF TimersOK, Bases

-----------------------------------------------------------------------------
Half == RT_TICK_MAX \div 2

\* The ticks that are left until timeout, -1 for one that is a tick overdue.
Left(now, timeout) ==
  IF Diff(timeout, now) = RT_TICK_MAX THEN -1 ELSE Diff(timeout, now)

-----------------------------------------------------------------------------
(* Ticks.  The counter has at least six values, so that half its range has *)
(* room for a timeout of one tick.                                         *)
Roomy == TickMod > 5

LEMMA HalfBounds ==
  ASSUME Roomy
  PROVE  /\ Half \in Nat /\ Half >= 2
         /\ 2 * Half <= TickMod - 1 /\ TickMod - 1 <= 2 * Half + 1
<1>1. TickMod \in Nat /\ TickMod > 5
  BY TickModAssumption DEF Roomy
<1> QED BY <1>1 DEF Half, RT_TICK_MAX

LEMMA DiffValue ==
  ASSUME NEW a \in Ticks, NEW b \in Ticks
  PROVE  Diff(a, b) = IF a >= b THEN a - b ELSE a - b + TickMod
<1>1. /\ a \in Int /\ b \in Int /\ 0 <= a /\ a < TickMod /\ 0 <= b /\ b < TickMod
      /\ TickMod \in Nat /\ TickMod > 0
  BY TickModAssumption DEF Ticks
<1>2. CASE a >= b
  <2>1. (a - b) % TickMod = a - b
    BY <1>1, <1>2
  <2> QED BY <1>2, <2>1 DEF Diff
<1>3. CASE ~(a >= b)
  <2>1. (a - b) % TickMod = a - b + TickMod
    BY <1>1, <1>3
  <2> QED BY <1>3, <2>1 DEF Diff
<1> QED BY <1>2, <1>3

LEMMA SumValue ==
  ASSUME NEW a \in Ticks, NEW b \in Ticks
  PROVE  /\ (a + b) % TickMod \in Ticks
         /\ (a + b) % TickMod = IF a + b < TickMod THEN a + b ELSE a + b - TickMod
<1>1. /\ a \in Int /\ b \in Int /\ 0 <= a /\ a < TickMod /\ 0 <= b /\ b < TickMod
      /\ TickMod \in Nat /\ TickMod > 0
  BY TickModAssumption DEF Ticks
<1>2. (a + b) % TickMod = IF a + b < TickMod THEN a + b ELSE a + b - TickMod
  <2>1. CASE a + b < TickMod
    BY <1>1, <2>1
  <2>2. CASE ~(a + b < TickMod)
    BY <1>1, <2>2
  <2> QED BY <2>1, <2>2
<1> QED BY <1>1, <1>2 DEF Ticks

LEMMA LeftValue ==
  ASSUME NEW now \in Ticks, NEW a \in Ticks
  PROVE  /\ now \in Int /\ a \in Int /\ TickMod \in Nat
         /\ 0 <= a /\ a < TickMod /\ 0 <= now /\ now < TickMod
         /\ Left(now, a) = IF a >= now
                           THEN IF a - now = TickMod - 1 THEN -1 ELSE a - now
                           ELSE IF now - a = 1 THEN -1 ELSE a - now + TickMod
<1>1. /\ now \in Int /\ a \in Int /\ TickMod \in Nat
      /\ 0 <= a /\ a < TickMod /\ 0 <= now /\ now < TickMod
  BY TickModAssumption DEF Ticks
<1>2. Diff(a, now) = IF a >= now THEN a - now ELSE a - now + TickMod
  BY DiffValue
<1> QED BY <1>1, <1>2 DEF Left, RT_TICK_MAX

\* What is left of a duration that begins now.
LEMMA StartLeft ==
  ASSUME Roomy, NEW now \in Ticks, NEW d \in Durations
  PROVE  (now + d) % TickMod \in Ticks /\ Left(now, (now + d) % TickMod) = d
<1> DEFINE a == (now + d) % TickMod
<1>1. d \in Ticks /\ 0 <= d /\ d < Half
  BY DEF Durations, Half, Ticks
<1>2. a \in Ticks /\ a = IF now + d < TickMod THEN now + d ELSE now + d - TickMod
  BY <1>1, SumValue
<1> HIDE DEF a
<1>3. d \in Int
  BY <1>1 DEF Ticks
<1> QED BY <1>1, <1>2, <1>3, LeftValue, HalfBounds DEF a

\* The tick handler takes what has no tick left.
LEMMA ExpiredLeft ==
  ASSUME Roomy, NEW now \in Ticks, NEW a \in Ticks, Left(now, a) < Half
  PROVE  /\ Left(now, a) \in Int /\ Left(now, a) >= -1
         /\ Expired(now, a) <=> Left(now, a) <= 0
         /\ Left(now, a) = 0 => a = now
<1>1. Diff(now, a) = IF now >= a THEN now - a ELSE now - a + TickMod
  BY DiffValue
<1> QED BY <1>1, LeftValue, HalfBounds DEF Expired, Half

\* The scan of a list compares what is left.
LEMMA LaterLeft ==
  ASSUME Roomy, NEW now \in Ticks, NEW a \in Ticks, NEW b \in Ticks,
         Left(now, a) < Half, Left(now, b) < Half,
         NEW d, d = Diff(a, b)
  PROVE  /\ Left(now, a) <= Left(now, b) => ~(d # 0 /\ d < Half)
         /\ Left(now, b) >= 0 /\ ~(Left(now, a) <= Left(now, b)) => d # 0 /\ d < Half
<1>1. d = IF a >= b THEN a - b ELSE a - b + TickMod
  BY DiffValue
<1> QED BY <1>1, LeftValue, HalfBounds

\* A tick.
LEMMA NextLeft ==
  ASSUME Roomy, NEW now \in Ticks, NEW a \in Ticks, 0 <= Left(now, a), Left(now, a) < Half
  PROVE  (now + 1) % TickMod \in Ticks /\ Left((now + 1) % TickMod, a) = Left(now, a) - 1
<1> DEFINE n == (now + 1) % TickMod
<1>1. 1 \in Ticks
  BY TickModAssumption DEF Ticks
<1>2. n \in Ticks /\ n = IF now + 1 < TickMod THEN now + 1 ELSE now + 1 - TickMod
  BY <1>1, SumValue
<1> HIDE DEF n
<1>3. Left(n, a) = Left(now, a) - 1
  BY <1>2, LeftValue, HalfBounds
<1> QED BY <1>2, <1>3 DEF n

-----------------------------------------------------------------------------
(* Lists in the order of a function of their elements. *)
Ordered(s, L) == \A i, j \in DOMAIN s : i < j => L[s[i]] <= L[s[j]]

LEMMA OrderedRemove ==
  ASSUME NEW X, NEW L \in [X -> Int], NEW s \in Seq(X), NEW x, Ordered(s, L)
  PROVE  Ordered(rt_list_remove(s, x), L)
<1>1. CASE ~Linked(s, x)
  BY <1>1 DEF rt_list_remove
<1>2. CASE Linked(s, x)
  <2> DEFINE p == PlaceOf(s, x)
             r == RemoveAt(s, p)
  <2>1. Len(s) \in Nat /\ DOMAIN s = 1 .. Len(s)
    BY LenProperties
  <2>2. p \in 1 .. Len(s)
    BY <1>2, <2>1 DEF Linked, PlaceOf
  <2> HIDE DEF p
  <2>3. /\ r \in Seq(X) /\ Len(r) = Len(s) - 1
        /\ \A j \in 1 .. (Len(s) - 1) : r[j] = IF j < p THEN s[j] ELSE s[j + 1]
    BY <2>2, RemoveAtPlaces
  <2> HIDE DEF r
  <2>4. DOMAIN r = 1 .. (Len(s) - 1)
    BY <2>3, LenProperties
  <2>5. ASSUME NEW i \in DOMAIN r, NEW j \in DOMAIN r, i < j
        PROVE  L[r[i]] <= L[r[j]]
    <3> DEFINE ii == IF i < p THEN i ELSE i + 1
               jj == IF j < p THEN j ELSE j + 1
    <3>1. r[i] = s[ii] /\ r[j] = s[jj]
      BY <2>3, <2>4
    <3>2. ii \in 1 .. Len(s) /\ jj \in 1 .. Len(s) /\ ii < jj
      <4>1. /\ Len(s) \in Int /\ p \in Int /\ 1 <= p /\ p <= Len(s)
            /\ i \in Int /\ j \in Int /\ 1 <= i /\ i < j /\ j <= Len(s) - 1
        BY <2>1, <2>2, <2>4, <2>5
      <4>2. ii \in Int /\ 1 <= ii /\ ii <= Len(s)
        BY <4>1
      <4>3. jj \in Int /\ 1 <= jj /\ jj <= Len(s)
        BY <4>1
      <4>4. ii < jj
        BY <4>1
      <4> QED BY <2>1, <4>2, <4>3, <4>4
    <3> HIDE DEF ii, jj
    <3> QED BY <2>1, <3>1, <3>2 DEF Ordered
  <2> QED BY <1>2, <2>5 DEF Ordered, rt_list_remove, r, p
<1> QED BY <1>1, <1>2

LEMMA OrderedInsert ==
  ASSUME NEW X, NEW L \in [X -> Int], NEW s \in Seq(X), NEW x \in X, Ordered(s, L),
         NEW p \in 1 .. (Len(s) + 1),
         \A i \in 1 .. Len(s) : i < p => L[s[i]] <= L[x],
         \A i \in 1 .. Len(s) : p <= i => L[x] <= L[s[i]]
  PROVE  Ordered(InsertAt(s, p, x), L)
<1> DEFINE r == InsertAt(s, p, x)
<1>1. Len(s) \in Nat /\ DOMAIN s = 1 .. Len(s) /\ L[x] \in Int
  BY LenProperties
<1>2. r \in Seq(X) /\ InsertedAt(s, p, x, r)
  BY InsertAtPlaces
<1> HIDE DEF r
<1>3. /\ DOMAIN r = 1 .. (Len(s) + 1)
      /\ \A j \in 1 .. (Len(s) + 1) :
           r[j] = IF j < p THEN s[j] ELSE IF j = p THEN x ELSE s[j - 1]
  BY <1>2, LenProperties DEF InsertedAt
<1>4. ASSUME NEW i \in DOMAIN r, NEW j \in DOMAIN r, i < j
      PROVE  L[r[i]] <= L[r[j]]
  <2>1. CASE i = p
    <3>1. j - 1 \in 1 .. Len(s) /\ p <= j - 1 /\ r[i] = x /\ r[j] = s[j - 1]
      BY <1>1, <1>3, <1>4, <2>1
    <3> QED BY <3>1
  <2>2. CASE j = p
    <3>1. i \in 1 .. Len(s) /\ i < p /\ r[i] = s[i] /\ r[j] = x
      BY <1>1, <1>3, <1>4, <2>2
    <3> QED BY <3>1
  <2>3. CASE i # p /\ j # p
    <3> DEFINE ii == IF i < p THEN i ELSE i - 1
               jj == IF j < p THEN j ELSE j - 1
    <3>1. r[i] = s[ii] /\ r[j] = s[jj]
      BY <1>3, <2>3
    <3>2. ii \in 1 .. Len(s) /\ jj \in 1 .. Len(s) /\ ii < jj
      <4>1. /\ Len(s) \in Int /\ p \in Int /\ 1 <= p /\ p <= Len(s) + 1
            /\ i \in Int /\ j \in Int /\ 1 <= i /\ i < j /\ j <= Len(s) + 1
            /\ i # p /\ j # p
        BY <1>1, <1>3, <1>4, <2>3
      <4>2. ii \in Int /\ 1 <= ii /\ ii <= Len(s)
        BY <4>1
      <4>3. jj \in Int /\ 1 <= jj /\ jj <= Len(s)
        BY <4>1
      <4>4. ii < jj
        BY <4>1
      <4> QED BY <1>1, <4>2, <4>3, <4>4
    <3> HIDE DEF ii, jj
    <3> QED BY <1>1, <3>1, <3>2 DEF Ordered
  <2> QED BY <2>1, <2>2, <2>3
<1> QED BY <1>4 DEF Ordered, r

-----------------------------------------------------------------------------
(* The operations on a base of timers.  A linked timer is active; an active *)
(* one may be firing instead.                                               *)
BaseOK(X, tb) ==
  /\ tb \in Bases(X) /\ Distinct(tb.list)
  /\ \A x \in X : Linked(tb.list, x) => x \in tb.act

LeftOf(X, tb, now) == [x \in X |-> Left(now, tb.timeout[x])]

\* The linked timers are less than half the range away, in their order.
QueueOK(X, tb, now) ==
  /\ \A x \in X : Linked(tb.list, x) => Left(now, tb.timeout[x]) < Half
  /\ Ordered(tb.list, LeftOf(X, tb, now))

LEMMA BaseFields ==
  ASSUME NEW X, NEW tb, BaseOK(X, tb)
  PROVE  /\ tb = [list |-> tb.list, timeout |-> tb.timeout, init |-> tb.init, act |-> tb.act]
         /\ tb.list \in Seq(X) /\ tb.timeout \in [X -> Ticks] /\ tb.init \in [X -> Durations]
         /\ tb.act \in SUBSET X
         /\ \A y : Linked(tb.list, y) => y \in tb.act /\ y \in X
<1>1. tb \in Bases(X)
  BY DEF BaseOK
<1>2. \A y : Linked(tb.list, y) => y \in X
  BY <1>1, LenProperties DEF Bases, Linked
<1> QED BY <1>1, <1>2 DEF Bases, BaseOK

LEMMA LeftFunction ==
  ASSUME NEW X, NEW tb, BaseOK(X, tb), NEW now \in Ticks
  PROVE  LeftOf(X, tb, now) \in [X -> Int]
<1>1. \A x \in X : Left(now, tb.timeout[x]) \in Int
  BY BaseFields, LeftValue
<1> QED BY <1>1 DEF LeftOf

\* r is tb without x on its list and with the active timers a.
Unlinked(X, tb, x, a, r) ==
  /\ BaseOK(X, r) /\ r.act = a /\ r.timeout = tb.timeout /\ r.init = tb.init
  /\ \A y : Linked(r.list, y) <=> Linked(tb.list, y) /\ y # x
  /\ \A now \in Ticks : QueueOK(X, tb, now) => QueueOK(X, r, now)

LEMMA UnlinkTimer ==
  ASSUME NEW X, NEW tb, BaseOK(X, tb), NEW x \in X,
         NEW a \in {tb.act, tb.act \ {x}},
         NEW r, r = [tb EXCEPT !.list = rt_list_remove(tb.list, x), !.act = a]
  PROVE  Unlinked(X, tb, x, a, r)
<1> DEFINE s == rt_list_remove(tb.list, x)
<1>1. /\ tb = [list |-> tb.list, timeout |-> tb.timeout, init |-> tb.init, act |-> tb.act]
      /\ tb.list \in Seq(X) /\ tb.timeout \in [X -> Ticks] /\ tb.init \in [X -> Durations]
      /\ tb.act \in SUBSET X /\ Distinct(tb.list)
      /\ \A y : Linked(tb.list, y) => y \in tb.act
  BY BaseFields DEF BaseOK
<1>2. /\ s \in Seq(X) /\ Distinct(s)
      /\ \A y : Linked(s, y) <=> Linked(tb.list, y) /\ y # x
  BY <1>1, ListRemove
<1>3. \A now \in Ticks : Ordered(tb.list, LeftOf(X, tb, now)) => Ordered(s, LeftOf(X, tb, now))
  BY <1>1, LeftFunction, OrderedRemove
<1> HIDE DEF s
<1>4. r = [list |-> s, timeout |-> tb.timeout, init |-> tb.init, act |-> a]
  BY <1>1 DEF s
<1>a. a \in SUBSET X /\ \A y : Linked(s, y) => y \in a
  BY <1>1, <1>2
<1>b. r.list = s /\ r.timeout = tb.timeout /\ r.init = tb.init /\ r.act = a
  <2>1. PICK q : q = [list |-> s, timeout |-> tb.timeout, init |-> tb.init, act |-> a]
    OBVIOUS
  <2>2. q.list = s /\ q.timeout = tb.timeout /\ q.init = tb.init /\ q.act = a
    BY <2>1
  <2>3. q = r
    BY <1>4, <2>1, Zenon
  <2> QED BY <2>2, <2>3, Zenon
<1>5. BaseOK(X, r)
  <2>1. r \in Bases(X)
    BY <1>1, <1>2, <1>4, <1>a DEF Bases
  <2> QED BY <1>2, <1>a, <1>b, <2>1 DEF BaseOK
<1>6. \A now \in Ticks : LeftOf(X, r, now) = LeftOf(X, tb, now)
  BY <1>b DEF LeftOf
<1>7. ASSUME NEW now \in Ticks, QueueOK(X, tb, now)
      PROVE  QueueOK(X, r, now)
  <2>1. Ordered(r.list, LeftOf(X, r, now))
    BY <1>3, <1>6, <1>7, <1>b DEF QueueOK
  <2> QED BY <1>2, <1>7, <1>b, <2>1 DEF QueueOK
<1> QED BY <1>2, <1>5, <1>7, <1>b DEF Unlinked

LEMMA DetachTimerOK ==
  ASSUME NEW X, NEW tb, BaseOK(X, tb), NEW x \in X
  PROVE  Unlinked(X, tb, x, tb.act \ {x}, rt_timer_detach(tb, x))
<1>1. rt_timer_detach(tb, x) =
        [tb EXCEPT !.list = rt_list_remove(tb.list, x), !.act = tb.act \ {x}]
  BY BaseFields DEF rt_timer_detach, timer_remove
<1> QED BY <1>1, UnlinkTimer

LEMMA StopTimerOK ==
  ASSUME NEW X, NEW tb, BaseOK(X, tb), NEW x \in X
  PROVE  Unlinked(X, tb, x, tb.act \ {x}, rt_timer_stop(tb, x))
<1>1. CASE x \in tb.act
  <2>1. rt_timer_stop(tb, x) = rt_timer_detach(tb, x)
    BY <1>1 DEF rt_timer_stop, rt_timer_detach
  <2> QED BY <2>1, DetachTimerOK
<1>2. CASE x \notin tb.act
  <2>1. rt_timer_stop(tb, x) = tb /\ tb.act \ {x} = tb.act /\ ~Linked(tb.list, x)
    BY <1>2 DEF rt_timer_stop, BaseOK
  <2> QED BY <2>1 DEF Unlinked
<1> QED BY <1>1, <1>2

\* Where the scan of rt_timer_start stops.
LEMMA ScanStops ==
  ASSUME NEW tb, NEW X, NEW s \in Seq(X), NEW timeout, NEW p,
         p = InsertPosition(tb, s, timeout)
  PROVE  /\ p \in 1 .. (Len(s) + 1)
         /\ \A i \in 1 .. Len(s) : i < p => ~Later(tb, s[i], timeout)
         /\ p \in 1 .. Len(s) => Later(tb, s[p], timeout)
<1> DEFINE later == {i \in DOMAIN s : Later(tb, s[i], timeout)}
<1>1. Len(s) \in Nat /\ DOMAIN s = 1 .. Len(s)
  BY LenProperties
<1>2. p \in 1 .. (Len(s) + 1)
  BY InsertPositionOK
<1>3. CASE later = {}
  <2>1. p = Len(s) + 1
    BY <1>3 DEF InsertPosition
  <2>2. \A i \in 1 .. Len(s) : ~Later(tb, s[i], timeout)
    BY <1>1, <1>3
  <2> QED BY <1>1, <1>2, <2>1, <2>2
<1>4. CASE later # {}
  <2>1. \E i \in later : \A j \in later : i <= j
    <3>1. later \in SUBSET Nat
      BY <1>1
    <3> QED BY <1>4, <3>1, LeastNatural
  <2>2. p = CHOOSE i \in later : \A j \in later : i <= j
    BY <1>4 DEF InsertPosition
  <2>3. p \in later /\ \A j \in later : p <= j
    BY <2>1, <2>2
  <2> QED BY <1>1, <1>2, <2>3
<1> QED BY <1>3, <1>4

\* r is tb with x started at the tick now.
TimerStarted(X, tb, x, now, r) ==
  /\ BaseOK(X, r) /\ r.act = tb.act \cup {x} /\ r.init = tb.init
  /\ \A y : Linked(r.list, y) <=> Linked(tb.list, y) \/ y = x
  /\ \A y \in X : y # x => r.timeout[y] = tb.timeout[y]
  /\ Left(now, r.timeout[x]) = tb.init[x]
  /\ QueueOK(X, tb, now) => QueueOK(X, r, now)

LEMMA StartTimerOK ==
  ASSUME Roomy, NEW X, NEW tb, BaseOK(X, tb), NEW x \in X, NEW now \in Ticks
  PROVE  TimerStarted(X, tb, x, now, rt_timer_start(tb, x, now))
<1> DEFINE timeout == (now + tb.init[x]) % TickMod
           s == rt_list_remove(tb.list, x)
           p == InsertPosition(tb, s, timeout)
           z == InsertAt(s, p, x)
           T == [tb.timeout EXCEPT ![x] = timeout]
           r == rt_timer_start(tb, x, now)
<1>1. /\ tb = [list |-> tb.list, timeout |-> tb.timeout, init |-> tb.init, act |-> tb.act]
      /\ tb.list \in Seq(X) /\ tb.timeout \in [X -> Ticks] /\ tb.init \in [X -> Durations]
      /\ tb.act \in SUBSET X /\ Distinct(tb.list)
      /\ \A y : Linked(tb.list, y) => y \in tb.act
  BY BaseFields DEF BaseOK
<1>2. timeout \in Ticks /\ Left(now, timeout) = tb.init[x]
  BY <1>1, StartLeft
<1>3. r = [list |-> z, timeout |-> T, init |-> tb.init, act |-> tb.act \cup {x}]
  <2>1. r = [tb EXCEPT !.list = z, !.timeout = T, !.act = tb.act \cup {x}]
    BY <1>1 DEF rt_timer_start
  <2> HIDE DEF timeout, s, p, z, T, r
  <2> QED BY <1>1, <2>1
<1> HIDE DEF timeout, r
<1>4. /\ s \in Seq(X) /\ Distinct(s)
      /\ \A y : Linked(s, y) <=> Linked(tb.list, y) /\ y # x
  BY <1>1, ListRemove
<1>5. \A u : Ordered(tb.list, LeftOf(X, tb, now)) => Ordered(s, LeftOf(X, tb, now))
  BY <1>1, LeftFunction, OrderedRemove
<1> HIDE DEF s
<1>6. /\ p \in 1 .. (Len(s) + 1)
      /\ \A i \in 1 .. Len(s) : i < p => ~Later(tb, s[i], timeout)
      /\ p \in 1 .. Len(s) => Later(tb, s[p], timeout)
  BY <1>4, ScanStops
<1> HIDE DEF p
<1>7. z \in Seq(X) /\ Distinct(z) /\ \A y : Linked(z, y) <=> Linked(s, y) \/ y = x
  BY <1>4, <1>6, ListInsertAt
<1>8. T \in [X -> Ticks] /\ T[x] = timeout /\ \A y \in X : y # x => T[y] = tb.timeout[y]
  BY <1>1, <1>2
<1>9. ASSUME QueueOK(X, tb, now)
      PROVE  /\ \A y \in X : Linked(z, y) => Left(now, T[y]) < Half
             /\ Ordered(z, LeftOf(X, r, now))
  <2> DEFINE L == LeftOf(X, r, now)
  <2>1. L \in [X -> Int] /\ L[x] = tb.init[x] /\ \A y \in X : L[y] = Left(now, T[y])
    <3>1. \A y \in X : Left(now, T[y]) \in Int
      BY <1>8, LeftValue
    <3> QED BY <1>2, <1>3, <1>8, <3>1 DEF LeftOf
  <2>2. tb.init[x] \in Int /\ 0 <= tb.init[x] /\ tb.init[x] < Half
    BY <1>1 DEF Durations, Half, Ticks
  <2>3. Len(s) \in Nat /\ DOMAIN s = 1 .. Len(s) /\ \A i \in 1 .. Len(s) : s[i] \in X
    BY <1>4, LenProperties
  <2>4. \A i \in 1 .. Len(s) : Linked(s, s[i])
    BY <2>3 DEF Linked
  <2>5. \A i \in 1 .. Len(s) : /\ s[i] # x /\ T[s[i]] = tb.timeout[s[i]]
                               /\ L[s[i]] = Left(now, tb.timeout[s[i]])
                               /\ Left(now, tb.timeout[s[i]]) < Half
    BY <1>4, <1>8, <1>9, <2>1, <2>3, <2>4 DEF QueueOK
  <2>6. Ordered(s, L)
    <3>1. Ordered(s, LeftOf(X, tb, now))
      BY <1>5, <1>9 DEF QueueOK
    <3>2. \A i \in DOMAIN s : L[s[i]] = LeftOf(X, tb, now)[s[i]]
      BY <2>3, <2>5 DEF LeftOf
    <3> HIDE DEF L
    <3> QED BY <3>1, <3>2 DEF Ordered
  <2>7. ASSUME NEW i \in 1 .. Len(s)
        PROVE  Later(tb, s[i], timeout) <=> ~(L[s[i]] <= L[x])
    <3>1. /\ tb.timeout[s[i]] \in Ticks /\ Left(now, tb.timeout[s[i]]) < Half
          /\ Left(now, timeout) < Half /\ Left(now, timeout) >= 0
      BY <1>1, <1>2, <2>2, <2>3, <2>5
    <3>2. PICK d : d = Diff(tb.timeout[s[i]], timeout)
      OBVIOUS
    <3>3. (d # 0 /\ d < Half) <=> ~(L[s[i]] <= L[x])
      BY <1>2, <2>1, <2>5, <3>1, <3>2, LaterLeft
    <3> QED BY <3>2, <3>3 DEF Later, Half
  <2> HIDE DEF L
  <2>8. \A i \in 1 .. Len(s) : i < p => L[s[i]] <= L[x]
    BY <1>6, <2>7
  <2>9. \A i \in 1 .. Len(s) : p <= i => L[x] <= L[s[i]]
    <3> SUFFICES ASSUME NEW i \in 1 .. Len(s), p <= i PROVE L[x] <= L[s[i]]
      OBVIOUS
    <3>1. p \in 1 .. Len(s) /\ ~(L[s[p]] <= L[x])
      BY <1>6, <2>3, <2>7
    <3>2. p = i \/ L[s[p]] <= L[s[i]]
      BY <1>6, <2>3, <2>6, <3>1 DEF Ordered
    <3>3. L[x] \in Int /\ L[s[p]] \in Int /\ L[s[i]] \in Int
      BY <2>1, <2>3, <3>1
    <3> QED BY <3>1, <3>2, <3>3
  <2>10. Ordered(z, L)
    BY <1>4, <1>6, <2>1, <2>6, <2>8, <2>9, OrderedInsert
  <2>11. ASSUME NEW y \in X, Linked(z, y) PROVE Left(now, T[y]) < Half
    <3>1. CASE y = x
      BY <1>2, <1>8, <2>2, <3>1
    <3>2. CASE y # x
      BY <1>4, <1>7, <1>8, <1>9, <2>11, <3>2 DEF QueueOK
    <3> QED BY <3>1, <3>2
  <2> QED BY <2>10, <2>11 DEF L
<1> HIDE DEF z, T
<1>10. BaseOK(X, r)
  BY <1>1, <1>3, <1>4, <1>7, <1>8 DEF BaseOK, Bases
<1>11. \A y : Linked(z, y) <=> Linked(tb.list, y) \/ y = x
  BY <1>4, <1>7
<1>12. QueueOK(X, tb, now) => QueueOK(X, r, now)
  BY <1>3, <1>9 DEF QueueOK
<1>13. TimerStarted(X, tb, x, now, r)
  BY <1>2, <1>3, <1>8, <1>10, <1>11, <1>12 DEF TimerStarted
<1> QED BY <1>13 DEF r

\* A timer that was there already and times out at the same tick stays ahead.
LEMMA StartBehind ==
  ASSUME Roomy, NEW X, NEW tb, BaseOK(X, tb), NEW x \in X, NEW now \in Ticks,
         QueueOK(X, tb, now), NEW r, r = rt_timer_start(tb, x, now),
         NEW i \in DOMAIN r.list, NEW j \in DOMAIN r.list, r.list[j] = x,
         r.list[i] # x, r.timeout[r.list[i]] = r.timeout[x]
  PROVE  i < j
<1> DEFINE timeout == (now + tb.init[x]) % TickMod
           s == rt_list_remove(tb.list, x)
           p == InsertPosition(tb, s, timeout)
<1>1. /\ tb.list \in Seq(X) /\ tb.timeout \in [X -> Ticks] /\ tb.init \in [X -> Durations]
      /\ Distinct(tb.list)
  BY BaseFields DEF BaseOK
<1>2. timeout \in Ticks /\ Left(now, timeout) = tb.init[x]
  BY <1>1, StartLeft
<1>3. r.list = InsertAt(s, p, x)
  <2>1. PICK z : z = InsertAt(s, p, x)
    OBVIOUS
  <2>2. PICK T : T = [tb.timeout EXCEPT ![x] = timeout]
    OBVIOUS
  <2>3. r = [tb EXCEPT !.list = z, !.timeout = T, !.act = tb.act \cup {x}]
    BY <1>1, <2>1, <2>2, BaseFields DEF rt_timer_start
  <2>4. tb = [list |-> tb.list, timeout |-> tb.timeout, init |-> tb.init, act |-> tb.act]
    BY BaseFields
  <2>5. r = [list |-> z, timeout |-> T, init |-> tb.init, act |-> tb.act \cup {x}]
    BY <2>3, <2>4
  <2> QED BY <2>1, <2>5
<1> HIDE DEF timeout
<1>4. s \in Seq(X) /\ ~Linked(s, x) /\ \A y : Linked(s, y) => Linked(tb.list, y)
  BY <1>1, ListRemove
<1> HIDE DEF s
<1>5. /\ p \in 1 .. (Len(s) + 1)
      /\ p \in 1 .. Len(s) => Later(tb, s[p], timeout)
  BY <1>4, ScanStops
<1> HIDE DEF p
<1>6. Len(s) \in Nat /\ DOMAIN s = 1 .. Len(s) /\ \A k \in 1 .. Len(s) : s[k] \in X /\ s[k] # x
  BY <1>4, LenProperties DEF Linked
<1>7. /\ DOMAIN r.list = 1 .. (Len(s) + 1)
      /\ \A k \in 1 .. (Len(s) + 1) :
           r.list[k] = IF k < p THEN s[k] ELSE IF k = p THEN x ELSE s[k - 1]
  <2>1. InsertAt(s, p, x) \in Seq(X) /\ InsertedAt(s, p, x, InsertAt(s, p, x))
    BY <1>4, <1>5, InsertAtPlaces
  <2> QED BY <1>3, <2>1, LenProperties DEF InsertedAt
<1>8. j = p /\ i # p
  <2>1. ASSUME j < p PROVE FALSE
    BY <1>5, <1>6, <1>7, <2>1
  <2>2. ASSUME p < j PROVE FALSE
    BY <1>5, <1>6, <1>7, <2>2
  <2> QED BY <1>5, <1>7, <2>1, <2>2
<1>9. ASSUME p < i PROVE FALSE
  <2> DEFINE a == s[p]
             L == LeftOf(X, r, now)
  <2>1. p \in 1 .. Len(s) /\ p + 1 \in DOMAIN r.list /\ r.list[p + 1] = a /\ p + 1 <= i
    BY <1>5, <1>6, <1>7, <1>9
  <2>2. a \in X /\ a # x /\ Linked(tb.list, a)
    BY <1>4, <1>6, <2>1 DEF Linked
  <2> HIDE DEF a
  <2>3. TimerStarted(X, tb, x, now, r)
    BY StartTimerOK
  <2>4. /\ Left(now, r.timeout[x]) = tb.init[x] /\ r.timeout[a] = tb.timeout[a]
        /\ Ordered(r.list, L) /\ r.timeout \in [X -> Ticks] /\ r.list \in Seq(X)
    <3>1. BaseOK(X, r)
      BY <2>3 DEF TimerStarted
    <3> QED BY <2>2, <2>3, <3>1, BaseFields DEF TimerStarted, QueueOK
  <2>5. /\ r.list[i] \in X /\ L[r.list[i]] = tb.init[x] /\ L[a] = Left(now, tb.timeout[a])
    <3>1. r.list[i] \in X
      BY <2>4, LenProperties
    <3> QED BY <2>2, <2>4, <3>1 DEF LeftOf
  <2>6. L[a] <= tb.init[x]
    <3>1. p + 1 = i \/ L[r.list[p + 1]] <= L[r.list[i]]
      <4>1. i \in Int /\ p \in Int /\ (p + 1 = i \/ p + 1 < i)
        BY <1>5, <1>6, <1>7, <2>1
      <4> HIDE DEF L
      <4> QED BY <2>1, <2>4, <4>1 DEF Ordered
    <3>2. tb.init[x] \in Int
      BY <1>1 DEF Durations, Ticks
    <3> QED BY <2>1, <2>5, <3>1, <3>2
  <2>7. /\ tb.timeout[a] \in Ticks /\ Left(now, tb.timeout[a]) < Half
        /\ Left(now, timeout) < Half
    <3>1. tb.init[x] < Half
      BY <1>1 DEF Durations, Half
    <3> QED BY <1>1, <1>2, <2>2, <3>1 DEF QueueOK
  <2>8. PICK d : d = Diff(tb.timeout[a], timeout)
    OBVIOUS
  <2>9. ~(d # 0 /\ d < Half)
    BY <1>2, <2>5, <2>6, <2>7, <2>8, LaterLeft
  <2> QED BY <1>5, <2>1, <2>8, <2>9 DEF Later, Half, a
<1> QED BY <1>5, <1>7, <1>8, <1>9

\* Programming a timer moves none, and neither does initialising one that is
\* not linked.
LEMMA SetTimerOK ==
  ASSUME NEW X, NEW tb, BaseOK(X, tb), NEW x \in X, NEW d \in Durations
  PROVE  LET r == timer_set_time(tb, x, d)
         IN  /\ BaseOK(X, r) /\ r.act = tb.act /\ r.list = tb.list /\ r.timeout = tb.timeout
             /\ \A y \in X : r.init[y] = IF y = x THEN d ELSE tb.init[y]
             /\ \A now \in Ticks : QueueOK(X, tb, now) => QueueOK(X, r, now)
<1> DEFINE r == timer_set_time(tb, x, d)
<1>1. /\ tb = [list |-> tb.list, timeout |-> tb.timeout, init |-> tb.init, act |-> tb.act]
      /\ tb.list \in Seq(X) /\ tb.timeout \in [X -> Ticks] /\ tb.init \in [X -> Durations]
      /\ tb.act \in SUBSET X /\ Distinct(tb.list)
      /\ \A y : Linked(tb.list, y) => y \in tb.act
  BY BaseFields DEF BaseOK
<1>2. r = [list |-> tb.list, timeout |-> tb.timeout, init |-> [tb.init EXCEPT ![x] = d],
           act |-> tb.act]
  BY <1>1 DEF timer_set_time
<1> HIDE DEF r
<1>3. BaseOK(X, r)
  BY <1>1, <1>2 DEF BaseOK, Bases
<1>4. \A now \in Ticks : QueueOK(X, tb, now) => QueueOK(X, r, now)
  BY <1>2 DEF QueueOK, LeftOf
<1>5. /\ r.act = tb.act /\ r.list = tb.list /\ r.timeout = tb.timeout
      /\ \A y \in X : r.init[y] = IF y = x THEN d ELSE tb.init[y]
  BY <1>1, <1>2
<1> QED BY <1>3, <1>4, <1>5 DEF r

LEMMA FreshTimerOK ==
  ASSUME NEW X, NEW tb, BaseOK(X, tb), NEW x \in X, x \notin tb.act, NEW d \in Durations
  PROVE  LET r == timer_init(tb, x, d)
         IN  /\ BaseOK(X, r) /\ r.act = tb.act /\ r.list = tb.list
             /\ \A y \in X : y # x => r.timeout[y] = tb.timeout[y]
             /\ \A y \in X : r.init[y] = IF y = x THEN d ELSE tb.init[y]
             /\ \A now \in Ticks : QueueOK(X, tb, now) => QueueOK(X, r, now)
<1> DEFINE r == timer_init(tb, x, d)
<1>1. /\ tb = [list |-> tb.list, timeout |-> tb.timeout, init |-> tb.init, act |-> tb.act]
      /\ tb.list \in Seq(X) /\ tb.timeout \in [X -> Ticks] /\ tb.init \in [X -> Durations]
      /\ tb.act \in SUBSET X /\ Distinct(tb.list)
      /\ \A y : Linked(tb.list, y) => y \in tb.act /\ y \in X
  BY BaseFields DEF BaseOK
<1>2. r = [list |-> tb.list, timeout |-> [tb.timeout EXCEPT ![x] = 0],
           init |-> [tb.init EXCEPT ![x] = d], act |-> tb.act]
  <2>1. r = [tb EXCEPT !.timeout = [tb.timeout EXCEPT ![x] = 0],
                       !.init = [tb.init EXCEPT ![x] = d]]
    BY <1>1 DEF timer_init
  <2> HIDE DEF r
  <2> QED BY <1>1, <2>1
<1> HIDE DEF r
<1>3. BaseOK(X, r)
  <2>1. 0 \in Ticks
    BY TickModAssumption DEF Ticks
  <2> QED BY <1>1, <1>2, <2>1 DEF BaseOK, Bases
<1>4. \A i \in DOMAIN tb.list : tb.list[i] \in X /\ tb.list[i] # x
  BY <1>1 DEF Linked
<1>5. ASSUME NEW now \in Ticks, QueueOK(X, tb, now)
      PROVE  QueueOK(X, r, now)
  <2>1. \A i \in DOMAIN tb.list : LeftOf(X, r, now)[tb.list[i]] = LeftOf(X, tb, now)[tb.list[i]]
    BY <1>1, <1>2, <1>4 DEF LeftOf
  <2>2. Ordered(r.list, LeftOf(X, r, now))
    BY <1>2, <1>5, <2>1 DEF QueueOK, Ordered
  <2> QED BY <1>1, <1>2, <1>5, <2>2 DEF QueueOK
<1>6. /\ r.act = tb.act /\ r.list = tb.list
      /\ \A y \in X : r.init[y] = IF y = x THEN d ELSE tb.init[y]
      /\ \A y \in X : y # x => r.timeout[y] = tb.timeout[y]
  BY <1>1, <1>2
<1> QED BY <1>3, <1>5, <1>6 DEF r
=============================================================================

----------------------------- MODULE TimerProofs -----------------------------
(***************************************************************************)
(* The timers of timer.c for any timers, durations and range of the tick   *)
(* counter: hard timers fire on time and in order across its wrap, stopped *)
(* timers are silent, and the timer thread waits only without timers.      *)
(***************************************************************************)
EXTENDS Timer, TimerListProofs

\* The head that the check takes off is unlinked, and active if it is periodic.
LEMMA TakenOK ==
  ASSUME NEW X, NEW tb, BaseOK(X, tb), tb.list # <<>>, NEW x, x = Head(tb.list)
  PROVE  /\ x \in X /\ Linked(tb.list, x)
         /\ Unlinked(X, tb, x, IF x \in periodic THEN tb.act ELSE tb.act \ {x}, Taken(tb))
<1>1. x \in X /\ Linked(tb.list, x)
  BY BaseFields, ListHead
<1>2. Taken(tb) = [tb EXCEPT !.list = rt_list_remove(tb.list, x),
                             !.act = IF x \in periodic THEN tb.act ELSE tb.act \ {x}]
  BY BaseFields DEF Taken, timer_remove
<1> QED BY <1>1, <1>2, UnlinkTimer

-----------------------------------------------------------------------------
(* The invariant.  Soft timers are not used by whoever preempts the timer  *)
(* thread, and a timeout function leaves the mode of its own timer alone.  *)
CarefulTimers == Roomy /\ ~SoftAnywhere /\ ~ModeWhileFiring

Hards == HardTimers \cup {thread_timer}

BasesOK == BaseOK(Hards, hard) /\ BaseOK(SoftTimers, soft)

\* The lists of the checks hold at most the timer that fires.
LocalsOK ==
  /\ hcall = none => hlist = <<>>
  /\ scall = none => slist = <<>>

\* A timer that was not made is nowhere, and no hard timer has a time of 0.
MadeOK ==
  /\ \A t \in Timers \ made :
       t \notin hard.act \cup soft.act /\ ~Linked(hlist, t) /\ ~Linked(slist, t)
  /\ \A t \in HardTimers \cap made : hard.init[t] > 0

\* A timer that is active while it fires is a periodic one.
FiringOK ==
  /\ \A t \in hard.act : Linked(hlist, t) => t \in periodic
  /\ \A t \in soft.act : Linked(slist, t) => t \in periodic

SilentOK == \A t \in stopped : t \notin hard.act \cup soft.act

\* Where the timer thread is while it waits, and what its own timer does.
ThreadOK ==
  /\ status = "BUSY" <=> pc = "callback"
  /\ stat = "SUSPEND" => pc \in {"check", "callback"}
  /\ blocked <=> stat = "SUSPEND" /\ pc = "callback"
  /\ thread_timer \in hard.act \cup {hcall} => stat = "SUSPEND" /\ pc = "check"
  /\ hcall = thread_timer => thread_timer \notin hard.act
  /\ pc = "empty" => soft.list = <<>>
  /\ pc = "sleep" => next_timeout \in Durations

\* Between ticks every hard timer has a tick left, unless the timer thread
\* waits for no time at all.
HasTime(t) ==
  \/ Left(rt_tick, hard.timeout[t]) > 0
  \/ t = thread_timer /\ Left(rt_tick, hard.timeout[t]) = 0 /\ hard.init[t] = 0

OnTimeOK ==
  /\ QueueOK(Hards, hard, rt_tick)
  /\ chk = "idle" => \A t \in Hards : Linked(hard.list, t) => HasTime(t)

TimerInv ==
  /\ TypeOK /\ BasesOK /\ LocalsOK /\ MadeOK /\ FiringOK /\ ActiveLinked
  /\ SilentOK /\ ThreadOK /\ IdleWithoutTimers /\ OnTimeOK

-----------------------------------------------------------------------------
\* A list of at most one element.
LEMMA ShortList ==
  ASSUME NEW c, NEW s, s = <<>> \/ s = <<c>>, NEW x
  PROVE  /\ \A y : Linked(s, y) <=> s # <<>> /\ y = c
         /\ rt_list_remove(s, x) \in {<<>>, s}
         /\ \A y : Linked(rt_list_remove(s, x), y) <=> Linked(s, y) /\ y # x
<1>1. \A y : Linked(<<>>, y) <=> FALSE
  BY DEF Linked
<1>2. \A y : Linked(<<c>>, y) <=> y = c
  BY DEF Linked
<1>3. <<>> # <<c>>
  OBVIOUS
<1>4. \A y : Linked(s, y) <=> s # <<>> /\ y = c
  BY <1>1, <1>2, <1>3
<1>5. CASE ~Linked(s, x)
  <2>1. rt_list_remove(s, x) = s
    BY <1>5 DEF rt_list_remove
  <2> QED BY <1>4, <1>5, <2>1
<1>6. CASE Linked(s, x)
  <2>1. s = <<c>> /\ x = c
    BY <1>4, <1>6
  <2>2. PlaceOf(s, x) = 1
    BY <2>1 DEF PlaceOf
  <2>3. RemoveAt(<<c>>, 1) \in Seq({c}) /\ Len(RemoveAt(<<c>>, 1)) = 0
    <3>1. <<c>> \in Seq({c}) /\ Len(<<c>>) = 1 /\ 1 \in 1 .. Len(<<c>>)
      OBVIOUS
    <3>2. /\ RemoveAt(<<c>>, 1) \in Seq({c})
          /\ Len(RemoveAt(<<c>>, 1)) = Len(<<c>>) - 1
      BY <3>1, RemoveAtPlaces
    <3> QED BY <3>1, <3>2
  <2>4. RemoveAt(<<c>>, 1) = <<>>
    BY <2>3, EmptySeq
  <2>5. rt_list_remove(s, x) = <<>>
    BY <1>6, <2>1, <2>2, <2>4 DEF rt_list_remove
  <2> QED BY <1>1, <1>4, <2>1, <2>5
<1> QED BY <1>5, <1>6

LEMMA Facts ==
  ASSUME TimerInv
  PROVE  /\ hard.act \in SUBSET Hards /\ soft.act \in SUBSET SoftTimers
         /\ \A y : Linked(hard.list, y) => y \in hard.act
         /\ \A y : Linked(soft.list, y) => y \in soft.act
         /\ \A y : Linked(hlist, y) => y = hcall /\ y \in Hards
         /\ \A y : Linked(slist, y) => y = scall /\ y \in SoftTimers
         /\ soft.list \in Seq(SoftTimers)
         /\ \A y : y \in Hards => y \notin SoftTimers
<1>1. BaseOK(Hards, hard) /\ BaseOK(SoftTimers, soft)
  BY DEF TimerInv, BasesOK
<1>2. /\ hlist \in {<<>>, <<hcall>>} /\ slist \in {<<>>, <<scall>>}
      /\ hcall \in Hards \cup {none} /\ scall \in SoftTimers \cup {none}
      /\ (hcall = none => hlist = <<>>) /\ (scall = none => slist = <<>>)
  BY DEF TimerInv, TypeOK, LocalsOK, Hards
<1>3. \A y : Linked(hlist, y) => hlist # <<>> /\ y = hcall
  BY <1>2, ShortList
<1>4. \A y : Linked(slist, y) => slist # <<>> /\ y = scall
  BY <1>2, ShortList
<1>5. \A y : y \in Hards => y \notin SoftTimers
  BY TimersAssumption DEF Hards
<1> QED BY <1>1, <1>2, <1>3, <1>4, <1>5, BaseFields

LEMMA TimersInit == Roomy /\ Init => TimerInv
<1> SUFFICES ASSUME Roomy, Init PROVE TimerInv
  OBVIOUS
<1>1. 0 \in Ticks /\ 0 \in Durations
  BY HalfBounds, TickModAssumption DEF Ticks, Durations, Half
<1>2. Distinct(<<>>) /\ \A y : ~Linked(<<>>, y)
  BY DEF Distinct, Linked
<1>3. /\ hard = [list |-> <<>>, timeout |-> [t \in Hards |-> 0],
                 init |-> [t \in Hards |-> 0], act |-> {}]
      /\ soft = [list |-> <<>>, timeout |-> [t \in SoftTimers |-> 0],
                 init |-> [t \in SoftTimers |-> 0], act |-> {}]
  BY DEF Init, Hards
<1>4. hard.list = <<>> /\ soft.list = <<>> /\ hard.act = {} /\ soft.act = {}
  BY <1>3
<1>5. hard \in Bases(Hards) /\ soft \in Bases(SoftTimers)
  BY <1>1, <1>3 DEF Bases
<1>6. BasesOK
  BY <1>2, <1>4, <1>5 DEF BasesOK, BaseOK
<1>7. TypeOK
  BY <1>1, <1>5 DEF Init, TypeOK, Hards
<1>8. LocalsOK /\ MadeOK /\ FiringOK /\ ActiveLinked /\ SilentOK
  BY <1>2, <1>4 DEF Init, LocalsOK, MadeOK, FiringOK, ActiveLinked, SilentOK
<1>9. ThreadOK /\ IdleWithoutTimers
  BY <1>4, TimersAssumption DEF Init, ThreadOK, IdleWithoutTimers
<1>10. OnTimeOK
  BY <1>2, <1>4 DEF OnTimeOK, QueueOK, Ordered
<1> QED BY <1>6, <1>7, <1>8, <1>9, <1>10 DEF TimerInv

-----------------------------------------------------------------------------
(* The API.  A soft timer is used while the timer thread waits or runs a    *)
(* timeout function.                                                        *)
LEMMA Callable ==
  ASSUME CarefulTimers, TimerInv, NEW t, MayCall(t)
  PROVE  /\ chk # "loop" /\ hcall # thread_timer
         /\ t \in SoftTimers => /\ chk = "idle" /\ hcall = none
                                /\ stat = "SUSPEND" \/ pc = "callback"
                                /\ pc \in {"check", "callback"}
<1>1. thread_timer # none
  BY TimersAssumption
<1> QED BY <1>1 DEF CarefulTimers, TimerInv, MayCall, TypeOK, ThreadOK

LEMMA Unlinking ==
  ASSUME TimerInv, NEW t, Unlink(t)
  PROVE  /\ hlist' \in {<<>>, hlist} /\ slist' \in {<<>>, slist}
         /\ \A y : Linked(hlist', y) <=> Linked(hlist, y) /\ y # t
         /\ \A y : Linked(slist', y) <=> Linked(slist, y) /\ y # t
<1>1. (hlist = <<>> \/ hlist = <<hcall>>) /\ (slist = <<>> \/ slist = <<scall>>)
  BY DEF TimerInv, TypeOK
<1>2. /\ rt_list_remove(hlist, t) \in {<<>>, hlist}
      /\ \A y : Linked(rt_list_remove(hlist, t), y) <=> Linked(hlist, y) /\ y # t
  BY <1>1, ShortList
<1>3. /\ rt_list_remove(slist, t) \in {<<>>, slist}
      /\ \A y : Linked(rt_list_remove(slist, t), y) <=> Linked(slist, y) /\ y # t
  BY <1>1, ShortList
<1> QED BY <1>2, <1>3 DEF Unlink

LEMMA Kinds ==
  ASSUME NEW t \in Timers
  PROVE  /\ t \in SoftTimers => t \notin Hards
         /\ t \notin SoftTimers => t \in Hards /\ t \in HardTimers
         /\ t # thread_timer /\ t # none
BY TimersAssumption DEF Timers, Hards

LEMMA InitStep ==
  ASSUME CarefulTimers, TimerInv, NEW t \in Timers, NEW d \in Times, NEW p \in BOOLEAN,
         rt_timer_init(t, d, p)
  PROVE  TimerInv'
<1>1. /\ t \notin made /\ made' = made \cup {t}
      /\ periodic' = IF p THEN periodic \cup {t} ELSE periodic \ {t}
      /\ UNCHANGED <<rt_tick, check, thread, stat, stopped>>
      /\ UNCHANGED <<chk, hcall, hlist, scall, slist, status, pc, next_timeout, blocked>>
  BY DEF rt_timer_init, check, thread
<1>2. /\ d \in Durations /\ d > 0
      /\ BaseOK(Hards, hard) /\ BaseOK(SoftTimers, soft) /\ Roomy
      /\ t \notin hard.act \cup soft.act /\ ~Linked(hlist, t) /\ ~Linked(slist, t)
  <2>1. d \in Durations /\ d # 0
    BY TimesAssumption
  <2> QED BY <1>1, <2>1 DEF TimerInv, BasesOK, MadeOK, Durations, Ticks, CarefulTimers
<1>3. /\ hard'.act = hard.act /\ hard'.list = hard.list /\ BaseOK(Hards, hard')
      /\ soft'.act = soft.act /\ soft'.list = soft.list /\ BaseOK(SoftTimers, soft')
      /\ \A y \in Hards : y # t => hard'.timeout[y] = hard.timeout[y]
                                   /\ hard'.init[y] = hard.init[y]
      /\ t \in Hards => hard'.init[t] = d
      /\ \A now \in Ticks : QueueOK(Hards, hard, now) => QueueOK(Hards, hard', now)
  <2>1. CASE t \in SoftTimers
    <3>1. hard' = hard /\ soft' = timer_init(soft, t, d) /\ t \notin Hards
      BY <2>1, Kinds DEF rt_timer_init
    <3>2. BaseOK(SoftTimers, soft) /\ t \notin soft.act /\ d \in Durations
      BY <1>2
    <3>3. /\ BaseOK(SoftTimers, soft') /\ soft'.act = soft.act /\ soft'.list = soft.list
      BY <2>1, <3>1, <3>2, FreshTimerOK
    <3> QED BY <1>2, <3>1, <3>3
  <2>2. CASE t \notin SoftTimers
    <3>1. soft' = soft /\ hard' = timer_init(hard, t, d) /\ t \in Hards
      BY <2>2, Kinds DEF rt_timer_init
    <3>3. /\ BaseOK(Hards, hard') /\ hard'.act = hard.act /\ hard'.list = hard.list
          /\ \A y \in Hards : y # t => hard'.timeout[y] = hard.timeout[y]
          /\ \A y \in Hards : hard'.init[y] = IF y = t THEN d ELSE hard.init[y]
          /\ \A now \in Ticks : QueueOK(Hards, hard, now) => QueueOK(Hards, hard', now)
      BY <1>2, <3>1, FreshTimerOK
    <3> QED BY <1>2, <3>1, <3>3
  <2> QED BY <2>1, <2>2
<1>4. BasesOK' /\ TypeOK'
  <2>1. hard' \in Bases(HardTimers \cup {thread_timer}) /\ soft' \in Bases(SoftTimers)
    BY <1>3 DEF BaseOK, Hards
  <2>2. BasesOK'
    BY <1>3 DEF BasesOK, Hards
  <2> QED BY <1>1, <2>1, <2>2 DEF TimerInv, TypeOK
<1>5. LocalsOK' /\ MadeOK' /\ FiringOK' /\ ActiveLinked' /\ SilentOK'
  <2>1. LocalsOK' /\ ActiveLinked' /\ SilentOK' /\ FiringOK'
    BY <1>1, <1>2, <1>3 DEF TimerInv, LocalsOK, ActiveLinked, SilentOK, FiringOK
  <2>2. MadeOK'
    BY <1>1, <1>2, <1>3 DEF TimerInv, MadeOK, Hards
  <2> QED BY <2>1, <2>2
<1>6. ThreadOK' /\ IdleWithoutTimers'
  BY <1>1, <1>3 DEF TimerInv, ThreadOK, IdleWithoutTimers
<1>7. OnTimeOK'
  <2>1. rt_tick \in Ticks /\ QueueOK(Hards, hard', rt_tick)
    BY <1>3 DEF TimerInv, TypeOK, OnTimeOK
  <2>2. ASSUME chk' = "idle", NEW y \in Hards, Linked(hard'.list, y)
        PROVE  HasTime(y)'
    <3>1. HasTime(y) /\ y # t
      BY <1>1, <1>2, <1>3, <2>2, Facts DEF TimerInv, OnTimeOK
    <3> QED BY <1>1, <1>3, <3>1 DEF HasTime
  <2> QED BY <1>1, <2>1, <2>2 DEF OnTimeOK, Hards
<1> QED BY <1>4, <1>5, <1>6, <1>7 DEF TimerInv

LEMMA StartHardStep ==
  ASSUME CarefulTimers, TimerInv, NEW t \in Timers, t \notin SoftTimers, StartTimer(t)
  PROVE  TimerInv'
<1>1. /\ t \in made /\ stopped' = stopped \ {t}
      /\ hard' = rt_timer_start(hard, t, rt_tick) /\ Unlink(t)
      /\ UNCHANGED <<soft, stat, made, periodic, rt_tick, chk, hcall, scall, status, pc,
                     next_timeout, blocked>>
  BY DEF StartTimer
<1>2. t \in Hards /\ t \in HardTimers /\ t # thread_timer
  BY Kinds
<1>3. /\ BaseOK(Hards, hard) /\ BaseOK(SoftTimers, soft) /\ Roomy /\ rt_tick \in Ticks
      /\ QueueOK(Hards, hard, rt_tick)
  BY DEF TimerInv, BasesOK, CarefulTimers, TypeOK, OnTimeOK
<1>4. /\ BaseOK(Hards, hard') /\ hard'.act = hard.act \cup {t} /\ hard'.init = hard.init
      /\ \A y : Linked(hard'.list, y) <=> Linked(hard.list, y) \/ y = t
      /\ \A y \in Hards : y # t => hard'.timeout[y] = hard.timeout[y]
      /\ Left(rt_tick, hard'.timeout[t]) = hard.init[t]
      /\ QueueOK(Hards, hard', rt_tick)
  <2>1. TimerStarted(Hards, hard, t, rt_tick, hard')
    BY <1>1, <1>2, <1>3, StartTimerOK
  <2> QED BY <1>3, <2>1 DEF TimerStarted
<1>5. /\ hlist' \in {<<>>, hlist} /\ slist' \in {<<>>, slist}
      /\ \A y : Linked(hlist', y) <=> Linked(hlist, y) /\ y # t
      /\ \A y : Linked(slist', y) <=> Linked(slist, y) /\ y # t
  BY <1>1, Unlinking
<1>6. BasesOK' /\ TypeOK'
  <2>1. hard' \in Bases(HardTimers \cup {thread_timer})
    BY <1>4 DEF BaseOK, Hards
  <2>2. BasesOK'
    BY <1>1, <1>3, <1>4 DEF BasesOK, Hards
  <2> QED BY <1>1, <1>5, <2>1, <2>2 DEF TimerInv, TypeOK
<1>7. LocalsOK' /\ MadeOK' /\ FiringOK' /\ ActiveLinked' /\ SilentOK'
  <2>1. LocalsOK' /\ FiringOK'
    BY <1>1, <1>4, <1>5 DEF TimerInv, LocalsOK, FiringOK
  <2>2. MadeOK' /\ SilentOK'
    BY <1>1, <1>4, <1>5, <1>2, Facts DEF TimerInv, MadeOK, SilentOK
  <2>3. ActiveLinked'
    BY <1>1, <1>2, <1>4, <1>5, Facts DEF TimerInv, ActiveLinked
  <2> QED BY <2>1, <2>2, <2>3
<1>8. ThreadOK' /\ IdleWithoutTimers'
  BY <1>1, <1>2, <1>4 DEF TimerInv, ThreadOK, IdleWithoutTimers
<1>9. OnTimeOK'
  <2>1. ASSUME chk' = "idle", NEW y \in Hards, Linked(hard'.list, y)
        PROVE  HasTime(y)'
    <3>1. CASE y = t
      <4>1. hard.init[t] > 0
        BY <1>1, <1>2 DEF TimerInv, MadeOK
      <4> QED BY <1>1, <1>4, <3>1, <4>1 DEF HasTime
    <3>2. CASE y # t
      <4>1. HasTime(y)
        BY <1>1, <1>4, <2>1, <3>2 DEF TimerInv, OnTimeOK
      <4> QED BY <1>1, <1>4, <3>2, <4>1 DEF HasTime
    <3> QED BY <3>1, <3>2
  <2> QED BY <1>1, <1>4, <2>1 DEF OnTimeOK, Hards
<1> QED BY <1>6, <1>7, <1>8, <1>9 DEF TimerInv

LEMMA StartSoftStep ==
  ASSUME CarefulTimers, TimerInv, NEW t \in Timers, t \in SoftTimers, StartTimer(t)
  PROVE  TimerInv'
<1>1. /\ t \in made /\ stopped' = stopped \ {t}
      /\ soft' = rt_timer_start(soft, t, rt_tick) /\ Unlink(t)
      /\ hard' = IF ThreadIdle THEN rt_timer_stop(hard, thread_timer) ELSE hard
      /\ stat' = IF ThreadIdle THEN "READY" ELSE stat
      /\ UNCHANGED <<made, periodic, rt_tick, chk, hcall, scall, status, pc,
                     next_timeout, blocked>>
  BY DEF StartTimer
<1>2. t \notin Hards /\ thread_timer \in Hards /\ t # thread_timer
  BY Kinds DEF Hards
<1>3. /\ BaseOK(Hards, hard) /\ BaseOK(SoftTimers, soft) /\ Roomy /\ rt_tick \in Ticks
      /\ QueueOK(Hards, hard, rt_tick)
  BY DEF TimerInv, BasesOK, CarefulTimers, TypeOK, OnTimeOK
<1>4. /\ BaseOK(SoftTimers, soft') /\ soft'.act = soft.act \cup {t}
      /\ \A y : Linked(soft'.list, y) <=> Linked(soft.list, y) \/ y = t
  <2>1. TimerStarted(SoftTimers, soft, t, rt_tick, soft')
    BY <1>1, <1>3, StartTimerOK
  <2> QED BY <2>1 DEF TimerStarted
<1>5. /\ hlist' \in {<<>>, hlist} /\ slist' \in {<<>>, slist}
      /\ \A y : Linked(hlist', y) <=> Linked(hlist, y) /\ y # t
      /\ \A y : Linked(slist', y) <=> Linked(slist, y) /\ y # t
  BY <1>1, Unlinking
<1>6. /\ chk = "idle" /\ hcall = none /\ pc \in {"check", "callback"}
      /\ stat = "SUSPEND" \/ pc = "callback"
  BY Callable DEF StartTimer
<1>7. /\ BaseOK(Hards, hard') /\ hard'.act \in SUBSET hard.act
      /\ hard.act \ {thread_timer} \in SUBSET hard'.act
      /\ hard'.timeout = hard.timeout /\ hard'.init = hard.init
      /\ \A y : Linked(hard'.list, y) => Linked(hard.list, y)
      /\ \A y : Linked(hard.list, y) /\ y \in hard'.act => Linked(hard'.list, y)
      /\ QueueOK(Hards, hard', rt_tick)
      /\ ThreadIdle => thread_timer \notin hard'.act
      /\ ~ThreadIdle => hard' = hard
  <2>1. CASE ThreadIdle
    <3>1. hard' = rt_timer_stop(hard, thread_timer)
      BY <1>1, <2>1
    <3>2. Unlinked(Hards, hard, thread_timer, hard.act \ {thread_timer}, hard')
      BY <1>2, <1>3, <3>1, StopTimerOK
    <3> QED BY <1>3, <2>1, <3>2 DEF Unlinked
  <2>2. CASE ~ThreadIdle
    BY <1>1, <1>3, <2>2
  <2> QED BY <2>1, <2>2
<1>8. BasesOK' /\ TypeOK'
  <2>1. hard' \in Bases(HardTimers \cup {thread_timer}) /\ soft' \in Bases(SoftTimers)
    BY <1>4, <1>7 DEF BaseOK, Hards
  <2>2. BasesOK'
    BY <1>4, <1>7 DEF BasesOK, Hards
  <2> QED BY <1>1, <1>5, <2>1, <2>2 DEF TimerInv, TypeOK
<1>9. LocalsOK' /\ MadeOK' /\ FiringOK' /\ ActiveLinked' /\ SilentOK'
  <2>1. LocalsOK' /\ FiringOK'
    BY <1>1, <1>4, <1>5, <1>7 DEF TimerInv, LocalsOK, FiringOK
  <2>2. MadeOK' /\ SilentOK'
    BY <1>1, <1>2, <1>4, <1>5, <1>7, Facts DEF TimerInv, MadeOK, SilentOK
  <2>3. ActiveLinked'
    BY <1>1, <1>2, <1>4, <1>5, <1>7, Facts DEF TimerInv, ActiveLinked
  <2> QED BY <2>1, <2>2, <2>3
<1>10. ThreadOK' /\ IdleWithoutTimers'
  <2>1. thread_timer # none
    BY TimersAssumption
  <2>2. ThreadOK /\ status \in {"IDLE", "BUSY"}
    BY DEF TimerInv, TypeOK
  <2>3. CASE ThreadIdle
    BY <1>1, <1>6, <1>7, <2>1, <2>2, <2>3 DEF ThreadOK, IdleWithoutTimers, ThreadIdle
  <2>4. CASE ~ThreadIdle
    BY <1>1, <1>6, <1>7, <2>1, <2>2, <2>4 DEF ThreadOK, IdleWithoutTimers, ThreadIdle
  <2> QED BY <2>3, <2>4
<1>11. OnTimeOK'
  <2>1. ASSUME NEW y \in Hards, Linked(hard'.list, y)
        PROVE  HasTime(y)'
    <3>1. HasTime(y)
      BY <1>6, <1>7, <2>1 DEF TimerInv, OnTimeOK
    <3> QED BY <1>1, <1>7, <3>1 DEF HasTime
  <2> QED BY <1>1, <1>7, <2>1 DEF OnTimeOK, Hards
<1> QED BY <1>8, <1>9, <1>10, <1>11 DEF TimerInv

\* rt_timer_stop and rt_timer_detach change the base of the timer alone.
LEMMA BothUnlinked ==
  ASSUME TimerInv, NEW t \in Timers,
         \/ /\ t \in SoftTimers /\ hard' = hard
            /\ Unlinked(SoftTimers, soft, t, soft.act \ {t}, soft')
         \/ /\ t \notin SoftTimers /\ soft' = soft
            /\ Unlinked(Hards, hard, t, hard.act \ {t}, hard')
  PROVE  /\ Unlinked(Hards, hard, t, hard.act \ {t}, hard')
         /\ Unlinked(SoftTimers, soft, t, soft.act \ {t}, soft')
<1>1. BaseOK(Hards, hard) /\ BaseOK(SoftTimers, soft)
  BY DEF TimerInv, BasesOK
<1>2. CASE t \in SoftTimers
  <2>1. hard.act \ {t} = hard.act /\ ~Linked(hard.list, t)
    BY <1>2, Kinds, Facts
  <2>2. hard' = hard
    BY <1>2
  <2> QED BY <1>1, <1>2, <2>1, <2>2 DEF Unlinked
<1>3. CASE t \notin SoftTimers
  <2>1. soft.act \ {t} = soft.act /\ ~Linked(soft.list, t)
    BY <1>3, Facts
  <2>2. soft' = soft
    BY <1>3
  <2> QED BY <1>1, <1>3, <2>1, <2>2 DEF Unlinked
<1> QED BY <1>2, <1>3

LEMMA StoppedStep ==
  ASSUME CarefulTimers, TimerInv, NEW t \in Timers,
         Unlinked(Hards, hard, t, hard.act \ {t}, hard'),
         Unlinked(SoftTimers, soft, t, soft.act \ {t}, soft'),
         hlist' \in {<<>>, hlist}, slist' \in {<<>>, slist},
         \A y : Linked(hlist', y) => Linked(hlist, y),
         \A y : Linked(slist', y) => Linked(slist, y),
         \A y : y # t /\ Linked(hlist, y) => Linked(hlist', y),
         \A y : y # t /\ Linked(slist, y) => Linked(slist', y),
         made' \in SUBSET made, made \ {t} \in SUBSET made',
         t \notin made' => ~Linked(hlist', t) /\ ~Linked(slist', t),
         stopped' = stopped \cup {t},
         UNCHANGED <<periodic, rt_tick, chk, hcall, scall, status, stat, pc,
                     next_timeout, blocked>>
  PROVE  TimerInv'
<1>1. UNCHANGED <<periodic, rt_tick, chk, hcall, scall, status, stat, pc, next_timeout, blocked>>
  OBVIOUS
<1>2. /\ BaseOK(Hards, hard') /\ hard'.act = hard.act \ {t} /\ hard'.init = hard.init
      /\ hard'.timeout = hard.timeout
      /\ \A y : Linked(hard'.list, y) <=> Linked(hard.list, y) /\ y # t
      /\ \A now \in Ticks : QueueOK(Hards, hard, now) => QueueOK(Hards, hard', now)
  BY DEF Unlinked
<1>3. /\ BaseOK(SoftTimers, soft') /\ soft'.act = soft.act \ {t}
      /\ \A y : Linked(soft'.list, y) <=> Linked(soft.list, y) /\ y # t
  BY DEF Unlinked
<1>4. t # thread_timer /\ t # none
  BY Kinds
<1>5. soft.list = <<>> => soft'.list = <<>>
  <2>1. soft.list = <<>> => \A y : ~Linked(soft.list, y)
    BY ListHead, Facts
  <2>2. (\A y : ~Linked(soft'.list, y)) => soft'.list = <<>>
    <3>1. soft'.list \in Seq(SoftTimers)
      BY <1>3, BaseFields
    <3> QED BY <3>1, ListHead
  <2> QED BY <1>3, <2>1, <2>2
<1>6. BasesOK' /\ TypeOK'
  <2>1. hard' \in Bases(HardTimers \cup {thread_timer}) /\ soft' \in Bases(SoftTimers)
    BY <1>2, <1>3 DEF BaseOK, Hards
  <2>2. BasesOK'
    BY <1>2, <1>3 DEF BasesOK, Hards
  <2>3. made' \subseteq Timers /\ stopped' \subseteq Timers
    BY DEF TimerInv, TypeOK
  <2> QED BY <1>1, <2>1, <2>2, <2>3 DEF TimerInv, TypeOK
<1>7. LocalsOK' /\ FiringOK' /\ SilentOK'
  BY <1>1, <1>2, <1>3 DEF TimerInv, LocalsOK, FiringOK, SilentOK
<1>8. MadeOK'
  BY <1>2, <1>3 DEF TimerInv, MadeOK
<1>9. ActiveLinked'
  BY <1>2, <1>3 DEF TimerInv, ActiveLinked
<1>10. ThreadOK' /\ IdleWithoutTimers'
  BY <1>1, <1>2, <1>3, <1>4, <1>5 DEF TimerInv, ThreadOK, IdleWithoutTimers
<1>11. OnTimeOK'
  <2>1. rt_tick \in Ticks /\ QueueOK(Hards, hard', rt_tick)
    BY <1>2 DEF TimerInv, TypeOK, OnTimeOK
  <2>2. ASSUME chk' = "idle", NEW y \in Hards, Linked(hard'.list, y)
        PROVE  HasTime(y)'
    <3>1. HasTime(y)
      BY <1>1, <1>2, <2>2 DEF TimerInv, OnTimeOK
    <3> QED BY <1>1, <1>2, <3>1 DEF HasTime
  <2> QED BY <1>1, <2>1, <2>2 DEF OnTimeOK, Hards
<1> QED BY <1>6, <1>7, <1>8, <1>9, <1>10, <1>11 DEF TimerInv

LEMMA StopStep ==
  ASSUME CarefulTimers, TimerInv, NEW t \in Timers, StopTimer(t)
  PROVE  TimerInv'
<1>1. /\ stopped' = stopped \cup {t} /\ t \in made'
      /\ made' \in SUBSET made /\ made \ {t} \in SUBSET made'
      /\ UNCHANGED <<periodic, rt_tick, chk, hcall, scall, status, stat, pc, next_timeout,
                     blocked>>
  BY DEF StopTimer
<1>2. /\ hlist' \in {<<>>, hlist} /\ slist' \in {<<>>, slist}
      /\ \A y : Linked(hlist', y) => Linked(hlist, y)
      /\ \A y : Linked(slist', y) => Linked(slist, y)
      /\ \A y : y # t /\ Linked(hlist, y) => Linked(hlist', y)
      /\ \A y : y # t /\ Linked(slist, y) => Linked(slist', y)
  <2>1. CASE Unlink(t)
    BY <2>1, Unlinking
  <2>2. CASE hlist' = hlist /\ slist' = slist
    BY <2>2
  <2> QED BY <2>1, <2>2 DEF StopTimer
<1>3. BaseOK(Hards, hard) /\ BaseOK(SoftTimers, soft)
  BY DEF TimerInv, BasesOK
<1>4. CASE t \in SoftTimers
  <2>1. soft' = rt_timer_stop(soft, t) /\ hard' = hard
    BY <1>4 DEF StopTimer
  <2>2. Unlinked(SoftTimers, soft, t, soft.act \ {t}, soft')
    BY <1>3, <1>4, <2>1, StopTimerOK
  <2>3. /\ Unlinked(Hards, hard, t, hard.act \ {t}, hard')
        /\ Unlinked(SoftTimers, soft, t, soft.act \ {t}, soft')
    BY <1>4, <2>1, <2>2, BothUnlinked
  <2> QED BY <1>1, <1>2, <2>3, StoppedStep
<1>5. CASE t \notin SoftTimers
  <2>1. hard' = rt_timer_stop(hard, t) /\ soft' = soft
    BY <1>5 DEF StopTimer
  <2>2. Unlinked(Hards, hard, t, hard.act \ {t}, hard')
    BY <1>3, <1>5, <2>1, StopTimerOK, Kinds
  <2>3. /\ Unlinked(Hards, hard, t, hard.act \ {t}, hard')
        /\ Unlinked(SoftTimers, soft, t, soft.act \ {t}, soft')
    BY <1>5, <2>1, <2>2, BothUnlinked
  <2> QED BY <1>1, <1>2, <2>3, StoppedStep
<1> QED BY <1>4, <1>5

LEMMA DetachStep ==
  ASSUME CarefulTimers, TimerInv, NEW t \in Timers, DetachTimer(t)
  PROVE  TimerInv'
<1>1. /\ stopped' = stopped \cup {t} /\ Unlink(t)
      /\ made' \in SUBSET made /\ made \ {t} \in SUBSET made'
      /\ UNCHANGED <<periodic, rt_tick, chk, hcall, scall, status, stat, pc, next_timeout,
                     blocked>>
  BY DEF DetachTimer
<1>2. /\ hlist' \in {<<>>, hlist} /\ slist' \in {<<>>, slist}
      /\ \A y : Linked(hlist', y) <=> Linked(hlist, y) /\ y # t
      /\ \A y : Linked(slist', y) <=> Linked(slist, y) /\ y # t
  BY <1>1, Unlinking
<1>3. BaseOK(Hards, hard) /\ BaseOK(SoftTimers, soft)
  BY DEF TimerInv, BasesOK
<1>4. CASE t \in SoftTimers
  <2>1. soft' = rt_timer_detach(soft, t) /\ hard' = hard
    BY <1>4 DEF DetachTimer
  <2>2. Unlinked(SoftTimers, soft, t, soft.act \ {t}, soft')
    BY <1>3, <1>4, <2>1, DetachTimerOK
  <2> QED BY <1>1, <1>2, <1>4, <2>1, <2>2, BothUnlinked, StoppedStep
<1>5. CASE t \notin SoftTimers
  <2>1. hard' = rt_timer_detach(hard, t) /\ soft' = soft
    BY <1>5 DEF DetachTimer
  <2>2. Unlinked(Hards, hard, t, hard.act \ {t}, hard')
    BY <1>3, <1>5, <2>1, DetachTimerOK, Kinds
  <2> QED BY <1>1, <1>2, <1>5, <2>1, <2>2, BothUnlinked, StoppedStep
<1> QED BY <1>4, <1>5

LEMMA SetTimeStep ==
  ASSUME CarefulTimers, TimerInv, NEW t \in Timers, NEW d \in Times, SetTime(t, d)
  PROVE  TimerInv'
<1>1. /\ UNCHANGED <<made, periodic, rt_tick, stat, stopped>>
      /\ UNCHANGED <<chk, hcall, hlist, scall, slist, status, pc, next_timeout, blocked>>
  BY DEF SetTime, check, thread
<1>2. d \in Durations /\ d > 0 /\ BaseOK(Hards, hard) /\ BaseOK(SoftTimers, soft)
  <2>1. d \in Durations /\ d # 0
    BY TimesAssumption
  <2> QED BY <2>1 DEF TimerInv, BasesOK, Durations, Ticks
<1>3. /\ hard'.act = hard.act /\ hard'.list = hard.list /\ hard'.timeout = hard.timeout
      /\ soft'.act = soft.act /\ soft'.list = soft.list
      /\ BaseOK(Hards, hard') /\ BaseOK(SoftTimers, soft')
      /\ \A y \in Hards : y # t => hard'.init[y] = hard.init[y]
      /\ t \in Hards => hard'.init[t] = d
      /\ \A now \in Ticks : QueueOK(Hards, hard, now) => QueueOK(Hards, hard', now)
  <2>1. CASE t \in SoftTimers
    <3>1. hard' = hard /\ soft' = timer_set_time(soft, t, d) /\ t \notin Hards
      BY <2>1, Kinds DEF SetTime
    <3>2. BaseOK(SoftTimers, soft') /\ soft'.act = soft.act /\ soft'.list = soft.list
      BY <1>2, <2>1, <3>1, SetTimerOK
    <3> QED BY <1>2, <3>1, <3>2
  <2>2. CASE t \notin SoftTimers
    <3>1. soft' = soft /\ hard' = timer_set_time(hard, t, d) /\ t \in Hards
      BY <2>2, Kinds DEF SetTime
    <3>2. /\ BaseOK(Hards, hard') /\ hard'.act = hard.act /\ hard'.list = hard.list
          /\ hard'.timeout = hard.timeout
          /\ \A y \in Hards : hard'.init[y] = IF y = t THEN d ELSE hard.init[y]
          /\ \A now \in Ticks : QueueOK(Hards, hard, now) => QueueOK(Hards, hard', now)
      BY <1>2, <3>1, SetTimerOK
    <3> QED BY <1>2, <3>1, <3>2
  <2> QED BY <2>1, <2>2
<1>4. BasesOK' /\ TypeOK'
  <2>1. hard' \in Bases(HardTimers \cup {thread_timer}) /\ soft' \in Bases(SoftTimers)
    BY <1>3 DEF BaseOK, Hards
  <2>2. BasesOK'
    BY <1>3 DEF BasesOK, Hards
  <2> QED BY <1>1, <2>1, <2>2 DEF TimerInv, TypeOK
<1>5. LocalsOK' /\ ActiveLinked' /\ SilentOK' /\ FiringOK'
  BY <1>1, <1>3 DEF TimerInv, LocalsOK, ActiveLinked, SilentOK, FiringOK
<1>6. MadeOK'
  BY <1>1, <1>2, <1>3 DEF TimerInv, MadeOK, Hards
<1>7. ThreadOK' /\ IdleWithoutTimers'
  BY <1>1, <1>3 DEF TimerInv, ThreadOK, IdleWithoutTimers
<1>8. OnTimeOK'
  <2>1. rt_tick \in Ticks /\ QueueOK(Hards, hard', rt_tick)
    BY <1>3 DEF TimerInv, TypeOK, OnTimeOK
  <2>2. ASSUME chk' = "idle", NEW y \in Hards, Linked(hard'.list, y)
        PROVE  HasTime(y)'
    <3>1. HasTime(y) /\ t # thread_timer
      BY <1>1, <1>3, <2>2, Kinds DEF TimerInv, OnTimeOK
    <3> QED BY <1>1, <1>3, <3>1 DEF HasTime
  <2> QED BY <1>1, <2>1, <2>2 DEF OnTimeOK, Hards
<1> QED BY <1>4, <1>5, <1>6, <1>7, <1>8 DEF TimerInv

LEMMA SetModeStep ==
  ASSUME CarefulTimers, TimerInv, NEW t \in Timers, SetMode(t)
  PROVE  TimerInv'
<1>1. /\ UNCHANGED <<hard, soft, made, rt_tick, stat, stopped>>
      /\ UNCHANGED <<chk, hcall, hlist, scall, slist, status, pc, next_timeout, blocked>>
      /\ periodic' = periodic \ {t} \/ periodic' = periodic \cup {t}
      /\ t # hcall /\ t # scall
  BY DEF SetMode, CarefulTimers, check, thread
<1>2. TypeOK' /\ FiringOK'
  BY <1>1, Facts DEF TimerInv, TypeOK, FiringOK
<1>3. BasesOK' /\ LocalsOK' /\ MadeOK' /\ ActiveLinked' /\ SilentOK'
  BY <1>1 DEF TimerInv, BasesOK, LocalsOK, MadeOK, ActiveLinked, SilentOK, Hards
<1>4. ThreadOK' /\ IdleWithoutTimers' /\ OnTimeOK'
  BY <1>1 DEF TimerInv, ThreadOK, IdleWithoutTimers, OnTimeOK, Hards, HasTime
<1> QED BY <1>2, <1>3, <1>4 DEF TimerInv

-----------------------------------------------------------------------------
(* The tick handler. *)
LEMMA TickStep ==
  ASSUME CarefulTimers, TimerInv, rt_tick_increase
  PROVE  TimerInv'
<1>1. /\ chk = "idle" /\ chk' = "entered" /\ rt_tick' = (rt_tick + 1) % TickMod
      /\ UNCHANGED <<hard, soft, made, periodic, hcall, hlist, stat, stopped>>
      /\ UNCHANGED <<scall, slist, status, pc, next_timeout, blocked>>
  BY DEF rt_tick_increase, thread
<1>2. /\ BaseOK(Hards, hard) /\ Roomy /\ rt_tick \in Ticks /\ QueueOK(Hards, hard, rt_tick)
      /\ hard.timeout \in [Hards -> Ticks] /\ hard.list \in Seq(Hards)
  BY BaseFields DEF TimerInv, BasesOK, CarefulTimers, TypeOK, OnTimeOK
<1>3. ASSUME NEW y \in Hards, Linked(hard.list, y)
      PROVE  /\ Left(rt_tick', hard.timeout[y]) = Left(rt_tick, hard.timeout[y]) - 1
             /\ Left(rt_tick, hard.timeout[y]) \in Int
             /\ Left(rt_tick, hard.timeout[y]) < Half
  <2>1. hard.timeout[y] \in Ticks
    BY <1>2
  <2>2. 0 <= Left(rt_tick, hard.timeout[y])
    <3>1. Left(rt_tick, hard.timeout[y]) \in Int
      BY <1>2, <2>1, LeftValue
    <3> QED BY <1>1, <1>3, <3>1 DEF TimerInv, OnTimeOK, HasTime
  <2>3. Left(rt_tick, hard.timeout[y]) < Half
    BY <1>2, <1>3 DEF QueueOK
  <2> QED BY <1>1, <1>2, <2>1, <2>2, <2>3, NextLeft, LeftValue
<1>4. rt_tick' \in Ticks
  <2>1. 1 \in Ticks
    BY TickModAssumption DEF Ticks
  <2> QED BY <1>1, <1>2, <2>1, SumValue
<1>5. TypeOK' /\ BasesOK' /\ LocalsOK'
  <2>1. chk # "callback"
    BY <1>1
  <2> QED BY <1>1, <1>4 DEF TimerInv, TypeOK, BasesOK, LocalsOK, Hards
<1>6. MadeOK' /\ FiringOK' /\ ActiveLinked' /\ SilentOK'
  BY <1>1 DEF TimerInv, MadeOK, FiringOK, ActiveLinked, SilentOK
<1>7. ThreadOK' /\ IdleWithoutTimers'
  BY <1>1 DEF TimerInv, ThreadOK, IdleWithoutTimers
<1>8. OnTimeOK'
  <2>1. \A y \in Hards : Linked(hard.list, y) => Left(rt_tick', hard.timeout[y]) < Half
    <3>1. Half \in Int
      BY <1>2, HalfBounds
    <3> QED BY <1>3, <3>1
  <2>2. Ordered(hard.list, LeftOf(Hards, hard, rt_tick'))
    <3>1. \A i \in DOMAIN hard.list : hard.list[i] \in Hards /\ Linked(hard.list, hard.list[i])
      BY <1>2, LenProperties DEF Linked
    <3>2. ASSUME NEW i \in DOMAIN hard.list, NEW j \in DOMAIN hard.list, i < j
          PROVE  Left(rt_tick', hard.timeout[hard.list[i]])
                   <= Left(rt_tick', hard.timeout[hard.list[j]])
      <4>1. Left(rt_tick, hard.timeout[hard.list[i]])
              <= Left(rt_tick, hard.timeout[hard.list[j]])
        BY <1>2, <3>1, <3>2 DEF QueueOK, Ordered, LeftOf
      <4> QED BY <1>3, <3>1, <4>1
    <3> QED BY <3>1, <3>2 DEF Ordered, LeftOf
  <2>3. QueueOK(Hards, hard, rt_tick')
    BY <2>1, <2>2 DEF QueueOK
  <2> QED BY <1>1, <2>3 DEF OnTimeOK, Hards
<1> QED BY <1>5, <1>6, <1>7, <1>8 DEF TimerInv

LEMMA CheckTakeStep ==
  ASSUME CarefulTimers, TimerInv, CheckTake
  PROVE  TimerInv'
<1> DEFINE x == Head(hard.list)
<1>1. /\ chk \in {"entered", "loop"} /\ chk' = "callback"
      /\ hard.list # <<>> /\ hcall' = x /\ hlist' = <<x>> /\ hard' = Taken(hard)
      /\ UNCHANGED <<soft, made, periodic, rt_tick, stat, stopped>>
      /\ UNCHANGED <<scall, slist, status, pc, next_timeout, blocked>>
  BY DEF CheckTake, HeadExpired, thread
<1>2. /\ BaseOK(Hards, hard) /\ BaseOK(SoftTimers, soft) /\ rt_tick \in Ticks
      /\ QueueOK(Hards, hard, rt_tick)
      /\ hcall = none /\ thread_timer # none /\ thread_timer \notin periodic
  BY <1>1, TimersAssumption DEF TimerInv, BasesOK, TypeOK, OnTimeOK, Timers
<1> HIDE DEF x
<1>3. x \in Hards /\ Linked(hard.list, x) /\ x \in hard.act
      /\ Unlinked(Hards, hard, x, IF x \in periodic THEN hard.act ELSE hard.act \ {x}, hard')
  <2>1. x = Head(hard.list)
    BY DEF x
  <2> QED BY <1>1, <1>2, <2>1, TakenOK, Facts
<1>4. /\ BaseOK(Hards, hard')
      /\ hard'.act = IF x \in periodic THEN hard.act ELSE hard.act \ {x}
      /\ hard'.timeout = hard.timeout /\ hard'.init = hard.init
      /\ \A y : Linked(hard'.list, y) <=> Linked(hard.list, y) /\ y # x
      /\ QueueOK(Hards, hard', rt_tick)
  BY <1>2, <1>3 DEF Unlinked
<1>5. \A y : Linked(hlist', y) <=> y = x
  BY <1>1, ShortList
<1>6. BasesOK' /\ TypeOK'
  <2>1. hard' \in Bases(HardTimers \cup {thread_timer})
    BY <1>4 DEF BaseOK, Hards
  <2>2. BasesOK'
    BY <1>1, <1>2, <1>4 DEF BasesOK, Hards
  <2>3. x # none /\ x \in HardTimers \cup {thread_timer}
    BY <1>3, TimersAssumption DEF Hards
  <2> QED BY <1>1, <2>1, <2>2, <2>3 DEF TimerInv, TypeOK
<1>7. LocalsOK' /\ MadeOK' /\ FiringOK' /\ ActiveLinked' /\ SilentOK'
  <2>1. x # none
    BY <1>3, TimersAssumption DEF Hards
  <2>2. LocalsOK' /\ FiringOK' /\ SilentOK'
    BY <1>1, <1>4, <1>5, <2>1 DEF TimerInv, LocalsOK, FiringOK, SilentOK
  <2>3. MadeOK'
    <3>1. x \in Timers => x \in made
      BY <1>3 DEF TimerInv, MadeOK
    <3> QED BY <1>1, <1>4, <1>5, <3>1 DEF TimerInv, MadeOK
  <2>4. ActiveLinked'
    <3>1. \A y : ~Linked(hlist, y)
      BY <1>2, Facts, TimersAssumption DEF Hards
    <3> QED BY <1>1, <1>4, <1>5, <3>1 DEF TimerInv, ActiveLinked
  <2> QED BY <2>2, <2>3, <2>4
<1>8. ThreadOK' /\ IdleWithoutTimers'
  BY <1>1, <1>2, <1>3, <1>4 DEF TimerInv, ThreadOK, IdleWithoutTimers
<1>9. OnTimeOK'
  BY <1>1, <1>4 DEF OnTimeOK, Hards
<1> QED BY <1>6, <1>7, <1>8, <1>9 DEF TimerInv

\* The check starts its timer again or leaves the base as it is.
LEMMA RestartOK ==
  ASSUME Roomy, NEW X, NEW tb, BaseOK(X, tb), NEW x \in X, NEW list, rt_tick \in Ticks,
         \A y \in tb.act : Linked(list, y) => y \in periodic,
         NEW r, r = Restart(tb, list, x)
  PROVE  /\ BaseOK(X, r) /\ r.act = tb.act /\ r.init = tb.init
         /\ \A y : Linked(tb.list, y) => Linked(r.list, y)
         /\ \A y : Linked(r.list, y) => Linked(tb.list, y) \/ y = x
         /\ x \in tb.act /\ Linked(list, x) => Linked(r.list, x)
         /\ QueueOK(X, tb, rt_tick) => QueueOK(X, r, rt_tick)
         /\ x \notin periodic => r = tb
<1>1. CASE Linked(list, x) /\ x \in periodic /\ x \in tb.act
  <2>1. r = rt_timer_start(tb, x, rt_tick)
    BY <1>1 DEF Restart
  <2>2. TimerStarted(X, tb, x, rt_tick, r)
    BY <2>1, StartTimerOK
  <2> QED BY <1>1, <2>2 DEF TimerStarted
<1>2. CASE ~(Linked(list, x) /\ x \in periodic /\ x \in tb.act)
  <2>1. r = tb
    BY <1>2 DEF Restart
  <2> QED BY <1>2, <2>1
<1> QED BY <1>1, <1>2

LEMMA CheckReturnStep ==
  ASSUME CarefulTimers, TimerInv, CheckReturn
  PROVE  TimerInv'
<1>1. /\ chk = "callback" /\ chk' = "loop" /\ hard' = Restart(hard, hlist, hcall)
      /\ stat' = IF hcall = thread_timer THEN "READY" ELSE stat
      /\ hcall' = none /\ hlist' = <<>>
      /\ UNCHANGED <<soft, made, periodic, rt_tick, stopped>>
      /\ UNCHANGED <<scall, slist, status, pc, next_timeout, blocked>>
  BY DEF CheckReturn, thread
<1>2. /\ BaseOK(Hards, hard) /\ BaseOK(SoftTimers, soft) /\ Roomy /\ rt_tick \in Ticks
      /\ QueueOK(Hards, hard, rt_tick)
      /\ hcall \in Hards /\ thread_timer # none /\ thread_timer \notin periodic
  BY <1>1, TimersAssumption
     DEF TimerInv, BasesOK, TypeOK, OnTimeOK, CarefulTimers, Timers, Hards
<1>3. /\ BaseOK(Hards, hard') /\ hard'.act = hard.act /\ hard'.init = hard.init
      /\ \A y : Linked(hard.list, y) => Linked(hard'.list, y)
      /\ hcall \in hard.act /\ Linked(hlist, hcall) => Linked(hard'.list, hcall)
      /\ QueueOK(Hards, hard', rt_tick)
  <2>1. \A y \in hard.act : Linked(hlist, y) => y \in periodic
    BY DEF TimerInv, FiringOK
  <2> QED BY <1>1, <1>2, <2>1, RestartOK
<1>4. \A y : ~Linked(hlist', y)
  BY <1>1 DEF Linked
<1>5. BasesOK' /\ TypeOK'
  <2>1. hard' \in Bases(HardTimers \cup {thread_timer})
    BY <1>3 DEF BaseOK, Hards
  <2>2. BasesOK'
    BY <1>1, <1>2, <1>3 DEF BasesOK, Hards
  <2> QED BY <1>1, <2>1, <2>2 DEF TimerInv, TypeOK
<1>6. LocalsOK' /\ FiringOK' /\ SilentOK' /\ MadeOK'
  BY <1>1, <1>3, <1>4 DEF TimerInv, LocalsOK, FiringOK, SilentOK, MadeOK
<1>7. ActiveLinked'
  BY <1>1, <1>3, <1>4, Facts DEF TimerInv, ActiveLinked
<1>8. ThreadOK' /\ IdleWithoutTimers'
  BY <1>1, <1>2, <1>3 DEF TimerInv, ThreadOK, IdleWithoutTimers
<1>9. OnTimeOK'
  BY <1>1, <1>3 DEF OnTimeOK, Hards
<1> QED BY <1>5, <1>6, <1>7, <1>8, <1>9 DEF TimerInv

\* The loop ends where the first timer, so every timer, has time left.
LEMMA CheckDoneStep ==
  ASSUME CarefulTimers, TimerInv, CheckDone
  PROVE  TimerInv'
<1>1. /\ chk \in {"entered", "loop"} /\ ~HeadExpired(hard, rt_tick) /\ chk' = "idle"
      /\ UNCHANGED <<hard, soft, made, periodic, rt_tick, hcall, hlist, stat, stopped>>
      /\ UNCHANGED <<scall, slist, status, pc, next_timeout, blocked>>
  BY DEF CheckDone, thread
<1>2. /\ BaseOK(Hards, hard) /\ Roomy /\ rt_tick \in Ticks /\ QueueOK(Hards, hard, rt_tick)
      /\ hard.timeout \in [Hards -> Ticks] /\ hard.list \in Seq(Hards)
  BY BaseFields DEF TimerInv, BasesOK, CarefulTimers, TypeOK, OnTimeOK
<1>3. ASSUME NEW y \in Hards, Linked(hard.list, y)
      PROVE  Left(rt_tick, hard.timeout[y]) > 0
  <2> DEFINE x == hard.list[1]
  <2>1. Len(hard.list) \in Nat /\ DOMAIN hard.list = 1 .. Len(hard.list)
    BY <1>2, LenProperties
  <2>2. PICK i \in 1 .. Len(hard.list) : hard.list[i] = y
    BY <1>3, <2>1 DEF Linked
  <2>3. hard.list # <<>> /\ 1 \in DOMAIN hard.list /\ Head(hard.list) = x /\ x \in Hards
    BY <1>2, <2>1, <2>2
  <2>4. Linked(hard.list, x)
    BY <2>3 DEF Linked
  <2> HIDE DEF x
  <2>5. /\ hard.timeout[x] \in Ticks /\ Left(rt_tick, hard.timeout[x]) < Half
        /\ ~Expired(rt_tick, hard.timeout[x])
    BY <1>1, <1>2, <2>3, <2>4 DEF QueueOK, HeadExpired
  <2>6. Left(rt_tick, hard.timeout[x]) > 0 /\ Left(rt_tick, hard.timeout[x]) \in Int
    BY <1>2, <2>5, ExpiredLeft
  <2>7. Left(rt_tick, hard.timeout[x]) <= Left(rt_tick, hard.timeout[y])
    <3>1. CASE i = 1
      BY <2>2, <2>6, <3>1 DEF x
    <3>2. CASE i # 1
      <4>1. LeftOf(Hards, hard, rt_tick)[hard.list[1]] <= LeftOf(Hards, hard, rt_tick)[hard.list[i]]
        BY <1>2, <2>1, <2>2, <2>3, <3>2 DEF QueueOK, Ordered
      <4> QED BY <2>2, <2>3, <4>1 DEF LeftOf, x
    <3> QED BY <3>1, <3>2
  <2>8. Left(rt_tick, hard.timeout[y]) \in Int
    <3>1. rt_tick \in Ticks /\ hard.timeout[y] \in Ticks
      BY <1>2, <1>3
    <3> QED BY <3>1, LeftValue
  <2> QED BY <2>6, <2>7, <2>8
<1>4. TypeOK' /\ BasesOK' /\ LocalsOK'
  <2>1. chk # "callback" /\ chk' # "callback"
    BY <1>1
  <2> QED BY <1>1, <2>1 DEF TimerInv, TypeOK, BasesOK, LocalsOK, Hards
<1>5. MadeOK' /\ FiringOK' /\ ActiveLinked' /\ SilentOK'
  BY <1>1 DEF TimerInv, MadeOK, FiringOK, ActiveLinked, SilentOK
<1>6. ThreadOK' /\ IdleWithoutTimers'
  BY <1>1 DEF TimerInv, ThreadOK, IdleWithoutTimers
<1>7. OnTimeOK'
  <2>1. \A y \in Hards : Linked(hard.list, y) => HasTime(y)'
    BY <1>1, <1>3 DEF HasTime
  <2> QED BY <1>1, <1>2, <2>1 DEF OnTimeOK, Hards
<1> QED BY <1>4, <1>5, <1>6, <1>7 DEF TimerInv

-----------------------------------------------------------------------------
(* The timer thread.  While it is ready its own timer is not active. *)
LEMMA ReadyThread ==
  ASSUME TimerInv, NEW l, ThreadAt(l)
  PROVE  /\ stat = "READY" /\ pc = l /\ blocked = FALSE /\ hcall = none
         /\ thread_timer \notin hard.act
<1>1. stat = "READY" /\ pc = l /\ chk = "idle"
  BY DEF ThreadAt
<1> QED BY <1>1 DEF TimerInv, TypeOK, ThreadOK

\* A step of the timer thread that touches no timer.
LEMMA ThreadStep ==
  ASSUME CarefulTimers, TimerInv,
         NextTimeout \/ ReadTick \/ SoftCheckDone \/ CallbackBlocks \/ CallbackWakes
  PROVE  TimerInv'
<1>1. /\ UNCHANGED <<hard, soft, made, periodic, rt_tick, stopped, scall, slist, status>>
      /\ UNCHANGED <<chk, hcall, hlist>>
  BY DEF NextTimeout, ReadTick, SoftCheckDone, CallbackBlocks, CallbackWakes, check
<1>2. BasesOK' /\ LocalsOK' /\ MadeOK' /\ FiringOK' /\ ActiveLinked' /\ SilentOK' /\ OnTimeOK'
  <2>1. OnTimeOK'
    BY <1>1 DEF TimerInv, OnTimeOK, HasTime, Hards
  <2>2. BasesOK' /\ LocalsOK'
    BY <1>1 DEF TimerInv, BasesOK, LocalsOK, Hards
  <2>3. MadeOK' /\ FiringOK' /\ ActiveLinked' /\ SilentOK'
    BY <1>1 DEF TimerInv, MadeOK, FiringOK, ActiveLinked, SilentOK
  <2> QED BY <2>1, <2>2, <2>3
<1>3. CASE NextTimeout
  <2>1. soft.list # <<>> => soft.timeout[Head(soft.list)] \in Ticks
    <3>1. BaseOK(SoftTimers, soft)
      BY DEF TimerInv, BasesOK
    <3>2. soft.timeout \in [SoftTimers -> Ticks] /\ soft.list \in Seq(SoftTimers)
      BY <3>1, BaseFields
    <3>3. soft.list # <<>> => Head(soft.list) \in SoftTimers
      BY <3>2, ListHead
    <3> QED BY <3>2, <3>3
  <2>2. /\ stat' = stat /\ blocked' = blocked
        /\ \/ pc' = "empty" /\ soft.list = <<>> /\ next_timeout' = next_timeout
           \/ pc' = "delay" /\ next_timeout' \in Ticks
    BY <1>3, <2>1 DEF NextTimeout
  <2>3. /\ stat = "READY" /\ pc = "next" /\ blocked = FALSE /\ hcall = none
        /\ thread_timer \notin hard.act
    BY <1>3, ReadyThread DEF NextTimeout
  <2>4. TypeOK'
    BY <1>1, <2>2, <2>3 DEF TimerInv, TypeOK
  <2>5. ThreadOK' /\ IdleWithoutTimers'
    <3>1. thread_timer # none
      BY TimersAssumption
    <3> QED BY <1>1, <2>2, <2>3, <3>1 DEF TimerInv, ThreadOK, IdleWithoutTimers
  <2> QED BY <1>2, <2>4, <2>5 DEF TimerInv
<1>4. CASE ReadTick
  <2> DEFINE d == Diff(next_timeout, rt_tick)
  <2>1. d \in Ticks
    <3>1. next_timeout \in Ticks /\ rt_tick \in Ticks
      BY DEF TimerInv, TypeOK
    <3>2. next_timeout - rt_tick \in Int /\ TickMod \in Nat /\ TickMod > 0
      BY <3>1, TickModAssumption DEF Ticks
    <3> QED BY <3>2 DEF Diff, Ticks
  <2>2. /\ stat' = stat /\ blocked' = blocked
        /\ \/ pc' = "sleep" /\ next_timeout' = d /\ d < RT_TICK_MAX \div 2
           \/ pc' = "check" /\ next_timeout' = next_timeout
    BY <1>4 DEF ReadTick
  <2> HIDE DEF d
  <2>3. pc' = "sleep" => next_timeout' \in Durations
    BY <2>1, <2>2 DEF Durations
  <2>4. /\ stat = "READY" /\ pc = "delay" /\ blocked = FALSE /\ hcall = none
        /\ thread_timer \notin hard.act
    BY <1>4, ReadyThread DEF ReadTick
  <2>5. TypeOK'
    BY <1>1, <2>1, <2>2, <2>4 DEF TimerInv, TypeOK
  <2>6. ThreadOK' /\ IdleWithoutTimers'
    <3>1. thread_timer # none
      BY TimersAssumption
    <3> QED BY <1>1, <2>2, <2>3, <2>4, <3>1 DEF TimerInv, ThreadOK, IdleWithoutTimers
  <2> QED BY <1>2, <2>5, <2>6 DEF TimerInv
<1>5. CASE SoftCheckDone
  <2>1. stat' = stat /\ blocked' = blocked /\ pc' = "next" /\ next_timeout' = next_timeout
    BY <1>5 DEF SoftCheckDone
  <2>2. /\ stat = "READY" /\ pc = "check" /\ blocked = FALSE /\ hcall = none
        /\ thread_timer \notin hard.act
    BY <1>5, ReadyThread DEF SoftCheckDone
  <2>3. TypeOK'
    BY <1>1, <2>1, <2>2 DEF TimerInv, TypeOK
  <2>4. ThreadOK' /\ IdleWithoutTimers'
    <3>1. thread_timer # none
      BY TimersAssumption
    <3> QED BY <1>1, <2>1, <2>2, <3>1 DEF TimerInv, ThreadOK, IdleWithoutTimers
  <2> QED BY <1>2, <2>3, <2>4 DEF TimerInv
<1>6. CASE CallbackBlocks
  <2>1. stat' = "SUSPEND" /\ blocked' = TRUE /\ pc' = pc /\ next_timeout' = next_timeout
    BY <1>6 DEF CallbackBlocks
  <2>2. /\ stat = "READY" /\ pc = "callback" /\ blocked = FALSE /\ hcall = none
        /\ thread_timer \notin hard.act
    BY <1>6, ReadyThread DEF CallbackBlocks
  <2>3. TypeOK'
    BY <1>1, <2>1, <2>2 DEF TimerInv, TypeOK
  <2>4. ThreadOK' /\ IdleWithoutTimers'
    <3>1. thread_timer # none
      BY TimersAssumption
    <3> QED BY <1>1, <2>1, <2>2, <3>1 DEF TimerInv, ThreadOK, IdleWithoutTimers
  <2> QED BY <1>2, <2>3, <2>4 DEF TimerInv
<1>7. CASE CallbackWakes
  <2>1. blocked /\ stat' = "READY" /\ blocked' = FALSE /\ pc' = pc /\ next_timeout' = next_timeout
    BY <1>7 DEF CallbackWakes
  <2>2. TypeOK'
    BY <1>1, <2>1 DEF TimerInv, TypeOK
  <2>3. ThreadOK' /\ IdleWithoutTimers'
    BY <1>1, <2>1 DEF TimerInv, ThreadOK, IdleWithoutTimers
  <2> QED BY <1>2, <2>2, <2>3 DEF TimerInv
<1> QED BY <1>3, <1>4, <1>5, <1>6, <1>7

LEMMA SuspendStep ==
  ASSUME CarefulTimers, TimerInv, SuspendThread
  PROVE  TimerInv'
<1>1. /\ stat' = "SUSPEND" /\ pc' = "check" /\ hard' = rt_timer_stop(hard, thread_timer)
      /\ UNCHANGED <<soft, made, periodic, rt_tick, scall, slist, status, next_timeout,
                     blocked, stopped>>
      /\ UNCHANGED <<chk, hcall, hlist>>
  BY DEF SuspendThread, check
<1>2. /\ stat = "READY" /\ pc = "empty" /\ blocked = FALSE /\ hcall = none
      /\ thread_timer \notin hard.act
  BY ReadyThread DEF SuspendThread
<1>3. hard' = hard
  BY <1>1, <1>2 DEF rt_timer_stop
<1>4. BasesOK' /\ LocalsOK' /\ MadeOK' /\ FiringOK' /\ ActiveLinked' /\ SilentOK' /\ OnTimeOK'
  <2>1. OnTimeOK'
    BY <1>1, <1>3 DEF TimerInv, OnTimeOK, HasTime, Hards
  <2>2. BasesOK' /\ LocalsOK'
    BY <1>1, <1>3 DEF TimerInv, BasesOK, LocalsOK, Hards
  <2>3. MadeOK' /\ FiringOK' /\ ActiveLinked' /\ SilentOK'
    BY <1>1, <1>3 DEF TimerInv, MadeOK, FiringOK, ActiveLinked, SilentOK
  <2> QED BY <2>1, <2>2, <2>3
<1>5. TypeOK'
  BY <1>1, <1>2, <1>3 DEF TimerInv, TypeOK
<1>6. ThreadOK' /\ IdleWithoutTimers'
  <2>1. thread_timer # none
    BY TimersAssumption
  <2> QED BY <1>1, <1>2, <1>3, <2>1 DEF TimerInv, ThreadOK, IdleWithoutTimers
<1> QED BY <1>4, <1>5, <1>6 DEF TimerInv

LEMMA SleepStep ==
  ASSUME CarefulTimers, TimerInv, SleepThread
  PROVE  TimerInv'
<1> DEFINE tb == timer_set_time(hard, thread_timer, next_timeout)
<1>1. /\ stat' = "SUSPEND" /\ pc' = "check" /\ chk = "idle"
      /\ hard' = rt_timer_start(tb, thread_timer, rt_tick)
      /\ UNCHANGED <<soft, made, periodic, rt_tick, scall, slist, status, next_timeout,
                     blocked, stopped>>
      /\ UNCHANGED <<chk, hcall, hlist>>
  BY DEF SleepThread, ThreadAt, check
<1>2. /\ stat = "READY" /\ pc = "sleep" /\ blocked = FALSE /\ hcall = none
      /\ thread_timer \notin hard.act
  BY ReadyThread DEF SleepThread
<1>3. /\ BaseOK(Hards, hard) /\ BaseOK(SoftTimers, soft) /\ Roomy /\ rt_tick \in Ticks
      /\ QueueOK(Hards, hard, rt_tick) /\ next_timeout \in Durations
      /\ thread_timer \in Hards /\ thread_timer \notin Timers /\ thread_timer # none
  BY <1>2, TimersAssumption
     DEF TimerInv, BasesOK, TypeOK, OnTimeOK, CarefulTimers, ThreadOK, Hards, Timers
<1>4. /\ BaseOK(Hards, tb) /\ tb.act = hard.act /\ tb.list = hard.list
      /\ tb.timeout = hard.timeout
      /\ \A y \in Hards : tb.init[y] = IF y = thread_timer THEN next_timeout ELSE hard.init[y]
      /\ QueueOK(Hards, tb, rt_tick)
  BY <1>3, SetTimerOK
<1> HIDE DEF tb
<1>5. /\ BaseOK(Hards, hard') /\ hard'.act = tb.act \cup {thread_timer}
      /\ hard'.init = tb.init
      /\ \A y : Linked(hard'.list, y) <=> Linked(tb.list, y) \/ y = thread_timer
      /\ \A y \in Hards : y # thread_timer => hard'.timeout[y] = tb.timeout[y]
      /\ Left(rt_tick, hard'.timeout[thread_timer]) = tb.init[thread_timer]
      /\ QueueOK(Hards, hard', rt_tick)
  <2>1. TimerStarted(Hards, tb, thread_timer, rt_tick, hard')
    BY <1>1, <1>3, <1>4, StartTimerOK
  <2> QED BY <1>4, <2>1 DEF TimerStarted
<1>6. BasesOK' /\ TypeOK'
  <2>1. hard' \in Bases(HardTimers \cup {thread_timer})
    BY <1>5 DEF BaseOK, Hards
  <2>2. BasesOK'
    BY <1>1, <1>3, <1>5 DEF BasesOK, Hards
  <2> QED BY <1>1, <1>2, <2>1, <2>2 DEF TimerInv, TypeOK
<1>7. LocalsOK' /\ MadeOK' /\ FiringOK' /\ ActiveLinked' /\ SilentOK'
  <2>1. ~Linked(hlist, thread_timer)
    BY <1>2, <1>3, Facts
  <2>2. LocalsOK' /\ FiringOK' /\ SilentOK'
    <3>1. thread_timer \notin stopped
      BY <1>3 DEF TimerInv, TypeOK
    <3> QED BY <1>1, <1>4, <1>5, <2>1, <3>1 DEF TimerInv, LocalsOK, FiringOK, SilentOK
  <2>3. MadeOK'
    <3>1. \A y \in HardTimers : y \in Hards /\ y # thread_timer
      BY TimersAssumption DEF Hards
    <3>2. \A y \in Timers : y # thread_timer
      BY <1>3
    <3> QED BY <1>1, <1>4, <1>5, <3>1, <3>2 DEF TimerInv, MadeOK
  <2>4. ActiveLinked'
    BY <1>1, <1>4, <1>5 DEF TimerInv, ActiveLinked
  <2> QED BY <2>2, <2>3, <2>4
<1>8. ThreadOK' /\ IdleWithoutTimers'
  BY <1>1, <1>2, <1>3, <1>5 DEF TimerInv, ThreadOK, IdleWithoutTimers
<1>9. OnTimeOK'
  <2>1. ASSUME NEW y \in Hards, Linked(hard'.list, y)
        PROVE  HasTime(y)'
    <3>1. CASE y = thread_timer
      <4>1. next_timeout \in Nat
        BY <1>3 DEF Durations, Ticks
      <4>2. /\ Left(rt_tick, hard'.timeout[y]) = next_timeout
            /\ hard'.init[y] = next_timeout
        BY <1>3, <1>4, <1>5, <3>1
      <4> QED BY <1>1, <3>1, <4>1, <4>2 DEF HasTime
    <3>2. CASE y # thread_timer
      <4>1. HasTime(y)
        BY <1>1, <1>4, <1>5, <2>1, <3>2 DEF TimerInv, OnTimeOK
      <4> QED BY <1>1, <1>4, <1>5, <3>2, <4>1 DEF HasTime
    <3> QED BY <3>1, <3>2
  <2> QED BY <1>1, <1>5, <2>1 DEF OnTimeOK, Hards
<1> QED BY <1>6, <1>7, <1>8, <1>9 DEF TimerInv

LEMMA SoftTakeStep ==
  ASSUME CarefulTimers, TimerInv, SoftCheckTake
  PROVE  TimerInv'
<1> DEFINE x == Head(soft.list)
<1>1. /\ soft.list # <<>> /\ scall' = x /\ slist' = <<x>> /\ soft' = Taken(soft)
      /\ status' = "BUSY" /\ pc' = "callback"
      /\ UNCHANGED <<hard, made, periodic, rt_tick, stat, next_timeout, blocked, stopped>>
      /\ UNCHANGED <<chk, hcall, hlist>>
  BY DEF SoftCheckTake, HeadExpired, check
<1>2. /\ stat = "READY" /\ pc = "check" /\ blocked = FALSE /\ hcall = none
      /\ thread_timer \notin hard.act /\ thread_timer # none
  BY ReadyThread, TimersAssumption DEF SoftCheckTake
<1>3. BaseOK(Hards, hard) /\ BaseOK(SoftTimers, soft) /\ scall = none
  BY <1>2 DEF TimerInv, BasesOK, TypeOK
<1> HIDE DEF x
<1>4. x \in SoftTimers /\ Linked(soft.list, x) /\ x \in soft.act
      /\ Unlinked(SoftTimers, soft, x, IF x \in periodic THEN soft.act ELSE soft.act \ {x}, soft')
  <2>1. x = Head(soft.list)
    BY DEF x
  <2> QED BY <1>1, <1>3, <2>1, TakenOK, Facts
<1>5. /\ BaseOK(SoftTimers, soft')
      /\ soft'.act = IF x \in periodic THEN soft.act ELSE soft.act \ {x}
      /\ \A y : Linked(soft'.list, y) <=> Linked(soft.list, y) /\ y # x
  BY <1>4 DEF Unlinked
<1>6. \A y : Linked(slist', y) <=> y = x
  BY <1>1, ShortList
<1>7. x # none
  BY <1>4, TimersAssumption
<1>8. BasesOK' /\ TypeOK'
  <2>1. soft' \in Bases(SoftTimers)
    BY <1>5 DEF BaseOK
  <2>2. BasesOK'
    BY <1>1, <1>3, <1>5 DEF BasesOK, Hards
  <2> QED BY <1>1, <1>4, <1>7, <2>1, <2>2 DEF TimerInv, TypeOK
<1>9. LocalsOK' /\ MadeOK' /\ FiringOK' /\ ActiveLinked' /\ SilentOK'
  <2>1. LocalsOK' /\ FiringOK' /\ SilentOK'
    BY <1>1, <1>5, <1>6, <1>7 DEF TimerInv, LocalsOK, FiringOK, SilentOK
  <2>2. MadeOK'
    <3>1. x \in made
      BY <1>4 DEF TimerInv, MadeOK, Timers
    <3> QED BY <1>1, <1>5, <1>6, <3>1 DEF TimerInv, MadeOK
  <2>3. ActiveLinked'
    <3>1. \A y : ~Linked(slist, y)
      BY <1>3, Facts, TimersAssumption
    <3> QED BY <1>1, <1>5, <1>6, <3>1 DEF TimerInv, ActiveLinked
  <2> QED BY <2>1, <2>2, <2>3
<1>10. ThreadOK' /\ IdleWithoutTimers'
  BY <1>1, <1>2 DEF TimerInv, ThreadOK, IdleWithoutTimers
<1>11. OnTimeOK'
  BY <1>1 DEF TimerInv, OnTimeOK, HasTime, Hards
<1> QED BY <1>8, <1>9, <1>10, <1>11 DEF TimerInv

LEMMA SoftReturnStep ==
  ASSUME CarefulTimers, TimerInv, SoftCheckReturn
  PROVE  TimerInv'
<1>1. /\ soft' = Restart(soft, slist, scall) /\ scall' = none /\ slist' = <<>>
      /\ status' = "IDLE" /\ pc' = "check"
      /\ UNCHANGED <<hard, made, periodic, rt_tick, stat, next_timeout, blocked, stopped>>
      /\ UNCHANGED <<chk, hcall, hlist>>
  BY DEF SoftCheckReturn, check
<1>2. /\ stat = "READY" /\ pc = "callback" /\ blocked = FALSE /\ hcall = none
      /\ thread_timer \notin hard.act /\ thread_timer # none
  BY ReadyThread, TimersAssumption DEF SoftCheckReturn
<1>3. /\ BaseOK(Hards, hard) /\ BaseOK(SoftTimers, soft) /\ Roomy /\ rt_tick \in Ticks
      /\ scall \in SoftTimers
  BY <1>2 DEF TimerInv, BasesOK, TypeOK, CarefulTimers
<1>4. /\ BaseOK(SoftTimers, soft') /\ soft'.act = soft.act
      /\ \A y : Linked(soft.list, y) => Linked(soft'.list, y)
      /\ scall \in soft.act /\ Linked(slist, scall) => Linked(soft'.list, scall)
  <2>1. \A y \in soft.act : Linked(slist, y) => y \in periodic
    BY DEF TimerInv, FiringOK
  <2> QED BY <1>1, <1>3, <2>1, RestartOK
<1>5. \A y : ~Linked(slist', y)
  BY <1>1 DEF Linked
<1>6. BasesOK' /\ TypeOK'
  <2>1. soft' \in Bases(SoftTimers)
    BY <1>4 DEF BaseOK
  <2>2. BasesOK'
    BY <1>1, <1>3, <1>4 DEF BasesOK, Hards
  <2> QED BY <1>1, <2>1, <2>2 DEF TimerInv, TypeOK
<1>7. LocalsOK' /\ FiringOK' /\ SilentOK' /\ MadeOK'
  BY <1>1, <1>4, <1>5 DEF TimerInv, LocalsOK, FiringOK, SilentOK, MadeOK
<1>8. ActiveLinked'
  BY <1>1, <1>4, <1>5, Facts DEF TimerInv, ActiveLinked
<1>9. ThreadOK' /\ IdleWithoutTimers'
  BY <1>1, <1>2 DEF TimerInv, ThreadOK, IdleWithoutTimers
<1>10. OnTimeOK'
  BY <1>1 DEF TimerInv, OnTimeOK, HasTime, Hards
<1> QED BY <1>6, <1>7, <1>8, <1>9, <1>10 DEF TimerInv

-----------------------------------------------------------------------------
LEMMA TimerNext ==
  ASSUME CarefulTimers, TimerInv, [Next]_vars
  PROVE  TimerInv'
<1>1. ASSUME NEW t \in Timers, Api(t) PROVE TimerInv'
  <2>1. CASE \E d \in Times, p \in BOOLEAN : rt_timer_init(t, d, p)
    BY <2>1, InitStep
  <2>2. CASE \E d \in Times : SetTime(t, d)
    BY <2>2, SetTimeStep
  <2>3. CASE StartTimer(t)
    BY <2>3, StartHardStep, StartSoftStep
  <2>4. CASE StopTimer(t) \/ DetachTimer(t) \/ SetMode(t)
    BY <2>4, StopStep, DetachStep, SetModeStep
  <2> QED BY <1>1, <2>1, <2>2, <2>3, <2>4 DEF Api
<1>2. CASE TickHandler
  BY <1>2, TickStep, CheckTakeStep, CheckReturnStep, CheckDoneStep DEF TickHandler
<1>3. CASE TimerThread \/ CallbackWakes
  BY <1>3, ThreadStep, SuspendStep, SleepStep, SoftTakeStep, SoftReturnStep DEF TimerThread
<1>4. CASE UNCHANGED vars
  <2>1. /\ UNCHANGED <<hard, soft, made, periodic, rt_tick, stat, stopped>>
        /\ UNCHANGED <<chk, hcall, hlist, scall, slist, status, pc, next_timeout, blocked>>
    BY <1>4 DEF vars, check, thread
  <2>2. TypeOK' /\ BasesOK' /\ LocalsOK'
    BY <2>1 DEF TimerInv, TypeOK, BasesOK, LocalsOK, Hards
  <2>3. MadeOK' /\ FiringOK' /\ ActiveLinked' /\ SilentOK'
    BY <2>1 DEF TimerInv, MadeOK, FiringOK, ActiveLinked, SilentOK
  <2>4. ThreadOK' /\ IdleWithoutTimers' /\ OnTimeOK'
    BY <2>1 DEF TimerInv, ThreadOK, IdleWithoutTimers, OnTimeOK, HasTime, Hards
  <2> QED BY <2>2, <2>3, <2>4 DEF TimerInv
<1> QED BY <1>1, <1>2, <1>3, <1>4 DEF Next

LEMMA TimerInvariant == CarefulTimers => (Spec => []TimerInv)
<1> SUFFICES ASSUME CarefulTimers PROVE Spec => []TimerInv
  OBVIOUS
<1>1. Init => TimerInv
  BY TimersInit DEF CarefulTimers
<1>2. TimerInv /\ [Next]_vars => TimerInv'
  BY TimerNext
<1> QED BY <1>1, <1>2, PTL DEF Spec

-----------------------------------------------------------------------------
\* Between ticks every linked hard timer has time left.
LEMMA OnTime == TimerInv /\ Roomy => HardOnTime
<1> SUFFICES ASSUME TimerInv, Roomy, chk = "idle", NEW t \in hard.act,
                    Expired(rt_tick, hard.timeout[t])
             PROVE  t = thread_timer /\ hard.init[t] = 0 /\ hard.timeout[t] = rt_tick
  BY DEF HardOnTime
<1>1. /\ BaseOK(Hards, hard) /\ QueueOK(Hards, hard, rt_tick) /\ rt_tick \in Ticks
      /\ hcall = none
  BY DEF TimerInv, BasesOK, TypeOK, OnTimeOK
<1>2. t \in Hards /\ Linked(hard.list, t)
  <2>1. t \in Hards /\ t # none
    BY Facts, TimersAssumption DEF Hards
  <2>2. ~Linked(hlist, t)
    BY <1>1, <2>1, Facts
  <2> QED BY <2>1, <2>2 DEF TimerInv, ActiveLinked
<1>3. hard.timeout[t] \in Ticks /\ Left(rt_tick, hard.timeout[t]) < Half
  <2>1. hard.timeout \in [Hards -> Ticks]
    BY <1>1, BaseFields
  <2> QED BY <1>1, <1>2, <2>1 DEF QueueOK
<1>4. /\ Left(rt_tick, hard.timeout[t]) \in Int /\ Left(rt_tick, hard.timeout[t]) <= 0
      /\ Left(rt_tick, hard.timeout[t]) = 0 => hard.timeout[t] = rt_tick
  BY <1>1, <1>3, ExpiredLeft
<1>5. HasTime(t)
  BY <1>2 DEF TimerInv, OnTimeOK
<1> QED BY <1>4, <1>5 DEF HasTime

LEMMA Sorted == TimerInv /\ Roomy => HardSorted
<1> SUFFICES ASSUME TimerInv, Roomy PROVE HardSorted
  OBVIOUS
<1>1. /\ BaseOK(Hards, hard) /\ QueueOK(Hards, hard, rt_tick) /\ rt_tick \in Ticks /\ TypeOK
  BY DEF TimerInv, BasesOK, TypeOK, OnTimeOK
<1>2. hard.timeout \in [Hards -> Ticks] /\ hard.list \in Seq(Hards)
  BY <1>1, BaseFields
<1>3. ASSUME NEW i \in DOMAIN hard.list, NEW j \in DOMAIN hard.list, i < j
      PROVE  ~Later(hard, hard.list[i], hard.timeout[hard.list[j]])
  <2> DEFINE x == hard.list[i]
             y == hard.list[j]
  <2>1. x \in Hards /\ y \in Hards /\ Linked(hard.list, x) /\ Linked(hard.list, y)
    BY <1>2, LenProperties DEF Linked
  <2>2. Left(rt_tick, hard.timeout[x]) <= Left(rt_tick, hard.timeout[y])
    <3>1. LeftOf(Hards, hard, rt_tick)[x] <= LeftOf(Hards, hard, rt_tick)[y]
      BY <1>1, <1>3 DEF QueueOK, Ordered
    <3> QED BY <2>1, <3>1 DEF LeftOf
  <2> HIDE DEF x, y
  <2>3. /\ hard.timeout[x] \in Ticks /\ Left(rt_tick, hard.timeout[x]) < Half
        /\ hard.timeout[y] \in Ticks /\ Left(rt_tick, hard.timeout[y]) < Half
    BY <1>1, <1>2, <2>1 DEF QueueOK
  <2>4. PICK d : d = Diff(hard.timeout[x], hard.timeout[y])
    OBVIOUS
  <2>5. ~(d # 0 /\ d < Half)
    BY <1>1, <2>2, <2>3, <2>4, LaterLeft
  <2>6. ~Later(hard, x, hard.timeout[y])
    BY <2>4, <2>5 DEF Later, Half
  <2> QED BY <2>6 DEF x, y
<1> QED BY <1>1, <1>3 DEF HardSorted

\* rt_timer_check: for any timers and durations the tick handler leaves no
\* hard timer that has timed out, whatever its timeout functions do.
THEOREM TimersOnTime == CarefulTimers => (Spec => []HardOnTime)
<1> SUFFICES ASSUME CarefulTimers PROVE Spec => []HardOnTime
  OBVIOUS
<1>1. TimerInv => HardOnTime
  BY OnTime DEF CarefulTimers
<1> QED BY <1>1, TimerInvariant, PTL

\* rt_timer_start: the hard timers stay in the order of their timeouts across
\* the wrap of a tick counter of any width.
THEOREM TimersSorted == CarefulTimers => (Spec => []HardSorted)
<1> SUFFICES ASSUME CarefulTimers PROVE Spec => []HardSorted
  OBVIOUS
<1>1. TimerInv => HardSorted
  BY Sorted DEF CarefulTimers
<1> QED BY <1>1, TimerInvariant, PTL

\* rt_timer_stop and rt_timer_detach: a timer that was stopped, in its own
\* timeout function too, stays off the lists until it is started.
THEOREM TimersSilent == CarefulTimers => (Spec => []StoppedIsSilent)
<1> SUFFICES ASSUME CarefulTimers PROVE Spec => []StoppedIsSilent
  OBVIOUS
<1>1. TimerInv => StoppedIsSilent
  BY Facts DEF TimerInv, SilentOK, StoppedIsSilent
<1> QED BY <1>1, TimerInvariant, PTL

\* The state rt_timer_control reports agrees with the lists.
THEOREM TimersLinked == CarefulTimers => (Spec => []ActiveLinked)
<1> SUFFICES ASSUME CarefulTimers PROVE Spec => []ActiveLinked
  OBVIOUS
<1>1. TimerInv => ActiveLinked
  BY DEF TimerInv
<1> QED BY <1>1, TimerInvariant, PTL

\* _timer_thread_entry: when soft timers are used only while the timer thread
\* waits or calls them, it never waits for good with a timer to serve.
THEOREM ThreadServes == CarefulTimers => (Spec => []IdleWithoutTimers)
<1> SUFFICES ASSUME CarefulTimers PROVE Spec => []IdleWithoutTimers
  OBVIOUS
<1>1. TimerInv => IdleWithoutTimers
  BY DEF TimerInv
<1> QED BY <1>1, TimerInvariant, PTL

\* _soft_timer_status: no start of a soft timer ends the wait of a timeout
\* function.
THEOREM CallbackWaits == CarefulTimers => (Spec => []BlockedWaits)
<1> SUFFICES ASSUME CarefulTimers PROVE Spec => []BlockedWaits
  OBVIOUS
<1>1. TimerInv => BlockedWaits
  BY DEF TimerInv, ThreadOK, BlockedWaits
<1> QED BY <1>1, TimerInvariant, PTL

-----------------------------------------------------------------------------
\* A step adds a timer to the hard list with rt_timer_start or adds none.
Starts(tb, x) ==
  /\ BaseOK(Hards, tb) /\ QueueOK(Hards, tb, rt_tick) /\ x \in Hards
  /\ \A y : Linked(tb.list, y) <=> Linked(hard.list, y)
  /\ hard' = rt_timer_start(tb, x, rt_tick)

AddsNone == \A y : Linked(hard'.list, y) => Linked(hard.list, y)

LEMMA AddsByStart ==
  ASSUME CarefulTimers, TimerInv, [Next]_vars
  PROVE  AddsNone \/ \E tb, x : Starts(tb, x)
<1>1. BaseOK(Hards, hard) /\ QueueOK(Hards, hard, rt_tick)
  BY DEF TimerInv, BasesOK, OnTimeOK
<1>2. ASSUME NEW t \in Timers, Api(t) PROVE AddsNone \/ Starts(hard, t)
  <2>1. ASSUME hard' = hard PROVE AddsNone
    BY <2>1 DEF AddsNone
  <2>2. ASSUME hard'.list = hard.list PROVE AddsNone
    BY <2>2 DEF AddsNone
  <2>3. CASE t \in SoftTimers
    <3>1. CASE StartTimer(t) /\ ThreadIdle
      <4>1. hard' = rt_timer_stop(hard, thread_timer) /\ thread_timer \in Hards
        BY <2>3, <3>1 DEF StartTimer, Hards
      <4>2. Unlinked(Hards, hard, thread_timer, hard.act \ {thread_timer}, hard')
        BY <1>1, <4>1, StopTimerOK
      <4> QED BY <4>2 DEF Unlinked, AddsNone
    <3>2. CASE ~(StartTimer(t) /\ ThreadIdle)
      <4>1. hard' = hard
        BY <1>2, <2>3, <3>2
           DEF Api, rt_timer_init, SetTime, StartTimer, StopTimer, DetachTimer, SetMode
      <4> QED BY <2>1, <4>1
    <3> QED BY <3>1, <3>2
  <2>4. CASE t \notin SoftTimers
    <3>1. t \in Hards
      BY <2>4, Kinds
    <3>2. ASSUME NEW d \in Times, NEW p \in BOOLEAN, rt_timer_init(t, d, p)
          PROVE  hard'.list = hard.list
      <4>1. hard' = timer_init(hard, t, d) /\ t \notin hard.act /\ d \in Durations
        BY <2>4, <3>2, TimesAssumption DEF rt_timer_init, TimerInv, MadeOK
      <4> QED BY <1>1, <3>1, <4>1, FreshTimerOK
    <3>3. ASSUME NEW d \in Times, SetTime(t, d)
          PROVE  hard'.list = hard.list
      <4>1. hard' = timer_set_time(hard, t, d) /\ d \in Durations
        BY <2>4, <3>3, TimesAssumption DEF SetTime
      <4> QED BY <1>1, <3>1, <4>1, SetTimerOK
    <3>4. CASE StartTimer(t)
      BY <1>1, <2>4, <3>1, <3>4 DEF StartTimer, Starts
    <3>5. CASE StopTimer(t) \/ DetachTimer(t)
      <4>1. hard' = rt_timer_stop(hard, t) \/ hard' = rt_timer_detach(hard, t)
        BY <2>4, <3>5 DEF StopTimer, DetachTimer
      <4>2. Unlinked(Hards, hard, t, hard.act \ {t}, hard')
        BY <1>1, <3>1, <4>1, StopTimerOK, DetachTimerOK
      <4> QED BY <4>2 DEF Unlinked, AddsNone
    <3>6. CASE SetMode(t)
      BY <2>1, <3>6 DEF SetMode
    <3> QED BY <1>2, <2>2, <3>2, <3>3, <3>4, <3>5, <3>6 DEF Api
  <2> QED BY <2>3, <2>4
<1>3. CASE CheckTake
  <2>1. hard.list # <<>> /\ hard' = Taken(hard)
    BY <1>3 DEF CheckTake, HeadExpired
  <2>2. PICK x : x = Head(hard.list)
    OBVIOUS
  <2>3. Unlinked(Hards, hard, x, IF x \in periodic THEN hard.act ELSE hard.act \ {x}, hard')
    BY <1>1, <2>1, <2>2, TakenOK
  <2> QED BY <2>3 DEF Unlinked, AddsNone
<1>4. CASE CheckReturn
  <2>1. hard' = hard \/ (hard' = rt_timer_start(hard, hcall, rt_tick) /\ hcall \in Hards)
    <3>1. chk = "callback" /\ hard' = Restart(hard, hlist, hcall)
      BY <1>4 DEF CheckReturn
    <3>2. hcall \in Hards
      BY <3>1 DEF TimerInv, TypeOK, Hards
    <3> QED BY <3>1, <3>2 DEF Restart
  <2> QED BY <1>1, <2>1 DEF AddsNone, Starts
<1>5. CASE SuspendThread
  <2>1. hard' = hard
    BY <1>5, ReadyThread DEF SuspendThread, rt_timer_stop
  <2> QED BY <2>1 DEF AddsNone
<1>6. CASE SleepThread
  <2> DEFINE tb == timer_set_time(hard, thread_timer, next_timeout)
  <2>1. hard' = rt_timer_start(tb, thread_timer, rt_tick) /\ pc = "sleep"
    BY <1>6 DEF SleepThread, ThreadAt
  <2>2. next_timeout \in Durations /\ thread_timer \in Hards /\ rt_tick \in Ticks
    BY <2>1 DEF TimerInv, ThreadOK, Hards, TypeOK
  <2>3. BaseOK(Hards, tb) /\ QueueOK(Hards, tb, rt_tick) /\ tb.list = hard.list
    BY <1>1, <2>2, SetTimerOK
  <2> HIDE DEF tb
  <2>4. Starts(tb, thread_timer)
    BY <2>1, <2>2, <2>3 DEF Starts
  <2> QED BY <2>4
<1>7. CASE \/ rt_tick_increase \/ CheckDone \/ NextTimeout \/ ReadTick \/ SoftCheckTake
           \/ SoftCheckDone \/ CallbackBlocks \/ CallbackWakes \/ SoftCheckReturn
           \/ UNCHANGED vars
  <2>1. hard' = hard
    BY <1>7 DEF rt_tick_increase, CheckDone, NextTimeout, ReadTick, SoftCheckTake,
       SoftCheckDone, CallbackBlocks, CallbackWakes, SoftCheckReturn, vars
  <2> QED BY <2>1 DEF AddsNone
<1> QED BY <1>2, <1>3, <1>4, <1>5, <1>6, <1>7 DEF Next, TickHandler, TimerThread

LEMMA StaysAhead ==
  ASSUME CarefulTimers, TimerInv, [Next]_vars,
         NEW i \in DOMAIN hard'.list, NEW j \in DOMAIN hard'.list,
         hard'.timeout[hard'.list[i]] = hard'.timeout[hard'.list[j]],
         Linked(hard.list, hard'.list[i]), ~Linked(hard.list, hard'.list[j])
  PROVE  i < j
<1>1. ~AddsNone
  <2>1. Linked(hard'.list, hard'.list[j])
    BY DEF Linked
  <2> QED BY <2>1 DEF AddsNone
<1>2. PICK tb, x : Starts(tb, x)
  BY <1>1, AddsByStart
<1>3. /\ BaseOK(Hards, tb) /\ QueueOK(Hards, tb, rt_tick) /\ x \in Hards
      /\ \A y : Linked(tb.list, y) <=> Linked(hard.list, y)
      /\ hard' = rt_timer_start(tb, x, rt_tick) /\ Roomy /\ rt_tick \in Ticks
  BY <1>2 DEF Starts, CarefulTimers, TimerInv, TypeOK
<1>4. \A y : Linked(hard'.list, y) <=> Linked(tb.list, y) \/ y = x
  <2>1. TimerStarted(Hards, tb, x, rt_tick, hard')
    BY <1>3, StartTimerOK
  <2> QED BY <2>1 DEF TimerStarted
<1>5. hard'.list[j] = x
  <2>1. Linked(hard'.list, hard'.list[j])
    BY DEF Linked
  <2> QED BY <1>3, <1>4, <2>1
<1>6. CASE hard'.list[i] # x
  BY <1>3, <1>5, <1>6, StartBehind
<1>7. CASE hard'.list[i] = x
  BY <1>5, <1>7
<1> QED BY <1>6, <1>7

\* rt_timer_start: timers that time out at the same tick fire in the order in
\* which they were started, whatever the list and the tick counter hold.
THEOREM EarlyTimersFirst == CarefulTimers => (Spec => EarlyFirst)
<1> SUFFICES ASSUME CarefulTimers PROVE Spec => EarlyFirst
  OBVIOUS
<1> DEFINE Ahead ==
  \A i, j \in DOMAIN hard'.list :
    LET old == hard'.list[i]
        new == hard'.list[j]
    IN  /\ hard'.timeout[old] = hard'.timeout[new]
        /\ Linked(hard.list, old) /\ ~Linked(hard.list, new)
        => i < j
<1>1. TimerInv /\ [Next]_vars => Ahead
  BY StaysAhead
<1>2. EarlyFirst <=> [][Ahead]_vars
  BY DEF EarlyFirst
<1> HIDE DEF Ahead
<1>3. Spec => []TimerInv
  BY TimerInvariant
<1> QED BY <1>1, <1>2, <1>3, PTL DEF Spec
=============================================================================

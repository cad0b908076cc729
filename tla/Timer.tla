------------------------------- MODULE Timer -------------------------------
(***************************************************************************)
(* The timers of timer.c in use: the tick handler with rt_timer_check, the *)
(* thread that runs the software timers (_timer_thread_entry and           *)
(* rt_soft_timer_check), and everybody who calls the timer API.            *)
(*                                                                         *)
(* rt_timer_check runs with interrupts disabled, timeout functions         *)
(* included; rt_soft_timer_check enables interrupts for the timeout        *)
(* function, which may block.  While a timeout function runs, its timer is *)
(* linked in the local variable list of the check (hlist, slist).          *)
(***************************************************************************)
EXTENDS TimerList

CONSTANTS
  HardTimers, SoftTimers,
  thread_timer,     \* _timer_thread.thread_timer, a hard timer
  none,             \* no timer
  Times,            \* durations in use, none of them 0
  MaxLag,           \* bound: by how many ticks a soft timer may be overdue
  SoftAnywhere,     \* soft timers are also used by handlers and by threads
                    \* more urgent than the timer thread
  ModeWhileFiring   \* SET_ONESHOT, SET_PERIODIC also while the timer fires

ASSUME TimesAssumption == Times \subseteq Durations \ {0}
ASSUME TimersAssumption ==
  /\ HardTimers \cap SoftTimers = {} /\ thread_timer \notin HardTimers \cup SoftTimers
  /\ none \notin HardTimers \cup SoftTimers \cup {thread_timer}

VARIABLES
  hard, soft,    \* _timer_list and _soft_timer_list (module TimerList)
  made,          \* the timers that have been initialised or created
  periodic,      \* RT_TIMER_FLAG_PERIODIC
  rt_tick,
  chk,           \* the tick handler: "idle", "entered", "loop", "callback"
  hcall, hlist,  \* rt_timer_check: the timer t, and list
  scall, slist,  \* rt_soft_timer_check: likewise
  status,        \* _soft_timer_status
  stat,          \* _timer_thread.stat: READY stands for RUNNING too
  pc,            \* where the timer thread is in its loop
  next_timeout,  \* a local of _timer_thread_entry
  blocked,       \* the soft timeout function waits for something
  stopped        \* history: timers last stopped or detached, not started

check == <<chk, hcall, hlist>>
thread == <<scall, slist, status, pc, next_timeout, blocked>>
vars == <<hard, soft, made, periodic, rt_tick, check, thread, stat, stopped>>

Timers == HardTimers \cup SoftTimers

Init ==
  LET empty(X) == [list |-> <<>>, timeout |-> [t \in X |-> 0],
                   init |-> [t \in X |-> 0], act |-> {}]
  IN  /\ hard = empty(HardTimers \cup {thread_timer}) /\ soft = empty(SoftTimers)
      /\ made = {} /\ periodic = {} /\ rt_tick = 0
      /\ chk = "idle" /\ hcall = none /\ hlist = <<>>
      /\ scall = none /\ slist = <<>> /\ status = "IDLE"
      /\ stat = "READY" /\ pc = "next" /\ next_timeout = 0 /\ blocked = FALSE
      /\ stopped = {}

-----------------------------------------------------------------------------
(* The API. *)

\* A timer function is called by a timeout function, a thread or a handler.
MayCall(t) ==
  /\ chk # "loop" /\ hcall # thread_timer
  /\ t \in SoftTimers /\ ~SoftAnywhere =>
       chk = "idle" /\ (stat = "SUSPEND" \/ pc = "callback")

rt_timer_init(t, d, p) ==
  /\ MayCall(t) /\ t \notin made
  /\ made' = made \cup {t}
  /\ periodic' = IF p THEN periodic \cup {t} ELSE periodic \ {t}
  /\ IF t \in SoftTimers THEN soft' = timer_init(soft, t, d) /\ hard' = hard
                         ELSE hard' = timer_init(hard, t, d) /\ soft' = soft
  /\ UNCHANGED <<rt_tick, check, thread, stat, stopped>>

\* _timer_remove also takes a firing timer off the list of its check.
Unlink(t) == hlist' = rt_list_remove(hlist, t) /\ slist' = rt_list_remove(slist, t)

\* Mutant: rt_timer_start does not look at the timer thread.
NeverIdle == FALSE

\* Mutant: the status is not tested.
SuspendedThread == stat = "SUSPEND"

\* The timer thread waits in its loop, not in a timeout function.
ThreadIdle == status = "IDLE" /\ stat = "SUSPEND"

\* rt_timer_start; starting a soft timer resumes the timer thread, which stops
\* the thread timer.
StartTimer(t) ==
  /\ MayCall(t) /\ t \in made
  /\ Unlink(t)
  /\ IF t \in SoftTimers
       THEN /\ soft' = rt_timer_start(soft, t, rt_tick)
            /\ hard' = IF ThreadIdle THEN rt_timer_stop(hard, thread_timer) ELSE hard
            /\ stat' = IF ThreadIdle THEN "READY" ELSE stat
       ELSE hard' = rt_timer_start(hard, t, rt_tick) /\ UNCHANGED <<soft, stat>>
  /\ stopped' = stopped \ {t}
  /\ UNCHANGED <<made, periodic, rt_tick, chk, hcall, scall, status, pc, next_timeout, blocked>>

StopTimer(t) ==
  /\ MayCall(t) /\ t \in made
  /\ IF t \in hard.act \cup soft.act THEN Unlink(t) ELSE UNCHANGED <<hlist, slist>>
  /\ IF t \in SoftTimers THEN soft' = rt_timer_stop(soft, t) /\ hard' = hard
                         ELSE hard' = rt_timer_stop(hard, t) /\ soft' = soft
  /\ stopped' = stopped \cup {t}
  /\ UNCHANGED <<made, periodic, rt_tick, chk, hcall, scall, status, stat, pc,
                 next_timeout, blocked>>

\* rt_timer_detach and rt_timer_delete.
DetachTimer(t) ==
  /\ MayCall(t) /\ t \in made
  /\ Unlink(t)
  /\ IF t \in SoftTimers THEN soft' = rt_timer_detach(soft, t) /\ hard' = hard
                         ELSE hard' = rt_timer_detach(hard, t) /\ soft' = soft
  /\ made' = made \ {t} /\ stopped' = stopped \cup {t}
  /\ UNCHANGED <<periodic, rt_tick, chk, hcall, scall, status, stat, pc, next_timeout, blocked>>

\* rt_timer_control; the commands that read change nothing.
SetTime(t, d) ==
  /\ MayCall(t) /\ t \in made
  /\ IF t \in SoftTimers THEN soft' = timer_set_time(soft, t, d) /\ hard' = hard
                         ELSE hard' = timer_set_time(hard, t, d) /\ soft' = soft
  /\ UNCHANGED <<made, periodic, rt_tick, check, thread, stat, stopped>>

SetMode(t) ==
  /\ MayCall(t) /\ t \in made
  /\ t \in {hcall, scall} => ModeWhileFiring
  /\ \/ periodic' = periodic \ {t}      \* RT_TIMER_CTRL_SET_ONESHOT
     \/ periodic' = periodic \cup {t}   \* RT_TIMER_CTRL_SET_PERIODIC
  /\ UNCHANGED <<hard, soft, made, rt_tick, check, thread, stat, stopped>>

-----------------------------------------------------------------------------
(* The tick handler. *)

rt_tick_increase ==
  /\ chk = "idle"
  /\ \A i \in DOMAIN soft.list : Diff(rt_tick, soft.timeout[soft.list[i]]) # MaxLag
  /\ rt_tick' = (rt_tick + 1) % TickMod
  /\ chk' = "entered"
  /\ UNCHANGED <<hard, soft, made, periodic, hcall, hlist, thread, stat, stopped>>

\* Mutant: a one-shot timer that fires stays active.
TakenStaysActive(tb) == timer_remove(tb, Head(tb.list))

\* A check takes the first timer off its list; a one-shot timer is not active
\* any more when its timeout function runs.
Taken(tb) ==
  LET t == Head(tb.list)
  IN  [timer_remove(tb, t) EXCEPT !.act = IF t \in periodic THEN @ ELSE @ \ {t}]

CheckTake ==
  /\ chk \in {"entered", "loop"} /\ HeadExpired(hard, rt_tick)
  /\ hcall' = Head(hard.list) /\ hlist' = <<Head(hard.list)>>
  /\ hard' = Taken(hard)
  /\ chk' = "callback"
  /\ UNCHANGED <<soft, made, periodic, rt_tick, thread, stat, stopped>>

\* Mutant: every timer that was periodic when it fired is started again.
RestartAlways(tb, list, t) ==
  IF t \in periodic THEN rt_timer_start(tb, t, rt_tick) ELSE tb

\* After the timeout function: a timer that is still on the list of the check
\* was neither started, stopped nor detached; if periodic it starts again.
Restart(tb, list, t) ==
  IF Linked(list, t) /\ t \in periodic /\ t \in tb.act
    THEN rt_timer_start(tb, t, rt_tick) ELSE tb

\* Mutant: the loop ends when the timer was detached or started by its
\* timeout function.
ReturnBreaks ==
  /\ chk = "callback"
  /\ hard' = Restart(hard, hlist, hcall)
  /\ stat' = IF hcall = thread_timer THEN "READY" ELSE stat
  /\ hcall' = none /\ hlist' = <<>>
  /\ chk' = IF hlist = <<>> THEN "idle" ELSE "loop"
  /\ UNCHANGED <<soft, made, periodic, rt_tick, thread, stopped>>

\* The timeout function of the thread timer is rt_thread_timeout.
CheckReturn ==
  /\ chk = "callback"
  /\ hard' = Restart(hard, hlist, hcall)
  /\ stat' = IF hcall = thread_timer THEN "READY" ELSE stat
  /\ hcall' = none /\ hlist' = <<>>
  /\ chk' = "loop"
  /\ UNCHANGED <<soft, made, periodic, rt_tick, thread, stopped>>

CheckDone ==
  /\ chk \in {"entered", "loop"} /\ ~HeadExpired(hard, rt_tick)
  /\ chk' = "idle"
  /\ UNCHANGED <<hard, soft, made, periodic, rt_tick, hcall, hlist, thread, stat, stopped>>

-----------------------------------------------------------------------------
(* The timer thread. *)

ThreadAt(l) == chk = "idle" /\ stat = "READY" /\ pc = l

NextTimeout ==
  /\ ThreadAt("next")
  /\ IF soft.list = <<>>
       THEN pc' = "empty" /\ UNCHANGED next_timeout
       ELSE pc' = "delay" /\ next_timeout' = soft.timeout[Head(soft.list)]
  /\ UNCHANGED <<hard, soft, made, periodic, rt_tick, check, scall, slist, status,
                 stat, blocked, stopped>>

\* rt_thread_suspend and rt_schedule.
SuspendThread ==
  /\ ThreadAt("empty")
  /\ stat' = "SUSPEND" /\ hard' = rt_timer_stop(hard, thread_timer)
  /\ pc' = "check"
  /\ UNCHANGED <<soft, made, periodic, rt_tick, check, scall, slist, status,
                 next_timeout, blocked, stopped>>

\* current_tick is read and, if the timeout is ahead, the delay computed.
ReadTick ==
  LET d == Diff(next_timeout, rt_tick)
  IN  /\ ThreadAt("delay")
      /\ IF d < RT_TICK_MAX \div 2
           THEN next_timeout' = d /\ pc' = "sleep"
           ELSE pc' = "check" /\ UNCHANGED next_timeout
      /\ UNCHANGED <<hard, soft, made, periodic, rt_tick, check, scall, slist, status,
                     stat, blocked, stopped>>

\* rt_thread_delay.
SleepThread ==
  /\ ThreadAt("sleep")
  /\ stat' = "SUSPEND"
  /\ hard' = rt_timer_start(timer_set_time(hard, thread_timer, next_timeout),
                            thread_timer, rt_tick)
  /\ pc' = "check"
  /\ UNCHANGED <<soft, made, periodic, rt_tick, check, scall, slist, status,
                 next_timeout, blocked, stopped>>

SoftCheckTake ==
  /\ ThreadAt("check") /\ HeadExpired(soft, rt_tick)
  /\ scall' = Head(soft.list) /\ slist' = <<Head(soft.list)>>
  /\ soft' = Taken(soft)
  /\ status' = "BUSY" /\ pc' = "callback"
  /\ UNCHANGED <<hard, made, periodic, rt_tick, check, stat, next_timeout, blocked, stopped>>

SoftCheckDone ==
  /\ ThreadAt("check") /\ ~HeadExpired(soft, rt_tick)
  /\ pc' = "next"
  /\ UNCHANGED <<hard, soft, made, periodic, rt_tick, check, scall, slist, status,
                 stat, next_timeout, blocked, stopped>>

\* A soft timeout function may wait, for instance for a semaphore.
CallbackBlocks ==
  /\ ThreadAt("callback")
  /\ stat' = "SUSPEND" /\ blocked' = TRUE
  /\ UNCHANGED <<hard, soft, made, periodic, rt_tick, check, scall, slist, status, pc,
                 next_timeout, stopped>>

CallbackWakes ==
  /\ blocked /\ chk = "idle"
  /\ stat' = "READY" /\ blocked' = FALSE
  /\ UNCHANGED <<hard, soft, made, periodic, rt_tick, check, scall, slist, status, pc,
                 next_timeout, stopped>>

SoftCheckReturn ==
  /\ ThreadAt("callback")
  /\ soft' = Restart(soft, slist, scall)
  /\ scall' = none /\ slist' = <<>>
  /\ status' = "IDLE" /\ pc' = "check"
  /\ UNCHANGED <<hard, made, periodic, rt_tick, check, stat, next_timeout, blocked, stopped>>

-----------------------------------------------------------------------------

Api(t) ==
  \/ \E d \in Times : (\E p \in BOOLEAN : rt_timer_init(t, d, p)) \/ SetTime(t, d)
  \/ StartTimer(t) \/ StopTimer(t) \/ DetachTimer(t) \/ SetMode(t)

TickHandler == rt_tick_increase \/ CheckTake \/ CheckReturn \/ CheckDone

TimerThread ==
  \/ NextTimeout \/ SuspendThread \/ ReadTick \/ SleepThread
  \/ SoftCheckTake \/ SoftCheckDone \/ CallbackBlocks \/ SoftCheckReturn

Next == (\E t \in Timers : Api(t)) \/ TickHandler \/ TimerThread \/ CallbackWakes

Spec == Init /\ [][Next]_vars

-----------------------------------------------------------------------------

TypeOK ==
  /\ hard \in Bases(HardTimers \cup {thread_timer}) /\ soft \in Bases(SoftTimers)
  /\ made \subseteq Timers /\ periodic \subseteq Timers /\ stopped \subseteq Timers
  /\ rt_tick \in Ticks /\ next_timeout \in Ticks
  /\ chk \in {"idle", "entered", "loop", "callback"}
  /\ hcall \in HardTimers \cup {thread_timer, none} /\ scall \in SoftTimers \cup {none}
  /\ hlist \in {<<>>, <<hcall>>} /\ slist \in {<<>>, <<scall>>}
  /\ (hcall # none <=> chk = "callback") /\ (scall # none <=> pc = "callback")
  /\ status \in {"IDLE", "BUSY"} /\ stat \in {"READY", "SUSPEND"} /\ blocked \in BOOLEAN
  /\ pc \in {"next", "empty", "delay", "sleep", "check", "callback"}

\* Outside the tick handler no hard timer has timed out, whatever the timeout
\* functions started, stopped or detached; a delay of 0 ends with the next tick.
HardOnTime ==
  chk = "idle" => \A t \in hard.act :
    Expired(rt_tick, hard.timeout[t]) =>
      t = thread_timer /\ hard.init[t] = 0 /\ hard.timeout[t] = rt_tick

\* In every well formed state the hard timers are in the order of their timeouts,
\* across the wrap of the tick counter ("re-implement tick overflow issue").
HardSorted ==
  /\ TypeOK
  /\ \A i, j \in DOMAIN hard.list :
       i < j => ~Later(hard, hard.list[i], hard.timeout[hard.list[j]])

\* "If we have two timers that timeout at the same time, it's preferred that
\* the timer inserted early get called early": a timer already there keeps its
\* place ahead of one that is started now.
EarlyFirst ==
  [][\A i, j \in DOMAIN hard'.list :
       LET old == hard'.list[i]
           new == hard'.list[j]
       IN  /\ hard'.timeout[old] = hard'.timeout[new]
           /\ Linked(hard.list, old) /\ ~Linked(hard.list, new)
           => i < j]_vars

\* A timer that was stopped or detached, and not started since, is on neither
\* list and stays so, even if that happened while its timeout function ran.
StoppedIsSilent ==
  \A t \in stopped : t \notin hard.act \cup soft.act
                     /\ ~Linked(hard.list, t) /\ ~Linked(soft.list, t)

\* The state RT_TIMER_CTRL_GET_STATE reports as started and running is that of
\* the timers that are going to time out, and of periodic ones that just do.
ActiveLinked ==
  /\ \A t \in hard.act : Linked(hard.list, t) \/ Linked(hlist, t)
  /\ \A t \in soft.act : Linked(soft.list, t) \/ Linked(slist, t)

\* "There is no software timer: suspend the thread" (_timer_thread_entry): when
\* the thread waits without a timeout of its own, the soft list is empty.
IdleWithoutTimers ==
  stat = "SUSPEND" /\ pc = "check" /\ thread_timer \notin hard.act \cup {hcall}
    => soft.list = <<>>

\* Starting a soft timer never resumes the thread out of the wait of a timeout
\* function (_soft_timer_status).
BlockedWaits == blocked => stat = "SUSPEND" /\ thread_timer \notin hard.act
=============================================================================

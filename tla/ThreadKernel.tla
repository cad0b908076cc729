---------------------------- MODULE ThreadKernel ----------------------------
(***************************************************************************)
(* The running single-core kernel: threads calling the API of thread.c,    *)
(* the tick interrupt (clock.c, timer.c), a device interrupt that resumes  *)
(* a thread and calls rt_schedule, and the idle thread's reaper (idle.c).  *)
(*                                                                         *)
(* A thread step is the code between two points at which interrupts are    *)
(* enabled; pc[t] is the point thread t has reached and arg[t] the thread  *)
(* its call is about.  isr is the stack of active interrupt handlers       *)
(* (rt_interrupt_nest is its length).  A thread moves only when no handler *)
(* is active and it is rt_current_thread: a switch requested inside a      *)
(* handler (rt_hw_context_switch_interrupt) takes effect when the          *)
(* outermost handler returns.                                              *)
(***************************************************************************)
EXTENDS Scheduler, TimerList

CONSTANTS
  idle,            \* &idle_thread[0]
  main,            \* the thread rt_application_init creates
  StaticThreads,   \* threads set up with rt_thread_init (no defunct list)
  InitPrio,        \* thread->init_priority
  InitTick,        \* thread->init_tick
  SleepTicks,      \* durations passed to rt_thread_sleep
  MaxNest,         \* bound on rt_scheduler_lock_nest
  Calls,           \* the API calls the application makes
  MaskedCalls      \* calls it makes with interrupts already disabled

ASSUME ThreadsAssumption ==
  /\ idle \in Threads /\ main \in Threads \ {idle}
  /\ StaticThreads \subseteq Threads
ASSUME PrioAssumption ==
  /\ InitPrio \in [Threads -> Prios]
  /\ InitPrio[idle] = PrioMax - 1 /\ InitPrio[main] < PrioMax - 1
ASSUME SliceAssumption == InitTick \in [Threads -> Nat \ {0}]
ASSUME SleepAssumption == SleepTicks \subseteq Durations
ASSUME MaxNestAssumption == MaxNest \in Nat

VARIABLES
  kern,      \* the scheduler record (module Scheduler)
  timers,    \* the thread timers and _timer_list (module TimerList)
  rt_tick,
  pc, arg,   \* where each thread is in its call, and what the call is about
  isr,       \* active handlers, innermost first: [irq, at, arg]
  cleaned    \* how often the cleanup callback of each thread has run

vars == <<kern, timers, rt_tick, pc, arg, isr, cleaned>>

Labels == {"run", "schedule", "suspend", "resume", "remove", "detach_timer",
           "close", "reap", "free", "dead"}
Frames == [irq : {"tick", "dev"}, at : {"schedule", "check", "firing", "resume", "leave"},
           arg : Threads]

App == Threads \ {idle}
Alive(t) == kern.stat[t] \notin {"NONE", "CLOSE"}
Started(t) == kern.stat[t] \in {"READY", "RUNNING", "SUSPEND"}

\* Which call a mid-call label belongs to: interrupts are off there exactly
\* when the application makes that call with interrupts disabled.
CallAt == [suspend |-> "suspend", resume |-> "resume",
           remove |-> "delete", detach_timer |-> "delete", close |-> "delete"]
MaskedAt == {l \in DOMAIN CallAt : CallAt[l] \in MaskedCalls}

\* rt_system_scheduler_start has switched to main; idle is ready.
Init ==
  /\ kern = [stat |-> [t \in Threads |-> CASE t = main -> "RUNNING"
                                           [] t = idle -> "READY"
                                           [] OTHER -> "NONE"],
             yield |-> {},
             current_priority |-> InitPrio,
             number_mask |-> [t \in Threads |-> IF t \in {main, idle} THEN {InitPrio[t]} ELSE {}],
             remaining_tick |-> InitTick,
             priority_table |-> [p \in Prios |-> IF p = InitPrio[idle] THEN <<idle>> ELSE <<>>],
             ready_group |-> {InitPrio[idle]},
             current |-> main, lock_nest |-> 0, defunct |-> <<>>]
  /\ timers = [list |-> <<>>, timeout |-> [t \in Threads |-> 0],
               init |-> [t \in Threads |-> 0], act |-> {}]
  /\ rt_tick = 0
  /\ pc = [t \in Threads |-> "run"] /\ arg = [t \in Threads |-> t]
  /\ isr = <<>>
  /\ cleaned = [t \in Threads |-> 0]

-----------------------------------------------------------------------------
(* Threads. *)

At(t, l) == isr = <<>> /\ kern.current = t /\ pc[t] = l

Calling(t, call) == call \in Calls /\ t \in App /\ At(t, "run")

\* On to the next point of the call; arg is forgotten when the last use is past.
Goto(t, l) ==
  /\ pc' = [pc EXCEPT ![t] = l]
  /\ arg' = IF l \in {"run", "schedule", "dead"} THEN [arg EXCEPT ![t] = t] ELSE arg
CallOn(t, l, u) == pc' = [pc EXCEPT ![t] = l] /\ arg' = [arg EXCEPT ![t] = u]

\* The rt_schedule at the end of a call, entered with interrupts enabled.
ThreadSchedule(t) ==
  /\ At(t, "schedule")
  /\ kern' = rt_schedule(kern)
  /\ Goto(t, "run")
  /\ UNCHANGED <<timers, rt_tick, isr, cleaned>>

\* rt_thread_create, or rt_thread_init of a static thread that has ended:
\* until it returns nobody else knows the thread.
rt_thread_create(t, u) ==
  /\ Calling(t, "create")
  /\ u \in App
  /\ kern.stat[u] \in (IF u \in StaticThreads THEN {"NONE", "CLOSE"} ELSE {"NONE"})
  /\ kern' = [kern EXCEPT !.stat[u] = "INIT", !.yield = @ \ {u},
                          !.current_priority[u] = InitPrio[u],
                          !.number_mask[u] = {},
                          !.remaining_tick[u] = InitTick[u]]
  /\ timers' = timer_init(timers, u, 0)
  /\ cleaned' = [cleaned EXCEPT ![u] = 0]
  /\ pc' = [pc EXCEPT ![u] = "run"] /\ arg' = [arg EXCEPT ![u] = u]
  /\ UNCHANGED <<rt_tick, isr>>

\* The masked part of rt_thread_resume.
Resumed(k, u) == rt_schedule_insert_thread(unlink_tlist(k, u), u)

\* rt_thread_startup before it calls rt_thread_resume.
StartedUp(k, u) ==
  [k EXCEPT !.current_priority[u] = InitPrio[u], !.number_mask[u] = {InitPrio[u]},
            !.stat[u] = "SUSPEND", !.yield = @ \ {u}]

\* rt_thread_startup up to its rt_schedule.  The thread is still private to
\* the caller, so the unmasked writes before rt_thread_resume join its step.
rt_thread_startup(t, u) ==
  /\ Calling(t, "create")
  /\ kern.stat[u] = "INIT"
  /\ kern' = Resumed(StartedUp(kern, u), u)
  /\ timers' = rt_timer_stop(timers, u)
  /\ Goto(t, "schedule")
  /\ UNCHANGED <<rt_tick, isr, cleaned>>

\* Mutant: rt_thread_resume accepts every thread that is not READY.
ResumeUnchecked(t, u) ==
  /\ Calling(t, "resume")
  /\ kern.stat[u] # "READY" /\ u # t
  /\ CallOn(t, "resume", u)
  /\ UNCHANGED <<kern, timers, rt_tick, isr, cleaned>>

\* rt_thread_resume reads thread->stat before it disables interrupts; the
\* caller runs rt_schedule when it returns.  The error return changes nothing.
ResumeCheck(t, u) ==
  /\ Calling(t, "resume")
  /\ kern.stat[u] = "SUSPEND" /\ u # t
  /\ CallOn(t, "resume", u)
  /\ UNCHANGED <<kern, timers, rt_tick, isr, cleaned>>

rt_thread_resume(t) ==
  /\ At(t, "resume")
  /\ kern' = Resumed(kern, arg[t])
  /\ timers' = rt_timer_stop(timers, arg[t])
  /\ Goto(t, "schedule")
  /\ UNCHANGED <<rt_tick, isr, cleaned>>

\* rt_thread_suspend of another thread or of the caller, likewise.
SuspendCheck(t, u) ==
  /\ Calling(t, "suspend")
  /\ u \in App /\ kern.stat[u] \in {"READY", "RUNNING"}
  /\ CallOn(t, "suspend", u)
  /\ UNCHANGED <<kern, timers, rt_tick, isr, cleaned>>

Suspended(k, u) == [rt_schedule_remove_thread(k, u) EXCEPT !.stat[u] = "SUSPEND"]

rt_thread_suspend(t) ==
  /\ At(t, "suspend")
  /\ kern' = Suspended(kern, arg[t])
  /\ timers' = rt_timer_stop(timers, arg[t])
  /\ Goto(t, "schedule")
  /\ UNCHANGED <<rt_tick, isr, cleaned>>

\* Mutant: the timer is started before the thread is suspended, which stops it.
SleepStartsFirst(t, d) ==
  /\ Calling(t, "sleep")
  /\ kern' = Suspended(kern, t)
  /\ timers' = rt_timer_stop(rt_timer_start(timer_set_time(timers, t, d), t, rt_tick), t)
  /\ Goto(t, "schedule")
  /\ UNCHANGED <<rt_tick, isr, cleaned>>

\* rt_thread_sleep up to its rt_schedule.  rt_thread_suspend fails, and its
\* result is ignored, if the caller is already suspended (scheduler locked).
rt_thread_sleep(t, d) ==
  /\ Calling(t, "sleep")
  /\ LET runs == kern.stat[t] \in {"READY", "RUNNING"}
         stopped == IF runs THEN rt_timer_stop(timers, t) ELSE timers
     IN  /\ kern' = IF runs THEN Suspended(kern, t) ELSE kern
         /\ timers' = rt_timer_start(timer_set_time(stopped, t, d), t, rt_tick)
  /\ Goto(t, "schedule")
  /\ UNCHANGED <<rt_tick, isr, cleaned>>

rt_thread_yield(t) ==
  /\ Calling(t, "yield")
  /\ kern' = rt_schedule([kern EXCEPT !.remaining_tick[t] = InitTick[t],
                                      !.yield = @ \cup {t}])
  /\ UNCHANGED <<timers, rt_tick, pc, arg, isr, cleaned>>

EnterCritical(t) ==
  /\ Calling(t, "critical")
  /\ kern.lock_nest < MaxNest
  /\ kern' = rt_enter_critical(kern)
  /\ UNCHANGED <<timers, rt_tick, pc, arg, isr, cleaned>>

\* Mutant: unlocking does not schedule.
ExitWithoutSchedule(t) ==
  /\ Calling(t, "critical")
  /\ kern' = leave_critical(kern)
  /\ UNCHANGED <<timers, rt_tick, pc, arg, isr, cleaned>>

\* rt_exit_critical: at level 0 the scheduler runs, with interrupts enabled.
ExitCritical(t) ==
  /\ Calling(t, "critical")
  /\ kern' = leave_critical(kern)
  /\ Goto(t, IF kern.lock_nest <= 1 THEN "schedule" ELSE "run")
  /\ UNCHANGED <<timers, rt_tick, isr, cleaned>>

\* rt_thread_control(RT_THREAD_CTRL_CHANGE_PRIORITY): it does not reschedule.
Reprioritised(k, u, p) ==
  [k EXCEPT !.current_priority[u] = p, !.number_mask[u] = {p}]

\* Mutant: a READY thread is not moved to the queue of its new priority.
ControlWithoutRequeue(t, u, p) ==
  /\ Calling(t, "control")
  /\ u \in App /\ Alive(u)
  /\ kern' = Reprioritised(kern, u, p)
  /\ UNCHANGED <<timers, rt_tick, pc, arg, isr, cleaned>>

rt_thread_control_priority(t, u, p) ==
  /\ Calling(t, "control")
  /\ u \in App /\ Alive(u)
  /\ kern' = IF kern.stat[u] = "READY"
               THEN rt_schedule_insert_thread(
                      Reprioritised(rt_schedule_remove_thread(kern, u), u, p), u)
               ELSE Reprioritised(kern, u, p)
  /\ UNCHANGED <<timers, rt_tick, pc, arg, isr, cleaned>>

\* The last writes of an exit or a deletion: a dynamic thread is left to the
\* idle thread to free.
Closed(k, u) ==
  LET closed == [k EXCEPT !.stat[u] = "CLOSE", !.yield = @ \ {u}]
  IN  IF u \in StaticThreads THEN closed ELSE rt_thread_defunct_enqueue(closed, u)

\* _rt_thread_exit, with interrupts off throughout.  A thread returns from
\* its entry function only with the scheduler unlocked.
_rt_thread_exit(t) ==
  /\ Calling(t, "exit")
  /\ kern.lock_nest = 0
  /\ kern' = rt_schedule(Closed(rt_schedule_remove_thread(kern, t), t))
  /\ timers' = rt_timer_detach(timers, t)
  /\ cleaned' = [cleaned EXCEPT ![t] = @ + 1]
  /\ Goto(t, "dead")
  /\ UNCHANGED <<rt_tick, isr>>

\* rt_thread_delete and rt_thread_detach differ in their last step only.
\* Each of the four steps disables interrupts for itself alone.
DeleteCheck(t, u) ==
  /\ Calling(t, "delete")
  /\ u \in App /\ Alive(u)
  /\ u = t => kern.lock_nest = 0
  /\ CallOn(t, IF kern.stat[u] = "INIT" THEN "detach_timer" ELSE "remove", u)
  /\ UNCHANGED <<kern, timers, rt_tick, isr, cleaned>>

DeleteRemove(t) ==
  /\ At(t, "remove")
  /\ kern' = rt_schedule_remove_thread(kern, arg[t])
  /\ Goto(t, "detach_timer")
  /\ UNCHANGED <<timers, rt_tick, isr, cleaned>>

\* _rt_thread_cleanup_execute, which touches the thread's own resources only,
\* and rt_timer_detach.
DeleteDetachTimer(t) ==
  /\ At(t, "detach_timer")
  /\ timers' = rt_timer_detach(timers, arg[t])
  /\ cleaned' = [cleaned EXCEPT ![arg[t]] = @ + 1]
  /\ Goto(t, "close")
  /\ UNCHANGED <<kern, rt_tick, isr>>

\* Mutant: rt_thread_delete marks the thread closed and never enqueues it.
CloseWithoutEnqueue(t) ==
  /\ At(t, "close")
  /\ kern' = [kern EXCEPT !.stat[arg[t]] = "CLOSE", !.yield = @ \ {arg[t]}]
  /\ Goto(t, "schedule")
  /\ UNCHANGED <<timers, rt_tick, isr, cleaned>>

\* RT_THREAD_CTRL_CLOSE calls rt_schedule after the deletion, which a thread
\* that deletes itself needs.
DeleteClose(t) ==
  /\ At(t, "close")
  /\ kern' = Closed(kern, arg[t])
  /\ Goto(t, "schedule")
  /\ UNCHANGED <<timers, rt_tick, isr, cleaned>>

\* The idle thread.  rt_thread_defunct_dequeue picks the head with interrupts
\* enabled and then removes it; rt_defunct_execute cleans up and frees it.
DefunctPick ==
  /\ At(idle, "run")
  /\ kern.defunct # <<>>
  /\ CallOn(idle, "reap", Head(kern.defunct))
  /\ UNCHANGED <<kern, timers, rt_tick, isr, cleaned>>

rt_thread_defunct_dequeue ==
  /\ At(idle, "reap")
  /\ kern' = unlink_tlist(kern, arg[idle])
  /\ Goto(idle, "free")
  /\ UNCHANGED <<timers, rt_tick, isr, cleaned>>

rt_defunct_execute ==
  /\ At(idle, "free")
  /\ cleaned' = [cleaned EXCEPT ![arg[idle]] = @ + 1]
  /\ kern' = [kern EXCEPT !.stat[arg[idle]] = "NONE"]
  /\ Goto(idle, "run")
  /\ UNCHANGED <<timers, rt_tick, isr>>

-----------------------------------------------------------------------------
(* Interrupts. *)

Push(irq, at, u) == isr' = <<[irq |-> irq, at |-> at, arg |-> u]>> \o isr
FrameAt(ats) == isr # <<>> /\ isr[1].at \in ats
FrameGoto(at) == isr' = [isr EXCEPT ![1].at = at, ![1].arg = idle]

\* An interrupt is taken: interrupts are enabled where the interrupted code
\* stands, and a handler does not interrupt itself.
Accepts(irq) ==
  /\ \A i \in DOMAIN isr : isr[i].irq # irq
  /\ IF isr = <<>> THEN pc[kern.current] \notin MaskedAt ELSE isr[1].at # "firing"

\* rt_interrupt_enter and the masked first part of rt_tick_increase.
rt_tick_increase ==
  LET t == kern.current
      expired == kern.remaining_tick[t] = 1
  IN  /\ Accepts("tick")
      /\ rt_tick' = (rt_tick + 1) % TickMod
      /\ kern' = IF expired
                   THEN [kern EXCEPT !.remaining_tick[t] = InitTick[t],
                                     !.yield = @ \cup {t}]
                   ELSE [kern EXCEPT !.remaining_tick[t] = @ - 1]
      /\ Push("tick", IF expired THEN "schedule" ELSE "check", idle)
      /\ UNCHANGED <<timers, pc, arg, cleaned>>

\* rt_schedule called in a handler.
IsrSchedule ==
  /\ FrameAt({"schedule"})
  /\ kern' = rt_schedule(kern)
  /\ FrameGoto(IF isr[1].irq = "tick" THEN "check" ELSE "leave")
  /\ UNCHANGED <<timers, rt_tick, pc, arg, cleaned>>

\* One iteration of the loop of rt_timer_check: the head timer leaves the
\* list and its callback rt_thread_timeout readies the thread and reschedules.
\* Interrupts stay disabled from the first iteration to the end of the loop.
rt_timer_check ==
  LET t == Head(timers.list)
  IN  /\ FrameAt({"check", "firing"}) /\ HeadExpired(timers, rt_tick)
      /\ timers' = rt_timer_detach(timers, t)
      /\ kern' = rt_schedule(Resumed(kern, t))
      /\ FrameGoto("firing")
      /\ UNCHANGED <<rt_tick, pc, arg, cleaned>>

TimerCheckDone ==
  /\ FrameAt({"check", "firing"}) /\ ~HeadExpired(timers, rt_tick)
  /\ FrameGoto("leave")
  /\ UNCHANGED <<kern, timers, rt_tick, pc, arg, cleaned>>

\* A device handler that wakes a thread: rt_thread_resume, then rt_schedule.
DevIrq(u) ==
  /\ "irq" \in Calls
  /\ Accepts("dev") /\ kern.stat[u] = "SUSPEND"
  /\ Push("dev", "resume", u)
  /\ UNCHANGED <<kern, timers, rt_tick, pc, arg, cleaned>>

DevResume ==
  /\ FrameAt({"resume"})
  /\ kern' = Resumed(kern, isr[1].arg)
  /\ timers' = rt_timer_stop(timers, isr[1].arg)
  /\ FrameGoto("schedule")
  /\ UNCHANGED <<rt_tick, pc, arg, cleaned>>

rt_interrupt_leave ==
  /\ FrameAt({"leave"})
  /\ isr' = Tail(isr)
  /\ UNCHANGED <<kern, timers, rt_tick, pc, arg, cleaned>>

-----------------------------------------------------------------------------

ApiStep(t) ==
  \/ \E u \in Threads : \/ rt_thread_create(t, u) \/ rt_thread_startup(t, u)
                        \/ ResumeCheck(t, u) \/ SuspendCheck(t, u)
                        \/ DeleteCheck(t, u)
                        \/ \E p \in Prios : rt_thread_control_priority(t, u, p)
  \/ \E d \in SleepTicks : rt_thread_sleep(t, d)
  \/ rt_thread_yield(t) \/ EnterCritical(t) \/ ExitCritical(t) \/ _rt_thread_exit(t)

\* The rest of a call that has begun.
CallStep(t) ==
  \/ ThreadSchedule(t) \/ rt_thread_resume(t) \/ rt_thread_suspend(t)
  \/ DeleteRemove(t) \/ DeleteDetachTimer(t) \/ DeleteClose(t)

IdleStep == DefunctPick \/ rt_thread_defunct_dequeue \/ rt_defunct_execute

IsrStep == IsrSchedule \/ rt_timer_check \/ TimerCheckDone \/ DevResume \/ rt_interrupt_leave

Next ==
  \/ \E t \in Threads : ApiStep(t) \/ CallStep(t)
  \/ IdleStep
  \/ IsrStep
  \/ rt_tick_increase
  \/ \E u \in Threads : DevIrq(u)

Spec == Init /\ [][Next]_vars

\* The tick interrupt stays pending while interrupts are disabled, so it is
\* taken if it can be taken again and again; a handler that has begun goes on;
\* interrupts leave the processor some time for the code they interrupt, so a
\* call that has begun goes on whenever its thread is current again and again.
\* Nothing obliges a thread to make a call.
Fairness ==
  /\ SF_vars(rt_tick_increase)
  /\ WF_vars(IsrStep)
  /\ \A t \in Threads : SF_vars(CallStep(t))

FairSpec == Spec /\ Fairness

-----------------------------------------------------------------------------
(* What the kernel promises. *)

TypeOK ==
  /\ kern \in Kernels /\ kern.lock_nest <= MaxNest
  /\ \A t \in Threads : kern.remaining_tick[t] \in 1 .. InitTick[t]
  /\ timers \in Bases(Threads) /\ rt_tick \in Ticks
  /\ pc \in [Threads -> Labels] /\ arg \in [Threads -> Threads]
  /\ isr \in Seq(Frames)
  /\ cleaned \in [Threads -> Nat]

\* A deleter has unlinked t and not yet marked it closed.
BeingRemoved(t) == \E x \in Threads : pc[x] \in {"detach_timer", "close"} /\ arg[x] = t

\* The ready queues and thread->stat agree: a queued thread is READY and in
\* the queue of its current priority, once; a READY thread is queued unless
\* it is being deleted (rt_schedule_insert_thread, rt_schedule_remove_thread).
ReadyTableExact ==
  /\ \A p \in Prios : Distinct(kern.priority_table[p])
  /\ \A t \in Threads, p \in Prios :
       Linked(kern.priority_table[p], t) =>
         kern.stat[t] = "READY" /\ kern.current_priority[t] = p
  /\ \A t \in Threads :
       kern.stat[t] = "READY" /\ ~BeingRemoved(t) =>
         Linked(kern.priority_table[kern.current_priority[t]], t)

\* The bitmap the scheduler searches has a bit set exactly for the priorities
\* whose queue is not empty, whatever priority changes and unlinks happen.
PriorityGroupExact ==
  kern.ready_group = {p \in Prios : kern.priority_table[p] # <<>>}

\* A thread that is RUNNING is the current one, and the idle thread is always
\* there to be scheduled.
OneRunning ==
  /\ \A t \in Threads : kern.stat[t] = "RUNNING" => t = kern.current
  /\ kern.stat[idle] \in {"READY", "RUNNING"}

\* Every closed dynamic thread waits, once, for the idle thread to free it or
\* is the one being freed: no zombie is lost and none is still scheduled.
DefunctExact ==
  /\ Distinct(kern.defunct)
  /\ \A t \in Threads :
       (Linked(kern.defunct, t) \/ (pc[idle] = "free" /\ arg[idle] = t))
         <=> (kern.stat[t] = "CLOSE" /\ t \notin StaticThreads)

\* Active timers are exactly the linked ones and each belongs to a suspended
\* thread, so the RT_ASSERT of rt_thread_timeout never fails.
TimeoutFindsSuspended ==
  /\ Distinct(timers.list)
  /\ \A t \in Threads : Linked(timers.list, t) <=> t \in timers.act
  /\ \A t \in timers.act : kern.stat[t] = "SUSPEND"

\* When the tick handler returns, no timer that has timed out is left behind.
NoMissedTimeout ==
  FrameAt({"leave"}) /\ isr[1].irq = "tick" =>
    \A t \in timers.act : ~Expired(rt_tick, timers.timeout[t])

\* No thread that is ready is more urgent than the one that runs.
Urgent(k) ==
  /\ k.stat[k.current] = "RUNNING"
  /\ \A p \in k.ready_group : k.current_priority[k.current] <= p

\* Outside handlers, a thread that is not inside a call and has not locked
\* the scheduler is RUNNING, and no more urgent thread is ready: every wake-up
\* was followed by a schedule, by the waker or by the unlock.
MostUrgentRuns ==
  isr = <<>> /\ pc[kern.current] = "run" /\ kern.lock_nest = 0 => Urgent(kern)

\* A switch happens only with the scheduler unlocked, goes to a thread that
\* was READY and is at least as urgent as every thread left ready.
SwitchStep ==
  kern'.current # kern.current =>
    /\ kern.lock_nest = 0 /\ kern'.stat[kern'.current] = "RUNNING"
    /\ \A p \in kern'.ready_group : kern.current_priority[kern'.current] <= p

SwitchesToMostUrgent == [][SwitchStep]_vars

\* The threads as the scheduler's users see them.
CpuOf(k) ==
  [urgency |-> k.current_priority, waiting |-> k.priority_table, running |-> k.current,
   mode |-> IF k.stat[k.current] = "RUNNING" THEN "runs" ELSE "blocked", over |-> k.yield]

Cpu == INSTANCE Dispatcher WITH cpu <- CpuOf(kern)

\* Whatever the calls and the interrupts do to a thread, the ready ones of a
\* priority are served in the order of their queue, and every switch is to the
\* thread whose turn it is (rt_schedule, rt_schedule_insert_thread).
IsDispatcher == Cpu!CpuSpec

\* The life of a thread, as thread.c documents it: the only way out of CLOSE
\* is through the idle thread, or rt_thread_init for a static thread.
LifeSteps ==
  {<<"NONE", "INIT">>, <<"INIT", "READY">>, <<"INIT", "CLOSE">>,
   <<"READY", "RUNNING">>, <<"RUNNING", "READY">>, <<"SUSPEND", "READY">>,
   <<"READY", "SUSPEND">>, <<"RUNNING", "SUSPEND">>, <<"SUSPEND", "RUNNING">>,
   <<"READY", "CLOSE">>, <<"RUNNING", "CLOSE">>, <<"SUSPEND", "CLOSE">>}

LifeStep(t) ==
  LET step == <<kern.stat[t], kern'.stat[t]>>
  IN  \/ step[1] = step[2] \/ step \in LifeSteps
      \/ t \in StaticThreads /\ step = <<"CLOSE", "INIT">>
      \/ t \notin StaticThreads /\ step = <<"CLOSE", "NONE">>

LifeCycle == [][\A t \in Threads : LifeStep(t)]_vars

\* A sleeping thread is woken: its timer is started after rt_thread_suspend
\* has stopped the old one, and every tick checks the list.
SleepEnds ==
  \A t \in Threads : kern.stat[t] = "SUSPEND" ~> kern.stat[t] # "SUSPEND"

\* Threads of the highest priority share the processor: a ready one runs, even
\* if the one running never yields (rt_tick_increase sets the YIELD flag).
ReadyRuns ==
  \A t \in App :
    (/\ kern.stat[t] = "READY"
     /\ \A u \in App : kern.current_priority[t] <= kern.current_priority[u])
      ~> kern.current = t

\* A closed thread "will be removed from thread queue" (rt_thread_detach).
ClosedUnscheduled ==
  \A t \in Threads, p \in Prios :
    Linked(kern.priority_table[p], t) => kern.stat[t] # "CLOSE"

\* The cleanup callback runs once in the life of a thread: idle.c records that
\* the "duplicate work between idle and _thread_exit" was removed.
CleanupOnce == \A t \in Threads : cleaned[t] <= 1

-----------------------------------------------------------------------------
(* The inductive invariant behind them, for callers that suspend, resume   *)
(* and delete threads with interrupts disabled.                            *)

DisciplinedCallers == {"suspend", "resume", "delete"} \subseteq MaskedCalls

Removing == {t \in Threads : BeingRemoved(t)}

\* No context switch and no handler comes between the two halves of a call
\* made with interrupts disabled, so what its check read still holds.
CallsOK ==
  \A t \in Threads :
    /\ pc[t] \in DOMAIN CallAt => t = kern.current /\ isr = <<>> /\ t # idle
    /\ pc[t] \in {"reap", "free"} => t = idle
    /\ pc[t] = "suspend" => kern.stat[arg[t]] \in {"READY", "RUNNING"} /\ arg[t] # idle
    /\ pc[t] = "resume" => kern.stat[arg[t]] = "SUSPEND"
    /\ pc[t] \in {"remove", "detach_timer", "close"} =>
         Alive(arg[t]) /\ arg[t] # idle /\ (arg[t] = t => kern.lock_nest = 0)
    /\ pc[t] \in {"detach_timer", "close"} => ~Queued(kern, arg[t])
    /\ pc[t] = "close" => arg[t] \notin timers.act

\* The idle thread is always schedulable and what it reaps stays closed; a
\* thread that is closed while current has called rt_schedule.
IdleOK ==
  /\ kern.stat[idle] \in {"READY", "RUNNING"} /\ pc[idle] \in {"run", "reap", "free"}
  /\ pc[idle] = "reap" => Linked(kern.defunct, arg[idle])
  /\ pc[idle] = "free" => ~Linked(kern.defunct, arg[idle])
  /\ kern.stat[kern.current] = "CLOSE"
       => pc[kern.current] = "schedule" /\ kern.lock_nest = 0

\* A handler resumes only a thread that has been started and not deleted.
FramesOK ==
  \A i \in DOMAIN isr : isr[i].at = "resume" => Started(isr[i].arg)

IInv ==
  /\ TypeOK /\ KernelOK(kern, Removing) /\ TimeoutFindsSuspended /\ DefunctExact
  /\ CallsOK /\ IdleOK /\ FramesOK
=============================================================================

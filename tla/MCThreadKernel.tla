--------------------------- MODULE MCThreadKernel ---------------------------
EXTENDS ThreadKernel

CONSTANTS w,   \* an application thread, as urgent as main
          x    \* a more urgent application thread

MCThreads == {idle, main, w, x}
MCInitPrio == [t \in MCThreads |-> CASE t = idle -> 2 [] t = x -> 0 [] OTHER -> 1]
MCInitTick == [t \in MCThreads |-> IF t \in {main, w} THEN 2 ELSE 1]

ThreeThreads == {idle, main, w}
InitPrio3 == [t \in ThreeThreads |-> MCInitPrio[t]]
InitTick3 == [t \in ThreeThreads |-> MCInitTick[t]]

\* Nobody ends and no priority changes; the callers of rt_thread_suspend and
\* rt_thread_resume need not disable interrupts.
SchedCalls == {"create", "sleep", "yield", "suspend", "resume", "critical"}

\* Everything.  A thread that others suspend, resume or delete may end at any
\* time, so those calls are made with interrupts disabled.
AllCalls == {"create", "sleep", "yield", "suspend", "resume", "critical", "irq",
             "control", "exit", "delete"}
Masked == {"suspend", "resume", "delete"}

\* Threads that only compute, yield and sleep.
LiveCalls == {"create", "sleep", "yield"}

\* Threads that others delete, with interrupts enabled.
DeleteCalls == {"create", "sleep", "delete"}

(* The absolute tick does not matter: it is only ever compared with the    *)
(* timeouts of active timers, by a difference modulo TickMod.  The view    *)
(* identifies states that differ by a shift of the clock or in fields of   *)
(* timers that are not active, which rt_timer_start overwrites.            *)
View == <<kern, timers.list, timers.act,
          [t \in timers.act |-> Diff(timers.timeout[t], rt_tick)],
          pc, arg, isr, cleaned>>
=============================================================================

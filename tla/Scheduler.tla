----------------------------- MODULE Scheduler -----------------------------
(***************************************************************************)
(* scheduler.c (single core) as operators on the kernel record k:          *)
(*   stat, yield       thread->stat without, and the threads with,         *)
(*                     RT_THREAD_STAT_YIELD (stat NONE: the thread does    *)
(*                     not exist);                                         *)
(*   current_priority, number_mask, remaining_tick   fields of the thread; *)
(*   priority_table    rt_thread_priority_table, a FIFO per priority;      *)
(*   ready_group       rt_thread_ready_priority_group, a set of bits;      *)
(*   current           rt_current_thread;                                  *)
(*   lock_nest         rt_scheduler_lock_nest;                             *)
(*   defunct           _rt_thread_defunct (idle.c), linked by the same     *)
(*                     tlist node as the ready lists.                      *)
(* Each of these functions runs with interrupts disabled from its first    *)
(* read to its last write, so each is one operator.                        *)
(***************************************************************************)
EXTENDS Lists

CONSTANTS Threads,      \* the thread control blocks
          PrioMax       \* RT_THREAD_PRIORITY_MAX

ASSUME PrioMaxAssumption == PrioMax \in Nat \ {0}

Prios == 0 .. (PrioMax - 1)

Stats == {"NONE", "INIT", "READY", "RUNNING", "SUSPEND", "CLOSE"}

Kernels ==
  [stat : [Threads -> Stats], yield : SUBSET Threads,
   current_priority : [Threads -> Prios], number_mask : [Threads -> SUBSET Prios],
   remaining_tick : [Threads -> Nat], priority_table : [Prios -> Seq(Threads)],
   ready_group : SUBSET Prios, current : Threads, lock_nest : Nat,
   defunct : Seq(Threads)]

\* rt_list_remove(&thread->tlist): the node leaves whatever list holds it.
unlink_tlist(k, t) ==
  [k EXCEPT !.priority_table = [p \in Prios |-> rt_list_remove(k.priority_table[p], t)],
            !.defunct = rt_list_remove(@, t)]

\* Mutant: a thread joins its queue at the head.
InsertAtHead(k, t) ==
  IF t = k.current
    THEN [k EXCEPT !.stat[t] = "RUNNING"]
    ELSE [k EXCEPT !.stat[t] = "READY",
                   !.priority_table[k.current_priority[t]] = rt_list_insert_after(@, t),
                   !.ready_group = @ \cup k.number_mask[t]]

rt_schedule_insert_thread(k, t) ==
  IF t = k.current
    THEN [k EXCEPT !.stat[t] = "RUNNING"]
    ELSE [k EXCEPT !.stat[t] = "READY",
                   !.priority_table[k.current_priority[t]] = rt_list_insert_before(@, t),
                   !.ready_group = @ \cup k.number_mask[t]]

\* Mutant: the bit is cleared although others of the priority are queued.
RemoveClearsBit(k, t) ==
  [unlink_tlist(k, t) EXCEPT !.ready_group = @ \ k.number_mask[t]]

rt_schedule_remove_thread(k, t) ==
  LET u == unlink_tlist(k, t)
  IN  [u EXCEPT !.ready_group =
         IF u.priority_table[k.current_priority[t]] = <<>>
           THEN @ \ k.number_mask[t] ELSE @]

\* __rt_ffs(rt_thread_ready_priority_group) - 1.
HighestReady(k) == CHOOSE p \in k.ready_group : \A q \in k.ready_group : p <= q

get_highest_priority_thread(k) == Head(k.priority_table[HighestReady(k)])

\* Mutant: an equally urgent ready thread never takes over.
StaysWhenEqual(k) ==
  /\ k.stat[k.current] = "RUNNING"
  /\ k.current_priority[k.current] <= HighestReady(k)

\* The running thread keeps the processor: nothing ready is as urgent, or an
\* equally urgent thread is ready but the slice has not been used up.
StaysRunning(k) ==
  /\ k.stat[k.current] = "RUNNING"
  /\ \/ k.current_priority[k.current] < HighestReady(k)
     \/ /\ k.current_priority[k.current] = HighestReady(k)
        /\ k.current \notin k.yield

\* The branch "to_thread != rt_current_thread": the new current thread is
\* recorded before the old one is queued, and is unlinked last.
SwitchTo(k, to) ==
  LET from == k.current
      switched == [k EXCEPT !.current = to]
      queued == IF k.stat[from] = "RUNNING"
                  THEN rt_schedule_insert_thread(switched, from)
                  ELSE switched
  IN  [rt_schedule_remove_thread(queued, to) EXCEPT !.stat[to] = "RUNNING"]

KeepCurrent(k) ==
  [rt_schedule_remove_thread(k, k.current) EXCEPT !.stat[k.current] = "RUNNING"]

\* Mutant: the scheduler lock is not tested.
ScheduleIgnoresLock(k) ==
  IF k.ready_group = {} THEN k
  ELSE IF StaysRunning(k) THEN KeepCurrent([k EXCEPT !.yield = @ \ {k.current}])
       ELSE SwitchTo(k, get_highest_priority_thread(k))

rt_schedule(k) ==
  IF k.lock_nest # 0 \/ k.ready_group = {} THEN k
  ELSE LET to == IF StaysRunning(k) THEN k.current
                                    ELSE get_highest_priority_thread(k)
           cleared == IF k.stat[k.current] = "RUNNING"
                        THEN [k EXCEPT !.yield = @ \ {k.current}] ELSE k
       IN  IF to = k.current THEN KeepCurrent(cleared) ELSE SwitchTo(cleared, to)

rt_enter_critical(k) == [k EXCEPT !.lock_nest = @ + 1]

\* The decrement of rt_exit_critical, clamped at 0; the rt_schedule that
\* follows at level 0 runs after interrupts are enabled again.
leave_critical(k) == [k EXCEPT !.lock_nest = IF @ <= 1 THEN 0 ELSE @ - 1]

\* rt_thread_defunct_enqueue: rt_list_insert_after the list head.
rt_thread_defunct_enqueue(k, t) == [k EXCEPT !.defunct = rt_list_insert_after(@, t)]

-----------------------------------------------------------------------------
(* What the record satisfies between the calls.                            *)

Queued(k, t) == \E p \in Prios : Linked(k.priority_table[p], t)

\* What the queues satisfy at every moment, also in the middle of a switch.
QueuesOK(k) ==
  /\ k \in Kernels
  /\ \A p \in Prios : Distinct(k.priority_table[p])
  /\ \A t \in Threads, p \in Prios :
       Linked(k.priority_table[p], t) => p = k.current_priority[t]
  /\ k.ready_group = {p \in Prios : k.priority_table[p] # <<>>}
  /\ Distinct(k.defunct)

\* What the scheduler's data satisfy between its calls: queues and thread->stat
\* agree, except for the threads of R, which a deleter has taken out.
KernelOK(k, R) ==
  /\ QueuesOK(k)
  /\ \A t \in Threads : Queued(k, t) => k.stat[t] = "READY"
  /\ \A t \in Threads \ R : k.stat[t] = "READY" => Queued(k, t)
  /\ \A t \in Threads : k.number_mask[t] \subseteq {k.current_priority[t]}
  /\ \A t \in Threads : k.stat[t] \in {"READY", "RUNNING", "SUSPEND"}
                          => k.number_mask[t] = {k.current_priority[t]}
  /\ \A t \in Threads : k.stat[t] = "RUNNING" => t = k.current
  /\ k.stat[k.current] \in {"RUNNING", "SUSPEND", "CLOSE"}
  /\ \A t \in Threads : Linked(k.defunct, t) => k.stat[t] = "CLOSE"
=============================================================================

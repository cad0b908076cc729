------------------------- MODULE ThreadKernelProofs -------------------------
(***************************************************************************)
(* Theorems about the running kernel, for every number of threads and      *)
(* priorities, when the application suspends, resumes and deletes threads  *)
(* with interrupts disabled.                                               *)
(* First the queues, the states of the threads and their timers (IInv),    *)
(* then who runs (UrgentOK), then when timeouts are due (TicksOK), last    *)
(* that the kernel implements the dispatcher of module Dispatcher.         *)
(***************************************************************************)
EXTENDS ThreadKernel, SchedulerProofs, TimerListProofs

(* What each call does to the scheduler record.                            *)

\* Writes to fields that the queues do not depend on keep KernelOK.
LEMMA OtherFields ==
  ASSUME NEW k, NEW R, KernelOK(k, R), NEW r \in Kernels,
         r.stat = k.stat, r.current_priority = k.current_priority,
         r.number_mask = k.number_mask, r.priority_table = k.priority_table,
         r.ready_group = k.ready_group, r.current = k.current,
         r.defunct = k.defunct
  PROVE  KernelOK(r, R)
BY DEF KernelOK, QueuesOK, Queued

\* thread->stat of r is that of k except for u, and nothing else that the
\* scheduler keeps about threads differs.
StatChanged(k, u, r, s) ==
  /\ r.current_priority = k.current_priority /\ r.number_mask = k.number_mask
  /\ r.remaining_tick = k.remaining_tick /\ r.current = k.current
  /\ r.lock_nest = k.lock_nest
  /\ r.stat = [k.stat EXCEPT ![u] = s]

\* KernelOK after a step that changes thread->stat and the lists of one thread.
LEMMA StatStep ==
  ASSUME NEW k, NEW R, KernelOK(k, R), NEW u \in Threads, NEW s, NEW r, NEW RR,
         QueuesOK(r), StatChanged(k, u, r, s), R \ {u} \subseteq RR,
         \A y : y # u => (Queued(r, y) <=> Queued(k, y)),
         Queued(r, u) => s = "READY",
         s = "READY" /\ u \notin RR => Queued(r, u),
         s \in {"READY", "RUNNING", "SUSPEND"} => k.number_mask[u] = {k.current_priority[u]},
         s = "RUNNING" => u = k.current,
         u = k.current => s \in {"RUNNING", "SUSPEND", "CLOSE"},
         \A y : y # u => (Linked(r.defunct, y) <=> Linked(k.defunct, y)),
         Linked(r.defunct, u) => s = "CLOSE"
  PROVE  KernelOK(r, RR)
<1>1. /\ k \in Kernels /\ k.stat \in [Threads -> Stats] /\ k.current \in Threads
      /\ r.current = k.current
  BY DEF KernelOK, QueuesOK, Kernels, StatChanged
<1>2. \A y \in Threads : r.stat[y] = IF y = u THEN s ELSE k.stat[y]
  BY <1>1 DEF StatChanged
<1>3. \A y \in Threads : Queued(r, y) => r.stat[y] = "READY"
  BY <1>2 DEF KernelOK
<1>4. \A y \in Threads \ RR : r.stat[y] = "READY" => Queued(r, y)
  BY <1>2 DEF KernelOK
<1>5. /\ \A y \in Threads : r.number_mask[y] \subseteq {r.current_priority[y]}
      /\ \A y \in Threads : r.stat[y] \in {"READY", "RUNNING", "SUSPEND"}
                              => r.number_mask[y] = {r.current_priority[y]}
  BY <1>2 DEF KernelOK, StatChanged
<1>6. \A y \in Threads : r.stat[y] = "RUNNING" => y = r.current
  BY <1>1, <1>2 DEF KernelOK
<1>7. r.stat[r.current] \in {"RUNNING", "SUSPEND", "CLOSE"}
  BY <1>1, <1>2 DEF KernelOK
<1>8. \A y \in Threads : Linked(r.defunct, y) => r.stat[y] = "CLOSE"
  BY <1>2 DEF KernelOK
<1> QED BY <1>3, <1>4, <1>5, <1>6, <1>7, <1>8 DEF KernelOK

\* rt_thread_resume of a thread that is started, even one that is queued.
LEMMA ResumedOK ==
  ASSUME NEW k, NEW R, KernelOK(k, R), NEW u \in Threads,
         k.stat[u] \in {"READY", "RUNNING", "SUSPEND"}
  PROVE  /\ KernelOK(Resumed(k, u), R)
         /\ StatChanged(k, u, Resumed(k, u), IF u = k.current THEN "RUNNING" ELSE "READY")
         /\ \A y : Linked(Resumed(k, u).defunct, y) <=> Linked(k.defunct, y)
<1> DEFINE w == unlink_tlist(k, u)
           v == rt_schedule_remove_thread(k, u)
           r == Resumed(k, u)
           c == k.current_priority[u]
<1>1. /\ k \in Kernels /\ QueuesOK(k) /\ c \in Prios /\ k.number_mask[u] = {c}
      /\ k.stat \in [Threads -> Stats] /\ ~Linked(k.defunct, u)
  BY DEF KernelOK, QueuesOK, Kernels
<1>2. Removed(k, u, v)
  BY <1>1, RemoveThread
<1>3. /\ w \in Kernels /\ SameThreads(k, w)
      /\ v = [w EXCEPT !.ready_group = IF w.priority_table[c] = <<>>
                                         THEN w.ready_group \ {c} ELSE w.ready_group]
  <2>1. w \in Kernels /\ SameThreads(k, w)
    BY <1>1, UnlinkTlist
  <2> QED BY <2>1, <1>1 DEF rt_schedule_remove_thread
<1>4. r = rt_schedule_insert_thread(w, u)
  BY DEF Resumed
<1> HIDE DEF w, v, r
<1>5. CASE u # k.current
  <2>1. rt_schedule_insert_thread(w, u) = rt_schedule_insert_thread(v, u)
    <3>1. /\ w.current = k.current /\ v.current = k.current
          /\ w.current_priority[u] = c /\ v.current_priority[u] = c
          /\ w.number_mask[u] = {c} /\ v.number_mask[u] = {c}
      BY <1>1, <1>2, <1>3 DEF SameThreads, Removed
    <3>2. v.ready_group \cup {c} = w.ready_group \cup {c}
      BY <1>3, <1>1 DEF Kernels
    <3>3. v \in Kernels
      BY <1>2 DEF Removed, QueuesOK
    <3>4. /\ v.stat = w.stat /\ v.yield = w.yield
          /\ v.current_priority = w.current_priority /\ v.number_mask = w.number_mask
          /\ v.remaining_tick = w.remaining_tick /\ v.priority_table = w.priority_table
          /\ v.lock_nest = w.lock_nest /\ v.defunct = w.defunct /\ v.current = w.current
      BY <1>3 DEF Kernels
    <3> QED BY <1>1, <1>3, <1>5, <3>1, <3>2, <3>3, <3>4 DEF rt_schedule_insert_thread, Kernels
  <2>2. /\ QueuesOK(v) /\ u # v.current /\ ~Queued(v, u)
        /\ v.number_mask[u] = {v.current_priority[u]}
    BY <1>1, <1>2, <1>5 DEF Removed, SameThreads
  <2>3. Inserted(v, u, r)
    BY <1>4, <2>1, <2>2, InsertThread
  <2>4. /\ QueuesOK(r) /\ StatChanged(k, u, r, "READY")
        /\ \A y : Queued(r, y) <=> Queued(k, y) \/ y = u
        /\ \A y : Linked(r.defunct, y) <=> Linked(k.defunct, y)
    BY <1>1, <1>2, <2>3 DEF Inserted, Removed, SameThreads, StatChanged
  <2>5. KernelOK(r, R)
    BY <1>1, <1>5, <2>4, StatStep
  <2> QED BY <1>5, <2>4, <2>5 DEF r
<1>6. CASE u = k.current
  <2>1. ~Queued(k, u)
    BY <1>6 DEF KernelOK
  <2>2. r = [w EXCEPT !.stat = [w.stat EXCEPT ![u] = "RUNNING"]]
    BY <1>3, <1>4, <1>6 DEF rt_schedule_insert_thread, SameThreads, Kernels
  <2>3. /\ w.priority_table = k.priority_table
        /\ Distinct(w.defunct) /\ w.ready_group = k.ready_group
        /\ \A y : Linked(w.defunct, y) <=> Linked(k.defunct, y)
    <3>1. \A p \in Prios : ~Linked(k.priority_table[p], u)
      BY <2>1 DEF Queued
    <3>2. /\ \A p \in Prios : w.priority_table[p] = k.priority_table[p]
          /\ Distinct(w.defunct) /\ w.ready_group = k.ready_group
          /\ \A y : Linked(w.defunct, y) <=> Linked(k.defunct, y) /\ y # u
      BY <1>1, <3>1, UnlinkTlist DEF w
    <3>3. w.priority_table = k.priority_table
      BY <1>1, <1>3, <3>2 DEF Kernels
    <3> QED BY <1>1, <3>2, <3>3
  <2>4. /\ r \in Kernels /\ StatChanged(k, u, r, "RUNNING")
        /\ r.priority_table = w.priority_table /\ r.ready_group = w.ready_group
        /\ r.defunct = w.defunct
    BY <1>1, <1>3, <2>2 DEF Kernels, StatChanged, SameThreads, Stats
  <2>5. QueuesOK(r) /\ \A y : Queued(r, y) <=> Queued(k, y)
    BY <1>1, <2>3, <2>4 DEF QueuesOK, Queued, StatChanged
  <2>6. KernelOK(r, R)
    BY <1>1, <1>6, <2>1, <2>3, <2>4, <2>5, StatStep
  <2> QED BY <1>6, <2>3, <2>4, <2>6 DEF r
<1> QED BY <1>5, <1>6

\* rt_thread_suspend of a READY or RUNNING thread.
LEMMA SuspendedOK ==
  ASSUME NEW k, NEW R, KernelOK(k, R), NEW u \in Threads,
         k.stat[u] \in {"READY", "RUNNING"}
  PROVE  /\ KernelOK(Suspended(k, u), R)
         /\ StatChanged(k, u, Suspended(k, u), "SUSPEND")
         /\ \A y : Linked(Suspended(k, u).defunct, y) <=> Linked(k.defunct, y)
<1> DEFINE v == rt_schedule_remove_thread(k, u)
           r == Suspended(k, u)
<1>1. /\ k \in Kernels /\ QueuesOK(k) /\ k.number_mask[u] = {k.current_priority[u]}
      /\ k.stat \in [Threads -> Stats] /\ ~Linked(k.defunct, u)
  BY DEF KernelOK, QueuesOK, Kernels
<1>2. Removed(k, u, v)
  BY <1>1, RemoveThread
<1>3. r = [v EXCEPT !.stat = [v.stat EXCEPT ![u] = "SUSPEND"]]
  BY <1>2 DEF Suspended, Removed, QueuesOK, Kernels
<1> HIDE DEF v, r
<1>4. /\ r \in Kernels /\ StatChanged(k, u, r, "SUSPEND")
      /\ r.priority_table = v.priority_table /\ r.ready_group = v.ready_group
      /\ r.defunct = v.defunct
  BY <1>1, <1>2, <1>3 DEF Removed, QueuesOK, Kernels, StatChanged, SameThreads, Stats
<1>5. QueuesOK(r) /\ \A y : Queued(r, y) <=> Queued(v, y)
  BY <1>2, <1>4 DEF QueuesOK, Queued, StatChanged, Removed, SameThreads
<1>6. /\ \A y : Queued(r, y) <=> Queued(k, y) /\ y # u
      /\ \A y : Linked(r.defunct, y) <=> Linked(k.defunct, y)
  BY <1>1, <1>2, <1>4, <1>5 DEF Removed
<1>7. KernelOK(r, R)
  BY <1>1, <1>4, <1>5, <1>6, StatStep
<1> QED BY <1>4, <1>6, <1>7 DEF r

\* rt_schedule_remove_thread of a thread that is being deleted.
LEMMA RemovedOK ==
  ASSUME NEW k, NEW R, KernelOK(k, R), NEW u \in Threads, k.stat[u] # "CLOSE"
  PROVE  LET r == rt_schedule_remove_thread(k, u)
         IN  /\ KernelOK(r, R \cup {u}) /\ SameThreads(k, r) /\ ~Queued(r, u)
             /\ \A y : Linked(r.defunct, y) <=> Linked(k.defunct, y)
<1> DEFINE r == rt_schedule_remove_thread(k, u)
<1>1. /\ QueuesOK(k) /\ k.number_mask[u] \subseteq {k.current_priority[u]}
      /\ (Queued(k, u) => k.number_mask[u] = {k.current_priority[u]})
      /\ ~Linked(k.defunct, u)
  BY DEF KernelOK
<1>2. Removed(k, u, r)
  BY <1>1, RemoveThread
<1> HIDE DEF r
<1>3. KernelOK(r, R \cup {u})
  BY <1>1, <1>2 DEF KernelOK, Removed, SameThreads
<1> QED BY <1>1, <1>2, <1>3 DEF Removed, r

\* A thread in no ready queue is marked closed and, if it is dynamic, waits to
\* be freed.
LEMMA ClosedOK ==
  ASSUME NEW k, NEW R, KernelOK(k, R), NEW u \in Threads, ~Queued(k, u),
         k.stat[u] # "CLOSE"
  PROVE  LET r == Closed(k, u)
         IN  /\ KernelOK(r, R \ {u}) /\ StatChanged(k, u, r, "CLOSE")
             /\ \A y : Linked(r.defunct, y)
                         <=> Linked(k.defunct, y) \/ (y = u /\ u \notin StaticThreads)
<1> DEFINE r == Closed(k, u)
           d == IF u \in StaticThreads THEN k.defunct ELSE rt_list_insert_after(k.defunct, u)
<1>1. /\ k \in Kernels /\ QueuesOK(k) /\ ~Linked(k.defunct, u)
      /\ k.defunct \in Seq(Threads) /\ Distinct(k.defunct)
      /\ k.stat \in [Threads -> Stats]
  BY DEF KernelOK, QueuesOK, Kernels
<1>2. /\ d \in Seq(Threads) /\ Distinct(d)
      /\ \A y : Linked(d, y) <=> Linked(k.defunct, y) \/ (y = u /\ u \notin StaticThreads)
  BY <1>1, ListInsertAfter
<1>3. r = [k EXCEPT !.stat = [k.stat EXCEPT ![u] = "CLOSE"],
                    !.yield = k.yield \ {u}, !.defunct = d]
  BY <1>1 DEF Closed, rt_thread_defunct_enqueue, Kernels
<1> HIDE DEF r, d
<1>4. /\ r \in Kernels /\ StatChanged(k, u, r, "CLOSE")
      /\ r.priority_table = k.priority_table /\ r.ready_group = k.ready_group
      /\ r.defunct = d
  BY <1>1, <1>2, <1>3 DEF Kernels, StatChanged, Stats
<1>5. QueuesOK(r) /\ \A y : Queued(r, y) <=> Queued(k, y)
  BY <1>1, <1>2, <1>4 DEF QueuesOK, Queued, StatChanged
<1>6. KernelOK(r, R \ {u})
  BY <1>1, <1>2, <1>4, <1>5, StatStep
<1> QED BY <1>2, <1>4, <1>6 DEF r

\* RT_THREAD_CTRL_CHANGE_PRIORITY of a thread that is not queued.
LEMMA ReprioritisedOK ==
  ASSUME NEW k, NEW R, KernelOK(k, R), NEW u \in Threads, ~Queued(k, u), NEW p \in Prios
  PROVE  LET r == Reprioritised(k, u, p)
         IN  /\ KernelOK(r, R) /\ r.stat = k.stat /\ r.current = k.current
             /\ r.remaining_tick = k.remaining_tick /\ r.lock_nest = k.lock_nest
             /\ r.defunct = k.defunct /\ r.number_mask[u] = {p}
             /\ r.current_priority[u] = p /\ ~Queued(r, u)
<1> DEFINE r == Reprioritised(k, u, p)
<1>1. /\ k \in Kernels /\ QueuesOK(k)
      /\ k.current_priority \in [Threads -> Prios] /\ k.number_mask \in [Threads -> SUBSET Prios]
  BY DEF KernelOK, QueuesOK, Kernels
<1>2. r = [k EXCEPT !.current_priority = [k.current_priority EXCEPT ![u] = p],
                    !.number_mask = [k.number_mask EXCEPT ![u] = {p}]]
  BY <1>1 DEF Reprioritised, Kernels
<1> HIDE DEF r
<1>3. /\ [k.current_priority EXCEPT ![u] = p] \in [Threads -> Prios]
      /\ [k.number_mask EXCEPT ![u] = {p}] \in [Threads -> SUBSET Prios]
  BY <1>1
<1>4. /\ r \in Kernels /\ r.stat = k.stat /\ r.current = k.current
      /\ r.remaining_tick = k.remaining_tick /\ r.lock_nest = k.lock_nest
      /\ r.defunct = k.defunct /\ r.priority_table = k.priority_table
      /\ r.ready_group = k.ready_group
  BY <1>1, <1>2, <1>3 DEF Kernels
<1>5. \A y \in Threads :
        /\ r.current_priority[y] = IF y = u THEN p ELSE k.current_priority[y]
        /\ r.number_mask[y] = IF y = u THEN {p} ELSE k.number_mask[y]
  BY <1>1, <1>2 DEF Kernels
<1>6. \A y : Queued(r, y) <=> Queued(k, y)
  BY <1>4 DEF Queued
<1>7. QueuesOK(r)
  <2>1. \A y \in Threads, q \in Prios :
          Linked(r.priority_table[q], y) => q = r.current_priority[y]
    BY <1>1, <1>4, <1>5 DEF QueuesOK, Queued
  <2> QED BY <1>1, <1>4, <2>1 DEF QueuesOK
<1>8. KernelOK(r, R)
  <2>1. /\ \A y \in Threads : r.number_mask[y] \subseteq {r.current_priority[y]}
        /\ \A y \in Threads : r.stat[y] \in {"READY", "RUNNING", "SUSPEND"}
                                => r.number_mask[y] = {r.current_priority[y]}
    BY <1>4, <1>5 DEF KernelOK
  <2> QED BY <1>4, <1>6, <1>7, <2>1 DEF KernelOK
<1> QED BY <1>4, <1>5, <1>6, <1>8 DEF r

\* The same of a READY thread: taken out of its queue, put into the new one.
LEMMA RequeuedOK ==
  ASSUME NEW k, KernelOK(k, {}), NEW u \in Threads, k.stat[u] = "READY", NEW p \in Prios
  PROVE  LET r == rt_schedule_insert_thread(
                    Reprioritised(rt_schedule_remove_thread(k, u), u, p), u)
         IN  /\ KernelOK(r, {}) /\ r.stat = k.stat /\ r.current = k.current
             /\ r.remaining_tick = k.remaining_tick /\ r.lock_nest = k.lock_nest
             /\ \A y : Linked(r.defunct, y) <=> Linked(k.defunct, y)
<1> DEFINE a == rt_schedule_remove_thread(k, u)
           b == Reprioritised(a, u, p)
           r == rt_schedule_insert_thread(b, u)
<1>1. /\ KernelOK(a, {u}) /\ SameThreads(k, a) /\ ~Queued(a, u)
      /\ \A y : Linked(a.defunct, y) <=> Linked(k.defunct, y)
  BY RemovedOK
<1> HIDE DEF a
<1>2. /\ KernelOK(b, {u}) /\ b.stat = a.stat /\ b.current = a.current
      /\ b.remaining_tick = a.remaining_tick /\ b.lock_nest = a.lock_nest
      /\ b.defunct = a.defunct /\ b.number_mask[u] = {b.current_priority[u]}
      /\ ~Queued(b, u)
  BY <1>1, ReprioritisedOK
<1> HIDE DEF b
<1>3. QueuesOK(b) /\ u # b.current /\ b.stat[u] = "READY" /\ b.stat \in [Threads -> Stats]
  <2>1. b.stat[u] = "READY"
    BY <1>1, <1>2 DEF SameThreads
  <2>2. QueuesOK(b) /\ b.stat[b.current] # "READY"
    BY <1>2 DEF KernelOK
  <2> QED BY <2>1, <2>2 DEF QueuesOK, Kernels
<1>4. Inserted(b, u, r)
  BY <1>2, <1>3, InsertThread
<1> HIDE DEF r
<1>5. StatChanged(b, u, r, "READY") /\ r.stat = b.stat
  BY <1>3, <1>4 DEF Inserted, StatChanged
<1>6. ~Linked(b.defunct, u)
  BY <1>2, <1>3 DEF KernelOK
<1>7. KernelOK(r, {})
  BY <1>2, <1>3, <1>4, <1>5, <1>6, StatStep DEF Inserted
<1> QED BY <1>1, <1>2, <1>4, <1>5, <1>7 DEF Inserted, SameThreads, r, b, a

\* rt_thread_defunct_dequeue unlinks a closed thread, which is in no queue.
LEMMA DequeuedOK ==
  ASSUME NEW k, NEW R, KernelOK(k, R), NEW u \in Threads, k.stat[u] = "CLOSE"
  PROVE  LET r == unlink_tlist(k, u)
         IN  /\ KernelOK(r, R) /\ SameThreads(k, r)
             /\ \A y : Linked(r.defunct, y) <=> Linked(k.defunct, y) /\ y # u
<1> DEFINE r == unlink_tlist(k, u)
<1>1. /\ k \in Kernels /\ QueuesOK(k)
      /\ \A p \in Prios : ~Linked(k.priority_table[p], u)
  BY DEF KernelOK, QueuesOK, Queued
<1>2. /\ r \in Kernels /\ SameThreads(k, r) /\ r.ready_group = k.ready_group
      /\ \A p \in Prios : r.priority_table[p] = k.priority_table[p]
      /\ Distinct(r.defunct)
      /\ \A y : Linked(r.defunct, y) <=> Linked(k.defunct, y) /\ y # u
  BY <1>1, UnlinkTlist
<1> HIDE DEF r
<1>3. r.priority_table = k.priority_table
  BY <1>1, <1>2 DEF Kernels
<1>4. KernelOK(r, R)
  BY <1>2, <1>3 DEF KernelOK, QueuesOK, Queued, SameThreads
<1> QED BY <1>2, <1>4 DEF r

\* A closed thread that is not waiting to be freed disappears, or is set up
\* anew; so does one that does not exist.
LEMMA RecreatedOK ==
  ASSUME NEW k, NEW R, KernelOK(k, R), NEW u \in Threads, u # k.current,
         k.stat[u] \in {"NONE", "CLOSE"}, ~Linked(k.defunct, u),
         NEW r \in Kernels, r.stat[u] \in {"NONE", "INIT"},
         r.number_mask[u] \subseteq {r.current_priority[u]},
         \A y \in Threads \ {u} : /\ r.stat[y] = k.stat[y]
                                  /\ r.current_priority[y] = k.current_priority[y]
                                  /\ r.number_mask[y] = k.number_mask[y],
         r.current = k.current, r.priority_table = k.priority_table,
         r.ready_group = k.ready_group, r.defunct = k.defunct
  PROVE  KernelOK(r, R)
<1>1. /\ k \in Kernels /\ QueuesOK(k) /\ ~Queued(k, u)
      /\ k.stat \in [Threads -> Stats] /\ k.current_priority \in [Threads -> Prios]
      /\ k.number_mask \in [Threads -> SUBSET Prios] /\ k.current \in Threads
  BY DEF KernelOK, QueuesOK, Kernels
<1>2. \A y \in Threads : y # u => /\ r.stat[y] = k.stat[y]
                                 /\ r.current_priority[y] = k.current_priority[y]
                                 /\ r.number_mask[y] = k.number_mask[y]
  OBVIOUS
<1>3. \A y : Queued(r, y) <=> Queued(k, y)
  BY DEF Queued
<1>4. QueuesOK(r)
  <2>1. \A y \in Threads, q \in Prios :
          Linked(r.priority_table[q], y) => q = r.current_priority[y]
    BY <1>1, <1>2 DEF QueuesOK, Queued
  <2> QED BY <1>1, <2>1 DEF QueuesOK
<1>5. /\ \A y \in Threads : r.number_mask[y] \subseteq {r.current_priority[y]}
      /\ \A y \in Threads : r.stat[y] \in {"READY", "RUNNING", "SUSPEND"}
                              => r.number_mask[y] = {r.current_priority[y]}
  BY <1>2 DEF KernelOK
<1>6. /\ \A y \in Threads : Queued(r, y) => r.stat[y] = "READY"
      /\ \A y \in Threads \ R : r.stat[y] = "READY" => Queued(r, y)
  BY <1>1, <1>2, <1>3 DEF KernelOK
<1>7. /\ \A y \in Threads : r.stat[y] = "RUNNING" => y = r.current
      /\ r.stat[r.current] \in {"RUNNING", "SUSPEND", "CLOSE"}
      /\ \A y \in Threads : Linked(r.defunct, y) => r.stat[y] = "CLOSE"
  BY <1>1, <1>2 DEF KernelOK
<1> QED BY <1>4, <1>5, <1>6, <1>7 DEF KernelOK

\* rt_thread_startup sets up a new thread before it calls rt_thread_resume.
LEMMA StartingOK ==
  ASSUME NEW k, NEW R, KernelOK(k, R), NEW u \in Threads, k.stat[u] = "INIT"
  PROVE  LET v == StartedUp(k, u)
         IN  /\ KernelOK(v, R) /\ v.stat = [k.stat EXCEPT ![u] = "SUSPEND"]
             /\ v.current_priority = [k.current_priority EXCEPT ![u] = InitPrio[u]]
             /\ v.remaining_tick = k.remaining_tick /\ v.current = k.current
             /\ v.lock_nest = k.lock_nest /\ v.priority_table = k.priority_table
             /\ v.defunct = k.defunct /\ v.yield = k.yield \ {u}
             /\ u # k.current /\ ~Queued(k, u)
<1> DEFINE p == InitPrio[u]
           v == StartedUp(k, u)
<1>1. /\ k \in Kernels /\ QueuesOK(k) /\ ~Queued(k, u) /\ u # k.current
      /\ k.stat \in [Threads -> Stats] /\ ~Linked(k.defunct, u)
      /\ k.current_priority \in [Threads -> Prios]
      /\ k.number_mask \in [Threads -> SUBSET Prios] /\ k.current \in Threads
  BY DEF KernelOK, QueuesOK, Kernels
<1>2. v = [k EXCEPT !.current_priority = [k.current_priority EXCEPT ![u] = p],
                    !.number_mask = [k.number_mask EXCEPT ![u] = {p}],
                    !.stat = [k.stat EXCEPT ![u] = "SUSPEND"],
                    !.yield = k.yield \ {u}]
  BY <1>1 DEF Kernels, StartedUp
<1>3. /\ [k.current_priority EXCEPT ![u] = p] \in [Threads -> Prios]
      /\ [k.number_mask EXCEPT ![u] = {p}] \in [Threads -> SUBSET Prios]
      /\ [k.stat EXCEPT ![u] = "SUSPEND"] \in [Threads -> Stats]
  BY <1>1, PrioAssumption DEF Stats
<1> HIDE DEF v
<1>4. /\ v \in Kernels /\ v.stat = [k.stat EXCEPT ![u] = "SUSPEND"]
      /\ v.current = k.current /\ v.remaining_tick = k.remaining_tick
      /\ v.lock_nest = k.lock_nest /\ v.priority_table = k.priority_table
      /\ v.ready_group = k.ready_group /\ v.defunct = k.defunct
      /\ v.current_priority = [k.current_priority EXCEPT ![u] = p]
      /\ v.yield = k.yield \ {u}
  BY <1>1, <1>2, <1>3 DEF Kernels
<1>5. \A y \in Threads :
        /\ v.stat[y] = IF y = u THEN "SUSPEND" ELSE k.stat[y]
        /\ v.current_priority[y] = IF y = u THEN p ELSE k.current_priority[y]
        /\ v.number_mask[y] = IF y = u THEN {p} ELSE k.number_mask[y]
  BY <1>1, <1>2 DEF Kernels
<1>6. \A y : Queued(v, y) <=> Queued(k, y)
  BY <1>4 DEF Queued
<1>7. QueuesOK(v)
  <2>1. \A y \in Threads, q \in Prios :
          Linked(v.priority_table[q], y) => q = v.current_priority[y]
    BY <1>1, <1>4, <1>5 DEF QueuesOK, Queued
  <2> QED BY <1>1, <1>4, <2>1 DEF QueuesOK
<1>8. KernelOK(v, R)
  <2>1. /\ \A y \in Threads : v.number_mask[y] \subseteq {v.current_priority[y]}
        /\ \A y \in Threads : v.stat[y] \in {"READY", "RUNNING", "SUSPEND"}
                                => v.number_mask[y] = {v.current_priority[y]}
    BY <1>5 DEF KernelOK
  <2>2. /\ \A y \in Threads : Queued(v, y) => v.stat[y] = "READY"
        /\ \A y \in Threads \ R : v.stat[y] = "READY" => Queued(v, y)
    BY <1>1, <1>5, <1>6 DEF KernelOK
  <2>3. /\ \A y \in Threads : v.stat[y] = "RUNNING" => y = v.current
        /\ v.stat[v.current] \in {"RUNNING", "SUSPEND", "CLOSE"}
        /\ \A y \in Threads : Linked(v.defunct, y) => v.stat[y] = "CLOSE"
    BY <1>1, <1>4, <1>5 DEF KernelOK
  <2> QED BY <1>7, <2>1, <2>2, <2>3 DEF KernelOK
<1> QED BY <1>1, <1>4, <1>8 DEF v

\* rt_thread_startup makes a new thread READY.
LEMMA StartedOK ==
  ASSUME NEW k, NEW R, KernelOK(k, R), NEW u \in Threads, k.stat[u] = "INIT"
  PROVE  LET r == Resumed(StartedUp(k, u), u)
         IN  /\ KernelOK(r, R) /\ r.stat = [k.stat EXCEPT ![u] = "READY"]
             /\ r.remaining_tick = k.remaining_tick /\ r.current = k.current
             /\ r.lock_nest = k.lock_nest
             /\ \A y : Linked(r.defunct, y) <=> Linked(k.defunct, y)
<1> DEFINE v == StartedUp(k, u)
           r == Resumed(v, u)
<1>1. /\ KernelOK(v, R) /\ v.stat = [k.stat EXCEPT ![u] = "SUSPEND"]
      /\ v.current_priority = [k.current_priority EXCEPT ![u] = InitPrio[u]]
      /\ v.remaining_tick = k.remaining_tick /\ v.current = k.current
      /\ v.lock_nest = k.lock_nest /\ v.priority_table = k.priority_table
      /\ v.defunct = k.defunct /\ v.yield = k.yield \ {u}
      /\ u # k.current /\ ~Queued(k, u)
  BY StartingOK, Zenon
<1>2. k.stat \in [Threads -> Stats]
  BY DEF KernelOK, QueuesOK, Kernels
<1> HIDE DEF v
<1>3. v.stat[u] = "SUSPEND"
  BY <1>1, <1>2
<1>4. /\ KernelOK(r, R) /\ StatChanged(v, u, r, "READY")
      /\ \A y : Linked(r.defunct, y) <=> Linked(v.defunct, y)
  BY <1>1, <1>3, ResumedOK
<1> HIDE DEF r
<1>5. r.stat = [k.stat EXCEPT ![u] = "READY"]
  BY <1>1, <1>2, <1>4 DEF StatChanged
<1> QED BY <1>1, <1>4, <1>5 DEF StatChanged, r, v

-----------------------------------------------------------------------------
(* The invariant holds initially, and every step keeps it.                 *)

\* The stack of handlers: its frames, and what each step makes of them.
LEMMA FrameType ==
  ASSUME NEW s \in Seq(Frames)
  PROVE  /\ DOMAIN s = 1 .. Len(s) /\ Len(s) \in Nat
         /\ \A i \in DOMAIN s : s[i] \in Frames
         /\ s # <<>> => 1 \in DOMAIN s
<1>1. DOMAIN s = 1 .. Len(s) /\ Len(s) \in Nat
  BY LenProperties
<1>2. \A i \in 1 .. Len(s) : s[i] \in Frames
  BY ElementOfSeq
<1>3. s # <<>> => Len(s) # 0
  BY EmptySeq
<1> QED BY <1>1, <1>2, <1>3

\* Entering a handler adds one frame on top of the stack.
LEMMA FramePush ==
  ASSUME NEW s \in Seq(Frames), NEW f \in Frames
  PROVE  /\ <<f>> \o s \in Seq(Frames)
         /\ \A i \in DOMAIN (<<f>> \o s) :
              \/ (<<f>> \o s)[i] = f
              \/ \E j \in DOMAIN s : s[j] = (<<f>> \o s)[i]
<1>1. DOMAIN s = 1 .. Len(s) /\ Len(s) \in Nat
  BY FrameType
<1>2. <<f>> \in Seq(Frames) /\ Len(<<f>>) = 1 /\ <<f>>[1] = f
  OBVIOUS
<1>3. /\ <<f>> \o s \in Seq(Frames)
      /\ Len(<<f>> \o s) = 1 + Len(s)
      /\ \A i \in 1 .. (1 + Len(s)) :
           (<<f>> \o s)[i] = IF i <= 1 THEN <<f>>[i] ELSE s[i - 1]
  BY <1>1, <1>2, ConcatProperties
<1>4. DOMAIN (<<f>> \o s) = 1 .. (1 + Len(s))
  BY <1>3, LenProperties
<1> QED BY <1>1, <1>2, <1>3, <1>4

\* A handler that goes on keeps the frames below it.
LEMMA FrameUpdate ==
  ASSUME isr \in Seq(Frames), isr # <<>>, NEW a \in {"schedule", "check", "firing", "leave"},
         FrameGoto(a)
  PROVE  /\ isr' \in Seq(Frames)
         /\ \A i \in DOMAIN isr' : isr'[i].at = "resume" =>
              i \in DOMAIN isr /\ isr[i].at = "resume" /\ isr[i].arg = isr'[i].arg
<1> DEFINE f == [isr[1] EXCEPT !.at = a, !.arg = idle]
<1>1. /\ DOMAIN isr = 1 .. Len(isr) /\ Len(isr) \in Nat /\ 1 \in DOMAIN isr
      /\ \A i \in DOMAIN isr : isr[i] \in Frames
  BY FrameType
<1>2. f \in Frames /\ f.at = a
  BY <1>1, ThreadsAssumption DEF Frames
<1>3. isr' = [i \in 1 .. Len(isr) |-> IF i = 1 THEN f ELSE isr[i]]
  BY <1>1 DEF FrameGoto
<1> HIDE DEF f
<1>4. isr' \in Seq(Frames)
  BY <1>1, <1>2, <1>3
<1>5. DOMAIN isr' = 1 .. Len(isr)
      /\ \A i \in 1 .. Len(isr) : isr'[i] = IF i = 1 THEN f ELSE isr[i]
  BY <1>3
<1> QED BY <1>1, <1>2, <1>4, <1>5

\* Leaving a handler adds no frame.
LEMMA FramePop ==
  ASSUME NEW s \in Seq(Frames), s # <<>>
  PROVE  /\ Tail(s) \in Seq(Frames)
         /\ \A i \in DOMAIN Tail(s) : \E j \in DOMAIN s : s[j] = Tail(s)[i]
<1>1. DOMAIN s = 1 .. Len(s) /\ Len(s) \in Nat
  BY FrameType
<1>2. /\ Tail(s) \in Seq(Frames) /\ Len(Tail(s)) = Len(s) - 1
      /\ \A i \in 1 .. Len(Tail(s)) : Tail(s)[i] = s[i + 1]
  BY HeadTailProperties
<1>3. DOMAIN Tail(s) = 1 .. (Len(s) - 1)
  BY <1>2, LenProperties
<1> QED BY <1>1, <1>2, <1>3

\* Outside the calls made with interrupts disabled nobody is being deleted.
LEMMA NothingMasked ==
  ASSUME IInv, isr # <<>> \/ pc[kern.current] \notin DOMAIN CallAt
  PROVE  Removing = {} /\ \A t \in Threads : pc[t] \notin DOMAIN CallAt
<1>1. \A t \in Threads : pc[t] \notin DOMAIN CallAt
  BY DEF IInv, CallsOK
<1>2. {"detach_timer", "close"} \subseteq DOMAIN CallAt
  BY DEF CallAt
<1> QED BY <1>1, <1>2 DEF Removing, BeingRemoved

\* No call made with interrupts disabled is under way, and only the idle
\* thread reaps.
CallsQuiet ==
  /\ pc \in [Threads -> Labels] /\ arg \in [Threads -> Threads]
  /\ \A t \in Threads : pc[t] \notin DOMAIN CallAt
  /\ \A t \in App : pc[t] \notin {"reap", "free"}

\* A step after which no call made with interrupts disabled is under way, and
\* which closes the dynamic threads D and leaves them to the idle thread.
LEMMA ClosingStep ==
  ASSUME IInv, KernelOK(kern', {}), kern'.lock_nest <= MaxNest,
         \A t \in Threads : kern'.remaining_tick[t] \in 1 .. InitTick[t],
         TimersOK(Threads, timers'), \A t \in timers'.act : kern'.stat[t] = "SUSPEND",
         rt_tick' \in Ticks, isr' \in Seq(Frames), cleaned' \in [Threads -> Nat],
         CallsQuiet', pc'[idle] = pc[idle], arg'[idle] = arg[idle],
         NEW D \in SUBSET (Threads \ StaticThreads), \A t \in D : kern.stat[t] # "CLOSE",
         \A y : Linked(kern'.defunct, y) <=> Linked(kern.defunct, y) \/ y \in D,
         \A t \in Threads \ StaticThreads :
           kern'.stat[t] = "CLOSE" <=> kern.stat[t] = "CLOSE" \/ t \in D,
         kern'.stat[idle] \in {"READY", "RUNNING"},
         kern'.stat[kern'.current] = "CLOSE"
           => pc'[kern'.current] = "schedule" /\ kern'.lock_nest = 0,
         FramesOK'
  PROVE  IInv'
<1>1. /\ DefunctExact /\ IdleOK /\ kern' \in Kernels /\ QueuesOK(kern')
  BY DEF IInv, KernelOK, QueuesOK
<1>2. TypeOK'
  BY <1>1 DEF TypeOK, TimersOK, CallsQuiet
<1>3. Removing' = {}
  <2>1. {"detach_timer", "close"} \subseteq DOMAIN CallAt
    BY DEF CallAt
  <2> QED BY <2>1 DEF Removing, BeingRemoved, CallsQuiet
<1>4. KernelOK(kern, Removing)'
  BY <1>3
<1>5. TimeoutFindsSuspended'
  BY DEF TimeoutFindsSuspended, TimersOK
<1>6. idle \in Threads
  BY ThreadsAssumption
<1>7. pc[idle] = "free" => arg[idle] \notin D
  BY <1>1, <1>6 DEF DefunctExact, IInv, TypeOK
<1>8. DefunctExact'
  BY <1>1, <1>6 DEF DefunctExact, QueuesOK
<1>9. CallsOK'
  <2>1. {"remove", "detach_timer", "close", "suspend", "resume"} = DOMAIN CallAt
    BY DEF CallAt
  <2> QED BY <2>1 DEF CallsOK, CallsQuiet, App
<1>10. IdleOK'
  BY <1>1, <1>6, <1>7 DEF IdleOK
<1> QED BY <1>2, <1>4, <1>5, <1>8, <1>9, <1>10 DEF IInv

\* Likewise, if it closes no dynamic thread.
LEMMA QuietStep ==
  ASSUME IInv, KernelOK(kern', {}), kern'.lock_nest <= MaxNest,
         \A t \in Threads : kern'.remaining_tick[t] \in 1 .. InitTick[t],
         TimersOK(Threads, timers'), \A t \in timers'.act : kern'.stat[t] = "SUSPEND",
         rt_tick' \in Ticks, isr' \in Seq(Frames), cleaned' \in [Threads -> Nat],
         CallsQuiet', pc'[idle] = pc[idle], arg'[idle] = arg[idle],
         \A y : Linked(kern'.defunct, y) <=> Linked(kern.defunct, y),
         \A t \in Threads \ StaticThreads :
           kern'.stat[t] = "CLOSE" <=> kern.stat[t] = "CLOSE",
         kern'.stat[idle] \in {"READY", "RUNNING"},
         kern'.stat[kern'.current] = "CLOSE"
           => pc'[kern'.current] = "schedule" /\ kern'.lock_nest = 0,
         FramesOK'
  PROVE  IInv'
<1> DEFINE D == {}
<1>1. /\ D \in SUBSET (Threads \ StaticThreads) /\ \A t \in D : kern.stat[t] # "CLOSE"
      /\ \A y : Linked(kern'.defunct, y) <=> Linked(kern.defunct, y) \/ y \in D
      /\ \A t \in Threads \ StaticThreads :
           kern'.stat[t] = "CLOSE" <=> kern.stat[t] = "CLOSE" \/ t \in D
  OBVIOUS
<1> HIDE DEF D
<1> QED BY <1>1, ClosingStep

\* The handlers that are still active want to resume the threads they wanted
\* to resume before, and no started thread has been deleted.
LEMMA FramesStep ==
  ASSUME IInv,
         \A t \in Threads : Started(t) => Started(t)',
         isr' = isr
           \/ \A i \in DOMAIN isr' : isr'[i].at = "resume" =>
                \E j \in DOMAIN isr : isr[j].at = "resume" /\ isr[j].arg = isr'[i].arg
  PROVE  FramesOK'
<1>1. FramesOK /\ \A i \in DOMAIN isr : isr[i].arg \in Threads
  BY FrameType DEF IInv, TypeOK, Frames
<1> QED BY <1>1 DEF FramesOK

\* The invariant in the form the steps use it.
LEMMA Facts ==
  ASSUME IInv
  PROVE  /\ kern \in Kernels /\ kern.current \in Threads /\ kern.lock_nest \in Nat
         /\ kern.stat \in [Threads -> Stats] /\ kern.lock_nest <= MaxNest
         /\ kern.remaining_tick \in [Threads -> Nat]
         /\ \A t \in Threads : kern.remaining_tick[t] \in 1 .. InitTick[t]
         /\ TimersOK(Threads, timers) /\ \A t \in timers.act : kern.stat[t] = "SUSPEND"
         /\ timers.act \subseteq Threads
         /\ rt_tick \in Ticks /\ pc \in [Threads -> Labels] /\ arg \in [Threads -> Threads]
         /\ isr \in Seq(Frames) /\ cleaned \in [Threads -> Nat]
         /\ KernelOK(kern, Removing) /\ idle \in Threads
         /\ kern.stat[idle] \in {"READY", "RUNNING"}
         /\ pc[idle] \in {"run", "reap", "free"}
         /\ \A t \in App : pc[t] \notin {"reap", "free"}
         /\ kern.stat[kern.current] \in {"RUNNING", "SUSPEND", "CLOSE"}
         /\ \A t \in Threads : kern.stat[t] = "RUNNING" => t = kern.current
         /\ (kern.stat[kern.current] = "CLOSE"
              => pc[kern.current] = "schedule" /\ kern.lock_nest = 0)
         /\ FramesOK
BY ThreadsAssumption
   DEF IInv, TypeOK, Kernels, TimersOK, Bases, TimeoutFindsSuspended, KernelOK, IdleOK,
       CallsOK, App

\* thread->stat after rt_schedule, as the other invariants need it.
LEMMA AfterSchedule ==
  ASSUME NEW k, KernelOK(k, {})
  PROVE  LET r == rt_schedule(k)
         IN  /\ KernelOK(r, {}) /\ Rescheduled(k, r)
             /\ \A t \in Threads :
                  /\ k.stat[t] \in {"READY", "RUNNING"} <=> r.stat[t] \in {"READY", "RUNNING"}
                  /\ \A s \in {"SUSPEND", "CLOSE", "INIT", "NONE"} :
                       k.stat[t] = s <=> r.stat[t] = s
<1>1. /\ KernelOK(rt_schedule(k), {}) /\ Rescheduled(k, rt_schedule(k))
  BY ScheduleOK
<1> QED BY <1>1 DEF Rescheduled

\* The current thread is not closed after a rt_schedule that may switch, as
\* the idle thread is ready.
LEMMA LeavesClosed ==
  ASSUME NEW k, KernelOK(k, {}), NEW i \in Threads, k.stat[i] \in {"READY", "RUNNING"},
         k.stat[k.current] = "CLOSE", k.lock_nest = 0
  PROVE  rt_schedule(k).stat[rt_schedule(k).current] = "RUNNING"
<1>1. k.stat[i] = "READY" /\ Queued(k, i)
  BY DEF KernelOK
<1>2. k.ready_group # {}
  BY <1>1 DEF Queued, Linked, KernelOK, QueuesOK
<1> QED BY <1>2, ScheduleOK

\* A current thread that is not closed stays so, or hands over to one that is
\* not.
LEMMA StaysOpen ==
  ASSUME NEW k, KernelOK(k, {}), k.stat[k.current] # "CLOSE"
  PROVE  rt_schedule(k).stat[rt_schedule(k).current] # "CLOSE"
BY ScheduleOK

\* A step of the current thread that ends or leaves a call.
LEMMA GotoQuiet ==
  ASSUME IInv, NEW t \in App, t = kern.current, NEW l \in {"run", "schedule", "dead"},
         Goto(t, l)
  PROVE  CallsQuiet' /\ pc'[idle] = pc[idle] /\ arg'[idle] = arg[idle] /\ pc'[t] = l
<1>1. /\ pc \in [Threads -> Labels] /\ arg \in [Threads -> Threads] /\ idle \in Threads
      /\ \A u \in Threads : pc[u] \in DOMAIN CallAt => u = t
      /\ \A u \in App : pc[u] \notin {"reap", "free"}
      /\ t \in Threads /\ t # idle
  BY Facts DEF IInv, CallsOK, App
<1>2. l \in Labels /\ l \notin DOMAIN CallAt
  BY DEF Labels, CallAt
<1>3. \A u \in Threads : pc'[u] = IF u = t THEN l ELSE pc[u]
  BY <1>1 DEF Goto
<1>4. pc' \in [Threads -> Labels] /\ arg' \in [Threads -> Threads] /\ arg'[idle] = arg[idle]
  BY <1>1, <1>2 DEF Goto
<1> QED BY <1>1, <1>2, <1>3, <1>4 DEF CallsQuiet, App

\* A step outside the calls made with interrupts disabled that begins none.
LEMMA SameQuiet ==
  ASSUME IInv, isr # <<>> \/ pc[kern.current] \notin DOMAIN CallAt, UNCHANGED <<pc, arg>>
  PROVE  CallsQuiet' /\ pc'[idle] = pc[idle] /\ arg'[idle] = arg[idle]
BY NothingMasked, Facts DEF CallsQuiet

\* The state rt_system_scheduler_start leaves satisfies the invariant.
THEOREM InitIInv == Init => IInv
<1> SUFFICES ASSUME Init PROVE IInv
  OBVIOUS
<1>1. /\ idle \in Threads /\ main \in Threads /\ idle # main /\ InitPrio \in [Threads -> Prios]
      /\ InitTick \in [Threads -> Nat \ {0}] /\ MaxNest \in Nat /\ 0 \in Ticks
  BY ThreadsAssumption, PrioAssumption, SliceAssumption, MaxNestAssumption, TickModAssumption
     DEF Ticks
<1> DEFINE Q == [p \in Prios |-> IF p = InitPrio[idle] THEN <<idle>> ELSE <<>>]
<1>2. /\ Q \in [Prios -> Seq(Threads)]
      /\ \A p \in Prios : Distinct(Q[p]) /\ (Q[p] # <<>> <=> p = InitPrio[idle])
      /\ \A p \in Prios : \A y : Linked(Q[p], y) <=> y = idle /\ p = InitPrio[idle]
  BY <1>1 DEF Linked, Distinct
<1>3. /\ kern.priority_table = Q /\ kern.ready_group = {InitPrio[idle]}
      /\ kern.current_priority = InitPrio /\ kern.current = main /\ kern.lock_nest = 0
      /\ kern.defunct = <<>> /\ kern.remaining_tick = InitTick
      /\ kern.stat = [t \in Threads |-> CASE t = main -> "RUNNING"
                                          [] t = idle -> "READY"
                                          [] OTHER -> "NONE"]
      /\ kern.number_mask = [t \in Threads |-> IF t \in {main, idle} THEN {InitPrio[t]} ELSE {}]
  BY DEF Init
<1>4. \A t \in Threads : kern.stat[t] = IF t = main THEN "RUNNING"
                                        ELSE IF t = idle THEN "READY" ELSE "NONE"
  BY <1>1, <1>3
<1>5. kern \in Kernels
  <2>1. kern.stat \in [Threads -> Stats]
    BY <1>3 DEF Stats
  <2>2. kern.number_mask \in [Threads -> SUBSET Prios]
    BY <1>1, <1>3
  <2>3. InitTick \in [Threads -> Nat]
    BY <1>1
  <2> QED BY <1>1, <1>2, <2>1, <2>2, <2>3 DEF Init, Kernels
<1> HIDE DEF Q
<1>6. \A y : ~Linked(kern.defunct, y)
  BY <1>3 DEF Linked
<1>7. KernelOK(kern, {})
  <2>1. QueuesOK(kern)
    <3>1. kern.ready_group = {p \in Prios : kern.priority_table[p] # <<>>}
      BY <1>1, <1>2, <1>3
    <3> QED BY <1>1, <1>2, <1>3, <1>5, <3>1 DEF QueuesOK, Distinct
  <2>2. \A y : Queued(kern, y) <=> y = idle
    BY <1>1, <1>2, <1>3 DEF Queued
  <2>3. \A t \in Threads : kern.number_mask[t] = IF t \in {main, idle} THEN {InitPrio[t]} ELSE {}
    BY <1>3
  <2> QED BY <1>1, <1>3, <1>4, <1>6, <2>1, <2>2, <2>3 DEF KernelOK
<1>8. \A t \in Threads : pc[t] = "run" /\ arg[t] = t
  BY DEF Init
<1>9. Removing = {}
  BY <1>8 DEF Removing, BeingRemoved
<1>10. TimersOK(Threads, timers) /\ timers.act = {}
  BY InitialTimers DEF Init
<1>11. TypeOK
  <2>1. pc \in [Threads -> Labels] /\ arg \in [Threads -> Threads] /\ cleaned \in [Threads -> Nat]
    BY DEF Init, Labels
  <2>2. isr \in Seq(Frames) /\ rt_tick \in Ticks
    BY <1>1 DEF Init
  <2>3. \A t \in Threads : kern.remaining_tick[t] \in 1 .. InitTick[t]
    BY <1>1, <1>3
  <2> QED BY <1>1, <1>3, <1>5, <1>10, <2>1, <2>2, <2>3 DEF TypeOK, TimersOK
<1>12. TimeoutFindsSuspended
  BY <1>10 DEF TimeoutFindsSuspended, TimersOK
<1>13. DefunctExact
  BY <1>1, <1>3, <1>4, <1>6, <1>8 DEF DefunctExact, Distinct
<1>14. CallsOK
  BY <1>8 DEF CallsOK, CallAt
<1>15. IdleOK
  BY <1>1, <1>3, <1>4, <1>8 DEF IdleOK
<1>16. FramesOK
  BY DEF Init, FramesOK
<1> QED BY <1>7, <1>9, <1>11, <1>12, <1>13, <1>14, <1>15, <1>16 DEF IInv

\* What At(t, l) says of the thread that moves.
LEMMA Mover ==
  ASSUME IInv, NEW t \in Threads, NEW l, At(t, l), l \in {"run", "schedule"}
  PROVE  /\ t = kern.current /\ Removing = {} /\ KernelOK(kern, {})
         /\ l = "schedule" => t \in App
         /\ l = "run" => kern.stat[t] \in {"RUNNING", "SUSPEND"}
<1>1. t = kern.current /\ pc[t] = l /\ l \notin DOMAIN CallAt
  BY DEF At, CallAt
<1> QED BY <1>1, NothingMasked, Facts DEF App

\* The rt_schedule at the end of a call preserves the invariant.
LEMMA ScheduleStep ==
  ASSUME IInv, NEW t \in Threads, ThreadSchedule(t)
  PROVE  IInv'
<1> DEFINE r == rt_schedule(kern)
<1>1. t = kern.current /\ t \in App /\ KernelOK(kern, {}) /\ pc[t] = "schedule"
  BY Mover DEF ThreadSchedule, At
<1>2. /\ KernelOK(r, {}) /\ Rescheduled(kern, r)
      /\ \A u \in Threads :
           /\ kern.stat[u] \in {"READY", "RUNNING"} <=> r.stat[u] \in {"READY", "RUNNING"}
           /\ \A x \in {"SUSPEND", "CLOSE", "INIT", "NONE"} :
                kern.stat[u] = x <=> r.stat[u] = x
  BY <1>1, AfterSchedule
<1>3. r.stat[r.current] # "CLOSE"
  BY <1>1, Facts, LeavesClosed, StaysOpen
<1>4. kern' = r /\ Goto(t, "run") /\ UNCHANGED <<timers, rt_tick, isr, cleaned>>
  BY DEF ThreadSchedule
<1> HIDE DEF r
<1>5. CallsQuiet' /\ pc'[idle] = pc[idle] /\ arg'[idle] = arg[idle]
  BY <1>1, <1>4, GotoQuiet
<1>6. FramesOK'
  BY <1>2, <1>4, FramesStep DEF Started
<1>7. \A u \in timers'.act : kern'.stat[u] = "SUSPEND"
  BY <1>2, <1>4, Facts
<1> QED BY <1>2, <1>3, <1>4, <1>5, <1>6, <1>7, Facts, QuietStep DEF Rescheduled

\* So does rt_schedule called in a handler.
LEMMA IsrScheduleStep ==
  ASSUME IInv, IsrSchedule
  PROVE  IInv'
<1> DEFINE r == rt_schedule(kern)
           a == IF isr[1].irq = "tick" THEN "check" ELSE "leave"
<1>1. isr # <<>> /\ KernelOK(kern, {})
  BY NothingMasked, Facts DEF IsrSchedule, FrameAt
<1>2. /\ KernelOK(r, {}) /\ Rescheduled(kern, r)
      /\ \A u \in Threads :
           /\ kern.stat[u] \in {"READY", "RUNNING"} <=> r.stat[u] \in {"READY", "RUNNING"}
           /\ \A x \in {"SUSPEND", "CLOSE", "INIT", "NONE"} :
                kern.stat[u] = x <=> r.stat[u] = x
  BY <1>1, AfterSchedule
<1>3. r.stat[r.current] # "CLOSE"
  BY <1>1, Facts, LeavesClosed, StaysOpen
<1>4. kern' = r /\ FrameGoto(a) /\ UNCHANGED <<timers, rt_tick, pc, arg, cleaned>>
  BY DEF IsrSchedule
<1>5. a \in {"schedule", "check", "firing", "leave"}
  OBVIOUS
<1> HIDE DEF r, a
<1>6. /\ isr' \in Seq(Frames)
      /\ \A i \in DOMAIN isr' : isr'[i].at = "resume" =>
           i \in DOMAIN isr /\ isr[i].at = "resume" /\ isr[i].arg = isr'[i].arg
  BY <1>1, <1>4, <1>5, Facts, FrameUpdate
<1>7. CallsQuiet' /\ pc'[idle] = pc[idle] /\ arg'[idle] = arg[idle]
  BY <1>1, <1>4, SameQuiet
<1>8. FramesOK'
  BY <1>2, <1>4, <1>6, FramesStep DEF Started
<1>9. \A u \in timers'.act : kern'.stat[u] = "SUSPEND"
  BY <1>2, <1>4, Facts
<1> QED BY <1>2, <1>3, <1>4, <1>6, <1>7, <1>8, <1>9, Facts, QuietStep DEF Rescheduled

\* rt_thread_yield preserves the invariant.
LEMMA YieldStep ==
  ASSUME IInv, NEW t \in Threads, rt_thread_yield(t)
  PROVE  IInv'
<1> DEFINE k == [kern EXCEPT !.remaining_tick[t] = InitTick[t], !.yield = @ \cup {t}]
           r == rt_schedule(k)
<1>1. t = kern.current /\ t \in App /\ KernelOK(kern, {}) /\ kern.stat[t] # "CLOSE"
      /\ pc[t] \notin DOMAIN CallAt
  BY Mover DEF rt_thread_yield, Calling, At, CallAt
<1>2. /\ k \in Kernels /\ k.stat = kern.stat /\ k.current_priority = kern.current_priority
      /\ k.number_mask = kern.number_mask /\ k.priority_table = kern.priority_table
      /\ k.ready_group = kern.ready_group /\ k.current = kern.current
      /\ k.defunct = kern.defunct /\ k.lock_nest = kern.lock_nest
      /\ k.remaining_tick = [kern.remaining_tick EXCEPT ![t] = InitTick[t]]
  <2> DEFINE m == [kern.remaining_tick EXCEPT ![t] = InitTick[t]]
             y == kern.yield \cup {t}
  <2>1. kern \in Kernels /\ kern.remaining_tick \in [Threads -> Nat] /\ InitTick[t] \in Nat
    BY Facts, SliceAssumption
  <2>2. m \in [Threads -> Nat] /\ y \in SUBSET Threads
    BY <2>1 DEF Kernels
  <2>3. k = [kern EXCEPT !.remaining_tick = m, !.yield = y]
    BY <2>1 DEF Kernels
  <2> HIDE DEF k, m, y
  <2>4. k \in Kernels
    BY <2>1, <2>2, <2>3 DEF Kernels
  <2>5. /\ k.stat = kern.stat /\ k.current_priority = kern.current_priority
        /\ k.number_mask = kern.number_mask /\ k.priority_table = kern.priority_table
        /\ k.ready_group = kern.ready_group /\ k.current = kern.current
        /\ k.defunct = kern.defunct /\ k.lock_nest = kern.lock_nest /\ k.remaining_tick = m
    BY <2>1, <2>3 DEF Kernels
  <2> QED BY <2>4, <2>5 DEF m
<1>3. kern' = r /\ UNCHANGED <<timers, rt_tick, pc, arg, isr, cleaned>>
  BY DEF rt_thread_yield
<1> HIDE DEF k
<1>4. KernelOK(k, {})
  BY <1>1, <1>2, OtherFields
<1>5. /\ KernelOK(r, {}) /\ Rescheduled(k, r)
      /\ \A u \in Threads :
           /\ k.stat[u] \in {"READY", "RUNNING"} <=> r.stat[u] \in {"READY", "RUNNING"}
           /\ \A x \in {"SUSPEND", "CLOSE", "INIT", "NONE"} :
                k.stat[u] = x <=> r.stat[u] = x
  BY <1>4, AfterSchedule
<1>6. r.stat[r.current] # "CLOSE"
  BY <1>1, <1>2, <1>4, StaysOpen
<1> HIDE DEF r
<1>7. CallsQuiet' /\ pc'[idle] = pc[idle] /\ arg'[idle] = arg[idle]
  BY <1>1, <1>3, SameQuiet
<1>8. FramesOK'
  BY <1>2, <1>3, <1>5, FramesStep DEF Started
<1>9. \A u \in timers'.act : kern'.stat[u] = "SUSPEND"
  BY <1>2, <1>3, <1>5, Facts
<1>10. \A u \in Threads : r.remaining_tick[u] \in 1 .. InitTick[u]
  <2>1. \A u \in Threads : InitTick[u] \in Nat \ {0}
    BY SliceAssumption
  <2> QED BY <1>2, <1>5, <2>1, Facts DEF Rescheduled
<1> QED BY <1>2, <1>3, <1>5, <1>6, <1>7, <1>8, <1>9, <1>10, Facts, QuietStep DEF Rescheduled

\* rt_enter_critical and rt_exit_critical preserve the invariant.
LEMMA CriticalStep ==
  ASSUME IInv, NEW t \in Threads, EnterCritical(t) \/ ExitCritical(t)
  PROVE  IInv'
<1>1. /\ t = kern.current /\ t \in App /\ KernelOK(kern, {}) /\ kern.stat[t] # "CLOSE"
      /\ pc[t] \notin DOMAIN CallAt
  BY Mover DEF EnterCritical, ExitCritical, Calling, At, CallAt
<1>2. /\ kern' \in Kernels /\ kern'.lock_nest <= MaxNest
      /\ kern'.stat = kern.stat /\ kern'.current_priority = kern.current_priority
      /\ kern'.number_mask = kern.number_mask /\ kern'.priority_table = kern.priority_table
      /\ kern'.ready_group = kern.ready_group /\ kern'.current = kern.current
      /\ kern'.defunct = kern.defunct /\ kern'.remaining_tick = kern.remaining_tick
  <2>1. CASE EnterCritical(t)
    <3> DEFINE n == kern.lock_nest + 1
    <3>1. n \in Nat /\ n <= MaxNest
      BY <2>1, Facts, MaxNestAssumption DEF EnterCritical
    <3>2. kern \in Kernels /\ kern' = [kern EXCEPT !.lock_nest = n]
      BY <2>1, Facts DEF EnterCritical, rt_enter_critical
    <3> HIDE DEF n
    <3> QED BY <3>1, <3>2 DEF Kernels
  <2>2. CASE ExitCritical(t)
    <3> DEFINE n == IF kern.lock_nest <= 1 THEN 0 ELSE kern.lock_nest - 1
    <3>1. n \in Nat /\ n <= MaxNest
      BY Facts, MaxNestAssumption
    <3>2. kern \in Kernels /\ kern' = [kern EXCEPT !.lock_nest = n]
      <4>1. kern \in Kernels /\ kern' = leave_critical(kern)
        BY <2>2, Facts DEF ExitCritical
      <4>2. leave_critical(kern) = [kern EXCEPT !.lock_nest = n]
        BY DEF leave_critical
      <4> QED BY <4>1, <4>2
    <3> HIDE DEF n
    <3> QED BY <3>1, <3>2 DEF Kernels
  <2> QED BY <2>1, <2>2
<1>3. UNCHANGED <<timers, rt_tick, isr, cleaned>>
  BY DEF EnterCritical, ExitCritical
<1>4. KernelOK(kern', {})
  BY <1>1, <1>2, OtherFields
<1>5. CallsQuiet' /\ pc'[idle] = pc[idle] /\ arg'[idle] = arg[idle]
  <2>1. CASE EnterCritical(t)
    BY <1>1, <2>1, SameQuiet DEF EnterCritical
  <2>2. CASE ExitCritical(t)
    BY <1>1, <2>2, GotoQuiet DEF ExitCritical
  <2> QED BY <2>1, <2>2
<1>6. FramesOK'
  BY <1>2, <1>3, FramesStep DEF Started
<1> QED BY <1>1, <1>2, <1>3, <1>4, <1>5, <1>6, Facts, QuietStep

\* RT_THREAD_CTRL_CHANGE_PRIORITY preserves the invariant: a READY thread
\* moves to the queue of its new priority, any other only changes its fields.
LEMMA ControlStep ==
  ASSUME IInv, NEW t \in Threads, NEW u \in Threads, NEW p \in Prios,
         rt_thread_control_priority(t, u, p)
  PROVE  IInv'
<1>1. /\ t = kern.current /\ KernelOK(kern, {}) /\ kern.stat[t] # "CLOSE"
      /\ pc[t] \notin DOMAIN CallAt
  BY Mover DEF rt_thread_control_priority, Calling, At, CallAt
<1>2. UNCHANGED <<timers, rt_tick, pc, arg, isr, cleaned>>
  BY DEF rt_thread_control_priority
<1>3. /\ KernelOK(kern', {}) /\ kern'.stat = kern.stat /\ kern'.current = kern.current
      /\ kern'.remaining_tick = kern.remaining_tick /\ kern'.lock_nest = kern.lock_nest
      /\ \A y : Linked(kern'.defunct, y) <=> Linked(kern.defunct, y)
  <2>1. CASE kern.stat[u] = "READY"
    BY <1>1, <2>1, RequeuedOK DEF rt_thread_control_priority
  <2>2. CASE kern.stat[u] # "READY"
    <3>1. ~Queued(kern, u)
      BY <1>1, <2>2 DEF KernelOK
    <3>2. kern' = Reprioritised(kern, u, p)
      BY <2>2 DEF rt_thread_control_priority
    <3> QED BY <1>1, <3>1, <3>2, ReprioritisedOK
  <2> QED BY <2>1, <2>2
<1>4. CallsQuiet' /\ pc'[idle] = pc[idle] /\ arg'[idle] = arg[idle]
  BY <1>1, <1>2, SameQuiet
<1>5. FramesOK'
  BY <1>2, <1>3, FramesStep DEF Started
<1> QED BY <1>1, <1>2, <1>3, <1>4, <1>5, Facts, QuietStep

\* rt_thread_create and rt_thread_init preserve the invariant.
LEMMA CreateStep ==
  ASSUME IInv, NEW t \in Threads, NEW u \in Threads, rt_thread_create(t, u)
  PROVE  IInv'
<1>1. /\ t = kern.current /\ t \in App /\ KernelOK(kern, {}) /\ Removing = {}
      /\ kern.stat[t] \in {"RUNNING", "SUSPEND"} /\ pc[t] \notin DOMAIN CallAt
  BY Mover DEF rt_thread_create, Calling, At, CallAt
<1>2. /\ u \in App /\ u # idle /\ kern.stat[u] \in {"NONE", "CLOSE"} /\ u # kern.current
      /\ (kern.stat[u] = "CLOSE" => u \in StaticThreads)
  BY <1>1 DEF rt_thread_create, App
<1>3. ~Linked(kern.defunct, u)
  BY <1>1, <1>2 DEF KernelOK, IInv, DefunctExact
<1>4. /\ kern' \in Kernels /\ kern'.stat = [kern.stat EXCEPT ![u] = "INIT"]
      /\ kern'.current = kern.current /\ kern'.priority_table = kern.priority_table
      /\ kern'.ready_group = kern.ready_group /\ kern'.defunct = kern.defunct
      /\ kern'.current_priority = [kern.current_priority EXCEPT ![u] = InitPrio[u]]
      /\ kern'.number_mask = [kern.number_mask EXCEPT ![u] = {}]
      /\ kern'.remaining_tick = [kern.remaining_tick EXCEPT ![u] = InitTick[u]]
      /\ kern'.lock_nest = kern.lock_nest
  <2>1. InitPrio[u] \in Prios /\ InitTick[u] \in Nat /\ "INIT" \in Stats
    BY PrioAssumption, SliceAssumption DEF Stats
  <2>2. kern \in Kernels
    BY Facts
  <2>3. kern' = [kern EXCEPT !.stat[u] = "INIT", !.yield = @ \ {u},
                             !.current_priority[u] = InitPrio[u],
                             !.number_mask[u] = {}, !.remaining_tick[u] = InitTick[u]]
    BY DEF rt_thread_create
  <2> DEFINE s == [kern.stat EXCEPT ![u] = "INIT"]
             p == [kern.current_priority EXCEPT ![u] = InitPrio[u]]
             m == [kern.number_mask EXCEPT ![u] = {}]
             r == [kern.remaining_tick EXCEPT ![u] = InitTick[u]]
             y == kern.yield \ {u}
  <2>4. kern' = [kern EXCEPT !.stat = s, !.yield = y, !.current_priority = p,
                             !.number_mask = m, !.remaining_tick = r]
    BY <2>2, <2>3 DEF Kernels
  <2>5. /\ s \in [Threads -> Stats] /\ p \in [Threads -> Prios]
        /\ m \in [Threads -> SUBSET Prios] /\ r \in [Threads -> Nat] /\ y \in SUBSET Threads
    BY <2>1, <2>2 DEF Kernels
  <2> HIDE DEF s, p, m, r, y
  <2>6. kern' \in Kernels
    BY <2>2, <2>4, <2>5 DEF Kernels
  <2>7. /\ kern'.stat = s /\ kern'.current = kern.current
        /\ kern'.priority_table = kern.priority_table
        /\ kern'.ready_group = kern.ready_group /\ kern'.defunct = kern.defunct
        /\ kern'.current_priority = p /\ kern'.number_mask = m
        /\ kern'.remaining_tick = r /\ kern'.lock_nest = kern.lock_nest
    BY <2>2, <2>4 DEF Kernels
  <2> QED BY <2>6, <2>7 DEF s, p, m, r
<1>5. KernelOK(kern', {})
  <2>1. /\ kern'.stat[u] \in {"NONE", "INIT"}
        /\ kern'.number_mask[u] \subseteq {kern'.current_priority[u]}
        /\ \A y \in Threads \ {u} :
             /\ kern'.stat[y] = kern.stat[y]
             /\ kern'.current_priority[y] = kern.current_priority[y]
             /\ kern'.number_mask[y] = kern.number_mask[y]
    BY <1>4, Facts DEF Kernels
  <2>2. /\ kern' \in Kernels /\ kern'.current = kern.current
        /\ kern'.priority_table = kern.priority_table
        /\ kern'.ready_group = kern.ready_group /\ kern'.defunct = kern.defunct
    BY <1>4
  <2> QED BY <1>1, <1>2, <1>3, <2>1, <2>2, RecreatedOK
<1>6. u \notin timers.act
  BY <1>2, Facts
<1>7. TimersOK(Threads, timers') /\ timers'.act = timers.act
  <2>1. 0 \in Durations
    <3>1. 0 < (TickMod - 1) \div 2
      BY TickModAssumption
    <3> QED BY <3>1, TickModAssumption DEF Ticks, Durations, RT_TICK_MAX
  <2> QED BY <1>6, <2>1, Facts, InitTimerOK DEF rt_thread_create
<1>8. UNCHANGED <<rt_tick, isr>> /\ cleaned' \in [Threads -> Nat]
  BY Facts DEF rt_thread_create
<1>9. CallsQuiet' /\ pc'[idle] = pc[idle] /\ arg'[idle] = arg[idle]
  <2>1. \A x \in Threads : pc[x] \notin DOMAIN CallAt
    BY <1>1, NothingMasked
  <2>2. /\ pc' = [pc EXCEPT ![u] = "run"] /\ arg' = [arg EXCEPT ![u] = u]
        /\ "run" \in Labels /\ "run" \notin DOMAIN CallAt
    BY DEF rt_thread_create, Labels, CallAt
  <2>3. /\ pc \in [Threads -> Labels] /\ arg \in [Threads -> Threads] /\ idle \in Threads
        /\ \A x \in App : pc[x] \notin {"reap", "free"}
    BY Facts
  <2>4. \A x \in Threads : pc'[x] = IF x = u THEN "run" ELSE pc[x]
    BY <2>2, <2>3
  <2>5. pc' \in [Threads -> Labels] /\ arg' \in [Threads -> Threads]
    BY <2>2, <2>3
  <2>6. \A x \in App : x \in Threads /\ pc'[x] \notin {"reap", "free"}
    BY <2>3, <2>4 DEF App
  <2> QED BY <1>2, <2>1, <2>2, <2>3, <2>4, <2>5, <2>6 DEF CallsQuiet
<1>10. \A x \in Threads : kern'.stat[x] = IF x = u THEN "INIT" ELSE kern.stat[x]
  BY <1>4, Facts
<1>11. FramesOK'
  BY <1>2, <1>8, <1>10, FramesStep DEF Started
<1>12. \A x \in Threads : kern'.remaining_tick[x] \in 1 .. InitTick[x]
  <2>1. \A x \in Threads : InitTick[x] \in Nat \ {0}
    BY SliceAssumption
  <2>2. /\ kern.remaining_tick \in [Threads -> Nat]
        /\ \A x \in Threads : kern.remaining_tick[x] \in 1 .. InitTick[x]
    BY Facts
  <2>3. kern'.remaining_tick = [kern.remaining_tick EXCEPT ![u] = InitTick[u]]
    BY <1>4
  <2>4. \A x \in Threads :
          kern'.remaining_tick[x] = IF x = u THEN InitTick[x] ELSE kern.remaining_tick[x]
    BY <2>2, <2>3
  <2> QED BY <2>1, <2>2, <2>4
<1>13. \A x \in timers'.act : kern'.stat[x] = "SUSPEND"
  BY <1>6, <1>7, <1>10, Facts
<1>14. \A x \in Threads \ StaticThreads : kern'.stat[x] = "CLOSE" <=> kern.stat[x] = "CLOSE"
  BY <1>2, <1>10
<1>15. kern'.stat[idle] \in {"READY", "RUNNING"} /\ kern'.stat[kern'.current] # "CLOSE"
  BY <1>1, <1>2, <1>4, <1>10, Facts
<1> QED BY <1>4, <1>5, <1>7, <1>8, <1>9, <1>11, <1>12, <1>13, <1>14, <1>15, Facts, QuietStep

\* rt_thread_startup preserves the invariant.
LEMMA StartupStep ==
  ASSUME IInv, NEW t \in Threads, NEW u \in Threads, rt_thread_startup(t, u)
  PROVE  IInv'
<1>1. /\ t = kern.current /\ t \in App /\ KernelOK(kern, {})
      /\ kern.stat[t] \in {"RUNNING", "SUSPEND"} /\ kern.stat[u] = "INIT"
  BY Mover DEF rt_thread_startup, Calling
<1>2. /\ KernelOK(kern', {}) /\ kern'.stat = [kern.stat EXCEPT ![u] = "READY"]
      /\ kern'.remaining_tick = kern.remaining_tick /\ kern'.current = kern.current
      /\ kern'.lock_nest = kern.lock_nest
      /\ \A y : Linked(kern'.defunct, y) <=> Linked(kern.defunct, y)
  <2>1. kern' = Resumed(StartedUp(kern, u), u)
    BY DEF rt_thread_startup
  <2> QED BY <1>1, <2>1, StartedOK
<1>3. TimersOK(Threads, timers') /\ timers'.act = timers.act \ {u}
  BY Facts, StopOK DEF rt_thread_startup
<1>4. Goto(t, "schedule") /\ UNCHANGED <<rt_tick, isr, cleaned>>
  BY DEF rt_thread_startup
<1>5. CallsQuiet' /\ pc'[idle] = pc[idle] /\ arg'[idle] = arg[idle]
  BY <1>1, <1>4, GotoQuiet
<1>6. \A x \in Threads : kern'.stat[x] = IF x = u THEN "READY" ELSE kern.stat[x]
  BY <1>2, Facts
<1>7. FramesOK'
  BY <1>4, <1>6, FramesStep DEF Started
<1>8. \A x \in timers'.act : kern'.stat[x] = "SUSPEND"
  BY <1>3, <1>6, Facts
<1>9. \A x \in Threads \ StaticThreads : kern'.stat[x] = "CLOSE" <=> kern.stat[x] = "CLOSE"
  BY <1>1, <1>6
<1>10. kern'.stat[idle] \in {"READY", "RUNNING"} /\ kern'.stat[kern'.current] # "CLOSE"
  BY <1>1, <1>2, <1>6, Facts
<1> QED BY <1>2, <1>3, <1>4, <1>5, <1>7, <1>8, <1>9, <1>10, Facts, QuietStep

\* rt_thread_sleep preserves the invariant: the timer is active only once the
\* thread is suspended.
LEMMA SleepStep ==
  ASSUME IInv, NEW t \in Threads, NEW d \in SleepTicks, rt_thread_sleep(t, d)
  PROVE  IInv'
<1> DEFINE runs == kern.stat[t] \in {"READY", "RUNNING"}
           stopped == IF runs THEN rt_timer_stop(timers, t) ELSE timers
           set == timer_set_time(stopped, t, d)
<1>1. /\ t = kern.current /\ t \in App /\ KernelOK(kern, {})
      /\ kern.stat[t] \in {"RUNNING", "SUSPEND"} /\ t # idle
  BY Mover DEF rt_thread_sleep, Calling, App
<1>2. /\ kern' = IF runs THEN Suspended(kern, t) ELSE kern
      /\ timers' = rt_timer_start(set, t, rt_tick)
      /\ Goto(t, "schedule") /\ UNCHANGED <<rt_tick, isr, cleaned>>
  BY DEF rt_thread_sleep
<1>3. /\ KernelOK(kern', {}) /\ kern'.stat = [kern.stat EXCEPT ![t] = "SUSPEND"]
      /\ kern'.remaining_tick = kern.remaining_tick /\ kern'.current = kern.current
      /\ kern'.lock_nest = kern.lock_nest
      /\ \A y : Linked(kern'.defunct, y) <=> Linked(kern.defunct, y)
  <2>1. CASE runs
    BY <1>1, <1>2, <2>1, SuspendedOK DEF StatChanged
  <2>2. CASE ~runs
    <3>1. kern.stat = [kern.stat EXCEPT ![t] = "SUSPEND"]
      BY <1>1, <2>2, Facts
    <3> QED BY <1>1, <1>2, <2>2, <3>1
  <2> QED BY <2>1, <2>2
<1>4. TimersOK(Threads, stopped) /\ stopped.act \subseteq timers.act
  BY Facts, StopOK
<1> HIDE DEF stopped
<1>5. TimersOK(Threads, set) /\ set.act = stopped.act
  BY <1>4, SetTimeOK, SleepAssumption
<1> HIDE DEF set
<1>6. TimersOK(Threads, timers') /\ timers'.act \subseteq timers.act \cup {t}
  BY <1>2, <1>4, <1>5, StartOK, Facts
<1>7. CallsQuiet' /\ pc'[idle] = pc[idle] /\ arg'[idle] = arg[idle]
  BY <1>1, <1>2, GotoQuiet
<1>8. \A x \in Threads : kern'.stat[x] = IF x = t THEN "SUSPEND" ELSE kern.stat[x]
  BY <1>3, Facts
<1>9. FramesOK'
  BY <1>1, <1>2, <1>8, FramesStep DEF Started
<1>10. \A x \in timers'.act : kern'.stat[x] = "SUSPEND"
  BY <1>6, <1>8, Facts
<1>11. \A x \in Threads \ StaticThreads : kern'.stat[x] = "CLOSE" <=> kern.stat[x] = "CLOSE"
  BY <1>1, <1>8
<1>12. kern'.stat[idle] \in {"READY", "RUNNING"} /\ kern'.stat[kern'.current] # "CLOSE"
  BY <1>1, <1>3, <1>8, Facts
<1> QED BY <1>2, <1>3, <1>6, <1>7, <1>9, <1>10, <1>11, <1>12, Facts, QuietStep

\* Between the check and the masked part of rt_thread_suspend or
\* rt_thread_resume the checked state cannot change.
LEMMA MidCall ==
  ASSUME IInv, NEW t \in Threads, NEW l \in {"suspend", "resume"}, At(t, l)
  PROVE  /\ t = kern.current /\ t \in App /\ KernelOK(kern, {})
         /\ arg[t] \in Threads /\ kern.stat[t] # "CLOSE"
         /\ l = "suspend" => kern.stat[arg[t]] \in {"READY", "RUNNING"} /\ arg[t] # idle
         /\ l = "resume" => kern.stat[arg[t]] = "SUSPEND"
<1>1. t = kern.current /\ pc[t] = l /\ {"suspend", "resume", "detach_timer", "close"} \subseteq DOMAIN CallAt
  BY DEF At, CallAt
<1>2. \A u \in Threads : pc[u] \in DOMAIN CallAt => u = t
  BY <1>1 DEF IInv, CallsOK
<1>3. Removing = {}
  BY <1>1, <1>2 DEF Removing, BeingRemoved
<1> QED BY <1>1, <1>3, Facts DEF App, IInv, CallsOK

\* The masked part of rt_thread_suspend preserves the invariant.
LEMMA SuspendStep ==
  ASSUME IInv, NEW t \in Threads, rt_thread_suspend(t)
  PROVE  IInv'
<1> DEFINE u == arg[t]
<1>1. /\ t = kern.current /\ t \in App /\ KernelOK(kern, {}) /\ u \in Threads
      /\ kern.stat[t] # "CLOSE" /\ u # idle /\ kern.stat[u] \in {"READY", "RUNNING"}
  BY MidCall DEF rt_thread_suspend
<1>2. /\ kern' = Suspended(kern, u) /\ timers' = rt_timer_stop(timers, u)
      /\ Goto(t, "schedule") /\ UNCHANGED <<rt_tick, isr, cleaned>>
  BY DEF rt_thread_suspend
<1> HIDE DEF u
<1>3. /\ KernelOK(kern', {}) /\ StatChanged(kern, u, kern', "SUSPEND")
      /\ \A y : Linked(kern'.defunct, y) <=> Linked(kern.defunct, y)
  BY <1>1, <1>2, SuspendedOK
<1>4. TimersOK(Threads, timers') /\ timers'.act = timers.act \ {u}
  BY <1>1, <1>2, Facts, StopOK
<1>5. CallsQuiet' /\ pc'[idle] = pc[idle] /\ arg'[idle] = arg[idle]
  BY <1>1, <1>2, GotoQuiet
<1>6. \A x \in Threads : kern'.stat[x] = IF x = u THEN "SUSPEND" ELSE kern.stat[x]
  BY <1>3, Facts DEF StatChanged
<1>7. FramesOK'
  BY <1>1, <1>2, <1>6, FramesStep DEF Started
<1>8. \A x \in timers'.act : kern'.stat[x] = "SUSPEND"
  BY <1>4, <1>6, Facts
<1>9. \A x \in Threads \ StaticThreads : kern'.stat[x] = "CLOSE" <=> kern.stat[x] = "CLOSE"
  BY <1>1, <1>6
<1>10. kern'.stat[idle] \in {"READY", "RUNNING"} /\ kern'.stat[kern'.current] # "CLOSE"
  BY <1>1, <1>3, <1>6, Facts DEF StatChanged
<1> QED BY <1>2, <1>3, <1>4, <1>5, <1>7, <1>8, <1>9, <1>10, Facts, QuietStep DEF StatChanged

\* The masked part of rt_thread_resume preserves the invariant.
LEMMA ResumeStep ==
  ASSUME IInv, NEW t \in Threads, rt_thread_resume(t)
  PROVE  IInv'
<1> DEFINE u == arg[t]
           s == IF u = kern.current THEN "RUNNING" ELSE "READY"
<1>1. /\ t = kern.current /\ t \in App /\ KernelOK(kern, {}) /\ u \in Threads
      /\ kern.stat[t] # "CLOSE" /\ kern.stat[u] = "SUSPEND"
  BY MidCall DEF rt_thread_resume
<1>2. /\ kern' = Resumed(kern, u) /\ timers' = rt_timer_stop(timers, u)
      /\ Goto(t, "schedule") /\ UNCHANGED <<rt_tick, isr, cleaned>>
  BY DEF rt_thread_resume
<1> HIDE DEF u
<1>3. /\ KernelOK(kern', {}) /\ StatChanged(kern, u, kern', s)
      /\ \A y : Linked(kern'.defunct, y) <=> Linked(kern.defunct, y)
  BY <1>1, <1>2, ResumedOK
<1>4. TimersOK(Threads, timers') /\ timers'.act = timers.act \ {u}
  BY <1>1, <1>2, Facts, StopOK
<1>5. CallsQuiet' /\ pc'[idle] = pc[idle] /\ arg'[idle] = arg[idle]
  BY <1>1, <1>2, GotoQuiet
<1>6. \A x \in Threads : kern'.stat[x] = IF x = u THEN s ELSE kern.stat[x]
  BY <1>3, Facts DEF StatChanged
<1>7. FramesOK'
  BY <1>1, <1>2, <1>6, FramesStep DEF Started
<1>8. \A x \in timers'.act : kern'.stat[x] = "SUSPEND"
  BY <1>4, <1>6, Facts
<1>9. \A x \in Threads \ StaticThreads : kern'.stat[x] = "CLOSE" <=> kern.stat[x] = "CLOSE"
  BY <1>1, <1>6
<1>10. kern'.stat[idle] \in {"READY", "RUNNING"} /\ kern'.stat[kern'.current] # "CLOSE"
  BY <1>1, <1>3, <1>6, Facts DEF StatChanged
<1> QED BY <1>2, <1>3, <1>4, <1>5, <1>7, <1>8, <1>9, <1>10, Facts, QuietStep DEF StatChanged

\* An interrupt is not taken inside the calls made with interrupts disabled.
LEMMA AcceptedUnmasked ==
  ASSUME IInv, DisciplinedCallers, NEW q, Accepts(q)
  PROVE  isr # <<>> \/ pc[kern.current] \notin DOMAIN CallAt
<1>1. MaskedAt = DOMAIN CallAt
  BY DEF MaskedAt, CallAt, DisciplinedCallers
<1> QED BY <1>1 DEF Accepts

\* rt_tick_increase preserves the invariant.
LEMMA TickStep ==
  ASSUME IInv, DisciplinedCallers, rt_tick_increase
  PROVE  IInv'
<1> DEFINE t == kern.current
           expired == kern.remaining_tick[t] = 1
           f == [irq |-> "tick", at |-> IF expired THEN "schedule" ELSE "check", arg |-> idle]
<1>1. /\ isr # <<>> \/ pc[kern.current] \notin DOMAIN CallAt
      /\ KernelOK(kern, {}) /\ t \in Threads
  BY AcceptedUnmasked, NothingMasked, Facts DEF rt_tick_increase
<1>2. /\ UNCHANGED <<timers, pc, arg, cleaned>> /\ isr' = <<f>> \o isr
      /\ rt_tick' = (rt_tick + 1) % TickMod
  BY DEF rt_tick_increase, Push
<1>3. /\ kern' \in Kernels /\ kern'.stat = kern.stat
      /\ kern'.current_priority = kern.current_priority
      /\ kern'.number_mask = kern.number_mask /\ kern'.priority_table = kern.priority_table
      /\ kern'.ready_group = kern.ready_group /\ kern'.current = kern.current
      /\ kern'.defunct = kern.defunct /\ kern'.lock_nest = kern.lock_nest
      /\ \A x \in Threads : kern'.remaining_tick[x] \in 1 .. InitTick[x]
  <2>1. \A x \in Threads : InitTick[x] \in Nat \ {0}
    BY SliceAssumption
  <2>2. CASE expired
    <3>1. /\ kern \in Kernels
          /\ kern' = [kern EXCEPT !.remaining_tick[t] = InitTick[t], !.yield = @ \cup {t}]
      BY <2>2, Facts DEF rt_tick_increase
    <3> DEFINE n == InitTick[t]
    <3>2. n \in Nat /\ n \in 1 .. InitTick[t]
      BY <1>1, <2>1
    <3>3. kern' = [kern EXCEPT !.remaining_tick = [kern.remaining_tick EXCEPT ![t] = n],
                               !.yield = kern.yield \cup {t}]
      BY <3>1 DEF Kernels
    <3> HIDE DEF n, t
    <3>4. kern'.remaining_tick = [kern.remaining_tick EXCEPT ![t] = n]
      BY <3>1, <3>3 DEF Kernels
    <3>5. \A x \in Threads : kern'.remaining_tick[x] \in 1 .. InitTick[x]
      BY <1>1, <3>2, <3>4, Facts
    <3>6. /\ [kern.remaining_tick EXCEPT ![t] = n] \in [Threads -> Nat]
          /\ kern.yield \cup {t} \in SUBSET Threads
      BY <1>1, <3>1, <3>2 DEF Kernels
    <3>7. kern' \in Kernels
      BY <3>1, <3>3, <3>6 DEF Kernels
    <3>8. /\ kern'.stat = kern.stat /\ kern'.current_priority = kern.current_priority
          /\ kern'.number_mask = kern.number_mask
          /\ kern'.priority_table = kern.priority_table
          /\ kern'.ready_group = kern.ready_group /\ kern'.current = kern.current
          /\ kern'.defunct = kern.defunct /\ kern'.lock_nest = kern.lock_nest
      BY <3>1, <3>3 DEF Kernels
    <3> QED BY <3>5, <3>7, <3>8
  <2>3. CASE ~expired
    <3> DEFINE n == kern.remaining_tick[t] - 1
    <3>1. /\ kern \in Kernels /\ kern' = [kern EXCEPT !.remaining_tick[t] = n]
      BY <2>3, Facts DEF rt_tick_increase
    <3>2. n \in Nat /\ n \in 1 .. InitTick[t]
      BY <1>1, <2>1, <2>3, Facts
    <3> HIDE DEF n
    <3>3. kern'.remaining_tick = [kern.remaining_tick EXCEPT ![t] = n]
      BY <3>1 DEF Kernels
    <3> HIDE DEF t
    <3>4. \A x \in Threads : kern'.remaining_tick[x] \in 1 .. InitTick[x]
      BY <1>1, <3>2, <3>3, Facts
    <3>5. kern' \in Kernels
      BY <1>1, <3>1, <3>2 DEF Kernels
    <3>6. /\ kern'.stat = kern.stat /\ kern'.current_priority = kern.current_priority
          /\ kern'.number_mask = kern.number_mask
          /\ kern'.priority_table = kern.priority_table
          /\ kern'.ready_group = kern.ready_group /\ kern'.current = kern.current
          /\ kern'.defunct = kern.defunct /\ kern'.lock_nest = kern.lock_nest
      BY <3>1 DEF Kernels
    <3> QED BY <3>4, <3>5, <3>6
  <2> QED BY <2>2, <2>3
<1>4. KernelOK(kern', {})
  BY <1>1, <1>3, OtherFields
<1>5. rt_tick' \in Ticks
  <2>1. rt_tick + 1 \in Int /\ TickMod \in Nat /\ TickMod >= 4
    BY Facts, TickModAssumption DEF Ticks
  <2>2. (rt_tick + 1) % TickMod \in 0 .. (TickMod - 1)
    BY <2>1
  <2> QED BY <1>2, <2>2 DEF Ticks
<1>6. f \in Frames /\ f.at # "resume"
  BY ThreadsAssumption DEF Frames
<1> HIDE DEF f
<1>7. isr' \in Seq(Frames)
      /\ \A i \in DOMAIN isr' : isr'[i].at = "resume" =>
           \E j \in DOMAIN isr : isr[j].at = "resume" /\ isr[j].arg = isr'[i].arg
  BY <1>2, <1>6, Facts, FramePush
<1>8. CallsQuiet' /\ pc'[idle] = pc[idle] /\ arg'[idle] = arg[idle]
  BY <1>1, <1>2, SameQuiet
<1>9. FramesOK'
  BY <1>3, <1>7, FramesStep DEF Started
<1> QED BY <1>2, <1>3, <1>4, <1>5, <1>7, <1>8, <1>9, Facts, QuietStep

\* An iteration of rt_timer_check, with rt_thread_timeout, preserves it.
LEMMA TimerCheckStep ==
  ASSUME IInv, rt_timer_check
  PROVE  IInv'
<1> DEFINE t == Head(timers.list)
           k == Resumed(kern, t)
           s == IF t = kern.current THEN "RUNNING" ELSE "READY"
           r == rt_schedule(k)
<1>1. /\ isr # <<>> /\ KernelOK(kern, {}) /\ timers.list # <<>>
      /\ timers' = rt_timer_detach(timers, t) /\ kern' = r /\ FrameGoto("firing")
      /\ UNCHANGED <<rt_tick, pc, arg, cleaned>>
  BY NothingMasked, Facts DEF rt_timer_check, FrameAt, HeadExpired
<1>2. t \in Threads /\ t \in timers.act /\ kern.stat[t] = "SUSPEND"
  <2>1. timers.list \in Seq(Threads) /\ \A x \in Threads : Linked(timers.list, x) => x \in timers.act
    BY Facts DEF TimersOK, Bases
  <2>2. t \in Threads /\ Linked(timers.list, t)
    BY <1>1, <2>1, ListHead
  <2> QED BY <2>1, <2>2, Facts
<1> HIDE DEF t
<1>3. /\ KernelOK(k, {}) /\ StatChanged(kern, t, k, s)
      /\ \A y : Linked(k.defunct, y) <=> Linked(kern.defunct, y)
  BY <1>1, <1>2, ResumedOK
<1> HIDE DEF k
<1>4. /\ KernelOK(r, {}) /\ Rescheduled(k, r)
      /\ \A u \in Threads :
           /\ k.stat[u] \in {"READY", "RUNNING"} <=> r.stat[u] \in {"READY", "RUNNING"}
           /\ \A x \in {"SUSPEND", "CLOSE", "INIT", "NONE"} :
                k.stat[u] = x <=> r.stat[u] = x
  BY <1>3, AfterSchedule
<1>5. \A x \in Threads : k.stat[x] = IF x = t THEN s ELSE kern.stat[x]
  BY <1>3, Facts DEF StatChanged
<1>6. r.stat[r.current] # "CLOSE"
  <2>1. k.stat[idle] \in {"READY", "RUNNING"}
    BY <1>5, Facts
  <2>2. k.stat[k.current] = "CLOSE" => k.lock_nest = 0
    BY <1>3, <1>5, Facts DEF StatChanged
  <2> QED BY <1>3, <2>1, <2>2, Facts, LeavesClosed, StaysOpen
<1> HIDE DEF r
<1>7. TimersOK(Threads, timers') /\ timers'.act = timers.act \ {t}
  BY <1>1, <1>2, Facts, DetachOK
<1>8. /\ isr' \in Seq(Frames)
      /\ \A i \in DOMAIN isr' : isr'[i].at = "resume" =>
           i \in DOMAIN isr /\ isr[i].at = "resume" /\ isr[i].arg = isr'[i].arg
  BY <1>1, Facts, FrameUpdate
<1>9. CallsQuiet' /\ pc'[idle] = pc[idle] /\ arg'[idle] = arg[idle]
  BY <1>1, SameQuiet
<1>10. FramesOK'
  <2>1. \A u \in Threads : Started(u) => Started(u)'
    BY <1>1, <1>4, <1>5 DEF Started
  <2> QED BY <1>8, <2>1, FramesStep
<1>11. \A u \in timers'.act : kern'.stat[u] = "SUSPEND"
  <2>1. \A u \in timers'.act : u \in Threads /\ u # t /\ kern.stat[u] = "SUSPEND"
    BY <1>7, Facts
  <2>2. \A u \in timers'.act : k.stat[u] = "SUSPEND"
    BY <1>5, <2>1
  <2> QED BY <1>1, <1>4, <2>1, <2>2
<1>12. \A u \in Threads \ StaticThreads : kern'.stat[u] = "CLOSE" <=> kern.stat[u] = "CLOSE"
  BY <1>1, <1>2, <1>4, <1>5
<1>13. kern'.stat[idle] \in {"READY", "RUNNING"}
  BY <1>1, <1>4, <1>5, Facts
<1>14. /\ kern'.lock_nest = kern.lock_nest /\ kern'.remaining_tick = kern.remaining_tick
       /\ \A y : Linked(kern'.defunct, y) <=> Linked(kern.defunct, y)
  BY <1>1, <1>3, <1>4 DEF StatChanged, Rescheduled
<1> QED BY <1>1, <1>4, <1>6, <1>7, <1>8, <1>9, <1>10, <1>11, <1>12, <1>13, <1>14,
           Facts, QuietStep

\* The resumption in a device handler preserves the invariant.
LEMMA DevResumeStep ==
  ASSUME IInv, DevResume
  PROVE  IInv'
<1> DEFINE u == isr[1].arg
           s == IF u = kern.current THEN "RUNNING" ELSE "READY"
<1>1. /\ isr # <<>> /\ KernelOK(kern, {}) /\ FrameGoto("schedule")
      /\ kern' = Resumed(kern, u) /\ timers' = rt_timer_stop(timers, u)
      /\ UNCHANGED <<rt_tick, pc, arg, cleaned>>
  BY NothingMasked, Facts DEF DevResume, FrameAt
<1>2. u \in Threads /\ kern.stat[u] \in {"READY", "RUNNING", "SUSPEND"}
  <2>1. 1 \in DOMAIN isr /\ isr[1] \in Frames /\ isr[1].at = "resume"
    BY <1>1, Facts, FrameType DEF DevResume, FrameAt
  <2> QED BY <2>1, Facts DEF Frames, FramesOK, Started
<1> HIDE DEF u
<1>3. /\ KernelOK(kern', {}) /\ StatChanged(kern, u, kern', s)
      /\ \A y : Linked(kern'.defunct, y) <=> Linked(kern.defunct, y)
  BY <1>1, <1>2, ResumedOK
<1>4. TimersOK(Threads, timers') /\ timers'.act = timers.act \ {u}
  BY <1>1, <1>2, Facts, StopOK
<1>5. CallsQuiet' /\ pc'[idle] = pc[idle] /\ arg'[idle] = arg[idle]
  BY <1>1, SameQuiet
<1>6. \A x \in Threads : kern'.stat[x] = IF x = u THEN s ELSE kern.stat[x]
  BY <1>3, Facts DEF StatChanged
<1>7. /\ isr' \in Seq(Frames)
      /\ \A i \in DOMAIN isr' : isr'[i].at = "resume" =>
           i \in DOMAIN isr /\ isr[i].at = "resume" /\ isr[i].arg = isr'[i].arg
  BY <1>1, Facts, FrameUpdate
<1>8. FramesOK'
  <2>1. \A x \in Threads : Started(x) => Started(x)'
    BY <1>6 DEF Started
  <2> QED BY <1>7, <2>1, FramesStep
<1>9. \A x \in timers'.act : kern'.stat[x] = "SUSPEND"
  BY <1>4, <1>6, Facts
<1>10. \A x \in Threads \ StaticThreads : kern'.stat[x] = "CLOSE" <=> kern.stat[x] = "CLOSE"
  BY <1>2, <1>6
<1>11. /\ kern'.stat[idle] \in {"READY", "RUNNING"}
       /\ kern'.stat[kern'.current] = "CLOSE"
            => pc'[kern'.current] = "schedule" /\ kern'.lock_nest = 0
  BY <1>1, <1>3, <1>6, Facts DEF StatChanged
<1> QED BY <1>1, <1>3, <1>4, <1>5, <1>7, <1>8, <1>9, <1>10, <1>11, Facts, QuietStep
        DEF StatChanged

\* The steps of handlers that touch the stack of handlers only.
LEMMA HandlerStep ==
  ASSUME IInv, TimerCheckDone \/ rt_interrupt_leave
  PROVE  IInv'
<1>1. isr # <<>> /\ KernelOK(kern, {}) /\ UNCHANGED <<kern, timers, rt_tick, pc, arg, cleaned>>
  BY NothingMasked, Facts DEF TimerCheckDone, rt_interrupt_leave, FrameAt
<1>2. /\ isr' \in Seq(Frames)
      /\ \A i \in DOMAIN isr' : isr'[i].at = "resume" =>
           \E j \in DOMAIN isr : isr[j].at = "resume" /\ isr[j].arg = isr'[i].arg
  <2>1. CASE TimerCheckDone
    BY <1>1, <2>1, Facts, FrameUpdate DEF TimerCheckDone
  <2>2. CASE rt_interrupt_leave
    BY <1>1, <2>2, Facts, FramePop DEF rt_interrupt_leave
  <2> QED BY <2>1, <2>2
<1>3. CallsQuiet' /\ pc'[idle] = pc[idle] /\ arg'[idle] = arg[idle]
  BY <1>1, SameQuiet
<1>4. FramesOK'
  BY <1>1, <1>2, FramesStep DEF Started
<1> QED BY <1>1, <1>2, <1>3, <1>4, Facts, QuietStep

\* The beginning of a device handler preserves the invariant.
LEMMA DevIrqStep ==
  ASSUME IInv, DisciplinedCallers, NEW u \in Threads, DevIrq(u)
  PROVE  IInv'
<1> DEFINE f == [irq |-> "dev", at |-> "resume", arg |-> u]
<1>1. /\ isr # <<>> \/ pc[kern.current] \notin DOMAIN CallAt
      /\ KernelOK(kern, {}) /\ kern.stat[u] = "SUSPEND"
  BY AcceptedUnmasked, NothingMasked, Facts DEF DevIrq
<1>2. UNCHANGED <<kern, timers, rt_tick, pc, arg, cleaned>> /\ isr' = <<f>> \o isr
  BY DEF DevIrq, Push
<1>3. f \in Frames /\ f.arg = u
  BY DEF Frames
<1> HIDE DEF f
<1>4. isr' \in Seq(Frames)
      /\ \A i \in DOMAIN isr' : isr'[i] = f \/ \E j \in DOMAIN isr : isr[j] = isr'[i]
  BY <1>2, <1>3, Facts, FramePush
<1>5. CallsQuiet' /\ pc'[idle] = pc[idle] /\ arg'[idle] = arg[idle]
  BY <1>1, <1>2, SameQuiet
<1>6. FramesOK'
  <2>1. \A j \in DOMAIN isr : isr[j].at = "resume" => Started(isr[j].arg)
    BY Facts DEF FramesOK
  <2>2. kern' = kern /\ Started(f.arg)
    BY <1>1, <1>2, <1>3 DEF Started
  <2>3. ASSUME NEW i \in DOMAIN isr', isr'[i].at = "resume"
        PROVE  Started(isr'[i].arg)
    BY <1>4, <2>1, <2>2, <2>3
  <2> QED BY <2>2, <2>3 DEF FramesOK, Started
<1> QED BY <1>1, <1>2, <1>4, <1>5, <1>6, Facts, QuietStep

\* The first step of rt_thread_resume, rt_thread_suspend and rt_thread_delete
\* reads thread->stat and goes on with interrupts disabled.
LEMMA CheckStep ==
  ASSUME IInv, NEW t \in App, At(t, "run"), NEW u \in Threads, NEW l \in DOMAIN CallAt,
         CallOn(t, l, u), UNCHANGED <<kern, timers, rt_tick, isr, cleaned>>,
         l = "resume" => kern.stat[u] = "SUSPEND",
         l = "suspend" => kern.stat[u] \in {"READY", "RUNNING"} /\ u # idle,
         l \in {"remove", "detach_timer"} =>
           Alive(u) /\ u # idle /\ (u = t => kern.lock_nest = 0),
         l = "detach_timer" => kern.stat[u] = "INIT",
         l # "close"
  PROVE  IInv'
<1>1. /\ t = kern.current /\ KernelOK(kern, {}) /\ Removing = {} /\ isr = <<>>
      /\ kern.stat[t] # "CLOSE" /\ t \in Threads /\ t # idle /\ idle \in Threads
      /\ \A x \in Threads : pc[x] \notin DOMAIN CallAt
  <2>1. "run" \notin DOMAIN CallAt
    BY DEF CallAt
  <2> QED BY <2>1, Mover, NothingMasked, Facts DEF App, At
<1>2. DOMAIN CallAt = {"suspend", "resume", "remove", "detach_timer", "close"}
  BY DEF CallAt
<1>3. /\ \A x \in Threads : /\ pc'[x] = IF x = t THEN l ELSE pc[x]
                            /\ arg'[x] = IF x = t THEN u ELSE arg[x]
      /\ pc' \in [Threads -> Labels] /\ arg' \in [Threads -> Threads]
  BY <1>1, <1>2, Facts DEF CallOn, Labels
<1>4. TypeOK' /\ TimeoutFindsSuspended'
  BY <1>3 DEF IInv, TypeOK, TimeoutFindsSuspended
<1>5. KernelOK(kern, Removing)'
  BY <1>1 DEF KernelOK
<1>6. DefunctExact' /\ IdleOK'
  <2>1. UNCHANGED kern /\ l \notin {"reap", "free", "run"} /\ pc[t] \notin {"reap", "free"}
    BY <1>1, <1>2, Facts DEF App
  <2>2. pc'[idle] = pc[idle] /\ arg'[idle] = arg[idle]
    BY <1>1, <1>3
  <2>3. DefunctExact /\ IdleOK
    BY DEF IInv
  <2>4. DefunctExact'
    BY <2>1, <2>2, <2>3 DEF DefunctExact
  <2>5. IdleOK'
    BY <1>1, <2>1, <2>2, <2>3 DEF IdleOK
  <2> QED BY <2>4, <2>5
<1>7. ~(l = "detach_timer" /\ Queued(kern, u))
  BY <1>1 DEF KernelOK
<1>8. CallsOK'
  BY <1>1, <1>2, <1>3, <1>7 DEF IInv, CallsOK, Alive
<1>9. FramesOK'
  BY DEF IInv, FramesOK, Started
<1> QED BY <1>4, <1>5, <1>6, <1>8, <1>9 DEF IInv

\* The unmasked checks of suspend, resume and delete preserve the invariant.
LEMMA ChecksStep ==
  ASSUME IInv, NEW t \in Threads, NEW u \in Threads,
         ResumeCheck(t, u) \/ SuspendCheck(t, u) \/ DeleteCheck(t, u)
  PROVE  IInv'
<1>1. t \in App /\ At(t, "run") /\ UNCHANGED <<kern, timers, rt_tick, isr, cleaned>>
  BY DEF ResumeCheck, SuspendCheck, DeleteCheck, Calling
<1>2. {"suspend", "resume", "remove", "detach_timer"} \subseteq DOMAIN CallAt
  BY DEF CallAt
<1>3. CASE ResumeCheck(t, u)
  BY <1>1, <1>2, <1>3, CheckStep DEF ResumeCheck
<1>4. CASE SuspendCheck(t, u)
  BY <1>1, <1>2, <1>4, CheckStep DEF SuspendCheck, App
<1>5. CASE DeleteCheck(t, u)
  <2> DEFINE l == IF kern.stat[u] = "INIT" THEN "detach_timer" ELSE "remove"
  <2>1. /\ CallOn(t, l, u) /\ u # idle /\ Alive(u) /\ (u = t => kern.lock_nest = 0)
    BY <1>5 DEF DeleteCheck, App
  <2>2. l \in {"remove", "detach_timer"} /\ (l = "detach_timer" => kern.stat[u] = "INIT")
    OBVIOUS
  <2> HIDE DEF l
  <2> QED BY <1>1, <1>2, <2>1, <2>2, CheckStep
<1> QED BY <1>3, <1>4, <1>5

\* Inside rt_thread_delete: the deleter is current, alone, and its victim is
\* alive and, once unlinked, in no queue.
LEMMA MidDelete ==
  ASSUME IInv, NEW t \in Threads, NEW l \in {"remove", "detach_timer", "close"}, At(t, l)
  PROVE  /\ t = kern.current /\ t \in App /\ isr = <<>> /\ pc[t] = l
         /\ arg[t] \in Threads /\ Alive(arg[t]) /\ arg[t] # idle
         /\ arg[t] = t => kern.lock_nest = 0
         /\ \A x \in Threads : x # t => pc[x] \notin DOMAIN CallAt
         /\ Removing = IF l = "remove" THEN {} ELSE {arg[t]}
         /\ l # "remove" => ~Queued(kern, arg[t])
         /\ l = "close" => arg[t] \notin timers.act
<1>1. t = kern.current /\ pc[t] = l /\ isr = <<>> /\ {"remove", "detach_timer", "close"} \subseteq DOMAIN CallAt
  BY DEF At, CallAt
<1>2. \A x \in Threads : x # t => pc[x] \notin DOMAIN CallAt
  BY <1>1 DEF IInv, CallsOK
<1>3. t \in App /\ arg[t] \in Threads
  BY <1>1, Facts DEF App, IInv, CallsOK
<1>4. Removing = IF l = "remove" THEN {} ELSE {arg[t]}
  BY <1>1, <1>2, <1>3 DEF Removing, BeingRemoved
<1> QED BY <1>1, <1>2, <1>3, <1>4 DEF IInv, CallsOK

\* Taking a thread to be deleted out of the scheduler preserves the invariant.
LEMMA DeleteRemoveStep ==
  ASSUME IInv, NEW t \in Threads, DeleteRemove(t)
  PROVE  IInv'
<1> DEFINE u == arg[t]
<1>1. /\ t = kern.current /\ t \in App /\ isr = <<>> /\ u \in Threads
      /\ Alive(u) /\ u # idle /\ (u = t => kern.lock_nest = 0)
      /\ \A x \in Threads : x # t => pc[x] \notin DOMAIN CallAt
      /\ KernelOK(kern, {}) /\ kern.stat[t] # "CLOSE"
  BY MidDelete, Facts DEF DeleteRemove
<1>2. /\ kern' = rt_schedule_remove_thread(kern, u) /\ arg' = arg
      /\ pc' = [pc EXCEPT ![t] = "detach_timer"]
      /\ UNCHANGED <<timers, rt_tick, isr, cleaned>>
  BY DEF DeleteRemove, Goto
<1>3. /\ KernelOK(kern', {u}) /\ SameThreads(kern, kern') /\ ~Queued(kern', u)
      /\ \A y : Linked(kern'.defunct, y) <=> Linked(kern.defunct, y)
  <2>1. kern.stat[u] # "CLOSE" /\ {} \cup {u} = {u}
    BY <1>1 DEF Alive
  <2>2. /\ KernelOK(kern', {} \cup {u}) /\ SameThreads(kern, kern') /\ ~Queued(kern', u)
        /\ \A y : Linked(kern'.defunct, y) <=> Linked(kern.defunct, y)
    <3> HIDE DEF u
    <3> QED BY <1>1, <1>2, <2>1, RemovedOK
  <2> QED BY <2>1, <2>2
<1>4. DOMAIN CallAt = {"suspend", "resume", "remove", "detach_timer", "close"}
  BY DEF CallAt
<1>5. /\ \A x \in Threads : pc'[x] = IF x = t THEN "detach_timer" ELSE pc[x]
      /\ pc' \in [Threads -> Labels] /\ t \in Threads /\ t # idle /\ idle \in Threads
  BY <1>1, <1>2, Facts DEF Labels, App
<1>6. kern' \in Kernels
  BY <1>3 DEF KernelOK, QueuesOK
<1>7. TypeOK' /\ TimeoutFindsSuspended'
  BY <1>2, <1>3, <1>5, <1>6 DEF IInv, TypeOK, TimeoutFindsSuspended, SameThreads
<1>8. KernelOK(kern, Removing)'
  <2>1. Removing' = {u}
    BY <1>1, <1>2, <1>4, <1>5 DEF Removing, BeingRemoved
  <2> QED BY <1>3, <2>1
<1>9. DefunctExact' /\ IdleOK'
  <2>1. Distinct(kern'.defunct) /\ kern'.stat = kern.stat /\ kern'.current = kern.current
        /\ kern'.lock_nest = kern.lock_nest /\ pc'[idle] = pc[idle] /\ arg'[idle] = arg[idle]
    BY <1>2, <1>3, <1>5 DEF KernelOK, QueuesOK, SameThreads
  <2>2. DefunctExact'
    BY <1>3, <2>1 DEF IInv, DefunctExact
  <2>3. IdleOK'
    BY <1>1, <1>3, <2>1 DEF IInv, IdleOK
  <2> QED BY <2>2, <2>3
<1>10. CallsOK'
  BY <1>1, <1>2, <1>3, <1>4, <1>5 DEF IInv, CallsOK, Alive, SameThreads
<1>11. FramesOK'
  BY <1>1, <1>2 DEF FramesOK
<1> QED BY <1>7, <1>8, <1>9, <1>10, <1>11 DEF IInv

\* Detaching its timer preserves the invariant.
LEMMA DeleteDetachTimerStep ==
  ASSUME IInv, NEW t \in Threads, DeleteDetachTimer(t)
  PROVE  IInv'
<1> DEFINE u == arg[t]
<1>1. /\ t = kern.current /\ t \in App /\ isr = <<>> /\ u \in Threads
      /\ Alive(u) /\ u # idle /\ (u = t => kern.lock_nest = 0)
      /\ \A x \in Threads : x # t => pc[x] \notin DOMAIN CallAt
      /\ KernelOK(kern, {u}) /\ kern.stat[t] # "CLOSE" /\ ~Queued(kern, u)
  BY MidDelete, Facts DEF DeleteDetachTimer
<1>2. /\ timers' = rt_timer_detach(timers, u) /\ arg' = arg
      /\ pc' = [pc EXCEPT ![t] = "close"] /\ cleaned' = [cleaned EXCEPT ![u] = @ + 1]
      /\ UNCHANGED <<kern, rt_tick, isr>>
  BY DEF DeleteDetachTimer, Goto
<1>3. TimersOK(Threads, timers') /\ timers'.act = timers.act \ {u}
  BY <1>1, <1>2, Facts, DetachOK
<1>4. DOMAIN CallAt = {"suspend", "resume", "remove", "detach_timer", "close"}
  BY DEF CallAt
<1>5. /\ \A x \in Threads : pc'[x] = IF x = t THEN "close" ELSE pc[x]
      /\ pc' \in [Threads -> Labels] /\ t \in Threads /\ t # idle /\ idle \in Threads
  BY <1>1, <1>2, Facts DEF Labels, App
<1>6. cleaned' \in [Threads -> Nat]
  BY <1>2, Facts
<1>7. TypeOK' /\ TimeoutFindsSuspended'
  BY <1>2, <1>3, <1>5, <1>6, Facts DEF IInv, TypeOK, TimeoutFindsSuspended, TimersOK
<1>8. KernelOK(kern, Removing)'
  <2>1. Removing' = {u}
    BY <1>1, <1>2, <1>4, <1>5 DEF Removing, BeingRemoved
  <2> QED BY <1>1, <1>2, <2>1
<1>9. DefunctExact' /\ IdleOK'
  <2>1. pc'[idle] = pc[idle] /\ arg'[idle] = arg[idle]
    BY <1>2, <1>5
  <2> QED BY <1>1, <1>2, <2>1 DEF IInv, DefunctExact, IdleOK
<1>10. CallsOK'
  BY <1>1, <1>2, <1>3, <1>4, <1>5 DEF IInv, CallsOK, Alive
<1>11. FramesOK'
  BY <1>1, <1>2 DEF FramesOK
<1> QED BY <1>7, <1>8, <1>9, <1>10, <1>11 DEF IInv

\* Closing and enqueueing it for the idle thread preserves the invariant.
LEMMA DeleteCloseStep ==
  ASSUME IInv, NEW t \in Threads, DeleteClose(t)
  PROVE  IInv'
<1> DEFINE u == arg[t]
           D == {u} \ StaticThreads
<1>1. /\ t = kern.current /\ t \in App /\ u \in Threads /\ pc[t] = "close"
      /\ Alive(u) /\ u # idle /\ (u = t => kern.lock_nest = 0) /\ u \notin timers.act
      /\ KernelOK(kern, {u}) /\ ~Queued(kern, u) /\ isr = <<>>
      /\ kern.stat[t] # "CLOSE" /\ kern.stat[u] # "CLOSE"
  BY MidDelete, Facts DEF DeleteClose, Alive
<1>2. /\ kern' = Closed(kern, u) /\ Goto(t, "schedule")
      /\ UNCHANGED <<timers, rt_tick, isr, cleaned>>
  BY DEF DeleteClose
<1> HIDE DEF u
<1>3. /\ KernelOK(kern', {}) /\ StatChanged(kern, u, kern', "CLOSE")
      /\ \A y : Linked(kern'.defunct, y)
                  <=> Linked(kern.defunct, y) \/ (y = u /\ u \notin StaticThreads)
  <2>1. {u} \ {u} = {}
    OBVIOUS
  <2>2. /\ KernelOK(kern', {u} \ {u}) /\ StatChanged(kern, u, kern', "CLOSE")
        /\ \A y : Linked(kern'.defunct, y)
                    <=> Linked(kern.defunct, y) \/ (y = u /\ u \notin StaticThreads)
    BY <1>1, <1>2, ClosedOK
  <2> QED BY <2>1, <2>2
<1>4. CallsQuiet' /\ pc'[idle] = pc[idle] /\ arg'[idle] = arg[idle] /\ pc'[t] = "schedule"
  BY <1>1, <1>2, GotoQuiet
<1>5. \A x \in Threads : kern'.stat[x] = IF x = u THEN "CLOSE" ELSE kern.stat[x]
  BY <1>3, Facts DEF StatChanged
<1>6. FramesOK'
  BY <1>1, <1>2 DEF FramesOK
<1>7. \A x \in timers'.act : kern'.stat[x] = "SUSPEND"
  BY <1>1, <1>2, <1>5, Facts
<1>8. /\ D \in SUBSET (Threads \ StaticThreads) /\ \A x \in D : kern.stat[x] # "CLOSE"
      /\ \A y : Linked(kern'.defunct, y) <=> Linked(kern.defunct, y) \/ y \in D
      /\ \A x \in Threads \ StaticThreads :
           kern'.stat[x] = "CLOSE" <=> kern.stat[x] = "CLOSE" \/ x \in D
  BY <1>1, <1>3, <1>5
<1> HIDE DEF D
<1>9. /\ kern'.stat[idle] \in {"READY", "RUNNING"} /\ kern'.lock_nest = kern.lock_nest
      /\ kern'.remaining_tick = kern.remaining_tick
      /\ kern'.stat[kern'.current] = "CLOSE"
           => pc'[kern'.current] = "schedule" /\ kern'.lock_nest = 0
  BY <1>1, <1>3, <1>4, <1>5, Facts DEF StatChanged
<1> QED BY <1>2, <1>3, <1>4, <1>6, <1>7, <1>8, <1>9, Facts, ClosingStep

\* _rt_thread_exit preserves the invariant.
LEMMA ExitStep ==
  ASSUME IInv, NEW t \in Threads, _rt_thread_exit(t)
  PROVE  IInv'
<1> DEFINE a == rt_schedule_remove_thread(kern, t)
           b == Closed(a, t)
           r == rt_schedule(b)
           D == {t} \ StaticThreads
<1>1. /\ t = kern.current /\ t \in App /\ t # idle /\ idle \in Threads /\ KernelOK(kern, {})
      /\ kern.stat[t] \in {"RUNNING", "SUSPEND"} /\ kern.lock_nest = 0
      /\ isr = <<>>
  BY Mover, Facts DEF _rt_thread_exit, Calling, At, App
<1>2. /\ kern' = r /\ timers' = rt_timer_detach(timers, t) /\ Goto(t, "dead")
      /\ UNCHANGED <<rt_tick, isr>> /\ cleaned' \in [Threads -> Nat]
  BY Facts DEF _rt_thread_exit
<1>3. /\ KernelOK(a, {t}) /\ SameThreads(kern, a) /\ ~Queued(a, t)
      /\ \A y : Linked(a.defunct, y) <=> Linked(kern.defunct, y)
  <2>1. kern.stat[t] # "CLOSE" /\ {} \cup {t} = {t}
    BY <1>1
  <2>2. /\ KernelOK(a, {} \cup {t}) /\ SameThreads(kern, a) /\ ~Queued(a, t)
        /\ \A y : Linked(a.defunct, y) <=> Linked(kern.defunct, y)
    BY <1>1, <2>1, RemovedOK
  <2> QED BY <2>1, <2>2
<1> HIDE DEF a
<1>4. /\ KernelOK(b, {}) /\ StatChanged(a, t, b, "CLOSE")
      /\ \A y : Linked(b.defunct, y)
                  <=> Linked(a.defunct, y) \/ (y = t /\ t \notin StaticThreads)
  <2>1. {t} \ {t} = {} /\ a.stat[t] # "CLOSE"
    BY <1>1, <1>3 DEF SameThreads
  <2>2. /\ KernelOK(b, {t} \ {t}) /\ StatChanged(a, t, b, "CLOSE")
        /\ \A y : Linked(b.defunct, y)
                    <=> Linked(a.defunct, y) \/ (y = t /\ t \notin StaticThreads)
    BY <1>3, <2>1, ClosedOK
  <2> QED BY <2>1, <2>2
<1> HIDE DEF b
<1>5. \A x \in Threads : b.stat[x] = IF x = t THEN "CLOSE" ELSE kern.stat[x]
  BY <1>3, <1>4, Facts DEF StatChanged, SameThreads
<1>6. /\ KernelOK(r, {}) /\ Rescheduled(b, r)
      /\ \A u \in Threads :
           /\ b.stat[u] \in {"READY", "RUNNING"} <=> r.stat[u] \in {"READY", "RUNNING"}
           /\ \A x \in {"SUSPEND", "CLOSE", "INIT", "NONE"} :
                b.stat[u] = x <=> r.stat[u] = x
  BY <1>4, AfterSchedule
<1>7. r.stat[r.current] = "RUNNING"
  <2>1. /\ b.stat[idle] \in {"READY", "RUNNING"} /\ b.stat[b.current] = "CLOSE"
        /\ b.lock_nest = 0
    BY <1>1, <1>3, <1>4, <1>5, Facts DEF StatChanged, SameThreads
  <2> QED BY <1>1, <1>4, <2>1, LeavesClosed
<1> HIDE DEF r
<1>8. TimersOK(Threads, timers') /\ timers'.act = timers.act \ {t}
  BY <1>2, Facts, DetachOK
<1>9. CallsQuiet' /\ pc'[idle] = pc[idle] /\ arg'[idle] = arg[idle]
  BY <1>1, <1>2, GotoQuiet
<1>10. FramesOK'
  BY <1>1, <1>2 DEF FramesOK
<1>11. \A x \in timers'.act : kern'.stat[x] = "SUSPEND"
  <2>1. \A x \in timers'.act : x \in Threads /\ b.stat[x] = "SUSPEND"
    BY <1>5, <1>8, Facts
  <2> QED BY <1>2, <1>6, <2>1
<1>12. /\ D \in SUBSET (Threads \ StaticThreads) /\ \A x \in D : kern.stat[x] # "CLOSE"
       /\ \A y : Linked(kern'.defunct, y) <=> Linked(kern.defunct, y) \/ y \in D
       /\ \A x \in Threads \ StaticThreads :
            kern'.stat[x] = "CLOSE" <=> kern.stat[x] = "CLOSE" \/ x \in D
  BY <1>1, <1>2, <1>3, <1>4, <1>5, <1>6 DEF Rescheduled
<1> HIDE DEF D
<1>13. kern'.stat[idle] \in {"READY", "RUNNING"} /\ kern'.stat[kern'.current] # "CLOSE"
  BY <1>1, <1>2, <1>5, <1>6, <1>7, Facts
<1>14. kern'.lock_nest = kern.lock_nest /\ kern'.remaining_tick = kern.remaining_tick
  BY <1>2, <1>3, <1>4, <1>6 DEF StatChanged, SameThreads, Rescheduled
<1>15. /\ KernelOK(kern', {}) /\ UNCHANGED rt_tick /\ cleaned' \in [Threads -> Nat]
       /\ isr' \in Seq(Frames)
  BY <1>2, <1>6, Facts
<1> QED BY <1>8, <1>9, <1>10, <1>11, <1>12, <1>13, <1>14, <1>15, Facts, ClosingStep

\* The reaper of the idle thread preserves the invariant.
LEMMA IdleStepStep ==
  ASSUME IInv, IdleStep
  PROVE  IInv'
<1> DEFINE u == arg[idle]
<1>1. /\ idle = kern.current /\ KernelOK(kern, {}) /\ isr = <<>> /\ idle \in Threads
      /\ u \in Threads /\ pc[idle] \in {"run", "reap", "free"}
      /\ \A t \in Threads : pc[t] \notin DOMAIN CallAt
      /\ kern.stat[idle] \in {"READY", "RUNNING"}
  <2>1. {"run", "reap", "free"} \cap DOMAIN CallAt = {}
    BY DEF CallAt
  <2> QED BY <2>1, NothingMasked, Facts
          DEF IdleStep, DefunctPick, rt_thread_defunct_dequeue, rt_defunct_execute, At
<1>2. /\ isr' = isr /\ timers' = timers /\ rt_tick' = rt_tick
  BY DEF IdleStep, DefunctPick, rt_thread_defunct_dequeue, rt_defunct_execute
<1>3. FramesOK'
  BY <1>1, <1>2 DEF FramesOK
<1>4. DOMAIN CallAt = {"suspend", "resume", "remove", "detach_timer", "close"}
  BY DEF CallAt
<1>5. CASE DefunctPick
  <2>1. /\ pc' = [pc EXCEPT ![idle] = "reap"] /\ kern.defunct # <<>> /\ pc[idle] = "run"
        /\ arg' = [arg EXCEPT ![idle] = Head(kern.defunct)] /\ UNCHANGED <<kern, cleaned>>
    BY <1>5 DEF DefunctPick, CallOn, At
  <2>2. Head(kern.defunct) \in Threads /\ Linked(kern.defunct, Head(kern.defunct))
    BY <2>1, Facts, ListHead DEF Kernels
  <2>3. TypeOK' /\ TimeoutFindsSuspended'
    BY <1>2, <2>1, <2>2 DEF IInv, TypeOK, TimeoutFindsSuspended, Labels
  <2>4. \A t \in Threads : pc'[t] = IF t = idle THEN "reap" ELSE pc[t]
    BY <2>1, Facts
  <2>5. Removing' = {}
    BY <1>1, <1>4, <2>4 DEF Removing, BeingRemoved
  <2>6. CallsOK' /\ KernelOK(kern, Removing)'
    BY <1>1, <1>4, <2>1, <2>4, <2>5 DEF IInv, CallsOK
  <2>7. DefunctExact' /\ IdleOK'
    BY <1>1, <2>1, <2>2, <2>4, Facts DEF IInv, DefunctExact, IdleOK
  <2> QED BY <1>3, <2>3, <2>6, <2>7 DEF IInv
<1>6. CASE rt_thread_defunct_dequeue
  <2>1. /\ pc' = [pc EXCEPT ![idle] = "free"] /\ arg' = arg /\ pc[idle] = "reap"
        /\ kern' = unlink_tlist(kern, u) /\ UNCHANGED cleaned
    BY <1>6 DEF rt_thread_defunct_dequeue, Goto, At
  <2>2. kern.stat[u] = "CLOSE" /\ Linked(kern.defunct, u) /\ u \notin StaticThreads
    BY <1>1, <2>1 DEF IInv, IdleOK, DefunctExact
  <2>3. /\ KernelOK(kern', {}) /\ SameThreads(kern, kern')
        /\ \A y : Linked(kern'.defunct, y) <=> Linked(kern.defunct, y) /\ y # u
    BY <1>1, <2>1, <2>2, DequeuedOK
  <2>4. \A t \in Threads : pc'[t] = IF t = idle THEN "free" ELSE pc[t]
    BY <2>1, Facts
  <2>5. kern' \in Kernels /\ Distinct(kern'.defunct)
    BY <2>3 DEF KernelOK, QueuesOK
  <2>6. TypeOK' /\ TimeoutFindsSuspended'
    <3>1. pc' \in [Threads -> Labels]
      BY <2>1, Facts DEF Labels
    <3> QED BY <1>2, <2>1, <2>3, <2>5, <3>1
            DEF IInv, TypeOK, TimeoutFindsSuspended, SameThreads
  <2>7. Removing' = {}
    BY <1>1, <1>4, <2>4 DEF Removing, BeingRemoved
  <2>8. CallsOK' /\ KernelOK(kern, Removing)'
    BY <1>1, <1>4, <2>3, <2>4, <2>7 DEF IInv, CallsOK
  <2>9. DefunctExact'
    BY <1>1, <2>1, <2>2, <2>3, <2>4, <2>5 DEF IInv, DefunctExact, SameThreads
  <2>10. IdleOK'
    BY <1>1, <2>1, <2>3, <2>4 DEF IdleOK, SameThreads
  <2> QED BY <1>3, <2>6, <2>8, <2>9, <2>10 DEF IInv
<1>7. CASE rt_defunct_execute
  <2>1. /\ pc' = [pc EXCEPT ![idle] = "run"] /\ arg' = [arg EXCEPT ![idle] = idle]
        /\ pc[idle] = "free" /\ kern' = [kern EXCEPT !.stat[u] = "NONE"]
        /\ cleaned' = [cleaned EXCEPT ![u] = @ + 1]
    BY <1>7 DEF rt_defunct_execute, Goto, At
  <2>2. kern.stat[u] = "CLOSE" /\ ~Linked(kern.defunct, u) /\ u \notin StaticThreads /\ u # idle
    BY <1>1, <2>1 DEF IInv, IdleOK, DefunctExact
  <2>3. /\ kern' \in Kernels /\ kern'.stat = [kern.stat EXCEPT ![u] = "NONE"]
        /\ kern'.current_priority = kern.current_priority
        /\ kern'.number_mask = kern.number_mask /\ kern'.priority_table = kern.priority_table
        /\ kern'.ready_group = kern.ready_group /\ kern'.current = kern.current
        /\ kern'.defunct = kern.defunct /\ kern'.lock_nest = kern.lock_nest
        /\ kern'.remaining_tick = kern.remaining_tick
    BY <2>1, Facts DEF Kernels, Stats
  <2>4. \A x \in Threads : kern'.stat[x] = IF x = u THEN "NONE" ELSE kern.stat[x]
    BY <2>3, Facts
  <2>5. KernelOK(kern', {})
    <3>1. /\ kern'.stat[u] \in {"NONE", "INIT"}
          /\ kern'.number_mask[u] \subseteq {kern'.current_priority[u]}
          /\ \A y \in Threads \ {u} :
               /\ kern'.stat[y] = kern.stat[y]
               /\ kern'.current_priority[y] = kern.current_priority[y]
               /\ kern'.number_mask[y] = kern.number_mask[y]
      BY <1>1, <2>3, <2>4 DEF KernelOK
    <3>2. u # kern.current /\ kern.stat[u] \in {"NONE", "CLOSE"}
      BY <1>1, <2>2
    <3>3. /\ kern'.current = kern.current /\ kern'.priority_table = kern.priority_table
          /\ kern'.ready_group = kern.ready_group /\ kern'.defunct = kern.defunct
      BY <2>3
    <3>4. u \in Threads /\ ~Linked(kern.defunct, u) /\ kern' \in Kernels /\ KernelOK(kern, {})
      BY <1>1, <2>2, <2>3
    <3> HIDE DEF u
    <3> QED BY <3>1, <3>2, <3>3, <3>4, RecreatedOK
  <2>6. \A t \in Threads : /\ pc'[t] = IF t = idle THEN "run" ELSE pc[t]
                           /\ arg'[t] = IF t = idle THEN idle ELSE arg[t]
    BY <2>1, Facts
  <2>7. TypeOK' /\ TimeoutFindsSuspended'
    <3>1. /\ pc' \in [Threads -> Labels] /\ arg' \in [Threads -> Threads]
          /\ cleaned' \in [Threads -> Nat]
      BY <1>1, <2>1, Facts DEF Labels
    <3>2. TypeOK'
      BY <1>2, <2>3, <3>1 DEF IInv, TypeOK
    <3>3. TimeoutFindsSuspended'
      BY <1>2, <2>2, <2>4, Facts DEF IInv, TimeoutFindsSuspended
    <3> QED BY <3>2, <3>3
  <2>8. Removing' = {}
    BY <1>1, <1>4, <2>6 DEF Removing, BeingRemoved
  <2>9. CallsOK' /\ KernelOK(kern, Removing)'
    BY <1>1, <1>4, <2>5, <2>6, <2>8 DEF IInv, CallsOK
  <2>10. DefunctExact'
    BY <1>1, <2>1, <2>2, <2>3, <2>4, <2>6 DEF IInv, DefunctExact
  <2>11. IdleOK'
    BY <1>1, <2>2, <2>3, <2>4, <2>6 DEF IdleOK
  <2> QED BY <1>3, <2>7, <2>9, <2>10, <2>11 DEF IInv
<1> QED BY <1>5, <1>6, <1>7 DEF IdleStep

\* A step that changes nothing preserves the invariant.
LEMMA StutterStep ==
  ASSUME IInv, UNCHANGED vars
  PROVE  IInv'
<1>1. UNCHANGED <<kern, timers, rt_tick, pc, arg, isr, cleaned>>
  BY DEF vars
<1>2. Removing' = Removing
  BY <1>1 DEF Removing, BeingRemoved
<1>3. TypeOK' /\ KernelOK(kern, Removing)' /\ TimeoutFindsSuspended' /\ DefunctExact'
  BY <1>1, <1>2 DEF IInv, TypeOK, TimeoutFindsSuspended, DefunctExact
<1>4. CallsOK' /\ IdleOK' /\ FramesOK'
  BY <1>1 DEF IInv, CallsOK, IdleOK, FramesOK, Alive, Started
<1> QED BY <1>3, <1>4 DEF IInv

\* Every step of the kernel preserves the invariant, whatever it interleaves
\* with, as long as callers keep interrupts disabled around the calls of
\* thread.c that check before they disable them.
THEOREM NextIInv ==
  ASSUME IInv, DisciplinedCallers, [Next]_vars
  PROVE  IInv'
<1>1. CASE UNCHANGED vars
  BY <1>1, StutterStep
<1>2. ASSUME NEW t \in Threads, ApiStep(t) PROVE IInv'
  <2>1. ASSUME NEW u \in Threads, rt_thread_create(t, u) PROVE IInv'
    BY <2>1, CreateStep
  <2>2. ASSUME NEW u \in Threads, rt_thread_startup(t, u) PROVE IInv'
    BY <2>2, StartupStep
  <2>3. ASSUME NEW u \in Threads,
               ResumeCheck(t, u) \/ SuspendCheck(t, u) \/ DeleteCheck(t, u)
        PROVE  IInv'
    BY <2>3, ChecksStep
  <2>4. ASSUME NEW u \in Threads, NEW p \in Prios, rt_thread_control_priority(t, u, p)
        PROVE  IInv'
    BY <2>4, ControlStep
  <2>5. ASSUME NEW d \in SleepTicks, rt_thread_sleep(t, d) PROVE IInv'
    BY <2>5, SleepStep
  <2>6. CASE rt_thread_yield(t)
    BY <2>6, YieldStep
  <2>7. CASE EnterCritical(t) \/ ExitCritical(t)
    BY <2>7, CriticalStep
  <2>8. CASE _rt_thread_exit(t)
    BY <2>8, ExitStep
  <2> QED BY <1>2, <2>1, <2>2, <2>3, <2>4, <2>5, <2>6, <2>7, <2>8 DEF ApiStep
<1>3. ASSUME NEW t \in Threads, CallStep(t) PROVE IInv'
  BY <1>3, ScheduleStep, ResumeStep, SuspendStep, DeleteRemoveStep,
     DeleteDetachTimerStep, DeleteCloseStep DEF CallStep
<1>4. CASE IdleStep
  BY <1>4, IdleStepStep
<1>5. CASE IsrStep
  BY <1>5, IsrScheduleStep, TimerCheckStep, DevResumeStep, HandlerStep DEF IsrStep
<1>6. CASE rt_tick_increase
  BY <1>6, TickStep
<1>7. ASSUME NEW u \in Threads, DevIrq(u) PROVE IInv'
  BY <1>7, DevIrqStep
<1> QED BY <1>1, <1>2, <1>3, <1>4, <1>5, <1>6, <1>7 DEF Next

\* The invariant holds in every behaviour of the kernel.
THEOREM KernelInvariant == DisciplinedCallers => (Spec => []IInv)
<1> SUFFICES ASSUME DisciplinedCallers PROVE Spec => []IInv
  OBVIOUS
<1>1. IInv /\ [Next]_vars => IInv'
  BY NextIInv
<1> QED BY <1>1, InitIInv, PTL DEF Spec

\* Every variable keeps its type: slices stay between 1 and init_tick, the
\* scheduler lock within its bound.
THEOREM KernelTypes == DisciplinedCallers => (Spec => []TypeOK)
<1> SUFFICES ASSUME DisciplinedCallers PROVE Spec => []TypeOK
  OBVIOUS
<1>1. IInv => TypeOK
  BY DEF IInv
<1> QED BY <1>1, KernelInvariant, PTL

\* The ready queues and thread->stat always agree, and no thread is queued
\* twice (rt_schedule_insert_thread, rt_schedule_remove_thread).
THEOREM ReadyTable == DisciplinedCallers => (Spec => []ReadyTableExact)
<1> SUFFICES ASSUME DisciplinedCallers PROVE Spec => []ReadyTableExact
  OBVIOUS
<1>1. IInv => ReadyTableExact
  <2> SUFFICES ASSUME IInv PROVE ReadyTableExact
    OBVIOUS
  <2>1. /\ QueuesOK(kern) /\ \A t \in Threads : Queued(kern, t) => kern.stat[t] = "READY"
        /\ \A t \in Threads \ Removing : kern.stat[t] = "READY" => Queued(kern, t)
    BY DEF IInv, KernelOK
  <2>2. \A t \in Threads : ~BeingRemoved(t) => t \in Threads \ Removing
    BY DEF Removing
  <2> QED BY <2>1, <2>2 DEF QueuesOK, Queued, ReadyTableExact
<1> QED BY <1>1, KernelInvariant, PTL

\* A deleted thread is taken out of its queue for good, if no timeout can come
\* between the steps of rt_thread_delete.
THEOREM ClosedLeaves == DisciplinedCallers => (Spec => []ClosedUnscheduled)
<1>1. ReadyTableExact => ClosedUnscheduled
  BY DEF ReadyTableExact, ClosedUnscheduled
<1> QED BY <1>1, ReadyTable, PTL

\* The bitmap rt_schedule searches is the set of non-empty queues, whatever
\* priorities have been changed (rt_thread_control) and nodes unlinked.
THEOREM PriorityGroup == DisciplinedCallers => (Spec => []PriorityGroupExact)
<1> SUFFICES ASSUME DisciplinedCallers PROVE Spec => []PriorityGroupExact
  OBVIOUS
<1>1. IInv => PriorityGroupExact
  BY DEF IInv, KernelOK, QueuesOK, PriorityGroupExact
<1> QED BY <1>1, KernelInvariant, PTL

\* Only the current thread is RUNNING, and the idle thread can be scheduled.
THEOREM RunningThread == DisciplinedCallers => (Spec => []OneRunning)
<1> SUFFICES ASSUME DisciplinedCallers PROVE Spec => []OneRunning
  OBVIOUS
<1>1. IInv => OneRunning
  BY DEF IInv, KernelOK, IdleOK, OneRunning
<1> QED BY <1>1, KernelInvariant, PTL

\* Every closed dynamic thread, and no other, waits once for the idle thread
\* to free it (rt_thread_defunct_enqueue, rt_defunct_execute).
THEOREM Defunct == DisciplinedCallers => (Spec => []DefunctExact)
<1> SUFFICES ASSUME DisciplinedCallers PROVE Spec => []DefunctExact
  OBVIOUS
<1>1. IInv => DefunctExact
  BY DEF IInv
<1> QED BY <1>1, KernelInvariant, PTL

\* An active thread timer belongs to a suspended thread: the assertion of
\* rt_thread_timeout never fails.
THEOREM Timeouts == DisciplinedCallers => (Spec => []TimeoutFindsSuspended)
<1> SUFFICES ASSUME DisciplinedCallers PROVE Spec => []TimeoutFindsSuspended
  OBVIOUS
<1>1. IInv => TimeoutFindsSuspended
  BY DEF IInv
<1> QED BY <1>1, KernelInvariant, PTL

-----------------------------------------------------------------------------
(* Who runs.  While the scheduler is locked, or a rt_schedule is still due *)
(* in the current thread's call or in a handler, a more urgent thread may  *)
(* be ready.                                                               *)

\* rt_thread_control changes a priority and does not call rt_schedule.
FixedPriorities == "control" \notin Calls

\* A handler is about to call rt_schedule.
HandlerSchedules(s) == \E i \in DOMAIN s : s[i].at = "schedule"

UrgentOK ==
  kern.lock_nest = 0 =>
    Urgent(kern) \/ pc[kern.current] = "schedule" \/ HandlerSchedules(isr)

\* What entering a handler makes of the stack, frame by frame.
LEMMA PushFrames ==
  ASSUME NEW s \in Seq(Frames), NEW f \in Frames
  PROVE  LET r == <<f>> \o s
         IN  /\ DOMAIN r = 1 .. (1 + Len(s)) /\ r[1] = f
             /\ \A j \in DOMAIN s : j + 1 \in DOMAIN r /\ r[j + 1] = s[j]
             /\ \A i \in DOMAIN r : i # 1 => i - 1 \in DOMAIN s /\ r[i] = s[i - 1]
<1>1. DOMAIN s = 1 .. Len(s) /\ Len(s) \in Nat
  BY FrameType
<1>2. <<f>> \in Seq(Frames) /\ Len(<<f>>) = 1 /\ <<f>>[1] = f
  OBVIOUS
<1>3. /\ <<f>> \o s \in Seq(Frames)
      /\ Len(<<f>> \o s) = 1 + Len(s)
      /\ \A i \in 1 .. (1 + Len(s)) :
           (<<f>> \o s)[i] = IF i <= 1 THEN <<f>>[i] ELSE s[i - 1]
  BY <1>1, <1>2, ConcatProperties
<1>4. DOMAIN (<<f>> \o s) = 1 .. (1 + Len(s))
  BY <1>3, LenProperties
<1>5. \A i \in 1 .. (1 + Len(s)) : (<<f>> \o s)[i] = IF i = 1 THEN f ELSE s[i - 1]
  BY <1>1, <1>2, <1>3
<1> QED BY <1>1, <1>4, <1>5

\* The same when the innermost handler goes on.
LEMMA GotoFrames ==
  ASSUME isr \in Seq(Frames), isr # <<>>, NEW a, FrameGoto(a)
  PROVE  /\ DOMAIN isr' = DOMAIN isr /\ 1 \in DOMAIN isr
         /\ isr'[1].irq = isr[1].irq /\ isr'[1].at = a
         /\ \A i \in DOMAIN isr : i # 1 => isr'[i] = isr[i]
<1>1. 1 \in DOMAIN isr /\ isr[1] \in Frames
  BY FrameType
<1>2. isr' = [isr EXCEPT ![1] = [isr[1] EXCEPT !.at = a, !.arg = idle]]
  BY DEF FrameGoto
<1>3. DOMAIN isr' = DOMAIN isr /\ \A i \in DOMAIN isr : i # 1 => isr'[i] = isr[i]
  BY <1>2
<1>4. isr'[1] = [isr[1] EXCEPT !.at = a, !.arg = idle]
  BY <1>1, <1>2
<1> QED BY <1>1, <1>3, <1>4 DEF Frames

\* The same when it returns.
LEMMA PopFrames ==
  ASSUME NEW s \in Seq(Frames), s # <<>>
  PROVE  /\ \A i \in DOMAIN Tail(s) : i + 1 \in DOMAIN s /\ Tail(s)[i] = s[i + 1]
         /\ \A j \in DOMAIN s : j # 1 => j - 1 \in DOMAIN Tail(s) /\ Tail(s)[j - 1] = s[j]
<1>1. DOMAIN s = 1 .. Len(s) /\ Len(s) \in Nat
  BY FrameType
<1>2. /\ Tail(s) \in Seq(Frames) /\ Len(Tail(s)) = Len(s) - 1
      /\ \A i \in 1 .. Len(Tail(s)) : Tail(s)[i] = s[i + 1]
  BY HeadTailProperties
<1>3. DOMAIN Tail(s) = 1 .. (Len(s) - 1)
  BY <1>2, LenProperties
<1> QED BY <1>1, <1>2, <1>3

\* A handler that is about to schedule goes on being so until it does.
LEMMA DueStays ==
  ASSUME isr \in Seq(Frames), HandlerSchedules(isr),
         \/ isr' = isr
         \/ \E f \in Frames : isr' = <<f>> \o isr
         \/ isr # <<>> /\ isr[1].at # "schedule" /\ \E a : FrameGoto(a)
         \/ isr # <<>> /\ isr[1].at # "schedule" /\ isr' = Tail(isr)
  PROVE  HandlerSchedules(isr)'
<1>1. PICK j \in DOMAIN isr : isr[j].at = "schedule"
  BY DEF HandlerSchedules
<1>2. CASE isr' = isr
  BY <1>2 DEF HandlerSchedules
<1>3. ASSUME NEW f \in Frames, isr' = <<f>> \o isr PROVE HandlerSchedules(isr)'
  <2>1. j + 1 \in DOMAIN isr' /\ isr'[j + 1] = isr[j]
    BY <1>3, PushFrames
  <2> QED BY <1>1, <2>1 DEF HandlerSchedules
<1>4. ASSUME NEW a, isr # <<>>, isr[1].at # "schedule", FrameGoto(a)
      PROVE  HandlerSchedules(isr)'
  <2>1. j # 1 /\ j \in DOMAIN isr' /\ isr'[j] = isr[j]
    BY <1>1, <1>4, GotoFrames
  <2> QED BY <1>1, <2>1 DEF HandlerSchedules
<1>5. ASSUME isr # <<>>, isr[1].at # "schedule", isr' = Tail(isr)
      PROVE  HandlerSchedules(isr)'
  <2>1. j # 1 /\ j - 1 \in DOMAIN isr' /\ isr'[j - 1] = isr[j]
    BY <1>1, <1>5, PopFrames
  <2> QED BY <1>1, <2>1 DEF HandlerSchedules
<1> QED BY <1>2, <1>3, <1>4, <1>5

\* Something can always run: the idle thread is RUNNING or queued.
LEMMA SomethingRuns ==
  ASSUME NEW k, KernelOK(k, {}), k.stat[idle] \in {"READY", "RUNNING"}
  PROVE  k.ready_group # {} \/ k.stat[k.current] = "RUNNING"
<1>1. idle \in Threads
  BY ThreadsAssumption
<1>2. CASE k.stat[idle] = "RUNNING"
  BY <1>1, <1>2 DEF KernelOK
<1>3. CASE k.stat[idle] = "READY"
  <2>1. Queued(k, idle) /\ QueuesOK(k)
    BY <1>1, <1>3 DEF KernelOK
  <2> QED BY <1>1, <2>1, ReadyQueued
<1> QED BY <1>2, <1>3

\* rt_schedule makes the most urgent thread run unless the scheduler is
\* locked.
LEMMA ScheduleUrgent ==
  ASSUME NEW k, KernelOK(k, {}), k.stat[idle] \in {"READY", "RUNNING"}, k.lock_nest = 0
  PROVE  Urgent(rt_schedule(k))
BY SomethingRuns, SchedulesUrgent DEF Urgent

\* It switches only with the scheduler unlocked.
LEMMA SwitchUrgent ==
  ASSUME NEW k, KernelOK(k, {}), k.stat[idle] \in {"READY", "RUNNING"},
         rt_schedule(k).current # k.current
  PROVE  /\ k.lock_nest = 0 /\ Urgent(rt_schedule(k))
         /\ rt_schedule(k).current_priority = k.current_priority
<1>1. k.lock_nest = 0
  BY DEF rt_schedule
<1> QED BY <1>1, ScheduleUrgent, ScheduleOK DEF Rescheduled

\* A step that neither schedules nor readies a thread.
LEMMA UrgentStays ==
  ASSUME IInv, UrgentOK,
         kern'.lock_nest = kern.lock_nest, kern'.current = kern.current,
         kern'.stat[kern.current] = kern.stat[kern.current],
         kern'.current_priority[kern.current] = kern.current_priority[kern.current],
         kern'.ready_group \subseteq kern.ready_group,
         pc'[kern.current] = pc[kern.current] \/ pc[kern.current] # "schedule",
         \/ isr' = isr
         \/ \E f \in Frames : isr' = <<f>> \o isr
         \/ isr # <<>> /\ isr[1].at # "schedule" /\ \E a : FrameGoto(a)
         \/ isr # <<>> /\ isr[1].at # "schedule" /\ isr' = Tail(isr)
  PROVE  UrgentOK'
<1>1. HandlerSchedules(isr) => HandlerSchedules(isr)'
  BY DueStays, Facts
<1>2. Urgent(kern) => Urgent(kern)'
  BY DEF Urgent
<1> QED BY <1>1, <1>2 DEF UrgentOK

\* What a step promises: a context switch goes to the most urgent thread, the
\* threads follow their life cycle, and a missing switch is due.
Promises == SwitchStep /\ (\A t \in Threads : LifeStep(t)) /\ (UrgentOK => UrgentOK')

\* A step that leaves the scheduler record and the calls alone.
LEMMA IdlePromises ==
  ASSUME IInv, kern' = kern,
         pc'[kern.current] = pc[kern.current] \/ pc[kern.current] # "schedule",
         \/ isr' = isr
         \/ \E f \in Frames : isr' = <<f>> \o isr
         \/ isr # <<>> /\ isr[1].at # "schedule" /\ \E a : FrameGoto(a)
         \/ isr # <<>> /\ isr[1].at # "schedule" /\ isr' = Tail(isr)
  PROVE  Promises
<1>1. SwitchStep /\ \A t \in Threads : LifeStep(t)
  BY DEF SwitchStep, LifeStep
<1>2. ASSUME UrgentOK PROVE UrgentOK'
  BY <1>2, UrgentStays
<1> QED BY <1>1, <1>2 DEF Promises

\* A step whose calls to the scheduler are due: the current thread is on its
\* way to rt_schedule, or a handler is.
LEMMA DuePromises ==
  ASSUME IInv, kern'.current = kern.current, NEW u \in Threads, NEW s,
         kern'.stat = [kern.stat EXCEPT ![u] = s],
         \/ kern.stat[u] = s \/ <<kern.stat[u], s>> \in LifeSteps
         \/ u \in StaticThreads /\ <<kern.stat[u], s>> = <<"CLOSE", "INIT">>
         \/ u \notin StaticThreads /\ <<kern.stat[u], s>> = <<"CLOSE", "NONE">>,
         pc'[kern.current] = "schedule" \/ HandlerSchedules(isr)'
           \/ kern'.lock_nest # 0 \/ (UrgentOK => UrgentOK')
  PROVE  Promises
<1>1. \A t \in Threads : kern'.stat[t] = IF t = u THEN s ELSE kern.stat[t]
  BY Facts
<1>2. SwitchStep
  BY DEF SwitchStep
<1>3. \A t \in Threads : LifeStep(t)
  <2> SUFFICES ASSUME NEW t \in Threads PROVE LifeStep(t)
    OBVIOUS
  <2>1. CASE t = u
    BY <1>1, <2>1 DEF LifeStep
  <2>2. CASE t # u
    BY <1>1, <2>2 DEF LifeStep
  <2> QED BY <2>1, <2>2
<1>4. UrgentOK => UrgentOK'
  BY DEF UrgentOK
<1> QED BY <1>2, <1>3, <1>4 DEF Promises

\* k is kern after u has been woken or closed, or with the same thread->stat.
Prepared(k, u, s) ==
  /\ KernelOK(k, {}) /\ k.stat[idle] \in {"READY", "RUNNING"} /\ k.current = kern.current
  /\ k.lock_nest = kern.lock_nest /\ k.current_priority = kern.current_priority
  /\ k.stat = [kern.stat EXCEPT ![u] = s]
  /\ \/ kern.stat[u] = s
     \/ kern.stat[u] = "SUSPEND" /\ s \in {"READY", "RUNNING"}
     \/ kern.stat[u] \in {"RUNNING", "SUSPEND"} /\ s = "CLOSE"

\* A step that ends with rt_schedule, on the record k that it has made of
\* kern.
LEMMA SchedulePromises ==
  ASSUME IInv, NEW k, kern' = rt_schedule(k), NEW u \in Threads, NEW s, Prepared(k, u, s)
  PROVE  Promises
<1> USE DEF Prepared
<1>1. \A t \in Threads : k.stat[t] = IF t = u THEN s ELSE kern.stat[t]
  BY Facts
<1>2. SwitchStep
  <2> SUFFICES ASSUME kern'.current # kern.current
               PROVE  /\ kern.lock_nest = 0 /\ kern'.stat[kern'.current] = "RUNNING"
                      /\ \A p \in kern'.ready_group : kern.current_priority[kern'.current] <= p
    BY DEF SwitchStep
  <2> QED BY SwitchUrgent DEF Urgent
<1>3. \A t \in Threads : LifeStep(t)
  <2> SUFFICES ASSUME NEW t \in Threads PROVE LifeStep(t)
    OBVIOUS
  <2>1. \/ kern'.stat[t] = k.stat[t]
        \/ k.stat[t] \in {"READY", "RUNNING"} /\ kern'.stat[t] \in {"READY", "RUNNING"}
    BY ScheduleOK DEF Rescheduled
  <2>2. \/ k.stat[t] = kern.stat[t]
        \/ kern.stat[t] = "SUSPEND" /\ k.stat[t] \in {"READY", "RUNNING"}
        \/ kern.stat[t] \in {"RUNNING", "SUSPEND"} /\ k.stat[t] = "CLOSE"
    BY <1>1
  <2> QED BY <2>1, <2>2 DEF LifeStep, LifeSteps
<1>4. UrgentOK => UrgentOK'
  <2>1. kern'.lock_nest = k.lock_nest
    BY ScheduleOK DEF Rescheduled
  <2>2. kern'.lock_nest = 0 => Urgent(kern)'
    BY <2>1, ScheduleUrgent DEF Urgent
  <2> QED BY <2>2 DEF UrgentOK
<1> QED BY <1>2, <1>3, <1>4 DEF Promises

\* The rt_schedule at the end of a call, and the one in a handler.
LEMMA ThreadSchedulePromises ==
  ASSUME IInv, (\E t \in Threads : ThreadSchedule(t)) \/ IsrSchedule
  PROVE  Promises
<1>1. KernelOK(kern, {}) /\ kern' = rt_schedule(kern)
  BY Mover, NothingMasked, Facts DEF ThreadSchedule, IsrSchedule, FrameAt
<1>2. kern.stat = [kern.stat EXCEPT ![idle] = kern.stat[idle]]
  BY Facts
<1>3. Prepared(kern, idle, kern.stat[idle])
  BY <1>1, <1>2, Facts DEF Prepared
<1> QED BY <1>1, <1>3, SchedulePromises, Facts

\* rt_thread_yield.
LEMMA YieldPromises ==
  ASSUME IInv, NEW t \in Threads, rt_thread_yield(t)
  PROVE  Promises
<1> DEFINE k == [kern EXCEPT !.remaining_tick[t] = InitTick[t], !.yield = @ \cup {t}]
<1>1. t = kern.current /\ KernelOK(kern, {})
  BY Mover DEF rt_thread_yield, Calling
<1>2. /\ k \in Kernels /\ k.stat = kern.stat /\ k.current_priority = kern.current_priority
      /\ k.number_mask = kern.number_mask /\ k.priority_table = kern.priority_table
      /\ k.ready_group = kern.ready_group /\ k.current = kern.current
      /\ k.defunct = kern.defunct /\ k.lock_nest = kern.lock_nest
  <2> DEFINE m == [kern.remaining_tick EXCEPT ![t] = InitTick[t]]
             y == kern.yield \cup {t}
  <2>1. kern \in Kernels /\ kern.remaining_tick \in [Threads -> Nat] /\ InitTick[t] \in Nat
    BY Facts, SliceAssumption
  <2>2. m \in [Threads -> Nat] /\ y \in SUBSET Threads
    BY <2>1 DEF Kernels
  <2>3. k = [kern EXCEPT !.remaining_tick = m, !.yield = y]
    BY <2>1 DEF Kernels
  <2> HIDE DEF k, m, y
  <2> QED BY <2>1, <2>2, <2>3 DEF Kernels
<1>3. kern' = rt_schedule(k)
  BY DEF rt_thread_yield
<1> HIDE DEF k
<1>4. KernelOK(k, {})
  BY <1>1, <1>2, OtherFields
<1>5. k.stat = [kern.stat EXCEPT ![idle] = kern.stat[idle]]
  BY <1>2, Facts
<1>6. Prepared(k, idle, kern.stat[idle])
  BY <1>2, <1>4, <1>5, Facts DEF Prepared
<1> QED BY <1>3, <1>6, SchedulePromises, Facts

\* rt_timer_check with rt_thread_timeout.
LEMMA TimerCheckPromises ==
  ASSUME IInv, rt_timer_check
  PROVE  Promises
<1> DEFINE t == Head(timers.list)
           k == Resumed(kern, t)
           s == IF t = kern.current THEN "RUNNING" ELSE "READY"
<1>1. KernelOK(kern, {}) /\ timers.list # <<>> /\ kern' = rt_schedule(k)
  BY NothingMasked, Facts DEF rt_timer_check, FrameAt, HeadExpired
<1>2. t \in Threads /\ kern.stat[t] = "SUSPEND"
  <2>1. timers.list \in Seq(Threads) /\ \A x \in Threads : Linked(timers.list, x) => x \in timers.act
    BY Facts DEF TimersOK, Bases
  <2>2. t \in Threads /\ Linked(timers.list, t)
    BY <1>1, <2>1, ListHead
  <2> QED BY <2>1, <2>2, Facts
<1> HIDE DEF t
<1>3. KernelOK(k, {}) /\ StatChanged(kern, t, k, s)
  BY <1>1, <1>2, ResumedOK
<1> HIDE DEF k
<1>4. k.stat[idle] \in {"READY", "RUNNING"}
  BY <1>2, <1>3, Facts DEF StatChanged
<1>5. Prepared(k, t, s)
  BY <1>2, <1>3, <1>4 DEF Prepared, StatChanged
<1> QED BY <1>1, <1>2, <1>5, SchedulePromises

\* _rt_thread_exit.
LEMMA ExitPromises ==
  ASSUME IInv, NEW t \in Threads, _rt_thread_exit(t)
  PROVE  Promises
<1> DEFINE a == rt_schedule_remove_thread(kern, t)
           b == Closed(a, t)
<1>1. /\ t # idle /\ KernelOK(kern, {}) /\ kern.stat[t] \in {"RUNNING", "SUSPEND"}
      /\ kern' = rt_schedule(b)
  BY Mover DEF _rt_thread_exit, Calling, App
<1>2. KernelOK(a, {t}) /\ SameThreads(kern, a) /\ ~Queued(a, t)
  <2>1. kern.stat[t] # "CLOSE" /\ {} \cup {t} = {t}
    BY <1>1
  <2>2. KernelOK(a, {} \cup {t}) /\ SameThreads(kern, a) /\ ~Queued(a, t)
    BY <1>1, <2>1, RemovedOK
  <2> QED BY <2>1, <2>2
<1> HIDE DEF a
<1>3. KernelOK(b, {}) /\ StatChanged(a, t, b, "CLOSE")
  <2>1. {t} \ {t} = {} /\ a.stat[t] # "CLOSE"
    BY <1>1, <1>2 DEF SameThreads
  <2>2. KernelOK(b, {t} \ {t}) /\ StatChanged(a, t, b, "CLOSE")
    BY <1>2, <2>1, ClosedOK
  <2> QED BY <2>1, <2>2
<1> HIDE DEF b
<1>4. /\ b.stat = [kern.stat EXCEPT ![t] = "CLOSE"] /\ b.current = kern.current
      /\ b.lock_nest = kern.lock_nest /\ b.current_priority = kern.current_priority
  BY <1>2, <1>3 DEF StatChanged, SameThreads
<1>5. b.stat[idle] \in {"READY", "RUNNING"}
  BY <1>1, <1>4, Facts
<1>6. Prepared(b, t, "CLOSE")
  BY <1>1, <1>3, <1>4, <1>5 DEF Prepared
<1> QED BY <1>1, <1>6, SchedulePromises

\* rt_thread_create and rt_thread_init.
LEMMA CreatePromises ==
  ASSUME IInv, NEW t \in Threads, NEW u \in Threads, rt_thread_create(t, u)
  PROVE  Promises
<1>1. t = kern.current /\ kern.stat[t] \in {"RUNNING", "SUSPEND"}
  BY Mover DEF rt_thread_create, Calling
<1>2. /\ kern.stat[u] \in {"NONE", "CLOSE"} /\ u # kern.current
      /\ (kern.stat[u] = "CLOSE" => u \in StaticThreads)
      /\ isr' = isr /\ pc' = [pc EXCEPT ![u] = "run"]
  BY <1>1 DEF rt_thread_create
<1>3. /\ kern'.stat = [kern.stat EXCEPT ![u] = "INIT"]
      /\ kern'.current = kern.current /\ kern'.ready_group = kern.ready_group
      /\ kern'.current_priority = [kern.current_priority EXCEPT ![u] = InitPrio[u]]
      /\ kern'.lock_nest = kern.lock_nest
  <2> DEFINE s == [kern.stat EXCEPT ![u] = "INIT"]
             p == [kern.current_priority EXCEPT ![u] = InitPrio[u]]
             m == [kern.number_mask EXCEPT ![u] = {}]
             r == [kern.remaining_tick EXCEPT ![u] = InitTick[u]]
             y == kern.yield \ {u}
  <2>1. kern \in Kernels
    BY Facts
  <2>2. kern' = [kern EXCEPT !.stat = s, !.yield = y, !.current_priority = p,
                             !.number_mask = m, !.remaining_tick = r]
    BY <2>1 DEF rt_thread_create, Kernels
  <2> HIDE DEF s, p, m, r, y
  <2>3. /\ kern'.stat = s /\ kern'.current = kern.current
        /\ kern'.ready_group = kern.ready_group /\ kern'.current_priority = p
        /\ kern'.lock_nest = kern.lock_nest
    BY <2>1, <2>2 DEF Kernels
  <2> QED BY <2>3 DEF s, p
<1>4. UrgentOK => UrgentOK'
  <2>1. /\ kern.stat \in [Threads -> Stats] /\ pc \in [Threads -> Labels]
        /\ kern.current_priority \in [Threads -> Prios] /\ kern.current \in Threads
    BY Facts DEF Kernels
  <2>2. kern'.stat[kern.current] = kern.stat[kern.current]
    BY <1>2, <1>3, <2>1
  <2>3. kern'.current_priority[kern.current] = kern.current_priority[kern.current]
    BY <1>2, <1>3, <2>1
  <2>4. pc'[kern.current] = pc[kern.current]
    BY <1>2, <1>3, <2>1
  <2> QED BY <1>2, <1>3, <2>2, <2>3, <2>4, UrgentStays
<1> QED BY <1>2, <1>3, <1>4, DuePromises DEF LifeSteps

\* rt_thread_startup.
LEMMA StartupPromises ==
  ASSUME IInv, NEW t \in Threads, NEW u \in Threads, rt_thread_startup(t, u)
  PROVE  Promises
<1>1. t = kern.current /\ KernelOK(kern, {}) /\ kern.stat[u] = "INIT"
  BY Mover DEF rt_thread_startup, Calling
<1>2. kern'.stat = [kern.stat EXCEPT ![u] = "READY"] /\ kern'.current = kern.current
  BY <1>1, StartedOK DEF rt_thread_startup
<1>3. pc'[kern.current] = "schedule"
  BY <1>1, Facts DEF rt_thread_startup, Goto
<1> QED BY <1>1, <1>2, <1>3, DuePromises DEF LifeSteps

\* The masked parts of rt_thread_suspend and rt_thread_resume.
LEMMA SuspendPromises ==
  ASSUME IInv, NEW t \in Threads, rt_thread_suspend(t) \/ rt_thread_resume(t)
  PROVE  Promises
<1> DEFINE u == arg[t]
           s == IF u = kern.current THEN "RUNNING" ELSE "READY"
<1>1. pc'[kern.current] = "schedule"
  BY Facts DEF rt_thread_suspend, rt_thread_resume, At, Goto
<1>2. CASE rt_thread_suspend(t)
  <2>1. u \in Threads /\ KernelOK(kern, {}) /\ kern.stat[u] \in {"READY", "RUNNING"}
        /\ kern' = Suspended(kern, u)
    BY <1>2, MidCall DEF rt_thread_suspend
  <2> HIDE DEF u
  <2>2. StatChanged(kern, u, kern', "SUSPEND")
    BY <2>1, SuspendedOK
  <2> QED BY <1>1, <2>1, <2>2, DuePromises DEF LifeSteps, StatChanged
<1>3. CASE rt_thread_resume(t)
  <2>1. u \in Threads /\ KernelOK(kern, {}) /\ kern.stat[u] = "SUSPEND"
        /\ kern' = Resumed(kern, u)
    BY <1>3, MidCall DEF rt_thread_resume
  <2> HIDE DEF u
  <2>2. StatChanged(kern, u, kern', s)
    BY <2>1, ResumedOK
  <2> QED BY <1>1, <2>1, <2>2, DuePromises DEF LifeSteps, StatChanged
<1> QED BY <1>2, <1>3

\* rt_thread_sleep up to its rt_schedule.
LEMMA SleepPromises ==
  ASSUME IInv, NEW t \in Threads, NEW d \in SleepTicks, rt_thread_sleep(t, d)
  PROVE  Promises
<1>1. t = kern.current /\ KernelOK(kern, {}) /\ kern.stat[t] \in {"RUNNING", "SUSPEND"}
      /\ pc'[kern.current] = "schedule"
  <2>1. Goto(t, "schedule")
    BY DEF rt_thread_sleep
  <2> QED BY <2>1, Mover, Facts DEF rt_thread_sleep, Calling, Goto
<1>2. CASE kern.stat[t] = "RUNNING"
  <2>1. kern' = Suspended(kern, t)
    BY <1>2 DEF rt_thread_sleep
  <2>2. StatChanged(kern, t, kern', "SUSPEND")
    BY <1>1, <1>2, <2>1, SuspendedOK
  <2> QED BY <1>1, <1>2, <2>2, DuePromises DEF LifeSteps, StatChanged
<1>3. CASE kern.stat[t] = "SUSPEND"
  <2>1. kern' = kern
    BY <1>3 DEF rt_thread_sleep
  <2>2. kern'.stat = [kern.stat EXCEPT ![t] = "SUSPEND"]
    BY <1>3, <2>1, Facts
  <2> QED BY <1>1, <1>3, <2>1, <2>2, DuePromises
<1> QED BY <1>1, <1>2, <1>3

\* rt_enter_critical and rt_exit_critical: the switch is missing while the
\* scheduler is locked and is due when it is unlocked.
LEMMA CriticalPromises ==
  ASSUME IInv, NEW t \in Threads, EnterCritical(t) \/ ExitCritical(t)
  PROVE  Promises
<1>1. t = kern.current /\ kern \in Kernels /\ kern.stat = [kern.stat EXCEPT ![t] = kern.stat[t]]
  BY Mover, Facts DEF EnterCritical, ExitCritical, Calling
<1>2. CASE EnterCritical(t)
  <2>1. /\ kern'.stat = kern.stat /\ kern'.current = kern.current
        /\ kern'.lock_nest = kern.lock_nest + 1
    BY <1>1, <1>2 DEF EnterCritical, rt_enter_critical, Kernels
  <2>2. kern'.lock_nest # 0
    BY <2>1, Facts
  <2> DEFINE s == kern.stat[t]
  <2>3. t \in Threads /\ kern'.current = kern.current
        /\ kern'.stat = [kern.stat EXCEPT ![t] = s] /\ kern.stat[t] = s
    BY <1>1, <2>1
  <2> HIDE DEF s
  <2> QED BY <2>2, <2>3, DuePromises
<1>3. CASE ExitCritical(t)
  <2>1. /\ kern'.stat = kern.stat /\ kern'.current = kern.current
        /\ kern'.lock_nest = IF kern.lock_nest <= 1 THEN 0 ELSE kern.lock_nest - 1
    BY <1>1, <1>3 DEF ExitCritical, leave_critical, Kernels
  <2>2. pc'[t] = IF kern.lock_nest <= 1 THEN "schedule" ELSE "run"
    BY <1>3, Facts DEF ExitCritical, Goto
  <2>3. pc'[kern.current] = "schedule" \/ kern'.lock_nest # 0
    BY <1>1, <2>1, <2>2, Facts
  <2> QED BY <1>1, <2>1, <2>3, DuePromises
<1> QED BY <1>2, <1>3

\* The checks of suspend, resume and delete; the timer of a thread that is
\* being deleted.
LEMMA CheckPromises ==
  ASSUME IInv, NEW t \in Threads, NEW u \in Threads,
         ResumeCheck(t, u) \/ SuspendCheck(t, u) \/ DeleteCheck(t, u) \/ DeleteDetachTimer(t)
  PROVE  Promises
<1>1. kern' = kern /\ isr' = isr /\ pc[kern.current] \in {"run", "detach_timer"}
  BY DEF ResumeCheck, SuspendCheck, DeleteCheck, DeleteDetachTimer, Calling, At
<1> QED BY <1>1, IdlePromises

\* Taking a thread to be deleted out of the scheduler.
LEMMA DeleteRemovePromises ==
  ASSUME IInv, NEW t \in Threads, DeleteRemove(t)
  PROVE  Promises
<1> DEFINE u == arg[t]
<1>1. /\ t = kern.current /\ u \in Threads /\ KernelOK(kern, {}) /\ kern.stat[u] # "CLOSE"
      /\ pc[t] = "remove" /\ isr' = isr /\ kern' = rt_schedule_remove_thread(kern, u)
  BY MidDelete, Facts DEF DeleteRemove, Alive
<1> HIDE DEF u
<1>2. SameThreads(kern, kern')
  BY <1>1, RemovedOK
<1>3. kern'.ready_group \subseteq kern.ready_group
  <2> DEFINE w == unlink_tlist(kern, u)
  <2>1. w \in Kernels /\ w.ready_group = kern.ready_group
    BY <1>1, UnlinkTlist DEF KernelOK
  <2>2. kern'.ready_group = IF w.priority_table[kern.current_priority[u]] = <<>>
                              THEN w.ready_group \ kern.number_mask[u] ELSE w.ready_group
    BY <1>1, <2>1 DEF rt_schedule_remove_thread, Kernels
  <2> QED BY <2>1, <2>2
<1>4. kern'.stat = [kern.stat EXCEPT ![u] = kern.stat[u]]
  BY <1>1, <1>2, Facts DEF SameThreads
<1>5. UrgentOK => UrgentOK'
  BY <1>1, <1>2, <1>3, UrgentStays DEF SameThreads
<1> QED BY <1>1, <1>2, <1>4, <1>5, DuePromises DEF SameThreads

\* Closing it.
LEMMA DeleteClosePromises ==
  ASSUME IInv, NEW t \in Threads, DeleteClose(t)
  PROVE  Promises
<1> DEFINE u == arg[t]
<1>1. /\ t = kern.current /\ u \in Threads /\ kern.stat[u] \notin {"NONE", "CLOSE"}
      /\ KernelOK(kern, {u}) /\ ~Queued(kern, u) /\ kern' = Closed(kern, u)
      /\ pc'[kern.current] = "schedule" /\ kern.stat[u] \in Stats
  BY MidDelete, Facts DEF DeleteClose, Alive, Goto
<1> HIDE DEF u
<1>2. StatChanged(kern, u, kern', "CLOSE")
  BY <1>1, ClosedOK
<1> QED BY <1>1, <1>2, DuePromises DEF LifeSteps, StatChanged, Stats

\* The reaper of the idle thread.
LEMMA ReaperPromises ==
  ASSUME IInv, IdleStep
  PROVE  Promises
<1> DEFINE u == arg[idle]
<1>1. /\ idle = kern.current /\ KernelOK(kern, {}) /\ isr' = isr /\ u \in Threads
      /\ pc[idle] # "schedule" /\ kern.stat[idle] \in {"READY", "RUNNING"}
  <2>1. pc[idle] \in {"run", "reap", "free"} /\ {"run", "reap", "free"} \cap DOMAIN CallAt = {}
    BY Facts DEF CallAt
  <2> QED BY <2>1, NothingMasked, Facts
          DEF IdleStep, DefunctPick, rt_thread_defunct_dequeue, rt_defunct_execute, At
<1>2. CASE DefunctPick
  BY <1>1, <1>2, IdlePromises DEF DefunctPick
<1>3. CASE rt_thread_defunct_dequeue
  <2>1. kern.stat[u] = "CLOSE" /\ kern' = unlink_tlist(kern, u)
    BY <1>1, <1>3 DEF rt_thread_defunct_dequeue, At, IInv, IdleOK, DefunctExact
  <2>2. SameThreads(kern, kern') /\ kern'.ready_group = kern.ready_group
    BY <1>1, <2>1, UnlinkTlist DEF KernelOK
  <2>3. kern'.stat = [kern.stat EXCEPT ![u] = kern.stat[u]]
    BY <1>1, <2>2, Facts DEF SameThreads
  <2>4. UrgentOK => UrgentOK'
    BY <1>1, <2>2, UrgentStays DEF SameThreads
  <2> HIDE DEF u
  <2> QED BY <1>1, <2>2, <2>3, <2>4, DuePromises DEF SameThreads
<1>4. CASE rt_defunct_execute
  <2>1. kern.stat[u] = "CLOSE" /\ u \notin StaticThreads /\ u # idle
        /\ kern' = [kern EXCEPT !.stat[u] = "NONE"]
    BY <1>1, <1>4 DEF rt_defunct_execute, At, IInv, IdleOK, DefunctExact
  <2>2. /\ kern'.stat = [kern.stat EXCEPT ![u] = "NONE"]
        /\ kern'.current_priority = kern.current_priority
        /\ kern'.ready_group = kern.ready_group /\ kern'.current = kern.current
        /\ kern'.lock_nest = kern.lock_nest
    BY <2>1, Facts DEF Kernels
  <2> HIDE DEF u
  <2>3. UrgentOK => UrgentOK'
    BY <1>1, <2>1, <2>2, UrgentStays, Facts
  <2> QED BY <1>1, <2>1, <2>2, <2>3, DuePromises
<1> QED BY <1>2, <1>3, <1>4 DEF IdleStep

\* The tick itself only counts down the slice of the current thread; the
\* handler schedules if the slice is used up.
LEMMA TickPromises ==
  ASSUME IInv, rt_tick_increase
  PROVE  Promises
<1> DEFINE t == kern.current
           f == [irq |-> "tick", at |-> IF kern.remaining_tick[t] = 1
                                          THEN "schedule" ELSE "check", arg |-> idle]
<1>1. f \in Frames /\ isr' = <<f>> \o isr /\ pc' = pc
  BY ThreadsAssumption DEF rt_tick_increase, Push, Frames
<1>2. /\ kern'.stat = kern.stat /\ kern'.current_priority = kern.current_priority
      /\ kern'.ready_group = kern.ready_group /\ kern'.current = kern.current
      /\ kern'.lock_nest = kern.lock_nest
  BY Facts DEF rt_tick_increase, Kernels
<1>3. kern'.stat = [kern.stat EXCEPT ![idle] = kern.stat[idle]]
  BY <1>2, Facts
<1> HIDE DEF f
<1>4. UrgentOK => UrgentOK'
  BY <1>1, <1>2, UrgentStays
<1> QED BY <1>2, <1>3, <1>4, DuePromises, Facts

\* A device handler, from its beginning to its rt_schedule; the end of every
\* handler.
LEMMA HandlerPromises ==
  ASSUME IInv,
         (\E u \in Threads : DevIrq(u)) \/ DevResume \/ TimerCheckDone \/ rt_interrupt_leave
  PROVE  Promises
<1>1. CASE \E u \in Threads : DevIrq(u)
  <2>1. PICK u \in Threads : DevIrq(u)
    BY <1>1
  <2>2. [irq |-> "dev", at |-> "resume", arg |-> u] \in Frames
    BY DEF Frames
  <2> QED BY <2>1, <2>2, IdlePromises DEF DevIrq, Push
<1>2. CASE DevResume
  <2> DEFINE u == isr[1].arg
             s == IF u = kern.current THEN "RUNNING" ELSE "READY"
  <2>1. /\ isr # <<>> /\ KernelOK(kern, {}) /\ FrameGoto("schedule")
        /\ kern' = Resumed(kern, u)
    BY <1>2, NothingMasked, Facts DEF DevResume, FrameAt
  <2>2. u \in Threads /\ kern.stat[u] \in {"READY", "RUNNING", "SUSPEND"}
    <3>1. 1 \in DOMAIN isr /\ isr[1] \in Frames /\ isr[1].at = "resume"
      BY <1>2, <2>1, Facts, FrameType DEF DevResume, FrameAt
    <3> QED BY <3>1, Facts DEF Frames, FramesOK, Started
  <2> HIDE DEF u
  <2>3. StatChanged(kern, u, kern', s)
    BY <2>1, <2>2, ResumedOK
  <2>4. HandlerSchedules(isr)'
    BY <2>1, GotoFrames, Facts DEF HandlerSchedules
  <2>5. kern.stat[u] = s \/ <<kern.stat[u], s>> \in LifeSteps
    BY <2>1, <2>2, Facts DEF LifeSteps
  <2> QED BY <2>2, <2>3, <2>4, <2>5, DuePromises DEF StatChanged
<1>3. CASE TimerCheckDone \/ rt_interrupt_leave
  <2>1. kern' = kern /\ pc' = pc /\ isr # <<>> /\ isr[1].at # "schedule"
        /\ (isr' = Tail(isr) \/ FrameGoto("leave"))
    BY <1>3 DEF TimerCheckDone, rt_interrupt_leave, FrameAt
  <2> QED BY <2>1, IdlePromises
<1> QED BY <1>1, <1>2, <1>3

\* A change of priority keeps the life cycle and does not switch.
LEMMA ControlPromises ==
  ASSUME IInv, NEW t \in Threads, NEW u \in Threads, NEW p \in Prios,
         rt_thread_control_priority(t, u, p)
  PROVE  /\ SwitchStep /\ (\A x \in Threads : LifeStep(x))
         /\ ~FixedPriorities
<1>1. KernelOK(kern, {}) /\ "control" \in Calls
  BY Mover DEF rt_thread_control_priority, Calling
<1>2. kern'.stat = kern.stat /\ kern'.current = kern.current
  <2>1. CASE kern.stat[u] = "READY"
    BY <1>1, <2>1, RequeuedOK DEF rt_thread_control_priority
  <2>2. CASE kern.stat[u] # "READY"
    <3>1. ~Queued(kern, u)
      BY <1>1, <2>2 DEF KernelOK
    <3>2. kern' = Reprioritised(kern, u, p)
      BY <2>2 DEF rt_thread_control_priority
    <3> QED BY <1>1, <3>1, <3>2, ReprioritisedOK
  <2> QED BY <2>1, <2>2
<1> QED BY <1>1, <1>2 DEF SwitchStep, LifeStep, FixedPriorities

\* Every step keeps the promises; a missing switch is due if no priority is
\* changed.
LEMMA NextPromises ==
  ASSUME IInv, [Next]_vars
  PROVE  /\ SwitchStep /\ (\A x \in Threads : LifeStep(x))
         /\ FixedPriorities /\ UrgentOK => UrgentOK'
<1>1. ASSUME Promises
      PROVE  /\ SwitchStep /\ (\A x \in Threads : LifeStep(x))
             /\ FixedPriorities /\ UrgentOK => UrgentOK'
  BY <1>1 DEF Promises
<1>2. CASE UNCHANGED vars
  BY <1>1, <1>2, IdlePromises DEF vars
<1>3. ASSUME NEW t \in Threads, NEW u \in Threads, NEW p \in Prios,
             rt_thread_control_priority(t, u, p)
      PROVE  /\ SwitchStep /\ (\A x \in Threads : LifeStep(x))
             /\ FixedPriorities /\ UrgentOK => UrgentOK'
  BY <1>3, ControlPromises
<1>4. ASSUME NEW t \in Threads, NEW u \in Threads,
             \/ rt_thread_create(t, u) \/ rt_thread_startup(t, u)
             \/ ResumeCheck(t, u) \/ SuspendCheck(t, u) \/ DeleteCheck(t, u)
      PROVE  Promises
  BY <1>4, CreatePromises, StartupPromises, CheckPromises
<1>5. ASSUME NEW t \in Threads,
             \/ \E d \in SleepTicks : rt_thread_sleep(t, d)
             \/ rt_thread_yield(t) \/ EnterCritical(t) \/ ExitCritical(t) \/ _rt_thread_exit(t)
      PROVE  Promises
  BY <1>5, SleepPromises, YieldPromises, CriticalPromises, ExitPromises
<1>6. ASSUME NEW t \in Threads, CallStep(t) PROVE Promises
  BY <1>6, ThreadSchedulePromises, SuspendPromises, DeleteRemovePromises, CheckPromises,
     DeleteClosePromises DEF CallStep
<1>7. CASE IdleStep
  BY <1>1, <1>7, ReaperPromises
<1>8. CASE IsrStep
  BY <1>1, <1>8, ThreadSchedulePromises, TimerCheckPromises, HandlerPromises DEF IsrStep
<1>9. CASE rt_tick_increase
  BY <1>1, <1>9, TickPromises
<1>10. CASE \E u \in Threads : DevIrq(u)
  BY <1>1, <1>10, HandlerPromises
<1>11. ASSUME NEW t \in Threads, ApiStep(t)
       PROVE  /\ SwitchStep /\ (\A x \in Threads : LifeStep(x))
              /\ FixedPriorities /\ UrgentOK => UrgentOK'
  BY <1>1, <1>3, <1>4, <1>5, <1>11 DEF ApiStep
<1> QED BY <1>1, <1>2, <1>6, <1>7, <1>8, <1>9, <1>10, <1>11 DEF Next

\* The most urgent ready thread runs whenever no call, no handler and no lock
\* of the scheduler is under way: every wake-up is followed by a rt_schedule,
\* of the waker or of the unlock (thread.c, scheduler.c).
THEOREM MostUrgent ==
  DisciplinedCallers /\ FixedPriorities => (Spec => []MostUrgentRuns)
<1> SUFFICES ASSUME DisciplinedCallers, FixedPriorities PROVE Spec => []MostUrgentRuns
  OBVIOUS
<1>1. Init => UrgentOK
  <2> SUFFICES ASSUME Init PROVE Urgent(kern)
    BY DEF UrgentOK
  <2>1. /\ kern.current = main /\ kern.stat[main] = "RUNNING"
        /\ kern.ready_group = {InitPrio[idle]} /\ kern.current_priority = InitPrio
        /\ InitPrio[main] <= InitPrio[idle]
    BY ThreadsAssumption, PrioAssumption, PrioMaxAssumption DEF Init, Prios
  <2> QED BY <2>1 DEF Urgent
<1>2. IInv /\ UrgentOK /\ [Next]_vars => UrgentOK'
  BY NextPromises
<1>3. UrgentOK => MostUrgentRuns
  <2>1. isr = <<>> => ~HandlerSchedules(isr)
    BY DEF HandlerSchedules
  <2> QED BY <2>1 DEF UrgentOK, MostUrgentRuns
<1> QED BY <1>1, <1>2, <1>3, KernelInvariant, PTL DEF Spec

\* A context switch happens only with the scheduler unlocked and takes the
\* most urgent of the ready threads (rt_schedule).
THEOREM Switches == DisciplinedCallers => (Spec => SwitchesToMostUrgent)
<1> SUFFICES ASSUME DisciplinedCallers PROVE Spec => SwitchesToMostUrgent
  OBVIOUS
<1>1. IInv /\ [Next]_vars => [SwitchStep]_vars
  BY NextPromises
<1> QED BY <1>1, KernelInvariant, PTL DEF Spec, SwitchesToMostUrgent

\* A thread goes through its states in the order thread.c documents, whatever
\* threads and handlers suspend, resume and delete it.
THEOREM ThreadLife == DisciplinedCallers => (Spec => LifeCycle)
<1> SUFFICES ASSUME DisciplinedCallers PROVE Spec => LifeCycle
  OBVIOUS
<1>1. IInv /\ [Next]_vars => [\A t \in Threads : LifeStep(t)]_vars
  BY NextPromises
<1> QED BY <1>1, KernelInvariant, PTL DEF Spec, LifeCycle

-----------------------------------------------------------------------------
(* Timeouts are met.  A timer of a thread is at most one tick overdue, and *)
(* only while the tick handler has not been through rt_timer_check.        *)

\* Handlers do not interrupt themselves, and a device handler does not call
\* rt_timer_check.
StackOK(s) ==
  /\ \A i, j \in DOMAIN s : s[i].irq = s[j].irq => i = j
  /\ \A i \in DOMAIN s : s[i].irq = "dev" => s[i].at \in {"resume", "schedule", "leave"}

\* Where the tick handler stands, if it is active.
TickPlaces(s) == {s[i].at : i \in {j \in DOMAIN s : s[j].irq = "tick"}}

\* The fewest ticks an active timer has left.
Least(s) ==
  IF TickPlaces(s) = {} THEN 0 ELSE IF TickPlaces(s) = {"leave"} THEN 1 ELSE -1

TicksOK ==
  /\ StackOK(isr) /\ QueueOK(Threads, timers, rt_tick)
  /\ \A t \in timers.act : Left(rt_tick, timers.timeout[t]) >= Least(isr)

\* What entering, continuing and leaving a handler make of the stack.
LEMMA PushStack ==
  ASSUME NEW s \in Seq(Frames), StackOK(s), NEW f \in Frames,
         \A i \in DOMAIN s : s[i].irq # f.irq,
         f.irq = "dev" => f.at \in {"resume", "schedule", "leave"}
  PROVE  /\ StackOK(<<f>> \o s)
         /\ TickPlaces(<<f>> \o s) = IF f.irq = "tick" THEN {f.at} ELSE TickPlaces(s)
<1> DEFINE r == <<f>> \o s
<1>1. /\ DOMAIN r = 1 .. (1 + Len(s)) /\ r[1] = f /\ 1 \in DOMAIN r
      /\ \A j \in DOMAIN s : j + 1 \in DOMAIN r /\ r[j + 1] = s[j] /\ j + 1 # 1
      /\ \A i \in DOMAIN r : i # 1 => i - 1 \in DOMAIN s /\ r[i] = s[i - 1]
      /\ DOMAIN s \subseteq Nat /\ DOMAIN r \subseteq Nat
  <2>1. DOMAIN s = 1 .. Len(s) /\ Len(s) \in Nat
    BY FrameType
  <2> QED BY <2>1, PushFrames
<1> HIDE DEF r
<1>2. ASSUME NEW i \in DOMAIN r, NEW j \in DOMAIN r, r[i].irq = r[j].irq PROVE i = j
  <2>1. i # 1 /\ j # 1 => i - 1 = j - 1
    BY <1>1, <1>2 DEF StackOK
  <2>2. i \in Nat /\ j \in Nat
    BY <1>1
  <2>3. i = 1 <=> j = 1
    BY <1>1, <1>2
  <2> QED BY <2>1, <2>2, <2>3
<1>3. StackOK(r)
  BY <1>1, <1>2 DEF StackOK
<1>4. CASE f.irq = "tick"
  <2>1. {j \in DOMAIN r : r[j].irq = "tick"} = {1}
    BY <1>1, <1>4
  <2> QED BY <1>1, <1>3, <1>4, <2>1 DEF TickPlaces, r
<1>5. CASE f.irq # "tick"
  <2>1. \A a : a \in TickPlaces(r) <=> a \in TickPlaces(s)
    BY <1>1, <1>5 DEF TickPlaces
  <2> QED BY <1>3, <1>5, <2>1 DEF r
<1> QED BY <1>4, <1>5

LEMMA GotoStack ==
  ASSUME isr \in Seq(Frames), isr # <<>>, StackOK(isr), NEW a, FrameGoto(a),
         isr[1].irq = "dev" => a \in {"resume", "schedule", "leave"}
  PROVE  /\ StackOK(isr)'
         /\ isr[1].irq = "tick" => TickPlaces(isr) = {isr[1].at} /\ TickPlaces(isr)' = {a}
         /\ isr[1].irq # "tick" => TickPlaces(isr)' = TickPlaces(isr)
<1>1. /\ DOMAIN isr' = DOMAIN isr /\ 1 \in DOMAIN isr
      /\ isr'[1].irq = isr[1].irq /\ isr'[1].at = a
      /\ \A i \in DOMAIN isr : i # 1 => isr'[i] = isr[i]
  BY GotoFrames
<1>2. \A i \in DOMAIN isr : isr'[i].irq = isr[i].irq
  BY <1>1
<1>3. StackOK(isr)'
  BY <1>1, <1>2 DEF StackOK
<1>4. CASE isr[1].irq = "tick"
  <2>1. /\ {j \in DOMAIN isr : isr[j].irq = "tick"} = {1}
        /\ {j \in DOMAIN isr' : isr'[j].irq = "tick"} = {1}
    BY <1>1, <1>2, <1>4 DEF StackOK
  <2> QED BY <1>1, <1>3, <1>4, <2>1 DEF TickPlaces
<1>5. CASE isr[1].irq # "tick"
  <2>1. \A x : x \in TickPlaces(isr)' <=> x \in TickPlaces(isr)
    BY <1>1, <1>2, <1>5 DEF TickPlaces
  <2>2. TickPlaces(isr)' = TickPlaces(isr)
    <3> DEFINE S == TickPlaces(isr)
               T == TickPlaces(isr)'
    <3>1. S \subseteq T /\ T \subseteq S
      BY <2>1
    <3> QED BY <3>1
  <2> QED BY <1>3, <1>5, <2>2
<1> QED BY <1>4, <1>5

LEMMA PopStack ==
  ASSUME NEW s \in Seq(Frames), s # <<>>, StackOK(s)
  PROVE  /\ StackOK(Tail(s))
         /\ s[1].irq = "tick" => TickPlaces(s) = {s[1].at} /\ TickPlaces(Tail(s)) = {}
         /\ s[1].irq # "tick" => TickPlaces(Tail(s)) = TickPlaces(s)
<1> DEFINE r == Tail(s)
<1>1. /\ \A i \in DOMAIN r : i + 1 \in DOMAIN s /\ r[i] = s[i + 1] /\ i + 1 # 1 /\ i \in Nat
      /\ \A j \in DOMAIN s : j # 1 => j - 1 \in DOMAIN r /\ r[j - 1] = s[j]
      /\ 1 \in DOMAIN s
  <2>1. r \in Seq(Frames)
    BY FramePop
  <2>2. DOMAIN r = 1 .. Len(r) /\ Len(r) \in Nat
    BY <2>1, FrameType
  <2>3. /\ \A i \in DOMAIN r : i + 1 \in DOMAIN s /\ r[i] = s[i + 1]
        /\ \A j \in DOMAIN s : j # 1 => j - 1 \in DOMAIN r /\ r[j - 1] = s[j]
        /\ 1 \in DOMAIN s
    BY PopFrames, FrameType
  <2> HIDE DEF r
  <2> QED BY <2>2, <2>3
<1> HIDE DEF r
<1>2. ASSUME NEW i \in DOMAIN r, NEW j \in DOMAIN r, r[i].irq = r[j].irq PROVE i = j
  <2>1. i + 1 \in DOMAIN s /\ j + 1 \in DOMAIN s /\ s[i + 1].irq = s[j + 1].irq
    BY <1>1, <1>2
  <2>2. i + 1 = j + 1
    BY <2>1 DEF StackOK
  <2>3. i \in Nat /\ j \in Nat
    BY <1>1
  <2> QED BY <2>2, <2>3
<1>3. StackOK(r)
  BY <1>1, <1>2 DEF StackOK
<1>4. CASE s[1].irq = "tick"
  <2>1. {j \in DOMAIN s : s[j].irq = "tick"} = {1}
    BY <1>1, <1>4 DEF StackOK
  <2>2. {j \in DOMAIN r : r[j].irq = "tick"} = {}
    BY <1>1, <1>4 DEF StackOK
  <2> QED BY <1>3, <1>4, <2>1, <2>2 DEF TickPlaces, r
<1>5. CASE s[1].irq # "tick"
  <2>1. \A x : x \in TickPlaces(r) <=> x \in TickPlaces(s)
    BY <1>1, <1>5 DEF TickPlaces
  <2> QED BY <1>3, <1>5, <2>1 DEF r
<1> QED BY <1>4, <1>5

\* The facts about timers that the steps use.
LEMMA TimerFacts ==
  ASSUME IInv
  PROVE  /\ BaseOK(Threads, timers) /\ rt_tick \in Ticks
         /\ \A t \in Threads : Linked(timers.list, t) <=> t \in timers.act
         /\ timers.act \subseteq Threads
BY Facts DEF TimersOK, BaseOK, Bases

\* A step that starts no timer and is not a tick.
LEMMA FewerTimers ==
  ASSUME IInv, TicksOK, rt_tick' = rt_tick, StackOK(isr)', Least(isr)' <= Least(isr),
         \/ timers' = timers
         \/ \E x \in Threads : timers' = rt_timer_stop(timers, x)
         \/ \E x \in Threads : timers' = rt_timer_detach(timers, x)
  PROVE  TicksOK'
<1>1. /\ QueueOK(Threads, timers', rt_tick) /\ timers'.act \subseteq timers.act
      /\ timers'.timeout = timers.timeout
  <2>1. CASE timers' = timers
    BY <2>1 DEF TicksOK
  <2>2. ASSUME NEW x \in Threads,
               Unlinked(Threads, timers, x, timers.act \ {x}, timers')
        PROVE  /\ QueueOK(Threads, timers', rt_tick) /\ timers'.act \subseteq timers.act
               /\ timers'.timeout = timers.timeout
    BY <2>2, TimerFacts DEF TicksOK, Unlinked
  <2> QED BY <2>1, <2>2, TimerFacts, StopTimerOK, DetachTimerOK
<1>2. \A t \in timers.act : Left(rt_tick, timers.timeout[t]) \in Int
  <2>1. \A t \in timers.act : timers.timeout[t] \in Ticks
    BY TimerFacts, BaseFields
  <2> QED BY <2>1, TimerFacts, LeftValue
<1>3. Least(isr) \in Int /\ Least(isr)' \in Int
  BY DEF Least
<1>4. \A t \in timers'.act : Left(rt_tick', timers'.timeout[t]) >= Least(isr)'
  BY <1>1, <1>2, <1>3 DEF TicksOK
<1> QED BY <1>1, <1>4 DEF TicksOK

\* The first part of the tick handler: every timeout is one tick nearer.
LEMMA TickTimers ==
  ASSUME IInv, TicksOK, Roomy, rt_tick_increase
  PROVE  TicksOK'
<1> DEFINE f == [irq |-> "tick", at |-> IF kern.remaining_tick[kern.current] = 1
                                          THEN "schedule" ELSE "check", arg |-> idle]
<1>1. /\ f \in Frames /\ f.irq = "tick" /\ f.at # "leave" /\ isr' = <<f>> \o isr
      /\ timers' = timers /\ rt_tick' = (rt_tick + 1) % TickMod
      /\ \A i \in DOMAIN isr : isr[i].irq # f.irq
  BY ThreadsAssumption DEF rt_tick_increase, Push, Frames, Accepts
<1> HIDE DEF f
<1>2. StackOK(isr)' /\ TickPlaces(isr)' = {f.at}
  BY <1>1, Facts, PushStack DEF TicksOK
<1>3. TickPlaces(isr) = {}
  BY <1>1 DEF TickPlaces
<1>4. Least(isr) = 0 /\ Least(isr)' = -1
  <2>1. {f.at} # {} /\ {f.at} # {"leave"}
    BY <1>1
  <2> QED BY <1>2, <1>3, <2>1 DEF Least
<1>5. /\ timers.timeout \in [Threads -> Ticks] /\ timers.list \in Seq(Threads)
      /\ timers.act \subseteq Threads /\ rt_tick' \in Ticks
      /\ \A t \in Threads : Linked(timers.list, t) <=> t \in timers.act
  <2>1. /\ rt_tick + 1 \in Int /\ TickMod \in Nat /\ TickMod >= 4
        /\ (rt_tick + 1) % TickMod \in 0 .. (TickMod - 1)
    BY TimerFacts, TickModAssumption DEF Ticks
  <2> QED BY <1>1, <2>1, TimerFacts, BaseFields DEF Ticks
<1>6. ASSUME NEW t \in timers.act
      PROVE  /\ Left(rt_tick, timers.timeout[t]) \in Int /\ Left(rt_tick, timers.timeout[t]) >= 0
             /\ Left(rt_tick, timers.timeout[t]) < Half
             /\ Left(rt_tick', timers.timeout[t]) = Left(rt_tick, timers.timeout[t]) - 1
  <2>1. t \in Threads /\ timers.timeout[t] \in Ticks /\ rt_tick \in Ticks
    BY <1>5, TimerFacts
  <2>2. /\ Left(rt_tick, timers.timeout[t]) >= 0
        /\ Left(rt_tick, timers.timeout[t]) < Half
    BY <1>4, <1>5, <2>1 DEF TicksOK, QueueOK
  <2>3. Left(rt_tick, timers.timeout[t]) \in Int
    BY <2>1, LeftValue
  <2> QED BY <1>1, <2>1, <2>2, <2>3, NextLeft
<1>7. \A i \in DOMAIN timers.list : timers.list[i] \in timers.act
  BY <1>5, LenProperties, ElementOfSeq DEF Linked
<1>8. Half \in Int
  BY HalfBounds
<1>9. QueueOK(Threads, timers, rt_tick')
  <2>1. \A t \in Threads : Linked(timers.list, t) => Left(rt_tick', timers.timeout[t]) < Half
    BY <1>5, <1>6, <1>8
  <2>2. ASSUME NEW i \in DOMAIN timers.list, NEW j \in DOMAIN timers.list, i < j
        PROVE  LeftOf(Threads, timers, rt_tick')[timers.list[i]]
                 <= LeftOf(Threads, timers, rt_tick')[timers.list[j]]
    <3> DEFINE x == timers.list[i]
               y == timers.list[j]
    <3>1. x \in timers.act /\ y \in timers.act /\ x \in Threads /\ y \in Threads
      BY <1>5, <1>7
    <3>2. Left(rt_tick, timers.timeout[x]) <= Left(rt_tick, timers.timeout[y])
      <4>1. LeftOf(Threads, timers, rt_tick)[x] <= LeftOf(Threads, timers, rt_tick)[y]
        BY <2>2 DEF TicksOK, QueueOK, Ordered
      <4> HIDE DEF x, y
      <4> QED BY <3>1, <4>1 DEF LeftOf
    <3> HIDE DEF x, y
    <3>3. Left(rt_tick', timers.timeout[x]) <= Left(rt_tick', timers.timeout[y])
      BY <1>6, <3>1, <3>2
    <3>4. LeftOf(Threads, timers, rt_tick')[x] <= LeftOf(Threads, timers, rt_tick')[y]
      BY <3>1, <3>3 DEF LeftOf
    <3> QED BY <3>4 DEF x, y
  <2> QED BY <2>1, <2>2 DEF QueueOK, Ordered
<1>10. \A t \in timers.act : Left(rt_tick', timers.timeout[t]) >= -1
  BY <1>6
<1> QED BY <1>1, <1>2, <1>4, <1>9, <1>10 DEF TicksOK

\* rt_thread_sleep starts the timer of its caller.
LEMMA SleepTimers ==
  ASSUME IInv, TicksOK, Roomy, NEW t \in Threads, NEW d \in SleepTicks, rt_thread_sleep(t, d)
  PROVE  TicksOK'
<1> DEFINE stopped == IF kern.stat[t] \in {"READY", "RUNNING"}
                        THEN rt_timer_stop(timers, t) ELSE timers
           set == timer_set_time(stopped, t, d)
<1>1. /\ timers' = rt_timer_start(set, t, rt_tick) /\ isr = <<>> /\ isr' = isr
      /\ rt_tick' = rt_tick /\ d \in Durations
  BY SleepAssumption DEF rt_thread_sleep, Calling, At
<1>2. Least(isr) = 0 /\ StackOK(isr)
  BY <1>1 DEF Least, TickPlaces, TicksOK
<1>3. /\ BaseOK(Threads, stopped) /\ QueueOK(Threads, stopped, rt_tick)
      /\ stopped.act \subseteq timers.act /\ stopped.timeout = timers.timeout
  <2>1. CASE stopped = timers
    BY <2>1, TimerFacts DEF TicksOK
  <2>2. CASE stopped = rt_timer_stop(timers, t)
    BY <2>2, TimerFacts, StopTimerOK DEF TicksOK, Unlinked
  <2> QED BY <2>1, <2>2
<1> HIDE DEF stopped
<1>4. /\ BaseOK(Threads, set) /\ QueueOK(Threads, set, rt_tick)
      /\ set.act = stopped.act /\ set.timeout = stopped.timeout /\ set.init[t] = d
  BY <1>1, <1>3, TimerFacts, SetTimerOK
<1> HIDE DEF set
<1>5. TimerStarted(Threads, set, t, rt_tick, timers')
  BY <1>1, <1>4, TimerFacts, StartTimerOK
<1>6. d >= 0
  BY <1>1 DEF Durations, Ticks
<1>7. ASSUME NEW x \in timers'.act PROVE Left(rt_tick, timers'.timeout[x]) >= 0
  <2>1. CASE x = t
    BY <1>4, <1>5, <1>6, <2>1 DEF TimerStarted
  <2>2. CASE x # t
    <3>1. x \in timers.act /\ x \in Threads
      BY <1>3, <1>4, <1>5, <1>7, <2>2, TimerFacts DEF TimerStarted
    <3>2. timers'.timeout[x] = timers.timeout[x]
      BY <1>3, <1>4, <1>5, <2>2, <3>1 DEF TimerStarted
    <3> QED BY <1>2, <3>1, <3>2 DEF TicksOK
  <2> QED BY <2>1, <2>2
<1> QED BY <1>1, <1>2, <1>4, <1>5, <1>7 DEF TicksOK, TimerStarted

\* rt_thread_create initialises a timer that is not active.
LEMMA CreateTimers ==
  ASSUME IInv, TicksOK, NEW t \in Threads, NEW u \in Threads, rt_thread_create(t, u)
  PROVE  TicksOK'
<1>1. /\ kern.stat[u] \in {"NONE", "CLOSE"} /\ timers' = timer_init(timers, u, 0)
      /\ isr' = isr /\ rt_tick' = rt_tick
  BY DEF rt_thread_create
<1>2. u \notin timers.act /\ 0 \in Durations
  <2>1. 0 < (TickMod - 1) \div 2
    BY TickModAssumption
  <2> QED BY <1>1, <2>1, Facts, TickModAssumption DEF Ticks, Durations, RT_TICK_MAX
<1>3. /\ BaseOK(Threads, timers') /\ timers'.act = timers.act
      /\ \A y \in Threads : y # u => timers'.timeout[y] = timers.timeout[y]
      /\ QueueOK(Threads, timers', rt_tick)
  BY <1>1, <1>2, TimerFacts, FreshTimerOK DEF TicksOK
<1>4. \A x \in timers'.act : timers'.timeout[x] = timers.timeout[x]
  BY <1>2, <1>3, TimerFacts
<1> QED BY <1>1, <1>3, <1>4 DEF TicksOK

\* The steps of handlers after the tick.
LEMMA HandlerTimers ==
  ASSUME IInv, TicksOK, Roomy, IsrStep
  PROVE  TicksOK'
<1>1. isr # <<>> /\ isr \in Seq(Frames) /\ isr[1] \in Frames /\ rt_tick' = rt_tick
  <2>1. isr # <<>> /\ rt_tick' = rt_tick
    BY DEF IsrStep, IsrSchedule, rt_timer_check, TimerCheckDone, DevResume, rt_interrupt_leave,
           FrameAt
  <2> QED BY <2>1, Facts, FrameType
<1>2. isr[1].irq \in {"tick", "dev"}
  BY <1>1 DEF Frames
<1>3. isr[1].irq = "dev" => isr[1].at \in {"resume", "schedule", "leave"}
  BY <1>1, FrameType DEF TicksOK, StackOK
<1>4. CASE IsrSchedule
  <2> DEFINE a == IF isr[1].irq = "tick" THEN "check" ELSE "leave"
  <2>1. FrameGoto(a) /\ timers' = timers /\ isr[1].at = "schedule"
    BY <1>4 DEF IsrSchedule, FrameAt
  <2>2. /\ StackOK(isr)'
        /\ isr[1].irq = "tick" => TickPlaces(isr) = {isr[1].at} /\ TickPlaces(isr)' = {a}
        /\ isr[1].irq # "tick" => TickPlaces(isr)' = TickPlaces(isr)
    BY <1>1, <1>2, <2>1, GotoStack DEF TicksOK
  <2>3. Least(isr)' <= Least(isr)
    BY <2>1, <2>2 DEF Least
  <2> QED BY <1>1, <2>1, <2>2, <2>3, FewerTimers
<1>5. CASE rt_timer_check
  <2> DEFINE t == Head(timers.list)
  <2>1. /\ FrameGoto("firing") /\ isr[1].at \in {"check", "firing"}
        /\ timers' = rt_timer_detach(timers, t) /\ timers.list # <<>>
    BY <1>5 DEF rt_timer_check, FrameAt, HeadExpired
  <2>2. t \in Threads
    BY <2>1, TimerFacts, BaseFields, ListHead
  <2>3. /\ StackOK(isr)' /\ TickPlaces(isr) = {isr[1].at} /\ TickPlaces(isr)' = {"firing"}
    BY <1>1, <1>2, <1>3, <2>1, GotoStack DEF TicksOK
  <2>4. Least(isr)' = -1 /\ Least(isr) = -1
    BY <2>1, <2>3 DEF Least
  <2> HIDE DEF t
  <2> QED BY <1>1, <2>1, <2>2, <2>3, <2>4, FewerTimers
<1>6. CASE TimerCheckDone
  <2>1. /\ FrameGoto("leave") /\ isr[1].at \in {"check", "firing"} /\ timers' = timers
        /\ ~HeadExpired(timers, rt_tick)
    BY <1>6 DEF TimerCheckDone, FrameAt
  <2>2. StackOK(isr)' /\ TickPlaces(isr)' = {"leave"}
    BY <1>1, <1>2, <1>3, <2>1, GotoStack DEF TicksOK
  <2>3. Least(isr)' = 1
    BY <2>2 DEF Least
  <2>4. ASSUME NEW x \in timers.act PROVE Left(rt_tick, timers.timeout[x]) >= 1
    <3> DEFINE h == Head(timers.list)
    <3>1. /\ timers.list \in Seq(Threads) /\ timers.timeout \in [Threads -> Ticks]
          /\ x \in Threads /\ Linked(timers.list, x) /\ rt_tick \in Ticks
      BY TimerFacts, BaseFields
    <3>2. PICK i \in DOMAIN timers.list : timers.list[i] = x
      BY <3>1 DEF Linked
    <3>3. /\ timers.list # <<>> /\ h = timers.list[1] /\ 1 \in DOMAIN timers.list
          /\ h \in Threads /\ Linked(timers.list, h) /\ i \in Nat /\ 1 <= i
      BY <3>1, <3>2, LenProperties, ListHead
    <3> HIDE DEF h
    <3>4. Left(rt_tick, timers.timeout[h]) <= Left(rt_tick, timers.timeout[x])
      <4>1. CASE i = 1
        <5>1. h = x
          BY <3>2, <3>3, <4>1
        <5>2. rt_tick \in Ticks /\ timers.timeout[x] \in Ticks
          BY <3>1
        <5>3. Left(rt_tick, timers.timeout[x]) \in Int
          BY <5>2, LeftValue
        <5> QED BY <5>1, <5>3
      <4>2. CASE 1 < i
        <5>1. LeftOf(Threads, timers, rt_tick)[timers.list[1]]
                <= LeftOf(Threads, timers, rt_tick)[timers.list[i]]
          BY <3>3, <4>2 DEF TicksOK, QueueOK, Ordered
        <5> QED BY <3>1, <3>2, <3>3, <5>1 DEF LeftOf
      <4> QED BY <3>3, <4>1, <4>2
    <3>5. ~Expired(rt_tick, timers.timeout[h])
      BY <2>1, <3>3 DEF HeadExpired, h
    <3>6. Left(rt_tick, timers.timeout[h]) < Half
      BY <3>3 DEF TicksOK, QueueOK
    <3>7. Left(rt_tick, timers.timeout[h]) \in Int /\ ~(Left(rt_tick, timers.timeout[h]) <= 0)
      BY <3>1, <3>3, <3>5, <3>6, ExpiredLeft
    <3>8. Left(rt_tick, timers.timeout[x]) \in Int
      BY <3>1, LeftValue
    <3> QED BY <3>4, <3>7, <3>8
  <2> QED BY <1>1, <2>1, <2>2, <2>3, <2>4 DEF TicksOK
<1>7. CASE DevResume
  <2>1. /\ FrameGoto("schedule") /\ isr[1].at = "resume" /\ isr[1].arg \in Threads
        /\ timers' = rt_timer_stop(timers, isr[1].arg)
    BY <1>1, <1>7 DEF DevResume, FrameAt, Frames
  <2>2. /\ StackOK(isr)'
        /\ isr[1].irq = "tick" => TickPlaces(isr) = {isr[1].at} /\ TickPlaces(isr)' = {"schedule"}
        /\ isr[1].irq # "tick" => TickPlaces(isr)' = TickPlaces(isr)
    BY <1>1, <2>1, GotoStack DEF TicksOK
  <2>3. Least(isr)' <= Least(isr)
    BY <2>1, <2>2 DEF Least
  <2> QED BY <1>1, <2>1, <2>2, <2>3, FewerTimers
<1>8. CASE rt_interrupt_leave
  <2>1. isr' = Tail(isr) /\ isr[1].at = "leave" /\ timers' = timers
    BY <1>8 DEF rt_interrupt_leave, FrameAt
  <2>2. /\ StackOK(isr)'
        /\ isr[1].irq = "tick" => TickPlaces(isr) = {isr[1].at} /\ TickPlaces(isr)' = {}
        /\ isr[1].irq # "tick" => TickPlaces(isr)' = TickPlaces(isr)
    BY <1>1, <2>1, PopStack DEF TicksOK
  <2>3. Least(isr)' <= Least(isr)
    BY <2>1, <2>2 DEF Least
  <2> QED BY <1>1, <2>1, <2>2, <2>3, FewerTimers
<1> QED BY <1>4, <1>5, <1>6, <1>7, <1>8 DEF IsrStep

\* Every step keeps the timeouts in order and none overdue too long.
LEMMA NextTicksOK ==
  ASSUME IInv, TicksOK, Roomy, [Next]_vars
  PROVE  TicksOK'
<1>1. ASSUME isr' = isr, rt_tick' = rt_tick,
             \/ timers' = timers
             \/ \E x \in Threads : timers' = rt_timer_stop(timers, x)
             \/ \E x \in Threads : timers' = rt_timer_detach(timers, x)
      PROVE  TicksOK'
  <2>1. StackOK(isr)' /\ Least(isr)' = Least(isr) /\ Least(isr) \in Int
    BY <1>1 DEF TicksOK, StackOK, Least, TickPlaces
  <2> QED BY <1>1, <2>1, FewerTimers
<1>2. CASE UNCHANGED vars
  BY <1>1, <1>2 DEF vars
<1>3. ASSUME NEW t \in Threads, ApiStep(t) PROVE TicksOK'
  <2>1. ASSUME NEW u \in Threads, rt_thread_create(t, u) PROVE TicksOK'
    BY <2>1, CreateTimers
  <2>2. ASSUME NEW u \in Threads, rt_thread_startup(t, u) PROVE TicksOK'
    BY <1>1, <2>2 DEF rt_thread_startup
  <2>3. ASSUME NEW u \in Threads,
               ResumeCheck(t, u) \/ SuspendCheck(t, u) \/ DeleteCheck(t, u)
        PROVE  TicksOK'
    BY <1>1, <2>3 DEF ResumeCheck, SuspendCheck, DeleteCheck
  <2>4. ASSUME NEW u \in Threads, NEW p \in Prios, rt_thread_control_priority(t, u, p)
        PROVE  TicksOK'
    BY <1>1, <2>4 DEF rt_thread_control_priority
  <2>5. ASSUME NEW d \in SleepTicks, rt_thread_sleep(t, d) PROVE TicksOK'
    BY <2>5, SleepTimers
  <2>6. CASE rt_thread_yield(t) \/ EnterCritical(t) \/ ExitCritical(t) \/ _rt_thread_exit(t)
    BY <1>1, <2>6 DEF rt_thread_yield, EnterCritical, ExitCritical, _rt_thread_exit
  <2> QED BY <1>3, <2>1, <2>2, <2>3, <2>4, <2>5, <2>6 DEF ApiStep
<1>4. ASSUME NEW t \in Threads, CallStep(t) PROVE TicksOK'
  <2>1. arg[t] \in Threads
    BY Facts
  <2> QED BY <1>1, <1>4, <2>1
          DEF CallStep, ThreadSchedule, rt_thread_resume, rt_thread_suspend, DeleteRemove,
              DeleteDetachTimer, DeleteClose
<1>5. CASE IdleStep
  BY <1>1, <1>5 DEF IdleStep, DefunctPick, rt_thread_defunct_dequeue, rt_defunct_execute
<1>6. CASE IsrStep
  BY <1>6, HandlerTimers
<1>7. CASE rt_tick_increase
  BY <1>7, TickTimers
<1>8. ASSUME NEW u \in Threads, DevIrq(u) PROVE TicksOK'
  <2> DEFINE f == [irq |-> "dev", at |-> "resume", arg |-> u]
  <2>1. /\ f \in Frames /\ f.irq = "dev" /\ f.at = "resume" /\ isr' = <<f>> \o isr
        /\ timers' = timers /\ rt_tick' = rt_tick /\ \A i \in DOMAIN isr : isr[i].irq # f.irq
    BY <1>8 DEF DevIrq, Push, Frames, Accepts
  <2> HIDE DEF f
  <2>2. StackOK(isr)' /\ TickPlaces(isr)' = TickPlaces(isr)
    BY <2>1, Facts, PushStack DEF TicksOK
  <2>3. Least(isr)' <= Least(isr)
    BY <2>2 DEF Least
  <2> QED BY <2>1, <2>2, <2>3, FewerTimers
<1> QED BY <1>2, <1>3, <1>4, <1>5, <1>6, <1>7, <1>8 DEF Next

\* When the tick handler returns, every thread timer that has timed out has
\* been taken and its thread resumed (rt_timer_check, rt_thread_timeout),
\* however the counter wraps.
THEOREM NoTimeoutMissed ==
  DisciplinedCallers /\ Roomy => (Spec => []NoMissedTimeout)
<1> SUFFICES ASSUME DisciplinedCallers, Roomy PROVE Spec => []NoMissedTimeout
  OBVIOUS
<1>1. Init => TicksOK
  <2> SUFFICES ASSUME Init PROVE TicksOK
    OBVIOUS
  <2>1. timers.list = <<>> /\ timers.act = {} /\ isr = <<>>
    BY DEF Init
  <2> QED BY <2>1 DEF TicksOK, StackOK, QueueOK, Ordered, Linked
<1>2. IInv /\ TicksOK /\ [Next]_vars => TicksOK'
  BY NextTicksOK
<1>3. IInv /\ TicksOK => NoMissedTimeout
  <2> SUFFICES ASSUME IInv, TicksOK, FrameAt({"leave"}), isr[1].irq = "tick",
                      NEW t \in timers.act
               PROVE  ~Expired(rt_tick, timers.timeout[t])
    BY DEF NoMissedTimeout
  <2>1. isr # <<>> /\ isr[1].at = "leave" /\ isr \in Seq(Frames)
    BY Facts DEF FrameAt
  <2>2. TickPlaces(isr) = {"leave"}
    BY <2>1, PopStack DEF TicksOK
  <2>3. Left(rt_tick, timers.timeout[t]) >= 1
    BY <2>2 DEF TicksOK, Least
  <2>4. /\ timers.timeout[t] \in Ticks /\ rt_tick \in Ticks
        /\ Left(rt_tick, timers.timeout[t]) < Half
    BY TimerFacts, BaseFields DEF TicksOK, QueueOK
  <2> QED BY <2>3, <2>4, ExpiredLeft
<1> QED BY <1>1, <1>2, <1>3, KernelInvariant, PTL DEF Spec

-----------------------------------------------------------------------------
(* The threads as the scheduler's users see them (module Dispatcher): each *)
(* operator on the kernel record is one on what they see.                  *)

Seen(u, w, r, a, o) == [urgency |-> u, waiting |-> w, running |-> r, mode |-> a, over |-> o]

\* The queues after t has left, or has joined the one of priority p, or after
\* the first thread of that one has left.
Without(w, t) == [p \in Prios |-> rt_list_remove(w[p], t)]
With(w, p, t) == [w EXCEPT ![p] = Append(w[p], t)]
Popped(w, p) == [w EXCEPT ![p] = Tail(w[p])]

\* The parts of what is seen, and the operators of Dispatcher on them.
LEMMA SeenFields ==
  ASSUME NEW u, NEW w, NEW r, NEW a, NEW o
  PROVE  /\ Seen(u, w, r, a, o).urgency = u /\ Seen(u, w, r, a, o).waiting = w
         /\ Seen(u, w, r, a, o).running = r /\ Seen(u, w, r, a, o).mode = a
         /\ Seen(u, w, r, a, o).over = o
BY SMT DEF Seen

\* The lists of the two modules are the same ones.
LEMMA SameLists ==
  ASSUME NEW s, NEW x
  PROVE  (Cpu!Linked(s, x) <=> Linked(s, x)) /\ Cpu!rt_list_remove(s, x) = rt_list_remove(s, x)
<1>1. Cpu!Linked(s, x) <=> Linked(s, x)
  BY DEF Cpu!Linked, Linked
<1>2. Cpu!PlaceOf(s, x) = PlaceOf(s, x)
  BY DEF Cpu!PlaceOf, PlaceOf
<1>3. \A i : Cpu!RemoveAt(s, i) = RemoveAt(s, i)
  BY DEF Cpu!RemoveAt, RemoveAt
<1> QED BY <1>1, <1>2, <1>3, Zenon DEF Cpu!rt_list_remove, rt_list_remove

LEMMA SeenLeft ==
  ASSUME NEW u, NEW w, NEW r, NEW a, NEW o, NEW t
  PROVE  Cpu!Left(Seen(u, w, r, a, o), t) = Seen(u, Without(w, t), r, a, o)
<1> DEFINE c == Seen(u, w, r, a, o)
           x == Without(w, t)
<1>1. [c EXCEPT !.waiting = x] = Seen(u, x, r, a, o)
  <2> HIDE DEF x
  <2> QED BY SMT DEF Seen
<1>2. \A p \in Prios : Cpu!rt_list_remove(w[p], t) = rt_list_remove(w[p], t)
  BY SameLists
<1>3. x = [p \in Prios |-> Cpu!rt_list_remove(c.waiting[p], t)]
  BY <1>2, SeenFields DEF Without
<1> HIDE DEF x, c
<1>4. Cpu!Left(c, t) = [c EXCEPT !.waiting = x]
  BY <1>3, Zenon DEF Cpu!Left
<1>5. Cpu!Left(c, t) = Seen(u, x, r, a, o)
  BY <1>1, <1>4, Zenon
<1> QED BY <1>5, Zenon DEF x, c

LEMMA SeenJoined ==
  ASSUME NEW u, NEW w, NEW r, NEW a, NEW o, NEW t
  PROVE  Cpu!Joined(Seen(u, w, r, a, o), t) = Seen(u, With(w, u[t], t), r, a, o)
<1> DEFINE c == Seen(u, w, r, a, o)
           q == u[t]
           l == Append(w[q], t)
<1>1. c.urgency = u /\ c.waiting = w
  BY SeenFields
<1> HIDE DEF c
<1>2. Cpu!Joined(c, t) = [c EXCEPT !.waiting[q] = l]
  BY <1>1, Zenon DEF Cpu!Joined
<1> HIDE DEF q, l
<1>3. [c EXCEPT !.waiting[q] = l] = Seen(u, [w EXCEPT ![q] = l], r, a, o)
  BY SMT DEF Seen, c
<1>4. Cpu!Joined(c, t) = Seen(u, [w EXCEPT ![q] = l], r, a, o)
  BY <1>2, <1>3, Zenon
<1> QED BY <1>4, Zenon DEF With, c, q, l

LEMMA SeenTurnOver ==
  ASSUME NEW u, NEW w, NEW r, NEW a, NEW o
  PROVE  Cpu!TurnOver(Seen(u, w, r, a, o)) = Seen(u, w, r, a, o \cup {r})
BY DEF Cpu!TurnOver, Seen

LEMMA SeenTurnBegins ==
  ASSUME NEW u, NEW w, NEW r, NEW a, NEW o, NEW t
  PROVE  Cpu!TurnBegins(Seen(u, w, r, a, o), t) = Seen(u, w, r, a, o \ {t})
BY DEF Cpu!TurnBegins, Seen

\* What is seen of a kernel record.
Mode(k) == IF k.stat[k.current] = "RUNNING" THEN "runs" ELSE "blocked"

LEMMA CpuSeen ==
  ASSUME NEW k
  PROVE  CpuOf(k) = Seen(k.current_priority, k.priority_table, k.current, Mode(k), k.yield)
BY DEF CpuOf, Seen, Mode

LEMMA CpuFields ==
  ASSUME NEW k
  PROVE  /\ CpuOf(k).urgency = k.current_priority /\ CpuOf(k).waiting = k.priority_table
         /\ CpuOf(k).running = k.current /\ CpuOf(k).mode = Mode(k) /\ CpuOf(k).over = k.yield
BY CpuSeen, SeenFields

\* The moves, on what is seen of a kernel record.
LEMMA CpuMoves ==
  ASSUME NEW k, NEW t
  PROVE  /\ Cpu!Left(CpuOf(k), t) =
              Seen(k.current_priority, Without(k.priority_table, t), k.current, Mode(k), k.yield)
         /\ Cpu!Joined(CpuOf(k), t) =
              Seen(k.current_priority, With(k.priority_table, k.current_priority[t], t),
                   k.current, Mode(k), k.yield)
         /\ Cpu!TurnOver(CpuOf(k)) =
              Seen(k.current_priority, k.priority_table, k.current, Mode(k),
                   k.yield \cup {k.current})
         /\ Cpu!TurnBegins(CpuOf(k), t) =
              Seen(k.current_priority, k.priority_table, k.current, Mode(k), k.yield \ {t})
<1> DEFINE c == CpuOf(k)
<1>1. c = Seen(k.current_priority, k.priority_table, k.current, Mode(k), k.yield)
  BY CpuSeen
<1> HIDE DEF c
<1>2. Cpu!Left(c, t) =
        Seen(k.current_priority, Without(k.priority_table, t), k.current, Mode(k), k.yield)
  BY <1>1, SeenLeft
<1>3. Cpu!Joined(c, t) =
        Seen(k.current_priority, With(k.priority_table, k.current_priority[t], t),
             k.current, Mode(k), k.yield)
  BY <1>1, SeenJoined
<1>4. Cpu!TurnOver(c) =
        Seen(k.current_priority, k.priority_table, k.current, Mode(k), k.yield \cup {k.current})
  BY <1>1, SeenTurnOver
<1>5. Cpu!TurnBegins(c, t) =
        Seen(k.current_priority, k.priority_table, k.current, Mode(k), k.yield \ {t})
  BY <1>1, SeenTurnBegins
<1> QED BY <1>2, <1>3, <1>4, <1>5 DEF c

LEMMA CpuMode ==
  ASSUME NEW k, NEW m
  PROVE  [CpuOf(k) EXCEPT !.mode = m] =
           Seen(k.current_priority, k.priority_table, k.current, m, k.yield)
<1> DEFINE c == CpuOf(k)
<1>1. c = Seen(k.current_priority, k.priority_table, k.current, Mode(k), k.yield)
  BY CpuSeen
<1> HIDE DEF c
<1>2. [c EXCEPT !.mode = m] = Seen(k.current_priority, k.priority_table, k.current, m, k.yield)
  BY <1>1, SMT DEF Seen
<1> QED BY <1>2, Zenon DEF c

\* unlink_tlist takes a thread out of its queue.
LEMMA UnlinkLeft ==
  ASSUME NEW k, QueuesOK(k), NEW t \in Threads
  PROVE  CpuOf(unlink_tlist(k, t)) = Cpu!Left(CpuOf(k), t)
<1> DEFINE u == unlink_tlist(k, t)
<1>1. SameThreads(k, u)
  BY UnlinkTlist
<1>2. u.priority_table = Without(k.priority_table, t)
  BY DEF unlink_tlist, QueuesOK, Kernels, Without
<1> HIDE DEF u
<1>3. Mode(u) = Mode(k)
  BY <1>1 DEF SameThreads, Mode
<1>4. CpuOf(u) =
        Seen(k.current_priority, Without(k.priority_table, t), k.current, Mode(k), k.yield)
  BY <1>1, <1>2, <1>3, CpuSeen DEF SameThreads
<1> QED BY <1>4, CpuMoves DEF u

\* A thread that is not queued has no place to leave.
LEMMA NothingLeft ==
  ASSUME NEW k, k \in Kernels, NEW t \in Threads, ~Queued(k, t)
  PROVE  Cpu!Left(CpuOf(k), t) = CpuOf(k)
<1>1. k.priority_table \in [Prios -> Seq(Threads)]
  BY DEF Kernels
<1>2. \A p \in Prios : rt_list_remove(k.priority_table[p], t) = k.priority_table[p]
  BY DEF Queued, rt_list_remove
<1>3. Without(k.priority_table, t) = k.priority_table
  BY <1>1, <1>2 DEF Without
<1>4. Cpu!Left(CpuOf(k), t) =
        Seen(k.current_priority, Without(k.priority_table, t), k.current, Mode(k), k.yield)
  BY CpuMoves, Zenon
<1> QED BY <1>3, <1>4, CpuSeen, Zenon

\* Records of the same queues and threads look the same.
LEMMA SameCpu ==
  ASSUME NEW k, NEW r, r.current_priority = k.current_priority,
         r.priority_table = k.priority_table, r.current = k.current,
         r.stat[k.current] = "RUNNING" <=> k.stat[k.current] = "RUNNING", r.yield = k.yield
  PROVE  CpuOf(r) = CpuOf(k)
<1>1. Mode(r) = Mode(k)
  BY DEF Mode
<1> QED BY <1>1, CpuSeen

\* rt_schedule_remove_thread.
LEMMA RemoveLeft ==
  ASSUME NEW k, QueuesOK(k), NEW t \in Threads
  PROVE  CpuOf(rt_schedule_remove_thread(k, t)) = Cpu!Left(CpuOf(k), t)
<1> DEFINE u == unlink_tlist(k, t)
           r == rt_schedule_remove_thread(k, t)
<1>1. u \in Kernels
  BY UnlinkTlist
<1>2. /\ r.priority_table = u.priority_table /\ r.current_priority = u.current_priority
      /\ r.current = u.current /\ r.stat = u.stat /\ r.yield = u.yield
  BY <1>1 DEF rt_schedule_remove_thread, Kernels
<1>3. CpuOf(r) = CpuOf(u)
  <2> HIDE DEF r, u
  <2> QED BY <1>2, SameCpu
<1> QED BY <1>3, UnlinkLeft

\* rt_schedule_insert_thread.
LEMMA InsertJoined ==
  ASSUME NEW k, k \in Kernels, NEW t \in Threads
  PROVE  CpuOf(rt_schedule_insert_thread(k, t)) =
           IF t = k.current THEN [CpuOf(k) EXCEPT !.mode = "runs"] ELSE Cpu!Joined(CpuOf(k), t)
<1> DEFINE r == rt_schedule_insert_thread(k, t)
           c == k.current_priority[t]
<1>1. /\ k.stat \in [Threads -> Stats] /\ k.current \in Threads /\ c \in Prios
      /\ k.priority_table \in [Prios -> Seq(Threads)]
  BY DEF Kernels
<1>2. CASE t = k.current
  <2>1. /\ r.priority_table = k.priority_table /\ r.current_priority = k.current_priority
        /\ r.current = k.current /\ r.yield = k.yield /\ r.stat[k.current] = "RUNNING"
    BY <1>1, <1>2 DEF rt_schedule_insert_thread, Kernels
  <2> HIDE DEF r
  <2>2. Mode(r) = "runs"
    BY <2>1 DEF Mode
  <2>3. CpuOf(r) = Seen(k.current_priority, k.priority_table, k.current, "runs", k.yield)
    BY <2>1, <2>2, CpuSeen
  <2>4. [CpuOf(k) EXCEPT !.mode = "runs"] =
          Seen(k.current_priority, k.priority_table, k.current, "runs", k.yield)
    BY CpuMode, Zenon
  <2> QED BY <1>2, <2>3, <2>4 DEF r
<1>3. CASE t # k.current
  <2> DEFINE w == With(k.priority_table, c, t)
  <2>1. /\ r.priority_table = w /\ r.current_priority = k.current_priority
        /\ r.current = k.current /\ r.yield = k.yield
        /\ r.stat[k.current] = k.stat[k.current]
    BY <1>1, <1>3 DEF rt_schedule_insert_thread, rt_list_insert_before, Kernels, With
  <2> HIDE DEF r
  <2>2. Mode(r) = Mode(k)
    BY <2>1 DEF Mode
  <2>3. CpuOf(r) = Seen(k.current_priority, w, k.current, Mode(k), k.yield)
    BY <2>1, <2>2, CpuSeen
  <2>4. Cpu!Joined(CpuOf(k), t) = Seen(k.current_priority, w, k.current, Mode(k), k.yield)
    BY CpuMoves
  <2> QED BY <1>3, <2>3, <2>4 DEF r
<1> QED BY <1>2, <1>3

\* A write of thread->stat is seen of the current thread only.
LEMMA StatSeen ==
  ASSUME NEW k, k.stat \in [Threads -> Stats], k.current \in Threads,
         NEW t \in Threads, NEW s, NEW r,
         r.current_priority = k.current_priority, r.priority_table = k.priority_table,
         r.current = k.current, r.yield = k.yield, r.stat = [k.stat EXCEPT ![t] = s]
  PROVE  CpuOf(r) =
           IF t # k.current THEN CpuOf(k)
           ELSE [CpuOf(k) EXCEPT !.mode = IF s = "RUNNING" THEN "runs" ELSE "blocked"]
<1>1. CASE t # k.current
  <2>1. r.stat[k.current] = k.stat[k.current]
    BY <1>1
  <2>2. CpuOf(r) = CpuOf(k)
    BY <2>1, SameCpu
  <2> QED BY <1>1, <2>2
<1>2. CASE t = k.current
  <2> DEFINE m == IF s = "RUNNING" THEN "runs" ELSE "blocked"
  <2>1. r.stat[r.current] = s
    BY <1>2
  <2>2. Mode(r) = m
    BY <2>1 DEF Mode
  <2> HIDE DEF m
  <2>3. CpuOf(r) = Seen(k.current_priority, k.priority_table, k.current, m, k.yield)
    BY <2>2, CpuSeen
  <2>4. CpuOf(r) = [CpuOf(k) EXCEPT !.mode = m]
    BY <2>3, CpuMode, Zenon
  <2> QED BY <1>2, <2>4 DEF m
<1> QED BY <1>1, <1>2

\* rt_thread_resume.
LEMMA ResumedIsWoken ==
  ASSUME NEW k, NEW R, KernelOK(k, R), NEW t \in Threads
  PROVE  CpuOf(Resumed(k, t)) = Cpu!Woken(CpuOf(k), t)
<1> DEFINE u == unlink_tlist(k, t)
           c == CpuOf(k)
<1>1. QueuesOK(k) /\ k \in Kernels
  BY DEF KernelOK, QueuesOK
<1>2. u \in Kernels /\ u.current = k.current
  BY <1>1, UnlinkTlist DEF SameThreads
<1>3. CpuOf(u) = Cpu!Left(c, t)
  BY <1>1, UnlinkLeft
<1>4. Resumed(k, t) = rt_schedule_insert_thread(u, t)
  BY DEF Resumed
<1>5. c.running = k.current
  BY CpuFields
<1> HIDE DEF u
<1>6. CASE t = k.current
  <2>1. ~Queued(k, t)
    BY <1>6 DEF KernelOK
  <2>2. CpuOf(u) = c
    BY <1>1, <1>3, <2>1, NothingLeft
  <2>3. CpuOf(Resumed(k, t)) = [CpuOf(u) EXCEPT !.mode = "runs"]
    BY <1>2, <1>4, <1>6, InsertJoined
  <2> HIDE DEF c
  <2>4. CpuOf(Resumed(k, t)) = [c EXCEPT !.mode = "runs"]
    BY <2>2, <2>3, Zenon
  <2> QED BY <1>5, <1>6, <2>4 DEF Cpu!Woken, c
<1>7. CASE t # k.current
  <2>1. CpuOf(Resumed(k, t)) = Cpu!Joined(CpuOf(u), t)
    BY <1>2, <1>4, <1>7, InsertJoined
  <2> QED BY <1>3, <1>5, <1>7, <2>1 DEF Cpu!Woken
<1> QED BY <1>6, <1>7

\* rt_thread_suspend.
LEMMA SuspendedIsBlocked ==
  ASSUME NEW k, NEW R, KernelOK(k, R), NEW t \in Threads
  PROVE  CpuOf(Suspended(k, t)) = Cpu!Blocked(CpuOf(k), t)
<1> DEFINE v == rt_schedule_remove_thread(k, t)
           r == Suspended(k, t)
           c == CpuOf(k)
<1>1. QueuesOK(k) /\ k \in Kernels
  BY DEF KernelOK, QueuesOK
<1>2. v \in Kernels /\ v.current = k.current
  BY <1>1, RemoveThread DEF KernelOK, Removed, QueuesOK, SameThreads
<1>3. CpuOf(v) = Cpu!Left(c, t)
  BY <1>1, RemoveLeft
<1>4. r = [v EXCEPT !.stat[t] = "SUSPEND"]
  BY DEF Suspended
<1>5. c.running = k.current
  BY CpuFields
<1> HIDE DEF v, r
<1>6. /\ v.stat \in [Threads -> Stats] /\ v.current \in Threads
      /\ r.current_priority = v.current_priority /\ r.priority_table = v.priority_table
      /\ r.current = v.current /\ r.yield = v.yield /\ r.stat = [v.stat EXCEPT ![t] = "SUSPEND"]
  <2>1. v.stat \in [Threads -> Stats] /\ v.current \in Threads
    BY <1>2 DEF Kernels
  <2>2. {"stat", "current_priority", "priority_table", "current", "yield"} \subseteq DOMAIN v
    BY <1>2 DEF Kernels
  <2>3. r.stat = [v.stat EXCEPT ![t] = "SUSPEND"]
    BY <1>4, <2>2
  <2>4. /\ r.current_priority = v.current_priority /\ r.priority_table = v.priority_table
        /\ r.current = v.current /\ r.yield = v.yield
    BY <1>4, <2>2
  <2> QED BY <2>1, <2>3, <2>4
<1>7. CASE t = k.current
  <2>1. ~Queued(k, t)
    BY <1>7 DEF KernelOK
  <2>2. CpuOf(v) = c
    BY <1>1, <1>3, <2>1, NothingLeft
  <2> DEFINE m == IF "SUSPEND" = "RUNNING" THEN "runs" ELSE "blocked"
  <2>3. CpuOf(r) = IF t # v.current THEN CpuOf(v) ELSE [CpuOf(v) EXCEPT !.mode = m]
    BY <1>6, StatSeen
  <2>4. m = "blocked"
    OBVIOUS
  <2> HIDE DEF c, m
  <2>5. CpuOf(r) = [CpuOf(v) EXCEPT !.mode = m]
    BY <1>2, <1>7, <2>3
  <2>6. CpuOf(r) = [c EXCEPT !.mode = "blocked"]
    BY <2>2, <2>4, <2>5, Zenon
  <2> QED BY <1>5, <1>7, <2>6 DEF Cpu!Blocked, c, r
<1>8. CASE t # k.current
  <2>1. CpuOf(r) = CpuOf(v)
    BY <1>2, <1>6, <1>8, StatSeen
  <2> QED BY <1>3, <1>5, <1>8, <2>1 DEF Cpu!Blocked, r
<1> QED BY <1>7, <1>8

\* The last writes of an exit or a deletion.
LEMMA ClosedSeen ==
  ASSUME NEW k, k \in Kernels, NEW t \in Threads
  PROVE  /\ t = k.current
              => CpuOf(Closed(k, t)) = Cpu!TurnBegins([CpuOf(k) EXCEPT !.mode = "blocked"], t)
         /\ t # k.current => CpuOf(Closed(k, t)) = Cpu!TurnBegins(CpuOf(k), t)
<1> DEFINE r == Closed(k, t)
<1>1. /\ k.stat \in [Threads -> Stats] /\ k.current \in Threads
      /\ r.current_priority = k.current_priority /\ r.priority_table = k.priority_table
      /\ r.current = k.current /\ r.yield = k.yield \ {t}
      /\ r.stat = [k.stat EXCEPT ![t] = "CLOSE"]
  BY DEF Closed, rt_thread_defunct_enqueue, Kernels
<1> HIDE DEF r
<1>2. Mode(r) = IF t = k.current THEN "blocked" ELSE Mode(k)
  BY <1>1 DEF Mode
<1>3. CpuOf(r) = Seen(k.current_priority, k.priority_table, k.current, Mode(r), k.yield \ {t})
  BY <1>1, CpuSeen
<1>4. ASSUME t = k.current
      PROVE  CpuOf(r) = Cpu!TurnBegins([CpuOf(k) EXCEPT !.mode = "blocked"], t)
  <2> DEFINE b == [CpuOf(k) EXCEPT !.mode = "blocked"]
  <2>1. b = Seen(k.current_priority, k.priority_table, k.current, "blocked", k.yield)
    BY CpuMode, Zenon
  <2> HIDE DEF b
  <2>2. Cpu!TurnBegins(b, t) =
          Seen(k.current_priority, k.priority_table, k.current, "blocked", k.yield \ {t})
    BY <2>1, SeenTurnBegins
  <2> QED BY <1>2, <1>3, <1>4, <2>2 DEF b
<1>5. ASSUME t # k.current
      PROVE  CpuOf(r) = Cpu!TurnBegins(CpuOf(k), t)
  BY <1>2, <1>3, <1>5, CpuMoves
<1> QED BY <1>4, <1>5 DEF r

\* The most urgent queue is the one of the first bit that is set.
LEMMA MostUrgentIsHighest ==
  ASSUME NEW k, NEW R, KernelOK(k, R), k.ready_group # {}
  PROVE  Cpu!MostUrgent(CpuOf(k)) = HighestReady(k)
<1> DEFINE h == HighestReady(k)
           w == k.priority_table
<1>1. /\ h \in k.ready_group /\ h \in Prios
      /\ \A q \in k.ready_group : h <= q
  BY HighestReadyOK
<1>2. k.ready_group = {p \in Prios : w[p] # <<>>}
  BY DEF KernelOK, QueuesOK
<1>3. CpuOf(k).waiting = w
  BY CpuFields
<1> HIDE DEF h, w
<1>4. w[h] # <<>> /\ \A q \in Prios : w[q] # <<>> => h <= q
  BY <1>1, <1>2
<1>5. \A p \in Prios : w[p] # <<>> /\ (\A q \in Prios : w[q] # <<>> => p <= q) => p = h
  <2> SUFFICES ASSUME NEW p \in Prios, w[p] # <<>>, \A q \in Prios : w[q] # <<>> => p <= q
               PROVE  p = h
    OBVIOUS
  <2>1. p <= h /\ h <= p /\ p \in Int /\ h \in Int
    BY <1>1, <1>4, PrioMaxAssumption DEF Prios
  <2> QED BY <2>1
<1>6. h = CHOOSE p \in Prios : w[p] # <<>> /\ \A q \in Prios : w[q] # <<>> => p <= q
  BY <1>1, <1>4, <1>5
<1> QED BY <1>3, <1>6 DEF Cpu!MostUrgent, h

\* The running thread stays exactly when no waiting one takes over.
LEMMA StaysUnlessTakenOver ==
  ASSUME NEW k, NEW R, KernelOK(k, R), k.ready_group # {}
  PROVE  StaysRunning(k) <=>
           ~\E p \in Prios : CpuOf(k).waiting[p] # <<>> /\ Cpu!TakesOver(CpuOf(k), p)
<1> DEFINE h == HighestReady(k)
           w == k.priority_table
           c == k.current_priority[k.current]
           T(p) == \/ k.stat[k.current] # "RUNNING" \/ p < c
                   \/ p = c /\ k.current \in k.yield
<1>1. /\ h \in k.ready_group /\ h \in Prios
      /\ \A q \in k.ready_group : h <= q
  BY HighestReadyOK
<1>2. k.ready_group = {p \in Prios : w[p] # <<>>}
  BY DEF KernelOK, QueuesOK
<1>3. c \in Prios
  BY DEF KernelOK, QueuesOK, Kernels
<1>4. StaysRunning(k) <=> k.stat[k.current] = "RUNNING" /\ (c < h \/ (c = h /\ k.current \notin k.yield))
  BY DEF StaysRunning
<1>5. CpuOf(k).waiting = w
  BY CpuFields
<1>6. \A p \in Prios : Cpu!TakesOver(CpuOf(k), p) <=> T(p)
  <2>1. Mode(k) = "blocked" <=> k.stat[k.current] # "RUNNING"
    BY DEF Mode
  <2> QED BY <2>1, CpuFields DEF Cpu!TakesOver
<1> HIDE DEF h, w, c
<1>7. Prios \subseteq Int
  BY PrioMaxAssumption DEF Prios
<1>8. StaysRunning(k) <=> ~T(h)
  BY <1>1, <1>3, <1>4, <1>7
<1>9. \A p \in Prios : w[p] # <<>> /\ T(p) => T(h)
  <2> SUFFICES ASSUME NEW p \in Prios, w[p] # <<>>, T(p)
               PROVE  T(h)
    OBVIOUS
  <2>1. h <= p
    BY <1>1, <1>2
  <2> QED BY <2>1, <1>1, <1>3, <1>7
<1>10. w[h] # <<>>
  BY <1>1, <1>2
<1> HIDE DEF T
<1> QED BY <1>1, <1>5, <1>6, <1>8, <1>9, <1>10

\* The thread that keeps the processor leaves no queue.
LEMMA KeepSeen ==
  ASSUME NEW k, NEW R, KernelOK(k, R), k.stat[k.current] = "RUNNING"
  PROVE  CpuOf(KeepCurrent(k)) = CpuOf(k)
<1> DEFINE v == rt_schedule_remove_thread(k, k.current)
           r == KeepCurrent(k)
<1>1. QueuesOK(k) /\ k \in Kernels /\ k.current \in Threads /\ ~Queued(k, k.current)
  BY DEF KernelOK, QueuesOK, Kernels
<1>2. v \in Kernels /\ v.current = k.current /\ v.stat = k.stat
  BY <1>1, RemoveThread DEF KernelOK, Removed, QueuesOK, SameThreads
<1>3. CpuOf(v) = CpuOf(k)
  BY <1>1, RemoveLeft, NothingLeft
<1>4. r = [v EXCEPT !.stat[k.current] = "RUNNING"]
  BY DEF KeepCurrent
<1> HIDE DEF v, r
<1>5. /\ r.current_priority = v.current_priority /\ r.priority_table = v.priority_table
      /\ r.current = v.current /\ r.yield = v.yield
      /\ r.stat[v.current] = "RUNNING" /\ v.stat[v.current] = "RUNNING"
  BY <1>1, <1>2, <1>4 DEF Kernels
<1>6. CpuOf(r) = CpuOf(v)
  BY <1>5, SameCpu
<1> QED BY <1>3, <1>6 DEF r

\* A switch, on what is seen.
LEMMA CpuSwitched ==
  ASSUME NEW k, NEW p, Cpu!MostUrgent(CpuOf(k)) = p
  PROVE  LET w == k.priority_table
             x == Popped(w, p)
             r == k.current
         IN  Cpu!Switched(CpuOf(k)) =
               IF Mode(k) = "runs"
                 THEN Seen(k.current_priority, With(x, k.current_priority[r], r), Head(w[p]),
                           "runs", k.yield \ {r})
                 ELSE Seen(k.current_priority, x, Head(w[p]), "runs", k.yield)
<1> DEFINE c == CpuOf(k)
           u == k.current_priority
           w == k.priority_table
           r == k.current
           a == Mode(k)
           o == k.yield
           x == Popped(w, p)
           h == Head(w[p])
           y == Seen(u, x, h, "runs", o)
<1>1. c = Seen(u, w, r, a, o) /\ c.waiting = w /\ c.running = r /\ c.mode = a
  BY CpuSeen, CpuFields
<1>2. x = [w EXCEPT ![p] = Tail(w[p])]
  BY DEF Popped
<1>3. p = Cpu!MostUrgent(c)
  OBVIOUS
<1> HIDE DEF c, u, w, r, a, o, x, h
<1>4. [c EXCEPT !.running = h, !.mode = "runs", !.waiting = x] = y
  <2>1. [Seen(u, w, r, a, o) EXCEPT !.running = h] = Seen(u, w, h, a, o)
    BY SMT DEF Seen
  <2>2. [Seen(u, w, h, a, o) EXCEPT !.mode = "runs"] = Seen(u, w, h, "runs", o)
    BY SMT DEF Seen
  <2>3. [Seen(u, w, h, "runs", o) EXCEPT !.waiting = x] = Seen(u, x, h, "runs", o)
    BY SMT DEF Seen
  <2> QED BY <1>1, <2>1, <2>2, <2>3, Zenon
<1>5. Cpu!TurnBegins(Cpu!Joined(y, r), r) = Seen(u, With(x, u[r], r), h, "runs", o \ {r})
  BY SeenJoined, SeenTurnBegins
<1> HIDE DEF y
<1>6. Cpu!Switched(c) =
        LET rest == [c EXCEPT !.running = h, !.mode = "runs", !.waiting = x]
        IN  IF a = "runs" THEN Cpu!TurnBegins(Cpu!Joined(rest, r), r) ELSE rest
  BY <1>1, <1>2, <1>3 DEF Cpu!Switched, h
<1>7. Cpu!Switched(c) = IF a = "runs" THEN Cpu!TurnBegins(Cpu!Joined(y, r), r) ELSE y
  BY <1>4, <1>6, Zenon
<1> QED BY <1>5, <1>7 DEF c, u, w, r, a, o, x, h, y

\* The queues after the switch: the head of the highest one has left.
LEMMA SwitchQueues ==
  ASSUME NEW k, NEW R, KernelOK(k, R), k.ready_group # {}, NEW q \in Prios
  PROVE  /\ Without(k.priority_table, get_highest_priority_thread(k)) =
              Popped(k.priority_table, HighestReady(k))
         /\ Without(With(k.priority_table, q, k.current), get_highest_priority_thread(k)) =
              With(Popped(k.priority_table, HighestReady(k)), q, k.current)
<1> DEFINE to == get_highest_priority_thread(k)
           from == k.current
           h == HighestReady(k)
           w == k.priority_table
           x == Popped(w, h)
<1>1. /\ w \in [Prios -> Seq(Threads)] /\ from \in Threads
      /\ \A p \in Prios : Distinct(w[p])
      /\ \A t \in Threads, p \in Prios : Linked(w[p], t) => p = k.current_priority[t]
  BY DEF KernelOK, QueuesOK, Kernels
<1>2. /\ h \in Prios /\ h \in k.ready_group
      /\ to = Head(w[h]) /\ to \in Threads /\ Linked(w[h], to)
      /\ k.current_priority[to] = h /\ to # from
  BY HighestReadyOK DEF get_highest_priority_thread
<1> HIDE DEF to, h
<1>3. w[h] # <<>>
  BY <1>2 DEF KernelOK, QueuesOK
<1>4. \A p \in Prios : ~Linked(w[p], from)
  BY <1>1 DEF KernelOK, Queued
<1>5. rt_list_remove(w[h], to) = Tail(w[h])
  BY <1>1, <1>2, <1>3, ListRemoveHead
<1>6. rt_list_remove(Append(w[h], from), to) = Append(Tail(w[h]), from)
  BY <1>1, <1>2, <1>3, <1>4, ListRemoveHeadAppend
<1>7. \A p \in Prios : p # h => ~Linked(w[p], to)
  BY <1>1, <1>2
<1>8. \A p \in Prios : p # h => rt_list_remove(w[p], to) = w[p]
  BY <1>7 DEF rt_list_remove
<1>9. \A p \in Prios : p # h => rt_list_remove(Append(w[p], from), to) = Append(w[p], from)
  <2> SUFFICES ASSUME NEW p \in Prios, p # h
               PROVE  rt_list_remove(Append(w[p], from), to) = Append(w[p], from)
    OBVIOUS
  <2>1. w[p] \in Seq(Threads) /\ Distinct(w[p]) /\ ~Linked(w[p], from)
    BY <1>1, <1>4
  <2>2. Linked(Append(w[p], from), to) <=> Linked(w[p], to) \/ to = from
    BY <2>1, <1>1, ListInsertBefore DEF rt_list_insert_before
  <2> QED BY <2>2, <1>2, <1>7 DEF rt_list_remove
<1> HIDE DEF from
<1>10. x \in [Prios -> Seq(Threads)] /\ \A p \in Prios : x[p] = IF p = h THEN Tail(w[h]) ELSE w[p]
  BY <1>1, <1>2, <1>3 DEF Popped
<1>11. Without(w, to) = x
  <2>1. \A p \in Prios : rt_list_remove(w[p], to) = x[p]
    BY <1>5, <1>8, <1>10
  <2> HIDE DEF x
  <2> QED BY <1>10, <2>1 DEF Without
<1>12. Without(With(w, q, from), to) = With(x, q, from)
  <2>1. \A p \in Prios : With(w, q, from)[p] = IF p = q THEN Append(w[q], from) ELSE w[p]
    BY <1>1 DEF With
  <2> HIDE DEF x
  <2>2. /\ With(x, q, from) = [p \in Prios |-> With(x, q, from)[p]]
        /\ \A p \in Prios : With(x, q, from)[p] = IF p = q THEN Append(x[q], from) ELSE x[p]
    BY <1>10 DEF With
  <2>3. \A p \in Prios : rt_list_remove(With(w, q, from)[p], to) = With(x, q, from)[p]
    BY <2>1, <2>2, <1>5, <1>6, <1>8, <1>9, <1>10
  <2> QED BY <2>2, <2>3 DEF Without
<1> QED BY <1>11, <1>12 DEF to, from, h

\* What rt_schedule_remove_thread leaves of a record.
LEMMA RemoveFields ==
  ASSUME NEW k, k \in Kernels, NEW t \in Threads
  PROVE  LET v == rt_schedule_remove_thread(k, t)
         IN  /\ v.priority_table = Without(k.priority_table, t)
             /\ v.current_priority = k.current_priority /\ v.current = k.current
             /\ v.yield = k.yield /\ v.stat = k.stat /\ DOMAIN v = DOMAIN k
<1> DEFINE u == unlink_tlist(k, t)
           v == rt_schedule_remove_thread(k, t)
           g == IF u.priority_table[k.current_priority[t]] = <<>>
                  THEN u.ready_group \ k.number_mask[t] ELSE u.ready_group
           names == {"stat", "yield", "current_priority", "priority_table", "current"}
<1>1. /\ u.priority_table = Without(k.priority_table, t)
      /\ u.current_priority = k.current_priority /\ u.current = k.current
      /\ u.yield = k.yield /\ u.stat = k.stat /\ DOMAIN u = DOMAIN k
  BY DEF unlink_tlist, Without, Kernels
<1>2. names \subseteq DOMAIN k
  BY DEF Kernels
<1> HIDE DEF u
<1>3. v = [u EXCEPT !.ready_group = g]
  BY <1>1 DEF rt_schedule_remove_thread, u
<1> HIDE DEF v, g
<1>4. /\ v.priority_table = u.priority_table
      /\ v.current_priority = u.current_priority /\ v.current = u.current
      /\ v.yield = u.yield /\ v.stat = u.stat /\ DOMAIN v = DOMAIN u
  BY <1>1, <1>2, <1>3
<1> QED BY <1>1, <1>4 DEF v

\* The branch of rt_schedule that switches.
LEMMA SwitchSeen ==
  ASSUME NEW k, NEW R, KernelOK(k, R), k.ready_group # {},
         NEW b, b = IF k.stat[k.current] = "RUNNING"
                      THEN [k EXCEPT !.yield = k.yield \ {k.current}] ELSE k
  PROVE  CpuOf(SwitchTo(b, get_highest_priority_thread(k))) = Cpu!Switched(CpuOf(k))
<1> DEFINE from == k.current
           to == get_highest_priority_thread(k)
           h == HighestReady(k)
           w == k.priority_table
           u == k.current_priority
           x == Popped(w, h)
           s == [b EXCEPT !.current = to]
           q == IF k.stat[from] = "RUNNING" THEN rt_schedule_insert_thread(s, from) ELSE s
           v == rt_schedule_remove_thread(q, to)
           r == [v EXCEPT !.stat[to] = "RUNNING"]
<1>1. /\ k \in Kernels /\ from \in Threads /\ u[from] \in Prios
      /\ w \in [Prios -> Seq(Threads)]
  BY DEF KernelOK, QueuesOK, Kernels
<1>2. to \in Threads /\ to # from /\ to = Head(w[h])
  BY HighestReadyOK DEF get_highest_priority_thread
<1> HIDE DEF to, h
<1>3. /\ b.stat = k.stat /\ b.current = from /\ b.current_priority = u /\ b.priority_table = w
      /\ b \in Kernels
      /\ b.yield = IF k.stat[from] = "RUNNING" THEN k.yield \ {from} ELSE k.yield
  BY <1>1 DEF Kernels
<1>4. /\ s \in Kernels /\ s.stat = k.stat /\ s.current = to /\ s.current_priority = u
      /\ s.priority_table = w /\ s.yield = b.yield
  BY <1>2, <1>3 DEF Kernels
<1> HIDE DEF s
<1>5. /\ q.priority_table = IF k.stat[from] = "RUNNING" THEN With(w, u[from], from) ELSE w
      /\ q.current = to /\ q.current_priority = u /\ q.yield = b.yield
      /\ q \in Kernels
  <2>1. CASE k.stat[from] = "RUNNING"
    <3>1. q = rt_schedule_insert_thread(s, from)
      BY <2>1
    <3> DEFINE l == Append(w[u[from]], from)
               g == s.ready_group \cup s.number_mask[from]
    <3>2. l \in Seq(Threads) /\ g \in SUBSET Prios
      BY <1>1, <1>4 DEF Kernels
    <3>3. q = [s EXCEPT !.stat = [k.stat EXCEPT ![from] = "READY"],
                        !.priority_table = [w EXCEPT ![u[from]] = l],
                        !.ready_group = g]
      BY <3>1, <1>1, <1>2, <1>4 DEF rt_schedule_insert_thread, rt_list_insert_before
    <3>4. /\ [k.stat EXCEPT ![from] = "READY"] \in [Threads -> Stats]
          /\ [w EXCEPT ![u[from]] = l] \in [Prios -> Seq(Threads)]
      BY <1>1, <3>2 DEF Kernels, Stats
    <3>5. With(w, u[from], from) = [w EXCEPT ![u[from]] = l]
      BY DEF With
    <3> HIDE DEF q, l, g, w, u
    <3>6. q \in Kernels
      BY <1>4, <3>2, <3>3, <3>4 DEF Kernels
    <3>7. /\ q.priority_table = [w EXCEPT ![u[from]] = l]
          /\ q.current = s.current /\ q.current_priority = s.current_priority
          /\ q.yield = s.yield
      BY <1>4, <3>3 DEF Kernels
    <3> QED BY <2>1, <1>4, <3>5, <3>6, <3>7
  <2>2. CASE k.stat[from] # "RUNNING"
    BY <2>2, <1>4
  <2> QED BY <2>1, <2>2
<1>6. SwitchTo(b, to) = r
  BY <1>3, <1>4 DEF SwitchTo, s
<1> DEFINE W == IF k.stat[from] = "RUNNING" THEN With(x, u[from], from) ELSE x
<1>7. Without(q.priority_table, to) = W
  <2>1. Without(w, to) = x
    BY <1>1, SwitchQueues DEF to, h
  <2>2. Without(With(w, u[from], from), to) = With(x, u[from], from)
    BY <1>1, SwitchQueues DEF to, h
  <2> HIDE DEF w, q, x
  <2> QED BY <1>5, <2>1, <2>2
<1>8. /\ r.priority_table = W /\ r.current_priority = u /\ r.current = to /\ r.yield = b.yield
      /\ r.stat[to] = "RUNNING"
  <2> HIDE DEF q, W, u
  <2>1. /\ v.priority_table = Without(q.priority_table, to)
        /\ v.current_priority = q.current_priority /\ v.current = q.current
        /\ v.yield = q.yield /\ v.stat = q.stat /\ DOMAIN v = DOMAIN q
    BY <1>2, <1>5, RemoveFields
  <2> HIDE DEF v
  <2> QED BY <1>2, <1>5, <1>7, <2>1 DEF Kernels
<1> HIDE DEF v, r, q
<1>9. CpuOf(r) = Seen(u, W, to, "runs", b.yield)
  <2>1. Mode(r) = "runs"
    BY <1>8 DEF Mode
  <2> QED BY <1>8, <2>1, CpuSeen
<1>10. Cpu!Switched(CpuOf(k)) =
         IF Mode(k) = "runs" THEN Seen(u, With(x, u[from], from), to, "runs", k.yield \ {from})
                             ELSE Seen(u, x, to, "runs", k.yield)
  <2>1. Cpu!MostUrgent(CpuOf(k)) = h
    BY MostUrgentIsHighest DEF h
  <2> HIDE DEF x
  <2>2. Cpu!Switched(CpuOf(k)) =
          IF Mode(k) = "runs"
            THEN Seen(u, With(Popped(w, h), u[from], from), Head(w[h]), "runs", k.yield \ {from})
            ELSE Seen(u, Popped(w, h), Head(w[h]), "runs", k.yield)
    BY <2>1, CpuSwitched
  <2> QED BY <1>2, <2>2 DEF x
<1>11. CpuOf(r) = Cpu!Switched(CpuOf(k))
  <2>1. Mode(k) = "runs" <=> k.stat[from] = "RUNNING"
    BY DEF Mode
  <2> HIDE DEF u, w, x, from
  <2> QED BY <1>3, <1>9, <1>10, <2>1
<1> QED BY <1>6, <1>11 DEF to

\* rt_schedule takes the dispatcher's decision, or puts it off.
LEMMA ScheduleSettles ==
  ASSUME NEW k, NEW R, KernelOK(k, R)
  PROVE  /\ CpuOf(rt_schedule(k)) \in Cpu!Settled(CpuOf(k))
         /\ CpuOf(rt_schedule(k)) = CpuOf(k) \/ CpuOf(rt_schedule(k)) = Cpu!Decided(CpuOf(k))
<1> DEFINE t == k.current
           b == IF k.stat[t] = "RUNNING" THEN [k EXCEPT !.yield = k.yield \ {t}] ELSE k
           to == get_highest_priority_thread(k)
<1>1. k \in Kernels
  BY DEF KernelOK, QueuesOK
<1>2. CASE k.lock_nest # 0 \/ k.ready_group = {}
  <2>1. rt_schedule(k) = k
    BY <1>2 DEF rt_schedule
  <2> QED BY <2>1 DEF Cpu!Settled
<1>3. CASE k.lock_nest = 0 /\ k.ready_group # {}
  <2>1. /\ b.stat = k.stat /\ b.current = t /\ b.current_priority = k.current_priority
        /\ b.number_mask = k.number_mask /\ b.priority_table = k.priority_table
        /\ b.ready_group = k.ready_group /\ b.defunct = k.defunct /\ b \in Kernels
        /\ k.stat[t] = "RUNNING" => b.yield = k.yield \ {t}
    BY <1>1 DEF Kernels
  <2>2. CASE StaysRunning(k)
    <3>1. k.stat[t] = "RUNNING"
      BY <2>2 DEF StaysRunning
    <3>2. rt_schedule(k) = KeepCurrent(b)
      BY <1>3, <2>2, <3>1 DEF rt_schedule
    <3> HIDE DEF b
    <3>3. KernelOK(b, R) /\ b.stat[b.current] = "RUNNING"
      BY <2>1, <3>1 DEF KernelOK, QueuesOK, Queued
    <3>4. CpuOf(rt_schedule(k)) = CpuOf(b)
      BY <3>2, <3>3, KeepSeen
    <3>5. Mode(b) = Mode(k) /\ Mode(k) = "runs"
      BY <2>1, <3>1 DEF Mode
    <3>6. CpuOf(b) = Cpu!TurnBegins(CpuOf(k), t)
      <4>1. CpuOf(b) = Seen(k.current_priority, k.priority_table, t, Mode(k), k.yield \ {t})
        BY <2>1, <3>1, <3>5, CpuSeen
      <4> QED BY <4>1, CpuMoves
    <3>7. Cpu!Decided(CpuOf(k)) = Cpu!TurnBegins(CpuOf(k), t)
      <4>1. CpuOf(k).mode = "runs" /\ CpuOf(k).running = t
        BY <3>5, CpuFields
      <4>2. ~\E p \in Prios : CpuOf(k).waiting[p] # <<>> /\ Cpu!TakesOver(CpuOf(k), p)
        BY <1>3, <2>2, StaysUnlessTakenOver
      <4> QED BY <4>1, <4>2 DEF Cpu!Decided
    <3> QED BY <3>4, <3>6, <3>7 DEF Cpu!Settled
  <2>3. CASE ~StaysRunning(k)
    <3>1. to # t
      BY <1>3, HighestReadyOK
    <3>2. get_highest_priority_thread(b) = to
      BY <2>1 DEF get_highest_priority_thread, HighestReady
    <3>3. rt_schedule(k) = SwitchTo(b, to)
      BY <1>3, <2>3, <3>1 DEF rt_schedule
    <3>4. CpuOf(SwitchTo(b, to)) = Cpu!Switched(CpuOf(k))
      BY <1>3, SwitchSeen
    <3>5. \E p \in Prios : CpuOf(k).waiting[p] # <<>> /\ Cpu!TakesOver(CpuOf(k), p)
      BY <1>3, <2>3, StaysUnlessTakenOver
    <3>6. Cpu!Decided(CpuOf(k)) = Cpu!Switched(CpuOf(k))
      BY <3>5 DEF Cpu!Decided
    <3> QED BY <3>3, <3>4, <3>6 DEF Cpu!Settled
  <2> QED BY <2>2, <2>3
<1> QED BY <1>2, <1>3

\* A step of the kernel is one of the dispatcher's, or nothing is seen of it.
Dispatched == Cpu!CpuNext \/ CpuOf(kern') = CpuOf(kern)

\* How each kind of move shows.
LEMMA SeenAfter == CpuOf(kern)' = CpuOf(kern')
BY DEF CpuOf

LEMMA WakeSeen ==
  ASSUME NEW t \in Threads, CpuOf(kern') \in Cpu!Settled(Cpu!Woken(CpuOf(kern), t))
  PROVE  Dispatched
BY SeenAfter DEF Dispatched, Cpu!CpuNext, Cpu!Wake

LEMMA BlockSeen ==
  ASSUME NEW t \in Threads, CpuOf(kern') \in Cpu!Settled(Cpu!Blocked(CpuOf(kern), t))
  PROVE  Dispatched
BY SeenAfter DEF Dispatched, Cpu!CpuNext, Cpu!Block

LEMMA EndSeen ==
  ASSUME NEW t \in Threads,
         CpuOf(kern') \in Cpu!Settled(Cpu!TurnBegins(Cpu!Blocked(CpuOf(kern), t), t))
  PROVE  Dispatched
BY SeenAfter DEF Dispatched, Cpu!CpuNext, Cpu!End

LEMMA UrgencySeen ==
  ASSUME NEW t \in Threads, NEW p \in Prios, CpuOf(kern') = Cpu!Urged(CpuOf(kern), t, p)
  PROVE  Dispatched
BY SeenAfter DEF Dispatched, Cpu!CpuNext, Cpu!SetUrgency

LEMMA NewSeen ==
  ASSUME NEW t \in Threads, NEW p \in Prios, Cpu!New(t),
         \/ CpuOf(kern') = Cpu!TurnBegins(Cpu!Urged(CpuOf(kern), t, p), t)
         \/ CpuOf(kern') = Cpu!Woken(Cpu!TurnBegins(Cpu!Urged(CpuOf(kern), t, p), t), t)
  PROVE  Dispatched
BY SeenAfter DEF Dispatched, Cpu!CpuNext, Cpu!Create, Cpu!Start

LEMMA TurnSeen ==
  ASSUME \/ CpuOf(kern') \in Cpu!Settled(Cpu!TurnOver(CpuOf(kern)))
         \/ CpuOf(kern') \in Cpu!Settled(CpuOf(kern))
  PROVE  Dispatched
BY SeenAfter DEF Dispatched, Cpu!CpuNext, Cpu!EndTurn, Cpu!Decide, Cpu!Settled

\* A thread waits for the processor if it is in a ready queue.
LEMMA WaitsQueued ==
  ASSUME NEW k, NEW t
  PROVE  Cpu!Waits(CpuOf(k), t) <=> Queued(k, t)
<1>1. CpuOf(k).waiting = k.priority_table
  BY CpuFields
<1> DEFINE w == k.priority_table
<1>2. \A p \in Prios : Cpu!Linked(w[p], t) <=> Linked(w[p], t)
  BY SameLists
<1> QED BY <1>1, <1>2 DEF Cpu!Waits, Queued

\* A write of thread->current_priority.
LEMMA PrioritySeen ==
  ASSUME NEW k, NEW t, NEW p
  PROVE  [CpuOf(k) EXCEPT !.urgency[t] = p] =
           Seen([k.current_priority EXCEPT ![t] = p], k.priority_table, k.current, Mode(k), k.yield)
<1> DEFINE c == CpuOf(k)
<1>1. c = Seen(k.current_priority, k.priority_table, k.current, Mode(k), k.yield)
  BY CpuSeen
<1> HIDE DEF c
<1>2. [c EXCEPT !.urgency[t] = p] =
        Seen([k.current_priority EXCEPT ![t] = p], k.priority_table, k.current, Mode(k), k.yield)
  BY <1>1, SMT DEF Seen
<1> QED BY <1>2, Zenon DEF c

\* A thread that is in no queue changes its priority and nothing else.
LEMMA UrgedAlone ==
  ASSUME NEW k, k \in Kernels, NEW t \in Threads, ~Queued(k, t), NEW p
  PROVE  Cpu!Urged(CpuOf(k), t, p) =
           Seen([k.current_priority EXCEPT ![t] = p], k.priority_table, k.current, Mode(k), k.yield)
<1> DEFINE c == CpuOf(k)
<1>1. Cpu!Left(c, t) = c
  BY NothingLeft
<1>2. ~Cpu!Waits(c, t)
  BY WaitsQueued
<1>3. [c EXCEPT !.urgency[t] = p] =
        Seen([k.current_priority EXCEPT ![t] = p], k.priority_table, k.current, Mode(k), k.yield)
  BY PrioritySeen, Zenon
<1> HIDE DEF c
<1>4. Cpu!Urged(c, t, p) = [c EXCEPT !.urgency[t] = p]
  BY <1>1, <1>2 DEF Cpu!Urged
<1> QED BY <1>3, <1>4, Zenon DEF c

\* A queued thread moves to the tail of its new queue.
LEMMA RequeuedSeen ==
  ASSUME NEW k, KernelOK(k, {}), NEW t \in Threads, k.stat[t] = "READY", NEW p \in Prios
  PROVE  CpuOf(rt_schedule_insert_thread(
                 Reprioritised(rt_schedule_remove_thread(k, t), t, p), t)) =
           Cpu!Urged(CpuOf(k), t, p)
<1> DEFINE a == rt_schedule_remove_thread(k, t)
           b == Reprioritised(a, t, p)
           r == rt_schedule_insert_thread(b, t)
           c == CpuOf(k)
           d == [Cpu!Left(c, t) EXCEPT !.urgency[t] = p]
<1>1. QueuesOK(k) /\ k \in Kernels /\ Queued(k, t) /\ t # k.current
  BY DEF KernelOK, QueuesOK
<1>2. KernelOK(a, {} \cup {t}) /\ SameThreads(k, a) /\ ~Queued(a, t)
  BY RemovedOK
<1>3. CpuOf(a) = Cpu!Left(c, t)
  BY <1>1, RemoveLeft
<1> HIDE DEF a
<1>4. KernelOK(b, {} \cup {t}) /\ b.current = a.current
  BY <1>2, ReprioritisedOK
<1>5. b \in Kernels /\ a \in Kernels /\ b.current # t
  BY <1>1, <1>2, <1>4 DEF KernelOK, QueuesOK, SameThreads
<1>6. CpuOf(b) = Seen([a.current_priority EXCEPT ![t] = p], a.priority_table, a.current,
                      Mode(a), a.yield)
  <2>1. /\ b.current_priority = [a.current_priority EXCEPT ![t] = p]
        /\ b.priority_table = a.priority_table /\ b.current = a.current /\ b.stat = a.stat
        /\ b.yield = a.yield
    BY <1>5 DEF Reprioritised, Kernels
  <2> HIDE DEF b
  <2>2. Mode(b) = Mode(a)
    BY <2>1 DEF Mode
  <2> QED BY <2>1, <2>2, CpuSeen
<1>7. CpuOf(b) = [CpuOf(a) EXCEPT !.urgency[t] = p]
  BY <1>6, PrioritySeen, Zenon
<1>8. CpuOf(b) = d
  BY <1>3, <1>7, Zenon
<1> HIDE DEF b
<1>9. CpuOf(r) = Cpu!Joined(CpuOf(b), t)
  BY <1>5, InsertJoined
<1>10. Cpu!Waits(c, t)
  BY <1>1, WaitsQueued
<1> HIDE DEF r, c
<1>11. Cpu!Urged(c, t, p) = Cpu!Joined(d, t)
  BY <1>10, Zenon DEF Cpu!Urged
<1> HIDE DEF d
<1> QED BY <1>8, <1>9, <1>11 DEF r, b, a, c

-----------------------------------------------------------------------------
(* The steps.                                                              *)

\* The rt_schedule at the end of a call, and the one in a handler.
LEMMA ScheduleDispatches ==
  ASSUME IInv, (\E t \in Threads : ThreadSchedule(t)) \/ IsrSchedule
  PROVE  Dispatched
<1>1. KernelOK(kern, {}) /\ kern' = rt_schedule(kern)
  BY Mover, NothingMasked, Facts DEF ThreadSchedule, IsrSchedule, FrameAt
<1> QED BY <1>1, ScheduleSettles, TurnSeen

\* rt_thread_yield ends the turn of its caller and schedules.
LEMMA YieldDispatches ==
  ASSUME IInv, NEW t \in Threads, rt_thread_yield(t)
  PROVE  Dispatched
<1> DEFINE k == [kern EXCEPT !.remaining_tick[t] = InitTick[t], !.yield = @ \cup {t}]
<1>1. t = kern.current /\ KernelOK(kern, {}) /\ kern \in Kernels
  BY Mover, Facts DEF rt_thread_yield, Calling
<1>2. /\ k \in Kernels /\ k.stat = kern.stat /\ k.current_priority = kern.current_priority
      /\ k.number_mask = kern.number_mask /\ k.priority_table = kern.priority_table
      /\ k.ready_group = kern.ready_group /\ k.current = kern.current
      /\ k.defunct = kern.defunct /\ k.yield = kern.yield \cup {t}
  <2> DEFINE m == [kern.remaining_tick EXCEPT ![t] = InitTick[t]]
             y == kern.yield \cup {t}
  <2>1. kern \in Kernels /\ kern.remaining_tick \in [Threads -> Nat] /\ InitTick[t] \in Nat
    BY Facts, SliceAssumption
  <2>2. m \in [Threads -> Nat] /\ y \in SUBSET Threads
    BY <2>1 DEF Kernels
  <2>3. k = [kern EXCEPT !.remaining_tick = m, !.yield = y]
    BY <2>1 DEF Kernels
  <2> HIDE DEF k, m
  <2>4. k \in Kernels
    BY <2>1, <2>2, <2>3 DEF Kernels
  <2> HIDE DEF y
  <2>5. /\ k.stat = kern.stat /\ k.current_priority = kern.current_priority
        /\ k.number_mask = kern.number_mask /\ k.priority_table = kern.priority_table
        /\ k.ready_group = kern.ready_group /\ k.current = kern.current
        /\ k.defunct = kern.defunct /\ k.yield = y
    BY <2>1, <2>3 DEF Kernels
  <2> QED BY <2>4, <2>5 DEF y
<1>3. kern' = rt_schedule(k)
  BY DEF rt_thread_yield
<1> HIDE DEF k
<1>4. KernelOK(k, {})
  BY <1>1, <1>2, OtherFields
<1>5. CpuOf(k) = Cpu!TurnOver(CpuOf(kern))
  <2>1. Mode(k) = Mode(kern)
    BY <1>2 DEF Mode
  <2> QED BY <1>1, <1>2, <2>1, CpuSeen, CpuMoves
<1> QED BY <1>3, <1>4, <1>5, ScheduleSettles, TurnSeen

\* rt_tick_increase ends the turn of the current thread, or nothing is seen.
LEMMA TickDispatches ==
  ASSUME IInv, rt_tick_increase
  PROVE  Dispatched
<1> DEFINE t == kern.current
           y == kern.yield \cup {t}
<1>1. kern \in Kernels /\ t \in Threads
  BY Facts
<1>2. CASE kern.remaining_tick[t] = 1
  <2>1. kern' = [kern EXCEPT !.remaining_tick[t] = InitTick[t], !.yield = y]
    BY <1>1, <1>2 DEF rt_tick_increase, Kernels
  <2> HIDE DEF y
  <2>2. /\ kern'.stat = kern.stat /\ kern'.current_priority = kern.current_priority
        /\ kern'.priority_table = kern.priority_table /\ kern'.current = t
        /\ kern'.yield = y
    BY <1>1, <2>1 DEF Kernels
  <2>3. Mode(kern') = Mode(kern)
    BY <2>2 DEF Mode
  <2>4. CpuOf(kern') = Seen(kern.current_priority, kern.priority_table, t, Mode(kern), y)
    BY <2>2, <2>3, CpuSeen
  <2>5. CpuOf(kern') = Cpu!TurnOver(CpuOf(kern))
    BY <2>4, CpuMoves DEF y
  <2> QED BY <2>5, TurnSeen DEF Cpu!Settled
<1>3. CASE kern.remaining_tick[t] # 1
  <2>1. kern' = [kern EXCEPT !.remaining_tick[t] = @ - 1]
    BY <1>3 DEF rt_tick_increase
  <2>2. /\ kern'.stat = kern.stat /\ kern'.current_priority = kern.current_priority
        /\ kern'.priority_table = kern.priority_table /\ kern'.current = kern.current
        /\ kern'.yield = kern.yield
    BY <1>1, <2>1 DEF Kernels
  <2>3. CpuOf(kern') = CpuOf(kern)
    BY <2>2, SameCpu
  <2> QED BY <2>3 DEF Dispatched
<1> QED BY <1>2, <1>3

\* rt_thread_suspend, and the one in rt_thread_sleep.
LEMMA SuspendDispatches ==
  ASSUME IInv, NEW t \in Threads, rt_thread_suspend(t)
  PROVE  Dispatched
<1>1. KernelOK(kern, {}) /\ arg[t] \in Threads /\ kern' = Suspended(kern, arg[t])
  BY MidCall DEF rt_thread_suspend
<1>2. CpuOf(kern') = Cpu!Blocked(CpuOf(kern), arg[t])
  BY <1>1, SuspendedIsBlocked
<1> QED BY <1>1, <1>2, BlockSeen DEF Cpu!Settled

LEMMA SleepDispatches ==
  ASSUME IInv, NEW t \in Threads, NEW d \in SleepTicks, rt_thread_sleep(t, d)
  PROVE  Dispatched
<1>1. KernelOK(kern, {}) /\ (kern' = Suspended(kern, t) \/ kern' = kern)
  BY Mover DEF rt_thread_sleep, Calling
<1>2. CASE kern' = kern
  BY <1>2 DEF Dispatched
<1>3. CASE kern' = Suspended(kern, t)
  <2>1. CpuOf(kern') = Cpu!Blocked(CpuOf(kern), t)
    BY <1>1, <1>3, SuspendedIsBlocked
  <2> QED BY <2>1, BlockSeen DEF Cpu!Settled
<1> QED BY <1>1, <1>2, <1>3

\* rt_thread_resume, by a thread, by a device handler and by a timer.
LEMMA ResumeDispatches ==
  ASSUME IInv, (\E t \in Threads : rt_thread_resume(t)) \/ DevResume
  PROVE  Dispatched
<1>1. PICK u \in Threads : KernelOK(kern, {}) /\ kern' = Resumed(kern, u)
  <2>1. CASE \E t \in Threads : rt_thread_resume(t)
    BY <2>1, MidCall DEF rt_thread_resume
  <2>2. CASE DevResume
    <3>1. isr # <<>> /\ kern' = Resumed(kern, isr[1].arg)
      BY <2>2 DEF DevResume, FrameAt
    <3>2. isr[1] \in Frames
      BY <3>1, Facts
    <3>3. isr[1].arg \in Threads
      BY <3>2 DEF Frames
    <3> QED BY <3>1, <3>3, NothingMasked, Facts
  <2> QED BY <2>1, <2>2
<1>2. CpuOf(kern') = Cpu!Woken(CpuOf(kern), u)
  BY <1>1, ResumedIsWoken
<1> QED BY <1>2, WakeSeen DEF Cpu!Settled

\* A timer that has expired wakes its thread, and the scheduler is called.
LEMMA TimerCheckDispatches ==
  ASSUME IInv, rt_timer_check
  PROVE  Dispatched
<1> DEFINE t == Head(timers.list)
           k == Resumed(kern, t)
<1>1. KernelOK(kern, {}) /\ timers.list # <<>> /\ kern' = rt_schedule(k)
  BY NothingMasked, Facts DEF rt_timer_check, FrameAt, HeadExpired
<1>2. t \in Threads /\ t \in timers.act /\ kern.stat[t] = "SUSPEND"
  <2>1. timers.list \in Seq(Threads) /\ \A x \in Threads : Linked(timers.list, x) => x \in timers.act
    BY Facts DEF TimersOK, Bases
  <2>2. t \in Threads /\ Linked(timers.list, t)
    BY <1>1, <2>1, ListHead
  <2> QED BY <2>1, <2>2, Facts
<1> HIDE DEF t
<1>3. KernelOK(k, {})
  BY <1>1, <1>2, ResumedOK
<1>4. CpuOf(k) = Cpu!Woken(CpuOf(kern), t)
  BY <1>1, <1>2, ResumedIsWoken
<1> HIDE DEF k
<1> QED BY <1>1, <1>2, <1>3, <1>4, ScheduleSettles, WakeSeen

\* rt_thread_create, rt_thread_init and rt_thread_startup: nobody has
\* scheduled the thread.
LEMMA NewThread ==
  ASSUME NEW u \in Threads, u # kern.current, ~Queued(kern, u), kern \in Kernels,
         NEW k, k.current_priority = [kern.current_priority EXCEPT ![u] = InitPrio[u]],
         k.priority_table = kern.priority_table, k.current = kern.current,
         k.stat[kern.current] = kern.stat[kern.current], k.yield = kern.yield \ {u}
  PROVE  /\ Cpu!New(u)
         /\ CpuOf(k) = Cpu!TurnBegins(Cpu!Urged(CpuOf(kern), u, InitPrio[u]), u)
<1> DEFINE v == [kern.current_priority EXCEPT ![u] = InitPrio[u]]
           w == kern.priority_table
           n == kern.current
           d == Cpu!Urged(CpuOf(kern), u, InitPrio[u])
<1>1. CpuOf(kern).running = n /\ ~Cpu!Waits(CpuOf(kern), u)
  BY CpuFields, WaitsQueued
<1>2. Mode(k) = Mode(kern)
  BY DEF Mode
<1>3. CpuOf(k) = Seen(v, w, n, Mode(kern), kern.yield \ {u})
  BY <1>2, CpuSeen
<1>4. d = Seen(v, w, n, Mode(kern), kern.yield)
  BY UrgedAlone
<1> HIDE DEF d, v, w, n
<1>5. Cpu!TurnBegins(d, u) = Seen(v, w, n, Mode(kern), kern.yield \ {u})
  BY <1>4, SeenTurnBegins
<1>6. Cpu!New(u)
  BY <1>1 DEF Cpu!New, n
<1> QED BY <1>3, <1>5, <1>6 DEF d

LEMMA CreateDispatches ==
  ASSUME IInv, NEW t \in Threads, NEW u \in Threads, rt_thread_create(t, u)
  PROVE  Dispatched
<1>1. /\ t = kern.current /\ KernelOK(kern, {}) /\ kern.stat[t] \in {"RUNNING", "SUSPEND"}
      /\ kern.stat[u] \in {"NONE", "CLOSE"} /\ kern \in Kernels /\ InitPrio[u] \in Prios
  BY Mover, Facts, PrioAssumption DEF rt_thread_create, Calling
<1>2. u # kern.current /\ ~Queued(kern, u)
  BY <1>1 DEF KernelOK
<1>3. kern' = [kern EXCEPT !.stat[u] = "INIT", !.yield = @ \ {u},
                           !.current_priority[u] = InitPrio[u],
                           !.number_mask[u] = {},
                           !.remaining_tick[u] = InitTick[u]]
  BY DEF rt_thread_create
<1>4. /\ kern'.current_priority = [kern.current_priority EXCEPT ![u] = InitPrio[u]]
      /\ kern'.priority_table = kern.priority_table /\ kern'.current = kern.current
      /\ kern'.stat[kern.current] = kern.stat[kern.current]
      /\ kern'.yield = kern.yield \ {u}
  BY <1>1, <1>2, <1>3 DEF Kernels
<1>5. Cpu!New(u) /\ CpuOf(kern') = Cpu!TurnBegins(Cpu!Urged(CpuOf(kern), u, InitPrio[u]), u)
  BY <1>1, <1>2, <1>4, NewThread
<1> QED BY <1>1, <1>5, NewSeen

LEMMA StartupDispatches ==
  ASSUME IInv, NEW t \in Threads, NEW u \in Threads, rt_thread_startup(t, u)
  PROVE  Dispatched
<1> DEFINE v == StartedUp(kern, u)
<1>1. /\ KernelOK(kern, {}) /\ kern.stat[u] = "INIT" /\ kern \in Kernels
      /\ InitPrio[u] \in Prios /\ kern' = Resumed(v, u)
  BY Mover, Facts, PrioAssumption DEF rt_thread_startup, Calling
<1>2. /\ KernelOK(v, {}) /\ v.stat = [kern.stat EXCEPT ![u] = "SUSPEND"]
      /\ v.current_priority = [kern.current_priority EXCEPT ![u] = InitPrio[u]]
      /\ v.current = kern.current /\ v.priority_table = kern.priority_table
      /\ v.yield = kern.yield \ {u} /\ u # kern.current /\ ~Queued(kern, u)
  BY <1>1, StartingOK
<1> HIDE DEF v
<1>3. v.stat[kern.current] = kern.stat[kern.current]
  BY <1>1, <1>2 DEF Kernels
<1>4. Cpu!New(u) /\ CpuOf(v) = Cpu!TurnBegins(Cpu!Urged(CpuOf(kern), u, InitPrio[u]), u)
  BY <1>1, <1>2, <1>3, NewThread
<1>5. CpuOf(kern') = Cpu!Woken(CpuOf(v), u)
  BY <1>1, <1>2, ResumedIsWoken
<1> QED BY <1>1, <1>4, <1>5, NewSeen

\* RT_THREAD_CTRL_CHANGE_PRIORITY.
LEMMA ControlDispatches ==
  ASSUME IInv, NEW t \in Threads, NEW u \in Threads, NEW p \in Prios,
         rt_thread_control_priority(t, u, p)
  PROVE  Dispatched
<1>1. KernelOK(kern, {}) /\ kern \in Kernels
  BY Mover, Facts DEF rt_thread_control_priority, Calling
<1>2. CASE kern.stat[u] = "READY"
  <2>1. CpuOf(kern') = Cpu!Urged(CpuOf(kern), u, p)
    BY <1>1, <1>2, RequeuedSeen DEF rt_thread_control_priority
  <2> QED BY <2>1, UrgencySeen
<1>3. CASE kern.stat[u] # "READY"
  <2>1. ~Queued(kern, u)
    BY <1>1, <1>3 DEF KernelOK
  <2>2. kern' = Reprioritised(kern, u, p)
    BY <1>3 DEF rt_thread_control_priority
  <2>3. /\ kern'.current_priority = [kern.current_priority EXCEPT ![u] = p]
        /\ kern'.priority_table = kern.priority_table /\ kern'.current = kern.current
        /\ kern'.stat = kern.stat /\ kern'.yield = kern.yield
    BY <1>1, <2>2 DEF Reprioritised, Kernels
  <2>4. Mode(kern') = Mode(kern)
    BY <2>3 DEF Mode
  <2>5. CpuOf(kern') = Seen([kern.current_priority EXCEPT ![u] = p], kern.priority_table,
                            kern.current, Mode(kern), kern.yield)
    BY <2>3, <2>4, CpuSeen
  <2>6. CpuOf(kern') = Cpu!Urged(CpuOf(kern), u, p)
    BY <1>1, <2>1, <2>5, UrgedAlone
  <2> QED BY <2>6, UrgencySeen
<1> QED BY <1>2, <1>3

\* The end of a thread.
LEMMA ExitDispatches ==
  ASSUME IInv, NEW t \in Threads, _rt_thread_exit(t)
  PROVE  Dispatched
<1> DEFINE a == rt_schedule_remove_thread(kern, t)
           b == Closed(a, t)
           c == CpuOf(kern)
<1>1. /\ t = kern.current /\ KernelOK(kern, {}) /\ kern.stat[t] \in {"RUNNING", "SUSPEND"}
      /\ kern' = rt_schedule(b)
  BY Mover, Facts DEF _rt_thread_exit, Calling
<1>2. KernelOK(a, {} \cup {t}) /\ SameThreads(kern, a) /\ ~Queued(a, t)
  BY <1>1, RemovedOK
<1>3. CpuOf(a) = c
  <2>1. QueuesOK(kern) /\ kern \in Kernels /\ ~Queued(kern, t)
    BY <1>1 DEF KernelOK, QueuesOK
  <2> QED BY <2>1, RemoveLeft, NothingLeft
<1> HIDE DEF a
<1>4. a.stat[t] # "CLOSE" /\ a.current = t /\ a \in Kernels
  BY <1>1, <1>2 DEF SameThreads, KernelOK, QueuesOK
<1>5. KernelOK(b, ({} \cup {t}) \ {t})
  BY <1>2, <1>4, ClosedOK
<1>6. CpuOf(b) = Cpu!TurnBegins([CpuOf(a) EXCEPT !.mode = "blocked"], t)
  BY <1>4, ClosedSeen
<1>7. c.running = t
  BY <1>1, CpuFields
<1> HIDE DEF b, c
<1>8. CpuOf(b) = Cpu!TurnBegins(Cpu!Blocked(c, t), t)
  BY <1>3, <1>6, <1>7, Zenon DEF Cpu!Blocked
<1>9. CpuOf(kern') \in Cpu!Settled(CpuOf(b))
  BY <1>1, <1>5, ScheduleSettles
<1> QED BY <1>8, <1>9, EndSeen DEF c

\* The steps of a deletion: the thread leaves its queue, then it ends.
LEMMA DeleteRemoveDispatches ==
  ASSUME IInv, NEW t \in Threads, DeleteRemove(t)
  PROVE  Dispatched
<1> DEFINE u == arg[t]
           c == CpuOf(kern)
<1>1. /\ u \in Threads /\ Removing = {} /\ KernelOK(kern, Removing)
      /\ kern' = rt_schedule_remove_thread(kern, u)
  BY MidDelete, Facts DEF DeleteRemove
<1> HIDE DEF u
<1>2. QueuesOK(kern) /\ kern \in Kernels /\ (u = kern.current => ~Queued(kern, u))
  BY <1>1 DEF KernelOK, QueuesOK
<1>3. CpuOf(kern') = Cpu!Left(c, u)
  BY <1>1, <1>2, RemoveLeft
<1>4. CASE u = kern.current
  BY <1>1, <1>2, <1>3, <1>4, NothingLeft DEF Dispatched
<1>5. CASE u # kern.current
  <2>1. c.running = kern.current
    BY CpuFields
  <2> HIDE DEF c
  <2>2. CpuOf(kern') = Cpu!Blocked(c, u)
    BY <1>3, <1>5, <2>1, Zenon DEF Cpu!Blocked
  <2> QED BY <1>1, <2>2, BlockSeen DEF Cpu!Settled, c
<1> QED BY <1>4, <1>5

LEMMA DeleteCloseDispatches ==
  ASSUME IInv, NEW t \in Threads, DeleteClose(t)
  PROVE  Dispatched
<1> DEFINE u == arg[t]
           c == CpuOf(kern)
<1>1. /\ u \in Threads /\ ~Queued(kern, u) /\ kern \in Kernels /\ kern' = Closed(kern, u)
  BY MidDelete, Facts DEF DeleteClose
<1>2. c.running = kern.current
  BY CpuFields
<1> HIDE DEF u
<1>3. CpuOf(kern') = Cpu!TurnBegins(Cpu!Blocked(c, u), u)
  <2>1. CASE u = kern.current
    <3>1. CpuOf(kern') = Cpu!TurnBegins([c EXCEPT !.mode = "blocked"], u)
      BY <1>1, <2>1, ClosedSeen, Zenon
    <3> HIDE DEF c
    <3> QED BY <1>2, <2>1, <3>1, Zenon DEF Cpu!Blocked
  <2>2. CASE u # kern.current
    <3>1. CpuOf(kern') = Cpu!TurnBegins(c, u) /\ Cpu!Left(c, u) = c
      BY <1>1, <2>2, ClosedSeen, NothingLeft
    <3> HIDE DEF c
    <3> QED BY <1>2, <2>2, <3>1, Zenon DEF Cpu!Blocked
  <2> QED BY <2>1, <2>2
<1> QED BY <1>1, <1>3, EndSeen DEF Cpu!Settled

\* Of these steps nothing is seen: the lock of the scheduler, the reaper, the
\* checks of a call, and what a handler does besides.
LEMMA CriticalDispatches ==
  ASSUME IInv, NEW t \in Threads, EnterCritical(t) \/ ExitCritical(t)
  PROVE  Dispatched
<1>1. PICK n : kern' = [kern EXCEPT !.lock_nest = n]
  BY DEF EnterCritical, ExitCritical, rt_enter_critical, leave_critical
<1>2. /\ kern'.stat = kern.stat /\ kern'.current_priority = kern.current_priority
      /\ kern'.priority_table = kern.priority_table /\ kern'.current = kern.current
      /\ kern'.yield = kern.yield
  BY <1>1, Facts DEF Kernels
<1> QED BY <1>2, SameCpu DEF Dispatched

LEMMA ReaperDispatches ==
  ASSUME IInv, IdleStep
  PROVE  Dispatched
<1> DEFINE u == arg[idle]
<1>1. idle = kern.current /\ u \in Threads /\ kern \in Kernels /\ pc[idle] \in {"run", "reap", "free"}
  BY Facts DEF IdleStep, DefunctPick, rt_thread_defunct_dequeue, rt_defunct_execute, At
<1>2. CASE DefunctPick
  BY <1>2 DEF DefunctPick, Dispatched
<1>3. CASE rt_thread_defunct_dequeue
  <2>1. pc[idle] = "reap" /\ kern' = unlink_tlist(kern, u)
    BY <1>3 DEF rt_thread_defunct_dequeue, At
  <2>2. KernelOK(kern, Removing) /\ Linked(kern.defunct, u)
    BY <2>1 DEF IInv, IdleOK
  <2>3. QueuesOK(kern) /\ ~Queued(kern, u)
    BY <1>1, <2>2 DEF KernelOK
  <2>4. CpuOf(kern') = CpuOf(kern)
    BY <1>1, <2>1, <2>3, UnlinkLeft, NothingLeft
  <2> QED BY <2>4 DEF Dispatched
<1>4. CASE rt_defunct_execute
  <2>1. pc[idle] = "free" /\ kern' = [kern EXCEPT !.stat[u] = "NONE"]
    BY <1>4 DEF rt_defunct_execute, At
  <2>2. kern.stat[u] = "CLOSE" /\ kern.stat[idle] \in {"READY", "RUNNING"}
    BY <1>1, <2>1 DEF IInv, IdleOK, DefunctExact
  <2>3. u # kern.current
    BY <1>1, <2>2
  <2> HIDE DEF u
  <2>4. /\ kern'.current_priority = kern.current_priority
        /\ kern'.priority_table = kern.priority_table /\ kern'.current = kern.current
        /\ kern'.stat[kern.current] = kern.stat[kern.current] /\ kern'.yield = kern.yield
    BY <1>1, <2>1, <2>3 DEF Kernels
  <2>5. CpuOf(kern') = CpuOf(kern)
    BY <2>4, SameCpu
  <2> QED BY <2>5 DEF Dispatched
<1> QED BY <1>2, <1>3, <1>4 DEF IdleStep

LEMMA QuietDispatches ==
  ASSUME kern' = kern
  PROVE  Dispatched
BY DEF Dispatched

\* Every step of the kernel is one of the dispatcher's, or nothing is seen of
\* it.
LEMMA NextDispatches ==
  ASSUME IInv, [Next]_vars
  PROVE  Dispatched
<1>1. CASE UNCHANGED vars
  BY <1>1, QuietDispatches DEF vars
<1>2. ASSUME NEW t \in Threads, ApiStep(t) PROVE Dispatched
  <2>1. ASSUME NEW u \in Threads, rt_thread_create(t, u) PROVE Dispatched
    BY <2>1, CreateDispatches
  <2>2. ASSUME NEW u \in Threads, rt_thread_startup(t, u) PROVE Dispatched
    BY <2>2, StartupDispatches
  <2>3. ASSUME NEW u \in Threads,
               ResumeCheck(t, u) \/ SuspendCheck(t, u) \/ DeleteCheck(t, u)
        PROVE  Dispatched
    BY <2>3, QuietDispatches DEF ResumeCheck, SuspendCheck, DeleteCheck
  <2>4. ASSUME NEW u \in Threads, NEW p \in Prios, rt_thread_control_priority(t, u, p)
        PROVE  Dispatched
    BY <2>4, ControlDispatches
  <2>5. ASSUME NEW d \in SleepTicks, rt_thread_sleep(t, d) PROVE Dispatched
    BY <2>5, SleepDispatches
  <2>6. CASE rt_thread_yield(t)
    BY <2>6, YieldDispatches
  <2>7. CASE EnterCritical(t) \/ ExitCritical(t)
    BY <2>7, CriticalDispatches
  <2>8. CASE _rt_thread_exit(t)
    BY <2>8, ExitDispatches
  <2> QED BY <1>2, <2>1, <2>2, <2>3, <2>4, <2>5, <2>6, <2>7, <2>8 DEF ApiStep
<1>3. ASSUME NEW t \in Threads, CallStep(t) PROVE Dispatched
  <2>1. CASE DeleteDetachTimer(t)
    BY <2>1, QuietDispatches DEF DeleteDetachTimer
  <2> QED BY <1>3, <2>1, ScheduleDispatches, ResumeDispatches, SuspendDispatches,
             DeleteRemoveDispatches, DeleteCloseDispatches DEF CallStep
<1>4. CASE IdleStep
  BY <1>4, ReaperDispatches
<1>5. CASE IsrStep
  <2>1. CASE TimerCheckDone \/ rt_interrupt_leave
    BY <2>1, QuietDispatches DEF TimerCheckDone, rt_interrupt_leave
  <2> QED BY <1>5, <2>1, ScheduleDispatches, TimerCheckDispatches, ResumeDispatches DEF IsrStep
<1>6. CASE rt_tick_increase
  BY <1>6, TickDispatches
<1>7. ASSUME NEW u \in Threads, DevIrq(u) PROVE Dispatched
  BY <1>7, QuietDispatches DEF DevIrq
<1> QED BY <1>1, <1>2, <1>3, <1>4, <1>5, <1>6, <1>7 DEF Next

\* The first thread runs and the idle thread waits.
LEMMA InitDispatches ==
  ASSUME Init
  PROVE  Cpu!CpuInit
<1> DEFINE c == CpuOf(kern)
           w == [p \in Prios |-> IF p = InitPrio[idle] THEN <<idle>> ELSE <<>>]
<1>1. /\ kern.current_priority = InitPrio /\ kern.priority_table = w /\ kern.current = main
      /\ kern.stat[main] = "RUNNING" /\ kern.yield = {}
  BY ThreadsAssumption DEF Init
<1>2. /\ idle \in Threads \ {main} /\ main \in Threads /\ InitPrio \in [Threads -> Prios]
  BY ThreadsAssumption, PrioAssumption
<1>3. w \in [Prios -> Seq(Threads)]
  BY <1>2
<1> HIDE DEF w
<1>4. Mode(kern) = "runs"
  BY <1>1 DEF Mode
<1>5. c = Seen(InitPrio, w, main, "runs", {})
  BY <1>1, <1>4, CpuSeen
<1>6. c \in Cpu!Cpus
  <2> HIDE DEF c
  <2> QED BY <1>2, <1>3, <1>5 DEF Cpu!Cpus, Seen
<1>7. /\ c.urgency = InitPrio /\ c.waiting = w /\ c.running = main /\ c.mode = "runs"
      /\ c.over = {}
  BY <1>5, SeenFields
<1> HIDE DEF c
<1>8. c.waiting = [p \in Prios |-> IF p = c.urgency[idle] THEN <<idle>> ELSE <<>>]
  BY <1>7 DEF w
<1>9. \E t \in Threads \ {c.running} :
        c.waiting = [p \in Prios |-> IF p = c.urgency[t] THEN <<t>> ELSE <<>>]
  BY <1>2, <1>7, <1>8
<1> QED BY <1>6, <1>7, <1>9 DEF Cpu!CpuInit, c

\* Every behaviour of the kernel is one of the dispatcher: the ready threads
\* of a priority are served in the order in which they came, and each switch
\* is to the thread whose turn it is (rt_schedule and its callers).
THEOREM DispatcherImplemented == DisciplinedCallers => (Spec => IsDispatcher)
<1> SUFFICES ASSUME DisciplinedCallers PROVE Spec => IsDispatcher
  OBVIOUS
<1>1. Init => Cpu!CpuInit
  BY InitDispatches
<1>2. IInv /\ [Next]_vars => [Cpu!CpuNext]_(CpuOf(kern))
  BY NextDispatches, SeenAfter DEF Dispatched
<1> QED BY <1>1, <1>2, KernelInvariant, PTL DEF Spec, IsDispatcher, Cpu!CpuSpec
=============================================================================

-------------------------- MODULE SchedulerProofs --------------------------
(***************************************************************************)
(* What the functions of scheduler.c do to the ready queues, for every     *)
(* kernel record: the queues stay free of duplicates, each thread is in    *)
(* the queue of its own priority only, and the bitmap stays exact.         *)
(***************************************************************************)
EXTENDS Scheduler, ListsProofs

\* u differs from k in the queues and the bitmap only.
SameThreads(k, u) ==
  /\ u.stat = k.stat /\ u.yield = k.yield
  /\ u.current_priority = k.current_priority /\ u.number_mask = k.number_mask
  /\ u.remaining_tick = k.remaining_tick /\ u.current = k.current
  /\ u.lock_nest = k.lock_nest

\* rt_list_remove(&t->tlist) takes t out of every list and moves no other.
LEMMA UnlinkTlist ==
  ASSUME NEW k, QueuesOK(k), NEW t \in Threads
  PROVE  LET u == unlink_tlist(k, t)
         IN  /\ u \in Kernels /\ SameThreads(k, u) /\ u.ready_group = k.ready_group
             /\ \A p \in Prios :
                  /\ Distinct(u.priority_table[p])
                  /\ \A y : Linked(u.priority_table[p], y)
                              <=> Linked(k.priority_table[p], y) /\ y # t
                  /\ ~Linked(k.priority_table[p], t)
                       => u.priority_table[p] = k.priority_table[p]
             /\ Distinct(u.defunct)
             /\ \A y : Linked(u.defunct, y) <=> Linked(k.defunct, y) /\ y # t
<1> DEFINE u == unlink_tlist(k, t)
<1>1. k \in Kernels
  BY DEF QueuesOK
<1>2. ASSUME NEW p \in Prios
      PROVE  /\ rt_list_remove(k.priority_table[p], t) \in Seq(Threads)
             /\ Distinct(rt_list_remove(k.priority_table[p], t))
             /\ \A y : Linked(rt_list_remove(k.priority_table[p], t), y)
                         <=> Linked(k.priority_table[p], y) /\ y # t
             /\ ~Linked(k.priority_table[p], t)
                  => rt_list_remove(k.priority_table[p], t) = k.priority_table[p]
  <2>1. k.priority_table[p] \in Seq(Threads) /\ Distinct(k.priority_table[p])
    BY <1>1 DEF Kernels, QueuesOK
  <2>2. ~Linked(k.priority_table[p], t)
          => rt_list_remove(k.priority_table[p], t) = k.priority_table[p]
    BY DEF rt_list_remove
  <2> QED BY <2>1, <2>2, ListRemove
<1>3. /\ rt_list_remove(k.defunct, t) \in Seq(Threads)
      /\ Distinct(rt_list_remove(k.defunct, t))
      /\ \A y : Linked(rt_list_remove(k.defunct, t), y) <=> Linked(k.defunct, y) /\ y # t
  <2>1. k.defunct \in Seq(Threads) /\ Distinct(k.defunct)
    BY <1>1 DEF Kernels, QueuesOK
  <2> QED BY <2>1, ListRemove
<1>4. /\ u.priority_table = [p \in Prios |-> rt_list_remove(k.priority_table[p], t)]
      /\ u.defunct = rt_list_remove(k.defunct, t)
      /\ SameThreads(k, u) /\ u.ready_group = k.ready_group
  BY <1>1 DEF Kernels, unlink_tlist, SameThreads
<1>5. u.priority_table \in [Prios -> Seq(Threads)] /\ u.defunct \in Seq(Threads)
  BY <1>2, <1>3, <1>4
<1>6. u \in Kernels
  BY <1>1, <1>2, <1>3 DEF Kernels, unlink_tlist
<1> QED BY <1>2, <1>3, <1>4, <1>6

\* r is k after t has left its list.
Removed(k, t, r) ==
  /\ QueuesOK(r) /\ SameThreads(k, r)
  /\ \A y : Queued(r, y) <=> Queued(k, y) /\ y # t
  /\ \A y : Linked(r.defunct, y) <=> Linked(k.defunct, y) /\ y # t

\* rt_schedule_remove_thread keeps the queues and the bitmap exact, provided
\* the bit of a queued thread is the one of its priority.
LEMMA RemoveThread ==
  ASSUME NEW k, QueuesOK(k), NEW t \in Threads,
         k.number_mask[t] \subseteq {k.current_priority[t]},
         Queued(k, t) => k.number_mask[t] = {k.current_priority[t]}
  PROVE  Removed(k, t, rt_schedule_remove_thread(k, t))
<1> DEFINE u == unlink_tlist(k, t)
           r == rt_schedule_remove_thread(k, t)
           c == k.current_priority[t]
           g == IF u.priority_table[c] = <<>> THEN u.ready_group \ k.number_mask[t]
                                              ELSE u.ready_group
<1>1. /\ k \in Kernels /\ c \in Prios /\ k.number_mask[t] \in SUBSET Prios
      /\ k.ready_group = {p \in Prios : k.priority_table[p] # <<>>}
  BY DEF QueuesOK, Kernels
<1>2. /\ u \in Kernels /\ SameThreads(k, u) /\ u.ready_group = k.ready_group
      /\ \A p \in Prios :
           /\ Distinct(u.priority_table[p])
           /\ \A y : Linked(u.priority_table[p], y)
                       <=> Linked(k.priority_table[p], y) /\ y # t
           /\ ~Linked(k.priority_table[p], t)
                => u.priority_table[p] = k.priority_table[p]
      /\ Distinct(u.defunct)
      /\ \A y : Linked(u.defunct, y) <=> Linked(k.defunct, y) /\ y # t
  BY UnlinkTlist
<1> HIDE DEF u
<1>3. r = [u EXCEPT !.ready_group = g]
  BY DEF rt_schedule_remove_thread, u
<1>4. g \in SUBSET Prios
  BY <1>1, <1>2 DEF Kernels
<1>5. /\ r \in Kernels /\ SameThreads(k, r) /\ r.ready_group = g
      /\ r.priority_table = u.priority_table /\ r.defunct = u.defunct
  <2>1. u \in Kernels /\ SameThreads(k, u)
    BY <1>2
  <2> HIDE DEF g, r
  <2>2. r \in Kernels
    BY <2>1, <1>3, <1>4 DEF Kernels
  <2>3. /\ r.ready_group = g /\ r.priority_table = u.priority_table /\ r.defunct = u.defunct
        /\ SameThreads(u, r)
    BY <2>1, <1>3 DEF Kernels, SameThreads
  <2> QED BY <2>1, <2>2, <2>3 DEF SameThreads
<1>6. \A p \in Prios : p # c => u.priority_table[p] = k.priority_table[p]
  BY <1>2 DEF QueuesOK
<1>7. g = {p \in Prios : u.priority_table[p] # <<>>}
  <2>1. CASE u.priority_table[c] = <<>> /\ Queued(k, t)
    BY <2>1, <1>1, <1>2, <1>6
  <2>2. CASE u.priority_table[c] = <<>> /\ ~Queued(k, t)
    <3>1. u.priority_table[c] = k.priority_table[c]
      BY <2>2, <1>1, <1>2 DEF Queued
    <3>2. c \notin k.ready_group
      BY <2>2, <3>1, <1>1
    <3> QED BY <2>2, <3>1, <3>2, <1>1, <1>2, <1>6
  <2>3. CASE u.priority_table[c] # <<>>
    <3>1. k.priority_table[c] # <<>>
      <4>1. SUFFICES ASSUME k.priority_table[c] = <<>>
                     PROVE  FALSE
        OBVIOUS
      <4>2. ~Linked(k.priority_table[c], t)
        BY <4>1 DEF Linked
      <4> QED BY <4>1, <4>2, <2>3, <1>1, <1>2
    <3> QED BY <2>3, <3>1, <1>1, <1>2, <1>6
  <2> QED BY <2>1, <2>2, <2>3
<1>8. QueuesOK(r)
  <2>1. \A y \in Threads, p \in Prios :
          Linked(r.priority_table[p], y) => p = r.current_priority[y]
    BY <1>2, <1>5 DEF QueuesOK, SameThreads
  <2> QED BY <2>1, <1>2, <1>5, <1>7 DEF QueuesOK
<1> QED BY <1>2, <1>5, <1>8 DEF Removed, Queued

\* r is k after t, which was in no list, has become READY and been queued.
Inserted(k, t, r) ==
  /\ QueuesOK(r) /\ r.stat = [k.stat EXCEPT ![t] = "READY"]
  /\ r.yield = k.yield /\ r.current_priority = k.current_priority
  /\ r.number_mask = k.number_mask /\ r.remaining_tick = k.remaining_tick
  /\ r.current = k.current /\ r.lock_nest = k.lock_nest /\ r.defunct = k.defunct
  /\ \A y : Queued(r, y) <=> Queued(k, y) \/ y = t

\* rt_schedule_insert_thread of a thread that is in no list and not current.
LEMMA InsertThread ==
  ASSUME NEW k, QueuesOK(k), NEW t \in Threads, t # k.current, ~Queued(k, t),
         k.number_mask[t] = {k.current_priority[t]}
  PROVE  Inserted(k, t, rt_schedule_insert_thread(k, t))
<1> DEFINE r == rt_schedule_insert_thread(k, t)
           c == k.current_priority[t]
           s == rt_list_insert_before(k.priority_table[c], t)
<1>1. /\ k \in Kernels /\ c \in Prios
      /\ k.ready_group = {p \in Prios : k.priority_table[p] # <<>>}
      /\ k.priority_table[c] \in Seq(Threads) /\ Distinct(k.priority_table[c])
      /\ ~Linked(k.priority_table[c], t)
  BY DEF QueuesOK, Kernels, Queued
<1>2. /\ s \in Seq(Threads) /\ Distinct(s)
      /\ \A y : Linked(s, y) <=> Linked(k.priority_table[c], y) \/ y = t
  BY <1>1, ListInsertBefore
<1> HIDE DEF s
<1>3. r = [k EXCEPT !.stat = [k.stat EXCEPT ![t] = "READY"],
                    !.priority_table = [k.priority_table EXCEPT ![c] = s],
                    !.ready_group = k.ready_group \cup {c}]
  BY <1>1 DEF rt_schedule_insert_thread, s, Kernels
<1>4. /\ [k.stat EXCEPT ![t] = "READY"] \in [Threads -> Stats]
      /\ [k.priority_table EXCEPT ![c] = s] \in [Prios -> Seq(Threads)]
      /\ k.ready_group \cup {c} \in SUBSET Prios
  BY <1>1, <1>2 DEF Kernels, Stats
<1>5. /\ r \in Kernels /\ r.stat = [k.stat EXCEPT ![t] = "READY"]
      /\ r.yield = k.yield /\ r.current_priority = k.current_priority
      /\ r.number_mask = k.number_mask /\ r.remaining_tick = k.remaining_tick
      /\ r.current = k.current /\ r.lock_nest = k.lock_nest /\ r.defunct = k.defunct
      /\ r.priority_table = [k.priority_table EXCEPT ![c] = s]
      /\ r.ready_group = k.ready_group \cup {c}
  BY <1>1, <1>3, <1>4 DEF Kernels
<1> HIDE DEF r
<1>6. \A p \in Prios : r.priority_table[p] = IF p = c THEN s ELSE k.priority_table[p]
  BY <1>1, <1>5 DEF Kernels
<1>7. \A p \in Prios : \A y :
        Linked(r.priority_table[p], y)
          <=> Linked(k.priority_table[p], y) \/ (y = t /\ p = c)
  BY <1>1, <1>2, <1>6
<1>8. s # <<>>
  <2>1. Linked(s, t)
    BY <1>2
  <2> QED BY <2>1 DEF Linked
<1>9. r.ready_group = {p \in Prios : r.priority_table[p] # <<>>}
  BY <1>1, <1>5, <1>6, <1>8
<1>10. \A p \in Prios : Distinct(r.priority_table[p])
  BY <1>2, <1>6 DEF QueuesOK
<1>11. \A y \in Threads, p \in Prios :
         Linked(r.priority_table[p], y) => p = r.current_priority[y]
  BY <1>5, <1>7 DEF QueuesOK
<1>12. QueuesOK(r)
  BY <1>5, <1>9, <1>10, <1>11 DEF QueuesOK
<1> QED BY <1>1, <1>5, <1>7, <1>12 DEF r, Inserted, Queued

\* If some priority has its bit set, the highest one exists and its queue has
\* a head, which is READY.
LEMMA HighestReadyOK ==
  ASSUME NEW k, NEW R, KernelOK(k, R), k.ready_group # {}
  PROVE  /\ HighestReady(k) \in k.ready_group /\ HighestReady(k) \in Prios
         /\ \A q \in k.ready_group : HighestReady(k) <= q
         /\ get_highest_priority_thread(k) \in Threads
         /\ Linked(k.priority_table[HighestReady(k)], get_highest_priority_thread(k))
         /\ k.stat[get_highest_priority_thread(k)] = "READY"
         /\ k.current_priority[get_highest_priority_thread(k)] = HighestReady(k)
         /\ get_highest_priority_thread(k) # k.current
<1> DEFINE h == HighestReady(k)
           t == get_highest_priority_thread(k)
<1>1. /\ k \in Kernels /\ k.ready_group \in SUBSET Nat
      /\ k.ready_group = {p \in Prios : k.priority_table[p] # <<>>}
  BY PrioMaxAssumption DEF KernelOK, QueuesOK, Prios
<1>2. \E p \in k.ready_group : \A q \in k.ready_group : p <= q
  BY <1>1, LeastNatural
<1>3. h \in k.ready_group /\ \A q \in k.ready_group : h <= q
  BY <1>2 DEF HighestReady
<1> HIDE DEF h
<1>4. h \in Prios /\ k.priority_table[h] # <<>> /\ k.priority_table[h] \in Seq(Threads)
  BY <1>1, <1>3 DEF Kernels
<1>5. t = Head(k.priority_table[h])
  BY DEF get_highest_priority_thread, h
<1> HIDE DEF t
<1>6. t \in Threads /\ Linked(k.priority_table[h], t)
  BY <1>4, <1>5, ListHead
<1>7. k.stat[t] = "READY" /\ k.current_priority[t] = h
  BY <1>4, <1>6 DEF KernelOK, QueuesOK, Queued
<1>8. t # k.current
  BY <1>7 DEF KernelOK
<1> QED BY <1>3, <1>4, <1>6, <1>7, <1>8 DEF h, t

\* Of the fields a switch may touch, only these matter to other threads:
\* stat moves between READY and RUNNING, and the queues follow.
Rescheduled(k, r) ==
  /\ r.current_priority = k.current_priority /\ r.number_mask = k.number_mask
  /\ r.remaining_tick = k.remaining_tick /\ r.lock_nest = k.lock_nest
  /\ \A y \in Threads : \/ r.stat[y] = k.stat[y]
                        \/ {r.stat[y], k.stat[y]} \subseteq {"READY", "RUNNING"}
  /\ \A y : Linked(r.defunct, y) <=> Linked(k.defunct, y)

\* The switch to the head of the highest queue.
LEMMA SwitchToOK ==
  ASSUME NEW k, NEW R, KernelOK(k, R), k.ready_group # {}
  PROVE  LET r == SwitchTo(k, get_highest_priority_thread(k))
         IN  /\ KernelOK(r, R) /\ Rescheduled(k, r)
             /\ r.current = get_highest_priority_thread(k)
             /\ r.stat[r.current] = "RUNNING"
<1> DEFINE from == k.current
           to == get_highest_priority_thread(k)
           a == [k EXCEPT !.current = to]
           b == IF k.stat[from] = "RUNNING" THEN rt_schedule_insert_thread(a, from) ELSE a
           c == rt_schedule_remove_thread(b, to)
           r == [c EXCEPT !.stat[to] = "RUNNING"]
<1>1. /\ QueuesOK(k) /\ k \in Kernels /\ from \in Threads
      /\ k.stat[from] \in {"RUNNING", "SUSPEND", "CLOSE"}
  BY DEF KernelOK, QueuesOK, Kernels
<1>2. /\ to \in Threads /\ Queued(k, to) /\ k.stat[to] = "READY" /\ to # from
  BY HighestReadyOK DEF Queued
<1> HIDE DEF to
<1>3. /\ a \in Kernels /\ a.current = to /\ a.stat = k.stat /\ a.yield = k.yield
      /\ a.current_priority = k.current_priority /\ a.number_mask = k.number_mask
      /\ a.remaining_tick = k.remaining_tick /\ a.lock_nest = k.lock_nest
      /\ a.priority_table = k.priority_table /\ a.ready_group = k.ready_group
      /\ a.defunct = k.defunct
  BY <1>1, <1>2 DEF Kernels
<1> HIDE DEF a
<1>4. QueuesOK(a) /\ \A y : Queued(a, y) <=> Queued(k, y)
  BY <1>1, <1>3 DEF QueuesOK, Queued
<1>5. /\ QueuesOK(b) /\ b.current = to /\ b.yield = k.yield
      /\ b.current_priority = k.current_priority /\ b.number_mask = k.number_mask
      /\ b.remaining_tick = k.remaining_tick /\ b.lock_nest = k.lock_nest
      /\ b.defunct = k.defunct
      /\ b.stat = [k.stat EXCEPT ![from] =
                     IF k.stat[from] = "RUNNING" THEN "READY" ELSE k.stat[from]]
      /\ \A y : Queued(b, y) <=> Queued(k, y) \/ (y = from /\ k.stat[from] = "RUNNING")
  <2>1. CASE k.stat[from] = "RUNNING"
    <3>1. ~Queued(a, from) /\ a.number_mask[from] = {a.current_priority[from]}
      BY <2>1, <1>1, <1>3, <1>4 DEF KernelOK
    <3>2. b = rt_schedule_insert_thread(a, from)
      BY <2>1
    <3> HIDE DEF b
    <3>3. Inserted(a, from, rt_schedule_insert_thread(a, from))
      BY <1>1, <1>2, <1>3, <1>4, <3>1, InsertThread
    <3> HIDE DEF b
    <3> QED BY <2>1, <1>3, <1>4, <3>2, <3>3 DEF Inserted
  <2>2. CASE k.stat[from] # "RUNNING"
    <3>1. b = a
      BY <2>2
    <3>2. k.stat = [k.stat EXCEPT ![from] = k.stat[from]]
      BY <1>1 DEF Kernels
    <3> QED BY <2>2, <3>1, <3>2, <1>3, <1>4
  <2> QED BY <2>1, <2>2
<1> HIDE DEF b
<1>6. /\ b.number_mask[to] = {b.current_priority[to]}
  BY <1>2, <1>5 DEF KernelOK
<1>7. /\ QueuesOK(c) /\ SameThreads(b, c)
      /\ \A y : Queued(c, y) <=> Queued(b, y) /\ y # to
      /\ \A y : Linked(c.defunct, y) <=> Linked(b.defunct, y) /\ y # to
  <2>1. QueuesOK(b) /\ to \in Threads /\ b.number_mask[to] \subseteq {b.current_priority[to]}
    BY <1>2, <1>5, <1>6
  <2>2. Removed(b, to, rt_schedule_remove_thread(b, to))
    BY <2>1, <1>6, RemoveThread
  <2> QED BY <2>2 DEF Removed
<1> HIDE DEF c
<1>8. /\ r \in Kernels /\ r.stat = [c.stat EXCEPT ![to] = "RUNNING"]
      /\ r.current = c.current /\ r.current_priority = c.current_priority
      /\ r.number_mask = c.number_mask /\ r.remaining_tick = c.remaining_tick
      /\ r.lock_nest = c.lock_nest /\ r.defunct = c.defunct
      /\ r.priority_table = c.priority_table /\ r.ready_group = c.ready_group
  BY <1>2, <1>7 DEF QueuesOK, Kernels, Stats
<1> HIDE DEF r
<1>9. QueuesOK(r) /\ \A y : Queued(r, y) <=> Queued(c, y)
  BY <1>7, <1>8 DEF QueuesOK, Queued
<1>10. /\ r.current = to
       /\ r.current_priority = k.current_priority /\ r.number_mask = k.number_mask
       /\ r.remaining_tick = k.remaining_tick /\ r.lock_nest = k.lock_nest
       /\ \A y : Linked(r.defunct, y) <=> Linked(k.defunct, y) /\ y # to
       /\ \A y : Queued(r, y) <=> (Queued(k, y) \/ (y = from /\ k.stat[from] = "RUNNING"))
                                    /\ y # to
  BY <1>5, <1>7, <1>8, <1>9 DEF SameThreads
<1>11. \A y \in Threads :
         r.stat[y] = IF y = to THEN "RUNNING"
                     ELSE IF y = from /\ k.stat[from] = "RUNNING" THEN "READY"
                     ELSE k.stat[y]
  <2>1. k.stat \in [Threads -> Stats] /\ c.stat = b.stat
    BY <1>1, <1>7 DEF Kernels, SameThreads
  <2> QED BY <2>1, <1>1, <1>2, <1>5, <1>8
<1>12. ~Linked(k.defunct, to)
  BY <1>2 DEF KernelOK
<1>13. KernelOK(r, R)
  <2>1. \A y \in Threads : Queued(r, y) => r.stat[y] = "READY"
    BY <1>10, <1>11 DEF KernelOK
  <2>2. \A y \in Threads \ R : r.stat[y] = "READY" => Queued(r, y)
    BY <1>2, <1>10, <1>11 DEF KernelOK
  <2>3. \A y \in Threads : r.number_mask[y] \subseteq {r.current_priority[y]}
    BY <1>10 DEF KernelOK
  <2>4. \A y \in Threads : r.stat[y] \in {"READY", "RUNNING", "SUSPEND"}
                             => r.number_mask[y] = {r.current_priority[y]}
    BY <1>2, <1>10, <1>11 DEF KernelOK
  <2>5. \A y \in Threads : r.stat[y] = "RUNNING" => y = r.current
    BY <1>1, <1>10, <1>11 DEF KernelOK
  <2>6. r.stat[r.current] \in {"RUNNING", "SUSPEND", "CLOSE"}
    BY <1>2, <1>10, <1>11
  <2>7. \A y \in Threads : Linked(r.defunct, y) => r.stat[y] = "CLOSE"
    BY <1>1, <1>10, <1>11 DEF KernelOK
  <2> QED BY <1>9, <2>1, <2>2, <2>3, <2>4, <2>5, <2>6, <2>7 DEF KernelOK
<1>14. Rescheduled(k, r)
  BY <1>2, <1>10, <1>11, <1>12 DEF Rescheduled
<1>15. r = SwitchTo(k, get_highest_priority_thread(k))
  BY DEF SwitchTo, r, c, b, a, to
<1> QED BY <1>2, <1>10, <1>11, <1>13, <1>14, <1>15 DEF to

\* The branch in which the current thread stays: it is in no queue.
LEMMA KeepCurrentOK ==
  ASSUME NEW k, NEW R, KernelOK(k, R), k.stat[k.current] = "RUNNING"
  PROVE  /\ KernelOK(KeepCurrent(k), R) /\ Rescheduled(k, KeepCurrent(k))
         /\ KeepCurrent(k).stat[KeepCurrent(k).current] = "RUNNING"
<1> DEFINE t == k.current
           c == rt_schedule_remove_thread(k, t)
           r == KeepCurrent(k)
<1>1. k \in Kernels /\ t \in Threads /\ QueuesOK(k) /\ ~Queued(k, t)
  BY DEF KernelOK, QueuesOK, Kernels
<1>2. Removed(k, t, c)
  BY <1>1, RemoveThread DEF KernelOK
<1>3. r = [c EXCEPT !.stat[t] = "RUNNING"]
  BY DEF KeepCurrent
<1> HIDE DEF c, r
<1>4. c \in Kernels /\ c.stat = k.stat /\ k.stat \in [Threads -> Stats]
  BY <1>1, <1>2 DEF Removed, QueuesOK, SameThreads, Kernels
<1>5. r = c
  <2>1. [c.stat EXCEPT ![t] = "RUNNING"] = c.stat
    BY <1>1, <1>4
  <2> QED BY <1>3, <1>4, <2>1 DEF Kernels
<1>6. ~Linked(k.defunct, t)
  BY <1>1 DEF KernelOK
<1>7. /\ \A y : Queued(c, y) <=> Queued(k, y)
      /\ \A y : Linked(c.defunct, y) <=> Linked(k.defunct, y)
  BY <1>1, <1>2, <1>6 DEF Removed
<1>8. KernelOK(c, R)
  BY <1>2, <1>7 DEF KernelOK, Removed, SameThreads
<1>9. Rescheduled(k, c)
  BY <1>2, <1>7 DEF Removed, SameThreads, Rescheduled
<1>10. c.stat[c.current] = "RUNNING"
  BY <1>2, <1>4 DEF Removed, SameThreads
<1> QED BY <1>5, <1>8, <1>9, <1>10 DEF r

\* rt_schedule keeps queues, thread->stat and bitmap in agreement, and moves
\* threads between READY and RUNNING only; the current thread then is RUNNING
\* unless the scheduler was locked or found nothing ready.
LEMMA ScheduleOK ==
  ASSUME NEW k, NEW R, KernelOK(k, R)
  PROVE  /\ KernelOK(rt_schedule(k), R) /\ Rescheduled(k, rt_schedule(k))
         /\ \/ rt_schedule(k).stat[rt_schedule(k).current] = "RUNNING"
            \/ rt_schedule(k) = k /\ (k.lock_nest # 0 \/ k.ready_group = {})
<1> DEFINE t == k.current
           b == IF k.stat[t] = "RUNNING" THEN [k EXCEPT !.yield = @ \ {t}] ELSE k
<1>1. k \in Kernels
  BY DEF KernelOK, QueuesOK
<1>2. CASE k.lock_nest # 0 \/ k.ready_group = {}
  BY <1>2 DEF rt_schedule, Rescheduled
<1>3. CASE k.lock_nest = 0 /\ k.ready_group # {}
  <2>1. /\ b \in Kernels /\ b.stat = k.stat /\ b.current = t
        /\ b.current_priority = k.current_priority /\ b.number_mask = k.number_mask
        /\ b.remaining_tick = k.remaining_tick /\ b.lock_nest = k.lock_nest
        /\ b.priority_table = k.priority_table /\ b.ready_group = k.ready_group
        /\ b.defunct = k.defunct
    BY <1>1 DEF Kernels
  <2> HIDE DEF b
  <2>2. KernelOK(b, R)
    BY <2>1 DEF KernelOK, QueuesOK, Queued
  <2>3. get_highest_priority_thread(b) = get_highest_priority_thread(k)
    BY <2>1 DEF get_highest_priority_thread, HighestReady
  <2>4. \A r : Rescheduled(b, r) => Rescheduled(k, r)
    BY <2>1 DEF Rescheduled
  <2>5. CASE StaysRunning(k)
    <3>1. rt_schedule(k) = KeepCurrent(b)
      BY <1>3, <2>5 DEF rt_schedule, b
    <3>2. k.stat[t] = "RUNNING"
      BY <2>5 DEF StaysRunning
    <3> QED BY <2>1, <2>2, <2>4, <3>1, <3>2, KeepCurrentOK
  <2>6. CASE ~StaysRunning(k)
    <3>1. get_highest_priority_thread(k) # t
      BY <1>3, HighestReadyOK
    <3>2. rt_schedule(k) = SwitchTo(b, get_highest_priority_thread(b))
      BY <1>3, <2>3, <2>6, <3>1 DEF rt_schedule, b
    <3> QED BY <1>3, <2>1, <2>2, <2>4, <3>2, SwitchToOK
  <2> QED BY <2>5, <2>6
<1> QED BY <1>2, <1>3

\* rt_schedule that is not locked and finds something ready keeps the current
\* thread or takes the head of the highest queue.
LEMMA ScheduleChoice ==
  ASSUME NEW k, NEW R, KernelOK(k, R), k.lock_nest = 0, k.ready_group # {}
  PROVE  rt_schedule(k).current =
           IF StaysRunning(k) THEN k.current ELSE get_highest_priority_thread(k)
<1> DEFINE t == k.current
           b == IF k.stat[t] = "RUNNING" THEN [k EXCEPT !.yield = @ \ {t}] ELSE k
<1>1. /\ b.stat = k.stat /\ b.current = t /\ b.current_priority = k.current_priority
      /\ b.number_mask = k.number_mask /\ b.lock_nest = k.lock_nest
      /\ b.priority_table = k.priority_table /\ b.ready_group = k.ready_group
      /\ b.defunct = k.defunct /\ b \in Kernels
  BY DEF KernelOK, QueuesOK, Kernels
<1> HIDE DEF b
<1>2. KernelOK(b, R)
  BY <1>1 DEF KernelOK, QueuesOK, Queued
<1>3. CASE StaysRunning(k)
  <2>1. rt_schedule(k) = KeepCurrent(b) /\ b.stat[b.current] = "RUNNING"
    BY <1>1, <1>3 DEF rt_schedule, b, StaysRunning
  <2>2. /\ KernelOK(KeepCurrent(b), R)
        /\ KeepCurrent(b).stat[KeepCurrent(b).current] = "RUNNING"
    BY <1>2, <2>1, KeepCurrentOK
  <2>3. KeepCurrent(b).current = b.current
    <3>1. b.current \in Threads /\ QueuesOK(b) /\ ~Queued(b, b.current)
      BY <1>2, <2>1 DEF KernelOK, QueuesOK, Kernels
    <3>2. Removed(b, b.current, rt_schedule_remove_thread(b, b.current))
      BY <1>2, <3>1, RemoveThread DEF KernelOK
    <3> QED BY <3>2 DEF KeepCurrent, Removed, SameThreads, QueuesOK, Kernels
  <2> QED BY <1>1, <1>3, <2>1, <2>3
<1>4. CASE ~StaysRunning(k)
  <2>1. get_highest_priority_thread(b) = get_highest_priority_thread(k)
    BY <1>1 DEF get_highest_priority_thread, HighestReady
  <2>2. get_highest_priority_thread(k) # t
    BY HighestReadyOK
  <2>3. rt_schedule(k) = SwitchTo(b, get_highest_priority_thread(b))
    BY <1>4, <2>1, <2>2 DEF rt_schedule, b
  <2> QED BY <1>1, <1>2, <1>4, <2>1, <2>3, SwitchToOK
<1> QED BY <1>3, <1>4

\* The bits of the bitmap are the priorities of queued threads.
LEMMA ReadyQueued ==
  ASSUME NEW k, QueuesOK(k)
  PROVE  /\ \A p \in k.ready_group :
              \E y \in Threads : Queued(k, y) /\ k.current_priority[y] = p
         /\ \A y \in Threads : Queued(k, y) => k.current_priority[y] \in k.ready_group
<1>1. /\ k \in Kernels /\ k.ready_group = {p \in Prios : k.priority_table[p] # <<>>}
      /\ \A y \in Threads, p \in Prios :
           Linked(k.priority_table[p], y) => p = k.current_priority[y]
  BY DEF QueuesOK
<1>2. ASSUME NEW p \in k.ready_group
      PROVE  \E y \in Threads : Queued(k, y) /\ k.current_priority[y] = p
  <2>1. p \in Prios /\ k.priority_table[p] # <<>> /\ k.priority_table[p] \in Seq(Threads)
    BY <1>1 DEF Kernels
  <2>2. Head(k.priority_table[p]) \in Threads /\ Linked(k.priority_table[p], Head(k.priority_table[p]))
    BY <2>1, ListHead
  <2> QED BY <1>1, <2>1, <2>2 DEF Queued
<1>3. ASSUME NEW y \in Threads, Queued(k, y)
      PROVE  k.current_priority[y] \in k.ready_group
  <2>1. PICK p \in Prios : Linked(k.priority_table[p], y)
    BY <1>3 DEF Queued
  <2>2. k.priority_table[p] # <<>>
    BY <2>1 DEF Linked
  <2> QED BY <1>1, <2>1, <2>2
<1> QED BY <1>2, <1>3

\* After rt_schedule has run unlocked, the current thread is RUNNING and at
\* least as urgent as every thread left ready.
LEMMA SchedulesUrgent ==
  ASSUME NEW k, KernelOK(k, {}), k.lock_nest = 0,
         k.ready_group # {} \/ k.stat[k.current] = "RUNNING",
         NEW r, r = rt_schedule(k)
  PROVE  /\ r.stat[r.current] = "RUNNING"
         /\ \A p \in r.ready_group : r.current_priority[r.current] <= p
<1>1. /\ KernelOK(r, {}) /\ Rescheduled(k, r) /\ k.ready_group \subseteq Nat
      /\ r.stat[r.current] = "RUNNING" /\ k.current \in Threads
      /\ k.current_priority \in [Threads -> Nat]
  <2>1. KernelOK(r, {}) /\ Rescheduled(k, r)
    BY ScheduleOK
  <2>2. r.stat[r.current] = "RUNNING"
    BY ScheduleOK
  <2>3. k.ready_group \subseteq Prios /\ k.current_priority \in [Threads -> Prios] /\ Prios \subseteq Nat
    BY PrioMaxAssumption DEF KernelOK, QueuesOK, Kernels, Prios
  <2>4. k.current \in Threads
    BY DEF KernelOK, QueuesOK, Kernels
  <2>5. k.ready_group \subseteq Nat /\ k.current_priority \in [Threads -> Nat]
    BY <2>3
  <2> QED BY <2>1, <2>2, <2>4, <2>5
<1>2. CASE k.ready_group = {}
  BY <1>1, <1>2 DEF rt_schedule
<1>3. CASE k.ready_group # {}
  <2> DEFINE h == HighestReady(k)
  <2>1. /\ h \in k.ready_group /\ \A q \in k.ready_group : h <= q
        /\ k.current_priority[get_highest_priority_thread(k)] = h
    BY <1>3, HighestReadyOK
  <2>2. r.current = IF StaysRunning(k) THEN k.current ELSE get_highest_priority_thread(k)
    BY <1>3, ScheduleChoice
  <2>3. ASSUME NEW p \in r.ready_group
        PROVE  p \in k.ready_group \/ (p = k.current_priority[k.current]
                                         /\ k.stat[k.current] = "RUNNING")
    <3>1. PICK y \in Threads : Queued(r, y) /\ r.current_priority[y] = p
      BY <1>1, ReadyQueued DEF KernelOK
    <3>2. k.stat[y] \in {"READY", "RUNNING"} /\ k.current_priority[y] = p
      BY <1>1, <3>1 DEF KernelOK, Rescheduled
    <3>3. CASE k.stat[y] = "READY"
      <4>1. Queued(k, y) /\ QueuesOK(k)
        BY <3>3 DEF KernelOK
      <4> QED BY <3>2, <4>1, ReadyQueued
    <3>4. CASE k.stat[y] = "RUNNING"
      BY <3>2, <3>4 DEF KernelOK
    <3> QED BY <3>2, <3>3, <3>4
  <2> HIDE DEF h
  <2>4. CASE StaysRunning(k)
    <3>1. k.current_priority[k.current] <= h
      BY <1>1, <2>1, <2>4 DEF StaysRunning, h
    <3>2. \A q \in k.ready_group : k.current_priority[k.current] <= q
      BY <1>1, <2>1, <3>1
    <3> QED BY <1>1, <2>2, <2>3, <2>4, <3>2 DEF Rescheduled
  <2>5. CASE ~StaysRunning(k)
    <3>1. r.current_priority[r.current] = h
      BY <1>1, <2>1, <2>2, <2>5 DEF Rescheduled
    <3>2. k.stat[k.current] = "RUNNING" => h <= k.current_priority[k.current]
      BY <1>1, <2>1, <2>5 DEF StaysRunning, h
    <3> QED BY <1>1, <2>1, <2>3, <3>1, <3>2
  <2> QED BY <2>4, <2>5
<1> QED BY <1>2, <1>3
=============================================================================

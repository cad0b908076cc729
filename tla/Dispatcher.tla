----------------------------- MODULE Dispatcher -----------------------------
(***************************************************************************)
(* What the scheduler promises: the ready threads of each priority wait in *)
(* a queue that they join at its tail and leave, for the processor, at its *)
(* head; the running thread gives way to a more urgent one, or to an equal *)
(* one when its turn is over.  A step may leave the decision to a later    *)
(* one: a caller schedules after it has changed something, and not while   *)
(* the scheduler is locked.                                                *)
(***************************************************************************)
EXTENDS Lists

CONSTANTS Threads, Prios

VARIABLE cpu   \* [urgency, waiting, running, mode, over]

Cpus ==
  [urgency : [Threads -> Prios],
   waiting : [Prios -> Seq(Threads)],   \* a queue for each priority
   running : Threads,
   mode : {"runs", "blocked"},          \* whether the running thread can go on
   over : SUBSET Threads]               \* the threads whose turn is over

\* One other thread is ready when the first one starts to run.
CpuInit ==
  /\ cpu \in Cpus /\ cpu.mode = "runs" /\ cpu.over = {}
  /\ \E t \in Threads \ {cpu.running} :
       cpu.waiting = [p \in Prios |-> IF p = cpu.urgency[t] THEN <<t>> ELSE <<>>]

-----------------------------------------------------------------------------
(* What can happen to a thread.                                            *)

Waits(c, t) == \E p \in Prios : Linked(c.waiting[p], t)

Left(c, t) == [c EXCEPT !.waiting = [p \in Prios |-> rt_list_remove(c.waiting[p], t)]]
Joined(c, t) == [c EXCEPT !.waiting[c.urgency[t]] = Append(@, t)]

\* A thread that waits already loses its place.
Woken(c, t) == IF t = c.running THEN [c EXCEPT !.mode = "runs"] ELSE Joined(Left(c, t), t)

Blocked(c, t) == IF t = c.running THEN [c EXCEPT !.mode = "blocked"] ELSE Left(c, t)

\* A thread that waits goes to the tail of its new queue.
Urged(c, t, p) ==
  LET u == [Left(c, t) EXCEPT !.urgency[t] = p]
  IN  IF Waits(c, t) THEN Joined(u, t) ELSE u

TurnOver(c) == [c EXCEPT !.over = @ \cup {c.running}]
TurnBegins(c, t) == [c EXCEPT !.over = @ \ {t}]

-----------------------------------------------------------------------------
(* The decision.                                                           *)

MostUrgent(c) ==
  CHOOSE p \in Prios : c.waiting[p] # <<>> /\ \A q \in Prios : c.waiting[q] # <<>> => p <= q

\* A thread of priority p takes over from the running one.
TakesOver(c, p) ==
  \/ c.mode = "blocked"
  \/ p < c.urgency[c.running]
  \/ p = c.urgency[c.running] /\ c.running \in c.over

\* The first of the most urgent queue runs; the one that has run joins the
\* tail of its own, with a new turn, if it could have gone on.
Switched(c) ==
  LET p == MostUrgent(c)
      rest == [c EXCEPT !.running = Head(c.waiting[p]), !.mode = "runs",
                        !.waiting = [c.waiting EXCEPT ![p] = Tail(@)]]
  IN  IF c.mode = "runs" THEN TurnBegins(Joined(rest, c.running), c.running) ELSE rest

\* The decision taken: a thread that stays gets a new turn.
Decided(c) ==
  IF \E p \in Prios : c.waiting[p] # <<>> /\ TakesOver(c, p)
    THEN Switched(c)
    ELSE IF c.mode = "runs" THEN TurnBegins(c, c.running) ELSE c

\* The decision taken or put off.
Settled(c) == {c, Decided(c)}

-----------------------------------------------------------------------------

Wake(t) == cpu' \in Settled(Woken(cpu, t))
Block(t) == cpu' \in Settled(Blocked(cpu, t))
End(t) == cpu' \in Settled(TurnBegins(Blocked(cpu, t), t))
SetUrgency(t, p) == cpu' = Urged(cpu, t, p)

\* A thread that nobody has scheduled yet.
New(t) == t # cpu.running /\ ~Waits(cpu, t)
Create(t, p) == New(t) /\ cpu' = TurnBegins(Urged(cpu, t, p), t)
Start(t, p) == New(t) /\ cpu' = Woken(TurnBegins(Urged(cpu, t, p), t), t)

EndTurn == cpu' \in Settled(TurnOver(cpu))
Decide == cpu' = Decided(cpu)

CpuNext ==
  \/ \E t \in Threads :
       \/ Wake(t) \/ Block(t) \/ End(t)
       \/ \E p \in Prios : SetUrgency(t, p) \/ Create(t, p) \/ Start(t, p)
  \/ EndTurn \/ Decide

CpuSpec == CpuInit /\ [][CpuNext]_cpu
=============================================================================

----------------------------- MODULE TimerList -----------------------------
(***************************************************************************)
(* The timer list of timer.c as pure operators.  A timer base is a record  *)
(*   list    : the lowest row of the skip list, in firing order;           *)
(*   timeout : timer->timeout_tick, an absolute tick;                      *)
(*   init    : timer->init_tick, the programmed duration;                  *)
(*   act     : the timers whose RT_TIMER_FLAG_ACTIVATED is set.            *)
(* The lowest row alone decides which timer is found first; the upper rows *)
(* (RT_TIMER_SKIP_LIST_LEVEL > 1) only shorten the search.  Ticks are      *)
(* unsigned machine words: every difference is taken modulo TickMod.       *)
(***************************************************************************)
EXTENDS Lists

CONSTANT TickMod    \* RT_TICK_MAX + 1: the number of values of rt_tick_t

ASSUME TickModAssumption == TickMod \in Nat /\ TickMod >= 4

Ticks == 0 .. (TickMod - 1)

RT_TICK_MAX == TickMod - 1

\* a - b on rt_tick_t.
Diff(a, b) == (a - b) % TickMod

\* "(current_tick - t->timeout_tick) < RT_TICK_MAX / 2".
Expired(now, timeout) == Diff(now, timeout) < RT_TICK_MAX \div 2

\* The durations rt_timer_init and RT_TIMER_CTRL_SET_TIME accept.
Durations == {d \in Ticks : d < RT_TICK_MAX \div 2}

\* The bases whose timers are the elements of X.
Bases(X) == [list : Seq(X), timeout : [X -> Ticks], init : [X -> Durations], act : SUBSET X]

\* Mutant: a timer that times out at the same tick stops the scan.
LaterOrEqual(tb, x, timeout) == Diff(tb.timeout[x], timeout) < RT_TICK_MAX \div 2

\* The scan of rt_timer_start stops before the first timer that times out
\* strictly later; timers with an equal timeout_tick are passed.
Later(tb, x, timeout) ==
  LET d == Diff(tb.timeout[x], timeout) IN d # 0 /\ d < RT_TICK_MAX \div 2

\* Mutant: timeouts are compared as numbers.
InsertByValue(tb, s, timeout) ==
  LET later == {i \in DOMAIN s : tb.timeout[s[i]] > timeout}
  IN  IF later = {} THEN Len(s) + 1
                    ELSE CHOOSE i \in later : \A j \in later : i <= j

InsertPosition(tb, s, timeout) ==
  LET later == {i \in DOMAIN s : Later(tb, s[i], timeout)}
  IN  IF later = {} THEN Len(s) + 1
                    ELSE CHOOSE i \in later : \A j \in later : i <= j

timer_remove(tb, x) == [tb EXCEPT !.list = rt_list_remove(@, x)]

\* rt_timer_start: remove, recompute timeout_tick, insert in order, activate.
rt_timer_start(tb, x, now) ==
  LET timeout == (now + tb.init[x]) % TickMod
      s == rt_list_remove(tb.list, x)
  IN  [tb EXCEPT !.list = InsertAt(s, InsertPosition(tb, s, timeout), x),
                 !.timeout[x] = timeout,
                 !.act = @ \cup {x}]

\* rt_timer_stop returns -RT_ERROR and changes nothing if not activated.
rt_timer_stop(tb, x) ==
  IF x \in tb.act
    THEN [timer_remove(tb, x) EXCEPT !.act = @ \ {x}]
    ELSE tb

\* Mutant: the timer is marked inactive but stays linked.
DetachStaysLinked(tb, x) == [tb EXCEPT !.act = @ \ {x}]

rt_timer_detach(tb, x) == [timer_remove(tb, x) EXCEPT !.act = @ \ {x}]

\* RT_TIMER_CTRL_SET_TIME.
timer_set_time(tb, x, d) == [tb EXCEPT !.init[x] = d]

\* _timer_init: flags cleared, timeout_tick 0, row unlinked.
timer_init(tb, x, d) ==
  [tb EXCEPT !.timeout[x] = 0, !.init[x] = d, !.act = @ \ {x}]

\* Mutant: a timer that times out exactly now is not taken.
HeadOverdue(tb, now) ==
  /\ tb.list # <<>>
  /\ now # tb.timeout[Head(tb.list)] /\ Expired(now, tb.timeout[Head(tb.list)])

\* The head of the list has timed out: rt_timer_check takes it.
HeadExpired(tb, now) ==
  tb.list # <<>> /\ Expired(now, tb.timeout[Head(tb.list)])
=============================================================================

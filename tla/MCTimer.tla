------------------------------ MODULE MCTimer ------------------------------
EXTENDS Timer

(* Fields nobody reads any more do not distinguish states: the timeout of  *)
(* a timer that is not linked, which rt_timer_start overwrites, and a      *)
(* next_timeout that has been used.                                        *)
Linking(tb) == [t \in {tb.list[i] : i \in DOMAIN tb.list} |-> tb.timeout[t]]

View == <<hard.list, hard.act, hard.init, soft.list, soft.act, soft.init,
          Linking(hard), Linking(soft), rt_tick, made, periodic, check,
          scall, slist, status, stat, pc,
          IF pc \in {"delay", "sleep"} THEN next_timeout ELSE 0, blocked, stopped>>
=============================================================================

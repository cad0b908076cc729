------------------------------- MODULE HwTimer -------------------------------
(***************************************************************************)
(* A hardware timer: hwtimer.c above the driver drv_hwtimer.c and the      *)
(* counter.  Time is counted in ticks of the counter.  Interrupts are      *)
(* taken between the calls of the one thread that has opened the device    *)
(* (it is stand-alone), and every handler ends within a period.            *)
(***************************************************************************)
EXTENDS Integers, FiniteSetsExt

CONSTANTS
  MaxCnt,      \* info->maxcnt
  Asks,        \* the times asked for; a deviation of one second is out of reach
  MaxOverflow, \* bound of timer->overflow
  HwUses       \* of "freq_late", "mode_running"

ASSUME HwAssumption == MaxCnt \in Nat \ {0} /\ MaxOverflow \in Nat /\ Asks \subseteq Nat

VARIABLES
  tim,       \* rt_hwtimer_t: mode, cycles, reload, overflow, and the period in ticks
  reg,       \* the counter: running, single (one pulse), cnt, uif (update flag)
  hpc,       \* "thread", or "handler" after the body of the interrupt handler
  hopen,     \* the device is open
  callback,  \* rx_indicate is set
  asked,     \* history: the time asked for by the write that runs, or -1
  elapsed, rings  \* history: ticks and calls of rx_indicate since then

hw_vars == <<tim, reg, hpc, hopen, callback, asked, elapsed, rings>>

HwInit ==
  /\ tim = [mode |-> "oneshot", cycles |-> 0, reload |-> 0, overflow |-> 0, period |-> 1]
  /\ reg = [running |-> FALSE, single |-> FALSE, cnt |-> 0, uif |-> FALSE]
  /\ hpc = "thread" /\ hopen = FALSE /\ callback = FALSE
  /\ asked = -1 /\ elapsed = 0 /\ rings = 0

\* The update flag interrupts a thread at once.
HwThread == hpc = "thread" /\ ~reg.uif
Unasked == asked' = -1 /\ elapsed' = 0 /\ rings' = 0

-----------------------------------------------------------------------------
(* timeout_calc: how often the counter has to run down for n ticks.        *)
Deviation(n, i) == n % i

\* The numbers of cycles are tried from the smallest one that fits, until one
\* is exact, or worse than the best one before.
Cycles(n) ==
  IF n = 0 THEN 0
  ELSE LET fits == {i \in 1..n : n <= i * MaxCnt}
           worse(i) == \E j \in fits : j < i /\ Deviation(n, j) < Deviation(n, i)
           end == Min({i \in fits : Deviation(n, i) = 0 \/ worse(i)})
           tried == {i \in fits : i <= end}
       IN  Min({i \in tried : \A j \in tried : Deviation(n, i) <= Deviation(n, j)})

PeriodOf(n) == IF n = 0 THEN 1 ELSE n \div Cycles(n)

-----------------------------------------------------------------------------
(* The thread's calls. *)

\* rt_hwtimer_init, which clears the flag that the initialisation of the
\* counter has set, and rt_hwtimer_open, whose FREQ_SET sets it again.
HwOpen ==
  /\ HwThread /\ ~hopen
  /\ tim' = [tim EXCEPT !.mode = "oneshot", !.cycles = 0, !.overflow = 0]
  /\ reg' = [reg EXCEPT !.cnt = 0, !.uif = TRUE]
  /\ hopen' = TRUE
  /\ UNCHANGED <<hpc, callback, asked, elapsed, rings>>

\* rt_device_set_rx_indicate.
HwSetIndicate ==
  /\ HwThread /\ hopen /\ ~reg.running
  /\ callback' = TRUE /\ Unasked
  /\ UNCHANGED <<tim, reg, hpc, hopen>>

\* The driver's init function does nothing for a close: the counter runs on.
HwClose ==
  /\ HwThread /\ hopen
  /\ hopen' = FALSE /\ callback' = FALSE /\ Unasked
  /\ UNCHANGED <<tim, reg, hpc>>

\* The immediate reload of the prescaler is an update event.
HwFreqSet ==
  /\ HwThread /\ hopen /\ ~reg.running
  /\ callback => "freq_late" \in HwUses
  /\ tim.overflow < MaxOverflow
  /\ reg' = [reg EXCEPT !.cnt = 0, !.uif = TRUE]
  /\ Unasked
  /\ UNCHANGED <<tim, hpc, hopen, callback>>

\* The mode is the framework's, the counter's does not follow.
HwModeSet(m) ==
  /\ HwThread /\ hopen
  /\ reg.running => "mode_running" \in HwUses
  /\ tim' = [tim EXCEPT !.mode = m]
  /\ IF reg.running THEN UNCHANGED <<asked, elapsed, rings>> ELSE Unasked
  /\ UNCHANGED <<reg, hpc, hopen, callback>>

HwStop ==
  /\ HwThread /\ hopen
  /\ reg' = [reg EXCEPT !.running = FALSE, !.cnt = 0]
  /\ Unasked
  /\ UNCHANGED <<tim, hpc, hopen, callback>>

\* rt_hwtimer_write stops the counter, sets up the cycles, and starts it; also
\* from the callback, on the interrupt's stack.
HwWrite(n) ==
  /\ hopen /\ (HwThread \/ (hpc = "handler" /\ callback /\ rings > 0))
  /\ tim' = [tim EXCEPT !.overflow = 0, !.cycles = Cycles(n), !.reload = Cycles(n),
                        !.period = PeriodOf(n)]
  /\ reg' = [reg EXCEPT !.running = TRUE, !.cnt = 0,
                        !.single = (Cycles(n) <= 1 /\ tim.mode = "oneshot")]
  /\ asked' = n /\ elapsed' = 0 /\ rings' = 0
  /\ UNCHANGED <<hpc, hopen, callback>>

-----------------------------------------------------------------------------
(* The counter and its interrupt. *)

\* No update while the one before is handled.
HwCount ==
  /\ reg.running /\ tim.overflow < MaxOverflow
  /\ reg.cnt + 1 = tim.period => ~reg.uif
  /\ reg' = IF reg.cnt + 1 < tim.period THEN [reg EXCEPT !.cnt = @ + 1]
            ELSE [reg EXCEPT !.cnt = 0, !.uif = TRUE, !.running = ~reg.single]
  /\ elapsed' = (IF asked = -1 THEN 0 ELSE elapsed + 1)
  /\ UNCHANGED <<tim, hpc, hopen, callback, asked, rings>>

\* Mutant: the cycles are not reloaded after the last one.
CyclesRunOut == Max({0, tim.cycles - 1})

CyclesLeft == IF tim.cycles <= 1 THEN tim.reload ELSE tim.cycles - 1

\* rt_device_hwtimer_isr.
HwIsr ==
  /\ hpc = "thread" /\ reg.uif
  /\ LET last == tim.cycles <= 1
     IN  /\ tim' = [tim EXCEPT !.overflow = @ + 1, !.cycles = CyclesLeft]
         /\ reg' = IF last /\ tim.mode = "oneshot"
                   THEN [reg EXCEPT !.running = FALSE, !.cnt = 0] ELSE reg
         /\ rings' = (IF last /\ callback THEN rings + 1 ELSE rings)
  /\ hpc' = "handler"
  /\ UNCHANGED <<hopen, callback, asked, elapsed>>

\* The driver clears the flag last.
HwIsrEnd ==
  /\ hpc = "handler"
  /\ reg' = [reg EXCEPT !.uif = FALSE] /\ hpc' = "thread"
  /\ UNCHANGED <<tim, hopen, callback, asked, elapsed, rings>>

-----------------------------------------------------------------------------
HwNext ==
  \/ HwOpen \/ HwSetIndicate \/ HwClose \/ HwFreqSet \/ HwStop
  \/ \E m \in {"oneshot", "period"} : HwModeSet(m)
  \/ \E n \in Asks : HwWrite(n)
  \/ HwCount \/ HwIsr \/ HwIsrEnd

HwSpec == HwInit /\ [][HwNext]_hw_vars

-----------------------------------------------------------------------------
Whole == Max({1, tim.reload}) * tim.period

(* The callback is not called before a write or after a stop or a close.   *)
(* After a write it is called each time the time asked for has passed,     *)
(* short of it by less than one tick for each cycle; once, and the counter *)
(* stops, for a one-shot timer; and while it runs rt_hwtimer_read gives    *)
(* the time since the write (hwtimer.c:85-93, 192-204, 367-395).           *)
HwOnTime ==
  /\ asked = -1 => rings = 0
  /\ asked >= 0 /\ HwThread =>
    /\ Whole <= Max({1, asked}) /\ asked - Whole < Max({1, tim.reload})
    /\ reg.running => tim.overflow * tim.period + reg.cnt = elapsed
    /\ callback => rings = elapsed \div Whole
    /\ tim.mode = "oneshot" => reg.running = (elapsed < Whole)
    /\ tim.mode = "period" => reg.running
=============================================================================

--------------------------------- MODULE Pwm ---------------------------------
(***************************************************************************)
(* The PWM outputs of one timer: rt_drv_pwm.c above the driver drv_pwm.c.  *)
(* The channels share the counter, and with it the period; times are in    *)
(* nanoseconds, pulses so short that pulse * 100 fits a word.              *)
(***************************************************************************)
EXTENDS Integers, FiniteSetsExt

CONSTANTS
  Channels,   \* of 1..4, those asked for
  Wired,      \* the ones that are not FLAG_NOT_INIT
  PwmClock,   \* what RCC_GetClocksFreq says of HCLK
  Periods, Pulses,
  PwmUses     \* of "periods", "write_first"

SECOND == 1000000000

\* The clock is below 1 GHz; a period of 0 is a division by zero.
ASSUME PwmAssumption ==
  /\ Channels \subseteq 1..4 /\ Wired \subseteq Channels
  /\ PwmClock \in Nat \ {0} /\ PwmClock <= SECOND
  /\ Periods \subseteq Nat \ {0} /\ Pulses \subseteq Nat

VARIABLES
  arr, psc,   \* counts in a period, and the prescaler: the registers plus one
  ccr,        \* the compare register of each channel, plus one
  cce,        \* the channels whose output is enabled
  cen, moe,   \* the counter and the main output are enabled
  wanted,     \* history: the last successful rt_pwm_set or write of a channel
  wanted_on   \* history: the channels enabled and not disabled since

pwm_vars == <<arr, psc, ccr, cce, cen, moe, wanted, wanted_on>>

MAX_COUNTER == 65535
MIN_COUNTER == 2
MIN_PULSE == 2
Reg16(n) == ((n - 1) % 65536) + 1
Unset == [period |-> 0, pulse |-> 0]

\* The registers after a reset of the chip.
PwmInit ==
  /\ arr = 65536 /\ psc = 1
  /\ ccr = [c \in Channels |-> 1] /\ cce = {}
  /\ cen = FALSE /\ moe = FALSE
  /\ wanted = [c \in Channels |-> Unset] /\ wanted_on = {}

-----------------------------------------------------------------------------
(* From times to counts. *)

\* Mutant: the prescaler is not rounded up.
PrescalerDown(f) ==
  IF PwmClock \div f <= MAX_COUNTER THEN 1 ELSE Max({1, (PwmClock \div 65536) \div f})

\* The smallest division for which a period should fit the counter.
Prescaler(f) ==
  LET c == PwmClock \div 65536
  IN  IF PwmClock \div f <= MAX_COUNTER THEN 1
      ELSE IF c % f = 0 THEN c \div f ELSE c \div f + 1

Counts(f) == (PwmClock \div Prescaler(f)) \div f

\* Whole percents of the period.
PulseCounts(period, pulse, counts) == (((pulse * 100) \div period) * counts) \div 100

-----------------------------------------------------------------------------
\* ch32_pwm_device_get.
Frequency == (PwmClock \div psc) \div arr
Percent(c) == (ccr[c] * 100) \div arr
PwmGet(c) ==
  LET p == SECOND \div Frequency IN [period |-> p, pulse |-> (Percent(c) * p) \div 100]

\* ch32_pwm_device_set: the time base of all channels, before the channel is
\* looked at; then that channel, whose output it also enables.
PwmDeviceSet(c, cfg) ==
  LET f == SECOND \div cfg.period
      n == Counts(f)
  IN  /\ arr' = Reg16(Max({n, MIN_COUNTER})) /\ psc' = Reg16(Prescaler(f))
      /\ IF c \in Channels
         THEN /\ ccr' = [ccr EXCEPT ![c] =
                   Reg16(Max({PulseCounts(cfg.period, cfg.pulse, n), MIN_PULSE}))]
              /\ cce' = cce \cup {c} /\ moe' = TRUE
              /\ wanted' = [wanted EXCEPT ![c] = cfg]
         ELSE UNCHANGED <<ccr, cce, moe, wanted>>
      /\ UNCHANGED <<cen, wanted_on>>

\* The callers know that the channels have one period.
Agreed(c, period) ==
  "periods" \in PwmUses \/ \A x \in Channels \ {c} : wanted[x] \in {Unset} \cup
                              [period : {period}, pulse : Pulses]

\* Channel 0 is none of the four: an error.
rt_pwm_set(c, period, pulse) ==
  /\ Agreed(c, period) /\ pulse <= period
  /\ PwmDeviceSet(c, [period |-> period, pulse |-> pulse])

\* The period is what the registers say.
PwmWrite(c, pulse) ==
  /\ "write_first" \in PwmUses \/ \E x \in Channels : wanted[x] # Unset
  /\ pulse <= PwmGet(c).period /\ Agreed(c, PwmGet(c).period)
  /\ PwmDeviceSet(c, [PwmGet(c) EXCEPT !.pulse = pulse])

\* ch32_pwm_device_enable, for either state: the counter is started.
rt_pwm_enable(c, enable) ==
  /\ c \in Wired
  /\ cce' = IF enable THEN cce \cup {c} ELSE cce \ {c}
  /\ wanted_on' = IF enable THEN wanted_on \cup {c} ELSE wanted_on \ {c}
  /\ cen' = TRUE
  /\ UNCHANGED <<arr, psc, ccr, moe, wanted>>

-----------------------------------------------------------------------------
PwmNext ==
  \/ \E c \in Channels \cup {0}, period \in Periods, pulse \in Pulses :
       rt_pwm_set(c, period, pulse)
  \/ \E c \in Channels, pulse \in Pulses : PwmWrite(c, pulse)
  \/ \E c \in Channels, enable \in BOOLEAN : rt_pwm_enable(c, enable)

PwmSpec == PwmInit /\ [][PwmNext]_pwm_vars

-----------------------------------------------------------------------------
(* A channel that is set has the frequency that was set, whatever was set  *)
(* on the others since, its pulse is right to one percent, and its output  *)
(* runs if it is enabled: "if arr_counter over 65536, need div" of the     *)
(* clock "and round up the prescaler value" (drv_pwm.c:857-875).           *)
PwmAsSet ==
  \A c \in Channels : wanted[c] # Unset =>
    /\ Frequency = SECOND \div wanted[c].period
    /\ Percent(c) - ((wanted[c].pulse * 100) \div wanted[c].period) \in {-1, 0, 1}
    /\ c \in wanted_on => c \in cce /\ cen /\ moe
=============================================================================

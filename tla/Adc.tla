--------------------------------- MODULE Adc ---------------------------------
(***************************************************************************)
(* An analogue-to-digital converter: adc.c above the driver drv_adc.c.     *)
(* A read is a sequence of register accesses that nothing protects.        *)
(***************************************************************************)
EXTENDS Integers

CONSTANTS
  AdcThreads,
  Inputs,    \* the channel numbers asked for
  none,
  AdcTurns   \* the threads take turns

VARIABLES
  on,        \* ADC_Cmd
  selected,  \* the channel of the regular sequence
  busy,      \* the channel that is converted
  dr, eoc,   \* the data register, as the channel it holds, and the flag
  apc,       \* where each thread is in its call
  pos, rest, \* the channel to convert, and the conversions after it
  value,     \* where the next result goes: here the last result
  result     \* history: the channels asked for, and those the values are of

adc_vars == <<on, selected, busy, dr, eoc, apc, pos, rest, value, result>>

AdcInit ==
  /\ on = FALSE /\ selected = none /\ busy = none /\ dr = none /\ eoc = FALSE
  /\ apc = [t \in AdcThreads |-> "idle"]
  /\ pos = [t \in AdcThreads |-> none] /\ rest = [t \in AdcThreads |-> 0]
  /\ value = [t \in AdcThreads |-> none]
  /\ result = [t \in AdcThreads |-> none]

AdcBegin(t) == apc[t] = "idle" /\ (AdcTurns => \A x \in AdcThreads : apc[x] = "idle")
AdcGoto(t, l) == apc' = [apc EXCEPT ![t] = l]
Call == <<pos, rest, value, result>>

-----------------------------------------------------------------------------
\* rt_adc_enable and rt_adc_disable, or _adc_control: the whole converter,
\* whatever the channel.
AdcEnabled(t, enable) ==
  /\ AdcBegin(t)
  /\ on' = enable /\ busy' = IF enable THEN busy ELSE none
  /\ UNCHANGED <<selected, dr, eoc, apc, Call>>

\* rt_adc_read converts once, _adc_read n times, four channels apart.
AdcRead(t, c, n) ==
  /\ AdcBegin(t) /\ (AdcTurns => on)
  /\ pos' = [pos EXCEPT ![t] = c] /\ rest' = [rest EXCEPT ![t] = n - 1]
  /\ value' = [value EXCEPT ![t] = none] /\ result' = [result EXCEPT ![t] = none]
  /\ AdcGoto(t, "convert")
  /\ UNCHANGED <<on, selected, busy, dr, eoc>>

\* ch32_get_adc_value: a channel that does not exist is an error.
AdcSelect(t) ==
  /\ apc[t] = "convert"
  /\ IF pos[t] <= 17 /\ pos[t] # 16 THEN selected' = pos[t] /\ AdcGoto(t, "start")
     ELSE AdcGoto(t, "idle") /\ UNCHANGED selected
  /\ UNCHANGED <<on, busy, dr, eoc, Call>>

AdcStart(t) ==
  /\ apc[t] = "start"
  /\ busy' = IF on THEN selected ELSE busy
  /\ AdcGoto(t, "wait")
  /\ UNCHANGED <<on, selected, dr, eoc, Call>>

\* The converter.
AdcConvert ==
  /\ busy # none
  /\ dr' = busy /\ eoc' = TRUE /\ busy' = none
  /\ UNCHANGED <<on, selected, apc, Call>>

\* Mutant: the end of the conversion is not awaited.
WaitNot(t) ==
  apc[t] = "wait" /\ AdcGoto(t, "get") /\ UNCHANGED <<on, selected, busy, dr, eoc, Call>>

\* The busy wait.
AdcWait(t) ==
  /\ apc[t] = "wait" /\ eoc /\ AdcGoto(t, "get")
  /\ UNCHANGED <<on, selected, busy, dr, eoc, Call>>

AdcGet(t) ==
  /\ apc[t] = "get" /\ AdcGoto(t, "clear")
  /\ value' = [value EXCEPT ![t] = dr]
  /\ result' = [result EXCEPT ![t] = pos[t]]
  /\ eoc' = FALSE
  /\ UNCHANGED <<on, selected, busy, dr, pos, rest>>

\* ADC_ClearFlag, and the next conversion.
AdcClear(t) ==
  /\ apc[t] = "clear" /\ eoc' = FALSE
  /\ IF rest[t] = 0 THEN AdcGoto(t, "idle") /\ UNCHANGED <<pos, rest>>
     ELSE /\ AdcGoto(t, "convert")
          /\ pos' = [pos EXCEPT ![t] = @ + 4] /\ rest' = [rest EXCEPT ![t] = @ - 1]
  /\ UNCHANGED <<on, selected, busy, dr, value, result>>

-----------------------------------------------------------------------------
AdcNext ==
  \/ AdcConvert
  \/ \E t \in AdcThreads :
       \/ \E enable \in BOOLEAN : AdcEnabled(t, enable)
       \/ \E c \in Inputs, n \in {1, 2} : AdcRead(t, c, n)
       \/ AdcSelect(t) \/ AdcStart(t) \/ AdcWait(t) \/ AdcGet(t) \/ AdcClear(t)

AdcSpec == AdcInit /\ [][AdcNext]_adc_vars

-----------------------------------------------------------------------------
(* A value that a read returns is a conversion of the channel it asked for *)
(* (drv_adc.c:185-205), and no conversion is left behind for the next read *)
(* to take for its own.                                                    *)
AdcRight ==
  /\ \A t \in AdcThreads : apc[t] = "clear" => value[t] = result[t]
  /\ (\A t \in AdcThreads : apc[t] = "idle") => ~eoc /\ busy = none
=============================================================================

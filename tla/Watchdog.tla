------------------------------ MODULE Watchdog ------------------------------
(***************************************************************************)
(* The independent watchdog: watchdog.c above the driver drv_iwdt.c.       *)
(* Timeouts are in seconds, so short that timeout * LSI_VALUE fits a word. *)
(***************************************************************************)
EXTENDS Integers

CONSTANTS
  LSI_VALUE,
  Timeouts,
  TryTooLong   \* timeouts that the driver refuses are asked for

ASSUME WatchdogAssumption ==
  /\ LSI_VALUE \in Nat /\ LSI_VALUE >= 256
  /\ Timeouts \subseteq Nat \ {0}

VARIABLES
  reload,      \* the driver's reload value
  is_start,
  rlr,         \* the reload register
  counter,     \* what the counter was last loaded with
  agreed, fed  \* history: the last timeout that was accepted, or 0, and the one
               \* a running watchdog was last reloaded with, or -1

wdt_vars == <<reload, is_start, rlr, counter, agreed, fed>>

FULL == 4095

\* rt_hw_wdt_init.
WdtInit ==
  /\ reload = FULL /\ is_start = FALSE
  /\ rlr = FULL /\ counter = FULL /\ agreed = 0 /\ fed = -1

ReloadOf(timeout) == (timeout * LSI_VALUE) \div 256

\* RT_DEVICE_CTRL_WDT_GET_TIMEOUT.
GetTimeout == (reload * 256) \div LSI_VALUE

-----------------------------------------------------------------------------
\* Mutant: a running watchdog keeps its reload register.
SetNotRunning(timeout) ==
  /\ TryTooLong \/ ReloadOf(timeout) <= FULL
  /\ reload' = ReloadOf(timeout)
  /\ agreed' = IF ReloadOf(timeout) <= FULL THEN timeout ELSE agreed
  /\ UNCHANGED <<is_start, rlr, counter, fed>>

\* The value is stored before it is checked.
WdtSetTimeout(timeout) ==
  /\ TryTooLong \/ ReloadOf(timeout) <= FULL
  /\ reload' = ReloadOf(timeout)
  /\ IF ReloadOf(timeout) > FULL THEN UNCHANGED <<rlr, agreed>>
     ELSE /\ agreed' = timeout
          /\ rlr' = IF is_start THEN reload' ELSE rlr
  /\ UNCHANGED <<is_start, counter, fed>>

\* The register has 12 bits.
WdtStart ==
  /\ rlr' = reload % (FULL + 1) /\ is_start' = TRUE
  /\ UNCHANGED <<reload, counter, agreed, fed>>

WdtKeepAlive ==
  /\ counter' = rlr /\ fed' = IF is_start THEN agreed ELSE -1
  /\ UNCHANGED <<reload, is_start, rlr, agreed>>

\* rt_watchdog_close asks for a stop, which is refused: nothing changes.

WdtNext ==
  (\E timeout \in Timeouts : WdtSetTimeout(timeout)) \/ WdtStart \/ WdtKeepAlive

WdtSpec == WdtInit /\ [][WdtNext]_wdt_vars

-----------------------------------------------------------------------------
(* A running watchdog is reloaded with the timeout that was last accepted, *)
(* whether it was set before or after the start, and that is the one       *)
(* reported, to a second (drv_iwdt.c:60-107).                              *)
WdtAsSet ==
  LET Count(timeout) == IF timeout = 0 THEN FULL ELSE ReloadOf(timeout)
  IN
  /\ is_start => rlr = Count(agreed)
  /\ fed # -1 => counter = Count(fed)
  /\ agreed # 0 => GetTimeout \in {agreed - 1, agreed}
=============================================================================

------------------------------- MODULE SpiBus -------------------------------
(***************************************************************************)
(* An SPI bus with its devices: spi_core.c above the driver drv_spi.c.     *)
(* The bus has a recursive mutex and remembers the device it is configured *)
(* for (its owner); the chip select of a device is driven by the flags of  *)
(* the messages.  The configuration of a device is written without the     *)
(* lock.  A thread holds the lock for one call, or for a session between   *)
(* rt_spi_take_bus and rt_spi_release_bus.                                 *)
(***************************************************************************)
EXTENDS Integers, Sequences

CONSTANTS
  SpiThreads, SpiDevs, nobody,
  SpiConfigs,     \* what rt_spi_configure is called with (see Valid)
  EmptyMessages,  \* messages of length 0 occur in lists
  SharedDevices   \* a device is configured while another thread uses it

ASSUME SpiAssumption ==
  /\ nobody \notin SpiThreads \cup SpiDevs
  /\ SharedDevices \in BOOLEAN /\ EmptyMessages \in BOOLEAN

VARIABLES
  config,    \* device->config of each device
  owner,     \* bus->owner
  lock,      \* bus->lock: the thread that holds it and how often
  hw,        \* the configuration of the last SPI_Init
  enabled,   \* SPI_Cmd
  low,       \* the devices whose chip select is low
  spc,       \* where each thread is in its call
  sdev,      \* the device of its call or session
  msgs       \* the messages it has still to transfer

spi_vars == <<config, owner, lock, hw, enabled, low, spc, sdev, msgs>>

\* The configuration that attaching a device leaves is all zeros: a data width
\* of 0 is refused by the driver (RT_EIO).
Valid(c) == c # "zero"
NoCs(c) == c = "nocs"
ThreeWire(c) == c = "3wire"

SpiInit ==
  /\ config = [d \in SpiDevs |-> "zero"] /\ owner = nobody
  /\ lock = [by |-> nobody, count |-> 0]
  /\ hw = "zero" /\ enabled = FALSE /\ low = {}
  /\ spc = [t \in SpiThreads |-> "idle"] /\ sdev = [t \in SpiThreads |-> nobody]
  /\ msgs = [t \in SpiThreads |-> <<>>]

SpiIdle(t) == spc[t] = "idle"
CanLock(t) == lock.by \in {nobody, t}
InSession(t) == lock.by = t
Take(t) == lock' = [by |-> t, count |-> lock.count + 1]
Release(t) ==
  lock' = IF lock.count = 1 THEN [by |-> nobody, count |-> 0]
          ELSE [lock EXCEPT !.count = @ - 1]

\* Each thread has its own device, or waits until nobody uses it.
Mine(t, d) ==
  /\ InSession(t) => sdev[t] = d
  /\ SharedDevices \/ \A x \in SpiThreads \ {t} : sdev[x] = d => SpiIdle(x) /\ ~InSession(x)

\* ops->configure: nothing reaches the hardware if it fails.
Configure(d) ==
  IF Valid(config[d]) THEN hw' = config[d] /\ enabled' = TRUE
  ELSE UNCHANGED <<hw, enabled>>

-----------------------------------------------------------------------------
(* rt_spi_configure: the fields first, the hardware under the lock, and    *)
(* only if the bus belongs to the device.                                  *)
SpiWriteConfig(t, d, c) ==
  /\ SpiIdle(t) /\ Mine(t, d) /\ d \notin low
  /\ config' = [config EXCEPT ![d] = c]
  /\ sdev' = [sdev EXCEPT ![t] = d] /\ spc' = [spc EXCEPT ![t] = "apply"]
  /\ UNCHANGED <<owner, lock, hw, enabled, low, msgs>>

\* Mutant: the owner is not configured again.
ApplyLater(t) ==
  /\ spc[t] = "apply" /\ CanLock(t)
  /\ spc' = [spc EXCEPT ![t] = "idle"]
  /\ UNCHANGED <<config, owner, lock, hw, enabled, low, sdev, msgs>>

SpiApply(t) ==
  /\ spc[t] = "apply" /\ CanLock(t)
  /\ IF owner = sdev[t] THEN Configure(sdev[t]) ELSE UNCHANGED <<hw, enabled>>
  /\ spc' = [spc EXCEPT ![t] = "idle"]
  /\ UNCHANGED <<config, owner, lock, low, sdev, msgs>>

-----------------------------------------------------------------------------
(* Transfers. *)

\* The flags of the messages of rt_spi_transfer, rt_spi_send_then_send,
\* rt_spi_send_then_recv and of a longer list.
Messages ==
  {<<{"take", "release"}>>, <<{"take"}, {"release"}>>, <<{"take"}, {"release", "recv"}>>}
  \cup (IF EmptyMessages THEN {<<{"take"}, {"release", "empty"}, {}>>,
                               <<{"take", "empty"}, {"release"}>>} ELSE {})

\* The lock, and the bus configured for d: with an error the lock is released
\* again and nothing has happened.
OwnBus(t, d) ==
  /\ CanLock(t) /\ (owner = d \/ Valid(config[d]))
  /\ IF owner # d THEN Configure(d) /\ owner' = d ELSE UNCHANGED <<hw, enabled, owner>>
  /\ Take(t) /\ sdev' = [sdev EXCEPT ![t] = d]

\* In a session with the chip selected by rt_spi_take, the messages leave it so.
SpiTransfer(t, d, ms) ==
  /\ SpiIdle(t) /\ Mine(t, d) /\ OwnBus(t, d)
  /\ ms \in IF d \in low THEN {<<{}>>} ELSE Messages
  /\ msgs' = [msgs EXCEPT ![t] = ms] /\ spc' = [spc EXCEPT ![t] = "select"]
  /\ UNCHANGED <<config, low>>

\* spixfer as far as the data...
SpiSelect(t) ==
  /\ spc[t] = "select"
  /\ low' = IF "take" \in Head(msgs[t]) /\ ~NoCs(config[sdev[t]])
            THEN low \cup {sdev[t]} ELSE low
  /\ spc' = [spc EXCEPT ![t] = "data"]
  /\ UNCHANGED <<config, owner, lock, hw, enabled, sdev, msgs>>

\* Mutant: the chip select stays low.
XferKeepsSelected(t) ==
  /\ spc[t] = "data"
  /\ spc' = [spc EXCEPT ![t] = IF Len(msgs[t]) = 1 THEN "exit" ELSE "select"]
  /\ msgs' = [msgs EXCEPT ![t] = Tail(@)]
  /\ UNCHANGED <<config, owner, lock, hw, enabled, low, sdev>>

\* ... and from there on.  Three wires are released by disabling the SPI.  The
\* result is the length, so an empty message ends the list like an error.
SpiXfer(t) ==
  /\ spc[t] = "data"
  /\ LET m == Head(msgs[t])  d == sdev[t]
     IN  /\ low' = IF "release" \in m /\ ~NoCs(config[d]) THEN low \ {d} ELSE low
         /\ enabled' = (enabled /\ ~("release" \in m /\ m \cap {"recv", "empty"} = {}
                                     /\ ThreeWire(config[d])))
         /\ spc' = [spc EXCEPT ![t] =
                      IF "empty" \in m \/ Len(msgs[t]) = 1 THEN "exit" ELSE "select"]
  /\ msgs' = [msgs EXCEPT ![t] = Tail(@)]
  /\ UNCHANGED <<config, owner, lock, hw, sdev>>

SpiExit(t) ==
  /\ spc[t] = "exit" /\ Release(t)
  /\ spc' = [spc EXCEPT ![t] = "idle"] /\ msgs' = [msgs EXCEPT ![t] = <<>>]
  /\ UNCHANGED <<config, owner, hw, enabled, low, sdev>>

-----------------------------------------------------------------------------
(* Sessions. *)

rt_spi_take_bus(t, d) ==
  /\ SpiIdle(t) /\ ~InSession(t) /\ Mine(t, d) /\ OwnBus(t, d)
  /\ UNCHANGED <<config, low, spc, msgs>>

\* A message without data.
rt_spi_take(t) ==
  /\ SpiIdle(t) /\ InSession(t)
  /\ low' = IF NoCs(config[sdev[t]]) THEN low ELSE low \cup {sdev[t]}
  /\ UNCHANGED <<config, owner, lock, hw, enabled, spc, sdev, msgs>>

rt_spi_release(t) ==
  /\ SpiIdle(t) /\ InSession(t)
  /\ low' = IF NoCs(config[sdev[t]]) THEN low ELSE low \ {sdev[t]}
  /\ UNCHANGED <<config, owner, lock, hw, enabled, spc, sdev, msgs>>

rt_spi_release_bus(t) ==
  /\ SpiIdle(t) /\ InSession(t) /\ owner = sdev[t] /\ sdev[t] \notin low
  /\ Release(t)
  /\ UNCHANGED <<config, owner, hw, enabled, low, spc, sdev, msgs>>

-----------------------------------------------------------------------------
SpiNext ==
  \E t \in SpiThreads :
    \/ \E d \in SpiDevs :
         \/ \E c \in SpiConfigs : SpiWriteConfig(t, d, c)
         \/ \E ms \in Messages \cup {<<{}>>} : SpiTransfer(t, d, ms)
         \/ rt_spi_take_bus(t, d)
    \/ SpiApply(t) \/ SpiSelect(t) \/ SpiXfer(t) \/ SpiExit(t)
    \/ rt_spi_take(t) \/ rt_spi_release(t) \/ rt_spi_release_bus(t)

SpiSpec == SpiInit /\ [][SpiNext]_spi_vars

-----------------------------------------------------------------------------
(* Data go over the wires only while the SPI is enabled with the           *)
(* configuration of the device they are for and that device is the only    *)
(* one selected (spi_core.c:279-316, drv_spi.c:365-445).                   *)
SpiWireRight ==
  \A t \in SpiThreads : spc[t] = "data" =>
    LET d == sdev[t]
    IN  /\ hw = config[d] /\ enabled /\ owner = d
        /\ low = IF NoCs(config[d]) THEN {} ELSE {d}

(* A device stays selected, and the bus stays locked, only as long as the  *)
(* thread that selected it is in its transfer or session, and the bus then *)
(* belongs to the device, as rt_spi_release_bus asserts (spi_core.c:440).  *)
SpiReleased ==
  /\ \A d \in low : lock.by # nobody /\ sdev[lock.by] = d
  /\ lock.by # nobody => lock.count > 0 /\ owner = sdev[lock.by]
  /\ \A t \in SpiThreads : spc[t] \in {"select", "data", "exit"} => lock.by = t
=============================================================================

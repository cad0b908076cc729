------------------------------- MODULE I2cBus -------------------------------
(***************************************************************************)
(* An I2C bus whose lines are moved by software: i2c_core.c above the bit  *)
(* operations i2c-bit-ops.c.  A step of a transfer is one condition or one *)
(* byte on the wires.  The devices on the bus answer as the I2C protocol   *)
(* allows, and a device may hold the clock until the master gives up.      *)
(***************************************************************************)
EXTENDS Integers, Sequences, SequencesExt

CONSTANTS
  I2cThreads, I2cDevs, anyone,   \* anyone: no thread, no device
  TenBit,      \* the devices with a 10-bit address
  I2cRetries,  \* bus->retries
  I2cFaults    \* of "stretch", "stretch_restart", "no_stop", "locked"

ASSUME I2cAssumption == anyone \notin I2cThreads \cup I2cDevs

VARIABLES
  i2c_lock,    \* bus->lock: the thread that holds it
  sda, scl,    \* the lines, as the master leaves them
  wire,        \* what the devices have seen: [st, d]
  xfer         \* each thread's call of rt_i2c_transfer

i2c_vars == <<i2c_lock, sda, scl, wire, xfer>>

Off == [st |-> "off", d |-> anyone]        \* the bus is free
Unheard == [st |-> "none", d |-> anyone]   \* nobody listens until the next start
Started(d) == [st |-> "start", d |-> d]    \* a start; d was addressed before

I2cIdle == [at |-> "idle", msgs |-> <<>>, i |-> 1, left |-> 0,
            tries |-> 0, moved |-> 0, ret |-> "none"]

\* ch32_i2c_bus_unlock leaves the clock low when it had to free the bus.
I2cInit ==
  /\ i2c_lock = anyone /\ sda = 1
  /\ scl = (IF "locked" \in I2cFaults THEN 0 ELSE 1)
  /\ wire = Off
  /\ xfer = [t \in I2cThreads |-> I2cIdle]

Msg(t) == xfer[t].msgs[xfer[t].i]
Direction(m) == IF "RD" \in m.flags THEN "read" ELSE "write"
IgnoreNack(t) == "IGNORE_NACK" \in Msg(t).flags
I2cAt(t, l) == xfer[t].at = l
I2cGoto(t, l) == xfer' = [xfer EXCEPT ![t].at = l]
Outcomes == {"ack", "nack"} \cup ({"stretch"} \cap I2cFaults)

-----------------------------------------------------------------------------
(* The lists of messages: one write or read, and the combinations the      *)
(* flags allow.                                                            *)
I2cMsg(d, f, n) ==
  [dev |-> d, flags |-> f \cup (IF d \in TenBit THEN {"ADDR_10BIT"} ELSE {}), len |-> n]

I2cLists(d) ==
  {<<I2cMsg(d, {}, 2)>>, <<I2cMsg(d, {"RD"}, 2)>>,
   <<I2cMsg(d, {}, 1), I2cMsg(d, {"RD"}, 2)>>,
   <<I2cMsg(d, {}, 1), I2cMsg(d, {"NO_START"}, 1)>>,
   <<I2cMsg(d, {"IGNORE_NACK"}, 2)>>}
  \cup (IF "no_stop" \in I2cFaults THEN {<<I2cMsg(d, {"NO_STOP"}, 1)>>} ELSE {})

LenTotal(ms) == FoldLeft(LAMBDA n, m : n + m.len, 0, ms)

NewCall(ms) ==
  [at |-> "start", msgs |-> ms, i |-> 1, left |-> ms[1].len,
   tries |-> 0, moved |-> 0, ret |-> "none"]

\* Mutant: without the lock.
TransferUnlocked(t, ms) ==
  /\ I2cAt(t, "idle")
  /\ i2c_lock' = t
  /\ xfer' = [xfer EXCEPT ![t] = NewCall(ms)]
  /\ UNCHANGED <<sda, scl, wire>>

\* rt_i2c_master_send and rt_i2c_master_recv pass a single message.  They return
\* the count also for an error, which as an unsigned number is greater than 0.
rt_i2c_transfer(t, ms) ==
  /\ I2cAt(t, "idle") /\ i2c_lock = anyone
  /\ i2c_lock' = t
  /\ xfer' = [xfer EXCEPT ![t] = NewCall(ms)]
  /\ UNCHANGED <<sda, scl, wire>>

-----------------------------------------------------------------------------
(* Start conditions: SDA falls while SCL is high.                          *)
BitStart(t) ==
  /\ I2cAt(t, "start") /\ xfer[t].i = 1
  /\ wire' = IF sda = 1 /\ scl = 1 THEN Started(wire.d) ELSE wire
  /\ sda' = 0 /\ scl' = 0 /\ I2cGoto(t, "addr")
  /\ UNCHANGED i2c_lock

\* The master does not look whether the clock really rose.
I2cRestart(t, next) ==
  /\ \/ wire' = Started(wire.d)
     \/ "stretch_restart" \in I2cFaults /\ wire' = wire
  /\ sda' = 0 /\ scl' = 0 /\ I2cGoto(t, next)
  /\ UNCHANGED i2c_lock

BitRestart(t) ==
  \/ I2cAt(t, "start") /\ xfer[t].i > 1 /\ I2cRestart(t, "addr")
  \/ I2cAt(t, "addr_10r") /\ I2cRestart(t, "addr_r")

-----------------------------------------------------------------------------
(* Address bytes: "addr" is the first one, "addr_2" and "addr_r" belong to *)
(* a 10-bit address.                                                       *)

\* What the devices have seen after the byte if one of them takes it.
Taken(m, stage) ==
  IF wire.st = "start" /\ stage = "addr" THEN
    IF m.dev \in TenBit THEN [st |-> "ten", d |-> anyone]
    ELSE [st |-> Direction(m), d |-> m.dev]
  ELSE IF wire.st = "start" /\ stage = "addr_r" /\ wire.d = m.dev
    THEN [st |-> "read", d |-> m.dev]
  ELSE IF wire.st = "ten" /\ stage = "addr_2" THEN [st |-> "write", d |-> m.dev]
  ELSE IF wire.st = "write" THEN wire
  ELSE Unheard

\* i2c_writeb: the acknowledge bit leaves SCL low, a clock held for too long
\* leaves it released.
WriteByte(m, stage, out) ==
  /\ out \in Outcomes
  /\ out = "ack" => Taken(m, stage) # Unheard
  /\ wire' = IF out = "ack" THEN Taken(m, stage) ELSE Unheard
  /\ scl' = (IF out = "stretch" THEN 1 ELSE 0)
  /\ sda' \in (IF out = "stretch" THEN {0, 1} ELSE {1})

AfterAddress(t, stage) ==
  IF Msg(t).dev \notin TenBit \/ stage = "addr_r" THEN "data"
  ELSE IF stage = "addr" THEN "addr_2"
  ELSE IF "RD" \in Msg(t).flags THEN "addr_10r" ELSE "data"

\* Whatever goes wrong ends the transfer.
Failed(x) == [x EXCEPT !.at = "stop", !.ret = "error"]

\* The last try, or the one that is acknowledged.
BitAddress(t, stage, out) ==
  /\ I2cAt(t, stage) /\ WriteByte(Msg(t), stage, out)
  /\ \/ out = "ack" \/ stage = "addr_2" \/ IgnoreNack(t) \/ xfer[t].tries = I2cRetries
  /\ IF out = "ack" \/ IgnoreNack(t)
     THEN xfer' = [xfer EXCEPT ![t].at = AfterAddress(t, stage), ![t].tries = 0]
     ELSE xfer' = [xfer EXCEPT ![t] = Failed(xfer[t])]
  /\ UNCHANGED i2c_lock

\* The address again, after a stop and a start condition.
BitRetry(t, stage, out) ==
  /\ I2cAt(t, stage) /\ out \in Outcomes \ {"ack"}
  /\ stage # "addr_2" /\ ~IgnoreNack(t) /\ xfer[t].tries < I2cRetries
  /\ wire' = Started(anyone) /\ sda' = 0 /\ scl' = 0
  /\ xfer' = [xfer EXCEPT ![t].tries = @ + 1]
  /\ UNCHANGED i2c_lock

-----------------------------------------------------------------------------
(* Data bytes. *)

\* The next message, or the result: the number of messages.
Advance(x) ==
  IF x.left > 1 THEN [x EXCEPT !.left = @ - 1]
  ELSE IF x.i = Len(x.msgs) THEN [x EXCEPT !.left = 0, !.at = "stop", !.ret = "all"]
  ELSE [x EXCEPT !.i = @ + 1, !.left = x.msgs[x.i + 1].len,
                 !.at = IF "NO_START" \in x.msgs[x.i + 1].flags THEN "data" ELSE "start"]

\* One more byte if it was the right device that took or gave it.
Counted(t) ==
  LET n == IF wire = [st |-> Direction(Msg(t)), d |-> Msg(t).dev] THEN 1 ELSE 0
  IN  [xfer[t] EXCEPT !.moved = @ + n]

BitSend(t, out) ==
  /\ I2cAt(t, "data") /\ "RD" \notin Msg(t).flags
  /\ WriteByte(Msg(t), "data", out)
  /\ xfer' = [xfer EXCEPT ![t] =
       IF out = "ack" THEN Advance(Counted(t))
       ELSE IF out = "nack" /\ IgnoreNack(t) THEN Advance(xfer[t])
       ELSE Failed(xfer[t])]
  /\ UNCHANGED i2c_lock

\* A byte, which reads as ones if no device drives the line, and the answer
\* that ends the device's part after the last byte.
BitRecv(t, out) ==
  /\ I2cAt(t, "data") /\ "RD" \in Msg(t).flags
  /\ out \in Outcomes \ {"nack"}
  /\ wire' = IF out = "ack" /\ xfer[t].left > 1 THEN wire ELSE Unheard
  /\ scl' = (IF out = "ack" THEN 0 ELSE 1)
  /\ sda' = (IF out = "ack" /\ xfer[t].left > 1 THEN 0 ELSE 1)
  /\ xfer' = [xfer EXCEPT ![t] =
       IF out = "ack" THEN Advance(Counted(t)) ELSE Failed(xfer[t])]
  /\ UNCHANGED i2c_lock

-----------------------------------------------------------------------------
(* The end of the transfer. *)

\* Mutant: no stop condition after an error.
StopIfAll(t) ==
  /\ I2cAt(t, "stop")
  /\ IF "NO_STOP" \in Msg(t).flags \/ xfer[t].ret # "all"
     THEN UNCHANGED <<sda, scl, wire>>
     ELSE sda' = 1 /\ scl' = 1 /\ wire' = Off
  /\ I2cGoto(t, "done")
  /\ UNCHANGED i2c_lock

BitStop(t) ==
  /\ I2cAt(t, "stop")
  /\ IF "NO_STOP" \in Msg(t).flags THEN UNCHANGED <<sda, scl, wire>>
     ELSE sda' = 1 /\ scl' = 1 /\ wire' = Off
  /\ I2cGoto(t, "done")
  /\ UNCHANGED i2c_lock

I2cReturn(t) ==
  /\ I2cAt(t, "done")
  /\ i2c_lock' = anyone
  /\ xfer' = [xfer EXCEPT ![t] = I2cIdle]
  /\ UNCHANGED <<sda, scl, wire>>

-----------------------------------------------------------------------------
I2cNext ==
  \E t \in I2cThreads :
    \/ \E d \in I2cDevs : \E ms \in I2cLists(d) : rt_i2c_transfer(t, ms)
    \/ BitStart(t) \/ BitRestart(t) \/ BitStop(t) \/ I2cReturn(t)
    \/ \E out \in Outcomes :
         \/ \E stage \in {"addr", "addr_2", "addr_r"} :
              BitAddress(t, stage, out) \/ BitRetry(t, stage, out)
         \/ BitSend(t, out) \/ BitRecv(t, out)

I2cSpec == I2cInit /\ [][I2cNext]_i2c_vars

-----------------------------------------------------------------------------
(* A transfer that returns the number of its messages has moved every byte *)
(* of them to or from the devices they name: no byte was taken by another  *)
(* device or as another byte (i2c-bit-ops.c:380-436).                      *)
I2cDelivered ==
  \A t \in I2cThreads :
    I2cAt(t, "done") /\ xfer[t].ret = "all" /\ ~IgnoreNack(t) =>
      xfer[t].moved = LenTotal(xfer[t].msgs)

(* Between transfers, failed ones included, both lines are high and the    *)
(* devices have seen a stop condition (i2c-bit-ops.c:438-443).             *)
I2cFreed ==
  i2c_lock = anyone => sda = 1 /\ scl = 1 /\ wire = Off
=============================================================================

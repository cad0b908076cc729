------------------------------- MODULE Serial -------------------------------
(***************************************************************************)
(* A serial port: serial.c under the calls of device.c, with the driver    *)
(* drv_usart.c below it.  Clients open, configure, read, write and close   *)
(* the device; the receiver's interrupt moves bytes from the data register *)
(* into the receive FIFO.  A step is the code between two points where     *)
(* another thread or a handler can come in.  On the single core no thread  *)
(* runs while the handler does.                                            *)
(***************************************************************************)
EXTENDS Integers, Sequences

CONSTANTS
  Reader, Writer,   \* two threads: one reads, one writes, both open and close
  Bytes,            \* bytes received
  none, null,       \* no byte; RT_NULL
  BufSizes,         \* values of serial->config.bufsz
  Lines,            \* what the writer writes: sequences of "data" and "newline"
  Devices,          \* the interrupt flags a device may be registered with
  PlainOpens,       \* some opens do not ask for the device's interrupt flags
  Overlap,          \* opens and closes overlap with the other's read or write
  NewlineAnywhere   \* newlines are also written in stream mode with INT_TX

Flags == {"INT_RX", "INT_TX", "STREAM"}

\* The receive FIFOs of n bytes; a cell without a byte in it reads none.
Fifos(n) ==
  [size : {n}, buffer : [0 .. n - 1 -> Bytes \cup {none}],
   put_index : 0 .. n - 1, get_index : 0 .. n - 1, is_full : BOOLEAN]

ASSUME SerialAssumption ==
  /\ Reader # Writer /\ none \notin Bytes
  /\ BufSizes \subseteq Nat \ {0, 1}
  /\ Lines \subseteq Seq({"data", "newline"})
  /\ Devices \subseteq SUBSET {"INT_RX", "INT_TX"}
  /\ {PlainOpens, Overlap, NewlineAnywhere} \subseteq BOOLEAN
  /\ null \notin BOOLEAN /\ \A f \in SUBSET Flags : f # null
  /\ \A n \in BufSizes : null \notin Fifos(n)

Clients == {Reader, Writer}

VARIABLES
  dev,         \* [flag, activated, ref_count, open_flag] of struct rt_device
  bufsz,       \* serial->config.bufsz
  serial_rx,   \* null, or the FIFO [size, buffer, put_index, get_index, is_full]
  serial_tx,   \* null, or the flag of the completion
  rxie,        \* the receive interrupt is enabled (RXNE, NVIC)
  dr,          \* the receive data register; none: RXNE is not set
  isr,         \* the receive handler: "out", in its "loop", about to "clear" the flag
  busy,        \* the transmitter is sending a byte
  indicated,   \* rx_indicate was called since the reader last waited
  pc, opened,  \* each client: where it is, and the flags it opened with
  got,         \* the byte the reader last took from the FIFO
  todo, crs    \* what is left to write; '\r's sent since the last byte of it

rxside == <<dr, isr, indicated, got>>
txside == <<busy, todo, crs>>
vars == <<dev, bufsz, serial_rx, serial_tx, rxie, rxside, pc, opened, txside>>

Init ==
  /\ \E flag \in Devices :
       dev = [flag |-> flag, activated |-> FALSE, ref_count |-> 0, open_flag |-> {}]
  /\ bufsz \in BufSizes
  /\ serial_rx = null /\ serial_tx = null /\ rxie = FALSE
  /\ dr = none /\ isr = "out" /\ busy = FALSE /\ indicated = FALSE
  /\ pc = [c \in Clients |-> "idle"] /\ opened = [c \in Clients |-> null]
  /\ got = none /\ todo = <<>> /\ crs = 0

\* The receive interrupt is taken as soon as it is pending.
RxPending == rxie /\ dr # none
At(c, l) == isr = "out" /\ ~RxPending /\ pc[c] = l
Goto(c, l) == pc' = [pc EXCEPT ![c] = l]

\* The clients take turns to open, close and configure the device, and unless
\* Overlap, do so when no read or write is going on: serial.c has no lock.
Alone(c) ==
  \A x \in Clients \ {c} :
    pc[x] = "idle" \/ (Overlap /\ pc[x] \in {"read", "int_rx", "poll_rx", "write",
                                           "int_tx", "int_data", "wait", "poll_tx", "poll_data"})

\* A read or a write begins.
Starting(c) ==
  /\ At(c, "idle") /\ opened[c] # null
  /\ Overlap \/ \A x \in Clients \ {c} :
                  pc[x] \notin {"open_rx", "open_tx", "close_rx", "close_tx"}

-----------------------------------------------------------------------------
(* Opening and closing. *)

Opens ==
  {f \in SUBSET (dev.flag \cup {"STREAM"}) : dev.flag \subseteq f \/ PlainOpens}

\* "dev->open_flag = oflag & 0xff" keeps the stream flag only; the interrupt
\* flags are above the low byte and are added again further down.
LowByte == {"STREAM"}

\* Mutant: a reopen does not keep the stream mode.
OpenForgetsStream(c, oflag) ==
  /\ At(c, "idle") /\ Alone(c) /\ opened[c] = null
  /\ opened' = [opened EXCEPT ![c] = oflag]
  /\ serial_rx' = IF dev.activated THEN serial_rx ELSE null
  /\ serial_tx' = IF dev.activated THEN serial_tx ELSE null
  /\ dev' = [dev EXCEPT !.activated = TRUE, !.open_flag = oflag \cap LowByte]
  /\ Goto(c, "open_rx")
  /\ UNCHANGED <<bufsz, rxie, rxside, txside>>

\* rt_device_open: rt_serial_init if the device is not active, then
\* rt_serial_open as far as the flags; a stream mode that was on is kept.
OpenStart(c, oflag) ==
  /\ At(c, "idle") /\ Alone(c) /\ opened[c] = null
  /\ opened' = [opened EXCEPT ![c] = oflag \cup (dev.open_flag \cap {"STREAM"})]
  /\ serial_rx' = IF dev.activated THEN serial_rx ELSE null
  /\ serial_tx' = IF dev.activated THEN serial_tx ELSE null
  /\ dev' = [dev EXCEPT !.activated = TRUE, !.open_flag = oflag \cap LowByte]
  /\ Goto(c, "open_rx")
  /\ UNCHANGED <<bufsz, rxie, rxside, txside>>

\* An interrupt flag the device was not registered with: -RT_EIO.
OpenFails(c) ==
  /\ At(c, "idle") /\ Alone(c) /\ opened[c] = null
  /\ ~({"INT_RX", "INT_TX"} \subseteq dev.flag)
  /\ serial_rx' = IF dev.activated THEN serial_rx ELSE null
  /\ serial_tx' = IF dev.activated THEN serial_tx ELSE null
  /\ dev' = [dev EXCEPT !.activated = TRUE]
  /\ UNCHANGED <<bufsz, rxie, rxside, pc, opened, txside>>

NewFifo ==
  [size |-> bufsz, buffer |-> [i \in 0 .. bufsz - 1 |-> none],
   put_index |-> 0, get_index |-> 0, is_full |-> FALSE]

OpenRx(c) ==
  LET rx == "INT_RX" \in opened[c]
  IN  /\ At(c, "open_rx")
      /\ serial_rx' = IF serial_rx = null /\ rx THEN NewFifo ELSE serial_rx
      /\ rxie' = (rxie \/ (serial_rx = null /\ rx))
      /\ dev' = [dev EXCEPT !.open_flag = @ \cup (opened[c] \cap {"INT_RX"})]
      /\ Goto(c, "open_tx")
      /\ UNCHANGED <<bufsz, serial_tx, rxside, opened, txside>>

\* The rest of rt_serial_open, and the count of rt_device_open.
OpenTx(c) ==
  LET tx == "INT_TX" \in opened[c]
  IN  /\ At(c, "open_tx")
      /\ serial_tx' = IF serial_tx = null /\ tx THEN FALSE ELSE serial_tx
      /\ dev' = [dev EXCEPT !.open_flag = @ \cup (opened[c] \cap {"INT_TX", "STREAM"}),
                            !.ref_count = @ + 1]
      /\ Goto(c, "idle")
      /\ UNCHANGED <<bufsz, serial_rx, rxie, rxside, opened, txside>>

\* rt_device_close: only the last close goes on to rt_serial_close.
CloseStart(c) ==
  /\ At(c, "idle") /\ Alone(c) /\ opened[c] # null
  /\ opened' = [opened EXCEPT ![c] = null]
  /\ dev' = [dev EXCEPT !.ref_count = @ - 1]
  /\ Goto(c, IF dev.ref_count - 1 = 0 THEN "close_rx" ELSE "idle")
  /\ UNCHANGED <<bufsz, serial_rx, serial_tx, rxie, rxside, txside>>

\* Mutant: the FIFO is freed with the interrupt enabled.
CloseRxKeepsInterrupt(c) ==
  /\ At(c, "close_rx")
  /\ serial_rx' = null /\ got' = none
  /\ dev' = [dev EXCEPT !.open_flag = @ \ {"INT_RX"}]
  /\ Goto(c, "close_tx")
  /\ UNCHANGED <<bufsz, serial_tx, rxie, dr, isr, indicated, opened, txside>>

CloseRx(c) ==
  LET rx == "INT_RX" \in dev.open_flag
  IN  /\ At(c, "close_rx")
      /\ rxie' = (rxie /\ ~rx)
      /\ serial_rx' = IF rx THEN null ELSE serial_rx
      /\ got' = IF rx THEN none ELSE got
      /\ dev' = [dev EXCEPT !.open_flag = @ \ {"INT_RX"}]
      /\ Goto(c, "close_tx")
      /\ UNCHANGED <<bufsz, serial_tx, dr, isr, indicated, opened, txside>>

\* The rest of rt_serial_close and of rt_device_close.
CloseTx(c) ==
  /\ At(c, "close_tx")
  /\ serial_tx' = IF "INT_TX" \in dev.open_flag THEN null ELSE serial_tx
  /\ dev' = [dev EXCEPT !.activated = FALSE, !.open_flag = {}]
  /\ Goto(c, "idle")
  /\ UNCHANGED <<bufsz, serial_rx, rxie, rxside, opened, txside>>

\* RT_DEVICE_CTRL_CONFIG: the size cannot change while the device is open.
Config(c, n) ==
  /\ At(c, "idle") /\ Alone(c)
  /\ n # bufsz => dev.ref_count = 0     \* else RT_EBUSY
  /\ bufsz' = n
  /\ UNCHANGED <<dev, serial_rx, serial_tx, rxie, rxside, pc, opened, txside>>

-----------------------------------------------------------------------------
(* Receiving. *)

\* Mutant: an overrun does not drop the oldest byte.
PutWithoutDrop(rx, b) ==
  LET put == (rx.put_index + 1) % bufsz
  IN  [rx EXCEPT !.buffer[rx.put_index] = b, !.put_index = put,
                 !.is_full = (put = rx.get_index)]

\* The masked part of the handler's loop: a byte that fills the buffer pushes
\* the oldest one out.
Put(rx, b) ==
  LET put == (rx.put_index + 1) % bufsz
      full == put = rx.get_index
  IN  [rx EXCEPT !.buffer[rx.put_index] = b, !.put_index = put,
                 !.get_index = IF full THEN (@ + 1) % bufsz ELSE @,
                 !.is_full = full \/ @]

Empty(rx) == rx.get_index = rx.put_index /\ ~rx.is_full

\* The cell that was read is not told from an unused one.
Get(rx) ==
  [rx EXCEPT !.buffer[rx.get_index] = none, !.get_index = (@ + 1) % bufsz, !.is_full = FALSE]

\* Mutant: the buffer is not taken for a ring.
LengthWithoutWrap(rx) ==
  IF rx.put_index >= rx.get_index THEN rx.put_index - rx.get_index ELSE 0

rx_length(rx) ==
  IF rx.put_index >= rx.get_index THEN rx.put_index - rx.get_index
                                  ELSE bufsz - (rx.get_index - rx.put_index)

\* A byte arrives on the line.
LineByte(b) ==
  /\ dr = none /\ dr' = b
  /\ UNCHANGED <<dev, bufsz, serial_rx, serial_tx, rxie, isr, indicated, got, pc, opened, txside>>

\* RT_SERIAL_EVENT_RX_IND: the loop empties the data register; that there is a
\* FIFO is an assertion of the code.
IsrByte ==
  /\ (isr = "loop" /\ dr # none) \/ (isr = "out" /\ RxPending)
  /\ serial_rx # null
  /\ serial_rx' = Put(serial_rx, dr)
  /\ dr' = none /\ isr' = "loop"
  /\ UNCHANGED <<dev, bufsz, serial_tx, rxie, indicated, got, pc, opened, txside>>

\* The application's rx_indicate wakes its reader.
IsrEnd ==
  /\ isr = "loop" /\ dr = none
  /\ isr' = "clear"
  /\ indicated' = (indicated \/ rx_length(serial_rx) > 0)
  /\ UNCHANGED <<dev, bufsz, serial_rx, serial_tx, rxie, dr, got, pc, opened, txside>>

\* USART_ClearITPendingBit at the end of the handler: a byte that came after the
\* loop is never read.
IsrClear ==
  /\ isr = "clear"
  /\ dr' = none /\ isr' = "out"
  /\ UNCHANGED <<dev, bufsz, serial_rx, serial_tx, rxie, indicated, got, pc, opened, txside>>

\* The reader of a device with the receive interrupt waits for an indication;
\* then it reads until it gets nothing.
ReadWait ==
  /\ Starting(Reader) /\ (indicated \/ "INT_RX" \notin dev.open_flag)
  /\ indicated' = FALSE /\ Goto(Reader, "read")
  /\ UNCHANGED <<dev, bufsz, serial_rx, serial_tx, rxie, dr, isr, got, opened, txside>>

\* rt_serial_read.
ReadStart ==
  /\ At(Reader, "read")
  /\ Goto(Reader, IF "INT_RX" \in dev.open_flag THEN "int_rx" ELSE "poll_rx")
  /\ UNCHANGED <<dev, bufsz, serial_rx, serial_tx, rxie, rxside, opened, txside>>

\* The call wants more bytes, or returns and is made again.
ReadMore == \/ UNCHANGED pc
            \/ Goto(Reader, "read")

\* _serial_int_rx, one byte at a time with interrupts disabled.
ReadByte ==
  /\ At(Reader, "int_rx") /\ ~Empty(serial_rx)
  /\ got' = serial_rx.buffer[serial_rx.get_index]
  /\ serial_rx' = Get(serial_rx)
  /\ ReadMore
  /\ UNCHANGED <<dev, bufsz, serial_tx, rxie, dr, isr, indicated, opened, txside>>

\* _serial_poll_rx.
PollByte ==
  /\ At(Reader, "poll_rx") /\ dr # none
  /\ dr' = none
  /\ ReadMore
  /\ UNCHANGED <<dev, bufsz, serial_rx, serial_tx, rxie, isr, indicated, got, opened, txside>>

ReadNothing ==
  /\ \/ At(Reader, "int_rx") /\ Empty(serial_rx)
     \/ At(Reader, "poll_rx") /\ dr = none
  /\ Goto(Reader, "idle")
  /\ UNCHANGED <<dev, bufsz, serial_rx, serial_tx, rxie, rxside, opened, txside>>

-----------------------------------------------------------------------------
(* Transmitting. *)

NewlineNext == todo # <<>> /\ Head(todo) = "newline" /\ "STREAM" \in dev.open_flag

WriteStart(line) ==
  /\ Starting(Writer)
  /\ NewlineAnywhere \/ ~({"STREAM", "INT_TX"} \subseteq dev.open_flag)
       \/ \A i \in DOMAIN line : line[i] = "data"
  /\ todo' = line /\ crs' = 0
  /\ Goto(Writer, IF "INT_TX" \in dev.open_flag THEN "int_tx" ELSE "poll_tx")
  /\ UNCHANGED <<dev, bufsz, serial_rx, serial_tx, rxie, rxside, opened, busy>>

\* putc of a driver with a transmit interrupt refuses a byte while it is busy;
\* the putc of drv_usart.c waits until the transmitter is free.
Return == crs' = (IF crs < 2 THEN crs + 1 ELSE 2) /\ UNCHANGED todo
Byte == todo' = Tail(todo) /\ crs' = 0

TxUnchanged == UNCHANGED <<dev, bufsz, serial_rx, rxie, rxside, opened>>

\* _serial_poll_tx: the test for a newline and the '\r', then the byte itself.
PollTx ==
  /\ At(Writer, "poll_tx") /\ todo # <<>>
  /\ IF NewlineNext THEN Return ELSE UNCHANGED <<todo, crs>>
  /\ Goto(Writer, "poll_data")
  /\ TxUnchanged /\ UNCHANGED <<serial_tx, busy>>

PollData ==
  /\ At(Writer, "poll_data")
  /\ Byte /\ Goto(Writer, "poll_tx")
  /\ TxUnchanged /\ UNCHANGED <<serial_tx, busy>>

\* _serial_int_tx, likewise; when putc fails the loop starts again after the
\* completion.
IntTx ==
  /\ At(Writer, "int_tx") /\ todo # <<>>
  /\ IF ~NewlineNext
       THEN Goto(Writer, "int_data") /\ UNCHANGED <<todo, crs, busy>>
       ELSE IF busy
       THEN Goto(Writer, "wait") /\ UNCHANGED <<todo, crs, busy>>
       ELSE Goto(Writer, "int_data") /\ Return /\ busy' = TRUE
  /\ TxUnchanged /\ UNCHANGED serial_tx

IntData ==
  /\ At(Writer, "int_data")
  /\ IF busy
       THEN Goto(Writer, "wait") /\ UNCHANGED <<todo, crs, busy>>
       ELSE Goto(Writer, "int_tx") /\ Byte /\ busy' = TRUE
  /\ TxUnchanged /\ UNCHANGED serial_tx

\* rt_completion_wait.
WaitDone ==
  /\ At(Writer, "wait") /\ serial_tx = TRUE
  /\ serial_tx' = FALSE /\ Goto(Writer, "int_tx")
  /\ TxUnchanged /\ UNCHANGED <<busy, todo, crs>>

WriteReturn ==
  /\ pc[Writer] \in {"poll_tx", "int_tx"} /\ At(Writer, pc[Writer]) /\ todo = <<>>
  /\ Goto(Writer, "idle")
  /\ TxUnchanged /\ UNCHANGED <<serial_tx, busy, todo, crs>>

\* Mutant: the handler of the transmit interrupt does not signal.
TxDoneSilent ==
  /\ busy /\ isr = "out" /\ busy' = FALSE
  /\ TxUnchanged /\ UNCHANGED <<serial_tx, pc, todo, crs>>

\* The transmitter has sent the byte: RT_SERIAL_EVENT_TX_DONE, unless a close
\* has disabled the interrupt.
TxDone ==
  /\ busy /\ isr = "out" /\ busy' = FALSE
  /\ serial_tx' = IF serial_tx = null THEN null ELSE TRUE
  /\ TxUnchanged /\ UNCHANGED <<pc, todo, crs>>

-----------------------------------------------------------------------------

OpenClose(c) ==
  \/ \E oflag \in Opens : OpenStart(c, oflag)
  \/ OpenFails(c) \/ CloseStart(c) \/ \E n \in BufSizes : Config(c, n)

\* The rest of a call.
CallStep(c) == OpenRx(c) \/ OpenTx(c) \/ CloseRx(c) \/ CloseTx(c)
ReadStep == ReadStart \/ ReadByte \/ PollByte \/ ReadNothing
WriteStep == PollTx \/ PollData \/ IntTx \/ IntData \/ WaitDone \/ WriteReturn

Next ==
  \/ \E c \in Clients : OpenClose(c) \/ CallStep(c)
  \/ ReadWait \/ ReadStep \/ (\E line \in Lines : WriteStart(line)) \/ WriteStep
  \/ IsrByte \/ IsrEnd \/ IsrClear \/ TxDone
  \/ \E b \in Bytes : LineByte(b)

Spec == Init /\ [][Next]_vars

\* The handler takes a pending byte and the transmitter sends; the line leaves the
\* processor time between two bytes, so the loop of the handler ends and a write
\* that has begun goes on.
FairSpec ==
  Spec /\ WF_vars(IsrByte) /\ SF_vars(IsrEnd) /\ WF_vars(IsrClear)
    /\ SF_vars(TxDone) /\ SF_vars(WriteStep)

-----------------------------------------------------------------------------

TypeOK ==
  /\ dev \in [flag : Devices, activated : BOOLEAN, ref_count : 0 .. 2, open_flag : SUBSET Flags]
  /\ bufsz \in BufSizes
  /\ serial_rx # null => serial_rx \in Fifos(bufsz)
  /\ serial_tx \in BOOLEAN \cup {null}
  /\ {rxie, busy, indicated} \subseteq BOOLEAN /\ isr \in {"out", "loop", "clear"}
  /\ {dr, got} \subseteq Bytes \cup {none}
  /\ opened \in [Clients -> {null} \cup SUBSET Flags] /\ crs \in 0 .. 2

\* The assertion of the receive handler: whenever its interrupt can come, the
\* receive FIFO is there, through every order of opens and closes.
InterruptHasFifo == rxie => serial_rx # null

\* When the last client has closed the device, no FIFO and no enabled interrupt
\* is left; while a client has it open, it has what it asked for.  The reference
\* count and the indices stay in their ranges.
ClosedClean ==
  /\ TypeOK
  /\ dev.ref_count = 0 /\ (\A c \in Clients : pc[c] = "idle")
       => serial_rx = null /\ serial_tx = null /\ ~rxie /\ dev.open_flag = {}
  /\ \A c \in Clients : opened[c] # null /\ (\A x \in Clients : pc[x] \notin
       {"open_rx", "open_tx", "close_rx", "close_tx"}) => opened[c] \subseteq dev.open_flag

\* No byte stays in the FIFO while the reader waits and no indication is left
\* for it, however the handler and the reads interleave.
NoLostIndication ==
  /\ serial_rx # null /\ ~Empty(serial_rx) /\ isr # "loop"
  /\ opened[Reader] # null /\ pc[Reader] = "idle"
  => indicated

\* A newline goes out behind exactly one '\r' for a writer that opened the port
\* in stream mode, never behind more, and other bytes go out behind none.
OneReturn ==
  [][Len(todo') < Len(todo) =>
       IF Head(todo) = "data" THEN crs = 0
       ELSE crs \in (IF "STREAM" \in opened[Writer] THEN {1} ELSE {0, 1})]_vars

\* rt_device_write returns.
WriteEnds == pc[Writer] \in {"poll_tx", "int_tx"} ~> pc[Writer] = "idle"

\* The ring, its two indices and is_full are a queue that loses the oldest byte
\* when it overflows; it holds bufsz - 1 bytes.
Contents(rx) ==
  [i \in 1 .. rx_length(rx) |-> rx.buffer[(rx.get_index + i - 1) % bufsz]]

Queue == IF serial_rx = null THEN <<>> ELSE Contents(serial_rx)
Room == IF serial_rx = null THEN 0 ELSE serial_rx.size - 1

Q == INSTANCE ByteQueue WITH q <- Queue, room <- Room

IsByteQueue == Q!Spec
=============================================================================

---------------------------- MODULE SerialProofs ----------------------------
(***************************************************************************)
(* What a serial port keeps for every size of its FIFO, every device and   *)
(* every line written: SerialInv says who may be where, which resources    *)
(* exist at each point of an open or a close, and that a byte in the FIFO  *)
(* has an indication.  The opens of both clients ask for the interrupts of *)
(* the device and do not overlap with the other's calls; what happens      *)
(* otherwise is shown by the run serial_reopen.                            *)
(***************************************************************************)
EXTENDS Serial, SequenceTheorems, TLAPS

Changing == {"open_rx", "open_tx", "close_rx", "close_tx"}
Reading == {"read", "int_rx", "poll_rx"}
Writing == {"int_tx", "int_data", "wait", "poll_tx", "poll_data"}

\* A client that is past its open; someone is at the point l.
Ready(c) == opened[c] # null /\ pc[c] \notin {"open_rx", "open_tx"}
InUse == \E c \in Clients : Ready(c)
Someone(l) == \E c \in Clients : pc[c] = l
Other(c) == IF c = Reader THEN Writer ELSE Reader

\* Who may be where.
Protocol ==
  /\ pc \in [Clients -> {"idle"} \cup Changing \cup Reading \cup Writing]
  /\ pc[Reader] \notin Writing /\ pc[Writer] \notin Reading
  /\ \A c \in Clients :
       /\ pc[c] \in Changing => pc[Other(c)] = "idle"
       /\ pc[c] \notin {"idle", "close_rx", "close_tx"} => opened[c] # null
       /\ pc[c] \in {"close_rx", "close_tx"} => opened[c] = null /\ opened[Other(c)] = null
       /\ opened[c] # null =>
            \A f \in {"INT_RX", "INT_TX"} : f \in opened[c] <=> f \in dev.flag
  /\ dev.ref_count = (IF Ready(Reader) THEN 1 ELSE 0) + (IF Ready(Writer) THEN 1 ELSE 0)

\* What is there at each point.
Resources ==
  /\ InUse \/ (\E c \in Clients : pc[c] \in Changing) => dev.activated
  /\ rxie = (serial_rx # null)
  /\ rxie <=> "INT_RX" \in dev.flag /\ (InUse \/ Someone("open_tx") \/ Someone("close_rx"))
  /\ serial_tx # null <=>
       "INT_TX" \in dev.flag /\ (InUse \/ Someone("close_rx") \/ Someone("close_tx"))
  /\ "INT_RX" \in dev.open_flag <=>
       /\ "INT_RX" \in dev.flag
       /\ (InUse /\ ~Someone("open_rx")) \/ Someone("open_tx") \/ Someone("close_rx")
  /\ "INT_TX" \in dev.open_flag <=>
       /\ "INT_TX" \in dev.flag
       /\ \/ InUse /\ ~Someone("open_rx") /\ ~Someone("open_tx")
          \/ Someone("close_rx") \/ Someone("close_tx")
  /\ isr = "loop" => serial_rx # null

\* The stream mode is not lost while somebody opens.
StreamKept ==
  /\ \A c \in Clients : Ready(c) /\ "STREAM" \in opened[c] =>
       IF pc[Other(c)] \in {"open_rx", "open_tx"} THEN "STREAM" \in opened[Other(c)]
                                                  ELSE "STREAM" \in dev.open_flag
  /\ ~InUse /\ (\A c \in Clients : pc[c] = "idle") => "STREAM" \notin dev.open_flag

\* is_full is set only when the write index has reached the read index from
\* behind, and then the read index has been moved on.
LapsRight(rx) == rx.is_full => rx.get_index = (rx.put_index + 1) % bufsz

\* Without a FIFO no byte has been read from it.
Ring ==
  /\ serial_rx # null => LapsRight(serial_rx)
  /\ serial_rx = null => got = none

\* While the reader does not read, a byte in the FIFO has been indicated, or will
\* be when the loop of the handler ends.
Indication ==
  serial_rx # null /\ ~Empty(serial_rx) /\ isr # "loop" /\ pc[Reader] \notin Reading
  => indicated

\* A read and a write go on in the mode they began in.
Modes ==
  /\ pc[Reader] = "int_rx" => "INT_RX" \in dev.open_flag
  /\ pc[Reader] = "poll_rx" => "INT_RX" \notin dev.open_flag
  /\ pc[Writer] \in {"int_tx", "int_data", "wait"} => "INT_TX" \in dev.open_flag

\* What is left of a line, and the '\r's sent before it.
Written ==
  /\ todo \in Seq({"data", "newline"})
  /\ pc[Writer] \notin Writing => todo = <<>>
  /\ pc[Writer] \in {"int_data", "poll_data"} => todo # <<>>
  /\ pc[Writer] \in {"int_tx", "int_data", "wait"} /\ ~ NewlineAnywhere =>
       crs = 0 /\ ("STREAM" \in dev.open_flag => \A i \in 1 .. Len(todo) : todo[i] = "data")
  /\ pc[Writer] = "poll_tx" => crs = 0
  /\ pc[Writer] = "poll_data" => crs = (IF NewlineNext THEN 1 ELSE 0)

SerialInv ==
  TypeOK /\ Protocol /\ Resources /\ StreamKept /\ Ring /\ Indication /\ Modes /\ Written

\* Opens ask for the device's interrupts, and the clients take turns.
Disciplined == ~ PlainOpens /\ ~ Overlap

LEMMA Two ==
  ASSUME NEW c \in Clients
  PROVE  /\ Other(c) \in Clients /\ Other(c) # c /\ Other(Other(c)) = c
         /\ Clients = {c, Other(c)}
BY SerialAssumption DEF Clients, Other

\* Who has the device open and who is where, seen from one client.
Seen(c) ==
  /\ InUse <=> Ready(c) \/ Ready(Other(c))
  /\ \A l : Someone(l) <=> pc[c] = l \/ pc[Other(c)] = l
  /\ (\E x \in Clients : pc[x] \in Changing)
       <=> pc[c] \in Changing \/ pc[Other(c)] \in Changing
  /\ (IF Ready(Reader) THEN 1 ELSE 0) + (IF Ready(Writer) THEN 1 ELSE 0)
       = (IF Ready(c) THEN 1 ELSE 0) + (IF Ready(Other(c)) THEN 1 ELSE 0)

LEMMA SeenNow == \A c \in Clients : Seen(c)
<1> SUFFICES ASSUME NEW c \in Clients PROVE Seen(c)
  OBVIOUS
<1>1. Clients = {c, Other(c)}
  BY Two
<1>2. InUse <=> Ready(c) \/ Ready(Other(c))
  BY <1>1, Zenon DEF InUse
<1>3. \A l : Someone(l) <=> pc[c] = l \/ pc[Other(c)] = l
  BY <1>1, Zenon DEF Someone
<1>4. (\E x \in Clients : pc[x] \in Changing)
        <=> pc[c] \in Changing \/ pc[Other(c)] \in Changing
  BY <1>1, Zenon
<1>5. (c = Reader /\ Other(c) = Writer) \/ (c = Writer /\ Other(c) = Reader)
  BY SerialAssumption DEF Clients, Other
<1>6. (IF Ready(Reader) THEN 1 ELSE 0) \in Int /\ (IF Ready(Writer) THEN 1 ELSE 0) \in Int
  OBVIOUS
<1> QED BY <1>2, <1>3, <1>4, <1>5, <1>6 DEF Seen

LEMMA SeenNext == (\A c \in Clients : Seen(c))'
BY SeenNow, PTL

-----------------------------------------------------------------------------

LEMMA InitInv == Init => SerialInv
<1> SUFFICES ASSUME Init PROVE SerialInv
  OBVIOUS
<1>0. /\ pc = [c \in Clients |-> "idle"] /\ opened = [c \in Clients |-> null]
      /\ serial_rx = null /\ serial_tx = null /\ todo = <<>> /\ got = none /\ isr = "out"
      /\ ~ rxie /\ rxie \in BOOLEAN
      /\ Reader \in Clients /\ Writer \in Clients
  BY DEF Init, Clients
<1>1. /\ dev \in [flag : Devices, activated : BOOLEAN, ref_count : 0 .. 2, open_flag : SUBSET Flags]
      /\ dev.ref_count = 0 /\ dev.open_flag = {}
  BY DEF Init
<1>2. TypeOK
  BY <1>0, <1>1 DEF Init, TypeOK
<1>3. /\ \A c \in Clients : pc[c] = "idle" /\ opened[c] = null /\ ~ Ready(c)
      /\ ~ InUse
  BY <1>0 DEF Ready, InUse
<1>4. \A c \in Clients : Other(c) \in Clients
  BY Two
<1>5. Protocol
  BY <1>0, <1>1, <1>3, <1>4 DEF Protocol, Changing, Reading, Writing
<1>6. Resources
  BY <1>0, <1>1, <1>3 DEF Resources, Changing, Someone
<1>7. StreamKept /\ Ring /\ Indication
  BY <1>0, <1>1, <1>3 DEF StreamKept, Ring, Indication
<1>8. Modes /\ Written
  BY <1>0, <1>3 DEF Modes, Written, Writing
<1> QED BY <1>2, <1>5, <1>6, <1>7, <1>8 DEF SerialInv

\* A step of a read, of a write or of a handler: nobody opens or closes, the
\* device and what it was opened with stay.
CallStays(c, l) ==
  /\ dev' = dev /\ opened' = opened /\ pc' = [pc EXCEPT ![c] = l]
  /\ pc[c] \notin Changing /\ pc[Other(c)] \notin Changing
  /\ l \in {"idle"} \cup (IF c = Reader THEN Reading ELSE Writing)
  /\ l # "idle" => opened[c] # null

LEMMA CallOK ==
  ASSUME TypeOK, Protocol, Resources, StreamKept,
         NEW c \in Clients, NEW l, CallStays(c, l),
         rxie' = rxie, (serial_rx' = null) = (serial_rx = null),
         (serial_tx' = null) = (serial_tx = null), isr' = "loop" => serial_rx # null
  PROVE  Protocol' /\ Resources' /\ StreamKept'
<1> DEFINE x == Other(c)
<1>0. /\ x \in Clients /\ x # c /\ Other(x) = c /\ Clients = {c, x}
      /\ Reader \in Clients /\ Writer \in Clients
  BY Two DEF Clients
<1>1. /\ pc \in [Clients -> {"idle"} \cup Changing \cup Reading \cup Writing]
      /\ l \in {"idle"} \cup Reading \cup Writing
  BY DEF Protocol, CallStays
<1>2. /\ pc' \in [Clients -> {"idle"} \cup Changing \cup Reading \cup Writing]
      /\ pc'[c] = l /\ pc'[x] = pc[x]
      /\ \A y \in Clients : pc[y] \notin Changing /\ pc'[y] \notin Changing
  BY <1>0, <1>1 DEF CallStays, Changing, Reading, Writing
<1>3. \A y \in Clients : Ready(y)' = Ready(y)
  BY <1>2 DEF Ready, CallStays, Changing
<1>4. InUse' = InUse
  BY <1>3 DEF InUse
<1>5. \A k \in Changing : ~ Someone(k) /\ ~ Someone(k)'
  BY <1>2 DEF Someone
<1>6. Protocol'
  <2>1. pc'[Reader] \notin Writing /\ pc'[Writer] \notin Reading
    BY <1>0, <1>1, <1>2, SerialAssumption DEF CallStays, Protocol, Reading, Writing, Clients, Other
  <2>2. \A y \in Clients : pc'[y] # "idle" => opened'[y] # null
    BY <1>0, <1>2 DEF CallStays, Protocol, Changing
  <2>3. dev'.ref_count = (IF Ready(Reader)' THEN 1 ELSE 0) + (IF Ready(Writer)' THEN 1 ELSE 0)
    <3>1. Ready(Reader)' = Ready(Reader) /\ Ready(Writer)' = Ready(Writer)
      BY <1>0, <1>3
    <3> QED BY <3>1, Zenon DEF Protocol, CallStays
  <2>4. \A y \in Clients : opened'[y] # null =>
            \A f \in {"INT_RX", "INT_TX"} : f \in opened'[y] <=> f \in dev'.flag
    BY Zenon DEF Protocol, CallStays
  <2>5. \A y \in Clients : pc'[y] \notin {"close_rx", "close_tx"}
    BY <1>2 DEF Changing
  <2> QED BY <1>2, <2>1, <2>2, <2>3, <2>4, <2>5, Zenon DEF Protocol
<1>7. Resources'
  <2>1. {"open_rx", "open_tx", "close_rx", "close_tx"} = Changing
    BY DEF Changing
  <2> QED BY <1>2, <1>4, <1>5, <2>1 DEF Resources, CallStays
<1>8. StreamKept'
  <2>1. \A y \in Clients : pc'[Other(y)] \notin {"open_rx", "open_tx"} /\
                             pc[Other(y)] \notin {"open_rx", "open_tx"}
    BY <1>2, Two DEF Changing
  <2>2. \A y \in Clients : Ready(y) /\ "STREAM" \in opened[y] => "STREAM" \in dev.open_flag
    BY <2>1, Zenon DEF StreamKept
  <2>3. ~ InUse => \A y \in Clients : pc[y] = "idle"
    BY <1>2 DEF Protocol, InUse, Ready, Changing
  <2> QED BY <1>3, <1>4, <2>1, <2>2, <2>3 DEF StreamKept, CallStays
<1> QED BY <1>6, <1>7, <1>8

\* A step of an open or a close: the other client is idle.
Turns(c, l) ==
  /\ pc' = [pc EXCEPT ![c] = l]
  /\ pc[Other(c)] = "idle" /\ l \in {"idle"} \cup Changing
  /\ dev'.flag = dev.flag /\ opened'[Other(c)] = opened[Other(c)]

LEMMA TurnOK ==
  ASSUME Protocol, NEW c \in Clients, NEW l, Turns(c, l),
         l \in {"open_rx", "open_tx"} => opened'[c] # null,
         l \in {"close_rx", "close_tx"} => opened'[c] = null /\ opened'[Other(c)] = null,
         opened'[c] # null => \A f \in {"INT_RX", "INT_TX"} : f \in opened'[c] <=> f \in dev.flag,
         dev'.ref_count = (IF Ready(c)' THEN 1 ELSE 0) + (IF Ready(Other(c))' THEN 1 ELSE 0)
  PROVE  Protocol'
<1> DEFINE x == Other(c)
<1>0. /\ x \in Clients /\ x # c /\ Other(x) = c /\ Clients = {c, x}
      /\ Reader \in Clients /\ Writer \in Clients
  BY Two DEF Clients
<1>1. /\ pc' \in [Clients -> {"idle"} \cup Changing \cup Reading \cup Writing]
      /\ pc'[c] = l /\ pc'[x] = "idle"
  BY <1>0 DEF Protocol, Turns
<1>2. l \notin Writing /\ l \notin Reading /\ "idle" \notin Changing \cup Writing \cup Reading
  BY DEF Turns, Changing, Reading, Writing
<1>3. pc'[Reader] \notin Writing /\ pc'[Writer] \notin Reading
  BY <1>0, <1>1, <1>2
<1>4. dev'.ref_count = (IF Ready(Reader)' THEN 1 ELSE 0) + (IF Ready(Writer)' THEN 1 ELSE 0)
  <2>1. Seen(c)'
    BY SeenNext
  <2> QED BY <2>1 DEF Seen
<1>5. \A y \in Clients : pc'[y] \in Changing => pc'[Other(y)] = "idle"
  BY <1>0, <1>1, <1>2
<1>6. \A y \in Clients : pc'[y] \notin {"idle", "close_rx", "close_tx"} => opened'[y] # null
  BY <1>0, <1>1 DEF Turns, Changing
<1>7. \A y \in Clients : pc'[y] \in {"close_rx", "close_tx"} =>
                            opened'[y] = null /\ opened'[Other(y)] = null
  BY <1>0, <1>1
<1>8. \A y \in Clients : opened'[y] # null =>
            \A f \in {"INT_RX", "INT_TX"} : f \in opened'[y] <=> f \in dev'.flag
  BY <1>0 DEF Protocol, Turns
<1> QED BY <1>1, <1>3, <1>4, <1>5, <1>6, <1>7, <1>8, Zenon DEF Protocol

LEMMA OthersIdle ==
  ASSUME Disciplined, Protocol, NEW c \in Clients,
         Alone(c) \/ pc[c] \in Changing
  PROVE  /\ pc[Other(c)] = "idle" /\ Other(c) \in Clients /\ Other(c) # c
         /\ Other(Other(c)) = c
BY Two DEF Disciplined, Protocol, Alone

\* What a step of an open or a close leaves for the reads and the writes.
LEMMA NoCallOn ==
  ASSUME Protocol, Written, NEW c \in Clients, NEW l, Turns(c, l),
         pc[c] \notin Reading \cup Writing,
         todo' = todo, crs' = crs
  PROVE  Modes' /\ Written' /\ pc[Reader] \notin Reading /\ pc'[Reader] \notin Reading
<1>0. /\ Clients = {c, Other(c)} /\ Reader \in Clients /\ Writer \in Clients
  BY Two DEF Clients
<1>1. \A y \in Clients : /\ pc[y] \notin Reading /\ pc[y] \notin Writing
                         /\ pc'[y] \notin Reading /\ pc'[y] \notin Writing
  BY <1>0 DEF Protocol, Turns, Changing, Reading, Writing
<1>2. todo = <<>>
  BY <1>0, <1>1 DEF Written
<1>3. Modes'
  BY <1>0, <1>1 DEF Modes, Reading, Writing
<1>4. Written'
  BY <1>0, <1>1, <1>2 DEF Written, Writing
<1> QED BY <1>0, <1>1, <1>3, <1>4

LEMMA OpenStartOK ==
  ASSUME Disciplined, SerialInv, NEW c \in Clients, NEW oflag \in Opens, OpenStart(c, oflag)
  PROVE  SerialInv'
<1> DEFINE x == Other(c)
<1>0. /\ pc[c] = "idle" /\ isr = "out" /\ opened[c] = null /\ pc[x] = "idle" /\ x \in Clients
      /\ x # c /\ Other(x) = c
      /\ TypeOK /\ Protocol /\ Resources /\ StreamKept /\ Ring /\ Indication /\ Modes /\ Written
  BY OthersIdle DEF OpenStart, At, SerialInv
<1>1. /\ oflag \subseteq Flags
      /\ \A f \in {"INT_RX", "INT_TX"} : f \in oflag <=> f \in dev.flag
  BY <1>0, SerialAssumption DEF Opens, Disciplined, TypeOK, Flags
<1>2. /\ opened' \in [Clients -> {null} \cup SUBSET Flags]
      /\ opened'[c] = oflag \cup (dev.open_flag \cap {"STREAM"}) /\ opened'[x] = opened[x]
      /\ opened'[c] # null /\ opened'[c] \subseteq Flags
  <2>1. oflag \cup (dev.open_flag \cap {"STREAM"}) \in SUBSET Flags
    BY <1>1 DEF Flags
  <2> QED BY <1>0, <2>1, SerialAssumption DEF OpenStart, TypeOK
<1>3. /\ pc' = [pc EXCEPT ![c] = "open_rx"] /\ pc'[c] = "open_rx" /\ pc'[x] = "idle"
  BY <1>0 DEF OpenStart, Goto, Protocol
<1>4. /\ dev' \in [flag : Devices, activated : BOOLEAN, ref_count : 0 .. 2, open_flag : SUBSET Flags]
      /\ dev'.flag = dev.flag /\ dev'.activated /\ dev'.ref_count = dev.ref_count
      /\ dev'.open_flag = oflag \cap {"STREAM"}
  BY <1>0, <1>1 DEF OpenStart, TypeOK, LowByte
<1>5. /\ ~ Ready(c) /\ ~ Ready(c)' /\ Ready(x)' = Ready(x)
      /\ Seen(c) /\ Seen(c)'
  BY <1>0, <1>2, <1>3, SeenNow, SeenNext DEF Ready
<1>6. /\ InUse' <=> InUse
      /\ InUse <=> Ready(x)
      /\ Someone("open_rx")'
      /\ \A l \in {"open_tx", "close_rx", "close_tx"} : ~ Someone(l) /\ ~ Someone(l)'
      /\ dev.ref_count = (IF Ready(c) THEN 1 ELSE 0) + (IF Ready(x) THEN 1 ELSE 0)
  <2>1. (InUse' <=> InUse) /\ (InUse <=> Ready(x))
    BY <1>5, Zenon DEF Seen
  <2>2. /\ Someone("open_rx")'
        /\ \A l \in {"open_tx", "close_rx", "close_tx"} : ~ Someone(l) /\ ~ Someone(l)'
    BY <1>0, <1>3, <1>5 DEF Seen
  <2>3. dev.ref_count = (IF Ready(c) THEN 1 ELSE 0) + (IF Ready(x) THEN 1 ELSE 0)
    BY <1>0, <1>5 DEF Seen, Protocol
  <2> QED BY <2>1, <2>2, <2>3
<1>7. serial_rx' = serial_rx /\ serial_tx' = serial_tx
  BY <1>0, <1>5, <1>6 DEF OpenStart, Resources, Seen
<1>8. UNCHANGED <<bufsz, rxie, rxside, txside>>
  BY DEF OpenStart
<1>9. Turns(c, "open_rx")
  BY <1>0, <1>2, <1>3, <1>4 DEF Turns, Changing
<1>10. TypeOK'
  BY <1>0, <1>2, <1>4, <1>7, <1>8 DEF TypeOK, rxside, txside
<1>11. Protocol'
  BY <1>0, <1>1, <1>2, <1>4, <1>5, <1>6, <1>9, TurnOK
<1>12. Resources'
  BY <1>0, <1>3, <1>4, <1>5, <1>6, <1>7, <1>8 DEF Resources, rxside
<1>13. StreamKept'
  <2>1. Clients = {c, x}
    BY Two
  <2>2. Ready(x)' /\ "STREAM" \in opened'[x] => "STREAM" \in opened'[c]
    BY <1>0, <1>2, <1>5 DEF StreamKept
  <2> QED BY <1>0, <1>3, <1>5, <2>1, <2>2 DEF StreamKept
<1>14. Modes' /\ Written' /\ pc[Reader] \notin Reading
  <2>1. pc[c] \notin Reading \cup Writing
    BY <1>0 DEF Reading, Writing
  <2> QED BY <1>0, <1>8, <1>9, <2>1, NoCallOn DEF txside
<1>15. Ring' /\ Indication'
  BY <1>0, <1>7, <1>8, <1>14 DEF Ring, LapsRight, Indication, Empty, rxside
<1> QED BY <1>10, <1>11, <1>12, <1>13, <1>14, <1>15 DEF SerialInv

LEMMA NewFifoOK ==
  ASSUME bufsz \in BufSizes
  PROVE  NewFifo \in Fifos(bufsz) /\ NewFifo # null /\ Empty(NewFifo) /\ ~ NewFifo.is_full
<1>1. bufsz \in Nat /\ bufsz > 1
  BY SerialAssumption
<1>2. NewFifo \in Fifos(bufsz)
  BY <1>1 DEF NewFifo, Fifos
<1>3. NewFifo # null
  BY <1>2, SerialAssumption
<1> QED BY <1>2, <1>3 DEF NewFifo, Empty

LEMMA OpenFailsOK ==
  ASSUME Disciplined, SerialInv, NEW c \in Clients, OpenFails(c)
  PROVE  SerialInv'
<1>0. /\ TypeOK /\ Protocol /\ Resources /\ StreamKept /\ Ring /\ Indication /\ Modes /\ Written
      /\ pc' = pc /\ opened' = opened
      /\ UNCHANGED <<bufsz, rxie, rxside, txside>>
      /\ pc[c] = "idle" /\ pc[Other(c)] = "idle" /\ Other(c) \in Clients /\ Clients = {c, Other(c)}
  BY OthersIdle, Two DEF OpenFails, At, SerialInv
<1>1. /\ dev' \in [flag : Devices, activated : BOOLEAN, ref_count : 0 .. 2, open_flag : SUBSET Flags]
      /\ dev'.flag = dev.flag /\ dev'.activated /\ dev'.ref_count = dev.ref_count
      /\ dev'.open_flag = dev.open_flag
  BY <1>0 DEF OpenFails, TypeOK
<1>2. \A y \in Clients : (Ready(y)' <=> Ready(y)) /\ pc[y] = "idle"
  BY <1>0 DEF Ready
<1>3. /\ InUse' <=> InUse
      /\ \A l \in Changing : ~ Someone(l) /\ ~ Someone(l)'
  BY <1>0, <1>2 DEF InUse, Someone, Changing
<1>4. serial_rx' = serial_rx /\ serial_tx' = serial_tx
  BY <1>0, <1>3 DEF OpenFails, Resources, Changing
<1>5. TypeOK'
  BY <1>0, <1>1, <1>4 DEF TypeOK, rxside, txside
<1>6. Protocol'
  <2>1. (IF Ready(Reader) THEN 1 ELSE 0) + (IF Ready(Writer) THEN 1 ELSE 0)
          = (IF Ready(Reader)' THEN 1 ELSE 0) + (IF Ready(Writer)' THEN 1 ELSE 0)
    BY <1>2 DEF Clients
  <2>2. dev'.ref_count = (IF Ready(Reader)' THEN 1 ELSE 0) + (IF Ready(Writer)' THEN 1 ELSE 0)
    BY <1>0, <1>1, <2>1 DEF Protocol
  <2>3. \A y \in Clients :
          /\ pc'[y] \in Changing => pc'[Other(y)] = "idle"
          /\ pc'[y] \notin {"idle", "close_rx", "close_tx"} => opened'[y] # null
          /\ pc'[y] \in {"close_rx", "close_tx"} => opened'[y] = null /\ opened'[Other(y)] = null
          /\ opened'[y] # null =>
               \A f \in {"INT_RX", "INT_TX"} : f \in opened'[y] <=> f \in dev'.flag
    BY <1>0, <1>1 DEF Protocol
  <2>4. /\ pc' \in [Clients -> {"idle"} \cup Changing \cup Reading \cup Writing]
        /\ pc'[Reader] \notin Writing /\ pc'[Writer] \notin Reading
    BY <1>0 DEF Protocol
  <2> QED BY <2>2, <2>3, <2>4, Zenon DEF Protocol
<1>7. Resources'
  BY <1>0, <1>1, <1>3, <1>4 DEF Resources, rxside, Changing
<1>8. StreamKept'
  BY <1>0, <1>1, <1>2, <1>3 DEF StreamKept
<1>9. Ring' /\ Indication' /\ Modes' /\ Written'
  BY <1>0, <1>1, <1>4 DEF Ring, LapsRight, Indication, Empty, Modes, Written, NewlineNext, rxside, txside
<1> QED BY <1>5, <1>6, <1>7, <1>8, <1>9 DEF SerialInv

LEMMA ConfigOK ==
  ASSUME Disciplined, SerialInv, NEW c \in Clients, NEW n \in BufSizes, Config(c, n)
  PROVE  SerialInv'
<1>0. /\ TypeOK /\ Protocol /\ Resources /\ StreamKept /\ Ring /\ Indication /\ Modes /\ Written
      /\ bufsz' = n /\ (n # bufsz => dev.ref_count = 0)
      /\ UNCHANGED <<dev, serial_rx, serial_tx, rxie, rxside, pc, opened, txside>>
      /\ pc[c] = "idle" /\ pc[Other(c)] = "idle" /\ Other(c) \in Clients
  BY OthersIdle DEF Config, At, SerialInv
<1>1. Seen(c)
  BY SeenNow
<1>2. dev.ref_count = 0 => ~ InUse
  BY <1>0, <1>1 DEF Seen, Protocol
<1>3. n # bufsz => serial_rx = null
  <2>1. ~ Someone("open_tx") /\ ~ Someone("close_rx")
    BY <1>0, <1>1 DEF Seen
  <2> QED BY <1>0, <1>2, <2>1 DEF Resources
<1>4. TypeOK'
  BY <1>0, <1>3 DEF TypeOK, rxside, txside
<1>5. Protocol' /\ Resources' /\ StreamKept' /\ Modes' /\ Written'
  BY <1>0 DEF Protocol, Resources, StreamKept, Modes, Written, NewlineNext, rxside, txside, Ready,
              InUse, Someone
<1>6. Ring' /\ Indication'
  BY <1>0, <1>3 DEF Ring, LapsRight, Indication, Empty, rxside
<1> QED BY <1>4, <1>5, <1>6 DEF SerialInv

LEMMA OpenRxOK ==
  ASSUME Disciplined, SerialInv, NEW c \in Clients, OpenRx(c)
  PROVE  SerialInv'
<1> DEFINE x == Other(c)
           rx == "INT_RX" \in dev.flag
<1>0. /\ pc[c] = "open_rx" /\ isr = "out" /\ pc[x] = "idle" /\ x \in Clients
      /\ x # c /\ Other(x) = c /\ Clients = {c, x}
      /\ TypeOK /\ Protocol /\ Resources /\ StreamKept /\ Ring /\ Indication /\ Modes /\ Written
  BY OthersIdle, Two DEF OpenRx, At, SerialInv, Changing
<1>1. /\ opened' = opened /\ opened[c] # null /\ opened[c] \in SUBSET Flags
      /\ ("INT_RX" \in opened[c] <=> rx)
  BY <1>0 DEF OpenRx, Protocol, TypeOK
<1>2. /\ pc' = [pc EXCEPT ![c] = "open_tx"] /\ pc'[c] = "open_tx" /\ pc'[x] = "idle"
  BY <1>0 DEF OpenRx, Goto, Protocol
<1>3. /\ dev' \in [flag : Devices, activated : BOOLEAN, ref_count : 0 .. 2, open_flag : SUBSET Flags]
      /\ dev'.flag = dev.flag /\ dev'.activated = dev.activated /\ dev'.ref_count = dev.ref_count
      /\ dev'.open_flag = dev.open_flag \cup (IF rx THEN {"INT_RX"} ELSE {})
  BY <1>0, <1>1 DEF OpenRx, TypeOK, Flags
<1>4. /\ ~ Ready(c) /\ ~ Ready(c)' /\ (Ready(x)' <=> Ready(x))
      /\ Seen(c) /\ Seen(c)'
  BY <1>0, <1>1, <1>2, SeenNow, SeenNext DEF Ready
<1>5. /\ InUse' <=> InUse
      /\ Someone("open_rx") /\ ~ Someone("open_rx")' /\ ~ Someone("open_tx") /\ Someone("open_tx")'
      /\ \A l \in {"close_rx", "close_tx"} : ~ Someone(l) /\ ~ Someone(l)'
  BY <1>0, <1>2, <1>4 DEF Seen
<1>6. UNCHANGED <<bufsz, serial_tx, rxside, txside>>
  BY DEF OpenRx
<1>7. Turns(c, "open_tx")
  BY <1>0, <1>1, <1>2, <1>3 DEF Turns, Changing
<1>8. /\ serial_rx' = IF serial_rx = null /\ rx THEN NewFifo ELSE serial_rx
      /\ rxie' = (rxie \/ (serial_rx = null /\ rx))
  BY <1>1 DEF OpenRx
<1>9. bufsz \in BufSizes
  BY <1>0 DEF TypeOK
<1>10. TypeOK'
  BY <1>0, <1>1, <1>3, <1>6, <1>8, <1>9, NewFifoOK DEF TypeOK, rxside, txside
<1>11. Protocol'
  <2>1. dev.ref_count = (IF Ready(c) THEN 1 ELSE 0) + (IF Ready(x) THEN 1 ELSE 0)
    BY <1>0, <1>4 DEF Seen, Protocol
  <2>2. \A f \in {"INT_RX", "INT_TX"} : f \in opened'[c] <=> f \in dev.flag
    BY <1>0, <1>1 DEF Protocol
  <2> QED BY <1>0, <1>1, <1>3, <1>4, <1>7, <2>1, <2>2, TurnOK
<1>12. Resources'
  <2>1. rxie' = (serial_rx' # null)
    BY <1>0, <1>8, <1>9, NewFifoOK DEF Resources
  <2>2. rxie' <=> rx
    BY <1>0, <1>8 DEF Resources
  <2>3. "INT_RX" \in dev'.open_flag <=> rx
    BY <1>0, <1>3, <1>5 DEF Resources
  <2>4. "INT_TX" \notin dev.open_flag /\ "INT_TX" \notin dev'.open_flag
    BY <1>0, <1>3, <1>5 DEF Resources
  <2>5. dev'.activated /\ isr' = "out"
    BY <1>0, <1>3, <1>6 DEF Resources, Changing, rxside
  <2> QED BY <1>0, <1>3, <1>5, <1>6, <2>1, <2>2, <2>3, <2>4, <2>5 DEF Resources
<1>13. StreamKept'
  BY <1>0, <1>1, <1>2, <1>3, <1>4 DEF StreamKept
<1>14. Modes' /\ Written'
  <2>1. pc[c] \notin Reading \cup Writing
    BY <1>0 DEF Reading, Writing
  <2> QED BY <1>0, <1>6, <1>7, <2>1, NoCallOn DEF txside
<1>15. Ring' /\ Indication'
  <2>1. pc[Reader] \notin Reading
    BY <1>0 DEF Protocol, Changing, Reading, Clients
  <2> QED BY <1>0, <1>6, <1>8, <1>9, <2>1, NewFifoOK DEF Ring, LapsRight, Indication, Empty, rxside
<1> QED BY <1>10, <1>11, <1>12, <1>13, <1>14, <1>15 DEF SerialInv

LEMMA OpenTxOK ==
  ASSUME Disciplined, SerialInv, NEW c \in Clients, OpenTx(c)
  PROVE  SerialInv'
<1> DEFINE x == Other(c)
           tx == "INT_TX" \in dev.flag
<1>0. /\ pc[c] = "open_tx" /\ isr = "out" /\ pc[x] = "idle" /\ x \in Clients
      /\ x # c /\ Other(x) = c /\ Clients = {c, x}
      /\ TypeOK /\ Protocol /\ Resources /\ StreamKept /\ Ring /\ Indication /\ Modes /\ Written
  BY OthersIdle, Two DEF OpenTx, At, SerialInv, Changing
<1>1. /\ opened' = opened /\ opened[c] # null /\ opened[c] \in SUBSET Flags
      /\ ("INT_TX" \in opened[c] <=> tx)
  BY <1>0 DEF OpenTx, Protocol, TypeOK
<1>2. /\ pc' = [pc EXCEPT ![c] = "idle"] /\ pc'[c] = "idle" /\ pc'[x] = "idle"
  BY <1>0 DEF OpenTx, Goto, Protocol
<1>3. /\ ~ Ready(c) /\ Ready(c)' /\ (Ready(x)' <=> Ready(x))
      /\ Seen(c) /\ Seen(c)'
  BY <1>0, <1>1, <1>2, SeenNow, SeenNext DEF Ready
<1>4. dev.ref_count = (IF Ready(c) THEN 1 ELSE 0) + (IF Ready(x) THEN 1 ELSE 0)
  BY <1>0, <1>3 DEF Seen, Protocol
<1>5. /\ dev' \in [flag : Devices, activated : BOOLEAN, ref_count : 0 .. 2, open_flag : SUBSET Flags]
      /\ dev'.flag = dev.flag /\ dev'.activated = dev.activated
      /\ dev'.ref_count = dev.ref_count + 1
      /\ dev'.open_flag = dev.open_flag \cup (opened[c] \cap {"INT_TX", "STREAM"})
  <2>1. dev.ref_count + 1 \in 0 .. 2
    BY <1>3, <1>4
  <2>2. dev.open_flag \cup (opened[c] \cap {"INT_TX", "STREAM"}) \in SUBSET Flags
    BY <1>0, <1>1 DEF TypeOK
  <2> QED BY <1>0, <2>1, <2>2 DEF OpenTx, TypeOK
<1>6. /\ InUse'
      /\ Someone("open_tx") /\ ~ Someone("open_rx")
      /\ \A l \in {"close_rx", "close_tx"} : ~ Someone(l)
      /\ \A l \in Changing : ~ Someone(l)'
  <2>1. InUse'
    BY <1>3, Zenon DEF Seen
  <2> QED BY <1>0, <1>2, <1>3, <2>1 DEF Seen, Changing
<1>7. UNCHANGED <<bufsz, serial_rx, rxie, rxside, txside>>
  BY DEF OpenTx
<1>8. Turns(c, "idle")
  BY <1>0, <1>1, <1>2, <1>5 DEF Turns
<1>9. serial_tx' = IF serial_tx = null /\ tx THEN FALSE ELSE serial_tx
  BY <1>1 DEF OpenTx
<1>10. TypeOK'
  BY <1>0, <1>1, <1>5, <1>7, <1>9 DEF TypeOK, rxside, txside
<1>11. Protocol'
  <2>1. \A f \in {"INT_RX", "INT_TX"} : f \in opened'[c] <=> f \in dev.flag
    BY <1>0, <1>1 DEF Protocol
  <2>2. dev'.ref_count = (IF Ready(c)' THEN 1 ELSE 0) + (IF Ready(x)' THEN 1 ELSE 0)
    BY <1>3, <1>4, <1>5
  <2> QED BY <1>0, <1>8, <2>1, <2>2, TurnOK
<1>12. Resources'
  <2>1. rxie' = (serial_rx' # null) /\ (rxie' <=> "INT_RX" \in dev.flag)
    BY <1>0, <1>6, <1>7 DEF Resources
  <2>2. serial_tx' # null <=> tx
    BY <1>0, <1>6, <1>9, SerialAssumption DEF Resources
  <2>3. "INT_RX" \in dev'.open_flag <=> "INT_RX" \in dev.flag
    BY <1>0, <1>5, <1>6 DEF Resources
  <2>4. "INT_TX" \in dev'.open_flag <=> tx
    BY <1>0, <1>1, <1>5, <1>6 DEF Resources
  <2>5. dev'.activated /\ isr' = "out"
    BY <1>0, <1>5, <1>7 DEF Resources, Changing, rxside
  <2> QED BY <1>0, <1>5, <1>6, <2>1, <2>2, <2>3, <2>4, <2>5 DEF Resources, Changing
<1>13. StreamKept'
  <2>1. \A y \in Clients : Ready(y)' /\ "STREAM" \in opened'[y] => "STREAM" \in dev'.open_flag
    <3>1. "STREAM" \in opened[c] => "STREAM" \in dev'.open_flag
      BY <1>5
    <3>2. Ready(x) /\ "STREAM" \in opened[x] => "STREAM" \in opened[c]
      BY <1>0 DEF StreamKept
    <3> QED BY <1>0, <1>1, <1>3, <3>1, <3>2
  <2>2. \A y \in Clients : pc'[Other(y)] = "idle"
    BY <1>0, <1>2
  <2> QED BY <1>6, <2>1, <2>2 DEF StreamKept
<1>14. Modes' /\ Written' /\ pc[Reader] \notin Reading
  <2>1. pc[c] \notin Reading \cup Writing
    BY <1>0 DEF Reading, Writing
  <2> QED BY <1>0, <1>7, <1>8, <2>1, NoCallOn DEF txside
<1>15. Ring' /\ Indication'
  BY <1>0, <1>7, <1>14 DEF Ring, LapsRight, Indication, Empty, rxside
<1> QED BY <1>10, <1>11, <1>12, <1>13, <1>14, <1>15 DEF SerialInv

LEMMA CloseStartOK ==
  ASSUME Disciplined, SerialInv, NEW c \in Clients, CloseStart(c)
  PROVE  SerialInv'
<1> DEFINE x == Other(c)
           l == IF Ready(x) THEN "idle" ELSE "close_rx"
<1>0. /\ pc[c] = "idle" /\ isr = "out" /\ pc[x] = "idle" /\ x \in Clients
      /\ x # c /\ Other(x) = c /\ Clients = {c, x}
      /\ TypeOK /\ Protocol /\ Resources /\ StreamKept /\ Ring /\ Indication /\ Modes /\ Written
  BY OthersIdle, Two DEF CloseStart, At, SerialInv, Changing
<1>1. /\ opened' \in [Clients -> {null} \cup SUBSET Flags]
      /\ opened'[c] = null /\ opened'[x] = opened[x] /\ opened[c] # null
  BY <1>0 DEF CloseStart, TypeOK
<1>2. Ready(c) /\ (Ready(x) <=> opened[x] # null) /\ Seen(c) /\ Seen(c)'
  BY <1>0, <1>1, SeenNow, SeenNext DEF Ready
<1>3. dev.ref_count = 1 + (IF Ready(x) THEN 1 ELSE 0)
  BY <1>0, <1>2 DEF Seen, Protocol
<1>4. /\ pc' = [pc EXCEPT ![c] = l] /\ pc'[c] = l /\ pc'[x] = "idle"
  <2>1. (IF dev.ref_count - 1 = 0 THEN "close_rx" ELSE "idle") = l
    BY <1>3
  <2>2. pc' = [pc EXCEPT ![c] = l]
    BY <2>1 DEF CloseStart, Goto
  <2> HIDE DEF l
  <2> QED BY <1>0, <2>2 DEF Protocol
<1>5. ~ Ready(c)' /\ (Ready(x)' <=> Ready(x))
  BY <1>0, <1>1, <1>4 DEF Ready
<1>6. /\ dev' \in [flag : Devices, activated : BOOLEAN, ref_count : 0 .. 2, open_flag : SUBSET Flags]
      /\ dev'.flag = dev.flag /\ dev'.activated = dev.activated
      /\ dev'.ref_count = dev.ref_count - 1
      /\ dev'.open_flag = dev.open_flag
  <2>1. dev.ref_count - 1 \in 0 .. 2
    BY <1>3
  <2> QED BY <1>0, <2>1 DEF CloseStart, TypeOK
<1>7. /\ InUse /\ (InUse' <=> Ready(x))
      /\ \A k \in Changing : ~ Someone(k)
      /\ ~ Someone("open_rx")' /\ ~ Someone("open_tx")' /\ ~ Someone("close_tx")'
      /\ (Someone("close_rx")' <=> ~ Ready(x))
  <2>1. InUse /\ (InUse' <=> Ready(x))
    BY <1>2, <1>5, Zenon DEF Seen
  <2> QED BY <1>0, <1>2, <1>4, <2>1 DEF Seen, Changing
<1>8. UNCHANGED <<bufsz, serial_rx, serial_tx, rxie, rxside, txside>>
  BY DEF CloseStart
<1>9. Turns(c, l)
  BY <1>0, <1>1, <1>4, <1>6 DEF Turns, Changing
<1>10. TypeOK'
  BY <1>0, <1>1, <1>6, <1>8 DEF TypeOK, rxside, txside
<1>11. Protocol'
  <2>1. dev'.ref_count = (IF Ready(c)' THEN 1 ELSE 0) + (IF Ready(x)' THEN 1 ELSE 0)
    BY <1>3, <1>5, <1>6
  <2>2. l \in {"close_rx", "close_tx"} => opened'[c] = null /\ opened'[x] = null
    BY <1>1, <1>2
  <2>3. l \notin {"open_rx", "open_tx"}
    OBVIOUS
  <2> HIDE DEF l
  <2> QED BY <1>0, <1>1, <1>9, <2>1, <2>2, <2>3, TurnOK
<1>12. Resources'
  <2>1. rxie' = (serial_rx' # null) /\ (rxie' <=> "INT_RX" \in dev.flag)
    BY <1>0, <1>7, <1>8 DEF Resources
  <2>2. serial_tx' # null <=> "INT_TX" \in dev.flag
    BY <1>0, <1>7, <1>8 DEF Resources
  <2>3. "INT_RX" \in dev'.open_flag <=> "INT_RX" \in dev.flag
    BY <1>0, <1>6, <1>7 DEF Resources, Changing
  <2>4. "INT_TX" \in dev'.open_flag <=> "INT_TX" \in dev.flag
    BY <1>0, <1>6, <1>7 DEF Resources, Changing
  <2>5. dev'.activated /\ isr' = "out"
    BY <1>0, <1>6, <1>7, <1>8 DEF Resources, rxside
  <2> HIDE DEF l
  <2> QED BY <1>6, <1>7, <2>1, <2>2, <2>3, <2>4, <2>5, Zenon DEF Resources
<1>13. StreamKept'
  <2>1. Ready(x) /\ "STREAM" \in opened[x] => "STREAM" \in dev.open_flag
    BY <1>0 DEF StreamKept
  <2>2. pc'[c] \notin {"open_rx", "open_tx"} /\ (~ Ready(x) => pc'[c] # "idle")
    BY <1>4
  <2> HIDE DEF l
  <2> QED BY <1>0, <1>1, <1>5, <1>6, <1>7, <2>1, <2>2 DEF StreamKept
<1>14. Modes' /\ Written' /\ pc[Reader] \notin Reading
  <2>1. pc[c] \notin Reading \cup Writing
    BY <1>0 DEF Reading, Writing
  <2> HIDE DEF l
  <2> QED BY <1>0, <1>8, <1>9, <2>1, NoCallOn DEF txside
<1>15. Ring' /\ Indication'
  BY <1>0, <1>8, <1>14 DEF Ring, LapsRight, Indication, Empty, rxside
<1> QED BY <1>10, <1>11, <1>12, <1>13, <1>14, <1>15 DEF SerialInv

LEMMA CloseRxOK ==
  ASSUME Disciplined, SerialInv, NEW c \in Clients, CloseRx(c)
  PROVE  SerialInv'
<1> DEFINE x == Other(c)
           rx == "INT_RX" \in dev.flag
<1>0. /\ pc[c] = "close_rx" /\ isr = "out" /\ pc[x] = "idle" /\ x \in Clients
      /\ x # c /\ Other(x) = c /\ Clients = {c, x}
      /\ TypeOK /\ Protocol /\ Resources /\ StreamKept /\ Ring /\ Indication /\ Modes /\ Written
  BY OthersIdle, Two DEF CloseRx, At, SerialInv, Changing
<1>1. opened' = opened /\ opened[c] = null /\ opened[x] = null
  BY <1>0 DEF CloseRx, Protocol
<1>2. /\ pc' = [pc EXCEPT ![c] = "close_tx"] /\ pc'[c] = "close_tx" /\ pc'[x] = "idle"
  BY <1>0 DEF CloseRx, Goto, Protocol
<1>3. /\ ~ Ready(c) /\ ~ Ready(c)' /\ ~ Ready(x)' /\ ~ Ready(x)
      /\ Seen(c) /\ Seen(c)'
  BY <1>1, SeenNow, SeenNext DEF Ready
<1>4. /\ ~ InUse /\ ~ InUse'
      /\ Someone("close_rx") /\ ~ Someone("close_rx")' /\ Someone("close_tx")'
      /\ \A l \in {"open_rx", "open_tx"} : ~ Someone(l) /\ ~ Someone(l)'
  BY <1>0, <1>2, <1>3 DEF Seen
<1>5. /\ dev' \in [flag : Devices, activated : BOOLEAN, ref_count : 0 .. 2, open_flag : SUBSET Flags]
      /\ dev'.flag = dev.flag /\ dev'.activated = dev.activated /\ dev'.ref_count = dev.ref_count
      /\ dev'.open_flag = dev.open_flag \ {"INT_RX"}
  BY <1>0 DEF CloseRx, TypeOK
<1>6. ("INT_RX" \in dev.open_flag <=> rx) /\ (rxie <=> rx) /\ (serial_rx # null <=> rx)
  BY <1>0, <1>4 DEF Resources
<1>7. /\ ~ rxie' /\ rxie' \in BOOLEAN /\ serial_rx' = null /\ got' = none
      /\ UNCHANGED <<bufsz, serial_tx, dr, isr, indicated, txside>>
  BY <1>0, <1>6 DEF CloseRx, Ring
<1>8. Turns(c, "close_tx")
  BY <1>0, <1>1, <1>2, <1>5 DEF Turns, Changing
<1>9. TypeOK'
  BY <1>0, <1>1, <1>5, <1>7 DEF TypeOK, txside
<1>10. Protocol'
  <2>1. dev'.ref_count = (IF Ready(c)' THEN 1 ELSE 0) + (IF Ready(x)' THEN 1 ELSE 0)
    BY <1>0, <1>3, <1>5 DEF Seen, Protocol
  <2> QED BY <1>0, <1>1, <1>8, <2>1, TurnOK
<1>11. Resources'
  <2>1. serial_tx' # null <=> "INT_TX" \in dev.flag
    BY <1>0, <1>4, <1>7 DEF Resources
  <2>2. "INT_TX" \in dev'.open_flag <=> "INT_TX" \in dev.flag
    BY <1>0, <1>4, <1>5 DEF Resources
  <2>3. dev'.activated /\ isr' = "out"
    BY <1>0, <1>5, <1>7 DEF Resources, Changing
  <2> QED BY <1>4, <1>5, <1>7, <2>1, <2>2, <2>3 DEF Resources
<1>12. StreamKept'
  BY <1>0, <1>2, <1>3 DEF StreamKept
<1>13. Modes' /\ Written'
  <2>1. pc[c] \notin Reading \cup Writing
    BY <1>0 DEF Reading, Writing
  <2> QED BY <1>0, <1>7, <1>8, <2>1, NoCallOn DEF txside
<1>14. Ring' /\ Indication'
  BY <1>7 DEF Ring, Indication
<1> QED BY <1>9, <1>10, <1>11, <1>12, <1>13, <1>14 DEF SerialInv

LEMMA CloseTxOK ==
  ASSUME Disciplined, SerialInv, NEW c \in Clients, CloseTx(c)
  PROVE  SerialInv'
<1> DEFINE x == Other(c)
<1>0. /\ pc[c] = "close_tx" /\ isr = "out" /\ pc[x] = "idle" /\ x \in Clients
      /\ x # c /\ Other(x) = c /\ Clients = {c, x}
      /\ TypeOK /\ Protocol /\ Resources /\ StreamKept /\ Ring /\ Indication /\ Modes /\ Written
  BY OthersIdle, Two DEF CloseTx, At, SerialInv, Changing
<1>1. opened' = opened /\ opened[c] = null /\ opened[x] = null
  BY <1>0 DEF CloseTx, Protocol
<1>2. /\ pc' = [pc EXCEPT ![c] = "idle"] /\ pc'[c] = "idle" /\ pc'[x] = "idle"
  BY <1>0 DEF CloseTx, Goto, Protocol
<1>3. /\ ~ Ready(c) /\ ~ Ready(c)' /\ ~ Ready(x)' /\ ~ Ready(x)
      /\ Seen(c) /\ Seen(c)'
  BY <1>1, SeenNow, SeenNext DEF Ready
<1>4. /\ ~ InUse /\ ~ InUse' /\ Someone("close_tx")
      /\ ~ Someone("close_rx") /\ ~ Someone("open_rx") /\ ~ Someone("open_tx")
      /\ \A l \in Changing : ~ Someone(l)'
  BY <1>0, <1>2, <1>3 DEF Seen, Changing
<1>5. /\ dev' \in [flag : Devices, activated : BOOLEAN, ref_count : 0 .. 2, open_flag : SUBSET Flags]
      /\ dev'.flag = dev.flag /\ dev'.ref_count = dev.ref_count /\ dev'.open_flag = {}
  BY <1>0 DEF CloseTx, TypeOK
<1>6. ~ rxie /\ serial_rx = null /\ serial_tx' = null
  <2>1. ~ rxie /\ serial_rx = null
    BY <1>0, <1>4 DEF Resources
  <2>2. "INT_TX" \in dev.open_flag <=> serial_tx # null
    BY <1>0, <1>4 DEF Resources
  <2> QED BY <2>1, <2>2 DEF CloseTx
<1>7. UNCHANGED <<bufsz, serial_rx, rxie, rxside, txside>>
  BY DEF CloseTx
<1>8. Turns(c, "idle")
  BY <1>0, <1>1, <1>2, <1>5 DEF Turns
<1>9. TypeOK'
  BY <1>0, <1>1, <1>5, <1>6, <1>7 DEF TypeOK, txside, rxside
<1>10. Protocol'
  <2>1. dev'.ref_count = (IF Ready(c)' THEN 1 ELSE 0) + (IF Ready(x)' THEN 1 ELSE 0)
    BY <1>0, <1>3, <1>5 DEF Seen, Protocol
  <2> QED BY <1>0, <1>1, <1>8, <2>1, TurnOK
<1>11. Resources'
  BY <1>0, <1>2, <1>4, <1>5, <1>6, <1>7 DEF Resources, Changing, rxside
<1>12. StreamKept'
  BY <1>0, <1>2, <1>3, <1>5 DEF StreamKept
<1>13. Modes' /\ Written'
  <2>1. pc[c] \notin Reading \cup Writing
    BY <1>0 DEF Reading, Writing
  <2> QED BY <1>0, <1>7, <1>8, <2>1, NoCallOn DEF txside
<1>14. Ring' /\ Indication'
  BY <1>0, <1>6, <1>7 DEF Ring, LapsRight, Indication, rxside
<1> QED BY <1>9, <1>10, <1>11, <1>12, <1>13, <1>14 DEF SerialInv

-----------------------------------------------------------------------------
(* The ring. *)

\* a % n for an index that has gone round the ring at most once.
LEMMA ModOnce ==
  ASSUME NEW n \in Nat, n > 0, NEW a \in 0 .. 2 * n - 1
  PROVE  a % n = IF a < n THEN a ELSE a - n
<1>1. CASE a < n
  BY <1>1
<1>2. CASE ~ (a < n)
  <2>1. a - n \in 0 .. n - 1 /\ a = 1 * n + (a - n)
    BY <1>2
  <2>2. a % n = a - n
    BY <2>1
  <2> QED BY <1>2, <2>2
<1> QED BY <1>1, <1>2

LEMMA NextIndex ==
  ASSUME bufsz \in BufSizes, NEW i \in 0 .. bufsz - 1
  PROVE  /\ bufsz \in Nat /\ bufsz > 1 /\ (i + 1) % bufsz \in 0 .. bufsz - 1
         /\ (i + 1) % bufsz = IF i + 1 < bufsz THEN i + 1 ELSE 0
<1>1. bufsz \in Nat /\ bufsz > 1
  BY SerialAssumption
<1>2. i + 1 \in 0 .. 2 * bufsz - 1 /\ i + 1 <= bufsz
  BY <1>1
<1>3. (i + 1) % bufsz = IF i + 1 < bufsz THEN i + 1 ELSE (i + 1) - bufsz
  BY <1>1, <1>2, ModOnce
<1> QED BY <1>1, <1>2, <1>3

LEMMA LengthOK ==
  ASSUME bufsz \in BufSizes, NEW rx \in Fifos(bufsz), LapsRight(rx)
  PROVE  /\ rx_length(rx) \in 0 .. bufsz - 1
         /\ Empty(rx) <=> rx_length(rx) = 0
         /\ Empty(rx) <=> rx.get_index = rx.put_index
<1>1. bufsz \in Nat /\ bufsz > 1 /\ rx.get_index \in 0 .. bufsz - 1 /\ rx.put_index \in 0 .. bufsz - 1
  BY SerialAssumption DEF Fifos
<1>2. rx.is_full => rx.get_index # rx.put_index
  BY <1>1, NextIndex DEF LapsRight
<1> QED BY <1>1, <1>2 DEF rx_length, Empty

\* A FIFO after a put and after a get.
LEMMA FifoExcept ==
  ASSUME NEW n, NEW F, NEW P, NEW f \in F, NEW p \in P, NEW g \in P, NEW u \in BOOLEAN,
         NEW rx \in [size : {n}, buffer : F, put_index : P, get_index : P, is_full : BOOLEAN],
         NEW r, r = [rx EXCEPT !.buffer = f, !.put_index = p, !.get_index = g, !.is_full = u]
  PROVE  /\ r \in [size : {n}, buffer : F, put_index : P, get_index : P, is_full : BOOLEAN]
         /\ r.size = n /\ r.buffer = f /\ r.put_index = p /\ r.get_index = g /\ r.is_full = u
<1>1. r.size = n /\ r.buffer = f /\ r.put_index = p /\ r.get_index = g /\ r.is_full = u
  OBVIOUS
<1>2. r \in [size : {n}, buffer : F, put_index : P, get_index : P, is_full : BOOLEAN]
  OBVIOUS
<1> QED BY <1>1, <1>2

LEMMA FifoExceptGet ==
  ASSUME NEW n, NEW F, NEW P, NEW f \in F, NEW g \in P, NEW u \in BOOLEAN,
         NEW rx \in [size : {n}, buffer : F, put_index : P, get_index : P, is_full : BOOLEAN],
         NEW r, r = [rx EXCEPT !.buffer = f, !.get_index = g, !.is_full = u]
  PROVE  /\ r \in [size : {n}, buffer : F, put_index : P, get_index : P, is_full : BOOLEAN]
         /\ r.size = n /\ r.buffer = f /\ r.put_index = rx.put_index /\ r.get_index = g
         /\ r.is_full = u
<1>1. /\ r.size = n /\ r.buffer = f /\ r.put_index = rx.put_index /\ r.get_index = g
      /\ r.is_full = u
  OBVIOUS
<1>2. r \in [size : {n}, buffer : F, put_index : P, get_index : P, is_full : BOOLEAN]
  OBVIOUS
<1> QED BY <1>1, <1>2

LEMMA PutOK ==
  ASSUME bufsz \in BufSizes, NEW rx \in Fifos(bufsz), NEW b \in Bytes
  PROVE  /\ Put(rx, b) \in Fifos(bufsz) /\ Put(rx, b) # null
         /\ LapsRight(rx) => LapsRight(Put(rx, b))
         /\ Put(rx, b).put_index = (rx.put_index + 1) % bufsz
         /\ Put(rx, b).get_index = IF (rx.put_index + 1) % bufsz = rx.get_index
                                   THEN (rx.get_index + 1) % bufsz ELSE rx.get_index
         /\ Put(rx, b).buffer = [rx.buffer EXCEPT ![rx.put_index] = b]
         /\ Put(rx, b).size = bufsz
<1> DEFINE put == (rx.put_index + 1) % bufsz
           full == put = rx.get_index
           get == IF full THEN (rx.get_index + 1) % bufsz ELSE rx.get_index
           new == Put(rx, b)
<1> DEFINE f == [rx.buffer EXCEPT ![rx.put_index] = b]
<1>0. /\ bufsz \in Nat /\ bufsz > 1 /\ rx.get_index \in 0 .. bufsz - 1 /\ rx.put_index \in 0 .. bufsz - 1
      /\ rx.buffer \in [0 .. bufsz - 1 -> Bytes \cup {none}] /\ rx.is_full \in BOOLEAN
  BY SerialAssumption DEF Fifos
<1>1. put \in 0 .. bufsz - 1 /\ get \in 0 .. bufsz - 1
  BY <1>0, NextIndex
<1>2. f \in [0 .. bufsz - 1 -> Bytes \cup {none}]
  BY <1>0
<1>3. new = [rx EXCEPT !.buffer = f, !.put_index = put, !.get_index = get,
                       !.is_full = full \/ rx.is_full]
  BY DEF Put
<1>4. /\ new \in Fifos(bufsz)
      /\ new.size = bufsz /\ new.buffer = f /\ new.put_index = put /\ new.get_index = get
      /\ new.is_full = (full \/ rx.is_full)
  <2>1. (full \/ rx.is_full) \in BOOLEAN
    OBVIOUS
  <2> HIDE DEF f, put, full, get, new
  <2> QED BY <1>1, <1>2, <1>3, <2>1, FifoExcept DEF Fifos
<1>6. new # null
  BY <1>4, SerialAssumption
<1>7. LapsRight(rx) => LapsRight(new)
  <2>1. new.put_index = put /\ new.get_index = get /\ new.is_full = (full \/ rx.is_full)
    BY <1>4
  <2>2. LapsRight(rx) /\ rx.is_full => full
    BY DEF LapsRight
  <2>3. full => get = (put + 1) % bufsz
    OBVIOUS
  <2> HIDE DEF put, full, get, new
  <2> QED BY <2>1, <2>2, <2>3 DEF LapsRight
<1> QED BY <1>4, <1>6, <1>7

LEMMA GetOK ==
  ASSUME bufsz \in BufSizes, NEW rx \in Fifos(bufsz)
  PROVE  /\ Get(rx) \in Fifos(bufsz) /\ Get(rx) # null /\ ~ Get(rx).is_full
         /\ Get(rx).put_index = rx.put_index
         /\ Get(rx).get_index = (rx.get_index + 1) % bufsz
         /\ Get(rx).buffer = [rx.buffer EXCEPT ![rx.get_index] = none]
         /\ Get(rx).size = bufsz
<1> DEFINE f == [rx.buffer EXCEPT ![rx.get_index] = none]
           get == (rx.get_index + 1) % bufsz
           new == Get(rx)
<1>0. /\ bufsz \in Nat /\ bufsz > 1 /\ rx.get_index \in 0 .. bufsz - 1
      /\ rx.buffer \in [0 .. bufsz - 1 -> Bytes \cup {none}]
  BY SerialAssumption DEF Fifos
<1>1. get \in 0 .. bufsz - 1
  BY <1>0, NextIndex
<1>2. f \in [0 .. bufsz - 1 -> Bytes \cup {none}]
  BY <1>0
<1>3. new = [rx EXCEPT !.buffer = f, !.get_index = get, !.is_full = FALSE]
  BY DEF Get
<1>4. /\ new \in Fifos(bufsz)
      /\ new.size = bufsz /\ new.buffer = f /\ new.put_index = rx.put_index /\ new.get_index = get
      /\ ~ new.is_full
  <2> HIDE DEF f, get, new
  <2> QED BY <1>1, <1>2, <1>3, FifoExceptGet DEF Fifos
<1>5. new # null
  BY <1>4, SerialAssumption
<1> QED BY <1>4, <1>5

\* A step of a handler or of the transmitter: no client moves.
LEMMA QuietOK ==
  ASSUME Protocol, Resources, StreamKept,
         UNCHANGED <<dev, pc, opened, rxie>>,
         (serial_rx' = null) <=> (serial_rx = null),
         (serial_tx' = null) <=> (serial_tx = null),
         isr' = "loop" => serial_rx # null
  PROVE  Protocol' /\ Resources' /\ StreamKept'
<1>1. /\ \A c \in Clients : (Ready(c)' <=> Ready(c))
      /\ Reader \in Clients /\ Writer \in Clients
  BY DEF Ready, Clients
<1>2. /\ InUse' <=> InUse
      /\ \A l : (Someone(l)' <=> Someone(l))
  BY <1>1 DEF InUse, Someone
<1>3. Protocol'
  <2>1. dev'.ref_count = (IF Ready(Reader)' THEN 1 ELSE 0) + (IF Ready(Writer)' THEN 1 ELSE 0)
    BY <1>1 DEF Protocol
  <2>2. \A y \in Clients :
          /\ pc'[y] \in Changing => pc'[Other(y)] = "idle"
          /\ pc'[y] \notin {"idle", "close_rx", "close_tx"} => opened'[y] # null
          /\ pc'[y] \in {"close_rx", "close_tx"} => opened'[y] = null /\ opened'[Other(y)] = null
          /\ opened'[y] # null =>
               \A f \in {"INT_RX", "INT_TX"} : f \in opened'[y] <=> f \in dev'.flag
    BY DEF Protocol
  <2>3. /\ pc' \in [Clients -> {"idle"} \cup Changing \cup Reading \cup Writing]
        /\ pc'[Reader] \notin Writing /\ pc'[Writer] \notin Reading
    BY DEF Protocol
  <2> QED BY <2>1, <2>2, <2>3, Zenon DEF Protocol
<1>4. Resources'
  BY <1>2 DEF Resources
<1>5. StreamKept'
  BY <1>1, <1>2 DEF StreamKept
<1> QED BY <1>3, <1>4, <1>5

LEMMA LineByteOK ==
  ASSUME SerialInv, NEW b \in Bytes, LineByte(b)
  PROVE  SerialInv'
<1>0. /\ TypeOK /\ Protocol /\ Resources /\ StreamKept /\ Ring /\ Indication /\ Modes /\ Written
      /\ UNCHANGED <<dev, bufsz, serial_rx, serial_tx, rxie, isr, indicated, got, pc, opened, txside>>
      /\ dr' = b
  BY DEF SerialInv, LineByte
<1>1. TypeOK'
  BY <1>0 DEF TypeOK, txside
<1>2. Protocol' /\ Resources' /\ StreamKept'
  <2>1. isr' = "loop" => serial_rx # null
    BY <1>0 DEF Resources
  <2> QED BY <1>0, <2>1, QuietOK
<1>3. Ring' /\ Indication' /\ Modes' /\ Written'
  BY <1>0 DEF Ring, LapsRight, Indication, Empty, Modes, Written, NewlineNext, txside
<1> QED BY <1>1, <1>2, <1>3 DEF SerialInv

LEMMA IsrByteOK ==
  ASSUME SerialInv, IsrByte
  PROVE  SerialInv'
<1>0. /\ TypeOK /\ Protocol /\ Resources /\ StreamKept /\ Ring /\ Indication /\ Modes /\ Written
      /\ UNCHANGED <<dev, bufsz, serial_tx, rxie, indicated, got, pc, opened, txside>>
      /\ serial_rx # null /\ serial_rx' = Put(serial_rx, dr) /\ dr' = none /\ isr' = "loop"
  BY DEF SerialInv, IsrByte
<1>1. dr \in Bytes /\ bufsz \in BufSizes /\ serial_rx \in Fifos(bufsz)
  BY <1>0 DEF IsrByte, RxPending, TypeOK
<1>2. serial_rx' \in Fifos(bufsz) /\ serial_rx' # null /\ (LapsRight(serial_rx) => LapsRight(serial_rx'))
  BY <1>0, <1>1, PutOK
<1>3. TypeOK'
  BY <1>0, <1>2 DEF TypeOK, txside
<1>4. Protocol' /\ Resources' /\ StreamKept'
  BY <1>0, <1>2, QuietOK
<1>5. Ring'
  BY <1>0, <1>2 DEF Ring, LapsRight
<1>6. Indication' /\ Modes' /\ Written'
  BY <1>0 DEF Indication, Modes, Written, NewlineNext, txside
<1> QED BY <1>3, <1>4, <1>5, <1>6 DEF SerialInv

LEMMA IsrEndOK ==
  ASSUME SerialInv, IsrEnd
  PROVE  SerialInv'
<1>0. /\ TypeOK /\ Protocol /\ Resources /\ StreamKept /\ Ring /\ Indication /\ Modes /\ Written
      /\ UNCHANGED <<dev, bufsz, serial_rx, serial_tx, rxie, dr, got, pc, opened, txside>>
      /\ isr' = "clear" /\ indicated' = (indicated \/ rx_length(serial_rx) > 0)
  BY DEF SerialInv, IsrEnd
<1>1. serial_rx # null /\ bufsz \in BufSizes /\ serial_rx \in Fifos(bufsz) /\ LapsRight(serial_rx)
  BY <1>0 DEF IsrEnd, Resources, TypeOK, Ring
<1>2. TypeOK'
  BY <1>0 DEF TypeOK, txside
<1>3. Protocol' /\ Resources' /\ StreamKept'
  BY <1>0, QuietOK
<1>4. Indication'
  <2>1. /\ rx_length(serial_rx) \in 0 .. bufsz - 1 /\ bufsz \in Nat
        /\ (Empty(serial_rx) <=> rx_length(serial_rx) = 0)
    BY <1>1, LengthOK, SerialAssumption
  <2>2. ~ Empty(serial_rx) => rx_length(serial_rx) > 0
    BY <2>1
  <2>3. Empty(serial_rx)' <=> Empty(serial_rx)
    BY <1>0 DEF Empty
  <2> QED BY <1>0, <2>2, <2>3 DEF Indication
<1>5. Ring' /\ Modes' /\ Written'
  BY <1>0 DEF Ring, LapsRight, Modes, Written, NewlineNext, txside
<1> QED BY <1>2, <1>3, <1>4, <1>5 DEF SerialInv

LEMMA IsrClearOK ==
  ASSUME SerialInv, IsrClear
  PROVE  SerialInv'
<1>0. /\ TypeOK /\ Protocol /\ Resources /\ StreamKept /\ Ring /\ Indication /\ Modes /\ Written
      /\ UNCHANGED <<dev, bufsz, serial_rx, serial_tx, rxie, indicated, got, pc, opened, txside>>
      /\ isr = "clear" /\ isr' = "out" /\ dr' = none
  BY DEF SerialInv, IsrClear
<1>1. TypeOK'
  BY <1>0 DEF TypeOK, txside
<1>2. Protocol' /\ Resources' /\ StreamKept'
  BY <1>0, QuietOK
<1>3. Ring' /\ Indication' /\ Modes' /\ Written'
  BY <1>0 DEF Ring, LapsRight, Indication, Empty, Modes, Written, NewlineNext, txside
<1> QED BY <1>1, <1>2, <1>3 DEF SerialInv

LEMMA TxDoneOK ==
  ASSUME SerialInv, TxDone
  PROVE  SerialInv'
<1>0. /\ TypeOK /\ Protocol /\ Resources /\ StreamKept /\ Ring /\ Indication /\ Modes /\ Written
      /\ UNCHANGED <<dev, bufsz, serial_rx, rxie, rxside, opened, pc, todo, crs>>
      /\ serial_tx' = (IF serial_tx = null THEN null ELSE TRUE) /\ busy' = FALSE
  BY DEF SerialInv, TxDone, TxUnchanged
<1>1. TypeOK'
  BY <1>0 DEF TypeOK, rxside
<1>2. Protocol' /\ Resources' /\ StreamKept'
  <2>1. isr' = "loop" => serial_rx # null
    BY <1>0 DEF Resources, rxside
  <2>2. (serial_tx' = null) <=> (serial_tx = null)
    BY <1>0, SerialAssumption
  <2> QED BY <1>0, <2>1, <2>2, QuietOK
<1>3. Ring' /\ Indication' /\ Modes' /\ Written'
  BY <1>0 DEF Ring, LapsRight, Indication, Empty, Modes, Written, NewlineNext, rxside
<1> QED BY <1>1, <1>2, <1>3 DEF SerialInv

LEMMA StaysOK ==
  ASSUME Disciplined, SerialInv, NEW c \in Clients, NEW l,
         Starting(c) \/ (isr = "out" /\ pc[c] \in Reading \cup Writing),
         dev' = dev, opened' = opened, pc' = [pc EXCEPT ![c] = l],
         l \in {"idle"} \cup (IF c = Reader THEN Reading ELSE Writing),
         UNCHANGED <<bufsz, rxie, isr>>,
         (serial_rx' = null) <=> (serial_rx = null),
         (serial_tx' = null) <=> (serial_tx = null)
  PROVE  /\ Protocol' /\ Resources' /\ StreamKept'
         /\ pc'[c] = l /\ pc'[Other(c)] = pc[Other(c)] /\ Other(c) \in Clients
         /\ opened[c] # null /\ pc[c] \notin Changing /\ pc[Other(c)] \notin Changing
<1>0. TypeOK /\ Protocol /\ Resources /\ StreamKept /\ Other(c) \in Clients /\ Other(c) # c
  BY Two DEF SerialInv
<1>1. pc[c] \notin Changing /\ pc[Other(c)] \notin Changing /\ opened[c] # null /\ isr = "out"
  <2>1. CASE Starting(c)
    BY <1>0, <2>1 DEF Starting, At, Disciplined, Changing
  <2>2. CASE isr = "out" /\ pc[c] \in Reading \cup Writing
    <3>1. pc[c] \notin {"idle"} \cup Changing
      BY <2>2 DEF Reading, Writing, Changing
    <3>2. pc[Other(c)] \in Changing => pc[Other(Other(c))] = "idle"
      BY <1>0 DEF Protocol
    <3>3. opened[c] # null
      BY <1>0, <3>1 DEF Protocol, Changing
    <3> QED BY <2>2, <3>1, <3>2, <3>3, Two
  <2> QED BY <2>1, <2>2
<1>2. CallStays(c, l)
  BY <1>1 DEF CallStays
<1>3. Protocol' /\ Resources' /\ StreamKept'
  BY <1>0, <1>1, <1>2, CallOK
<1>4. pc'[c] = l /\ pc'[Other(c)] = pc[Other(c)]
  BY <1>0 DEF Protocol
<1> QED BY <1>0, <1>1, <1>3, <1>4

LEMMA Sides ==
  /\ Other(Reader) = Writer /\ Other(Writer) = Reader
  /\ Reader \in Clients /\ Writer \in Clients /\ Reader # Writer
BY SerialAssumption DEF Other, Clients

\* What every step of the reader leaves of the writer, and the other way round.
ReaderMoves(l) ==
  /\ Starting(Reader) \/ (isr = "out" /\ pc[Reader] \in Reading)
  /\ pc' = [pc EXCEPT ![Reader] = l] /\ l \in {"idle"} \cup Reading
  /\ UNCHANGED <<dev, bufsz, serial_tx, rxie, isr, opened, txside>>

WriterMoves(l) ==
  /\ Starting(Writer) \/ (isr = "out" /\ pc[Writer] \in Writing)
  /\ pc' = [pc EXCEPT ![Writer] = l] /\ l \in {"idle"} \cup Writing
  /\ TxUnchanged

LEMMA ReaderOK ==
  ASSUME Disciplined, SerialInv, NEW l, ReaderMoves(l),
         (serial_rx' = null) <=> (serial_rx = null),
         serial_rx # null => serial_rx' \in Fifos(bufsz),
         dr' \in Bytes \cup {none}, got' \in Bytes \cup {none}, indicated' \in BOOLEAN
  PROVE  /\ TypeOK' /\ Protocol' /\ Resources' /\ StreamKept' /\ Written'
         /\ pc'[Reader] = l /\ pc'[Writer] = pc[Writer]
         /\ pc[Reader] \notin Changing /\ pc[Writer] \notin Changing /\ opened[Reader] # null
<1>1. /\ Protocol' /\ Resources' /\ StreamKept'
      /\ pc'[Reader] = l /\ pc'[Writer] = pc[Writer]
      /\ pc[Reader] \notin Changing /\ pc[Writer] \notin Changing /\ opened[Reader] # null
  BY Sides, StaysOK DEF ReaderMoves
<1>2. TypeOK'
  BY DEF SerialInv, TypeOK, ReaderMoves, txside
<1>3. Written'
  BY <1>1 DEF SerialInv, Written, NewlineNext, ReaderMoves, txside
<1> QED BY <1>1, <1>2, <1>3

LEMMA WriterOK ==
  ASSUME Disciplined, SerialInv, NEW l, WriterMoves(l),
         (serial_tx' = null) <=> (serial_tx = null),
         serial_tx' \in BOOLEAN \cup {null}, busy' \in BOOLEAN, crs' \in 0 .. 2
  PROVE  /\ TypeOK' /\ Protocol' /\ Resources' /\ StreamKept' /\ Ring' /\ Indication'
         /\ pc'[Writer] = l /\ pc'[Reader] = pc[Reader]
<1>1. /\ Protocol' /\ Resources' /\ StreamKept'
      /\ pc'[Writer] = l /\ pc'[Reader] = pc[Reader]
  <2>1. /\ l \in {"idle"} \cup (IF Writer = Reader THEN Reading ELSE Writing)
        /\ Starting(Writer) \/ (isr = "out" /\ pc[Writer] \in Reading \cup Writing)
        /\ dev' = dev /\ opened' = opened /\ pc' = [pc EXCEPT ![Writer] = l]
        /\ UNCHANGED <<bufsz, rxie, isr, serial_rx>>
    BY Sides DEF WriterMoves, TxUnchanged, rxside
  <2>2. (serial_rx' = null) <=> (serial_rx = null)
    BY <2>1
  <2>3. Writer \in Clients /\ UNCHANGED <<bufsz, rxie, isr>>
    BY <2>1, Sides
  <2>4. /\ Protocol' /\ Resources' /\ StreamKept'
        /\ pc'[Writer] = l /\ pc'[Other(Writer)] = pc[Other(Writer)]
    BY <2>1, <2>2, <2>3, StaysOK
  <2> QED BY <2>4, Sides
<1>2. TypeOK'
  BY DEF SerialInv, TypeOK, WriterMoves, TxUnchanged, rxside
<1>3. Ring' /\ Indication'
  BY <1>1 DEF SerialInv, Ring, LapsRight, Indication, Empty, WriterMoves, TxUnchanged, rxside
<1> QED BY <1>1, <1>2, <1>3

LEMMA ReadWaitOK ==
  ASSUME Disciplined, SerialInv, ReadWait
  PROVE  SerialInv'
<1>0. ReaderMoves("read") /\ UNCHANGED <<serial_rx, dr, got>> /\ indicated' = FALSE
  BY DEF ReadWait, ReaderMoves, Goto, Reading
<1>1. TypeOK /\ Ring /\ Modes
  BY DEF SerialInv
<1>2. /\ TypeOK' /\ Protocol' /\ Resources' /\ StreamKept' /\ Written'
      /\ pc'[Reader] = "read" /\ pc'[Writer] = pc[Writer]
  <2>1. /\ (serial_rx' = null) <=> (serial_rx = null)
        /\ serial_rx # null => serial_rx' \in Fifos(bufsz)
        /\ dr' \in Bytes \cup {none} /\ got' \in Bytes \cup {none} /\ indicated' \in BOOLEAN
    BY <1>0, <1>1 DEF TypeOK
  <2> QED BY <1>0, <2>1, ReaderOK
<1>3. Ring' /\ Indication' /\ Modes'
  BY <1>0, <1>1, <1>2 DEF Ring, LapsRight, Indication, Modes, ReaderMoves, Reading
<1> QED BY <1>2, <1>3 DEF SerialInv

LEMMA ReadStepOK ==
  ASSUME Disciplined, SerialInv, ReadStep
  PROVE  SerialInv'
<1>0. /\ TypeOK /\ Protocol /\ Resources /\ StreamKept /\ Ring /\ Indication /\ Modes /\ Written
      /\ {"read", "int_rx", "poll_rx"} = Reading
  BY DEF SerialInv, Reading
<1>1. ASSUME ReadStart PROVE SerialInv'
  <2> DEFINE l == IF "INT_RX" \in dev.open_flag THEN "int_rx" ELSE "poll_rx"
  <2>1. ReaderMoves(l) /\ UNCHANGED <<serial_rx, rxside>>
    BY <1>1 DEF ReadStart, ReaderMoves, Goto, At, Reading, rxside
  <2>2. /\ (serial_rx' = null) <=> (serial_rx = null)
        /\ serial_rx # null => serial_rx' \in Fifos(bufsz)
        /\ dr' \in Bytes \cup {none} /\ got' \in Bytes \cup {none} /\ indicated' \in BOOLEAN
    BY <1>0, <2>1 DEF TypeOK, rxside
  <2>3. /\ TypeOK' /\ Protocol' /\ Resources' /\ StreamKept' /\ Written'
        /\ pc'[Reader] = l /\ pc'[Writer] = pc[Writer]
    BY <2>1, <2>2, ReaderOK
  <2>4. Ring' /\ Indication' /\ Modes'
    BY <1>0, <2>1, <2>3 DEF Ring, LapsRight, Indication, Modes, ReaderMoves, Reading, rxside
  <2> QED BY <2>3, <2>4 DEF SerialInv
<1>2. ASSUME ReadByte PROVE SerialInv'
  <2> DEFINE l == pc'[Reader]
  <2>1. /\ pc' = [pc EXCEPT ![Reader] = l] /\ l \in {"int_rx", "read"} /\ pc[Reader] = "int_rx"
    BY <1>0, <1>2, Sides DEF ReadByte, ReadMore, Goto, At, Protocol
  <2>2. ReaderMoves(l) /\ UNCHANGED <<dr, indicated>> /\ ~ Empty(serial_rx)
    <3> HIDE DEF l
    <3> QED BY <1>2, <2>1 DEF ReadByte, ReaderMoves, At, Reading
  <2>3. serial_rx # null /\ bufsz \in BufSizes /\ serial_rx \in Fifos(bufsz)
    <3>1. serial_rx # null
      <4>1. "INT_RX" \in dev.open_flag
        BY <1>0, <2>1 DEF Modes
      <4>2. InUse \/ Someone("open_tx") \/ Someone("close_rx")
        BY <1>0, <4>1 DEF Resources
      <4> QED BY <1>0, <4>1, <4>2 DEF Resources
    <3> QED BY <1>0, <3>1 DEF TypeOK
  <2>4. serial_rx' = Get(serial_rx) /\ got' = serial_rx.buffer[serial_rx.get_index]
    BY <1>2 DEF ReadByte
  <2>5. /\ serial_rx' \in Fifos(bufsz) /\ serial_rx' # null /\ LapsRight(serial_rx')
        /\ got' \in Bytes \cup {none}
    BY <2>3, <2>4, GetOK DEF LapsRight, Fifos
  <2>6. dr' \in Bytes \cup {none} /\ indicated' \in BOOLEAN
    BY <1>0, <2>2 DEF TypeOK
  <2>7. /\ TypeOK' /\ Protocol' /\ Resources' /\ StreamKept' /\ Written'
        /\ pc'[Writer] = pc[Writer]
    <3> HIDE DEF l
    <3> QED BY <2>2, <2>3, <2>5, <2>6, ReaderOK
  <2>8. Ring' /\ Indication' /\ Modes'
    BY <1>0, <2>1, <2>2, <2>5, <2>7 DEF Ring, LapsRight, Indication, Modes, ReaderMoves, Reading
  <2> QED BY <2>7, <2>8 DEF SerialInv
<1>3. ASSUME PollByte PROVE SerialInv'
  <2> DEFINE l == pc'[Reader]
  <2>1. /\ pc' = [pc EXCEPT ![Reader] = l] /\ l \in {"poll_rx", "read"} /\ pc[Reader] = "poll_rx"
    BY <1>0, <1>3, Sides DEF PollByte, ReadMore, Goto, At, Protocol
  <2>2. ReaderMoves(l) /\ UNCHANGED <<serial_rx, got, indicated>> /\ dr' = none
    <3> HIDE DEF l
    <3> QED BY <1>3, <2>1 DEF PollByte, ReaderMoves, At, Reading
  <2>3. /\ (serial_rx' = null) <=> (serial_rx = null)
        /\ serial_rx # null => serial_rx' \in Fifos(bufsz)
        /\ dr' \in Bytes \cup {none} /\ got' \in Bytes \cup {none} /\ indicated' \in BOOLEAN
    BY <1>0, <2>2 DEF TypeOK
  <2>4. /\ TypeOK' /\ Protocol' /\ Resources' /\ StreamKept' /\ Written'
        /\ pc'[Writer] = pc[Writer]
    <3> HIDE DEF l
    <3> QED BY <2>2, <2>3, ReaderOK
  <2>5. Ring' /\ Indication' /\ Modes'
    BY <1>0, <2>1, <2>2, <2>4 DEF Ring, LapsRight, Indication, Modes, ReaderMoves, Reading
  <2> QED BY <2>4, <2>5 DEF SerialInv
<1>4. ASSUME ReadNothing PROVE SerialInv'
  <2>1. /\ ReaderMoves("idle") /\ UNCHANGED <<serial_rx, rxside>>
        /\ \/ pc[Reader] = "int_rx" /\ Empty(serial_rx)
           \/ pc[Reader] = "poll_rx"
    BY <1>4 DEF ReadNothing, ReaderMoves, Goto, At, Reading, rxside
  <2>2. /\ (serial_rx' = null) <=> (serial_rx = null)
        /\ serial_rx # null => serial_rx' \in Fifos(bufsz)
        /\ dr' \in Bytes \cup {none} /\ got' \in Bytes \cup {none} /\ indicated' \in BOOLEAN
    BY <1>0, <2>1 DEF TypeOK, rxside
  <2>3. /\ TypeOK' /\ Protocol' /\ Resources' /\ StreamKept' /\ Written'
        /\ pc'[Reader] = "idle" /\ pc'[Writer] = pc[Writer]
        /\ pc[Reader] \notin Changing /\ pc[Writer] \notin Changing /\ opened[Reader] # null
    BY <2>1, <2>2, ReaderOK
  <2>4. serial_rx # null => Empty(serial_rx)
    <3>1. CASE pc[Reader] = "poll_rx"
      <4>1. "INT_RX" \notin dev.open_flag
        BY <1>0, <3>1 DEF Modes
      <4>2. InUse /\ \A l \in Changing : ~ Someone(l)
        BY <2>3, Sides, SeenNow DEF InUse, Ready, Changing, Seen
      <4>3. "INT_RX" \notin dev.flag
        BY <1>0, <4>1, <4>2 DEF Resources, Changing
      <4> QED BY <1>0, <4>3 DEF Resources
    <3> QED BY <2>1, <3>1
  <2>5. Ring' /\ Modes'
    BY <1>0, <2>1, <2>3 DEF Ring, LapsRight, Modes, ReaderMoves, rxside
  <2>6. Indication'
    BY <2>1, <2>4 DEF Indication, Empty, ReaderMoves, rxside
  <2> QED BY <2>3, <2>5, <2>6 DEF SerialInv
<1> QED BY <1>1, <1>2, <1>3, <1>4 DEF ReadStep

LEMMA WriteStartOK ==
  ASSUME Disciplined, SerialInv, NEW line \in Lines, WriteStart(line)
  PROVE  SerialInv'
<1> DEFINE l == IF "INT_TX" \in dev.open_flag THEN "int_tx" ELSE "poll_tx"
<1>0. /\ WriterMoves(l) /\ UNCHANGED <<serial_tx, busy>> /\ todo' = line /\ crs' = 0
      /\ TypeOK /\ Modes /\ Written
  BY DEF SerialInv, WriteStart, WriterMoves, TxUnchanged, Goto, Writing
<1>1. /\ TypeOK' /\ Protocol' /\ Resources' /\ StreamKept' /\ Ring' /\ Indication'
      /\ pc'[Writer] = l /\ pc'[Reader] = pc[Reader]
  <2>1. /\ (serial_tx' = null) <=> (serial_tx = null)
        /\ serial_tx' \in BOOLEAN \cup {null} /\ busy' \in BOOLEAN /\ crs' \in 0 .. 2
    BY <1>0 DEF TypeOK
  <2> HIDE DEF l
  <2> QED BY <1>0, <2>1, WriterOK
<1>2. line \in Seq({"data", "newline"})
  BY SerialAssumption
<1>3. ~ NewlineAnywhere /\ l = "int_tx" /\ "STREAM" \in dev.open_flag =>
         \A i \in 1 .. Len(line) : line[i] = "data"
  <2>1. DOMAIN line = 1 .. Len(line)
    BY <1>2
  <2> QED BY <2>1 DEF WriteStart
<1>4. dev' = dev
  BY <1>0 DEF WriterMoves, TxUnchanged
<1>5. Modes'
  BY <1>0, <1>1, <1>4 DEF Modes
<1>6. Written'
  BY <1>0, <1>1, <1>2, <1>3, <1>4 DEF Written, Writing
<1> QED BY <1>1, <1>5, <1>6 DEF SerialInv

LEMMA WriteStepOK ==
  ASSUME Disciplined, SerialInv, WriteStep
  PROVE  SerialInv'
<1>0. TypeOK /\ Modes /\ Written
  BY DEF SerialInv
<1>1. ASSUME NEW l, WriterMoves(l), serial_tx' # null <=> serial_tx # null,
             serial_tx' \in BOOLEAN \cup {null}, busy' \in BOOLEAN, crs' \in 0 .. 2,
             l \in {"int_tx", "int_data", "wait"} => pc[Writer] \in {"int_tx", "int_data", "wait"},
             pc'[Writer] = l => Written'
      PROVE  SerialInv'
  <2>1. /\ TypeOK' /\ Protocol' /\ Resources' /\ StreamKept' /\ Ring' /\ Indication'
        /\ pc'[Writer] = l /\ pc'[Reader] = pc[Reader]
    BY <1>1, WriterOK
  <2>2. Modes'
    BY <1>0, <1>1, <2>1 DEF Modes, WriterMoves, TxUnchanged
  <2> QED BY <1>1, <2>1, <2>2 DEF SerialInv
<1>2. ASSUME TxUnchanged, todo # <<>>, Byte PROVE todo' \in Seq({"data", "newline"}) /\
         todo' = Tail(todo) /\ crs' = 0 /\
         ((\A i \in 1 .. Len(todo) : todo[i] = "data") => \A i \in 1 .. Len(todo') : todo'[i] = "data")
  <2>1. todo \in Seq({"data", "newline"})
    BY <1>0 DEF Written
  <2> QED BY <1>2, <2>1 DEF Byte
<1>3. ASSUME PollTx PROVE SerialInv'
  <2>1. WriterMoves("poll_data") /\ UNCHANGED <<serial_tx, busy, todo>> /\ pc[Writer] = "poll_tx"
    BY <1>3 DEF PollTx, WriterMoves, Goto, At, Writing, Return
  <2>2. crs = 0 /\ todo # <<>> /\ crs' = IF NewlineNext THEN 1 ELSE 0
    BY <1>0, <1>3, <2>1 DEF PollTx, Written, Return
  <2>3. NewlineNext' <=> NewlineNext
    BY <2>1 DEF NewlineNext, WriterMoves, TxUnchanged
  <2>4. pc'[Writer] = "poll_data" => Written'
    BY <1>0, <2>1, <2>2, <2>3 DEF Written, Writing
  <2>5. crs' \in 0 .. 2
    BY <2>2
  <2> QED BY <1>0, <1>1, <2>1, <2>4, <2>5 DEF TypeOK
<1>4. ASSUME PollData PROVE SerialInv'
  <2>1. WriterMoves("poll_tx") /\ UNCHANGED <<serial_tx, busy>> /\ pc[Writer] = "poll_data" /\ Byte
    BY <1>4 DEF PollData, WriterMoves, Goto, At, Writing
  <2>2. todo # <<>> /\ TxUnchanged
    BY <1>0, <2>1 DEF Written, WriterMoves
  <2>3. pc'[Writer] = "poll_tx" => Written'
    BY <1>2, <2>1, <2>2 DEF Written, Writing
  <2>4. crs' \in 0 .. 2
    BY <1>2, <2>1, <2>2
  <2> QED BY <1>0, <1>1, <2>1, <2>3, <2>4 DEF TypeOK
<1>5. ASSUME IntTx PROVE SerialInv'
  <2> DEFINE l == IF NewlineNext /\ busy THEN "wait" ELSE "int_data"
  <2>1. /\ WriterMoves(l) /\ UNCHANGED <<serial_tx, todo>> /\ pc[Writer] = "int_tx" /\ todo # <<>>
        /\ dev' = dev
    BY <1>5 DEF IntTx, WriterMoves, Goto, At, Writing, Return, TxUnchanged
  <2>2. busy' \in BOOLEAN /\ crs' \in 0 .. 2
    <3>1. busy \in BOOLEAN /\ crs \in 0 .. 2
      BY <1>0 DEF TypeOK
    <3>2. \/ busy' = busy /\ crs' = crs
          \/ busy' = TRUE /\ crs' = IF crs < 2 THEN crs + 1 ELSE 2
      BY <1>5 DEF IntTx, Return
    <3>3. busy' \in BOOLEAN
      BY <3>1, <3>2, Zenon
    <3>4. crs' \in 0 .. 2
      BY <3>1, <3>2
    <3> QED BY <3>3, <3>4
  <2>3. ~ NewlineAnywhere => ~ NewlineNext /\ crs' = crs
    <3> SUFFICES ASSUME ~ NewlineAnywhere PROVE ~ NewlineNext
      BY <1>5 DEF IntTx
    <3>1. "STREAM" \in dev.open_flag => todo[1] = "data"
      BY <1>0, <2>1 DEF Written
    <3>2. todo # <<>> => Head(todo) = todo[1]
      BY <1>0 DEF Written
    <3> QED BY <3>1, <3>2 DEF NewlineNext
  <2>4. pc'[Writer] = l => Written'
    BY <1>0, <2>1, <2>3 DEF Written, Writing
  <2>5. l \in {"int_tx", "int_data", "wait"}
    OBVIOUS
  <2> HIDE DEF l
  <2> QED BY <1>0, <1>1, <2>1, <2>2, <2>4, <2>5 DEF TypeOK
<1>6. ASSUME IntData PROVE SerialInv'
  <2>1. CASE busy
    <3>1. /\ WriterMoves("wait") /\ UNCHANGED <<serial_tx, todo, crs, busy>>
          /\ pc[Writer] = "int_data" /\ dev' = dev
      BY <1>6, <2>1 DEF IntData, WriterMoves, Goto, At, Writing, TxUnchanged
    <3>2. pc'[Writer] = "wait" => Written'
      BY <1>0, <3>1 DEF Written, Writing
    <3> QED BY <1>0, <1>1, <3>1, <3>2 DEF TypeOK
  <2>2. CASE ~ busy
    <3>1. /\ WriterMoves("int_tx") /\ UNCHANGED serial_tx /\ busy' = TRUE /\ Byte
          /\ pc[Writer] = "int_data" /\ TxUnchanged /\ dev' = dev
      BY <1>6, <2>2 DEF IntData, WriterMoves, Goto, At, Writing, TxUnchanged
    <3>2. todo # <<>>
      BY <1>0, <3>1 DEF Written
    <3>3. pc'[Writer] = "int_tx" => Written'
      BY <1>0, <1>2, <3>1, <3>2 DEF Written, Writing
    <3>4. crs' \in 0 .. 2
      BY <1>2, <3>1, <3>2
    <3> QED BY <1>0, <1>1, <3>1, <3>3, <3>4 DEF TypeOK
  <2> QED BY <2>1, <2>2
<1>7. ASSUME WaitDone PROVE SerialInv'
  <2>1. /\ WriterMoves("int_tx") /\ UNCHANGED <<todo, crs, busy>> /\ serial_tx = TRUE /\ serial_tx' = FALSE
        /\ pc[Writer] = "wait" /\ dev' = dev
    BY <1>7 DEF WaitDone, WriterMoves, Goto, At, Writing, TxUnchanged
  <2>2. pc'[Writer] = "int_tx" => Written'
    BY <1>0, <2>1 DEF Written, Writing
  <2>3. serial_tx # null /\ serial_tx' # null
    BY <2>1, SerialAssumption
  <2> QED BY <1>0, <1>1, <2>1, <2>2, <2>3 DEF TypeOK
<1>8. ASSUME WriteReturn PROVE SerialInv'
  <2>1. WriterMoves("idle") /\ UNCHANGED <<serial_tx, todo, crs, busy>> /\ todo = <<>>
    BY <1>8 DEF WriteReturn, WriterMoves, Goto, At, Writing
  <2>2. pc'[Writer] = "idle" => Written'
    BY <1>0, <2>1 DEF Written
  <2> QED BY <1>0, <1>1, <2>1, <2>2 DEF TypeOK
<1> QED BY <1>3, <1>4, <1>5, <1>6, <1>7, <1>8 DEF WriteStep

LEMMA NextInv == Disciplined /\ SerialInv /\ [Next]_vars => SerialInv'
<1> SUFFICES ASSUME Disciplined, SerialInv, [Next]_vars PROVE SerialInv'
  OBVIOUS
<1>1. ASSUME NEW c \in Clients, OpenClose(c) PROVE SerialInv'
  BY <1>1, OpenStartOK, OpenFailsOK, CloseStartOK, ConfigOK DEF OpenClose
<1>2. ASSUME NEW c \in Clients, CallStep(c) PROVE SerialInv'
  BY <1>2, OpenRxOK, OpenTxOK, CloseRxOK, CloseTxOK DEF CallStep
<1>3. ASSUME ReadWait \/ ReadStep \/ (\E line \in Lines : WriteStart(line)) \/ WriteStep PROVE SerialInv'
  BY <1>3, ReadWaitOK, ReadStepOK, WriteStartOK, WriteStepOK
<1>4. ASSUME IsrByte \/ IsrEnd \/ IsrClear \/ TxDone \/ \E b \in Bytes : LineByte(b) PROVE SerialInv'
  BY <1>4, IsrByteOK, IsrEndOK, IsrClearOK, TxDoneOK, LineByteOK
<1>5. CASE UNCHANGED vars
  BY <1>5 DEF vars, rxside, txside, SerialInv, TypeOK, Protocol, Resources, StreamKept, Ring, LapsRight,
              Indication, Empty, Modes, Written, NewlineNext, Ready, InUse, Someone
<1> QED BY <1>1, <1>2, <1>3, <1>4, <1>5 DEF Next

\* The inductive invariant holds in every reachable state.
THEOREM SerialInvariant == Disciplined => (Spec => []SerialInv)
<1> SUFFICES ASSUME Disciplined PROVE Spec => []SerialInv
  OBVIOUS
<1>1. SerialInv /\ [Next]_vars => SerialInv'
  BY NextInv
<1> QED BY <1>1, InitInv, PTL DEF Spec

\* The handler never runs into the assertion that there is a receive FIFO
\* (InterruptHasFifo).
THEOREM FifoThere == Disciplined => (Spec => []InterruptHasFifo)
<1>1. SerialInv => InterruptHasFifo
  BY DEF SerialInv, Resources, InterruptHasFifo
<1> QED BY <1>1, SerialInvariant, PTL

\* The last close leaves nothing behind, and every open has what it asked for
\* (ClosedClean).
THEOREM Clean == Disciplined => (Spec => []ClosedClean)
<1>1. SerialInv => ClosedClean
  <2> SUFFICES ASSUME SerialInv PROVE ClosedClean
    OBVIOUS
  <2>0. TypeOK /\ Protocol /\ Resources /\ StreamKept /\ Seen(Reader) /\ Sides
        /\ Reader \in Clients /\ Writer \in Clients /\ Other(Reader) = Writer /\ Clients = {Reader, Writer}
    BY Sides, SeenNow DEF SerialInv, Clients
  <2>1. dev.ref_count = 0 => ~ InUse
    BY <2>0 DEF Protocol, Seen
  <2>2. ASSUME dev.ref_count = 0, \A c \in Clients : pc[c] = "idle"
        PROVE  serial_rx = null /\ serial_tx = null /\ ~ rxie /\ dev.open_flag = {}
    <3>1. \A l \in Changing : ~ Someone(l)
      BY <2>2 DEF Someone, Changing
    <3>2. /\ serial_rx = null /\ serial_tx = null /\ ~ rxie
          /\ "INT_RX" \notin dev.open_flag /\ "INT_TX" \notin dev.open_flag
      BY <2>0, <2>1, <2>2, <3>1 DEF Resources, Changing
    <3>3. "STREAM" \notin dev.open_flag
      BY <2>0, <2>1, <2>2 DEF StreamKept
    <3>4. dev.open_flag \subseteq Flags
      BY <2>0 DEF TypeOK
    <3> QED BY <3>2, <3>3, <3>4 DEF Flags
  <2>3. ASSUME NEW c \in Clients, opened[c] # null, \A x \in Clients : pc[x] \notin Changing
        PROVE  opened[c] \subseteq dev.open_flag
    <3>1. Ready(c) /\ InUse /\ \A l \in Changing : ~ Someone(l)
      BY <2>3 DEF Ready, InUse, Someone, Changing
    <3>2. \A f \in {"INT_RX", "INT_TX"} : f \in opened[c] => f \in dev.open_flag
      BY <2>0, <2>3, <3>1 DEF Protocol, Resources, Changing
    <3>3. pc[Other(c)] \notin {"open_rx", "open_tx"}
      BY <2>3, Two DEF Changing
    <3>4. "STREAM" \in opened[c] => "STREAM" \in dev.open_flag
      BY <2>0, <3>1, <3>3 DEF StreamKept
    <3>5. opened[c] \subseteq Flags
      BY <2>0, <2>3 DEF TypeOK
    <3> QED BY <3>2, <3>4, <3>5 DEF Flags
  <2> QED BY <2>0, <2>2, <2>3 DEF ClosedClean, Changing
<1> QED BY <1>1, SerialInvariant, PTL

\* A reader never sleeps while a byte is in the FIFO (NoLostIndication).
THEOREM Indicated == Disciplined => (Spec => []NoLostIndication)
<1>1. SerialInv => NoLostIndication
  BY DEF SerialInv, Indication, NoLostIndication, Reading
<1> QED BY <1>1, SerialInvariant, PTL

\* A newline goes out behind exactly one '\r' of a stream-mode writer, and no
\* other byte behind one, if lines with a newline are not written in stream
\* mode through the transmit interrupt (OneReturn).
THEOREM ReturnSent == Disciplined /\ ~ NewlineAnywhere => (Spec => OneReturn)
<1> DEFINE A == Len(todo') < Len(todo) =>
                  IF Head(todo) = "data" THEN crs = 0
                  ELSE crs \in (IF "STREAM" \in opened[Writer] THEN {1} ELSE {0, 1})
<1> SUFFICES ASSUME Disciplined, ~ NewlineAnywhere PROVE Spec => [][A]_vars
  BY DEF OneReturn
<1>1. SerialInv /\ [Next]_vars => [A]_vars
  <2> SUFFICES ASSUME SerialInv, Next, Len(todo') < Len(todo)
               PROVE  IF Head(todo) = "data" THEN crs = 0
                      ELSE crs \in (IF "STREAM" \in opened[Writer] THEN {1} ELSE {0, 1})
    OBVIOUS
  <2>0. TypeOK /\ Protocol /\ StreamKept /\ Written /\ todo \in Seq({"data", "newline"})
    BY DEF SerialInv, Written
  <2>1. todo' # todo
    OBVIOUS
  <2>2. ASSUME NEW line \in Lines, WriteStart(line) PROVE FALSE
    <3>1. pc[Writer] = "idle" /\ todo' = line /\ line \in Seq({"data", "newline"})
      BY <2>2, SerialAssumption DEF WriteStart, Starting, At
    <3>2. todo = <<>>
      BY <2>0, <3>1 DEF Written, Writing
    <3> QED BY <3>1, <3>2
  <2>3. PollData \/ (IntData /\ ~ busy)
    <3>1. ASSUME NEW c \in Clients, OpenClose(c) \/ CallStep(c) PROVE FALSE
      BY <2>1, <3>1 DEF OpenClose, CallStep, OpenStart, OpenFails, CloseStart, Config, OpenRx, OpenTx,
                        CloseRx, CloseTx, txside
    <3>2. ASSUME ReadWait \/ ReadStep PROVE FALSE
      BY <2>1, <3>2 DEF ReadWait, ReadStep, ReadStart, ReadByte, PollByte, ReadNothing, txside
    <3>3. ASSUME IsrByte \/ IsrEnd \/ IsrClear \/ TxDone \/ \E b \in Bytes : LineByte(b) PROVE FALSE
      BY <2>1, <3>3 DEF IsrByte, IsrEnd, IsrClear, TxDone, LineByte, txside
    <3>4. ASSUME PollTx \/ IntTx \/ (IntData /\ busy) \/ WaitDone \/ WriteReturn PROVE FALSE
      BY <2>1, <3>4 DEF PollTx, IntTx, IntData, WaitDone, WriteReturn, Return
    <3> QED BY <2>2, <3>1, <3>2, <3>3, <3>4 DEF Next, WriteStep
  <2>4. CASE PollData
    <3>1. pc[Writer] = "poll_data" /\ todo # <<>> /\ crs = IF NewlineNext THEN 1 ELSE 0
      BY <2>0, <2>4 DEF PollData, At, Written
    <3>2. Head(todo) \in {"data", "newline"}
      BY <2>0, <3>1
    <3>3. "STREAM" \in opened[Writer] => "STREAM" \in dev.open_flag
      <4>1. Ready(Writer) /\ pc[Reader] \notin {"open_rx", "open_tx"}
        <5>1. pc[Reader] \in Changing => pc[Writer] = "idle"
          BY <2>0, Sides DEF Protocol
        <5> QED BY <2>0, <3>1, <5>1, Sides DEF Protocol, Ready, Changing
      <4> QED BY <2>0, <4>1, Sides DEF StreamKept
    <3> QED BY <3>1, <3>2, <3>3 DEF NewlineNext
  <2>5. CASE IntData /\ ~ busy
    <3>1. /\ pc[Writer] = "int_data" /\ todo # <<>> /\ crs = 0
          /\ "STREAM" \in dev.open_flag => todo[1] = "data"
      BY <2>0, <2>5 DEF IntData, At, Written
    <3>2. Head(todo) = todo[1]
      BY <2>0, <3>1
    <3>3. "STREAM" \in opened[Writer] => "STREAM" \in dev.open_flag
      <4>1. Ready(Writer) /\ pc[Reader] \notin {"open_rx", "open_tx"}
        <5>1. pc[Reader] \in Changing => pc[Writer] = "idle"
          BY <2>0, Sides DEF Protocol
        <5> QED BY <2>0, <3>1, <5>1, Sides DEF Protocol, Ready, Changing
      <4> QED BY <2>0, <4>1, Sides DEF StreamKept
    <3> QED BY <3>1, <3>2, <3>3
  <2> QED BY <2>3, <2>4, <2>5
<1> QED BY <1>1, SerialInvariant, PTL DEF Spec

Wrap(a) == IF a < bufsz THEN a ELSE a - bufsz
Cells == Bytes \cup {none}

LEMMA NextWrap ==
  ASSUME bufsz \in BufSizes, NEW i \in 0 .. bufsz - 1
  PROVE  (i + 1) % bufsz = Wrap(i + 1)
<1>1. /\ bufsz \in Nat /\ bufsz > 1 /\ i \in Nat /\ i + 1 <= bufsz
      /\ (i + 1) % bufsz = IF i + 1 < bufsz THEN i + 1 ELSE 0
  BY NextIndex
<1> QED BY <1>1 DEF Wrap

LEMMA ContentsOK ==
  ASSUME bufsz \in BufSizes, NEW rx \in Fifos(bufsz), LapsRight(rx)
  PROVE  /\ Contents(rx) \in Seq(Cells) /\ Len(Contents(rx)) = rx_length(rx)
         /\ \A i \in 1 .. rx_length(rx) :
              /\ Contents(rx)[i] = rx.buffer[Wrap(rx.get_index + i - 1)]
              /\ Wrap(rx.get_index + i - 1) \in 0 .. bufsz - 1
<1> DEFINE n == rx_length(rx)
           e(i) == rx.buffer[(rx.get_index + i - 1) % bufsz]
<1>0. /\ bufsz \in Nat /\ bufsz > 1 /\ rx.get_index \in 0 .. bufsz - 1
      /\ rx.buffer \in [0 .. bufsz - 1 -> Cells] /\ n \in 0 .. bufsz - 1
  BY SerialAssumption, LengthOK DEF Fifos, Cells
<1>1. \A i \in 1 .. n : /\ (rx.get_index + i - 1) % bufsz = Wrap(rx.get_index + i - 1)
                        /\ Wrap(rx.get_index + i - 1) \in 0 .. bufsz - 1
  <2> SUFFICES ASSUME NEW i \in 1 .. n
               PROVE  /\ (rx.get_index + i - 1) % bufsz = Wrap(rx.get_index + i - 1)
                      /\ Wrap(rx.get_index + i - 1) \in 0 .. bufsz - 1
    OBVIOUS
  <2> HIDE DEF n
  <2> DEFINE a == rx.get_index + i - 1
  <2>1. a \in 0 .. 2 * bufsz - 1 /\ bufsz \in Nat /\ bufsz > 0
    BY <1>0
  <2> HIDE DEF a
  <2>2. a % bufsz = Wrap(a)
    BY <2>1, ModOnce DEF Wrap
  <2>3. Wrap(a) \in 0 .. bufsz - 1
    BY <2>1 DEF Wrap
  <2> QED BY <2>2, <2>3 DEF a
<1>2. \A i \in 1 .. n : e(i) \in Cells
  <2> HIDE DEF n
  <2> QED BY <1>0, <1>1
<1>3. Contents(rx) = [i \in 1 .. n |-> e(i)]
  BY DEF Contents
<1> HIDE DEF n, e
<1>4. n \in Nat
  BY <1>0
<1>5. [i \in 1 .. n |-> e(i)] \in Seq(Cells)
  BY <1>2, <1>4, IsASeq
<1>6. Len([i \in 1 .. n |-> e(i)]) = n
  BY <1>4, <1>5
<1> QED BY <1>1, <1>3, <1>5, <1>6 DEF n, e

\* A put appends the byte, and drops the oldest one of a full buffer.
LEMMA PutContents ==
  ASSUME bufsz \in BufSizes, NEW rx \in Fifos(bufsz), LapsRight(rx), NEW b \in Bytes
  PROVE  Contents(Put(rx, b)) =
           Append(IF Len(Contents(rx)) = bufsz - 1 THEN Tail(Contents(rx)) ELSE Contents(rx), b)
<1> DEFINE new == Put(rx, b)
           s == Contents(rx)
           t == Contents(new)
           n == rx_length(rx)
           g == rx.get_index
           p == rx.put_index
           q1 == rx_length(new)
<1>0. /\ bufsz \in Nat /\ bufsz > 1 /\ g \in 0 .. bufsz - 1 /\ p \in 0 .. bufsz - 1
      /\ rx.buffer \in [0 .. bufsz - 1 -> Cells] /\ n \in 0 .. bufsz - 1 /\ b \in Cells
  BY SerialAssumption, LengthOK DEF Fifos, Cells
<1>1. /\ new \in Fifos(bufsz) /\ LapsRight(new)
      /\ new.put_index = (p + 1) % bufsz
      /\ new.get_index = IF (p + 1) % bufsz = g THEN (g + 1) % bufsz ELSE g
      /\ new.buffer = [rx.buffer EXCEPT ![p] = b]
  <2>1. new \in Fifos(bufsz) /\ LapsRight(new)
    BY PutOK
  <2>2. /\ new.put_index = (p + 1) % bufsz
        /\ new.get_index = IF (p + 1) % bufsz = g THEN (g + 1) % bufsz ELSE g
    BY PutOK
  <2>3. new.buffer = [rx.buffer EXCEPT ![p] = b]
    BY PutOK
  <2> QED BY <2>1, <2>2, <2>3
<1>2. (p + 1) % bufsz = Wrap(p + 1) /\ (g + 1) % bufsz = Wrap(g + 1)
  BY <1>0, NextWrap
<1>3. /\ s \in Seq(Cells) /\ Len(s) = n
      /\ \A i \in 1 .. n : s[i] = rx.buffer[Wrap(g + i - 1)] /\ Wrap(g + i - 1) \in 0 .. bufsz - 1
  BY ContentsOK
<1>4. /\ t \in Seq(Cells) /\ Len(t) = q1
      /\ \A i \in 1 .. q1 : /\ t[i] = new.buffer[Wrap(new.get_index + i - 1)]
                            /\ Wrap(new.get_index + i - 1) \in 0 .. bufsz - 1
  <2> HIDE DEF new
  <2> QED BY <1>1, ContentsOK
<1>5. /\ n = IF p >= g THEN p - g ELSE bufsz - (g - p)
      /\ q1 = IF new.put_index >= new.get_index THEN new.put_index - new.get_index
              ELSE bufsz - (new.get_index - new.put_index)
  BY DEF rx_length
<1>6. \A j \in 0 .. bufsz - 1 : new.buffer[j] = IF j = p THEN b ELSE rx.buffer[j]
  BY <1>0, <1>1
<1> HIDE DEF new, s, t, n, g, p, q1
<1>7. CASE n = bufsz - 1
  <2>1. s # <<>>
    BY <1>0, <1>3, <1>7
  <2>2. /\ Tail(s) \in Seq(Cells) /\ Len(Tail(s)) = n - 1
        /\ \A i \in 1 .. n - 1 : Tail(s)[i] = s[i + 1]
    BY <1>3, <2>1, HeadTailProperties
  <2> DEFINE u == Append(Tail(s), b)
  <2>3. /\ u \in Seq(Cells) /\ Len(u) = n /\ u[n] = b
        /\ \A i \in 1 .. n - 1 : u[i] = s[i + 1]
    <3>1. /\ u \in Seq(Cells) /\ Len(u) = Len(Tail(s)) + 1 /\ u[Len(Tail(s)) + 1] = b
          /\ \A i \in 1 .. Len(Tail(s)) : u[i] = Tail(s)[i]
      BY <1>0, <2>2, AppendProperties
    <3> HIDE DEF u
    <3> QED BY <1>0, <2>2, <3>1
  <2>4. /\ Wrap(p + 1) = g /\ new.get_index = Wrap(g + 1) /\ new.put_index = g /\ q1 = n
    <3>1. /\ bufsz \in Int /\ bufsz > 1 /\ p \in Int /\ g \in Int
          /\ 0 <= p /\ p < bufsz /\ 0 <= g /\ g < bufsz
      BY <1>0
    <3>2. n = IF p >= g THEN p - g ELSE bufsz - (g - p)
      BY <1>5
    <3>3. Wrap(p + 1) = g
      BY <1>7, <3>1, <3>2 DEF Wrap
    <3>4. new.get_index = Wrap(g + 1) /\ new.put_index = g
      BY <1>1, <1>2, <3>3
    <3>5. q1 = n
      BY <1>5, <1>7, <3>1, <3>4 DEF Wrap
    <3> QED BY <3>3, <3>4, <3>5
  <2>5. \A i \in 1 .. n : t[i] = u[i]
    <3> SUFFICES ASSUME NEW i \in 1 .. n PROVE t[i] = u[i]
      OBVIOUS
    <3> HIDE DEF u
    <3>1. t[i] = new.buffer[Wrap(Wrap(g + 1) + i - 1)] /\ Wrap(Wrap(g + 1) + i - 1) \in 0 .. bufsz - 1
      BY <1>4, <2>4
    <3>2. CASE i = n
      <4>1. Wrap(Wrap(g + 1) + i - 1) = p
        BY <1>0, <1>5, <1>7, <3>2 DEF Wrap
      <4> QED BY <1>0, <1>6, <2>3, <3>1, <3>2, <4>1
    <3>3. CASE i # n
      <4>1. i + 1 \in 1 .. n /\ i \in 1 .. n - 1
        BY <1>0, <3>3
      <4>2. Wrap(Wrap(g + 1) + i - 1) # p /\ Wrap(Wrap(g + 1) + i - 1) = Wrap(g + (i + 1) - 1)
        BY <1>0, <1>5, <1>7, <4>1 DEF Wrap
      <4>3. t[i] = rx.buffer[Wrap(g + (i + 1) - 1)]
        BY <1>6, <3>1, <4>2
      <4> QED BY <1>3, <2>3, <4>1, <4>3
    <3> QED BY <3>2, <3>3
  <2> HIDE DEF u
  <2>6. t = u
    BY <1>4, <2>3, <2>4, <2>5, SeqEqual
  <2> QED BY <1>3, <1>7, <2>6 DEF s, t, u, new
<1>8. CASE n # bufsz - 1
  <2> DEFINE u == Append(s, b)
  <2>1. /\ u \in Seq(Cells) /\ Len(u) = n + 1 /\ u[n + 1] = b
        /\ \A i \in 1 .. n : u[i] = s[i]
    BY <1>0, <1>3, AppendProperties
  <2>2. /\ Wrap(p + 1) # g /\ new.get_index = g /\ new.put_index = Wrap(p + 1) /\ q1 = n + 1
    <3>1. Wrap(p + 1) # g
      BY <1>0, <1>5, <1>8 DEF Wrap
    <3>2. new.get_index = g /\ new.put_index = Wrap(p + 1)
      BY <1>1, <1>2, <3>1
    <3>3. q1 = IF Wrap(p + 1) >= g THEN Wrap(p + 1) - g ELSE bufsz - (g - Wrap(p + 1))
      BY <1>5, <3>2
    <3>4. q1 = n + 1
      BY <1>0, <1>5, <1>8, <3>1, <3>3 DEF Wrap
    <3> QED BY <3>1, <3>2, <3>4
  <2>3. \A i \in 1 .. n + 1 : t[i] = u[i]
    <3> SUFFICES ASSUME NEW i \in 1 .. n + 1 PROVE t[i] = u[i]
      OBVIOUS
    <3> HIDE DEF u
    <3>1. t[i] = new.buffer[Wrap(g + i - 1)] /\ Wrap(g + i - 1) \in 0 .. bufsz - 1
      BY <1>4, <2>2
    <3>2. CASE i = n + 1
      <4>1. Wrap(g + i - 1) = p
        BY <1>0, <1>5, <3>2 DEF Wrap
      <4> QED BY <1>0, <1>6, <2>1, <3>1, <3>2, <4>1
    <3>3. CASE i # n + 1
      <4>1. i \in 1 .. n
        BY <1>0, <3>3
      <4>2. Wrap(g + i - 1) # p
        BY <1>0, <1>5, <4>1 DEF Wrap
      <4> QED BY <1>3, <1>6, <2>1, <3>1, <4>1, <4>2
    <3> QED BY <3>2, <3>3
  <2> HIDE DEF u
  <2>4. t = u
    BY <1>4, <2>1, <2>2, <2>3, SeqEqual
  <2> QED BY <1>3, <1>8, <2>4 DEF s, t, u, new
<1> QED BY <1>7, <1>8

\* A get takes the oldest byte.
LEMMA GetContents ==
  ASSUME bufsz \in BufSizes, NEW rx \in Fifos(bufsz), LapsRight(rx), ~ Empty(rx)
  PROVE  /\ Contents(rx) # <<>> /\ Contents(Get(rx)) = Tail(Contents(rx))
         /\ rx.buffer[rx.get_index] = Head(Contents(rx))
<1> DEFINE new == Get(rx)
           s == Contents(rx)
           t == Contents(new)
           n == rx_length(rx)
           g == rx.get_index
           p == rx.put_index
           q1 == rx_length(new)
<1>0. /\ bufsz \in Nat /\ bufsz > 1 /\ g \in 0 .. bufsz - 1 /\ p \in 0 .. bufsz - 1
      /\ rx.buffer \in [0 .. bufsz - 1 -> Cells] /\ n \in 1 .. bufsz - 1
  BY SerialAssumption, LengthOK DEF Fifos, Cells
<1>1. /\ new \in Fifos(bufsz) /\ LapsRight(new)
      /\ new.put_index = p /\ new.get_index = (g + 1) % bufsz
      /\ new.buffer = [rx.buffer EXCEPT ![g] = none]
  BY GetOK DEF LapsRight
<1>2. (g + 1) % bufsz = Wrap(g + 1)
  BY <1>0, NextWrap
<1>3. /\ s \in Seq(Cells) /\ Len(s) = n
      /\ \A i \in 1 .. n : s[i] = rx.buffer[Wrap(g + i - 1)] /\ Wrap(g + i - 1) \in 0 .. bufsz - 1
  BY ContentsOK
<1>4. /\ t \in Seq(Cells) /\ Len(t) = q1
      /\ \A i \in 1 .. q1 : /\ t[i] = new.buffer[Wrap(new.get_index + i - 1)]
                            /\ Wrap(new.get_index + i - 1) \in 0 .. bufsz - 1
  <2> HIDE DEF new
  <2> QED BY <1>1, ContentsOK
<1>5. /\ n = IF p >= g THEN p - g ELSE bufsz - (g - p)
      /\ q1 = IF new.put_index >= new.get_index THEN new.put_index - new.get_index
              ELSE bufsz - (new.get_index - new.put_index)
  BY DEF rx_length
<1>6. \A j \in 0 .. bufsz - 1 : j # g => new.buffer[j] = rx.buffer[j]
  BY <1>0, <1>1
<1> HIDE DEF new, s, t, n, g, p, q1
<1>7. s # <<>>
  BY <1>0, <1>3
<1>8. /\ Tail(s) \in Seq(Cells) /\ Len(Tail(s)) = n - 1
      /\ \A i \in 1 .. n - 1 : Tail(s)[i] = s[i + 1]
  BY <1>3, <1>7, HeadTailProperties
<1>9. q1 = n - 1 /\ new.get_index = Wrap(g + 1)
  <2>1. /\ bufsz \in Int /\ bufsz > 1 /\ p \in Int /\ g \in Int
        /\ 0 <= p /\ p < bufsz /\ 0 <= g /\ g < bufsz
    BY <1>0
  <2>2. new.get_index = Wrap(g + 1) /\ new.put_index = p
    BY <1>1, <1>2
  <2>3. n # 0 /\ n = (IF p >= g THEN p - g ELSE bufsz - (g - p))
    BY <1>0, <1>5
  <2>4. q1 = IF p >= Wrap(g + 1) THEN p - Wrap(g + 1) ELSE bufsz - (Wrap(g + 1) - p)
    BY <1>5, <2>2
  <2>5. q1 = n - 1
    BY <2>1, <2>3, <2>4 DEF Wrap
  <2> QED BY <2>2, <2>5
<1>10. \A i \in 1 .. n - 1 : t[i] = Tail(s)[i]
  <2> SUFFICES ASSUME NEW i \in 1 .. n - 1 PROVE t[i] = s[i + 1]
    BY <1>8
  <2>1. t[i] = new.buffer[Wrap(Wrap(g + 1) + i - 1)] /\ Wrap(Wrap(g + 1) + i - 1) \in 0 .. bufsz - 1
    BY <1>4, <1>9
  <2>2. i + 1 \in 1 .. n
    BY <1>0
  <2>3. Wrap(Wrap(g + 1) + i - 1) # g /\ Wrap(Wrap(g + 1) + i - 1) = Wrap(g + (i + 1) - 1)
    BY <1>0, <1>5, <2>2 DEF Wrap
  <2> QED BY <1>3, <1>6, <2>1, <2>2, <2>3
<1>11. t = Tail(s)
  BY <1>4, <1>8, <1>9, <1>10, SeqEqual
<1>12. Head(s) = rx.buffer[g]
  <2>1. Head(s) = s[1] /\ 1 \in 1 .. n
    BY <1>0, <1>3, <1>7
  <2>2. Wrap(g + 1 - 1) = g
    BY <1>0 DEF Wrap
  <2> QED BY <1>3, <2>1, <2>2
<1> QED BY <1>7, <1>11, <1>12 DEF s, t, g, new

\* A step that leaves the FIFO and the byte read last.
LEMMA SameQueue ==
  ASSUME serial_rx' = serial_rx, got' = got, serial_rx # null => bufsz' = bufsz
  PROVE  UNCHANGED <<Queue, Room, got>>
<1>1. CASE serial_rx = null
  BY <1>1 DEF Queue, Room
<1>2. CASE serial_rx # null
  BY <1>2 DEF Queue, Room, Contents, rx_length
<1> QED BY <1>1, <1>2

LEMMA InitQueue == Init => Q!Init
BY DEF Init, Q!Init, Queue, Room

LEMMA NewFifoQueue ==
  ASSUME bufsz \in BufSizes
  PROVE  Contents(NewFifo) = <<>> /\ NewFifo.size - 1 > 0
<1>1. NewFifo \in Fifos(bufsz) /\ LapsRight(NewFifo) /\ Empty(NewFifo)
  BY NewFifoOK DEF LapsRight
<1>2. Contents(NewFifo) \in Seq(Cells) /\ Len(Contents(NewFifo)) = 0
  BY <1>1, ContentsOK, LengthOK
<1>3. bufsz \in Nat /\ bufsz > 1
  BY SerialAssumption
<1> QED BY <1>2, <1>3, EmptySeq DEF NewFifo

LEMMA NextQueue ==
  ASSUME Disciplined, SerialInv, [Next]_vars
  PROVE  [Q!Next]_<<Queue, Room, got>>
<1>0. /\ TypeOK /\ Protocol /\ Resources /\ Ring /\ Modes
      /\ bufsz \in BufSizes /\ bufsz \in Nat /\ bufsz > 1
      /\ serial_rx # null => serial_rx \in Fifos(bufsz) /\ LapsRight(serial_rx) /\ serial_rx.size = bufsz
      /\ serial_rx = null => got = none
  BY SerialAssumption DEF SerialInv, TypeOK, Ring, Fifos
<1>1. ASSUME NEW c \in Clients, (\E oflag \in Opens : OpenStart(c, oflag)) \/ OpenFails(c)
      PROVE  [Q!Next]_<<Queue, Room, got>>
  <2>1. At(c, "idle") /\ Alone(c) /\ serial_rx' = (IF dev.activated THEN serial_rx ELSE null)
        /\ bufsz' = bufsz /\ got' = got
    BY <1>1 DEF OpenStart, OpenFails, rxside
  <2>2. ~ dev.activated => serial_rx = null
    <3> SUFFICES ASSUME ~ dev.activated PROVE serial_rx = null
      OBVIOUS
    <3>1. ~ InUse /\ \A l \in Changing : ~ Someone(l)
      BY <1>0 DEF Resources, Someone
    <3> QED BY <1>0, <3>1 DEF Resources, Changing
  <2> QED BY <2>1, <2>2, SameQueue
<1>2. ASSUME NEW c \in Clients, NEW n \in BufSizes, Config(c, n)
      PROVE  [Q!Next]_<<Queue, Room, got>>
  <2>1. pc[c] = "idle" /\ pc[Other(c)] = "idle" /\ (n # bufsz => dev.ref_count = 0)
        /\ bufsz' = n /\ serial_rx' = serial_rx /\ got' = got
    BY <1>0, <1>2, OthersIdle DEF Config, At, rxside
  <2>2. n # bufsz => serial_rx = null
    <3>1. Seen(c)
      BY SeenNow
    <3>2. ~ Someone("open_tx") /\ ~ Someone("close_rx")
      BY <2>1, <3>1 DEF Seen
    <3>3. dev.ref_count = 0 => ~ InUse
      BY <1>0, <3>1 DEF Seen, Protocol
    <3> QED BY <1>0, <2>1, <3>2, <3>3 DEF Resources
  <2> QED BY <2>1, <2>2, SameQueue
<1>3. ASSUME NEW c \in Clients, OpenRx(c)
      PROVE  [Q!Next]_<<Queue, Room, got>>
  <2>1. bufsz' = bufsz /\ got' = got /\ serial_rx' \in {serial_rx, NewFifo}
        /\ (serial_rx # null => serial_rx' = serial_rx)
    BY <1>3 DEF OpenRx, rxside
  <2>2. CASE serial_rx' = serial_rx
    BY <2>1, <2>2, SameQueue
  <2>3. CASE serial_rx' # serial_rx
    <3>1. serial_rx = null /\ serial_rx' = NewFifo /\ NewFifo # null
      BY <1>0, <2>1, <2>3, NewFifoOK
    <3>2. NewFifo.size - 1 > 0 /\ Contents(NewFifo) = <<>>
      BY <1>0, NewFifoQueue
    <3>3. Queue' = <<>>
      <4>1. Queue' = Contents(NewFifo)
        BY <2>1, <3>1 DEF Queue, Contents, rx_length
      <4> QED BY <3>2, <4>1
    <3>4. Room = 0 /\ Room' > 0
      BY <3>1, <3>2 DEF Room
    <3>5. Q!Make
      BY <1>0, <2>1, <3>1, <3>3, <3>4 DEF Q!Make
    <3> QED BY <3>5 DEF Q!Next
  <2> QED BY <2>2, <2>3
<1>4. ASSUME NEW c \in Clients, CloseRx(c)
      PROVE  [Q!Next]_<<Queue, Room, got>>
  <2>1. serial_rx' = null /\ got' = none /\ bufsz' = bufsz
    <3>1. Seen(c) /\ pc[c] = "close_rx" /\ opened[c] = null /\ opened[Other(c)] = null
      BY <1>0, <1>4, SeenNow DEF CloseRx, At, Protocol
    <3>2. ~ InUse /\ Someone("close_rx")
      BY <3>1 DEF Seen, Ready
    <3>3. "INT_RX" \in dev.open_flag <=> serial_rx # null
      BY <1>0, <3>2 DEF Resources
    <3> QED BY <1>0, <1>4, <3>3 DEF CloseRx
  <2>2. CASE serial_rx = null
    BY <1>0, <2>1, <2>2, SameQueue
  <2>3. CASE serial_rx # null
    <3>1. Room > 0 /\ Room' = 0 /\ Queue' = <<>>
      BY <1>0, <2>1, <2>3 DEF Room, Queue
    <3>2. Q!Discard
      BY <2>1, <3>1 DEF Q!Discard
    <3> QED BY <3>2 DEF Q!Next
  <2> QED BY <2>2, <2>3
<1>5. ASSUME IsrByte PROVE [Q!Next]_<<Queue, Room, got>>
  <2>1. /\ serial_rx # null /\ serial_rx' = Put(serial_rx, dr) /\ dr \in Bytes
        /\ bufsz' = bufsz /\ got' = got
    BY <1>0, <1>5 DEF IsrByte, RxPending, TypeOK
  <2>2. /\ serial_rx' # null /\ serial_rx'.size = bufsz
        /\ Contents(serial_rx') =
             Append(IF Len(Contents(serial_rx)) = bufsz - 1 THEN Tail(Contents(serial_rx))
                                                            ELSE Contents(serial_rx), dr)
    BY <1>0, <2>1, PutOK, PutContents
  <2>3. Queue = Contents(serial_rx) /\ Room = bufsz - 1
    BY <1>0, <2>1 DEF Queue, Room
  <2>4. Queue' = Contents(serial_rx') /\ Room' = bufsz - 1
    BY <2>1, <2>2 DEF Queue, Room, Contents, rx_length
  <2>5. Q!Receive(dr)
    BY <1>0, <2>1, <2>2, <2>3, <2>4 DEF Q!Receive
  <2> QED BY <2>1, <2>5 DEF Q!Next
<1>6. ASSUME ReadByte PROVE [Q!Next]_<<Queue, Room, got>>
  <2>1. /\ ~ Empty(serial_rx) /\ got' = serial_rx.buffer[serial_rx.get_index]
        /\ serial_rx' = Get(serial_rx) /\ bufsz' = bufsz /\ pc[Reader] = "int_rx"
    BY <1>6 DEF ReadByte, At
  <2>2. serial_rx # null
    <3>1. "INT_RX" \in dev.open_flag
      BY <1>0, <2>1 DEF Modes
    <3>2. InUse \/ Someone("open_tx") \/ Someone("close_rx")
      BY <1>0, <3>1 DEF Resources
    <3> QED BY <1>0, <3>1, <3>2 DEF Resources
  <2>3. /\ serial_rx' # null /\ serial_rx'.size = bufsz
        /\ Contents(serial_rx) # <<>> /\ Contents(serial_rx') = Tail(Contents(serial_rx))
        /\ got' = Head(Contents(serial_rx))
    BY <1>0, <2>1, <2>2, GetOK, GetContents
  <2>4. Queue = Contents(serial_rx) /\ Room = bufsz - 1
    BY <1>0, <2>2 DEF Queue, Room
  <2>5. Queue' = Contents(serial_rx') /\ Room' = bufsz - 1
    BY <2>1, <2>3 DEF Queue, Room, Contents, rx_length
  <2>6. Q!Read
    BY <2>3, <2>4, <2>5 DEF Q!Read
  <2> QED BY <2>6 DEF Q!Next
<1>7. ASSUME UNCHANGED <<serial_rx, got, bufsz>> PROVE [Q!Next]_<<Queue, Room, got>>
  BY <1>7, SameQueue
<1>8. ASSUME NEW c \in Clients, OpenTx(c) \/ CloseStart(c) \/ CloseTx(c)
      PROVE  [Q!Next]_<<Queue, Room, got>>
  <2>1. UNCHANGED <<serial_rx, got, bufsz>>
    BY <1>8 DEF OpenTx, CloseStart, CloseTx, rxside
  <2> QED BY <1>7, <2>1
<1>9. ASSUME \/ ReadWait \/ ReadStart \/ PollByte \/ ReadNothing
             \/ (\E line \in Lines : WriteStart(line)) \/ WriteStep
             \/ IsrEnd \/ IsrClear \/ TxDone \/ (\E b \in Bytes : LineByte(b)) \/ UNCHANGED vars
      PROVE  [Q!Next]_<<Queue, Room, got>>
  <2>1. UNCHANGED <<serial_rx, got, bufsz>>
    BY <1>9 DEF ReadWait, ReadStart, PollByte, ReadNothing, WriteStart, WriteStep, PollTx, PollData,
         IntTx, IntData, WaitDone, WriteReturn, TxUnchanged, IsrEnd, IsrClear, TxDone, LineByte,
         rxside, vars
  <2> QED BY <1>7, <2>1
<1> QED
  BY <1>1, <1>2, <1>3, <1>4, <1>5, <1>6, <1>8, <1>9 DEF Next, OpenClose, CallStep, ReadStep

\* The ring with its two indices and is_full implements the abstract queue that
\* loses its oldest byte when it overflows, across opens and closes (IsByteQueue).
THEOREM RingIsQueue == Disciplined => (Spec => IsByteQueue)
<1> SUFFICES ASSUME Disciplined PROVE Spec => IsByteQueue
  OBVIOUS
<1>1. SerialInv /\ SerialInv' /\ [Next]_vars => [Q!Next]_<<Queue, Room, got>>
  BY NextQueue
<1> QED BY <1>1, InitQueue, SerialInvariant, PTL DEF Spec, IsByteQueue, Q!Spec
=============================================================================

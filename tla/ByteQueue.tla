------------------------------ MODULE ByteQueue ------------------------------
(***************************************************************************)
(* What a receive buffer promises its reader: the bytes in the order of    *)
(* their arrival, and the newest ones if there are more than fit.          *)
(***************************************************************************)
EXTENDS Integers, Sequences

CONSTANTS Bytes,
          none      \* no byte

VARIABLES q,        \* the bytes received and not yet read
          room,     \* how many fit; 0 while the buffer does not exist
          got       \* the byte read last, since the buffer was made

Init == q = <<>> /\ room = 0 /\ got = none

Make == room = 0 /\ room' > 0 /\ q' = <<>> /\ got' = none
Discard == room > 0 /\ room' = 0 /\ q' = <<>> /\ got' = none

Receive(b) ==
  /\ room > 0
  /\ q' = Append(IF Len(q) = room THEN Tail(q) ELSE q, b)
  /\ UNCHANGED <<room, got>>

Read == q # <<>> /\ got' = Head(q) /\ q' = Tail(q) /\ UNCHANGED room

Next == Make \/ Discard \/ Read \/ \E b \in Bytes : Receive(b)

Spec == Init /\ [][Next]_<<q, room, got>>
=============================================================================

----------------------------- MODULE PacketFifo -----------------------------
(***************************************************************************)
(* What TSPacketQueue promises to its two threads: a bounded queue of      *)
(* packets, first in, first out.  The writer adds packets in blocks until  *)
(* it declares the end of file, the reader takes them in blocks, in order, *)
(* without loss or duplicate, and a session starts again with an empty     *)
(* queue, from which packets of an earlier session never come out.         *)
(*                                                                         *)
(* A packet is a pair <<session, position>>.  The reader learns of the end *)
(* of file only when it has all the packets of the session.                *)
(***************************************************************************)
EXTENDS Naturals, Sequences

CONSTANT Capacity

VARIABLES
    fifo,      \* packets in the queue, the oldest first
    session,   \* number of the session
    sent,      \* number of packets which entered the queue in the session
    received,  \* packets which the reader got in the session
    closed,    \* the writer declared the end of file
    told       \* the reader was told that the input has ended

fifoVars == <<fifo, session, sent, received, closed, told>>

Init ==
    /\ fifo = <<>> /\ session = 0 /\ sent = 0 /\ received = <<>>
    /\ closed = FALSE /\ told = FALSE

Restart ==
    /\ fifo' = <<>> /\ session' = session + 1 /\ sent' = 0 /\ received' = <<>>
    /\ closed' = FALSE /\ told' = FALSE

Write(n) ==
    /\ ~closed
    /\ Len(fifo) + n <= Capacity
    /\ fifo' = fifo \o [k \in 1 .. n |-> <<session, sent + k>>]
    /\ sent' = sent + n
    /\ UNCHANGED <<session, received, closed, told>>

Read(n) ==
    /\ n <= Len(fifo)
    /\ received' = received \o SubSeq(fifo, 1, n)
    /\ fifo' = SubSeq(fifo, n + 1, Len(fifo))
    /\ UNCHANGED <<session, sent, closed, told>>

Close == closed' = TRUE /\ UNCHANGED <<fifo, session, sent, received, told>>

Tell ==
    /\ closed
    /\ Len(received) = sent
    /\ told' = TRUE
    /\ UNCHANGED <<fifo, session, sent, received, closed>>

Next ==
    \/ Restart \/ Close \/ Tell
    \/ \E n \in 1 .. Capacity : Write(n) \/ Read(n)

Spec == Init /\ [][Next]_fifoVars
=============================================================================

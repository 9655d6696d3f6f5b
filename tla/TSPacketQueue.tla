--------------------------- MODULE TSPacketQueue ---------------------------
(***************************************************************************)
(* Class TSPacketQueue: the circular buffer of packets between a writer    *)
(* and a reader thread.  Each method locks _mutex from its first to its    *)
(* last line, except while it waits, so that a method is one step, with    *)
(* the label of the wait between two evaluations of its condition.  The    *)
(* packets themselves are written outside of the mutex, in the window      *)
(* which lockWriteBuffer() returned.                                       *)
(*                                                                         *)
(* The threads, and who sleeps on _enqueued and _dequeued, are in module   *)
(* PacketInput.  The bitrate and the PCR analysis are left out.            *)
(***************************************************************************)
EXTENDS Integers, Sequences

CONSTANT Size   \* size of _buffer

ASSUME SizeAssumption == Size \in Nat \ {0}

VARIABLES
    buffer,      \* _buffer
    inCount,     \* _inCount
    readIndex,   \* _readIndex
    writeIndex,  \* _writeIndex
    eof,         \* _eof
    stopped      \* _stopped

indexVars == <<inCount, readIndex, writeIndex>>
queueVars == <<buffer, indexVars, eof, stopped>>

Slots == 0 .. (Size - 1)
NoPacket == <<0, 0>>

QMin(a, b) == IF a <= b THEN a ELSE b
QMax(a, b) == IF a >= b THEN a ELSE b

\* Constructor: the content of the buffer is never read before it is written.
QueueInit ==
    /\ buffer = [s \in Slots |-> NoPacket]
    /\ inCount = 0 /\ readIndex = 0 /\ writeIndex = 0
    /\ eof = FALSE /\ stopped = FALSE

\* reset(): the packets of the previous session remain in the buffer.
Reset ==
    /\ eof' = FALSE /\ stopped' = FALSE
    /\ inCount' = 0 /\ readIndex' = 0 /\ writeIndex' = 0
    /\ UNCHANGED buffer

\* Wrong variant: up to the end of the buffer in all cases.
ContiguousToEnd == Size - writeIndex

\* Slots from the write index to the read index or to the end of the buffer.
Contiguous == (IF readIndex > writeIndex THEN readIndex ELSE Size) - writeIndex

\* Wrong variant: one packet too early, a full buffer is then taken for an empty one.
LacksSpaceEarly(min) ==
    Size - inCount + 1 < QMax(1, QMin(min, Size - writeIndex))

\* Condition of the wait in lockWriteBuffer(min).
LacksSpace(min) ==
    Size - inCount < QMax(1, QMin(min, Size - writeIndex))

\* releaseWriteBuffer(): count is reduced to the window when assertions are disabled.
ReleaseWriteBuffer(count) ==
    LET n == QMin(count, Contiguous)
    IN  /\ inCount' = inCount + n
        /\ writeIndex' = (writeIndex + n) % Size
        /\ UNCHANGED <<buffer, readIndex, eof, stopped>>

SetEOF == eof' = TRUE /\ UNCHANGED <<buffer, indexVars, stopped>>

\* eof()
Eof == eof /\ inCount = 0

\* getPacket() with n = 1, the copy loop of waitPackets() otherwise.
TakePackets(n) ==
    /\ readIndex' = (readIndex + n) % Size
    /\ inCount' = inCount - n
    /\ UNCHANGED <<buffer, writeIndex, eof, stopped>>

\* The packets which the next n reads return.
Front(n) == [k \in 1 .. n |-> buffer[(readIndex + k - 1) % Size]]

\* Condition of the wait in waitPackets().
LacksPackets == ~eof /\ ~stopped /\ inCount = 0

Stop == stopped' = TRUE /\ UNCHANGED <<buffer, indexVars, eof>>
=============================================================================

------------------------- MODULE PacketInputProofs -------------------------
(***************************************************************************)
(* Proofs about the two threads which share a TSPacketQueue, for any size  *)
(* of the buffer and any number of packets, sessions and aborts: the       *)
(* window of the writer is never read and the queue is first in, first     *)
(* out.                                                                    *)
(***************************************************************************)
EXTENDS PacketInput, SequenceTheorems, TLAPS

Packets == Nat \X Nat

\* Types of the queue.
QueueTypes ==
    /\ buffer \in [Slots -> Packets]
    /\ inCount \in 0 .. Size
    /\ readIndex \in Slots
    /\ writeIndex \in Slots
    /\ eof \in BOOLEAN
    /\ stopped \in BOOLEAN

\* Types of the threads.
ThreadTypes ==
    /\ user \in {"push", "merge"}
    /\ wpc \in WriterLabels
    /\ rpc \in ReaderLabels
    /\ session \in Nat
    /\ todo \in Nat
    /\ area \in Nat
    /\ filled \in Nat
    /\ sent \in Nat
    /\ received \in Seq(Packets)
    /\ told \in BOOLEAN

\* The write index is the read index plus the number of packets, modulo the size.
IndexInv == writeIndex \in {readIndex + inCount, readIndex + inCount - Size}

\* The labels of a thread depend on the plugin, pushPackets() asks for at least one packet.
LabelInv ==
    /\ user = "push" => wpc \notin {"top", "read"} /\ rpc # "eofTest"
    /\ user = "merge" => wpc \notin {"input", "push"} /\ rpc \notin {"wait", "waitW"}
    /\ user = "push" /\ wpc \in {"lock", "lockW"} => todo > 0
    /\ user = "push" /\ wpc \in {"fill", "release"} => area <= todo

\* Between lockWriteBuffer() and releaseWriteBuffer(), the window is contiguous and the whole
\* of it can be added to the packets of the queue.
InWindow == wpc \in {"read", "fill", "release"}

SpaceInv ==
    InWindow =>
        /\ area > 0
        /\ area <= Contiguous
        /\ inCount + area <= Size
        /\ filled <= area
        /\ wpc = "read" => filled = 0
        /\ wpc = "fill" => filled < area
        /\ wpc = "release" => filled = area

\* What is already written in the window are the next packets of the session.
ContentInv ==
    InWindow => \A k \in 0 .. (filled - 1) : buffer[writeIndex + k] = <<session, sent + k + 1>>

\* No packet is lost between the two threads, the end of file is declared last, and the reader
\* of a push input does not go on after the end of the input.
EndInv ==
    /\ sent = Len(received) + inCount
    /\ eof => wpc = "done"
    /\ told /\ user = "push" => rpc \in {"stop", "join", "idle"}

IInv == QueueTypes /\ ThreadTypes /\ IndexInv /\ LabelInv /\ SpaceInv /\ ContentInv /\ EndInv

-----------------------------------------------------------------------------
(***************************************************************************)
(* The operations of TSPacketQueue.                                        *)
(***************************************************************************)
LEMMA SizeType == Size \in Nat /\ Size >= 1
  BY SizeAssumption

\* A position wraps at most once.
LEMMA ModWrap ==
    ASSUME NEW a \in Nat, a < 2 * Size
    PROVE  /\ a % Size = IF a < Size THEN a ELSE a - Size
           /\ a % Size \in Slots
<1>1. ASSUME NEW b \in Nat \ {0}, NEW c \in Nat, c < 2 * b
      PROVE  c % b = IF c < b THEN c ELSE c - b
  BY <1>1
<1>2. a % Size = IF a < Size THEN a ELSE a - Size
  BY <1>1, SizeAssumption
<1> QED BY <1>2, SizeType DEF Slots

\* The packets of the queue, the oldest first, from a read index which has not moved.
LEMMA FrontSeq ==
    ASSUME QueueTypes, NEW n \in 0 .. Size
    PROVE  /\ Front(n) \in Seq(Packets)
           /\ Len(Front(n)) = n
           /\ \A k \in 1 .. n : Front(n)[k] = buffer[(readIndex + k - 1) % Size]
<1>1. ASSUME NEW k \in 1 .. n
      PROVE  buffer[(readIndex + k - 1) % Size] \in Packets
  <2>1. readIndex + k - 1 \in Nat /\ readIndex + k - 1 < 2 * Size
    BY SizeType DEF QueueTypes, Slots
  <2>2. (readIndex + k - 1) % Size \in Slots
    BY <2>1, ModWrap
  <2> QED BY <2>2 DEF QueueTypes
<1>2. Front(n) \in [1 .. n -> Packets]
  BY <1>1 DEF Front
<1>3. Front(n) \in Seq(Packets)
  BY <1>2, SeqDef
<1>4. Len(Front(n)) = n
  BY <1>2, <1>3, LenProperties
<1> QED BY <1>3, <1>4 DEF Front

\* getPacket() and waitPackets() move the read index towards the write index.
LEMMA TakeIndexes ==
    ASSUME QueueTypes, IndexInv, NEW n \in 0 .. inCount, TakePackets(n)
    PROVE  QueueTypes' /\ IndexInv' /\ (inCount < Size => Contiguous' >= Contiguous)
<1>1. readIndex + n \in Nat /\ readIndex + n < 2 * Size
  BY SizeType DEF QueueTypes, Slots
<1>2. /\ readIndex' = IF readIndex + n < Size THEN readIndex + n ELSE readIndex + n - Size
      /\ readIndex' \in Slots
  <2> DEFINE a == readIndex + n
  <2>1. readIndex' = a % Size
    BY DEF TakePackets
  <2>2. a \in Nat /\ a < 2 * Size
    BY <1>1
  <2> HIDE DEF a
  <2>3. a % Size = (IF a < Size THEN a ELSE a - Size) /\ a % Size \in Slots
    BY <2>2, ModWrap
  <2>4. readIndex' = (IF a < Size THEN a ELSE a - Size) /\ readIndex' \in Slots
    BY <2>1, <2>3
  <2> QED BY <2>4, SizeType DEF a, QueueTypes, Slots
<1>3. inCount' = inCount - n /\ inCount' \in 0 .. Size /\ UNCHANGED <<buffer, writeIndex, eof, stopped>>
  BY SizeType DEF TakePackets, QueueTypes
<1>4. QueueTypes'
  BY <1>2, <1>3 DEF QueueTypes
<1>5. IndexInv' /\ (inCount < Size => Contiguous' >= Contiguous)
  BY <1>2, <1>3, SizeType DEF QueueTypes, IndexInv, Slots, Contiguous
<1> QED BY <1>4, <1>5

\* Within the limits of its window, releaseWriteBuffer() adds the whole of it.
LEMMA ReleaseIndexes ==
    ASSUME QueueTypes, IndexInv, area \in Nat, area <= Contiguous, inCount + area <= Size,
           ReleaseWriteBuffer(area)
    PROVE  /\ QueueTypes' /\ IndexInv'
           /\ inCount' = inCount + area
           /\ UNCHANGED <<buffer, readIndex, eof, stopped>>
<1> DEFINE a == writeIndex + area
<1>1. QMin(area, Contiguous) = area
  BY DEF QMin
<1>2. /\ inCount' = inCount + area
      /\ writeIndex' = a % Size
      /\ UNCHANGED <<buffer, readIndex, eof, stopped>>
  BY <1>1 DEF ReleaseWriteBuffer
<1>3. a \in Nat /\ a < 2 * Size
  BY SizeType DEF QueueTypes, Slots, Contiguous
<1> HIDE DEF a
<1>4. writeIndex' = (IF a < Size THEN a ELSE a - Size) /\ writeIndex' \in Slots
  <2>1. a % Size = (IF a < Size THEN a ELSE a - Size) /\ a % Size \in Slots
    BY <1>3, ModWrap
  <2> QED BY <1>2, <2>1
<1>5. inCount' \in 0 .. Size
  BY <1>2, SizeType DEF QueueTypes
<1>6. QueueTypes'
  BY <1>2, <1>4, <1>5 DEF QueueTypes
<1>7. IndexInv'
  BY <1>2, <1>4, SizeType DEF a, QueueTypes, IndexInv, Slots
<1> QED BY <1>2, <1>6, <1>7

-----------------------------------------------------------------------------
(***************************************************************************)
(* The inductive invariant.                                                *)
(***************************************************************************)
USE DEF WriterLabels, ReaderLabels

\* The initial queue is empty and both threads are at the start of their loops.
LEMMA InitIInv == Init => IInv
<1> SUFFICES ASSUME Init PROVE IInv
  OBVIOUS
<1>1. QueueTypes
  <2>1. NoPacket \in Packets /\ 0 \in Slots /\ 0 \in 0 .. Size
    BY SizeType DEF NoPacket, Packets, Slots
  <2>2. [s \in Slots |-> NoPacket] \in [Slots -> Packets]
    BY <2>1
  <2> QED BY <2>1, <2>2 DEF Init, QueueInit, QueueTypes
<1>2. received \in Seq(Packets) /\ Len(received) = 0
  BY EmptySeq DEF Init
<1>3. ThreadTypes
  BY <1>2, InputAssumption DEF Init, ThreadTypes
<1>4. IndexInv
  BY DEF Init, QueueInit, IndexInv
<1>6. LabelInv /\ SpaceInv /\ ContentInv
  BY DEF Init, LabelInv, SpaceInv, ContentInv, InWindow
<1>5. EndInv
  BY <1>2 DEF Init, QueueInit, EndInv
<1> QED BY <1>1, <1>3, <1>4, <1>5, <1>6 DEF IInv

\* The invariant depends on these variables only.
LEMMA StutterIInv ==
    ASSUME IInv,
           UNCHANGED <<buffer, inCount, readIndex, writeIndex, eof, stopped, user, session, wpc,
                       todo, area, filled, rpc, sent, received, told>>
    PROVE  IInv'
<1>1. QueueTypes' /\ IndexInv'
  BY DEF IInv, QueueTypes, IndexInv
<1>2. ThreadTypes' /\ LabelInv'
  BY DEF IInv, ThreadTypes, LabelInv
<1>3. SpaceInv' /\ ContentInv'
  BY DEF IInv, SpaceInv, ContentInv, InWindow, Contiguous
<1>4. EndInv'
  BY DEF IInv, EndInv
<1> QED BY <1>1, <1>2, <1>3, <1>4 DEF IInv

\* The steps which leave the queue and the window alone.
LEMMA OutsideIInv ==
    ASSUME IInv,
           Deliver \/ EndDownload \/ PushLoop \/ MergeLoop \/ Receive \/ Sleep \/ EofTest
              \/ Leave \/ StopPlugin \/ Join \/ AbortInput \/ Interrupt \/ EndOfFile
              \/ UNCHANGED vars
    PROVE  IInv'
<1> USE DEF IInv, QueueTypes, ThreadTypes, IndexInv, LabelInv, SpaceInv, ContentInv, EndInv,
            InWindow, queueVars, indexVars, writerVars, Contiguous
<1>1. CASE Deliver
  BY <1>1, InputAssumption DEF Deliver
<1>2. CASE EndDownload
  BY <1>2 DEF EndDownload, AfterDownload
<1>3. CASE PushLoop
  BY <1>3 DEF PushLoop, AfterDownload
<1>4. CASE MergeLoop
  BY <1>4 DEF MergeLoop
<1>5. CASE Receive
  BY <1>5 DEF Receive
<1>6. CASE Sleep
  BY <1>6 DEF Sleep
<1>7. CASE EofTest
  BY <1>7 DEF EofTest, Eof
<1>8. CASE Leave
  BY <1>8 DEF Leave
<1>9. CASE StopPlugin
  BY <1>9 DEF StopPlugin, Stop, SignalDequeued
<1>10. CASE Join
  BY <1>10 DEF Join
<1>11. CASE AbortInput
  <2>1. /\ stopped' = TRUE
        /\ wpc' = IF wpc = "lockW" THEN "lock" ELSE wpc
        /\ UNCHANGED <<buffer, inCount, readIndex, writeIndex, eof, user, session, todo, area,
                       filled, rpc, sent, received, told>>
    BY <1>11 DEF AbortInput, Stop, SignalDequeued
  <2> QED BY <2>1
<1>12. CASE Interrupt
  BY <1>12, StutterIInv DEF Interrupt
<1>13. CASE EndOfFile
  <2>1. /\ eof' = TRUE /\ wpc' = "done"
        /\ rpc' = IF rpc = "waitW" THEN "wait" ELSE rpc
        /\ UNCHANGED <<buffer, inCount, readIndex, writeIndex, stopped, user, session, todo, area,
                       filled, sent, received, told>>
    BY <1>13 DEF EndOfFile, SetEOF, SignalEnqueued
  <2> QED BY <2>1
<1>14. CASE UNCHANGED vars
  BY <1>14, StutterIInv DEF vars
<1> QED
  BY <1>1, <1>2, <1>3, <1>4, <1>5, <1>6, <1>7, <1>8, <1>9, <1>10, <1>11, <1>12, <1>13, <1>14

\* lockWriteBuffer() returns a window which is free and not empty.
LEMMA LockIInv ==
    ASSUME IInv, LockWriteBuffer
    PROVE  IInv'
<1> USE DEF IInv
<1>1. QueueTypes' /\ IndexInv'
  BY DEF LockWriteBuffer, queueVars, indexVars, QueueTypes, IndexInv
<1>2. EndInv'
  BY DEF LockWriteBuffer, queueVars, indexVars, EndInv
<1>3. CASE wpc' \in {"lockW", "done"} \/ (user = "push" /\ wpc' \in {"input", "eof"})
  <2>1. todo' = todo /\ area' = area /\ filled' = filled
    BY <1>3 DEF LockWriteBuffer, writerVars
  <2>2. ThreadTypes'
    BY <1>3, <2>1 DEF LockWriteBuffer, ThreadTypes
  <2>3. LabelInv'
    BY <1>3, <2>1 DEF LockWriteBuffer, LabelInv
  <2>4. SpaceInv' /\ ContentInv'
    BY <1>3 DEF SpaceInv, ContentInv, InWindow
  <2> QED BY <1>1, <1>2, <2>2, <2>3, <2>4
<1>4. CASE ~stopped /\ ~LacksSpace(LockRequest)
           /\ area' = (IF user = "push" THEN QMin(todo, Contiguous) ELSE Contiguous)
           /\ filled' = 0
           /\ wpc' = (IF user = "push" THEN "fill" ELSE "read")
           /\ UNCHANGED <<todo, downloads>>
  <2>1. inCount < Size
    <3>1. LockRequest \in Nat /\ Size - writeIndex \in Nat /\ inCount \in Nat
      BY SizeType, InputAssumption DEF LockRequest, QueueTypes, ThreadTypes, Slots
    <3>2. QMin(LockRequest, Size - writeIndex) \in Nat
      BY <3>1 DEF QMin
    <3>3. QMax(1, QMin(LockRequest, Size - writeIndex)) \in Nat \ {0}
      BY <3>2 DEF QMax
    <3> QED BY <1>4, <3>1, <3>3, SizeType DEF LacksSpace
  <2>2. Contiguous \in Nat /\ Contiguous > 0 /\ Contiguous <= Size - inCount
    BY <2>1, SizeType DEF Contiguous, QueueTypes, IndexInv, Slots
  <2>3. Contiguous' = Contiguous /\ inCount' = inCount
    BY DEF LockWriteBuffer, queueVars, indexVars, Contiguous
  <2>4. user = "push" => todo \in Nat /\ todo > 0
    BY DEF LockWriteBuffer, LabelInv, ThreadTypes
  <2>5. /\ area' \in Nat /\ area' > 0 /\ area' <= Contiguous
        /\ user = "push" => area' <= todo
    BY <1>4, <2>2, <2>4 DEF QMin
  <2>6. UNCHANGED <<user, session, rpc, sent, received, told, todo>>
    BY <1>4 DEF LockWriteBuffer
  <2>7. ThreadTypes'
    BY <1>4, <2>5, <2>6 DEF ThreadTypes
  <2>8. LabelInv'
    BY <1>4, <2>5, <2>6 DEF LabelInv
  <2>9. SpaceInv'
    <3>1. area' <= Contiguous'
      BY <2>3, <2>5
    <3>2. inCount' + area' <= Size
      <4>1. PICK n : n = area'
        OBVIOUS
      <4>2. n \in Nat /\ n <= Contiguous
        BY <4>1, <2>5
      <4>3. inCount + n <= Size
        BY <4>2, <2>2, SizeType DEF QueueTypes
      <4> QED BY <4>1, <4>3, <2>3
    <3> QED BY <1>4, <2>5, <3>1, <3>2 DEF SpaceInv
  <2>10. ContentInv'
    BY <1>4 DEF ContentInv
  <2> QED BY <1>1, <1>2, <2>7, <2>8, <2>9, <2>10
<1> QED
  BY <1>3, <1>4 DEF LockWriteBuffer, AfterDownload, ThreadTypes

\* ForkPipe::read() fills at most the window.
LEMMA ReadIInv ==
    ASSUME IInv, ReadPipe
    PROVE  IInv'
<1> USE DEF IInv
<1>1. QueueTypes' /\ IndexInv' /\ EndInv'
  BY DEF ReadPipe, queueVars, indexVars, QueueTypes, IndexInv, EndInv
<1>2. /\ area \in Nat /\ area > 0 /\ area <= Contiguous /\ inCount + area <= Size /\ filled = 0
      /\ user = "merge"
  BY DEF ReadPipe, SpaceInv, InWindow, ThreadTypes, LabelInv
<1>3. area' \in Nat /\ area' > 0 /\ area' <= area /\ wpc' \in {"fill", "eof"}
  <2>1. CASE \E n \in 1 .. QMin(area, MaxChunk) : area' = n
    BY <2>1, <1>2, InputAssumption DEF QMin, ReadPipe
  <2>2. CASE area' = area
    BY <2>2, <1>2 DEF ReadPipe
  <2> QED BY <2>1, <2>2 DEF ReadPipe
<1>4. UNCHANGED <<user, session, rpc, sent, received, told, todo, filled, inCount>> /\ Contiguous' = Contiguous
  BY DEF ReadPipe, queueVars, indexVars, Contiguous
<1>5. Contiguous \in Int /\ inCount \in Nat
  BY SizeType DEF Contiguous, QueueTypes, Slots
<1>6. ThreadTypes' /\ LabelInv'
  BY <1>2, <1>3, <1>4 DEF ThreadTypes, LabelInv
<1>7. SpaceInv' /\ ContentInv'
  BY <1>2, <1>3, <1>4, <1>5, SizeType DEF SpaceInv, ContentInv, InWindow
<1> QED BY <1>1, <1>6, <1>7

\* A packet is written in the window, out of the packets of the queue.
LEMMA FillSlot ==
    ASSUME IInv, Fill
    PROVE  /\ writeIndex + filled \in Slots
           /\ filled \in Nat /\ filled < area /\ area <= Contiguous /\ inCount + area <= Size
           /\ \A k \in 1 .. inCount : (readIndex + k - 1) % Size # writeIndex + filled
<1> USE DEF IInv
<1>1. filled \in Nat /\ area \in Nat /\ filled < area /\ area <= Contiguous /\ inCount + area <= Size
  BY DEF Fill, SpaceInv, InWindow, ThreadTypes
<1>2. writeIndex + filled \in Slots
  BY <1>1, SizeType DEF Contiguous, QueueTypes, Slots
<1>3. ASSUME NEW k \in 1 .. inCount
      PROVE  (readIndex + k - 1) % Size # writeIndex + filled
  <2> DEFINE a == readIndex + k - 1
  <2>1. a \in Nat /\ a < 2 * Size
    BY SizeType DEF QueueTypes, Slots
  <2> HIDE DEF a
  <2>2. a % Size = (IF a < Size THEN a ELSE a - Size)
    BY <2>1, ModWrap
  <2>3. (IF a < Size THEN a ELSE a - Size) # writeIndex + filled
    BY <1>1, SizeType DEF a, Contiguous, QueueTypes, IndexInv, Slots
  <2>4. a % Size # writeIndex + filled
    BY <2>2, <2>3
  <2> QED BY <2>4 DEF a
<1> QED BY <1>1, <1>2, <1>3

\* The writer stores one packet in its window.
LEMMA FillIInv ==
    ASSUME IInv, Fill
    PROVE  IInv'
<1> USE DEF IInv
<1>1. /\ writeIndex + filled \in Slots
      /\ filled \in Nat /\ filled < area /\ area <= Contiguous /\ inCount + area <= Size
      /\ area \in Nat
  BY FillSlot DEF ThreadTypes
<1>2. /\ UNCHANGED <<inCount, readIndex, writeIndex, eof, stopped, user, session, todo, area, rpc,
                     sent, received, told>>
      /\ filled' = filled + 1
      /\ wpc' = IF filled + 1 = area THEN "release" ELSE "fill"
      /\ buffer' = [buffer EXCEPT ![writeIndex + filled] = <<session, sent + filled + 1>>]
      /\ wpc = "fill"
  BY DEF Fill, indexVars
<1>3. <<session, sent + filled + 1>> \in Packets
  BY <1>1 DEF ThreadTypes, Packets
<1>4. QueueTypes' /\ IndexInv'
  BY <1>1, <1>2, <1>3 DEF QueueTypes, IndexInv
<1>5. ThreadTypes' /\ EndInv'
  BY <1>1, <1>2 DEF ThreadTypes, EndInv
<1>6. LabelInv'
  BY <1>2 DEF LabelInv
<1>7. SpaceInv'
  BY <1>1, <1>2 DEF SpaceInv, InWindow, Contiguous
<1>8. ASSUME NEW k \in 0 .. (filled' - 1)
      PROVE  buffer'[writeIndex + k] = <<session, sent + k + 1>>
  <2>1. k \in Nat /\ k <= filled /\ writeIndex + k \in Slots
    BY <1>1, <1>2, SizeType DEF QueueTypes, Slots
  <2>2. CASE k = filled
    BY <2>2, <1>1, <1>2 DEF QueueTypes
  <2>3. CASE k # filled
    <3>1. k \in 0 .. (filled - 1) /\ writeIndex + k # writeIndex + filled
      BY <2>1, <2>3, <1>1 DEF QueueTypes, Slots
    <3>2. buffer'[writeIndex + k] = buffer[writeIndex + k]
      BY <2>1, <3>1, <1>2 DEF QueueTypes
    <3> QED BY <3>1, <3>2, <1>2 DEF ContentInv, InWindow
  <2> QED BY <2>2, <2>3
<1>9. ContentInv'
  BY <1>8, <1>2 DEF ContentInv
<1> QED BY <1>4, <1>5, <1>6, <1>7, <1>9

\* releaseWriteBuffer(): the packets of the window are added to the queue.
LEMMA ReleaseIInv ==
    ASSUME IInv, Release
    PROVE  IInv'
<1> USE DEF IInv
<1>1. area \in Nat /\ area <= Contiguous /\ inCount + area <= Size /\ wpc = "release"
  BY DEF Release, SpaceInv, InWindow, ThreadTypes
<1>2. /\ QueueTypes' /\ IndexInv'
      /\ inCount' = inCount + area
      /\ UNCHANGED <<buffer, readIndex, eof, stopped>>
  BY <1>1, ReleaseIndexes DEF Release
<1>3. /\ sent' = sent + area
      /\ todo' = IF user = "push" THEN todo - area ELSE todo
      /\ area' = 0 /\ filled' = 0
      /\ wpc' = IF user = "push" THEN "push" ELSE "top"
      /\ rpc' = IF rpc = "waitW" THEN "wait" ELSE rpc
      /\ UNCHANGED <<user, session, received, told>>
  BY DEF Release, SignalEnqueued
<1>4. ThreadTypes' /\ LabelInv'
  BY <1>1, <1>3 DEF ThreadTypes, LabelInv
<1>5. SpaceInv' /\ ContentInv'
  BY <1>3 DEF SpaceInv, ContentInv, InWindow
<1>6. sent' = Len(received') + inCount'
  <2>1. Len(received) \in Nat
    BY LenProperties DEF ThreadTypes
  <2>2. sent + area = Len(received) + (inCount + area)
    BY <2>1, <1>1 DEF EndInv, QueueTypes
  <2> QED BY <2>2, <1>2, <1>3
<1>7. EndInv'
  BY <1>1, <1>2, <1>3, <1>6 DEF EndInv
<1> QED BY <1>2, <1>4, <1>5, <1>7

\* start(): the queue is reset for a new session.
LEMMA StartIInv ==
    ASSUME IInv, Start
    PROVE  IInv'
<1> USE DEF IInv
<1>1. QueueTypes' /\ IndexInv'
  <2>1. 0 \in Slots /\ 0 \in 0 .. Size
    BY SizeType DEF Slots
  <2>2. QueueTypes'
    BY <2>1 DEF Start, Reset, QueueTypes
  <2> QED BY <2>2 DEF Start, Reset, IndexInv
<1>2. received' \in Seq(Packets) /\ Len(received') = 0
  BY EmptySeq DEF Start
<1>3. ThreadTypes' /\ LabelInv' /\ SpaceInv' /\ ContentInv'
  <2>1. ThreadTypes'
    <3>1. session' \in Nat
      BY DEF Start, ThreadTypes
    <3>2. /\ user' = user /\ rpc' = "receive" /\ wpc' \in {"top", "none"}
          /\ todo' = 0 /\ area' = 0 /\ filled' = 0 /\ sent' = 0 /\ told' = FALSE
      BY DEF Start
    <3> QED BY <1>2, <3>1, <3>2 DEF ThreadTypes
  <2>2. LabelInv'
    BY DEF Start, LabelInv, ThreadTypes
  <2> QED BY <2>1, <2>2 DEF Start, SpaceInv, ContentInv, InWindow
<1>4. EndInv'
  BY <1>2 DEF Start, Reset, EndInv
<1> QED BY <1>1, <1>3, <1>4

\* The reader takes packets while the window of the writer remains where it is.
LEMMA TakeIInv ==
    ASSUME IInv, NEW n \in 0 .. inCount, TakePackets(n), SignalDequeued,
           received' = received \o Front(n),
           rpc' \in ReaderLabels, rpc' \notin {"wait", "waitW", "eofTest"}, told' \in BOOLEAN,
           told' /\ user = "push" => rpc' \in {"stop", "join", "idle"},
           UNCHANGED <<user, session, writerVars, sent>>
    PROVE  IInv'
<1> USE DEF IInv
<1>1. QueueTypes' /\ IndexInv' /\ (inCount < Size => Contiguous' >= Contiguous)
  BY TakeIndexes
<1>2. /\ inCount' = inCount - n
      /\ UNCHANGED <<buffer, writeIndex, eof, stopped>>
      /\ UNCHANGED <<user, session, todo, area, filled, sent>>
      /\ wpc' = IF wpc = "lockW" THEN "lock" ELSE wpc
  BY DEF TakePackets, writerVars, SignalDequeued
<1>3. /\ received' \in Seq(Packets)
      /\ Len(received') = Len(received) + n
  <2>1. n \in 0 .. Size
    BY SizeType DEF QueueTypes
  <2>2. Front(n) \in Seq(Packets) /\ Len(Front(n)) = n
    BY <2>1, FrontSeq
  <2> QED BY <2>2, ConcatProperties DEF ThreadTypes
<1>4. ThreadTypes'
  BY <1>2, <1>3 DEF ThreadTypes
<1>5. LabelInv'
  BY <1>2 DEF LabelInv
<1>6. SpaceInv'
  <2>1. CASE InWindow'
    <3>1. InWindow /\ wpc' = wpc
      BY <1>2, <2>1 DEF InWindow, ThreadTypes
    <3>2. area > 0 /\ area <= Contiguous /\ inCount + area <= Size /\ area \in Nat
      BY <3>1 DEF SpaceInv, ThreadTypes
    <3>3. Contiguous' >= Contiguous
      BY <3>2, <1>1, SizeType DEF QueueTypes
    <3>4. Contiguous \in Int /\ Contiguous' \in Int
      BY <1>1, SizeType DEF QueueTypes, Slots, Contiguous
    <3>5. area <= Contiguous'
      BY <3>2, <3>3, <3>4
    <3>6. (inCount - n) + area <= Size
      BY <3>2, SizeType DEF QueueTypes
    <3> QED BY <3>1, <3>5, <3>6, <1>2 DEF SpaceInv
  <2>2. CASE ~InWindow'
    BY <2>2 DEF SpaceInv
  <2> QED BY <2>1, <2>2
<1>7. ContentInv'
  BY <1>2 DEF ContentInv, InWindow
<1>8. EndInv'
  <2>1. Len(received) \in Nat
    BY LenProperties DEF ThreadTypes
  <2>2. sent = (Len(received) + n) + (inCount - n)
    BY <2>1 DEF EndInv, QueueTypes
  <2>3. sent' = Len(received') + inCount'
    BY <2>2, <1>2, <1>3
  <2> QED BY <2>3, <1>2 DEF EndInv
<1> QED BY <1>1, <1>4, <1>5, <1>6, <1>7, <1>8

\* What one call of waitPackets() does.
LEMMA WaitStep ==
    ASSUME IInv, WaitPackets
    PROVE  \E n \in 0 .. inCount :
              /\ received' = received \o Front(n)
              /\ TakePackets(n)
              /\ told' = (n = 0 /\ ~stopped)
              /\ rpc' = IF n = 0 THEN "stop" ELSE "receive"
              /\ n = 0 => inCount = 0
<1>1. PICK max \in 1 .. MaxRead :
         LET n == QMin(max, inCount)
         IN  /\ received' = received \o Front(n)
             /\ TakePackets(n)
             /\ told' = (n = 0 /\ ~stopped)
             /\ rpc' = IF n = 0 THEN "stop" ELSE "receive"
  BY DEF WaitPackets
<1>2. /\ QMin(max, inCount) \in 0 .. inCount
      /\ QMin(max, inCount) = 0 => inCount = 0
  BY InputAssumption DEF IInv, QueueTypes, QMin
<1> QED BY <1>1, <1>2

\* waitPackets() takes the packets which are in the queue.
LEMMA WaitIInv ==
    ASSUME IInv, WaitPackets
    PROVE  IInv'
<1>1. PICK n \in 0 .. inCount :
         /\ received' = received \o Front(n)
         /\ TakePackets(n)
         /\ told' = (n = 0 /\ ~stopped)
         /\ rpc' = IF n = 0 THEN "stop" ELSE "receive"
  BY WaitStep
<1>2. rpc' \in ReaderLabels /\ rpc' \notin {"wait", "waitW", "eofTest"}
  BY <1>1
<1>3. told' \in BOOLEAN /\ (told' /\ user = "push" => rpc' \in {"stop", "join", "idle"})
  BY <1>1
<1> QED BY <1>1, <1>2, <1>3, TakeIInv DEF WaitPackets

\* getPacket() takes one packet, if there is one.
LEMMA GetIInv ==
    ASSUME IInv, GetPacket
    PROVE  IInv'
<1>1. CASE inCount = 0
  <2>1. /\ UNCHANGED <<buffer, inCount, readIndex, writeIndex, eof, stopped, user, session, wpc,
                       todo, area, filled, sent, received, told>>
        /\ rpc' = "eofTest" /\ user = "merge"
    BY <1>1 DEF GetPacket, queueVars, indexVars, writerVars
  <2>2. QueueTypes' /\ IndexInv'
    BY <2>1 DEF IInv, QueueTypes, IndexInv
  <2>3. ThreadTypes' /\ LabelInv'
    BY <2>1 DEF IInv, ThreadTypes, LabelInv
  <2>4. SpaceInv' /\ ContentInv'
    BY <2>1 DEF IInv, SpaceInv, ContentInv, InWindow, Contiguous
  <2>5. EndInv'
    BY <2>1 DEF IInv, EndInv
  <2> QED BY <2>2, <2>3, <2>4, <2>5 DEF IInv
<1>2. CASE inCount # 0
  <2>1. /\ 1 \in 0 .. inCount
        /\ received' = received \o Front(1) /\ TakePackets(1) /\ SignalDequeued
        /\ rpc' = "receive" /\ user = "merge" /\ told' = told
    BY <1>2 DEF GetPacket, IInv, QueueTypes
  <2>2. told' \in BOOLEAN
    BY <2>1 DEF IInv, ThreadTypes
  <2> QED BY <2>1, <2>2, TakeIInv DEF GetPacket
<1> QED BY <1>1, <1>2

\* Each step of the two threads preserves the invariant.
LEMMA NextIInv == IInv /\ [Next]_vars => IInv'
  BY OutsideIInv, LockIInv, ReadIInv, FillIInv, ReleaseIInv, StartIInv, WaitIInv, GetIInv
     DEF Next, Source, Writer, Reader

\* The inductive invariant holds of the two threads, whatever the size of the buffer.
THEOREM QueueCorrect == Spec => []IInv
  BY InitIInv, NextIInv, PTL DEF Spec

\* The window which lockWriteBuffer() returned stays within the buffer and free of packets of the
\* queue until releaseWriteBuffer(): the assertion of releaseWriteBuffer() never fails.
THEOREM WriterWindowFree == Spec => []WindowIsFree
<1>1. IInv => WindowIsFree
  <2> SUFFICES ASSUME IInv, wpc \in {"read", "fill", "release"},
                      NEW k \in 0 .. (area - 1), NEW j \in 0 .. (inCount - 1)
               PROVE  area > 0 /\ area <= Contiguous /\ writeIndex + k # (readIndex + j) % Size
    BY DEF WindowIsFree, Occupied, IInv, SpaceInv, InWindow
  <2>1. area \in Nat /\ area > 0 /\ area <= Contiguous /\ inCount + area <= Size
    BY DEF IInv, SpaceInv, InWindow, ThreadTypes
  <2> DEFINE a == readIndex + j
  <2>2. a \in Nat /\ a < 2 * Size
    BY SizeType DEF IInv, QueueTypes, Slots
  <2> HIDE DEF a
  <2>3. a % Size = (IF a < Size THEN a ELSE a - Size)
    BY <2>2, ModWrap
  <2>4. (IF a < Size THEN a ELSE a - Size) # writeIndex + k
    BY <2>1, SizeType DEF a, Contiguous, IInv, QueueTypes, IndexInv, Slots
  <2>5. writeIndex + k # a % Size
    BY <2>3, <2>4
  <2> QED BY <2>1, <2>5 DEF a
<1> QED BY <1>1, QueueCorrect, PTL

-----------------------------------------------------------------------------
(***************************************************************************)
(* The refinement.  A step of the two threads is a step of the abstract    *)
(* queue, or leaves it alone: releaseWriteBuffer() is where a block enters *)
(* the queue, waitPackets() and getPacket() where one leaves it.           *)
(***************************************************************************)
\* The content of the queue.
Content == Front(inCount)

\* The content of the queue, packet by packet.
LEMMA ContentSeq ==
    ASSUME QueueTypes
    PROVE  /\ Content \in Seq(Packets)
           /\ Len(Content) = inCount
           /\ \A k \in 1 .. inCount : Content[k] = buffer[(readIndex + k - 1) % Size]
  BY FrontSeq DEF Content, QueueTypes

\* The same after a step.
LEMMA ContentNextSeq ==
    ASSUME QueueTypes'
    PROVE  /\ Content' \in Seq(Packets)
           /\ Len(Content') = inCount'
           /\ \A k \in 1 .. inCount' : Content'[k] = buffer'[(readIndex' + k - 1) % Size]
<1>1. (QueueTypes => /\ Content \in Seq(Packets)
                     /\ Len(Content) = inCount
                     /\ \A k \in 1 .. inCount : Content[k] = buffer[(readIndex + k - 1) % Size])'
  BY ContentSeq, PTL
<1> QED BY <1>1

\* A packet which is written in the window does not change the content.
LEMMA ContentFill ==
    ASSUME IInv, IInv', Fill
    PROVE  Content' = Content
<1>1. QueueTypes /\ QueueTypes' /\ inCount' = inCount /\ readIndex' = readIndex
  BY DEF IInv, Fill, indexVars
<1>2. ASSUME NEW k \in 1 .. inCount
      PROVE  Content'[k] = Content[k]
  <2> DEFINE a == (readIndex + k - 1) % Size
  <2>1. a # writeIndex + filled
    BY FillSlot
  <2>2. a \in Slots
    <3>1. readIndex + k - 1 \in Nat /\ readIndex + k - 1 < 2 * Size
      BY <1>1, SizeType DEF QueueTypes, Slots
    <3> QED BY <3>1, ModWrap
  <2>3. Content[k] = buffer[a] /\ Content'[k] = buffer'[a]
    BY <1>1, ContentSeq, ContentNextSeq
  <2> HIDE DEF a
  <2>4. buffer'[a] = buffer[a]
    BY <2>1, <2>2, <1>1 DEF Fill, QueueTypes
  <2> QED BY <2>3, <2>4
<1> QED BY <1>1, <1>2, ContentSeq, ContentNextSeq, SeqEqual

\* releaseWriteBuffer() appends the packets of the window.
LEMMA ContentRelease ==
    ASSUME IInv, IInv', Release
    PROVE  Content' = Content \o [k \in 1 .. area |-> <<session, sent + k>>]
<1> DEFINE block == [k \in 1 .. area |-> <<session, sent + k>>]
<1>1. QueueTypes /\ QueueTypes' /\ area \in Nat /\ area <= Contiguous /\ inCount + area <= Size
      /\ filled = area /\ session \in Nat /\ sent \in Nat /\ IndexInv
  BY DEF IInv, Release, SpaceInv, InWindow, ThreadTypes
<1>2. inCount' = inCount + area /\ readIndex' = readIndex /\ buffer' = buffer
  BY <1>1, ReleaseIndexes DEF IInv, Release
<1>3. block \in Seq(Packets) /\ Len(block) = area
  <2>1. block \in [1 .. area -> Packets]
    BY <1>1 DEF Packets
  <2>2. block \in Seq(Packets)
    BY <2>1, <1>1, SeqDef
  <2> QED BY <2>1, <2>2, <1>1, LenProperties
<1>4. /\ Content \o block \in Seq(Packets)
      /\ Len(Content \o block) = inCount + area
      /\ \A k \in 1 .. (inCount + area) :
            (Content \o block)[k] = IF k <= inCount THEN Content[k] ELSE block[k - inCount]
  <2> HIDE DEF block
  <2>1. Content \in Seq(Packets) /\ Len(Content) = inCount
    BY <1>1, ContentSeq
  <2>2. /\ Content \o block \in Seq(Packets)
        /\ Len(Content \o block) = Len(Content) + Len(block)
        /\ \A k \in 1 .. Len(Content) + Len(block) :
              (Content \o block)[k]
                 = IF k <= Len(Content) THEN Content[k] ELSE block[k - Len(Content)]
    BY <2>1, <1>3, ConcatProperties
  <2> QED BY <2>1, <2>2, <1>3, <1>1 DEF QueueTypes
<1>5. ASSUME NEW k \in 1 .. (inCount + area)
      PROVE  Content'[k] = IF k <= inCount THEN Content[k] ELSE block[k - inCount]
  <2>1. Content'[k] = buffer[(readIndex + k - 1) % Size]
    BY <1>1, <1>2, ContentNextSeq
  <2>2. CASE k <= inCount
    BY <2>1, <2>2, <1>1, ContentSeq DEF QueueTypes
  <2>3. CASE k > inCount
    <3> DEFINE a == readIndex + k - 1
    <3> DEFINE j == k - inCount
    <3>0. inCount \in Nat
      BY <1>1 DEF QueueTypes
    <3>1. a \in Nat /\ a < 2 * Size
      BY <1>1, SizeType DEF QueueTypes, Slots
    <3>2. j \in 1 .. area
      BY <2>3, <1>1, <3>0
    <3>3. (IF a < Size THEN a ELSE a - Size) = writeIndex + (j - 1)
      BY <2>3, <1>1, SizeType DEF QueueTypes, IndexInv, Slots, Contiguous
    <3> HIDE DEF a, j
    <3>4. a % Size = writeIndex + (j - 1)
      BY <3>1, <3>3, ModWrap
    <3>5. j - 1 \in 0 .. (filled - 1) /\ sent + (j - 1) + 1 = sent + j
      BY <3>2, <1>1
    <3>6. buffer[writeIndex + (j - 1)] = <<session, sent + (j - 1) + 1>>
      BY <3>5 DEF IInv, ContentInv, InWindow, Release
    <3>7. block[j] = <<session, sent + j>>
      BY <3>2
    <3>8. buffer[a % Size] = block[j]
      BY <3>4, <3>5, <3>6, <3>7
    <3> QED BY <2>1, <2>3, <3>0, <3>8 DEF a, j
  <2> QED BY <2>2, <2>3, <1>1 DEF QueueTypes
<1> HIDE DEF block
<1>6. Content' \in Seq(Packets) /\ Len(Content') = inCount + area
  BY <1>1, <1>2, ContentNextSeq
<1>7. ASSUME NEW k \in 1 .. (inCount + area)
      PROVE  Content'[k] = (Content \o block)[k]
  BY <1>4, <1>5
<1>8. Content' = Content \o block
  <2>1. PICK c : c = Content'
    OBVIOUS
  <2>2. Len(c) = Len(Content \o block) /\ \A k \in 1 .. Len(c) : c[k] = (Content \o block)[k]
    BY <2>1, <1>4, <1>6, <1>7
  <2>3. c \in Seq(Packets)
    BY <2>1, <1>6
  <2> QED BY <2>1, <2>2, <2>3, <1>4, SeqEqual
<1> QED BY <1>8 DEF block

\* The oldest packets are taken from the front, the others remain.
LEMMA ContentTake ==
    ASSUME IInv, IInv', NEW n \in 0 .. inCount, TakePackets(n)
    PROVE  /\ Front(n) = SubSeq(Content, 1, n)
           /\ Content' = SubSeq(Content, n + 1, Len(Content))
<1>1. QueueTypes /\ QueueTypes' /\ n \in Nat /\ inCount \in Nat /\ n <= inCount /\ n \in 0 .. Size
  BY SizeType DEF IInv, QueueTypes
<1>2. inCount' = inCount - n /\ buffer' = buffer /\ readIndex' = (readIndex + n) % Size
  BY DEF TakePackets
<1>3. /\ Content \in Seq(Packets)
      /\ Len(Content) = inCount
      /\ \A k \in 1 .. inCount : Content[k] = buffer[(readIndex + k - 1) % Size]
      /\ \A k \in 1 .. inCount : Content[k] \in Packets
  BY <1>1, ContentSeq, ElementOfSeq
<1>4. Front(n) = SubSeq(Content, 1, n)
  <2>1. /\ SubSeq(Content, 1, n) \in Seq(Packets)
        /\ Len(SubSeq(Content, 1, n)) = n
        /\ \A k \in 1 .. n : SubSeq(Content, 1, n)[k] = Content[k]
    BY <1>1, <1>3, SubSeqProperties
  <2>2. /\ Front(n) \in Seq(Packets)
        /\ Len(Front(n)) = n
        /\ \A k \in 1 .. n : Front(n)[k] = buffer[(readIndex + k - 1) % Size]
    BY <1>1, FrontSeq
  <2>3. \A k \in 1 .. n : Front(n)[k] = SubSeq(Content, 1, n)[k]
    BY <1>1, <1>3, <2>1, <2>2
  <2> QED BY <2>1, <2>2, <2>3, SeqEqual
<1>5. Content' = SubSeq(Content, n + 1, Len(Content))
  <2> DEFINE rest == SubSeq(Content, n + 1, inCount)
  <2>1. /\ rest \in Seq(Packets)
        /\ Len(rest) = inCount - n
        /\ \A k \in 1 .. (inCount - n) : rest[k] = Content[n + k]
    <3>1. \A k \in (n + 1) .. inCount : Content[k] \in Packets
      BY <1>1, <1>3
    <3>2. /\ rest \in Seq(Packets)
          /\ Len(rest) = IF n + 1 <= inCount THEN inCount - (n + 1) + 1 ELSE 0
          /\ \A k \in 1 .. (inCount - (n + 1) + 1) : rest[k] = Content[(n + 1) + k - 1]
      BY <1>1, <3>1, SubSeqProperties
    <3> HIDE DEF rest
    <3> QED BY <3>2, <1>1
  <2> HIDE DEF rest
  <2>2. PICK c : c = Content'
    OBVIOUS
  <2>3. /\ c \in Seq(Packets)
        /\ Len(c) = inCount - n
        /\ \A k \in 1 .. (inCount - n) : c[k] = buffer[(readIndex' + k - 1) % Size]
    BY <2>2, <1>1, <1>2, ContentNextSeq
  <2>4. ASSUME NEW k \in 1 .. (inCount - n)
        PROVE  (readIndex' + k - 1) % Size = (readIndex + (n + k) - 1) % Size
    <3> DEFINE a == readIndex + n
    <3> DEFINE b == readIndex + (n + k) - 1
    <3>1. a \in Nat /\ a < 2 * Size /\ b \in Nat /\ b < 2 * Size /\ b = a + k - 1 /\ k \in Nat /\ k >= 1
      BY <1>1, SizeType DEF QueueTypes, Slots
    <3>2. readIndex' = a % Size
      BY <1>2
    <3> HIDE DEF a, b
    <3>3. PICK r : r = readIndex'
      OBVIOUS
    <3>4. r = IF a < Size THEN a ELSE a - Size
      BY <3>1, <3>2, <3>3, ModWrap
    <3> DEFINE d == r + k - 1
    <3>5. /\ d \in Nat /\ d < 2 * Size
          /\ (IF d < Size THEN d ELSE d - Size) = (IF b < Size THEN b ELSE b - Size)
      BY <3>1, <3>4, SizeType
    <3> HIDE DEF d
    <3>6. d % Size = b % Size
      <4>1. d % Size = IF d < Size THEN d ELSE d - Size
        BY <3>5, ModWrap
      <4>2. b % Size = IF b < Size THEN b ELSE b - Size
        BY <3>1, ModWrap
      <4> QED BY <4>1, <4>2, <3>5
    <3> QED BY <3>3, <3>6 DEF d, b
  <2>5. ASSUME NEW k \in 1 .. (inCount - n)
        PROVE  c[k] = rest[k]
    <3>1. n + k \in 1 .. inCount
      BY <1>1
    <3>2. Content[n + k] = buffer[(readIndex + (n + k) - 1) % Size]
      BY <3>1, <1>3
    <3>3. c[k] = buffer[(readIndex + (n + k) - 1) % Size]
      BY <2>3, <2>4
    <3> QED BY <2>1, <3>2, <3>3
  <2>6. c = rest
    BY <2>1, <2>3, <2>5, SeqEqual
  <2> QED BY <2>2, <2>6, <1>3 DEF rest
<1> QED BY <1>4, <1>5

\* The variables of the abstract queue.
queueView == <<Content, session, sent, received, eof, told>>

\* The initial state is one of the abstract queue.
LEMMA InitRefines == Init => Fifo!Init
<1> SUFFICES ASSUME Init PROVE Fifo!Init
  OBVIOUS
<1>1. Front(inCount) = <<>>
  <2>1. QueueTypes /\ inCount = 0
    BY InitIInv DEF IInv, Init, QueueInit
  <2>2. Content \in Seq(Packets) /\ Len(Content) = 0
    BY <2>1, ContentSeq
  <2>3. Content = <<>>
    BY <2>2, EmptySeq
  <2> QED BY <2>3 DEF Content
<1> QED BY <1>1 DEF Init, QueueInit, Fifo!Init

\* Each step which changes the queue is one step of PacketFifo.
LEMMA ReleaseRefines ==
    ASSUME IInv, IInv', Release
    PROVE  \E n \in 1 .. Size : Fifo!Write(n)
<1>1. area \in 1 .. Size /\ inCount + area <= Size /\ ~eof
  BY SizeType DEF IInv, Release, SpaceInv, InWindow, ThreadTypes, QueueTypes, EndInv
<1>2. Content' = Content \o [k \in 1 .. area |-> <<session, sent + k>>]
  BY ContentRelease
<1>3. Len(Content) = inCount
  BY ContentSeq DEF IInv
<1>4. sent' = sent + area /\ UNCHANGED <<session, received, eof, told>>
  BY DEF Release, ReleaseWriteBuffer
<1>5. Fifo!Write(area)
  BY <1>1, <1>2, <1>3, <1>4 DEF Fifo!Write, Content
<1> QED BY <1>1, <1>5

\* Taking packets is a read of the abstract queue, or nothing when there are none.
LEMMA TakeRefines ==
    ASSUME IInv, IInv', NEW n \in 0 .. inCount, TakePackets(n), received' = received \o Front(n),
           told' = told, UNCHANGED <<session, sent>>
    PROVE  (\E m \in 1 .. Size : Fifo!Read(m)) \/ UNCHANGED queueView
<1>1. /\ Front(n) = SubSeq(Content, 1, n)
      /\ Content' = SubSeq(Content, n + 1, Len(Content))
  BY ContentTake
<1>2. Len(Content) = inCount /\ Content \in Seq(Packets) /\ inCount \in 0 .. Size
  BY ContentSeq DEF IInv, QueueTypes
<1>3. CASE n = 0
  <2>1. Front(n) = <<>>
    BY <1>1, <1>3, SubSeqEmpty
  <2>2. received' = received
    BY <2>1, ConcatEmptySeq DEF IInv, ThreadTypes
  <2>3. Content' = Content
    BY <1>1, <1>2, <1>3, SubSeqFull
  <2> QED BY <2>2, <2>3 DEF queueView, TakePackets
<1>4. CASE n # 0
  <2>1. n \in 1 .. Size /\ n <= Len(Content)
    BY <1>2, <1>4, SizeType
  <2>2. Fifo!Read(n)
    BY <1>1, <2>1 DEF Fifo!Read, TakePackets, Content
  <2> QED BY <2>1, <2>2
<1> QED BY <1>3, <1>4

\* waitPackets() is a read, the end of file or nothing in the abstract queue.
LEMMA WaitRefines ==
    ASSUME IInv, IInv', WaitPackets
    PROVE  Fifo!Next \/ UNCHANGED queueView
<1>1. PICK n \in 0 .. inCount :
         /\ received' = received \o Front(n)
         /\ TakePackets(n)
         /\ told' = (n = 0 /\ ~stopped)
         /\ n = 0 => inCount = 0
  BY WaitStep
<1>2. UNCHANGED <<session, sent>> /\ told = FALSE /\ (eof \/ stopped \/ inCount # 0)
  BY DEF WaitPackets, LacksPackets, IInv, EndInv, ThreadTypes, LabelInv
<1>3. CASE told' = told
  BY <1>1, <1>2, <1>3, TakeRefines DEF Fifo!Next
<1>4. CASE told' # told
  <2>1. told' = TRUE /\ n = 0 /\ inCount = 0 /\ eof
    BY <1>1, <1>2, <1>4
  <2>2. /\ Front(n) = SubSeq(Content, 1, n)
        /\ Content' = SubSeq(Content, n + 1, Len(Content))
    BY <1>1, ContentTake
  <2>3. Content \in Seq(Packets) /\ Len(Content) = 0
    BY <2>1, ContentSeq DEF IInv
  <2>4. received' = received
    BY <1>1, <2>1, <2>2, SubSeqEmpty, ConcatEmptySeq DEF IInv, ThreadTypes
  <2>5. Content' = Content
    BY <2>1, <2>2, <2>3, SubSeqFull
  <2>6. Len(received) = sent
    BY <2>1, LenProperties DEF IInv, EndInv, ThreadTypes
  <2>7. eof' = eof
    BY <1>1 DEF TakePackets
  <2>8. Fifo!Tell
    BY <2>1, <2>4, <2>5, <2>6, <2>7, <1>2 DEF Fifo!Tell, Content
  <2> QED BY <2>8 DEF Fifo!Next
<1> QED BY <1>3, <1>4

\* getPacket() is a read of one packet, or nothing in the abstract queue.
LEMMA GetRefines ==
    ASSUME IInv, IInv', GetPacket
    PROVE  Fifo!Next \/ UNCHANGED queueView
<1>1. CASE inCount = 0
  BY <1>1 DEF GetPacket, queueView, queueVars, indexVars, Content, Front
<1>2. CASE inCount # 0
  <2>1. /\ 1 \in 0 .. inCount
        /\ received' = received \o Front(1) /\ TakePackets(1)
        /\ UNCHANGED <<session, sent, told>>
    BY <1>2 DEF GetPacket, IInv, QueueTypes
  <2>2. (\E m \in 1 .. Size : Fifo!Read(m)) \/ UNCHANGED queueView
    BY <2>1, TakeRefines
  <2> QED BY <2>2 DEF Fifo!Next
<1> QED BY <1>1, <1>2

\* The test of the end of file is one of the abstract queue, or nothing.
LEMMA EofTestRefines ==
    ASSUME IInv, EofTest
    PROVE  Fifo!Next \/ UNCHANGED queueView
<1>1. UNCHANGED <<buffer, inCount, readIndex, session, sent, received, eof>>
  BY DEF EofTest, queueVars, indexVars
<1>2. Content' = Content
  BY <1>1 DEF Content, Front
<1>3. CASE told \/ ~Eof
  BY <1>1, <1>2, <1>3 DEF EofTest, queueView, IInv, ThreadTypes
<1>4. CASE ~told /\ Eof
  <2>1. Len(received) = sent
    BY <1>4, LenProperties DEF Eof, IInv, EndInv, ThreadTypes
  <2>2. Fifo!Tell
    BY <1>1, <1>2, <1>4, <2>1 DEF Fifo!Tell, EofTest, Eof, Content
  <2> QED BY <2>2 DEF Fifo!Next
<1> QED BY <1>3, <1>4

\* Each step of the two threads is a step of the abstract queue, or nothing.
LEMMA StepRefines ==
    ASSUME IInv, IInv', [Next]_vars
    PROVE  Fifo!Next \/ UNCHANGED queueView
<1> USE DEF queueVars, indexVars, writerVars
<1>1. CASE Start
  <2>1. Content' = <<>>
    <3>1. inCount' = 0 /\ QueueTypes'
      BY <1>1 DEF Start, Reset, IInv
    <3>2. Content' \in Seq(Packets) /\ Len(Content') = 0
      BY <3>1, ContentNextSeq
    <3> QED BY <3>2, EmptySeq
  <2>2. Fifo!Restart
    BY <1>1, <2>1 DEF Start, Reset, Fifo!Restart, Content
  <2> QED BY <2>2 DEF Fifo!Next
<1>2. CASE Release
  BY <1>2, ReleaseRefines DEF Fifo!Next
<1>3. CASE WaitPackets
  BY <1>3, WaitRefines
<1>4. CASE GetPacket
  BY <1>4, GetRefines
<1>5. CASE EofTest
  BY <1>5, EofTestRefines
<1>6. CASE EndOfFile
  <2>1. Content' = Content
    BY <1>6 DEF EndOfFile, SetEOF, Content, Front
  <2>2. Fifo!Close
    BY <1>6, <2>1 DEF EndOfFile, SetEOF, Fifo!Close, Content
  <2> QED BY <2>2 DEF Fifo!Next
<1>7. CASE Fill
  <2>1. Content' = Content
    BY <1>7, ContentFill
  <2> QED BY <1>7, <2>1 DEF Fill, queueView
<1>8. CASE StopPlugin \/ AbortInput
  BY <1>8 DEF StopPlugin, AbortInput, Stop, queueView, Content, Front
<1>9. CASE Deliver \/ EndDownload \/ ReadPipe \/ PushLoop \/ MergeLoop \/ LockWriteBuffer
  BY <1>9 DEF Deliver, EndDownload, ReadPipe, PushLoop, MergeLoop, LockWriteBuffer, queueView,
              Content, Front
<1>10. CASE Receive \/ Sleep \/ Leave \/ Join \/ Interrupt \/ UNCHANGED vars
  BY <1>10 DEF Receive, Sleep, Leave, Join, Interrupt, vars, queueView, Content, Front
<1> QED
  BY <1>1, <1>2, <1>3, <1>4, <1>5, <1>6, <1>7, <1>8, <1>9, <1>10 DEF Next, Source, Writer, Reader

\* The two threads and the circular buffer implement the bounded first in, first out queue of
\* PacketFifo, whatever the size of the buffer: no packet is lost, duplicated, reordered or
\* taken from an earlier session, and the reader learns of the end of file after the last packet.
THEOREM QueueImplementsFifo == Spec => ImplementsFifo
<1>1. IInv /\ IInv' /\ [Next]_vars => [Fifo!Next]_(Fifo!fifoVars)
  BY StepRefines DEF queueView, Content, Fifo!fifoVars
<1> QED BY <1>1, InitRefines, QueueCorrect, PTL DEF Spec, ImplementsFifo, Fifo!Spec
=============================================================================

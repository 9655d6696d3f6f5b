-------------------------- MODULE TspStreamProofs --------------------------
(***************************************************************************)
(* Proofs about the packets which flow through tsp, on the invariant of    *)
(* the ring: where each packet is, and what the output plugin gets.        *)
(***************************************************************************)
EXTENDS TspProofs, SequenceTheorems

USE DEF Executors, Processors, Slots

\* The slot of the packet at this position of the stream.
SlotOf(q) ==
    LET s == pktFirst[N] + (q - passed[N])
    IN  IF s < B THEN s ELSE s - B

\* How many packets the output has accounted for.
OutInv ==
    /\ pc[N] \in {"wait", "blocked", "work", "limit"} => total[N] = passed[N]
    /\ pc[N] = "send" => total[N] = passed[N] + done[N]
    /\ pc[N] = "pass" => \/ total[N] = passed[N] + wCnt[N]
                         \/ /\ wAbort[N] /\ outStop = "send"
                            /\ total[N] \in passed[N] .. (passed[N] + wCnt[N])
    /\ pc[N] = "done" => total[N] <= passed[N] /\ (outStop # "send" => total[N] = passed[N])
    /\ outStop \in {"send", "joint"} =>
          pc[N] \in {"send", "pass", "done"} /\ (pc[N] # "done" => wAbort[N])

\* A slot holds the packet of this position, which is marked when it was dropped.
Holds(s, q) == buffer[s].seq = q /\ (buffer[s].st = "drop" <=> q \in dropped)

\* The packets between the input and the output, and those which the input is about to pass.
StreamInv ==
    /\ \A q \in passed[N] .. (passed[0] - 1) : Holds(SlotOf(q), q)
    /\ pc[0] = "pass" => \A k \in 0 .. (flush[0] - 1) : Holds(wFirst[0] + k, passed[0] + k)
    /\ dropped \subseteq 0 .. (passed[0] - 1)

StreamIInv == TypeIInv /\ OutInv /\ StreamInv /\ DeliveredFaithful

-----------------------------------------------------------------------------
(***************************************************************************)
(* What the output has accounted for.                                      *)
(***************************************************************************)
\* The variables of the output executor, when another thread makes a step.
SameOutput ==
    /\ total'[N] = total[N] /\ passed'[N] = passed[N] /\ pktFirst'[N] = pktFirst[N]
    /\ done'[N] = done[N] /\ wCnt'[N] = wCnt[N] /\ wAbort'[N] = wAbort[N]
    /\ outStop' = outStop /\ delivered' = delivered
    /\ SamePlace(N)

\* passPackets by executor i changes nothing in the counters of the others.
LEMMA PassFrame ==
    ASSUME RingIInv, NEW i \in Executors, NEW count, NEW end, NEW abort, NEW next,
           PassPackets(i, count, end, abort, next), NEW j \in Executors, j # i
    PROVE  passed'[j] = passed[j] /\ pktFirst'[j] = pktFirst[j] /\ SamePlace(j)
  BY DEF PassPackets, RingIInv, WindowTypes, SamePlace, Signalled

\* The variables of executor i are not changed by the step of another thread.
Keeps(i) ==
    /\ SameLocals(i) /\ wEnd'[i] = wEnd[i] /\ wAbort'[i] = wAbort[i]
    /\ total'[i] = total[i] /\ passed'[i] = passed[i] /\ pktFirst'[i] = pktFirst[i]
    /\ SamePlace(i)

\* A step of the thread of executor i.
Mine(i) ==
    \/ WaitWork(i)
    \/ i = 0 /\ Input
    \/ i \in Processors /\ Processor(i)
    \/ i = N /\ Output

\* Only the thread of an executor changes its variables.
LEMMA OthersKeep ==
    ASSUME TypeIInv, [Next]_vars, NEW i \in Executors, ~Mine(i)
    PROVE  Keeps(i)
<1>c. N \in Nat /\ N >= 1 /\ 0 \in Executors /\ N \in Executors /\ N # 0
      /\ Processors \subseteq Executors
  BY Constants
<1>r. RingIInv
  BY DEF TypeIInv, IInv
<1>t. /\ total \in [Executors -> Nat] /\ done \in [Executors -> 0 .. B]
      /\ flush \in [Executors -> 0 .. B] /\ wFirst \in [Executors -> Slots]
      /\ wCnt \in [Executors -> 0 .. B] /\ wAbort \in [Executors -> BOOLEAN]
      /\ wEnd \in [Executors -> BOOLEAN] /\ pc \in [Executors -> Labels]
  BY DEF TypeIInv, IInv, RingIInv, JointTypes, LocalTypes, FlagTypes
<1>p. ASSUME NEW j \in Executors, j # i, NEW count, NEW end, NEW abort, NEW next,
             PassPackets(j, count, end, abort, next)
      PROVE  passed'[i] = passed[i] /\ pktFirst'[i] = pktFirst[i] /\ SamePlace(i)
  BY <1>p, <1>r, PassFrame
<1>1. ASSUME NEW j \in Executors, WaitWork(j) PROVE Keeps(i)
  <2>1. UNCHANGED <<windowVars, jtVars, procVars>> /\ j # i
    BY <1>1 DEF WaitWork, WaitWorkBlock, WaitWorkReturn, Mine
  <2>2. /\ pc'[i] = pc[i] /\ wFirst'[i] = wFirst[i] /\ wCnt'[i] = wCnt[i]
        /\ wEnd'[i] = wEnd[i] /\ wAbort'[i] = wAbort[i]
    BY <1>1, <2>1, <1>t DEF WaitWork, WaitWorkBlock, WaitWorkReturn, localVars
  <2> QED BY <2>1, <2>2 DEF Keeps, SameLocals, SamePlace, windowVars, jtVars, procVars
<1>2. CASE InputGiveUp
  <2>1. UNCHANGED <<windowVars, localVars, jtVars, procVars>> /\ pc'[i] = pc[i]
    BY <1>2, <1>t DEF InputGiveUp, Mine, Input
  <2> QED BY <2>1 DEF Keeps, SameLocals, SamePlace, windowVars, localVars, jtVars, procVars
<1>3. CASE InputReceive
  <2>1. i # 0 /\ UNCHANGED <<windowVars, wFirst, wCnt, wAbort, done>> /\ pc'[i] = pc[i]
    BY <1>3, <1>t DEF InputReceive, Mine, Input
  <2>2. total'[i] = total[i] /\ flush'[i] = flush[i] /\ wEnd'[i] = wEnd[i]
    BY <1>3, <2>1, <1>t DEF InputReceive
  <2> QED BY <2>1, <2>2 DEF Keeps, SameLocals, SamePlace, windowVars
<1>4. CASE InputPass
  <2>1. i # 0 /\ UNCHANGED <<localVars, jtVars, done>> /\ flush'[i] = flush[i]
    BY <1>4, <1>t DEF InputPass, Mine, Input
  <2>2. passed'[i] = passed[i] /\ pktFirst'[i] = pktFirst[i] /\ SamePlace(i)
    BY <1>4, <2>1, <1>c, <1>p DEF InputPass
  <2> QED BY <2>1, <2>2 DEF Keeps, SameLocals, localVars, jtVars
<1>5. ASSUME NEW j \in Processors, ProcessorGiveUp(j) \/ ProcessorEnd(j) PROVE Keeps(i)
  <2>1. UNCHANGED <<localVars, jtVars, procVars>> /\ j # i /\ j \in Executors
    BY <1>5, <1>c DEF ProcessorGiveUp, ProcessorEnd, Mine, Processor
  <2>2. \E end, abort, next : PassPackets(j, 0, end, abort, next)
    BY <1>5 DEF ProcessorGiveUp, ProcessorEnd
  <2>3. passed'[i] = passed[i] /\ pktFirst'[i] = pktFirst[i] /\ SamePlace(i)
    BY <2>1, <2>2, <1>p
  <2> QED BY <2>1, <2>3 DEF Keeps, SameLocals, localVars, jtVars, procVars
<1>6. ASSUME NEW j \in Processors, ProcessPacket(j) PROVE Keeps(i)
  <2>0. UNCHANGED <<windowVars, wFirst>>
    BY <1>6 DEF ProcessPacket
  <2>1. UNCHANGED <<windowVars, wFirst>> /\ j # i
    BY <2>0, <1>6 DEF Mine, Processor
  <2>2. /\ total'[i] = total[i] /\ done'[i] = done[i] /\ flush'[i] = flush[i]
        /\ wCnt'[i] = wCnt[i] /\ wEnd'[i] = wEnd[i] /\ wAbort'[i] = wAbort[i]
        /\ pc'[i] = pc[i]
    BY <1>6, <2>1, <1>t DEF ProcessPacket
  <2> QED BY <2>1, <2>2 DEF Keeps, SameLocals, SamePlace, windowVars
<1>7. ASSUME NEW j \in Processors, ProcessorPass(j) PROVE Keeps(i)
  <2>1. UNCHANGED <<wFirst, wCnt, wEnd, jtVars>> /\ j \in Executors /\ j # i
    BY <1>7, <1>c DEF ProcessorPass, Mine, Processor
  <2>2. done'[i] = done[i] /\ flush'[i] = flush[i] /\ wAbort'[i] = wAbort[i]
    BY <1>7, <2>1, <1>t DEF ProcessorPass
  <2>3. \E end, abort, next : PassPackets(j, flush[j], end, abort, next)
    BY <1>7 DEF ProcessorPass
  <2>4. passed'[i] = passed[i] /\ pktFirst'[i] = pktFirst[i] /\ SamePlace(i)
    BY <2>1, <2>3, <1>p
  <2> QED BY <2>1, <2>2, <2>4 DEF Keeps, SameLocals, jtVars
<1>8. CASE OutputCheck \/ OutputLimit \/ OutputSend \/ OutputSendError
  <2>1. i # N /\ UNCHANGED <<windowVars, wFirst, flush, wEnd>>
    BY <1>8 DEF OutputCheck, OutputLimit, OutputSend, OutputSendError, Mine, Output,
                localVars, procVars
  <2>2. wCnt'[i] = wCnt[i] /\ wAbort'[i] = wAbort[i] /\ done'[i] = done[i]
    BY <1>8, <2>1, <1>t DEF OutputCheck, OutputLimit, OutputSend, OutputSendError,
                            localVars, procVars
  <2>3. total'[i] = total[i] /\ pc'[i] = pc[i]
    BY <1>8, <2>1, <1>t DEF OutputCheck, OutputLimit, OutputSend, OutputSendError, jtVars
  <2> QED BY <2>1, <2>2, <2>3 DEF Keeps, SameLocals, SamePlace, windowVars
<1>9. CASE OutputPass
  <2>1. i # N /\ UNCHANGED <<localVars, jtVars, flush>> /\ done'[i] = done[i]
    BY <1>9, <1>t DEF OutputPass, Mine, Output
  <2>2. passed'[i] = passed[i] /\ pktFirst'[i] = pktFirst[i] /\ SamePlace(i)
    BY <1>9, <2>1, <1>c, <1>p DEF OutputPass
  <2> QED BY <2>1, <2>2 DEF Keeps, SameLocals, localVars, jtVars
<1>10. CASE HandleInterrupt
  <2>1. UNCHANGED <<pktFirst, passed, localVars, jtVars, procVars>>
    BY <1>10 DEF HandleInterrupt, SetAbort
  <2>2. SamePlace(i)
    BY <1>10 DEF HandleInterrupt, SetAbort, SamePlace
  <2> QED BY <2>1, <2>2 DEF Keeps, SameLocals, localVars, jtVars, procVars
<1>11. CASE UserInterrupt \/ UNCHANGED vars
  <2>1. UNCHANGED <<windowVars, localVars, jtVars, pc, procVars>>
    BY <1>11 DEF UserInterrupt, vars
  <2> QED BY <2>1 DEF Keeps, SameLocals, SamePlace, windowVars, localVars, jtVars, procVars
<1> QED BY <1>1, <1>2, <1>3, <1>4, <1>5, <1>6, <1>7, <1>8, <1>9, <1>10, <1>11
        DEF Next, Input, Processor, Output, Terminated

\* The steps of the thread of the output.
LEMMA OutputMine ==
    ASSUME Mine(N)
    PROVE  WaitWork(N) \/ Output
  BY Constants DEF Mine

\* Only the thread of the output changes what it delivered and why it stopped.
LEMMA OthersKeepOutput ==
    ASSUME TypeIInv, [Next]_vars, ~Mine(N)
    PROVE  SameOutput
<1>1. outStop' = outStop /\ delivered' = delivered
  BY DEF Mine, Next, Terminated, WaitWork, Input, InputGiveUp, InputReceive, InputPass, Processor,
         ProcessPacket, ProcessorGiveUp, ProcessorEnd, ProcessorPass, UserInterrupt,
         HandleInterrupt, vars, histVars
<1>2. Keeps(N)
  BY Constants, OthersKeep
<1> QED BY <1>1, <1>2 DEF SameOutput, Keeps, SameLocals

\* What the output has accounted for when another thread makes a step.
LEMMA OtherOut ==
    ASSUME TypeIInv, OutInv, SameOutput
    PROVE  OutInv'
<1>t. total[N] \in Nat /\ passed[N] \in Nat /\ done[N] \in Nat /\ wCnt[N] \in Nat
  BY Constants DEF TypeIInv, IInv, RingIInv, JointTypes, WindowTypes, LocalTypes
<1>1. CASE pc'[N] = pc[N]
  BY <1>1, <1>t DEF SameOutput, OutInv
<1>2. CASE pc[N] = "blocked" /\ pc'[N] = "wait"
  BY <1>2, <1>t DEF SameOutput, OutInv
<1> QED BY <1>1, <1>2 DEF SameOutput, SamePlace

\* waitWork of the output accounts for nothing.
LEMMA WaitWorkOut ==
    ASSUME TypeIInv, OutInv, WaitWork(N)
    PROVE  OutInv'
<1>c. N \in Executors
  BY Constants
<1>1. pc[N] = "wait" /\ UNCHANGED <<windowVars, jtVars, histVars>>
  BY DEF WaitWork, WaitWorkBlock, WaitWorkReturn
<1>2. pc'[N] \in {"blocked", "work"}
  BY <1>c DEF WaitWork, WaitWorkBlock, WaitWorkReturn, TypeIInv, IInv, RingIInv, LocalTypes
<1> QED BY <1>1, <1>2 DEF OutInv, windowVars, jtVars, histVars

\* What the output has accounted for after each of its steps.
LEMMA OutputOut ==
    ASSUME TypeIInv, OutInv, Output
    PROVE  OutInv'
<1>c. N \in Nat /\ N >= 1 /\ N \in Executors /\ N # 0 /\ B \in Nat
  BY Constants
<1>r. RingIInv /\ JointTypes
  BY DEF TypeIInv, IInv
<1>f. /\ total \in [Executors -> Nat] /\ done \in [Executors -> 0 .. B]
      /\ wCnt \in [Executors -> 0 .. B] /\ wAbort \in [Executors -> BOOLEAN]
      /\ pc \in [Executors -> Labels] /\ passed \in [Executors -> Nat]
  BY <1>r DEF RingIInv, JointTypes, LocalTypes, FlagTypes, WindowTypes
<1>t. total[N] \in Nat /\ passed[N] \in Nat /\ done[N] \in Nat /\ wCnt[N] \in Nat
  BY <1>f, <1>c
<1>d. /\ pc[N] \in {"work", "limit"} => done[N] = 0
      /\ pc[N] \in Busy => done[N] <= wCnt[N]
  BY <1>c, <1>r DEF RingIInv, LocalInv, Local, Busy
<1>1. CASE OutputCheck
  <2>1. /\ pc[N] = "work" /\ UNCHANGED <<windowVars, jtVars>>
        /\ pc'[N] \in {"done", "limit"}
    BY <1>1, <1>c, <1>f DEF OutputCheck
  <2>2. outStop' \in {outStop, "eof", "abort"}
    BY <1>1 DEF OutputCheck
  <2>3. total'[N] = total[N] /\ passed'[N] = passed[N]
    BY <2>1 DEF windowVars, jtVars
  <2>4. outStop' \notin {"send", "joint"}
    BY <2>1, <2>2 DEF OutInv
  <2> QED BY <2>1, <2>3, <2>4, <1>t DEF OutInv
<1>2. CASE OutputLimit
  <2>1. /\ pc[N] = "limit" /\ UNCHANGED <<windowVars, jtVars, procVars>>
        /\ wCnt'[N] = LimitedCnt
        /\ pc'[N] = IF LimitedCnt = 0 THEN "pass" ELSE "send"
        /\ wAbort'[N] = (wAbort[N] \/ OverLimit)
        /\ outStop' = IF OverLimit THEN "joint" ELSE outStop
    BY <1>2, <1>c, <1>f DEF OutputLimit
  <2>2. total'[N] = total[N] /\ passed'[N] = passed[N] /\ done'[N] = 0 /\ total[N] = passed[N]
    BY <2>1, <1>d DEF windowVars, jtVars, procVars, OutInv
  <2>3. outStop' \in {"send", "joint"} => OverLimit
    BY <2>1 DEF OutInv
  <2>4. wAbort'[N] \in BOOLEAN /\ (OverLimit => wAbort'[N])
    BY <2>1, <1>f, <1>c DEF OverLimit, JointTerminationAgreed
  <2> QED BY <2>1, <2>2, <2>3, <2>4, <1>t DEF OutInv
<1>3. CASE OutputSend
  <2>1. PICK d \in 0 .. wCnt[N], o \in 0 .. wCnt[N] :
           /\ IsSegment(d, o)
           /\ total' = [total EXCEPT ![N] = @ + d + o]
           /\ done' = [done EXCEPT ![N] = @ + d + o]
           /\ pc' = [pc EXCEPT ![N] = IF done[N] + d + o = wCnt[N] THEN "pass" ELSE "send"]
    BY <1>3 DEF OutputSend
  <2>2. d \in Nat /\ o \in Nat /\ done[N] + d + o <= wCnt[N]
    BY <2>1, <1>r, SegmentBound
  <2>3. /\ total'[N] = total[N] + d + o /\ done'[N] = done[N] + d + o
        /\ pc'[N] = IF done[N] + d + o = wCnt[N] THEN "pass" ELSE "send"
    BY <2>1, <1>c, <1>f
  <2>4. /\ pc[N] = "send" /\ passed' = passed /\ wCnt' = wCnt /\ wAbort' = wAbort
        /\ outStop' = outStop
    BY <1>3 DEF OutputSend, windowVars, localVars
  <2>5. total[N] = passed[N] + done[N] /\ (outStop \in {"send", "joint"} => wAbort[N])
    BY <2>4 DEF OutInv
  <2> QED BY <2>2, <2>3, <2>4, <2>5, <1>t DEF OutInv
<1>4. CASE OutputSendError
  <2>1. PICK d \in 0 .. wCnt[N], o \in 0 .. wCnt[N] :
           IsSegment(d, o) /\ total' = [total EXCEPT ![N] = @ + d]
    BY <1>4 DEF OutputSendError
  <2>2. d \in Nat /\ o \in Nat /\ done[N] + d + o <= wCnt[N]
    BY <2>1, <1>r, SegmentBound
  <2>3. total'[N] = total[N] + d
    BY <2>1, <1>c, <1>f
  <2>4. /\ pc[N] = "send" /\ passed' = passed /\ wCnt' = wCnt /\ wAbort'[N]
        /\ outStop' = "send" /\ pc'[N] = "pass"
    BY <1>4, <1>c, <1>f DEF OutputSendError, windowVars
  <2>5. total[N] = passed[N] + done[N]
    BY <2>4 DEF OutInv
  <2>6. total'[N] \in passed[N] .. (passed[N] + wCnt[N])
    BY <2>2, <2>3, <2>5, <1>t
  <2> QED BY <2>4, <2>6, <1>t DEF OutInv
<1>5. CASE OutputPass
  <2>1. /\ pc[N] = "pass"
        /\ PassPackets(N, wCnt[N], FALSE, wAbort[N],
                       IF MustStop(N, FALSE, wAbort[N]) THEN "done" ELSE "wait")
        /\ UNCHANGED <<localVars, jtVars, histVars>>
    BY <1>5 DEF OutputPass
  <2>2. pc'[N] = IF MustStop(N, FALSE, wAbort[N]) THEN "done" ELSE "wait"
    BY <2>1, <1>c DEF PassPackets, Signalled
  <2>3. passed'[N] = passed[N] + wCnt[N]
    BY <2>1, <1>c, <1>f DEF PassPackets
  <2>4. wAbort[N] => pc'[N] = "done"
    BY <2>2 DEF MustStop, PassAborts
  <2>5. pc'[N] \in {"done", "wait"} /\ total' = total /\ outStop' = outStop
    BY <2>1, <2>2 DEF jtVars, histVars
  <2>6. \/ total[N] = passed[N] + wCnt[N]
        \/ wAbort[N] /\ outStop = "send" /\ total[N] <= passed[N] + wCnt[N]
    BY <2>1, <1>t DEF OutInv
  <2>7. outStop \in {"send", "joint"} => wAbort[N]
    BY <2>1 DEF OutInv
  <2> QED BY <2>3, <2>4, <2>5, <2>6, <2>7, <1>t DEF OutInv
<1> QED BY <1>1, <1>2, <1>3, <1>4, <1>5 DEF Output

\* In each step, the output accounts for the packets it sent or skipped.
LEMMA OutStep ==
    ASSUME TypeIInv, OutInv, [Next]_vars
    PROVE  OutInv'
  BY OutputMine, OthersKeepOutput, OtherOut, WaitWorkOut, OutputOut

\* The output accounts for no packet which the executor before it has not passed.
LEMMA OutBound ==
    ASSUME TypeIInv, OutInv
    PROVE  /\ total[N] \in Nat /\ total[N] <= passed[N - 1]
           /\ pc[N] \in Busy => passed[N] + wCnt[N] <= passed[N - 1]
<1>c. N \in Nat /\ N >= 1 /\ N \in Executors /\ N # 0 /\ B \in Nat /\ N - 1 \in Executors
      /\ N \in 1 .. N
  BY Constants
<1>t. /\ total[N] \in Nat /\ passed[N] \in Nat /\ done[N] \in Nat /\ wCnt[N] \in Nat
      /\ pktCnt[N] \in Nat /\ passed[N - 1] \in Nat /\ pc[N] \in Labels
  BY <1>c DEF TypeIInv, IInv, RingIInv, JointTypes, WindowTypes, LocalTypes
<1>1. pktCnt[N] = passed[N - 1] - passed[N]
  BY <1>c DEF TypeIInv, IInv, RingIInv, RingInv, Ahead
<1>2. pc[N] \in Busy => done[N] <= wCnt[N] /\ wCnt[N] <= pktCnt[N]
  BY <1>c DEF TypeIInv, IInv, RingIInv, LocalInv, Local
<1>3. CASE pc[N] \in Busy
  BY <1>1, <1>2, <1>3, <1>t DEF OutInv, Busy
<1>4. CASE pc[N] \notin Busy
  <2>1. total[N] <= passed[N]
    BY <1>4, <1>t DEF OutInv, Busy, Labels
  <2> QED BY <2>1, <1>1, <1>4, <1>t
<1> QED BY <1>3, <1>4

-----------------------------------------------------------------------------
(***************************************************************************)
(* The slots of the packets.                                               *)
(***************************************************************************)
\* The packets which follow the position of an executor are in the slots which follow its
\* window, up to the end of the buffer.
LEMMA SlotAt ==
    ASSUME RingIInv, NEW i \in Executors, NEW k \in Nat, pktFirst[i] + k < B
    PROVE  SlotOf(passed[i] + k) = pktFirst[i] + k
<1>c. N \in Nat /\ N \in Executors /\ i <= N /\ B \in Nat
  BY Constants
<1>1. /\ passed[i] \in Nat /\ passed[N] \in Nat
      /\ pktFirst[i] \in 0 .. (B - 1) /\ pktFirst[N] \in 0 .. (B - 1)
  BY <1>c DEF RingIInv, WindowTypes
<1>2. pktFirst[i] \in {pktFirst[N] + (passed[i] - passed[N]),
                      pktFirst[N] + (passed[i] - passed[N]) - B}
  BY <1>c DEF RingIInv, RingInv, Ahead
<1> DEFINE s == pktFirst[N] + ((passed[i] + k) - passed[N])
<1>3. s = pktFirst[i] + k \/ s = pktFirst[i] + k + B
  BY <1>1, <1>2, <1>c
<1> HIDE DEF s
<1>4. (IF s < B THEN s ELSE s - B) = pktFirst[i] + k
  BY <1>1, <1>3, <1>c
<1> QED BY <1>4 DEF SlotOf, s

\* Positions of the buffer which the output has not passed.
Ring(q) == q \in Nat /\ passed[N] <= q /\ q < passed[N] + B

\* Two packets are never in the same slot.
LEMMA SlotApart ==
    ASSUME RingIInv, NEW q, NEW r, Ring(q), Ring(r), q # r
    PROVE  SlotOf(q) # SlotOf(r)
<1>1. B \in Nat /\ passed[N] \in Nat /\ pktFirst[N] \in 0 .. (B - 1)
  BY Constants DEF RingIInv, WindowTypes
<1> QED BY <1>1 DEF SlotOf, Ring

\* The slot of a packet is inside the buffer.
LEMMA SlotInside ==
    ASSUME RingIInv, NEW q, Ring(q)
    PROVE  SlotOf(q) \in Slots
<1>1. B \in Nat /\ passed[N] \in Nat /\ pktFirst[N] \in 0 .. (B - 1)
  BY Constants DEF RingIInv, WindowTypes
<1> QED BY <1>1 DEF SlotOf, Ring

\* All the packets between the input and the output are in the buffer, and so is the free part
\* which the input may fill.
LEMMA StreamRing ==
    ASSUME RingIInv
    PROVE  /\ passed[0] \in Nat /\ passed[N] \in Nat /\ pktCnt[0] \in Nat
           /\ passed[N] <= passed[0] /\ passed[0] + pktCnt[0] = passed[N] + B
           /\ \A q \in passed[N] .. (passed[0] - 1) : Ring(q)
<1>1. /\ B \in Nat /\ passed[N] \in Nat /\ passed[0] \in Nat /\ pktCnt[0] \in Nat
      /\ 0 \in Executors /\ N \in Executors /\ 0 <= N
  BY Constants DEF RingIInv, WindowTypes
<1>2. pktCnt[0] = B - (passed[0] - passed[N]) /\ passed[0] - passed[N] \in 0 .. B
  BY <1>1 DEF RingIInv, RingInv, Ahead
<1> QED BY <1>1, <1>2 DEF Ring

\* An executor is never behind one which comes after it in the chain.
LEMMA PassedOrder ==
    ASSUME RingIInv, NEW i \in Executors, NEW j \in Executors, i <= j
    PROVE  passed[i] \in Nat /\ passed[j] \in Nat /\ passed[j] <= passed[i]
<1>1. passed[i] \in Nat /\ passed[j] \in Nat
  BY DEF RingIInv, WindowTypes
<1>2. passed[i] - passed[j] \in 0 .. B
  BY DEF RingIInv, RingInv, Ahead
<1> QED BY <1>1, <1>2, Constants

\* The packet which a processor works on: between the input and the output, not yet passed to
\* the output.
LEMMA WorkSlot ==
    ASSUME RingIInv, NEW i \in Processors, pc[i] = "work", done[i] < wCnt[i]
    PROVE  /\ passed[i] + flush[i] \in passed[N - 1] .. (passed[0] - 1)
           /\ passed[i] + flush[i] \in passed[N] .. (passed[0] - 1)
           /\ SlotOf(passed[i] + flush[i]) = wFirst[i] + done[i]
<1>c. N \in Nat /\ N >= 1 /\ B \in Nat /\ i \in Executors /\ i - 1 \in Executors /\ i \in 1 .. N
      /\ N \in Executors /\ 0 \in Executors /\ i <= N /\ 0 <= i - 1 /\ i <= N - 1
      /\ N - 1 \in Executors /\ N - 1 <= N
  BY Constants
<1>t. /\ wFirst[i] \in 0 .. (B - 1) /\ wCnt[i] \in 0 .. B /\ flush[i] \in 0 .. B
      /\ done[i] \in 0 .. B /\ pktFirst[i] \in 0 .. (B - 1) /\ pktCnt[i] \in 0 .. B
  BY <1>c DEF RingIInv, LocalTypes, WindowTypes
<1>1. /\ wFirst[i] + wCnt[i] <= B /\ flush[i] <= done[i]
      /\ pktFirst[i] = wFirst[i] + done[i] - flush[i]
      /\ wCnt[i] - done[i] + flush[i] <= pktCnt[i]
  BY <1>c DEF RingIInv, LocalInv, Local, Busy
<1>2. pktCnt[i] = passed[i - 1] - passed[i]
  BY <1>c DEF RingIInv, RingInv, Ahead
<1>3. /\ passed[i] \in Nat /\ passed[N - 1] \in Nat /\ passed[N - 1] <= passed[i]
      /\ passed[i - 1] \in Nat /\ passed[0] \in Nat /\ passed[i - 1] <= passed[0]
      /\ passed[N] \in Nat /\ passed[N] <= passed[i]
  BY <1>c, PassedOrder
<1>4. passed[i] + flush[i] < passed[0]
  BY <1>1, <1>2, <1>3, <1>t
<1>5. /\ flush[i] \in Nat /\ pktFirst[i] + flush[i] < B
      /\ pktFirst[i] + flush[i] = wFirst[i] + done[i]
  BY <1>1, <1>t, <1>c
<1>6. SlotOf(passed[i] + flush[i]) = wFirst[i] + done[i]
  BY <1>5, <1>c, SlotAt
<1> QED BY <1>3, <1>4, <1>6, <1>t

-----------------------------------------------------------------------------
(***************************************************************************)
(* The content of the buffer.                                              *)
(***************************************************************************)
\* A slot holds the packet of this position after the step.
Holding(s, q) == buffer'[s].seq = q /\ (buffer'[s].st = "drop" <=> q \in dropped')

\* Positions and buffer unchanged: the packets remain where they are.
LEMMA StreamFrame ==
    ASSUME StreamInv, buffer' = buffer, dropped' = dropped,
           passed'[N] = passed[N], passed'[0] = passed[0], pktFirst'[N] = pktFirst[N],
           pc'[0] = "pass" => pc[0] = "pass" /\ flush'[0] = flush[0] /\ wFirst'[0] = wFirst[0]
    PROVE  StreamInv'
<1>1. \A q : SlotOf(q)' = SlotOf(q)
  BY DEF SlotOf
<1>3. \A q \in passed'[N] .. (passed'[0] - 1) : Holds(SlotOf(q), q)'
  BY <1>1 DEF StreamInv, Holds
<1>4. (pc[0] = "pass" => \A k \in 0 .. (flush[0] - 1) : Holds(wFirst[0] + k, passed[0] + k))'
  BY DEF StreamInv, Holds
<1> QED BY <1>3, <1>4 DEF StreamInv, Holds

\* receive() and the stuffing write in free slots only, at the next positions of the stream.
LEMMA StreamReceive ==
    ASSUME TypeIInv, StreamInv, InputReceive
    PROVE  StreamInv'
<1>c. N \in Nat /\ N >= 1 /\ B \in Nat /\ 0 \in Executors /\ N \in Executors /\ 0 # N
  BY Constants
<1>r. RingIInv /\ InputTypes
  BY DEF TypeIInv, IInv
<1>s. /\ passed[0] \in Nat /\ passed[N] \in Nat /\ pktCnt[0] \in Nat
      /\ passed[N] <= passed[0] /\ passed[0] + pktCnt[0] = passed[N] + B
      /\ \A q \in passed[N] .. (passed[0] - 1) : Ring(q)
  BY <1>r, StreamRing
<1>1. PICK n \in IF pluginCompleted THEN {0} ELSE 0 .. MinOf(PktMax, StreamLength - received) :
         LET stuffed == IF n = 0 THEN MinOf(stopRemain, PktMax - n) ELSE 0
         IN /\ buffer' = Loaded(n, n + stuffed)
            /\ flush' = [flush EXCEPT ![0] = n + stuffed]
  BY DEF InputReceive
<1> DEFINE stuffed == IF n = 0 THEN MinOf(stopRemain, PktMax - n) ELSE 0
<1>2. n \in Nat /\ stuffed \in Nat /\ n + stuffed <= wCnt[0]
  BY <1>r, ReceiveBound
<1>3. buffer' = Loaded(n, n + stuffed) /\ flush' = [flush EXCEPT ![0] = n + stuffed]
  BY <1>1
<1> HIDE DEF stuffed
<1> DEFINE read == n + stuffed
<1>4. /\ pc[0] = "work" /\ UNCHANGED windowVars /\ wFirst' = wFirst /\ dropped' = dropped
  BY DEF InputReceive, histVars
<1>5. /\ wFirst[0] + wCnt[0] <= B /\ pktFirst[0] = wFirst[0] /\ wCnt[0] <= pktCnt[0]
  BY <1>4, <1>r, <1>c DEF RingIInv, LocalInv, Local, Busy
<1>6. wFirst[0] \in 0 .. (B - 1) /\ wCnt[0] \in 0 .. B
  BY <1>c, <1>r DEF RingIInv, LocalTypes
<1>7. read \in Nat /\ read <= pktCnt[0] /\ wFirst[0] + read <= B /\ flush'[0] = read
  <2>1. flush'[0] = read
    BY <1>3, <1>c, <1>r DEF RingIInv, LocalTypes
  <2> QED BY <2>1, <1>2, <1>5, <1>6, <1>s, <1>c
<1>8. buffer' = Loaded(n, read)
  BY <1>3
<1> HIDE DEF read
\* Each new packet.
<1>9. ASSUME NEW k \in 0 .. (read - 1)
      PROVE  /\ SlotOf(passed[0] + k) = wFirst[0] + k /\ Ring(passed[0] + k)
             /\ Holding(wFirst[0] + k, passed[0] + k)
  <2>1. k \in Nat /\ k < read /\ pktFirst[0] + k < B
    BY <1>5, <1>6, <1>7, <1>c
  <2>2. SlotOf(passed[0] + k) = wFirst[0] + k
    BY <2>1, <1>5, <1>r, <1>c, SlotAt
  <2>3. Ring(passed[0] + k)
    BY <2>1, <1>7, <1>s, <1>c DEF Ring
  <2> DEFINE sl == wFirst[0] + k
  <2>4. sl \in Slots /\ sl \in wFirst[0] .. (wFirst[0] + read - 1) /\ sl - wFirst[0] = k
    BY <2>1, <1>5, <1>6, <1>7, <1>c
  <2> HIDE DEF sl
  <2>5. buffer'[sl] = [seq |-> passed[0] + (sl - wFirst[0]),
                       st |-> IF sl < wFirst[0] + n THEN "ok" ELSE "null"]
    BY <2>4, <1>8 DEF Loaded
  <2>6. buffer'[sl].seq = passed[0] + k /\ buffer'[sl].st # "drop"
    BY <2>4, <2>5
  <2>7. passed[0] + k \notin dropped
    BY <2>1, <1>s DEF StreamInv
  <2>8. Holding(sl, passed[0] + k)
    BY <2>6, <2>7, <1>4 DEF Holding
  <2> QED BY <2>2, <2>3, <2>8 DEF sl
\* Each packet which was there.
<1>10. ASSUME NEW q \in passed[N] .. (passed[0] - 1) PROVE Holding(SlotOf(q), q)
  <2>1. Ring(q)
    BY <1>s
  <2>2. SlotOf(q) \in Slots
    BY <2>1, <1>r, SlotInside
  <2>3. SlotOf(q) \notin wFirst[0] .. (wFirst[0] + read - 1)
    <3> SUFFICES ASSUME SlotOf(q) \in wFirst[0] .. (wFirst[0] + read - 1) PROVE FALSE
      OBVIOUS
    <3> DEFINE k == SlotOf(q) - wFirst[0]
    <3>1. k \in 0 .. (read - 1) /\ SlotOf(q) = wFirst[0] + k
      BY <2>2, <1>6, <1>7, <1>c
    <3> HIDE DEF k
    <3>2. SlotOf(passed[0] + k) = SlotOf(q) /\ Ring(passed[0] + k)
      BY <3>1, <1>9
    <3>3. q # passed[0] + k
      BY <3>1, <1>7, <1>s
    <3> QED BY <3>2, <3>3, <2>1, <1>r, SlotApart
  <2> DEFINE sl == SlotOf(q)
  <2> HIDE DEF sl
  <2>4. sl \in Slots /\ sl \notin wFirst[0] .. (wFirst[0] + read - 1)
    BY <2>2, <2>3 DEF sl
  <2>5. buffer'[sl] = buffer[sl]
    BY <2>4, <1>8 DEF Loaded
  <2>6. Holds(sl, q)
    BY DEF StreamInv, sl
  <2>7. Holding(sl, q)
    BY <2>5, <2>6, <1>4 DEF Holds, Holding
  <2> QED BY <2>7 DEF sl
<1>11. passed' = passed /\ pktFirst' = pktFirst
  BY <1>4 DEF windowVars
<1>12. \A q \in passed'[N] .. (passed'[0] - 1) : Holds(SlotOf(q), q)'
  <2>1. \A q : SlotOf(q)' = SlotOf(q)
    BY <1>11 DEF SlotOf
  <2> QED BY <2>1, <1>10, <1>11 DEF Holds, Holding
<1>13. \A k \in 0 .. (flush'[0] - 1) : Holds(wFirst[0] + k, passed[0] + k)'
  BY <1>4, <1>7, <1>9, <1>11 DEF Holds, Holding
<1>14. dropped' \subseteq 0 .. (passed'[0] - 1)
  BY <1>4, <1>11 DEF StreamInv
<1> QED BY <1>12, <1>13, <1>14 DEF StreamInv

\* The new packets join the others when the input passes them.
LEMMA StreamPass ==
    ASSUME TypeIInv, StreamInv, InputPass
    PROVE  StreamInv'
<1>c. N \in Nat /\ N >= 1 /\ B \in Nat /\ 0 \in Executors /\ N \in Executors /\ 0 # N
  BY Constants
<1>r. RingIInv
  BY DEF TypeIInv, IInv
<1>s. /\ passed[0] \in Nat /\ passed[N] \in Nat /\ passed[N] <= passed[0]
  BY <1>r, StreamRing
<1>1. /\ pc[0] = "pass"
      /\ PassPackets(0, flush[0], wEnd[0], FALSE, IF wEnd[0] THEN "done" ELSE "wait")
      /\ buffer' = buffer /\ dropped' = dropped
  BY DEF InputPass, histVars
<1>2. passed'[0] = passed[0] + flush[0] /\ pc'[0] # "pass"
  BY <1>1, <1>r, <1>c DEF PassPackets, Signalled, RingIInv, WindowTypes
<1>3. passed'[N] = passed[N] /\ pktFirst'[N] = pktFirst[N]
  BY <1>1, <1>r, <1>c, PassFrame
<1>4. /\ wFirst[0] + wCnt[0] <= B /\ pktFirst[0] = wFirst[0] /\ flush[0] <= wCnt[0]
  BY <1>1, <1>r, <1>c DEF RingIInv, LocalInv, Local, Busy
<1>5. wFirst[0] \in 0 .. (B - 1) /\ wCnt[0] \in 0 .. B /\ flush[0] \in 0 .. B
  BY <1>c, <1>r DEF RingIInv, LocalTypes
<1>6. ASSUME NEW q \in passed[N] .. (passed[0] + flush[0] - 1) PROVE Holds(SlotOf(q), q)
  <2>1. CASE q < passed[0]
    <3>1. q \in passed[N] .. (passed[0] - 1)
      BY <2>1, <1>s, <1>5
    <3> QED BY <3>1 DEF StreamInv
  <2>2. CASE ~(q < passed[0])
    <3> DEFINE k == q - passed[0]
    <3>1. k \in 0 .. (flush[0] - 1) /\ q = passed[0] + k /\ k \in Nat /\ pktFirst[0] + k < B
      BY <2>2, <1>s, <1>4, <1>5, <1>c
    <3> HIDE DEF k
    <3>2. SlotOf(q) = wFirst[0] + k
      BY <3>1, <1>4, <1>r, <1>c, SlotAt
    <3>3. Holds(wFirst[0] + k, passed[0] + k)
      BY <3>1, <1>1 DEF StreamInv
    <3> QED BY <3>1, <3>2, <3>3
  <2> QED BY <2>1, <2>2
<1>7. \A q \in passed'[N] .. (passed'[0] - 1) : Holds(SlotOf(q), q)'
  <2>1. \A q : SlotOf(q)' = SlotOf(q)
    BY <1>3 DEF SlotOf
  <2>2. passed'[N] .. (passed'[0] - 1) = passed[N] .. (passed[0] + flush[0] - 1)
    BY <1>2, <1>3, <1>s, <1>5
  <2>3. \A q \in passed[N] .. (passed[0] + flush[0] - 1) : Holds(SlotOf(q), q)'
    BY <2>1, <1>1, <1>6 DEF Holds
  <2> QED BY <2>2, <2>3
<1>8. dropped' \subseteq 0 .. (passed'[0] - 1)
  BY <1>1, <1>2, <1>s, <1>5 DEF StreamInv
<1> QED BY <1>2, <1>7, <1>8 DEF StreamInv

\* A processor which treats a packet changes this one only: it is marked when it is dropped.
LEMMA StreamProcess ==
    ASSUME TypeIInv, OutInv, StreamInv, NEW i \in Processors, ProcessPacket(i)
    PROVE  /\ StreamInv'
           /\ \E q \in passed[N - 1] .. (passed[0] - 1) : dropped' \in {dropped, dropped \cup {q}}
<1>c. N \in Nat /\ N >= 1 /\ B \in Nat /\ 0 \in Executors /\ N \in Executors /\ 0 # N
      /\ i # 0 /\ i \in Executors
  BY Constants
<1>r. RingIInv /\ PacketTypes
  BY DEF TypeIInv, IInv
<1>s. /\ passed[0] \in Nat /\ passed[N] \in Nat /\ pktCnt[0] \in Nat
      /\ passed[N] <= passed[0] /\ passed[0] + pktCnt[0] = passed[N] + B
      /\ \A q \in passed[N] .. (passed[0] - 1) : Ring(q)
  BY <1>r, StreamRing
<1>1. pc[i] = "work" /\ done[i] < wCnt[i] /\ UNCHANGED windowVars /\ wFirst' = wFirst
  BY DEF ProcessPacket
<1> DEFINE slot == wFirst[i] + done[i]
           w    == passed[i] + flush[i]
<1>2. /\ w \in passed[N - 1] .. (passed[0] - 1) /\ w \in passed[N] .. (passed[0] - 1)
      /\ SlotOf(w) = slot
  BY <1>1, <1>r, WorkSlot
<1>3. PICK status \in IF buffer[slot].st # "drop" THEN Statuses ELSE {"OK"} :
         /\ buffer' = [buffer EXCEPT ![slot].st = CASE status = "NULL" -> "null"
                                                    [] status = "DROP" -> "drop"
                                                    [] OTHER -> @]
         /\ dropped' = IF status = "DROP" THEN dropped \cup {buffer[slot].seq} ELSE dropped
  BY DEF ProcessPacket
<1>4. flush'[0] = flush[0] /\ pc'[0] = pc[0]
  BY <1>c, <1>r DEF ProcessPacket, RingIInv, LocalTypes
<1> HIDE DEF slot, w
<1>5. Ring(w) /\ slot \in Slots /\ Holds(slot, w)
  BY <1>2, <1>s, <1>r, SlotInside DEF StreamInv
<1>6. Holding(slot, w)
  <2>1. /\ buffer'[slot].seq = buffer[slot].seq
        /\ buffer'[slot].st = CASE status = "NULL" -> "null"
                                 [] status = "DROP" -> "drop"
                                 [] OTHER -> buffer[slot].st
    BY <1>3, <1>5, <1>r DEF PacketTypes, Packet
  <2>2. CASE status = "DROP"
    BY <2>1, <2>2, <1>3, <1>5 DEF Holds, Holding
  <2>3. CASE status # "DROP"
    <3>1. dropped' = dropped /\ buffer'[slot].seq = w
      BY <2>1, <2>3, <1>3, <1>5 DEF Holds
    <3>2. CASE status = "NULL"
      <4>1. buffer[slot].st # "drop" /\ buffer'[slot].st = "null"
        BY <2>1, <3>2, <1>3
      <4> QED BY <4>1, <3>1, <1>5 DEF Holds, Holding
    <3>3. CASE status # "NULL"
      BY <2>1, <2>3, <3>1, <3>3, <1>5 DEF Holds, Holding
    <3> QED BY <3>2, <3>3
  <2> QED BY <2>2, <2>3
<1>7. ASSUME NEW q, q # w, NEW s \in Slots, s # slot, Holds(s, q) PROVE Holding(s, q)
  <2>1. buffer'[s] = buffer[s]
    BY <1>7, <1>3, <1>5, <1>r DEF PacketTypes
  <2>2. q \in dropped' <=> q \in dropped
    BY <1>7, <1>3, <1>5 DEF Holds
  <2> QED BY <2>1, <2>2, <1>7 DEF Holds, Holding
<1>8. ASSUME NEW q \in passed[N] .. (passed[0] - 1) PROVE Holding(SlotOf(q), q)
  <2>1. CASE q = w
    BY <2>1, <1>2, <1>6
  <2>2. CASE q # w
    <3>1. Ring(q) /\ SlotOf(q) \in Slots
      BY <1>s, <1>r, SlotInside
    <3>2. SlotOf(q) # slot
      BY <3>1, <2>2, <1>2, <1>5, <1>r, SlotApart
    <3>3. Holds(SlotOf(q), q)
      BY DEF StreamInv
    <3> QED BY <3>1, <3>2, <3>3, <2>2, <1>7
  <2> QED BY <2>1, <2>2
<1>9. ASSUME pc[0] = "pass", NEW k \in 0 .. (flush[0] - 1)
      PROVE  Holding(wFirst[0] + k, passed[0] + k)
  <2>1. /\ wFirst[0] + wCnt[0] <= B /\ pktFirst[0] = wFirst[0] /\ flush[0] <= wCnt[0]
        /\ wCnt[0] <= pktCnt[0]
    BY <1>9, <1>r, <1>c DEF RingIInv, LocalInv, Local, Busy
  <2>2. wFirst[0] \in 0 .. (B - 1) /\ wCnt[0] \in 0 .. B /\ flush[0] \in 0 .. B
    BY <1>c, <1>r DEF RingIInv, LocalTypes
  <2>3. k \in Nat /\ pktFirst[0] + k < B /\ wFirst[0] + k \in Slots /\ Ring(passed[0] + k)
    BY <2>1, <2>2, <1>s, <1>c DEF Ring
  <2>4. SlotOf(passed[0] + k) = wFirst[0] + k
    BY <2>1, <2>3, <1>r, <1>c, SlotAt
  <2>5. passed[0] + k # w
    BY <2>3, <1>2, <1>s
  <2>6. wFirst[0] + k # slot
    BY <2>3, <2>4, <2>5, <1>2, <1>5, <1>r, SlotApart
  <2>7. Holds(wFirst[0] + k, passed[0] + k)
    BY <1>9 DEF StreamInv
  <2> QED BY <2>3, <2>5, <2>6, <2>7, <1>7
<1>10. passed' = passed /\ pktFirst' = pktFirst
  BY <1>1 DEF windowVars
<1>11. \A q \in passed'[N] .. (passed'[0] - 1) : Holds(SlotOf(q), q)'
  <2>1. \A q : SlotOf(q)' = SlotOf(q)
    BY <1>10 DEF SlotOf
  <2> QED BY <2>1, <1>8, <1>10 DEF Holds, Holding
<1>12. pc'[0] = "pass" => \A k \in 0 .. (flush'[0] - 1) : Holds(wFirst[0] + k, passed[0] + k)'
  BY <1>1, <1>4, <1>9, <1>10 DEF Holds, Holding
<1>13. dropped' \in {dropped, dropped \cup {w}}
  BY <1>3, <1>5 DEF Holds
<1>14. dropped' \subseteq 0 .. (passed'[0] - 1)
  BY <1>2, <1>10, <1>13, <1>s DEF StreamInv
<1> QED BY <1>2, <1>11, <1>12, <1>13, <1>14 DEF StreamInv

\* The packets which remain after the output has passed its own keep their slots.
LEMMA StreamOutPass ==
    ASSUME TypeIInv, StreamInv, OutputPass
    PROVE  StreamInv'
<1>c. N \in Nat /\ N >= 1 /\ B \in Nat /\ 0 \in Executors /\ N \in Executors /\ 0 # N
  BY Constants
<1>r. RingIInv
  BY DEF TypeIInv, IInv
<1>s. /\ passed[0] \in Nat /\ passed[N] \in Nat /\ passed[N] <= passed[0]
      /\ \A q \in passed[N] .. (passed[0] - 1) : Ring(q)
  BY <1>r, StreamRing
<1> DEFINE next == IF MustStop(N, FALSE, wAbort[N]) THEN "done" ELSE "wait"
<1>1. /\ pc[N] = "pass" /\ PassPackets(N, wCnt[N], FALSE, wAbort[N], next)
      /\ buffer' = buffer /\ dropped' = dropped /\ wFirst' = wFirst /\ flush' = flush
  BY DEF OutputPass, histVars, localVars
<1> HIDE DEF next
<1>2. /\ wFirst[N] + wCnt[N] <= B /\ pktFirst[N] = wFirst[N] /\ wCnt[N] <= pktCnt[N]
  BY <1>1, <1>r, <1>c DEF RingIInv, LocalInv, Local, Busy
<1>3. wFirst[N] \in 0 .. (B - 1) /\ wCnt[N] \in 0 .. B /\ wCnt[N] \in Nat
  BY <1>c, <1>r DEF RingIInv, LocalTypes
<1>4. CanPass(N, wCnt[N])
  BY <1>2 DEF CanPass
<1>5. pktFirst'[N] = IF pktFirst[N] + wCnt[N] = B THEN 0 ELSE pktFirst[N] + wCnt[N]
  BY <1>1, <1>3, <1>4, <1>r, <1>c, PassOwnWindow
<1>6. passed'[N] = passed[N] + wCnt[N]
  BY <1>1, <1>c, <1>r DEF PassPackets, RingIInv, WindowTypes
<1>7. passed'[0] = passed[0] /\ SamePlace(0)
  BY <1>1, <1>r, <1>c, PassFrame
<1>8. ASSUME NEW q \in (passed[N] + wCnt[N]) .. (passed[0] - 1)
      PROVE  SlotOf(q)' = SlotOf(q) /\ Holds(SlotOf(q), q)
  <2>1. q \in passed[N] .. (passed[0] - 1)
    BY <1>s, <1>3
  <2>2. q \in Nat /\ q < passed[N] + B /\ passed[N] + wCnt[N] <= q
    BY <2>1, <1>s, <1>3 DEF Ring
  <2>3. PICK f : f = pktFirst'[N]
    OBVIOUS
  <2>4. PICK p : p = passed'[N]
    OBVIOUS
  <2>5. f = (IF wFirst[N] + wCnt[N] = B THEN 0 ELSE wFirst[N] + wCnt[N]) /\ p = passed[N] + wCnt[N]
    BY <2>3, <2>4, <1>2, <1>5, <1>6
  <2>6. (IF f + (q - p) < B THEN f + (q - p) ELSE f + (q - p) - B)
        = (IF wFirst[N] + (q - passed[N]) < B THEN wFirst[N] + (q - passed[N])
           ELSE wFirst[N] + (q - passed[N]) - B)
    BY <2>2, <2>5, <1>2, <1>3, <1>s, <1>c
  <2>7. SlotOf(q)' = SlotOf(q)
    <3>1. SlotOf(q)' = IF f + (q - p) < B THEN f + (q - p) ELSE f + (q - p) - B
      BY <2>2, <2>3, <2>4, <2>5, <1>3, <1>s, <1>c DEF SlotOf
    <3>2. SlotOf(q) = IF wFirst[N] + (q - passed[N]) < B THEN wFirst[N] + (q - passed[N])
                      ELSE wFirst[N] + (q - passed[N]) - B
      BY <2>2, <1>2, <1>3, <1>s, <1>c DEF SlotOf
    <3> QED BY <3>1, <3>2, <2>6
  <2> QED BY <2>1, <2>7 DEF StreamInv
<1>9. \A q \in passed'[N] .. (passed'[0] - 1) : Holds(SlotOf(q), q)'
  BY <1>1, <1>6, <1>7, <1>8 DEF Holds
<1>10. (pc[0] = "pass" => \A k \in 0 .. (flush[0] - 1) : Holds(wFirst[0] + k, passed[0] + k))'
  BY <1>1, <1>7 DEF StreamInv, Holds, SamePlace
<1> QED BY <1>1, <1>7, <1>9, <1>10 DEF StreamInv

\* In each step, every packet between the input and the output stays in its slot.
LEMMA StreamStep ==
    ASSUME TypeIInv, OutInv, StreamInv, [Next]_vars
    PROVE  StreamInv'
<1>c. N \in Nat /\ N >= 1 /\ 0 \in Executors /\ N \in Executors /\ 0 # N
  BY Constants
<1>r. RingIInv
  BY DEF TypeIInv, IInv
<1>t. wFirst \in [Executors -> Slots] /\ flush \in [Executors -> 0 .. B] /\ pc \in [Executors -> Labels]
  BY <1>r DEF RingIInv, LocalTypes
<1>1. ASSUME NEW i \in Executors, WaitWork(i) PROVE StreamInv'
  <2>1. UNCHANGED <<windowVars, buffer, procVars, histVars>>
    BY <1>1 DEF WaitWork, WaitWorkBlock, WaitWorkReturn
  <2>2. pc'[0] = "pass" => pc[0] = "pass" /\ wFirst'[0] = wFirst[0]
    BY <1>1, <1>t, <1>c DEF WaitWork, WaitWorkBlock, WaitWorkReturn, localVars
  <2> QED BY <2>1, <2>2, StreamFrame DEF windowVars, procVars, histVars
<1>2. ASSUME NEW i \in Processors, ProcessorGiveUp(i) \/ ProcessorEnd(i) \/ ProcessorPass(i)
      PROVE  StreamInv'
  <2>1. i \in Executors /\ i # 0 /\ i # N
    BY <1>c
  <2>2. UNCHANGED <<buffer, histVars>> /\ wFirst' = wFirst /\ flush'[0] = flush[0]
    BY <1>2, <2>1, <1>t, <1>c DEF ProcessorGiveUp, ProcessorEnd, ProcessorPass, localVars, procVars
  <2>3. \E count, end, abort, next : PassPackets(i, count, end, abort, next)
    BY <1>2 DEF ProcessorGiveUp, ProcessorEnd, ProcessorPass
  <2>4. /\ passed'[N] = passed[N] /\ pktFirst'[N] = pktFirst[N]
        /\ passed'[0] = passed[0] /\ SamePlace(0)
    BY <2>1, <2>3, <1>r, <1>c, PassFrame
  <2>5. pc'[0] = "pass" => pc[0] = "pass"
    BY <2>4 DEF SamePlace
  <2> QED BY <2>2, <2>4, <2>5, StreamFrame DEF histVars
<1>3. CASE OutputCheck \/ OutputLimit \/ OutputSend \/ OutputSendError
  <2>1. /\ UNCHANGED <<windowVars, buffer, flush, dropped>> /\ wFirst' = wFirst
        /\ pc'[0] = pc[0]
    BY <1>3, <1>t, <1>c DEF OutputCheck, OutputLimit, OutputSend, OutputSendError, localVars, procVars
  <2> QED BY <2>1, StreamFrame DEF windowVars
<1>4. CASE InputGiveUp \/ UserInterrupt \/ UNCHANGED vars
  <2>1. /\ UNCHANGED <<windowVars, buffer, procVars, localVars, histVars>>
        /\ pc'[0] = "pass" => pc[0] = "pass"
    BY <1>4, <1>t, <1>c DEF InputGiveUp, UserInterrupt, vars
  <2> QED BY <2>1, StreamFrame DEF windowVars, procVars, localVars, histVars
<1>5. CASE HandleInterrupt
  <2>1. /\ UNCHANGED <<pktFirst, passed, buffer, procVars, localVars, histVars>>
        /\ pc'[0] = "pass" => pc[0] = "pass"
    BY <1>5, <1>c DEF HandleInterrupt, SetAbort
  <2> QED BY <2>1, StreamFrame DEF procVars, localVars, histVars
<1> QED BY <1>1, <1>2, <1>3, <1>4, <1>5, StreamReceive, StreamPass, StreamProcess, StreamOutPass
        DEF Next, Input, Processor, Output, Terminated

-----------------------------------------------------------------------------
(***************************************************************************)
(* What the output plugin gets.                                            *)
(***************************************************************************)
\* The packets of a segment are the next positions of the stream: first dropped ones, then
\* packets which no processor dropped.
LEMMA SegmentContent ==
    ASSUME TypeIInv, OutInv, StreamInv, pc[N] = "send",
           NEW d \in 0 .. wCnt[N], NEW o \in 0 .. wCnt[N], IsSegment(d, o)
    PROVE  /\ d \in Nat /\ o \in Nat /\ total[N] \in Nat
           /\ \A k \in 0 .. (d - 1) : total[N] + k \in dropped
           /\ \A k \in 1 .. o : OutPkt(done[N] + d + k - 1).seq = total[N] + d + k - 1
           /\ \A k \in 1 .. o : total[N] + d + k - 1 \notin dropped
<1>c. N \in Nat /\ N >= 1 /\ B \in Nat /\ 0 \in Executors /\ N \in Executors /\ N - 1 \in Executors
      /\ 0 <= N - 1
  BY Constants
<1>r. RingIInv /\ JointTypes
  BY DEF TypeIInv, IInv
<1>1. d \in Nat /\ o \in Nat /\ done[N] + d + o <= wCnt[N]
  BY <1>r, SegmentBound
<1>2. /\ wFirst[N] + wCnt[N] <= B /\ pktFirst[N] = wFirst[N]
  BY <1>r, <1>c DEF RingIInv, LocalInv, Local, Busy
<1>3. /\ wFirst[N] \in 0 .. (B - 1) /\ wCnt[N] \in 0 .. B /\ done[N] \in 0 .. B
      /\ total[N] \in Nat /\ passed[N] \in Nat
  BY <1>c, <1>r DEF RingIInv, LocalTypes, WindowTypes, JointTypes
<1>4. total[N] = passed[N] + done[N]
  BY DEF OutInv
<1>5. passed[N] + wCnt[N] <= passed[N - 1]
  BY OutBound DEF Busy
<1>6. passed[N - 1] \in Nat /\ passed[0] \in Nat /\ passed[N - 1] <= passed[0]
  BY <1>r, <1>c, PassedOrder
<1>7. ASSUME NEW j \in 0 .. (d + o - 1) PROVE Holds(wFirst[N] + (done[N] + j), total[N] + j)
  <2> DEFINE k == done[N] + j
  <2>1. k \in Nat /\ pktFirst[N] + k < B /\ total[N] + j = passed[N] + k
        /\ passed[N] + k \in passed[N] .. (passed[0] - 1)
    BY <1>1, <1>2, <1>3, <1>4, <1>5, <1>6, <1>c
  <2> HIDE DEF k
  <2>2. SlotOf(passed[N] + k) = wFirst[N] + k
    BY <2>1, <1>2, <1>r, <1>c, SlotAt
  <2>3. Holds(SlotOf(passed[N] + k), passed[N] + k)
    BY <2>1 DEF StreamInv
  <2>4. Holds(wFirst[N] + k, total[N] + j)
    BY <2>1, <2>2, <2>3
  <2> QED BY <2>4 DEF k
<1>8. ASSUME NEW k \in 0 .. (d - 1) PROVE total[N] + k \in dropped
  <2>1. k \in 0 .. (d + o - 1)
    BY <1>1
  <2>2. buffer[wFirst[N] + (done[N] + k)].st = "drop"
    BY DEF IsSegment, OutPkt
  <2> QED BY <2>1, <2>2, <1>7 DEF Holds
<1>9. ASSUME NEW k \in 1 .. o
      PROVE  /\ OutPkt(done[N] + d + k - 1).seq = total[N] + d + k - 1
             /\ total[N] + d + k - 1 \notin dropped
  <2> DEFINE j == d + k - 1
  <2>1. /\ j \in 0 .. (d + o - 1) /\ j \in d .. (d + o - 1)
        /\ done[N] + d + k - 1 = done[N] + j /\ total[N] + d + k - 1 = total[N] + j
    BY <1>1, <1>3
  <2> HIDE DEF j
  <2>2. Holds(wFirst[N] + (done[N] + j), total[N] + j)
    BY <2>1, <1>7
  <2>3. OutPkt(done[N] + j).st # "drop"
    BY <2>1 DEF IsSegment
  <2>4. OutPkt(done[N] + j).seq = total[N] + j /\ total[N] + j \notin dropped
    BY <2>2, <2>3 DEF Holds, OutPkt
  <2> QED BY <2>1, <2>4
<1> QED BY <1>1, <1>3, <1>8, <1>9

\* Nothing sent, nothing accounted for, no packet dropped behind the output.
LEMMA DeliveredFrame ==
    ASSUME TypeIInv, OutInv, DeliveredFaithful, delivered' = delivered, total'[N] = total[N],
           NEW q \in Int, q >= total[N], dropped' \in {dropped, dropped \cup {q}}
    PROVE  DeliveredFaithful'
<1>1. total[N] \in Nat
  BY OutBound
<1>2. (0 .. (total[N] - 1)) \ dropped' = (0 .. (total[N] - 1)) \ dropped
  BY <1>1
<1> QED BY <1>2 DEF DeliveredFaithful

\* A packet which is dropped is not yet accounted for by the output.
LEMMA DeliveredOther ==
    ASSUME TypeIInv, OutInv, StreamInv, DeliveredFaithful, [Next]_vars, ~Mine(N)
    PROVE  DeliveredFaithful'
<1>c. N \in Nat /\ N >= 1 /\ N \in Executors
  BY Constants
<1>1. delivered' = delivered /\ total'[N] = total[N]
  BY OthersKeepOutput DEF SameOutput
<1>2. total[N] \in Nat /\ total[N] <= passed[N - 1]
  BY OutBound
<1>3. ASSUME dropped' = dropped PROVE DeliveredFaithful'
  <2>1. total[N] \in Int /\ total[N] >= total[N] /\ dropped' \in {dropped, dropped \cup {total[N]}}
    BY <1>2, <1>3
  <2> QED BY <2>1, <1>1, DeliveredFrame
<1>4. ASSUME NEW i \in Processors, ProcessPacket(i) PROVE DeliveredFaithful'
  <2>1. PICK q \in passed[N - 1] .. (passed[0] - 1) : dropped' \in {dropped, dropped \cup {q}}
    BY <1>4, StreamProcess
  <2>2. passed[N - 1] \in Nat
    BY <1>c DEF TypeIInv, IInv, RingIInv, WindowTypes
  <2>3. q \in Int /\ q >= total[N]
    BY <2>1, <2>2, <1>2
  <2> QED BY <2>1, <2>3, <1>1, DeliveredFrame
<1>5. ASSUME ~ \E i \in Processors : ProcessPacket(i) PROVE dropped' = dropped
  BY <1>5 DEF Mine, Next, Terminated, WaitWork, Input, InputGiveUp, InputReceive, InputPass,
              Processor, ProcessorGiveUp, ProcessorEnd, ProcessorPass, UserInterrupt,
              HandleInterrupt, vars, histVars
<1> QED BY <1>3, <1>4, <1>5

\* A sequence holds the positions before t which are not in D, in their order.
Exact(s, t, D) ==
    /\ \A k \in 1 .. (Len(s) - 1) : s[k] < s[k + 1]
    /\ {s[k] : k \in 1 .. Len(s)} = (0 .. (t - 1)) \ D

\* From position t on, d positions are in D and the next ones are those of e, not in D.
NextRun(e, t, d, D) ==
    /\ \A k \in 0 .. (d - 1) : t + k \in D
    /\ \A k \in 1 .. Len(e) : e[k] = t + d + k - 1 /\ e[k] \notin D

\* Skipping dropped packets and appending the next positions keeps what was delivered exact.
LEMMA Extended ==
    ASSUME NEW t \in Nat, NEW d \in Nat, NEW D, NEW s \in Seq(Nat), NEW e \in Seq(Nat),
           Exact(s, t, D), NextRun(e, t, d, D)
    PROVE  Exact(s \o e, t + d + Len(e), D)
<1> DEFINE u == s \o e
           o == Len(e)
<1>1. /\ \A k \in 1 .. (Len(s) - 1) : s[k] < s[k + 1]
      /\ \A k \in 1 .. Len(s) : s[k] \in (0 .. (t - 1)) \ D
      /\ \A q \in (0 .. (t - 1)) \ D : \E k \in 1 .. Len(s) : s[k] = q
  BY DEF Exact
<1>2. o \in Nat /\ \A k \in 1 .. o : e[k] = t + d + k - 1 /\ e[k] \notin D
  BY DEF NextRun
<1>3. \A k \in 0 .. (d - 1) : t + k \in D
  BY DEF NextRun
<1>4. u \in Seq(Nat) /\ Len(u) = Len(s) + o
  BY ConcatProperties
<1>5. \A k \in 1 .. (Len(s) + o) : u[k] = IF k <= Len(s) THEN s[k] ELSE e[k - Len(s)]
  BY ConcatProperties
<1> HIDE DEF u, o
<1>n. Len(s) \in Nat
  OBVIOUS
<1>s. \A k \in 1 .. Len(s) : u[k] = s[k]
  BY <1>5, <1>n, <1>2
<1>6. ASSUME NEW k \in (Len(s) + 1) .. (Len(s) + o)
      PROVE  u[k] = t + d + (k - Len(s)) - 1 /\ u[k] \notin D
  <2>1. k - Len(s) \in 1 .. o /\ k \in 1 .. (Len(s) + o) /\ ~(k <= Len(s))
    BY <1>n, <1>2
  <2>2. u[k] = e[k - Len(s)]
    BY <2>1, <1>5
  <2> QED BY <2>1, <2>2, <1>2
<1>7. \A k \in 1 .. Len(s) : s[k] \in Nat /\ s[k] < t
  <2> SUFFICES ASSUME NEW k \in 1 .. Len(s) PROVE s[k] \in Nat /\ s[k] < t
    OBVIOUS
  <2>1. s[k] \in (0 .. (t - 1)) \ D
    BY <1>1
  <2> QED BY <2>1
<1>8. ASSUME NEW k \in 1 .. (Len(u) - 1) PROVE u[k] < u[k + 1]
  <2>1. k \in 1 .. (Len(s) + o - 1)
    BY <1>4, <1>n, <1>2
  <2>2. CASE k < Len(s)
    <3>1. k \in 1 .. (Len(s) - 1) /\ k \in 1 .. Len(s) /\ k + 1 \in 1 .. Len(s)
      BY <2>1, <2>2, <1>n, <1>2
    <3> QED BY <3>1, <1>s, <1>1
  <2>3. CASE k = Len(s)
    <3>1. k \in 1 .. Len(s) /\ k + 1 \in (Len(s) + 1) .. (Len(s) + o) /\ (k + 1) - Len(s) = 1
      BY <2>1, <2>3, <1>n, <1>2
    <3>2. u[k] \in Nat /\ u[k] < t
      BY <3>1, <1>s, <1>7
    <3>3. u[k + 1] = t + d
      BY <3>1, <1>6
    <3> QED BY <3>2, <3>3
  <2>4. CASE k > Len(s)
    <3>1. k \in (Len(s) + 1) .. (Len(s) + o) /\ k + 1 \in (Len(s) + 1) .. (Len(s) + o)
      BY <2>1, <2>4, <1>n, <1>2
    <3>2. u[k] = t + d + (k - Len(s)) - 1 /\ u[k + 1] = t + d + ((k + 1) - Len(s)) - 1
      BY <3>1, <1>6
    <3> QED BY <3>1, <3>2, <1>n, <1>2
  <2> QED BY <2>1, <2>2, <2>3, <2>4, <1>n, <1>2
<1>9. ASSUME NEW k \in 1 .. Len(u) PROVE u[k] \in (0 .. (t + d + o - 1)) \ D
  <2>1. k \in 1 .. (Len(s) + o)
    BY <1>4
  <2>2. CASE k <= Len(s)
    <3>1. k \in 1 .. Len(s)
      BY <2>1, <2>2, <1>n, <1>2
    <3>2. u[k] = s[k] /\ s[k] \in (0 .. (t - 1)) \ D
      BY <3>1, <1>1, <1>s
    <3> QED BY <3>2, <1>2
  <2>3. CASE ~(k <= Len(s))
    <3>1. k \in (Len(s) + 1) .. (Len(s) + o)
      BY <2>1, <2>3, <1>n, <1>2
    <3>2. u[k] = t + d + (k - Len(s)) - 1 /\ u[k] \notin D
      BY <3>1, <1>6
    <3>3. t + d + (k - Len(s)) - 1 \in 0 .. (t + d + o - 1)
      BY <3>1, <1>n, <1>2
    <3> QED BY <3>2, <3>3
  <2> QED BY <2>2, <2>3
<1>10. ASSUME NEW q \in (0 .. (t + d + o - 1)) \ D PROVE \E k \in 1 .. Len(u) : u[k] = q
  <2>q. q \in Int /\ 0 <= q /\ q <= t + d + o - 1 /\ q \notin D
    BY <1>2
  <2>1. CASE q < t
    <3>1. q \in (0 .. (t - 1)) \ D
      BY <2>1, <2>q
    <3>2. PICK k \in 1 .. Len(s) : s[k] = q
      BY <3>1, <1>1
    <3>3. u[k] = q /\ k \in 1 .. Len(u)
      BY <3>2, <1>4, <1>s, <1>n, <1>2
    <3> QED BY <3>3
  <2>2. CASE t <= q /\ q < t + d
    <3>1. q - t \in 0 .. (d - 1) /\ t + (q - t) = q
      BY <2>2, <2>q
    <3>2. q \in D
      BY <3>1, <1>3
    <3> QED BY <3>2, <2>q
  <2>3. CASE t + d <= q
    <3> DEFINE k == Len(s) + (q - (t + d)) + 1
    <3>1. k \in (Len(s) + 1) .. (Len(s) + o) /\ k \in 1 .. Len(u)
          /\ t + d + (k - Len(s)) - 1 = q
      BY <2>3, <2>q, <1>4, <1>n, <1>2
    <3> HIDE DEF k
    <3>2. u[k] = q
      BY <3>1, <1>6
    <3> QED BY <3>1, <3>2
  <2> QED BY <2>q, <2>1, <2>2, <2>3
<1>11. {u[k] : k \in 1 .. Len(u)} = (0 .. (t + d + o - 1)) \ D
  BY <1>9, <1>10
<1>12. \A k \in 1 .. (Len(u) - 1) : u[k] < u[k + 1]
  BY <1>8
<1>13. PICK v : v = t + d + o
  OBVIOUS
<1>14. {u[k] : k \in 1 .. Len(u)} = (0 .. (v - 1)) \ D
  <2>1. v - 1 = t + d + o - 1
    BY <1>2, <1>13
  <2> QED BY <2>1, <1>11
<1>15. Exact(u, v, D)
  BY <1>12, <1>14 DEF Exact
<1> QED BY <1>13, <1>15 DEF u, o

\* send() gives the next packets to the output plugin; the dropped ones are skipped.
LEMMA DeliveredSend ==
    ASSUME TypeIInv, OutInv, StreamInv, DeliveredFaithful, OutputSend
    PROVE  DeliveredFaithful'
<1>c. N \in Executors
  BY Constants
<1>1. PICK d \in 0 .. wCnt[N], o \in 0 .. wCnt[N] :
         /\ IsSegment(d, o)
         /\ total' = [total EXCEPT ![N] = @ + d + o]
         /\ delivered' = delivered \o [k \in 1 .. o |-> OutPkt(done[N] + d + k - 1).seq]
  BY DEF OutputSend
<1>2. pc[N] = "send" /\ dropped' = dropped
  BY DEF OutputSend
<1>3. /\ d \in Nat /\ o \in Nat /\ total[N] \in Nat
      /\ \A k \in 0 .. (d - 1) : total[N] + k \in dropped
      /\ \A k \in 1 .. o : OutPkt(done[N] + d + k - 1).seq = total[N] + d + k - 1
      /\ \A k \in 1 .. o : total[N] + d + k - 1 \notin dropped
  BY <1>1, <1>2, SegmentContent
<1>4. total'[N] = total[N] + d + o
  BY <1>1, <1>c DEF TypeIInv, IInv, JointTypes
<1> DEFINE e == [k \in 1 .. o |-> OutPkt(done[N] + d + k - 1).seq]
<1>5. \A k \in 1 .. o : e[k] = total[N] + d + k - 1 /\ e[k] \notin dropped
  BY <1>3
<1>6. e \in Seq(Nat) /\ Len(e) = o
  <2>1. \A k \in 1 .. o : OutPkt(done[N] + d + k - 1).seq \in Nat
    BY <1>3
  <2> QED BY <2>1, <1>3
<1>7. delivered' = delivered \o e
  BY <1>1
<1> HIDE DEF e
<1>8. delivered \in Seq(Nat)
  BY DEF TypeIInv, PacketTypes
<1>9. Exact(delivered, total[N], dropped) /\ NextRun(e, total[N], d, dropped)
  BY <1>3, <1>5, <1>6 DEF DeliveredFaithful, Exact, NextRun
<1>10. Exact(delivered \o e, total[N] + d + Len(e), dropped)
  BY <1>3, <1>6, <1>8, <1>9, Extended
<1>11. Exact(delivered', total'[N], dropped')
  BY <1>2, <1>4, <1>6, <1>7, <1>10
<1> QED BY <1>11 DEF DeliveredFaithful, Exact

\* When send() fails, the packets dropped before the segment are accounted for, the others are not.
LEMMA DeliveredError ==
    ASSUME TypeIInv, OutInv, StreamInv, DeliveredFaithful, OutputSendError
    PROVE  DeliveredFaithful'
<1>c. N \in Executors
  BY Constants
<1>1. PICK d \in 0 .. wCnt[N], o \in 0 .. wCnt[N] :
         IsSegment(d, o) /\ total' = [total EXCEPT ![N] = @ + d]
  BY DEF OutputSendError
<1>2. pc[N] = "send" /\ dropped' = dropped /\ delivered' = delivered
  BY DEF OutputSendError
<1>3. /\ d \in Nat /\ total[N] \in Nat
      /\ \A k \in 0 .. (d - 1) : total[N] + k \in dropped
  BY <1>1, <1>2, SegmentContent
<1>4. total'[N] = total[N] + d
  BY <1>1, <1>c DEF TypeIInv, IInv, JointTypes
<1>5. ASSUME NEW q \in (0 .. (total[N] + d - 1)) \ dropped PROVE q \in 0 .. (total[N] - 1)
  <2>1. CASE q >= total[N]
    <3>1. q - total[N] \in 0 .. (d - 1) /\ total[N] + (q - total[N]) = q
      BY <2>1, <1>3
    <3> QED BY <3>1, <1>3
  <2>2. CASE ~(q >= total[N])
    BY <2>2, <1>3
  <2> QED BY <2>1, <2>2
<1>6. (0 .. (total[N] + d - 1)) \ dropped = (0 .. (total[N] - 1)) \ dropped
  BY <1>3, <1>5
<1>7. (0 .. (total'[N] - 1)) \ dropped' = (0 .. (total[N] - 1)) \ dropped
  BY <1>2, <1>4, <1>6, <1>3
<1> QED BY <1>2, <1>7 DEF DeliveredFaithful

\* In each step, what the output plugin got remains exact.
LEMMA DeliveredStep ==
    ASSUME TypeIInv, OutInv, StreamInv, DeliveredFaithful, [Next]_vars
    PROVE  DeliveredFaithful'
<1>1. CASE WaitWork(N) \/ OutputCheck \/ OutputLimit \/ OutputPass
  <2>1. delivered' = delivered /\ dropped' = dropped /\ total' = total
    BY <1>1 DEF WaitWork, WaitWorkBlock, WaitWorkReturn, OutputCheck, OutputLimit, OutputPass,
                jtVars, histVars
  <2> QED BY <2>1 DEF DeliveredFaithful
<1> QED BY <1>1, OutputMine, DeliveredOther, DeliveredSend, DeliveredError DEF Output

\* When the threads start, the preloaded packets are at the base of the buffer.
LEMMA InitStream == Init => OutInv /\ StreamInv /\ DeliveredFaithful
<1> SUFFICES ASSUME Init PROVE OutInv /\ StreamInv /\ DeliveredFaithful
  OBVIOUS
<1>c. N \in Nat /\ N >= 1 /\ 0 \in Executors /\ N \in Executors /\ 0 # N /\ B \in Nat /\ B >= 2
  BY Constants
<1>1. PICK n \in 1 .. MinOf(B \div 2, StreamLength) :
         /\ InitAllBuffers(n)
         /\ buffer = [s \in Slots |-> [seq |-> IF s < n THEN s ELSE 0, st |-> "ok"]]
  BY DEF Init
<1>2. n \in 1 .. (B - 1)
  <2>1. B \div 2 \in Nat /\ B \div 2 <= B - 1 /\ StreamLength \in Nat
    BY <1>c, TspAssumption
  <2> QED BY <2>1, <1>c DEF MinOf
<1>3. /\ passed[0] = n /\ passed[N] = 0 /\ pktFirst[N] = 0 /\ total[N] = 0
      /\ pc[0] = "wait" /\ pc[N] = "wait" /\ outStop = "none" /\ delivered = <<>> /\ dropped = {}
  BY <1>1, <1>c DEF InitAllBuffers, Init
<1>4. OutInv
  BY <1>3 DEF OutInv
<1>5. ASSUME NEW q \in passed[N] .. (passed[0] - 1) PROVE Holds(SlotOf(q), q)
  <2>1. q \in 0 .. (n - 1) /\ q \in Slots /\ q < n
    BY <1>2, <1>3, <1>c
  <2>2. SlotOf(q) = q
    BY <2>1, <1>3, <1>c DEF SlotOf
  <2>3. buffer[q].seq = q /\ buffer[q].st = "ok"
    BY <2>1, <1>1
  <2> QED BY <2>2, <2>3, <1>3 DEF Holds
<1>6. StreamInv
  BY <1>3, <1>5 DEF StreamInv
<1>7. DeliveredFaithful
  BY <1>3 DEF DeliveredFaithful
<1> QED BY <1>4, <1>6, <1>7

\* The invariant of the ring and the content of the buffer hold in every reachable state.
THEOREM StreamCorrect == Spec => []StreamIInv
<1>1. Init => StreamIInv
  BY InitIInv, InitTypes, InitStream DEF TypeIInv, StreamIInv
<1>2. StreamIInv /\ [Next]_vars => StreamIInv'
  <2> SUFFICES ASSUME TypeIInv, OutInv, StreamInv, DeliveredFaithful, [Next]_vars
               PROVE  TypeIInv' /\ OutInv' /\ StreamInv' /\ DeliveredFaithful'
    BY DEF StreamIInv
  <2>1. TypeIInv'
    BY NextIInv, ControlStep, PacketStep DEF TypeIInv, IInv
  <2> QED BY <2>1, OutStep, StreamStep, DeliveredStep
<1> QED BY <1>1, <1>2, PTL DEF Spec

\* End to end: for every chain of processors, every buffer size and every behaviour of the
\* plugins, the output plugin gets exactly the packets which no processor dropped, in the order
\* of the input, none twice and none overwritten, up to what the output has accounted for.
THEOREM OutputFaithful == Spec => []DeliveredFaithful
<1>1. StreamIInv => DeliveredFaithful
  BY DEF StreamIInv
<1> QED BY <1>1, StreamCorrect, PTL

-----------------------------------------------------------------------------
(***************************************************************************)
(* How tsp ends: where joint termination stops the output, and that the    *)
(* output only ends when it has treated the whole input.                   *)
(***************************************************************************)
-----------------------------------------------------------------------------
(***************************************************************************)
(* Joint termination.                                                      *)
(***************************************************************************)
\* Packets which an executor has treated before it completes joint termination.
Counted(i) == passed[i] <= total[i] /\ (pc[i] \in Busy => passed[i] + flush[i] <= total[i])

CountInv ==
    /\ \A i \in Processors : Counted(i)
    /\ ~pluginCompleted => total[0] = passed[0] + (IF pc[0] = "pass" THEN flush[0] ELSE 0)

\* What joint termination has agreed on.
JointInv ==
    /\ jtRemaining = Cardinality(JTUsers) - Cardinality(jtCompleted)
    /\ JointTerminationAgreed =>
          /\ total[N] <= jtHighest
          /\ pc[N] \in {"send", "pass"} => passed[N] + wCnt[N] <= jtHighest
    /\ outStop = "joint" =>
          /\ JointTerminationAgreed
          /\ pc[N] \in {"send", "pass", "done"}
          /\ pc[N] \in {"send", "pass"} => wAbort[N] /\ passed[N] + wCnt[N] = jtHighest
          /\ pc[N] = "done" => total[N] = jtHighest

JointIInv == TypeIInv /\ OutInv /\ CountInv /\ JointInv

\* A plugin which completes is not the last one counted: one more of them has completed.
LEMMA JointCardinality ==
    ASSUME NEW C, C \subseteq JTUsers, NEW i \in JTUsers \ C
    PROVE  /\ Cardinality(JTUsers) \in Nat /\ Cardinality(C) \in Nat
           /\ Cardinality(C \cup {i}) = Cardinality(C) + 1
           /\ Cardinality(C) + 1 <= Cardinality(JTUsers)
<1>1. IsFiniteSet(0 .. N) /\ JTUsers \subseteq 0 .. N
  BY FS_Interval, Constants, RingAssumption
<1>2. IsFiniteSet(JTUsers)
  BY <1>1, FS_Subset
<1>3. IsFiniteSet(C)
  BY <1>2, FS_Subset
<1>4. Cardinality(JTUsers) \in Nat /\ Cardinality(C) \in Nat
  BY <1>2, <1>3, FS_CardinalityType
<1>5. Cardinality(C \cup {i}) = Cardinality(C) + 1
  BY <1>3, FS_AddElement
<1>6. C \cup {i} \subseteq JTUsers
  OBVIOUS
<1>7. Cardinality(C \cup {i}) <= Cardinality(JTUsers)
  BY <1>2, <1>6, FS_Subset
<1> QED BY <1>4, <1>5, <1>7

\* The counts of a processor after its own steps.
LEMMA ProcessorCounted ==
    ASSUME TypeIInv, NEW i \in Processors, Counted(i), WaitWork(i) \/ Processor(i)
    PROVE  Counted(i)'
<1>c. N \in Nat /\ i \in Executors /\ B \in Nat /\ i # 0 /\ i # N
  BY Constants
<1>r. RingIInv /\ JointTypes
  BY DEF TypeIInv, IInv
<1>f. /\ total \in [Executors -> Nat] /\ flush \in [Executors -> 0 .. B]
      /\ passed \in [Executors -> Nat] /\ pc \in [Executors -> Labels]
  BY <1>r DEF RingIInv, JointTypes, LocalTypes, WindowTypes
<1>t. total[i] \in Nat /\ flush[i] \in Nat /\ passed[i] \in Nat
  BY <1>f, <1>c
<1>1. CASE WaitWork(i)
  <2>1. pc[i] = "wait" /\ UNCHANGED <<windowVars, jtVars, procVars>>
    BY <1>1 DEF WaitWork, WaitWorkBlock, WaitWorkReturn
  <2>2. flush[i] = 0
    BY <2>1, <1>r, <1>c DEF RingIInv, LocalInv, Local
  <2>3. passed'[i] = passed[i] /\ total'[i] = total[i] /\ flush'[i] = 0
    BY <2>1, <2>2 DEF windowVars, jtVars, procVars
  <2> QED BY <2>3, <1>t DEF Counted
<1>2. CASE ProcessorGiveUp(i) \/ ProcessorEnd(i)
  <2>1. \E abort : PassPackets(i, 0, TRUE, abort, "done")
    BY <1>2 DEF ProcessorGiveUp, ProcessorEnd
  <2>2. passed'[i] = passed[i] + 0 /\ pc'[i] = "done"
    BY <2>1, <1>c, <1>f DEF PassPackets, Signalled
  <2>3. total' = total
    BY <1>2 DEF ProcessorGiveUp, ProcessorEnd, jtVars
  <2> QED BY <2>2, <2>3, <1>t DEF Counted, Busy
<1>3. CASE ProcessPacket(i)
  <2>1. /\ pc[i] = "work" /\ UNCHANGED windowVars /\ total' = [total EXCEPT ![i] = @ + 1]
    BY <1>3 DEF ProcessPacket
  <2>2. flush'[i] \in {flush[i], flush[i] + 1}
    BY <1>3, <1>c, <1>f DEF ProcessPacket
  <2>3. passed'[i] = passed[i] /\ total'[i] = total[i] + 1
    BY <2>1, <1>c, <1>f DEF windowVars
  <2>4. passed[i] + flush[i] <= total[i]
    BY <2>1 DEF Counted, Busy
  <2> QED BY <2>2, <2>3, <2>4, <1>t DEF Counted
<1>4. CASE ProcessorPass(i)
  <2>1. pc[i] = "pass" /\ flush' = [flush EXCEPT ![i] = 0] /\ total' = total
    BY <1>4 DEF ProcessorPass, jtVars
  <2>2. \E end, abort, next : PassPackets(i, flush[i], end, abort, next)
    BY <1>4 DEF ProcessorPass
  <2>3. passed'[i] = passed[i] + flush[i] /\ flush'[i] = 0
    BY <2>1, <2>2, <1>c, <1>f DEF PassPackets
  <2>4. passed[i] + flush[i] <= total[i]
    BY <2>1 DEF Counted, Busy
  <2> QED BY <2>1, <2>3, <2>4, <1>t DEF Counted
<1> QED BY <1>1, <1>2, <1>3, <1>4 DEF Processor

\* Until the end of its stream, the input has counted what it passed and what it will pass.
InputCounted ==
    ~pluginCompleted => total[0] = passed[0] + (IF pc[0] = "pass" THEN flush[0] ELSE 0)

\* The count of the input after its own steps.
LEMMA InputCounts ==
    ASSUME TypeIInv, InputCounted, WaitWork(0) \/ Input
    PROVE  InputCounted'
<1>c. N \in Nat /\ 0 \in Executors /\ B \in Nat
  BY Constants
<1>r. RingIInv /\ JointTypes /\ InputTypes
  BY DEF TypeIInv, IInv
<1>f. /\ total \in [Executors -> Nat] /\ flush \in [Executors -> 0 .. B]
      /\ passed \in [Executors -> Nat] /\ pc \in [Executors -> Labels]
  BY <1>r DEF RingIInv, JointTypes, LocalTypes, WindowTypes
<1>t. total[0] \in Nat /\ flush[0] \in Nat /\ passed[0] \in Nat
  BY <1>f, <1>c
<1>1. CASE WaitWork(0) \/ InputGiveUp
  <2>1. pc[0] \in {"wait", "work"} /\ UNCHANGED <<windowVars, jtVars, inputVars>>
    BY <1>1 DEF WaitWork, WaitWorkBlock, WaitWorkReturn, InputGiveUp
  <2>2. pc'[0] # "pass"
    BY <1>1, <1>c, <1>f DEF WaitWork, WaitWorkBlock, WaitWorkReturn, InputGiveUp
  <2>3. passed'[0] = passed[0] /\ total'[0] = total[0] /\ pluginCompleted' = pluginCompleted
    BY <2>1 DEF windowVars, jtVars, inputVars
  <2> QED BY <2>1, <2>2, <2>3, <1>t DEF InputCounted
<1>2. CASE InputReceive
  <2>1. PICK n \in IF pluginCompleted THEN {0} ELSE 0 .. MinOf(PktMax, StreamLength - received) :
           LET stuffed == IF n = 0 THEN MinOf(stopRemain, PktMax - n) ELSE 0
           IN /\ total' = [total EXCEPT ![0] = @ + n]
              /\ pluginCompleted' = (n = 0)
              /\ flush' = [flush EXCEPT ![0] = n + stuffed]
    BY <1>2 DEF InputReceive
  <2>2. n \in Nat
    BY <1>r, ReceiveBound
  <2>3. pc[0] = "work" /\ pc'[0] = "pass" /\ passed' = passed
    BY <1>2, <1>c, <1>f DEF InputReceive, windowVars
  <2>4. pluginCompleted' = (n = 0)
    BY <2>1
  <2>5. CASE n = 0
    BY <2>4, <2>5 DEF InputCounted
  <2>6. CASE n # 0
    <3>1. /\ ~pluginCompleted /\ total' = [total EXCEPT ![0] = @ + n]
          /\ flush' = [flush EXCEPT ![0] = n + 0]
      BY <2>1, <2>6
    <3>2. total'[0] = total[0] + n /\ flush'[0] = n
      BY <2>2, <3>1, <1>c, <1>f
    <3>3. total[0] = passed[0]
      BY <2>3, <3>1, <1>t DEF InputCounted
    <3>4. total'[0] = passed[0] + n
      BY <3>2, <3>3
    <3> QED BY <2>3, <3>2, <3>4, <1>t, <2>2 DEF InputCounted
  <2> QED BY <2>5, <2>6
<1>3. CASE InputPass
  <2>1. pc[0] = "pass" /\ total' = total /\ pluginCompleted' = pluginCompleted
    BY <1>3 DEF InputPass, jtVars, inputVars
  <2>2. passed'[0] = passed[0] + flush[0] /\ pc'[0] \in {"done", "wait"}
    BY <1>3, <1>c, <1>f DEF InputPass, PassPackets, Signalled
  <2> QED BY <2>1, <2>2, <1>t DEF InputCounted
<1> QED BY <1>1, <1>2, <1>3 DEF Input

\* Nobody else changes pluginCompleted.
LEMMA CompletedByInput ==
    ASSUME [Next]_vars, ~Input
    PROVE  pluginCompleted' = pluginCompleted
  BY DEF Next, Terminated, WaitWork, Processor, ProcessPacket, ProcessorGiveUp, ProcessorEnd,
         ProcessorPass, Output, OutputCheck, OutputLimit, OutputSend, OutputSendError, OutputPass,
         UserInterrupt, HandleInterrupt, vars, inputVars

\* In each step, the counts of the executors remain those of the packets they treated.
LEMMA CountStep ==
    ASSUME TypeIInv, CountInv, [Next]_vars
    PROVE  CountInv'
<1>c. N \in Nat /\ N >= 1 /\ 0 \in Executors /\ Processors \subseteq Executors /\ B \in Nat
      /\ 0 \notin Processors /\ N \notin Processors /\ 0 # N
  BY Constants
<1>f. \A i \in Executors : total[i] \in Nat /\ flush[i] \in Nat /\ passed[i] \in Nat
  BY <1>c DEF TypeIInv, IInv, RingIInv, JointTypes, LocalTypes, WindowTypes
<1>1. ASSUME NEW i \in Processors PROVE Counted(i)'
  <2>1. Counted(i) /\ i \in Executors
    BY <1>c DEF CountInv
  <2>2. CASE Mine(i)
    <3>1. WaitWork(i) \/ Processor(i)
      BY <2>2, <1>c DEF Mine
    <3> QED BY <3>1, <2>1, ProcessorCounted
  <2>3. CASE ~Mine(i)
    <3>1. Keeps(i)
      BY <2>1, <2>3, OthersKeep
    <3>2. /\ passed'[i] = passed[i] /\ total'[i] = total[i] /\ flush'[i] = flush[i]
          /\ pc'[i] \in Busy => pc[i] \in Busy
      BY <3>1 DEF Keeps, SameLocals, SamePlace, Busy
    <3> QED BY <3>2, <2>1, <1>f DEF Counted
  <2> QED BY <2>2, <2>3
<1>2. InputCounted
  BY DEF CountInv, InputCounted
<1>3. InputCounted'
  <2>1. CASE Mine(0)
    <3>1. WaitWork(0) \/ Input
      BY <2>1, <1>c DEF Mine
    <3> QED BY <3>1, <1>2, InputCounts
  <2>2. CASE ~Mine(0)
    <3>1. Keeps(0)
      BY <2>2, <1>c, OthersKeep
    <3>2. pluginCompleted' = pluginCompleted
      BY <2>2, CompletedByInput DEF Mine
    <3>3. passed'[0] = passed[0] /\ total'[0] = total[0] /\ flush'[0] = flush[0]
          /\ (pc'[0] = "pass" <=> pc[0] = "pass")
      BY <3>1 DEF Keeps, SameLocals, SamePlace
    <3> QED BY <3>2, <3>3, <1>2, <1>f, <1>c DEF InputCounted
  <2> QED BY <2>1, <2>2
<1> QED BY <1>1, <1>3 DEF CountInv, InputCounted

\* When jointTerminate() counts a plugin, the agreement is not yet reached; if it is reached now,
\* no packet after the highest one was sent, nor will be by what the output has in its hands.
LEMMA AgreementReached ==
    ASSUME TypeIInv, OutInv, JointInv, NEW i \in 0 .. (N - 1), NEW jt, passed[i] <= total[i],
           JointTerminate(i, jt), SameOutput
    PROVE  JointInv'
<1>c. N \in Nat /\ N >= 1 /\ i \in Executors /\ N - 1 \in Executors /\ i <= N - 1
      /\ N \in Executors /\ N # 0 /\ i # N
  BY Constants
<1>r. RingIInv /\ JointTypes /\ ControlTypes
  BY DEF TypeIInv, IInv
<1>t. /\ total[i] \in Nat /\ total[N] \in Nat /\ passed[N] \in Nat /\ wCnt[N] \in Nat
      /\ jtHighest \in Nat /\ pc[N] \in Labels
  BY <1>r, <1>c DEF RingIInv, JointTypes, LocalTypes, WindowTypes
<1>p. pc'[N] = pc[N] \/ (pc[N] = "blocked" /\ pc'[N] = "wait")
  BY DEF SameOutput, SamePlace
<1>1. CASE jt /\ i \in JTUsers \ jtCompleted
  <2>1. /\ jtCompleted' = jtCompleted \cup {i}
        /\ jtRemaining' = jtRemaining - 1
        /\ jtHighest' = MaxOf(jtHighest, total[i])
    BY <1>1 DEF JointTerminate
  <2>2. /\ Cardinality(JTUsers) \in Nat /\ Cardinality(jtCompleted) \in Nat
        /\ Cardinality(jtCompleted \cup {i}) = Cardinality(jtCompleted) + 1
        /\ Cardinality(jtCompleted) + 1 <= Cardinality(JTUsers)
    BY <1>1, <1>r, JointCardinality DEF ControlTypes
  <2>3. jtRemaining = Cardinality(JTUsers) - Cardinality(jtCompleted)
    BY DEF JointInv
  <2>4. jtRemaining' = Cardinality(JTUsers) - Cardinality(jtCompleted')
    BY <2>1, <2>2, <2>3
  <2>5. ~JointTerminationAgreed
    BY <2>2, <2>3 DEF JointTerminationAgreed
  <2>6. outStop # "joint" /\ outStop' = outStop
    BY <2>5 DEF JointInv, SameOutput
  <2>7. jtHighest' \in Nat /\ jtHighest' >= total[i]
    BY <2>1, <1>t DEF MaxOf
  <2>8. passed[N - 1] <= passed[i] /\ passed[i] \in Nat /\ passed[N - 1] \in Nat
    BY <1>c, <1>r, PassedOrder
  <2>9. total[N] <= passed[N - 1] /\ (pc[N] \in Busy => passed[N] + wCnt[N] <= passed[N - 1])
    BY OutBound
  <2>10. PICK h : h = jtHighest'
    OBVIOUS
  <2>11. total[N] <= h /\ (pc[N] \in Busy => passed[N] + wCnt[N] <= h)
    BY <2>7, <2>8, <2>9, <2>10, <1>t
  <2>12. total'[N] = total[N] /\ passed'[N] = passed[N] /\ wCnt'[N] = wCnt[N]
    BY DEF SameOutput
  <2>13. total'[N] <= jtHighest' /\ (pc'[N] \in {"send", "pass"} => passed'[N] + wCnt'[N] <= jtHighest')
    BY <2>10, <2>11, <2>12, <1>p DEF Busy
  <2> QED BY <2>4, <2>6, <2>13 DEF JointInv
<1>2. CASE ~(jt /\ i \in JTUsers \ jtCompleted)
  <2>1. UNCHANGED <<jtCompleted, jtRemaining, jtHighest>>
    BY <1>2 DEF JointTerminate
  <2>2. JointTerminationAgreed' <=> JointTerminationAgreed
    BY <2>1 DEF JointTerminationAgreed
  <2> QED BY <2>1, <2>2, <1>p DEF JointInv, SameOutput
<1> QED BY <1>1, <1>2

\* The output stops at the highest packet of the agreement.
LEMMA OutputAgreed ==
    ASSUME TypeIInv, OutInv, OutInv', JointInv, WaitWork(N) \/ Output
    PROVE  JointInv'
<1>c. N \in Nat /\ N >= 1 /\ N \in Executors
  BY Constants
<1>r. RingIInv /\ JointTypes /\ ControlTypes
  BY DEF TypeIInv, IInv
<1>f. /\ total \in [Executors -> Nat] /\ done \in [Executors -> 0 .. B]
      /\ wCnt \in [Executors -> 0 .. B] /\ wAbort \in [Executors -> BOOLEAN]
      /\ pc \in [Executors -> Labels] /\ passed \in [Executors -> Nat]
  BY <1>r DEF RingIInv, JointTypes, LocalTypes, FlagTypes, WindowTypes
<1>t. /\ total[N] \in Nat /\ passed[N] \in Nat /\ wCnt[N] \in Nat /\ done[N] \in Nat
      /\ jtHighest \in Nat /\ pc[N] \in Labels
  BY <1>f, <1>c, <1>r, Constants DEF JointTypes
<1>j. jtCompleted' = jtCompleted /\ jtRemaining' = jtRemaining /\ jtHighest' = jtHighest
  BY DEF WaitWork, WaitWorkBlock, WaitWorkReturn, Output, OutputCheck, OutputLimit, OutputSend,
         OutputSendError, OutputPass, jtVars
<1>a. JointTerminationAgreed' <=> JointTerminationAgreed
  BY <1>j DEF JointTerminationAgreed
<1>1. CASE WaitWork(N) \/ OutputCheck
  <2>1. pc[N] \in {"wait", "work"} /\ total' = total /\ outStop # "joint"
    BY <1>1 DEF WaitWork, WaitWorkBlock, WaitWorkReturn, OutputCheck, jtVars, JointInv
  <2>2. pc'[N] \in {"blocked", "work", "limit", "done"}
    BY <1>1, <1>c, <1>f DEF WaitWork, WaitWorkBlock, WaitWorkReturn, OutputCheck
  <2>3. outStop' # "joint"
    BY <1>1, <2>1 DEF WaitWork, OutputCheck, histVars
  <2> QED BY <2>1, <2>2, <2>3, <1>j, <1>a DEF JointInv
<1>2. CASE OutputLimit
  <2>1. /\ pc[N] = "limit" /\ UNCHANGED <<windowVars, jtVars>>
        /\ wCnt'[N] = LimitedCnt /\ wAbort'[N] = (wAbort[N] \/ OverLimit)
        /\ pc'[N] \in {"pass", "send"}
        /\ outStop' = IF OverLimit THEN "joint" ELSE outStop
    BY <1>2, <1>c, <1>f DEF OutputLimit
  <2>2. total'[N] = total[N] /\ passed'[N] = passed[N] /\ total[N] = passed[N]
    BY <2>1 DEF windowVars, jtVars, OutInv
  <2>3. outStop # "joint"
    BY <2>1 DEF JointInv
  <2>4. CASE OverLimit
    <3>1. JointTerminationAgreed /\ total[N] <= jtHighest
      BY <2>4 DEF OverLimit, JointInv
    <3>2. LimitedCnt = jtHighest - total[N]
      BY <2>4, <3>1, <1>t DEF LimitedCnt
    <3>3. passed[N] + LimitedCnt = jtHighest
      BY <2>2, <3>2, <1>t
    <3>4. passed'[N] + wCnt'[N] = jtHighest
      BY <2>1, <2>2, <3>3
    <3>5. wAbort'[N]
      BY <2>1, <2>4
    <3>6. passed'[N] + wCnt'[N] <= jtHighest /\ total'[N] <= jtHighest
      BY <3>1, <3>4, <2>2, <1>t
    <3> QED BY <2>1, <3>1, <3>4, <3>5, <3>6, <1>j, <1>a DEF JointInv
  <2>5. CASE ~OverLimit
    <3>1. LimitedCnt = wCnt[N] /\ outStop' # "joint"
      BY <2>1, <2>3, <2>5 DEF LimitedCnt
    <3>2. JointTerminationAgreed => passed[N] + wCnt[N] <= jtHighest
      BY <2>2, <2>5, <1>t DEF OverLimit
    <3>3. passed'[N] + wCnt'[N] = passed[N] + wCnt[N]
      BY <2>1, <2>2, <3>1
    <3> QED BY <2>2, <3>1, <3>2, <3>3, <1>j, <1>a DEF JointInv
  <2> QED BY <2>4, <2>5
<1>3. CASE OutputSend \/ OutputSendError
  <2>1. /\ pc[N] = "send" /\ passed' = passed /\ wCnt' = wCnt
        /\ pc'[N] \in {"send", "pass"}
    BY <1>3, <1>c, <1>f DEF OutputSend, OutputSendError, windowVars, localVars
  <2>2. outStop' = "send" \/ (outStop' = outStop /\ wAbort' = wAbort)
    BY <1>3 DEF OutputSend, OutputSendError, localVars
  <2>3. done'[N] <= wCnt'[N] /\ done'[N] \in Nat
    <3>1. CASE OutputSend
      <4>1. PICK d \in 0 .. wCnt[N], o \in 0 .. wCnt[N] :
               IsSegment(d, o) /\ done' = [done EXCEPT ![N] = @ + d + o]
        BY <3>1 DEF OutputSend
      <4>2. d \in Nat /\ o \in Nat /\ done[N] + d + o <= wCnt[N]
        BY <4>1, <1>r, SegmentBound
      <4>3. done'[N] = done[N] + d + o
        BY <4>1, <1>c, <1>f
      <4> QED BY <4>2, <4>3, <2>1, <1>t
    <3>2. CASE OutputSendError
      <4>1. done' = done /\ done[N] <= wCnt[N]
        BY <3>2, <2>1, <1>r, <1>c DEF OutputSendError, procVars, RingIInv, LocalInv, Local, Busy
      <4> QED BY <4>1, <2>1, <1>t
    <3> QED BY <1>3, <3>1, <3>2
  <2>4. total'[N] <= passed[N] + wCnt[N]
    <3>1. PICK u : u = done'[N]
      OBVIOUS
    <3>2. u \in Nat /\ passed[N] + u <= passed[N] + wCnt[N]
      BY <2>1, <2>3, <3>1, <1>t
    <3>3. \/ total'[N] = passed[N] + u
          \/ total'[N] = passed[N] + wCnt[N]
          \/ total'[N] \in passed[N] .. (passed[N] + wCnt[N])
      BY <2>1, <3>1 DEF OutInv
    <3> QED BY <3>2, <3>3, <1>t
  <2>5. JointTerminationAgreed => passed[N] + wCnt[N] <= jtHighest
    BY <2>1 DEF JointInv
  <2>6. PICK v : v = total'[N]
    OBVIOUS
  <2>7. v \in Nat
    <3>1. JointTypes'
      BY <1>3, JointStep DEF Next, Output, TypeIInv, IInv
    <3> QED BY <3>1, <2>6, <1>c DEF JointTypes
  <2>8. JointTerminationAgreed => total'[N] <= jtHighest
    BY <2>4, <2>5, <2>6, <2>7, <1>t
  <2>9. outStop' = "joint" =>
           JointTerminationAgreed /\ wAbort'[N] /\ passed[N] + wCnt[N] = jtHighest
    BY <2>1, <2>2 DEF JointInv
  <2> QED BY <2>1, <2>5, <2>8, <2>9, <1>j, <1>a DEF JointInv
<1>4. CASE OutputPass
  <2>1. /\ pc[N] = "pass" /\ outStop' = outStop /\ total' = total
        /\ PassPackets(N, wCnt[N], FALSE, wAbort[N],
                       IF MustStop(N, FALSE, wAbort[N]) THEN "done" ELSE "wait")
    BY <1>4 DEF OutputPass, histVars, jtVars
  <2>2. pc'[N] = IF MustStop(N, FALSE, wAbort[N]) THEN "done" ELSE "wait"
    BY <2>1, <1>c DEF PassPackets, Signalled
  <2>3. outStop = "joint" => wAbort[N] /\ passed[N] + wCnt[N] = jtHighest /\ JointTerminationAgreed
    BY <2>1 DEF JointInv
  <2>4. wAbort[N] => pc'[N] = "done"
    BY <2>2 DEF MustStop, PassAborts
  <2>5. outStop = "joint" => total[N] = passed[N] + wCnt[N]
    BY <2>1 DEF OutInv
  <2>6. pc'[N] \in {"done", "wait"}
    BY <2>2
  <2>7. JointTerminationAgreed => total[N] <= jtHighest
    BY DEF JointInv
  <2> QED BY <2>1, <2>3, <2>4, <2>5, <2>6, <2>7, <1>j, <1>a DEF JointInv
<1> QED BY <1>1, <1>2, <1>3, <1>4 DEF Output

\* In each step, the agreement and the output remain consistent.
LEMMA AgreementStep ==
    ASSUME TypeIInv, OutInv, CountInv, JointInv, [Next]_vars
    PROVE  JointInv'
<1>c. N \in Nat /\ N >= 1 /\ N \in Executors /\ 0 \in Executors /\ 0 \in 0 .. (N - 1)
      /\ Processors \subseteq 0 .. (N - 1)
  BY Constants
<1>1. CASE Mine(N)
  BY <1>1, OutputMine, OutStep, OutputAgreed
<1>2. CASE ~Mine(N)
  <2>1. SameOutput
    BY <1>2, OthersKeepOutput
  <2>2. CASE InputReceive
    <3>1. PICK n, jt : JointTerminate(0, jt) /\ (pluginCompleted => ~jt)
      BY <2>2 DEF InputReceive
    <3>2. CASE pluginCompleted
      <4>1. JointTerminate(0, FALSE) /\ jtCompleted' = jtCompleted /\ jtRemaining' = jtRemaining
            /\ jtHighest' = jtHighest
        BY <3>1, <3>2 DEF JointTerminate
      <4>2. (JointTerminationAgreed' <=> JointTerminationAgreed)
        BY <4>1 DEF JointTerminationAgreed
      <4> QED BY <4>1, <4>2, <2>1 DEF JointInv, SameOutput, SamePlace
    <3>3. CASE ~pluginCompleted
      <4>1. pc[0] = "work"
        BY <2>2 DEF InputReceive
      <4>2. passed[0] \in Nat /\ total[0] = passed[0] + 0
        BY <4>1, <3>3, <1>c DEF CountInv, TypeIInv, IInv, RingIInv, WindowTypes
      <4>3. passed[0] <= total[0]
        BY <4>2
      <4> QED BY <4>3, <3>1, <2>1, <1>c, AgreementReached
    <3> QED BY <3>2, <3>3
  <2>3. ASSUME NEW i \in Processors, ProcessPacket(i) PROVE JointInv'
    <3>1. \E jt : JointTerminate(i, jt)
      BY <2>3 DEF ProcessPacket
    <3>2. passed[i] <= total[i]
      BY DEF CountInv, Counted
    <3>3. i \in 0 .. (N - 1)
      BY <1>c
    <3> QED BY <3>1, <3>2, <3>3, <2>1, AgreementReached
  <2>4. CASE jtCompleted' = jtCompleted /\ jtRemaining' = jtRemaining /\ jtHighest' = jtHighest
    <3>1. JointTerminationAgreed' <=> JointTerminationAgreed
      BY <2>4 DEF JointTerminationAgreed
    <3> QED BY <2>4, <3>1, <2>1 DEF JointInv, SameOutput, SamePlace
  <2>5. \/ InputReceive
        \/ \E i \in Processors : ProcessPacket(i)
        \/ jtCompleted' = jtCompleted /\ jtRemaining' = jtRemaining /\ jtHighest' = jtHighest
    BY <1>2 DEF Mine, Next, Terminated, WaitWork, WaitWorkBlock, WaitWorkReturn, Input, InputGiveUp,
                InputPass, Processor, ProcessorGiveUp, ProcessorEnd, ProcessorPass, UserInterrupt,
                HandleInterrupt, SetAbort, vars, jtVars
  <2> QED BY <2>2, <2>3, <2>4, <2>5
<1> QED BY <1>1, <1>2

\* No packet is counted but the preloaded ones when the threads start.
LEMMA InitJoint == Init => CountInv /\ JointInv
<1> SUFFICES ASSUME Init PROVE CountInv /\ JointInv
  OBVIOUS
<1>c. N \in Nat /\ N >= 1 /\ 0 \in Executors /\ N \in Executors /\ 0 # N /\ 0 \notin Processors
      /\ Processors \subseteq Executors
  BY Constants
<1>1. PICK n \in 1 .. MinOf(B \div 2, StreamLength) : InitAllBuffers(n)
  BY DEF Init
<1>n. n \in Nat
  BY Constants, TspAssumption DEF MinOf
<1>2. /\ total[0] = n /\ passed[0] = n /\ total[N] = 0
      /\ \A i \in Processors : passed[i] = 0 /\ total[i] = 0
      /\ \A i \in Executors : pc[i] = "wait"
      /\ jtHighest = 0 /\ jtRemaining = Cardinality(JTUsers) - Cardinality(jtCompleted)
  BY <1>1, <1>c DEF InitAllBuffers
<1>3. outStop = "none"
  BY DEF Init
<1>4. CountInv
  BY <1>2, <1>n, <1>c DEF CountInv, Counted, Busy
<1>5. JointInv
  BY <1>2, <1>3, <1>c DEF JointInv
<1> QED BY <1>4, <1>5

\* Once all the plugins which use joint termination have completed, the output never goes past
\* the highest packet they agreed on, whatever the processors and the output had in progress,
\* and it stops exactly there.
THEOREM JointStopExact == Spec => []JointTerminationExact
<1>1. Init => JointIInv
  BY InitIInv, InitTypes, InitStream, InitJoint DEF TypeIInv, JointIInv
<1>2. JointIInv /\ [Next]_vars => JointIInv'
  <2> SUFFICES ASSUME TypeIInv, OutInv, CountInv, JointInv, [Next]_vars
               PROVE  TypeIInv' /\ OutInv' /\ CountInv' /\ JointInv'
    BY DEF JointIInv
  <2>1. TypeIInv'
    BY NextIInv, ControlStep, PacketStep DEF TypeIInv, IInv
  <2> QED BY <2>1, OutStep, CountStep, AgreementStep
<1>3. JointIInv => JointTerminationExact
  BY DEF JointIInv, JointInv, JointTerminationExact
<1> QED BY <1>1, <1>2, <1>3, PTL DEF Spec

-----------------------------------------------------------------------------
(***************************************************************************)
(* The end of a stream which nothing interrupts.                           *)
(***************************************************************************)
\* No interrupt, no output error and no joint termination so far.
Quiet == intrAt = -1 /\ outStop \notin {"send", "joint"}

\* No executor has been aborted.
NoAbort == \A i \in Executors : ~aborting[i] /\ (pc[i] # "done" => ~wAbort[i])

\* What the thread has in its hands is the whole window of executor j, and the end of its input.
LastPart(j) ==
    /\ inputEnd[j]
    /\ j \in Processors => wCnt[j] - done[j] + flush[j] = pktCnt[j]
    /\ j = N => wCnt[j] = pktCnt[j]

LastInv ==
    /\ \A j \in Processors : pc[j] \in Busy /\ wEnd[j] => LastPart(j)
    /\ pc[N] = "work" /\ wEnd[N] => LastPart(N)

\* When an executor has left its loop, so have all those before it, and they passed no more.
DoneInv ==
    \A i, j \in Executors : i <= j /\ pc[j] = "done" => pc[i] = "done" /\ passed[i] = passed[j]

QuietInv == Quiet => NoAbort /\ LastInv /\ DoneInv

QuietIInv == TypeIInv /\ OutInv /\ QuietInv

\* A run which is quiet has always been.
LEMMA QuietBefore ==
    ASSUME TypeIInv, OutInv, [Next]_vars, Quiet'
    PROVE  Quiet
<1>1. intrAt = -1
  <2>1. CASE intrAt' = intrAt
    BY <2>1 DEF Quiet
  <2>2. CASE UserInterrupt \/ HandleInterrupt
    <3>1. intrAt' # -1
      BY <2>2, Constants DEF UserInterrupt, HandleInterrupt
    <3> QED BY <3>1 DEF Quiet
  <2>3. intrAt' = intrAt \/ UserInterrupt \/ HandleInterrupt
    BY DEF Next, Terminated, WaitWork, Input, InputGiveUp, InputReceive, InputPass, Processor,
           ProcessPacket, ProcessorGiveUp, ProcessorEnd, ProcessorPass, Output, OutputCheck,
           OutputLimit, OutputSend, OutputSendError, OutputPass, vars
  <2> QED BY <2>1, <2>2, <2>3
<1>2. outStop \notin {"send", "joint"}
  <2>1. CASE Mine(N)
    <3>1. CASE OutputCheck \/ OutputLimit
      BY <3>1 DEF OutputCheck, OutputLimit, OutInv
    <3>2. CASE WaitWork(N) \/ OutputSend \/ OutputSendError \/ OutputPass
      BY <3>2 DEF WaitWork, OutputSend, OutputSendError, OutputPass, histVars, Quiet
    <3> QED BY <2>1, <3>1, <3>2, OutputMine DEF Output
  <2>2. CASE ~Mine(N)
    BY <2>2, OthersKeepOutput DEF SameOutput, Quiet
  <2> QED BY <2>1, <2>2
<1> QED BY <1>1, <1>2 DEF Quiet

\* passPackets without abort aborts nobody when nobody is aborted.
LEMMA PassNoAbort ==
    ASSUME TypeIInv, NoAbort, NEW i \in Executors, NEW count, NEW end, NEW abort, NEW next, ~abort,
           PassPackets(i, count, end, abort, next)
    PROVE  /\ \A j \in Executors : ~aborting'[j]
           /\ ~PassAborts(i, abort)
<1>1. RingNext(i) \in Executors
  BY Constants DEF RingNext
<1>2. ~PassAborts(i, abort)
  BY <1>1 DEF PassAborts, NoAbort
<1>3. aborting' = [aborting EXCEPT ![i] = aborting[i] \/ PassAborts(i, abort)]
  BY DEF PassPackets
<1>4. ASSUME NEW j \in Executors PROVE ~aborting'[j]
  BY <1>2, <1>3 DEF NoAbort, TypeIInv, IInv, RingIInv, FlagTypes
<1> QED BY <1>2, <1>4

\* Nobody is aborted in a step of a quiet run whose processors do not end the stream.
LEMMA NoAbortStep ==
    ASSUME "END" \notin Statuses, TypeIInv, OutInv, NoAbort, Quiet', [Next]_vars
    PROVE  NoAbort'
<1>c. N \in Nat /\ N >= 1 /\ N \in Executors /\ 0 \in Executors /\ 0 # N
      /\ Processors \subseteq Executors /\ 0 \notin Processors /\ N \notin Processors
  BY Constants
<1>f. /\ wAbort \in [Executors -> BOOLEAN] /\ aborting \in [Executors -> BOOLEAN]
      /\ pc \in [Executors -> Labels]
  BY DEF TypeIInv, IInv, RingIInv, LocalTypes, FlagTypes
<1>1. ASSUME NEW j \in Executors PROVE ~aborting'[j]
  <2>1. CASE aborting' = aborting
    BY <2>1 DEF NoAbort
  <2>2. CASE InputPass
    <3>1. \E end, next : PassPackets(0, flush[0], end, FALSE, next)
      BY <2>2 DEF InputPass
    <3> QED BY <3>1, <1>c, PassNoAbort
  <2>3. ASSUME NEW i \in Processors, ProcessorGiveUp(i) PROVE FALSE
    BY <2>3, <1>c DEF ProcessorGiveUp, NoAbort
  <2>4. ASSUME NEW i \in Processors, ProcessorEnd(i) PROVE ~aborting'[j]
    <3>1. PassPackets(i, 0, TRUE, FALSE, "done") /\ i \in Executors
      BY <2>4, <1>c DEF ProcessorEnd
    <3> QED BY <3>1, PassNoAbort
  <2>5. ASSUME NEW i \in Processors, ProcessorPass(i) PROVE ~aborting'[j]
    <3>1. pc[i] = "pass" /\ i \in Executors
      BY <2>5, <1>c DEF ProcessorPass
    <3>2. \E end, next : PassPackets(i, flush[i], end, wAbort[i], next)
      BY <2>5 DEF ProcessorPass
    <3>3. ~wAbort[i]
      BY <3>1 DEF NoAbort
    <3> QED BY <3>1, <3>2, <3>3, PassNoAbort
  <2>6. CASE OutputPass
    <3>1. pc[N] = "pass"
      BY <2>6 DEF OutputPass
    <3>2. \E end, next : PassPackets(N, wCnt[N], end, wAbort[N], next)
      BY <2>6 DEF OutputPass
    <3>3. ~wAbort[N]
      BY <3>1, <1>c DEF NoAbort
    <3> QED BY <3>2, <3>3, <1>c, PassNoAbort
  <2>7. CASE HandleInterrupt
    <3>1. intrAt' # -1
      BY <2>7, Constants DEF HandleInterrupt
    <3> QED BY <3>1 DEF Quiet
  <2>8. \/ aborting' = aborting \/ InputPass \/ OutputPass \/ HandleInterrupt
        \/ \E i \in Processors : ProcessorGiveUp(i) \/ ProcessorEnd(i) \/ ProcessorPass(i)
    BY DEF Next, Terminated, WaitWork, WaitWorkBlock, WaitWorkReturn, Input, InputGiveUp,
           InputReceive, Processor, ProcessPacket, Output, OutputCheck, OutputLimit, OutputSend,
           OutputSendError, UserInterrupt, vars, windowVars
  <2> QED BY <2>1, <2>2, <2>3, <2>4, <2>5, <2>6, <2>7, <2>8
<1>2. ASSUME NEW j \in Executors, pc'[j] # "done" PROVE ~wAbort'[j]
  <2>1. CASE ~Mine(j)
    <3>1. wAbort'[j] = wAbort[j] /\ SamePlace(j)
      BY <2>1, OthersKeep DEF Keeps
    <3>2. pc[j] # "done"
      BY <3>1, <1>2 DEF SamePlace
    <3> QED BY <3>1, <3>2 DEF NoAbort
  <2>2. CASE WaitWork(j)
    <3>1. pc[j] = "wait" /\ wAbort'[j] \in {wAbort[j], aborting[RingNext(j)]}
      BY <2>2, <1>f DEF WaitWork, WaitWorkBlock, WaitWorkReturn, localVars
    <3>2. RingNext(j) \in Executors
      BY Constants DEF RingNext
    <3>3. ~wAbort[j] /\ ~aborting[RingNext(j)]
      BY <3>1, <3>2 DEF NoAbort
    <3> QED BY <3>1, <3>3
  <2>3. CASE j = 0 /\ Input
    <3>1. wAbort' = wAbort /\ pc[0] # "done"
      BY <2>3 DEF Input, InputGiveUp, InputReceive, InputPass, localVars
    <3> QED BY <2>3, <3>1 DEF NoAbort
  <2>4. CASE j \in Processors /\ Processor(j)
    <3>1. CASE ProcessorGiveUp(j) \/ ProcessorEnd(j)
      <4>1. wAbort' = wAbort /\ pc[j] # "done"
        BY <3>1 DEF ProcessorGiveUp, ProcessorEnd, localVars
      <4> QED BY <4>1 DEF NoAbort
    <3>2. CASE ProcessPacket(j)
      <4>1. PICK status \in Statuses \cup {"OK"} : wAbort' = [wAbort EXCEPT ![j] = (status = "END")]
        BY <3>2 DEF ProcessPacket
      <4>2. status # "END"
        OBVIOUS
      <4> QED BY <4>1, <4>2, <1>f
    <3>3. CASE ProcessorPass(j)
      <4> DEFINE end  == done[j] = wCnt[j] /\ wEnd[j]
                 stop == MustStop(j, end, wAbort[j])
                 more == done[j] < wCnt[j] /\ ~stop
      <4>1. /\ PassPackets(j, flush[j], end, wAbort[j],
                            IF more THEN "work" ELSE IF stop THEN "done" ELSE "wait")
            /\ wAbort' = [wAbort EXCEPT ![j] = stop]
        BY <3>3 DEF ProcessorPass
      <4>2. pc'[j] = IF more THEN "work" ELSE IF stop THEN "done" ELSE "wait"
        BY <4>1 DEF PassPackets, Signalled
      <4>3. ~stop
        BY <4>2, <1>2
      <4> HIDE DEF end, stop, more
      <4>4. wAbort'[j] = stop
        BY <4>1, <1>f
      <4> QED BY <4>3, <4>4
    <3> QED BY <2>4, <3>1, <3>2, <3>3 DEF Processor
  <2>5. CASE j = N /\ Output
    <3>1. CASE OutputCheck
      <4>1. wAbort'[N] = aborting[N]
        BY <3>1, <1>c, <1>f DEF OutputCheck
      <4> QED BY <4>1, <2>5 DEF NoAbort
    <3>2. CASE OutputLimit
      <4>1. pc[N] = "limit" /\ wAbort'[N] = (wAbort[N] \/ OverLimit) /\ (OverLimit => outStop' = "joint")
        BY <3>2, <1>c, <1>f DEF OutputLimit
      <4>2. ~OverLimit /\ ~wAbort[N]
        BY <4>1, <1>c DEF Quiet, NoAbort
      <4> QED BY <4>1, <4>2, <2>5
    <3>3. CASE OutputSend \/ OutputPass
      <4>1. wAbort' = wAbort /\ pc[N] # "done"
        BY <3>3 DEF OutputSend, OutputPass, localVars
      <4> QED BY <4>1, <2>5 DEF NoAbort
    <3>4. CASE OutputSendError
      BY <3>4 DEF OutputSendError, Quiet
    <3> QED BY <2>5, <3>1, <3>2, <3>3, <3>4 DEF Output
  <2> QED BY <2>1, <2>2, <2>3, <2>4, <2>5 DEF Mine
<1> QED BY <1>1, <1>2 DEF NoAbort

\* The end of input, once signalled to an executor, remains.
LEMMA EndKept ==
    ASSUME TypeIInv, [Next]_vars, NEW j \in Executors, inputEnd[j]
    PROVE  inputEnd'[j]
<1>1. ASSUME NEW i, NEW count, NEW end, NEW abort, NEW next, PassPackets(i, count, end, abort, next)
      PROVE  inputEnd'[j]
  BY <1>1 DEF PassPackets, TypeIInv, IInv, RingIInv, FlagTypes
<1>2. CASE inputEnd' = inputEnd
  BY <1>2
<1>3. \/ inputEnd' = inputEnd
      \/ \E i, count, end, abort, next : PassPackets(i, count, end, abort, next)
  <2>1. CASE InputPass \/ OutputPass
    BY <2>1 DEF InputPass, OutputPass
  <2>2. ASSUME NEW i \in Processors, ProcessorGiveUp(i) \/ ProcessorEnd(i) \/ ProcessorPass(i)
        PROVE  \E k, count, end, abort, next : PassPackets(k, count, end, abort, next)
    BY <2>2 DEF ProcessorGiveUp, ProcessorEnd, ProcessorPass
  <2>3. \/ inputEnd' = inputEnd \/ InputPass \/ OutputPass
        \/ \E i \in Processors : ProcessorGiveUp(i) \/ ProcessorEnd(i) \/ ProcessorPass(i)
    BY DEF Next, Terminated, WaitWork, WaitWorkBlock, WaitWorkReturn, Input, InputGiveUp,
           InputReceive, Processor, ProcessPacket, Output, OutputCheck, OutputLimit, OutputSend,
           OutputSendError, UserInterrupt, HandleInterrupt, SetAbort, vars, windowVars
  <2> QED BY <2>1, <2>2, <2>3
<1> QED BY <1>1, <1>2, <1>3

\* A thread which has left its loop does not come back.
LEMMA DoneStays ==
    ASSUME TypeIInv, [Next]_vars, NEW i \in Executors, pc[i] = "done"
    PROVE  pc'[i] = "done" /\ passed'[i] = passed[i]
<1>1. ~Mine(i)
  BY DEF Mine, WaitWork, WaitWorkBlock, WaitWorkReturn, Input, InputGiveUp, InputReceive, InputPass,
         Processor, ProcessPacket, ProcessorGiveUp, ProcessorEnd, ProcessorPass,
         Output, OutputCheck, OutputLimit, OutputSend, OutputSendError, OutputPass
<1> QED BY <1>1, OthersKeep DEF Keeps, SamePlace

\* After the end of input, nothing is added to the window of an executor.
LEMMA WindowClosed ==
    ASSUME TypeIInv, [Next]_vars, NEW j \in 1 .. N, inputEnd[j], ~Mine(j)
    PROVE  pktCnt'[j] = pktCnt[j]
<1>c. N \in Nat /\ j \in Executors /\ j - 1 \in Executors \ {N} /\ (j - 1) + 1 = j
  BY Constants
<1>1. pc[j - 1] = "done"
  BY <1>c DEF TypeIInv, IInv, RingIInv, EndInv
<1>2. passed'[j - 1] = passed[j - 1]
  BY <1>1, <1>c, DoneStays
<1>3. passed'[j] = passed[j]
  BY <1>c, OthersKeep DEF Keeps
<1>4. pktCnt[j] = passed[j - 1] - passed[j]
  BY DEF TypeIInv, IInv, RingIInv, RingInv, Ahead
<1>5. RingInv'
  BY NextIInv DEF TypeIInv, IInv, RingIInv
<1>6. pktCnt'[j] = passed'[j - 1] - passed'[j]
  BY <1>5 DEF RingInv, Ahead
<1> QED BY <1>2, <1>3, <1>4, <1>6

\* An executor which got the end of input from waitWork still has its last packets in its hands.
LEMMA LastStep ==
    ASSUME "END" \notin Statuses, TypeIInv, LastInv, [Next]_vars
    PROVE  LastInv'
<1>c. N \in Nat /\ N >= 1 /\ N \in Executors /\ N \in 1 .. N /\ B \in Nat
      /\ Processors \subseteq Executors /\ Processors \subseteq 1 .. N
      /\ 0 \notin Processors /\ N \notin Processors /\ 0 # N
  BY Constants
<1>r. RingIInv
  BY DEF TypeIInv, IInv
<1>f. /\ wCnt \in [Executors -> 0 .. B] /\ done \in [Executors -> 0 .. B]
      /\ flush \in [Executors -> 0 .. B] /\ pc \in [Executors -> Labels]
      /\ wEnd \in [Executors -> BOOLEAN] /\ pktCnt \in [Executors -> 0 .. B]
      /\ wFirst \in [Executors -> Slots]
  BY <1>r DEF RingIInv, LocalTypes, FlagTypes, WindowTypes
<1>k. ASSUME NEW j \in 1 .. N, ~Mine(j), LastPart(j) PROVE LastPart(j)'
  <2>1. j \in Executors /\ inputEnd[j]
    BY <1>k, <1>c DEF LastPart
  <2>2. inputEnd'[j] /\ pktCnt'[j] = pktCnt[j]
    BY <2>1, <1>k, EndKept, WindowClosed
  <2>3. wCnt'[j] = wCnt[j] /\ done'[j] = done[j] /\ flush'[j] = flush[j]
    BY <2>1, <1>k, OthersKeep DEF Keeps, SameLocals
  <2> QED BY <2>2, <2>3, <1>k DEF LastPart
<1>w. ASSUME NEW j \in 1 .. N, WaitWork(j), pc'[j] \in Busy, wEnd'[j] PROVE LastPart(j)'
  <2>0. j \in Executors
    BY <1>c
  <2>1. WaitWorkReturn(j)
    BY <1>w, <2>0, <1>f DEF WaitWork, WaitWorkBlock, Busy
  <2>2. /\ pc[j] = "wait" /\ UNCHANGED windowVars /\ wCnt'[j] = ContiguousCnt(j)
        /\ wEnd'[j] = IsLastPart(j)
    BY <2>0, <2>1, <1>f DEF WaitWorkReturn
  <2>3. inputEnd[j] /\ ContiguousCnt(j) = pktCnt[j]
    BY <2>2, <1>w DEF IsLastPart
  <2>4. UNCHANGED procVars /\ done[j] = 0 /\ flush[j] = 0
    BY <2>0, <2>2, <1>w, <1>r DEF WaitWork, RingIInv, LocalInv, Local
  <2>5. /\ inputEnd'[j] /\ pktCnt'[j] = pktCnt[j] /\ wCnt'[j] = pktCnt[j]
        /\ done'[j] = 0 /\ flush'[j] = 0
    BY <2>2, <2>3, <2>4 DEF windowVars, procVars
  <2>6. pktCnt[j] \in Nat /\ pktCnt[j] - 0 + 0 = pktCnt[j]
    BY <2>0, <1>f, <1>c
  <2> QED BY <2>5, <2>6 DEF LastPart
<1>1. ASSUME NEW j \in Processors, pc'[j] \in Busy, wEnd'[j] PROVE LastPart(j)'
  <2>0. j \in Executors /\ j \in 1 .. N /\ j # N
    BY <1>c
  <2>t. wCnt[j] \in Nat /\ done[j] \in Nat /\ flush[j] \in Nat /\ pktCnt[j] \in Nat
    BY <2>0, <1>f, <1>c
  <2>1. CASE ~Mine(j)
    <3>1. wEnd'[j] = wEnd[j] /\ SamePlace(j)
      BY <2>0, <2>1, OthersKeep DEF Keeps
    <3>2. pc[j] \in Busy /\ wEnd[j]
      BY <3>1, <1>1 DEF SamePlace, Busy
    <3> QED BY <3>2, <2>0, <2>1, <1>k DEF LastInv
  <2>2. CASE WaitWork(j)
    BY <2>0, <2>2, <1>1, <1>w
  <2>3. CASE ProcessorGiveUp(j) \/ ProcessorEnd(j)
    <3>1. pc'[j] = "done"
      BY <2>0, <2>3 DEF ProcessorGiveUp, ProcessorEnd, PassPackets, Signalled
    <3> QED BY <3>1, <1>1 DEF Busy
  <2>4. CASE ProcessPacket(j)
    <3>1. PICK status \in Statuses \cup {"OK"} :
             /\ done' = [done EXCEPT ![j] = IF status = "END" THEN done[j] ELSE done[j] + 1]
             /\ flush' = [flush EXCEPT ![j] = IF status = "END" THEN flush[j] ELSE flush[j] + 1]
             /\ wEnd' = [wEnd EXCEPT ![j] = wEnd[j] \/ status = "END"]
             /\ status # "END" => wCnt' = [wCnt EXCEPT ![j] = wCnt[j]]
      BY <2>4 DEF ProcessPacket
    <3>2. status # "END"
      OBVIOUS
    <3>3. /\ done'[j] = done[j] + 1 /\ flush'[j] = flush[j] + 1 /\ wEnd'[j] = wEnd[j]
          /\ wCnt'[j] = wCnt[j]
      BY <3>1, <3>2, <2>0, <1>f
    <3>4. pc[j] = "work" /\ UNCHANGED windowVars
      BY <2>4 DEF ProcessPacket
    <3>5. LastPart(j)
      BY <3>3, <3>4, <1>1 DEF LastInv, Busy
    <3>6. wCnt[j] - (done[j] + 1) + (flush[j] + 1) = pktCnt[j]
      BY <3>5, <2>t DEF LastPart
    <3>7. wCnt'[j] - done'[j] + flush'[j] = pktCnt'[j] /\ inputEnd'[j]
      BY <3>3, <3>4, <3>5, <3>6 DEF windowVars, LastPart
    <3> QED BY <3>7, <2>0 DEF LastPart
  <2>5. CASE ProcessorPass(j)
    <3> DEFINE end  == done[j] = wCnt[j] /\ wEnd[j]
               stop == MustStop(j, end, wAbort[j])
               more == done[j] < wCnt[j] /\ ~stop
               next == IF more THEN "work" ELSE IF stop THEN "done" ELSE "wait"
    <3>1. /\ pc[j] = "pass" /\ PassPackets(j, flush[j], end, wAbort[j], next)
          /\ done' = [done EXCEPT ![j] = IF more THEN @ ELSE 0]
          /\ flush' = [flush EXCEPT ![j] = 0]
          /\ wCnt' = wCnt /\ wEnd' = wEnd
      BY <2>5 DEF ProcessorPass
    <3>2. pc'[j] = next
      BY <3>1, <2>0 DEF PassPackets, Signalled
    <3>3. more
      BY <3>2, <1>1 DEF Busy
    <3>4. done'[j] = done[j] /\ flush'[j] = 0 /\ wCnt'[j] = wCnt[j]
      BY <3>1, <3>3, <2>0, <1>f
    <3> HIDE DEF end, stop, more, next
    <3>5. LastPart(j)
      BY <3>1, <1>1 DEF LastInv, Busy
    <3>6. /\ wFirst[j] + wCnt[j] <= B /\ flush[j] <= done[j] /\ done[j] <= wCnt[j]
          /\ pktFirst[j] = wFirst[j] + done[j] - flush[j]
          /\ wCnt[j] - done[j] + flush[j] <= pktCnt[j]
      BY <3>1, <2>0, <1>r DEF RingIInv, LocalInv, Local, Busy
    <3>7. CanPass(j, flush[j])
      <4>1. wFirst[j] \in Nat
        BY <2>0, <1>f, <1>c
      <4> QED BY <4>1, <3>6, <2>t, <1>c DEF CanPass
    <3>8. pktCnt'[j] = pktCnt[j] - flush[j]
      BY <3>1, <3>7, <2>0, <2>t, <1>r, PassOwnWindow
    <3>9. wCnt[j] - done[j] + 0 = pktCnt[j] - flush[j]
      BY <3>5, <2>t DEF LastPart
    <3>10. wCnt'[j] - done'[j] + flush'[j] = pktCnt'[j]
      BY <3>4, <3>8, <3>9
    <3>11. inputEnd'[j]
      BY <3>5, <2>0, EndKept DEF LastPart
    <3> QED BY <3>10, <3>11, <2>0 DEF LastPart
  <2> QED BY <2>0, <2>1, <2>2, <2>3, <2>4, <2>5, <1>c DEF Mine, Processor
<1>2. ASSUME pc'[N] = "work", wEnd'[N] PROVE LastPart(N)'
  <2>1. CASE ~Mine(N)
    <3>1. wEnd'[N] = wEnd[N] /\ SamePlace(N)
      BY <2>1, <1>c, OthersKeep DEF Keeps
    <3>2. pc[N] = "work" /\ wEnd[N]
      BY <3>1, <1>2 DEF SamePlace
    <3> QED BY <3>2, <2>1, <1>c, <1>k DEF LastInv
  <2>2. CASE WaitWork(N)
    BY <2>2, <1>2, <1>c, <1>w DEF Busy
  <2>3. CASE Output
    <3>1. pc'[N] # "work"
      BY <2>3, <1>c, <1>f DEF Output, OutputCheck, OutputLimit, OutputSend, OutputSendError, OutputPass,
                              PassPackets, Signalled
    <3> QED BY <3>1, <1>2
  <2> QED BY <2>1, <2>2, <2>3, OutputMine
<1> QED BY <1>1, <1>2 DEF LastInv

\* In a quiet run, an executor which leaves its loop got the end of input and passed all it got.
LEMMA LeavesAtEnd ==
    ASSUME "END" \notin Statuses, TypeIInv, NoAbort, LastInv, Quiet', [Next]_vars,
           NEW j \in 1 .. N, pc[j] # "done", pc'[j] = "done"
    PROVE  inputEnd[j] /\ passed'[j] = passed[j - 1]
<1>c. N \in Nat /\ N >= 1 /\ N \in Executors /\ B \in Nat /\ j \in Executors /\ j # 0
      /\ j - 1 \in Executors /\ N \notin Processors /\ 0 # N /\ RingNext(j) \in Executors
  BY Constants DEF RingNext
<1>r. RingIInv
  BY DEF TypeIInv, IInv
<1>f. /\ wCnt[j] \in Nat /\ done[j] \in Nat /\ flush[j] \in Nat /\ pktCnt[j] \in Nat
      /\ passed[j] \in Nat /\ passed[j - 1] \in Nat
  <2>1. /\ wCnt[j] \in 0 .. B /\ done[j] \in 0 .. B /\ flush[j] \in 0 .. B /\ pktCnt[j] \in 0 .. B
        /\ passed[j] \in Nat /\ passed[j - 1] \in Nat
    BY <1>r, <1>c DEF RingIInv, LocalTypes, WindowTypes
  <2> QED BY <2>1, <1>c
<1>g. passed \in [Executors -> Nat] /\ pc \in [Executors -> Labels]
  BY <1>r DEF RingIInv, LocalTypes, FlagTypes, WindowTypes
<1>a. ~aborting[j] /\ ~wAbort[j] /\ ~aborting[RingNext(j)]
  BY <1>c DEF NoAbort
<1>p. pktCnt[j] = passed[j - 1] - passed[j]
  BY <1>r DEF RingIInv, RingInv, Ahead
<1>q. ASSUME inputEnd[j], passed'[j] = passed[j] + pktCnt[j] PROVE passed'[j] = passed[j - 1]
  BY <1>q, <1>p, <1>f
<1>1. Mine(j)
  <2>1. CASE ~Mine(j)
    BY <2>1, <1>c, OthersKeep DEF Keeps, SamePlace
  <2> QED BY <2>1
<1>2. ~WaitWork(j)
  BY <1>c, <1>g DEF WaitWork, WaitWorkBlock, WaitWorkReturn
<1>3. CASE j \in Processors /\ Processor(j)
  <2>1. ~ProcessorGiveUp(j)
    BY <1>a DEF ProcessorGiveUp
  <2>2. ~ProcessPacket(j)
    BY <1>c, <1>g DEF ProcessPacket
  <2>3. CASE ProcessorEnd(j)
    <3>1. pc[j] = "work" /\ wEnd[j] /\ wCnt[j] = 0 /\ passed' = [passed EXCEPT ![j] = @ + 0]
      BY <2>3 DEF ProcessorEnd, PassPackets
    <3>2. LastPart(j)
      BY <3>1, <1>3 DEF LastInv, Busy
    <3>3. flush[j] <= done[j] /\ done[j] <= wCnt[j]
      BY <3>1, <1>3, <1>c, <1>r DEF RingIInv, LocalInv, Local, Busy
    <3>4. pktCnt[j] = 0
      BY <3>1, <3>2, <3>3, <1>3, <1>f DEF LastPart
    <3>5. passed'[j] = passed[j] + 0
      BY <3>1, <1>c, <1>g
    <3>6. passed'[j] = passed[j] + pktCnt[j]
      BY <3>4, <3>5
    <3> QED BY <3>2, <3>6, <1>q DEF LastPart
  <2>4. CASE ProcessorPass(j)
    <3> DEFINE end  == done[j] = wCnt[j] /\ wEnd[j]
               stop == MustStop(j, end, wAbort[j])
               more == done[j] < wCnt[j] /\ ~stop
               next == IF more THEN "work" ELSE IF stop THEN "done" ELSE "wait"
    <3>1. pc[j] = "pass" /\ PassPackets(j, flush[j], end, wAbort[j], next)
      BY <2>4 DEF ProcessorPass
    <3>2. pc'[j] = next /\ passed' = [passed EXCEPT ![j] = @ + flush[j]]
      BY <3>1, <1>c DEF PassPackets, Signalled
    <3>3. stop
      BY <3>2
    <3>4. end
      BY <3>3, <1>a DEF MustStop, PassAborts
    <3>5. LastPart(j)
      BY <3>1, <3>4, <1>3 DEF LastInv, Busy
    <3>6. pktCnt[j] = flush[j]
      BY <3>4, <3>5, <1>3, <1>f DEF LastPart
    <3>7. passed'[j] = passed[j] + pktCnt[j]
      BY <3>2, <3>6, <1>c, <1>g
    <3> QED BY <3>5, <3>7, <1>q DEF LastPart
  <2> QED BY <1>3, <2>1, <2>2, <2>3, <2>4 DEF Processor
<1>4. CASE j = N /\ Output
  <2>1. ~OutputLimit /\ ~OutputSend
    BY <1>4, <1>c, <1>g DEF OutputLimit, OutputSend
  <2>2. ~OutputSendError
    BY DEF OutputSendError, Quiet
  <2>3. ~OutputPass
    <3>1. SUFFICES ASSUME OutputPass PROVE FALSE
      OBVIOUS
    <3>2. pc'[N] = IF MustStop(N, FALSE, wAbort[N]) THEN "done" ELSE "wait"
      BY <3>1, <1>c DEF OutputPass, PassPackets, Signalled
    <3> QED BY <3>2, <1>4, <1>a DEF MustStop, PassAborts
  <2>4. CASE OutputCheck
    <3>1. pc[N] = "work" /\ wCnt[N] = 0 /\ wEnd[N] /\ passed' = passed
      BY <2>4, <1>4, <1>c, <1>a, <1>g DEF OutputCheck, windowVars
    <3>2. LastPart(N)
      BY <3>1 DEF LastInv
    <3>3. pktCnt[j] = 0 /\ inputEnd[j]
      BY <3>1, <3>2, <1>4 DEF LastPart
    <3>4. passed'[j] = passed[j] + pktCnt[j]
      BY <3>1, <3>3, <1>f
    <3> QED BY <3>3, <3>4, <1>q
  <2> QED BY <1>4, <2>1, <2>2, <2>3, <2>4 DEF Output
<1> QED BY <1>1, <1>2, <1>3, <1>4, <1>c DEF Mine

\* The executors of a quiet run leave their loops one after the other, from the input on.
LEMMA DoneStep ==
    ASSUME "END" \notin Statuses, TypeIInv, NoAbort, LastInv, DoneInv, Quiet', [Next]_vars
    PROVE  DoneInv'
<1> SUFFICES ASSUME NEW i \in Executors, NEW j \in Executors, i <= j, pc'[j] = "done"
             PROVE  pc'[i] = "done" /\ passed'[i] = passed'[j]
  BY DEF DoneInv
<1>1. CASE pc[j] = "done"
  <2>1. pc[i] = "done" /\ passed[i] = passed[j]
    BY <1>1 DEF DoneInv
  <2> QED BY <1>1, <2>1, DoneStays
<1>2. CASE pc[j] # "done" /\ i # j
  <2>1. j \in 1 .. N /\ j - 1 \in Executors \ {N} /\ (j - 1) + 1 = j /\ i <= j - 1
    BY <1>2, Constants
  <2>2. inputEnd[j] /\ passed'[j] = passed[j - 1]
    BY <1>2, <2>1, LeavesAtEnd
  <2>3. pc[j - 1] = "done"
    BY <2>1, <2>2 DEF TypeIInv, IInv, RingIInv, EndInv
  <2>4. pc[i] = "done" /\ passed[i] = passed[j - 1]
    BY <2>1, <2>3 DEF DoneInv
  <2> QED BY <2>2, <2>4, DoneStays
<1> QED BY <1>1, <1>2

\* At the start, no thread has been aborted or has ended.
LEMMA InitQuiet == Init => QuietInv
<1> SUFFICES ASSUME Init PROVE QuietInv
  OBVIOUS
<1>1. \E n : InitAllBuffers(n)
  BY DEF Init
<1>2. \A i \in Executors : pc[i] = "wait" /\ ~aborting[i] /\ ~wAbort[i]
  BY <1>1 DEF InitAllBuffers
<1>3. Processors \subseteq Executors /\ N \in Executors
  BY Constants
<1> QED BY <1>2, <1>3 DEF QuietInv, NoAbort, LastInv, DoneInv, Busy

\* A step of any thread preserves what holds of a quiet run.
LEMMA QuietStep ==
    ASSUME "END" \notin Statuses, TypeIInv, OutInv, QuietInv, [Next]_vars
    PROVE  QuietInv'
<1>1. ASSUME Quiet' PROVE NoAbort' /\ LastInv' /\ DoneInv'
  <2>1. NoAbort /\ LastInv /\ DoneInv
    BY <1>1, QuietBefore DEF QuietInv
  <2> QED BY <1>1, <2>1, NoAbortStep, LastStep, DoneStep
<1> QED BY <1>1 DEF QuietInv

\* The run ends after the whole stream: if the output thread left its loop without a user
\* interrupt, an output error or a joint termination, the input thread had left its own and each
\* packet it passed has been treated by the output.  The hypothesis is that no packet processor
\* ends the stream (TSP_END): such a processor aborts its predecessors, and the packets behind
\* the one it refused are not for the output.
THEOREM OutputTakesAll ==
    ASSUME "END" \notin Statuses
    PROVE  Spec => []OutputComplete
<1>1. Init => QuietIInv
  BY InitIInv, InitTypes, InitStream, InitQuiet DEF TypeIInv, QuietIInv
<1>2. QuietIInv /\ [Next]_vars => QuietIInv'
  <2> SUFFICES ASSUME TypeIInv, OutInv, QuietInv, [Next]_vars
               PROVE  TypeIInv' /\ OutInv' /\ QuietInv'
    BY DEF QuietIInv
  <2>1. TypeIInv'
    BY NextIInv, ControlStep, PacketStep DEF TypeIInv, IInv
  <2> QED BY <2>1, OutStep, QuietStep
<1>3. QuietIInv => OutputComplete
  <2> SUFFICES ASSUME QuietIInv, pc[N] = "done", intrAt = -1, outStop \notin {"send", "joint"}
               PROVE  pc[0] = "done" /\ total[N] = passed[0]
    BY DEF OutputComplete
  <2>1. DoneInv
    BY DEF QuietIInv, QuietInv, Quiet
  <2>2. 0 \in Executors /\ N \in Executors /\ 0 <= N
    BY Constants
  <2>3. pc[0] = "done" /\ passed[0] = passed[N]
    BY <2>1, <2>2 DEF DoneInv
  <2>4. total[N] = passed[N]
    BY DEF QuietIInv, OutInv
  <2> QED BY <2>3, <2>4
<1> QED BY <1>1, <1>2, <1>3, PTL DEF Spec

=============================================================================

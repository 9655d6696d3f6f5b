------------------------- MODULE AsyncReportProofs -------------------------
(***************************************************************************)
(* Proofs about AsyncReport, for any number of threads and messages and    *)
(* any size of the queue.  The messages are seen as one sequence, which    *)
(* grows at its end: the messages written, then the one in the hands of    *)
(* the logging thread, then the queue.  A step of the logging thread only  *)
(* moves the borders between the three parts.                              *)
(***************************************************************************)
EXTENDS AsyncReport, SequenceTheorems, TLAPS

Messages == Producers \X (1 .. MaxLogs)
Items == Messages \cup {Terminate}

Hand == IF lpc = "dequeue" THEN <<>> ELSE <<msg>>

Flow == (logged \o Hand) \o queue

Types ==
    /\ queue \in Seq(Items)
    /\ logged \in Seq(Items)
    /\ sent \in [Producers -> 0 .. MaxLogs]
    /\ lpc \in {"dequeue", "handle", "done"}
    /\ msg \in Items
    /\ mpc \in {"run", "join", "done"}
    /\ dropped \subseteq Messages
    /\ synchronous \in BOOLEAN

\* The termination message is queued once, after all others, and ends the logging thread.
TermInv ==
    /\ \A k \in 1 .. Len(Flow) : Flow[k] = Terminate => k = Len(Flow) /\ mpc # "run"
    /\ \A k \in 1 .. Len(logged) : logged[k] # Terminate
    /\ lpc = "handle" => msg # Terminate
    /\ lpc = "done" => msg = Terminate
    /\ mpc # "run" => \A p \in Producers : sent[p] = MaxLogs

\* The messages of a thread come in order.
OrderInv ==
    \A j, k \in 1 .. Len(Flow) :
        j < k /\ Flow[k] # Terminate /\ Flow[j][1] = Flow[k][1] => Flow[j][2] < Flow[k][2]

SentMessages == {m \in Messages : m[2] <= sent[m[1]]}

\* The messages which were logged are in the flow or dropped.
FlowInv ==
    /\ \A k \in 1 .. Len(Flow) : Flow[k] # Terminate => Flow[k] \in SentMessages \ dropped
    /\ \A m \in SentMessages : m \in dropped \/ \E k \in 1 .. Len(Flow) : Flow[k] = m
    /\ dropped \subseteq SentMessages
    /\ synchronous => dropped = {}

IInv == Types /\ TermInv /\ OrderInv /\ FlowInv

-----------------------------------------------------------------------------
(***************************************************************************)
(* Messages and the flow.                                                  *)
(***************************************************************************)
\* The position of the termination message is not the one of a message.
LEMMA MessageFacts ==
    /\ \A m \in Messages : m = <<m[1], m[2]>> /\ m[1] \in Producers /\ m[2] \in 1 .. MaxLogs
    /\ Terminate \notin Messages
    /\ \A p \in Producers, i \in 1 .. MaxLogs :
          <<p, i>> \in Messages /\ <<p, i>>[1] = p /\ <<p, i>>[2] = i
<1>1. \A m \in Messages : m = <<m[1], m[2]>> /\ m[1] \in Producers /\ m[2] \in 1 .. MaxLogs
  BY DEF Messages
<1>2. Terminate[2] = 0
  BY DEF Terminate
<1>3. Terminate \notin Messages
  BY <1>1, <1>2, ReportAssumption
<1> QED BY <1>1, <1>3 DEF Messages

\* The three parts of the flow.
LEMMA FlowSeq ==
    ASSUME Types
    PROVE  /\ Hand \in Seq(Items) /\ Flow \in Seq(Items)
           /\ Len(Hand) = IF lpc = "dequeue" THEN 0 ELSE 1
           /\ Len(Flow) = Len(logged) + Len(Hand) + Len(queue)
           /\ Len(logged) \in Nat /\ Len(queue) \in Nat
           /\ \A k \in 1 .. Len(logged) : Flow[k] = logged[k]
           /\ lpc # "dequeue" => Flow[Len(logged) + 1] = msg
           /\ \A k \in 1 .. Len(queue) : Flow[Len(logged) + Len(Hand) + k] = queue[k]
<1>1. /\ Hand \in Seq(Items)
      /\ Len(Hand) = IF lpc = "dequeue" THEN 0 ELSE 1
      /\ lpc # "dequeue" => Hand[1] = msg
  BY DEF Hand, Types
<1>2. logged \in Seq(Items) /\ queue \in Seq(Items) /\ Len(logged) \in Nat /\ Len(queue) \in Nat
  BY LenProperties DEF Types
<1>3. Len(Hand) \in Nat
  BY <1>1
<1> DEFINE front == logged \o Hand
<1>4. /\ front \in Seq(Items)
      /\ Len(front) = Len(logged) + Len(Hand)
      /\ \A i \in 1 .. Len(logged) + Len(Hand) :
            front[i] = IF i <= Len(logged) THEN logged[i] ELSE Hand[i - Len(logged)]
  BY <1>1, <1>2, ConcatProperties
<1> HIDE DEF front
<1>5. /\ front \o queue \in Seq(Items)
      /\ Len(front \o queue) = Len(front) + Len(queue)
      /\ \A i \in 1 .. Len(front) + Len(queue) :
            (front \o queue)[i] = IF i <= Len(front) THEN front[i] ELSE queue[i - Len(front)]
  <2>1. front \in Seq(Items)
    BY <1>4
  <2> QED BY <2>1, <1>2, ConcatProperties
<1>6. Flow = front \o queue
  BY DEF Flow, front
<1> HIDE DEF Flow
<1>7. /\ Flow \in Seq(Items)
      /\ Len(Flow) = Len(logged) + Len(Hand) + Len(queue)
      /\ \A i \in 1 .. Len(logged) + Len(Hand) + Len(queue) :
            Flow[i] = IF i <= Len(logged) + Len(Hand) THEN front[i]
                      ELSE queue[i - (Len(logged) + Len(Hand))]
  <2>1. /\ Flow \in Seq(Items)
        /\ Len(Flow) = Len(front) + Len(queue)
        /\ \A i \in 1 .. Len(front) + Len(queue) :
              Flow[i] = IF i <= Len(front) THEN front[i] ELSE queue[i - Len(front)]
    BY <1>5, <1>6
  <2> QED BY <1>4, <2>1
<1>8. ASSUME NEW k \in 1 .. Len(logged) PROVE Flow[k] = logged[k]
  BY <1>2, <1>3, <1>4, <1>7
<1>9. lpc # "dequeue" => Flow[Len(logged) + 1] = msg
  BY <1>1, <1>2, <1>4, <1>7
<1>10. ASSUME NEW k \in 1 .. Len(queue) PROVE Flow[Len(logged) + Len(Hand) + k] = queue[k]
  BY <1>2, <1>3, <1>7
<1> QED BY <1>1, <1>2, <1>7, <1>8, <1>9, <1>10

\* A step which appends an item to the queue appends it to the flow.
LEMMA FlowAppend ==
    ASSUME Types, NEW item \in Items, queue' = Append(queue, item), UNCHANGED <<lpc, msg, logged>>
    PROVE  Flow' = Append(Flow, item)
<1>1. queue \in Seq(Items) /\ Hand \in Seq(Items) /\ logged \in Seq(Items) /\ Hand' = Hand
  BY FlowSeq DEF Types, Hand
<1>2. logged \o Hand \in Seq(Items)
  BY <1>1, ConcatProperties
<1>3. Append(queue, item) = queue \o <<item>> /\ <<item>> \in Seq(Items)
  BY <1>1, AppendIsConcat
<1>4. Flow' = (logged \o Hand) \o (queue \o <<item>>)
  BY <1>1, <1>3 DEF Flow
<1>5. Flow' = ((logged \o Hand) \o queue) \o <<item>>
  BY <1>1, <1>2, <1>3, <1>4, ConcatAssociative
<1>6. Flow \in Seq(Items)
  BY FlowSeq
<1> QED BY <1>5, <1>6, AppendIsConcat DEF Flow

\* The logging thread takes the first message of the queue.
LEMMA FlowNext ==
    ASSUME Types, lpc = "dequeue", queue # <<>>, queue' = Tail(queue), msg' = Head(queue),
           lpc' # "dequeue", logged' = logged
    PROVE  Flow' = Flow
<1>1. queue \in Seq(Items) /\ logged \in Seq(Items)
  BY DEF Types
<1>2. Head(queue) \in Items /\ Tail(queue) \in Seq(Items)
  BY <1>1, HeadTailProperties
<1>3. queue = <<Head(queue)>> \o Tail(queue)
  BY <1>1, <1>2
<1>4. logged \o <<>> = logged
  BY <1>1, ConcatEmptySeq
<1>5. Flow = logged \o (<<Head(queue)>> \o Tail(queue))
  BY <1>3, <1>4 DEF Flow, Hand
<1>6. <<Head(queue)>> \in Seq(Items)
  BY <1>2
<1>7. (logged \o <<Head(queue)>>) \o Tail(queue) = logged \o (<<Head(queue)>> \o Tail(queue))
  BY <1>1, <1>2, <1>6, ConcatAssociative
<1> QED BY <1>5, <1>7 DEF Flow, Hand

\* The logging thread has written the message in its hands.
LEMMA FlowHandle ==
    ASSUME Types, lpc = "handle", logged' = Append(logged, msg), lpc' = "dequeue", queue' = queue
    PROVE  Flow' = Flow
<1>1. logged \in Seq(Items) /\ msg \in Items
  BY DEF Types
<1>2. Append(logged, msg) = logged \o <<msg>> /\ Append(logged, msg) \in Seq(Items)
  BY <1>1, AppendIsConcat, AppendProperties
<1>3. Append(logged, msg) \o <<>> = Append(logged, msg)
  BY <1>2, ConcatEmptySeq
<1> QED BY <1>2, <1>3 DEF Flow, Hand

-----------------------------------------------------------------------------
(***************************************************************************)
(* The inductive invariant.                                                *)
(***************************************************************************)
\* Initially there is no message.
LEMMA InitIInv == Init => IInv
<1> SUFFICES ASSUME Init PROVE IInv
  OBVIOUS
<1>1. <<>> \in Seq(Items) /\ Len(<<>>) = 0
  BY EmptySeq
<1>2. Types
  BY <1>1, ReportAssumption DEF Init, QueueInit, Types, Items
<1>3. Len(Flow) = 0 /\ Len(logged) = 0
  BY <1>1, <1>2, FlowSeq DEF Init, QueueInit
<1>4. TermInv /\ OrderInv
  BY <1>3 DEF Init, TermInv, OrderInv
<1>5. SentMessages = {}
  BY MessageFacts DEF Init, SentMessages
<1>6. FlowInv
  BY <1>3, <1>5 DEF Init, FlowInv
<1> QED BY <1>2, <1>4, <1>6 DEF IInv

\* The steps which leave the flow alone.
LEMMA SameFlow ==
    ASSUME IInv, Types', Flow' = Flow, UNCHANGED <<sent, dropped, synchronous>>,
           (mpc = "run" <=> mpc' = "run"),
           \A k \in 1 .. Len(logged') : logged'[k] # Terminate,
           lpc' = "handle" => msg' # Terminate,
           lpc' = "done" => msg' = Terminate
    PROVE  IInv'
<1>1. TermInv'
  BY DEF IInv, TermInv
<1>2. OrderInv'
  BY DEF IInv, OrderInv
<1>3. SentMessages' = SentMessages
  BY DEF SentMessages
<1>4. FlowInv'
  BY <1>3 DEF IInv, FlowInv
<1> QED BY <1>1, <1>2, <1>4 DEF IInv

\* A message is logged: m is the next one of its thread.
LEMMA NewMessage ==
    ASSUME IInv, NEW p \in Producers, sent[p] < MaxLogs
    PROVE  /\ Current(p) \in Messages /\ Current(p)[1] = p /\ Current(p)[2] = sent[p] + 1
           /\ sent[p] \in Nat /\ sent[p] + 1 \in 1 .. MaxLogs
           /\ mpc = "run"
           /\ Current(p) \notin SentMessages
           /\ \A k \in 1 .. Len(Flow) : Flow[k] # Terminate
           /\ \A k \in 1 .. Len(Flow) : Flow[k] \in SentMessages \ dropped
<1>1. sent[p] \in Nat /\ sent[p] + 1 \in 1 .. MaxLogs
  BY ReportAssumption DEF IInv, Types
<1>2. Current(p) \in Messages /\ Current(p)[1] = p /\ Current(p)[2] = sent[p] + 1
  BY <1>1, MessageFacts DEF Current
<1>3. mpc = "run"
  BY <1>1 DEF IInv, TermInv
<1>4. Current(p) \notin SentMessages
  BY <1>1, <1>2 DEF SentMessages
<1>5. \A k \in 1 .. Len(Flow) : Flow[k] # Terminate
  BY <1>3 DEF IInv, TermInv
<1>6. \A k \in 1 .. Len(Flow) : Flow[k] \in SentMessages \ dropped
  BY <1>5 DEF IInv, FlowInv
<1> QED BY <1>1, <1>2, <1>3, <1>4, <1>5, <1>6

\* The messages which are logged after one more of this thread.
LEMMA SentNext ==
    ASSUME IInv, NEW p \in Producers, sent[p] < MaxLogs,
           sent' = [sent EXCEPT ![p] = @ + 1]
    PROVE  /\ SentMessages' = SentMessages \cup {Current(p)}
           /\ sent' \in [Producers -> 0 .. MaxLogs]
<1>1. sent \in [Producers -> 0 .. MaxLogs]
  BY DEF IInv, Types
<1>2. /\ Current(p) \in Messages /\ Current(p)[1] = p /\ Current(p)[2] = sent[p] + 1
      /\ sent[p] \in Nat /\ sent[p] + 1 \in 1 .. MaxLogs
  BY NewMessage
<1>3. \A q \in Producers : sent'[q] = IF q = p THEN sent[p] + 1 ELSE sent[q]
  BY <1>1
<1>4. sent' \in [Producers -> 0 .. MaxLogs]
  BY <1>1, <1>2
<1>5. ASSUME NEW m \in Messages
      PROVE  m[2] <= sent'[m[1]] <=> m[2] <= sent[m[1]] \/ m = Current(p)
  <2>1. m = <<m[1], m[2]>> /\ m[1] \in Producers /\ m[2] \in Nat
    BY MessageFacts
  <2>2. CASE m[1] # p
    BY <2>1, <2>2, <1>2, <1>3
  <2>3. CASE m[1] = p
    <3>1. m = Current(p) <=> m[2] = sent[p] + 1
      BY <2>1, <2>3, <1>2 DEF Current
    <3> QED BY <2>1, <2>3, <3>1, <1>2, <1>3
  <2> QED BY <2>2, <2>3
<1> QED BY <1>2, <1>4, <1>5 DEF SentMessages

\* writeLog() with space in the queue.
LEMMA EnqueueIInv ==
    ASSUME IInv, NEW p \in Producers, sent[p] < MaxLogs,
           queue' = Append(queue, Current(p)),
           sent' = [sent EXCEPT ![p] = @ + 1],
           UNCHANGED <<synchronous, lpc, msg, mpc, logged, dropped>>
    PROVE  IInv'
<1> DEFINE m == Current(p)
<1>1. /\ m \in Messages /\ m[1] = p /\ m[2] = sent[p] + 1 /\ sent[p] \in Nat
      /\ mpc = "run" /\ m \notin SentMessages
      /\ \A k \in 1 .. Len(Flow) : Flow[k] # Terminate
      /\ \A k \in 1 .. Len(Flow) : Flow[k] \in SentMessages \ dropped
  BY NewMessage
<1>2. SentMessages' = SentMessages \cup {m} /\ sent' \in [Producers -> 0 .. MaxLogs]
  BY SentNext
<1>3. m \in Items /\ m # Terminate
  BY <1>1, MessageFacts DEF Items
<1> HIDE DEF m
<1>4. Types'
  <2>1. queue' \in Seq(Items)
    BY <1>3, AppendProperties DEF m, IInv, Types
  <2> QED BY <1>2, <2>1 DEF IInv, Types
<1>5. Flow' = Append(Flow, m) /\ Flow \in Seq(Items)
  BY <1>3, FlowAppend, FlowSeq DEF m, IInv
<1>6. /\ Len(Flow) \in Nat /\ Len(Flow') = Len(Flow) + 1
      /\ \A k \in 1 .. Len(Flow) : Flow'[k] = Flow[k]
      /\ Flow'[Len(Flow) + 1] = m
  BY <1>3, <1>5, AppendProperties, LenProperties
<1>7. \A k \in 1 .. Len(Flow') : k \in 1 .. Len(Flow) \/ k = Len(Flow) + 1
  BY <1>6
<1>8. TermInv'
  <2>1. \A k \in 1 .. Len(Flow') : Flow'[k] # Terminate
    BY <1>1, <1>3, <1>6, <1>7
  <2> QED BY <2>1, <1>1 DEF IInv, TermInv
<1>9. OrderInv'
  <2> SUFFICES ASSUME NEW j \in 1 .. Len(Flow'), NEW k \in 1 .. Len(Flow'), j < k,
                      Flow'[j][1] = Flow'[k][1]
               PROVE  Flow'[j][2] < Flow'[k][2]
    BY DEF OrderInv
  <2>1. j \in 1 .. Len(Flow) /\ Flow'[j] = Flow[j]
    BY <1>6
  <2>2. CASE k \in 1 .. Len(Flow)
    <3>1. Flow'[k] = Flow[k] /\ Flow[k] # Terminate
      BY <2>2, <1>1, <1>6
    <3> QED BY <2>1, <2>2, <3>1 DEF IInv, OrderInv
  <2>3. CASE k = Len(Flow) + 1
    <3>1. Flow[j] \in SentMessages /\ Flow[j][1] = p /\ Flow'[k] = m
      BY <2>1, <2>3, <1>1, <1>6
    <3>2. Flow[j][2] \in Nat /\ Flow[j][2] <= sent[p]
      BY <3>1, MessageFacts DEF SentMessages
    <3> QED BY <2>1, <3>1, <3>2, <1>1
  <2> QED BY <2>2, <2>3, <1>7
<1>10. FlowInv'
  <2>1. m \notin dropped
    BY <1>1 DEF IInv, FlowInv
  <2>2. \A k \in 1 .. Len(Flow') : Flow'[k] \in (SentMessages \cup {m}) \ dropped
    BY <1>1, <1>6, <1>7, <2>1
  <2>3. \A x \in SentMessages \cup {m} : x \in dropped \/ \E k \in 1 .. Len(Flow') : Flow'[k] = x
    <3>1. Len(Flow) + 1 \in 1 .. Len(Flow') /\ \A k \in 1 .. Len(Flow) : k \in 1 .. Len(Flow')
      BY <1>6
    <3>2. ASSUME NEW x \in SentMessages, x \notin dropped
          PROVE  \E k \in 1 .. Len(Flow') : Flow'[k] = x
      <4>1. PICK k \in 1 .. Len(Flow) : Flow[k] = x
        BY <3>2 DEF IInv, FlowInv
      <4> QED BY <4>1, <3>1, <1>6
    <3> QED BY <3>1, <3>2, <1>6
  <2> QED BY <1>2, <2>2, <2>3 DEF IInv, FlowInv
<1> QED BY <1>4, <1>8, <1>9, <1>10 DEF IInv

\* writeLog() on overflow, in asynchronous mode.
LEMMA DropIInv ==
    ASSUME IInv, NEW p \in Producers, sent[p] < MaxLogs, ~synchronous,
           sent' = [sent EXCEPT ![p] = @ + 1],
           dropped' = dropped \cup {Current(p)},
           UNCHANGED <<queue, synchronous, lpc, msg, mpc, logged>>
    PROVE  IInv'
<1>1. /\ Current(p) \in Messages /\ mpc = "run" /\ Current(p) \notin SentMessages
      /\ \A k \in 1 .. Len(Flow) : Flow[k] # Terminate
      /\ \A k \in 1 .. Len(Flow) : Flow[k] \in SentMessages \ dropped
  BY NewMessage
<1>2. SentMessages' = SentMessages \cup {Current(p)} /\ sent' \in [Producers -> 0 .. MaxLogs]
  BY SentNext
<1>3. Types'
  BY <1>1, <1>2 DEF IInv, Types
<1>4. Flow' = Flow
  BY DEF Flow, Hand
<1>5. TermInv' /\ OrderInv'
  BY <1>1, <1>4 DEF IInv, TermInv, OrderInv
<1>6. FlowInv'
  BY <1>1, <1>2, <1>4 DEF IInv, FlowInv
<1> QED BY <1>3, <1>5, <1>6 DEF IInv

\* dequeue() moves the first message of the queue in the hands of the logging thread.
LEMMA NextMessageIInv ==
    ASSUME IInv, NextMessage
    PROVE  IInv'
<1>1. CASE DequeueWaits(Logger) /\ UNCHANGED <<lpc, msg>>
  <2>1. UNCHANGED <<queue, lpc, msg, logged, sent, dropped, synchronous, mpc>>
    BY <1>1 DEF DequeueWaits, NextMessage
  <2>2. Flow' = Flow /\ Types'
    BY <2>1 DEF Flow, Hand, IInv, Types
  <2>3. /\ \A k \in 1 .. Len(logged') : logged'[k] # Terminate
        /\ lpc' = "handle" => msg' # Terminate
        /\ lpc' = "done" => msg' = Terminate
    BY <2>1 DEF IInv, TermInv
  <2> QED BY <2>1, <2>2, <2>3, SameFlow
<1>2. CASE Dequeue(Logger) /\ msg' = Head(queue)
           /\ lpc' = (IF Head(queue) = Terminate THEN "done" ELSE "handle")
  <2>1. /\ lpc = "dequeue" /\ queue # <<>> /\ queue' = Tail(queue)
        /\ UNCHANGED <<logged, sent, dropped, synchronous, mpc>>
    BY <1>2 DEF Dequeue, NextMessage
  <2>2. Flow' = Flow
    BY <1>2, <2>1, FlowNext DEF IInv
  <2>3. msg' \in Items /\ queue' \in Seq(Items)
    BY <1>2, <2>1, HeadTailProperties DEF IInv, Types
  <2>4. Types'
    BY <1>2, <2>1, <2>3 DEF IInv, Types
  <2>5. \A k \in 1 .. Len(logged') : logged'[k] # Terminate
    BY <2>1 DEF IInv, TermInv
  <2>6. (lpc' = "handle" => msg' # Terminate) /\ (lpc' = "done" => msg' = Terminate)
    BY <1>2
  <2> QED BY <2>1, <2>2, <2>4, <2>5, <2>6, SameFlow
<1> QED BY <1>1, <1>2 DEF NextMessage

\* handleMessage() writes the message in the hands of the logging thread.
LEMMA HandleIInv ==
    ASSUME IInv, HandleMessage
    PROVE  IInv'
<1>1. /\ lpc = "handle" /\ logged' = Append(logged, msg) /\ lpc' = "dequeue"
      /\ UNCHANGED <<queue, msg, sent, dropped, synchronous, mpc>>
  BY DEF HandleMessage, messageVars
<1>2. logged \in Seq(Items) /\ msg \in Items /\ msg # Terminate
  BY <1>1 DEF IInv, Types, TermInv
<1>3. /\ logged' \in Seq(Items) /\ Len(logged') = Len(logged) + 1 /\ Len(logged) \in Nat
      /\ \A k \in 1 .. Len(logged) : logged'[k] = logged[k]
      /\ logged'[Len(logged) + 1] = msg
  BY <1>1, <1>2, AppendProperties, LenProperties
<1>4. \A k \in 1 .. Len(logged') : logged'[k] # Terminate
  <2>1. \A k \in 1 .. Len(logged') : k \in 1 .. Len(logged) \/ k = Len(logged) + 1
    BY <1>3
  <2> QED BY <2>1, <1>2, <1>3 DEF IInv, TermInv
<1>5. Types'
  BY <1>1, <1>3 DEF IInv, Types
<1>6. Flow' = Flow
  BY <1>1, FlowHandle DEF IInv
<1>7. mpc' = mpc /\ lpc' # "handle" /\ lpc' # "done"
  BY <1>1
<1> QED BY <1>1, <1>4, <1>5, <1>6, <1>7, SameFlow

\* terminate() queues the termination message after all others.
LEMMA TerminateIInv ==
    ASSUME IInv, TerminateReport
    PROVE  IInv'
<1>1. /\ mpc = "run" /\ mpc' = "join" /\ queue' = Append(queue, Terminate)
      /\ \A p \in Producers : sent[p] = MaxLogs
      /\ UNCHANGED <<synchronous, sent, lpc, msg, logged, dropped>>
  BY DEF TerminateReport, ForceEnqueue, Insert
<1>2. Terminate \in Items
  BY DEF Items
<1>3. Types'
  <2>1. queue' \in Seq(Items)
    BY <1>1, <1>2, AppendProperties DEF IInv, Types
  <2> QED BY <1>1, <2>1 DEF IInv, Types
<1>4. Flow' = Append(Flow, Terminate) /\ Flow \in Seq(Items)
  BY <1>1, <1>2, FlowAppend, FlowSeq DEF IInv
<1>5. /\ Len(Flow) \in Nat /\ Len(Flow') = Len(Flow) + 1
      /\ \A k \in 1 .. Len(Flow) : Flow'[k] = Flow[k]
      /\ Flow'[Len(Flow) + 1] = Terminate
  BY <1>2, <1>4, AppendProperties, LenProperties
<1>6. \A k \in 1 .. Len(Flow') : k \in 1 .. Len(Flow) \/ k = Len(Flow')
  BY <1>5
<1>7. \A k \in 1 .. Len(Flow) : Flow[k] # Terminate
  BY <1>1 DEF IInv, TermInv
<1>8. TermInv'
  BY <1>1, <1>5, <1>6, <1>7 DEF IInv, TermInv
<1>9. OrderInv'
  <2> SUFFICES ASSUME NEW j \in 1 .. Len(Flow'), NEW k \in 1 .. Len(Flow'), j < k,
                      Flow'[k] # Terminate, Flow'[j][1] = Flow'[k][1]
               PROVE  Flow'[j][2] < Flow'[k][2]
    BY DEF OrderInv
  <2>1. k \in 1 .. Len(Flow) /\ j \in 1 .. Len(Flow) /\ Flow'[j] = Flow[j] /\ Flow'[k] = Flow[k]
    BY <1>5
  <2> QED BY <2>1 DEF IInv, OrderInv
<1>10. FlowInv'
  <2>1. SentMessages' = SentMessages
    BY <1>1 DEF SentMessages
  <2>2. \A k \in 1 .. Len(Flow) : k \in 1 .. Len(Flow')
    BY <1>5
  <2>3. ASSUME NEW x \in SentMessages, x \notin dropped
        PROVE  \E k \in 1 .. Len(Flow') : Flow'[k] = x
    <3>1. PICK k \in 1 .. Len(Flow) : Flow[k] = x
      BY <2>3 DEF IInv, FlowInv
    <3> QED BY <3>1, <2>2, <1>5
  <2>4. \A k \in 1 .. Len(Flow') : Flow'[k] # Terminate => Flow'[k] \in SentMessages \ dropped
    BY <1>5, <1>6 DEF IInv, FlowInv
  <2> QED BY <1>1, <2>1, <2>3, <2>4 DEF IInv, FlowInv
<1> QED BY <1>3, <1>8, <1>9, <1>10 DEF IInv

\* Each step of AsyncReport preserves the invariant.
LEMMA NextIInv == IInv /\ [Next]_vars => IInv'
<1> SUFFICES ASSUME IInv, [Next]_vars PROVE IInv'
  OBVIOUS
<1>1. ASSUME NEW p \in Producers, WriteLog(p) PROVE IInv'
  <2>1. CASE Enqueue(p, Current(p)) /\ sent' = [sent EXCEPT ![p] = @ + 1] /\ UNCHANGED dropped
    BY <1>1, <2>1, EnqueueIInv DEF WriteLog, Enqueue, Insert
  <2>2. CASE /\ ~synchronous /\ EnqueueFails(p)
             /\ sent' = [sent EXCEPT ![p] = @ + 1]
             /\ dropped' = dropped \cup {Current(p)}
    BY <1>1, <2>2, DropIInv DEF WriteLog, EnqueueFails, messageVars
  <2>3. CASE synchronous /\ EnqueueWaits(p) /\ UNCHANGED <<sent, dropped>>
    <3>1. UNCHANGED <<queue, lpc, msg, logged, sent, dropped, synchronous, mpc>>
      BY <1>1, <2>3 DEF WriteLog, EnqueueWaits
    <3>2. Flow' = Flow /\ Types'
      BY <3>1 DEF Flow, Hand, IInv, Types
    <3>3. /\ \A k \in 1 .. Len(logged') : logged'[k] # Terminate
          /\ lpc' = "handle" => msg' # Terminate
          /\ lpc' = "done" => msg' = Terminate
      BY <3>1 DEF IInv, TermInv
    <3> QED BY <3>1, <3>2, <3>3, SameFlow
  <2> QED BY <1>1, <2>1, <2>2, <2>3 DEF WriteLog
<1>2. CASE Join \/ UNCHANGED vars
  <2>1. UNCHANGED <<queue, lpc, msg, logged, sent, dropped, synchronous>>
    BY <1>2 DEF Join, vars, messageVars
  <2>2. (mpc = "run" <=> mpc' = "run") /\ mpc' \in {mpc, "done"}
    BY <1>2 DEF Join, vars
  <2>3. Flow' = Flow /\ Types'
    BY <2>1, <2>2 DEF Flow, Hand, IInv, Types
  <2>4. /\ \A k \in 1 .. Len(logged') : logged'[k] # Terminate
        /\ lpc' = "handle" => msg' # Terminate
        /\ lpc' = "done" => msg' = Terminate
    BY <2>1 DEF IInv, TermInv
  <2> QED BY <2>1, <2>2, <2>3, <2>4, SameFlow
<1> QED BY <1>1, <1>2, NextMessageIInv, HandleIInv, TerminateIInv DEF Next

\* The inductive invariant holds for any number of threads and messages and any size of the queue.
THEOREM ReportCorrect == Spec => []IInv
  BY InitIInv, NextIInv, PTL DEF Spec

\* The messages of a thread are written in the order in which the thread logged them, although
\* they are dropped, queued and written by concurrent threads.
THEOREM MessagesInOrder == Spec => []LoggedInOrder
<1>1. IInv => LoggedInOrder
  <2> SUFFICES ASSUME IInv, NEW j \in 1 .. Len(logged), NEW k \in 1 .. Len(logged), j < k,
                      logged[j][1] = logged[k][1]
               PROVE  logged[j][2] < logged[k][2]
    BY DEF LoggedInOrder
  <2>1. /\ Flow[j] = logged[j] /\ Flow[k] = logged[k]
        /\ j \in 1 .. Len(Flow) /\ k \in 1 .. Len(Flow)
    <3>1. /\ Flow[j] = logged[j] /\ Flow[k] = logged[k]
          /\ Len(Flow) = Len(logged) + Len(Hand) + Len(queue)
          /\ Len(logged) \in Nat /\ Len(queue) \in Nat /\ Len(Hand) \in Nat
      BY FlowSeq DEF IInv
    <3> QED BY <3>1
  <2>2. logged[k] # Terminate
    BY DEF IInv, TermInv
  <2> QED BY <2>1, <2>2 DEF IInv, OrderInv
<1> QED BY <1>1, ReportCorrect, PTL

\* No message is twice in the flow.
LEMMA FlowDistinct ==
    ASSUME IInv, NEW j \in 1 .. Len(Flow), NEW k \in 1 .. Len(Flow), j # k, Flow[j] # Terminate
    PROVE  Flow[j] # Flow[k]
<1>1. Len(Flow) \in Nat /\ j \in Nat /\ k \in Nat
  BY FlowSeq, LenProperties DEF IInv
<1>2. SUFFICES ASSUME Flow[j] = Flow[k] PROVE FALSE
  OBVIOUS
<1>3. Flow[j] \in Messages /\ Flow[j][2] \in Nat /\ Flow[k][2] = Flow[j][2]
  BY <1>2, MessageFacts DEF IInv, FlowInv, SentMessages
<1>4. Flow[j][2] < Flow[k][2] \/ Flow[k][2] < Flow[j][2]
  BY <1>1, <1>2 DEF IInv, OrderInv
<1> QED BY <1>3, <1>4

\* Where the three parts lie in the flow.
LEMMA Parts ==
    ASSUME IInv
    PROVE  /\ Logged = {Flow[k] : k \in 1 .. Len(logged)}
           /\ InHand = {Flow[k] : k \in (Len(logged) + 1) .. (Len(logged) + Len(Hand))} \ {Terminate}
           /\ Queued = {Flow[k] : k \in (Len(logged) + Len(Hand) + 1) .. Len(Flow)} \ {Terminate}
           /\ Len(logged) \in Nat /\ Len(Hand) \in Nat /\ Len(queue) \in Nat
           /\ Len(Flow) = Len(logged) + Len(Hand) + Len(queue)
<1>1. /\ Len(Hand) = IF lpc = "dequeue" THEN 0 ELSE 1
      /\ Len(Flow) = Len(logged) + Len(Hand) + Len(queue)
      /\ Len(logged) \in Nat /\ Len(queue) \in Nat
      /\ \A k \in 1 .. Len(logged) : Flow[k] = logged[k]
      /\ lpc # "dequeue" => Flow[Len(logged) + 1] = msg
      /\ \A k \in 1 .. Len(queue) : Flow[Len(logged) + Len(Hand) + k] = queue[k]
  BY FlowSeq DEF IInv
<1>2. Len(Hand) \in Nat
  BY <1>1
<1>3. Logged = {Flow[k] : k \in 1 .. Len(logged)}
  BY <1>1 DEF Logged
<1>4. InHand = {Flow[k] : k \in (Len(logged) + 1) .. (Len(logged) + Len(Hand))} \ {Terminate}
  <2>1. CASE lpc = "dequeue"
    <3>1. (Len(logged) + 1) .. (Len(logged) + Len(Hand)) = {}
      BY <1>1, <2>1
    <3> QED BY <3>1, <2>1 DEF InHand
  <2>2. CASE lpc # "dequeue"
    <3>1. (Len(logged) + 1) .. (Len(logged) + Len(Hand)) = {Len(logged) + 1}
      BY <1>1, <2>2
    <3>2. InHand = {msg} \ {Terminate}
      BY <2>2 DEF InHand, IInv, Types, TermInv
    <3> QED BY <3>1, <3>2, <1>1, <2>2
  <2> QED BY <2>1, <2>2
<1>5. Queued = {Flow[k] : k \in (Len(logged) + Len(Hand) + 1) .. Len(Flow)} \ {Terminate}
  <2> DEFINE s == Len(logged) + Len(Hand)
  <2>1. s \in Nat /\ Len(Flow) = s + Len(queue) /\ Len(queue) \in Nat
    BY <1>1, <1>2
  <2>2. \A k \in 1 .. Len(queue) : Flow[s + k] = queue[k]
    BY <1>1
  <2> HIDE DEF s
  <2>3. ASSUME NEW k \in 1 .. Len(queue)
        PROVE  \E i \in (s + 1) .. Len(Flow) : Flow[i] = queue[k]
    <3>1. s + k \in (s + 1) .. Len(Flow)
      BY <2>1
    <3> QED BY <3>1, <2>2
  <2>4. ASSUME NEW i \in (s + 1) .. Len(Flow)
        PROVE  \E k \in 1 .. Len(queue) : Flow[i] = queue[k]
    <3>1. i - s \in 1 .. Len(queue) /\ s + (i - s) = i
      BY <2>1
    <3>2. Flow[s + (i - s)] = queue[i - s]
      BY <3>1, <2>2
    <3> QED BY <3>1, <3>2
  <2> DEFINE Q == {queue[k] : k \in 1 .. Len(queue)}
  <2> DEFINE F == {Flow[i] : i \in (s + 1) .. Len(Flow)}
  <2>5. Q = F
    <3>1. ASSUME NEW x \in Q PROVE x \in F
      BY <2>3
    <3>2. ASSUME NEW x \in F PROVE x \in Q
      BY <2>4
    <3> QED BY <3>1, <3>2
  <2> QED BY <2>5 DEF Queued, s
<1> QED BY <1>1, <1>2, <1>3, <1>4, <1>5

\* Every message which a thread logged is in exactly one place, written, in the hands of the
\* logging thread, queued or dropped; nothing is dropped in synchronous mode and nothing is left
\* behind the termination message.
THEOREM MessagesAccounted == Spec => []Accounted
<1>1. IInv => Accounted
  <2> SUFFICES ASSUME IInv PROVE Accounted
    OBVIOUS
  <2> DEFINE a == Len(logged)
  <2> DEFINE b == Len(logged) + Len(Hand)
  <2> DEFINE n == Len(Flow)
  <2> DEFINE all == UNION {{p} \X (1 .. sent[p]) : p \in Producers}
  <2>1. /\ Logged = {Flow[k] : k \in 1 .. a}
        /\ InHand = {Flow[k] : k \in (a + 1) .. b} \ {Terminate}
        /\ Queued = {Flow[k] : k \in (b + 1) .. n} \ {Terminate}
        /\ a \in Nat /\ b \in Nat /\ n \in Nat /\ a <= b /\ b <= n
    BY Parts
  <2>2. \A k \in 1 .. a : Flow[k] # Terminate
    BY FlowSeq DEF IInv, TermInv
  <2>3. all = SentMessages
    <3>1. ASSUME NEW m \in all PROVE m \in SentMessages
      <4>1. PICK p \in Producers : m \in {p} \X (1 .. sent[p])
        OBVIOUS
      <4>2. sent[p] \in 0 .. MaxLogs /\ m[1] = p /\ m[2] \in 1 .. sent[p] /\ m = <<m[1], m[2]>>
        BY <4>1 DEF IInv, Types
      <4>3. m[2] \in 1 .. MaxLogs /\ m[2] <= sent[m[1]]
        BY <4>2, ReportAssumption
      <4>4. m \in Messages
        BY <4>2, <4>3 DEF Messages
      <4> QED BY <4>3, <4>4 DEF SentMessages
    <3>2. ASSUME NEW m \in SentMessages PROVE m \in all
      <4>1. m \in Messages /\ m[2] <= sent[m[1]]
        BY DEF SentMessages
      <4>2. m = <<m[1], m[2]>> /\ m[1] \in Producers /\ m[2] \in 1 .. MaxLogs
        BY <4>1, MessageFacts
      <4>3. m[2] \in 1 .. sent[m[1]]
        BY <4>1, <4>2, ReportAssumption DEF IInv, Types
      <4>4. m \in {m[1]} \X (1 .. sent[m[1]])
        BY <4>2, <4>3
      <4> QED BY <4>2, <4>4
    <3> QED BY <3>1, <3>2
  <2> HIDE DEF a, b, n, all
  <2>4. Logged \cup InHand \cup Queued \cup dropped = all
    <3>1. Logged \cup InHand \cup Queued = {Flow[k] : k \in 1 .. n} \ {Terminate}
      <4>1. \A k \in 1 .. n : k \in 1 .. a \/ k \in (a + 1) .. b \/ k \in (b + 1) .. n
        BY <2>1
      <4>2. 1 .. a \subseteq 1 .. n /\ (a + 1) .. b \subseteq 1 .. n /\ (b + 1) .. n \subseteq 1 .. n
        BY <2>1
      <4> QED BY <4>1, <4>2, <2>1, <2>2
    <3>2. \A m \in SentMessages : m # Terminate
      BY MessageFacts DEF SentMessages
    <3> QED BY <3>1, <3>2, <2>3 DEF n, IInv, FlowInv
  <2>5. /\ Logged \cap InHand = {} /\ Logged \cap Queued = {} /\ InHand \cap Queued = {}
    <3>1. ASSUME NEW j \in 1 .. n, NEW k \in 1 .. n, j < k, Flow[j] # Terminate
          PROVE  Flow[j] # Flow[k]
      BY <3>1, <2>1, FlowDistinct DEF n
    <3>2. \A j \in 1 .. a : j \in 1 .. n /\ Flow[j] # Terminate
      BY <2>1, <2>2
    <3>3. \A j \in 1 .. a, k \in (a + 1) .. b : k \in 1 .. n /\ j < k
      BY <2>1
    <3>4. \A j \in 1 .. a, k \in (b + 1) .. n : k \in 1 .. n /\ j < k
      BY <2>1
    <3>5. \A j \in (a + 1) .. b, k \in (b + 1) .. n : j \in 1 .. n /\ k \in 1 .. n /\ j < k
      BY <2>1
    <3>6. Logged \cap InHand = {}
      BY <2>1, <3>1, <3>2, <3>3
    <3>7. Logged \cap Queued = {}
      BY <2>1, <3>1, <3>2, <3>4
    <3>8. InHand \cap Queued = {}
      BY <2>1, <3>1, <3>5
    <3> QED BY <3>6, <3>7, <3>8
  <2>6. Logged \cap dropped = {} /\ InHand \cap dropped = {} /\ Queued \cap dropped = {}
    <3>1. \A k \in 1 .. n : Flow[k] # Terminate => Flow[k] \notin dropped
      BY DEF n, IInv, FlowInv
    <3>2. 1 .. a \subseteq 1 .. n /\ (a + 1) .. b \subseteq 1 .. n /\ (b + 1) .. n \subseteq 1 .. n
      BY <2>1
    <3> QED BY <3>1, <3>2, <2>1, <2>2
  <2>7. lpc = "done" => Queued = {}
    <3> SUFFICES ASSUME lpc = "done" PROVE Queued = {}
      OBVIOUS
    <3>1. Flow[a + 1] = Terminate /\ b = a + 1
      BY FlowSeq DEF a, b, IInv, TermInv
    <3>2. b = n
      BY <3>1, <2>1 DEF n, IInv, TermInv
    <3>3. (b + 1) .. n = {}
      BY <3>2, <2>1
    <3> QED BY <3>3, <2>1
  <2> DEFINE places == <<Logged, InHand, Queued, dropped>>
  <2>8. UNION {places[k] : k \in 1 .. 4} = Logged \cup InHand \cup Queued \cup dropped
    <3>1. 1 .. 4 = {1, 2, 3, 4}
      OBVIOUS
    <3>2. {places[k] : k \in {1, 2, 3, 4}} = {Logged, InHand, Queued, dropped}
      OBVIOUS
    <3> QED BY <3>1, <3>2
  <2>9. ASSUME NEW j \in 1 .. 4, NEW k \in 1 .. 4, j # k
        PROVE  places[j] \cap places[k] = {}
    <3>1. j \in {1, 2, 3, 4} /\ k \in {1, 2, 3, 4}
      OBVIOUS
    <3> QED BY <2>5, <2>6, <2>9, <3>1
  <2>10. synchronous => dropped = {}
    BY DEF IInv, FlowInv
  <2> QED BY <2>4, <2>7, <2>8, <2>9, <2>10 DEF Accounted, all
<1> QED BY <1>1, ReportCorrect, PTL
=============================================================================

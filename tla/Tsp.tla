-------------------------------- MODULE Tsp --------------------------------
(***************************************************************************)
(* The threads of tsp: InputExecutor::main, ProcessorExecutor::main,       *)
(* OutputExecutor::main and the Ctrl+C handler of tsp.cpp, on the ring of  *)
(* module PluginExecutor.                                                  *)
(*                                                                         *)
(* A packet of the buffer is a record: seq is its position in the stream   *)
(* passed by the input (identity, not part of the code's data) and st says *)
(* what the code can tell from its content: "ok", "null" (NullPacket) or   *)
(* "drop" (first byte reset to zero).  What a plugin does is external: a   *)
(* receive() returns any number of packets up to the maximum, zero being   *)
(* the end of input, processPacket() returns any status in Statuses, with  *)
(* or without a flush request, send() may fail when MayFailSend.           *)
(* receiveAndStuff is seen here through the number of packets it returns.  *)
(***************************************************************************)
EXTENDS PluginExecutor, Sequences

CONSTANTS
    StreamLength,   \* bound: packets the input can return
    MaxInputPkt,    \* option --max-input-packets, 0 means no limit
    MaxFlushPkt,    \* option --max-flushed-packets
    StopStuffing,   \* option --add-stop-stuffing
    Statuses,       \* statuses which the processors return
    MayFailSend,    \* the output plugin may report an error
    MayInterrupt    \* the user may hit Ctrl+C

ASSUME TspAssumption ==
    /\ {StreamLength, MaxInputPkt, MaxFlushPkt, StopStuffing} \subseteq Nat
    /\ Statuses \subseteq {"OK", "NULL", "DROP", "END"}
    /\ MayFailSend \in BOOLEAN
    /\ MayInterrupt \in BOOLEAN

VARIABLES
    buffer,           \* the packet in each slot of the circular buffer
    done,             \* pkt_done of a processor, packets already treated by the output
    flush,            \* pkt_flush of a processor, pkt_read of the input
    received,         \* packets which the input plugin returned
    pluginCompleted,  \* plugin_completed of InputExecutor::main
    stopRemain,       \* _instuff_stop_remain
    intrAt,           \* next executor to abort in handleInterrupt, -1 before Ctrl+C
    delivered,        \* history: packets sent to the output plugin
    dropped,          \* history: packets dropped by a processor
    outStop           \* history: why the output left its loop

procVars  == <<done, flush>>
inputVars == <<received, pluginCompleted, stopRemain>>
histVars  == <<delivered, dropped, outStop>>
vars == <<windowVars, localVars, jtVars, pc, buffer, procVars, inputVars, intrAt, histVars>>

Packet == [seq : Nat, st : {"ok", "null", "drop"}]

-----------------------------------------------------------------------------
(***************************************************************************)
(* Input executor.                                                         *)
(***************************************************************************)
\* Wrong variant: the thread continues.
InputGiveUpContinue ==
    /\ pc[0] = "work"
    /\ wAbort[0]
    /\ pc' = [pc EXCEPT ![0] = "wait"]
    /\ UNCHANGED <<windowVars, localVars, jtVars, buffer, procVars, inputVars, intrAt, histVars>>

InputGiveUp ==
    /\ pc[0] = "work"
    /\ wAbort[0]
    /\ pc' = [pc EXCEPT ![0] = "done"]
    /\ UNCHANGED <<windowVars, localVars, jtVars, buffer, procVars, inputVars, intrAt, histVars>>

PktMax ==
    IF MaxInputPkt > 0 /\ wCnt[0] > MaxInputPkt THEN MaxInputPkt ELSE wCnt[0]

\* The new packets are written from slot wFirst[0] on: n from the plugin, the
\* others are trailing stuffing.
Loaded(n, read) ==
    [s \in Slots |->
        IF s \in wFirst[0] .. (wFirst[0] + read - 1)
        THEN [seq |-> passed[0] + (s - wFirst[0]),
              st  |-> IF s < wFirst[0] + n THEN "ok" ELSE "null"]
        ELSE buffer[s]]

InputReceive ==
    /\ pc[0] = "work"
    /\ ~wAbort[0]
    /\ \E n \in IF pluginCompleted THEN {0} ELSE 0 .. MinOf(PktMax, StreamLength - received),
          jt \in BOOLEAN :
          LET completed == n = 0
              stuffed   == IF completed THEN MinOf(stopRemain, PktMax - n) ELSE 0
          IN /\ pluginCompleted => ~jt
             /\ JointTerminate(0, jt)
             /\ total' = [total EXCEPT ![0] = @ + n]
             /\ received' = received + n
             /\ pluginCompleted' = completed
             /\ stopRemain' = stopRemain - stuffed
             /\ buffer' = Loaded(n, n + stuffed)
             /\ flush' = [flush EXCEPT ![0] = n + stuffed]
             /\ wEnd' = [wEnd EXCEPT ![0] = completed /\ stopRemain' = 0]
    /\ pc' = [pc EXCEPT ![0] = "pass"]
    /\ UNCHANGED <<windowVars, wFirst, wCnt, wAbort, done, intrAt, histVars>>

InputPass ==
    /\ pc[0] = "pass"
    /\ PassPackets(0, flush[0], wEnd[0], FALSE, IF wEnd[0] THEN "done" ELSE "wait")
    /\ flush' = [flush EXCEPT ![0] = 0]
    /\ UNCHANGED <<localVars, jtVars, buffer, done, inputVars, intrAt, histVars>>

-----------------------------------------------------------------------------
(***************************************************************************)
(* Packet processor executors.                                             *)
(***************************************************************************)
ProcessorGiveUp(i) ==
    /\ pc[i] = "work"
    /\ wAbort[i]
    /\ PassPackets(i, 0, TRUE, TRUE, "done")
    /\ UNCHANGED <<localVars, jtVars, buffer, procVars, inputVars, intrAt, histVars>>

ProcessorEnd(i) ==
    /\ pc[i] = "work"
    /\ ~wAbort[i] /\ wCnt[i] = 0 /\ wEnd[i]
    /\ PassPackets(i, 0, TRUE, FALSE, "done")
    /\ UNCHANGED <<localVars, jtVars, buffer, procVars, inputVars, intrAt, histVars>>

MustFlush(i, nDone, nCnt, nFlush, request) ==
    \/ request
    \/ nDone = nCnt
    \/ MaxFlushPkt > 0 /\ nFlush % MaxFlushPkt = 0

\* One iteration of the packet loop, up to the decision to call passPackets.
ProcessPacket(i) ==
    /\ pc[i] = "work"
    /\ ~wAbort[i]
    /\ done[i] < wCnt[i]
    /\ LET slot == wFirst[i] + done[i]
           seen == buffer[slot].st # "drop"
       IN \E status \in IF seen THEN Statuses ELSE {"OK"},
             request \in IF seen THEN BOOLEAN ELSE {FALSE},
             jt \in IF seen THEN BOOLEAN ELSE {FALSE} :
             LET end    == status = "END"
                 nDone  == IF end THEN done[i] ELSE done[i] + 1
                 nFlush == IF end THEN flush[i] ELSE flush[i] + 1
                 nCnt   == IF end THEN nDone ELSE wCnt[i]
             IN /\ buffer' = [buffer EXCEPT ![slot].st =
                                 CASE status = "NULL" -> "null"
                                   [] status = "DROP" -> "drop"
                                   [] OTHER -> @]
                /\ dropped' = IF status = "DROP" THEN dropped \cup {buffer[slot].seq} ELSE dropped
                /\ JointTerminate(i, jt)
                /\ total'  = [total EXCEPT ![i] = @ + 1]
                /\ done'   = [done EXCEPT ![i] = nDone]
                /\ flush'  = [flush EXCEPT ![i] = nFlush]
                /\ wCnt'   = [wCnt EXCEPT ![i] = nCnt]
                /\ wEnd'   = [wEnd EXCEPT ![i] = @ \/ end]
                /\ wAbort' = [wAbort EXCEPT ![i] = end]
                /\ pc' = [pc EXCEPT ![i] =
                             IF MustFlush(i, nDone, nCnt, nFlush, request) THEN "pass" ELSE "work"]
    /\ UNCHANGED <<windowVars, wFirst, inputVars, intrAt, delivered, outStop>>

\* Wrong variant: the end of input is passed with the first packets of the last part.
ProcessorPassEarlyEnd(i) ==
    /\ pc[i] = "pass"
    /\ LET stop == MustStop(i, done[i] = wCnt[i] /\ wEnd[i], wAbort[i])
           more == done[i] < wCnt[i] /\ ~stop
       IN /\ PassPackets(i, flush[i], wEnd[i], wAbort[i],
                         IF more THEN "work" ELSE IF stop THEN "done" ELSE "wait")
          /\ wAbort' = [wAbort EXCEPT ![i] = stop]
          /\ done'   = [done EXCEPT ![i] = IF more THEN @ ELSE 0]
    /\ flush' = [flush EXCEPT ![i] = 0]
    /\ UNCHANGED <<wFirst, wCnt, wEnd, jtVars, buffer, inputVars, intrAt, histVars>>

ProcessorPass(i) ==
    /\ pc[i] = "pass"
    /\ LET end  == done[i] = wCnt[i] /\ wEnd[i]
           stop == MustStop(i, end, wAbort[i])
           more == done[i] < wCnt[i] /\ ~stop
       IN /\ PassPackets(i, flush[i], end, wAbort[i],
                         IF more THEN "work" ELSE IF stop THEN "done" ELSE "wait")
          /\ wAbort' = [wAbort EXCEPT ![i] = stop]
          /\ done'   = [done EXCEPT ![i] = IF more THEN @ ELSE 0]
    /\ flush' = [flush EXCEPT ![i] = 0]
    /\ UNCHANGED <<wFirst, wCnt, wEnd, jtVars, buffer, inputVars, intrAt, histVars>>

-----------------------------------------------------------------------------
(***************************************************************************)
(* Output executor.                                                        *)
(***************************************************************************)
\* "aborted" from waitWork is ignored, the output uses its own flag.
OutputCheck ==
    /\ pc[N] = "work"
    /\ wAbort' = [wAbort EXCEPT ![N] = aborting[N]]
    /\ IF (wCnt[N] = 0 /\ wEnd[N]) \/ aborting[N]
       THEN /\ pc' = [pc EXCEPT ![N] = "done"]
            /\ outStop' = IF aborting[N] THEN "abort" ELSE "eof"
       ELSE /\ pc' = [pc EXCEPT ![N] = "limit"]
            /\ UNCHANGED outStop
    /\ UNCHANGED <<windowVars, wFirst, wCnt, wEnd, jtVars, buffer, procVars, inputVars,
                   intrAt, delivered, dropped>>

\* Packets to output when all plugins with joint termination have completed, if less than what
\* waitWork returned.
OverLimit == JointTerminationAgreed /\ total[N] + wCnt[N] > jtHighest

\* Wrong variant: one packet more than agreed.
LimitedCntPlusOne == IF OverLimit THEN jtHighest - total[N] + 1 ELSE wCnt[N]

LimitedCnt ==
    IF ~OverLimit THEN wCnt[N]
    ELSE IF total[N] > jtHighest THEN 0 ELSE jtHighest - total[N]

OutputLimit ==
    /\ pc[N] = "limit"
    /\ wCnt'    = [wCnt EXCEPT ![N] = LimitedCnt]
    /\ wAbort'  = [wAbort EXCEPT ![N] = @ \/ OverLimit]
    /\ outStop' = IF OverLimit THEN "joint" ELSE outStop
    /\ pc' = [pc EXCEPT ![N] = IF LimitedCnt = 0 THEN "pass" ELSE "send"]
    /\ UNCHANGED <<windowVars, wFirst, wEnd, jtVars, buffer, procVars, inputVars,
                   intrAt, delivered, dropped>>

\* Wrong variant: from the base of the buffer.
OutPktFromBase(k) == buffer[k]

\* Packet at offset k of the array returned to the output.
OutPkt(k) == buffer[wFirst[N] + k]

\* From offset done, the next d packets are dropped ones and the o after them are
\* the next contiguous range of packets to send.
IsSegment(d, o) ==
    LET from == done[N] IN
    /\ from + d + o <= wCnt[N]
    /\ \A k \in 0 .. (d - 1) : OutPkt(from + k).st = "drop"
    /\ from + d < wCnt[N] => OutPkt(from + d).st # "drop"
    /\ \A k \in d .. (d + o - 1) : OutPkt(from + k).st # "drop"
    /\ from + d + o < wCnt[N] => OutPkt(from + d + o).st = "drop"

OutputSend ==
    /\ pc[N] = "send"
    /\ \E d, o \in 0 .. wCnt[N] :
          /\ IsSegment(d, o)
          /\ total' = [total EXCEPT ![N] = @ + d + o]
          /\ done'  = [done EXCEPT ![N] = @ + d + o]
          /\ delivered' = delivered \o [k \in 1 .. o |-> OutPkt(done[N] + d + k - 1).seq]
          /\ pc' = [pc EXCEPT ![N] = IF done[N] + d + o = wCnt[N] THEN "pass" ELSE "send"]
    /\ UNCHANGED <<windowVars, localVars, jtCompleted, jtRemaining, jtHighest, buffer, flush,
                   inputVars, intrAt, dropped, outStop>>

OutputSendError ==
    /\ MayFailSend
    /\ pc[N] = "send"
    /\ \E d, o \in 0 .. wCnt[N] :
          /\ IsSegment(d, o)
          /\ o > 0
          /\ total' = [total EXCEPT ![N] = @ + d]
    /\ wAbort'  = [wAbort EXCEPT ![N] = TRUE]
    /\ outStop' = "send"
    /\ pc' = [pc EXCEPT ![N] = "pass"]
    /\ UNCHANGED <<windowVars, wFirst, wCnt, wEnd, jtCompleted, jtRemaining, jtHighest, buffer,
                   procVars, inputVars, intrAt, delivered, dropped>>

OutputPass ==
    /\ pc[N] = "pass"
    /\ PassPackets(N, wCnt[N], FALSE, wAbort[N],
                   IF MustStop(N, FALSE, wAbort[N]) THEN "done" ELSE "wait")
    /\ done' = [done EXCEPT ![N] = 0]
    /\ UNCHANGED <<localVars, jtVars, buffer, flush, inputVars, intrAt, histVars>>

-----------------------------------------------------------------------------
(***************************************************************************)
(* Ctrl+C: TSPInterruptHandler::handleInterrupt calls setAbort() on each   *)
(* executor in turn, from the input to the output.                         *)
(***************************************************************************)
UserInterrupt ==
    /\ MayInterrupt
    /\ intrAt = -1
    /\ intrAt' = 0
    /\ UNCHANGED <<windowVars, localVars, jtVars, pc, buffer, procVars, inputVars, histVars>>

HandleInterrupt ==
    /\ intrAt \in Executors
    /\ SetAbort(intrAt)
    /\ intrAt' = intrAt + 1
    /\ UNCHANGED <<buffer, procVars, inputVars, histVars>>

AllDone == \A i \in Executors : pc[i] = "done"

\* main() has joined all threads.
Terminated == AllDone /\ UNCHANGED vars

-----------------------------------------------------------------------------
Init ==
    /\ \E n \in 1 .. MinOf(B \div 2, StreamLength) :
          /\ InitAllBuffers(n)
          /\ received = n
          /\ buffer = [s \in Slots |-> [seq |-> IF s < n THEN s ELSE 0, st |-> "ok"]]
    /\ done  = [i \in Executors |-> 0]
    /\ flush = [i \in Executors |-> 0]
    /\ pluginCompleted = FALSE
    /\ stopRemain = StopStuffing
    /\ intrAt = -1
    /\ delivered = <<>>
    /\ dropped = {}
    /\ outStop = "none"

WaitWork(i) ==
    /\ WaitWorkBlock(i) \/ WaitWorkReturn(i)
    /\ UNCHANGED <<buffer, procVars, inputVars, intrAt, histVars>>

Input  == InputGiveUp \/ InputReceive \/ InputPass
Processor(i) == ProcessorGiveUp(i) \/ ProcessorEnd(i) \/ ProcessPacket(i) \/ ProcessorPass(i)
Output == OutputCheck \/ OutputLimit \/ OutputSend \/ OutputSendError \/ OutputPass

Next ==
    \/ \E i \in Executors : WaitWork(i)
    \/ Input
    \/ \E i \in Processors : Processor(i)
    \/ Output
    \/ UserInterrupt
    \/ HandleInterrupt
    \/ Terminated

Spec == Init /\ [][Next]_vars

\* The system schedules every thread and every plugin call returns.
Fairness ==
    /\ \A i \in Executors : WF_vars(WaitWork(i))
    /\ WF_vars(Input)
    /\ \A i \in Processors : WF_vars(Processor(i))
    /\ WF_vars(Output)
    /\ WF_vars(HandleInterrupt)

FairSpec == Spec /\ Fairness
-----------------------------------------------------------------------------
(***************************************************************************)
(* Properties.                                                             *)
(***************************************************************************)
\* Every variable has its type; the windows and the local variables of the
\* threads stay inside the circular buffer.
TypeOK ==
    /\ pktFirst \in [Executors -> Slots]
    /\ pktCnt \in [Executors -> 0 .. B]
    /\ inputEnd \in [Executors -> BOOLEAN]
    /\ aborting \in [Executors -> BOOLEAN]
    /\ pc \in [Executors -> {"wait", "blocked", "work", "limit", "send", "pass", "done"}]
    /\ wFirst \in [Executors -> Slots]
    /\ wCnt \in [Executors -> 0 .. B]
    /\ wEnd \in [Executors -> BOOLEAN]
    /\ wAbort \in [Executors -> BOOLEAN]
    /\ total \in [Executors -> Nat]
    /\ jtCompleted \subseteq JTUsers
    /\ jtRemaining \in Int
    /\ jtHighest \in Nat
    /\ passed \in [Executors -> Nat]
    /\ buffer \in [Slots -> Packet]
    /\ done \in [Executors -> 0 .. B]
    /\ flush \in [Executors -> 0 .. B]
    /\ received \in 0 .. StreamLength
    /\ pluginCompleted \in BOOLEAN
    /\ stopRemain \in 0 .. StopStuffing
    /\ intrAt \in -1 .. (N + 1)
    /\ delivered \in Seq(Nat)
    /\ dropped \subseteq Nat
    /\ outStop \in {"none", "eof", "abort", "joint", "send"}

\* Slots of the sliding window of executor i.
Window(i) == {(pktFirst[i] + k) % B : k \in 0 .. (pktCnt[i] - 1)}

\* Slots which the thread of executor i reads or writes outside the mutex.
WorkArea(i) ==
    IF pc[i] \in {"work", "limit", "send"}
    THEN (wFirst[i] + done[i]) .. (wFirst[i] + wCnt[i] - 1)
    ELSE {}

\* The diagram of tspPluginExecutor.h: the windows of the executors partition the
\* circular buffer, whatever the interleaving of waitWork and passPackets calls.
WindowsPartition ==
    \A s \in Slots : \E i \in Executors :
        s \in Window(i) /\ \A j \in Executors \ {i} : s \notin Window(j)

\* The packets which a thread accesses without the mutex are never in the window of
\* another executor: no packet is read or written by two threads.
NoSharedPacket ==
    \A i, j \in Executors : i # j => WorkArea(i) \cap Window(j) = {}

\* The two assertions at the start of passPackets hold in each call.
PassAssertions ==
    \A i \in Executors : pc[i] = "pass" =>
        LET count == IF i = N THEN wCnt[N] ELSE flush[i]
        IN count <= pktCnt[i] /\ pktFirst[i] + count <= B

\* How many packets executor i has passed and executor j, after it in the chain, has not.
Ahead(i, j) == passed[i] - passed[j]

\* The ring in terms of how far each executor has gone: an executor is never behind one of
\* its successors, nor more than the size of the buffer in front of it, the windows are what
\* lies between two executors, and their positions differ by that distance, modulo B.
RingInv ==
    /\ \A i, j \in Executors : i <= j =>
          /\ Ahead(i, j) \in 0 .. B
          /\ pktFirst[i] \in {pktFirst[j] + Ahead(i, j), pktFirst[j] + Ahead(i, j) - B}
    /\ \A i \in 1 .. N : pktCnt[i] = Ahead(i - 1, i)
    /\ pktCnt[0] = B - Ahead(0, N)

Busy == {"work", "limit", "send", "pass"}

\* Outside the mutex, what a thread remembers from waitWork is still the front of its window,
\* although its neighbours have moved meanwhile: the part it has not passed yet, from
\* done - flush on for a processor, the whole for the input and the output.
Local(i) ==
    /\ pc[i] \in {"wait", "blocked"} => done[i] = 0 /\ flush[i] = 0
    /\ pc[i] \in Busy =>
          /\ wFirst[i] + wCnt[i] <= B
          /\ done[i] <= wCnt[i]
          /\ i = 0 => done[i] = 0 /\ flush[i] <= wCnt[i]
          /\ i = N => flush[i] = 0 /\ (pc[i] \in {"work", "limit"} => done[i] = 0)
          /\ i \in {0, N} => pktFirst[i] = wFirst[i] /\ wCnt[i] <= pktCnt[i]
          /\ i \in Processors => /\ flush[i] <= done[i]
                                /\ pktFirst[i] = wFirst[i] + done[i] - flush[i]
                                /\ wCnt[i] - done[i] + flush[i] <= pktCnt[i]
    /\ pc[i] \in {"limit", "send"} => i = N

LocalInv == \A i \in Executors : Local(i)

\* The windows are what lies between two neighbours on the ring, and what each thread took out
\* of its window in waitWork() remains the front of it until passPackets().
WindowInv == RingInv /\ LocalInv

\* An executor which signalled the end of input to its successor has left its loop.
EndInv == \A i \in Executors \ {N} : inputEnd[i + 1] => pc[i] = "done"

\* End to end: what the output plugin got is exactly the packets that no processor
\* dropped, in the order of the input, without loss, duplicate or overwritten packet,
\* up to the number of packets which the output has accounted for.
DeliveredFaithful ==
    /\ \A k \in 1 .. (Len(delivered) - 1) : delivered[k] < delivered[k + 1]
    /\ {delivered[k] : k \in 1 .. Len(delivered)} = (0 .. (total[N] - 1)) \ dropped

\* Without user interrupt, output error and joint termination, the output thread only
\* terminates after the end of input, when it has treated all the packets of the input.
OutputComplete ==
    pc[N] = "done" /\ intrAt = -1 /\ outStop \notin {"send", "joint"}
        => pc[0] = "done" /\ total[N] = passed[0]

\* Once all plugins with joint termination have completed, the output never goes past
\* the highest packet number they agreed on, and it stops exactly there.
JointTerminationExact ==
    /\ JointTerminationAgreed => total[N] <= jtHighest
    /\ pc[N] = "done" /\ outStop = "joint" => total[N] = jtHighest

\* An executor never passes a packet after it signalled the end of input to the next
\* one (which may already have terminated).
NoPacketAfterEnd ==
    [][\A i \in Executors \ {N} : inputEnd[i + 1] => passed'[i] = passed[i]]_vars

\* No wake-up is lost: all threads terminate after the end of input, an abort of any
\* executor or a user interrupt.
Termination == <>AllDone
=============================================================================

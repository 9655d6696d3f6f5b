--------------------------- MODULE PluginExecutor ---------------------------
(***************************************************************************)
(* The ring of plugin executors of tsp: class ts::tsp::PluginExecutor      *)
(* (tspPluginExecutor.cpp) and its base class JointTermination             *)
(* (tspJointTermination.cpp).                                              *)
(*                                                                         *)
(* Executor 0 is the input, executor N the output, the others are packet   *)
(* processors.  They share one circular buffer of B packets, cut into one  *)
(* sliding window per executor (_pkt_first, _pkt_cnt).  Each executor is a *)
(* thread; the shared fields are accessed under one global mutex, so the   *)
(* body of waitWork, passPackets, setAbort and jointTerminate is one step  *)
(* each.  The condition variable _to_do of executor i is modelled by its   *)
(* waiter: pc[i] = "blocked" while the thread sleeps in waitCondition(),   *)
(* and a signal moves it to "wait", where it evaluates its condition again.*)
(*                                                                         *)
(* This module has the shared state and the operations; module Tsp has the *)
(* threads which call them.                                                *)
(***************************************************************************)
EXTENDS Integers, FiniteSets

CONSTANTS
    N,           \* index of the output executor: N - 1 packet processors
    B,           \* _buffer->count(), size of the buffer in packets
    JTUsers,     \* executors whose plugin called useJointTermination(true)
    IgnoreJT     \* option --ignore-joint-termination

Executors  == 0 .. N
Processors == 1 .. (N - 1)
Slots      == 0 .. (B - 1)

ASSUME RingAssumption ==
    /\ N \in Nat \ {0}
    /\ B \in Nat \ {0, 1}    \* initAllBuffers preloads B \div 2 packets
    /\ JTUsers \subseteq Executors
    /\ IgnoreJT \in BOOLEAN

VARIABLES
    \* Fields of each PluginExecutor, protected by the global mutex.
    pktFirst,      \* _pkt_first
    pktCnt,        \* _pkt_cnt
    inputEnd,      \* _input_end
    aborting,      \* _tsp_aborting
    \* The thread of each executor and the local variables of its main().
    pc,            \* where the thread is
    wFirst,        \* pkt_first returned by waitWork
    wCnt,          \* pkt_cnt / pkt_max returned by waitWork
    wEnd,          \* input_end
    wAbort,        \* aborted
    \* JointTermination.
    total,         \* _total_packets of each executor
    jtCompleted,   \* executors with _jt_completed
    jtRemaining,   \* static _jt_remaining
    jtHighest,     \* static _jt_hightest_pkt
    \* History: how many packets each executor passed to the next one.
    passed

windowVars == <<pktFirst, pktCnt, inputEnd, aborting, passed>>
localVars  == <<wFirst, wCnt, wEnd, wAbort>>
jtVars     == <<total, jtCompleted, jtRemaining, jtHighest>>

RingNext(i)     == IF i = N THEN 0 ELSE i + 1
RingPrevious(i) == IF i = 0 THEN N ELSE i - 1

MinOf(a, b) == IF a <= b THEN a ELSE b
MaxOf(a, b) == IF a >= b THEN a ELSE b

(***************************************************************************)
(* pc after executor i moved to label next and the condition variables     *)
(* _to_do of the executors in S were signalled.                            *)
(***************************************************************************)
Signalled(i, next, S) ==
    [j \in Executors |-> IF j = i THEN next
                         ELSE IF j \in S /\ pc[j] = "blocked" THEN "wait"
                         ELSE pc[j]]

(***************************************************************************)
(* waitWork: sleep while the window is empty and there is neither end of   *)
(* input nor abort of the next executor.  Otherwise return the first       *)
(* contiguous part of the window.                                          *)
(***************************************************************************)
NothingToDo(i) ==
    pktCnt[i] = 0 /\ ~inputEnd[i] /\ ~aborting[RingNext(i)]

WaitWorkBlock(i) ==
    /\ pc[i] = "wait"
    /\ NothingToDo(i)
    /\ pc' = [pc EXCEPT ![i] = "blocked"]
    /\ UNCHANGED <<windowVars, localVars, jtVars>>

\* Wrong variants: the end of the buffer, then the end of the window is ignored.
ContiguousCntOverEnd(i)    == pktCnt[i]
ContiguousCntOverWindow(i) == B - pktFirst[i]

ContiguousCnt(i) == MinOf(pktCnt[i], B - pktFirst[i])

\* Wrong variant: packets remain after the end of the buffer.
IsLastPartEarly(i) == inputEnd[i]

\* What waitWork returns is the end of the input.
IsLastPart(i) == inputEnd[i] /\ ContiguousCnt(i) = pktCnt[i]

WaitWorkReturn(i) ==
    /\ pc[i] = "wait"
    /\ ~NothingToDo(i)
    /\ pc'     = [pc EXCEPT ![i] = "work"]
    /\ wFirst' = [wFirst EXCEPT ![i] = pktFirst[i]]
    /\ wCnt'   = [wCnt EXCEPT ![i] = ContiguousCnt(i)]
    /\ wEnd'   = [wEnd EXCEPT ![i] = IsLastPart(i)]
    /\ wAbort' = [wAbort EXCEPT ![i] = aborting[RingNext(i)]]
    /\ UNCHANGED <<windowVars, jtVars>>

(***************************************************************************)
(* passPackets(count, input_end, aborted) by executor i, which continues   *)
(* at label next.  MustStop is the negation of its return value.           *)
(***************************************************************************)
PassAborts(i, abort) == abort \/ aborting[RingNext(i)]

MustStop(i, end, abort) == end \/ PassAborts(i, abort)

\* Wrong variants: the position is not wrapped, the passed packets are kept.
AdvancedNoWrap(i, count) == pktFirst[i] + count
MovedKept(i, count)      == [pktCnt EXCEPT ![RingNext(i)] = @ + count]

Advanced(i, count) == (pktFirst[i] + count) % B
Moved(i, count)    == [pktCnt EXCEPT ![i] = @ - count, ![RingNext(i)] = @ + count]

PassPackets(i, count, end, abort, next) ==
    /\ pktFirst' = [pktFirst EXCEPT ![i] = Advanced(i, count)]
    /\ pktCnt'   = Moved(i, count)
    /\ inputEnd' = [inputEnd EXCEPT ![RingNext(i)] = @ \/ end]
    /\ aborting' = [aborting EXCEPT ![i] = @ \/ PassAborts(i, abort)]
    /\ passed'   = [passed EXCEPT ![i] = @ + count]
    /\ pc' = Signalled(i, next,
                (IF count > 0 \/ end THEN {RingNext(i)} ELSE {}) \cup
                (IF PassAborts(i, abort) THEN {RingPrevious(i)} ELSE {}))

(***************************************************************************)
(* setAbort() of executor i, called from another thread.                   *)
(***************************************************************************)
SetAbort(i) ==
    /\ aborting' = [aborting EXCEPT ![i] = TRUE]
    /\ pc' = [j \in Executors |->
                IF j = RingPrevious(i) /\ pc[j] = "blocked" THEN "wait" ELSE pc[j]]
    /\ UNCHANGED <<pktFirst, pktCnt, inputEnd, passed, localVars, jtVars>>

(***************************************************************************)
(* JointTermination.  JointTerminate(i, jt): the plugin of executor i      *)
(* calls jointTerminate() when jt is true; the call has no effect when the *)
(* plugin does not use joint termination or already completed.             *)
(***************************************************************************)
JointTerminate(i, jt) ==
    IF jt /\ i \in JTUsers \ jtCompleted
    THEN /\ jtCompleted' = jtCompleted \cup {i}
         /\ jtRemaining' = jtRemaining - 1
         /\ jtHighest'   = MaxOf(jtHighest, total[i])
    ELSE UNCHANGED <<jtCompleted, jtRemaining, jtHighest>>

\* totalPacketsBeforeJointTermination() returns a limit, and it is jtHighest.
JointTerminationAgreed == ~IgnoreJT /\ JTUsers # {} /\ jtRemaining <= 0

(***************************************************************************)
(* initAllBuffers: the input preloaded n packets, which are the window of  *)
(* the next executor; the rest of the buffer is the window of the input.   *)
(***************************************************************************)
InitAllBuffers(n) ==
    /\ pktFirst = [i \in Executors |-> IF i = 0 THEN n % B ELSE 0]
    /\ pktCnt   = [i \in Executors |-> IF i = 0 THEN B - n ELSE IF i = 1 THEN n ELSE 0]
    /\ inputEnd = [i \in Executors |-> FALSE]
    /\ aborting = [i \in Executors |-> FALSE]
    /\ passed   = [i \in Executors |-> IF i = 0 THEN n ELSE 0]
    /\ total    = [i \in Executors |-> IF i = 0 THEN n ELSE 0]
    /\ pc     = [i \in Executors |-> "wait"]
    /\ wFirst = [i \in Executors |-> 0]
    /\ wCnt   = [i \in Executors |-> 0]
    /\ wEnd   = [i \in Executors |-> FALSE]
    /\ wAbort = [i \in Executors |-> FALSE]
    /\ \E early \in SUBSET (JTUsers \cap {0}) :   \* the input during the preload
          /\ jtCompleted = early
          /\ jtRemaining = Cardinality(JTUsers) - Cardinality(early)
          /\ jtHighest   = 0
=============================================================================

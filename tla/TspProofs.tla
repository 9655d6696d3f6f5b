----------------------------- MODULE TspProofs -----------------------------
(***************************************************************************)
(* Proofs about the ring of executors of tsp, for any number of packet     *)
(* processors, any buffer size and any behaviour of the plugins.           *)
(***************************************************************************)
EXTENDS Tsp, FiniteSetTheorems, WellFoundedInduction, NaturalsInduction, TLAPS

USE DEF Executors, Processors, Slots

-----------------------------------------------------------------------------
(***************************************************************************)
(* Positions in the circular buffer.                                       *)
(***************************************************************************)
\* A position wraps at most once.
LEMMA ModWrap ==
    ASSUME NEW b \in Nat \ {0}, NEW a \in Nat, a < 2 * b
    PROVE  a % b = IF a < b THEN a ELSE a - b
  OBVIOUS

-----------------------------------------------------------------------------
(***************************************************************************)
(* The operations of PluginExecutor.                                       *)
(***************************************************************************)
Labels == {"wait", "blocked", "work", "limit", "send", "pass", "done"}

\* Signals leave the labels of the threads well-typed.
LEMMA SignalledType ==
    ASSUME pc \in [Executors -> Labels], NEW i, NEW next \in Labels, NEW S
    PROVE  Signalled(i, next, S) \in [Executors -> Labels]
  BY DEF Signalled, Labels

\* Types of the numbers which passPackets updates.
WindowTypes ==
    /\ pktFirst \in [Executors -> Slots]
    /\ pktCnt \in [Executors -> 0 .. B]
    /\ passed \in [Executors -> Nat]

\* The assertions of passPackets, for a call with this count by executor i.
CanPass(i, count) == count <= pktCnt[i] /\ pktFirst[i] + count <= B

\* The constants of the ring.
LEMMA Constants == N \in Nat /\ N >= 1 /\ B \in Nat /\ B >= 2
  BY RingAssumption

\* passPackets, called within its assertions, preserves the shape of the ring.
LEMMA PassRing ==
    ASSUME WindowTypes, RingInv,
           NEW i \in Executors, NEW count \in Nat, CanPass(i, count),
           NEW end, NEW abort, NEW next,
           PassPackets(i, count, end, abort, next)
    PROVE  RingInv' /\ WindowTypes'
<1>c. N \in Nat /\ N >= 1 /\ B \in Nat /\ B >= 2
  BY Constants
<1>n. RingNext(i) \in Executors /\ RingNext(i) # i
  BY <1>c DEF RingNext
<1>p. \A j \in Executors : passed[j] \in Nat
  BY DEF WindowTypes
<1>f. \A j \in Executors : pktFirst[j] \in 0 .. (B - 1)
  BY DEF WindowTypes
<1>q. \A j \in Executors : pktCnt[j] \in 0 .. B
  BY DEF WindowTypes
<1>1. passed' = [passed EXCEPT ![i] = passed[i] + count]
  BY DEF PassPackets
<1>2. \A j \in Executors : passed'[j] = IF j = i THEN passed[i] + count ELSE passed[j]
  BY <1>1 DEF WindowTypes
<1>3. passed' \in [Executors -> Nat]
  BY <1>1, <1>p DEF WindowTypes
<1>4. pktFirst' = [pktFirst EXCEPT ![i] = (pktFirst[i] + count) % B]
  BY DEF PassPackets, Advanced
<1>5. (pktFirst[i] + count) % B = IF pktFirst[i] + count = B THEN 0 ELSE pktFirst[i] + count
  <2>1. pktFirst[i] + count \in Nat /\ pktFirst[i] + count <= B
    BY <1>f, <1>c DEF CanPass
  <2>2. ASSUME NEW a \in Nat, a <= B PROVE a % B = IF a = B THEN 0 ELSE a
    <3>1. B \in Nat \ {0} /\ a < 2 * B
      BY <1>c, <2>2
    <3>2. a % B = IF a < B THEN a ELSE a - B
      BY <3>1, ModWrap
    <3> QED BY <3>2, <2>2, <1>c
  <2> QED BY <2>1, <2>2
<1>6. \A j \in Executors :
         pktFirst'[j] = IF j = i THEN IF pktFirst[i] + count = B THEN 0 ELSE pktFirst[i] + count
                        ELSE pktFirst[j]
  BY <1>4, <1>5 DEF WindowTypes
<1>7. pktFirst' \in [Executors -> Slots]
  <2>1. (pktFirst[i] + count) % B \in Slots
    BY <1>5, <1>f, <1>c DEF CanPass
  <2> QED BY <2>1, <1>4 DEF WindowTypes
<1>8. pktCnt' = [pktCnt EXCEPT ![i] = pktCnt[i] - count, ![RingNext(i)] = pktCnt[RingNext(i)] + count]
  BY <1>n DEF PassPackets, Moved, WindowTypes
<1>9. \A j \in Executors :
         pktCnt'[j] = IF j = i THEN pktCnt[i] - count
                      ELSE IF j = RingNext(i) THEN pktCnt[j] + count ELSE pktCnt[j]
  BY <1>8, <1>n DEF WindowTypes
<1>10. ASSUME NEW j \in Executors, NEW k \in Executors, j <= k
       PROVE  /\ Ahead(j, k)' \in 0 .. B
              /\ pktFirst'[j] \in {pktFirst'[k] + Ahead(j, k)', pktFirst'[k] + Ahead(j, k)' - B}
  <2>1. /\ passed[j] - passed[k] \in 0 .. B
        /\ pktFirst[j] \in {pktFirst[k] + (passed[j] - passed[k]),
                            pktFirst[k] + (passed[j] - passed[k]) - B}
    BY <1>10 DEF RingInv, Ahead
  <2>3. CASE j # i /\ k # i
    BY <2>3, <2>1, <1>2, <1>6 DEF Ahead
  <2>4. CASE j = i /\ k = i
    BY <2>4, <1>3, <1>7, <1>c DEF Ahead
  <2>5. CASE j = i /\ k # i
    <3>1. passed[i] - passed[k] + count <= B
      <4>1. CASE i = 0
        <5>1. pktCnt[0] = B - (passed[0] - passed[N])
          BY DEF RingInv, Ahead
        <5>2. passed[k] - passed[N] >= 0
          BY <1>c DEF RingInv, Ahead
        <5> QED BY <5>1, <5>2, <4>1, <1>p, <1>c DEF CanPass
      <4>2. CASE i # 0
        <5>1. pktCnt[i] = passed[i - 1] - passed[i] /\ i - 1 \in Executors
          BY <4>2, <1>c DEF RingInv, Ahead
        <5>2. passed[i - 1] - passed[k] <= B
          BY <5>1, <1>10, <2>5, <1>c DEF RingInv, Ahead
        <5> QED BY <5>1, <5>2, <1>p, <1>c DEF CanPass
      <4> QED BY <4>1, <4>2
    <3>2. pktFirst[k] \in 0 .. (B - 1) /\ pktFirst[i] \in 0 .. (B - 1)
      BY <1>f
    <3>3. passed[i] \in Nat /\ passed[k] \in Nat
      BY <1>p
    <3>4. passed'[j] = passed[i] + count /\ passed'[k] = passed[k]
      BY <1>2, <2>5
    <3>5. /\ pktFirst'[j] = IF pktFirst[i] + count = B THEN 0 ELSE pktFirst[i] + count
          /\ pktFirst'[k] = pktFirst[k]
      BY <1>6, <2>5
    <3> QED BY <3>1, <3>2, <3>3, <3>4, <3>5, <2>1, <2>5, <1>c DEF Ahead
  <2>6. CASE j # i /\ k = i
    <3>1. count <= passed[j] - passed[i]
      <4>1. i - 1 \in Executors /\ j <= i - 1 /\ i \in 1 .. N
        BY <2>6, <1>10, <1>c
      <4>2. pktCnt[i] = passed[i - 1] - passed[i]
        BY <4>1 DEF RingInv, Ahead
      <4>3. passed[j] - passed[i - 1] >= 0
        BY <4>1 DEF RingInv, Ahead
      <4> QED BY <4>1, <4>2, <4>3, <1>p DEF CanPass
    <3>2. pktFirst[j] \in 0 .. (B - 1) /\ pktFirst[i] \in 0 .. (B - 1)
      BY <1>f
    <3>3. passed[i] \in Nat /\ passed[j] \in Nat
      BY <1>p
    <3>4. passed'[j] = passed[j] /\ passed'[k] = passed[i] + count
      BY <1>2, <2>6
    <3>5. /\ pktFirst'[k] = IF pktFirst[i] + count = B THEN 0 ELSE pktFirst[i] + count
          /\ pktFirst'[j] = pktFirst[j]
      BY <1>6, <2>6
    <3> QED BY <3>1, <3>2, <3>3, <3>4, <3>5, <2>1, <2>6, <1>c DEF Ahead
  <2> QED BY <2>3, <2>4, <2>5, <2>6
<1>11. ASSUME NEW j \in 1 .. N PROVE pktCnt'[j] = Ahead(j - 1, j)'
  <2>0. j \in Executors /\ j - 1 \in Executors
    BY <1>c
  <2>1. pktCnt[j] = passed[j - 1] - passed[j]
    BY DEF RingInv, Ahead
  <2>2. j = RingNext(i) <=> i = j - 1
    BY <1>c DEF RingNext
  <2> QED BY <2>0, <2>1, <2>2, <1>2, <1>9, <1>p, <1>q, <1>n DEF Ahead
<1>12. pktCnt'[0] = B - Ahead(0, N)'
  <2>0. 0 \in Executors /\ N \in Executors /\ 0 # N
    BY <1>c
  <2>1. pktCnt[0] = B - (passed[0] - passed[N])
    BY DEF RingInv, Ahead
  <2>2. 0 = RingNext(i) <=> i = N
    BY <1>c DEF RingNext
  <2> QED BY <2>0, <2>1, <2>2, <1>2, <1>9, <1>p, <1>q, <1>n, <1>c DEF Ahead
<1>13. RingInv'
  BY <1>10, <1>11, <1>12 DEF RingInv
<1>14. pktCnt' \in [Executors -> 0 .. B]
  <2>1. ASSUME NEW j \in Executors PROVE pktCnt'[j] \in 0 .. B
    <3>1. CASE j = 0
      <4>1. Ahead(0, N)' \in 0 .. B
        BY <1>10, <1>c
      <4> QED BY <4>1, <3>1, <1>12, <1>c
    <3>2. CASE j # 0
      <4>1. j \in 1 .. N /\ j - 1 \in Executors
        BY <3>2, <1>c
      <4>2. Ahead(j - 1, j)' \in 0 .. B
        BY <1>10, <4>1
      <4> QED BY <4>1, <4>2, <1>11
    <3> QED BY <3>1, <3>2
  <2> QED BY <2>1, <1>8 DEF WindowTypes
<1> QED BY <1>3, <1>7, <1>13, <1>14 DEF WindowTypes

-----------------------------------------------------------------------------
(***************************************************************************)
(* The inductive invariant of the ring.                                    *)
(***************************************************************************)
LocalTypes ==
    /\ wFirst \in [Executors -> Slots]
    /\ wCnt \in [Executors -> 0 .. B]
    /\ done \in [Executors -> 0 .. B]
    /\ flush \in [Executors -> 0 .. B]
    /\ pc \in [Executors -> Labels]

FlagTypes ==
    /\ inputEnd \in [Executors -> BOOLEAN]
    /\ aborting \in [Executors -> BOOLEAN]
    /\ wEnd \in [Executors -> BOOLEAN]
    /\ wAbort \in [Executors -> BOOLEAN]

RingIInv == WindowTypes /\ LocalTypes /\ FlagTypes /\ RingInv /\ LocalInv /\ EndInv

\* The local variables of the thread of executor j do not change.
SameLocals(j) ==
    wFirst'[j] = wFirst[j] /\ wCnt'[j] = wCnt[j] /\ done'[j] = done[j] /\ flush'[j] = flush[j]

\* The thread of executor j stays where it is or is woken up.
SamePlace(j) == pc'[j] = pc[j] \/ (pc[j] = "blocked" /\ pc'[j] = "wait")

\* What a thread remembers is still right when the others only add to its window.
LEMMA LocalOther ==
    ASSUME NEW j \in Executors, Local(j), WindowTypes, LocalTypes,
           pktFirst'[j] = pktFirst[j], pktCnt'[j] \in Nat, pktCnt'[j] >= pktCnt[j],
           SameLocals(j), SamePlace(j)
    PROVE  Local(j)'
<1>1. /\ pktCnt[j] \in Nat /\ wCnt[j] \in Nat /\ done[j] \in Nat /\ flush[j] \in Nat
      /\ wFirst[j] \in Nat
  BY Constants DEF WindowTypes, LocalTypes
<1>2. CASE pc'[j] = pc[j]
  BY <1>1, <1>2, Constants DEF Local, SameLocals
<1>3. CASE pc[j] = "blocked" /\ pc'[j] = "wait"
  BY <1>3 DEF Local, SameLocals, Busy
<1> QED BY <1>2, <1>3 DEF SamePlace

\* passPackets by executor i keeps what the other threads remember.
LEMMA PassOther ==
    ASSUME WindowTypes, LocalTypes, LocalInv, WindowTypes',
           NEW i \in Executors, NEW count \in Nat,
           NEW end, NEW abort, NEW next,
           PassPackets(i, count, end, abort, next),
           NEW j \in Executors, j # i, SameLocals(j)
    PROVE  Local(j)'
<1>n. RingNext(i) \in Executors /\ RingNext(i) # i
  BY Constants DEF RingNext
<1>1. pktFirst'[j] = pktFirst[j]
  BY DEF PassPackets, WindowTypes
<1>2. pktCnt'[j] \in Nat /\ pktCnt[j] \in Nat
  BY Constants DEF WindowTypes
<1>3. pktCnt'[j] = pktCnt[j] \/ pktCnt'[j] = pktCnt[j] + count
  BY <1>n DEF PassPackets, Moved, WindowTypes
<1>4. pktCnt'[j] >= pktCnt[j]
  BY <1>2, <1>3
<1>5. SamePlace(j)
  BY DEF PassPackets, SamePlace, Signalled
<1>6. Local(j)
  BY DEF LocalInv
<1> QED BY <1>1, <1>2, <1>4, <1>5, <1>6, LocalOther

\* An executor which passes the end of input leaves its loop in the same step.
LEMMA PassEnd ==
    ASSUME FlagTypes, EndInv, NEW i \in Executors, pc[i] # "done",
           NEW count, NEW end \in BOOLEAN, NEW abort, NEW next, end => next = "done",
           PassPackets(i, count, end, abort, next)
    PROVE  EndInv'
<1> SUFFICES ASSUME NEW j \in Executors \ {N}, inputEnd'[j + 1]
             PROVE  pc'[j] = "done"
  BY DEF EndInv
<1>1. j + 1 \in Executors /\ RingNext(i) \in Executors
  BY Constants DEF RingNext
<1>2. inputEnd' = [inputEnd EXCEPT ![RingNext(i)] = inputEnd[RingNext(i)] \/ end]
  BY DEF PassPackets
<1>3. pc' = Signalled(i, next, (IF count > 0 \/ end THEN {RingNext(i)} ELSE {}) \cup
                               (IF PassAborts(i, abort) THEN {RingPrevious(i)} ELSE {}))
  BY DEF PassPackets
<1>4. CASE inputEnd[j + 1]
  <2>1. pc[j] = "done"
    BY <1>4 DEF EndInv
  <2> QED BY <2>1, <1>3 DEF Signalled
<1>5. CASE ~inputEnd[j + 1]
  <2>1. RingNext(i) = j + 1 /\ end
    BY <1>1, <1>2, <1>5 DEF FlagTypes
  <2>2. i = j
    BY <2>1, Constants DEF RingNext
  <2> QED BY <2>1, <2>2, <1>3 DEF Signalled
<1> QED BY <1>4, <1>5

\* The types of the flags and labels after passPackets.
LEMMA PassTypes ==
    ASSUME FlagTypes, LocalTypes, NEW i \in Executors,
           NEW count, NEW end \in BOOLEAN, NEW abort \in BOOLEAN, NEW next \in Labels,
           PassPackets(i, count, end, abort, next)
    PROVE  /\ inputEnd' \in [Executors -> BOOLEAN]
           /\ aborting' \in [Executors -> BOOLEAN]
           /\ pc' \in [Executors -> Labels]
<1>1. RingNext(i) \in Executors
  BY Constants DEF RingNext
<1>2. inputEnd' = [inputEnd EXCEPT ![RingNext(i)] = inputEnd[RingNext(i)] \/ end]
  BY DEF PassPackets
<1>3. inputEnd' \in [Executors -> BOOLEAN]
  BY <1>1, <1>2 DEF FlagTypes
<1>4. aborting' = [aborting EXCEPT ![i] = aborting[i] \/ PassAborts(i, abort)]
  BY DEF PassPackets
<1>5. aborting' \in [Executors -> BOOLEAN]
  BY <1>1, <1>4 DEF FlagTypes, PassAborts
<1>6. pc' \in [Executors -> Labels]
  BY SignalledType DEF PassPackets, LocalTypes
<1> QED BY <1>3, <1>5, <1>6

\* A step of thread i outside passPackets: it only has to establish its own local variables.
LEMMA LocalStep ==
    ASSUME RingIInv, NEW i \in Executors, UNCHANGED windowVars,
           LocalTypes', wEnd' \in [Executors -> BOOLEAN], wAbort' \in [Executors -> BOOLEAN],
           pc[i] # "done", Local(i)',
           \A j \in Executors \ {i} : SameLocals(j) /\ pc'[j] = pc[j]
    PROVE  RingIInv'
<1>1. WindowTypes' /\ FlagTypes'
  BY DEF RingIInv, WindowTypes, FlagTypes, windowVars
<1>2. RingInv'
  BY DEF RingIInv, RingInv, Ahead, windowVars
<1>3. EndInv'
  <2>1. \A j \in Executors \ {N} : inputEnd'[j + 1] => j # i
    BY DEF RingIInv, EndInv, windowVars
  <2> QED BY <2>1 DEF RingIInv, EndInv, windowVars
<1>4. ASSUME NEW j \in Executors PROVE Local(j)'
  <2>1. CASE j = i
    BY <2>1
  <2>2. CASE j # i
    <3>1. /\ pktFirst'[j] = pktFirst[j] /\ pktCnt'[j] = pktCnt[j] /\ pktCnt[j] \in Nat
      BY Constants DEF RingIInv, WindowTypes, windowVars
    <3>2. pktCnt'[j] >= pktCnt[j]
      BY <3>1
    <3>3. SameLocals(j) /\ SamePlace(j)
      BY <2>2 DEF SamePlace
    <3>4. Local(j) /\ WindowTypes /\ LocalTypes
      BY DEF RingIInv, LocalInv
    <3> QED BY <3>1, <3>2, <3>3, <3>4, LocalOther
  <2> QED BY <2>1, <2>2
<1> QED BY <1>1, <1>2, <1>3, <1>4 DEF RingIInv, LocalInv

LocalNumTypes ==
    /\ wFirst \in [Executors -> Slots]
    /\ wCnt \in [Executors -> 0 .. B]
    /\ done \in [Executors -> 0 .. B]
    /\ flush \in [Executors -> 0 .. B]

\* A step of thread i which calls passPackets within its assertions.
LEMMA PassStep ==
    ASSUME RingIInv, NEW i \in Executors, NEW count \in Nat, CanPass(i, count),
           NEW end \in BOOLEAN, NEW abort \in BOOLEAN, NEW next \in Labels,
           PassPackets(i, count, end, abort, next),
           pc[i] # "done", end => next = "done",
           LocalNumTypes', wEnd' \in [Executors -> BOOLEAN], wAbort' \in [Executors -> BOOLEAN],
           WindowTypes' => Local(i)',
           \A j \in Executors \ {i} : SameLocals(j)
    PROVE  RingIInv'
<1> USE DEF RingIInv
<1>1. RingInv' /\ WindowTypes'
  BY PassRing
<1>2. EndInv'
  BY PassEnd
<1>3. /\ inputEnd' \in [Executors -> BOOLEAN]
      /\ aborting' \in [Executors -> BOOLEAN]
      /\ pc' \in [Executors -> Labels]
  BY PassTypes
<1>4. FlagTypes' /\ LocalTypes'
  BY <1>3 DEF FlagTypes, LocalTypes, LocalNumTypes
<1>5. ASSUME NEW j \in Executors PROVE Local(j)'
  <2>1. CASE j = i
    BY <2>1, <1>1
  <2>2. CASE j # i
    BY <2>2, <1>1, PassOther
  <2> QED BY <2>1, <2>2
<1> QED BY <1>1, <1>2, <1>4, <1>5 DEF LocalInv

-----------------------------------------------------------------------------
(***************************************************************************)
(* The initial state and the steps of each thread.                         *)
(***************************************************************************)
\* The buffer which initAllBuffers leaves satisfies the invariant of the ring.
LEMMA InitRing == Init => RingIInv
<1> SUFFICES ASSUME Init PROVE RingIInv
  OBVIOUS
<1>c. N \in Nat /\ N >= 1 /\ B \in Nat /\ B >= 2
  BY Constants
<1>1. PICK n \in 1 .. MinOf(B \div 2, StreamLength) : InitAllBuffers(n)
  BY DEF Init
<1>2. n \in 1 .. (B - 1)
  <2>1. B \div 2 \in Nat /\ B \div 2 <= B - 1 /\ StreamLength \in Nat
    BY <1>c, TspAssumption
  <2> QED BY <2>1, <1>c DEF MinOf
<1>3. n % B = n
  <2>1. B \in Nat \ {0} /\ n \in Nat /\ n < B /\ n < 2 * B
    BY <1>2, <1>c
  <2>2. n % B = IF n < B THEN n ELSE n - B
    BY <2>1, ModWrap
  <2> QED BY <2>1, <2>2
<1>4. /\ pktFirst = [i \in Executors |-> IF i = 0 THEN n ELSE 0]
      /\ pktCnt   = [i \in Executors |-> IF i = 0 THEN B - n ELSE IF i = 1 THEN n ELSE 0]
      /\ passed   = [i \in Executors |-> IF i = 0 THEN n ELSE 0]
  BY <1>1, <1>3 DEF InitAllBuffers
<1>5. WindowTypes
  BY <1>4, <1>2, <1>c DEF WindowTypes
<1>6. FlagTypes
  BY <1>1 DEF FlagTypes, InitAllBuffers
<1>7. LocalTypes
  <2>1. /\ pc = [i \in Executors |-> "wait"]
        /\ wFirst = [i \in Executors |-> 0]
        /\ wCnt = [i \in Executors |-> 0]
    BY <1>1 DEF InitAllBuffers
  <2>2. done = [i \in Executors |-> 0] /\ flush = [i \in Executors |-> 0]
    BY DEF Init
  <2> QED BY <2>1, <2>2, <1>c DEF LocalTypes, Labels
<1>8. RingInv
  <2>1. ASSUME NEW i \in Executors, NEW j \in Executors, i <= j
        PROVE  /\ Ahead(i, j) \in 0 .. B
               /\ pktFirst[i] \in {pktFirst[j] + Ahead(i, j), pktFirst[j] + Ahead(i, j) - B}
    BY <2>1, <1>4, <1>2, <1>c DEF Ahead
  <2>2. ASSUME NEW i \in 1 .. N PROVE pktCnt[i] = Ahead(i - 1, i)
    BY <1>4, <1>2, <1>c DEF Ahead
  <2>3. pktCnt[0] = B - Ahead(0, N)
    BY <1>4, <1>2, <1>c DEF Ahead
  <2> QED BY <2>1, <2>2, <2>3 DEF RingInv
<1>9. LocalInv
  BY <1>1 DEF InitAllBuffers, Init, LocalInv, Local, Busy
<1>10. EndInv
  BY <1>1, <1>c DEF InitAllBuffers, EndInv
<1> QED BY <1>5, <1>6, <1>7, <1>8, <1>9, <1>10 DEF RingIInv

\* waitWork returns the front of the window, without wrapping over the end of the buffer.
LEMMA WaitWorkRing ==
    ASSUME RingIInv, NEW i \in Executors, WaitWork(i)
    PROVE  RingIInv'
<1>c. N \in Nat /\ N >= 1 /\ B \in Nat /\ B >= 2
  BY Constants
<1>t. /\ pktFirst[i] \in 0 .. (B - 1) /\ pktCnt[i] \in 0 .. B
      /\ done' = done /\ flush' = flush /\ UNCHANGED windowVars
  <2>1. pktFirst[i] \in 0 .. (B - 1) /\ pktCnt[i] \in 0 .. B
    BY DEF RingIInv, WindowTypes
  <2>2. UNCHANGED procVars /\ UNCHANGED windowVars
    BY DEF WaitWork, WaitWorkBlock, WaitWorkReturn
  <2> QED BY <2>1, <2>2 DEF procVars
<1>1. CASE WaitWorkBlock(i)
  <2>1. /\ pc[i] = "wait" /\ pc' = [pc EXCEPT ![i] = "blocked"] /\ UNCHANGED localVars
    BY <1>1 DEF WaitWorkBlock
  <2>2. LocalTypes' /\ wEnd' = wEnd /\ wAbort' = wAbort
    BY <2>1, <1>t DEF RingIInv, LocalTypes, localVars, Labels
  <2>3. \A j \in Executors \ {i} : SameLocals(j) /\ pc'[j] = pc[j]
    BY <2>1, <1>t DEF SameLocals, localVars, RingIInv, LocalTypes
  <2>4. Local(i)'
    BY <2>1, <1>t DEF Local, Busy, RingIInv, LocalInv, LocalTypes
  <2> QED BY <2>1, <2>2, <2>3, <2>4, <1>t, LocalStep DEF RingIInv, FlagTypes
<1>2. CASE WaitWorkReturn(i)
  <2>1. /\ pc[i] = "wait" /\ pc' = [pc EXCEPT ![i] = "work"]
        /\ wFirst' = [wFirst EXCEPT ![i] = pktFirst[i]]
        /\ wCnt' = [wCnt EXCEPT ![i] = ContiguousCnt(i)]
    BY <1>2 DEF WaitWorkReturn
  <2>2. ContiguousCnt(i) \in 0 .. pktCnt[i] /\ pktFirst[i] + ContiguousCnt(i) <= B
    BY <1>t, <1>c DEF ContiguousCnt, MinOf
  <2>3. ContiguousCnt(i) \in 0 .. B
    BY <2>2, <1>t, <1>c
  <2>4. LocalTypes'
    BY <2>1, <2>3, <1>t DEF RingIInv, LocalTypes, Labels
  <2>5. wEnd' \in [Executors -> BOOLEAN] /\ wAbort' \in [Executors -> BOOLEAN]
    <3>1. wEnd' = [wEnd EXCEPT ![i] = inputEnd[i] /\ ContiguousCnt(i) = pktCnt[i]]
      BY <1>2 DEF WaitWorkReturn, IsLastPart
    <3>2. wAbort' = [wAbort EXCEPT ![i] = aborting[RingNext(i)]]
      BY <1>2 DEF WaitWorkReturn
    <3>3. aborting[RingNext(i)] \in BOOLEAN
      BY <1>c DEF RingIInv, FlagTypes, RingNext
    <3> QED BY <3>1, <3>2, <3>3 DEF RingIInv, FlagTypes
  <2>6. \A j \in Executors \ {i} : SameLocals(j) /\ pc'[j] = pc[j]
    BY <2>1, <1>t DEF SameLocals, RingIInv, LocalTypes
  <2>7. Local(i)'
    <3>1. /\ done'[i] = 0 /\ flush'[i] = 0 /\ pc'[i] = "work"
          /\ wFirst'[i] = pktFirst[i] /\ wCnt'[i] = ContiguousCnt(i)
          /\ pktFirst'[i] = pktFirst[i] /\ pktCnt'[i] = pktCnt[i]
      BY <2>1, <1>t DEF RingIInv, LocalInv, Local, LocalTypes, windowVars
    <3> QED BY <3>1, <2>2, <1>t, <1>c DEF Local
  <2> QED BY <2>1, <2>4, <2>5, <2>6, <2>7, <1>t, LocalStep
<1> QED BY <1>1, <1>2 DEF WaitWork

\* Types of the counters of the input thread.
InputTypes ==
    /\ received \in 0 .. StreamLength
    /\ stopRemain \in 0 .. StopStuffing

\* The input never gets nor adds more packets than what waitWork returned.
LEMMA ReceiveBound ==
    ASSUME RingIInv, InputTypes,
           NEW n \in IF pluginCompleted THEN {0} ELSE 0 .. MinOf(PktMax, StreamLength - received),
           NEW stuffed, stuffed = IF n = 0 THEN MinOf(stopRemain, PktMax - n) ELSE 0
    PROVE  /\ n \in Nat /\ stuffed \in Nat /\ n + stuffed <= wCnt[0]
           /\ received + n <= StreamLength
           /\ stuffed <= stopRemain
<1>1. wCnt[0] \in Nat /\ MaxInputPkt \in Nat /\ StreamLength \in Nat /\ StopStuffing \in Nat
  BY Constants, TspAssumption DEF RingIInv, LocalTypes
<1>2. PktMax \in Nat /\ PktMax <= wCnt[0]
  BY <1>1 DEF PktMax
<1>3. n \in Nat /\ n <= PktMax /\ received + n <= StreamLength
  BY <1>1, <1>2 DEF InputTypes, MinOf
<1>4. stuffed \in Nat /\ stuffed <= PktMax - n /\ stuffed <= stopRemain
  BY <1>1, <1>2, <1>3 DEF InputTypes, MinOf
<1> QED BY <1>1, <1>2, <1>3, <1>4

\* The steps of the input thread.
LEMMA InputRing ==
    ASSUME RingIInv, InputTypes, Input
    PROVE  RingIInv' /\ InputTypes'
<1>c. N \in Nat /\ N >= 1 /\ B \in Nat /\ B >= 2 /\ 0 \in Executors /\ 0 # N
  BY Constants
<1>t. /\ wFirst[0] \in 0 .. (B - 1) /\ wCnt[0] \in 0 .. B /\ flush[0] \in 0 .. B
      /\ wEnd[0] \in BOOLEAN /\ Local(0)
  BY <1>c DEF RingIInv, LocalTypes, FlagTypes, LocalInv
<1>1. CASE InputGiveUp
  <2>1. /\ pc[0] = "work" /\ pc' = [pc EXCEPT ![0] = "done"]
        /\ UNCHANGED <<windowVars, localVars, procVars, inputVars>>
    BY <1>1 DEF InputGiveUp
  <2>2. LocalTypes' /\ wEnd' = wEnd /\ wAbort' = wAbort
    BY <2>1 DEF RingIInv, LocalTypes, localVars, procVars, Labels
  <2>3. \A j \in Executors \ {0} : SameLocals(j) /\ pc'[j] = pc[j]
    BY <2>1 DEF SameLocals, localVars, procVars, RingIInv, LocalTypes
  <2>4. pc'[0] = "done"
    BY <2>1, <1>c DEF RingIInv, LocalTypes
  <2>5. Local(0)'
    BY <2>4 DEF Local, Busy
  <2>6. RingIInv'
    BY <2>1, <2>2, <2>3, <2>5, <1>c, LocalStep DEF RingIInv, FlagTypes
  <2> QED BY <2>1, <2>6 DEF InputTypes, inputVars
<1>2. CASE InputReceive
  <2>1. PICK n \in IF pluginCompleted THEN {0} ELSE 0 .. MinOf(PktMax, StreamLength - received) :
           LET stuffed == IF n = 0 THEN MinOf(stopRemain, PktMax - n) ELSE 0
           IN /\ received' = received + n
              /\ stopRemain' = stopRemain - stuffed
              /\ flush' = [flush EXCEPT ![0] = n + stuffed]
              /\ wEnd' = [wEnd EXCEPT ![0] = (n = 0) /\ stopRemain' = 0]
    BY <1>2 DEF InputReceive
  <2> DEFINE stuffed == IF n = 0 THEN MinOf(stopRemain, PktMax - n) ELSE 0
  <2>2. /\ n \in Nat /\ stuffed \in Nat /\ n + stuffed <= wCnt[0]
        /\ received + n <= StreamLength /\ stuffed <= stopRemain
    BY ReceiveBound
  <2>3. /\ received' = received + n /\ stopRemain' = stopRemain - stuffed
        /\ flush' = [flush EXCEPT ![0] = n + stuffed]
    BY <2>1
  <2>4. wEnd' = [wEnd EXCEPT ![0] = (n = 0) /\ stopRemain' = 0]
    BY <2>1
  <2> HIDE DEF stuffed
  <2>5. InputTypes'
    BY <2>2, <2>3, TspAssumption DEF InputTypes
  <2>6. /\ pc[0] = "work" /\ pc' = [pc EXCEPT ![0] = "pass"]
        /\ wFirst' = wFirst /\ wCnt' = wCnt /\ wAbort' = wAbort /\ done' = done
        /\ UNCHANGED windowVars
    BY <1>2 DEF InputReceive
  <2>7. n + stuffed \in 0 .. B
    BY <2>2, <1>t, <1>c
  <2>8. LocalTypes'
    BY <2>3, <2>6, <2>7 DEF RingIInv, LocalTypes, Labels
  <2>9. wEnd' \in [Executors -> BOOLEAN] /\ wAbort' \in [Executors -> BOOLEAN]
    BY <2>4, <2>6 DEF RingIInv, FlagTypes
  <2>10. \A j \in Executors \ {0} : SameLocals(j) /\ pc'[j] = pc[j]
    BY <2>3, <2>6 DEF SameLocals, RingIInv, LocalTypes
  <2>11. Local(0)'
    <3>1. /\ pc'[0] = "pass" /\ flush'[0] = n + stuffed /\ done'[0] = done[0]
          /\ wFirst'[0] = wFirst[0] /\ wCnt'[0] = wCnt[0]
          /\ pktFirst'[0] = pktFirst[0] /\ pktCnt'[0] = pktCnt[0]
      BY <2>3, <2>6, <1>c DEF RingIInv, LocalTypes, windowVars
    <3>2. /\ wFirst[0] + wCnt[0] <= B /\ done[0] = 0 /\ done[0] <= wCnt[0]
          /\ pktFirst[0] = wFirst[0] /\ wCnt[0] <= pktCnt[0]
      BY <2>6, <1>t DEF Local, Busy
    <3> QED BY <3>1, <3>2, <2>2, <1>c DEF Local
  <2> QED BY <2>5, <2>6, <2>8, <2>9, <2>10, <2>11, <1>c, LocalStep
<1>3. CASE InputPass
  <2> DEFINE next == IF wEnd[0] THEN "done" ELSE "wait"
  <2>1. /\ pc[0] = "pass" /\ PassPackets(0, flush[0], wEnd[0], FALSE, next)
        /\ flush' = [flush EXCEPT ![0] = 0] /\ done' = done
        /\ UNCHANGED <<localVars, inputVars>>
    BY <1>3 DEF InputPass
  <2>2. next \in Labels /\ (wEnd[0] => next = "done") /\ next \notin Busy
    BY <1>t DEF Labels, Busy
  <2> HIDE DEF next
  <2>3. /\ flush[0] <= wCnt[0] /\ wFirst[0] + wCnt[0] <= B /\ done[0] = 0
        /\ pktFirst[0] = wFirst[0] /\ wCnt[0] <= pktCnt[0]
    BY <2>1, <1>t DEF Local, Busy
  <2>4. pktCnt[0] \in 0 .. B
    BY <1>c DEF RingIInv, WindowTypes
  <2>5. CanPass(0, flush[0])
    BY <2>3, <2>4, <1>t, <1>c DEF CanPass
  <2>6. LocalNumTypes' /\ wEnd' = wEnd /\ wAbort' = wAbort
    <3>1. 0 \in 0 .. B
      BY <1>c
    <3>2. flush' \in [Executors -> 0 .. B]
      BY <2>1, <3>1 DEF RingIInv, LocalTypes
    <3> QED BY <2>1, <3>2 DEF RingIInv, LocalTypes, LocalNumTypes, localVars
  <2>7. \A j \in Executors \ {0} : SameLocals(j)
    BY <2>1 DEF SameLocals, localVars, RingIInv, LocalTypes
  <2>8. pc'[0] = next /\ done'[0] = 0 /\ flush'[0] = 0
    BY <2>1, <2>3, <1>c DEF PassPackets, Signalled, RingIInv, LocalTypes
  <2>9. Local(0)'
    BY <2>8, <2>2 DEF Local, Busy
  <2>10. flush[0] \in Nat /\ wEnd[0] \in BOOLEAN
    BY <1>t
  <2>11. wEnd' \in [Executors -> BOOLEAN] /\ wAbort' \in [Executors -> BOOLEAN]
    BY <2>6 DEF RingIInv, FlagTypes
  <2>12. RingIInv'
    BY <2>1, <2>2, <2>5, <2>6, <2>7, <2>9, <2>10, <2>11, <1>c, PassStep
  <2> QED BY <2>1, <2>12 DEF InputTypes, inputVars
<1> QED BY <1>1, <1>2, <1>3 DEF Input

\* A processor which passes the end of input without packet.
LEMMA ProcessorStop ==
    ASSUME RingIInv, NEW i \in Executors, NEW abort \in BOOLEAN, pc[i] = "work",
           PassPackets(i, 0, TRUE, abort, "done"), UNCHANGED <<localVars, procVars>>
    PROVE  RingIInv'
<1>1. CanPass(i, 0)
  BY Constants DEF CanPass, RingIInv, WindowTypes
<1>2. LocalNumTypes' /\ wEnd' = wEnd /\ wAbort' = wAbort
  BY DEF RingIInv, LocalTypes, LocalNumTypes, localVars, procVars
<1>3. wEnd' \in [Executors -> BOOLEAN] /\ wAbort' \in [Executors -> BOOLEAN]
  BY <1>2 DEF RingIInv, FlagTypes
<1>4. \A j \in Executors \ {i} : SameLocals(j)
  BY DEF SameLocals, localVars, procVars
<1>5. pc'[i] = "done"
  BY DEF PassPackets, Signalled
<1>6. Local(i)'
  BY <1>5 DEF Local, Busy
<1>7. "done" \in Labels /\ 0 \in Nat /\ TRUE \in BOOLEAN /\ pc[i] # "done"
  BY DEF Labels
<1> QED BY <1>1, <1>2, <1>3, <1>4, <1>6, <1>7, PassStep

\* One packet processed: the thread advances inside what waitWork returned.
LEMMA ProcessPacketRing ==
    ASSUME RingIInv, NEW i \in Processors, ProcessPacket(i)
    PROVE  RingIInv'
<1>c. N \in Nat /\ N >= 1 /\ B \in Nat /\ B >= 2 /\ i \in Executors /\ i # 0 /\ i # N
  BY Constants
<1>t. /\ wFirst[i] \in 0 .. (B - 1) /\ wCnt[i] \in 0 .. B /\ flush[i] \in 0 .. B
      /\ done[i] \in 0 .. B /\ pktFirst[i] \in 0 .. (B - 1) /\ pktCnt[i] \in 0 .. B
  BY <1>c DEF RingIInv, LocalTypes, WindowTypes
<1>1. /\ pc[i] = "work" /\ done[i] < wCnt[i] /\ UNCHANGED windowVars /\ wFirst' = wFirst
  BY DEF ProcessPacket
<1>2. /\ wFirst[i] + wCnt[i] <= B /\ flush[i] <= done[i]
      /\ pktFirst[i] = wFirst[i] + done[i] - flush[i]
      /\ wCnt[i] - done[i] + flush[i] <= pktCnt[i]
  BY <1>1, <1>c DEF RingIInv, LocalInv, Local, Busy
<1>3. PICK end \in BOOLEAN, label \in {"work", "pass"} :
         LET nDone == IF end THEN done[i] ELSE done[i] + 1
         IN /\ done'   = [done EXCEPT ![i] = nDone]
            /\ flush'  = [flush EXCEPT ![i] = IF end THEN flush[i] ELSE flush[i] + 1]
            /\ wCnt'   = [wCnt EXCEPT ![i] = IF end THEN nDone ELSE wCnt[i]]
            /\ wEnd'   = [wEnd EXCEPT ![i] = wEnd[i] \/ end]
            /\ wAbort' = [wAbort EXCEPT ![i] = end]
            /\ pc' = [pc EXCEPT ![i] = label]
  <2>1. PICK status, request :
           LET nEnd   == status = "END"
               nDone  == IF nEnd THEN done[i] ELSE done[i] + 1
               nFlush == IF nEnd THEN flush[i] ELSE flush[i] + 1
               nCnt   == IF nEnd THEN nDone ELSE wCnt[i]
           IN /\ done'   = [done EXCEPT ![i] = nDone]
              /\ flush'  = [flush EXCEPT ![i] = nFlush]
              /\ wCnt'   = [wCnt EXCEPT ![i] = nCnt]
              /\ wEnd'   = [wEnd EXCEPT ![i] = wEnd[i] \/ nEnd]
              /\ wAbort' = [wAbort EXCEPT ![i] = nEnd]
              /\ pc' = [pc EXCEPT ![i] =
                           IF MustFlush(i, nDone, nCnt, nFlush, request) THEN "pass" ELSE "work"]
    BY DEF ProcessPacket
  <2> DEFINE nEnd   == status = "END"
             nDone  == IF nEnd THEN done[i] ELSE done[i] + 1
             nFlush == IF nEnd THEN flush[i] ELSE flush[i] + 1
             nCnt   == IF nEnd THEN nDone ELSE wCnt[i]
             must   == IF MustFlush(i, nDone, nCnt, nFlush, request) THEN "pass" ELSE "work"
  <2> nEnd \in BOOLEAN /\ must \in {"work", "pass"}
    OBVIOUS
  <2> WITNESS nEnd \in BOOLEAN, must \in {"work", "pass"}
  <2> QED BY <2>1
<1> DEFINE nDone  == IF end THEN done[i] ELSE done[i] + 1
           nFlush == IF end THEN flush[i] ELSE flush[i] + 1
           nCnt   == IF end THEN nDone ELSE wCnt[i]
<1>4. /\ nDone \in 0 .. B /\ nFlush \in 0 .. B /\ nCnt \in 0 .. B /\ nDone <= nCnt
      /\ nFlush <= nDone /\ wFirst[i] + nCnt <= B
      /\ pktFirst[i] = wFirst[i] + nDone - nFlush
      /\ nCnt - nDone + nFlush <= pktCnt[i]
  <2>1. done[i] < wCnt[i]
    BY <1>1
  <2>2. CASE end
    BY <2>1, <2>2, <1>2, <1>t, <1>c
  <2>3. CASE ~end
    <3>1. nDone = done[i] + 1 /\ nFlush = flush[i] + 1 /\ nCnt = wCnt[i]
      BY <2>3
    <3> QED BY <3>1, <2>1, <1>2, <1>t, <1>c
  <2> QED BY <2>2, <2>3
<1>5. /\ done' = [done EXCEPT ![i] = nDone] /\ flush' = [flush EXCEPT ![i] = nFlush]
      /\ wCnt' = [wCnt EXCEPT ![i] = nCnt] /\ pc' = [pc EXCEPT ![i] = label]
  BY <1>3
<1>6. label \in {"work", "pass"}
  OBVIOUS
<1> HIDE DEF nDone, nFlush, nCnt
<1>7. LocalTypes'
  BY <1>1, <1>4, <1>5, <1>6 DEF RingIInv, LocalTypes, Labels
<1>8. wEnd' \in [Executors -> BOOLEAN] /\ wAbort' \in [Executors -> BOOLEAN]
  BY <1>3 DEF RingIInv, FlagTypes
<1>9. \A j \in Executors \ {i} : SameLocals(j) /\ pc'[j] = pc[j]
  BY <1>1, <1>5 DEF SameLocals, RingIInv, LocalTypes
<1>10. Local(i)'
  <2>1. /\ pc'[i] = label /\ flush'[i] = nFlush /\ done'[i] = nDone /\ wCnt'[i] = nCnt
        /\ wFirst'[i] = wFirst[i] /\ pktFirst'[i] = pktFirst[i] /\ pktCnt'[i] = pktCnt[i]
    BY <1>1, <1>5, <1>c DEF RingIInv, LocalTypes, windowVars
  <2> QED BY <2>1, <1>4, <1>6, <1>c DEF Local
<1> QED BY <1>1, <1>7, <1>8, <1>9, <1>10, <1>c, LocalStep

\* What PassPackets leaves of the window of the executor which calls it.
LEMMA PassOwnWindow ==
    ASSUME RingIInv, NEW i \in Executors, NEW count \in Nat, CanPass(i, count),
           NEW end, NEW abort, NEW next, PassPackets(i, count, end, abort, next)
    PROVE  /\ pktCnt'[i] = pktCnt[i] - count
           /\ pktFirst'[i] = IF pktFirst[i] + count = B THEN 0 ELSE pktFirst[i] + count
           /\ pc'[i] = next
<1>1. RingNext(i) \in Executors /\ RingNext(i) # i
  BY Constants DEF RingNext
<1>2. pktCnt'[i] = pktCnt[i] - count
  BY <1>1 DEF PassPackets, Moved, RingIInv, WindowTypes
<1>3. pktFirst'[i] = (pktFirst[i] + count) % B
  BY DEF PassPackets, Advanced, RingIInv, WindowTypes
<1>4. pktFirst[i] \in Nat /\ pktFirst[i] + count <= B
  BY Constants DEF CanPass, RingIInv, WindowTypes
<1>5. ASSUME NEW a \in Nat, a <= B PROVE a % B = IF a = B THEN 0 ELSE a
  <2>1. B \in Nat \ {0} /\ a < 2 * B
    BY Constants, <1>5
  <2>2. a % B = IF a < B THEN a ELSE a - B
    BY <2>1, ModWrap
  <2> QED BY <2>2, <1>5, Constants
<1>6. (pktFirst[i] + count) % B = IF pktFirst[i] + count = B THEN 0 ELSE pktFirst[i] + count
  BY <1>4, <1>5
<1>7. pc'[i] = next
  BY DEF PassPackets, Signalled
<1> QED BY <1>2, <1>3, <1>6, <1>7

\* A processor flushes the packets it has treated.
LEMMA ProcessorPassRing ==
    ASSUME RingIInv, NEW i \in Processors, ProcessorPass(i)
    PROVE  RingIInv'
<1>c. N \in Nat /\ N >= 1 /\ B \in Nat /\ B >= 2 /\ i \in Executors /\ i # 0 /\ i # N
  BY Constants
<1>t. /\ wFirst[i] \in 0 .. (B - 1) /\ wCnt[i] \in 0 .. B /\ flush[i] \in 0 .. B
      /\ done[i] \in 0 .. B /\ pktFirst[i] \in 0 .. (B - 1) /\ pktCnt[i] \in 0 .. B
  BY <1>c DEF RingIInv, LocalTypes, WindowTypes
<1> DEFINE end  == done[i] = wCnt[i] /\ wEnd[i]
           stop == MustStop(i, end, wAbort[i])
           more == done[i] < wCnt[i] /\ ~stop
           next == IF more THEN "work" ELSE IF stop THEN "done" ELSE "wait"
           left == IF more THEN done[i] ELSE 0
<1>1. /\ pc[i] = "pass"
      /\ PassPackets(i, flush[i], end, wAbort[i], next)
      /\ wAbort' = [wAbort EXCEPT ![i] = stop]
      /\ done' = [done EXCEPT ![i] = IF more THEN @ ELSE 0]
      /\ flush' = [flush EXCEPT ![i] = 0]
      /\ wFirst' = wFirst /\ wCnt' = wCnt /\ wEnd' = wEnd
  BY DEF ProcessorPass
<1>2. done' = [done EXCEPT ![i] = left]
  BY <1>1
<1>3. /\ wFirst[i] + wCnt[i] <= B /\ flush[i] <= done[i] /\ done[i] <= wCnt[i]
      /\ pktFirst[i] = wFirst[i] + done[i] - flush[i]
      /\ wCnt[i] - done[i] + flush[i] <= pktCnt[i]
  BY <1>1, <1>c DEF RingIInv, LocalInv, Local, Busy
<1>4. wAbort[i] \in BOOLEAN /\ wEnd[i] \in BOOLEAN /\ aborting[RingNext(i)] \in BOOLEAN
  BY <1>c DEF RingIInv, FlagTypes, RingNext
<1>5. end \in BOOLEAN /\ stop \in BOOLEAN
  BY <1>4 DEF MustStop, PassAborts
<1>6. end => stop
  BY <1>4 DEF MustStop
<1>7. next \in Labels /\ (end => next = "done")
  BY <1>6 DEF Labels
<1>8. left \in 0 .. B /\ (more => left = done[i]) /\ (~more => left = 0)
  BY <1>t, <1>c
<1>9. /\ next = "work" => left = done[i] /\ done[i] < wCnt[i]
      /\ next # "work" => left = 0 /\ next \in {"wait", "done"}
  OBVIOUS
<1> HIDE DEF end, stop, more, next, left
<1>10. CanPass(i, flush[i])
  BY <1>3, <1>t, <1>c DEF CanPass
<1>11. LocalNumTypes'
  <2>1. 0 \in 0 .. B
    BY <1>c
  <2> QED BY <1>1, <1>2, <1>8, <2>1 DEF RingIInv, LocalTypes, LocalNumTypes
<1>12. wEnd' \in [Executors -> BOOLEAN] /\ wAbort' \in [Executors -> BOOLEAN]
  BY <1>1, <1>5 DEF RingIInv, FlagTypes
<1>13. \A j \in Executors \ {i} : SameLocals(j)
  BY <1>1, <1>2 DEF SameLocals, RingIInv, LocalTypes
<1>14. Local(i)'
  <2>1. /\ done'[i] = left /\ flush'[i] = 0 /\ wCnt'[i] = wCnt[i] /\ wFirst'[i] = wFirst[i]
    BY <1>1, <1>2, <1>c DEF RingIInv, LocalTypes
  <2>2. /\ pktCnt'[i] = pktCnt[i] - flush[i]
        /\ pktFirst'[i] = IF pktFirst[i] + flush[i] = B THEN 0 ELSE pktFirst[i] + flush[i]
        /\ pc'[i] = next
    BY <1>1, <1>10, <1>t, <1>c, PassOwnWindow
  <2>3. CASE next = "work"
    <3>1. pktFirst[i] + flush[i] = wFirst[i] + done[i] /\ pktFirst[i] + flush[i] < B
      BY <2>3, <1>9, <1>3, <1>t, <1>c
    <3>2. pktFirst'[i] = wFirst[i] + done[i]
      BY <2>2, <3>1, <1>t, <1>c
    <3>3. wCnt[i] - done[i] <= pktCnt[i] - flush[i]
      BY <1>3, <1>t, <1>c
    <3> QED BY <2>1, <2>2, <2>3, <3>2, <3>3, <1>3, <1>9, <1>t, <1>c DEF Local
  <2>4. CASE next # "work"
    BY <2>1, <2>2, <2>4, <1>9 DEF Local, Busy
  <2> QED BY <2>3, <2>4
<1>15. pc[i] # "done" /\ flush[i] \in Nat /\ wAbort[i] \in BOOLEAN
  BY <1>1, <1>t, <1>4
<1> QED BY <1>1, <1>5, <1>7, <1>10, <1>11, <1>12, <1>13, <1>14, <1>15, <1>c, PassStep

\* The steps of the thread of a packet processor.
LEMMA ProcessorRing ==
    ASSUME RingIInv, NEW i \in Processors, Processor(i)
    PROVE  RingIInv'
<1>1. i \in Executors
  BY Constants
<1>2. CASE ProcessorGiveUp(i)
  BY <1>1, <1>2, ProcessorStop DEF ProcessorGiveUp
<1>3. CASE ProcessorEnd(i)
  BY <1>1, <1>3, ProcessorStop DEF ProcessorEnd
<1> QED BY <1>2, <1>3, ProcessPacketRing, ProcessorPassRing DEF Processor

\* Types of the counters of joint termination.
JointTypes ==
    /\ total \in [Executors -> Nat]
    /\ jtHighest \in Nat

\* A segment of packets to send lies inside what the output has left to do.
LEMMA SegmentBound ==
    ASSUME RingIInv, NEW d \in 0 .. wCnt[N], NEW o \in 0 .. wCnt[N], IsSegment(d, o)
    PROVE  d \in Nat /\ o \in Nat /\ done[N] + d + o <= wCnt[N]
<1>1. wCnt[N] \in Nat /\ done[N] \in Nat
  BY Constants DEF RingIInv, LocalTypes
<1> QED BY <1>1 DEF IsSegment

\* The output moves to another label of its loop; it keeps a prefix of what waitWork returned.
LEMMA OutputMove ==
    ASSUME RingIInv, pc[N] \in Busy, UNCHANGED windowVars,
           wFirst' = wFirst, flush' = flush, wEnd' = wEnd, wAbort' \in [Executors -> BOOLEAN],
           NEW cnt \in Nat, cnt <= wCnt[N], wCnt' = [wCnt EXCEPT ![N] = cnt],
           NEW d \in Nat, d <= cnt, done' = [done EXCEPT ![N] = d],
           NEW label \in Busy \cup {"done"}, pc' = [pc EXCEPT ![N] = label],
           label \in {"work", "limit"} => d = 0
    PROVE  RingIInv'
<1>c. N \in Nat /\ N >= 1 /\ B \in Nat /\ B >= 2 /\ N \in Executors /\ N # 0
  BY Constants
<1>t. wFirst[N] \in 0 .. (B - 1) /\ wCnt[N] \in 0 .. B /\ pktCnt[N] \in 0 .. B
  BY <1>c DEF RingIInv, LocalTypes, WindowTypes
<1>1. cnt \in 0 .. B /\ d \in 0 .. B
  BY <1>t, <1>c
<1>2. LocalTypes'
  BY <1>1 DEF RingIInv, LocalTypes, Labels, Busy
<1>3. \A j \in Executors \ {N} : SameLocals(j) /\ pc'[j] = pc[j]
  BY DEF SameLocals, RingIInv, LocalTypes
<1>4. Local(N)'
  <2>1. /\ pc'[N] = label /\ done'[N] = d /\ wCnt'[N] = cnt /\ wFirst'[N] = wFirst[N]
        /\ flush'[N] = flush[N] /\ pktFirst'[N] = pktFirst[N] /\ pktCnt'[N] = pktCnt[N]
    BY <1>c DEF RingIInv, LocalTypes, windowVars
  <2>2. /\ wFirst[N] + wCnt[N] <= B /\ flush[N] = 0
        /\ pktFirst[N] = wFirst[N] /\ wCnt[N] <= pktCnt[N]
    BY <1>c DEF RingIInv, LocalInv, Local
  <2>3. wFirst[N] + cnt <= B /\ cnt <= pktCnt[N]
    BY <2>2, <1>t, <1>c
  <2>4. label \notin {"wait", "blocked"}
    BY DEF Busy
  <2> QED BY <2>1, <2>2, <2>3, <2>4, <1>c DEF Local
<1>5. pc[N] # "done" /\ wEnd' \in [Executors -> BOOLEAN]
  BY DEF Busy, RingIInv, FlagTypes
<1> QED BY <1>2, <1>3, <1>4, <1>5, <1>c, LocalStep

\* The steps of the output thread.
LEMMA OutputRing ==
    ASSUME RingIInv, JointTypes, Output
    PROVE  RingIInv'
<1>c. N \in Nat /\ N >= 1 /\ B \in Nat /\ B >= 2 /\ N \in Executors /\ N # 0
  BY Constants
<1>t. /\ wFirst[N] \in 0 .. (B - 1) /\ wCnt[N] \in Nat /\ wCnt[N] <= B /\ done[N] \in Nat
      /\ pktCnt[N] \in 0 .. B
  BY <1>c DEF RingIInv, LocalTypes, WindowTypes
<1>f. wAbort \in [Executors -> BOOLEAN] /\ aborting[N] \in BOOLEAN /\ wAbort[N] \in BOOLEAN
  BY <1>c DEF RingIInv, FlagTypes
<1>w. wCnt = [wCnt EXCEPT ![N] = wCnt[N]] /\ done = [done EXCEPT ![N] = done[N]]
  BY DEF RingIInv, LocalTypes
<1>d. /\ pc[N] \in Busy => done[N] <= wCnt[N]
      /\ pc[N] \in {"work", "limit"} => done[N] = 0
  BY <1>c DEF RingIInv, LocalInv, Local, Busy
<1>1. CASE OutputCheck
  <2>1. PICK label \in {"done", "limit"} : pc' = [pc EXCEPT ![N] = label]
    BY <1>1 DEF OutputCheck
  <2>2. /\ pc[N] = "work" /\ wAbort' = [wAbort EXCEPT ![N] = aborting[N]]
        /\ UNCHANGED windowVars /\ wFirst' = wFirst /\ wEnd' = wEnd /\ wCnt' = wCnt
        /\ done' = done /\ flush' = flush
    BY <1>1 DEF OutputCheck, procVars
  <2>3. label \in Busy \cup {"done"} /\ pc[N] \in Busy
    BY <2>2 DEF Busy
  <2>4. wAbort' \in [Executors -> BOOLEAN]
    BY <2>2, <1>f
  <2>5. done[N] = 0 /\ done[N] <= wCnt[N]
    BY <2>2, <2>3, <1>d
  <2>6. wCnt' = [wCnt EXCEPT ![N] = wCnt[N]] /\ done' = [done EXCEPT ![N] = done[N]]
    BY <2>2, <1>w
  <2>7. label \in {"work", "limit"} => done[N] = 0
    BY <2>5
  <2>8. UNCHANGED windowVars /\ wFirst' = wFirst /\ flush' = flush /\ wEnd' = wEnd
    BY <2>2
  <2> DEFINE cnt == wCnt[N]
             d   == done[N]
  <2>9. /\ cnt \in Nat /\ cnt <= wCnt[N] /\ d \in Nat /\ d <= cnt
        /\ wCnt' = [wCnt EXCEPT ![N] = cnt] /\ done' = [done EXCEPT ![N] = d]
        /\ label \in {"work", "limit"} => d = 0
    BY <2>5, <2>6, <2>7, <1>t
  <2> HIDE DEF cnt, d
  <2> QED BY <2>1, <2>3, <2>4, <2>8, <2>9, OutputMove
<1>2. CASE OutputLimit
  <2> DEFINE over == OverLimit
             cnt  == LimitedCnt
             label == IF cnt = 0 THEN "pass" ELSE "send"
  <2>1. /\ pc[N] = "limit" /\ wCnt' = [wCnt EXCEPT ![N] = cnt]
        /\ wAbort' = [wAbort EXCEPT ![N] = @ \/ over]
        /\ pc' = [pc EXCEPT ![N] = label]
        /\ UNCHANGED windowVars /\ wFirst' = wFirst /\ wEnd' = wEnd
        /\ done' = done /\ flush' = flush
    BY <1>2 DEF OutputLimit, procVars
  <2>2. total[N] \in Nat /\ jtHighest \in Nat
    BY <1>c DEF JointTypes
  <2>3. cnt \in Nat /\ cnt <= wCnt[N]
    BY <2>2, <1>t DEF LimitedCnt, OverLimit
  <2>4. label \in Busy \cup {"done"} /\ label \notin {"work", "limit"} /\ pc[N] \in Busy
    BY <2>1 DEF Busy
  <2>5. over \in BOOLEAN
    BY DEF OverLimit, JointTerminationAgreed
  <2> HIDE DEF over, cnt, label
  <2>6. wAbort' \in [Executors -> BOOLEAN]
    BY <2>1, <2>5, <1>f
  <2>7. done[N] = 0 /\ done[N] <= cnt
    BY <2>1, <2>3, <1>d
  <2>8. done' = [done EXCEPT ![N] = done[N]]
    BY <2>1, <1>w
  <2> QED BY <2>1, <2>3, <2>4, <2>6, <2>7, <2>8, <1>t, OutputMove
<1>3. CASE OutputSend
  <2>1. PICK d \in 0 .. wCnt[N], o \in 0 .. wCnt[N] :
           /\ IsSegment(d, o)
           /\ done' = [done EXCEPT ![N] = @ + d + o]
           /\ pc' = [pc EXCEPT ![N] = IF done[N] + d + o = wCnt[N] THEN "pass" ELSE "send"]
    BY <1>3 DEF OutputSend
  <2>2. d \in Nat /\ o \in Nat /\ done[N] + d + o <= wCnt[N]
    BY <2>1, SegmentBound
  <2> DEFINE next == done[N] + d + o
             label == IF next = wCnt[N] THEN "pass" ELSE "send"
  <2>3. /\ pc[N] = "send" /\ UNCHANGED windowVars /\ wFirst' = wFirst /\ wEnd' = wEnd
        /\ wCnt' = wCnt /\ wAbort' = wAbort /\ flush' = flush
    BY <1>3 DEF OutputSend, localVars
  <2>4. next \in Nat /\ next <= wCnt[N]
    BY <2>2, <1>t
  <2>5. done' = [done EXCEPT ![N] = next] /\ pc' = [pc EXCEPT ![N] = label]
    BY <2>1
  <2>6. label \in Busy \cup {"done"} /\ label \notin {"work", "limit"} /\ pc[N] \in Busy
    BY <2>3 DEF Busy
  <2> HIDE DEF next, label
  <2>7. wCnt' = [wCnt EXCEPT ![N] = wCnt[N]]
    BY <2>3, <1>w
  <2>8. UNCHANGED windowVars /\ wFirst' = wFirst /\ flush' = flush /\ wEnd' = wEnd
    BY <2>3
  <2>9. wAbort' \in [Executors -> BOOLEAN]
    BY <2>3, <1>f
  <2> DEFINE cnt == wCnt[N]
  <2>10. cnt \in Nat /\ cnt <= wCnt[N] /\ next <= cnt /\ wCnt' = [wCnt EXCEPT ![N] = cnt]
    BY <2>4, <2>7, <1>t
  <2> HIDE DEF cnt
  <2> QED BY <2>4, <2>5, <2>6, <2>8, <2>9, <2>10, OutputMove
<1>4. CASE OutputSendError
  <2>1. /\ pc[N] = "send" /\ UNCHANGED windowVars /\ wFirst' = wFirst /\ wEnd' = wEnd
        /\ wCnt' = wCnt /\ wAbort' = [wAbort EXCEPT ![N] = TRUE] /\ done' = done
        /\ flush' = flush /\ pc' = [pc EXCEPT ![N] = "pass"]
    BY <1>4 DEF OutputSendError, procVars
  <2>2. pc[N] \in Busy /\ "pass" \in Busy \cup {"done"}
    BY <2>1 DEF Busy
  <2>3. wCnt' = [wCnt EXCEPT ![N] = wCnt[N]] /\ done' = [done EXCEPT ![N] = done[N]]
    BY <2>1, <1>w
  <2>4. wAbort' \in [Executors -> BOOLEAN] /\ done[N] <= wCnt[N]
    BY <2>1, <2>2, <1>f, <1>d
  <2>5. /\ UNCHANGED windowVars /\ wFirst' = wFirst /\ flush' = flush /\ wEnd' = wEnd
        /\ pc' = [pc EXCEPT ![N] = "pass"] /\ "pass" \notin {"work", "limit"}
    BY <2>1
  <2> DEFINE cnt == wCnt[N]
             d   == done[N]
  <2>6. /\ cnt \in Nat /\ cnt <= wCnt[N] /\ d \in Nat /\ d <= cnt
        /\ wCnt' = [wCnt EXCEPT ![N] = cnt] /\ done' = [done EXCEPT ![N] = d]
    BY <2>3, <2>4, <1>t
  <2> HIDE DEF cnt, d
  <2> QED BY <2>2, <2>4, <2>5, <2>6, OutputMove
<1>5. CASE OutputPass
  <2> DEFINE next == IF MustStop(N, FALSE, wAbort[N]) THEN "done" ELSE "wait"
  <2>1. /\ pc[N] = "pass" /\ PassPackets(N, wCnt[N], FALSE, wAbort[N], next)
        /\ done' = [done EXCEPT ![N] = 0] /\ flush' = flush /\ UNCHANGED localVars
    BY <1>5 DEF OutputPass
  <2>2. next \in Labels /\ next \notin Busy
    BY DEF Labels, Busy
  <2> HIDE DEF next
  <2>3. /\ wFirst[N] + wCnt[N] <= B /\ pktFirst[N] = wFirst[N] /\ wCnt[N] <= pktCnt[N]
        /\ flush[N] = 0
    BY <2>1, <1>c DEF RingIInv, LocalInv, Local, Busy
  <2>4. CanPass(N, wCnt[N])
    BY <2>3, <1>t, <1>c DEF CanPass
  <2>5. LocalNumTypes'
    <3>1. 0 \in 0 .. B
      BY <1>c
    <3> QED BY <2>1, <3>1 DEF RingIInv, LocalTypes, LocalNumTypes, localVars
  <2>6. \A j \in Executors \ {N} : SameLocals(j)
    BY <2>1 DEF SameLocals, localVars, RingIInv, LocalTypes
  <2>7. pc'[N] = next /\ done'[N] = 0 /\ flush'[N] = 0
    BY <2>1, <2>3, <1>c DEF PassPackets, Signalled, RingIInv, LocalTypes
  <2>8. Local(N)'
    BY <2>7, <2>2 DEF Local, Busy
  <2>9. wEnd' \in [Executors -> BOOLEAN] /\ wAbort' \in [Executors -> BOOLEAN]
    BY <2>1, <1>f DEF localVars, RingIInv, FlagTypes
  <2> QED BY <2>1, <2>2, <2>4, <2>5, <2>6, <2>8, <2>9, <1>t, <1>f, <1>c, PassStep
<1> QED BY <1>1, <1>2, <1>3, <1>4, <1>5 DEF Output

\* Ctrl+C sets an abort flag and wakes up a neighbour: no window changes.
LEMMA InterruptRing ==
    ASSUME RingIInv, HandleInterrupt
    PROVE  RingIInv'
<1>1. PICK i \in Executors : SetAbort(i)
  BY DEF HandleInterrupt
<1>2. /\ aborting' = [aborting EXCEPT ![i] = TRUE]
      /\ pc' = [j \in Executors |->
                  IF j = RingPrevious(i) /\ pc[j] = "blocked" THEN "wait" ELSE pc[j]]
      /\ pktFirst' = pktFirst /\ pktCnt' = pktCnt /\ inputEnd' = inputEnd /\ passed' = passed
      /\ wFirst' = wFirst /\ wCnt' = wCnt /\ wEnd' = wEnd /\ wAbort' = wAbort
      /\ done' = done /\ flush' = flush
  BY <1>1 DEF SetAbort, HandleInterrupt, localVars, procVars
<1>3. WindowTypes' /\ RingInv'
  BY <1>2 DEF RingIInv, WindowTypes, RingInv, Ahead
<1>4. FlagTypes'
  BY <1>2 DEF RingIInv, FlagTypes
<1>5. LocalTypes'
  <2>1. pc' \in [Executors -> Labels]
    BY <1>2 DEF RingIInv, LocalTypes, Labels
  <2> QED BY <1>2, <2>1 DEF RingIInv, LocalTypes
<1>6. EndInv'
  BY <1>2 DEF RingIInv, EndInv
<1>7. ASSUME NEW j \in Executors PROVE Local(j)'
  <2>1. SameLocals(j) /\ SamePlace(j)
    BY <1>2 DEF SameLocals, SamePlace
  <2>2. pktFirst'[j] = pktFirst[j] /\ pktCnt'[j] = pktCnt[j] /\ pktCnt[j] \in Nat
    BY <1>2, Constants DEF RingIInv, WindowTypes
  <2>3. pktCnt'[j] >= pktCnt[j]
    BY <2>2
  <2>4. Local(j) /\ WindowTypes /\ LocalTypes
    BY DEF RingIInv, LocalInv
  <2> QED BY <2>1, <2>2, <2>3, <2>4, LocalOther
<1> QED BY <1>3, <1>4, <1>5, <1>6, <1>7 DEF RingIInv, LocalInv

\* jointTerminate() keeps the type of the highest packet.
LEMMA JointTerminateType ==
    ASSUME JointTypes, NEW i \in Executors, NEW jt, JointTerminate(i, jt)
    PROVE  jtHighest' \in Nat
  BY DEF JointTypes, JointTerminate, MaxOf

\* The counters of joint termination only count packets.
LEMMA JointStep ==
    ASSUME RingIInv, InputTypes, JointTypes, [Next]_vars
    PROVE  JointTypes'
<1>c. N \in Nat /\ N >= 1 /\ 0 \in Executors /\ N \in Executors
  BY Constants
<1>1. ASSUME NEW i \in Executors, NEW k \in Nat, total' = [total EXCEPT ![i] = total[i] + k],
             jtHighest' \in Nat
      PROVE  JointTypes'
  BY <1>1 DEF JointTypes
<1>2. ASSUME UNCHANGED jtVars PROVE JointTypes'
  BY <1>2 DEF JointTypes, jtVars
<1>3. CASE InputReceive
  <2>1. PICK n \in IF pluginCompleted THEN {0} ELSE 0 .. MinOf(PktMax, StreamLength - received),
             jt \in BOOLEAN :
             JointTerminate(0, jt) /\ total' = [total EXCEPT ![0] = total[0] + n]
    BY <1>3 DEF InputReceive
  <2>2. n \in Nat
    BY ReceiveBound
  <2>3. jtHighest' \in Nat
    BY <2>1, <1>c, JointTerminateType
  <2> QED BY <2>1, <2>2, <2>3, <1>1, <1>c
<1>4. ASSUME NEW i \in Processors, ProcessPacket(i) PROVE JointTypes'
  <2>1. PICK jt : JointTerminate(i, jt) /\ total' = [total EXCEPT ![i] = total[i] + 1]
    BY <1>4 DEF ProcessPacket
  <2>2. i \in Executors
    BY <1>c
  <2>3. jtHighest' \in Nat
    BY <2>1, <2>2, JointTerminateType
  <2> QED BY <2>1, <2>2, <2>3, <1>1
<1>5. CASE OutputSend
  <2>1. PICK d \in 0 .. wCnt[N], o \in 0 .. wCnt[N] :
           IsSegment(d, o) /\ total' = [total EXCEPT ![N] = total[N] + d + o]
    BY <1>5 DEF OutputSend
  <2>2. d \in Nat /\ o \in Nat /\ total[N] \in Nat
    BY <2>1, <1>c, SegmentBound DEF JointTypes
  <2>3. total' = [total EXCEPT ![N] = total[N] + (d + o)] /\ d + o \in Nat
    <3>1. total[N] + d + o = total[N] + (d + o) /\ d + o \in Nat
      BY <2>2
    <3> QED BY <2>1, <3>1
  <2>4. jtHighest' \in Nat
    BY <1>5 DEF OutputSend, JointTypes
  <2> QED BY <2>3, <2>4, <1>1, <1>c
<1>6. CASE OutputSendError
  <2>1. PICK d \in 0 .. wCnt[N], o \in 0 .. wCnt[N] :
           IsSegment(d, o) /\ total' = [total EXCEPT ![N] = total[N] + d]
    BY <1>6 DEF OutputSendError
  <2>2. d \in Nat /\ jtHighest' \in Nat
    BY <2>1, <1>6, SegmentBound DEF OutputSendError, JointTypes
  <2> QED BY <2>1, <2>2, <1>1, <1>c
<1>7. ASSUME NEW i \in Executors, WaitWork(i) PROVE JointTypes'
  BY <1>7, <1>2 DEF WaitWork, WaitWorkBlock, WaitWorkReturn
<1>8. ASSUME InputGiveUp \/ InputPass PROVE JointTypes'
  BY <1>8, <1>2 DEF InputGiveUp, InputPass
<1>9. ASSUME NEW i \in Processors, ProcessorGiveUp(i) \/ ProcessorEnd(i) \/ ProcessorPass(i)
      PROVE  JointTypes'
  BY <1>9, <1>2 DEF ProcessorGiveUp, ProcessorEnd, ProcessorPass
<1>10. ASSUME OutputCheck \/ OutputLimit \/ OutputPass PROVE JointTypes'
  BY <1>10, <1>2 DEF OutputCheck, OutputLimit, OutputPass
<1>11. ASSUME UserInterrupt \/ HandleInterrupt PROVE JointTypes'
  BY <1>11, <1>2 DEF UserInterrupt, HandleInterrupt, SetAbort
<1>12. ASSUME UNCHANGED vars PROVE JointTypes'
  BY <1>12, <1>2 DEF vars
<1> QED BY <1>3, <1>4, <1>5, <1>6, <1>7, <1>8, <1>9, <1>10, <1>11, <1>12
        DEF Next, Input, Processor, Output, Terminated

IInv == RingIInv /\ InputTypes /\ JointTypes

\* The inductive invariant holds when the threads start.
LEMMA InitIInv == Init => IInv
<1> SUFFICES ASSUME Init PROVE IInv
  OBVIOUS
<1>1. PICK n \in 1 .. MinOf(B \div 2, StreamLength) : InitAllBuffers(n) /\ received = n
  BY DEF Init
<1>2. n \in Nat /\ n <= StreamLength
  BY <1>1, Constants, TspAssumption DEF MinOf
<1>3. InputTypes
  BY <1>1, <1>2, TspAssumption DEF InputTypes, Init
<1>4. JointTypes
  BY <1>1, <1>2 DEF JointTypes, InitAllBuffers
<1> QED BY <1>3, <1>4, InitRing DEF IInv

\* Every step of every thread preserves the invariant.
LEMMA NextIInv == IInv /\ [Next]_vars => IInv'
<1> SUFFICES ASSUME RingIInv, InputTypes, JointTypes, [Next]_vars
             PROVE  RingIInv' /\ InputTypes'
  BY JointStep DEF IInv
<1>1. ASSUME UNCHANGED inputVars PROVE InputTypes'
  BY <1>1 DEF InputTypes, inputVars
<1>2. ASSUME NEW i \in Executors, WaitWork(i) PROVE RingIInv' /\ InputTypes'
  BY <1>1, <1>2, WaitWorkRing DEF WaitWork
<1>3. CASE Input
  BY <1>3, InputRing
<1>4. ASSUME NEW i \in Processors, Processor(i) PROVE RingIInv' /\ InputTypes'
  <2>1. UNCHANGED inputVars
    BY <1>4 DEF Processor, ProcessorGiveUp, ProcessorEnd, ProcessPacket, ProcessorPass
  <2> QED BY <2>1, <1>1, <1>4, ProcessorRing
<1>5. CASE Output
  <2>1. UNCHANGED inputVars
    BY <1>5 DEF Output, OutputCheck, OutputLimit, OutputSend, OutputSendError, OutputPass
  <2> QED BY <2>1, <1>1, <1>5, OutputRing
<1>6. CASE HandleInterrupt
  BY <1>1, <1>6, InterruptRing DEF HandleInterrupt
<1>7. ASSUME UNCHANGED <<windowVars, localVars, procVars, pc, inputVars>>
      PROVE  RingIInv' /\ InputTypes'
  <2>1. /\ pktFirst' = pktFirst /\ pktCnt' = pktCnt /\ inputEnd' = inputEnd /\ passed' = passed
        /\ wFirst' = wFirst /\ wCnt' = wCnt /\ wEnd' = wEnd /\ wAbort' = wAbort
        /\ done' = done /\ flush' = flush /\ pc' = pc /\ aborting' = aborting
    BY <1>7 DEF windowVars, localVars, procVars
  <2>2. WindowTypes' /\ RingInv'
    BY <2>1 DEF RingIInv, WindowTypes, RingInv, Ahead
  <2>3. LocalTypes' /\ FlagTypes'
    BY <2>1 DEF RingIInv, LocalTypes, FlagTypes
  <2>4. LocalInv' /\ EndInv'
    BY <2>1 DEF RingIInv, LocalInv, Local, EndInv
  <2> QED BY <2>2, <2>3, <2>4, <1>1, <1>7 DEF RingIInv
<1>8. CASE UserInterrupt
  BY <1>7, <1>8 DEF UserInterrupt
<1>9. CASE UNCHANGED vars
  BY <1>7, <1>9 DEF vars
<1> QED BY <1>2, <1>3, <1>4, <1>5, <1>6, <1>8, <1>9 DEF Next, Terminated

\* In every reachable state, for every number of processors, every buffer size and every
\* behaviour of the plugins, the windows lie one behind the other on the ring and what each
\* thread remembers from waitWork is the front of its window.
THEOREM RingCorrect == Spec => []IInv
  BY InitIInv, NextIInv, PTL DEF Spec

\* waitWork() and passPackets() keep the windows one behind the other on the ring, and what each
\* thread took out of its window is still the front of it, whatever its neighbours do meanwhile.
THEOREM WindowsHold == Spec => []WindowInv
<1>1. IInv => WindowInv
  BY DEF IInv, RingIInv, WindowInv
<1> QED BY <1>1, RingCorrect, PTL

-----------------------------------------------------------------------------
(***************************************************************************)
(* The properties.                                                         *)
(***************************************************************************)
\* The two assertions at the start of PluginExecutor::passPackets never fail.
THEOREM PassAssertionsHold == Spec => []PassAssertions
<1>1. IInv => PassAssertions
  <2> SUFFICES ASSUME RingIInv, NEW i \in Executors, pc[i] = "pass"
               PROVE  LET count == IF i = N THEN wCnt[N] ELSE flush[i]
                      IN  count <= pktCnt[i] /\ pktFirst[i] + count <= B
    BY DEF IInv, PassAssertions
  <2>1. /\ wFirst[i] \in 0 .. (B - 1) /\ wCnt[i] \in 0 .. B /\ flush[i] \in 0 .. B
        /\ done[i] \in 0 .. B /\ pktFirst[i] \in 0 .. (B - 1) /\ pktCnt[i] \in 0 .. B
    BY DEF RingIInv, LocalTypes, WindowTypes
  <2>2. Local(i) /\ pc[i] \in Busy
    BY DEF RingIInv, LocalInv, Busy
  <2>3. CASE i = 0
    BY <2>1, <2>2, <2>3, Constants DEF Local
  <2>4. CASE i = N
    BY <2>1, <2>2, <2>4, Constants DEF Local
  <2>5. CASE i \in Processors
    <3>1. /\ wFirst[i] + wCnt[i] <= B /\ flush[i] <= done[i] /\ done[i] <= wCnt[i]
          /\ pktFirst[i] = wFirst[i] + done[i] - flush[i]
          /\ wCnt[i] - done[i] + flush[i] <= pktCnt[i] /\ i # N
      BY <2>2, <2>5, Constants DEF Local
    <3> QED BY <2>1, <3>1, Constants
  <2> QED BY <2>3, <2>4, <2>5, Constants
<1> QED BY <1>1, RingCorrect, PTL

\* Packet m of the window of executor i and packet k of the window of a later executor j are
\* at different positions of the buffer.
LEMMA WindowsApart ==
    ASSUME RingIInv, NEW i \in Executors, NEW j \in Executors, i < j,
           NEW m \in 0 .. (pktCnt[i] - 1), NEW k \in 0 .. (pktCnt[j] - 1)
    PROVE  (pktFirst[i] + m) % B # (pktFirst[j] + k) % B
<1>c. N \in Nat /\ N >= 1 /\ B \in Nat /\ B >= 2
  BY Constants
<1>t. /\ pktFirst[i] \in 0 .. (B - 1) /\ pktFirst[j] \in 0 .. (B - 1)
      /\ pktCnt[i] \in 0 .. B /\ pktCnt[j] \in 0 .. B
  BY DEF RingIInv, WindowTypes
<1>p. \A e \in Executors : passed[e] \in Nat
  BY DEF RingIInv, WindowTypes
<1>1. PICK a \in 0 .. B : a = Ahead(i, j) /\ pktFirst[i] \in {pktFirst[j] + a, pktFirst[j] + a - B}
  BY DEF RingIInv, RingInv
<1>2. pktCnt[j] <= a
  <2>1. j \in 1 .. N /\ j - 1 \in Executors /\ i <= j - 1
    BY <1>c
  <2>2. pktCnt[j] = Ahead(j - 1, j) /\ Ahead(i, j - 1) >= 0
    BY <2>1 DEF RingIInv, RingInv
  <2> QED BY <2>1, <2>2, <1>1, <1>p DEF Ahead
<1>3. a + pktCnt[i] <= B
  <2>1. CASE i = 0
    <3>1. pktCnt[0] = B - Ahead(0, N) /\ Ahead(j, N) >= 0 /\ N \in Executors
      BY <1>c DEF RingIInv, RingInv
    <3> QED BY <3>1, <2>1, <1>1, <1>p, <1>c DEF Ahead
  <2>2. CASE i # 0
    <3>1. i \in 1 .. N /\ i - 1 \in Executors /\ i - 1 <= j
      BY <2>2, <1>c
    <3>2. pktCnt[i] = Ahead(i - 1, i) /\ Ahead(i - 1, j) <= B
      BY <3>1 DEF RingIInv, RingInv
    <3> QED BY <3>1, <3>2, <1>1, <1>p DEF Ahead
  <2> QED BY <2>1, <2>2
<1> DEFINE x == pktFirst[i] + m
           y == pktFirst[j] + k
<1>4. x \in Nat /\ x < 2 * B /\ y \in Nat /\ y < 2 * B /\ B \in Nat \ {0}
  BY <1>t, <1>c
<1>5. /\ x \notin {y, y + B, y - B}
  BY <1>1, <1>2, <1>3, <1>t, <1>c
<1> HIDE DEF x, y
<1>6. x % B = (IF x < B THEN x ELSE x - B) /\ y % B = (IF y < B THEN y ELSE y - B)
  BY <1>4, ModWrap
<1>7. x % B # y % B
  BY <1>4, <1>5, <1>6
<1> QED BY <1>7 DEF x, y

\* Two windows have no packet in common.
LEMMA WindowsDisjoint ==
    ASSUME RingIInv, NEW i \in Executors, NEW j \in Executors, i # j
    PROVE  Window(i) \cap Window(j) = {}
<1> SUFFICES ASSUME NEW m \in 0 .. (pktCnt[i] - 1), NEW k \in 0 .. (pktCnt[j] - 1),
                    (pktFirst[i] + m) % B = (pktFirst[j] + k) % B
             PROVE  FALSE
  BY DEF Window
<1>1. i < j \/ j < i
  BY Constants
<1> QED BY <1>1, WindowsApart

\* What a thread reads and writes outside the mutex is a part of its own window.
LEMMA WorkInWindow ==
    ASSUME RingIInv, NEW i \in Executors
    PROVE  WorkArea(i) \subseteq Window(i)
<1> SUFFICES ASSUME NEW s \in WorkArea(i) PROVE s \in Window(i)
  OBVIOUS
<1>1. /\ pc[i] \in {"work", "limit", "send"} /\ s \in Int
      /\ wFirst[i] + done[i] <= s /\ s < wFirst[i] + wCnt[i]
  <2>1. pc[i] \in {"work", "limit", "send"} /\ s \in (wFirst[i] + done[i]) .. (wFirst[i] + wCnt[i] - 1)
    BY DEF WorkArea
  <2>2. wFirst[i] \in Int /\ done[i] \in Int /\ wCnt[i] \in Int
    BY Constants DEF RingIInv, LocalTypes
  <2> QED BY <2>1, <2>2
<1>t. /\ wFirst[i] \in 0 .. (B - 1) /\ wCnt[i] \in 0 .. B /\ flush[i] \in 0 .. B
      /\ done[i] \in 0 .. B /\ pktFirst[i] \in 0 .. (B - 1) /\ pktCnt[i] \in 0 .. B
  BY DEF RingIInv, LocalTypes, WindowTypes
<1>2. Local(i) /\ pc[i] \in Busy
  BY <1>1 DEF RingIInv, LocalInv, Busy
<1>3. s - pktFirst[i] \in 0 .. (pktCnt[i] - 1) /\ s < B
  <2>1. CASE i \in {0, N}
    <3>1. wFirst[i] + wCnt[i] <= B /\ pktFirst[i] = wFirst[i] /\ wCnt[i] <= pktCnt[i]
      BY <1>2, <2>1 DEF Local
    <3> QED BY <3>1, <1>1, <1>t, Constants
  <2>2. CASE i \in Processors
    <3>1. /\ wFirst[i] + wCnt[i] <= B /\ flush[i] <= done[i]
          /\ pktFirst[i] = wFirst[i] + done[i] - flush[i]
          /\ wCnt[i] - done[i] + flush[i] <= pktCnt[i]
      BY <1>2, <2>2 DEF Local
    <3> QED BY <3>1, <1>1, <1>t, Constants
  <2> QED BY <2>1, <2>2, Constants
<1>4. s \in Nat /\ s < B /\ B \in Nat \ {0} /\ s < 2 * B
  BY <1>1, <1>3, <1>t, Constants
<1>5. s % B = s
  BY <1>4, ModWrap
<1>6. pktFirst[i] + (s - pktFirst[i]) = s
  BY <1>4, <1>t
<1> QED BY <1>3, <1>5, <1>6 DEF Window

\* Main theorem on the buffer: a packet which a thread accesses outside the mutex, between
\* waitWork and passPackets, is never in the window of another executor.
THEOREM NoPacketShared == Spec => []NoSharedPacket
<1>1. IInv => NoSharedPacket
  BY WorkInWindow, WindowsDisjoint DEF IInv, NoSharedPacket
<1> QED BY <1>1, RingCorrect, PTL

\* A nonempty set of naturals has a least element.
LEMMA LeastElement ==
    ASSUME NEW T \in SUBSET Nat, T # {}
    PROVE  \E x \in T : \A y \in T : x <= y
<1> DEFINE R == OpToRel(<, Nat)
<1>1. IsWellFoundedOn(R, Nat)
  BY NatLessThanWellFounded
<1>2. PICK x \in T : \A y \in T : ~(<<y, x>> \in R)
  BY <1>1, WFMin
<1>3. \A y \in T : ~(y < x)
  BY <1>2 DEF OpToRel
<1> QED BY <1>3

\* Every slot of the buffer is in a window: with off the distance from the front of the window
\* of the output, it belongs to the first executor which is at most off ahead of the output.
LEMMA WindowsCover ==
    ASSUME RingIInv, NEW s \in Slots
    PROVE  \E i \in Executors : s \in Window(i)
<1>c. N \in Nat /\ N >= 1 /\ B \in Nat /\ B >= 2 /\ N \in Executors /\ 0 \in Executors
  BY Constants
<1>p. \A e \in Executors : passed[e] \in Nat /\ pktFirst[e] \in 0 .. (B - 1)
  BY DEF RingIInv, WindowTypes
<1> DEFINE off == IF s >= pktFirst[N] THEN s - pktFirst[N] ELSE s - pktFirst[N] + B
           T   == {i \in Executors : Ahead(i, N) <= off}
<1>1. off \in 0 .. (B - 1) /\ s \in {pktFirst[N] + off, pktFirst[N] + off - B}
  BY <1>p, <1>c
<1> HIDE DEF off
<1>2. N \in T
  BY <1>1, <1>p, <1>c DEF Ahead
<1>3. PICK i \in T : \A j \in T : i <= j
  <2>1. T \in SUBSET Nat /\ T # {}
    BY <1>2, <1>c
  <2> HIDE DEF T
  <2> QED BY <2>1, LeastElement
<1>4. i \in Executors /\ Ahead(i, N) <= off /\ Ahead(i, N) \in 0 .. B
      /\ pktFirst[i] \in {pktFirst[N] + Ahead(i, N), pktFirst[N] + Ahead(i, N) - B}
  <2>1. i \in Executors /\ i <= N /\ Ahead(i, N) <= off
    BY <1>c
  <2> QED BY <2>1, <1>c DEF RingIInv, RingInv
<1>5. off - Ahead(i, N) < pktCnt[i]
  <2>1. CASE i = 0
    <3>1. pktCnt[0] = B - Ahead(0, N)
      BY DEF RingIInv, RingInv
    <3> QED BY <3>1, <2>1, <1>1, <1>4, <1>c
  <2>2. CASE i # 0
    <3>1. i - 1 \in Executors /\ i \in 1 .. N /\ ~(i <= i - 1)
      BY <2>2, <1>4, <1>c
    <3>2. ~(Ahead(i - 1, N) <= off)
      BY <3>1, <1>3
    <3>3. pktCnt[i] = Ahead(i - 1, i)
      BY <3>1 DEF RingIInv, RingInv
    <3> QED BY <3>1, <3>2, <3>3, <1>1, <1>4, <1>p, <1>c DEF Ahead
  <2> QED BY <2>1, <2>2
<1>6. pktFirst[i] \in 0 .. (B - 1) /\ pktCnt[i] \in 0 .. B /\ pktFirst[N] \in 0 .. (B - 1)
  BY <1>4, <1>p, <1>c DEF RingIInv, WindowTypes
<1> DEFINE k == off - Ahead(i, N)
<1>7. k \in 0 .. (pktCnt[i] - 1) /\ pktFirst[i] + k \in {s, s + B}
  BY <1>1, <1>4, <1>5, <1>6, <1>c
<1> DEFINE x == pktFirst[i] + k
<1>8. x \in {s, s + B} /\ x \in Nat /\ x < 2 * B /\ B \in Nat \ {0}
  BY <1>7, <1>c
<1> HIDE DEF x
<1>9. x % B = IF x < B THEN x ELSE x - B
  BY <1>8, ModWrap
<1>10. x % B = s
  BY <1>8, <1>9, <1>c
<1> HIDE DEF k
<1> QED BY <1>4, <1>7, <1>10 DEF Window, x

\* The diagram of tspPluginExecutor.h: every packet of the circular buffer is in exactly one
\* of the sliding windows.
THEOREM BufferPartitioned == Spec => []WindowsPartition
<1>1. IInv => WindowsPartition
  BY WindowsCover, WindowsDisjoint DEF IInv, WindowsPartition
<1> QED BY <1>1, RingCorrect, PTL

\* A thread which has left its loop passes nothing.
LEMMA DonePassesNothing ==
    ASSUME RingIInv, [Next]_vars, NEW i \in Executors, pc[i] = "done"
    PROVE  passed'[i] = passed[i]
<1>c. 0 \in Executors /\ N \in Executors /\ Processors \subseteq Executors
  BY Constants
<1>1. ASSUME NEW j \in Executors, j # i, NEW count, NEW end, NEW abort, NEW next,
             PassPackets(j, count, end, abort, next)
      PROVE  passed'[i] = passed[i]
  BY <1>1 DEF PassPackets, RingIInv, WindowTypes
<1>2. ASSUME UNCHANGED windowVars PROVE passed'[i] = passed[i]
  BY <1>2 DEF windowVars
<1>3. ASSUME NEW j \in Executors, WaitWork(j) PROVE passed'[i] = passed[i]
  BY <1>2, <1>3 DEF WaitWork, WaitWorkBlock, WaitWorkReturn
<1>4. CASE Input
  <2>1. CASE InputPass
    BY <2>1, <1>1, <1>c DEF InputPass
  <2>2. CASE InputGiveUp \/ InputReceive
    BY <2>2, <1>2 DEF InputGiveUp, InputReceive
  <2> QED BY <2>1, <2>2, <1>4 DEF Input
<1>5. ASSUME NEW j \in Processors, Processor(j) PROVE passed'[i] = passed[i]
  <2>1. CASE ProcessPacket(j)
    BY <2>1, <1>2 DEF ProcessPacket
  <2>2. CASE ProcessorGiveUp(j)
    BY <2>2, <1>1, <1>c DEF ProcessorGiveUp
  <2>3. CASE ProcessorEnd(j)
    BY <2>3, <1>1, <1>c DEF ProcessorEnd
  <2>4. CASE ProcessorPass(j)
    <3>1. pc[j] = "pass" /\ j # i
      BY <2>4 DEF ProcessorPass
    <3>2. \E end, abort, next : PassPackets(j, flush[j], end, abort, next)
      BY <2>4 DEF ProcessorPass
    <3> QED BY <3>1, <3>2, <1>1, <1>c
  <2> QED BY <2>1, <2>2, <2>3, <2>4, <1>5 DEF Processor
<1>6. CASE Output
  <2>1. CASE OutputPass
    BY <2>1, <1>1, <1>c DEF OutputPass
  <2>2. CASE OutputCheck \/ OutputLimit \/ OutputSend \/ OutputSendError
    BY <2>2, <1>2 DEF OutputCheck, OutputLimit, OutputSend, OutputSendError
  <2> QED BY <2>1, <2>2, <1>6 DEF Output
<1>7. CASE UserInterrupt
  BY <1>2, <1>7 DEF UserInterrupt
<1>8. CASE HandleInterrupt
  BY <1>8 DEF HandleInterrupt, SetAbort
<1>9. CASE UNCHANGED vars
  BY <1>2, <1>9 DEF vars
<1> QED BY <1>3, <1>4, <1>5, <1>6, <1>7, <1>8, <1>9 DEF Next, Terminated

\* No executor passes packets to a successor which it told that the input has ended.
THEOREM NothingAfterEnd == Spec => NoPacketAfterEnd
<1>1. IInv /\ [Next]_vars =>
         [\A i \in Executors \ {N} : inputEnd[i + 1] => passed'[i] = passed[i]]_vars
  <2> SUFFICES ASSUME RingIInv, [Next]_vars, NEW i \in Executors \ {N}, inputEnd[i + 1]
               PROVE  passed'[i] = passed[i]
    BY DEF IInv
  <2>1. pc[i] = "done"
    BY DEF RingIInv, EndInv
  <2> QED BY <2>1, DonePassesNothing
<1> QED BY <1>1, RingCorrect, PTL DEF Spec, NoPacketAfterEnd

-----------------------------------------------------------------------------
(***************************************************************************)
(* Type correctness: the variables which the ring invariant does not type. *)
(***************************************************************************)
ControlTypes ==
    /\ jtCompleted \subseteq JTUsers
    /\ jtRemaining \in Int
    /\ pluginCompleted \in BOOLEAN
    /\ intrAt \in -1 .. (N + 1)
    /\ outStop \in {"none", "eof", "abort", "joint", "send"}

PacketTypes ==
    /\ buffer \in [Slots -> Packet]
    /\ delivered \in Seq(Nat)
    /\ dropped \subseteq Nat

TypeIInv == IInv /\ ControlTypes /\ PacketTypes

\* The remaining variables have their types when the threads start.
LEMMA InitTypes == Init => ControlTypes /\ PacketTypes
<1> SUFFICES ASSUME Init PROVE ControlTypes /\ PacketTypes
  OBVIOUS
<1>1. PICK n \in 1 .. MinOf(B \div 2, StreamLength) :
         /\ InitAllBuffers(n)
         /\ buffer = [s \in Slots |-> [seq |-> IF s < n THEN s ELSE 0, st |-> "ok"]]
  BY DEF Init
<1>2. PICK early \in SUBSET (JTUsers \cap {0}) :
         jtCompleted = early /\ jtRemaining = Cardinality(JTUsers) - Cardinality(early)
  BY <1>1 DEF InitAllBuffers
<1>3. IsFiniteSet(JTUsers) /\ IsFiniteSet(early)
  <2>1. IsFiniteSet(0 .. N)
    BY FS_Interval, Constants
  <2>2. JTUsers \subseteq 0 .. N /\ early \subseteq 0 .. N
    BY RingAssumption
  <2> QED BY <2>1, <2>2, FS_Subset
<1>4. Cardinality(JTUsers) \in Nat /\ Cardinality(early) \in Nat
  BY <1>3, FS_CardinalityType
<1>5. ControlTypes
  <2>1. jtRemaining \in Int /\ jtCompleted \subseteq JTUsers
    BY <1>2, <1>4
  <2>2. pluginCompleted = FALSE /\ intrAt = -1 /\ outStop = "none"
    BY DEF Init
  <2>3. -1 \in -1 .. (N + 1)
    BY Constants
  <2> QED BY <2>1, <2>2, <2>3 DEF ControlTypes
<1>6. buffer \in [Slots -> Packet]
  <2>1. ASSUME NEW s \in Slots
        PROVE  [seq |-> IF s < n THEN s ELSE 0, st |-> "ok"] \in Packet
    <3>1. (IF s < n THEN s ELSE 0) \in Nat
      BY Constants
    <3> QED BY <3>1 DEF Packet
  <2> QED BY <1>1, <2>1
<1> QED BY <1>5, <1>6 DEF Init, PacketTypes

\* jointTerminate() keeps the types of the static fields.
LEMMA JointControl ==
    ASSUME ControlTypes, NEW i, NEW jt, JointTerminate(i, jt)
    PROVE  jtCompleted' \subseteq JTUsers /\ jtRemaining' \in Int
  BY DEF ControlTypes, JointTerminate

\* Every step keeps the types of the flags, of joint termination and of the interrupt.
LEMMA ControlStep ==
    ASSUME ControlTypes, [Next]_vars
    PROVE  ControlTypes'
<1>c. N \in Nat /\ N >= 1
  BY Constants
<1>1. ASSUME jtCompleted' \subseteq JTUsers, jtRemaining' \in Int,
             pluginCompleted' \in BOOLEAN, intrAt' = intrAt,
             outStop' \in {"none", "eof", "abort", "joint", "send"}
      PROVE  ControlTypes'
  BY <1>1 DEF ControlTypes
<1>2. ASSUME UNCHANGED <<jtVars, inputVars, intrAt, outStop>> PROVE ControlTypes'
  BY <1>2 DEF ControlTypes, jtVars, inputVars
<1>3. CASE InputReceive
  <2>1. \E jt : JointTerminate(0, jt)
    BY <1>3 DEF InputReceive
  <2>2. pluginCompleted' \in BOOLEAN /\ intrAt' = intrAt /\ outStop' = outStop
    BY <1>3 DEF InputReceive, histVars
  <2> QED BY <2>1, <2>2, <1>1, JointControl DEF ControlTypes
<1>4. ASSUME NEW i \in Processors, ProcessPacket(i) PROVE ControlTypes'
  <2>1. \E jt : JointTerminate(i, jt)
    BY <1>4 DEF ProcessPacket
  <2>2. pluginCompleted' = pluginCompleted /\ intrAt' = intrAt /\ outStop' = outStop
    BY <1>4 DEF ProcessPacket, inputVars
  <2> QED BY <2>1, <2>2, <1>1, JointControl DEF ControlTypes
<1>5. CASE Output
  <2>1. /\ jtCompleted' = jtCompleted /\ jtRemaining' = jtRemaining
        /\ pluginCompleted' = pluginCompleted /\ intrAt' = intrAt
    BY <1>5 DEF Output, OutputCheck, OutputLimit, OutputSend, OutputSendError, OutputPass,
                jtVars, inputVars
  <2>2. outStop' \in {outStop, "eof", "abort", "joint", "send"}
    BY <1>5 DEF Output, OutputCheck, OutputLimit, OutputSend, OutputSendError, OutputPass,
                histVars
  <2> QED BY <2>1, <2>2, <1>1 DEF ControlTypes
<1>6. ASSUME NEW i \in Executors, WaitWork(i) PROVE ControlTypes'
  BY <1>2, <1>6 DEF WaitWork, WaitWorkBlock, WaitWorkReturn, histVars
<1>7. CASE InputGiveUp \/ InputPass
  BY <1>2, <1>7 DEF InputGiveUp, InputPass, histVars
<1>8. ASSUME NEW i \in Processors, ProcessorGiveUp(i) \/ ProcessorEnd(i) \/ ProcessorPass(i)
      PROVE  ControlTypes'
  BY <1>2, <1>8 DEF ProcessorGiveUp, ProcessorEnd, ProcessorPass, histVars
<1>9. CASE UserInterrupt
  <2>1. intrAt' = 0 /\ UNCHANGED <<jtVars, inputVars, histVars>>
    BY <1>9 DEF UserInterrupt
  <2> QED BY <2>1, <1>c DEF ControlTypes, jtVars, inputVars, histVars
<1>10. CASE HandleInterrupt
  <2>1. intrAt \in 0 .. N /\ intrAt' = intrAt + 1 /\ UNCHANGED <<jtVars, inputVars, histVars>>
    BY <1>10 DEF HandleInterrupt, SetAbort
  <2>2. intrAt' \in -1 .. (N + 1)
    BY <2>1, <1>c
  <2> QED BY <2>1, <2>2 DEF ControlTypes, jtVars, inputVars, histVars
<1>11. CASE UNCHANGED vars
  BY <1>2, <1>11 DEF vars, histVars
<1> QED BY <1>3, <1>4, <1>5, <1>6, <1>7, <1>8, <1>9, <1>10, <1>11
        DEF Next, Input, Processor, Terminated

\* Every step keeps the types of the packets and of the history variables.
LEMMA PacketStep ==
    ASSUME RingIInv, PacketTypes, [Next]_vars
    PROVE  PacketTypes'
<1>c. N \in Nat /\ N >= 1 /\ B \in Nat /\ B >= 2 /\ 0 \in Executors /\ N \in Executors
  BY Constants
<1>1. ASSUME UNCHANGED <<buffer, delivered, dropped>> PROVE PacketTypes'
  BY <1>1 DEF PacketTypes
<1>2. CASE InputReceive
  <2>1. PICK n, r : buffer' = Loaded(n, r)
    BY <1>2 DEF InputReceive
  <2>2. delivered' = delivered /\ dropped' = dropped
    BY <1>2 DEF InputReceive, histVars
  <2>3. passed[0] \in Nat /\ wFirst[0] \in Nat
    BY <1>c DEF RingIInv, WindowTypes, LocalTypes
  <2>4. ASSUME NEW s \in Slots
        PROVE  (IF s \in wFirst[0] .. (wFirst[0] + r - 1)
                THEN [seq |-> passed[0] + (s - wFirst[0]),
                      st  |-> IF s < wFirst[0] + n THEN "ok" ELSE "null"]
                ELSE buffer[s]) \in Packet
    <3>1. CASE s \in wFirst[0] .. (wFirst[0] + r - 1)
      <4>1. s \in Int /\ wFirst[0] <= s
        BY <3>1, <1>c
      <4>2. passed[0] + (s - wFirst[0]) \in Nat
        BY <4>1, <2>3
      <4> QED BY <3>1, <4>2 DEF Packet
    <3>2. CASE s \notin wFirst[0] .. (wFirst[0] + r - 1)
      BY <3>2 DEF PacketTypes
    <3> QED BY <3>1, <3>2
  <2>5. buffer' \in [Slots -> Packet]
    BY <2>1, <2>4 DEF Loaded
  <2> QED BY <2>2, <2>5 DEF PacketTypes
<1>3. ASSUME NEW i \in Processors, ProcessPacket(i) PROVE PacketTypes'
  <2> DEFINE slot == wFirst[i] + done[i]
  <2>1. slot \in Slots
    <3>1. /\ pc[i] \in Busy /\ done[i] < wCnt[i] /\ i \in Executors
      BY <1>3, <1>c DEF ProcessPacket, Busy
    <3>2. /\ wFirst[i] + wCnt[i] <= B
      BY <3>1 DEF RingIInv, LocalInv, Local
    <3>3. wFirst[i] \in 0 .. (B - 1) /\ done[i] \in 0 .. B /\ wCnt[i] \in 0 .. B
      BY <3>1 DEF RingIInv, LocalTypes
    <3> QED BY <3>1, <3>2, <3>3, <1>c
  <2>2. buffer[slot] \in Packet /\ buffer[slot].seq \in Nat
        /\ buffer[slot].st \in {"ok", "null", "drop"}
    <3> HIDE DEF slot
    <3> QED BY <2>1 DEF PacketTypes, Packet
  <2>3. PICK status :
           /\ buffer' = [buffer EXCEPT ![slot].st = CASE status = "NULL" -> "null"
                                                      [] status = "DROP" -> "drop"
                                                      [] OTHER -> @]
           /\ dropped' = IF status = "DROP" THEN dropped \cup {buffer[slot].seq} ELSE dropped
    BY <1>3 DEF ProcessPacket
  <2>4. delivered' = delivered
    BY <1>3 DEF ProcessPacket
  <2> HIDE DEF slot
  <2>5. dropped' \subseteq Nat
    BY <2>2, <2>3 DEF PacketTypes
  <2>6. PICK v \in {"ok", "null", "drop"} : buffer' = [buffer EXCEPT ![slot].st = v]
    BY <2>2, <2>3
  <2>7. [buffer[slot] EXCEPT !.st = v] \in Packet
    BY <2>2 DEF Packet
  <2>8. buffer' \in [Slots -> Packet]
    BY <2>1, <2>6, <2>7 DEF PacketTypes
  <2> QED BY <2>4, <2>5, <2>8 DEF PacketTypes
<1>4. CASE OutputSend
  <2>1. PICK d \in 0 .. wCnt[N], o \in 0 .. wCnt[N] :
           /\ IsSegment(d, o)
           /\ delivered' = delivered \o [k \in 1 .. o |-> OutPkt(done[N] + d + k - 1).seq]
    BY <1>4 DEF OutputSend
  <2>2. d \in Nat /\ o \in Nat /\ done[N] + d + o <= wCnt[N]
    BY <2>1, SegmentBound
  <2>3. pc[N] \in Busy
    BY <1>4 DEF OutputSend, Busy
  <2>4. wFirst[N] + wCnt[N] <= B
    BY <2>3, <1>c DEF RingIInv, LocalInv, Local
  <2>5. wFirst[N] \in 0 .. (B - 1) /\ done[N] \in 0 .. B /\ wCnt[N] \in 0 .. B
    BY <1>c DEF RingIInv, LocalTypes
  <2>6. ASSUME NEW k \in 1 .. o PROVE OutPkt(done[N] + d + k - 1).seq \in Nat
    <3>1. wFirst[N] + (done[N] + d + k - 1) \in Slots
      BY <2>2, <2>4, <2>5, <1>c
    <3>2. buffer[wFirst[N] + (done[N] + d + k - 1)] \in Packet
      BY <3>1 DEF PacketTypes
    <3> QED BY <3>2 DEF OutPkt, Packet
  <2>7. [k \in 1 .. o |-> OutPkt(done[N] + d + k - 1).seq] \in Seq(Nat)
    BY <2>2, <2>6
  <2>8. buffer' = buffer /\ dropped' = dropped
    BY <1>4 DEF OutputSend
  <2> QED BY <2>1, <2>7, <2>8 DEF PacketTypes
<1>5. ASSUME NEW i \in Executors, WaitWork(i) PROVE PacketTypes'
  BY <1>1, <1>5 DEF WaitWork, histVars
<1>6. CASE InputGiveUp \/ InputPass
  BY <1>1, <1>6 DEF InputGiveUp, InputPass, histVars
<1>7. ASSUME NEW i \in Processors, ProcessorGiveUp(i) \/ ProcessorEnd(i) \/ ProcessorPass(i)
      PROVE  PacketTypes'
  BY <1>1, <1>7 DEF ProcessorGiveUp, ProcessorEnd, ProcessorPass, histVars
<1>8. CASE OutputCheck \/ OutputLimit \/ OutputSendError \/ OutputPass
  BY <1>1, <1>8 DEF OutputCheck, OutputLimit, OutputSendError, OutputPass, histVars
<1>9. CASE UserInterrupt \/ HandleInterrupt
  BY <1>1, <1>9 DEF UserInterrupt, HandleInterrupt, histVars
<1>10. CASE UNCHANGED vars
  BY <1>1, <1>10 DEF vars, histVars
<1> QED BY <1>2, <1>3, <1>4, <1>5, <1>6, <1>7, <1>8, <1>9, <1>10
        DEF Next, Input, Processor, Output, Terminated

\* Type correctness: all indexes and counts stay inside the circular buffer.
THEOREM TypeCorrect == Spec => []TypeOK
<1>1. Init => TypeIInv
  BY InitIInv, InitTypes DEF TypeIInv
<1>2. TypeIInv /\ [Next]_vars => TypeIInv'
  BY NextIInv, ControlStep, PacketStep DEF TypeIInv, IInv
<1>3. TypeIInv => TypeOK
  BY DEF TypeIInv, IInv, RingIInv, WindowTypes, LocalTypes, FlagTypes, InputTypes, JointTypes,
         ControlTypes, PacketTypes, TypeOK, Labels
<1> QED BY <1>1, <1>2, <1>3, PTL DEF Spec

=============================================================================

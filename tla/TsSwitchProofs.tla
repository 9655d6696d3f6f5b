--------------------------- MODULE TsSwitchProofs ---------------------------
(***************************************************************************)
(* Proofs about the input switch: type correctness, and what the threads   *)
(* of the inputs and of the output may do on the buffers they share.       *)
(*                                                                         *)
(* The inductive invariant IInv strengthens the types (the queue of        *)
(* actions holds no order to stop the primary input) with BufInv, which    *)
(* says where the area of an input thread and the area of the output lie   *)
(* in the buffer of the input, and at which labels the buffer can be used. *)
(***************************************************************************)
EXTENDS TsSwitch, SequenceTheorems, WellFoundedInduction, NaturalsInduction, TLAPS

ActionTypes == WaitTypes \cup {"START", "STOP", "ABORT_INPUT", "RESTART_TIMEOUT",
                               "SUSPEND_TIMEOUT", "NOTIF_CURRENT", "SET_CURRENT"}

Action == [type : ActionTypes, index : Inputs, flag : BOOLEAN]

\* Actions which do not stop the primary input.
SafeAction == {a \in Action : a.type = "STOP" => a.index # PrimaryInput}

InputState == [isCurrent : BOOLEAN, inUse : BOOLEAN, start : BOOLEAN, stop : BOOLEAN,
               term : BOOLEAN, first : 0 .. (BufferSize - 1), count : 0 .. BufferSize]

CoreTypes ==
    /\ opt \in CommandLines
    /\ curPlugin \in Inputs
    /\ curCycle \in 0 .. CycleCount
    /\ terminate \in BOOLEAN
    /\ actions \in Seq(SafeAction)
    /\ events \subseteq [type : WaitTypes, index : Inputs]
    /\ holder \in Threads \cup {None}
    /\ dogActive \in BOOLEAN

InputTypes ==
    /\ inp \in [Inputs -> InputState]
    /\ inArea \in [Inputs -> Area]
    /\ \A i \in Inputs : inArea[i].first + inArea[i].count <= BufferSize
    /\ started \in [Inputs -> BOOLEAN]

OutTypes == outTerminate \in BOOLEAN /\ outIdx \in Inputs /\ outArea \in Area

ThreadTypes ==
    /\ pc \in [Threads -> Labels]
    /\ stopStep \in [Threads -> 0 .. (NInputs + 2)]

BoundTypes ==
    /\ startAt \in 0 .. StartSteps
    /\ nCommands \in 0 .. MaxCommands
    /\ nTimeouts \in 0 .. opt.timeouts
    /\ sendError \in BOOLEAN

Types == CoreTypes /\ InputTypes /\ OutTypes /\ ThreadTypes /\ BoundTypes

\* Labels of an input thread whose plugin is started.
Running == {"space", "spaceW", "receive", "inputReceived", "toPrimary", "drain", "drainW"}

\* The buffer of input i: it is only filled or output while the input runs, the area in which
\* the input receives is the free part after the packets and, except in --fast-switch mode, the
\* area which is output is the front of the packets.
Buffer(i) ==
    /\ inp[i].count > 0 \/ OutputUses(i) => pc[i] \in Running
    /\ OutputUses(i) => inp[i].inUse
    /\ pc[i] = "receive" => inp[i].count + inArea[i].count <= BufferSize
    /\ i = PrimaryInput => ~inp[i].stop
    /\ mode # "fast" =>
          /\ pc[i] = "receive" =>
                inArea[i].first = (inp[i].first + inp[i].count) % BufferSize
          /\ OutputUses(i) => outArea.first = inp[i].first /\ outArea.count <= inp[i].count

BufInv ==
    /\ \A i \in Inputs : Buffer(i)
    /\ outArea.first + outArea.count <= BufferSize

IInv == Types /\ BufInv

-----------------------------------------------------------------------------
(***************************************************************************)
(* Constants, threads and labels.                                          *)
(***************************************************************************)
\* What the proofs use of the constants.
LEMMA Constants ==
    /\ NInputs \in Nat /\ NInputs >= 1
    /\ BufferSize \in Nat /\ BufferSize >= 2
    /\ MaxInputPackets \in Nat /\ MaxInputPackets >= 1 /\ MaxInputPackets <= BufferSize
    /\ FirstInput \in Inputs /\ MaxCommands \in Nat
    /\ Inputs \subseteq Threads
    /\ {Output, Listener, Dog, Main} \subseteq Threads
    /\ {Output, Listener, Dog, Main} \cap Inputs = {}
    /\ Output # Listener /\ Output # Dog /\ Output # Main
    /\ None \notin Threads
  BY SwitchAssumption DEF Inputs, Output, Listener, Dog, Main, Threads, None

\* What the proofs use of the command line.
LEMMA Options ==
    ASSUME opt \in CommandLines
    PROVE  /\ CycleCount \in Nat /\ PrimaryInput \in 0 .. NInputs
           /\ opt.timeouts \in Nat
           /\ mode \in {"default", "fast", "delayed"}
  BY SwitchAssumption DEF CommandLine, CycleCount, PrimaryInput, mode

\* The labels to which a signal moves a sleeping thread.
LEMMA WokenLabels ==
    /\ DOMAIN Woken = {"idleW", "spaceW", "drainW", "getW"}
    /\ Woken["idleW"] = "idle" /\ Woken["spaceW"] = "space"
    /\ Woken["drainW"] = "drain" /\ Woken["getW"] = "get"
  BY DEF Woken

\* A thread is at the same place, apart from a signal which wakes it up.
SamePlace(u) ==
    \/ pc'[u] = pc[u]
    \/ pc[u] = "idleW" /\ pc'[u] = "idle"
    \/ pc[u] = "spaceW" /\ pc'[u] = "space"
    \/ pc[u] = "drainW" /\ pc'[u] = "drain"
    \/ pc[u] = "getW" /\ pc'[u] = "get"

\* A signal only wakes up sleeping threads.
LEMMA SignalMoves ==
    ASSUME pc \in [Threads -> Labels], NEW t \in Threads, NEW next \in Labels, NEW S,
           pc' = Signalled(t, next, S)
    PROVE  /\ pc' \in [Threads -> Labels]
           /\ pc'[t] = next
           /\ \A u \in Threads \ {t} : SamePlace(u)
<1>1. pc'[t] = next
  BY DEF Signalled
<1>2. ASSUME NEW u \in Threads \ {t} PROVE SamePlace(u)
  BY <1>2, WokenLabels DEF Signalled, SamePlace
<1>3. ASSUME NEW u \in Threads PROVE pc'[u] \in Labels
  BY <1>1, <1>2, <1>3 DEF SamePlace, Labels
<1> QED BY <1>1, <1>2, <1>3 DEF Signalled

\* A step of one thread which signals nobody.
LEMMA GotoMoves ==
    ASSUME pc \in [Threads -> Labels], NEW t \in Threads, NEW next \in Labels, Goto(t, next)
    PROVE  /\ pc' \in [Threads -> Labels]
           /\ pc'[t] = next
           /\ \A u \in Threads \ {t} : SamePlace(u)
  BY DEF Goto, SamePlace

-----------------------------------------------------------------------------
(***************************************************************************)
(* The queue of actions.                                                   *)
(***************************************************************************)
\* A nonempty set of naturals has a least element.
LEMMA LeastElement ==
    ASSUME NEW T \in SUBSET Nat, T # {}
    PROVE  \E x \in T : \A y \in T : x <= y
<1> DEFINE R == OpToRel(<, Nat)
<1>1. IsWellFoundedOn(R, Nat)
  BY NatLessThanWellFounded
<1>2. PICK x \in T : \A y \in T : ~(<<y, x>> \in R)
  BY <1>1, WFMin
<1>3. \A y \in T : ~(y < x)
  BY <1>2 DEF OpToRel
<1> QED BY <1>3

\* f is the loop of cancelActions over the first m actions.
Scan(f, type, m) ==
    f = [n \in 0 .. m |-> IF n = 0 THEN <<>>
                          ELSE IF actions[n].type = type THEN Append(f[n - 1], actions[n])
                          ELSE f[n - 1]]

\* The loop of cancelActions is well defined, by induction on the number of actions.
LEMMA ScanExists ==
    ASSUME NEW S, actions \in Seq(S), NEW type, NEW m \in 0 .. Len(actions)
    PROVE  \E f : Scan(f, type, m)
<1> DEFINE T == {n \in 0 .. Len(actions) : ~ \E f : Scan(f, type, n)}
<1> SUFFICES ASSUME T # {} PROVE FALSE
  OBVIOUS
<1>0. Len(actions) \in Nat /\ T \in SUBSET Nat
  OBVIOUS
<1>1. PICK x \in T : \A y \in T : x <= y
  BY <1>0, LeastElement
<1>2. x # 0
  <2>1. Scan([n \in 0 .. 0 |-> <<>>], type, 0)
    BY DEF Scan
  <2> QED BY <2>1, <1>1
<1>3. x \in 0 .. Len(actions) /\ x - 1 \in 0 .. Len(actions) /\ x - 1 \notin T
  BY <1>1, <1>2
<1>4. PICK f : Scan(f, type, x - 1)
  BY <1>3
<1> DEFINE g == [n \in 0 .. x |->
                    IF n < x THEN f[n]
                    ELSE IF actions[x].type = type THEN Append(f[x - 1], actions[x])
                    ELSE f[x - 1]]
           h == [n \in 0 .. x |->
                    IF n = 0 THEN <<>>
                    ELSE IF actions[n].type = type THEN Append(g[n - 1], actions[n])
                    ELSE g[n - 1]]
<1>5. ASSUME NEW n \in 0 .. x PROVE g[n] = h[n]
  <2>1. CASE n < x
    <3>1. n \in 0 .. (x - 1) /\ g[n] = f[n] /\ (n # 0 => g[n - 1] = f[n - 1])
      BY <2>1, <1>3
    <3>2. f[n] = IF n = 0 THEN <<>>
                 ELSE IF actions[n].type = type THEN Append(f[n - 1], actions[n])
                 ELSE f[n - 1]
      BY <3>1, <1>4 DEF Scan
    <3> QED BY <3>1, <3>2
  <2>2. CASE n = x
    <3>1. g[x - 1] = f[x - 1]
      BY <1>2, <1>3
    <3> QED BY <2>2, <3>1, <1>2
  <2> QED BY <2>1, <2>2, <1>3
<1>6. g = h
  BY <1>5
<1>7. Scan(g, type, x)
  BY <1>6 DEF Scan
<1> QED BY <1>7, <1>1

\* cancelActions only keeps actions of the queue, those of the type.
LEMMA CancelKeeps ==
    ASSUME NEW S, actions \in Seq(S), NEW type
    PROVE  CancelActionsBut(type) \in Seq({a \in S : a.type = type})
<1> DEFINE F == CHOOSE f : Scan(f, type, Len(actions))
           W == {a \in S : a.type = type}
<1>0. Len(actions) \in Nat /\ Len(actions) \in 0 .. Len(actions)
  OBVIOUS
<1>1. CancelActionsBut(type) = F[Len(actions)]
  BY Zenon DEF CancelActionsBut, Scan
<1>2. Scan(F, type, Len(actions))
  BY <1>0, ScanExists
<1> HIDE DEF F
<1> DEFINE T == {n \in 0 .. Len(actions) : F[n] \notin Seq(W)}
<1>3. ASSUME T # {} PROVE FALSE
  <2>0. T \in SUBSET Nat
    BY <1>0
  <2>1. PICK x \in T : \A y \in T : x <= y
    BY <1>3, <2>0, LeastElement
  <2>2. F[x] = IF x = 0 THEN <<>>
               ELSE IF actions[x].type = type THEN Append(F[x - 1], actions[x])
               ELSE F[x - 1]
    BY <1>2, <2>1 DEF Scan
  <2>3. x # 0
    <3>1. <<>> \in Seq(W)
      OBVIOUS
    <3> QED BY <2>1, <2>2, <3>1
  <2>4. x - 1 \in 0 .. Len(actions) /\ x - 1 \notin T /\ x \in 1 .. Len(actions)
    BY <2>1, <2>3, <1>0
  <2>5. F[x - 1] \in Seq(W) /\ (actions[x].type = type => actions[x] \in W)
    BY <2>4
  <2> HIDE DEF W
  <2>6. F[x] \in Seq(W)
    BY <2>2, <2>3, <2>5
  <2> QED BY <2>6, <2>1
<1> QED BY <1>0, <1>1, <1>3

\* Short sequences have the type of their elements.
LEMMA SeqOf ==
    ASSUME NEW S
    PROVE  /\ \A a \in S : <<a>> \in Seq(S)
           /\ \A a, b \in S : <<a, b>> \in Seq(S)
           /\ \A a, b, c \in S : <<a, b, c>> \in Seq(S)
           /\ \A a, b, c, d, e \in S : <<a, b, c, d, e>> \in Seq(S)
  OBVIOUS

\* The actions which do not stop the primary input.
LEMMA SafeActs ==
    ASSUME opt \in CommandLines, NEW i \in Inputs, NEW flag \in BOOLEAN,
           NEW type \in ActionTypes, type = "STOP" => i # PrimaryInput
    PROVE  Act(type, i, flag) \in SafeAction
  BY DEF Act, SafeAction, Action

\* Suspending and restarting the timeout.
LEMMA TimeoutActs == opt \in CommandLines => Suspend \in SafeAction /\ Restart \in SafeAction
<1>1. 0 \in Inputs
  BY Constants DEF Inputs
<1> QED BY <1>1 DEF Suspend, Restart, Act, SafeAction, Action, ActionTypes

\* The queue remains one of safe actions when safe actions are added.
LEMMA SafeConcat ==
    ASSUME NEW s \in Seq(SafeAction), NEW t \in Seq(SafeAction)
    PROVE  s \o t \in Seq(SafeAction)
  BY ConcatProperties

\* An optional part of a sequence.
LEMMA SafeIf ==
    ASSUME NEW c \in BOOLEAN, NEW s, c => s \in Seq(SafeAction)
    PROVE  If(c, s) \in Seq(SafeAction)
  BY DEF If

\* The actions which stop an input, if it is not the primary one.
LEMMA SafeStop ==
    ASSUME opt \in CommandLines, NEW i \in Inputs, i # PrimaryInput, NEW abort \in BOOLEAN
    PROVE  StopActions(i, abort) \in Seq(SafeAction)
<1>1. /\ Act("ABORT_INPUT", i, abort) \in SafeAction /\ Act("STOP", i, FALSE) \in SafeAction
      /\ Act("WAIT_STOPPED", i, FALSE) \in SafeAction
  BY SafeActs DEF ActionTypes, WaitTypes
<1> QED BY <1>1, SeqOf DEF StopActions

\* What setInputLocked() adds to the queue never stops the primary input.
LEMMA SafeSwitch ==
    ASSUME opt \in CommandLines, curPlugin \in Inputs, NEW index \in Inputs, NEW abort \in BOOLEAN
    PROVE  /\ DelayedSwitch(index, abort) \in Seq(SafeAction)
           /\ DirectSwitch(index, abort) \in Seq(SafeAction)
<1>1. Suspend \in SafeAction /\ Restart \in SafeAction
  BY TimeoutActs
<1>2. \A i \in Inputs, flag \in BOOLEAN :
         /\ Act("START", i, flag) \in SafeAction /\ Act("WAIT_INPUT", i, flag) \in SafeAction
         /\ Act("NOTIF_CURRENT", i, flag) \in SafeAction
         /\ Act("SET_CURRENT", i, flag) \in SafeAction
         /\ Act("WAIT_STARTED", i, flag) \in SafeAction
  BY SafeActs DEF ActionTypes, WaitTypes
<1>3. curPlugin # PrimaryInput => StopActions(curPlugin, abort) \in Seq(SafeAction)
  BY SafeStop
<1>4. DelayedSwitch(index, abort) \in Seq(SafeAction)
  <2> DEFINE a == <<Suspend>>
             b == If(index # PrimaryInput, <<Act("START", index, FALSE)>>)
             c == <<Act("WAIT_INPUT", index, FALSE)>>
             d == If(curPlugin = PrimaryInput, <<Act("NOTIF_CURRENT", curPlugin, FALSE)>>)
             e == <<Act("SET_CURRENT", index, FALSE), Act("NOTIF_CURRENT", index, TRUE), Restart>>
             f == If(curPlugin # PrimaryInput, StopActions(curPlugin, abort))
  <2>1. a \in Seq(SafeAction) /\ c \in Seq(SafeAction) /\ e \in Seq(SafeAction)
    BY <1>1, <1>2, SeqOf
  <2>2. b \in Seq(SafeAction) /\ d \in Seq(SafeAction)
    <3>1. /\ <<Act("START", index, FALSE)>> \in Seq(SafeAction)
          /\ <<Act("NOTIF_CURRENT", curPlugin, FALSE)>> \in Seq(SafeAction)
      BY <1>2, SeqOf
    <3>2. ASSUME NEW q, NEW cond, q \in Seq(SafeAction) PROVE If(cond, q) \in Seq(SafeAction)
      BY <3>2 DEF If
    <3> QED BY <3>1, <3>2
  <2>3. f \in Seq(SafeAction)
    BY <1>3, SafeIf
  <2>4. DelayedSwitch(index, abort) = a \o b \o c \o d \o e \o f
    BY Zenon DEF DelayedSwitch
  <2> HIDE DEF a, b, c, d, e, f
  <2>5. a \o b \o c \o d \o e \o f \in Seq(SafeAction)
    BY <2>1, <2>2, <2>3, SafeConcat
  <2> QED BY <2>4, <2>5
<1>5. DirectSwitch(index, abort) \in Seq(SafeAction)
  <2> DEFINE a == <<Suspend>>
             b == IF mode = "fast" \/ curPlugin = PrimaryInput
                  THEN <<Act("NOTIF_CURRENT", curPlugin, FALSE)>>
                  ELSE StopActions(curPlugin, abort)
             c == <<Act("SET_CURRENT", index, FALSE)>>
             d == IF mode = "fast" \/ index = PrimaryInput
                  THEN <<Act("NOTIF_CURRENT", index, TRUE)>>
                  ELSE <<Act("START", index, TRUE), Act("WAIT_STARTED", index, FALSE)>>
             e == <<Restart>>
  <2>1. a \in Seq(SafeAction) /\ c \in Seq(SafeAction) /\ e \in Seq(SafeAction)
    BY <1>1, <1>2, SeqOf
  <2>2. b \in Seq(SafeAction) /\ d \in Seq(SafeAction)
    <3>1. /\ <<Act("NOTIF_CURRENT", curPlugin, FALSE)>> \in Seq(SafeAction)
          /\ <<Act("NOTIF_CURRENT", index, TRUE)>> \in Seq(SafeAction)
          /\ <<Act("START", index, TRUE), Act("WAIT_STARTED", index, FALSE)>> \in Seq(SafeAction)
      BY <1>2, SeqOf
    <3> QED BY <1>3, <3>1
  <2>4. DirectSwitch(index, abort) = a \o b \o c \o d \o e
    BY Zenon DEF DirectSwitch
  <2> HIDE DEF a, b, c, d, e
  <2>5. a \o b \o c \o d \o e \in Seq(SafeAction)
    BY <2>1, <2>2, SafeConcat
  <2> QED BY <2>4, <2>5
<1> QED BY <1>4, <1>5

\* setInputLocked() keeps the queue safe, whatever the index.
LEMMA SafeSetInput ==
    ASSUME opt \in CommandLines, curPlugin \in Inputs, actions \in Seq(SafeAction),
           NEW index, NEW abort \in BOOLEAN, SetInputLocked(index, abort)
    PROVE  actions' \in Seq(SafeAction)
<1>1. CASE index \in Inputs
  BY <1>1, SafeSwitch, SafeConcat DEF SetInputLocked
<1>2. CASE index \notin Inputs
  BY <1>2 DEF SetInputLocked
<1> QED BY <1>1, <1>2

\* The switch back to the primary input stops another one.
LEMMA SafePrimarySwitch ==
    ASSUME opt \in CommandLines, curPlugin \in Inputs, PrimaryInput \in Inputs,
           curPlugin # PrimaryInput
    PROVE  PrimarySwitch \in Seq(SafeAction)
<1> DEFINE a == <<Suspend, Act("NOTIF_CURRENT", curPlugin, FALSE),
                  Act("SET_CURRENT", PrimaryInput, FALSE),
                  Act("NOTIF_CURRENT", PrimaryInput, TRUE), Restart>>
           b == If(mode # "fast", StopActions(curPlugin, TRUE))
<1>1. a \in Seq(SafeAction)
  <2>1. /\ Act("NOTIF_CURRENT", curPlugin, FALSE) \in SafeAction
        /\ Act("SET_CURRENT", PrimaryInput, FALSE) \in SafeAction
        /\ Act("NOTIF_CURRENT", PrimaryInput, TRUE) \in SafeAction
    BY SafeActs DEF ActionTypes
  <2> QED BY <2>1, TimeoutActs, SeqOf
<1>2. b \in Seq(SafeAction)
  BY SafeStop, SafeIf
<1>3. PrimarySwitch = a \o b
  BY Zenon DEF PrimarySwitch
<1> HIDE DEF a, b
<1> QED BY <1>1, <1>2, <1>3, SafeConcat

\* The next input of the cycle.
NextActions ==
    <<Suspend, Act("SET_CURRENT", NextPlugin, FALSE)>>
    \o (IF mode = "fast" THEN <<Act("NOTIF_CURRENT", NextPlugin, TRUE)>>
        ELSE <<Act("START", NextPlugin, TRUE), Act("WAIT_STARTED", NextPlugin, FALSE)>>)
    \o <<Restart>>

\* The next input, modulo their number.
LEMMA NextPluginType == curPlugin \in Inputs => NextPlugin \in Inputs
<1> SUFFICES ASSUME curPlugin \in Inputs PROVE NextPlugin \in Inputs
  OBVIOUS
<1> DEFINE n == curPlugin + 1
<1>1. n \in Nat /\ NInputs \in Nat /\ NInputs > 0
  BY Constants DEF Inputs
<1> HIDE DEF n
<1>2. n % NInputs \in 0 .. (NInputs - 1)
  BY <1>1
<1> QED BY <1>2 DEF NextPlugin, Inputs, n

\* What inputStopped() adds when the current input ends.
LEMMA SafeNext ==
    ASSUME opt \in CommandLines, curPlugin \in Inputs
    PROVE  NextActions \in Seq(SafeAction)
<1> DEFINE a == <<Suspend, Act("SET_CURRENT", NextPlugin, FALSE)>>
           b == IF mode = "fast" THEN <<Act("NOTIF_CURRENT", NextPlugin, TRUE)>>
                ELSE <<Act("START", NextPlugin, TRUE), Act("WAIT_STARTED", NextPlugin, FALSE)>>
           c == <<Restart>>
<1>1. /\ Act("SET_CURRENT", NextPlugin, FALSE) \in SafeAction
      /\ Act("NOTIF_CURRENT", NextPlugin, TRUE) \in SafeAction
      /\ Act("START", NextPlugin, TRUE) \in SafeAction
      /\ Act("WAIT_STARTED", NextPlugin, FALSE) \in SafeAction
  BY NextPluginType, SafeActs DEF ActionTypes, WaitTypes
<1>2. a \in Seq(SafeAction) /\ b \in Seq(SafeAction) /\ c \in Seq(SafeAction)
  BY <1>1, TimeoutActs, SeqOf
<1>3. NextActions = a \o b \o c
  BY Zenon DEF NextActions
<1> HIDE DEF a, b, c
<1> QED BY <1>2, <1>3, SafeConcat

-----------------------------------------------------------------------------
(***************************************************************************)
(* Steps which leave the buffers alone.                                    *)
(***************************************************************************)
\* The step changes neither what the buffers hold nor which areas are in use; a thread may only
\* leave the labels at which it uses a buffer.
Calm ==
    /\ UNCHANGED <<opt, inArea, outIdx, outArea>>
    /\ \A i \in Inputs :
          /\ inp'[i].inUse = inp[i].inUse
          /\ inp'[i].first = inp[i].first
          /\ inp'[i].count = inp[i].count
          /\ i = PrimaryInput => ~inp'[i].stop
          /\ pc[i] \in Running => pc'[i] \in Running
          /\ pc'[i] = "receive" => pc[i] = "receive"
    /\ pc'[Output] \in {"got", "send"} => pc[Output] \in {"got", "send"}

\* The buffers remain in order in such a step.
LEMMA CalmStep ==
    ASSUME Types, BufInv, Calm
    PROVE  BufInv'
<1>1. ASSUME NEW i \in Inputs PROVE Buffer(i)'
  <2>1. Buffer(i)
    BY <1>1 DEF BufInv
  <2>2. OutputUses(i)' => OutputUses(i)
    BY DEF Calm, OutputUses
  <2>3. mode' = mode /\ PrimaryInput' = PrimaryInput
    BY DEF Calm, mode, PrimaryInput
  <2>4. /\ inp'[i].inUse = inp[i].inUse /\ inp'[i].first = inp[i].first
        /\ inp'[i].count = inp[i].count /\ (i = PrimaryInput => ~inp'[i].stop)
        /\ (pc[i] \in Running => pc'[i] \in Running) /\ (pc'[i] = "receive" => pc[i] = "receive")
        /\ inArea'[i] = inArea[i] /\ outArea' = outArea
    BY DEF Calm
  <2> QED BY <2>1, <2>2, <2>3, <2>4 DEF Buffer
<1> QED BY <1>1 DEF BufInv, Calm

\* An input which is woken up remains where it was.
LEMMA SameRunning ==
    ASSUME NEW u, SamePlace(u)
    PROVE  /\ pc[u] \in Running => pc'[u] \in Running
           /\ pc'[u] = "receive" => pc[u] = "receive"
           /\ pc'[u] \in {"got", "send"} => pc[u] \in {"got", "send"}
  BY DEF SamePlace, Running

\* When the inputs are unchanged and the threads remain where they are or leave the buffers.
LEMMA InputsKept ==
    ASSUME Types, BufInv, UNCHANGED <<inp, inArea, outIdx, outArea, opt>>,
           NEW t \in Threads, \A u \in Threads \ {t} : SamePlace(u),
           pc[t] \in Running => pc'[t] \in Running,
           pc'[t] = "receive" => pc[t] = "receive",
           pc'[t] \in {"got", "send"} => pc[t] \in {"got", "send"}
    PROVE  BufInv'
<1>1. \A u \in Threads : /\ pc[u] \in Running => pc'[u] \in Running
                         /\ pc'[u] = "receive" => pc[u] = "receive"
                         /\ pc'[u] \in {"got", "send"} => pc[u] \in {"got", "send"}
  BY SameRunning
<1>2. Inputs \subseteq Threads /\ Output \in Threads
  BY Constants
<1>3. \A i \in Inputs : i = PrimaryInput => ~inp[i].stop
  BY DEF BufInv, Buffer
<1>4. Calm
  BY <1>1, <1>2, <1>3 DEF Calm
<1> QED BY <1>4, CalmStep

\* When only flags of one input change, which is not asked to stop if it is the primary one.
LEMMA FlagsKept ==
    ASSUME Types, BufInv, UNCHANGED <<inArea, outIdx, outArea, opt>>,
           NEW i \in Inputs, NEW r, inp' = [inp EXCEPT ![i] = r],
           r.inUse = inp[i].inUse, r.first = inp[i].first, r.count = inp[i].count,
           i = PrimaryInput => ~r.stop,
           \A u \in Threads : SamePlace(u)
    PROVE  BufInv'
<1>1. Inputs \subseteq Threads /\ Output \in Threads
  BY Constants
<1>2. ASSUME NEW j \in Inputs
      PROVE  /\ inp'[j].inUse = inp[j].inUse /\ inp'[j].first = inp[j].first
             /\ inp'[j].count = inp[j].count /\ (j = PrimaryInput => ~inp'[j].stop)
  <2>1. CASE j = i
    BY <2>1 DEF Types, InputTypes
  <2>2. CASE j # i
    BY <2>2 DEF Types, InputTypes, BufInv, Buffer
  <2> QED BY <2>1, <2>2
<1>3. Calm
  BY <1>1, <1>2, SameRunning DEF Calm
<1> QED BY <1>3, CalmStep

-----------------------------------------------------------------------------
(***************************************************************************)
(* Core::execute().                                                        *)
(***************************************************************************)
\* The front of the queue is an action, and the queue without it is safe.
LEMMA HeadType ==
    ASSUME Types, NEW types, Executing(types)
    PROVE  /\ HeadAct \in SafeAction /\ HeadAct.index \in Inputs /\ HeadAct.type \in types
           /\ HeadAct.flag \in BOOLEAN
           /\ (HeadAct.type = "STOP" => HeadAct.index # PrimaryInput)
           /\ actions' \in Seq(SafeAction)
           /\ holder \in Threads
<1>1. actions \in Seq(SafeAction) /\ actions # <<>>
  BY DEF Executing, Types, CoreTypes
<1>2. Head(actions) \in SafeAction /\ Tail(actions) \in Seq(SafeAction)
  BY <1>1, HeadTailProperties
<1>3. HeadAct \in SafeAction /\ actions' \in Seq(SafeAction) /\ HeadAct.type \in types
  BY <1>2 DEF HeadAct, Executing
<1>4. holder \in Threads
  BY DEF Executing, Types, CoreTypes
<1> QED BY <1>3, <1>4 DEF SafeAction, Action

\* The safe actions only depend on the command line.
LEMMA SafeUnchanged == opt' = opt => SafeAction' = SafeAction
  BY DEF SafeAction, PrimaryInput, Action

\* Starting, stopping and notifying an input change its flags.
LEMMA ExecInputStep ==
    ASSUME Types, BufInv, ExecStart \/ ExecStop \/ ExecNotifCurrent
    PROVE  Types' /\ BufInv'
<1> DEFINE h == HeadAct.index
           r == inp'[h]
<1>h. Executing({"START"}) \/ Executing({"STOP"}) \/ Executing({"NOTIF_CURRENT"})
  BY DEF ExecStart, ExecStop, ExecNotifCurrent
<1>1. /\ h \in Inputs /\ HeadAct.flag \in BOOLEAN /\ actions' \in Seq(SafeAction)
      /\ holder \in Threads /\ (HeadAct.type = "STOP" => h # PrimaryInput)
  BY <1>h, HeadType
<1>2. inp \in [Inputs -> InputState] /\ inp[h] \in InputState
  BY <1>1 DEF Types, InputTypes
<1>b. h = PrimaryInput => ~inp[h].stop
  BY <1>1 DEF BufInv, Buffer
<1>3. /\ inp' = [inp EXCEPT ![h] = r] /\ r \in InputState
      /\ r.inUse = inp[h].inUse /\ r.first = inp[h].first /\ r.count = inp[h].count
      /\ (h = PrimaryInput => ~r.stop)
  <2>1. CASE ExecStart
    <3>1. inp' = [inp EXCEPT ![h] = [inp[h] EXCEPT !.isCurrent = HeadAct.flag,
                                                   !.start = TRUE, !.stop = FALSE]]
      BY <2>1, <1>1, <1>2 DEF ExecStart
    <3> QED BY <3>1, <1>1, <1>2 DEF InputState
  <2>2. CASE ExecStop
    <3>1. inp' = [inp EXCEPT ![h] = [inp[h] EXCEPT !.start = FALSE, !.stop = TRUE]]
      BY <2>2, <1>1, <1>2 DEF ExecStop
    <3>2. h # PrimaryInput
      BY <2>2, <1>1 DEF ExecStop, Executing
    <3> QED BY <3>1, <3>2, <1>1, <1>2 DEF InputState
  <2>3. CASE ExecNotifCurrent
    <3>1. inp' = [inp EXCEPT ![h] = [inp[h] EXCEPT !.isCurrent = HeadAct.flag]]
      BY <2>3, <1>1, <1>2 DEF ExecNotifCurrent
    <3> QED BY <3>1, <1>1, <1>2, <1>b DEF InputState
  <2> QED BY <2>1, <2>2, <2>3
<1>4. pc' \in [Threads -> Labels] /\ \A u \in Threads : SamePlace(u)
  <2>0. pc \in [Threads -> Labels] /\ pc[holder] \in Labels
    BY <1>1 DEF Types, ThreadTypes
  <2>1. CASE ExecStart \/ ExecStop
    <3>1. pc' = Signalled(holder, pc[holder], {h})
      BY <2>1 DEF ExecStart, ExecStop
    <3>2. pc' \in [Threads -> Labels] /\ pc'[holder] = pc[holder]
          /\ \A u \in Threads \ {holder} : SamePlace(u)
      BY <3>1, <2>0, <1>1, SignalMoves
    <3> QED BY <3>2 DEF SamePlace
  <2>2. CASE ExecNotifCurrent
    BY <2>0, <2>2 DEF ExecNotifCurrent, SamePlace
  <2> QED BY <2>1, <2>2
<1>5. /\ UNCHANGED <<curPlugin, curCycle, terminate, events, holder, inArea, started, outVars,
                     stopStep, boundVars>>
      /\ dogActive' \in BOOLEAN
  BY DEF ExecStart, ExecStop, ExecNotifCurrent, Types, CoreTypes
<1> HIDE DEF r, h
<1>6. inp' \in [Inputs -> InputState]
  BY <1>1, <1>2, <1>3
<1>7. Types'
  BY <1>1, <1>4, <1>5, <1>6, SafeUnchanged
     DEF Types, CoreTypes, InputTypes, OutTypes, ThreadTypes, BoundTypes, outVars, boundVars,
         CycleCount, StartSteps, mode
<1>8. BufInv'
  BY <1>1, <1>3, <1>4, <1>5, FlagsKept DEF outVars, boundVars
<1> QED BY <1>7, <1>8

\* The other actions of the queue are about Core only.
LEMMA ExecCoreStep ==
    ASSUME Types, BufInv, ExecAbort \/ ExecTimeout \/ ExecSetCurrent \/ ExecWait
    PROVE  Types' /\ BufInv'
<1>h. \/ Executing({"ABORT_INPUT"}) \/ Executing({"RESTART_TIMEOUT", "SUSPEND_TIMEOUT"})
      \/ Executing({"SET_CURRENT"}) \/ Executing(WaitTypes)
  BY DEF ExecAbort, ExecTimeout, ExecSetCurrent, ExecWait
<1>1. HeadAct.index \in Inputs /\ actions' \in Seq(SafeAction)
  BY <1>h, HeadType
<1>2. /\ UNCHANGED <<curCycle, terminate, holder, inputVars, outVars, pc, stopStep, boundVars>>
      /\ dogActive' \in BOOLEAN /\ curPlugin' \in Inputs
      /\ events' \subseteq [type : WaitTypes, index : Inputs]
  BY <1>1 DEF ExecAbort, ExecTimeout, ExecSetCurrent, ExecWait, Types, CoreTypes
<1>3. Types'
  BY <1>1, <1>2, SafeUnchanged
     DEF Types, CoreTypes, InputTypes, OutTypes, ThreadTypes, BoundTypes, inputVars, outVars,
         boundVars, CycleCount, StartSteps, mode
<1>4. BufInv'
  <2>1. UNCHANGED <<inp, inArea, outIdx, outArea, opt, pc>>
    BY <1>2 DEF inputVars, outVars, boundVars
  <2>2. Output \in Threads /\ \A u \in Threads : SamePlace(u)
    BY <2>1, Constants DEF SamePlace
  <2> QED BY <2>1, <2>2, InputsKept
<1> QED BY <1>3, <1>4

\* Each action which execute() runs.
LEMMA ExecuteStep ==
    ASSUME Types, BufInv, Execute
    PROVE  Types' /\ BufInv'
  BY ExecInputStep, ExecCoreStep DEF Execute

-----------------------------------------------------------------------------
(***************************************************************************)
(* Core::stop().                                                           *)
(***************************************************************************)
\* stop() only changes the flags which ask for the termination.
LEMMA StopStep ==
    ASSUME Types, BufInv, NEW t \in Threads, NEW success \in BOOLEAN,
           NEW next \in {"begin", "top", "listen"}, Stop(t, success, next)
    PROVE  Types' /\ BufInv'
<1>0. pc \in [Threads -> Labels] /\ stopStep \in [Threads -> 0 .. (NInputs + 2)]
      /\ stopStep[t] \in 0 .. (NInputs + 2) /\ NInputs \in Nat
      /\ next \in Labels /\ "stop" \in Labels
  BY Constants DEF Types, ThreadTypes, Labels
<1>1. CASE StopInputs(t, success)
  <2> DEFINE i == stopStep[t] - 2
             r == [inp[i] EXCEPT !.term = TRUE]
  <2>1. i \in Inputs /\ inp' = [inp EXCEPT ![i] = r] /\ pc[t] = "stop"
        /\ pc' = Signalled(t, "stop", {i})
    BY <1>1 DEF StopInputs, Types, InputTypes
  <2>2. inp[i] \in InputState
    BY <2>1 DEF Types, InputTypes
  <2>3. /\ r \in InputState /\ r.inUse = inp[i].inUse /\ r.first = inp[i].first
        /\ r.count = inp[i].count /\ r.stop = inp[i].stop
    BY <2>2 DEF InputState
  <2>4. pc' \in [Threads -> Labels] /\ \A u \in Threads : SamePlace(u)
    <3>1. pc' \in [Threads -> Labels] /\ pc'[t] = "stop" /\ \A u \in Threads \ {t} : SamePlace(u)
      BY <2>1, <1>0, SignalMoves
    <3> QED BY <3>1, <2>1 DEF SamePlace
  <2>5. stopStep' \in [Threads -> 0 .. (NInputs + 2)]
    <3>1. stopStep[t] + 1 \in 0 .. (NInputs + 2)
      BY <2>1, <1>0 DEF Inputs
    <3> QED BY <3>1, <1>0, <1>1 DEF StopInputs
  <2>6. UNCHANGED <<coreVars, holder, dogActive, inArea, started, outVars, boundVars>>
    BY <1>1 DEF StopInputs
  <2>7. i = PrimaryInput => ~r.stop
    BY <2>1, <2>3 DEF BufInv, Buffer
  <2> HIDE DEF i, r
  <2>8. inp' \in [Inputs -> InputState]
    BY <2>1, <2>3 DEF Types, InputTypes
  <2>9. Types'
    BY <2>4, <2>5, <2>6, <2>8, SafeUnchanged
       DEF Types, CoreTypes, InputTypes, OutTypes, ThreadTypes, BoundTypes, coreVars, outVars,
           boundVars, CycleCount, StartSteps, mode
  <2>10. BufInv'
    BY <2>1, <2>3, <2>4, <2>6, <2>7, FlagsKept DEF outVars, boundVars
  <2> QED BY <2>9, <2>10
<1>2. CASE StopCore(t) \/ StopOutput(t) \/ StopReturn(t, success, next)
  <2>1. /\ pc[t] = "stop"
        /\ UNCHANGED <<curPlugin, curCycle, actions, events, holder, dogActive, inputVars, outIdx,
                       outArea, boundVars>>
        /\ terminate' \in BOOLEAN /\ outTerminate' \in BOOLEAN
    BY <1>2 DEF StopCore, StopOutput, StopReturn, coreVars, outVars, Types, CoreTypes, OutTypes
  <2>2. stopStep' \in [Threads -> 0 .. (NInputs + 2)]
    BY <1>0, <1>2 DEF StopCore, StopOutput, StopReturn
  <2>3. /\ pc' \in [Threads -> Labels] /\ pc'[t] \in {"stop", next}
        /\ \A u \in Threads \ {t} : SamePlace(u)
    <3>1. CASE pc' = Signalled(t, "stop", {Output})
      BY <3>1, <1>0, SignalMoves
    <3>2. CASE pc' = pc
      BY <3>2, <1>0, <2>1 DEF SamePlace
    <3>3. CASE Goto(t, next)
      BY <3>3, <1>0, GotoMoves
    <3> QED BY <1>2, <3>1, <3>2, <3>3 DEF StopCore, StopOutput, StopReturn
  <2>4. Types'
    BY <2>1, <2>2, <2>3, SafeUnchanged
       DEF Types, CoreTypes, InputTypes, OutTypes, ThreadTypes, BoundTypes, inputVars, boundVars,
           CycleCount, StartSteps, mode
  <2>5. BufInv'
    BY <2>1, <2>3, InputsKept DEF Running, inputVars, boundVars
  <2> QED BY <2>4, <2>5
<1> QED BY <1>1, <1>2 DEF Stop

-----------------------------------------------------------------------------
(***************************************************************************)
(* Input threads.                                                          *)
(***************************************************************************)
\* Labels at which an input thread reports to Core, or works alone.
LEMMA InputReports ==
    ASSUME Types, BufInv, NEW i \in Inputs,
           \/ PluginStart(i) \/ InputStarted(i) \/ InputStartedReturn(i) \/ WaitSpace(i)
           \/ StopRequested(i) \/ EndOfInput(i) \/ InputReceived(i) \/ SwitchToPrimary(i)
           \/ InputReceivedReturn(i) \/ InputStopped(i) \/ InputStoppedReturn(i)
    PROVE  Types' /\ BufInv'
<1>0. /\ pc \in [Threads -> Labels] /\ i \in Threads /\ opt \in CommandLines
      /\ curPlugin \in Inputs /\ actions \in Seq(SafeAction) /\ started \in [Inputs -> BOOLEAN]
      /\ curCycle \in 0 .. CycleCount /\ dogActive \in BOOLEAN
      /\ events \subseteq [type : WaitTypes, index : Inputs]
  BY Constants DEF Types, CoreTypes, ThreadTypes, InputTypes
<1>1. UNCHANGED <<curPlugin, terminate, inp, inArea, outVars, stopStep, boundVars>>
  BY DEF PluginStart, InputStarted, InputStartedReturn, WaitSpace, StopRequested, EndOfInput,
         InputReceived, SwitchToPrimary, InputReceivedReturn, InputStopped, InputStoppedReturn,
         coreVars, inputVars
<1>2. holder' \in Threads \cup {None} /\ dogActive' \in BOOLEAN /\ started' \in [Inputs -> BOOLEAN]
  BY <1>0
     DEF PluginStart, InputStarted, InputStartedReturn, WaitSpace, StopRequested, EndOfInput,
         InputReceived, SwitchToPrimary, InputReceivedReturn, InputStopped, InputStoppedReturn,
         inputVars, Lock, Unlock, Types, CoreTypes
<1>3. events' \subseteq [type : WaitTypes, index : Inputs]
  <2>1. \A type \in WaitTypes : Event(type, i) \in [type : WaitTypes, index : Inputs]
    BY DEF Event
  <2>2. events' = events \/ \E type \in WaitTypes : events' = events \cup {Event(type, i)}
    BY DEF PluginStart, InputStarted, InputStartedReturn, WaitSpace, StopRequested, EndOfInput,
           InputReceived, SwitchToPrimary, InputReceivedReturn, InputStopped, InputStoppedReturn,
           coreVars, WaitTypes
  <2> QED BY <2>1, <2>2, <1>0
<1>4. curCycle' \in 0 .. CycleCount
  <2>1. CASE InputStopped(i)
    <3>1. CycleCount \in Nat
      BY <1>0, Options
    <3> QED BY <2>1, <3>1, <1>0 DEF InputStopped, MinOf
  <2>2. CASE curCycle' = curCycle
    BY <2>2, <1>0
  <2> QED BY <2>1, <2>2
          DEF PluginStart, InputStarted, InputStartedReturn, WaitSpace, StopRequested, EndOfInput,
              InputReceived, SwitchToPrimary, InputReceivedReturn, InputStoppedReturn, coreVars
<1>5. actions' \in Seq(SafeAction)
  <2>1. CASE InputStopped(i)
    <3>1. CASE actions' = <<Suspend>> \o CancelActionsBut("WAIT_STOPPED")
      <4> DEFINE kept == CancelActionsBut("WAIT_STOPPED")
      <4>1. kept \in Seq({a \in SafeAction : a.type = "WAIT_STOPPED"})
        BY <1>0, CancelKeeps
      <4> HIDE DEF kept
      <4>2. kept \in Seq(SafeAction)
        BY <4>1
      <4>3. <<Suspend>> \in Seq(SafeAction)
        BY <1>0, TimeoutActs, SeqOf
      <4> QED BY <3>1, <4>2, <4>3, SafeConcat DEF kept
    <3>2. CASE actions' = NextActions
      BY <3>2, <1>0, SafeNext
    <3>3. CASE actions' = actions
      BY <3>3, <1>0
    <3> QED BY <2>1, <3>1, <3>2, <3>3, Zenon DEF InputStopped, NextActions
  <2>2. CASE SwitchToPrimary(i)
    BY <2>2, <1>0, SafePrimarySwitch DEF SwitchToPrimary, ActionsToPrimary, BackOnPrimary
  <2>3. CASE actions' = actions
    BY <2>3, <1>0
  <2> QED BY <2>1, <2>2, <2>3
          DEF PluginStart, InputStarted, InputStartedReturn, WaitSpace, StopRequested, EndOfInput,
              InputReceived, InputReceivedReturn, InputStoppedReturn, coreVars
<1>6. /\ pc' \in [Threads -> Labels]
      /\ \A u \in Threads \ {i} : SamePlace(u)
      /\ pc[i] \in Running => pc'[i] \in Running
      /\ pc'[i] = "receive" => pc[i] = "receive"
      /\ pc'[i] \in {"got", "send"} => pc[i] \in {"got", "send"}
  <2>1. CASE InputStarted(i) \/ InputReceived(i) \/ InputStopped(i)
    BY <2>1, <1>0 DEF InputStarted, InputReceived, InputStopped, SamePlace
  <2>2. CASE InputReceivedReturn(i)
    <3>1. pc[i] \in Running /\ pc' = Signalled(i, "space", IF i = curPlugin THEN {Output} ELSE {})
          /\ "space" \in Labels
      BY <2>2 DEF InputReceivedReturn, Running, Labels
    <3> QED BY <3>1, <1>0, SignalMoves DEF Running
  <2>3. CASE PluginStart(i) \/ InputStartedReturn(i) \/ WaitSpace(i) \/ StopRequested(i)
             \/ EndOfInput(i) \/ SwitchToPrimary(i) \/ InputStoppedReturn(i)
    <3>1. PICK next \in {"inputStarted", "space", "inputStopped", "spaceW", "drain", "toPrimary",
                         "stop", "begin"} :
             Goto(i, next) /\ (pc[i] \in Running => next \in Running)
      BY <2>3 DEF PluginStart, InputStartedReturn, WaitSpace, StopRequested, EndOfInput,
                  SwitchToPrimary, InputStoppedReturn, Running
    <3>2. next \in Labels
      BY <3>1 DEF Labels
    <3> QED BY <3>1, <3>2, <1>0, GotoMoves
  <2> QED BY <2>1, <2>2, <2>3
<1>7. Types'
  BY <1>1, <1>2, <1>3, <1>4, <1>5, <1>6, SafeUnchanged
     DEF Types, CoreTypes, InputTypes, OutTypes, ThreadTypes, BoundTypes, outVars, boundVars,
         CycleCount, StartSteps, mode
<1>8. BufInv'
  BY <1>0, <1>1, <1>6, InputsKept DEF outVars, boundVars
<1> QED BY <1>7, <1>8

\* A type-correct step of input thread i which changes only its own buffer and its own label.
LEMMA OwnStepTypes ==
    ASSUME Types, NEW i \in Inputs, NEW r \in InputState, NEW area \in Area, NEW next \in Labels,
           area.first + area.count <= BufferSize,
           inp' = [inp EXCEPT ![i] = r], inArea' = [inArea EXCEPT ![i] = area], Goto(i, next),
           UNCHANGED <<coreVars, holder, dogActive, started, outVars, stopStep, boundVars>>
    PROVE  /\ Types' /\ inp'[i] = r /\ inArea'[i] = area /\ pc'[i] = next
           /\ \A u \in Threads \ {i} : SamePlace(u)
<1>0. i \in Threads
  BY Constants
<1>1. pc' \in [Threads -> Labels] /\ pc'[i] = next /\ \A u \in Threads \ {i} : SamePlace(u)
  BY <1>0, GotoMoves DEF Types, ThreadTypes
<1>2. inp'[i] = r /\ inArea'[i] = area /\ inp' \in [Inputs -> InputState]
      /\ inArea' \in [Inputs -> Area]
  BY DEF Types, InputTypes
<1>3. \A j \in Inputs : inArea'[j].first + inArea'[j].count <= BufferSize
  BY DEF Types, InputTypes
<1>4. Types'
  BY <1>1, <1>2, <1>3, SafeUnchanged
     DEF Types, CoreTypes, InputTypes, OutTypes, ThreadTypes, BoundTypes, coreVars, outVars,
         boundVars, CycleCount, StartSteps, mode
<1> QED BY <1>1, <1>2, <1>4

\* The buffers of the other inputs in such a step.
LEMMA OwnStepBuffers ==
    ASSUME Types, BufInv, NEW i \in Inputs,
           \A j \in Inputs \ {i} : inp'[j] = inp[j] /\ inArea'[j] = inArea[j],
           UNCHANGED <<outIdx, outArea, opt>>,
           \A u \in Threads \ {i} : SamePlace(u),
           Buffer(i)'
    PROVE  BufInv'
<1>0. Inputs \subseteq Threads /\ Output \in Threads \ {i}
  BY Constants
<1>1. ASSUME NEW j \in Inputs \ {i} PROVE Buffer(j)'
  <2>1. Buffer(j)
    BY DEF BufInv
  <2>2. OutputUses(j)' => OutputUses(j)
    BY <1>0, SameRunning DEF OutputUses
  <2>3. (pc[j] \in Running => pc'[j] \in Running) /\ (pc'[j] = "receive" => pc[j] = "receive")
    BY <1>0, SameRunning
  <2>4. mode' = mode /\ PrimaryInput' = PrimaryInput
    BY DEF mode, PrimaryInput
  <2> QED BY <2>1, <2>2, <2>3, <2>4 DEF Buffer
<1> QED BY <1>1 DEF BufInv

\* Wait for a start request: the buffer is empty and the output does not use it.
LEMMA WaitStartStep ==
    ASSUME Types, BufInv, NEW i \in Inputs, WaitStart(i)
    PROVE  Types' /\ BufInv'
<1> DEFINE this == IF pc[i] = "begin" THEN [inp[i] EXCEPT !.first = 0, !.count = 0] ELSE inp[i]
           go   == this.start /\ ~this.term
           r    == IF go THEN [this EXCEPT !.start = FALSE, !.stop = FALSE] ELSE this
           next == IF this.term THEN "done" ELSE IF go THEN "starting" ELSE "idleW"
<1>c. BufferSize \in Nat /\ BufferSize >= 2
  BY Constants
<1>t. inp[i] \in InputState /\ inArea[i] \in Area /\ inArea[i].first + inArea[i].count <= BufferSize
      /\ inArea \in [Inputs -> Area]
  BY DEF Types, InputTypes
<1>1. /\ inp' = [inp EXCEPT ![i] = r] /\ inArea' = [inArea EXCEPT ![i] = inArea[i]]
      /\ Goto(i, next) /\ pc[i] \notin Running
      /\ UNCHANGED <<coreVars, holder, dogActive, started, outVars, stopStep, boundVars>>
  BY <1>t DEF WaitStart, Running
<1>2. this \in InputState
  <2>1. 0 \in 0 .. (BufferSize - 1) /\ 0 \in 0 .. BufferSize
    BY <1>c
  <2>2. [inp[i] EXCEPT !.first = 0, !.count = 0] \in InputState
    BY <2>1, <1>t DEF InputState
  <2> QED BY <2>2, <1>t
<1>3. r \in InputState
  BY <1>2 DEF InputState
<1>4. next \in Labels
  BY DEF Labels
<1>5. ~(inp[i].count > 0) /\ ~OutputUses(i) /\ (i = PrimaryInput => ~inp[i].stop)
  BY <1>1 DEF BufInv, Buffer
<1>6. r.count = 0 /\ (r.stop => inp[i].stop) /\ next # "receive"
  BY <1>2, <1>5, <1>t, <1>c DEF InputState
<1> HIDE DEF this, go, r, next
<1>7. /\ Types' /\ inp'[i] = r /\ pc'[i] = next
      /\ \A u \in Threads \ {i} : SamePlace(u)
  BY <1>1, <1>3, <1>4, <1>t, OwnStepTypes
<1>8. ~OutputUses(i)'
  <2>1. Output \in Threads \ {i} /\ outIdx' = outIdx
    BY <1>1, Constants DEF outVars
  <2> QED BY <2>1, <1>5, <1>7, SameRunning DEF OutputUses
<1>9. Buffer(i)'
  <2>1. PrimaryInput' = PrimaryInput
    BY <1>1 DEF boundVars, PrimaryInput
  <2> QED BY <2>1, <1>5, <1>6, <1>7, <1>8 DEF Buffer
<1>10. BufInv'
  <2>1. \A j \in Inputs \ {i} : inp'[j] = inp[j] /\ inArea'[j] = inArea[j]
    BY <1>1 DEF Types, InputTypes
  <2> QED BY <2>1, <1>1, <1>7, <1>9, OwnStepBuffers DEF outVars, boundVars
<1> QED BY <1>7, <1>10

\* Positions in a circular buffer.
LEMMA BufferMod ==
    ASSUME NEW n \in Nat, BufferSize \in Nat, BufferSize > 0
    PROVE  /\ n % BufferSize \in 0 .. (BufferSize - 1)
           /\ n < BufferSize => n % BufferSize = n
           /\ n >= BufferSize /\ n < BufferSize + BufferSize => n % BufferSize = n - BufferSize
<1>1. PICK q \in Int : n = BufferSize * q + (n % BufferSize)
  OBVIOUS
<1> QED BY <1>1

\* Prepare an area for receive(): it is free, and only the --fast-switch mode drops packets for it.
LEMMA PrepareStep ==
    ASSUME Types, BufInv, NEW i \in Inputs, PrepareReceive(i)
    PROVE  Types' /\ BufInv'
<1> DEFINE free    == IF Full(i) THEN MinOf(MaxInputPackets, BufferSize - inp[i].first) ELSE 0
           first   == (inp[i].first + free) % BufferSize
           count   == inp[i].count - free
           inFirst == (first + count) % BufferSize
           inCount == MinOf(MaxInputPackets, MinOf(BufferSize - count, BufferSize - inFirst))
           r       == [inp[i] EXCEPT !.first = first, !.count = count]
           area    == [first |-> inFirst, count |-> inCount]
<1>c. BufferSize \in Nat /\ BufferSize >= 2 /\ MaxInputPackets \in Nat /\ MaxInputPackets >= 1
      /\ MaxInputPackets <= BufferSize
  BY Constants
<1>t. inp[i] \in InputState /\ inp[i].first \in 0 .. (BufferSize - 1)
      /\ inp[i].count \in 0 .. BufferSize
  BY DEF Types, InputTypes, InputState
<1>1. /\ inp' = [inp EXCEPT ![i] = r] /\ inArea' = [inArea EXCEPT ![i] = area]
      /\ Goto(i, "receive") /\ pc[i] = "space" /\ (Full(i) => MayDrop(i))
      /\ UNCHANGED <<coreVars, holder, dogActive, started, outVars, stopStep, boundVars>>
  BY DEF PrepareReceive, Types, InputTypes
<1>2. /\ free \in 0 .. inp[i].count /\ inp[i].first + free \in Nat
      /\ (mode # "fast" => free = 0)
  BY <1>1, <1>t, <1>c DEF Full, MinOf, MayDrop
<1>3. /\ first \in 0 .. (BufferSize - 1) /\ (free = 0 => first = inp[i].first)
  <2> DEFINE n == inp[i].first + free
  <2>1. n \in Nat /\ (free = 0 => n = inp[i].first /\ n < BufferSize)
    BY <1>2, <1>t, <1>c
  <2> HIDE DEF n
  <2>2. n % BufferSize \in 0 .. (BufferSize - 1) /\ (n < BufferSize => n % BufferSize = n)
    BY <2>1, <1>c, BufferMod
  <2> QED BY <2>1, <2>2 DEF n
<1>4. count \in 0 .. BufferSize /\ (free = 0 => count = inp[i].count)
  BY <1>2, <1>t, <1>c
<1> HIDE DEF free, first, count
<1>5. inFirst \in 0 .. (BufferSize - 1)
  <2> DEFINE n == first + count
  <2>1. n \in Nat
    BY <1>3, <1>4, <1>c
  <2> HIDE DEF n
  <2>2. n % BufferSize \in 0 .. (BufferSize - 1)
    BY <2>1, <1>c, BufferMod
  <2> QED BY <2>2 DEF n
<1>6. /\ inCount \in 0 .. BufferSize /\ inFirst + inCount <= BufferSize
      /\ count + inCount <= BufferSize
  <2>0. inFirst \in 0 .. (BufferSize - 1)
    BY <1>5
  <2> HIDE DEF inFirst
  <2> QED BY <2>0, <1>4, <1>c DEF MinOf
<1>7. /\ r \in InputState /\ r.first = first /\ r.count = count /\ r.inUse = inp[i].inUse
      /\ r.stop = inp[i].stop
  BY <1>3, <1>4, <1>t DEF InputState
<1>8. area.first = inFirst /\ area.count = inCount /\ area \in Area
  BY <1>5, <1>6 DEF Area
<1>9. "receive" \in Labels /\ area.first + area.count <= BufferSize
  BY <1>6, <1>8 DEF Labels
<1> HIDE DEF inFirst, inCount, r, area
<1>10. /\ Types' /\ inp'[i] = r /\ inArea'[i] = area /\ pc'[i] = "receive"
       /\ \A u \in Threads \ {i} : SamePlace(u)
  BY <1>1, <1>7, <1>8, <1>9, OwnStepTypes
<1>11. Buffer(i)'
  <2>1. Buffer(i) /\ mode' = mode /\ PrimaryInput' = PrimaryInput
    BY <1>1 DEF BufInv, boundVars, mode, PrimaryInput
  <2>2. OutputUses(i)' => OutputUses(i)
    <3>1. Output \in Threads \ {i} /\ outIdx' = outIdx
      BY <1>1, Constants DEF outVars
    <3> QED BY <3>1, <1>10, SameRunning DEF OutputUses
  <2>3. area.first = (r.first + r.count) % BufferSize
    BY <1>7, <1>8 DEF inFirst
  <2>4. OutputUses(i)' => inp'[i].inUse
    BY <2>1, <2>2, <1>7, <1>10 DEF Buffer
  <2>5. i = PrimaryInput' => ~inp'[i].stop
    BY <2>1, <1>7, <1>10 DEF Buffer
  <2>6. pc'[i] \in Running /\ inp'[i].count + inArea'[i].count <= BufferSize
    BY <1>6, <1>7, <1>8, <1>10 DEF Running
  <2>7. inArea'[i].first = (inp'[i].first + inp'[i].count) % BufferSize
    BY <2>3, <1>10
  <2>8. ASSUME mode' # "fast", OutputUses(i)'
        PROVE  outArea'.first = inp'[i].first /\ outArea'.count <= inp'[i].count
    <3>1. inp'[i].first = inp[i].first /\ inp'[i].count = inp[i].count /\ outArea' = outArea
      BY <2>8, <2>1, <1>1, <1>2, <1>3, <1>4, <1>7, <1>10 DEF outVars
    <3> QED BY <3>1, <2>8, <2>1, <2>2 DEF Buffer
  <2> QED BY <2>4, <2>5, <2>6, <2>7, <2>8 DEF Buffer
<1>12. BufInv'
  <2>1. \A j \in Inputs \ {i} : inp'[j] = inp[j] /\ inArea'[j] = inArea[j]
    BY <1>1 DEF Types, InputTypes
  <2> QED BY <2>1, <1>1, <1>10, <1>11, OwnStepBuffers DEF outVars, boundVars
<1> QED BY <1>10, <1>12

\* receive() fills a part of the area.
LEMMA ReceiveStep ==
    ASSUME Types, BufInv, NEW i \in Inputs, Receive(i)
    PROVE  Types' /\ BufInv'
<1>c. BufferSize \in Nat
  BY Constants
<1>t. /\ inp[i] \in InputState /\ inp[i].count \in 0 .. BufferSize /\ inArea[i] \in Area
      /\ inArea[i].first + inArea[i].count <= BufferSize /\ inArea \in [Inputs -> Area]
      /\ inArea[i].count \in 0 .. BufferSize
  BY DEF Types, InputTypes, InputState, Area
<1>1. PICK n \in 1 .. inArea[i].count : inp' = [inp EXCEPT ![i].count = @ + n]
  BY DEF Receive
<1> DEFINE r == [inp[i] EXCEPT !.count = inp[i].count + n]
<1>2. /\ inp' = [inp EXCEPT ![i] = r] /\ inArea' = [inArea EXCEPT ![i] = inArea[i]]
      /\ Goto(i, "inputReceived") /\ pc[i] = "receive"
      /\ UNCHANGED <<coreVars, holder, dogActive, started, outVars, stopStep, boundVars>>
  BY <1>1, <1>t DEF Receive, Types, InputTypes
<1>3. Buffer(i)
  BY DEF BufInv
<1>4. inp[i].count + n \in 0 .. BufferSize /\ inp[i].count <= inp[i].count + n
  BY <1>2, <1>3, <1>t, <1>c DEF Buffer
<1>5. /\ r \in InputState /\ r.first = inp[i].first /\ r.count = inp[i].count + n
      /\ r.inUse = inp[i].inUse /\ r.stop = inp[i].stop
  BY <1>4, <1>t DEF InputState
<1>6. "inputReceived" \in Labels
  BY DEF Labels
<1> HIDE DEF r
<1>7. /\ Types' /\ inp'[i] = r /\ pc'[i] = "inputReceived"
      /\ \A u \in Threads \ {i} : SamePlace(u)
  BY <1>2, <1>5, <1>6, <1>t, OwnStepTypes
<1>8. Buffer(i)'
  <2>1. mode' = mode /\ PrimaryInput' = PrimaryInput /\ outArea' = outArea
    BY <1>2 DEF boundVars, outVars, mode, PrimaryInput
  <2>2. OutputUses(i)' => OutputUses(i)
    <3>1. Output \in Threads \ {i} /\ outIdx' = outIdx
      BY <1>2, Constants DEF outVars
    <3> QED BY <3>1, <1>7, SameRunning DEF OutputUses
  <2>3. pc'[i] \in Running /\ pc'[i] # "receive"
    BY <1>7 DEF Running
  <2>4. OutputUses(i)' => inp'[i].inUse
    BY <1>3, <1>5, <1>7, <2>2 DEF Buffer
  <2>5. i = PrimaryInput' => ~inp'[i].stop
    BY <1>3, <1>5, <1>7, <2>1 DEF Buffer
  <2>6. ASSUME mode' # "fast", OutputUses(i)'
        PROVE  outArea'.first = inp'[i].first /\ outArea'.count <= inp'[i].count
    <3>1. outArea.first = inp[i].first /\ outArea.count <= inp[i].count
      BY <2>6, <2>1, <2>2, <1>3 DEF Buffer
    <3>2. outArea.count \in Nat /\ inp[i].count \in Nat /\ n \in Nat
      BY <1>1, <1>t, <1>c DEF Types, OutTypes, Area
    <3>3. outArea.count <= inp[i].count + n
      BY <3>1, <3>2
    <3> QED BY <3>1, <3>3, <2>1, <1>5, <1>7
  <2> QED BY <2>3, <2>4, <2>5, <2>6 DEF Buffer
<1>9. BufInv'
  <2>1. \A j \in Inputs \ {i} : inp'[j] = inp[j] /\ inArea'[j] = inArea[j]
    BY <1>2 DEF Types, InputTypes
  <2> QED BY <2>1, <1>2, <1>7, <1>8, OwnStepBuffers DEF outVars, boundVars
<1> QED BY <1>7, <1>9

\* The end of a session: not before the output has released the buffer.
LEMMA EndSessionStep ==
    ASSUME Types, BufInv, NEW i \in Inputs, EndSession(i)
    PROVE  Types' /\ BufInv'
<1>c. BufferSize \in Nat /\ BufferSize >= 2 /\ i \in Threads
  BY Constants
<1>t. /\ inp[i] \in InputState /\ inArea[i] \in Area /\ inArea \in [Inputs -> Area]
      /\ inArea[i].first + inArea[i].count <= BufferSize /\ inp \in [Inputs -> InputState]
  BY DEF Types, InputTypes
<1>b. Buffer(i)
  BY DEF BufInv
<1> DEFINE r == IF HasOutput(i) THEN inp[i] ELSE [inp[i] EXCEPT !.first = 0, !.count = 0]
           next == IF HasOutput(i) THEN "drainW" ELSE "inputStopped"
<1>1. /\ inp' = [inp EXCEPT ![i] = r] /\ inArea' = [inArea EXCEPT ![i] = inArea[i]]
      /\ Goto(i, next) /\ pc[i] = "drain"
      /\ UNCHANGED <<coreVars, holder, dogActive, started, outVars, stopStep, boundVars>>
  BY <1>t DEF EndSession
<1>2. r \in InputState /\ r.inUse = inp[i].inUse /\ r.stop = inp[i].stop /\ next \in Labels
  <2>1. 0 \in 0 .. (BufferSize - 1) /\ 0 \in 0 .. BufferSize
    BY <1>c
  <2> QED BY <2>1, <1>t DEF InputState, Labels
<1>3. HasOutput(i) => r = inp[i] /\ next \in Running /\ next # "receive"
  BY DEF Running
<1>4. ~HasOutput(i) => ~inp[i].inUse /\ r.count = 0 /\ next # "receive"
  BY <1>t DEF HasOutput, InputState
<1> HIDE DEF r, next
<1>5. /\ Types' /\ inp'[i] = r /\ pc'[i] = next
      /\ \A u \in Threads \ {i} : SamePlace(u)
  BY <1>1, <1>2, <1>t, OwnStepTypes
<1>6. OutputUses(i)' => OutputUses(i)
  <2>1. Output \in Threads \ {i} /\ outIdx' = outIdx
    BY <1>1, Constants DEF outVars
  <2> QED BY <2>1, <1>5, SameRunning DEF OutputUses
<1>7. Buffer(i)'
  <2>1. mode' = mode /\ PrimaryInput' = PrimaryInput /\ outArea' = outArea
    BY <1>1 DEF boundVars, outVars, mode, PrimaryInput
  <2>2. CASE HasOutput(i)
    BY <2>1, <2>2, <1>3, <1>5, <1>6, <1>b DEF Buffer
  <2>3. CASE ~HasOutput(i)
    BY <2>1, <2>3, <1>2, <1>4, <1>5, <1>6, <1>b DEF Buffer
  <2> QED BY <2>2, <2>3
<1>8. BufInv'
  <2>1. \A j \in Inputs \ {i} : inp'[j] = inp[j] /\ inArea'[j] = inArea[j]
    BY <1>1 DEF Types, InputTypes
  <2> QED BY <2>1, <1>1, <1>5, <1>7, OwnStepBuffers DEF outVars, boundVars
<1> QED BY <1>5, <1>8

\* Each step of an input thread.
LEMMA InputStep ==
    ASSUME Types, BufInv, NEW i \in Inputs, Input(i)
    PROVE  Types' /\ BufInv'
<1>1. i \in Threads
  BY Constants
<1> QED BY <1>1, WaitStartStep, InputReports, PrepareStep, ReceiveStep, EndSessionStep, StopStep
        DEF Input

-----------------------------------------------------------------------------
(***************************************************************************)
(* Output thread.                                                          *)
(***************************************************************************)
\* Releasing packets at the front of a buffer leaves its end where it is.
LEMMA EndKept ==
    ASSUME BufferSize \in Nat, BufferSize > 0, NEW f \in 0 .. (BufferSize - 1),
           NEW c \in 0 .. BufferSize, NEW n \in 0 .. c
    PROVE  (((f + n) % BufferSize) + (c - n)) % BufferSize = (f + c) % BufferSize
<1>1. f + n \in Nat /\ f + c \in Nat /\ f + n < BufferSize + BufferSize
      /\ f + c < BufferSize + BufferSize
  OBVIOUS
<1>2. CASE f + n < BufferSize
  <2>1. (f + n) % BufferSize = f + n
    BY <1>1, <1>2, BufferMod
  <2>2. (f + n) + (c - n) = f + c
    OBVIOUS
  <2> QED BY <2>1, <2>2
<1>3. CASE f + n >= BufferSize
  <2>1. (f + n) % BufferSize = (f + n) - BufferSize
    BY <1>1, <1>3, BufferMod
  <2>2. (f + c) % BufferSize = (f + c) - BufferSize
    BY <1>1, <1>3, BufferMod
  <2>3. ((f + n) - BufferSize) + (c - n) = (f + c) - BufferSize
    OBVIOUS
  <2>4. (f + c) - BufferSize \in Nat /\ (f + c) - BufferSize < BufferSize
    BY <1>1, <1>3
  <2> DEFINE m == (f + c) - BufferSize
  <2> HIDE DEF m
  <2>5. m % BufferSize = m
    BY <2>4, BufferMod DEF m
  <2> QED BY <2>1, <2>2, <2>3, <2>5 DEF m
<1> QED BY <1>2, <1>3

\* getOutputArea() gives the output the front of the buffer of the current input.
LEMMA GetOutputStep ==
    ASSUME Types, BufInv, GetOutputArea
    PROVE  Types' /\ BufInv'
<1>c. BufferSize \in Nat /\ BufferSize >= 2 /\ Output \in Threads /\ Output \notin Inputs
      /\ Inputs \subseteq Threads
  BY Constants
<1>t. /\ curPlugin \in Inputs /\ pc \in [Threads -> Labels] /\ inp \in [Inputs -> InputState]
      /\ inp[curPlugin] \in InputState
      /\ inp[curPlugin].first \in 0 .. (BufferSize - 1) /\ inp[curPlugin].count \in 0 .. BufferSize
  BY DEF Types, CoreTypes, ThreadTypes, InputTypes, InputState
<1>1. CASE terminate
  <2>1. Goto(Output, "done") /\ "done" \in Labels
        /\ UNCHANGED <<inp, outIdx, outArea, coreVars, holder, dogActive, inArea, started,
                       outTerminate, stopStep, boundVars>>
    BY <1>1 DEF GetOutputArea, Labels
  <2>2. /\ pc' \in [Threads -> Labels] /\ pc'[Output] = "done"
        /\ \A u \in Threads \ {Output} : SamePlace(u)
    BY <2>1, <1>c, <1>t, GotoMoves
  <2>3. Types'
    BY <2>1, <2>2, SafeUnchanged
       DEF Types, CoreTypes, InputTypes, OutTypes, ThreadTypes, BoundTypes, coreVars, boundVars,
           CycleCount, StartSteps, mode
  <2>4. pc[Output] = "get"
    BY DEF GetOutputArea
  <2> QED BY <2>1, <2>2, <2>3, <2>4, <1>c, InputsKept DEF boundVars, Running
<1>2. CASE ~terminate
  <2> DEFINE first == inp[curPlugin].first
             count == MinOf(inp[curPlugin].count, BufferSize - first)
             r     == [inp[curPlugin] EXCEPT !.inUse = count > 0]
             next  == IF count > 0 THEN "got" ELSE "getW"
  <2>1. /\ pc[Output] = "get"
        /\ inp' = [inp EXCEPT ![curPlugin] = r]
        /\ outIdx' = IF count > 0 THEN curPlugin ELSE outIdx
        /\ outArea' = [first |-> first, count |-> count]
        /\ pc' = Signalled(Output, next, {curPlugin})
        /\ UNCHANGED <<coreVars, holder, dogActive, inArea, started, outTerminate, stopStep,
                       boundVars>>
    BY <1>2, <1>t DEF GetOutputArea
  <2>2. count \in 0 .. BufferSize /\ count <= inp[curPlugin].count /\ first + count <= BufferSize
        /\ (count > 0) \in BOOLEAN
    BY <1>t, <1>c DEF MinOf
  <2> HIDE DEF count
  <2>3. /\ r \in InputState /\ r.first = first /\ r.count = inp[curPlugin].count
        /\ r.inUse = (count > 0) /\ r.stop = inp[curPlugin].stop
    BY <2>2, <1>t DEF InputState
  <2>4. next \in Labels /\ (count > 0 => next = "got") /\ (~(count > 0) => next = "getW")
    BY DEF Labels
  <2>5. outArea'.first = first /\ outArea'.count = count /\ outArea' \in Area
    BY <2>1, <2>2, <1>t DEF Area
  <2> HIDE DEF r, next
  <2>6. /\ pc' \in [Threads -> Labels] /\ pc'[Output] = next
        /\ \A u \in Threads \ {Output} : SamePlace(u)
    BY <2>1, <2>4, <1>c, <1>t, SignalMoves
  <2>7. inp' \in [Inputs -> InputState] /\ outIdx' \in Inputs
    BY <2>1, <2>3, <1>t DEF Types, OutTypes
  <2>8. Types'
    BY <2>1, <2>5, <2>6, <2>7, SafeUnchanged
       DEF Types, CoreTypes, InputTypes, OutTypes, ThreadTypes, BoundTypes, coreVars, boundVars,
           CycleCount, StartSteps, mode
  <2>9. ASSUME NEW j \in Inputs PROVE Buffer(j)'
    <3>1. /\ Buffer(j) /\ mode' = mode /\ PrimaryInput' = PrimaryInput /\ inArea' = inArea
          /\ ~OutputUses(j)
      BY <2>1 DEF BufInv, boundVars, mode, PrimaryInput, OutputUses
    <3>2. (pc[j] \in Running => pc'[j] \in Running) /\ (pc'[j] = "receive" => pc[j] = "receive")
      BY <2>6, <1>c, SameRunning
    <3>3. OutputUses(j)' => j = curPlugin /\ count > 0
      BY <2>1, <2>4, <2>6 DEF OutputUses
    <3>4. CASE j = curPlugin
      <4>1. inp'[j] = r
        BY <2>1, <3>4, <1>t
      <4>2. count > 0 => inp[j].count > 0
        BY <2>2, <3>4, <1>t, <1>c
      <4>3. inp'[j].count > 0 \/ OutputUses(j)' => pc'[j] \in Running
        BY <3>1, <3>2, <3>3, <3>4, <4>1, <4>2, <2>3 DEF Buffer
      <4>4. OutputUses(j)' => inp'[j].inUse
        BY <3>3, <4>1, <2>3
      <4>5. inp'[j].first = inp[j].first /\ inp'[j].count = inp[j].count
            /\ inp'[j].stop = inp[j].stop
        BY <4>1, <3>4, <2>3
      <4>6. outArea'.first = inp'[j].first /\ outArea'.count <= inp'[j].count
        BY <4>5, <3>4, <2>2, <2>5
      <4> QED BY <3>1, <3>2, <4>3, <4>4, <4>5, <4>6 DEF Buffer
    <3>5. CASE j # curPlugin
      <4>1. inp'[j] = inp[j] /\ ~OutputUses(j)'
        BY <2>1, <3>3, <3>5, <1>t
      <4> QED BY <3>1, <3>2, <4>1 DEF Buffer
    <3> QED BY <3>4, <3>5
  <2>10. BufInv'
    BY <2>2, <2>5, <2>9 DEF BufInv
  <2> QED BY <2>8, <2>10
<1> QED BY <1>1, <1>2

\* send() and outputSent() release the front of the buffer.
LEMMA OutputSendStep ==
    ASSUME Types, BufInv, OutputSend
    PROVE  Types' /\ BufInv'
<1>c. BufferSize \in Nat /\ BufferSize >= 2 /\ Output \in Threads /\ Output \notin Inputs
      /\ Inputs \subseteq Threads
  BY Constants
<1>t. /\ outIdx \in Inputs /\ pc \in [Threads -> Labels] /\ inp \in [Inputs -> InputState]
      /\ inp[outIdx] \in InputState /\ outArea.count \in 0 .. BufferSize
      /\ inp[outIdx].first \in 0 .. (BufferSize - 1) /\ inp[outIdx].count \in 0 .. BufferSize
  BY DEF Types, OutTypes, ThreadTypes, InputTypes, InputState, Area
<1> DEFINE n     == outArea.count
           first == (inp[outIdx].first + n) % BufferSize
           r     == FreeOutput(outIdx, n)
<1>1. /\ pc[Output] = "send" /\ n <= inp[outIdx].count
      /\ inp' = [inp EXCEPT ![outIdx] = r]
      /\ UNCHANGED <<coreVars, holder, dogActive, inArea, started, outVars, stopStep, nCommands,
                     nTimeouts, startAt, opt>>
      /\ sendError' \in BOOLEAN
  BY DEF OutputSend, Types, BoundTypes
<1>2. PICK next \in {"top", "stop"} : pc' = Signalled(Output, next, {outIdx})
  BY DEF OutputSend
<1>3. first \in 0 .. (BufferSize - 1)
  <2>1. inp[outIdx].first + n \in Nat
    BY <1>t, <1>c
  <2> QED BY <2>1, <1>c, BufferMod
<1>4. inp[outIdx].count - n \in 0 .. BufferSize
  BY <1>1, <1>t, <1>c
<1>5. /\ r \in InputState /\ r.first = first /\ r.count = inp[outIdx].count - n
      /\ r.stop = inp[outIdx].stop
  <2> HIDE DEF first
  <2>1. r = [inp[outIdx] EXCEPT !.first = first, !.count = inp[outIdx].count - n, !.inUse = FALSE]
    BY <1>t DEF FreeOutput, first, InputState
  <2> QED BY <2>1, <1>3, <1>4, <1>t DEF InputState
<1>6. (first + (inp[outIdx].count - n)) % BufferSize
         = (inp[outIdx].first + inp[outIdx].count) % BufferSize
  <2>1. n \in 0 .. inp[outIdx].count
    BY <1>1, <1>t, <1>c
  <2> DEFINE f == inp[outIdx].first
             c == inp[outIdx].count
  <2>2. f \in 0 .. (BufferSize - 1) /\ c \in 0 .. BufferSize /\ n \in 0 .. c /\ BufferSize > 0
    BY <2>1, <1>t, <1>c
  <2> HIDE DEF f, c, n
  <2>3. (((f + n) % BufferSize) + (c - n)) % BufferSize = (f + c) % BufferSize
    BY <2>2, <1>c, EndKept
  <2> QED BY <2>3 DEF f, c, n
<1> HIDE DEF first, r
<1>7. next \in Labels
  BY DEF Labels
<1>8. /\ pc' \in [Threads -> Labels] /\ pc'[Output] = next
      /\ \A u \in Threads \ {Output} : SamePlace(u)
  BY <1>2, <1>7, <1>c, <1>t, SignalMoves
<1>9. inp' \in [Inputs -> InputState]
  BY <1>1, <1>5, <1>t
<1>10. Types'
  BY <1>1, <1>8, <1>9, SafeUnchanged
     DEF Types, CoreTypes, InputTypes, OutTypes, ThreadTypes, BoundTypes, coreVars, outVars,
         CycleCount, StartSteps, mode
<1>11. ASSUME NEW j \in Inputs PROVE Buffer(j)'
  <2>1. /\ Buffer(j) /\ mode' = mode /\ PrimaryInput' = PrimaryInput /\ inArea' = inArea
        /\ ~OutputUses(j)'
    BY <1>1, <1>8 DEF BufInv, mode, PrimaryInput, OutputUses
  <2>2. (pc[j] \in Running => pc'[j] \in Running) /\ (pc'[j] = "receive" => pc[j] = "receive")
    BY <1>8, <1>c, SameRunning
  <2>3. CASE j = outIdx
    <3>1. inp'[j] = r
      BY <1>1, <2>3, <1>t
    <3>2. pc[j] \in Running
      BY <1>1, <2>1, <2>3 DEF Buffer, OutputUses
    <3>3. inp'[j].stop = inp[j].stop /\ inp'[j].count <= inp[j].count /\ inp'[j].count \in Nat
      BY <3>1, <1>5, <1>1, <1>t, <1>c, <2>3
    <3>4. inArea[j].count \in Nat /\ inp[j].count \in Nat
      BY <1>c, <1>t, <2>3 DEF Types, InputTypes, Area
    <3>5. pc[j] = "receive" => inp'[j].count + inArea[j].count <= BufferSize
      <4> DEFINE k == inp'[j].count
      <4>1. k <= inp[j].count /\ k \in Nat
        BY <3>3
      <4> HIDE DEF k
      <4>2. pc[j] = "receive" => k + inArea[j].count <= BufferSize
        BY <4>1, <3>4, <2>1, <1>c DEF Buffer
      <4> QED BY <4>2 DEF k
    <3>6. mode # "fast" /\ pc[j] = "receive" =>
             inArea[j].first = (inp'[j].first + inp'[j].count) % BufferSize
      BY <3>1, <1>5, <1>6, <2>1, <2>3 DEF Buffer
    <3> QED BY <2>1, <2>2, <3>2, <3>3, <3>5, <3>6 DEF Buffer
  <2>4. CASE j # outIdx
    <3>1. inp'[j] = inp[j]
      BY <1>1, <2>4, <1>t
    <3> QED BY <2>1, <2>2, <3>1 DEF Buffer
  <2> QED BY <2>3, <2>4
<1>12. BufInv'
  BY <1>1, <1>11 DEF BufInv, outVars
<1> QED BY <1>10, <1>12

\* Each step of the output thread.
LEMMA OutputStep ==
    ASSUME Types, BufInv, OutputThread
    PROVE  Types' /\ BufInv'
<1>c. Output \in Threads
  BY Constants
<1>1. CASE OutputLoop \/ OutputCheck
  <2>1. PICK next \in {"done", "get", "top", "send"} : Goto(Output, next)
    BY <1>1 DEF OutputLoop, OutputCheck
  <2>2. (pc[Output] = "top" /\ next \in {"done", "get"}) \/ pc[Output] = "got"
    <3>1. CASE OutputCheck
      BY <3>1 DEF OutputCheck
    <3>2. CASE OutputLoop
      <4>1. pc[Output] = "top" /\ pc'[Output] \in {"done", "get"} /\ pc'[Output] = next
        BY <3>2, <2>1, <1>c DEF OutputLoop, Goto, Types, ThreadTypes
      <4> QED BY <4>1
    <3> QED BY <1>1, <3>1, <3>2
  <2>3. UNCHANGED <<coreVars, holder, dogActive, inputVars, outVars, stopStep, boundVars>>
    BY <1>1 DEF OutputLoop, OutputCheck
  <2>4. /\ pc' \in [Threads -> Labels] /\ pc'[Output] = next
        /\ \A u \in Threads \ {Output} : SamePlace(u)
    <3>1. next \in Labels
      BY DEF Labels
    <3> QED BY <3>1, <2>1, <1>c, GotoMoves DEF Types, ThreadTypes
  <2>5. Types'
    BY <2>3, <2>4, SafeUnchanged
       DEF Types, CoreTypes, InputTypes, OutTypes, ThreadTypes, BoundTypes, coreVars, inputVars,
           outVars, boundVars, CycleCount, StartSteps, mode
  <2> QED BY <2>2, <2>3, <2>4, <2>5, <1>c, InputsKept DEF inputVars, outVars, boundVars, Running
<1> QED BY <1>1, <1>c, GetOutputStep, OutputSendStep, StopStep DEF OutputThread

-----------------------------------------------------------------------------
(***************************************************************************)
(* The other threads.                                                      *)
(***************************************************************************)
\* The command listener, the watchdog and the end of the main thread.
LEMMA ControlStep ==
    ASSUME Types, BufInv, CommandListener \/ WatchDog \/ WaitForTermination
    PROVE  Types' /\ BufInv'
<1>c. /\ {Listener, Dog, Main} \subseteq Threads /\ {Listener, Dog, Main} \cap Inputs = {}
      /\ Output \notin {Listener, Dog, Main} /\ MaxCommands \in Nat
  BY Constants
<1>t. /\ opt \in CommandLines /\ curPlugin \in Inputs /\ actions \in Seq(SafeAction)
      /\ pc \in [Threads -> Labels] /\ holder \in Threads \cup {None}
      /\ nCommands \in 0 .. MaxCommands /\ nTimeouts \in 0 .. opt.timeouts
  BY DEF Types, CoreTypes, ThreadTypes, BoundTypes
<1>1. ASSUME NEW t \in {Listener, Dog, Main}, actions' \in Seq(SafeAction),
             holder' \in Threads \cup {None}, nCommands' \in 0 .. MaxCommands,
             nTimeouts' \in 0 .. opt.timeouts, pc' = pc \/ Goto(t, pc'[t]),
             pc'[t] \in {"listen", "timer", "expired", "stop", "done"},
             UNCHANGED <<curPlugin, curCycle, terminate, events, dogActive, inputVars, outVars,
                         stopStep, sendError, startAt, opt>>
      PROVE  Types' /\ BufInv'
  <2>1. t \in Threads /\ pc'[t] \in Labels
    BY <1>1, <1>c DEF Labels
  <2>2. pc' \in [Threads -> Labels] /\ \A u \in Threads \ {t} : SamePlace(u)
    <3>1. CASE pc' = pc
      BY <3>1, <1>t DEF SamePlace
    <3>2. CASE Goto(t, pc'[t])
      BY <3>2, <2>1, <1>t, GotoMoves
    <3> QED BY <3>1, <3>2, <1>1
  <2>3. Types'
    BY <2>2, <1>1, SafeUnchanged
       DEF Types, CoreTypes, InputTypes, OutTypes, ThreadTypes, BoundTypes, inputVars, outVars,
           CycleCount, StartSteps, mode
  <2>4. Calm
    <3>1. \A i \in Inputs : i = PrimaryInput => ~inp[i].stop
      BY DEF BufInv, Buffer
    <3>2. \A u \in Inputs \cup {Output} : SamePlace(u)
      BY <2>2, <1>c, Constants
    <3> QED BY <3>1, <3>2, <1>1, SameRunning DEF Calm, inputVars, outVars
  <2> QED BY <2>3, <2>4, CalmStep
<1>2. ASSUME NEW cmd \in opt.commands, SwitchCommand(cmd) PROVE Types' /\ BufInv'
  <2>1. PICK index : SetInputLocked(index, FALSE)
    BY <1>2 DEF SwitchCommand
  <2>2. actions' \in Seq(SafeAction)
    BY <2>1, <1>t, SafeSetInput
  <2>3. /\ holder' = Listener /\ nCommands' \in 0 .. MaxCommands /\ nTimeouts' = nTimeouts
        /\ pc' = pc /\ pc[Listener] = "listen"
        /\ UNCHANGED <<curPlugin, curCycle, terminate, events, dogActive, inputVars, outVars,
                       stopStep, sendError, startAt, opt>>
    BY <1>2, <1>t, <1>c DEF SwitchCommand, Lock
  <2> QED BY <2>2, <2>3, <1>1, <1>t, <1>c
<1>3. CASE SwitchCommandReturn \/ QuitCommand
  <2>1. /\ holder' \in Threads \cup {None} /\ nCommands' \in 0 .. MaxCommands
        /\ nTimeouts' = nTimeouts /\ actions' = actions
        /\ (pc' = pc \/ Goto(Listener, pc'[Listener])) /\ pc'[Listener] \in {"listen", "stop"}
        /\ UNCHANGED <<curPlugin, curCycle, terminate, events, dogActive, inputVars, outVars,
                       stopStep, sendError, startAt, opt>>
    BY <1>3, <1>t, <1>c DEF SwitchCommandReturn, QuitCommand, Unlock, coreVars, boundVars, Goto
  <2> QED BY <2>1, <1>1, <1>t
<1>4. CASE Expire \/ HandleWatchDogReturn
  <2>1. /\ holder' \in Threads \cup {None} /\ nTimeouts' \in 0 .. opt.timeouts
        /\ nCommands' = nCommands /\ actions' = actions
        /\ Goto(Dog, pc'[Dog]) /\ pc'[Dog] \in {"timer", "expired"}
        /\ UNCHANGED <<curPlugin, curCycle, terminate, events, dogActive, inputVars, outVars,
                       stopStep, sendError, startAt, opt>>
    <3>1. opt.timeouts \in Nat
      BY <1>t, Options
    <3> QED BY <1>4, <1>t, <1>c, <3>1 DEF Expire, HandleWatchDogReturn, Unlock, coreVars, boundVars, Goto
  <2> QED BY <2>1, <1>1, <1>t
<1>5. CASE HandleWatchDogTimeout
  <2>1. actions' \in Seq(SafeAction)
    BY <1>5, <1>t, SafeSetInput DEF HandleWatchDogTimeout
  <2>2. /\ holder' = Dog /\ nCommands' = nCommands /\ nTimeouts' = nTimeouts /\ pc' = pc
        /\ pc[Dog] = "expired"
        /\ UNCHANGED <<curPlugin, curCycle, terminate, events, dogActive, inputVars, outVars,
                       stopStep, sendError, startAt, opt>>
    BY <1>5 DEF HandleWatchDogTimeout, Lock, boundVars
  <2> QED BY <2>1, <2>2, <1>1, <1>t, <1>c
<1>6. CASE WaitForTermination
  <2>1. /\ Goto(Main, "done") /\ pc'[Main] = "done" /\ actions' = actions /\ holder' = holder
        /\ nCommands' = nCommands /\ nTimeouts' = nTimeouts
        /\ UNCHANGED <<curPlugin, curCycle, terminate, events, dogActive, inputVars, outVars,
                       stopStep, sendError, startAt, opt>>
    BY <1>6, <1>t, <1>c DEF WaitForTermination, Goto, coreVars, boundVars
  <2> QED BY <2>1, <1>1, <1>t
<1>7. CASE Stop(Listener, TRUE, "listen")
  BY <1>7, <1>c, StopStep
<1> QED BY <1>2, <1>3, <1>4, <1>5, <1>6, <1>7 DEF CommandListener, WatchDog

\* Core::start() asks inputs to start.
LEMMA CoreStartStep ==
    ASSUME Types, BufInv, CoreStart
    PROVE  Types' /\ BufInv'
<1>c. Main \in Threads /\ Inputs \subseteq Threads /\ Output \in Threads /\ NInputs \in Nat
  BY Constants
<1>t. /\ inp \in [Inputs -> InputState] /\ pc \in [Threads -> Labels]
      /\ startAt \in 0 .. StartSteps
  BY DEF Types, InputTypes, ThreadTypes, BoundTypes
<1>1. /\ startAt' = startAt + 1 /\ startAt < StartSteps
      /\ inp' = [i \in Inputs |->
                   IF i \in StartTargets
                   THEN [inp[i] EXCEPT !.isCurrent = (i = curPlugin), !.start = TRUE,
                                       !.stop = FALSE]
                   ELSE inp[i]]
      /\ pc' = Signalled(Main, "start", StartTargets) /\ pc[Main] = "start"
      /\ UNCHANGED <<coreVars, holder, dogActive, inArea, started, outVars, stopStep, nCommands,
                     nTimeouts, sendError, opt>>
  BY DEF CoreStart
<1>2. startAt' \in 0 .. StartSteps'
  <2>1. StartSteps \in Nat
    BY <1>c DEF StartSteps
  <2>2. startAt < StartSteps /\ startAt \in 0 .. StartSteps
    BY <1>1, <1>t
  <2>3. startAt + 1 \in 0 .. StartSteps
    BY <2>1, <2>2
  <2>4. startAt' = startAt + 1 /\ StartSteps' = StartSteps
    BY <1>1 DEF StartSteps, mode
  <2> QED BY <2>3, <2>4
<1>3. /\ pc' \in [Threads -> Labels] /\ \A u \in Threads : SamePlace(u)
  <2>1. "start" \in Labels
    BY DEF Labels
  <2>2. pc' \in [Threads -> Labels] /\ pc'[Main] = "start"
        /\ \A u \in Threads \ {Main} : SamePlace(u)
    BY <2>1, <1>1, <1>c, <1>t, SignalMoves
  <2> QED BY <2>2, <1>1 DEF SamePlace
<1>4. ASSUME NEW i \in Inputs
      PROVE  /\ inp'[i] \in InputState /\ inp'[i].inUse = inp[i].inUse
             /\ inp'[i].first = inp[i].first /\ inp'[i].count = inp[i].count
             /\ i = PrimaryInput => ~inp'[i].stop
  <2>1. inp[i] \in InputState /\ (i = PrimaryInput => ~inp[i].stop)
    BY <1>t DEF BufInv, Buffer
  <2>2. CASE i \in StartTargets
    <3>1. inp'[i] = [inp[i] EXCEPT !.isCurrent = (i = curPlugin), !.start = TRUE, !.stop = FALSE]
      BY <1>1, <2>2
    <3> QED BY <3>1, <2>1 DEF InputState
  <2>3. CASE i \notin StartTargets
    BY <1>1, <2>1, <2>3
  <2> QED BY <2>2, <2>3
<1>5. inp' \in [Inputs -> InputState]
  BY <1>1, <1>4
<1>6. Types'
  BY <1>1, <1>2, <1>3, <1>5, SafeUnchanged
     DEF Types, CoreTypes, InputTypes, OutTypes, ThreadTypes, BoundTypes, coreVars, outVars,
         CycleCount, StartSteps, mode
<1>7. Calm
  BY <1>1, <1>3, <1>4, <1>c, SameRunning DEF Calm, outVars
<1> QED BY <1>6, <1>7, CalmStep

-----------------------------------------------------------------------------
(***************************************************************************)
(* The invariant and the properties.                                       *)
(***************************************************************************)
\* At the start, all buffers are empty.
LEMMA InitIInv == Init => IInv
<1> SUFFICES ASSUME Init PROVE Types /\ BufInv
  BY DEF IInv
<1>c. /\ NInputs \in Nat /\ BufferSize \in Nat /\ BufferSize >= 2 /\ FirstInput \in Inputs
      /\ MaxCommands \in Nat /\ 0 \in Inputs /\ Inputs \subseteq Threads /\ Output \in Threads
      /\ Output \notin Inputs
  BY Constants DEF Inputs
<1>o. opt \in CommandLines /\ CycleCount \in Nat /\ opt.timeouts \in Nat
  BY Options DEF Init
<1>1. CoreTypes
  <2>1. <<>> \in Seq(SafeAction)
    OBVIOUS
  <2>2. /\ curPlugin = FirstInput /\ curCycle = 0 /\ terminate = FALSE /\ actions = <<>>
        /\ events = {} /\ holder = None /\ dogActive = FALSE
    BY DEF Init
  <2>3. 0 \in 0 .. CycleCount
    BY <1>o
  <2> QED BY <2>1, <2>2, <2>3, <1>c, <1>o DEF CoreTypes
<1>2. InputTypes
  <2>1. 0 \in 0 .. (BufferSize - 1) /\ 0 \in 0 .. BufferSize /\ 0 + 0 <= BufferSize
    BY <1>c
  <2> QED BY <2>1 DEF Init, InputTypes, InputState, Area
<1>3. OutTypes
  <2>1. outTerminate = FALSE /\ outIdx = 0 /\ outArea = [first |-> 0, count |-> 0]
    BY DEF Init
  <2>2. 0 \in 0 .. (BufferSize - 1) /\ 0 \in 0 .. BufferSize
    BY <1>c
  <2> QED BY <2>1, <2>2, <1>c DEF OutTypes, Area
<1>4. ThreadTypes
  <2>1. ASSUME NEW t \in Threads PROVE pc[t] \in Labels
    <3>1. t \in Inputs \/ t = Output \/ t = Listener \/ t = Dog \/ t = Main
      BY <1>c DEF Threads, Inputs, Output, Listener, Dog, Main
    <3> QED BY <3>1, Constants DEF Init, Labels
  <2>2. 0 \in 0 .. (NInputs + 2)
    BY <1>c
  <2> QED BY <2>1, <2>2 DEF Init, ThreadTypes
<1>5. BoundTypes
  <2>1. startAt = 0 /\ nCommands = 0 /\ nTimeouts = 0 /\ sendError = FALSE
    BY DEF Init
  <2>2. StartSteps \in Nat
    BY <1>c DEF StartSteps
  <2>3. 0 \in 0 .. StartSteps /\ 0 \in 0 .. MaxCommands /\ 0 \in 0 .. opt.timeouts
    BY <2>2, <1>c, <1>o
  <2> QED BY <2>1, <2>3 DEF BoundTypes
<1>6. BufInv
  <2>1. pc[Output] = "top" /\ \A i \in Inputs : pc[i] = "begin"
    BY <1>c, Constants DEF Init
  <2>2. \A i \in Inputs : inp[i].count = 0 /\ ~inp[i].stop
    BY DEF Init
  <2>3. outArea.first + outArea.count <= BufferSize
    BY <1>c DEF Init
  <2> QED BY <2>1, <2>2, <2>3 DEF BufInv, Buffer, OutputUses
<1> QED BY <1>1, <1>2, <1>3, <1>4, <1>5, <1>6 DEF Types

\* Each step of each thread preserves the invariant.
LEMMA NextIInv == IInv /\ [Next]_vars => IInv'
<1> SUFFICES ASSUME Types, BufInv, [Next]_vars PROVE Types' /\ BufInv'
  BY DEF IInv
<1>1. CASE UNCHANGED vars
  <2>1. Types'
    BY <1>1, SafeUnchanged
       DEF vars, coreVars, inputVars, outVars, boundVars, Types, CoreTypes, InputTypes, OutTypes,
           ThreadTypes, BoundTypes, CycleCount, StartSteps, mode
  <2>2. Output \in Threads /\ UNCHANGED <<inp, inArea, outIdx, outArea, opt, pc>>
    BY <1>1, Constants DEF vars, inputVars, outVars, boundVars
  <2>3. BufInv'
    BY <2>2, InputsKept DEF SamePlace
  <2> QED BY <2>1, <2>3
<1>2. CASE Next
  BY <1>2, ExecuteStep, InputStep, OutputStep, ControlStep, CoreStartStep DEF Next
<1> QED BY <1>1, <1>2

\* The threads of tsswitch keep the queue of actions and the buffers in order.
THEOREM SwitchCorrect == Spec => []IInv
  BY InitIInv, NextIInv, PTL DEF Spec

\* Every variable of the switch has its type, in particular no index of an input or position in
\* a buffer is ever out of range, and the assertions of InputExecutor::main on its area hold.
THEOREM SwitchTypes == Spec => []TypeOK
<1>1. IInv => TypeOK
  <2> SUFFICES ASSUME IInv PROVE TypeOK
    OBVIOUS
  <2>1. actions \in Seq(Action)
    <3>1. actions \in Seq(SafeAction) /\ SafeAction \subseteq Action
      BY DEF IInv, Types, CoreTypes, SafeAction
    <3> HIDE DEF SafeAction
    <3> QED BY <3>1
  <2> QED BY <2>1 DEF IInv, Types, CoreTypes, InputTypes, OutTypes, ThreadTypes, BoundTypes, TypeOK,
                      InputState, Action, ActionTypes
<1> QED BY <1>1, SwitchCorrect, PTL

\* setInputLocked(), the receive timeout and the fallback to the primary input never ask the
\* primary input to stop, whatever actions pile up in the queue.
THEOREM PrimaryKept == Spec => []PrimaryNeverStopped
<1>1. IInv => PrimaryNeverStopped
  BY DEF IInv, BufInv, Buffer, PrimaryNeverStopped
<1> QED BY <1>1, SwitchCorrect, PTL

\* While OutputExecutor works on an area, without any mutex, the session of the input which owns
\* the buffer does not end, whatever switches, stops and restarts happen meanwhile.
THEOREM OutputInSession == Spec => []OutputFromSession
<1>1. IInv => OutputFromSession
  BY DEF IInv, BufInv, Buffer, OutputFromSession, InSession, Running
<1> QED BY <1>1, SwitchCorrect, PTL

\* A slot of the free part of a buffer is not a slot of its packets.
LEMMA SlotsApart ==
    ASSUME BufferSize \in Nat, BufferSize > 0, NEW f \in 0 .. (BufferSize - 1),
           NEW c \in 0 .. BufferSize, NEW g \in 0 .. (BufferSize - 1), g = (f + c) % BufferSize,
           NEW d \in 0 .. BufferSize, c + d <= BufferSize, g + d <= BufferSize,
           NEW k \in 0 .. (c - 1), NEW m \in 0 .. (d - 1)
    PROVE  (f + k) % BufferSize # (g + m) % BufferSize
<1>1. g + m \in Nat /\ g + m < BufferSize /\ f + k \in Nat /\ f + k < BufferSize + BufferSize
      /\ f + c \in Nat /\ f + c < BufferSize + BufferSize
  OBVIOUS
<1>2. (g + m) % BufferSize = g + m
  BY <1>1, BufferMod
<1>3. (f + k) % BufferSize = IF f + k < BufferSize THEN f + k ELSE (f + k) - BufferSize
  BY <1>1, BufferMod
<1>4. g = IF f + c < BufferSize THEN f + c ELSE (f + c) - BufferSize
  BY <1>1, BufferMod
<1>5. (IF f + k < BufferSize THEN f + k ELSE (f + k) - BufferSize) # g + m
  BY <1>4
<1> QED BY <1>2, <1>3, <1>5

\* Without --fast-switch, receive() never writes on a packet which waits for the output or which
\* the output plugin is sending, and the assertion of freeOutput() never fails.
THEOREM NothingOverwritten == Spec => []NoOverwrite
<1>1. IInv => NoOverwrite
  <2> SUFFICES ASSUME IInv, mode # "fast" PROVE
          /\ \A i \in Inputs : pc[i] = "receive" =>
                /\ Slots(inArea[i]) \cap Slots(inp[i]) = {}
                /\ OutputUses(i) => Slots(inArea[i]) \cap Slots(outArea) = {}
          /\ FreeOutputAssertion
    BY DEF NoOverwrite
  <2>c. BufferSize \in Nat /\ BufferSize > 0
    BY Constants
  <2>1. ASSUME NEW i \in Inputs, pc[i] = "receive" PROVE Slots(inArea[i]) \cap Slots(inp[i]) = {}
    <3>1. /\ inp[i].first \in 0 .. (BufferSize - 1) /\ inp[i].count \in 0 .. BufferSize
          /\ inArea[i].first \in 0 .. (BufferSize - 1) /\ inArea[i].count \in 0 .. BufferSize
          /\ inArea[i].first + inArea[i].count <= BufferSize
      BY DEF IInv, Types, InputTypes, InputState, Area
    <3>2. /\ inArea[i].first = (inp[i].first + inp[i].count) % BufferSize
          /\ inp[i].count + inArea[i].count <= BufferSize
      BY <2>1 DEF IInv, BufInv, Buffer
    <3> DEFINE f == inp[i].first
               c == inp[i].count
               g == inArea[i].first
               d == inArea[i].count
    <3>3. /\ f \in 0 .. (BufferSize - 1) /\ c \in 0 .. BufferSize /\ g \in 0 .. (BufferSize - 1)
          /\ g = (f + c) % BufferSize /\ d \in 0 .. BufferSize /\ c + d <= BufferSize
          /\ g + d <= BufferSize
      BY <3>1, <3>2
    <3>4. /\ Slots(inArea[i]) = {(g + m) % BufferSize : m \in 0 .. (d - 1)}
          /\ Slots(inp[i]) = {(f + k) % BufferSize : k \in 0 .. (c - 1)}
      BY DEF Slots
    <3> HIDE DEF f, c, g, d
    <3>5. \A k \in 0 .. (c - 1), m \in 0 .. (d - 1) : (f + k) % BufferSize # (g + m) % BufferSize
      BY <3>3, <2>c, SlotsApart
    <3> QED BY <3>4, <3>5
  <2>2. ASSUME NEW i \in Inputs, OutputUses(i) PROVE Slots(outArea) \subseteq Slots(inp[i])
    <3>1. outArea.first = inp[i].first /\ outArea.count <= inp[i].count
      BY <2>2 DEF IInv, BufInv, Buffer
    <3>2. outArea.count \in Nat /\ inp[i].count \in Nat
      BY <2>c DEF IInv, Types, InputTypes, OutTypes, InputState, Area
    <3>3. 0 .. (outArea.count - 1) \subseteq 0 .. (inp[i].count - 1)
      BY <3>1, <3>2
    <3> QED BY <3>1, <3>3 DEF Slots
  <2>3. FreeOutputAssertion
    <3> SUFFICES ASSUME pc[Output] = "send" PROVE outArea.count <= inp[outIdx].count
      BY DEF FreeOutputAssertion
    <3>1. outIdx \in Inputs /\ OutputUses(outIdx)
      BY DEF IInv, Types, OutTypes, OutputUses
    <3> QED BY <3>1 DEF IInv, BufInv, Buffer
  <2> QED BY <2>1, <2>2, <2>3
<1> QED BY <1>1, SwitchCorrect, PTL

-----------------------------------------------------------------------------
(***************************************************************************)
(* The queue of actions: what is pending in it decides which input is      *)
(* current, started and stopped, while the mutex of Core is released and   *)
(* other threads append to it.                                             *)
(***************************************************************************)
-----------------------------------------------------------------------------
(***************************************************************************)
(* Who changes what.                                                       *)
(***************************************************************************)
\* The label of an input is only changed by its own thread, apart from signals.
LEMMA OthersStay ==
    ASSUME Types, [Next]_vars, NEW i \in Inputs
    PROVE  Input(i) \/ SamePlace(i)
<1>c. /\ i \in Threads /\ i \notin {Output, Listener, Dog, Main} /\ Inputs \subseteq Threads
      /\ {Output, Listener, Dog, Main} \subseteq Threads
  BY Constants
<1>t. pc \in [Threads -> Labels] /\ curPlugin \in Inputs
  BY DEF Types, ThreadTypes, CoreTypes
<1>s. ASSUME NEW t \in Threads \ {i}, NEW next, NEW S, pc' = Signalled(t, next, S)
      PROVE  SamePlace(i)
  BY <1>s, <1>c, <1>t, WokenLabels DEF Signalled, SamePlace
<1>g. ASSUME NEW t \in Threads \ {i}, NEW next, Goto(t, next) PROVE SamePlace(i)
  BY <1>g, <1>c, <1>t DEF Goto, SamePlace
<1>u. ASSUME pc' = pc PROVE SamePlace(i)
  BY <1>u DEF SamePlace
<1>p. ASSUME NEW t \in Threads \ {i}, NEW success, NEW next, Stop(t, success, next)
      PROVE  SamePlace(i)
  BY <1>p, <1>s, <1>g, <1>u DEF Stop, StopCore, StopOutput, StopInputs, StopReturn
<1>1. CASE Execute
  <2>1. CASE ExecStart \/ ExecStop
    <3>1. holder \in Threads /\ pc' = Signalled(holder, pc[holder], {HeadAct.index})
      BY <2>1 DEF ExecStart, ExecStop, Executing, Types, CoreTypes
    <3>2. CASE holder = i
      BY <3>1, <3>2, <1>c DEF Signalled, SamePlace
    <3> QED BY <3>1, <3>2, <1>s
  <2>2. CASE pc' = pc
    BY <2>2, <1>u
  <2> QED BY <1>1, <2>1, <2>2
          DEF Execute, ExecAbort, ExecTimeout, ExecNotifCurrent, ExecSetCurrent, ExecWait
<1>2. ASSUME NEW j \in Inputs \ {i}, Input(j) PROVE SamePlace(i)
  <2>1. j \in Threads \ {i}
    BY <1>c
  <2>2. CASE \/ WaitStart(j) \/ PluginStart(j) \/ InputStartedReturn(j) \/ WaitSpace(j)
             \/ PrepareReceive(j) \/ StopRequested(j) \/ Receive(j) \/ EndOfInput(j)
             \/ SwitchToPrimary(j) \/ EndSession(j) \/ InputStoppedReturn(j)
    <3>1. \E next : Goto(j, next)
      BY <2>2 DEF WaitStart, PluginStart, InputStartedReturn, WaitSpace, PrepareReceive,
                  StopRequested, Receive, EndOfInput, SwitchToPrimary, EndSession,
                  InputStoppedReturn
    <3> QED BY <2>1, <3>1, <1>g
  <2>3. CASE InputStarted(j) \/ InputReceived(j) \/ InputStopped(j)
    BY <2>3, <1>u DEF InputStarted, InputReceived, InputStopped
  <2>4. CASE InputReceivedReturn(j)
    BY <2>1, <2>4, <1>s DEF InputReceivedReturn
  <2>5. CASE Stop(j, TRUE, "begin")
    BY <2>1, <2>5, <1>p
  <2> QED BY <1>2, <2>2, <2>3, <2>4, <2>5 DEF Input
<1>3. CASE OutputThread
  <2>1. Output \in Threads \ {i}
    BY <1>c
  <2> QED BY <1>3, <2>1, <1>s, <1>g, <1>p
          DEF OutputThread, OutputLoop, GetOutputArea, OutputCheck, OutputSend
<1>4. CASE CommandListener
  <2>1. Listener \in Threads \ {i}
    BY <1>c
  <2> QED BY <1>4, <2>1, <1>g, <1>u, <1>p
          DEF CommandListener, SwitchCommand, SwitchCommandReturn, QuitCommand
<1>5. CASE WatchDog
  <2>1. Dog \in Threads \ {i}
    BY <1>c
  <2> QED BY <1>5, <2>1, <1>g, <1>u
          DEF WatchDog, Expire, HandleWatchDogTimeout, HandleWatchDogReturn
<1>6. CASE CoreStart \/ WaitForTermination
  <2>1. Main \in Threads \ {i}
    BY <1>c
  <2> QED BY <1>6, <2>1, <1>s, <1>g DEF CoreStart, WaitForTermination
<1>7. CASE UNCHANGED vars
  BY <1>7, <1>u DEF vars
<1> QED BY <1>1, <1>2, <1>3, <1>4, <1>5, <1>6, <1>7 DEF Next

\* What the steps which neither execute nor append actions may do with the mutex of Core.
Quiet ==
    /\ UNCHANGED <<actions, curPlugin, opt>>
    /\ \/ holder' = holder
       \/ holder = None
       \/ /\ holder \in {Listener, Dog} \/ \E i \in Inputs : holder = i /\ Input(i) /\ pc'[i] # "toPrimary"
          /\ Unlock(holder)
          /\ UNCHANGED <<events, inp>>

\* Core::execute() runs the front of the queue; the others only append to it with the mutex.
LEMMA QueueSteps ==
    ASSUME Types, [Next]_vars
    PROVE  \/ Execute
           \/ \E cmd \in opt.commands : SwitchCommand(cmd)
           \/ HandleWatchDogTimeout
           \/ \E i \in Inputs : InputStopped(i) \/ SwitchToPrimary(i)
           \/ Quiet
<1>c. Inputs \subseteq Threads
  BY Constants
<1>t. pc \in [Threads -> Labels]
  BY DEF Types, ThreadTypes
<1>s. ASSUME NEW t, NEW success, NEW next, Stop(t, success, next) PROVE Quiet
  BY <1>s DEF Stop, StopCore, StopOutput, StopInputs, StopReturn, Quiet, coreVars, boundVars
<1>1. ASSUME NEW i \in Inputs, Input(i) PROVE InputStopped(i) \/ SwitchToPrimary(i) \/ Quiet
  <2>1. CASE WaitStart(i) \/ PluginStart(i) \/ WaitSpace(i) \/ PrepareReceive(i)
    BY <2>1 DEF WaitStart, PluginStart, WaitSpace, PrepareReceive, Quiet, coreVars, boundVars
  <2>2. CASE StopRequested(i) \/ Receive(i) \/ EndOfInput(i) \/ EndSession(i)
    BY <2>2 DEF StopRequested, Receive, EndOfInput, EndSession, Quiet, coreVars, boundVars
  <2>3. CASE InputStarted(i) \/ InputReceived(i)
    BY <2>3 DEF InputStarted, InputReceived, Lock, Quiet, boundVars
  <2>4. CASE InputStartedReturn(i) \/ InputStoppedReturn(i)
    <3>1. /\ UNCHANGED <<actions, curPlugin, opt, events, inp>> /\ Unlock(i) /\ holder = i
      BY <2>4 DEF InputStartedReturn, InputStoppedReturn, Unlock, coreVars, boundVars, inputVars
    <3>2. pc'[i] # "toPrimary"
      BY <2>4, <1>c, <1>t DEF InputStartedReturn, InputStoppedReturn, Goto
    <3> QED BY <3>1, <3>2, <1>1 DEF Quiet
  <2>5. CASE InputReceivedReturn(i)
    <3>1. /\ UNCHANGED <<actions, curPlugin, opt, events, inp>> /\ Unlock(i) /\ holder = i
      BY <2>5 DEF InputReceivedReturn, Unlock, coreVars, boundVars, inputVars
    <3>2. pc'[i] # "toPrimary"
      BY <2>5, <1>c, <1>t DEF InputReceivedReturn, Signalled
    <3> QED BY <3>1, <3>2, <1>1 DEF Quiet
  <2> QED BY <1>1, <1>s, <2>1, <2>2, <2>3, <2>4, <2>5 DEF Input
<1>2. CASE OutputThread
  BY <1>2, <1>s DEF OutputThread, OutputLoop, GetOutputArea, OutputCheck, OutputSend, Quiet,
                    coreVars, boundVars
<1>3. ASSUME SwitchCommandReturn \/ QuitCommand \/ Stop(Listener, TRUE, "listen") PROVE Quiet
  BY <1>3, <1>s DEF SwitchCommandReturn, QuitCommand, Quiet, Unlock, coreVars, boundVars, inputVars
<1>4. ASSUME Expire \/ HandleWatchDogReturn PROVE Quiet
  BY <1>4 DEF Expire, HandleWatchDogReturn, Quiet, Unlock, coreVars, boundVars, inputVars
<1>5. CASE CoreStart \/ WaitForTermination
  BY <1>5 DEF CoreStart, WaitForTermination, Quiet, coreVars, boundVars
<1>6. CASE UNCHANGED vars
  BY <1>6 DEF vars, Quiet, coreVars, boundVars
<1> QED BY <1>1, <1>2, <1>3, <1>4, <1>5, <1>6 DEF Next, CommandListener, WatchDog

\* The command line never changes.
LEMMA OptionsKept ==
    ASSUME Types, [Next]_vars
    PROVE  opt' = opt
<1>1. CASE Execute
  BY <1>1 DEF Execute, ExecStart, ExecStop, ExecAbort, ExecTimeout, ExecNotifCurrent,
              ExecSetCurrent, ExecWait, boundVars
<1> QED BY <1>1, QueueSteps DEF SwitchCommand, HandleWatchDogTimeout, InputStopped,
                                SwitchToPrimary, Quiet, boundVars

-----------------------------------------------------------------------------
(***************************************************************************)
(* The return to the primary input.                                        *)
(***************************************************************************)
\* The elements of a concatenation.
LEMMA ConcatAt ==
    ASSUME NEW S, NEW s \in Seq(S), NEW t \in Seq(S)
    PROVE  /\ s \o t \in Seq(S) /\ Len(s) \in Nat /\ Len(t) \in Nat
           /\ Len(s \o t) = Len(s) + Len(t)
           /\ \A m \in 1 .. Len(s) : (s \o t)[m] = s[m]
           /\ \A m \in (Len(s) + 1) .. (Len(s) + Len(t)) :
                 (s \o t)[m] = t[m - Len(s)] /\ m - Len(s) \in 1 .. Len(t)
  BY ConcatProperties

\* The primary input is the current one or the actions of the queue make it current before any
\* wait, and nothing in the queue makes another input current.
Coming ==
    \E k \in 0 .. Len(actions) :
        /\ IF k = 0 THEN curPlugin = PrimaryInput
           ELSE actions[k].type = "SET_CURRENT" /\ actions[k].index = PrimaryInput
        /\ \A m \in 1 .. Len(actions) : /\ m < k => actions[m].type \notin WaitTypes
                                        /\ m # k => actions[m].type # "SET_CURRENT"

\* While an input thread is in inputReceived() after the switch to the primary input.
BackInv ==
    \A i \in Inputs : pc[i] = "toPrimary" => i = PrimaryInput /\ holder = i /\ Coming

\* The actions of inputReceived() make the primary input current.
LEMMA PrimaryComes ==
    ASSUME Types, NEW i \in Inputs, SwitchToPrimary(i)
    PROVE  Coming'
<1> DEFINE p == <<Suspend, Act("NOTIF_CURRENT", curPlugin, FALSE),
                  Act("SET_CURRENT", PrimaryInput, FALSE), Act("NOTIF_CURRENT", PrimaryInput, TRUE),
                  Restart>>
           q == If(mode # "fast", StopActions(curPlugin, TRUE))
<1>1. PrimaryInput' = PrimaryInput
  BY DEF SwitchToPrimary, boundVars, PrimaryInput
<1>2. actions' = p \o q
  BY Zenon DEF SwitchToPrimary, ActionsToPrimary, PrimarySwitch
<1>s. curPlugin \in Inputs /\ PrimaryInput \in Inputs /\ curPlugin # PrimaryInput
      /\ opt \in CommandLines
  BY DEF SwitchToPrimary, BackOnPrimary, Types, CoreTypes
<1>3. /\ Len(p) = 5
      /\ p[1].type = "SUSPEND_TIMEOUT" /\ p[2].type = "NOTIF_CURRENT"
      /\ p[3].type = "SET_CURRENT" /\ p[3].index = PrimaryInput
      /\ p[4].type = "NOTIF_CURRENT" /\ p[5].type = "RESTART_TIMEOUT"
  BY DEF Suspend, Restart, Act
<1>p. p \in Seq(SafeAction)
  <2>1. /\ Act("NOTIF_CURRENT", curPlugin, FALSE) \in SafeAction
        /\ Act("SET_CURRENT", PrimaryInput, FALSE) \in SafeAction
        /\ Act("NOTIF_CURRENT", PrimaryInput, TRUE) \in SafeAction
    BY <1>s, SafeActs DEF ActionTypes
  <2> QED BY <2>1, <1>s, TimeoutActs, SeqOf
<1>4. /\ q \in Seq(SafeAction)
      /\ \A m \in 1 .. Len(q) : q[m].type # "SET_CURRENT"
  <2>1. CASE mode # "fast"
    <3>1. q = StopActions(curPlugin, TRUE)
      BY <2>1 DEF If
    <3>2. StopActions(curPlugin, TRUE) \in Seq(SafeAction)
      BY <1>s, SafeStop
    <3> DEFINE a == Act("ABORT_INPUT", curPlugin, TRUE)
               b == Act("STOP", curPlugin, FALSE)
               c == Act("WAIT_STOPPED", curPlugin, FALSE)
    <3>3. a.type = "ABORT_INPUT" /\ b.type = "STOP" /\ c.type = "WAIT_STOPPED"
      BY DEF Act
    <3>4. StopActions(curPlugin, TRUE) = <<a, b, c>>
      BY DEF StopActions
    <3> HIDE DEF a, b, c
    <3>5. Len(q) = 3 /\ q[1] = a /\ q[2] = b /\ q[3] = c
      <4>1. q = <<a, b, c>>
        BY Zenon, <3>1, <3>4
      <4> HIDE DEF q
      <4> QED BY <4>1
    <3>6. \A m \in 1 .. 3 : m = 1 \/ m = 2 \/ m = 3
      OBVIOUS
    <3> QED BY <3>1, <3>2, <3>3, <3>5, <3>6
  <2>2. CASE mode = "fast"
    BY <2>2 DEF If
  <2> QED BY <2>1, <2>2
<1> HIDE DEF p, q
<1>5. /\ Len(q) \in Nat /\ Len(p \o q) = 5 + Len(q)
      /\ \A m \in 1 .. 5 : (p \o q)[m] = p[m]
      /\ \A m \in 6 .. (5 + Len(q)) : (p \o q)[m] = q[m - 5] /\ m - 5 \in 1 .. Len(q)
  <2>1. /\ Len(q) \in Nat /\ Len(p \o q) = Len(p) + Len(q)
        /\ \A m \in 1 .. Len(p) : (p \o q)[m] = p[m]
        /\ \A m \in (Len(p) + 1) .. (Len(p) + Len(q)) :
              (p \o q)[m] = q[m - Len(p)] /\ m - Len(p) \in 1 .. Len(q)
    BY <1>p, <1>4, ConcatAt
  <2>2. Len(p) = 5 /\ 5 + 1 = 6
    BY <1>3
  <2> QED BY <2>1, <2>2
<1>6. ASSUME NEW m \in 1 .. (5 + Len(q)), m # 3
      PROVE  /\ (p \o q)[m].type # "SET_CURRENT"
             /\ (m < 3 => (p \o q)[m].type \notin WaitTypes)
  <2>1. m = 1 \/ m = 2 \/ m = 4 \/ m = 5 \/ m \in 6 .. (5 + Len(q))
    BY <1>5, <1>6
  <2>2. CASE m = 1 \/ m = 2
    BY <2>2, <1>3, <1>5 DEF WaitTypes
  <2>3. CASE m = 4 \/ m = 5
    BY <2>3, <1>3, <1>5
  <2>4. CASE m \in 6 .. (5 + Len(q))
    BY <2>4, <1>4, <1>5
  <2> QED BY <2>1, <2>2, <2>3, <2>4
<1>7. 3 \in 0 .. Len(actions') /\ (p \o q)[3] = p[3]
  BY <1>2, <1>5
<1> QED BY <1>1, <1>2, <1>3, <1>5, <1>6, <1>7 DEF Coming

\* Executing an action of the queue keeps it so.
LEMMA ExecuteComes ==
    ASSUME Types, Coming, Execute
    PROVE  Coming'
<1>1. /\ actions # <<>> /\ actions' = Tail(actions) /\ PrimaryInput' = PrimaryInput
      /\ actions \in Seq(SafeAction)
      /\ HeadAct = actions[1]
      /\ \/ curPlugin' = curPlugin /\ HeadAct.type # "SET_CURRENT"
         \/ curPlugin' = HeadAct.index /\ HeadAct.type = "SET_CURRENT"
  BY DEF Execute, ExecStart, ExecStop, ExecAbort, ExecTimeout, ExecNotifCurrent, ExecSetCurrent,
         ExecWait, Executing, HeadAct, boundVars, PrimaryInput, Types, CoreTypes, WaitTypes
<1>2. /\ Len(actions) \in Nat /\ Len(actions) >= 1 /\ Len(actions') = Len(actions) - 1
      /\ \A m \in 1 .. Len(actions') : actions'[m] = actions[m + 1]
  BY <1>1
<1>3. PICK k \in 0 .. Len(actions) :
        /\ IF k = 0 THEN curPlugin = PrimaryInput
           ELSE actions[k].type = "SET_CURRENT" /\ actions[k].index = PrimaryInput
        /\ \A m \in 1 .. Len(actions) : /\ m < k => actions[m].type \notin WaitTypes
                                        /\ m # k => actions[m].type # "SET_CURRENT"
  BY DEF Coming
<1>4. CASE k <= 1
  <2>1. curPlugin' = PrimaryInput
    BY <1>1, <1>2, <1>3, <1>4
  <2>2. \A m \in 1 .. Len(actions') : actions'[m].type # "SET_CURRENT"
    BY <1>2, <1>3, <1>4
  <2>3. 0 \in 0 .. Len(actions')
    BY <1>2
  <2> QED BY <2>1, <2>2, <2>3, <1>1, <1>2 DEF Coming
<1>5. CASE k > 1
  <2>1. k - 1 \in 0 .. Len(actions') /\ k - 1 # 0 /\ k - 1 \in 1 .. Len(actions')
    BY <1>2, <1>5
  <2>2. actions'[k - 1].type = "SET_CURRENT" /\ actions'[k - 1].index = PrimaryInput
    BY <2>1, <1>2, <1>3, <1>5
  <2>3. \A m \in 1 .. Len(actions') : /\ m < k - 1 => actions'[m].type \notin WaitTypes
                                      /\ m # k - 1 => actions'[m].type # "SET_CURRENT"
    BY <1>2, <1>3
  <2> QED BY <2>1, <2>2, <2>3, <1>1 DEF Coming
<1> QED BY <1>3, <1>4, <1>5

\* Each step keeps the promise of inputReceived().
LEMMA BackStep ==
    ASSUME Types, BackInv, [Next]_vars
    PROVE  BackInv'
<1> SUFFICES ASSUME NEW i \in Inputs, pc'[i] = "toPrimary"
             PROVE  i = PrimaryInput' /\ holder' = i /\ Coming'
  BY DEF BackInv
<1>c. /\ i \in Threads /\ i \notin {Output, Listener, Dog, Main} /\ i # None
      /\ pc \in [Threads -> Labels]
  BY Constants DEF Types, ThreadTypes
<1>1. CASE SwitchToPrimary(i)
  BY <1>1, PrimaryComes DEF SwitchToPrimary, BackOnPrimary, boundVars, PrimaryInput
<1>2. CASE ~SwitchToPrimary(i)
  <2>1. pc[i] = "toPrimary"
    <3>1. CASE Input(i)
      BY <3>1, <1>2, <1>c
         DEF Input, WaitStart, PluginStart, InputStarted, InputStartedReturn, WaitSpace,
             PrepareReceive, StopRequested, Receive, EndOfInput, InputReceived,
             InputReceivedReturn, EndSession, InputStopped, InputStoppedReturn, Stop, StopCore,
             StopOutput, StopInputs, StopReturn, Goto, Signalled
    <3>2. CASE SamePlace(i)
      BY <3>2 DEF SamePlace
    <3> QED BY <3>1, <3>2, OthersStay
  <2>2. i = PrimaryInput /\ holder = i /\ Coming /\ holder # None
    BY <2>1, <1>c DEF BackInv
  <2>3. CASE Execute
    <3>1. Coming'
      BY <2>2, <2>3, ExecuteComes
    <3>2. holder' = holder /\ opt' = opt
      BY <2>3 DEF Execute, ExecStart, ExecStop, ExecAbort, ExecTimeout, ExecNotifCurrent,
                  ExecSetCurrent, ExecWait, boundVars
    <3> QED BY <3>1, <3>2, <2>2 DEF PrimaryInput
  <2>4. ~(\E cmd \in opt.commands : SwitchCommand(cmd)) /\ ~HandleWatchDogTimeout
    BY <2>2 DEF SwitchCommand, HandleWatchDogTimeout, Lock
  <2>5. ~ \E j \in Inputs : InputStopped(j) \/ SwitchToPrimary(j)
    BY <1>2, <2>2 DEF InputStopped, SwitchToPrimary, Lock
  <2>6. CASE Quiet
    <3>1. holder' = holder
      BY <2>2, <2>6, <1>c DEF Quiet
    <3>2. UNCHANGED <<actions, curPlugin, opt>>
      BY <2>6 DEF Quiet
    <3> QED BY <3>1, <3>2, <2>2 DEF Coming, PrimaryInput
  <2> QED BY <2>3, <2>4, <2>5, <2>6, QueueSteps
<1> QED BY <1>1, <1>2

\* When inputReceived() returns in the thread of the primary input, it is the current input:
\* the assertion at the end of Core::inputReceived().
LEMMA BackReturn ==
    ASSUME Types, BackInv, [Next]_vars, NEW i \in Inputs \cap {PrimaryInput},
           pc[i] \in {"inputReceived", "toPrimary"}, pc'[i] = "space"
    PROVE  curPlugin' = PrimaryInput
<1>c. i \in Threads /\ pc \in [Threads -> Labels]
  BY Constants DEF Types, ThreadTypes
<1>1. InputReceivedReturn(i)
  <2>1. ~SamePlace(i)
    BY DEF SamePlace
  <2>2. Input(i)
    BY <2>1, OthersStay
  <2> QED BY <2>2, <1>c
         DEF Input, WaitStart, PluginStart, InputStarted, InputStartedReturn, WaitSpace,
             PrepareReceive, StopRequested, Receive, EndOfInput, InputReceived, SwitchToPrimary,
             EndSession, InputStopped, InputStoppedReturn, Stop, StopCore,
             StopOutput, StopInputs, StopReturn, Goto, Signalled
<1>2. curPlugin' = curPlugin /\ ExecuteReturns
  BY <1>1 DEF InputReceivedReturn, Unlock, coreVars
<1>3. CASE pc[i] = "inputReceived"
  BY <1>1, <1>2, <1>3 DEF InputReceivedReturn, BackOnPrimary
<1>4. CASE pc[i] = "toPrimary"
  <2>1. Coming
    BY <1>4 DEF BackInv
  <2>2. PICK k \in 0 .. Len(actions) :
        /\ IF k = 0 THEN curPlugin = PrimaryInput
           ELSE actions[k].type = "SET_CURRENT" /\ actions[k].index = PrimaryInput
        /\ \A m \in 1 .. Len(actions) : /\ m < k => actions[m].type \notin WaitTypes
                                        /\ m # k => actions[m].type # "SET_CURRENT"
    BY <2>1 DEF Coming
  <2>3. ASSUME k # 0 PROVE FALSE
    <3>0. actions \in Seq(SafeAction) /\ Len(actions) \in Nat
      BY DEF Types, CoreTypes
    <3>1. k >= 1 /\ Len(actions) >= 1 /\ actions # <<>>
      BY <2>2, <2>3, <3>0
    <3>2. Head(actions) = actions[1] /\ 1 \in 1 .. Len(actions)
      BY <3>0, <3>1
    <3>3. actions[1].type \in WaitTypes
      BY <3>1, <3>2, <1>2 DEF ExecuteReturns, HeadAct
    <3>4. k = 1
      BY <3>1, <3>2, <3>3, <2>2
    <3> QED BY <3>3, <3>4, <2>2 DEF WaitTypes
  <2> QED BY <2>2, <2>3, <1>2
<1> QED BY <1>3, <1>4

\* After packets of the primary input, it is the current input, for any number of inputs, any
\* command line and any sequence of commands, timeouts and failures.
THEOREM PrimaryRestored == Spec => PrimaryIsCurrent
<1> DEFINE A == \A i \in Inputs \cap {PrimaryInput} :
                   pc[i] \in {"inputReceived", "toPrimary"} /\ pc'[i] = "space"
                      => curPlugin' = PrimaryInput
<1>1. Init => BackInv
  <2>1. \A i \in Inputs : i \in Threads
    BY Constants
  <2> QED BY <2>1 DEF Init, BackInv
<1>2. IInv /\ BackInv /\ [Next]_vars => BackInv'
  BY BackStep DEF IInv
<1>3. IInv /\ BackInv /\ [Next]_vars => [A]_vars
  BY BackReturn DEF IInv
<1> QED BY <1>1, <1>2, <1>3, SwitchCorrect, PTL DEF Spec, PrimaryIsCurrent

-----------------------------------------------------------------------------
(***************************************************************************)
(* The requests to start and to stop an input.                             *)
(***************************************************************************)
\* The requests of an input are left alone.
RequestsKept(i) == inp'[i].start = inp[i].start /\ inp'[i].stop = inp[i].stop

\* The requests of an input are only set by startInput() and stopInput(), called by execute()
\* and by Core::start(), and consumed by its thread.
LEMMA RequestSteps ==
    ASSUME Types, [Next]_vars, NEW i \in Inputs
    PROVE  \/ RequestsKept(i)
           \/ ExecStart /\ HeadAct.index = i /\ inp'[i].start /\ ~inp'[i].stop
           \/ ExecStop /\ HeadAct.index = i /\ ~inp'[i].start /\ inp'[i].stop
           \/ WaitStart(i) /\ inp[i].start /\ ~inp'[i].start /\ ~inp'[i].stop
           \/ CoreStart /\ i \in StartTargets /\ inp'[i].start /\ ~inp'[i].stop
<1>t. inp \in [Inputs -> InputState] /\ inp[i] \in InputState
  BY DEF Types, InputTypes
<1>u. ASSUME inp' = inp PROVE RequestsKept(i)
  BY <1>u DEF RequestsKept
<1>r. ASSUME NEW j \in Inputs, NEW r, inp' = [inp EXCEPT ![j] = r],
             j # i \/ (r.start = inp[j].start /\ r.stop = inp[j].stop)
      PROVE  RequestsKept(i)
  BY <1>r, <1>t DEF RequestsKept
<1>s. ASSUME NEW t, NEW success, NEW next, Stop(t, success, next) PROVE RequestsKept(i)
  <2>1. CASE StopInputs(t, success)
    <3> DEFINE j == stopStep[t] - 2
               r == [inp[j] EXCEPT !.term = TRUE]
    <3>1. j \in Inputs /\ inp' = [inp EXCEPT ![j] = r]
      BY <2>1 DEF StopInputs
    <3>2. r.start = inp[j].start /\ r.stop = inp[j].stop
      BY <3>1, <1>t DEF InputState
    <3> HIDE DEF j, r
    <3> QED BY <3>1, <3>2, <1>r
  <2>2. CASE inp' = inp
    BY <2>2, <1>u
  <2> QED BY <1>s, <2>1, <2>2 DEF Stop, StopCore, StopOutput, StopReturn, inputVars
<1>1. CASE Execute
  <2>1. CASE ExecStart
    <3> DEFINE h == HeadAct.index
               r == [inp[h] EXCEPT !.isCurrent = HeadAct.flag, !.start = TRUE, !.stop = FALSE]
    <3>1. h \in Inputs
      BY <2>1, HeadType DEF ExecStart
    <3>2. inp' = [inp EXCEPT ![h] = r]
      BY <2>1, <3>1, <1>t DEF ExecStart
    <3>3. r.start /\ ~r.stop
      BY <3>1, <1>t DEF InputState
    <3> HIDE DEF h, r
    <3>4. CASE h = i
      <4>1. inp'[i] = r
        BY <3>2, <3>4, <1>t
      <4> QED BY <4>1, <2>1, <3>3, <3>4 DEF h
    <3> QED BY <2>1, <3>1, <3>2, <3>4, <1>r
  <2>2. CASE ExecStop
    <3> DEFINE h == HeadAct.index
               r == [inp[h] EXCEPT !.start = FALSE, !.stop = TRUE]
    <3>1. h \in Inputs
      BY <2>2, HeadType DEF ExecStop
    <3>2. inp' = [inp EXCEPT ![h] = r]
      BY <2>2, <3>1, <1>t DEF ExecStop
    <3>3. ~r.start /\ r.stop
      BY <3>1, <1>t DEF InputState
    <3> HIDE DEF h, r
    <3>4. CASE h = i
      <4>1. inp'[i] = r
        BY <3>2, <3>4, <1>t
      <4> QED BY <4>1, <2>2, <3>3, <3>4 DEF h
    <3> QED BY <2>2, <3>1, <3>2, <3>4, <1>r
  <2>3. CASE ExecNotifCurrent
    <3> DEFINE h == HeadAct.index
               r == [inp[h] EXCEPT !.isCurrent = HeadAct.flag]
    <3>1. h \in Inputs
      BY <2>3, HeadType DEF ExecNotifCurrent
    <3>2. inp' = [inp EXCEPT ![h] = r]
      BY <2>3, <3>1, <1>t DEF ExecNotifCurrent
    <3>3. r.start = inp[h].start /\ r.stop = inp[h].stop
      BY <3>1, <1>t DEF InputState
    <3> HIDE DEF h, r
    <3> QED BY <3>1, <3>2, <3>3, <1>r
  <2>4. CASE inp' = inp
    BY <2>4, <1>u
  <2> QED BY <1>1, <2>1, <2>2, <2>3, <2>4
          DEF Execute, ExecAbort, ExecTimeout, ExecSetCurrent, ExecWait, inputVars
<1>2. ASSUME NEW j \in Inputs, Input(j)
      PROVE  \/ RequestsKept(i)
             \/ WaitStart(i) /\ inp[i].start /\ ~inp'[i].start /\ ~inp'[i].stop
  <2>t. inp[j] \in InputState
    BY <1>t
  <2>1. CASE WaitStart(j)
    <3>1. PICK r : /\ inp' = [inp EXCEPT ![j] = r]
                   /\ \/ r.start = inp[j].start /\ r.stop = inp[j].stop
                      \/ inp[j].start /\ ~r.start /\ ~r.stop
      <4> DEFINE this == IF pc[j] = "begin" THEN [inp[j] EXCEPT !.first = 0, !.count = 0]
                         ELSE inp[j]
                 r == IF this.start /\ ~this.term THEN [this EXCEPT !.start = FALSE, !.stop = FALSE]
                      ELSE this
      <4>1. inp' = [inp EXCEPT ![j] = r]
        BY <2>1 DEF WaitStart
      <4>2. /\ this.start = inp[j].start /\ this.stop = inp[j].stop
            /\ [this EXCEPT !.start = FALSE, !.stop = FALSE].start = FALSE
            /\ [this EXCEPT !.start = FALSE, !.stop = FALSE].stop = FALSE
        BY <2>t DEF InputState
      <4> HIDE DEF this
      <4>3. \/ r.start = inp[j].start /\ r.stop = inp[j].stop
            \/ inp[j].start /\ ~r.start /\ ~r.stop
        BY <4>2
      <4> HIDE DEF r
      <4> QED BY <4>1, <4>3
    <3>2. CASE j = i
      BY <2>1, <3>1, <3>2, <1>t DEF RequestsKept
    <3> QED BY <3>1, <3>2, <1>r
  <2>2. CASE PrepareReceive(j) \/ Receive(j) \/ EndSession(j)
    <3>1. \E r : /\ inp' = [inp EXCEPT ![j] = r]
                 /\ r.start = inp[j].start /\ r.stop = inp[j].stop
      <4>1. CASE PrepareReceive(j)
        <5>1. \E f, c : inp' = [inp EXCEPT ![j].first = f, ![j].count = c]
          BY <4>1 DEF PrepareReceive
        <5>2. PICK f, c : inp' = [inp EXCEPT ![j] = [inp[j] EXCEPT !.first = f, !.count = c]]
          BY <5>1, <2>t
        <5>3. /\ [inp[j] EXCEPT !.first = f, !.count = c].start = inp[j].start
              /\ [inp[j] EXCEPT !.first = f, !.count = c].stop = inp[j].stop
          BY <2>t DEF InputState
        <5> QED BY <5>2, <5>3
      <4>2. CASE Receive(j)
        <5>1. PICK n : inp' = [inp EXCEPT ![j].count = @ + n]
          BY <4>2 DEF Receive
        <5>2. inp' = [inp EXCEPT ![j] = [inp[j] EXCEPT !.count = inp[j].count + n]]
          BY <5>1, <2>t
        <5>3. /\ [inp[j] EXCEPT !.count = inp[j].count + n].start = inp[j].start
              /\ [inp[j] EXCEPT !.count = inp[j].count + n].stop = inp[j].stop
          BY <2>t DEF InputState
        <5> QED BY <5>2, <5>3
      <4>3. CASE EndSession(j)
        <5>1. \/ inp' = inp
              \/ inp' = [inp EXCEPT ![j] = [inp[j] EXCEPT !.first = 0, !.count = 0]]
          BY <4>3, <2>t DEF EndSession
        <5>2. /\ [inp[j] EXCEPT !.first = 0, !.count = 0].start = inp[j].start
              /\ [inp[j] EXCEPT !.first = 0, !.count = 0].stop = inp[j].stop
          BY <2>t DEF InputState
        <5>3. inp = [inp EXCEPT ![j] = inp[j]]
          BY <1>t
        <5> QED BY <5>1, <5>2, <5>3
      <4> QED BY <2>2, <4>1, <4>2, <4>3
    <3> QED BY <3>1, <1>r
  <2>3. CASE inp' = inp
    BY <2>3, <1>u
  <2> QED BY <1>2, <1>s, <2>1, <2>2, <2>3
          DEF Input, PluginStart, InputStarted, InputStartedReturn, WaitSpace, StopRequested,
              EndOfInput, InputReceived, SwitchToPrimary, InputReceivedReturn, InputStopped,
              InputStoppedReturn, inputVars
<1>3. CASE OutputThread
  <2>1. CASE GetOutputArea
    <3>1. CASE inp' = inp
      BY <3>1, <1>u
    <3>2. CASE inp' # inp
      <4>0. curPlugin \in Inputs
        BY DEF Types, CoreTypes
      <4>1. \E b : inp' = [inp EXCEPT ![curPlugin].inUse = b]
        BY <2>1, <3>2 DEF GetOutputArea
      <4>2. PICK b : inp' = [inp EXCEPT ![curPlugin] = [inp[curPlugin] EXCEPT !.inUse = b]]
        BY <4>0, <4>1, <1>t
      <4>3. /\ [inp[curPlugin] EXCEPT !.inUse = b].start = inp[curPlugin].start
            /\ [inp[curPlugin] EXCEPT !.inUse = b].stop = inp[curPlugin].stop
        BY <4>0, <1>t DEF InputState
      <4> QED BY <4>0, <4>2, <4>3, <1>r
    <3> QED BY <3>1, <3>2
  <2>2. CASE OutputSend
    <3> DEFINE r == FreeOutput(outIdx, outArea.count)
    <3>0. outIdx \in Inputs
      BY DEF Types, OutTypes
    <3>1. inp' = [inp EXCEPT ![outIdx] = r]
      BY <2>2 DEF OutputSend
    <3>2. r.start = inp[outIdx].start /\ r.stop = inp[outIdx].stop
      BY <3>0, <1>t DEF FreeOutput, InputState
    <3> HIDE DEF r
    <3> QED BY <3>0, <3>1, <3>2, <1>r
  <2>3. CASE OutputLoop \/ OutputCheck
    BY <2>3, <1>u DEF OutputLoop, OutputCheck, inputVars
  <2> QED BY <1>3, <1>s, <2>1, <2>2, <2>3 DEF OutputThread
<1>4. CASE CommandListener
  BY <1>4, <1>s, <1>u DEF CommandListener, SwitchCommand, SwitchCommandReturn, QuitCommand, inputVars
<1>5. CASE WatchDog
  BY <1>5, <1>u DEF WatchDog, Expire, HandleWatchDogTimeout, HandleWatchDogReturn, inputVars
<1>6. CASE CoreStart
  <2>1. inp'[i] = IF i \in StartTargets
                  THEN [inp[i] EXCEPT !.isCurrent = (i = curPlugin), !.start = TRUE, !.stop = FALSE]
                  ELSE inp[i]
    BY <1>6 DEF CoreStart
  <2>2. CASE i \in StartTargets
    BY <1>6, <2>1, <2>2, <1>t DEF InputState
  <2>3. CASE i \notin StartTargets
    BY <2>1, <2>3 DEF RequestsKept
  <2> QED BY <2>2, <2>3
<1>7. CASE WaitForTermination \/ UNCHANGED vars
  BY <1>7, <1>u DEF WaitForTermination, vars, inputVars
<1> QED BY <1>1, <1>2, <1>3, <1>4, <1>5, <1>6, <1>7 DEF Next

-----------------------------------------------------------------------------
(***************************************************************************)
(* Delayed switch: the order of the pending actions.                       *)
(***************************************************************************)
Is(a, type, i) == a.type = type /\ a.index = i

\* When action p of queue s stops an input, another one is current: since action q, or from now
\* on when q is zero.
StopOk(s, p, q) ==
    /\ IF q = 0 THEN curPlugin # s[p].index
       ELSE s[q].type = "SET_CURRENT" /\ s[q].index # s[p].index
    /\ \A m \in 1 .. (p - 1) : m > q => s[m].type # "SET_CURRENT"

\* When action p of queue s makes an input current, it is not asked to stop: since action q, or
\* from now on when q is zero.
SetOk(s, p, q) ==
    /\ IF q = 0 THEN ~inp[s[p].index].stop ELSE Is(s[q], "START", s[p].index)
    /\ \A m \in 1 .. (p - 1) : m > q => ~Is(s[m], "STOP", s[p].index)

\* The actions of queue s are in order, from the state of the process if low is zero, for
\* themselves if it is one.
Pending(s, low) ==
    \A p \in 1 .. Len(s) :
        /\ s[p].type = "STOP" => \E q \in low .. (p - 1) : StopOk(s, p, q)
        /\ s[p].type = "SET_CURRENT" =>
              \/ s[p].index = PrimaryInput
              \/ p < Len(s) /\ Is(s[p + 1], "START", s[p].index)
              \/ \E q \in low .. (p - 1) : SetOk(s, p, q)

\* The mutex of Core is only released on an empty queue or in front of a wait; the current input
\* is not asked to stop, or it is about to be started again.
DelayedInv ==
    mode = "delayed" =>
        /\ holder = None /\ actions # <<>> => HeadAct.type \in WaitTypes
        /\ inp[curPlugin].stop => actions # <<>> /\ Is(HeadAct, "START", curPlugin)
        /\ Pending(actions, 0)

\* Actions which are in order for themselves are in order at the end of the queue.
LEMMA PendingConcat ==
    ASSUME NEW s \in Seq(SafeAction), NEW t \in Seq(SafeAction), Pending(s, 0), Pending(t, 1)
    PROVE  Pending(s \o t, 0)
<1> DEFINE L == Len(s)
           N == Len(t)
           w == s \o t
<1>0. /\ L \in Nat /\ N \in Nat /\ Len(w) = L + N
      /\ \A m \in 1 .. L : w[m] = s[m]
      /\ \A m \in (L + 1) .. (L + N) : w[m] = t[m - L] /\ m - L \in 1 .. N
  BY ConcatAt
<1> SUFFICES ASSUME NEW p \in 1 .. (L + N)
             PROVE  /\ w[p].type = "STOP" => \E q \in 0 .. (p - 1) : StopOk(w, p, q)
                    /\ w[p].type = "SET_CURRENT" =>
                          \/ w[p].index = PrimaryInput
                          \/ p < L + N /\ Is(w[p + 1], "START", w[p].index)
                          \/ \E q \in 0 .. (p - 1) : SetOk(w, p, q)
  BY <1>0 DEF Pending
<1> HIDE DEF L, N, w
<1>1. CASE p <= L
  <2>1. p \in 1 .. L /\ w[p] = s[p]
    BY <1>0, <1>1
  <2>2. \A m \in 1 .. (p - 1) : w[m] = s[m]
    BY <1>0, <1>1
  <2>3. ASSUME w[p].type = "STOP" PROVE \E q \in 0 .. (p - 1) : StopOk(w, p, q)
    <3>1. PICK q \in 0 .. (p - 1) : StopOk(s, p, q)
      BY <2>1, <2>3 DEF Pending, L
    <3>2. q # 0 => q \in 1 .. (p - 1)
      BY <2>1
    <3>3. StopOk(w, p, q)
      BY <2>1, <2>2, <3>1, <3>2 DEF StopOk
    <3> QED BY <3>3
  <2>4. ASSUME w[p].type = "SET_CURRENT"
        PROVE  \/ w[p].index = PrimaryInput
               \/ p < L + N /\ Is(w[p + 1], "START", w[p].index)
               \/ \E q \in 0 .. (p - 1) : SetOk(w, p, q)
    <3>1. \/ s[p].index = PrimaryInput
          \/ p < L /\ Is(s[p + 1], "START", s[p].index)
          \/ \E q \in 0 .. (p - 1) : SetOk(s, p, q)
      BY <2>1, <2>4 DEF Pending, L
    <3>2. CASE p < L /\ Is(s[p + 1], "START", s[p].index)
      <4>1. p < L + N /\ p + 1 \in 1 .. L
        BY <3>2, <2>1, <1>0
      <4>2. w[p + 1] = s[p + 1]
        BY <4>1, <1>0
      <4> QED BY <3>2, <4>1, <4>2, <2>1
    <3>3. CASE \E q \in 0 .. (p - 1) : SetOk(s, p, q)
      <4>1. PICK q \in 0 .. (p - 1) : SetOk(s, p, q)
        BY <3>3
      <4>2. q # 0 => q \in 1 .. (p - 1)
        BY <2>1
      <4>3. SetOk(w, p, q)
        BY <2>1, <2>2, <4>1, <4>2 DEF SetOk
      <4> QED BY <4>3
    <3> QED BY <2>1, <3>1, <3>2, <3>3
  <2> QED BY <2>3, <2>4
<1>2. CASE p > L
  <2> DEFINE r == p - L
  <2>1. r \in 1 .. N /\ w[p] = t[r] /\ p = r + L
    BY <1>0, <1>2
  <2>2. ASSUME NEW q \in 1 .. (r - 1), NEW m \in 1 .. (p - 1), m > q + L
        PROVE  m - L \in 1 .. (r - 1) /\ w[m] = t[m - L] /\ m - L > q
    BY <2>1, <2>2, <1>0
  <2>3. ASSUME NEW q \in 1 .. (r - 1)
        PROVE  /\ q + L \in 0 .. (p - 1) /\ q + L # 0 /\ w[q + L] = t[q] /\ q # 0
    <3>1. /\ q + L \in 0 .. (p - 1) /\ q + L # 0 /\ q # 0
          /\ q + L \in (L + 1) .. (L + N) /\ (q + L) - L = q
      BY <2>1, <2>3, <1>0
    <3>2. w[q + L] = t[(q + L) - L]
      BY <3>1, <1>0
    <3> QED BY <3>1, <3>2
  <2> HIDE DEF r
  <2>4. ASSUME w[p].type = "STOP" PROVE \E q \in 0 .. (p - 1) : StopOk(w, p, q)
    <3>1. PICK q \in 1 .. (r - 1) : StopOk(t, r, q)
      BY <2>1, <2>4 DEF Pending, N
    <3>2. /\ q + L \in 0 .. (p - 1) /\ q + L # 0 /\ w[q + L] = t[q] /\ q # 0
      BY <2>3
    <3>3. \A m \in 1 .. (p - 1) : m > q + L => w[m].type # "SET_CURRENT"
      BY <2>2, <3>1 DEF StopOk
    <3>4. StopOk(w, p, q + L)
      BY <2>1, <3>1, <3>2, <3>3 DEF StopOk
    <3> QED BY <3>2, <3>4
  <2>5. ASSUME w[p].type = "SET_CURRENT"
        PROVE  \/ w[p].index = PrimaryInput
               \/ p < L + N /\ Is(w[p + 1], "START", w[p].index)
               \/ \E q \in 0 .. (p - 1) : SetOk(w, p, q)
    <3>1. \/ t[r].index = PrimaryInput
          \/ r < N /\ Is(t[r + 1], "START", t[r].index)
          \/ \E q \in 1 .. (r - 1) : SetOk(t, r, q)
      BY <2>1, <2>5 DEF Pending, N
    <3>2. CASE r < N /\ Is(t[r + 1], "START", t[r].index)
      <4>1. p < L + N /\ p + 1 \in (L + 1) .. (L + N) /\ (p + 1) - L = r + 1
        BY <3>2, <2>1, <1>0
      <4>2. w[p + 1] = t[r + 1]
        BY <4>1, <1>0
      <4> QED BY <3>2, <4>1, <4>2, <2>1
    <3>3. CASE \E q \in 1 .. (r - 1) : SetOk(t, r, q)
      <4>1. PICK q \in 1 .. (r - 1) : SetOk(t, r, q)
        BY <3>3
      <4>2. /\ q + L \in 0 .. (p - 1) /\ q + L # 0 /\ w[q + L] = t[q] /\ q # 0
        BY <2>3
      <4>3. \A m \in 1 .. (p - 1) : m > q + L => ~Is(w[m], "STOP", t[r].index)
        BY <2>2, <4>1 DEF SetOk
      <4>4. SetOk(w, p, q + L)
        BY <2>1, <4>1, <4>2, <4>3 DEF SetOk
      <4> QED BY <4>2, <4>4
    <3> QED BY <2>1, <3>1, <3>2, <3>3
  <2> QED BY <2>4, <2>5
<1> QED BY <1>0, <1>1, <1>2

\* Actions which are in order for themselves are in order in an empty queue.
LEMMA PendingAlone ==
    ASSUME NEW s \in Seq(SafeAction), Pending(s, 1)
    PROVE  Pending(s, 0)
<1>1. ASSUME NEW p \in 1 .. Len(s), NEW q \in 1 .. (p - 1) PROVE q \in 0 .. (p - 1)
  OBVIOUS
<1> QED BY <1>1 DEF Pending

\* Actions p which make x current once, in action n, and then maybe stop other inputs.
LEMMA PendingBlock ==
    ASSUME NEW p \in Seq(SafeAction), NEW f \in Seq(SafeAction), NEW n \in 1 .. Len(p), NEW x,
           Is(p[n], "SET_CURRENT", x),
           \A m \in 1 .. Len(p) : p[m].type # "STOP" /\ (m # n => p[m].type # "SET_CURRENT"),
           \A m \in 1 .. Len(f) : /\ f[m].type # "SET_CURRENT"
                                  /\ f[m].type = "STOP" => f[m].index # x,
           \/ x = PrimaryInput
           \/ n < Len(p) /\ Is(p[n + 1], "START", x)
           \/ \E q \in 1 .. (n - 1) : Is(p[q], "START", x)
    PROVE  Pending(p \o f, 1)
<1> DEFINE L == Len(p)
           N == Len(f)
           w == p \o f
<1>0. /\ L \in Nat /\ N \in Nat /\ Len(w) = L + N
      /\ \A m \in 1 .. L : w[m] = p[m]
      /\ \A m \in (L + 1) .. (L + N) : w[m] = f[m - L] /\ m - L \in 1 .. N
  BY ConcatAt
<1> HIDE DEF L, N, w
<1>n. n \in 1 .. L /\ w[n] = p[n] /\ n \in Nat /\ n >= 1 /\ n <= L
  BY <1>0 DEF L
<1>a. \A m \in 1 .. (L + N) : m # n => w[m].type # "SET_CURRENT"
  <2>1. ASSUME NEW m \in 1 .. (L + N), m # n PROVE w[m].type # "SET_CURRENT"
    <3>1. CASE m \in 1 .. L
      BY <2>1, <3>1, <1>0 DEF L
    <3>2. CASE m \in (L + 1) .. (L + N)
      BY <3>2, <1>0 DEF N
    <3> QED BY <3>1, <3>2, <1>0
  <2> QED BY <2>1
<1>b. \A m \in 1 .. (L + N) : w[m].type = "STOP" => m > n /\ w[m].index # x
  <2>1. ASSUME NEW m \in 1 .. (L + N), w[m].type = "STOP" PROVE m > n /\ w[m].index # x
    <3>1. CASE m \in 1 .. L
      BY <2>1, <3>1, <1>0 DEF L
    <3>2. CASE m \in (L + 1) .. (L + N)
      <4>1. m > n
        BY <3>2, <1>0, <1>n
      <4> QED BY <2>1, <3>2, <4>1, <1>0 DEF N
    <3> QED BY <3>1, <3>2, <1>0
  <2> QED BY <2>1
<1> SUFFICES ASSUME NEW k \in 1 .. (L + N)
             PROVE  /\ w[k].type = "STOP" => \E q \in 1 .. (k - 1) : StopOk(w, k, q)
                    /\ w[k].type = "SET_CURRENT" =>
                          \/ w[k].index = PrimaryInput
                          \/ k < L + N /\ Is(w[k + 1], "START", w[k].index)
                          \/ \E q \in 1 .. (k - 1) : SetOk(w, k, q)
  BY <1>0 DEF Pending, w
<1>1. ASSUME w[k].type = "STOP" PROVE \E q \in 1 .. (k - 1) : StopOk(w, k, q)
  <2>1. n \in 1 .. (k - 1) /\ w[k].index # x /\ n # 0
    BY <1>1, <1>b, <1>n, <1>0
  <2>2. \A m \in 1 .. (k - 1) : m > n => w[m].type # "SET_CURRENT"
    BY <1>a, <1>n, <1>0
  <2>3. w[n].type = "SET_CURRENT" /\ w[n].index = x
    BY <1>n DEF Is
  <2>4. StopOk(w, k, n)
    BY <2>1, <2>2, <2>3 DEF StopOk
  <2> QED BY <2>1, <2>4
<1>2. ASSUME w[k].type = "SET_CURRENT"
      PROVE  \/ w[k].index = PrimaryInput
             \/ k < L + N /\ Is(w[k + 1], "START", w[k].index)
             \/ \E q \in 1 .. (k - 1) : SetOk(w, k, q)
  <2>1. k = n /\ w[k].index = x
    BY <1>2, <1>a, <1>n DEF Is
  <2>2. CASE n < Len(p) /\ Is(p[n + 1], "START", x)
    <3>1. n + 1 \in 1 .. L /\ k < L + N
      BY <2>1, <2>2, <1>n, <1>0 DEF L
    <3>2. w[n + 1] = p[n + 1]
      BY <3>1, <1>0
    <3> QED BY <2>1, <2>2, <3>1, <3>2
  <2>3. CASE \E q \in 1 .. (n - 1) : Is(p[q], "START", x)
    <3>1. PICK q \in 1 .. (n - 1) : Is(p[q], "START", x)
      BY <2>3
    <3>2. q # 0 /\ q \in 1 .. L /\ q \in 1 .. (k - 1)
      BY <2>1, <1>n, <1>0
    <3>3. w[q] = p[q]
      BY <3>2, <1>0
    <3>4. \A m \in 1 .. (k - 1) : w[m].type # "STOP"
      BY <2>1, <1>b, <1>n, <1>0
    <3>5. SetOk(w, k, q)
      BY <2>1, <3>1, <3>2, <3>3, <3>4 DEF SetOk, Is
    <3> QED BY <3>2, <3>5
  <2> QED BY <2>1, <2>2, <2>3
<1> QED BY <1>1, <1>2

\* Actions which neither stop an input nor change the current one.
LEMMA PendingNeutral ==
    ASSUME NEW s \in Seq(SafeAction),
           \A m \in 1 .. Len(s) : s[m].type \notin {"STOP", "SET_CURRENT"}
    PROVE  Pending(s, 1)
  BY DEF Pending

\* The actions which stop an input stop no other one and do not change the current input.
LEMMA StopBlock ==
    ASSUME opt \in CommandLines, NEW i \in Inputs, i # PrimaryInput, NEW abort \in BOOLEAN
    PROVE  /\ StopActions(i, abort) \in Seq(SafeAction)
           /\ \A m \in 1 .. Len(StopActions(i, abort)) :
                 /\ StopActions(i, abort)[m].type # "SET_CURRENT"
                 /\ StopActions(i, abort)[m].index = i
<1> DEFINE a == Act("ABORT_INPUT", i, abort)
           b == Act("STOP", i, FALSE)
           c == Act("WAIT_STOPPED", i, FALSE)
<1>1. /\ a.type # "SET_CURRENT" /\ b.type # "SET_CURRENT" /\ c.type # "SET_CURRENT"
      /\ a.index = i /\ b.index = i /\ c.index = i
  BY DEF Act
<1>2. StopActions(i, abort) = <<a, b, c>>
  BY DEF StopActions
<1> HIDE DEF a, b, c
<1>3. Len(<<a, b, c>>) = 3 /\ <<a, b, c>>[1] = a /\ <<a, b, c>>[2] = b /\ <<a, b, c>>[3] = c
  OBVIOUS
<1>4. \A m \in 1 .. 3 : m = 1 \/ m = 2 \/ m = 3
  OBVIOUS
<1>5. StopActions(i, abort) \in Seq(SafeAction)
  BY SafeStop
<1> QED BY <1>1, <1>2, <1>3, <1>4, <1>5

\* Queue s has no action of these types, or it has this action.
Without(s, types) == \A m \in 1 .. Len(s) : s[m].type \notin types
Has(s, type, i)   == \E m \in 1 .. Len(s) : Is(s[m], type, i)

\* What a concatenation has and does not have.
LEMMA WithoutConcat ==
    ASSUME NEW s \in Seq(SafeAction), NEW t \in Seq(SafeAction), NEW types,
           Without(s, types), Without(t, types)
    PROVE  Without(s \o t, types)
<1>1. /\ Len(s) \in Nat /\ Len(t) \in Nat /\ Len(s \o t) = Len(s) + Len(t)
      /\ \A m \in 1 .. Len(s) : (s \o t)[m] = s[m]
      /\ \A m \in (Len(s) + 1) .. (Len(s) + Len(t)) :
            (s \o t)[m] = t[m - Len(s)] /\ m - Len(s) \in 1 .. Len(t)
  BY ConcatAt
<1>2. ASSUME NEW m \in 1 .. (Len(s) + Len(t)) PROVE (s \o t)[m].type \notin types
  <2>1. m \in 1 .. Len(s) \/ m \in (Len(s) + 1) .. (Len(s) + Len(t))
    BY <1>1
  <2> QED BY <2>1, <1>1 DEF Without
<1> QED BY <1>1, <1>2 DEF Without

\* What is in the first part of a concatenation.
LEMMA HasConcat ==
    ASSUME NEW s \in Seq(SafeAction), NEW t \in Seq(SafeAction), NEW type, NEW i,
           Has(s, type, i) \/ Has(t, type, i)
    PROVE  Has(s \o t, type, i)
<1>1. /\ Len(s) \in Nat /\ Len(t) \in Nat /\ Len(s \o t) = Len(s) + Len(t)
      /\ \A m \in 1 .. Len(s) : (s \o t)[m] = s[m]
      /\ \A m \in (Len(s) + 1) .. (Len(s) + Len(t)) :
            (s \o t)[m] = t[m - Len(s)] /\ m - Len(s) \in 1 .. Len(t)
  BY ConcatAt
<1>2. CASE Has(s, type, i)
  <2>1. PICK m \in 1 .. Len(s) : Is(s[m], type, i)
    BY <1>2 DEF Has
  <2>2. m \in 1 .. (Len(s) + Len(t))
    BY <1>1
  <2> QED BY <1>1, <2>1, <2>2 DEF Has
<1>3. CASE Has(t, type, i)
  <2>1. PICK m \in 1 .. Len(t) : Is(t[m], type, i)
    BY <1>3 DEF Has
  <2>2. /\ m + Len(s) \in (Len(s) + 1) .. (Len(s) + Len(t)) /\ (m + Len(s)) - Len(s) = m
        /\ m + Len(s) \in 1 .. (Len(s) + Len(t))
    BY <1>1
  <2>3. (s \o t)[m + Len(s)] = t[(m + Len(s)) - Len(s)]
    BY <1>1, <2>2
  <2> QED BY <1>1, <2>1, <2>2, <2>3 DEF Has
<1> QED BY <1>2, <1>3

\* One action.
LEMMA OneAction ==
    ASSUME NEW a \in SafeAction
    PROVE  /\ <<a>> \in Seq(SafeAction)
           /\ \A types : a.type \notin types => Without(<<a>>, types)
           /\ Has(<<a>>, a.type, a.index)
<1>1. Len(<<a>>) = 1 /\ <<a>>[1] = a
  OBVIOUS
<1>2. <<a>> \in Seq(SafeAction)
  BY SeqOf
<1> QED BY <1>1, <1>2 DEF Without, Has, Is

\* The actions of a delayed switch are in order for themselves.
LEMMA DelayedBlock ==
    ASSUME Types, NEW index \in Inputs, index # curPlugin, NEW abort \in BOOLEAN
    PROVE  Pending(DelayedSwitch(index, abort), 1)
<1> DEFINE T == {"STOP", "SET_CURRENT"}
           a == <<Suspend>>
           b == If(index # PrimaryInput, <<Act("START", index, FALSE)>>)
           c == <<Act("WAIT_INPUT", index, FALSE)>>
           d == If(curPlugin = PrimaryInput, <<Act("NOTIF_CURRENT", curPlugin, FALSE)>>)
           e1 == Act("SET_CURRENT", index, FALSE)
           e2 == Act("NOTIF_CURRENT", index, TRUE)
           e == <<e1, e2, Restart>>
           f == If(curPlugin # PrimaryInput, StopActions(curPlugin, abort))
<1>0. opt \in CommandLines /\ curPlugin \in Inputs
  BY DEF Types, CoreTypes
<1>e. <<>> \in Seq(SafeAction) /\ Without(<<>>, T)
  BY DEF Without
<1>1. a \in Seq(SafeAction) /\ Without(a, T)
  <2>1. Suspend \in SafeAction /\ Suspend.type \notin T
    BY <1>0, TimeoutActs DEF Suspend, Act
  <2> QED BY <2>1, OneAction
<1>2. b \in Seq(SafeAction) /\ Without(b, T) /\ (index # PrimaryInput => Has(b, "START", index))
  <2> DEFINE x == Act("START", index, FALSE)
  <2>1. x \in SafeAction /\ x.type \notin T /\ x.type = "START" /\ x.index = index
    BY <1>0, SafeActs DEF Act, ActionTypes
  <2>2. b = IF index # PrimaryInput THEN <<x>> ELSE <<>>
    BY DEF If
  <2> HIDE DEF x, b
  <2>3. <<x>> \in Seq(SafeAction) /\ Without(<<x>>, T) /\ Has(<<x>>, "START", index)
    BY <2>1, OneAction
  <2> QED BY <2>2, <2>3, <1>e
<1>3. c \in Seq(SafeAction) /\ Without(c, T)
  <2> DEFINE x == Act("WAIT_INPUT", index, FALSE)
  <2>1. x \in SafeAction /\ x.type \notin T
    BY <1>0, SafeActs DEF Act, ActionTypes, WaitTypes
  <2> HIDE DEF x
  <2> QED BY <2>1, OneAction DEF x
<1>4. d \in Seq(SafeAction) /\ Without(d, T)
  <2> DEFINE x == Act("NOTIF_CURRENT", curPlugin, FALSE)
  <2>1. x \in SafeAction /\ x.type \notin T
    BY <1>0, SafeActs DEF Act, ActionTypes
  <2>2. d = IF curPlugin = PrimaryInput THEN <<x>> ELSE <<>>
    BY DEF If
  <2> HIDE DEF x, d
  <2>3. <<x>> \in Seq(SafeAction) /\ Without(<<x>>, T)
    BY <2>1, OneAction
  <2> QED BY <2>2, <2>3, <1>e
<1>5. /\ e \in Seq(SafeAction) /\ Len(e) = 3 /\ Is(e[1], "SET_CURRENT", index)
      /\ e[2].type \notin T /\ e[3].type \notin T
  <2>1. /\ e1 \in SafeAction /\ e2 \in SafeAction /\ Restart \in SafeAction
        /\ Is(e1, "SET_CURRENT", index) /\ e2.type \notin T /\ Restart.type \notin T
    BY <1>0, SafeActs, TimeoutActs DEF Act, ActionTypes, Is, Restart
  <2> HIDE DEF e1, e2
  <2>2. e \in Seq(SafeAction)
    BY <2>1, SeqOf
  <2>3. Len(e) = 3 /\ e[1] = e1 /\ e[2] = e2 /\ e[3] = Restart
    OBVIOUS
  <2> QED BY <2>1, <2>2, <2>3
<1>6. /\ f \in Seq(SafeAction)
      /\ \A m \in 1 .. Len(f) : f[m].type # "SET_CURRENT" /\ f[m].index # index
  <2>1. CASE curPlugin # PrimaryInput
    <3>1. f = StopActions(curPlugin, abort)
      BY <2>1 DEF If
    <3> HIDE DEF f
    <3> QED BY <3>1, <2>1, <1>0, StopBlock
  <2>2. CASE curPlugin = PrimaryInput
    <3>1. f = <<>>
      BY <2>2 DEF If
    <3> HIDE DEF f
    <3> QED BY <3>1
  <2> QED BY <2>1, <2>2
<1>7. DelayedSwitch(index, abort) = a \o b \o c \o d \o e \o f
  BY Zenon DEF DelayedSwitch
<1> HIDE DEF a, b, c, d, e, f
<1> DEFINE g == a \o b \o c \o d
           p == g \o e
<1>8. /\ g \in Seq(SafeAction) /\ Without(g, T)
      /\ (index # PrimaryInput => Has(g, "START", index))
  <2>1. a \o b \in Seq(SafeAction) /\ a \o b \o c \in Seq(SafeAction) /\ g \in Seq(SafeAction)
    BY <1>1, <1>2, <1>3, <1>4, SafeConcat
  <2>2. Without(a \o b, T) /\ (index # PrimaryInput => Has(a \o b, "START", index))
    BY <1>1, <1>2, WithoutConcat, HasConcat
  <2>3. Without(a \o b \o c, T) /\ (index # PrimaryInput => Has(a \o b \o c, "START", index))
    BY <2>1, <2>2, <1>3, WithoutConcat, HasConcat
  <2> QED BY <2>1, <2>3, <1>4, WithoutConcat, HasConcat
<1> HIDE DEF g, T
<1>9. Pending(p \o f, 1)
  <2> DEFINE n == Len(g) + 1
  <2>1. /\ p \in Seq(SafeAction) /\ Len(g) \in Nat /\ Len(p) = Len(g) + 3
        /\ \A m \in 1 .. Len(g) : p[m] = g[m]
        /\ \A m \in (Len(g) + 1) .. (Len(g) + 3) : p[m] = e[m - Len(g)]
    <3>1. /\ p \in Seq(SafeAction) /\ Len(g) \in Nat /\ Len(p) = Len(g) + Len(e)
          /\ \A m \in 1 .. Len(g) : p[m] = g[m]
          /\ \A m \in (Len(g) + 1) .. (Len(g) + Len(e)) : p[m] = e[m - Len(g)]
      <4>1. g \in Seq(SafeAction) /\ e \in Seq(SafeAction)
        BY <1>5, <1>8
      <4> QED BY <4>1, ConcatAt
    <3> HIDE DEF p
    <3> QED BY <3>1, <1>5
  <2> HIDE DEF p
  <2>2. p[Len(g) + 1] = e[1] /\ p[Len(g) + 2] = e[2] /\ p[Len(g) + 3] = e[3]
    <3>1. /\ Len(g) + 1 \in (Len(g) + 1) .. (Len(g) + 3) /\ (Len(g) + 1) - Len(g) = 1
          /\ Len(g) + 2 \in (Len(g) + 1) .. (Len(g) + 3) /\ (Len(g) + 2) - Len(g) = 2
          /\ Len(g) + 3 \in (Len(g) + 1) .. (Len(g) + 3) /\ (Len(g) + 3) - Len(g) = 3
      BY <2>1
    <3> QED BY <2>1, <3>1
  <2>3. n \in 1 .. Len(p) /\ Is(p[n], "SET_CURRENT", index)
    BY <2>1, <2>2, <1>5
  <2>4. \A m \in 1 .. Len(p) : p[m].type # "STOP" /\ (m # n => p[m].type # "SET_CURRENT")
    <3>1. ASSUME NEW m \in 1 .. Len(p)
          PROVE  p[m].type # "STOP" /\ (m # n => p[m].type # "SET_CURRENT")
      <4>1. m \in 1 .. Len(g) \/ m = Len(g) + 1 \/ m = Len(g) + 2 \/ m = Len(g) + 3
        BY <2>1
      <4>2. CASE m \in 1 .. Len(g)
        BY <4>2, <2>1, <1>8 DEF Without, T
      <4>3. CASE m = Len(g) + 1
        BY <4>3, <2>3 DEF Is
      <4>4. CASE m = Len(g) + 2 \/ m = Len(g) + 3
        BY <4>4, <2>2, <1>5 DEF T
      <4> QED BY <4>1, <4>2, <4>3, <4>4
    <3> QED BY <3>1
  <2>5. index # PrimaryInput => \E q \in 1 .. (n - 1) : Is(p[q], "START", index)
    <3>1. n - 1 = Len(g)
      BY <2>1
    <3> QED BY <3>1, <2>1, <1>8 DEF Has
  <2> HIDE DEF n
  <2> QED BY <2>1, <2>3, <2>4, <2>5, <1>6, PendingBlock
<1> QED BY Zenon, <1>7, <1>9 DEF g

\* The actions of the return to the primary input are in order for themselves.
LEMMA PrimaryBlock ==
    ASSUME Types, PrimaryInput \in Inputs, curPlugin # PrimaryInput
    PROVE  Pending(PrimarySwitch, 1)
<1> DEFINE p == <<Suspend, Act("NOTIF_CURRENT", curPlugin, FALSE),
                  Act("SET_CURRENT", PrimaryInput, FALSE), Act("NOTIF_CURRENT", PrimaryInput, TRUE),
                  Restart>>
           f == If(mode # "fast", StopActions(curPlugin, TRUE))
<1>0. opt \in CommandLines /\ curPlugin \in Inputs
  BY DEF Types, CoreTypes
<1>1. PrimarySwitch = p \o f
  BY Zenon DEF PrimarySwitch
<1>2. /\ Len(p) = 5
      /\ p[1].type = "SUSPEND_TIMEOUT" /\ p[2].type = "NOTIF_CURRENT"
      /\ p[3].type = "SET_CURRENT" /\ p[3].index = PrimaryInput
      /\ p[4].type = "NOTIF_CURRENT" /\ p[5].type = "RESTART_TIMEOUT"
  BY DEF Suspend, Restart, Act
<1>3. p \in Seq(SafeAction)
  <2>1. /\ Act("NOTIF_CURRENT", curPlugin, FALSE) \in SafeAction
        /\ Act("SET_CURRENT", PrimaryInput, FALSE) \in SafeAction
        /\ Act("NOTIF_CURRENT", PrimaryInput, TRUE) \in SafeAction
    BY <1>0, SafeActs DEF ActionTypes
  <2> QED BY <2>1, <1>0, TimeoutActs, SeqOf
<1>4. /\ f \in Seq(SafeAction)
      /\ \A m \in 1 .. Len(f) : f[m].type # "SET_CURRENT" /\ f[m].index # PrimaryInput
  <2>1. CASE mode # "fast"
    <3>1. f = StopActions(curPlugin, TRUE)
      BY <2>1 DEF If
    <3> HIDE DEF f
    <3> QED BY <3>1, <1>0, StopBlock
  <2>2. CASE mode = "fast"
    <3>1. f = <<>>
      BY <2>2 DEF If
    <3> HIDE DEF f
    <3> QED BY <3>1
  <2> QED BY <2>1, <2>2
<1> HIDE DEF p, f
<1>5. ASSUME NEW m \in 1 .. Len(p)
      PROVE  p[m].type # "STOP" /\ (m # 3 => p[m].type # "SET_CURRENT")
  <2>1. m = 1 \/ m = 2 \/ m = 3 \/ m = 4 \/ m = 5
    BY <1>2, <1>5
  <2> QED BY <2>1, <1>2
<1>6. 3 \in 1 .. Len(p) /\ Is(p[3], "SET_CURRENT", PrimaryInput)
  BY <1>2 DEF Is
<1>7. Pending(p \o f, 1)
  BY <1>3, <1>4, <1>5, <1>6, PendingBlock
<1> QED BY <1>1, <1>7

\* The parts of the actions of inputStopped() for the next input of the cycle.
LEMMA NextParts ==
    ASSUME Types, mode # "fast"
    PROVE  \E p \in Seq(SafeAction), f \in Seq(SafeAction) :
              /\ NextActions = p \o f
              /\ Len(p) = 4 /\ Len(f) = 1 /\ f[1].type = "RESTART_TIMEOUT"
              /\ p[1].type = "SUSPEND_TIMEOUT" /\ Is(p[2], "SET_CURRENT", NextPlugin)
              /\ Is(p[3], "START", NextPlugin) /\ p[4].type = "WAIT_STARTED"
<1> DEFINE a1 == Act("SET_CURRENT", NextPlugin, FALSE)
           b1 == Act("START", NextPlugin, TRUE)
           b2 == Act("WAIT_STARTED", NextPlugin, FALSE)
           a == <<Suspend, a1>>
           b == <<b1, b2>>
           f == <<Restart>>
<1>0. opt \in CommandLines /\ curPlugin \in Inputs /\ NextPlugin \in Inputs
  BY NextPluginType DEF Types, CoreTypes
<1>1. NextActions = (a \o b) \o f
  BY Zenon DEF NextActions
<1>2. /\ a1 \in SafeAction /\ b1 \in SafeAction /\ b2 \in SafeAction
      /\ Suspend \in SafeAction /\ Restart \in SafeAction
      /\ Is(a1, "SET_CURRENT", NextPlugin) /\ Is(b1, "START", NextPlugin)
      /\ b2.type = "WAIT_STARTED"
      /\ Suspend.type = "SUSPEND_TIMEOUT" /\ Restart.type = "RESTART_TIMEOUT"
  BY <1>0, SafeActs, TimeoutActs DEF Act, ActionTypes, WaitTypes, Is, Restart, Suspend
<1> HIDE DEF a1, b1, b2
<1>3. a \in Seq(SafeAction) /\ b \in Seq(SafeAction) /\ f \in Seq(SafeAction)
  BY <1>2, SeqOf
<1>4. /\ Len(a) = 2 /\ a[1] = Suspend /\ a[2] = a1 /\ Len(b) = 2 /\ b[1] = b1 /\ b[2] = b2
      /\ Len(f) = 1 /\ f[1] = Restart
  OBVIOUS
<1> HIDE DEF a, b, f
<1>5. /\ a \o b \in Seq(SafeAction) /\ Len(a \o b) = 4
      /\ (a \o b)[1] = Suspend /\ (a \o b)[2] = a1 /\ (a \o b)[3] = b1 /\ (a \o b)[4] = b2
  <2>1. /\ a \o b \in Seq(SafeAction) /\ Len(a \o b) = Len(a) + Len(b)
        /\ \A m \in 1 .. Len(a) : (a \o b)[m] = a[m]
        /\ \A m \in (Len(a) + 1) .. (Len(a) + Len(b)) : (a \o b)[m] = b[m - Len(a)]
    BY <1>3, ConcatAt
  <2>2. /\ \A m \in 1 .. 2 : (a \o b)[m] = a[m]
        /\ \A m \in 3 .. 4 : (a \o b)[m] = b[m - 2]
    BY <2>1, <1>4
  <2>3. (a \o b)[3] = b[1] /\ (a \o b)[4] = b[2]
    <3>1. 3 \in 3 .. 4 /\ 4 \in 3 .. 4 /\ 3 - 2 = 1 /\ 4 - 2 = 2
      OBVIOUS
    <3> QED BY <2>2, <3>1
  <2>4. (a \o b)[1] = a[1] /\ (a \o b)[2] = a[2]
    <3>1. 1 \in 1 .. 2 /\ 2 \in 1 .. 2
      OBVIOUS
    <3> QED BY <2>2, <3>1
  <2>5. Len(a \o b) = 4
    BY <2>1, <1>4
  <2> QED BY <2>1, <2>3, <2>4, <2>5, <1>4
<1> DEFINE p == a \o b
<1>6. p \in Seq(SafeAction) /\ NextActions = p \o f
  BY <1>5, <1>1
<1>7. /\ Len(p) = 4 /\ p[1].type = "SUSPEND_TIMEOUT" /\ Is(p[2], "SET_CURRENT", NextPlugin)
      /\ Is(p[3], "START", NextPlugin) /\ p[4].type = "WAIT_STARTED"
  BY <1>2, <1>5
<1> HIDE DEF p
<1> QED BY <1>2, <1>3, <1>4, <1>6, <1>7

\* They are in order for themselves.
LEMMA NextBlock ==
    ASSUME Types, mode # "fast"
    PROVE  Pending(NextActions, 1)
<1>1. PICK p \in Seq(SafeAction), f \in Seq(SafeAction) :
         /\ NextActions = p \o f
         /\ Len(p) = 4 /\ Len(f) = 1 /\ f[1].type = "RESTART_TIMEOUT"
         /\ p[1].type = "SUSPEND_TIMEOUT" /\ Is(p[2], "SET_CURRENT", NextPlugin)
         /\ Is(p[3], "START", NextPlugin) /\ p[4].type = "WAIT_STARTED"
  BY NextParts
<1>2. ASSUME NEW m \in 1 .. Len(p)
      PROVE  p[m].type # "STOP" /\ (m # 2 => p[m].type # "SET_CURRENT")
  <2>1. m = 1 \/ m = 2 \/ m = 3 \/ m = 4
    BY <1>1, <1>2
  <2> QED BY <2>1, <1>1 DEF Is
<1>3. \A m \in 1 .. Len(f) : f[m].type # "SET_CURRENT" /\ (f[m].type = "STOP" => f[m].index # NextPlugin)
  BY <1>1
<1>4. 2 \in 1 .. Len(p) /\ 2 < Len(p) /\ Is(p[2 + 1], "START", NextPlugin)
  BY <1>1
<1>5. Pending(p \o f, 1)
  BY <1>1, <1>2, <1>3, <1>4, PendingBlock
<1> QED BY <1>1, <1>5

\* What remains after cancelActions() only waits for inputs to stop.
LEMMA CancelBlock ==
    ASSUME Types
    PROVE  /\ <<Suspend>> \o CancelActionsBut("WAIT_STOPPED") \in Seq(SafeAction)
           /\ Without(<<Suspend>> \o CancelActionsBut("WAIT_STOPPED"),
                      {"START", "STOP", "SET_CURRENT"})
<1> DEFINE c == CancelActionsBut("WAIT_STOPPED")
           T == {"START", "STOP", "SET_CURRENT"}
<1>0. opt \in CommandLines /\ actions \in Seq(SafeAction)
  BY DEF Types, CoreTypes
<1>1. <<Suspend>> \in Seq(SafeAction) /\ Without(<<Suspend>>, T)
  <2>1. Suspend \in SafeAction /\ Suspend.type \notin T
    BY <1>0, TimeoutActs DEF Suspend, Act
  <2> QED BY <2>1, OneAction
<1> DEFINE W == {x \in SafeAction : x.type = "WAIT_STOPPED"}
<1>2. c \in Seq(W)
  BY <1>0, CancelKeeps
<1> HIDE DEF c
<1>3. c \in Seq(SafeAction) /\ \A m \in 1 .. Len(c) : c[m].type = "WAIT_STOPPED"
  <2>1. \A m \in 1 .. Len(c) : c[m] \in W
    <3> HIDE DEF W
    <3> QED BY <1>2
  <2>2. c = [m \in 1 .. Len(c) |-> c[m]] /\ Len(c) \in Nat
    <3> HIDE DEF W
    <3> QED BY <1>2
  <2> QED BY <2>1, <2>2
<1>4. Without(c, T)
  BY <1>3 DEF Without
<1> HIDE DEF T
<1>5. <<Suspend>> \o c \in Seq(SafeAction) /\ Without(<<Suspend>> \o c, T)
  BY <1>1, <1>3, <1>4, SafeConcat, WithoutConcat
<1> QED BY <1>5 DEF c, T

\* What the execution of the front of the queue does.
LEMMA ExecuteEffect ==
    ASSUME Types, Execute
    PROVE  /\ actions \in Seq(SafeAction) /\ Len(actions) \in Nat /\ Len(actions) >= 1
           /\ HeadAct = actions[1] /\ HeadAct.index \in Inputs
           /\ Len(actions') = Len(actions) - 1
           /\ \A m \in 1 .. Len(actions') : actions'[m] = actions[m + 1]
           /\ actions' \in Seq(SafeAction)
           /\ holder # None /\ holder' = holder /\ opt' = opt
           /\ curPlugin' = IF HeadAct.type = "SET_CURRENT" THEN HeadAct.index ELSE curPlugin
           /\ \A i \in Inputs :
                 /\ inp'[i].stop = IF Is(HeadAct, "STOP", i) THEN TRUE
                                   ELSE IF Is(HeadAct, "START", i) THEN FALSE
                                   ELSE inp[i].stop
                 /\ inp'[i].start = IF Is(HeadAct, "STOP", i) THEN FALSE
                                    ELSE IF Is(HeadAct, "START", i) THEN TRUE
                                    ELSE inp[i].start
<1>t. inp \in [Inputs -> InputState]
  BY DEF Types, InputTypes
<1>x. \E types : Executing(types)
  BY DEF Execute, ExecStart, ExecStop, ExecAbort, ExecTimeout, ExecNotifCurrent, ExecSetCurrent,
         ExecWait
<1>1. /\ actions # <<>> /\ actions' = Tail(actions) /\ holder # None
      /\ actions \in Seq(SafeAction) /\ HeadAct = actions[1]
      /\ HeadAct.index \in Inputs /\ actions' \in Seq(SafeAction)
  BY <1>x, HeadType DEF Executing, HeadAct, Types, CoreTypes
<1>2. /\ Len(actions) \in Nat /\ Len(actions) >= 1 /\ Len(actions') = Len(actions) - 1
      /\ \A m \in 1 .. Len(actions') : actions'[m] = actions[m + 1]
  BY <1>1
<1>3. /\ holder' = holder /\ opt' = opt
      /\ curPlugin' = IF HeadAct.type = "SET_CURRENT" THEN HeadAct.index ELSE curPlugin
  BY DEF Execute, ExecStart, ExecStop, ExecAbort, ExecTimeout, ExecNotifCurrent, ExecSetCurrent,
         ExecWait, Executing, boundVars, WaitTypes
<1>4. ASSUME NEW i \in Inputs
      PROVE  /\ inp'[i].stop = IF Is(HeadAct, "STOP", i) THEN TRUE
                               ELSE IF Is(HeadAct, "START", i) THEN FALSE ELSE inp[i].stop
             /\ inp'[i].start = IF Is(HeadAct, "STOP", i) THEN FALSE
                                ELSE IF Is(HeadAct, "START", i) THEN TRUE ELSE inp[i].start
  <2> DEFINE h == HeadAct.index
  <2>0. h \in Inputs /\ inp[h] \in InputState /\ inp[i] \in InputState
    BY <1>1, <1>t
  <2>1. CASE ExecStart
    <3> DEFINE r == [inp[h] EXCEPT !.isCurrent = HeadAct.flag, !.start = TRUE, !.stop = FALSE]
    <3>1. inp' = [inp EXCEPT ![h] = r] /\ HeadAct.type = "START"
      BY <2>0, <2>1, <1>t DEF ExecStart, Executing
    <3>2. r.start = TRUE /\ r.stop = FALSE
      BY <2>0 DEF InputState
    <3> HIDE DEF r
    <3>3. CASE i = h
      BY <3>1, <3>2, <3>3, <1>t, <2>0 DEF Is
    <3>4. CASE i # h
      BY <3>1, <3>4, <1>t, <2>0 DEF Is
    <3> QED BY <3>3, <3>4
  <2>2. CASE ExecStop
    <3> DEFINE r == [inp[h] EXCEPT !.start = FALSE, !.stop = TRUE]
    <3>1. inp' = [inp EXCEPT ![h] = r] /\ HeadAct.type = "STOP"
      BY <2>0, <2>2, <1>t DEF ExecStop, Executing
    <3>2. r.start = FALSE /\ r.stop = TRUE
      BY <2>0 DEF InputState
    <3> HIDE DEF r
    <3>3. CASE i = h
      BY <3>1, <3>2, <3>3, <1>t, <2>0 DEF Is
    <3>4. CASE i # h
      BY <3>1, <3>4, <1>t, <2>0 DEF Is
    <3> QED BY <3>3, <3>4
  <2>3. CASE ExecNotifCurrent
    <3> DEFINE r == [inp[h] EXCEPT !.isCurrent = HeadAct.flag]
    <3>1. inp' = [inp EXCEPT ![h] = r] /\ HeadAct.type = "NOTIF_CURRENT"
      BY <2>0, <2>3, <1>t DEF ExecNotifCurrent, Executing
    <3>2. r.start = inp[h].start /\ r.stop = inp[h].stop
      BY <2>0 DEF InputState
    <3> HIDE DEF r
    <3>3. CASE i = h
      BY <3>1, <3>2, <3>3, <1>t, <2>0 DEF Is
    <3>4. CASE i # h
      BY <3>1, <3>4, <1>t, <2>0 DEF Is
    <3> QED BY <3>3, <3>4
  <2>4. CASE ExecAbort \/ ExecTimeout \/ ExecSetCurrent \/ ExecWait
    BY <2>4 DEF ExecAbort, ExecTimeout, ExecSetCurrent, ExecWait, Executing, WaitTypes, Is, inputVars
  <2> QED BY <2>1, <2>2, <2>3, <2>4 DEF Execute
<1> QED BY <1>1, <1>2, <1>3, <1>4

\* The queue remains in order while it is executed.
LEMMA ExecutePending ==
    ASSUME Types, BufInv, DelayedInv, mode = "delayed", Execute
    PROVE  DelayedInv'
<1> DEFINE L == Len(actions)
           a == actions
           b == actions'
<1>0. /\ L \in Nat /\ L >= 1 /\ Len(b) = L - 1
      /\ \A m \in 1 .. Len(b) : b[m] = a[m + 1]
      /\ HeadAct = a[1] /\ HeadAct.index \in Inputs
  BY ExecuteEffect
<1>1. /\ a \in Seq(SafeAction) /\ b \in Seq(SafeAction) /\ holder # None /\ holder' = holder
      /\ opt' = opt /\ PrimaryInput' = PrimaryInput
  BY ExecuteEffect DEF PrimaryInput
<1>2. curPlugin' = IF a[1].type = "SET_CURRENT" THEN a[1].index ELSE curPlugin
  BY ExecuteEffect
<1>3. \A i \in Inputs : inp'[i].stop = IF Is(a[1], "STOP", i) THEN TRUE
                                       ELSE IF Is(a[1], "START", i) THEN FALSE
                                       ELSE inp[i].stop
  BY ExecuteEffect
<1>4. /\ inp[curPlugin].stop => Is(a[1], "START", curPlugin)
      /\ Pending(a, 0) /\ curPlugin \in Inputs
  BY <1>0 DEF DelayedInv, Types, CoreTypes
<1>t. \A m \in 1 .. L : a[m].index \in Inputs
  BY <1>1 DEF SafeAction, Action
<1>p. PrimaryInput \in Inputs => ~inp[PrimaryInput].stop
  BY DEF BufInv, Buffer
<1>f. ASSUME Len(b) >= 1 PROVE b # <<>> /\ HeadAct' = b[1] /\ b[1] = a[2]
  BY <1>0, <1>1, <1>f DEF HeadAct
<1> HIDE DEF a, b, L
<1>5. ASSUME inp'[curPlugin'].stop PROVE b # <<>> /\ Is(HeadAct', "START", curPlugin')
  <2>1. CASE a[1].type = "SET_CURRENT"
    <3> DEFINE x == a[1].index
    <3>1. x \in Inputs /\ curPlugin' = x /\ inp'[x].stop = inp[x].stop
      BY <2>1, <1>0, <1>2, <1>3 DEF Is
    <3>2. \/ x = PrimaryInput
          \/ 1 < L /\ Is(a[1 + 1], "START", x)
          \/ \E q \in 0 .. (1 - 1) : SetOk(a, 1, q)
      BY <2>1, <1>0, <1>4 DEF Pending, L, a
    <3>3. x # PrimaryInput
      BY <3>1, <1>5, <1>p
    <3>4. ~ \E q \in 0 .. (1 - 1) : SetOk(a, 1, q)
      BY <3>1, <1>5 DEF SetOk
    <3>5. 1 < L /\ Is(a[2], "START", x)
      BY <3>2, <3>3, <3>4
    <3>6. b # <<>> /\ HeadAct' = a[2]
      BY <3>5, <1>0, <1>f
    <3> QED BY <3>1, <3>5, <3>6
  <2>2. CASE a[1].type # "SET_CURRENT"
    <3>1. curPlugin' = curPlugin
      BY <2>2, <1>2
    <3>2. CASE Is(a[1], "STOP", curPlugin)
      <4>1. \E q \in 0 .. (1 - 1) : StopOk(a, 1, q)
        BY <3>2, <1>0, <1>4 DEF Pending, L, a, Is
      <4> QED BY <4>1, <3>2 DEF StopOk, Is
    <3>3. CASE ~Is(a[1], "STOP", curPlugin)
      BY <3>1, <3>3, <1>3, <1>4, <1>5
    <3> QED BY <3>2, <3>3
  <2> QED BY <2>1, <2>2
<1>6. Pending(actions, 0)'
  <2> DEFINE StopB(p, q) ==
                 /\ IF q = 0 THEN curPlugin' # b[p].index
                    ELSE b[q].type = "SET_CURRENT" /\ b[q].index # b[p].index
                 /\ \A m \in 1 .. (p - 1) : m > q => b[m].type # "SET_CURRENT"
             SetB(p, q) ==
                 /\ IF q = 0 THEN ~inp'[b[p].index].stop ELSE Is(b[q], "START", b[p].index)
                 /\ \A m \in 1 .. (p - 1) : m > q => ~Is(b[m], "STOP", b[p].index)
  <2> SUFFICES ASSUME NEW p \in 1 .. Len(b)
               PROVE  /\ b[p].type = "STOP" => \E q \in 0 .. (p - 1) : StopB(p, q)
                      /\ b[p].type = "SET_CURRENT" =>
                            \/ b[p].index = PrimaryInput'
                            \/ p < Len(b) /\ Is(b[p + 1], "START", b[p].index)
                            \/ \E q \in 0 .. (p - 1) : SetB(p, q)
    BY Zenon DEF Pending, b, StopOk, SetOk
  <2>0. /\ p \in Nat /\ p >= 1 /\ p + 1 \in 1 .. L /\ b[p] = a[p + 1] /\ (p + 1) - 1 = p
        /\ \A m \in 1 .. (p - 1) : b[m] = a[m + 1] /\ m + 1 \in 1 .. p
    BY <1>0
  <2>1. ASSUME b[p].type = "STOP" PROVE \E q \in 0 .. (p - 1) : StopB(p, q)
    <3>1. PICK q \in 0 .. p : StopOk(a, p + 1, q)
      BY <2>0, <2>1, <1>4 DEF Pending, L, a
    <3>2. /\ IF q = 0 THEN curPlugin # b[p].index
             ELSE a[q].type = "SET_CURRENT" /\ a[q].index # b[p].index
          /\ \A m \in 1 .. p : m > q => a[m].type # "SET_CURRENT"
      BY <3>1, <2>0 DEF StopOk
    <3>3. CASE q <= 1
      <4>1. \A m \in 1 .. (p - 1) : b[m].type # "SET_CURRENT"
        BY <3>2, <3>3, <2>0
      <4>2. 1 \in 1 .. p
        BY <2>0
      <4>3. curPlugin' # b[p].index
        BY <3>2, <3>3, <4>2, <1>2
      <4>4. StopB(p, 0) /\ 0 \in 0 .. (p - 1)
        BY <4>1, <4>3, <2>0
      <4> QED BY <4>4
    <3>4. CASE q > 1
      <4>1. q - 1 \in 0 .. (p - 1) /\ q - 1 # 0 /\ q - 1 \in 1 .. (p - 1) /\ (q - 1) + 1 = q
        BY <3>4, <2>0
      <4>2. b[q - 1] = a[q]
        BY <4>1, <2>0
      <4>3. \A m \in 1 .. (p - 1) : m > q - 1 => b[m].type # "SET_CURRENT"
        BY <3>2, <2>0, <4>1
      <4>4. StopB(p, q - 1)
        BY <3>2, <3>4, <4>1, <4>2, <4>3
      <4> QED BY <4>1, <4>4
    <3> QED BY <3>3, <3>4, <2>0
  <2>2. ASSUME b[p].type = "SET_CURRENT"
        PROVE  \/ b[p].index = PrimaryInput'
               \/ p < Len(b) /\ Is(b[p + 1], "START", b[p].index)
               \/ \E q \in 0 .. (p - 1) : SetB(p, q)
    <3> DEFINE x == b[p].index
    <3>0. x \in Inputs
      BY <2>0, <1>t
    <3>1. \/ x = PrimaryInput
          \/ p + 1 < L /\ Is(a[(p + 1) + 1], "START", x)
          \/ \E q \in 0 .. p : SetOk(a, p + 1, q)
      BY <2>0, <2>2, <1>4 DEF Pending, L, a
    <3>2. CASE p + 1 < L /\ Is(a[(p + 1) + 1], "START", x)
      <4>1. p < Len(b) /\ p + 1 \in 1 .. Len(b)
        BY <3>2, <2>0, <1>0
      <4>2. b[p + 1] = a[(p + 1) + 1]
        BY <4>1, <1>0
      <4> QED BY <3>2, <4>1, <4>2
    <3>3. CASE \E q \in 0 .. p : SetOk(a, p + 1, q)
      <4>1. PICK q \in 0 .. p : SetOk(a, p + 1, q)
        BY <3>3
      <4>2. /\ IF q = 0 THEN ~inp[x].stop ELSE Is(a[q], "START", x)
            /\ \A m \in 1 .. p : m > q => ~Is(a[m], "STOP", x)
        BY <4>1, <2>0 DEF SetOk
      <4>3. CASE q <= 1
        <5>1. \A m \in 1 .. (p - 1) : ~Is(b[m], "STOP", x)
          BY <4>2, <4>3, <2>0
        <5>2. 1 \in 1 .. p
          BY <2>0
        <5>3. ~inp'[x].stop
          <6>1. CASE q = 0
            <7>1. ~inp[x].stop /\ ~Is(a[1], "STOP", x)
              BY <6>1, <4>2, <5>2
            <7> QED BY <7>1, <1>3, <3>0
          <6>2. CASE q = 1
            <7>1. Is(a[1], "START", x) /\ ~Is(a[1], "STOP", x)
              BY <6>2, <4>2 DEF Is
            <7> QED BY <7>1, <1>3, <3>0
          <6> QED BY <4>3, <6>1, <6>2
        <5>4. SetB(p, 0) /\ 0 \in 0 .. (p - 1)
          BY <5>1, <5>3, <2>0
        <5> QED BY <5>4
      <4>4. CASE q > 1
        <5>1. q - 1 \in 0 .. (p - 1) /\ q - 1 # 0 /\ q - 1 \in 1 .. (p - 1) /\ (q - 1) + 1 = q
          BY <4>4, <2>0
        <5>2. b[q - 1] = a[q]
          BY <5>1, <2>0
        <5>3. \A m \in 1 .. (p - 1) : m > q - 1 => ~Is(b[m], "STOP", x)
          BY <4>2, <2>0, <5>1
        <5>4. SetB(p, q - 1)
          BY <4>2, <4>4, <5>1, <5>2, <5>3
        <5> QED BY <5>1, <5>4
      <4> QED BY <4>3, <4>4, <2>0
    <3> QED BY <3>1, <3>2, <3>3, <1>1
  <2> QED BY <2>1, <2>2
<1>7. mode' = mode /\ holder' # None
  BY <1>1 DEF mode
<1> QED BY <1>5, <1>6, <1>7 DEF DelayedInv, b

\* The order of the queue does not depend on anything else than the current input and the
\* requests to stop an input.
LEMMA PendingTransfer ==
    ASSUME NEW s \in Seq(SafeAction), Pending(s, 0), actions' = s, UNCHANGED <<curPlugin, opt>>,
           \A i \in Inputs : inp'[i].stop => inp[i].stop
    PROVE  Pending(actions, 0)'
<1> DEFINE SetB(p, q) ==
               /\ IF q = 0 THEN ~inp'[s[p].index].stop ELSE Is(s[q], "START", s[p].index)
               /\ \A m \in 1 .. (p - 1) : m > q => ~Is(s[m], "STOP", s[p].index)
<1>1. PrimaryInput' = PrimaryInput
  BY DEF PrimaryInput
<1>2. ASSUME NEW p \in 1 .. Len(s), NEW q \in 0 .. (p - 1), SetOk(s, p, q) PROVE SetB(p, q)
  <2>1. s[p].index \in Inputs
    BY DEF SafeAction, Action
  <2> QED BY <2>1, <1>2 DEF SetOk
<1>3. \A p \in 1 .. Len(s) :
        /\ s[p].type = "STOP" => \E q \in 0 .. (p - 1) : StopOk(s, p, q)
        /\ s[p].type = "SET_CURRENT" =>
              \/ s[p].index = PrimaryInput
              \/ p < Len(s) /\ Is(s[p + 1], "START", s[p].index)
              \/ \E q \in 0 .. (p - 1) : SetB(p, q)
  <2> HIDE DEF SetB
  <2> QED BY <1>2 DEF Pending
<1> QED BY Zenon, <1>1, <1>3 DEF Pending, StopOk, SetOk

\* When execute() returned or the mutex of Core is free, the current input is not asked to stop.
LEMMA CurrentRuns ==
    ASSUME DelayedInv, mode = "delayed", holder = None \/ ExecuteReturns
    PROVE  ~inp[curPlugin].stop
  BY DEF DelayedInv, ExecuteReturns, Is, WaitTypes

\* A step which replaces the queue by another one which is in order.
LEMMA QueueReplaced ==
    ASSUME Types, DelayedInv, mode = "delayed", holder = None \/ ExecuteReturns,
           NEW s \in Seq(SafeAction), Pending(s, 0), actions' = s,
           UNCHANGED <<curPlugin, opt, inp>>, holder' # None
    PROVE  DelayedInv'
<1>1. ~inp[curPlugin].stop
  BY CurrentRuns
<1>2. Pending(actions, 0)'
  BY PendingTransfer
<1> QED BY <1>1, <1>2 DEF DelayedInv

\* setInputLocked(), called by the command listener and by the watchdog.
LEMMA SetInputPending ==
    ASSUME Types, DelayedInv, mode = "delayed", holder = None, holder' # None,
           NEW index, NEW abort \in BOOLEAN, SetInputLocked(index, abort),
           UNCHANGED <<curPlugin, opt, inp>>
    PROVE  DelayedInv'
<1>0. actions \in Seq(SafeAction) /\ Pending(actions, 0) /\ opt \in CommandLines /\ curPlugin \in Inputs
  BY DEF Types, CoreTypes, DelayedInv
<1>1. CASE actions' = actions
  BY <1>0, <1>1, QueueReplaced
<1>2. CASE actions' # actions
  <2> DEFINE d == DelayedSwitch(index, abort)
  <2>1. index \in Inputs /\ index # curPlugin /\ actions' = actions \o d
    BY <1>2 DEF SetInputLocked
  <2>2. d \in Seq(SafeAction) /\ Pending(d, 1)
    BY <2>1, <1>0, SafeSwitch, DelayedBlock
  <2> HIDE DEF d
  <2>3. Pending(actions \o d, 0) /\ actions \o d \in Seq(SafeAction)
    BY <1>0, <2>2, PendingConcat, SafeConcat
  <2> QED BY <2>1, <2>3, QueueReplaced
<1> QED BY <1>1, <1>2

\* Each step keeps the order of the queue.
LEMMA DelayedStep ==
    ASSUME Types, BufInv, DelayedInv, [Next]_vars
    PROVE  DelayedInv'
<1> SUFFICES ASSUME mode = "delayed" PROVE DelayedInv'
  <2>1. CASE mode # "delayed"
    <3>1. mode' = mode
      BY OptionsKept DEF mode
    <3> QED BY <2>1, <3>1 DEF DelayedInv
  <2> QED BY <2>1
<1>c. Listener # None /\ Dog # None /\ \A i \in Inputs : i # None
  BY Constants
<1>0. actions \in Seq(SafeAction) /\ Pending(actions, 0) /\ opt \in CommandLines
      /\ curPlugin \in Inputs
  BY DEF Types, CoreTypes, DelayedInv
<1>1. CASE Execute
  BY <1>1, ExecutePending
<1>2. ASSUME NEW cmd \in opt.commands, SwitchCommand(cmd) PROVE DelayedInv'
  <2>1. holder = None /\ holder' # None /\ UNCHANGED <<curPlugin, opt, inp>>
    BY <1>2, <1>c DEF SwitchCommand, Lock, inputVars
  <2>2. \E index : SetInputLocked(index, FALSE)
    BY <1>2 DEF SwitchCommand
  <2> QED BY <2>1, <2>2, SetInputPending
<1>3. CASE HandleWatchDogTimeout
  <2>1. holder = None /\ holder' # None /\ UNCHANGED <<curPlugin, opt, inp>>
    BY <1>3, <1>c DEF HandleWatchDogTimeout, Lock, inputVars, boundVars
  <2>2. SetInputLocked(NextPlugin, TRUE)
    BY <1>3 DEF HandleWatchDogTimeout
  <2> QED BY <2>1, <2>2, SetInputPending
<1>4. ASSUME NEW i \in Inputs, InputStopped(i) PROVE DelayedInv'
  <2>1. holder = None /\ holder' # None /\ UNCHANGED <<curPlugin, opt, inp>>
    BY <1>4, <1>c DEF InputStopped, Lock, inputVars, boundVars
  <2>2. \/ actions' = <<Suspend>> \o CancelActionsBut("WAIT_STOPPED")
        \/ actions' = NextActions
        \/ actions' = actions
    BY <1>4 DEF InputStopped, NextActions
  <2>3. CASE actions' = <<Suspend>> \o CancelActionsBut("WAIT_STOPPED")
    <3> DEFINE c == <<Suspend>> \o CancelActionsBut("WAIT_STOPPED")
    <3>1. c \in Seq(SafeAction) /\ Without(c, {"START", "STOP", "SET_CURRENT"})
      BY CancelBlock
    <3>2. actions' = c
      BY <2>3
    <3> HIDE DEF c
    <3>3. Pending(c, 0)
      BY <3>1, PendingNeutral, PendingAlone DEF Without
    <3> QED BY <3>1, <3>2, <3>3, <2>1, QueueReplaced
  <2>4. CASE actions' = NextActions
    <3>1. NextActions \in Seq(SafeAction) /\ Pending(NextActions, 1)
      BY <1>0, SafeNext, NextBlock
    <3>2. Pending(NextActions, 0)
      BY <3>1, PendingAlone
    <3> QED BY <3>1, <3>2, <2>1, <2>4, QueueReplaced
  <2>5. CASE actions' = actions
    BY <2>1, <2>5, <1>0, QueueReplaced
  <2> QED BY <2>2, <2>3, <2>4, <2>5
<1>5. ASSUME NEW i \in Inputs, SwitchToPrimary(i) PROVE DelayedInv'
  <2>1. /\ ExecuteReturns /\ holder' # None /\ UNCHANGED <<curPlugin, opt, inp>>
        /\ PrimaryInput \in Inputs /\ curPlugin # PrimaryInput /\ actions' = PrimarySwitch
    BY <1>5, <1>c DEF SwitchToPrimary, BackOnPrimary, ActionsToPrimary, inputVars, boundVars
  <2>2. PrimarySwitch \in Seq(SafeAction) /\ Pending(PrimarySwitch, 1)
    BY <2>1, <1>0, SafePrimarySwitch, PrimaryBlock
  <2>3. Pending(PrimarySwitch, 0)
    BY <2>2, PendingAlone
  <2> QED BY <2>1, <2>2, <2>3, QueueReplaced
<1>6. CASE Quiet /\ ~Execute
  <2>1. UNCHANGED <<actions, curPlugin, opt>>
    BY <1>6 DEF Quiet
  <2>2. \A i \in Inputs : inp'[i].stop => inp[i].stop
    BY <1>6, RequestSteps DEF RequestsKept, Execute
  <2>3. Pending(actions, 0)'
    BY <1>0, <2>1, <2>2, PendingTransfer
  <2>4. ASSUME holder' = None, actions # <<>> PROVE HeadAct.type \in WaitTypes
    BY <1>6, <2>4 DEF Quiet, Unlock, ExecuteReturns, DelayedInv
  <2>5. HeadAct' = HeadAct
    BY <2>1 DEF HeadAct
  <2>6. inp'[curPlugin].stop => actions # <<>> /\ Is(HeadAct, "START", curPlugin)
    BY <1>0, <2>2 DEF DelayedInv
  <2> QED BY <2>1, <2>3, <2>4, <2>5, <2>6 DEF DelayedInv
<1> QED BY <1>1, <1>2, <1>3, <1>4, <1>5, <1>6, QueueSteps

\* In a delayed switch, the output never sees a current input which was asked to stop, for any
\* number of inputs, whatever switches pile up in the queue of actions.
THEOREM CurrentKept == Spec => []CurrentNotStopped
<1>1. Init => DelayedInv
  <2> SUFFICES ASSUME Init PROVE DelayedInv
    OBVIOUS
  <2>1. actions = <<>> /\ curPlugin \in Inputs /\ ~inp[curPlugin].stop
    BY Constants DEF Init
  <2>2. Pending(actions, 0)
    BY <2>1 DEF Pending
  <2> QED BY <2>1, <2>2 DEF DelayedInv
<1>2. IInv /\ DelayedInv /\ [Next]_vars => DelayedInv'
  BY DelayedStep DEF IInv
<1>3. DelayedInv => CurrentNotStopped
  BY CurrentRuns DEF CurrentNotStopped
<1> QED BY <1>1, <1>2, <1>3, SwitchCorrect, PTL DEF Spec

-----------------------------------------------------------------------------
(***************************************************************************)
(* Default mode: one session at a time.                                    *)
(***************************************************************************)
\* No user action on a default switch: neither a command to switch nor a receive timeout, and no
\* primary input.
Unattended ==
    \A l \in CommandLines : l.mode = "default" =>
        l.commands \subseteq {"quit"} /\ l.timeouts = 0 /\ l.primary = NInputs

\* An input between the start of its session and the report of its end.
Active(i) == pc[i] \in Running \cup {"starting", "inputStarted"}
             \/ (pc[i] = "inputStopped" /\ holder # i)

Switches == {"START", "SET_CURRENT"}

\* The queue starts one input, which is or becomes the current one just before.
StartNext ==
    \E k \in 0 .. (Len(actions) - 1) :
        /\ actions[k + 1].type = "START"
        /\ IF k = 0 THEN actions[1].index = curPlugin
           ELSE Is(actions[k], "SET_CURRENT", actions[k + 1].index)
        /\ \A m \in 1 .. Len(actions) : m # k /\ m # k + 1 => actions[m].type \notin Switches

\* Only the current input is started or active, when no start is pending in the queue.
SessionInv ==
    mode = "default" =>
        /\ \A i \in Inputs : inp[i].start \/ Active(i)
                                => i = curPlugin /\ Without(actions, Switches)
        /\ \A i \in Inputs : ~(inp[i].start /\ Active(i))
        /\ Without(actions, Switches) \/ StartNext
        /\ startAt = 0 => actions = <<>> /\ \A i \in Inputs : ~inp[i].start /\ ~Active(i)
        /\ pc[Dog] = "timer"

\* Without --receive-timeout, the watchdog thread sleeps.
LEMMA DogSleeps ==
    ASSUME Types, [Next]_vars, opt.timeouts = 0, pc[Dog] = "timer"
    PROVE  pc'[Dog] = "timer"
<1>c. /\ Dog \in Threads /\ Inputs \subseteq Threads /\ {Output, Listener, Main} \subseteq Threads
      /\ \A i \in Inputs : i # Dog
      /\ Output # Dog /\ Listener # Dog /\ Main # Dog
  BY Constants DEF Output, Listener, Dog, Main
<1>t. pc \in [Threads -> Labels] /\ nTimeouts \in Nat
  BY Options DEF Types, ThreadTypes, BoundTypes, CoreTypes
<1>s. ASSUME NEW t, NEW next, NEW S, pc' = Signalled(t, next, S), t # Dog \/ next = "timer"
      PROVE  pc'[Dog] = "timer"
  BY <1>s, <1>c, WokenLabels DEF Signalled
<1>g. ASSUME NEW t, NEW next, Goto(t, next), t # Dog PROVE pc'[Dog] = "timer"
  BY <1>g, <1>c, <1>t DEF Goto
<1>p. ASSUME NEW t, NEW success, NEW next, Stop(t, success, next), t # Dog
      PROVE  pc'[Dog] = "timer"
  BY <1>p, <1>s, <1>g DEF Stop, StopCore, StopOutput, StopInputs, StopReturn
<1>1. CASE Execute
  <2>1. CASE pc' = pc
    BY <2>1
  <2>2. CASE pc' = Signalled(holder, pc[holder], {HeadAct.index})
    BY <2>2, <1>s
  <2> QED BY <1>1, <2>1, <2>2
          DEF Execute, ExecStart, ExecStop, ExecAbort, ExecTimeout, ExecNotifCurrent,
              ExecSetCurrent, ExecWait
<1>2. ASSUME NEW i \in Inputs, Input(i) PROVE pc'[Dog] = "timer"
  <2>1. CASE \/ WaitStart(i) \/ PluginStart(i) \/ InputStartedReturn(i) \/ WaitSpace(i)
             \/ PrepareReceive(i) \/ StopRequested(i) \/ Receive(i) \/ EndOfInput(i)
             \/ SwitchToPrimary(i) \/ EndSession(i) \/ InputStoppedReturn(i)
    <3>1. \E next : Goto(i, next)
      BY <2>1 DEF WaitStart, PluginStart, InputStartedReturn, WaitSpace, PrepareReceive,
                  StopRequested, Receive, EndOfInput, SwitchToPrimary, EndSession,
                  InputStoppedReturn
    <3> QED BY <3>1, <1>c, <1>g
  <2>2. CASE InputStarted(i) \/ InputReceived(i) \/ InputStopped(i)
    BY <2>2 DEF InputStarted, InputReceived, InputStopped
  <2>3. CASE InputReceivedReturn(i)
    BY <2>3, <1>c, <1>s DEF InputReceivedReturn
  <2>4. CASE Stop(i, TRUE, "begin")
    BY <2>4, <1>c, <1>p
  <2> QED BY <1>2, <2>1, <2>2, <2>3, <2>4 DEF Input
<1>3. CASE OutputThread
  BY <1>3, <1>c, <1>s, <1>g, <1>p
     DEF OutputThread, OutputLoop, GetOutputArea, OutputCheck, OutputSend
<1>4. CASE CommandListener
  BY <1>4, <1>c, <1>g, <1>p DEF CommandListener, SwitchCommand, SwitchCommandReturn, QuitCommand
<1>5. CASE WatchDog
  BY <1>5, <1>t DEF WatchDog, Expire, HandleWatchDogTimeout, HandleWatchDogReturn
<1>6. CASE CoreStart \/ WaitForTermination
  BY <1>6, <1>c, <1>s, <1>g DEF CoreStart, WaitForTermination
<1>7. CASE UNCHANGED vars
  BY <1>7 DEF vars
<1> QED BY <1>1, <1>2, <1>3, <1>4, <1>5, <1>6, <1>7 DEF Next

\* An input only becomes active when its thread takes a request to start.
LEMMA ActiveSteps ==
    ASSUME Types, [Next]_vars, NEW i \in Inputs, Active(i)'
    PROVE  Active(i) \/ (WaitStart(i) /\ inp[i].start /\ ~inp'[i].start)
<1>c. i \in Threads /\ i # None /\ i \notin {Listener, Dog}
  BY Constants
<1>t. pc \in [Threads -> Labels] /\ inp \in [Inputs -> InputState] /\ inp[i] \in InputState
  BY DEF Types, ThreadTypes, InputTypes
<1>1. CASE Input(i)
  <2>1. CASE WaitStart(i)
    <3> DEFINE this == IF pc[i] = "begin" THEN [inp[i] EXCEPT !.first = 0, !.count = 0]
                       ELSE inp[i]
    <3>0. this.start = inp[i].start /\ this.term = inp[i].term
          /\ [this EXCEPT !.start = FALSE, !.stop = FALSE].start = FALSE
      BY <1>t DEF InputState
    <3> HIDE DEF this
    <3>1. CASE this.start /\ ~this.term
      <4>1. inp' = [inp EXCEPT ![i] = [this EXCEPT !.start = FALSE, !.stop = FALSE]]
        BY <2>1, <3>1 DEF WaitStart, this
      <4>2. inp'[i].start = FALSE
        BY <4>1, <3>0, <1>t
      <4> QED BY <2>1, <3>0, <3>1, <4>2
    <3>2. CASE ~(this.start /\ ~this.term)
      <4>1. pc'[i] \in {"done", "idleW"}
        BY <2>1, <3>2, <1>c, <1>t DEF WaitStart, this, Goto
      <4> QED BY <4>1 DEF Active, Running
    <3> QED BY <3>1, <3>2
  <2>2. CASE InputStopped(i)
    BY <2>2, <1>c DEF InputStopped, Lock, Active
  <2>3. CASE InputStoppedReturn(i) \/ Stop(i, TRUE, "begin")
    <3>1. pc'[i] \in {"stop", "begin"}
      BY <2>3, <1>c, <1>t DEF InputStoppedReturn, Stop, StopCore, StopOutput, StopInputs,
                              StopReturn, Goto, Signalled
    <3> QED BY <3>1 DEF Active, Running
  <2>4. CASE ~WaitStart(i) /\ ~InputStopped(i) /\ ~InputStoppedReturn(i) /\ ~Stop(i, TRUE, "begin")
    <3>1. pc[i] \in Running \cup {"starting", "inputStarted"}
      BY <1>1, <2>4
         DEF Input, PluginStart, InputStarted, InputStartedReturn, WaitSpace, PrepareReceive,
             StopRequested, Receive, EndOfInput, InputReceived, SwitchToPrimary,
             InputReceivedReturn, EndSession, Running
    <3> QED BY <3>1 DEF Active
  <2> QED BY <2>1, <2>2, <2>3, <2>4
<1>2. CASE ~Input(i)
  <2>1. SamePlace(i)
    BY <1>2, OthersStay
  <2>2. holder = i => holder' = i
    <3> SUFFICES ASSUME holder = i PROVE holder' = i
      OBVIOUS
    <3>1. CASE Execute
      BY <3>1, ExecuteEffect
    <3> QED BY <3>1, <1>2, <1>c, QueueSteps
            DEF SwitchCommand, HandleWatchDogTimeout, InputStopped, SwitchToPrimary, Quiet, Lock
  <2> QED BY <2>1, <2>2 DEF Active, SamePlace, Running
<1> QED BY <1>1, <1>2

\* Core::start() advances by one input.
LEMMA StartAtSteps ==
    ASSUME [Next]_vars
    PROVE  startAt' = startAt \/ (CoreStart /\ startAt' = startAt + 1)
<1>s. ASSUME NEW t, NEW success, NEW next, Stop(t, success, next) PROVE startAt' = startAt
  BY <1>s DEF Stop, StopCore, StopOutput, StopInputs, StopReturn, boundVars
<1>1. CASE Execute
  BY <1>1 DEF Execute, ExecStart, ExecStop, ExecAbort, ExecTimeout, ExecNotifCurrent,
              ExecSetCurrent, ExecWait, boundVars
<1>2. ASSUME NEW i \in Inputs, Input(i) PROVE startAt' = startAt
  BY <1>2, <1>s DEF Input, WaitStart, PluginStart, InputStarted, InputStartedReturn, WaitSpace,
         PrepareReceive, StopRequested, Receive, EndOfInput, InputReceived, SwitchToPrimary,
         InputReceivedReturn, EndSession, InputStopped, InputStoppedReturn, boundVars
<1>3. CASE OutputThread
  BY <1>3, <1>s DEF OutputThread, OutputLoop, GetOutputArea, OutputCheck, OutputSend, boundVars
<1>4. CASE CommandListener
  BY <1>4, <1>s DEF CommandListener, SwitchCommand, SwitchCommandReturn, QuitCommand, boundVars
<1>5. CASE WatchDog \/ WaitForTermination \/ UNCHANGED vars
  BY <1>5 DEF WatchDog, Expire, HandleWatchDogTimeout, HandleWatchDogReturn, WaitForTermination,
              vars, boundVars
<1>6. CASE CoreStart
  BY <1>6 DEF CoreStart
<1> QED BY <1>1, <1>2, <1>3, <1>4, <1>5, <1>6 DEF Next

\* The actions of inputStopped() start the next input just after they make it current.
LEMMA NextStarts ==
    ASSUME Types, mode # "fast", actions' = NextActions
    PROVE  StartNext'
<1>1. PICK p \in Seq(SafeAction), f \in Seq(SafeAction) :
         /\ NextActions = p \o f
         /\ Len(p) = 4 /\ Len(f) = 1 /\ f[1].type = "RESTART_TIMEOUT"
         /\ p[1].type = "SUSPEND_TIMEOUT" /\ Is(p[2], "SET_CURRENT", NextPlugin)
         /\ Is(p[3], "START", NextPlugin) /\ p[4].type = "WAIT_STARTED"
  BY NextParts
<1> DEFINE w == p \o f
<1>2. /\ Len(w) = Len(p) + Len(f)
      /\ \A m \in 1 .. Len(p) : w[m] = p[m]
      /\ \A m \in (Len(p) + 1) .. (Len(p) + Len(f)) : w[m] = f[m - Len(p)]
  BY ConcatAt
<1> HIDE DEF w
<1>3. Len(w) = 5 /\ w[1] = p[1] /\ w[2] = p[2] /\ w[3] = p[3] /\ w[4] = p[4] /\ w[5] = f[1]
  <2>1. /\ Len(w) = 5 /\ \A m \in 1 .. 4 : w[m] = p[m]
        /\ \A m \in 5 .. 5 : w[m] = f[m - 4]
    BY <1>1, <1>2
  <2>2. 1 \in 1 .. 4 /\ 2 \in 1 .. 4 /\ 3 \in 1 .. 4 /\ 4 \in 1 .. 4 /\ 5 \in 5 .. 5 /\ 5 - 4 = 1
    OBVIOUS
  <2> QED BY <2>1, <2>2
<1>4. actions' = w
  BY <1>1 DEF w
<1>5. ASSUME NEW m \in 1 .. 5, m # 2, m # 3 PROVE w[m].type \notin Switches
  <2>1. m = 1 \/ m = 4 \/ m = 5
    BY <1>5
  <2> QED BY <2>1, <1>1, <1>3 DEF Switches
<1>6. w[3].type = "START" /\ Is(w[2], "SET_CURRENT", w[3].index)
  BY <1>1, <1>3 DEF Is
<1>7. /\ 2 \in 0 .. (Len(actions') - 1) /\ 2 + 1 = 3 /\ Len(actions') = 5
  <2>1. Len(actions') = 5
    BY Zenon, <1>3, <1>4
  <2> QED BY <2>1
<1> QED BY <1>4, <1>5, <1>6, <1>7 DEF StartNext

\* Executing the queue keeps the sessions in order.
LEMMA ExecuteSession ==
    ASSUME Types, SessionInv, mode = "default", Execute
    PROVE  /\ \A i \in Inputs : inp'[i].start \/ Active(i)'
                                   => i = curPlugin' /\ Without(actions, Switches)'
           /\ \A i \in Inputs : ~(inp'[i].start /\ Active(i)')
           /\ Without(actions, Switches)' \/ StartNext'
           /\ startAt' # 0
<1> DEFINE a == actions
           b == actions'
           L == Len(actions)
<1>0. /\ L \in Nat /\ L >= 1 /\ Len(b) = L - 1
      /\ \A m \in 1 .. Len(b) : b[m] = a[m + 1]
  BY ExecuteEffect
<1>1. curPlugin' = IF a[1].type = "SET_CURRENT" THEN a[1].index ELSE curPlugin
  BY ExecuteEffect
<1>2. \A i \in Inputs : inp'[i].start => inp[i].start \/ Is(a[1], "START", i)
  BY ExecuteEffect
<1>3. \A i \in Inputs : Active(i)' => Active(i)
  <2>1. \A i \in Inputs : ~WaitStart(i)
    <3>1. b # a
      BY <1>0
    <3> QED BY <3>1 DEF WaitStart, coreVars
  <2>2. [Next]_vars
    BY DEF Next
  <2> QED BY <2>1, <2>2, ActiveSteps
<1>4. startAt # 0 /\ startAt' = startAt
  <2>1. a # <<>>
    BY <1>0
  <2> QED BY <2>1 DEF SessionInv, Execute, ExecStart, ExecStop, ExecAbort, ExecTimeout,
                      ExecNotifCurrent, ExecSetCurrent, ExecWait, boundVars
<1>5. /\ \A i \in Inputs : inp[i].start \/ Active(i) => i = curPlugin /\ Without(a, Switches)
      /\ \A i \in Inputs : ~(inp[i].start /\ Active(i))
      /\ Without(a, Switches) \/ StartNext
  BY DEF SessionInv
<1> HIDE DEF b
<1>w. ASSUME \A m \in 1 .. Len(b) : b[m].type \notin Switches PROVE Without(actions, Switches)'
  BY <1>w DEF Without, b
<1>6. CASE Without(a, Switches)
  <2>1. \A m \in 1 .. L : a[m].type \notin Switches
    BY <1>6 DEF Without
  <2>2. \A m \in 1 .. Len(b) : b[m].type \notin Switches
    BY <2>1, <1>0
  <2>3. a[1].type # "SET_CURRENT" /\ a[1].type # "START"
    BY <2>1, <1>0 DEF Switches
  <2>4. curPlugin' = curPlugin /\ \A i \in Inputs : inp'[i].start => inp[i].start
    BY <2>3, <1>1, <1>2 DEF Is
  <2> QED BY <2>2, <2>4, <1>w, <1>3, <1>4, <1>5
<1>7. CASE ~Without(a, Switches)
  <2>1. \A i \in Inputs : ~inp[i].start /\ ~Active(i)
    BY <1>5, <1>7
  <2>2. PICK k \in 0 .. (L - 1) :
          /\ a[k + 1].type = "START"
          /\ IF k = 0 THEN a[1].index = curPlugin
             ELSE Is(a[k], "SET_CURRENT", a[k + 1].index)
          /\ \A m \in 1 .. L : m # k /\ m # k + 1 => a[m].type \notin Switches
    BY <1>5, <1>7 DEF StartNext
  <2>3. CASE k = 0
    <3>1. \A m \in 1 .. Len(b) : b[m].type \notin Switches
      BY <2>2, <2>3, <1>0
    <3>2. curPlugin' = curPlugin /\ a[1].index = curPlugin
      BY <2>2, <2>3, <1>1
    <3>3. \A i \in Inputs : inp'[i].start => i = curPlugin
      BY <2>1, <3>2, <1>2 DEF Is
    <3> QED BY <2>1, <3>1, <3>2, <3>3, <1>w, <1>3, <1>4
  <2>4. CASE k > 0
    <3>1. a[1].type # "START"
      BY <2>2, <2>4, <1>0 DEF Is, Switches
    <3>2. \A i \in Inputs : ~inp'[i].start /\ ~Active(i)'
      BY <3>1, <2>1, <1>2, <1>3 DEF Is
    <3>3. /\ k - 1 \in 0 .. (Len(b) - 1) /\ (k - 1) + 1 = k /\ k \in 1 .. Len(b)
      BY <2>4, <1>0
    <3>4. b[k] = a[k + 1]
      BY <3>3, <1>0
    <3>5. IF k - 1 = 0 THEN b[1].index = curPlugin'
          ELSE Is(b[k - 1], "SET_CURRENT", b[k].index)
      <4>1. CASE k = 1
        BY <4>1, <2>2, <3>4, <1>1 DEF Is
      <4>2. CASE k > 1
        <5>1. k - 1 \in 1 .. Len(b)
          BY <4>2, <3>3
        <5>2. b[k - 1] = a[k]
          BY <5>1, <3>3, <1>0
        <5> QED BY <4>2, <5>2, <3>4, <2>2
      <4> QED BY <4>1, <4>2, <2>4
    <3>6. \A m \in 1 .. Len(b) : m # k - 1 /\ m # k => b[m].type \notin Switches
      BY <2>2, <1>0
    <3>7. StartNext'
      BY <3>3, <3>4, <3>5, <3>6, <2>2 DEF StartNext, b
    <3> QED BY <3>2, <3>7, <1>4
  <2> QED BY <2>2, <2>3, <2>4
<1> QED BY <1>6, <1>7

\* Each step keeps the sessions in order.
LEMMA SessionStep ==
    ASSUME Unattended, Types, SessionInv, [Next]_vars
    PROVE  SessionInv'
<1>m. opt' = opt /\ mode' = mode
  BY OptionsKept DEF mode
<1> SUFFICES ASSUME mode = "default" PROVE SessionInv'
  BY <1>m DEF SessionInv
<1>o. /\ opt.commands \subseteq {"quit"} /\ opt.timeouts = 0 /\ PrimaryInput = NInputs
      /\ PrimaryInput \notin Inputs /\ opt \in CommandLines
  <2>1. opt \in CommandLines
    BY DEF Types, CoreTypes
  <2>2. opt.commands \subseteq {"quit"} /\ opt.timeouts = 0 /\ opt.primary = NInputs
    BY <2>1 DEF Unattended, mode
  <2> QED BY <2>1, <2>2, Constants DEF PrimaryInput, Output
<1>d. pc[Dog] = "timer" /\ pc'[Dog] = "timer"
  BY <1>o, DogSleeps DEF SessionInv
<1>i. /\ \A i \in Inputs : inp[i].start \/ Active(i)
                              => i = curPlugin /\ Without(actions, Switches)
      /\ \A i \in Inputs : ~(inp[i].start /\ Active(i))
      /\ Without(actions, Switches) \/ StartNext
      /\ startAt = 0 => actions = <<>> /\ \A i \in Inputs : ~inp[i].start /\ ~Active(i)
  BY DEF SessionInv
<1>1. CASE Execute
  <2>1. /\ \A i \in Inputs : inp'[i].start \/ Active(i)'
                                => i = curPlugin' /\ Without(actions, Switches)'
        /\ \A i \in Inputs : ~(inp'[i].start /\ Active(i)')
        /\ Without(actions, Switches)' \/ StartNext'
        /\ startAt' # 0
    BY <1>1, ExecuteSession
  <2> QED BY <2>1, <1>d DEF SessionInv
<1>2. ~(\E cmd \in opt.commands : SwitchCommand(cmd)) /\ ~HandleWatchDogTimeout
  BY <1>o, <1>d DEF SwitchCommand, HandleWatchDogTimeout
<1>3. ~ \E i \in Inputs : SwitchToPrimary(i)
  BY <1>o DEF SwitchToPrimary, BackOnPrimary
<1>4. ASSUME NEW i \in Inputs, InputStopped(i) PROVE SessionInv'
  <2>1. /\ holder = None /\ holder' = i /\ pc[i] = "inputStopped" /\ pc' = pc /\ inp' = inp
        /\ curPlugin' = curPlugin /\ startAt' = startAt
    BY <1>4 DEF InputStopped, Lock, inputVars, boundVars
  <2>2. Active(i) /\ ~Active(i)'
    BY <2>1, Constants DEF Active, Running
  <2>3. i = curPlugin /\ Without(actions, Switches) /\ startAt # 0
    BY <2>2, <1>i
  <2>4. \A j \in Inputs : ~inp'[j].start /\ ~Active(j)'
    <3>1. ASSUME NEW j \in Inputs PROVE ~inp'[j].start /\ ~Active(j)'
      <4>1. CASE j = i
        BY <4>1, <2>1, <2>2, <1>i
      <4>2. CASE j # i
        <5>1. ~inp[j].start /\ ~Active(j)
          BY <4>2, <2>3, <1>i
        <5>2. Active(j)' => Active(j) \/ (inp[j].start /\ ~inp'[j].start)
          BY ActiveSteps
        <5> QED BY <5>1, <5>2, <2>1
      <4> QED BY <4>1, <4>2
    <3> QED BY <3>1
  <2>5. Without(actions, Switches)' \/ StartNext'
    <3>1. \/ actions' = <<Suspend>> \o CancelActionsBut("WAIT_STOPPED")
          \/ actions' = NextActions
          \/ actions' = actions
      BY <1>4 DEF InputStopped, NextActions
    <3>2. CASE actions' = <<Suspend>> \o CancelActionsBut("WAIT_STOPPED")
      <4> DEFINE c == <<Suspend>> \o CancelActionsBut("WAIT_STOPPED")
      <4>1. Without(c, {"START", "STOP", "SET_CURRENT"})
        BY CancelBlock
      <4>2. actions' = c
        BY <3>2
      <4> HIDE DEF c
      <4> QED BY <4>1, <4>2 DEF Without, Switches
    <3>3. CASE actions' = NextActions
      BY <3>3, NextStarts
    <3>4. CASE actions' = actions
      BY <3>4, <2>3 DEF Without
    <3> QED BY <3>1, <3>2, <3>3, <3>4
  <2> QED BY <2>1, <2>3, <2>4, <2>5, <1>d DEF SessionInv
<1>5. CASE Quiet /\ ~Execute
  <2>1. UNCHANGED <<actions, curPlugin, opt>>
    BY <1>5 DEF Quiet
  <2>2. Without(actions, Switches)' <=> Without(actions, Switches)
    BY <2>1 DEF Without
  <2>3. StartNext' <=> StartNext
    BY <2>1 DEF StartNext
  <2>4. ASSUME CoreStart, NEW i \in StartTargets
        PROVE  startAt = 0 /\ i = curPlugin /\ startAt' # 0
    <3>1. startAt = 0 => startAt' # 0 /\ StartTargets = {curPlugin}
      <4>1. startAt = 0 => startAt' = 1
        <5>1. startAt' = startAt + 1
          BY Zenon, <2>4 DEF CoreStart
        <5> QED BY <5>1
      <4>2. startAt = 0 => StartTargets = {curPlugin}
        BY DEF StartTargets
      <4> QED BY <4>1, <4>2
    <3>2. startAt # 0 => StartTargets = {}
      BY <1>o DEF StartTargets
    <3> QED BY <2>4, <3>1, <3>2
  <2>5. ASSUME NEW i \in Inputs, inp'[i].start
        PROVE  \/ inp[i].start
               \/ startAt = 0 /\ startAt' # 0 /\ i = curPlugin
    BY <1>5, <2>4, <2>5, RequestSteps DEF RequestsKept, Execute
  <2>6. ASSUME NEW i \in Inputs, Active(i)'
        PROVE  Active(i) \/ (inp[i].start /\ ~inp'[i].start)
    BY <2>6, ActiveSteps
  <2>7. ASSUME NEW i \in Inputs, inp'[i].start \/ Active(i)'
        PROVE  i = curPlugin /\ Without(actions, Switches)
    <3>1. inp[i].start \/ Active(i) \/ (startAt = 0 /\ i = curPlugin)
      BY <2>5, <2>6, <2>7
    <3>2. startAt = 0 => Without(actions, Switches)
      <4>1. Without(<<>>, Switches)
        BY DEF Without
      <4> QED BY <4>1, <1>i
    <3> QED BY <3>1, <3>2, <1>i
  <2>8. ASSUME NEW i \in Inputs, inp'[i].start, Active(i)' PROVE FALSE
    <3>1. Active(i)
      BY <2>6, <2>8
    <3>2. startAt # 0 /\ ~inp[i].start
      BY <3>1, <1>i
    <3> QED BY <2>5, <2>8, <3>2
  <2>9. ASSUME startAt' = 0
        PROVE  actions = <<>> /\ \A i \in Inputs : ~inp'[i].start /\ ~Active(i)'
    <3>0. startAt \in Nat
      BY <1>o, Constants DEF Types, BoundTypes, StartSteps
    <3>1. startAt = 0
      BY <2>9, <3>0, StartAtSteps
    <3>2. actions = <<>> /\ \A i \in Inputs : ~inp[i].start /\ ~Active(i)
      BY <3>1, <1>i
    <3> QED BY <3>2, <2>5, <2>6, <2>9
  <2> QED BY <2>1, <2>2, <2>3, <2>7, <2>8, <2>9, <1>i, <1>d DEF SessionInv
<1> QED BY <1>1, <1>2, <1>3, <1>4, <1>5, QueueSteps

\* In default mode, without a command to switch, a receive timeout or a primary input, at most
\* one input has a session at a time: the next input of the cycle is only started when the
\* previous one has really ended, for any number of inputs, failed starts included.
THEOREM OneSession ==
    ASSUME Unattended
    PROVE  Spec => []SingleSession
<1>1. Init => SessionInv
  <2> SUFFICES ASSUME Init PROVE SessionInv
    OBVIOUS
  <2>1. /\ actions = <<>> /\ \A i \in Inputs : ~inp[i].start /\ pc[i] = "begin"
    BY Constants DEF Init
  <2>2. pc[Dog] = "timer"
    <3>1. Dog \in Threads /\ Dog \notin Inputs /\ Dog # Output /\ Dog # Listener /\ Dog # Main
      BY Constants DEF Dog, Listener, Main
    <3>2. pc[Dog] = CASE Dog \in Inputs -> "begin" [] Dog = Output -> "top"
                      [] Dog = Listener -> "listen" [] Dog = Dog -> "timer"
                      [] Dog = Main -> "start"
      BY <3>1 DEF Init
    <3> QED BY <3>1, <3>2
  <2>3. Without(<<>>, Switches)
    BY DEF Without
  <2>4. \A i \in Inputs : ~Active(i)
    BY <2>1 DEF Active, Running
  <2> QED BY <2>1, <2>2, <2>3, <2>4 DEF SessionInv
<1>2. IInv /\ SessionInv /\ [Next]_vars => SessionInv'
  BY SessionStep DEF IInv
<1>3. SessionInv => SingleSession
  <2>1. \A i \in Inputs : InSession(i) => Active(i)
    BY DEF InSession, Active, Running
  <2> QED BY <2>1 DEF SessionInv, SingleSession
<1> QED BY <1>1, <1>2, <1>3, SwitchCorrect, PTL DEF Spec

=============================================================================

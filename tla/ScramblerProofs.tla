-------------------------- MODULE ScramblerProofs --------------------------
(***************************************************************************)
(* Proofs about the scrambler plugin over its ECMG client: which responses *)
(* can still come for which CryptoPeriod object, when the ECM's are ready, *)
(* and in which order the transitions of a crypto-period are done.         *)
(***************************************************************************)
EXTENDS Scrambler, SequenceTheorems, TLAPS

Slots == {0, 1}
Numbers == 0 .. (CpModulus - 1)

-----------------------------------------------------------------------------
(***************************************************************************)
(* Types.                                                                  *)
(***************************************************************************)
\* Labels of the application thread, up to the first call to the client and from start() on.
StartLabels == {"connect", "open", "connecting", "channelReply", "streamSetup", "streamReply",
                "established", "abortConnection", "connected", "connectFailed"}
PacketLabels == {"packet", "changeCW", "changeECM", "insert"}
ReturnLabels == PacketLabels \cup {"started"}
SyncLabels == {"generate", "ecmReply", "gotECM"}
AsyncLabels == {"submit", "submitSend", "submitFailed"}
EndLabels == {"stop", "closeStream", "closeReply", "closeChannel", "disconnect", "destroy", "join",
              "done"}

\* generateECM() has not returned.
GenLabels == SyncLabels \cup AsyncLabels \cup {"genFailed"}

RequestTags == {"channel_setup", "stream_setup", "CW_provision", "stream_close_request",
                "channel_close", "status"}
ReplyTags == {"channel_status", "stream_status", "ECM_response", "stream_close_response", "test",
              "error", "none"}

Requests == [tag : RequestTags, cp : Nat, cws : Seq(Nat)]
Replies == [tag : ReplyTags, cp : Nat, cws : Seq(Nat)]

SlotTypes ==
    /\ cp \in [Slots -> [num : Numbers, ok : BOOLEAN, ecm : Seq(Nat), cw : Nat, next : Nat]]
    /\ draws \in Nat
    /\ genSlot \in Slots /\ currentCW \in Slots /\ currentECM \in Slots
    /\ degraded \in BOOLEAN /\ first \in BOOLEAN /\ abort \in BOOLEAN

ClientTypes ==
    /\ requests \in Seq(Requests)
    /\ inbox \in Seq(Replies) /\ queue \in Seq(Replies)
    /\ rmsg \in Replies /\ reply \in Replies
    /\ link \in {"closed", "up", "eof"}
    /\ async \subseteq Numbers \X Slots
    /\ handler \in Slots
    /\ rpc \in {"none", "wait", "asleep", "receive", "dispatch", "handle", "enqueue", "error",
                "done"}

\* The second label tells how far start() went.
LabelTypes ==
    /\ sync \in BOOLEAN /\ delay \in Delays
    /\ ret \in {"connect", "initNext"} \cup ReturnLabels
    /\ apc \in StartLabels \cup {"initNext"} \cup ReturnLabels \cup GenLabels \cup EndLabels
    /\ apc \in StartLabels => ret = "connect"
    /\ ret = "connect" => apc \in StartLabels \cup EndLabels
    /\ apc = "initNext" => ret = "initNext"
    /\ ret = "initNext" => apc \in GenLabels \cup {"initNext"}
    /\ sync => apc \notin AsyncLabels
    /\ ~sync => apc \notin SyncLabels

Types == SlotTypes /\ ClientTypes /\ LabelTypes

-----------------------------------------------------------------------------
(***************************************************************************)
(* The requests for ECM's and their responses.                             *)
(***************************************************************************)
\* Both objects have been initialized.
Both == ret \in ReturnLabels

IsECM(m) == m.tag \in {"CW_provision", "ECM_response"}

\* The content of a message, or of a list of messages, which is about an ECM.
Mine(m) == IF IsECM(m) THEN {<<m.cp, m.cws>>} ELSE {}
Ecms(s) == UNION {Mine(s[p]) : p \in 1 .. Len(s)}

\* From the ECMG to the plugin: messages which are queued, in the hands of the receiver thread,
\* in transit, and not yet processed by the ECMG.
Flow == Ecms(queue) \cup Mine(rmsg) \cup Ecms(inbox) \cup Ecms(requests)

\* Two messages are in the flow at the same time only at start, for the first two objects.
InOrder(s) ==
    \A p, q \in 1 .. Len(s) : p < q /\ IsECM(s[p]) /\ IsECM(s[q]) => s[p].cp = 0 /\ s[q].cp = 1

Before(X, Y) == \A x \in X, y \in Y : x[1] = 0 /\ y[1] = 1

OrderInv ==
    /\ InOrder(queue) /\ InOrder(inbox) /\ InOrder(requests)
    /\ Before(Ecms(queue), Mine(rmsg)) /\ Before(Ecms(queue), Ecms(inbox))
    /\ Before(Ecms(queue), Ecms(requests)) /\ Before(Mine(rmsg), Ecms(inbox))
    /\ Before(Mine(rmsg), Ecms(requests)) /\ Before(Ecms(inbox), Ecms(requests))

Matches(x, k) == x = <<cp[k].num, <<cp[k].cw, cp[k].next>>>>

\* Object k may still get an ECM: it is the next one or, at start, the first one.
Awaits(k) ==
    /\ currentCW = currentECM /\ ~cp[k].ok
    /\ k = currentCW => k = 0 /\ cp[0].num = 0
    /\ ~Both => ret = "initNext" /\ k = 0

\* What is in the flow is the request of an object for its control words.
FlowInv ==
    \A x \in Flow : \E k \in Slots :
        /\ Matches(x, k) /\ Awaits(k)
        /\ sync => apc = "ecmReply" /\ k = genSlot
        /\ ~sync => \/ <<x[1], k>> \in async
                    \/ rpc = "handle" /\ x \in Mine(rmsg) /\ handler = k
        /\ apc \in {"generate"} \cup AsyncLabels => k # genSlot

\* A plugin which aborts in synchronous mode no longer matches its responses.
Valid == ~(sync /\ (abort \/ apc = "genFailed"))

AsyncInv ==
    /\ \A r \in async : /\ r[1] = cp[r[2]].num /\ Awaits(r[2])
                        /\ apc = "submit" => r[2] # genSlot
    /\ rpc = "handle" => /\ rmsg.tag = "ECM_response" /\ Matches(<<rmsg.cp, rmsg.cws>>, handler)
                         /\ Awaits(handler) /\ \A r \in async : r[2] # handler
    /\ apc = "submitSend" => <<cp[genSlot].num, genSlot>> \in async
    /\ sync => async = {} /\ rpc # "handle"
    /\ ~sync /\ apc \in {"submitFailed", "genFailed"} => link # "up"
    /\ ~sync => Ecms(queue) = {} /\ (rpc = "enqueue" => Mine(rmsg) = {})
    /\ rpc \notin {"dispatch", "handle", "enqueue"} => Mine(rmsg) = {}

\* The object in generateECM() is the next one or, at start, the first one.
GenInv ==
    /\ apc \in GenLabels \ {"genFailed"} =>
          Awaits(genSlot) /\ (ret # "initNext" => genSlot = 1 - currentCW)
    /\ apc = "gotECM" /\ ~abort =>
          Matches(<<reply.cp, reply.cws>>, genSlot) /\ reply.tag = "ECM_response" /\ Flow = {}

Follows(j, k) == cp[j].num = (cp[k].num + 1) % CpModulus /\ cp[j].cw = cp[k].next

\* The two objects are consecutive crypto-periods.
LinkInv ==
    /\ Both /\ currentCW = currentECM => Follows(1 - currentCW, currentCW)
    /\ Both /\ currentCW # currentECM =>
          Follows(currentCW, currentECM) \/ Follows(currentECM, currentCW)
    /\ ~Both => /\ currentCW = 0 /\ currentECM = 0 /\ first /\ ~cp[1].ok
                /\ ret = "initNext" => cp[0].num = 0
                /\ ret = "connect" => ~cp[0].ok /\ ~abort

\* An ECM which is ready has the control words of its object.
ContentInv == \A k \in Slots : cp[k].ok => cp[k].ecm = <<cp[k].cw, cp[k].next>>

Flying(k) == \E x \in Flow : x[1] = cp[k].num

\* Object k no longer waits for a response.
Settled(k) == (cp[k].ok \/ abort) /\ \A r \in async : r[2] # k

\* The response to the second request does not come before the response to the first one.
FifoInv ==
    /\ ~sync /\ ret = "initNext" /\ apc \notin {"submit", "submitSend"} /\ link = "up" =>
          Settled(0) \/ Flying(0)
    /\ ~sync /\ Both /\ currentCW = currentECM /\ (link = "up" \/ Flying(1 - currentCW)) =>
          Settled(currentCW) \/ Flying(currentCW)

\* When the next ECM is ready, so are the current ones.
ReadyInv ==
    /\ Both /\ currentCW = currentECM /\ cp[1 - currentCW].ok /\ Valid =>
          /\ cp[currentCW].ok \/ abort
          /\ Flow = {} /\ async = {}
    /\ Both /\ ~abort /\ (currentCW # currentECM \/ ~first) => cp[currentCW].ok /\ cp[currentECM].ok
    /\ sync /\ ~abort /\ Both => cp[currentCW].ok
    /\ sync /\ ~abort /\ apc = "initNext" => cp[0].ok

MatchInv == Valid => OrderInv /\ FlowInv /\ ContentInv

IInv == Types /\ MatchInv /\ AsyncInv /\ GenInv /\ LinkInv /\ FifoInv /\ ReadyInv

-----------------------------------------------------------------------------
(***************************************************************************)
(* The transitions of a crypto-period, when the PMT does not change.       *)
(***************************************************************************)
\* The transition which comes first in a crypto-period and the other one.
Lead == IF delay < 0 THEN ecmIn ELSE cwIn
Lag == IF delay < 0 THEN cwIn ELSE ecmIn
Gap == IF delay = 0 THEN 1 ELSE Abs(delay)

\* The label of processPacket() to which generateECM() returns.
Place == IF apc \in GenLabels THEN ret ELSE apc

\* Both transitions of the last crypto-period are done.
TogetherTimes ==
    /\ Lead + Abs(delay) <= Lag /\ Lag <= Lead + Gap
    /\ Place \in {"packet", "insert"} => Lead > 0
    /\ Place = "changeECM" /\ delay >= 0 => Lead > 0

\* Only the transition which comes first is done.
ApartTimes ==
    /\ Lag + (CpDuration - Gap) <= Lead /\ Lead <= Lag + (CpDuration - Abs(delay))
    /\ Place \in {"packet", "insert"} => Lag > 0 \/ Lead = CpDuration
    /\ Place = "changeECM" /\ delay < 0 => Lag > 0
    /\ IF delay < 0 THEN Follows(currentECM, currentCW) ELSE Follows(currentCW, currentECM)

TimeTypes ==
    /\ cwIn \in Nat /\ ecmIn \in Nat /\ pmts \in 0 .. 1
    /\ ~Both \/ Place = "started" => pmts = 0
    /\ pmts = 0 => /\ currentCW = currentECM /\ ~degraded
                   /\ Place \notin {"changeCW", "changeECM", "insert"}

TimeInv ==
    /\ TimeTypes
    /\ ~abort /\ Both /\ apc \notin EndLabels =>
          /\ degraded => currentCW = currentECM
          /\ pmts > 0 /\ currentCW = currentECM /\ ~degraded => TogetherTimes
          /\ pmts > 0 /\ currentCW # currentECM => ApartTimes

-----------------------------------------------------------------------------
(***************************************************************************)
(* Lists of messages.                                                      *)
(***************************************************************************)
\* An empty list.
LEMMA EcmsEmpty == Ecms(<<>>) = {} /\ InOrder(<<>>)
  BY DEF Ecms, InOrder

\* A message at the end of a list.
LEMMA EcmsAppend ==
    ASSUME NEW S, NEW s \in Seq(S), NEW m \in S
    PROVE  /\ Ecms(Append(s, m)) = Ecms(s) \cup Mine(m)
           /\ InOrder(s) /\ Before(Ecms(s), Mine(m)) => InOrder(Append(s, m))
<1> DEFINE t == Append(s, m)
           L == Len(s)
<1>1. /\ L \in Nat /\ Len(t) = L + 1 /\ t[L + 1] = m
      /\ \A p \in 1 .. L : t[p] = s[p]
  BY AppendProperties, LenProperties
<1>2. \A x : x \in Ecms(s) <=> \E p \in 1 .. L : x \in Mine(s[p])
  BY DEF Ecms
<1>3. \A x : x \in Ecms(t) <=> \E p \in 1 .. (L + 1) : x \in Mine(t[p])
  BY <1>1 DEF Ecms
<1> HIDE DEF t, L
<1>4. \A p : p \in 1 .. (L + 1) <=> p \in 1 .. L \/ p = L + 1
  BY <1>1
<1>5. Ecms(t) = Ecms(s) \cup Mine(m)
  <2>1. ASSUME NEW x PROVE x \in Ecms(t) <=> x \in Ecms(s) \/ x \in Mine(m)
    BY <1>1, <1>2, <1>3, <1>4
  <2> QED BY <2>1
<1>6. ASSUME InOrder(s), Before(Ecms(s), Mine(m)) PROVE InOrder(t)
  <2> SUFFICES ASSUME NEW p \in 1 .. (L + 1), NEW q \in 1 .. (L + 1), p < q, IsECM(t[p]), IsECM(t[q])
               PROVE  t[p].cp = 0 /\ t[q].cp = 1
    BY <1>1 DEF InOrder
  <2>1. p \in 1 .. L /\ t[p] = s[p]
    BY <1>1
  <2>2. CASE q \in 1 .. L
    BY <1>1, <1>6, <2>1, <2>2 DEF InOrder, L
  <2>3. CASE q = L + 1
    <3>1. t[q] = m /\ <<m.cp, m.cws>> \in Mine(m)
      BY <1>1, <2>3 DEF Mine
    <3>2. <<s[p].cp, s[p].cws>> \in Ecms(s)
      BY <1>2, <2>1 DEF Mine
    <3> QED BY <1>6, <2>1, <3>1, <3>2 DEF Before
  <2> QED BY <1>4, <2>2, <2>3
<1> QED BY <1>5, <1>6 DEF t

\* The first message of a list and the others.
LEMMA EcmsTail ==
    ASSUME NEW S, NEW s \in Seq(S), s # <<>>
    PROVE  /\ Ecms(s) = Mine(Head(s)) \cup Ecms(Tail(s))
           /\ InOrder(s) => InOrder(Tail(s)) /\ Before(Mine(Head(s)), Ecms(Tail(s)))
           /\ Head(s) \in S /\ Tail(s) \in Seq(S)
<1> DEFINE t == Tail(s)
           L == Len(t)
<1>1. /\ t \in Seq(S) /\ Len(s) = L + 1 /\ L \in Nat /\ Head(s) = s[1] /\ Head(s) \in S
      /\ \A p \in 1 .. L : t[p] = s[p + 1]
  <2>1. t \in Seq(S) /\ Len(t) = Len(s) - 1 /\ \A p \in 1 .. Len(t) : t[p] = s[p + 1]
    BY HeadTailProperties
  <2>2. Len(s) \in Nat /\ Len(s) # 0 /\ Len(t) \in Nat
    BY <2>1, LenProperties, EmptySeq
  <2> QED BY <2>1, <2>2, HeadTailProperties
<1>2. \A x : x \in Ecms(t) <=> \E p \in 1 .. L : x \in Mine(t[p])
  BY DEF Ecms
<1>3. \A x : x \in Ecms(s) <=> \E p \in 1 .. (L + 1) : x \in Mine(s[p])
  BY <1>1 DEF Ecms
<1> HIDE DEF t, L
<1>4. \A p : p \in 1 .. (L + 1) <=> p = 1 \/ \E q \in 1 .. L : p = q + 1
  <2>1. ASSUME NEW p \in 1 .. (L + 1) PROVE p = 1 \/ \E q \in 1 .. L : p = q + 1
    <3>1. p = 1 \/ (p - 1 \in 1 .. L /\ p = (p - 1) + 1)
      BY <1>1
    <3> QED BY <3>1
  <2>2. 1 \in 1 .. (L + 1) /\ \A q \in 1 .. L : q + 1 \in 1 .. (L + 1)
    BY <1>1
  <2> QED BY <2>1, <2>2
<1>5. Ecms(s) = Mine(Head(s)) \cup Ecms(t)
  <2>1. ASSUME NEW x \in Ecms(s) PROVE x \in Mine(Head(s)) \/ x \in Ecms(t)
    <3>1. PICK p \in 1 .. (L + 1) : x \in Mine(s[p])
      BY <1>3
    <3>2. CASE p = 1
      BY <1>1, <3>1, <3>2
    <3>3. CASE \E q \in 1 .. L : p = q + 1
      BY <1>1, <1>2, <3>1, <3>3
    <3> QED BY <1>4, <3>2, <3>3
  <2>2. ASSUME NEW x \in Mine(Head(s)) PROVE x \in Ecms(s)
    BY <1>1, <1>3, <1>4, <2>2
  <2>3. ASSUME NEW x \in Ecms(t) PROVE x \in Ecms(s)
    <3>1. PICK q \in 1 .. L : x \in Mine(t[q])
      BY <1>2
    <3>2. t[q] = s[q + 1] /\ q + 1 \in 1 .. (L + 1)
      BY <1>1
    <3> QED BY <1>3, <3>1, <3>2
  <2> QED BY <2>1, <2>2, <2>3
<1>6. ASSUME InOrder(s) PROVE InOrder(t) /\ Before(Mine(Head(s)), Ecms(t))
  <2>1. \A p \in 1 .. L : p + 1 \in 1 .. (L + 1) /\ 1 < p + 1
    BY <1>1
  <2>2. InOrder(t)
    <3> SUFFICES ASSUME NEW p \in 1 .. L, NEW q \in 1 .. L, p < q, IsECM(t[p]), IsECM(t[q])
                 PROVE  t[p].cp = 0 /\ t[q].cp = 1
      BY DEF InOrder, L
    <3>1. p + 1 < q + 1 /\ t[p] = s[p + 1] /\ t[q] = s[q + 1]
      BY <1>1
    <3> QED BY <1>1, <1>6, <2>1, <3>1 DEF InOrder
  <2>3. ASSUME NEW x \in Mine(s[1]), NEW y \in Ecms(t) PROVE x[1] = 0 /\ y[1] = 1
    <3>1. PICK q \in 1 .. L : y \in Mine(t[q])
      BY <1>2
    <3>2. t[q] = s[q + 1] /\ 1 \in 1 .. (L + 1)
      BY <1>1
    <3>3. IsECM(s[1]) /\ x = <<s[1].cp, s[1].cws>> /\ IsECM(s[q + 1])
          /\ y = <<s[q + 1].cp, s[q + 1].cws>>
      BY <2>3, <3>1, <3>2 DEF Mine
    <3>4. s[1].cp = 0 /\ s[q + 1].cp = 1
      BY <1>1, <1>6, <2>1, <3>2, <3>3 DEF InOrder
    <3> QED BY <3>3, <3>4
  <2> QED BY <1>1, <2>2, <2>3 DEF Before
<1> QED BY <1>1, <1>5, <1>6 DEF t

\* The other messages of the client and of the ECMG.
LEMMA SimpleMessages ==
    /\ \A tag \in RequestTags : Simple(tag) \in Requests
    /\ \A tag \in ReplyTags : Simple(tag) \in Replies
    /\ \A tag \in (RequestTags \cup ReplyTags) \ {"CW_provision", "ECM_response"} :
          Mine(Simple(tag)) = {}
    /\ NoMessage \in Replies /\ Mine(NoMessage) = {}
<1>1. <<>> \in Seq(Nat)
  OBVIOUS
<1> QED BY <1>1 DEF Simple, Message, Requests, Replies, Mine, IsECM, NoMessage, RequestTags, ReplyTags

-----------------------------------------------------------------------------
(***************************************************************************)
(* Type correctness.                                                       *)
(***************************************************************************)
\* What the proofs use of the constants.
LEMMA Constants ==
    /\ CpModulus \in Nat /\ CpModulus >= 4 /\ CpDuration \in Nat /\ CpDuration >= 1
    /\ 0 \in Numbers /\ 1 \in Numbers
    /\ \A n \in Numbers : n \in Nat /\ (n + 1) % CpModulus \in Numbers
  BY ScramblerAssumption DEF Numbers

\* send() only appends a message to the requests.
LEMMA SentTypes ==
    ASSUME ClientTypes, NEW m \in Requests, NEW ok \in BOOLEAN, Sent(m, ok)
    PROVE  /\ requests' = requests \/ (link = "up" /\ ok /\ requests' = Append(requests, m))
           /\ link # "up" => requests' = requests
           /\ link = "up" => requests' = Append(requests, m) /\ ok
           /\ requests' \in Seq(Requests)
           /\ UNCHANGED <<link, inbox, unsolicited>>
<1>1. requests \in Seq(Requests) /\ Append(requests, m) \in Seq(Requests)
  BY AppendProperties DEF ClientTypes
<1> QED BY <1>1 DEF Sent

\* dequeue() takes a response or not.
LEMMA AwaitTypes ==
    ASSUME ClientTypes, NEW tag, NEW num, NEW good, NEW bad, AwaitReply(tag, num, good, bad)
    PROVE  /\ apc' \in {good, bad, apc}
           /\ queue' = queue \/ (queue # <<>> /\ queue' = Tail(queue))
           /\ queue' \in Seq(Replies) /\ reply' \in Replies
<1>1. CASE Dequeue(App)
  <2>1. queue # <<>> /\ queue' = Tail(queue) /\ queue \in Seq(Replies)
    BY <1>1 DEF Dequeue, ClientTypes
  <2>2. Tail(queue) \in Seq(Replies) /\ Head(queue) \in Replies
    BY <2>1, EcmsTail
  <2>3. /\ reply' = Head(queue) \/ reply' = NoMessage \/ UNCHANGED reply
        /\ apc' \in {good, bad, apc}
    BY DEF AwaitReply, GoTo
  <2> QED BY <2>1, <2>2, <2>3, SimpleMessages DEF ClientTypes
<1>2. CASE DequeueWaits(App) /\ UNCHANGED <<apc, reply>>
  BY <1>2 DEF DequeueWaits, ClientTypes
<1>3. CASE DequeueTimeout(App) /\ GoTo(bad) /\ UNCHANGED reply
  <2>1. queue' = queue /\ reply' = reply /\ apc' = bad
    BY <1>3 DEF DequeueTimeout, GoTo
  <2> QED BY <2>1 DEF ClientTypes
<1> QED BY <1>1, <1>2, <1>3 DEF AwaitReply

\* The application thread moves to another label of the same part of the program.
LEMMA SameReturn ==
    ASSUME LabelTypes, UNCHANGED <<sync, delay, ret>>,
           \/ apc' = apc
           \/ apc \in StartLabels /\ apc' \in StartLabels \cup EndLabels
           \/ ret \in ReturnLabels /\ apc' \in ReturnLabels \cup EndLabels
           \/ apc' \in EndLabels /\ ret # "initNext"
           \/ apc \in GenLabels /\ (apc' = ret \/ apc' = "genFailed")
           \/ apc \in SyncLabels /\ apc' \in SyncLabels
           \/ apc \in AsyncLabels /\ apc' \in AsyncLabels
    PROVE  LabelTypes'
<1> USE DEF LabelTypes, StartLabels, ReturnLabels, PacketLabels, GenLabels, SyncLabels, AsyncLabels,
            EndLabels
<1>1. CASE apc' = apc
  BY <1>1
<1>2. CASE apc \in StartLabels /\ apc' \in StartLabels \cup EndLabels
  BY <1>2
<1>3. CASE ret \in ReturnLabels /\ apc' \in ReturnLabels \cup EndLabels
  BY <1>3
<1>4. CASE apc' \in EndLabels /\ ret # "initNext"
  BY <1>4
<1>5. CASE apc \in GenLabels /\ (apc' = ret \/ apc' = "genFailed")
  <2>1. ret \in ReturnLabels \cup {"initNext"}
    BY <1>5
  <2> QED BY <1>5, <2>1
<1>6. CASE apc \in SyncLabels /\ apc' \in SyncLabels
  BY <1>6
<1>7. CASE apc \in AsyncLabels /\ apc' \in AsyncLabels
  BY <1>7
<1> QED BY <1>1, <1>2, <1>3, <1>4, <1>5, <1>6, <1>7

\* The control words of the object in generateECM().
LEMMA ProvisionType ==
    ASSUME SlotTypes
    PROVE  /\ Provision \in Requests
           /\ Mine(Provision) = {<<cp[genSlot].num, <<cp[genSlot].cw, cp[genSlot].next>>>>}
           /\ Provision.cp = cp[genSlot].num
<1>1. cp[genSlot].num \in Nat /\ cp[genSlot].cw \in Nat /\ cp[genSlot].next \in Nat
  BY Constants DEF SlotTypes
<1>2. <<cp[genSlot].cw, cp[genSlot].next>> \in Seq(Nat)
  BY <1>1
<1> QED BY <1>1, <1>2 DEF Provision, Message, Requests, RequestTags, Mine, IsECM

\* connect()
LEMMA ConnectTypes ==
    ASSUME Types, Connect, UNCHANGED <<slotVars, timeVars, cycleVars, optVars, abort>>
    PROVE  Types'
<1> USE DEF Types
<1>1. SlotTypes'
  BY DEF SlotTypes, slotVars, cycleVars
<1>2. CASE StartReceiver \/ StartListening \/ Established
  <2>1. /\ apc \in StartLabels /\ apc' \in StartLabels /\ UNCHANGED <<sync, delay, ret>>
        /\ UNCHANGED <<messageVars, async, rmsg, handler, linkVars, reply>>
    BY <1>2 DEF StartReceiver, StartListening, Established, GoTo, StartLabels, optVars
  <2>2. rpc' \in {rpc, "wait"}
    BY <1>2 DEF StartReceiver, StartListening, Established, Woken
  <2> QED BY <1>1, <2>1, <2>2, SameReturn DEF ClientTypes, messageVars, linkVars
<1>3. CASE OpenConnection
  <2>1. /\ apc \in StartLabels /\ apc' \in StartLabels /\ UNCHANGED <<sync, delay, ret>>
        /\ UNCHANGED <<messageVars, clientVars, inbox, reply>>
    BY <1>3 DEF OpenConnection, GoTo, StartLabels, optVars
  <2>2. /\ link' \in {link, "up"}
        /\ requests' = requests \/ requests' = <<Simple("channel_setup")>>
    BY <1>3 DEF OpenConnection
  <2>3. Simple("channel_setup") \in Requests
    BY SimpleMessages DEF RequestTags
  <2>4. requests' \in Seq(Requests)
    <3>1. <<Simple("channel_setup")>> \in Seq(Requests)
      BY <2>3
    <3> QED BY <2>2, <3>1 DEF ClientTypes
  <2> QED BY <1>1, <2>1, <2>2, <2>4, SameReturn DEF ClientTypes, messageVars, clientVars
<1>4. CASE ChannelReply \/ StreamReply
  <2>1. /\ apc \in StartLabels /\ UNCHANGED <<sync, delay, ret>>
        /\ UNCHANGED <<clientVars, linkVars>>
        /\ \E tag, good : AwaitReply(tag, 0, good, "abortConnection") /\ good \in StartLabels
    BY <1>4 DEF ChannelReply, StreamReply, StartLabels, optVars
  <2>2. apc' \in StartLabels /\ queue' \in Seq(Replies) /\ reply' \in Replies
    BY <2>1, AwaitTypes DEF StartLabels
  <2> QED BY <1>1, <2>1, <2>2, SameReturn DEF ClientTypes, clientVars, linkVars
<1>5. CASE StreamSetup
  <2>1. /\ apc \in StartLabels /\ apc' \in StartLabels /\ UNCHANGED <<sync, delay, ret>>
        /\ UNCHANGED <<messageVars, clientVars, reply>>
    BY <1>5 DEF StreamSetup, GoTo, StartLabels, optVars
  <2>2. requests' \in Seq(Requests) /\ UNCHANGED <<link, inbox>>
    BY <1>5, SentTypes, SimpleMessages DEF StreamSetup, RequestTags
  <2> QED BY <1>1, <2>1, <2>2, SameReturn DEF ClientTypes, messageVars, clientVars
<1>6. CASE AbortConnection
  <2>1. /\ apc \in StartLabels /\ apc' \in StartLabels /\ UNCHANGED <<sync, delay, ret>>
        /\ UNCHANGED <<messageVars, async, rmsg, handler, reply>>
        /\ rpc' \in {rpc, "wait"} /\ link' = "closed" /\ requests' = <<>> /\ inbox' = <<>>
    BY <1>6 DEF AbortConnection, GoTo, StartLabels, optVars, CloseLink, Woken
  <2> QED BY <1>1, <2>1, SameReturn DEF ClientTypes, messageVars
<1> QED BY <1>2, <1>3, <1>4, <1>5, <1>6 DEF Connect

\* disconnect() and the destructor.
LEMMA ShutdownTypes ==
    ASSUME Types, Shutdown, UNCHANGED <<slotVars, timeVars, cycleVars, optVars, abort>>
    PROVE  Types'
<1> USE DEF Types
<1>1. SlotTypes' /\ UNCHANGED <<sync, delay, ret>>
  BY DEF SlotTypes, slotVars, cycleVars, optVars, Shutdown, StopClient, CloseStream, CloseReply,
         CloseChannel, Disconnect, Destroy, JoinReceiver
<1>2. apc \in EndLabels /\ ret # "initNext"
  <2>1. apc \in EndLabels
    BY DEF Shutdown, StopClient, CloseStream, CloseReply, CloseChannel, Disconnect, Destroy,
           JoinReceiver, EndLabels
  <2> QED BY <2>1 DEF LabelTypes, EndLabels, GenLabels, SyncLabels, AsyncLabels
<1>3. CASE StopClient \/ JoinReceiver
  <2>1. apc' \in EndLabels /\ UNCHANGED <<messageVars, async, rpc, rmsg, handler, linkVars, reply>>
    BY <1>3 DEF StopClient, JoinReceiver, GoTo, EndLabels, clientVars
  <2> QED BY <1>1, <1>2, <2>1, SameReturn DEF ClientTypes, messageVars, linkVars
<1>4. CASE CloseStream \/ CloseChannel
  <2>1. /\ apc' \in EndLabels /\ UNCHANGED <<messageVars, clientVars, reply>>
        /\ \E tag \in RequestTags, ok \in BOOLEAN : Sent(Simple(tag), ok)
    BY <1>4 DEF CloseStream, CloseChannel, GoTo, EndLabels, RequestTags
  <2>2. requests' \in Seq(Requests) /\ UNCHANGED <<link, inbox>>
    BY <2>1, SentTypes, SimpleMessages
  <2> QED BY <1>1, <1>2, <2>1, <2>2, SameReturn DEF ClientTypes, messageVars, clientVars
<1>5. CASE CloseReply
  <2>1. /\ UNCHANGED <<clientVars, linkVars>>
        /\ AwaitReply("stream_close_response", 0, "closeChannel", "disconnect")
    BY <1>5 DEF CloseReply
  <2>2. apc' \in EndLabels /\ queue' \in Seq(Replies) /\ reply' \in Replies
    BY <1>2, <2>1, AwaitTypes DEF EndLabels
  <2> QED BY <1>1, <1>2, <2>1, <2>2, SameReturn DEF ClientTypes, clientVars, linkVars
<1>6. CASE Disconnect \/ Destroy
  <2>1. /\ apc' \in EndLabels /\ UNCHANGED <<messageVars, async, rmsg, handler, reply>>
        /\ rpc' \in {rpc, "wait"} /\ link' = "closed" /\ requests' = <<>> /\ inbox' = <<>>
    BY <1>6 DEF Disconnect, Destroy, GoTo, EndLabels, CloseLink, Woken
  <2> QED BY <1>1, <1>2, <2>1, SameReturn DEF ClientTypes, messageVars
<1> QED BY <1>3, <1>4, <1>5, <1>6 DEF Shutdown

\* generateECM() and submitECM().
LEMMA GenerateTypes ==
    ASSUME Types, GenerateECM(Provision, genSlot),
           UNCHANGED <<slotVars, timeVars, cycleVars, optVars, abort>>
    PROVE  Types'
<1> USE DEF Types
<1>1. SlotTypes' /\ UNCHANGED <<sync, delay, ret>>
  BY DEF SlotTypes, slotVars, cycleVars, optVars, GenerateECM, SendProvision, EcmReply,
         RegisterRequest, SubmitProvision, UnregisterRequest
<1>2. Provision \in Requests /\ Provision.cp \in Numbers /\ genSlot \in Slots
  BY ProvisionType DEF SlotTypes
<1> HIDE DEF Provision
<1>3. CASE SendProvision(Provision) \/ SubmitProvision(Provision)
  <2>1. /\ UNCHANGED <<messageVars, clientVars, reply>>
        /\ \E ok \in BOOLEAN : Sent(Provision, ok)
    BY <1>3 DEF SendProvision, SubmitProvision
  <2>2. \/ apc \in SyncLabels /\ apc' \in SyncLabels
        \/ apc \in AsyncLabels /\ apc' \in AsyncLabels
        \/ apc \in GenLabels /\ (apc' = ret \/ apc' = "genFailed")
    BY <1>3 DEF SendProvision, SubmitProvision, GoTo, GenLabels, SyncLabels, AsyncLabels
  <2>3. requests' \in Seq(Requests) /\ UNCHANGED <<link, inbox>>
    BY <1>2, <2>1, SentTypes
  <2> QED BY <1>1, <2>1, <2>2, <2>3, SameReturn DEF ClientTypes, messageVars, clientVars
<1>4. CASE EcmReply(Provision)
  <2>1. /\ UNCHANGED <<clientVars, linkVars>> /\ apc = "ecmReply"
        /\ AwaitReply("ECM_response", Provision.cp, "gotECM", "genFailed")
    BY <1>4 DEF EcmReply
  <2>2. apc' \in {"ecmReply", "gotECM", "genFailed"} /\ queue' \in Seq(Replies) /\ reply' \in Replies
    BY <2>1, AwaitTypes
  <2>3. \/ apc \in SyncLabels /\ apc' \in SyncLabels
        \/ apc \in GenLabels /\ apc' = "genFailed"
    BY <2>1, <2>2 DEF GenLabels, SyncLabels
  <2> QED BY <1>1, <2>1, <2>2, <2>3, SameReturn DEF ClientTypes, clientVars, linkVars
<1>5. CASE RegisterRequest(Provision, genSlot) \/ UnregisterRequest(Provision)
  <2>1. UNCHANGED <<messageVars, rpc, rmsg, handler, linkVars, reply>>
    BY <1>5 DEF RegisterRequest, UnregisterRequest
  <2>2. \/ apc \in AsyncLabels /\ apc' \in AsyncLabels
        \/ apc \in GenLabels /\ apc' = "genFailed"
    BY <1>5 DEF RegisterRequest, UnregisterRequest, GoTo, GenLabels, AsyncLabels
  <2>3. async' \subseteq async \cup {<<Provision.cp, genSlot>>}
    BY <1>5 DEF RegisterRequest, UnregisterRequest
  <2>4. async' \subseteq Numbers \X Slots
    BY <1>2, <2>3 DEF ClientTypes
  <2> QED BY <1>1, <2>1, <2>2, <2>4, SameReturn DEF ClientTypes, messageVars, linkVars
<1> QED BY <1>3, <1>4, <1>5 DEF GenerateECM

\* A call to generateECM() after initCycle() or initNext().
LEMMA GenerateForTypes ==
    ASSUME LabelTypes, NEW k, NEW next \in ReturnLabels \cup {"initNext"}, GenerateFor(k, next),
           UNCHANGED <<sync, delay>>
    PROVE  LabelTypes' /\ ret' = next /\ genSlot' = k
           /\ apc' = (IF sync THEN "generate" ELSE "submit")
  BY DEF GenerateFor, GoTo, LabelTypes, StartLabels, ReturnLabels, PacketLabels, GenLabels, SyncLabels,
         AsyncLabels, EndLabels

\* initNext() initializes the other object.
LEMMA InitNextTypes ==
    ASSUME SlotTypes, NEW k \in Slots, NEW next, InitNext(k, next)
    PROVE  /\ cp' \in [Slots -> [num : Numbers, ok : BOOLEAN, ecm : Seq(Nat), cw : Nat, next : Nat]]
           /\ draws' \in Nat /\ genSlot' \in Slots /\ genSlot' = 1 - k
           /\ cp'[k] = cp[k] /\ cp'[1 - k].num = (cp[k].num + 1) % CpModulus
           /\ cp'[1 - k].ok = FALSE /\ cp'[1 - k].cw = cp[k].next
<1>1. 1 - k \in Slots /\ 1 - k # k /\ 1 - (1 - k) = k
  BY DEF Slots
<1>2. /\ cp[k].num \in Numbers /\ cp[1 - k].ecm \in Seq(Nat) /\ cp[k].next \in Nat
      /\ draws \in Nat
  BY <1>1 DEF SlotTypes
<1>3. (cp[k].num + 1) % CpModulus \in Numbers /\ (draws + 1) % CpModulus \in Nat
  <2>1. draws + 1 \in Int /\ CpModulus \in Nat /\ CpModulus > 0
    BY <1>2, Constants
  <2>2. (draws + 1) % CpModulus \in Nat
    BY <2>1
  <2> QED BY <1>2, <2>2, Constants
<1>4. SlotAfter(k) \in [num : Numbers, ok : BOOLEAN, ecm : Seq(Nat), cw : Nat, next : Nat]
  BY <1>2, <1>3 DEF SlotAfter
<1>5. cp' = [cp EXCEPT ![1 - k] = SlotAfter(k)] /\ draws' = (draws + 1) % CpModulus
      /\ genSlot' = 1 - k
  BY DEF InitNext, GenerateFor
<1>6. cp'[1 - k] = SlotAfter(k) /\ cp'[k] = cp[k]
  BY <1>1, <1>5 DEF SlotTypes
<1>7. cp' \in [Slots -> [num : Numbers, ok : BOOLEAN, ecm : Seq(Nat), cw : Nat, next : Nat]]
  <2> HIDE DEF SlotAfter
  <2> QED BY <1>4, <1>5 DEF SlotTypes
<1> QED BY <1>1, <1>3, <1>5, <1>6, <1>7 DEF SlotAfter

\* start() after the connection.
LEMMA StartTypes ==
    ASSUME Types, InitCycle \/ StartNext \/ Started
    PROVE  Types'
<1> USE DEF Types
<1>1. CASE InitCycle
  <2>1. /\ cp' = [cp EXCEPT ![0] = Slot(0, 0, 1)] /\ draws' = 2 /\ GenerateFor(0, "initNext")
        /\ UNCHANGED <<messageVars, clientVars, linkVars, reply, cycleVars, optVars, abort>>
    BY <1>1 DEF InitCycle
  <2>2. Slot(0, 0, 1) \in [num : Numbers, ok : BOOLEAN, ecm : Seq(Nat), cw : Nat, next : Nat]
    BY Constants DEF Slot
  <2>3. LabelTypes' /\ genSlot' = 0
    BY <2>1, GenerateForTypes DEF optVars
  <2>4. cp' \in [Slots -> [num : Numbers, ok : BOOLEAN, ecm : Seq(Nat), cw : Nat, next : Nat]]
    <3> HIDE DEF Slot
    <3> QED BY <2>1, <2>2 DEF SlotTypes
  <2> QED BY <2>1, <2>3, <2>4 DEF SlotTypes, ClientTypes, messageVars, clientVars, linkVars,
                                   cycleVars, Slots
<1>2. CASE StartNext
  <2>1. /\ InitNext(0, "started") /\ GenerateFor(1, "started") /\ 0 \in Slots
        /\ UNCHANGED <<messageVars, clientVars, linkVars, reply, cycleVars, optVars, abort>>
    BY <1>2 DEF StartNext, InitNext, Slots
  <2>2. LabelTypes'
    BY <2>1, GenerateForTypes DEF optVars, ReturnLabels
  <2> QED BY <2>1, <2>2, InitNextTypes DEF SlotTypes, ClientTypes, messageVars, clientVars, linkVars,
                                            cycleVars
<1>3. CASE Started
  <2>1. /\ UNCHANGED <<messageVars, clientVars, linkVars, ret, reply, slotVars, cycleVars, optVars,
                       abort>>
        /\ apc' = IF apc = "connectFailed" \/ abort THEN "destroy" ELSE "packet"
        /\ apc \in {"started", "connectFailed"}
    BY <1>3 DEF Started, GoTo
  <2>2. ret # "initNext" /\ (apc # "connectFailed" => ret \in ReturnLabels)
    BY <2>1 DEF LabelTypes, StartLabels, ReturnLabels, PacketLabels, GenLabels, SyncLabels,
                AsyncLabels, EndLabels
  <2>3. apc' \in EndLabels \/ (ret \in ReturnLabels /\ apc' \in ReturnLabels)
    BY <2>1, <2>2 DEF ReturnLabels, PacketLabels, EndLabels
  <2>4. LabelTypes'
    BY <2>1, <2>2, <2>3, SameReturn DEF optVars
  <2> QED BY <2>1, <2>4 DEF SlotTypes, ClientTypes, messageVars, clientVars, linkVars, slotVars,
                             cycleVars
<1> QED BY <1>1, <1>2, <1>3

\* handleECM() only changes the object or the abort flag.
LEMMA HandleTypes ==
    ASSUME SlotTypes, NEW k \in Slots, NEW m \in Replies, HandleECM(k, m)
    PROVE  /\ cp' \in [Slots -> [num : Numbers, ok : BOOLEAN, ecm : Seq(Nat), cw : Nat, next : Nat]]
           /\ abort' \in BOOLEAN
           /\ \/ /\ abort' = abort /\ cp'[k].ok /\ cp'[k].ecm = m.cws /\ cp'[k].num = cp[k].num
                 /\ cp'[k].cw = cp[k].cw /\ cp'[k].next = cp[k].next
                 /\ \A j \in Slots \ {k} : cp'[j] = cp[j]
              \/ abort' /\ cp' = cp
<1>1. m.cws \in Seq(Nat)
  BY DEF Replies
<1>2. CASE cp' = [cp EXCEPT ![k].ok = TRUE, ![k].ecm = m.cws] /\ UNCHANGED abort
  BY <1>1, <1>2 DEF SlotTypes
<1>3. CASE abort' = TRUE /\ cp' = cp
  BY <1>3 DEF SlotTypes
<1> QED BY <1>2, <1>3 DEF HandleECM

\* The end of generateECM() and the receiver thread in handleECM().
LEMMA HandledTypes ==
    ASSUME Types, SyncHandleECM \/ GenerateFailed \/ AsyncHandleECM
    PROVE  Types'
<1> USE DEF Types
<1>1. CASE SyncHandleECM
  <2>1. /\ HandleECM(genSlot, reply) /\ apc = "gotECM" /\ apc' = ret /\ reply' = NoMessage
        /\ UNCHANGED <<messageVars, clientVars, linkVars, ret, draws, genSlot, cycleVars, optVars>>
    BY <1>1 DEF SyncHandleECM, GoTo
  <2>2. apc \in GenLabels /\ genSlot \in Slots /\ reply \in Replies
    BY <2>1 DEF GenLabels, SyncLabels, SlotTypes, ClientTypes
  <2>3. LabelTypes'
    BY <2>1, <2>2, SameReturn DEF optVars
  <2>4. SlotTypes'
    BY <2>1, <2>2, HandleTypes DEF SlotTypes, cycleVars
  <2> QED BY <2>1, <2>3, <2>4, SimpleMessages DEF ClientTypes, messageVars, clientVars, linkVars
<1>2. CASE GenerateFailed
  <2>1. /\ apc = "genFailed" /\ apc' = ret /\ abort' = TRUE
        /\ UNCHANGED <<messageVars, clientVars, linkVars, ret, reply, slotVars, cycleVars, optVars>>
    BY <1>2 DEF GenerateFailed, GoTo
  <2>2. LabelTypes'
    BY <2>1, SameReturn DEF optVars, GenLabels
  <2> QED BY <2>1, <2>2 DEF ClientTypes, SlotTypes, messageVars, clientVars, linkVars, slotVars,
                             cycleVars
<1>3. CASE AsyncHandleECM
  <2>1. /\ HandleECM(handler, rmsg) /\ rpc' = "receive" /\ rmsg' = NoMessage /\ handler' = 0
        /\ UNCHANGED <<messageVars, async, linkVars, appVars, draws, genSlot, cycleVars, optVars>>
    BY <1>3 DEF AsyncHandleECM
  <2>2. handler \in Slots /\ rmsg \in Replies
    BY DEF ClientTypes
  <2>3. SlotTypes'
    BY <2>1, <2>2, HandleTypes DEF SlotTypes, cycleVars
  <2>4. LabelTypes'
    BY <2>1, SameReturn DEF appVars, optVars
  <2> QED BY <2>1, <2>3, <2>4, SimpleMessages DEF ClientTypes, messageVars, appVars, linkVars, Slots
<1> QED BY <1>1, <1>2, <1>3

\* A transition: either the two transitions of a crypto-period are apart now, or both are done
\* and the next object is initialized.
LEMMA SwitchShape ==
    ASSUME SlotTypes, NEW next, SwitchCW(next) \/ SwitchECM(next)
    PROVE  /\ currentCW' \in Slots /\ currentECM' \in Slots /\ first' \in BOOLEAN
           /\ first' => first
           /\ \/ currentCW = currentECM /\ currentCW' # currentECM' /\ UNCHANGED <<slotVars, ret>>
                 /\ apc' = next
              \/ currentCW # currentECM /\ currentCW' = currentECM' /\ InitNext(currentCW', next)
<1>t. currentCW \in Slots /\ currentECM \in Slots /\ first \in BOOLEAN
  BY DEF SlotTypes
<1>1. CASE SwitchCW(next)
  <2>1. currentCW' = 1 - currentCW /\ currentECM' = currentECM /\ first' = first
    BY <1>1 DEF SwitchCW
  <2>2. currentCW' \in Slots /\ (currentCW' = currentECM <=> currentCW # currentECM)
    BY <1>t, <2>1 DEF Slots
  <2>3. IF currentECM = currentCW' THEN InitNext(currentCW', next)
        ELSE apc' = next /\ UNCHANGED <<slotVars, ret>>
    BY <1>1 DEF SwitchCW, GoTo
  <2> QED BY <1>t, <2>1, <2>2, <2>3
<1>2. CASE SwitchECM(next)
  <2>1. currentECM' = 1 - currentECM /\ currentCW' = currentCW /\ first' = FALSE
    BY <1>2 DEF SwitchECM
  <2>2. currentECM' \in Slots /\ (currentECM' = currentCW <=> currentCW # currentECM)
    BY <1>t, <2>1 DEF Slots
  <2>3. IF currentECM' = currentCW THEN InitNext(currentCW, next)
        ELSE apc' = next /\ UNCHANGED <<slotVars, ret>>
    BY <1>2 DEF SwitchECM, GoTo
  <2> QED BY <1>t, <2>1, <2>2, <2>3
<1> QED BY <1>1, <1>2

\* The steps of processPacket() on the transitions.
LEMMA CycleShape ==
    ASSUME SlotTypes, ChangeCW \/ ChangeECM \/ InsertECM
    PROVE  /\ apc \in PacketLabels /\ degraded' \in BOOLEAN
           /\ UNCHANGED <<messageVars, clientVars, linkVars, reply, optVars, abort>>
           /\ \E next \in PacketLabels :
                 \/ UNCHANGED <<slotVars, currentCW, currentECM, first, ret>> /\ apc' = next
                 \/ cp[nextECM].ok /\ (SwitchCW(next) \/ SwitchECM(next))
<1>t. degraded \in BOOLEAN
  BY DEF SlotTypes
<1>1. CASE ChangeCW
  <2>1. /\ apc \in PacketLabels /\ "changeECM" \in PacketLabels
        /\ UNCHANGED <<messageVars, clientVars, linkVars, reply, optVars, abort>>
    BY <1>1 DEF ChangeCW, PacketLabels
  <2>2. \/ ~InDegradedMode /\ SwitchCW("changeECM") /\ UNCHANGED degraded
        \/ /\ degraded' \in {TRUE, degraded} /\ apc' = "changeECM"
           /\ UNCHANGED <<slotVars, currentCW, currentECM, first, ret>>
    BY <1>1 DEF ChangeCW, GoTo, cycleVars
  <2> QED BY <1>t, <2>1, <2>2 DEF InDegradedMode
<1>2. CASE ChangeECM
  <2>1. /\ apc \in PacketLabels /\ "insert" \in PacketLabels
        /\ UNCHANGED <<messageVars, clientVars, linkVars, reply, optVars, abort>>
    BY <1>2 DEF ChangeECM, PacketLabels
  <2>2. \/ ~InDegradedMode /\ SwitchECM("insert") /\ UNCHANGED degraded
        \/ /\ degraded' \in {TRUE, degraded} /\ apc' = "insert"
           /\ UNCHANGED <<slotVars, currentCW, currentECM, first, ret>>
    BY <1>2 DEF ChangeECM, GoTo, cycleVars
  <2> QED BY <1>t, <2>1, <2>2 DEF InDegradedMode
<1>3. CASE InsertECM
  <2>1. /\ apc \in PacketLabels /\ "packet" \in PacketLabels
        /\ UNCHANGED <<messageVars, clientVars, linkVars, reply, optVars, abort>>
    BY <1>3 DEF InsertECM, PacketLabels
  <2>2. \/ /\ cp[nextECM].ok /\ degraded' = FALSE
           /\ SwitchCW("packet") \/ SwitchECM("packet")
        \/ /\ degraded' = degraded /\ apc' = "packet"
           /\ UNCHANGED <<slotVars, currentCW, currentECM, first, ret>>
    BY <1>3 DEF InsertECM, ExitDegraded, GoTo, cycleVars
  <2> QED BY <1>t, <2>1, <2>2
<1> QED BY <1>1, <1>2, <1>3

\* processPacket()
LEMMA PacketTypes ==
    ASSUME Types, ChangeCW \/ ChangeECM \/ InsertECM \/ Packet \/ EndOfStream
    PROVE  Types'
<1> USE DEF Types
<1>1. CASE ChangeCW \/ ChangeECM \/ InsertECM
  <2>1. /\ apc \in PacketLabels /\ degraded' \in BOOLEAN
        /\ UNCHANGED <<messageVars, clientVars, linkVars, reply, optVars, abort>>
    BY <1>1, CycleShape
  <2>2. PICK next \in PacketLabels :
                 \/ UNCHANGED <<slotVars, currentCW, currentECM, first, ret>> /\ apc' = next
                 \/ cp[nextECM].ok /\ (SwitchCW(next) \/ SwitchECM(next))
    BY <1>1, CycleShape
  <2>3. ret \in ReturnLabels /\ next \in ReturnLabels
    BY <2>1 DEF LabelTypes, StartLabels, ReturnLabels, PacketLabels, GenLabels, SyncLabels,
                AsyncLabels, EndLabels
  <2>4. ClientTypes' /\ UNCHANGED <<sync, delay>>
    BY <2>1 DEF ClientTypes, messageVars, clientVars, linkVars, optVars
  <2>5. CASE UNCHANGED <<slotVars, currentCW, currentECM, first, ret>> /\ apc' = next
    BY <2>1, <2>3, <2>4, <2>5, SameReturn DEF SlotTypes, slotVars
  <2>6. CASE SwitchCW(next) \/ SwitchECM(next)
    <3>1. currentCW' \in Slots /\ currentECM' \in Slots /\ first' \in BOOLEAN
      BY <2>6, SwitchShape
    <3>2. CASE UNCHANGED <<slotVars, ret>> /\ apc' = next
      BY <2>1, <2>3, <2>4, <3>1, <3>2, SameReturn DEF SlotTypes, slotVars
    <3>3. CASE InitNext(currentCW', next)
      <4>1. SlotTypes'
        BY <2>1, <3>1, <3>3, InitNextTypes DEF SlotTypes
      <4>2. GenerateFor(1 - currentCW', next)
        BY <3>3 DEF InitNext
      <4> QED BY <2>3, <2>4, <4>1, <4>2, GenerateForTypes
    <3> QED BY <2>6, <3>2, <3>3, SwitchShape
  <2> QED BY <2>2, <2>5, <2>6
<1>2. CASE Packet \/ EndOfStream
  <2>1. /\ apc = "packet" /\ apc' \in {"stop", "packet", "changeCW"}
        /\ UNCHANGED <<messageVars, clientVars, linkVars, ret, reply, slotVars, cycleVars, optVars,
                       abort>>
    BY <1>2 DEF Packet, ProcessPacket, EndOfStream, GoTo
  <2>2. ret \in ReturnLabels /\ apc' \in ReturnLabels \cup EndLabels
    BY <2>1 DEF LabelTypes, StartLabels, ReturnLabels, PacketLabels, GenLabels, SyncLabels,
                AsyncLabels, EndLabels
  <2>3. LabelTypes'
    BY <2>1, <2>2, SameReturn DEF optVars
  <2> QED BY <2>1, <2>3 DEF SlotTypes, ClientTypes, messageVars, clientVars, linkVars, slotVars,
                             cycleVars
<1> QED BY <1>1, <1>2

\* The receiver thread.
LEMMA ReceiverTypes ==
    ASSUME Types, ReceiverThread, UNCHANGED <<slotVars, timeVars, cycleVars, optVars, abort>>
    PROVE  Types'
<1> USE DEF Types
<1>1. SlotTypes' /\ UNCHANGED <<sync, delay, apc, ret, reply>>
  BY DEF SlotTypes, slotVars, cycleVars, optVars, ReceiverThread, WaitConnection, ReceiveMessage,
         ReplyTest, DispatchMessage, EnqueueResponse, ConnectionLost, appVars
<1>2. LabelTypes'
  BY <1>1, SameReturn
<1>3. CASE WaitConnection
  <2>1. UNCHANGED <<messageVars, async, rmsg, handler, linkVars>> /\ rpc' \in {"asleep", "done", "receive"}
    BY <1>3 DEF WaitConnection
  <2> QED BY <1>1, <1>2, <2>1 DEF ClientTypes, messageVars, linkVars
<1>4. CASE ReceiveMessage
  <2>1. UNCHANGED <<messageVars, async, handler, link, requests>> /\ rpc' \in {"dispatch", "error"}
    BY <1>4 DEF ReceiveMessage
  <2>2. \/ inbox # <<>> /\ rmsg' = Head(inbox) /\ inbox' = Tail(inbox)
        \/ UNCHANGED <<rmsg, inbox>>
    BY <1>4 DEF ReceiveMessage
  <2>3. inbox' \in Seq(Replies) /\ rmsg' \in Replies
    BY <2>2, EcmsTail DEF ClientTypes
  <2> QED BY <1>1, <1>2, <2>1, <2>3 DEF ClientTypes, messageVars
<1>5. CASE ReplyTest
  <2>1. /\ UNCHANGED <<messageVars, async, handler>> /\ rpc' \in {"receive", "error"}
        /\ rmsg' = NoMessage /\ \E ok \in BOOLEAN : Sent(Simple("status"), ok)
    BY <1>5 DEF ReplyTest
  <2>2. requests' \in Seq(Requests) /\ UNCHANGED <<link, inbox>>
    BY <2>1, SentTypes, SimpleMessages DEF RequestTags
  <2> QED BY <1>1, <1>2, <2>1, <2>2, SimpleMessages DEF ClientTypes, messageVars
<1>6. CASE DispatchMessage
  <2>1. /\ UNCHANGED <<messageVars, rmsg, linkVars>> /\ rpc' \in {"enqueue", "handle"}
        /\ async' \subseteq async /\ (handler' = handler \/ \E r \in async : handler' = r[2])
    BY <1>6 DEF DispatchMessage, PendingAfter, Registered
  <2>2. handler' \in Slots
    BY <2>1 DEF ClientTypes
  <2>3. async' \subseteq Numbers \X Slots
    BY <2>1 DEF ClientTypes
  <2> QED BY <1>1, <1>2, <2>1, <2>2, <2>3 DEF ClientTypes, messageVars, linkVars
<1>7. CASE EnqueueResponse
  <2>1. UNCHANGED <<async, handler, linkVars>> /\ rpc' \in {"receive", rpc}
    BY <1>7 DEF EnqueueResponse
  <2>2. \/ queue' = Append(queue, rmsg) /\ rmsg' = NoMessage
        \/ queue' = queue /\ rmsg' = rmsg
    BY <1>7 DEF EnqueueResponse, Enqueue, Insert, EnqueueWaits
  <2>3. queue' \in Seq(Replies) /\ rmsg' \in Replies
    <3>1. queue \in Seq(Replies) /\ rmsg \in Replies /\ NoMessage \in Replies
      BY SimpleMessages DEF ClientTypes
    <3>2. Append(queue, rmsg) \in Seq(Replies)
      BY <3>1, AppendProperties
    <3> QED BY <2>2, <3>1, <3>2
  <2> QED BY <1>1, <1>2, <2>1, <2>3 DEF ClientTypes, linkVars
<1>8. CASE ConnectionLost
  <2>1. /\ UNCHANGED <<messageVars, async, rmsg, handler>> /\ rpc' \in {"done", "wait"}
        /\ \/ UNCHANGED <<link, requests, inbox>>
           \/ link' = "closed" /\ requests' = <<>> /\ inbox' = <<>>
    BY <1>8 DEF ConnectionLost, CloseLink
  <2>2. link' \in {link, "closed"} /\ requests' \in Seq(Requests) /\ inbox' \in Seq(Replies)
    <3>1. requests \in Seq(Requests) /\ inbox \in Seq(Replies)
      BY DEF ClientTypes
    <3>2. <<>> \in Seq(Requests) /\ <<>> \in Seq(Replies)
      OBVIOUS
    <3> QED BY <2>1, <3>1, <3>2
  <2> QED BY <1>1, <1>2, <2>1, <2>2 DEF ClientTypes, messageVars
<1> QED BY <1>3, <1>4, <1>5, <1>6, <1>7, <1>8 DEF ReceiverThread

\* The answer to a request for an ECM has the same content.
LEMMA AnswerContent ==
    ASSUME NEW m \in Requests
    PROVE  IF m.tag \in DOMAIN Answers
           THEN LET a == [m EXCEPT !.tag = Answers[@]] IN a \in Replies /\ Mine(a) = Mine(m)
           ELSE Mine(m) = {}
<1> DEFINE a == [m EXCEPT !.tag = Answers[@]]
<1>1. /\ DOMAIN Answers = {"channel_setup", "stream_setup", "CW_provision", "stream_close_request"}
      /\ Answers["channel_setup"] = "channel_status" /\ Answers["stream_setup"] = "stream_status"
      /\ Answers["CW_provision"] = "ECM_response"
      /\ Answers["stream_close_request"] = "stream_close_response"
  BY DEF Answers
<1>2. /\ m = [tag |-> m.tag, cp |-> m.cp, cws |-> m.cws] /\ m.tag \in RequestTags
      /\ m.cp \in Nat /\ m.cws \in Seq(Nat)
  BY DEF Requests
<1>3. a.tag = Answers[m.tag] /\ a.cp = m.cp /\ a.cws = m.cws
      /\ a = [tag |-> Answers[m.tag], cp |-> m.cp, cws |-> m.cws]
  BY <1>2
<1>4. CASE m.tag \in DOMAIN Answers
  <2>1. a.tag \in ReplyTags /\ (a.tag = "ECM_response" <=> m.tag = "CW_provision")
        /\ a.tag # "CW_provision" /\ m.tag # "ECM_response"
    BY <1>1, <1>3, <1>4 DEF ReplyTags
  <2>2. a \in Replies
    BY <1>2, <1>3, <2>1 DEF Replies
  <2>3. Mine(a) = Mine(m)
    BY <1>3, <2>1 DEF Mine, IsECM
  <2> QED BY <1>4, <2>2, <2>3
<1>5. CASE m.tag \notin DOMAIN Answers
  <2>1. m.tag \notin {"CW_provision", "ECM_response"}
    BY <1>1, <1>2, <1>5 DEF RequestTags
  <2> QED BY <1>5, <2>1 DEF Mine, IsECM
<1> QED BY <1>4, <1>5

\* The ECMG.
LEMMA EcmgTypes ==
    ASSUME Types, Ecmg, UNCHANGED <<slotVars, timeVars, cycleVars, optVars, abort>>
    PROVE  Types'
<1> USE DEF Types
<1>1. SlotTypes' /\ UNCHANGED <<sync, delay, apc, ret, reply, messageVars, clientVars>>
  BY DEF SlotTypes, slotVars, cycleVars, optVars, Ecmg, EcmgAnswer, EcmgSend, EcmgDisconnect, appVars
<1>2. LabelTypes'
  BY <1>1, SameReturn
<1>3. CASE EcmgAnswer
  <2>1. /\ requests # <<>> /\ requests' = Tail(requests) /\ link' = link
        /\ inbox' = IF Head(requests).tag \in DOMAIN Answers
                    THEN Append(inbox, [Head(requests) EXCEPT !.tag = Answers[@]]) ELSE inbox
    BY <1>3 DEF EcmgAnswer
  <2>2. Head(requests) \in Requests /\ requests' \in Seq(Requests)
    BY <2>1, EcmsTail DEF ClientTypes
  <2>3. Head(requests).tag \in DOMAIN Answers =>
           [Head(requests) EXCEPT !.tag = Answers[@]] \in Replies
    BY <2>2, AnswerContent
  <2>4. inbox' \in Seq(Replies)
    BY <2>1, <2>3, AppendProperties DEF ClientTypes
  <2> QED BY <1>1, <1>2, <2>1, <2>2, <2>4 DEF ClientTypes, messageVars, clientVars
<1>4. CASE EcmgSend
  <2>1. UNCHANGED <<link, requests>> /\ \E tag \in {"test", "error"} : inbox' = Append(inbox, Simple(tag))
    BY <1>4 DEF EcmgSend
  <2>2. inbox' \in Seq(Replies)
    BY <2>1, AppendProperties, SimpleMessages DEF ClientTypes, ReplyTags
  <2> QED BY <1>1, <1>2, <2>1, <2>2 DEF ClientTypes, messageVars, clientVars
<1>5. CASE EcmgDisconnect
  <2>1. link' = "eof" /\ requests' = <<>> /\ inbox' = inbox
    BY <1>5 DEF EcmgDisconnect
  <2> QED BY <1>1, <1>2, <2>1 DEF ClientTypes, messageVars, clientVars
<1> QED BY <1>3, <1>4, <1>5 DEF Ecmg

\* All variables keep their types.
LEMMA NextTypes ==
    ASSUME Types, [Next]_vars
    PROVE  Types'
<1>1. CASE UNCHANGED vars
  BY <1>1 DEF vars, ecmgVars, messageVars, clientVars, linkVars, appVars, slotVars, cycleVars, optVars,
              Types, SlotTypes, ClientTypes, LabelTypes
<1>2. CASE Next
  BY <1>2, ConnectTypes, ShutdownTypes, GenerateTypes, StartTypes, HandledTypes, PacketTypes,
     ReceiverTypes, EcmgTypes DEF Next, Plugin, Client, Server
<1> QED BY <1>1, <1>2

-----------------------------------------------------------------------------
(***************************************************************************)
(* Steps which do not change the objects.                                  *)
(***************************************************************************)
\* The numbers of two consecutive crypto-periods are different.
LEMMA Distinct ==
    ASSUME Types, LinkInv, Both
    PROVE  cp[0].num # cp[1].num
<1>1. \A n \in Numbers : (n + 1) % CpModulus # n
  <2> SUFFICES ASSUME NEW n \in Numbers PROVE (n + 1) % CpModulus # n
    OBVIOUS
  <2>1. n \in 0 .. (CpModulus - 1) /\ CpModulus \in Nat /\ CpModulus >= 4
    BY Constants DEF Numbers
  <2>2. CASE n + 1 < CpModulus
    <3>1. (n + 1) % CpModulus = n + 1
      BY <2>1, <2>2
    <3> QED BY <2>1, <3>1
  <2>3. CASE n + 1 = CpModulus
    <3>1. (n + 1) % CpModulus = 0
      BY <2>1, <2>3
    <3> QED BY <2>1, <2>3, <3>1
  <2> QED BY <2>1, <2>2, <2>3
<1>2. /\ cp[0].num \in Numbers /\ cp[1].num \in Numbers
      /\ currentCW \in {0, 1} /\ currentECM \in {0, 1}
  BY DEF Types, SlotTypes, Slots
<1>3. PICK j \in {0, 1} : cp[1 - j].num = (cp[j].num + 1) % CpModulus
  <2>1. CASE currentCW = currentECM
    BY <1>2, <2>1 DEF LinkInv, Follows
  <2>2. CASE currentCW # currentECM
    <3>1. currentCW = 1 - currentECM /\ currentECM = 1 - currentCW
      BY <1>2, <2>2
    <3> QED BY <1>2, <2>2, <3>1 DEF LinkInv, Follows
  <2> QED BY <2>1, <2>2
<1>4. 1 - 0 = 1 /\ 1 - 1 = 0
  OBVIOUS
<1> QED BY <1>1, <1>2, <1>3, <1>4

\* Messages which get lost are behind those which remain.
Loses == Flow' \subseteq Flow /\ \A x \in Flow', y \in Flow \ Flow' : x[1] = 0 /\ y[1] = 1

\* An object of the flow is identified by its number.
LEMMA FlowSlot ==
    ASSUME IInv, Valid, Both, NEW x \in Flow, NEW j \in Slots, x[1] = cp[j].num
    PROVE  /\ Matches(x, j) /\ Awaits(j)
           /\ sync => apc = "ecmReply" /\ j = genSlot
           /\ ~sync => \/ <<x[1], j>> \in async
                       \/ rpc = "handle" /\ x \in Mine(rmsg) /\ handler = j
           /\ apc \in {"generate"} \cup AsyncLabels => j # genSlot
<1>1. PICK k \in Slots :
        /\ Matches(x, k) /\ Awaits(k)
        /\ sync => apc = "ecmReply" /\ k = genSlot
        /\ ~sync => \/ <<x[1], k>> \in async
                    \/ rpc = "handle" /\ x \in Mine(rmsg) /\ handler = k
        /\ apc \in {"generate"} \cup AsyncLabels => k # genSlot
  BY DEF IInv, MatchInv, FlowInv
<1>2. x[1] = cp[k].num
  BY <1>1 DEF Matches
<1>3. cp[0].num # cp[1].num
  BY Distinct DEF IInv
<1>4. j = k
  <2>1. cp[j].num = cp[k].num /\ j \in {0, 1} /\ k \in {0, 1}
    BY <1>2 DEF Slots
  <2> QED BY <1>3, <2>1
<1> QED BY <1>1, <1>4

\* A message which is received before another one is for the first object.
LEMMA FirstOnly ==
    ASSUME IInv, Valid, Both, NEW x \in Flow, NEW y \in Flow, x[1] = 0, y[1] = 1
    PROVE  x[1] # cp[1 - currentCW].num
<1> SUFFICES ASSUME x[1] = cp[1 - currentCW].num PROVE FALSE
  OBVIOUS
<1>1. currentCW \in Slots /\ 1 - currentCW \in Slots
  BY DEF IInv, Types, SlotTypes, Slots
<1>2. PICK k \in Slots : Matches(y, k) /\ Awaits(k)
  BY DEF IInv, MatchInv, FlowInv
<1>3. y[1] = cp[k].num /\ k # 1 - currentCW
  BY <1>2 DEF Matches
<1>4. k = currentCW
  BY <1>1, <1>3 DEF Slots
<1>5. cp[k].num = 0
  BY <1>2, <1>4 DEF Awaits
<1> QED BY <1>3, <1>5

\* The messages move, new ones which are not about ECM's come, or a part of them is lost.
LEMMA FlowStep ==
    ASSUME IInv, Types',
           UNCHANGED <<cp, genSlot, currentCW, currentECM, first, abort, sync, ret, async>>,
           Valid => OrderInv' /\ Loses,
           ~sync /\ link' = "up" => Flow' = Flow,
           link' = link \/ link' # "up" \/ ret = "connect",
           UNCHANGED <<rpc, rmsg, handler>> \/ (rpc # "handle" /\ rpc' # "handle"),
           apc' = apc \/ {apc, apc'} \cap (GenLabels \cup {"initNext"}) = {},
           apc = "gotECM" => reply' = reply,
           ~sync => Ecms(queue') = {} /\ (rpc' = "enqueue" => Mine(rmsg') = {}),
           rpc' \notin {"dispatch", "handle", "enqueue"} => Mine(rmsg') = {}
    PROVE  IInv'
<1>v. Valid' => Valid
  BY DEF Valid, GenLabels
<1>l. LabelTypes /\ Types
  BY DEF IInv, Types
<1>b. Both' = Both
  BY DEF Both
<1>a. \A k : Awaits(k)' = Awaits(k)
  BY <1>b DEF Awaits
<1>g. apc' \in GenLabels \cup {"initNext"} => apc' = apc
  OBVIOUS
<1>h. rpc' = "handle" => rpc = "handle" /\ rmsg' = rmsg /\ handler' = handler
  OBVIOUS
<1>1. MatchInv'
  <2> SUFFICES ASSUME Valid' PROVE OrderInv' /\ FlowInv' /\ ContentInv'
    BY DEF MatchInv
  <2>1. OrderInv' /\ Flow' \subseteq Flow /\ FlowInv /\ ContentInv
    BY <1>v DEF IInv, MatchInv, Loses
  <2>2. ContentInv'
    BY <2>1 DEF ContentInv
  <2>3. ASSUME NEW x \in Flow'
        PROVE  \E k \in Slots :
                  /\ Matches(x, k)' /\ Awaits(k)'
                  /\ sync' => apc' = "ecmReply" /\ k = genSlot'
                  /\ ~sync' => \/ <<x[1], k>> \in async'
                               \/ rpc' = "handle" /\ x \in Mine(rmsg') /\ handler' = k
                  /\ apc' \in {"generate"} \cup AsyncLabels => k # genSlot'
    <3>1. PICK k \in Slots :
            /\ Matches(x, k) /\ Awaits(k)
            /\ sync => apc = "ecmReply" /\ k = genSlot
            /\ ~sync => \/ <<x[1], k>> \in async
                        \/ rpc = "handle" /\ x \in Mine(rmsg) /\ handler = k
            /\ apc \in {"generate"} \cup AsyncLabels => k # genSlot
      BY <2>1, <2>3 DEF FlowInv
    <3>2. Matches(x, k)' /\ Awaits(k)'
      BY <3>1, <1>a DEF Matches
    <3>3. sync' => apc' = "ecmReply" /\ k = genSlot'
      BY <3>1 DEF GenLabels, SyncLabels
    <3>4. ~sync' => \/ <<x[1], k>> \in async'
                    \/ rpc' = "handle" /\ x \in Mine(rmsg') /\ handler' = k
      BY <3>1
    <3>5. apc' \in {"generate"} \cup AsyncLabels => k # genSlot'
      BY <3>1, <1>g DEF GenLabels, SyncLabels
    <3> QED BY <3>2, <3>3, <3>4, <3>5
  <2>4. FlowInv'
    BY <2>3 DEF FlowInv
  <2> QED BY <2>1, <2>2, <2>4
<1>2. AsyncInv'
  <2>1. AsyncInv
    BY DEF IInv
  <2>2. \A r \in async' : /\ r[1] = cp'[r[2]].num /\ Awaits(r[2])'
                          /\ apc' = "submit" => r[2] # genSlot'
    BY <2>1, <1>a, <1>g DEF AsyncInv, GenLabels, AsyncLabels
  <2>3. rpc' = "handle" =>
           /\ rmsg'.tag = "ECM_response" /\ Matches(<<rmsg.cp, rmsg.cws>>, handler)'
           /\ Awaits(handler)' /\ \A r \in async' : r[2] # handler'
    <3> SUFFICES ASSUME rpc' = "handle"
                 PROVE  /\ rmsg'.tag = "ECM_response" /\ Matches(<<rmsg.cp, rmsg.cws>>, handler)'
                        /\ Awaits(handler)' /\ \A r \in async' : r[2] # handler'
      OBVIOUS
    <3>1. rpc = "handle" /\ rmsg' = rmsg /\ handler' = handler
      BY <1>h
    <3>2. Awaits(handler)' = Awaits(handler)
      BY <3>1, <1>b DEF Awaits
    <3> QED BY <3>1, <3>2, <2>1 DEF AsyncInv, Matches
  <2>4. apc' = "submitSend" => <<cp'[genSlot'].num, genSlot'>> \in async'
    BY <2>1, <1>g DEF AsyncInv, GenLabels, AsyncLabels
  <2>5. sync' => async' = {} /\ rpc' # "handle"
    BY <2>1, <1>h DEF AsyncInv
  <2>6. ~sync' /\ apc' \in {"submitFailed", "genFailed"} => link' # "up"
    <3> SUFFICES ASSUME ~sync, apc' \in {"submitFailed", "genFailed"} PROVE link' # "up"
      OBVIOUS
    <3>1. apc' = apc /\ link # "up"
      BY <2>1, <1>g DEF AsyncInv, GenLabels, AsyncLabels
    <3>2. ret # "connect"
      BY <3>1, <1>l DEF LabelTypes, StartLabels, EndLabels
    <3> QED BY <3>1, <3>2
  <2> QED BY <2>2, <2>3, <2>4, <2>5, <2>6 DEF AsyncInv
<1>3. GenInv'
  <2>1. apc' \in GenLabels \ {"genFailed"} =>
           Awaits(genSlot)' /\ (ret' # "initNext" => genSlot' = 1 - currentCW')
    <3>1. Awaits(genSlot)' = Awaits(genSlot)
      BY <1>b DEF Awaits
    <3> QED BY <1>g, <3>1 DEF IInv, GenInv
  <2>2. ASSUME apc' = "gotECM", ~abort'
        PROVE  Matches(<<reply.cp, reply.cws>>, genSlot)' /\ reply'.tag = "ECM_response" /\ Flow' = {}
    <3>1. apc = "gotECM" /\ ~abort /\ reply' = reply
      BY <2>2, <1>g DEF GenLabels, SyncLabels
    <3>2. Matches(<<reply.cp, reply.cws>>, genSlot) /\ reply.tag = "ECM_response" /\ Flow = {}
      BY <3>1 DEF IInv, GenInv
    <3>3. Valid
      BY <3>1 DEF Valid
    <3> QED BY <3>1, <3>2, <3>3 DEF Matches, Loses
  <2> QED BY <2>1, <2>2 DEF GenInv
<1>4. LinkInv'
  <2>1. LinkInv
    BY DEF IInv
  <2> QED BY <2>1, <1>b DEF LinkInv, Follows
<1>s. \A k : Settled(k)' = Settled(k)
  BY DEF Settled
<1>f. \A k : Flow' = Flow => (Flying(k)' <=> Flying(k))
  BY DEF Flying
<1>5. FifoInv'
  <2>1. ASSUME ~sync', ret' = "initNext", apc' \notin {"submit", "submitSend"}, link' = "up"
        PROVE  Settled(0)' \/ Flying(0)'
    <3>1. apc \in GenLabels \cup {"initNext"}
      BY <1>l, <2>1 DEF LabelTypes
    <3>2. apc' = apc /\ link = "up" /\ Flow' = Flow
      BY <2>1, <3>1
    <3> QED BY <2>1, <3>2, <1>s, <1>f DEF IInv, FifoInv
  <2>2. ASSUME ~sync', Both', currentCW' = currentECM', link' = "up" \/ Flying(1 - currentCW)'
        PROVE  Settled(currentCW)' \/ Flying(currentCW)'
    <3>0. Both /\ ~sync /\ currentCW = currentECM
      BY <1>b, <2>2
    <3>1. Settled(currentCW)' = Settled(currentCW)
      BY DEF Settled
    <3>2. CASE link' = "up"
      <4>1. link = "up" /\ Flow' = Flow
        <5>1. ret # "connect"
          BY <3>0 DEF Both, ReturnLabels, PacketLabels
        <5> QED BY <2>2, <3>2, <5>1
      <4>2. Flying(currentCW)' <=> Flying(currentCW)
        BY <4>1 DEF Flying
      <4> QED BY <3>0, <3>1, <4>1, <4>2 DEF IInv, FifoInv
    <3>3. CASE Flying(1 - currentCW)'
      <4>0. Valid
        BY <3>0 DEF Valid
      <4>1. PICK x \in Flow' : x[1] = cp[1 - currentCW].num
        BY <3>3 DEF Flying
      <4>2. x \in Flow
        BY <4>0, <4>1 DEF Loses
      <4>3. Settled(currentCW) \/ Flying(currentCW)
        BY <3>0, <4>1, <4>2 DEF IInv, FifoInv, Flying
      <4>4. ASSUME Flying(currentCW) PROVE Flying(currentCW)'
        <5>1. PICK y \in Flow : y[1] = cp[currentCW].num
          BY <4>4 DEF Flying
        <5>2. y \in Flow'
          <6> SUFFICES ASSUME y \notin Flow' PROVE FALSE
            OBVIOUS
          <6>1. x[1] = 0 /\ y[1] = 1
            BY <4>0, <4>1 DEF Loses
          <6> QED BY <3>0, <4>0, <4>1, <4>2, <6>1, FirstOnly
        <5> QED BY <5>1, <5>2 DEF Flying
      <4> QED BY <3>1, <4>3, <4>4
    <3> QED BY <2>2, <3>2, <3>3
  <2> QED BY <2>1, <2>2 DEF FifoInv
<1>6. ReadyInv'
  <2>1. ReadyInv
    BY DEF IInv
  <2>2. ASSUME Both', currentCW' = currentECM', cp'[1 - currentCW'].ok, Valid'
        PROVE  (cp'[currentCW'].ok \/ abort') /\ Flow' = {} /\ async' = {}
    <3>1. (cp[currentCW].ok \/ abort) /\ Flow = {} /\ async = {}
      BY <2>1, <2>2, <1>v, <1>b DEF ReadyInv
    <3> QED BY <3>1, <2>2, <1>v DEF Loses
  <2>3. sync' /\ ~abort' /\ apc' = "initNext" => cp'[0].ok
    BY <2>1, <1>g DEF ReadyInv
  <2>4. /\ Both' /\ ~abort' /\ (currentCW' # currentECM' \/ ~first') =>
              cp'[currentCW'].ok /\ cp'[currentECM'].ok
        /\ sync' /\ ~abort' /\ Both' => cp'[currentCW'].ok
    BY <2>1, <1>b DEF ReadyInv
  <2> QED BY <2>2, <2>3, <2>4 DEF ReadyInv
<1> QED BY <1>1, <1>2, <1>3, <1>4, <1>5, <1>6 DEF IInv

\* No message about an ECM moves.
LEMMA SameFlow ==
    ASSUME UNCHANGED <<queue, rmsg, inbox, requests>>
    PROVE  Flow' = Flow /\ OrderInv' = OrderInv /\ Loses
<1>1. /\ Ecms(queue') = Ecms(queue) /\ Mine(rmsg') = Mine(rmsg) /\ Ecms(inbox') = Ecms(inbox)
      /\ Ecms(requests') = Ecms(requests) /\ InOrder(queue') = InOrder(queue)
      /\ InOrder(inbox') = InOrder(inbox) /\ InOrder(requests') = InOrder(requests)
  OBVIOUS
<1>2. Flow' = Flow
  BY <1>1 DEF Flow
<1>3. OrderInv' = OrderInv
  BY <1>1 DEF OrderInv, Before
<1> QED BY <1>2, <1>3 DEF Loses

\* A request which is not about an ECM is sent, or the send fails.
LEMMA SentFlow ==
    ASSUME IInv, NEW tag \in RequestTags \ {"CW_provision"}, NEW ok \in BOOLEAN,
           Sent(Simple(tag), ok), Mine(rmsg') = Mine(rmsg), UNCHANGED queue
    PROVE  /\ Flow' = Flow /\ Loses
           /\ Valid => OrderInv'
           /\ UNCHANGED <<link, inbox>>
<1>1. /\ requests' = requests \/ requests' = Append(requests, Simple(tag))
      /\ UNCHANGED <<link, inbox>> /\ Simple(tag) \in Requests /\ Mine(Simple(tag)) = {}
      /\ requests \in Seq(Requests)
  <2>1. Simple(tag) \in Requests /\ Mine(Simple(tag)) = {} /\ ClientTypes
    BY SimpleMessages DEF IInv, Types, RequestTags
  <2> QED BY <2>1, SentTypes DEF ClientTypes
<1>2. /\ Ecms(requests') = Ecms(requests)
      /\ InOrder(requests) => InOrder(requests')
  <2>1. Before(Ecms(requests), Mine(Simple(tag)))
    BY <1>1 DEF Before
  <2>2. /\ Ecms(Append(requests, Simple(tag))) = Ecms(requests) \cup Mine(Simple(tag))
        /\ InOrder(requests) => InOrder(Append(requests, Simple(tag)))
    BY <1>1, <2>1, EcmsAppend
  <2>3. CASE requests' = requests
    BY <2>3
  <2>4. CASE requests' = Append(requests, Simple(tag))
    BY <1>1, <2>2, <2>4
  <2> QED BY <1>1, <2>3, <2>4
<1>3. Flow' = Flow
  BY <1>1, <1>2 DEF Flow
<1>4. OrderInv => OrderInv'
  BY <1>1, <1>2 DEF OrderInv, Before
<1> QED BY <1>1, <1>3, <1>4 DEF Loses, IInv, MatchInv

\* Outside of generateECM(), there is no response about an ECM in the queue.
LEMMA QueueEmpty ==
    ASSUME IInv, Valid, apc # "ecmReply"
    PROVE  Ecms(queue) = {}
<1>1. CASE ~sync
  BY <1>1 DEF IInv, AsyncInv
<1>2. CASE sync
  <2>1. Flow = {}
    BY <1>2 DEF IInv, MatchInv, FlowInv
  <2> QED BY <2>1 DEF Flow
<1> QED BY <1>1, <1>2 DEF IInv, Types, LabelTypes

\* A response is dequeued, outside of generateECM().
LEMMA AwaitFlow ==
    ASSUME IInv, apc # "ecmReply", NEW tag, NEW num, NEW good, NEW bad,
           AwaitReply(tag, num, good, bad), UNCHANGED <<rmsg, inbox, requests>>
    PROVE  /\ Valid => OrderInv' /\ Flow' = Flow /\ Loses
           /\ ~sync => Ecms(queue') = {} /\ Flow' = Flow
<1>1. queue' = queue \/ (queue # <<>> /\ queue' = Tail(queue))
  BY AwaitTypes DEF IInv, Types
<1>2. queue \in Seq(Replies) /\ sync \in BOOLEAN
  BY DEF IInv, Types, ClientTypes, LabelTypes
<1>3. Ecms(queue') \subseteq Ecms(queue) /\ (InOrder(queue) => InOrder(queue'))
  BY <1>1, <1>2, EcmsTail
<1>4. ASSUME Valid PROVE OrderInv' /\ Flow' = Flow /\ Ecms(queue') = {}
  <2>1. Ecms(queue) = {} /\ Ecms(queue') = {}
    BY <1>3, <1>4, QueueEmpty
  <2>2. OrderInv
    BY <1>4 DEF IInv, MatchInv
  <2>3. OrderInv'
    BY <1>3, <2>1, <2>2 DEF OrderInv, Before
  <2>4. Flow' = Flow
    BY <2>1 DEF Flow
  <2> QED BY <2>1, <2>3, <2>4
<1> QED BY <1>2, <1>4 DEF Valid, Loses

\* The connection is closed: only what was received remains.
LEMMA CloseFlow ==
    ASSUME IInv, CloseLink, UNCHANGED <<queue, rmsg>>
    PROVE  (Valid => OrderInv' /\ Loses) /\ link' # "up"
<1>1. requests' = <<>> /\ inbox' = <<>> /\ link' # "up"
  BY DEF CloseLink
<1>2. Ecms(requests') = {} /\ Ecms(inbox') = {} /\ InOrder(requests') /\ InOrder(inbox')
  BY <1>1, EcmsEmpty
<1>3. ASSUME Valid PROVE OrderInv' /\ Loses
  <2>1. OrderInv
    BY <1>3 DEF IInv, MatchInv
  <2>2. OrderInv'
    BY <1>2, <2>1 DEF OrderInv, Before
  <2>3. Flow' = Ecms(queue) \cup Mine(rmsg)
    BY <1>2 DEF Flow
  <2>4. ASSUME NEW x \in Flow', NEW y \in Flow \ Flow' PROVE x[1] = 0 /\ y[1] = 1
    <3>1. x \in Ecms(queue) \cup Mine(rmsg) /\ y \in Ecms(inbox) \cup Ecms(requests)
      BY <2>3, <2>4 DEF Flow
    <3> QED BY <2>1, <3>1 DEF OrderInv, Before
  <2> QED BY <2>2, <2>3, <2>4 DEF Loses, Flow
<1> QED BY <1>1, <1>3

\* Before the first object, no message is about an ECM.
LEMMA StartFlow ==
    ASSUME IInv, ret = "connect"
    PROVE  Valid /\ OrderInv /\ Flow = {} /\ rpc # "handle" /\ async = {}
<1>1. ~abort /\ apc # "genFailed" /\ ~Both
  BY DEF IInv, LinkInv, Both, Types, LabelTypes, ReturnLabels, PacketLabels, StartLabels, EndLabels
<1>2. \A k : ~Awaits(k)
  BY <1>1 DEF Awaits
<1>3. Valid
  BY <1>1 DEF Valid
<1>4. OrderInv /\ Flow = {}
  BY <1>2, <1>3 DEF IInv, MatchInv, FlowInv
<1> QED BY <1>2, <1>3, <1>4 DEF IInv, AsyncInv

\* connect() keeps the invariant.
LEMMA ConnectIInv ==
    ASSUME IInv, Connect, UNCHANGED <<slotVars, timeVars, cycleVars, optVars, abort>>
    PROVE  IInv'
<1>1. Types' /\ Types /\ LabelTypes
  BY ConnectTypes DEF IInv, Types
<1>2. /\ UNCHANGED <<cp, genSlot, currentCW, currentECM, first, abort, sync>>
      /\ UNCHANGED <<ret, async>>
  BY DEF slotVars, cycleVars, optVars, Connect, StartReceiver, OpenConnection, StartListening,
         ChannelReply, StreamSetup, StreamReply, Established, AbortConnection, clientVars
<1>3. apc \in StartLabels /\ apc' \in StartLabels
  <2>1. apc \in StartLabels
    BY DEF Connect, StartReceiver, OpenConnection, StartListening, ChannelReply, StreamSetup,
           StreamReply, Established, AbortConnection, StartLabels
  <2>2. apc' \in StartLabels
    BY DEF Connect, StartReceiver, OpenConnection, StartListening, ChannelReply, StreamSetup,
           StreamReply, Established, AbortConnection, StartLabels, AwaitReply, GoTo
  <2> QED BY <2>1, <2>2
<1>4. ret = "connect" /\ {apc, apc'} \cap (GenLabels \cup {"initNext"}) = {} /\ apc # "gotECM"
  BY <1>1, <1>3 DEF LabelTypes, StartLabels, GenLabels, SyncLabels, AsyncLabels
<1>5. Valid /\ OrderInv /\ Flow = {} /\ rpc # "handle"
  BY <1>4, StartFlow
<1>6. Ecms(queue) = {} /\ Mine(rmsg) = {} /\ Ecms(inbox) = {} /\ Ecms(requests) = {}
  BY <1>5 DEF Flow
<1>7. rmsg' = rmsg /\ (UNCHANGED <<rpc, rmsg, handler>> \/ (rpc # "handle" /\ rpc' # "handle"))
  <2>1. UNCHANGED <<rmsg, handler>> /\ rpc' \in {rpc, "wait"}
    BY DEF Connect, StartReceiver, OpenConnection, StartListening, ChannelReply, StreamSetup,
           StreamReply, Established, AbortConnection, Woken, clientVars
  <2> QED BY <1>5, <2>1
<1>8. OrderInv' /\ Flow' = {} /\ Ecms(queue') = {}
  <2>1. CASE UNCHANGED <<queue, inbox, requests>>
    BY <1>5, <1>6, <1>7, <2>1, SameFlow
  <2>2. CASE OpenConnection /\ requests' = <<Simple("channel_setup")>>
    <3>1. UNCHANGED <<queue, inbox>>
      BY <2>2 DEF OpenConnection, messageVars
    <3>2. /\ requests' = Append(<<>>, Simple("channel_setup")) /\ <<>> \in Seq(Requests)
          /\ Simple("channel_setup") \in Requests /\ Mine(Simple("channel_setup")) = {}
      BY <2>2, SimpleMessages DEF RequestTags
    <3>3. Ecms(requests') = {} /\ InOrder(requests')
      <4>1. Before(Ecms(<<>>), Mine(Simple("channel_setup")))
        BY EcmsEmpty DEF Before
      <4>2. /\ Ecms(Append(<<>>, Simple("channel_setup"))) =
                  Ecms(<<>>) \cup Mine(Simple("channel_setup"))
            /\ InOrder(Append(<<>>, Simple("channel_setup")))
        BY <3>2, <4>1, EcmsEmpty, EcmsAppend
      <4> QED BY <3>2, <4>2, EcmsEmpty
    <3> QED BY <1>5, <1>6, <1>7, <3>1, <3>3 DEF Flow, OrderInv, Before
  <2>3. CASE ChannelReply \/ StreamReply
    <3>1. /\ UNCHANGED <<rmsg, inbox, requests>>
          /\ \E tag, good : AwaitReply(tag, 0, good, "abortConnection")
      BY <2>3 DEF ChannelReply, StreamReply, clientVars, linkVars
    <3>2. apc # "ecmReply"
      BY <1>3 DEF StartLabels
    <3>3. OrderInv' /\ Flow' = Flow
      BY <1>5, <3>1, <3>2, AwaitFlow
    <3> QED BY <1>5, <3>3 DEF Flow
  <2>4. CASE StreamSetup
    <3>1. UNCHANGED queue /\ \E ok \in BOOLEAN : Sent(Simple("stream_setup"), ok)
      BY <2>4 DEF StreamSetup, messageVars
    <3>2. Flow' = Flow /\ OrderInv'
      <4>1. "stream_setup" \in RequestTags \ {"CW_provision"} /\ Mine(rmsg') = Mine(rmsg)
        BY <1>7 DEF RequestTags
      <4> QED BY <1>5, <3>1, <4>1, SentFlow
    <3> QED BY <1>5, <3>2 DEF Flow
  <2>5. CASE AbortConnection
    <3>1. CloseLink /\ UNCHANGED <<queue, rmsg>>
      BY <2>5 DEF AbortConnection, messageVars
    <3>2. OrderInv' /\ Flow' \subseteq Flow
      BY <1>5, <3>1, CloseFlow DEF Loses
    <3> QED BY <1>5, <3>2 DEF Flow
  <2>6. CASE StartReceiver \/ StartListening \/ Established
    BY <2>1, <2>6 DEF StartReceiver, StartListening, Established, messageVars, linkVars
  <2>7. CASE OpenConnection /\ UNCHANGED requests
    BY <2>1, <2>7 DEF OpenConnection, messageVars
  <2>8. OpenConnection => requests' = <<Simple("channel_setup")>> \/ UNCHANGED requests
    BY DEF OpenConnection
  <2> QED BY <2>2, <2>3, <2>4, <2>5, <2>6, <2>7, <2>8 DEF Connect
<1>9. Loses /\ Flow' = Flow /\ Mine(rmsg') = {}
  BY <1>5, <1>6, <1>7, <1>8 DEF Loses
<1> QED BY <1>1, <1>2, <1>4, <1>5, <1>7, <1>8, <1>9, FlowStep

\* disconnect() and the destructor keep the invariant.
LEMMA ShutdownIInv ==
    ASSUME IInv, Shutdown, UNCHANGED <<slotVars, timeVars, cycleVars, optVars, abort>>
    PROVE  IInv'
<1>1. Types' /\ Types /\ AsyncInv
  BY ShutdownTypes DEF IInv
<1>2. /\ UNCHANGED <<cp, genSlot, currentCW, currentECM, first, abort, sync>>
      /\ UNCHANGED <<ret, async, rmsg, handler>>
  BY DEF slotVars, cycleVars, optVars, Shutdown, StopClient, CloseStream, CloseReply,
         CloseChannel, Disconnect, Destroy, JoinReceiver, clientVars
<1>3. {apc, apc'} \cap (GenLabels \cup {"initNext"}) = {} /\ apc \notin {"gotECM", "ecmReply"}
  BY DEF Shutdown, StopClient, CloseStream, CloseReply, CloseChannel, Disconnect, Destroy,
         JoinReceiver, GoTo, AwaitReply, GenLabels, SyncLabels, AsyncLabels
<1>4. /\ UNCHANGED <<rpc, rmsg, handler>> \/ (rpc # "handle" /\ rpc' # "handle")
      /\ rpc' = rpc \/ (rpc = "asleep" /\ rpc' = "wait")
  <2>1. rpc' = rpc \/ (rpc = "asleep" /\ rpc' = "wait")
    BY DEF Shutdown, StopClient, CloseStream, CloseReply, CloseChannel, Disconnect, Destroy,
           JoinReceiver, Woken, clientVars
  <2> QED BY <1>2, <2>1
<1>5. /\ ~sync => (rpc' = "enqueue" => Mine(rmsg') = {})
      /\ rpc' \notin {"dispatch", "handle", "enqueue"} => Mine(rmsg') = {}
      /\ ~sync => Ecms(queue) = {}
  BY <1>1, <1>2, <1>4 DEF AsyncInv
<1>6. /\ Valid => OrderInv' /\ Loses
      /\ ~sync /\ link' = "up" => Flow' = Flow
      /\ ~sync => Ecms(queue') = {}
      /\ link' = link \/ link' # "up"
  <2>o. Valid => OrderInv
    BY DEF IInv, MatchInv
  <2>1. CASE StopClient \/ JoinReceiver
    <3>1. UNCHANGED <<queue, rmsg, inbox, requests, link>>
      BY <1>2, <2>1 DEF StopClient, JoinReceiver, messageVars, linkVars
    <3> QED BY <1>5, <2>o, <3>1, SameFlow
  <2>2. CASE CloseStream \/ CloseChannel
    <3>1. UNCHANGED queue /\ Mine(rmsg') = Mine(rmsg)
      BY <1>2, <2>2 DEF CloseStream, CloseChannel, messageVars
    <3>2. \E tag \in RequestTags \ {"CW_provision"}, ok \in BOOLEAN : Sent(Simple(tag), ok)
      BY <2>2 DEF CloseStream, CloseChannel, RequestTags
    <3> QED BY <1>5, <3>1, <3>2, SentFlow
  <2>3. CASE CloseReply
    <3>1. /\ UNCHANGED <<rmsg, inbox, requests, link>>
          /\ AwaitReply("stream_close_response", 0, "closeChannel", "disconnect")
      BY <2>3 DEF CloseReply, clientVars, linkVars
    <3> QED BY <1>3, <3>1, AwaitFlow
  <2>4. CASE Disconnect \/ Destroy
    <3>1. CloseLink /\ UNCHANGED <<queue, rmsg>>
      BY <2>4 DEF Disconnect, Destroy, messageVars
    <3> QED BY <1>5, <3>1, CloseFlow
  <2> QED BY <2>1, <2>2, <2>3, <2>4 DEF Shutdown
<1> QED BY <1>1, <1>2, <1>3, <1>4, <1>5, <1>6, FlowStep

\* The receiver thread keeps the invariant when it does not search a handler.
LEMMA ReceiverIInv ==
    ASSUME IInv, WaitConnection \/ ReceiveMessage \/ ReplyTest \/ EnqueueResponse \/ ConnectionLost,
           UNCHANGED <<slotVars, timeVars, cycleVars, optVars, abort>>
    PROVE  IInv'
<1>1. Types' /\ Types /\ AsyncInv
  BY ReceiverTypes DEF IInv, ReceiverThread
<1>2. /\ UNCHANGED <<cp, genSlot, currentCW, currentECM, first, abort, sync>>
      /\ UNCHANGED <<ret, async, handler, apc, reply>>
  BY DEF slotVars, cycleVars, optVars, WaitConnection, ReceiveMessage, ReplyTest, EnqueueResponse,
         ConnectionLost, appVars
<1>3. rpc # "handle" /\ rpc' # "handle"
  BY DEF WaitConnection, ReceiveMessage, ReplyTest, EnqueueResponse, ConnectionLost
<1>o. Valid => OrderInv
  BY DEF IInv, MatchInv
<1>q. ~sync => Ecms(queue) = {}
  BY <1>1 DEF AsyncInv
<1>4. CASE WaitConnection
  <2>1. /\ UNCHANGED <<queue, rmsg, inbox, requests, link>>
        /\ rpc = "wait" /\ rpc' \in {"asleep", "done", "receive"}
    BY <1>4 DEF WaitConnection, messageVars, linkVars
  <2>2. Mine(rmsg') = {}
    BY <1>1, <2>1 DEF AsyncInv
  <2> QED BY <1>1, <1>2, <1>3, <1>o, <1>q, <2>1, <2>2, SameFlow, FlowStep
<1>5. CASE ReceiveMessage
  <2>1. UNCHANGED <<queue, requests, link>> /\ rpc = "receive" /\ rpc' \in {"dispatch", "error"}
    BY <1>5 DEF ReceiveMessage, messageVars
  <2>2. Mine(rmsg) = {}
    BY <1>1, <2>1 DEF AsyncInv
  <2>3. CASE UNCHANGED <<rmsg, inbox>>
    BY <1>1, <1>2, <1>3, <1>o, <1>q, <2>1, <2>2, <2>3, SameFlow, FlowStep
  <2>4. CASE inbox # <<>> /\ rmsg' = Head(inbox) /\ inbox' = Tail(inbox) /\ rpc' = "dispatch"
    <3>1. /\ Ecms(inbox) = Mine(rmsg') \cup Ecms(inbox')
          /\ InOrder(inbox) => InOrder(inbox') /\ Before(Mine(rmsg'), Ecms(inbox'))
      BY <1>1, <2>4, EcmsTail DEF Types, ClientTypes
    <3>2. Flow' = Flow
      BY <2>1, <2>2, <3>1 DEF Flow
    <3>3. OrderInv => OrderInv'
      BY <2>1, <2>2, <3>1 DEF OrderInv, Before
    <3>4. Loses
      BY <3>2 DEF Loses
    <3> QED BY <1>1, <1>2, <1>3, <1>o, <1>q, <2>1, <2>4, <3>2, <3>3, <3>4, FlowStep
  <2>5. \/ inbox # <<>> /\ rmsg' = Head(inbox) /\ inbox' = Tail(inbox) /\ rpc' = "dispatch"
        \/ UNCHANGED <<rmsg, inbox>>
    BY <1>5 DEF ReceiveMessage
  <2> QED BY <2>3, <2>4, <2>5
<1>6. CASE ReplyTest
  <2>1. /\ UNCHANGED queue /\ rmsg' = NoMessage /\ rmsg.tag = "test"
        /\ rpc' \in {"receive", "error"}
    BY <1>6 DEF ReplyTest, messageVars
  <2>2. PICK ok \in BOOLEAN : Sent(Simple("status"), ok)
    BY <1>6 DEF ReplyTest
  <2>3. Mine(rmsg) = {} /\ Mine(rmsg') = {} /\ "status" \in RequestTags \ {"CW_provision"}
    BY <2>1, SimpleMessages DEF Mine, IsECM, RequestTags
  <2>4. Flow' = Flow /\ Loses /\ (Valid => OrderInv') /\ link' = link
    BY <2>1, <2>2, <2>3, SentFlow
  <2> QED BY <1>1, <1>2, <1>3, <1>q, <2>1, <2>3, <2>4, FlowStep
<1>7. CASE EnqueueResponse
  <2>1. UNCHANGED <<inbox, requests, link>> /\ rpc = "enqueue" /\ rpc' \in {"receive", "enqueue"}
    BY <1>7 DEF EnqueueResponse, linkVars
  <2>2. ~sync => Mine(rmsg) = {}
    BY <1>1, <2>1 DEF AsyncInv
  <2>3. CASE queue' = queue /\ rmsg' = rmsg /\ rpc' = rpc
    BY <1>1, <1>2, <1>3, <1>o, <1>q, <2>1, <2>2, <2>3, SameFlow, FlowStep
  <2>4. CASE queue' = Append(queue, rmsg) /\ rmsg' = NoMessage
    <3>1. queue \in Seq(Replies) /\ rmsg \in Replies /\ Mine(rmsg') = {}
      BY <1>1, <2>4, SimpleMessages DEF Types, ClientTypes
    <3>2. /\ Ecms(queue') = Ecms(queue) \cup Mine(rmsg)
          /\ InOrder(queue) /\ Before(Ecms(queue), Mine(rmsg)) => InOrder(queue')
      BY <2>4, <3>1, EcmsAppend
    <3>3. Flow' = Flow
      BY <2>1, <3>1, <3>2 DEF Flow
    <3>4. OrderInv => OrderInv'
      BY <2>1, <3>1, <3>2 DEF OrderInv, Before
    <3>5. Loses /\ (~sync => Ecms(queue') = {})
      BY <1>q, <2>2, <3>2, <3>3 DEF Loses
    <3> QED BY <1>1, <1>2, <1>3, <1>o, <2>1, <3>1, <3>3, <3>4, <3>5, FlowStep
  <2>5. \/ queue' = Append(queue, rmsg) /\ rmsg' = NoMessage
        \/ queue' = queue /\ rmsg' = rmsg /\ rpc' = rpc
    BY <1>7 DEF EnqueueResponse, Enqueue, Insert, EnqueueWaits
  <2> QED BY <2>3, <2>4, <2>5
<1>8. CASE ConnectionLost
  <2>1. UNCHANGED <<queue, rmsg>> /\ rpc = "error" /\ rpc' \in {"done", "wait"}
    BY <1>8 DEF ConnectionLost, messageVars
  <2>2. Mine(rmsg') = {}
    BY <1>1, <2>1 DEF AsyncInv
  <2>3. CASE UNCHANGED <<link, requests, inbox>>
    BY <1>1, <1>2, <1>3, <1>o, <1>q, <2>1, <2>2, <2>3, SameFlow, FlowStep
  <2>4. CASE CloseLink
    <3>1. (Valid => OrderInv' /\ Loses) /\ link' # "up"
      BY <2>1, <2>4, CloseFlow
    <3> QED BY <1>1, <1>2, <1>3, <1>q, <2>1, <2>2, <3>1, FlowStep
  <2>5. UNCHANGED <<link, requests, inbox>> \/ CloseLink
    BY <1>8 DEF ConnectionLost
  <2> QED BY <2>3, <2>4, <2>5
<1> QED BY <1>4, <1>5, <1>6, <1>7, <1>8

\* The ECMG keeps the invariant: it answers in order, and what it loses is at the end.
LEMMA EcmgIInv ==
    ASSUME IInv, Ecmg, UNCHANGED <<slotVars, timeVars, cycleVars, optVars, abort>>
    PROVE  IInv'
<1>1. Types' /\ Types /\ AsyncInv
  BY EcmgTypes DEF IInv
<1>2. /\ UNCHANGED <<cp, genSlot, currentCW, currentECM, first, abort, sync>>
      /\ UNCHANGED <<ret, async, rpc, rmsg, handler, apc, reply, queue>>
  BY DEF slotVars, cycleVars, optVars, Ecmg, EcmgAnswer, EcmgSend, EcmgDisconnect, messageVars,
         clientVars, appVars
<1>3. /\ ~sync => Ecms(queue') = {} /\ (rpc' = "enqueue" => Mine(rmsg') = {})
      /\ rpc' \notin {"dispatch", "handle", "enqueue"} => Mine(rmsg') = {}
  BY <1>1, <1>2 DEF AsyncInv
<1>o. (Valid => OrderInv) /\ inbox \in Seq(Replies) /\ requests \in Seq(Requests)
  BY <1>1 DEF IInv, MatchInv, Types, ClientTypes
<1>4. CASE EcmgAnswer
  <2> DEFINE m == Head(requests)
             a == [m EXCEPT !.tag = Answers[@]]
  <2>1. /\ requests # <<>> /\ requests' = Tail(requests) /\ link' = link
        /\ inbox' = IF m.tag \in DOMAIN Answers THEN Append(inbox, a) ELSE inbox
    BY <1>4 DEF EcmgAnswer
  <2>2. /\ Ecms(requests) = Mine(m) \cup Ecms(requests') /\ m \in Requests
        /\ InOrder(requests) => InOrder(requests') /\ Before(Mine(m), Ecms(requests'))
    BY <1>o, <2>1, EcmsTail
  <2>3. IF m.tag \in DOMAIN Answers THEN a \in Replies /\ Mine(a) = Mine(m) ELSE Mine(m) = {}
    BY <2>2, AnswerContent
  <2> HIDE DEF m, a
  <2>4. /\ Ecms(inbox') = Ecms(inbox) \cup Mine(m)
        /\ InOrder(inbox) /\ Before(Ecms(inbox), Mine(m)) => InOrder(inbox')
    <3>1. CASE m.tag \in DOMAIN Answers
      <4>1. inbox' = Append(inbox, a) /\ a \in Replies /\ Mine(a) = Mine(m)
        BY <2>1, <2>3, <3>1
      <4>2. /\ Ecms(Append(inbox, a)) = Ecms(inbox) \cup Mine(a)
            /\ InOrder(inbox) /\ Before(Ecms(inbox), Mine(a)) => InOrder(Append(inbox, a))
        BY <1>o, <4>1, EcmsAppend
      <4> QED BY <4>1, <4>2
    <3>2. CASE m.tag \notin DOMAIN Answers
      <4>1. inbox' = inbox /\ Mine(m) = {}
        BY <2>1, <2>3, <3>2
      <4> QED BY <4>1
    <3> QED BY <3>1, <3>2
  <2>5. Flow' = Flow
    BY <1>2, <2>2, <2>4 DEF Flow
  <2>6. OrderInv => OrderInv'
    BY <1>2, <2>2, <2>4 DEF OrderInv, Before
  <2>7. Loses
    BY <2>5 DEF Loses
  <2> QED BY <1>1, <1>2, <1>3, <1>o, <2>1, <2>5, <2>6, <2>7, FlowStep
<1>5. CASE EcmgSend
  <2>1. PICK tag \in {"test", "error"} : inbox' = Append(inbox, Simple(tag))
    BY <1>5 DEF EcmgSend
  <2>2. Simple(tag) \in Replies /\ Mine(Simple(tag)) = {} /\ UNCHANGED <<link, requests>>
    BY <1>5, SimpleMessages DEF ReplyTags, EcmgSend
  <2>3. Before(Ecms(inbox), Mine(Simple(tag)))
    BY <2>2 DEF Before
  <2>4. /\ Ecms(Append(inbox, Simple(tag))) = Ecms(inbox) \cup Mine(Simple(tag))
        /\ InOrder(inbox) => InOrder(Append(inbox, Simple(tag)))
    BY <1>o, <2>2, <2>3, EcmsAppend
  <2>5. Ecms(inbox') = Ecms(inbox) /\ (InOrder(inbox) => InOrder(inbox'))
    BY <2>1, <2>2, <2>4
  <2>6. Flow' = Flow
    BY <1>2, <2>2, <2>5 DEF Flow
  <2>7. OrderInv => OrderInv'
    BY <1>2, <2>2, <2>5 DEF OrderInv, Before
  <2>8. Loses
    BY <2>6 DEF Loses
  <2> QED BY <1>1, <1>2, <1>3, <1>o, <2>2, <2>6, <2>7, <2>8, FlowStep
<1>6. CASE EcmgDisconnect
  <2>1. link' = "eof" /\ requests' = <<>> /\ inbox' = inbox
    BY <1>6 DEF EcmgDisconnect
  <2>2. Ecms(requests') = {} /\ InOrder(requests')
    BY <2>1, EcmsEmpty
  <2>3. OrderInv => OrderInv'
    BY <1>2, <2>1, <2>2 DEF OrderInv, Before
  <2>4. ASSUME OrderInv PROVE Loses
    <3>1. Flow' \subseteq Flow
      BY <1>2, <2>1, <2>2 DEF Flow
    <3>2. ASSUME NEW x \in Flow', NEW y \in Flow \ Flow' PROVE x[1] = 0 /\ y[1] = 1
      <4>1. x \in Ecms(queue) \cup Mine(rmsg) \cup Ecms(inbox) /\ y \in Ecms(requests)
        BY <1>2, <2>1, <2>2, <3>2 DEF Flow
      <4> QED BY <2>4, <4>1 DEF OrderInv, Before
    <3> QED BY <3>1, <3>2 DEF Loses
  <2> QED BY <1>1, <1>2, <1>3, <1>o, <2>1, <2>3, <2>4, FlowStep
<1> QED BY <1>4, <1>5, <1>6 DEF Ecmg

\* A step of the plugin thread on the labels and the distances only.
LEMMA LabelIInv ==
    ASSUME IInv, Types', UNCHANGED <<messageVars, clientVars, linkVars, ret, reply, slotVars, optVars,
                                     currentCW, currentECM, first, abort>>,
           {apc, apc'} \cap (GenLabels \cup {"initNext"}) = {}
    PROVE  IInv'
<1>1. /\ UNCHANGED <<cp, genSlot, currentCW, currentECM, first, abort, sync, ret, async>>
      /\ UNCHANGED <<queue, rmsg, inbox, requests>> /\ UNCHANGED <<rpc, rmsg, handler>>
      /\ link' = link /\ reply' = reply
  BY DEF messageVars, clientVars, linkVars, slotVars, optVars
<1>2. (Valid => OrderInv) /\ AsyncInv
  BY DEF IInv, MatchInv
<1>3. /\ ~sync => Ecms(queue') = {} /\ (rpc' = "enqueue" => Mine(rmsg') = {})
      /\ rpc' \notin {"dispatch", "handle", "enqueue"} => Mine(rmsg') = {}
  BY <1>1, <1>2 DEF AsyncInv
<1> QED BY <1>1, <1>2, <1>3, SameFlow, FlowStep

-----------------------------------------------------------------------------
(***************************************************************************)
(* The handler of a response in the receiver thread.                       *)
(***************************************************************************)
\* Two objects which await a response have different numbers.
LEMMA NumSlot ==
    ASSUME IInv, NEW j \in Slots, NEW k \in Slots, Awaits(j), Awaits(k), cp[j].num = cp[k].num
    PROVE  j = k
<1>1. CASE Both
  <2>1. cp[0].num # cp[1].num
    BY <1>1, Distinct DEF IInv
  <2> QED BY <2>1 DEF Slots
<1>2. CASE ~Both
  BY <1>2 DEF Awaits
<1> QED BY <1>1, <1>2

\* The search of a response in the map finds the handler of its object, and no other one.
LEMMA DispatchIInv ==
    ASSUME IInv, DispatchMessage, UNCHANGED <<slotVars, timeVars, cycleVars, optVars, abort>>
    PROVE  IInv'
<1> DEFINE found == IF rmsg.tag = "ECM_response" THEN Registered(rmsg.cp) ELSE {}
           x == <<rmsg.cp, rmsg.cws>>
<1>1. Types' /\ Types /\ AsyncInv
  BY ReceiverTypes DEF IInv, ReceiverThread
<1>2. /\ UNCHANGED <<cp, genSlot, currentCW, currentECM, first, abort, sync>>
      /\ UNCHANGED <<ret, apc, reply, queue, rmsg, inbox, requests, link>>
  BY DEF slotVars, cycleVars, optVars, DispatchMessage, appVars, messageVars, linkVars
<1>3. /\ rpc = "dispatch" /\ async' = async \ found
      /\ IF found = {} THEN rpc' = "enqueue" /\ handler' = handler
         ELSE rpc' = "handle" /\ \E r \in found : handler' = r[2]
  BY DEF DispatchMessage, PendingAfter
<1>4. Flow' = Flow /\ OrderInv' = OrderInv /\ Loses
  BY <1>2, SameFlow
<1>o. (Valid => OrderInv) /\ (~sync => Ecms(queue) = {})
  BY <1>1 DEF IInv, MatchInv, AsyncInv
<1>m. /\ rmsg.tag = "ECM_response" => Mine(rmsg) = {x}
      /\ rmsg.tag # "ECM_response" => Mine(rmsg) = {}
  <2>1. rmsg.tag \in ReplyTags
    BY <1>1 DEF Types, ClientTypes, Replies
  <2>2. rmsg.tag # "CW_provision"
    BY <2>1 DEF ReplyTags
  <2> QED BY <2>2 DEF Mine, IsECM
<1>f. \A r : r \in found <=> rmsg.tag = "ECM_response" /\ r \in async /\ r[1] = rmsg.cp
  BY DEF Registered
<1> HIDE DEF found
<1>5. CASE found = {}
  <2>1. async' = async /\ rpc' = "enqueue" /\ handler' = handler
    BY <1>3, <1>5
  <2>2. ASSUME ~sync, Mine(rmsg) # {} PROVE FALSE
    <3>1. rmsg.tag = "ECM_response" /\ x \in Flow
      BY <1>m, <2>2 DEF Flow
    <3>2. FlowInv
      BY <2>2 DEF IInv, MatchInv, Valid
    <3>3. PICK k \in Slots : <<x[1], k>> \in async
      BY <1>3, <2>2, <3>1, <3>2 DEF FlowInv
    <3>4. <<x[1], k>> \in found
      BY <1>f, <3>1, <3>3
    <3> QED BY <1>5, <3>4
  <2> QED BY <1>1, <1>2, <1>3, <1>4, <1>o, <2>1, <2>2, FlowStep
<1>6. CASE found # {}
  <2>1. PICK r \in found : handler' = r[2]
    <3>1. \E r \in found : handler' = r[2]
      BY <1>3, <1>6
    <3> QED BY <3>1
  <2> DEFINE h == r[2]
  <2>2. rpc' = "handle" /\ rmsg.tag = "ECM_response" /\ r \in async /\ r[1] = rmsg.cp
    BY <1>3, <1>6, <1>f
  <2>3. h \in Slots /\ ~sync /\ r[1] = cp[h].num /\ Awaits(h) /\ handler' = h
    BY <1>1, <2>1, <2>2 DEF AsyncInv, Types, ClientTypes
  <2> HIDE DEF h
  <2>4. FlowInv /\ ContentInv /\ OrderInv /\ Valid
    BY <2>3 DEF IInv, MatchInv, Valid
  <2>5. x \in Flow /\ x \in Mine(rmsg) /\ x[1] = cp[h].num
    BY <1>m, <2>2, <2>3 DEF Flow
  <2>6. Matches(x, h) /\ (apc \in {"generate"} \cup AsyncLabels => h # genSlot)
    <3>1. PICK k \in Slots : /\ Matches(x, k) /\ Awaits(k)
                             /\ apc \in {"generate"} \cup AsyncLabels => k # genSlot
      BY <2>4, <2>5 DEF FlowInv
    <3>2. cp[k].num = cp[h].num
      BY <2>5, <3>1 DEF Matches
    <3>3. k = h
      BY <2>3, <3>1, <3>2, NumSlot
    <3> QED BY <3>1, <3>3
  <2>7. \A e \in async : e \in async' <=> e[2] # h
    <3> SUFFICES ASSUME NEW e \in async PROVE e \in async' <=> e[2] # h
      OBVIOUS
    <3>1. e[2] \in Slots /\ e[1] = cp[e[2]].num /\ Awaits(e[2])
      BY <1>1 DEF AsyncInv, Types, ClientTypes
    <3>2. e[1] = cp[h].num <=> e[2] = h
      BY <2>3, <3>1, NumSlot
    <3> QED BY <1>3, <1>f, <2>2, <2>3, <3>2
  <2>8. async' \subseteq async
    BY <1>3
  <2>b. Both' = Both
    BY <1>2 DEF Both
  <2>a. \A k : Awaits(k)' = Awaits(k)
    BY <1>2, <2>b DEF Awaits
  <2>9. MatchInv'
    <3>1. ASSUME NEW y \in Flow
          PROVE  \E k \in Slots :
                    /\ Matches(y, k)' /\ Awaits(k)'
                    /\ sync' => apc' = "ecmReply" /\ k = genSlot'
                    /\ ~sync' => \/ <<y[1], k>> \in async'
                                 \/ rpc' = "handle" /\ y \in Mine(rmsg') /\ handler' = k
                    /\ apc' \in {"generate"} \cup AsyncLabels => k # genSlot'
      <4>1. PICK k \in Slots : /\ Matches(y, k) /\ Awaits(k) /\ <<y[1], k>> \in async
                               /\ apc \in {"generate"} \cup AsyncLabels => k # genSlot
        BY <1>3, <2>3, <2>4 DEF FlowInv
      <4>2. CASE k = h
        <5>1. y[1] = x[1]
          BY <2>5, <4>1, <4>2 DEF Matches
        <5>2. y \in Mine(rmsg)
          <6> SUFFICES ASSUME y \notin Mine(rmsg) PROVE FALSE
            OBVIOUS
          <6>1. y \in Ecms(inbox) \cup Ecms(requests)
            BY <1>o, <2>3 DEF Flow
          <6>2. x[1] = 0 /\ y[1] = 1
            BY <2>4, <2>5, <6>1 DEF OrderInv, Before
          <6> QED BY <5>1, <6>2
        <5>3. Matches(y, k)' /\ Awaits(k)'
          BY <1>2, <4>1, <2>a DEF Matches
        <5> QED BY <1>2, <2>2, <2>3, <4>1, <4>2, <5>2, <5>3
      <4>3. CASE k # h
        <5>1. <<y[1], k>> \in async'
          BY <2>7, <4>1, <4>3
        <5>2. Matches(y, k)' /\ Awaits(k)'
          BY <1>2, <4>1, <2>a DEF Matches
        <5> QED BY <1>2, <2>3, <4>1, <5>1, <5>2
      <4> QED BY <4>2, <4>3
    <3>2. FlowInv'
      BY <1>4, <3>1 DEF FlowInv
    <3>3. ContentInv'
      BY <1>2, <2>4 DEF ContentInv
    <3> QED BY <1>4, <2>4, <3>2, <3>3 DEF MatchInv
  <2>10. AsyncInv'
    <3>1. \A e \in async' : /\ e[1] = cp'[e[2]].num /\ Awaits(e[2])'
                            /\ apc' = "submit" => e[2] # genSlot'
      BY <1>1, <1>2, <2>8, <2>a DEF AsyncInv
    <3>2. /\ rmsg'.tag = "ECM_response" /\ Matches(<<rmsg.cp, rmsg.cws>>, handler)'
          /\ Awaits(handler)' /\ \A e \in async' : e[2] # handler'
      <4>1. Awaits(handler)'
        BY <1>2, <2>3, <2>b DEF Awaits
      <4> QED BY <1>2, <2>2, <2>3, <2>6, <2>7, <2>8, <4>1 DEF Matches
    <3>3. apc' = "submitSend" => <<cp'[genSlot'].num, genSlot'>> \in async'
      BY <1>1, <1>2, <2>6, <2>7 DEF AsyncInv, AsyncLabels
    <3>4. /\ ~sync' /\ apc' \in {"submitFailed", "genFailed"} => link' # "up"
          /\ ~sync' => Ecms(queue') = {}
      BY <1>1, <1>2 DEF AsyncInv
    <3> QED BY <1>2, <2>2, <2>3, <3>1, <3>2, <3>3, <3>4 DEF AsyncInv
  <2>11. GenInv'
    <3>1. Awaits(genSlot)' = Awaits(genSlot)
      BY <1>2, <2>b DEF Awaits
    <3>2. GenInv
      BY DEF IInv
    <3> QED BY <1>2, <1>4, <3>1, <3>2 DEF GenInv, Matches
  <2>12. LinkInv'
    BY <1>2, <2>b DEF IInv, LinkInv, Follows
  <2>13. FifoInv'
    <3>1. Settled(0) => Settled(0)'
      BY <1>2, <2>8 DEF Settled
    <3>2. Settled(currentCW) => Settled(currentCW)'
      BY <1>2, <2>8 DEF Settled
    <3>3. /\ Flying(0)' = Flying(0) /\ Flying(currentCW)' = Flying(currentCW)
          /\ Flying(1 - currentCW)' = Flying(1 - currentCW)
      BY <1>2, <1>4 DEF Flying
    <3> QED BY <1>2, <2>b, <3>1, <3>2, <3>3 DEF IInv, FifoInv
  <2>14. ReadyInv'
    <3>1. ReadyInv /\ Valid' = Valid
      BY <1>2 DEF IInv, Valid
    <3> QED BY <1>2, <1>4, <2>8, <2>b, <3>1 DEF ReadyInv
  <2> QED BY <1>1, <2>9, <2>10, <2>11, <2>12, <2>13, <2>14 DEF IInv
<1> QED BY <1>5, <1>6

\* handleECM() in the receiver thread: the response leaves the flow and its object is ready, or
\* the plugin aborts.
LEMMA AsyncHandleIInv ==
    ASSUME IInv, AsyncHandleECM
    PROVE  IInv'
<1> DEFINE h == handler
           x == <<rmsg.cp, rmsg.cws>>
<1>1. Types' /\ Types /\ AsyncInv
  BY HandledTypes DEF IInv
<1>2. /\ UNCHANGED <<genSlot, currentCW, currentECM, first, sync, async, ret, apc, reply>>
      /\ UNCHANGED <<queue, inbox, requests, link>>
      /\ rpc = "handle" /\ rpc' = "receive" /\ rmsg' = NoMessage /\ HandleECM(handler, rmsg)
  BY DEF AsyncHandleECM, cycleVars, optVars, appVars, messageVars, linkVars
<1>3. /\ h \in Slots /\ Matches(x, h) /\ Awaits(h) /\ ~sync /\ rmsg.tag = "ECM_response"
      /\ \A r \in async : r[2] # h
  BY <1>1, <1>2 DEF AsyncInv, Types, ClientTypes
<1>4. /\ \A k \in Slots : /\ cp'[k].num = cp[k].num /\ cp'[k].cw = cp[k].cw
                          /\ cp'[k].next = cp[k].next /\ (cp[k].ok => cp'[k].ok)
                          /\ k # h => cp'[k] = cp[k]
      /\ abort => abort'
      /\ \/ cp'[h].ok /\ cp'[h].ecm = rmsg.cws /\ abort' = abort
         \/ cp' = cp /\ abort'
  <2>1. h \in Slots /\ rmsg \in Replies /\ SlotTypes /\ HandleECM(h, rmsg)
    BY <1>1, <1>2 DEF Types, ClientTypes
  <2>2. \/ /\ abort' = abort /\ cp'[h].ok /\ cp'[h].ecm = rmsg.cws /\ cp'[h].num = cp[h].num
           /\ cp'[h].cw = cp[h].cw /\ cp'[h].next = cp[h].next
           /\ \A j \in Slots \ {h} : cp'[j] = cp[j]
        \/ abort' /\ cp' = cp
    BY <2>1, HandleTypes
  <2> HIDE DEF h
  <2> QED BY <2>2
<1>5. Mine(rmsg) = {x} /\ Mine(rmsg') = {} /\ Ecms(queue) = {}
  BY <1>1, <1>2, <1>3, SimpleMessages DEF Mine, IsECM, AsyncInv
<1> HIDE DEF h
<1>v. Valid /\ Valid'
  BY <1>2, <1>3 DEF Valid
<1>6. OrderInv /\ FlowInv /\ ContentInv
  BY <1>v DEF IInv, MatchInv
<1>7. Flow = Flow' \cup {x} /\ Flow' = Ecms(inbox) \cup Ecms(requests)
  BY <1>2, <1>5 DEF Flow
<1>8. \A y \in Flow' : x[1] = 0 /\ y[1] = 1
  BY <1>5, <1>6, <1>7 DEF OrderInv, Before
<1>9. \A y \in Flow : y[1] # x[1] => y \in Flow'
  BY <1>7
<1>x. x[1] = cp[h].num
  BY <1>3 DEF Matches
<1> HIDE DEF x
<1>b. Both' = Both
  BY <1>2 DEF Both
<1>a. \A k \in Slots \ {h} : Awaits(k) => Awaits(k)'
  <2> SUFFICES ASSUME NEW k \in Slots \ {h}, Awaits(k) PROVE Awaits(k)'
    OBVIOUS
  <2>1. cp'[k] = cp[k] /\ cp'[0].num = cp[0].num
    BY <1>4 DEF Slots
  <2> QED BY <1>2, <1>b, <2>1 DEF Awaits
<1>g. apc \in {"generate"} \cup AsyncLabels => h # genSlot
  <2>1. PICK k \in Slots : /\ Matches(x, k) /\ Awaits(k)
                           /\ apc \in {"generate"} \cup AsyncLabels => k # genSlot
    BY <1>6, <1>7 DEF FlowInv
  <2>2. cp[k].num = cp[h].num
    BY <1>x, <2>1 DEF Matches
  <2>3. k = h
    BY <1>3, <2>1, <2>2, NumSlot
  <2> QED BY <2>1, <2>3
<1>10. MatchInv'
  <2>1. OrderInv'
    BY <1>2, <1>5, <1>6 DEF OrderInv, Before
  <2>2. ContentInv'
    <3> SUFFICES ASSUME NEW k \in Slots, cp'[k].ok PROVE cp'[k].ecm = <<cp'[k].cw, cp'[k].next>>
      BY DEF ContentInv
    <3>1. CASE cp'[k] = cp[k]
      BY <1>6, <3>1 DEF ContentInv
    <3>2. CASE k = h /\ cp'[h].ecm = rmsg.cws
      BY <1>3, <1>4, <3>2 DEF Matches, x
    <3> QED BY <1>4, <3>1, <3>2
  <2>3. ASSUME NEW y \in Flow'
        PROVE  \E k \in Slots :
                  /\ Matches(y, k)' /\ Awaits(k)'
                  /\ sync' => apc' = "ecmReply" /\ k = genSlot'
                  /\ ~sync' => \/ <<y[1], k>> \in async'
                               \/ rpc' = "handle" /\ y \in Mine(rmsg') /\ handler' = k
                  /\ apc' \in {"generate"} \cup AsyncLabels => k # genSlot'
    <3>1. PICK k \in Slots : /\ Matches(y, k) /\ Awaits(k)
                             /\ <<y[1], k>> \in async \/ handler = k
                             /\ apc \in {"generate"} \cup AsyncLabels => k # genSlot
      BY <1>3, <1>6, <1>7 DEF FlowInv
    <3>2. k # h
      <4>1. y[1] = cp[k].num
        BY <3>1 DEF Matches
      <4> QED BY <1>8, <1>x, <4>1
    <3>3. Matches(y, k)' /\ Awaits(k)'
      BY <1>4, <1>a, <3>1, <3>2 DEF Matches
    <3>4. <<y[1], k>> \in async'
      BY <1>2, <3>1, <3>2 DEF h
    <3> QED BY <1>2, <1>3, <3>1, <3>3, <3>4
  <2>4. FlowInv'
    BY <2>3 DEF FlowInv
  <2> QED BY <2>1, <2>2, <2>4 DEF MatchInv
<1>11. AsyncInv'
  <2>1. \A r \in async' : /\ r[1] = cp'[r[2]].num /\ Awaits(r[2])'
                          /\ apc' = "submit" => r[2] # genSlot'
    <3> SUFFICES ASSUME NEW r \in async
                 PROVE  /\ r[1] = cp'[r[2]].num /\ Awaits(r[2])'
                        /\ apc = "submit" => r[2] # genSlot
      BY <1>2
    <3>1. r[2] \in Slots \ {h} /\ r[1] = cp[r[2]].num /\ Awaits(r[2])
          /\ (apc = "submit" => r[2] # genSlot)
      BY <1>1, <1>3 DEF AsyncInv, Types, ClientTypes
    <3> QED BY <1>4, <1>a, <3>1
  <2>2. apc' = "submitSend" => <<cp'[genSlot'].num, genSlot'>> \in async'
    <3>1. genSlot \in Slots
      BY <1>1 DEF Types, SlotTypes
    <3> QED BY <1>1, <1>2, <1>4, <3>1 DEF AsyncInv
  <2>3. ~sync' /\ apc' \in {"submitFailed", "genFailed"} => link' # "up"
    BY <1>1, <1>2 DEF AsyncInv
  <2> QED BY <1>2, <1>3, <1>5, <2>1, <2>2, <2>3 DEF AsyncInv
<1>12. GenInv'
  <2>1. apc' \notin SyncLabels
    BY <1>1, <1>2, <1>3 DEF Types, LabelTypes
  <2>2. ASSUME apc' \in GenLabels \ {"genFailed"}
        PROVE  Awaits(genSlot)' /\ (ret' # "initNext" => genSlot' = 1 - currentCW')
    <3>1. apc \in AsyncLabels /\ apc \in GenLabels \ {"genFailed"}
      BY <1>2, <2>1, <2>2 DEF GenLabels
    <3>2. genSlot \in Slots \ {h} /\ Awaits(genSlot) /\ (ret # "initNext" => genSlot = 1 - currentCW)
      BY <1>1, <1>g, <3>1 DEF IInv, GenInv, Types, SlotTypes
    <3>3. cp'[genSlot] = cp[genSlot] /\ cp'[0].num = cp[0].num
      BY <1>4, <3>2 DEF Slots
    <3> QED BY <1>2, <1>b, <3>2, <3>3 DEF Awaits
  <2> QED BY <2>1, <2>2 DEF GenInv, SyncLabels
<1>13. LinkInv'
  <2>1. /\ currentCW \in {0, 1} /\ currentECM \in {0, 1} /\ 1 - currentCW \in Slots
        /\ currentCW \in Slots /\ currentECM \in Slots
    BY <1>1 DEF Types, SlotTypes, Slots
  <2>2. \A j, k \in Slots : Follows(j, k)' <=> Follows(j, k)
    BY <1>4 DEF Follows
  <2>3. ~Both' => /\ currentCW' = 0 /\ currentECM' = 0 /\ first' /\ ~cp'[1].ok
                  /\ ret' = "initNext" => cp'[0].num = 0
                  /\ ret' = "connect" => ~cp'[0].ok /\ ~abort'
    <3> SUFFICES ASSUME ~Both
                 PROVE  /\ currentCW = 0 /\ currentECM = 0 /\ first /\ ~cp'[1].ok
                        /\ cp'[0].num = 0 /\ ret # "connect"
      BY <1>2, <1>b
    <3>1. h = 0 /\ ret = "initNext"
      BY <1>3 DEF Awaits
    <3>2. cp'[1] = cp[1] /\ cp'[0].num = cp[0].num
      BY <1>4, <3>1 DEF Slots
    <3> QED BY <3>1, <3>2 DEF IInv, LinkInv
  <2>4. LinkInv
    BY DEF IInv
  <2>5. Both /\ currentCW = currentECM => Follows(1 - currentCW, currentCW)'
    BY <2>1, <2>2, <2>4, <1>2 DEF LinkInv, Follows
  <2>6. Both /\ currentCW # currentECM =>
          Follows(currentCW, currentECM)' \/ Follows(currentECM, currentCW)'
    BY <1>2, <1>4, <2>1, <2>4 DEF LinkInv, Follows
  <2> QED BY <1>2, <1>b, <2>3, <2>5, <2>6 DEF LinkInv
<1>s. \A k \in Slots : k = h \/ Settled(k) => Settled(k)'
  <2>1. ASSUME NEW k \in Slots, k = h PROVE Settled(k)'
    BY <1>2, <1>3, <1>4, <2>1 DEF Settled
  <2>2. \A k \in Slots : Settled(k) => Settled(k)'
    BY <1>2, <1>4 DEF Settled
  <2> QED BY <2>1, <2>2
<1>f. \A k \in Slots : Flying(k) /\ cp[k].num # cp[h].num => Flying(k)'
  <2> SUFFICES ASSUME NEW k \in Slots, Flying(k), cp[k].num # cp[h].num PROVE Flying(k)'
    OBVIOUS
  <2>1. PICK y \in Flow : y[1] = cp[k].num
    BY DEF Flying
  <2>2. y \in Flow' /\ cp'[k].num = cp[k].num
    BY <1>4, <1>9, <1>x, <2>1
  <2> QED BY <2>1, <2>2 DEF Flying
<1>c. currentCW \in Slots /\ 1 - currentCW \in Slots /\ currentCW # 1 - currentCW
      /\ (h = currentCW \/ h = 1 - currentCW)
  BY <1>1, <1>3 DEF Types, SlotTypes, Slots
<1>h. Flying(h)
  BY <1>7, <1>x DEF Flying
<1>d. ASSUME Both PROVE cp[currentCW].num # cp[1 - currentCW].num
  BY <1>1, <1>c, <1>d, Distinct DEF IInv, Slots
<1>14. FifoInv'
  <2>1. ~Both => Settled(0)'
    <3>1. ~Both => h = 0 /\ 0 \in Slots
      BY <1>3 DEF Awaits, Slots
    <3> QED BY <1>s, <3>1
  <2>2. ASSUME ~sync, Both, currentCW = currentECM PROVE Settled(currentCW)' \/ Flying(currentCW)'
    <3>1. CASE h = currentCW
      <4>1. \A k \in Slots : k = currentCW => Settled(k)'
        BY <1>s, <3>1
      <4> QED BY <1>2, <1>c, <4>1 DEF Settled
    <3>2. CASE h = 1 - currentCW
      <4>1. Settled(currentCW) \/ Flying(currentCW)
        BY <1>h, <2>2, <3>2 DEF IInv, FifoInv
      <4>2. \A k \in Slots : k = currentCW => Settled(k)' \/ Flying(k)'
        BY <1>s, <1>f, <1>c, <1>d, <2>2, <3>2, <4>1
      <4> QED BY <1>2, <1>c, <4>2 DEF Settled, Flying
    <3> QED BY <1>c, <3>1, <3>2
  <2>3. ret' = "initNext" => ~Both
    BY <1>2 DEF Both, ReturnLabels, PacketLabels
  <2> QED BY <1>2, <1>b, <2>1, <2>2, <2>3 DEF FifoInv
<1>15. ReadyInv'
  <2>1. ReadyInv
    BY DEF IInv
  <2>2. ASSUME Both, currentCW = currentECM, cp'[1 - currentCW].ok
        PROVE  (cp'[currentCW].ok \/ abort') /\ Flow' = {} /\ async' = {}
    <3>1. ~cp[1 - currentCW].ok
      <4>1. Flow # {}
        BY <1>7
      <4> QED BY <1>v, <2>1, <2>2, <4>1 DEF ReadyInv
    <3>2. h = 1 - currentCW
      BY <1>4, <1>c, <2>2, <3>1
    <3>3. Flow' = {}
      <4> SUFFICES ASSUME NEW y \in Flow' PROVE FALSE
        OBVIOUS
      <4>1. x \in Flow /\ y \in Flow /\ x[1] = 0 /\ y[1] = 1
        BY <1>7, <1>8
      <4> QED BY <1>v, <1>x, <2>2, <3>2, <4>1, FirstOnly
    <3>4. ~Flying(currentCW)
      <4>1. \A y \in Flow : y = x
        BY <1>7, <3>3
      <4> QED BY <1>d, <1>x, <2>2, <3>2, <4>1 DEF Flying
    <3>5. Settled(currentCW)
      BY <1>3, <1>h, <2>2, <3>2, <3>4 DEF IInv, FifoInv
    <3>6. async' = {}
      <4> SUFFICES ASSUME NEW r \in async PROVE FALSE
        BY <1>2
      <4>1. r[2] \in Slots /\ r[2] # h /\ r[2] # currentCW
        BY <1>1, <1>3, <3>5 DEF Settled, Types, ClientTypes
      <4> QED BY <1>c, <3>2, <4>1 DEF Slots
    <3> QED BY <1>4, <1>c, <3>3, <3>5, <3>6 DEF Settled
  <2>3. /\ Both' /\ ~abort' /\ (currentCW' # currentECM' \/ ~first') =>
              cp'[currentCW'].ok /\ cp'[currentECM'].ok
        /\ ~sync'
    <3>1. currentCW \in Slots /\ currentECM \in Slots
      BY <1>1 DEF Types, SlotTypes
    <3> QED BY <1>2, <1>3, <1>4, <1>b, <2>1, <3>1 DEF ReadyInv
  <2> QED BY <1>2, <1>b, <2>2, <2>3 DEF ReadyInv
<1> QED BY <1>1, <1>10, <1>11, <1>12, <1>13, <1>14, <1>15 DEF IInv

-----------------------------------------------------------------------------
(***************************************************************************)
(* The generation of an ECM.                                               *)
(***************************************************************************)
\* What does not depend on the messages, in generateECM().
LEMMA GenObjects ==
    ASSUME IInv, apc \in GenLabels \ {"genFailed"}, apc' # "initNext" \/ ~sync,
           UNCHANGED <<cp, genSlot, currentCW, currentECM, first, abort, sync, ret>>
    PROVE  /\ LinkInv' /\ ReadyInv' /\ ContentInv' = ContentInv
           /\ Both' = Both /\ (\A k : Awaits(k)' = Awaits(k))
           /\ Awaits(genSlot) /\ Awaits(genSlot)' /\ genSlot \in Slots
           /\ ret' # "initNext" => genSlot' = 1 - currentCW'
           /\ Both => genSlot = 1 - currentCW /\ currentCW = 1 - genSlot
           /\ ~Both => genSlot = 0 /\ ret = "initNext"
           /\ ret = "initNext" => ~Both
<1>1. Both' = Both
  BY DEF Both
<1>2. (\A k : Awaits(k)' = Awaits(k)) /\ Awaits(genSlot)' = Awaits(genSlot)
  BY <1>1 DEF Awaits
<1>3. /\ Awaits(genSlot) /\ (ret # "initNext" => genSlot = 1 - currentCW)
      /\ LinkInv /\ ReadyInv /\ Types
  BY DEF IInv, GenInv
<1>4. genSlot \in Slots /\ currentCW \in {0, 1} /\ (ret = "initNext" => ~Both)
  BY <1>3 DEF Types, SlotTypes, Slots, Both, ReturnLabels, PacketLabels
<1>5. Both => genSlot = 1 - currentCW /\ currentCW = 1 - genSlot
  BY <1>3, <1>4
<1>6. LinkInv'
  BY <1>1, <1>3 DEF LinkInv, Follows
<1>7. ReadyInv'
  <2>1. Both => ~cp[1 - currentCW].ok
    BY <1>3, <1>5 DEF Awaits
  <2> QED BY <1>1, <1>3, <2>1 DEF ReadyInv
<1>8. ContentInv' = ContentInv
  BY DEF ContentInv
<1>9. ~Both => genSlot = 0 /\ ret = "initNext"
  BY <1>3 DEF Awaits
<1> QED BY <1>1, <1>2, <1>3, <1>4, <1>5, <1>6, <1>7, <1>8, <1>9

\* The request is registered before it is sent; no other one has its number.
LEMMA RegisterIInv ==
    ASSUME IInv, RegisterRequest(Provision, genSlot),
           UNCHANGED <<slotVars, timeVars, cycleVars, optVars, abort>>
    PROVE  IInv'
<1>1. Types' /\ Types /\ AsyncInv
  BY GenerateTypes DEF IInv, GenerateECM
<1>2. /\ UNCHANGED <<cp, genSlot, currentCW, currentECM, first, abort, sync, ret>>
      /\ UNCHANGED <<rpc, rmsg, handler, reply, queue, inbox, requests, link>>
      /\ apc = "submit" /\ apc' = "submitSend"
  BY DEF slotVars, cycleVars, optVars, RegisterRequest, messageVars, linkVars, GoTo
<1>3. ~sync /\ apc \in GenLabels \ {"genFailed"}
  BY <1>1, <1>2 DEF Types, LabelTypes, GenLabels, AsyncLabels
<1>4. /\ LinkInv' /\ ReadyInv' /\ ContentInv' = ContentInv
      /\ Both' = Both /\ (\A k : Awaits(k)' = Awaits(k))
      /\ Awaits(genSlot) /\ Awaits(genSlot)' /\ genSlot \in Slots
      /\ ret' # "initNext" => genSlot' = 1 - currentCW'
      /\ Both => genSlot = 1 - currentCW /\ currentCW = 1 - genSlot
      /\ ret = "initNext" => ~Both
  BY <1>2, <1>3, GenObjects
<1>5. async' = async \cup {<<cp[genSlot].num, genSlot>>}
  <2>1. \A r \in async : r[1] # cp[genSlot].num
    <3> SUFFICES ASSUME NEW r \in async, r[1] = cp[genSlot].num PROVE FALSE
      OBVIOUS
    <3>1. r[2] \in Slots /\ r[1] = cp[r[2]].num /\ Awaits(r[2]) /\ r[2] # genSlot
      BY <1>1, <1>2 DEF AsyncInv, Types, ClientTypes
    <3> QED BY <1>4, <3>1, NumSlot
  <2>2. Provision.cp = cp[genSlot].num
    BY <1>1, ProvisionType DEF Types
  <2>3. Registered(Provision.cp) = {}
    BY <2>1, <2>2 DEF Registered
  <2>4. async' = async \cup (IF Registered(Provision.cp) = {} THEN {<<Provision.cp, genSlot>>} ELSE {})
    BY DEF RegisterRequest
  <2> QED BY <2>2, <2>3, <2>4
<1>6. Flow' = Flow /\ OrderInv' = OrderInv /\ Valid /\ Valid'
  BY <1>2, <1>3, SameFlow DEF Valid
<1>7. FlowInv /\ OrderInv /\ ContentInv
  BY <1>6 DEF IInv, MatchInv
<1>8. MatchInv'
  <2>1. ASSUME NEW x \in Flow
        PROVE  \E k \in Slots :
                  /\ Matches(x, k)' /\ Awaits(k)'
                  /\ sync' => apc' = "ecmReply" /\ k = genSlot'
                  /\ ~sync' => \/ <<x[1], k>> \in async'
                               \/ rpc' = "handle" /\ x \in Mine(rmsg') /\ handler' = k
                  /\ apc' \in {"generate"} \cup AsyncLabels => k # genSlot'
    <3>1. PICK k \in Slots :
            /\ Matches(x, k) /\ Awaits(k)
            /\ \/ <<x[1], k>> \in async
               \/ rpc = "handle" /\ x \in Mine(rmsg) /\ handler = k
            /\ k # genSlot
      BY <1>2, <1>3, <1>7 DEF FlowInv, AsyncLabels
    <3>2. Matches(x, k)' /\ Awaits(k)'
      BY <1>2, <1>4, <3>1 DEF Matches
    <3> QED BY <1>2, <1>3, <1>5, <3>1, <3>2
  <2>2. FlowInv'
    BY <1>6, <2>1 DEF FlowInv
  <2> QED BY <1>4, <1>6, <1>7, <2>2 DEF MatchInv
<1>9. AsyncInv'
  <2>1. \A r \in async' : r[1] = cp'[r[2]].num /\ Awaits(r[2])'
    <3>1. ASSUME NEW r \in async' PROVE r[1] = cp[r[2]].num /\ Awaits(r[2])
      <4>1. CASE r \in async
        BY <1>1, <4>1 DEF AsyncInv
      <4>2. CASE r = <<cp[genSlot].num, genSlot>>
        <5>1. r[1] = cp[genSlot].num /\ r[2] = genSlot
          BY <4>2
        <5> QED BY <1>4, <5>1
      <4> QED BY <1>5, <3>1, <4>1, <4>2
    <3> QED BY <1>2, <1>4, <3>1
  <2>2. ASSUME rpc = "handle"
        PROVE  /\ rmsg'.tag = "ECM_response" /\ Matches(<<rmsg.cp, rmsg.cws>>, handler)'
               /\ Awaits(handler)' /\ \A r \in async' : r[2] # handler'
    <3>1. /\ rmsg.tag = "ECM_response" /\ Matches(<<rmsg.cp, rmsg.cws>>, handler)
          /\ Awaits(handler) /\ (\A r \in async : r[2] # handler) /\ handler \in Slots
      BY <1>1, <2>2 DEF AsyncInv, Types, ClientTypes
    <3>2. <<rmsg.cp, rmsg.cws>> \in Flow
      BY <3>1 DEF Flow, Mine, IsECM
    <3>3. PICK k \in Slots : Matches(<<rmsg.cp, rmsg.cws>>, k) /\ Awaits(k) /\ k # genSlot
      BY <1>2, <1>7, <3>2 DEF FlowInv, AsyncLabels
    <3>4. k = handler
      BY <3>1, <3>3, NumSlot DEF Matches
    <3>5. Awaits(handler)' = Awaits(handler)
      BY <1>2, <1>4 DEF Awaits
    <3>6. \A r \in async' : r[2] # handler
      <4> SUFFICES ASSUME NEW r \in async' PROVE r[2] # handler
        OBVIOUS
      <4>1. r \in async \/ r[2] = genSlot
        BY <1>5
      <4> QED BY <3>1, <3>3, <3>4, <4>1
    <3> QED BY <1>2, <3>1, <3>5, <3>6 DEF Matches
  <2> QED BY <1>1, <1>2, <1>3, <1>5, <2>1, <2>2 DEF AsyncInv
<1>10. GenInv'
  BY <1>2, <1>4 DEF GenInv
<1>11. FifoInv'
  <2>1. Both => (Settled(currentCW)' <=> Settled(currentCW))
    <3> SUFFICES ASSUME Both PROVE Settled(currentCW)' <=> Settled(currentCW)
      OBVIOUS
    <3>1. genSlot # currentCW
      BY <1>1, <1>4 DEF Types, SlotTypes, Slots
    <3>2. (\A r \in async' : r[2] # currentCW) <=> (\A r \in async : r[2] # currentCW)
      <4>1. \A r \in async' : r \in async \/ r[2] = genSlot
        BY <1>5
      <4> QED BY <1>5, <3>1, <4>1
    <3> QED BY <1>2, <3>2 DEF Settled
  <2>2. Flying(currentCW)' = Flying(currentCW) /\ Flying(1 - currentCW)' = Flying(1 - currentCW)
    BY <1>2, <1>6 DEF Flying
  <2> QED BY <1>2, <1>4, <2>1, <2>2 DEF IInv, FifoInv
<1> QED BY <1>1, <1>4, <1>8, <1>9, <1>10, <1>11 DEF IInv

\* The request of the next object comes behind the one of the first object, or alone.
LEMMA ProvisionOrder ==
    ASSUME IInv, Valid, apc \in {"generate"} \cup AsyncLabels, NEW y \in Flow
    PROVE  y[1] = 0 /\ cp[genSlot].num = 1
<1>1. apc \in GenLabels \ {"genFailed"} /\ Types /\ LinkInv /\ FlowInv
  BY DEF GenLabels, SyncLabels, AsyncLabels, IInv, MatchInv
<1>2. Awaits(genSlot) /\ genSlot \in Slots /\ (ret # "initNext" => genSlot = 1 - currentCW)
  BY <1>1 DEF IInv, GenInv, Types, SlotTypes
<1>3. PICK k \in Slots : Matches(y, k) /\ Awaits(k) /\ k # genSlot
  BY <1>1 DEF FlowInv
<1>4. Both
  BY <1>2, <1>3 DEF Awaits
<1>5. genSlot = 1 - currentCW /\ currentCW \in {0, 1} /\ k \in {0, 1}
  BY <1>1, <1>2, <1>4 DEF Both, ReturnLabels, PacketLabels, Types, SlotTypes, Slots
<1>6. k = currentCW
  BY <1>3, <1>5
<1>7. k = 0 /\ cp[0].num = 0 /\ currentCW = currentECM
  BY <1>3, <1>6 DEF Awaits
<1>8. Follows(1 - currentCW, currentCW)
  BY <1>1, <1>4, <1>7 DEF LinkInv
<1>9. cp[genSlot].num = (0 + 1) % CpModulus
  BY <1>5, <1>6, <1>7, <1>8 DEF Follows
<1>10. (0 + 1) % CpModulus = 1
  BY Constants
<1>11. y[1] = 0
  BY <1>3, <1>7 DEF Matches
<1> QED BY <1>9, <1>10, <1>11

\* The request for an ECM is sent: it comes last.
LEMMA ProvisionSent ==
    ASSUME IInv, apc \in {"generate"} \cup AsyncLabels, NEW ok \in BOOLEAN, Sent(Provision, ok),
           UNCHANGED <<queue, rmsg>>
    PROVE  LET x == <<cp[genSlot].num, <<cp[genSlot].cw, cp[genSlot].next>>>>
           IN  /\ link' = link
               /\ link = "up" => ok /\ Flow' = Flow \cup {x}
               /\ link # "up" => Flow' = Flow
               /\ Valid => OrderInv'
<1> DEFINE x == <<cp[genSlot].num, <<cp[genSlot].cw, cp[genSlot].next>>>>
<1>1. Provision \in Requests /\ Mine(Provision) = {x} /\ ClientTypes /\ requests \in Seq(Requests)
  BY ProvisionType DEF IInv, Types, ClientTypes
<1>2. /\ link # "up" => requests' = requests
      /\ link = "up" => requests' = Append(requests, Provision) /\ ok
      /\ UNCHANGED <<link, inbox>>
  BY <1>1, SentTypes
<1>3. Valid => OrderInv
  BY DEF IInv, MatchInv
<1> HIDE DEF Provision
<1>4. CASE link # "up"
  BY <1>2, <1>3, <1>4, SameFlow
<1>5. CASE link = "up"
  <2>1. /\ Ecms(requests') = Ecms(requests) \cup {x}
        /\ InOrder(requests) /\ Before(Ecms(requests), {x}) => InOrder(requests')
    <3>1. /\ Ecms(Append(requests, Provision)) = Ecms(requests) \cup Mine(Provision)
          /\ InOrder(requests) /\ Before(Ecms(requests), Mine(Provision)) =>
                InOrder(Append(requests, Provision))
      BY <1>1, EcmsAppend
    <3> QED BY <1>1, <1>2, <1>5, <3>1
  <2>2. Flow' = Flow \cup {x}
    BY <1>2, <2>1 DEF Flow
  <2>3. ASSUME Valid PROVE OrderInv'
    <3>1. \A y \in Flow : y[1] = 0 /\ x[1] = 1
      BY <2>3, ProvisionOrder
    <3>2. /\ Before(Ecms(queue), {x}) /\ Before(Mine(rmsg), {x}) /\ Before(Ecms(inbox), {x})
          /\ Before(Ecms(requests), {x})
      BY <3>1 DEF Before, Flow
    <3> HIDE DEF x
    <3> QED BY <1>2, <1>3, <2>1, <2>3, <3>2 DEF OrderInv, Before
  <2> QED BY <1>2, <1>5, <2>2, <2>3
<1> QED BY <1>4, <1>5

\* The request is sent, or the send fails, in submitECM().
LEMMA SubmitIInv ==
    ASSUME IInv, SubmitProvision(Provision),
           UNCHANGED <<slotVars, timeVars, cycleVars, optVars, abort>>
    PROVE  IInv'
<1> DEFINE x == <<cp[genSlot].num, <<cp[genSlot].cw, cp[genSlot].next>>>>
<1>1. Types' /\ Types /\ AsyncInv
  BY GenerateTypes DEF IInv, GenerateECM
<1>2. /\ UNCHANGED <<cp, genSlot, currentCW, currentECM, first, abort, sync, ret>>
      /\ UNCHANGED <<async, rpc, rmsg, handler, reply, queue>>
      /\ apc = "submitSend" /\ apc \in {"generate"} \cup AsyncLabels
  BY DEF slotVars, cycleVars, optVars, SubmitProvision, messageVars, clientVars, AsyncLabels
<1>3. PICK ok \in BOOLEAN : Sent(Provision, ok) /\ apc' = IF ok THEN ret ELSE "submitFailed"
  BY DEF SubmitProvision, GoTo
<1>4. ~sync /\ apc \in GenLabels \ {"genFailed"}
  BY <1>1, <1>2 DEF Types, LabelTypes, GenLabels, AsyncLabels
<1>5. /\ LinkInv' /\ ReadyInv' /\ ContentInv' = ContentInv
      /\ Both' = Both /\ (\A k : Awaits(k)' = Awaits(k))
      /\ Awaits(genSlot) /\ Awaits(genSlot)' /\ genSlot \in Slots
      /\ ret' # "initNext" => genSlot' = 1 - currentCW'
      /\ ~Both => genSlot = 0 /\ ret = "initNext"
      /\ ret = "initNext" => ~Both
  BY <1>2, <1>4, GenObjects
<1>6. /\ link' = link /\ Valid /\ Valid' /\ OrderInv'
      /\ link = "up" => apc' = ret /\ Flow' = Flow \cup {x}
      /\ link # "up" => Flow' = Flow
  BY <1>2, <1>3, <1>4, ProvisionSent DEF Valid
<1>7. FlowInv /\ ContentInv
  BY <1>6 DEF IInv, MatchInv
<1>8. x \in Flow' \ Flow => apc' = ret
  BY <1>6
<1>r. ret \notin GenLabels
  BY <1>1 DEF Types, LabelTypes, GenLabels, SyncLabels, AsyncLabels, ReturnLabels, PacketLabels
<1>9. MatchInv'
  <2>1. ASSUME NEW y \in Flow'
        PROVE  \E k \in Slots :
                  /\ Matches(y, k)' /\ Awaits(k)'
                  /\ sync' => apc' = "ecmReply" /\ k = genSlot'
                  /\ ~sync' => \/ <<y[1], k>> \in async'
                               \/ rpc' = "handle" /\ y \in Mine(rmsg') /\ handler' = k
                  /\ apc' \in {"generate"} \cup AsyncLabels => k # genSlot'
    <3>1. CASE y \in Flow
      <4>1. PICK k \in Slots :
              /\ Matches(y, k) /\ Awaits(k)
              /\ \/ <<y[1], k>> \in async
                 \/ rpc = "handle" /\ y \in Mine(rmsg) /\ handler = k
              /\ k # genSlot
        BY <1>2, <1>4, <1>7, <3>1 DEF FlowInv, AsyncLabels
      <4>2. Matches(y, k)' /\ Awaits(k)'
        BY <1>2, <1>5, <4>1 DEF Matches
      <4> QED BY <1>2, <1>4, <4>1, <4>2
    <3>2. CASE y \notin Flow
      <4>1. y = x /\ apc' = ret
        BY <1>6, <2>1, <3>2
      <4>2. Matches(y, genSlot) /\ y[1] = cp[genSlot].num
        BY <4>1 DEF Matches
      <4>3. <<y[1], genSlot>> \in async
        BY <1>1, <1>2, <4>2 DEF AsyncInv
      <4>4. \A k : k = genSlot => Matches(y, k)' /\ Awaits(k)'
        BY <1>2, <1>5, <4>2 DEF Matches
      <4>5. apc' \notin {"generate"} \cup AsyncLabels
        BY <1>r, <4>1 DEF GenLabels, SyncLabels
      <4> QED BY <1>2, <1>4, <1>5, <4>3, <4>4, <4>5
    <3> QED BY <3>1, <3>2
  <2>2. FlowInv'
    BY <2>1 DEF FlowInv
  <2> QED BY <1>5, <1>6, <1>7, <2>2 DEF MatchInv
<1>10. AsyncInv'
  <2>1. \A r \in async' : r[1] = cp'[r[2]].num /\ Awaits(r[2])'
    BY <1>1, <1>2, <1>5 DEF AsyncInv
  <2>2. ASSUME rpc' = "handle"
        PROVE  /\ rmsg'.tag = "ECM_response" /\ Matches(<<rmsg.cp, rmsg.cws>>, handler)'
               /\ Awaits(handler)' /\ \A r \in async' : r[2] # handler'
    <3>1. Awaits(handler)' = Awaits(handler)
      BY <1>2, <1>5 DEF Awaits
    <3> QED BY <1>1, <1>2, <2>2, <3>1 DEF AsyncInv, Matches
  <2>3. apc' \notin {"submit", "submitSend"}
    BY <1>3, <1>r DEF GenLabels, AsyncLabels
  <2>4. apc' \in {"submitFailed", "genFailed"} => link' # "up"
    BY <1>6, <1>r DEF GenLabels, AsyncLabels
  <2> QED BY <1>1, <1>2, <1>4, <2>1, <2>2, <2>3, <2>4 DEF AsyncInv
<1>11. GenInv'
  <2>1. apc' # "gotECM"
    BY <1>3, <1>r DEF GenLabels, SyncLabels
  <2> QED BY <1>5, <2>1 DEF GenInv
<1>12. FifoInv'
  <2>1. \A k : Settled(k)' = Settled(k)
    BY <1>2 DEF Settled
  <2>2. Settled(currentCW)' = Settled(currentCW)
    BY <1>2 DEF Settled
  <2>3. Flying(currentCW) => Flying(currentCW)'
    BY <1>2, <1>6 DEF Flying
  <2>4. link # "up" => Flying(1 - currentCW)' = Flying(1 - currentCW)
    BY <1>2, <1>6 DEF Flying
  <2>5. link = "up" /\ ret = "initNext" => Flying(0)'
    <3> SUFFICES ASSUME link = "up", ret = "initNext" PROVE Flying(0)'
      OBVIOUS
    <3>1. genSlot = 0 /\ x \in Flow' /\ x[1] = cp'[0].num
      BY <1>2, <1>5, <1>6
    <3> QED BY <3>1 DEF Flying
  <2> QED BY <1>2, <1>5, <1>6, <2>2, <2>3, <2>4, <2>5 DEF IInv, FifoInv
<1> QED BY <1>1, <1>5, <1>9, <1>10, <1>11, <1>12 DEF IInv

\* The send has failed: only this request is unregistered.
LEMMA UnregisterIInv ==
    ASSUME IInv, UnregisterRequest(Provision),
           UNCHANGED <<slotVars, timeVars, cycleVars, optVars, abort>>
    PROVE  IInv'
<1>1. Types' /\ Types /\ AsyncInv
  BY GenerateTypes DEF IInv, GenerateECM
<1>2. /\ UNCHANGED <<cp, genSlot, currentCW, currentECM, first, abort, sync, ret>>
      /\ UNCHANGED <<rpc, rmsg, handler, reply, queue, inbox, requests, link>>
      /\ apc = "submitFailed" /\ apc' = "genFailed"
  BY DEF slotVars, cycleVars, optVars, UnregisterRequest, messageVars, linkVars, GoTo
<1>3. ~sync /\ apc \in GenLabels \ {"genFailed"} /\ link # "up"
  BY <1>1, <1>2 DEF Types, LabelTypes, GenLabels, AsyncLabels, AsyncInv
<1>4. /\ LinkInv' /\ ReadyInv' /\ ContentInv' = ContentInv
      /\ Both' = Both /\ (\A k : Awaits(k)' = Awaits(k))
      /\ Awaits(genSlot) /\ genSlot \in Slots
  BY <1>2, <1>3, GenObjects
<1>5. /\ async' \subseteq async
      /\ \A r \in async : r[1] # cp[genSlot].num => r \in async'
  <2>1. Provision.cp = cp[genSlot].num /\ async' = async \ Registered(Provision.cp)
    BY <1>1, ProvisionType DEF Types, UnregisterRequest
  <2> QED BY <2>1 DEF Registered
<1>6. Flow' = Flow /\ OrderInv' = OrderInv /\ Valid /\ Valid'
  BY <1>2, <1>3, SameFlow DEF Valid
<1>7. FlowInv /\ OrderInv /\ ContentInv
  BY <1>6 DEF IInv, MatchInv
<1>8. MatchInv'
  <2>1. ASSUME NEW x \in Flow
        PROVE  \E k \in Slots :
                  /\ Matches(x, k)' /\ Awaits(k)'
                  /\ sync' => apc' = "ecmReply" /\ k = genSlot'
                  /\ ~sync' => \/ <<x[1], k>> \in async'
                               \/ rpc' = "handle" /\ x \in Mine(rmsg') /\ handler' = k
                  /\ apc' \in {"generate"} \cup AsyncLabels => k # genSlot'
    <3>1. PICK k \in Slots :
            /\ Matches(x, k) /\ Awaits(k)
            /\ \/ <<x[1], k>> \in async
               \/ rpc = "handle" /\ x \in Mine(rmsg) /\ handler = k
            /\ k # genSlot
      BY <1>2, <1>3, <1>7 DEF FlowInv, AsyncLabels
    <3>2. Matches(x, k)' /\ Awaits(k)'
      BY <1>2, <1>4, <3>1 DEF Matches
    <3>3. x[1] = cp[k].num /\ cp[k].num # cp[genSlot].num
      BY <1>4, <3>1, NumSlot DEF Matches
    <3>4. <<x[1], k>> \in async => <<x[1], k>> \in async'
      BY <1>5, <3>3
    <3> QED BY <1>2, <1>3, <3>1, <3>2, <3>4
  <2>2. FlowInv'
    BY <1>6, <2>1 DEF FlowInv
  <2> QED BY <1>4, <1>6, <1>7, <2>2 DEF MatchInv
<1>9. AsyncInv'
  <2>1. \A r \in async' : r[1] = cp'[r[2]].num /\ Awaits(r[2])'
    BY <1>1, <1>2, <1>4, <1>5 DEF AsyncInv
  <2>2. ASSUME rpc' = "handle"
        PROVE  /\ rmsg'.tag = "ECM_response" /\ Matches(<<rmsg.cp, rmsg.cws>>, handler)'
               /\ Awaits(handler)' /\ \A r \in async' : r[2] # handler'
    <3>1. Awaits(handler)' = Awaits(handler)
      BY <1>2, <1>4 DEF Awaits
    <3> QED BY <1>1, <1>2, <1>5, <2>2, <3>1 DEF AsyncInv, Matches
  <2> QED BY <1>1, <1>2, <1>3, <2>1, <2>2 DEF AsyncInv
<1>10. GenInv'
  BY <1>2 DEF GenInv
<1>11. FifoInv'
  <2>1. Settled(currentCW) => Settled(currentCW)'
    BY <1>2, <1>5 DEF Settled
  <2>2. Flying(currentCW)' = Flying(currentCW) /\ Flying(1 - currentCW)' = Flying(1 - currentCW)
    BY <1>2, <1>6 DEF Flying
  <2> QED BY <1>2, <1>3, <1>4, <2>1, <2>2 DEF IInv, FifoInv
<1> QED BY <1>1, <1>4, <1>8, <1>9, <1>10, <1>11 DEF IInv

\* The request is sent, or the send fails, in generateECM().
LEMMA SendIInv ==
    ASSUME IInv, SendProvision(Provision),
           UNCHANGED <<slotVars, timeVars, cycleVars, optVars, abort>>
    PROVE  IInv'
<1> DEFINE x == <<cp[genSlot].num, <<cp[genSlot].cw, cp[genSlot].next>>>>
<1>1. Types' /\ Types /\ AsyncInv
  BY GenerateTypes DEF IInv, GenerateECM
<1>2. /\ UNCHANGED <<cp, genSlot, currentCW, currentECM, first, abort, sync, ret>>
      /\ UNCHANGED <<async, rpc, rmsg, handler, reply, queue>>
      /\ apc = "generate" /\ apc \in {"generate"} \cup AsyncLabels
  BY DEF slotVars, cycleVars, optVars, SendProvision, messageVars, clientVars
<1>3. PICK ok \in BOOLEAN : Sent(Provision, ok) /\ apc' = IF ok THEN "ecmReply" ELSE "genFailed"
  BY DEF SendProvision, GoTo
<1>4. sync /\ apc \in GenLabels \ {"genFailed"} /\ apc' # "initNext"
  BY <1>1, <1>2, <1>3 DEF Types, LabelTypes, GenLabels, SyncLabels
<1>5. /\ LinkInv' /\ ReadyInv' /\ ContentInv' = ContentInv
      /\ Both' = Both /\ (\A k : Awaits(k)' = Awaits(k))
      /\ Awaits(genSlot) /\ Awaits(genSlot)' /\ genSlot \in Slots
      /\ ret' # "initNext" => genSlot' = 1 - currentCW'
  BY <1>2, <1>4, GenObjects
<1>6. Flow' \subseteq Flow \cup {x} /\ (Valid => OrderInv') /\ link' = link
  BY <1>2, <1>3, ProvisionSent
<1>7. MatchInv'
  <2> SUFFICES ASSUME Valid' PROVE OrderInv' /\ FlowInv' /\ ContentInv'
    BY DEF MatchInv
  <2>1. Valid /\ apc' = "ecmReply"
    BY <1>2, <1>3, <1>4 DEF Valid
  <2>2. Flow = {} /\ ContentInv
    BY <1>2, <1>4, <2>1 DEF IInv, MatchInv, FlowInv
  <2>3. ASSUME NEW y \in Flow'
        PROVE  \E k \in Slots :
                  /\ Matches(y, k)' /\ Awaits(k)'
                  /\ sync' => apc' = "ecmReply" /\ k = genSlot'
                  /\ ~sync' => \/ <<y[1], k>> \in async'
                               \/ rpc' = "handle" /\ y \in Mine(rmsg') /\ handler' = k
                  /\ apc' \in {"generate"} \cup AsyncLabels => k # genSlot'
    <3>1. Matches(y, genSlot)
      BY <1>6, <2>2 DEF Matches
    <3>2. \A k : k = genSlot => Matches(y, k)' /\ Awaits(k)'
      BY <1>2, <1>5, <3>1 DEF Matches
    <3> QED BY <1>2, <1>4, <1>5, <2>1, <3>2 DEF AsyncLabels
  <2>4. FlowInv'
    BY <2>3 DEF FlowInv
  <2> QED BY <1>5, <1>6, <2>1, <2>2, <2>4
<1>8. AsyncInv'
  <2>1. async' = {} /\ rpc' # "handle" /\ sync'
    BY <1>1, <1>2, <1>4 DEF AsyncInv
  <2>2. apc' # "submitSend" /\ (rpc' \notin {"dispatch", "handle", "enqueue"} => Mine(rmsg') = {})
    BY <1>1, <1>2, <1>3 DEF AsyncInv
  <2> QED BY <2>1, <2>2 DEF AsyncInv
<1>9. GenInv'
  BY <1>3, <1>5 DEF GenInv
<1>10. FifoInv'
  BY <1>2, <1>4 DEF FifoInv
<1> QED BY <1>1, <1>5, <1>7, <1>8, <1>9, <1>10 DEF IInv

\* generateECM() only accepts the response to its own request, after which there is no other one.
LEMMA ReplyIInv ==
    ASSUME IInv, EcmReply(Provision),
           UNCHANGED <<slotVars, timeVars, cycleVars, optVars, abort>>
    PROVE  IInv'
<1>1. Types' /\ Types /\ AsyncInv
  BY GenerateTypes DEF IInv, GenerateECM
<1>2. /\ UNCHANGED <<cp, genSlot, currentCW, currentECM, first, abort, sync, ret>>
      /\ UNCHANGED <<async, rpc, rmsg, handler, inbox, requests, link>> /\ apc = "ecmReply"
  BY DEF slotVars, cycleVars, optVars, EcmReply, linkVars, clientVars
<1>3. AwaitReply("ECM_response", cp[genSlot].num, "gotECM", "genFailed")
  <2>1. Provision.cp = cp[genSlot].num
    BY <1>1, ProvisionType DEF Types
  <2> QED BY <2>1 DEF EcmReply
<1>4. sync /\ apc \in GenLabels \ {"genFailed"} /\ apc' \in {"ecmReply", "gotECM", "genFailed"}
  BY <1>1, <1>2, <1>3, AwaitTypes DEF Types, LabelTypes, GenLabels, SyncLabels
<1>5. /\ LinkInv' /\ ReadyInv' /\ ContentInv' = ContentInv
      /\ Both' = Both /\ (\A k : Awaits(k)' = Awaits(k))
      /\ Awaits(genSlot) /\ Awaits(genSlot)' /\ genSlot \in Slots
      /\ ret' # "initNext" => genSlot' = 1 - currentCW'
  BY <1>2, <1>4, GenObjects
<1>6. AsyncInv'
  <2>1. async' = {} /\ rpc' # "handle" /\ sync'
    BY <1>1, <1>2, <1>4 DEF AsyncInv
  <2>2. apc' # "submitSend" /\ (rpc' \notin {"dispatch", "handle", "enqueue"} => Mine(rmsg') = {})
    BY <1>1, <1>2, <1>4 DEF AsyncInv
  <2> QED BY <2>1, <2>2 DEF AsyncInv
<1>7. FifoInv'
  BY <1>2, <1>4 DEF FifoInv
<1>8. CASE apc' = "genFailed"
  <2>1. MatchInv'
    BY <1>2, <1>4, <1>8 DEF MatchInv, Valid
  <2>2. GenInv'
    BY <1>8 DEF GenInv
  <2> QED BY <1>1, <1>5, <1>6, <1>7, <2>1, <2>2 DEF IInv
<1>9. CASE apc' = "ecmReply"
  <2>1. queue' = queue
    BY <1>3, <1>9 DEF AwaitReply, GoTo, DequeueWaits, DequeueTimeout
  <2>2. Flow' = Flow /\ OrderInv' = OrderInv /\ Loses
    BY <1>2, <2>1, SameFlow
  <2>3. Valid => OrderInv
    BY DEF IInv, MatchInv
  <2>4. rpc' \notin {"dispatch", "handle", "enqueue"} => Mine(rmsg') = {}
    BY <1>6 DEF AsyncInv
  <2> QED BY <1>1, <1>2, <1>4, <1>9, <2>2, <2>3, <2>4, FlowStep
<1>10. CASE apc' = "gotECM"
  <2> DEFINE m == Head(queue)
             x == <<m.cp, m.cws>>
  <2>1. queue # <<>> /\ queue' = Tail(queue) /\ reply' = m /\ m.tag = "ECM_response"
        /\ m.cp = cp[genSlot].num
    BY <1>2, <1>3, <1>10 DEF AwaitReply, Dequeue, DequeueWaits, DequeueTimeout, GoTo
  <2>2. /\ Ecms(queue) = Mine(m) \cup Ecms(queue')
        /\ InOrder(queue) => InOrder(queue') /\ Before(Mine(m), Ecms(queue'))
    BY <1>1, <2>1, EcmsTail DEF Types, ClientTypes
  <2>3. Mine(m) = {x} /\ x[1] = cp[genSlot].num
    BY <2>1 DEF Mine, IsECM
  <2>4. Valid' = Valid /\ (Valid <=> ~abort)
    BY <1>2, <1>4, <1>10 DEF Valid
  <2>5. ASSUME ~abort
        PROVE  OrderInv' /\ Flow' = {} /\ Matches(x, genSlot) /\ ContentInv
    <3>1. OrderInv /\ FlowInv /\ ContentInv
      BY <2>4, <2>5 DEF IInv, MatchInv
    <3>2. \A y \in Flow : Matches(y, genSlot)
      BY <1>4, <3>1 DEF FlowInv
    <3>3. x \in Flow
      BY <2>2, <2>3 DEF Flow
    <3>4. Flow' = {}
      <4> SUFFICES ASSUME NEW y \in Flow' PROVE FALSE
        OBVIOUS
      <4>1. y \in Ecms(queue') \cup Mine(rmsg) \cup Ecms(inbox) \cup Ecms(requests)
        BY <1>2 DEF Flow
      <4>2. x \in Ecms(queue) /\ x \in Mine(m)
        BY <2>2, <2>3
      <4> HIDE DEF x
      <4>3. x[1] = 0 /\ y[1] = 1
        BY <2>2, <3>1, <4>1, <4>2 DEF OrderInv, Before
      <4>4. y \in Flow
        BY <2>2, <4>1 DEF Flow
      <4>5. y = x
        BY <3>2, <3>3, <4>4 DEF Matches
      <4> QED BY <4>3, <4>5
    <3>5. OrderInv'
      <4>1. Ecms(queue') = {} /\ Mine(rmsg') = {} /\ Ecms(inbox') = {} /\ Ecms(requests') = {}
        BY <3>4 DEF Flow
      <4> QED BY <1>2, <2>2, <3>1, <4>1 DEF OrderInv, Before
    <3> QED BY <3>1, <3>2, <3>3, <3>4, <3>5
  <2>6. MatchInv'
    BY <1>5, <2>4, <2>5 DEF MatchInv, FlowInv
  <2>7. GenInv'
    <3>1. ~abort' => /\ Matches(<<reply.cp, reply.cws>>, genSlot)' /\ reply'.tag = "ECM_response"
                     /\ Flow' = {}
      BY <1>2, <2>1, <2>5 DEF Matches
    <3> QED BY <1>5, <3>1 DEF GenInv
  <2> QED BY <1>1, <1>5, <1>6, <1>7, <2>6, <2>7 DEF IInv
<1> QED BY <1>4, <1>8, <1>9, <1>10

\* generateECM() and submitECM() keep the invariant.
LEMMA GenerateIInv ==
    ASSUME IInv, GenerateECM(Provision, genSlot),
           UNCHANGED <<slotVars, timeVars, cycleVars, optVars, abort>>
    PROVE  IInv'
  BY RegisterIInv, SubmitIInv, UnregisterIInv, SendIInv, ReplyIInv DEF GenerateECM

\* The end of generateECM() keeps the invariant.
LEMMA GeneratedIInv ==
    ASSUME IInv, SyncHandleECM \/ GenerateFailed
    PROVE  IInv'
<1>1. Types' /\ Types /\ AsyncInv /\ LinkInv /\ ReadyInv
  BY HandledTypes DEF IInv
<1>2. /\ UNCHANGED <<genSlot, currentCW, currentECM, first, sync, ret>>
      /\ UNCHANGED <<async, rpc, rmsg, handler, queue, inbox, requests, link>>
      /\ apc \in {"gotECM", "genFailed"} /\ apc' = ret
  BY DEF slotVars, cycleVars, optVars, SyncHandleECM, GenerateFailed, linkVars, clientVars,
         messageVars, GoTo
<1>3. /\ currentCW \in Slots /\ currentECM \in Slots /\ 1 - currentCW \in Slots
      /\ 0 \in Slots /\ 1 \in Slots /\ genSlot \in Slots
  BY <1>1 DEF Types, SlotTypes, Slots
<1>4. ret # "connect" /\ ret \notin GenLabels /\ (ret = "initNext" => ~Both)
      /\ (~Both => ret = "initNext")
  BY <1>1, <1>2 DEF Types, LabelTypes, StartLabels, GenLabels, SyncLabels, AsyncLabels, ReturnLabels,
                    PacketLabels, EndLabels, Both
<1>5. Flow' = Flow /\ OrderInv' = OrderInv /\ Both' = Both
  BY <1>2, SameFlow DEF Both
<1>6. GenInv'
  BY <1>2, <1>4 DEF GenInv, GenLabels, SyncLabels
<1>7. CASE GenerateFailed
  <2>1. apc = "genFailed" /\ abort' /\ cp' = cp
    BY <1>7 DEF GenerateFailed, slotVars
  <2>a. \A k : Awaits(k)' = Awaits(k)
    BY <1>2, <1>5, <2>1 DEF Awaits
  <2>2. MatchInv'
    <3> SUFFICES ASSUME Valid' PROVE OrderInv' /\ FlowInv' /\ ContentInv'
      BY DEF MatchInv
    <3>1. ~sync /\ Valid
      BY <1>2, <2>1 DEF Valid
    <3>2. OrderInv /\ FlowInv /\ ContentInv
      BY <3>1 DEF IInv, MatchInv
    <3>3. ASSUME NEW y \in Flow'
          PROVE  \E k \in Slots :
                    /\ Matches(y, k)' /\ Awaits(k)'
                    /\ sync' => apc' = "ecmReply" /\ k = genSlot'
                    /\ ~sync' => \/ <<y[1], k>> \in async'
                                 \/ rpc' = "handle" /\ y \in Mine(rmsg') /\ handler' = k
                    /\ apc' \in {"generate"} \cup AsyncLabels => k # genSlot'
      <4>1. PICK k \in Slots :
              /\ Matches(y, k) /\ Awaits(k)
              /\ \/ <<y[1], k>> \in async
                 \/ rpc = "handle" /\ y \in Mine(rmsg) /\ handler = k
        BY <1>5, <3>1, <3>2 DEF FlowInv
      <4>2. Matches(y, k)' /\ Awaits(k)'
        BY <2>1, <2>a, <4>1 DEF Matches
      <4> QED BY <1>2, <1>4, <3>1, <4>1, <4>2 DEF GenLabels, SyncLabels
    <3>4. FlowInv'
      BY <3>3 DEF FlowInv
    <3> QED BY <1>5, <2>1, <3>2, <3>4 DEF ContentInv
  <2>3. AsyncInv'
    <3>1. \A r \in async' : r[1] = cp'[r[2]].num /\ Awaits(r[2])'
      BY <1>1, <1>2, <2>1, <2>a DEF AsyncInv
    <3>2. ASSUME rpc' = "handle"
          PROVE  /\ rmsg'.tag = "ECM_response" /\ Matches(<<rmsg.cp, rmsg.cws>>, handler)'
                 /\ Awaits(handler)' /\ \A r \in async' : r[2] # handler'
      <4>1. Awaits(handler)' = Awaits(handler)
        BY <1>2, <1>5, <2>1 DEF Awaits
      <4> QED BY <1>1, <1>2, <2>1, <3>2, <4>1 DEF AsyncInv, Matches
    <3>3. apc' \notin {"submit", "submitSend", "submitFailed", "genFailed"}
      BY <1>2, <1>4 DEF GenLabels, AsyncLabels
    <3> QED BY <1>1, <1>2, <3>1, <3>2, <3>3 DEF AsyncInv
  <2>4. LinkInv'
    BY <1>1, <1>2, <1>4, <1>5, <2>1 DEF LinkInv, Follows
  <2>5. FifoInv'
    <3>1. Settled(currentCW) => Settled(currentCW)'
      BY <1>2, <2>1 DEF Settled
    <3>2. Flying(currentCW)' = Flying(currentCW) /\ Flying(1 - currentCW)' = Flying(1 - currentCW)
      BY <1>2, <1>5, <2>1 DEF Flying
    <3>3. ~sync => link # "up"
      BY <1>1, <2>1 DEF AsyncInv
    <3> QED BY <1>2, <1>5, <3>1, <3>2, <3>3 DEF IInv, FifoInv
  <2>6. ReadyInv'
    <3>1. Valid' => Valid
      BY <1>2, <2>1 DEF Valid
    <3> QED BY <1>1, <1>2, <1>5, <2>1, <3>1 DEF ReadyInv
  <2> QED BY <1>1, <1>6, <2>2, <2>3, <2>4, <2>5, <2>6 DEF IInv
<1>8. CASE SyncHandleECM
  <2>1. apc = "gotECM" /\ HandleECM(genSlot, reply) /\ sync
    BY <1>1, <1>8 DEF SyncHandleECM, Types, LabelTypes, SyncLabels
  <2>2. /\ \A k \in Slots : /\ cp'[k].num = cp[k].num /\ cp'[k].cw = cp[k].cw
                            /\ cp'[k].next = cp[k].next /\ (cp[k].ok => cp'[k].ok)
                            /\ k # genSlot => cp'[k] = cp[k]
        /\ abort => abort'
        /\ \/ cp'[genSlot].ok /\ cp'[genSlot].ecm = reply.cws /\ abort' = abort
           \/ cp' = cp /\ abort'
    <3>1. reply \in Replies /\ SlotTypes
      BY <1>1 DEF Types, ClientTypes
    <3>2. \/ /\ abort' = abort /\ cp'[genSlot].ok /\ cp'[genSlot].ecm = reply.cws
             /\ cp'[genSlot].num = cp[genSlot].num
             /\ cp'[genSlot].cw = cp[genSlot].cw /\ cp'[genSlot].next = cp[genSlot].next
             /\ \A j \in Slots \ {genSlot} : cp'[j] = cp[j]
          \/ abort' /\ cp' = cp
      BY <1>3, <2>1, <3>1, HandleTypes
    <3> QED BY <3>2
  <2>3. ASSUME ~abort
        PROVE  /\ Matches(<<reply.cp, reply.cws>>, genSlot) /\ Flow = {}
               /\ OrderInv /\ ContentInv
    BY <2>1, <2>3 DEF IInv, GenInv, MatchInv, Valid
  <2>4. Valid' <=> ~abort'
    BY <1>2, <1>4, <2>1 DEF Valid, GenLabels
  <2>5. MatchInv'
    <3> SUFFICES ASSUME ~abort' PROVE OrderInv' /\ FlowInv' /\ ContentInv'
      BY <2>4 DEF MatchInv
    <3>1. ~abort /\ cp'[genSlot].ecm = reply.cws
      BY <2>2
    <3>2. ContentInv'
      <4> SUFFICES ASSUME NEW k \in Slots, cp'[k].ok PROVE cp'[k].ecm = <<cp'[k].cw, cp'[k].next>>
        BY DEF ContentInv
      <4>1. CASE k # genSlot
        BY <2>2, <2>3, <3>1, <4>1 DEF ContentInv
      <4>2. CASE k = genSlot
        BY <2>2, <2>3, <3>1, <4>2 DEF Matches
      <4> QED BY <4>1, <4>2
    <3> QED BY <1>5, <2>3, <3>1, <3>2 DEF FlowInv
  <2>6. AsyncInv'
    <3>1. async' = {} /\ rpc' # "handle" /\ sync'
      BY <1>1, <1>2, <2>1 DEF AsyncInv
    <3>2. apc' # "submitSend" /\ (rpc' \notin {"dispatch", "handle", "enqueue"} => Mine(rmsg') = {})
      BY <1>1, <1>2, <1>4 DEF AsyncInv, GenLabels, AsyncLabels
    <3> QED BY <3>1, <3>2 DEF AsyncInv
  <2>g. ~Both => genSlot = 0
    BY <2>1 DEF IInv, GenInv, GenLabels, SyncLabels, Awaits
  <2>7. LinkInv'
    <3>1. Both /\ currentCW = currentECM => Follows(1 - currentCW, currentCW)'
      BY <1>1, <1>2, <1>3, <2>2 DEF LinkInv, Follows
    <3>2. Both /\ currentCW # currentECM =>
            Follows(currentCW, currentECM)' \/ Follows(currentECM, currentCW)'
      BY <1>1, <1>2, <1>3, <2>2 DEF LinkInv, Follows
    <3>3. ~Both => /\ currentCW = 0 /\ currentECM = 0 /\ first /\ ~cp'[1].ok
                   /\ cp'[0].num = 0 /\ ret = "initNext"
      BY <1>1, <1>3, <1>4, <2>2, <2>g DEF LinkInv
    <3> QED BY <1>2, <1>5, <3>1, <3>2, <3>3 DEF LinkInv
  <2>8. FifoInv'
    BY <1>2, <2>1 DEF FifoInv
  <2>9. ReadyInv'
    <3> SUFFICES ASSUME ~abort'
                 PROVE  /\ Both => cp'[currentCW].ok
                        /\ Flow' = {} /\ async' = {}
                        /\ Both /\ (currentCW # currentECM \/ ~first) =>
                              cp'[currentCW].ok /\ cp'[currentECM].ok
                        /\ apc' = "initNext" => cp'[0].ok
      BY <1>2, <1>5, <2>1, <2>4 DEF ReadyInv
    <3>1. ~abort /\ cp'[genSlot].ok
      BY <2>2
    <3>2. Flow' = {} /\ async' = {}
      BY <1>1, <1>2, <1>5, <2>1, <2>3, <3>1 DEF AsyncInv
    <3>3. apc' = "initNext" => cp'[0].ok
      BY <1>2, <1>4, <2>g, <3>1
    <3> QED BY <1>1, <1>3, <2>1, <2>2, <3>1, <3>2, <3>3 DEF ReadyInv
  <2> QED BY <1>1, <1>6, <2>5, <2>6, <2>7, <2>8, <2>9 DEF IInv
<1> QED BY <1>7, <1>8

-----------------------------------------------------------------------------
(***************************************************************************)
(* start() and the transitions.                                            *)
(***************************************************************************)
\* initCycle() of the first object.
LEMMA InitCycleIInv ==
    ASSUME IInv, InitCycle
    PROVE  IInv'
<1>1. Types' /\ Types /\ AsyncInv /\ LinkInv
  BY StartTypes DEF IInv
<1>2. /\ cp' = [cp EXCEPT ![0] = Slot(0, 0, 1)] /\ genSlot' = 0 /\ ret' = "initNext"
      /\ apc' = (IF sync THEN "generate" ELSE "submit") /\ apc = "connected"
      /\ UNCHANGED <<currentCW, currentECM, first, abort, sync>>
      /\ UNCHANGED <<async, rpc, rmsg, handler, reply, queue, inbox, requests, link>>
  BY DEF InitCycle, GenerateFor, GoTo, cycleVars, optVars, messageVars, clientVars, linkVars
<1>3. ret = "connect" /\ ~Both /\ ~Both'
  BY <1>1, <1>2 DEF Types, LabelTypes, StartLabels, Both, ReturnLabels, PacketLabels
<1>4. Valid /\ OrderInv /\ Flow = {} /\ rpc # "handle" /\ async = {}
  BY <1>3, StartFlow
<1>5. Flow' = {} /\ OrderInv'
  BY <1>2, <1>4, SameFlow
<1>6. /\ currentCW = 0 /\ currentECM = 0 /\ first /\ ~cp[1].ok
  BY <1>1, <1>3 DEF LinkInv
<1>7. ~cp'[0].ok /\ cp'[0].num = 0 /\ ~cp'[1].ok
  <2>1. cp'[0] = Slot(0, 0, 1) /\ cp'[1] = cp[1]
    <3> HIDE DEF Slot
    <3> QED BY <1>1, <1>2 DEF Types, SlotTypes, Slots
  <2> QED BY <1>6, <2>1 DEF Slot
<1>8. MatchInv'
  BY <1>5, <1>7 DEF MatchInv, FlowInv, ContentInv, Slots
<1>9. AsyncInv'
  BY <1>1, <1>2, <1>4 DEF AsyncInv
<1>10. GenInv'
  <2>1. Awaits(genSlot)'
    BY <1>2, <1>6, <1>7 DEF Awaits
  <2> QED BY <1>2, <2>1 DEF GenInv
<1>11. LinkInv' /\ FifoInv' /\ ReadyInv'
  BY <1>2, <1>3, <1>6, <1>7 DEF LinkInv, FifoInv, ReadyInv
<1> QED BY <1>1, <1>8, <1>9, <1>10, <1>11 DEF IInv

\* initNext() of the second object: the first one may still wait for its response.
LEMMA StartNextIInv ==
    ASSUME IInv, StartNext
    PROVE  IInv'
<1>1. Types' /\ Types /\ AsyncInv /\ LinkInv
  BY StartTypes DEF IInv
<1>2. /\ genSlot' = 1 /\ ret' = "started" /\ InitNext(0, "started")
      /\ apc' = (IF sync THEN "generate" ELSE "submit") /\ apc = "initNext"
      /\ UNCHANGED <<currentCW, currentECM, first, abort, sync>>
      /\ UNCHANGED <<async, rpc, rmsg, handler, reply, queue, inbox, requests, link>>
  BY DEF StartNext, InitNext, GenerateFor, GoTo, cycleVars, optVars, messageVars, clientVars, linkVars
<1>3. ret = "initNext" /\ ~Both /\ Both' /\ 0 \in Slots
  BY <1>1, <1>2 DEF Types, LabelTypes, Both, ReturnLabels, PacketLabels, Slots
<1>4. /\ cp'[0] = cp[0] /\ cp'[1].num = (cp[0].num + 1) % CpModulus
      /\ cp'[1].ok = FALSE /\ cp'[1].cw = cp[0].next
  BY <1>1, <1>2, <1>3, InitNextTypes DEF Types
<1>5. currentCW = 0 /\ currentECM = 0 /\ first /\ cp[0].num = 0 /\ cp'[1].num = 1
  <2>1. currentCW = 0 /\ currentECM = 0 /\ first /\ cp[0].num = 0
    BY <1>1, <1>3 DEF LinkInv
  <2>2. (0 + 1) % CpModulus = 1
    BY Constants
  <2> QED BY <1>4, <2>1, <2>2
<1>6. Flow' = Flow /\ OrderInv' = OrderInv /\ Valid' = Valid
  BY <1>2, SameFlow DEF Valid
<1>7. \A k \in Slots : Awaits(k) => k = 0 /\ Awaits(k)'
  BY <1>2, <1>3, <1>4 DEF Awaits
<1>8. MatchInv'
  <2> SUFFICES ASSUME Valid PROVE OrderInv' /\ FlowInv' /\ ContentInv'
    BY <1>6 DEF MatchInv
  <2>1. OrderInv /\ FlowInv /\ ContentInv
    BY DEF IInv, MatchInv
  <2>2. ContentInv'
    BY <1>4, <2>1 DEF ContentInv, Slots
  <2>3. ASSUME NEW y \in Flow'
        PROVE  \E k \in Slots :
                  /\ Matches(y, k)' /\ Awaits(k)'
                  /\ sync' => apc' = "ecmReply" /\ k = genSlot'
                  /\ ~sync' => \/ <<y[1], k>> \in async'
                               \/ rpc' = "handle" /\ y \in Mine(rmsg') /\ handler' = k
                  /\ apc' \in {"generate"} \cup AsyncLabels => k # genSlot'
    <3>1. PICK k \in Slots :
            /\ Matches(y, k) /\ Awaits(k)
            /\ sync => apc = "ecmReply"
            /\ ~sync => \/ <<y[1], k>> \in async
                        \/ rpc = "handle" /\ y \in Mine(rmsg) /\ handler = k
      BY <1>6, <2>1 DEF FlowInv
    <3>2. k = 0 /\ Awaits(k)' /\ ~sync
      BY <1>2, <1>7, <3>1
    <3>3. Matches(y, k)'
      BY <1>4, <3>1, <3>2 DEF Matches
    <3> QED BY <1>2, <3>1, <3>2, <3>3
  <2>4. FlowInv'
    BY <2>3 DEF FlowInv
  <2> QED BY <1>6, <2>1, <2>2, <2>4
<1>9. AsyncInv'
  <2>1. \A r \in async' : /\ r[1] = cp'[r[2]].num /\ Awaits(r[2])'
                          /\ apc' = "submit" => r[2] # genSlot'
    <3> SUFFICES ASSUME NEW r \in async
                 PROVE  r[1] = cp'[r[2]].num /\ Awaits(r[2])' /\ r[2] # 1
      BY <1>2
    <3>1. r[2] \in Slots /\ r[1] = cp[r[2]].num /\ Awaits(r[2])
      BY <1>1 DEF AsyncInv, Types, ClientTypes
    <3> QED BY <1>4, <1>7, <3>1
  <2>2. ASSUME rpc' = "handle"
        PROVE  /\ rmsg'.tag = "ECM_response" /\ Matches(<<rmsg.cp, rmsg.cws>>, handler)'
               /\ Awaits(handler)' /\ \A r \in async' : r[2] # handler'
    <3>1. /\ rmsg.tag = "ECM_response" /\ Matches(<<rmsg.cp, rmsg.cws>>, handler)
          /\ Awaits(handler) /\ (\A r \in async : r[2] # handler) /\ handler \in Slots
      BY <1>1, <1>2, <2>2 DEF AsyncInv, Types, ClientTypes
    <3>2. handler = 0 /\ \A k : k = handler => Awaits(k)'
      BY <1>7, <3>1
    <3>3. Awaits(handler)'
      BY <1>2, <3>2 DEF Awaits
    <3> QED BY <1>2, <1>4, <3>1, <3>2, <3>3 DEF Matches
  <2> QED BY <1>1, <1>2, <2>1, <2>2 DEF AsyncInv
<1>10. GenInv'
  <2>1. Awaits(genSlot)' /\ genSlot' = 1 - currentCW'
    BY <1>2, <1>3, <1>4, <1>5 DEF Awaits
  <2> QED BY <1>2, <2>1 DEF GenInv
<1>11. LinkInv'
  <2>1. Follows(1 - currentCW, currentCW)'
    BY <1>2, <1>4, <1>5 DEF Follows
  <2> QED BY <1>2, <1>3, <1>5, <2>1 DEF LinkInv
<1>12. FifoInv'
  <2> SUFFICES ASSUME ~sync, link = "up" \/ Flying(1)' PROVE Settled(0)' \/ Flying(0)'
    <3>1. Flying(1 - currentCW)' = Flying(1)' /\ Settled(currentCW)' = Settled(0)'
          /\ Flying(currentCW)' = Flying(0)'
      BY <1>2, <1>5 DEF Flying, Settled
    <3> QED BY <1>2, <1>3, <3>1 DEF FifoInv
  <2>1. link = "up"
    <3> SUFFICES ASSUME Flying(1)' PROVE FALSE
      OBVIOUS
    <3>1. PICK y \in Flow : y[1] = cp'[1].num
      BY <1>6 DEF Flying
    <3>2. FlowInv
      BY DEF IInv, MatchInv, Valid
    <3>3. PICK k \in Slots : Matches(y, k) /\ Awaits(k)
      BY <3>2 DEF FlowInv
    <3>4. y[1] = cp[0].num
      BY <1>7, <3>3 DEF Matches
    <3> QED BY <1>5, <3>1, <3>4
  <2>2. Settled(0) \/ Flying(0)
    BY <1>2, <1>3, <2>1 DEF IInv, FifoInv
  <2> QED BY <1>2, <1>4, <1>6, <2>2 DEF Settled, Flying
<1>13. ReadyInv'
  BY <1>2, <1>4, <1>5 DEF IInv, ReadyInv
<1> QED BY <1>1, <1>8, <1>9, <1>10, <1>11, <1>12, <1>13 DEF IInv

\* A transition is done when the next ECM is ready.
LEMMA SwitchIInv ==
    ASSUME IInv, Types', NEW next \in PacketLabels, SwitchCW(next) \/ SwitchECM(next),
           cp[nextECM].ok, apc \in PacketLabels,
           UNCHANGED <<messageVars, clientVars, linkVars, reply, optVars, abort>>
    PROVE  IInv'
<1>1. Types /\ AsyncInv /\ LinkInv /\ ReadyInv
  BY DEF IInv
<1>2. /\ UNCHANGED <<abort, sync>>
      /\ UNCHANGED <<async, rpc, rmsg, handler, reply, queue, inbox, requests, link>>
  BY DEF optVars, messageVars, clientVars, linkVars
<1>3. Both /\ apc \notin GenLabels
  BY <1>1 DEF Types, LabelTypes, Both, ReturnLabels, PacketLabels, StartLabels, GenLabels, SyncLabels,
              AsyncLabels, EndLabels
<1>4. /\ currentCW' \in Slots /\ currentECM' \in Slots /\ (first' => first)
      /\ \/ currentCW = currentECM /\ currentCW' # currentECM' /\ UNCHANGED <<slotVars, ret>>
            /\ apc' = next
         \/ currentCW # currentECM /\ currentCW' = currentECM' /\ InitNext(currentCW', next)
  BY <1>1, SwitchShape DEF Types
<1>5. /\ currentCW \in {0, 1} /\ currentECM \in {0, 1} /\ currentCW' \in {0, 1} /\ currentECM' \in {0, 1}
  BY <1>1, <1>4 DEF Types, SlotTypes, Slots
<1>6. Valid => Flow = {}
  <2>1. CASE currentCW = currentECM
    BY <1>1, <1>3, <2>1 DEF ReadyInv, nextECM
  <2>2. CASE currentCW # currentECM
    BY <2>2 DEF IInv, MatchInv, FlowInv, Awaits
  <2> QED BY <2>1, <2>2
<1>7. async = {} /\ rpc # "handle"
  <2>1. CASE sync
    BY <1>1, <2>1 DEF AsyncInv
  <2>2. CASE ~sync
    <3>1. Valid /\ Flow = {}
      BY <1>6, <2>2 DEF Valid
    <3>2. rpc # "handle"
      BY <1>1, <3>1 DEF AsyncInv, Flow, Mine, IsECM
    <3>3. async = {}
      <4>1. CASE currentCW = currentECM
        BY <1>1, <1>3, <3>1, <4>1 DEF ReadyInv, nextECM
      <4>2. CASE currentCW # currentECM
        BY <1>1, <4>2 DEF AsyncInv, Awaits
      <4> QED BY <4>1, <4>2
    <3> QED BY <3>2, <3>3
  <2> QED BY <2>1, <2>2
<1>8. Flow' = Flow /\ OrderInv' = OrderInv
  BY <1>2, SameFlow
<1>9. ~abort => cp[currentCW].ok /\ cp[currentECM].ok
  <2> SUFFICES ASSUME ~abort PROVE cp[currentCW].ok /\ cp[currentECM].ok
    OBVIOUS
  <2>1. Valid
    BY <1>3 DEF Valid, GenLabels
  <2> QED BY <1>1, <1>3, <2>1 DEF ReadyInv, nextECM
<1>10. CASE currentCW = currentECM /\ currentCW' # currentECM' /\ UNCHANGED <<slotVars, ret>>
            /\ apc' = next
  <2>1. cp' = cp /\ genSlot' = genSlot /\ ret' = ret /\ apc' \in PacketLabels
        /\ apc' \notin GenLabels \cup {"initNext"}
    BY <1>10 DEF slotVars, PacketLabels, GenLabels, SyncLabels, AsyncLabels
  <2>2. Valid' = Valid /\ Both'
    BY <1>2, <1>3, <2>1 DEF Valid, Both, GenLabels
  <2>3. MatchInv'
    BY <1>6, <1>8, <2>1, <2>2 DEF IInv, MatchInv, FlowInv, ContentInv
  <2>4. AsyncInv'
    BY <1>1, <1>2, <1>7, <2>1 DEF AsyncInv, PacketLabels
  <2>5. GenInv'
    BY <2>1 DEF GenInv, PacketLabels, GenLabels, SyncLabels
  <2>6. LinkInv'
    <3>1. Follows(1 - currentCW, currentCW)
      BY <1>1, <1>3, <1>10 DEF LinkInv
    <3>2. Follows(currentCW, currentECM)' \/ Follows(currentECM, currentCW)'
      BY <1>5, <1>10, <2>1, <3>1 DEF Follows
    <3> QED BY <1>10, <2>2, <3>2 DEF LinkInv
  <2>7. FifoInv'
    <3>1. ret' # "initNext"
      BY <2>2 DEF Both, ReturnLabels, PacketLabels
    <3> QED BY <1>10, <3>1 DEF FifoInv
  <2>8. ReadyInv'
    <3>1. ~abort => cp'[currentCW'].ok /\ cp'[currentECM'].ok
      BY <1>5, <1>9, <1>10, <2>1 DEF nextECM
    <3> QED BY <1>2, <1>10, <2>1, <3>1 DEF ReadyInv
  <2> QED BY <2>3, <2>4, <2>5, <2>6, <2>7, <2>8 DEF IInv
<1>11. CASE currentCW # currentECM /\ currentCW' = currentECM' /\ InitNext(currentCW', next)
  <2>1. /\ genSlot' = 1 - currentCW' /\ ret' = next
        /\ apc' = (IF sync THEN "generate" ELSE "submit")
    BY <1>11 DEF InitNext, GenerateFor, GoTo
  <2>2. /\ cp'[currentCW'] = cp[currentCW']
        /\ cp'[1 - currentCW'].num = (cp[currentCW'].num + 1) % CpModulus
        /\ cp'[1 - currentCW'].ok = FALSE /\ cp'[1 - currentCW'].cw = cp[currentCW'].next
    BY <1>1, <1>4, <1>11, InitNextTypes DEF Types
  <2>3. Both' /\ Valid' = Valid /\ ret' # "initNext" /\ 1 - currentCW' # currentCW'
    <3>1. Both' /\ ret' # "initNext"
      BY <2>1 DEF Both, ReturnLabels, PacketLabels
    <3>2. apc # "genFailed" /\ apc' # "genFailed"
      BY <1>3, <2>1 DEF GenLabels
    <3>3. 1 - currentCW' # currentCW'
      <4>1. currentCW' = 0 \/ currentCW' = 1
        BY <1>5
      <4> QED BY <4>1
    <3> QED BY <1>2, <3>1, <3>2, <3>3 DEF Valid
  <2>4. MatchInv'
    <3> SUFFICES ASSUME Valid PROVE OrderInv' /\ FlowInv' /\ ContentInv'
      BY <2>3 DEF MatchInv
    <3>1. OrderInv /\ ContentInv /\ Flow' = {}
      BY <1>6, <1>8 DEF IInv, MatchInv
    <3>2. \A k \in Slots : k = currentCW' \/ k = 1 - currentCW'
      <4>1. CASE currentCW' = 0
        BY <4>1 DEF Slots
      <4>2. CASE currentCW' = 1
        BY <4>2 DEF Slots
      <4> QED BY <1>5, <4>1, <4>2
    <3>3. ContentInv'
      BY <2>2, <3>1, <3>2 DEF ContentInv
    <3> QED BY <1>8, <3>1, <3>3 DEF FlowInv
  <2>5. AsyncInv'
    BY <1>1, <1>2, <1>7, <2>1 DEF AsyncInv
  <2>6. GenInv'
    <3>1. Awaits(genSlot)'
      BY <1>11, <2>1, <2>2, <2>3 DEF Awaits
    <3> QED BY <2>1, <3>1 DEF GenInv
  <2>7. LinkInv'
    <3>1. Follows(1 - currentCW, currentCW)'
      BY <2>2 DEF Follows
    <3> QED BY <1>11, <2>3, <3>1 DEF LinkInv
  <2>r. ~abort => cp'[currentCW'].ok
    BY <1>5, <1>9, <1>11, <2>2
  <2>8. FifoInv'
    <3>1. Settled(currentCW)'
      BY <1>2, <1>7, <2>r DEF Settled
    <3> QED BY <2>3, <3>1 DEF FifoInv
  <2>9. ReadyInv'
    BY <1>2, <1>11, <2>1, <2>2, <2>r DEF ReadyInv
  <2> QED BY <2>4, <2>5, <2>6, <2>7, <2>8, <2>9 DEF IInv
<1> QED BY <1>4, <1>10, <1>11

\* processPacket() and the end of start() keep the invariant.
LEMMA PacketIInv ==
    ASSUME IInv, ChangeCW \/ ChangeECM \/ InsertECM \/ Packet \/ EndOfStream \/ Started
    PROVE  IInv'
<1>1. Types' /\ Types
  BY PacketTypes, StartTypes DEF IInv
<1>2. CASE ChangeCW \/ ChangeECM \/ InsertECM
  <2>1. /\ apc \in PacketLabels
        /\ UNCHANGED <<messageVars, clientVars, linkVars, reply, optVars, abort>>
    BY <1>1, <1>2, CycleShape DEF Types
  <2>2. PICK next \in PacketLabels :
                 \/ UNCHANGED <<slotVars, currentCW, currentECM, first, ret>> /\ apc' = next
                 \/ cp[nextECM].ok /\ (SwitchCW(next) \/ SwitchECM(next))
    BY <1>1, <1>2, CycleShape DEF Types
  <2>3. CASE UNCHANGED <<slotVars, currentCW, currentECM, first, ret>> /\ apc' = next
    <3>1. {apc, apc'} \cap (GenLabels \cup {"initNext"}) = {}
      BY <2>1, <2>3 DEF PacketLabels, GenLabels, SyncLabels, AsyncLabels
    <3> QED BY <1>1, <2>1, <2>3, <3>1, LabelIInv
  <2>4. CASE cp[nextECM].ok /\ (SwitchCW(next) \/ SwitchECM(next))
    BY <1>1, <2>1, <2>4, SwitchIInv
  <2> QED BY <2>2, <2>3, <2>4
<1>3. CASE Packet \/ EndOfStream \/ Started
  <2>1. /\ apc \in {"packet", "started", "connectFailed"}
        /\ apc' \in {"stop", "packet", "changeCW", "destroy"}
        /\ UNCHANGED <<messageVars, clientVars, linkVars, ret, reply, slotVars, cycleVars, optVars,
                       abort>>
    BY <1>3 DEF Packet, ProcessPacket, EndOfStream, Started, GoTo
  <2>2. {apc, apc'} \cap (GenLabels \cup {"initNext"}) = {}
    BY <2>1 DEF GenLabels, SyncLabels, AsyncLabels
  <2> QED BY <1>1, <2>1, <2>2, LabelIInv DEF cycleVars
<1> QED BY <1>2, <1>3

\* The initial state.
LEMMA InitIInv == Init => IInv
<1> SUFFICES ASSUME Init PROVE IInv
  OBVIOUS
<1>1. /\ queue = <<>> /\ async = {} /\ rpc = "none" /\ rmsg = NoMessage /\ handler = 0
      /\ link = "closed" /\ requests = <<>> /\ inbox = <<>> /\ apc = "connect" /\ ret = "connect"
      /\ reply = NoMessage /\ delay \in Delays /\ sync \in SyncModes /\ draws = 0 /\ genSlot = 0
      /\ currentCW = 0 /\ currentECM = 0 /\ degraded = FALSE /\ first = TRUE /\ abort = FALSE
  BY DEF Init, ClientInit, QueueInit
<1>2. cp = [k \in {0, 1} |-> Slot(0, 0, 0)]
  BY DEF Init
<1>3. Slot(0, 0, 0) \in [num : Numbers, ok : BOOLEAN, ecm : Seq(Nat), cw : Nat, next : Nat]
      /\ Slot(0, 0, 0).ok = FALSE
  BY Constants DEF Slot
<1>4. cp \in [Slots -> [num : Numbers, ok : BOOLEAN, ecm : Seq(Nat), cw : Nat, next : Nat]]
      /\ ~cp[0].ok /\ ~cp[1].ok
  <2> HIDE DEF Slot
  <2> QED BY <1>2, <1>3 DEF Slots
<1>5. Types
  <2>1. SlotTypes
    BY <1>1, <1>4 DEF SlotTypes, Slots
  <2>2. ClientTypes
    BY <1>1, SimpleMessages DEF ClientTypes, Slots
  <2>3. LabelTypes
    BY <1>1, ScramblerAssumption DEF LabelTypes, StartLabels, ReturnLabels, GenLabels, SyncLabels,
                                     AsyncLabels, EndLabels, PacketLabels
  <2> QED BY <2>1, <2>2, <2>3 DEF Types
<1>6. Ecms(queue) = {} /\ Ecms(inbox) = {} /\ Ecms(requests) = {} /\ Mine(rmsg) = {}
      /\ InOrder(queue) /\ InOrder(inbox) /\ InOrder(requests)
  BY <1>1, EcmsEmpty, SimpleMessages
<1>7. ~Both /\ Flow = {} /\ OrderInv
  BY <1>1, <1>6 DEF Both, ReturnLabels, PacketLabels, Flow, OrderInv, Before
<1>8. MatchInv
  BY <1>4, <1>7 DEF MatchInv, FlowInv, ContentInv, Slots
<1>9. AsyncInv
  BY <1>1, <1>6 DEF AsyncInv
<1>10. GenInv
  BY <1>1 DEF GenInv, GenLabels, SyncLabels, AsyncLabels
<1>11. LinkInv /\ FifoInv /\ ReadyInv
  BY <1>1, <1>4, <1>7 DEF LinkInv, FifoInv, ReadyInv
<1> QED BY <1>5, <1>8, <1>9, <1>10, <1>11 DEF IInv

\* Every step keeps the invariant.
LEMMA NextIInv ==
    ASSUME IInv, [Next]_vars
    PROVE  IInv'
<1>1. CASE UNCHANGED vars
  <2>1. /\ Types'
        /\ UNCHANGED <<cp, genSlot, currentCW, currentECM, first, abort, sync, ret, async, apc, reply>>
        /\ UNCHANGED <<queue, rmsg, inbox, requests, rpc, handler, link>>
    BY <1>1, NextTypes DEF IInv, vars, ecmgVars, messageVars, clientVars, linkVars, appVars, slotVars,
                           cycleVars, optVars
  <2>2. (Valid => OrderInv) /\ AsyncInv
    BY DEF IInv, MatchInv
  <2>3. /\ ~sync => Ecms(queue') = {} /\ (rpc' = "enqueue" => Mine(rmsg') = {})
        /\ rpc' \notin {"dispatch", "handle", "enqueue"} => Mine(rmsg') = {}
    BY <2>1, <2>2 DEF AsyncInv
  <2> QED BY <2>1, <2>2, <2>3, SameFlow, FlowStep
<1>2. CASE Plugin
  BY <1>2, ConnectIInv, ShutdownIInv, GenerateIInv, InitCycleIInv, StartNextIInv, PacketIInv,
     GeneratedIInv DEF Plugin
<1>3. CASE Packet \/ EndOfStream
  BY <1>3, PacketIInv
<1>4. CASE Client
  BY <1>4, ReceiverIInv, DispatchIInv, AsyncHandleIInv DEF Client, ReceiverThread
<1>5. CASE Server
  BY <1>5, EcmgIInv DEF Server
<1> QED BY <1>1, <1>2, <1>3, <1>4, <1>5 DEF Next

\* The responses which can still come belong to the objects which wait for them, in the order of
\* the requests, and an ECM which is ready has the control words of its object, for every
\* crypto-period, delay, limit of the queue and number of messages of the ECMG.
THEOREM ScramblerInvariant == Spec => []IInv
<1>1. Init => IInv
  BY InitIInv
<1>2. IInv /\ [Next]_vars => IInv'
  BY NextIInv
<1> QED BY <1>1, <1>2, PTL DEF Spec

\* The responses to submitted ECM's never come to the queue where the plugin thread waits for the
\* responses to its own requests: the map of main() always has the handler.
THEOREM ResponseReachesHandler == Spec => []HandlerGetsECM
<1>1. IInv => HandlerGetsECM
  <2> SUFFICES ASSUME IInv, ~sync, NEW j \in 1 .. Len(queue), queue[j].tag = "ECM_response"
               PROVE  FALSE
    BY DEF HandlerGetsECM
  <2>1. Ecms(queue) = {}
    BY DEF IInv, AsyncInv
  <2>2. <<queue[j].cp, queue[j].cws>> \in Mine(queue[j])
    BY DEF Mine, IsECM
  <2>3. <<queue[j].cp, queue[j].cws>> \in Ecms(queue)
    BY <2>2 DEF Ecms
  <2> QED BY <2>1, <2>3
<1> QED BY <1>1, ScramblerInvariant, PTL

\* Whatever the times of the responses and the losses of the connection, after the first transition
\* of changeECM() the ECM to broadcast and the one of the control word in use are ready.
THEOREM TransitionsReady == Spec => []CurrentReady
<1>1. IInv => CurrentReady
  <2> SUFFICES ASSUME IInv, Running, ~first PROVE cp[currentECM].ok /\ cp[currentCW].ok
    BY DEF CurrentReady
  <2>1. apc \in {"packet", "insert"} /\ ~abort
    BY DEF Running
  <2>2. Both
    BY <2>1 DEF IInv, Types, LabelTypes, StartLabels, ReturnLabels, PacketLabels, GenLabels, SyncLabels,
                AsyncLabels, EndLabels, Both
  <2> QED BY <2>1, <2>2 DEF IInv, ReadyInv
<1> QED BY <1>1, ScramblerInvariant, PTL

-----------------------------------------------------------------------------
(***************************************************************************)
(* The times of the transitions, when the PMT does not change and a        *)
(* crypto-period has at least two packets.                                 *)
(***************************************************************************)
\* The delay is at most one half of the crypto-period.
LEMMA DelayFacts ==
    ASSUME LabelTypes, CpDuration >= 2
    PROVE  /\ delay \in Int /\ Abs(delay) \in Nat /\ Gap \in Nat /\ CpDuration \in Nat
           /\ Abs(delay) <= Gap /\ Gap + 1 <= CpDuration /\ Abs(delay) <= CpDuration
           /\ delay < 0 => Abs(delay) >= 1 /\ Gap = Abs(delay)
           /\ delay = 0 => Abs(delay) = 0 /\ Gap = 1
           /\ delay > 0 => Abs(delay) >= 1 /\ Gap = Abs(delay)
<1>1. /\ delay \in Int /\ 2 * delay <= CpDuration /\ -CpDuration <= 2 * delay
      /\ CpDuration \in Nat
  BY ScramblerAssumption DEF LabelTypes
<1>2. CASE delay < 0
  <2>1. Abs(delay) = -delay /\ Gap = Abs(delay)
    BY <1>1, <1>2 DEF Abs, Gap
  <2> QED BY <1>1, <1>2, <2>1
<1>3. CASE delay = 0
  <2>1. Abs(delay) = 0 /\ Gap = 1
    BY <1>3 DEF Abs, Gap
  <2> QED BY <1>1, <1>3, <2>1
<1>4. CASE delay > 0
  <2>1. Abs(delay) = delay /\ Gap = Abs(delay)
    BY <1>1, <1>4 DEF Abs, Gap
  <2> QED BY <1>1, <1>4, <2>1
<1> QED BY <1>1, <1>2, <1>3, <1>4

\* A step which changes neither the transitions nor their distances.
LEMMA TimeStep ==
    ASSUME Types, Types', TimeInv, UNCHANGED <<cwIn, ecmIn, pmts, delay, currentCW, currentECM, degraded>>,
           Both' = Both, abort => abort',
           \A k \in Slots : cp'[k].num = cp[k].num /\ cp'[k].cw = cp[k].cw /\ cp'[k].next = cp[k].next,
           Place' = Place \/ apc' \in EndLabels \/ ~Both, apc' \in EndLabels \/ apc \notin EndLabels
    PROVE  TimeInv'
<1>1. Lead' = Lead /\ Lag' = Lag /\ Gap' = Gap /\ Abs(delay)' = Abs(delay)
  BY DEF Lead, Lag, Gap
<1>2. TimeTypes /\ LabelTypes' /\ currentCW \in Slots /\ currentECM \in Slots
  BY DEF TimeInv, Types, SlotTypes
<1>3. ~Both' => Place' \notin PacketLabels \cup {"started"}
  BY <1>2 DEF LabelTypes, Both, Place, StartLabels, ReturnLabels, PacketLabels, GenLabels, SyncLabels,
              AsyncLabels, EndLabels
<1>4. apc' \in EndLabels => Place' \notin PacketLabels \cup {"started"}
  BY DEF Place, ReturnLabels, PacketLabels, GenLabels, SyncLabels, AsyncLabels, EndLabels
<1>5. TimeTypes'
  <2>1. Place' \in {"started", "changeCW", "changeECM", "insert"} => Place' = Place
    BY <1>3, <1>4 DEF PacketLabels
  <2> QED BY <1>2, <2>1 DEF TimeTypes
<1>6. ASSUME ~abort', Both', apc' \notin EndLabels
      PROVE  /\ degraded' => currentCW' = currentECM'
             /\ pmts' > 0 /\ currentCW' = currentECM' /\ ~degraded' => TogetherTimes'
             /\ pmts' > 0 /\ currentCW' # currentECM' => ApartTimes'
  <2>1. ~abort /\ Both /\ apc \notin EndLabels /\ Place' = Place
    BY <1>6
  <2>2. TogetherTimes' = TogetherTimes
    BY <1>1, <2>1 DEF TogetherTimes
  <2>3. /\ Follows(currentECM, currentCW)' = Follows(currentECM, currentCW)
        /\ Follows(currentCW, currentECM)' = Follows(currentCW, currentECM)
    BY <1>2 DEF Follows
  <2>4. ApartTimes' = ApartTimes
    BY <1>1, <2>1, <2>3 DEF ApartTimes
  <2> QED BY <2>1, <2>2, <2>4 DEF TimeInv
<1> QED BY <1>5, <1>6 DEF TimeInv

\* The steps of the client, of the receiver thread, of the ECMG and of generateECM().
LEMMA ClientTime ==
    ASSUME Types, Types', TimeInv, UNCHANGED <<timeVars, cycleVars, optVars>>, abort => abort',
           \/ UNCHANGED <<cp, abort>>
              /\ (Connect \/ Shutdown \/ GenerateECM(Provision, genSlot) \/ ReceiverThread \/ Ecmg)
           \/ AsyncHandleECM \/ SyncHandleECM \/ GenerateFailed
    PROVE  TimeInv'
<1>1. UNCHANGED <<cwIn, ecmIn, pmts, delay, currentCW, currentECM, degraded>>
  BY DEF timeVars, cycleVars, optVars
<1>2. \A k \in Slots : cp'[k].num = cp[k].num /\ cp'[k].cw = cp[k].cw /\ cp'[k].next = cp[k].next
  <2>1. genSlot \in Slots /\ handler \in Slots /\ rmsg \in Replies /\ reply \in Replies /\ SlotTypes
    BY DEF Types, SlotTypes, ClientTypes
  <2>2. CASE cp' = cp
    BY <2>2
  <2>3. CASE AsyncHandleECM
    <3>1. HandleECM(handler, rmsg)
      BY <2>3 DEF AsyncHandleECM
    <3> QED BY <2>1, <3>1, HandleTypes
  <2>4. CASE SyncHandleECM
    <3>1. HandleECM(genSlot, reply)
      BY <2>4 DEF SyncHandleECM
    <3> QED BY <2>1, <3>1, HandleTypes
  <2>5. CASE GenerateFailed
    BY <2>5 DEF GenerateFailed, slotVars
  <2> QED BY <2>2, <2>3, <2>4, <2>5
<1>3. /\ ret' = ret /\ LabelTypes
      /\ \/ apc' = apc
         \/ apc \in GenLabels /\ apc' \in GenLabels \cup {ret}
         \/ apc \in StartLabels /\ apc' \in StartLabels
         \/ apc \in EndLabels /\ apc' \in EndLabels
  <2>0. LabelTypes
    BY DEF Types
  <2>1. CASE Connect
    <3>1. ret' = ret /\ apc \in StartLabels
      BY <2>1 DEF Connect, StartReceiver, OpenConnection, StartListening, ChannelReply, StreamSetup,
                  StreamReply, Established, AbortConnection, StartLabels
    <3>2. apc' \in StartLabels
      BY <2>1 DEF Connect, StartReceiver, OpenConnection, StartListening, ChannelReply, StreamSetup,
                  StreamReply, Established, AbortConnection, StartLabels, AwaitReply, GoTo
    <3> QED BY <2>0, <3>1, <3>2
  <2>2. CASE Shutdown
    <3>1. ret' = ret /\ apc \in EndLabels
      BY <2>2 DEF Shutdown, StopClient, CloseStream, CloseReply, CloseChannel, Disconnect, Destroy,
                  JoinReceiver, EndLabels
    <3>2. apc' \in EndLabels
      BY <2>2 DEF Shutdown, StopClient, CloseStream, CloseReply, CloseChannel, Disconnect, Destroy,
                  JoinReceiver, EndLabels, AwaitReply, GoTo
    <3> QED BY <2>0, <3>1, <3>2
  <2>3. CASE GenerateECM(Provision, genSlot)
    <3>1. ret' = ret /\ apc \in GenLabels
      BY <2>3 DEF GenerateECM, SendProvision, EcmReply, RegisterRequest, SubmitProvision,
                  UnregisterRequest, GenLabels, SyncLabels, AsyncLabels
    <3>2. apc' \in GenLabels \cup {ret}
      BY <2>3 DEF GenerateECM, SendProvision, EcmReply, RegisterRequest, SubmitProvision,
                  UnregisterRequest, GenLabels, SyncLabels, AsyncLabels, AwaitReply, GoTo
    <3> QED BY <2>0, <3>1, <3>2
  <2>4. CASE ReceiverThread \/ Ecmg \/ AsyncHandleECM
    BY <2>0, <2>4 DEF ReceiverThread, WaitConnection, ReceiveMessage, ReplyTest, DispatchMessage,
                      EnqueueResponse, ConnectionLost, Ecmg, EcmgAnswer, EcmgSend, EcmgDisconnect,
                      AsyncHandleECM, appVars
  <2>5. CASE SyncHandleECM \/ GenerateFailed
    BY <2>0, <2>5 DEF SyncHandleECM, GenerateFailed, GoTo, GenLabels, SyncLabels
  <2> QED BY <2>1, <2>2, <2>3, <2>4, <2>5
<1>4. Both' = Both
  BY <1>3 DEF Both
<1>5. Place' = Place \/ apc' \in EndLabels \/ ~Both
  <2>1. apc \in GenLabels => ret \notin GenLabels
    BY <1>3 DEF LabelTypes, GenLabels, SyncLabels, AsyncLabels, ReturnLabels, PacketLabels
  <2>2. apc \in StartLabels => ~Both
    BY <1>3 DEF LabelTypes, Both, ReturnLabels, PacketLabels
  <2> QED BY <1>3, <2>1, <2>2 DEF Place
<1>6. apc' \in EndLabels \/ apc \notin EndLabels
  BY <1>3 DEF GenLabels, SyncLabels, AsyncLabels, EndLabels, StartLabels
<1> QED BY <1>1, <1>2, <1>4, <1>5, <1>6, TimeStep

\* start() ends before the first packet.
LEMMA StartTime ==
    ASSUME Types, Types', LinkInv, TimeInv, InitCycle \/ StartNext \/ Started
    PROVE  TimeInv'
<1>1. /\ UNCHANGED <<cwIn, ecmIn, pmts, delay, currentCW, currentECM, degraded, abort>>
      /\ TimeTypes /\ LabelTypes /\ LabelTypes'
  BY DEF InitCycle, StartNext, Started, timeVars, cycleVars, optVars, TimeInv, Types
<1>2. CASE InitCycle \/ StartNext
  <2>1. /\ apc \in {"connected", "initNext"} /\ apc' \in GenLabels /\ ret' \in {"initNext", "started"}
    BY <1>2 DEF InitCycle, StartNext, InitNext, GenerateFor, GoTo, GenLabels, SyncLabels, AsyncLabels
  <2>2. ~Both
    BY <1>1, <2>1 DEF LabelTypes, Both, ReturnLabels, PacketLabels, StartLabels
  <2>3. pmts = 0 /\ currentCW = currentECM /\ ~degraded
    BY <1>1, <2>2 DEF TimeTypes
  <2>4. Place' \in {"initNext", "started"}
    BY <2>1 DEF Place
  <2> QED BY <1>1, <2>3, <2>4 DEF TimeInv, TimeTypes
<1>3. CASE Started
  <2>1. /\ apc \in {"started", "connectFailed"} /\ UNCHANGED <<cp, ret>>
        /\ apc' = IF apc = "connectFailed" \/ abort THEN "destroy" ELSE "packet"
    BY <1>3 DEF Started, GoTo, slotVars
  <2>2. pmts = 0 /\ currentCW = currentECM /\ ~degraded
    <3>1. CASE apc = "started"
      <4>1. Place = "started"
        BY <3>1 DEF Place, GenLabels, SyncLabels, AsyncLabels
      <4> QED BY <1>1, <4>1 DEF TimeTypes
    <3>2. CASE apc = "connectFailed"
      <4>1. ~Both
        BY <1>1, <3>2 DEF LabelTypes, Both, ReturnLabels, PacketLabels, StartLabels
      <4> QED BY <1>1, <4>1 DEF TimeTypes
    <3> QED BY <2>1, <3>1, <3>2
  <2>3. Place' \in {"destroy", "packet"}
    BY <2>1 DEF Place, GenLabels, SyncLabels, AsyncLabels
  <2> QED BY <1>1, <2>2, <2>3 DEF TimeInv, TimeTypes
<1> QED BY <1>2, <1>3

\* After a transition, processPacket() continues at its next label, after generateECM() or not.
LEMMA SwitchPlace ==
    ASSUME Types, apc \in PacketLabels, NEW next \in PacketLabels, SwitchCW(next) \/ SwitchECM(next)
    PROVE  Place' = next /\ Both'
<1>1. \/ apc' = next /\ ret' = ret
      \/ InitNext(currentCW', next)
  BY SwitchShape DEF Types
<1>2. CASE apc' = next /\ ret' = ret
  BY <1>2 DEF Types, LabelTypes, Place, Both, ReturnLabels, PacketLabels, StartLabels, GenLabels,
              SyncLabels, AsyncLabels, EndLabels
<1>3. CASE InitNext(currentCW', next)
  <2>1. ret' = next /\ apc' \in GenLabels
    BY <1>3 DEF InitNext, GenerateFor, GoTo, GenLabels, SyncLabels, AsyncLabels
  <2> QED BY <2>1 DEF Place, Both, ReturnLabels
<1> QED BY <1>1, <1>2, <1>3

\* The first transition of a crypto-period, in the order which the delay requires.
LEMMA FirstSwitch ==
    ASSUME IInv, Both, currentCW = currentECM, NEW next, UNCHANGED delay,
           IF delay < 0 THEN SwitchECM(next) ELSE SwitchCW(next)
    PROVE  /\ currentCW' # currentECM'
           /\ IF delay' < 0 THEN Follows(currentECM, currentCW)' ELSE Follows(currentCW, currentECM)'
<1>1. Types /\ Follows(1 - currentCW, currentCW) /\ currentCW \in {0, 1}
  BY DEF IInv, LinkInv, Types, SlotTypes, Slots
<1>2. currentCW' # currentECM' /\ cp' = cp
  BY <1>1, SwitchShape DEF Types, slotVars
<1>3. CASE delay < 0
  <2>1. currentCW' = currentCW /\ currentECM' = 1 - currentCW
    BY <1>3 DEF SwitchECM
  <2> QED BY <1>1, <1>2, <1>3, <2>1 DEF Follows
<1>4. CASE ~(delay < 0)
  <2>1. currentCW' = 1 - currentCW /\ currentECM' = currentCW
    BY <1>4 DEF SwitchCW
  <2> QED BY <1>1, <1>2, <1>4, <2>1 DEF Follows
<1> QED BY <1>3, <1>4

\* Between the two transitions of a crypto-period, the next ECM is ready.
LEMMA NoDegraded ==
    ASSUME IInv, Both, ~abort, TimeInv, apc \in PacketLabels, InDegradedMode
    PROVE  currentCW = currentECM
<1> SUFFICES ASSUME currentCW # currentECM PROVE FALSE
  OBVIOUS
<1>1. cp[currentCW].ok /\ currentCW \in {0, 1} /\ currentECM \in {0, 1}
  BY DEF IInv, ReadyInv, Types, SlotTypes, Slots
<1>2. nextECM = currentCW
  BY <1>1 DEF nextECM
<1>3. ~degraded
  BY DEF TimeInv, PacketLabels, EndLabels
<1> QED BY <1>1, <1>2, <1>3 DEF InDegradedMode

\* A packet brings both transitions closer.
LEMMA PacketTime ==
    ASSUME IInv, Types', TimeInv, MaxPMTs = 1, CpDuration >= 2, Packet \/ EndOfStream
    PROVE  TimeInv'
<1> DEFINE D == CpDuration
           a == Abs(delay)
<1>1. Types /\ TimeTypes /\ LabelTypes
  BY DEF IInv, TimeInv, Types
<1>2. /\ apc = "packet" /\ UNCHANGED <<cp, ret, currentCW, currentECM, degraded, delay, abort>>
      /\ apc' \in {"stop", "packet", "changeCW"}
  BY DEF Packet, ProcessPacket, EndOfStream, GoTo, slotVars, cycleVars, optVars
<1>3. Both /\ Both' /\ Place = "packet" /\ Place' = apc'
  BY <1>1, <1>2 DEF LabelTypes, Place, Both, ReturnLabels, PacketLabels, StartLabels, GenLabels,
                    SyncLabels, AsyncLabels, EndLabels
<1>4. /\ delay \in Int /\ a \in Nat /\ Gap \in Nat /\ D \in Nat /\ D >= 2
      /\ a <= Gap /\ Gap + 1 <= D /\ a <= D
      /\ delay < 0 => a >= 1 /\ Gap = a
      /\ delay = 0 => a = 0 /\ Gap = 1
      /\ delay > 0 => a >= 1 /\ Gap = a
  BY <1>1, DelayFacts
<1>5. Gap' = Gap /\ Abs(delay)' = a
  BY <1>2 DEF Gap
<1>6. CASE EndOfStream
  <2>1. UNCHANGED <<cwIn, ecmIn, pmts>> /\ apc' \in EndLabels
    BY <1>6 DEF EndOfStream, timeVars, GoTo, EndLabels
  <2> QED BY <1>1, <1>2, <1>3, <2>1, TimeStep
<1>7. CASE ProcessPacket("newPMT")
  <2>1. /\ pmts < 1 /\ pmts' = pmts + 1 /\ cwIn' = D /\ ecmIn' = EcmDistance
        /\ apc' = IF abort THEN "stop" ELSE "packet"
    BY <1>7 DEF ProcessPacket, GoTo
  <2>2. pmts = 0 /\ pmts' = 1 /\ currentCW = currentECM /\ ~degraded
    BY <1>1, <2>1 DEF TimeTypes
  <2>3. ecmIn' \in Nat /\ ecmIn' = IF delay > 0 THEN D + a ELSE D - a
    BY <1>4, <2>1 DEF EcmDistance
  <2> HIDE DEF D, a
  <2>4. TimeTypes'
    BY <1>2, <1>3, <1>4, <2>1, <2>2, <2>3 DEF TimeTypes
  <2>5. TogetherTimes'
    <3>1. Lead' = (IF delay < 0 THEN D - a ELSE D) /\ Lag' = (IF delay > 0 THEN D + a ELSE D)
      BY <1>2, <1>4, <2>1, <2>3 DEF Lead, Lag
    <3>2. Lead' + a <= Lag' /\ Lag' <= Lead' + Gap /\ Lead' > 0
      BY <1>4, <3>1
    <3> QED BY <1>5, <3>2 DEF TogetherTimes, a
  <2> QED BY <1>2, <2>2, <2>4, <2>5 DEF TimeInv
<1>8. CASE ProcessPacket("ecm") \/ ProcessPacket("other")
  <2>1. /\ pmts > 0 /\ pmts' = pmts /\ cwIn' = Closer(cwIn) /\ ecmIn' = Closer(ecmIn)
        /\ apc' = IF abort THEN "stop" ELSE "changeCW"
    BY <1>8 DEF ProcessPacket, GoTo
  <2>2. \A n \in Nat : Closer(n) \in Nat /\ (n > 0 => Closer(n) = n - 1) /\ (n = 0 => Closer(n) = 0)
    BY DEF Closer
  <2>3. cwIn \in Nat /\ ecmIn \in Nat /\ cwIn' \in Nat /\ ecmIn' \in Nat
    BY <1>1, <2>1, <2>2 DEF TimeTypes
  <2>4. TimeTypes'
    BY <1>1, <1>2, <1>3, <2>1, <2>3 DEF TimeTypes
  <2>5. /\ Lead \in Nat /\ Lag \in Nat /\ Lead' = Closer(Lead) /\ Lag' = Closer(Lag)
    BY <1>2, <2>1, <2>3 DEF Lead, Lag
  <2> HIDE DEF D, a
  <2>6. ASSUME ~abort
        PROVE  /\ degraded' => currentCW' = currentECM'
               /\ pmts' > 0 /\ currentCW' = currentECM' /\ ~degraded' => TogetherTimes'
               /\ pmts' > 0 /\ currentCW' # currentECM' => ApartTimes'
    <3>1. /\ degraded => currentCW = currentECM
          /\ currentCW = currentECM /\ ~degraded => TogetherTimes
          /\ currentCW # currentECM => ApartTimes
          /\ Place' = "changeCW"
      BY <1>2, <1>3, <2>1, <2>6 DEF TimeInv, EndLabels
    <3>2. ASSUME TogetherTimes PROVE TogetherTimes'
      <4>1. Lead + a <= Lag /\ Lag <= Lead + Gap /\ Lead > 0
        BY <1>3, <3>2 DEF TogetherTimes, a
      <4>2. Lead' = Lead - 1 /\ Lag' = Lag - 1
        BY <1>4, <2>2, <2>5, <4>1
      <4>3. Lead' + a <= Lag' /\ Lag' <= Lead' + Gap
        BY <1>4, <2>5, <4>1, <4>2
      <4> QED BY <1>5, <3>1, <4>3 DEF TogetherTimes, a
    <3>3. ASSUME ApartTimes PROVE ApartTimes'
      <4>1. /\ Lag + (D - Gap) <= Lead /\ Lead <= Lag + (D - a) /\ (Lag > 0 \/ Lead = D)
            /\ IF delay < 0 THEN Follows(currentECM, currentCW) ELSE Follows(currentCW, currentECM)
        BY <1>3, <3>3 DEF ApartTimes, a, D
      <4>2. Lag' + (D - Gap) <= Lead' /\ Lead' <= Lag' + (D - a)
        <5>1. CASE Lag > 0
          <6>1. Lead > 0 /\ Lead' = Lead - 1 /\ Lag' = Lag - 1
            BY <1>4, <2>2, <2>5, <4>1, <5>1
          <6> QED BY <1>4, <2>5, <4>1, <6>1
        <5>2. CASE Lag = 0 /\ Lead = D
          <6>1. a = 0 /\ Gap = 1
            BY <1>4, <4>1, <5>2
          <6>2. Lead' = D - 1 /\ Lag' = 0
            BY <1>4, <2>2, <2>5, <5>2
          <6> QED BY <1>4, <6>1, <6>2
        <5> QED BY <2>5, <4>1, <5>1, <5>2
      <4>3. IF delay' < 0 THEN Follows(currentECM, currentCW)' ELSE Follows(currentCW, currentECM)'
        BY <1>2, <4>1 DEF Follows
      <4> QED BY <1>5, <3>1, <4>2, <4>3 DEF ApartTimes, a, D
    <3> QED BY <1>2, <2>1, <3>1, <3>2, <3>3
  <2>7. abort => apc' \in EndLabels
    BY <2>1 DEF EndLabels
  <2> QED BY <1>2, <2>4, <2>6, <2>7 DEF TimeInv
<1> QED BY <1>6, <1>7, <1>8 DEF Packet

\* The transitions are done in the order which the delay requires, one at a time.
LEMMA CycleTime ==
    ASSUME IInv, Types', TimeInv, CpDuration >= 2, ChangeCW \/ ChangeECM \/ InsertECM
    PROVE  TimeInv'
<1> DEFINE D == CpDuration
           a == Abs(delay)
           \* What remains to prove when the plugin does not abort.
           Goal == /\ degraded' => currentCW' = currentECM'
                   /\ currentCW' = currentECM' /\ ~degraded' => TogetherTimes'
                   /\ currentCW' # currentECM' => ApartTimes'
<1>1. Types /\ TimeTypes /\ LabelTypes
  BY DEF IInv, TimeInv, Types
<1>2. /\ apc \in {"changeCW", "changeECM", "insert"} /\ apc \in PacketLabels
      /\ UNCHANGED <<pmts, delay, abort>>
  BY DEF ChangeCW, ChangeECM, InsertECM, optVars, PacketLabels
<1>3. Both /\ Place = apc /\ apc \notin EndLabels
  BY <1>1, <1>2 DEF LabelTypes, Place, Both, ReturnLabels, PacketLabels, StartLabels, GenLabels,
                    SyncLabels, AsyncLabels, EndLabels
<1>4. pmts > 0 /\ cwIn \in Nat /\ ecmIn \in Nat
  BY <1>1, <1>2, <1>3 DEF TimeTypes
<1>5. /\ delay \in Int /\ a \in Nat /\ Gap \in Nat /\ D \in Nat /\ D >= 2
      /\ a <= Gap /\ Gap + 1 <= D /\ a <= D
      /\ delay < 0 => a >= 1 /\ Gap = a
      /\ delay = 0 => a = 0 /\ Gap = 1
      /\ delay > 0 => a >= 1 /\ Gap = a
  BY <1>1, DelayFacts
<1>6. Gap' = Gap /\ Abs(delay)' = a
  BY <1>2 DEF Gap
<1>7. Lead \in Nat /\ Lag \in Nat
  BY <1>4 DEF Lead, Lag
<1>8. ASSUME ~abort
      PROVE  /\ degraded => currentCW = currentECM
             /\ currentCW = currentECM /\ ~degraded =>
                   /\ Lead + a <= Lag /\ Lag <= Lead + Gap
                   /\ apc = "insert" => Lead > 0
                   /\ apc = "changeECM" /\ delay >= 0 => Lead > 0
             /\ currentCW # currentECM =>
                   /\ Lag + (D - Gap) <= Lead /\ Lead <= Lag + (D - a)
                   /\ apc = "insert" => Lag > 0 \/ Lead = D
                   /\ apc = "changeECM" /\ delay < 0 => Lag > 0
                   /\ IF delay < 0 THEN Follows(currentECM, currentCW)
                      ELSE Follows(currentCW, currentECM)
  BY <1>3, <1>4, <1>8 DEF TimeInv, TogetherTimes, ApartTimes
<1> HIDE DEF D, a
\* The places and types after the step, and the goal.
<1>9. ASSUME cwIn' \in Nat, ecmIn' \in Nat, Both', Place' \in PacketLabels, ~abort => Goal
      PROVE  TimeInv'
  <2>1. TimeTypes'
    BY <1>1, <1>2, <1>4, <1>9 DEF TimeTypes, PacketLabels
  <2> QED BY <1>2, <2>1, <1>9 DEF TimeInv
\* A step without transition.
<1>10. ASSUME UNCHANGED <<cp, currentCW, currentECM, degraded, cwIn, ecmIn, ret>>,
              \/ apc = "changeCW" /\ apc' = "changeECM" /\ cwIn > 0
              \/ apc = "changeECM" /\ apc' = "insert" /\ ecmIn > 0
              \/ apc = "insert" /\ apc' = "packet"
       PROVE  TimeInv'
  <2>1. Place' = apc' /\ Both' /\ apc' \in PacketLabels
    BY <1>3, <1>10 DEF Place, Both, PacketLabels, GenLabels, SyncLabels, AsyncLabels
  <2>2. Lead' = Lead /\ Lag' = Lag
    BY <1>2, <1>10 DEF Lead, Lag
  <2>3. /\ Follows(currentECM, currentCW)' = Follows(currentECM, currentCW)
        /\ Follows(currentCW, currentECM)' = Follows(currentCW, currentECM)
    BY <1>10 DEF Follows
  <2>4. ASSUME ~abort PROVE Goal
    <3>1. ASSUME currentCW = currentECM, ~degraded PROVE TogetherTimes'
      <4>1. Place' \in {"packet", "insert"} => Lead > 0
        BY <1>5, <1>7, <1>8, <1>10, <2>1, <2>4, <3>1 DEF Lead, Lag
      <4>2. Place' = "changeECM" /\ delay >= 0 => Lead > 0
        BY <1>5, <1>10, <2>1 DEF Lead
      <4> QED BY <1>2, <1>6, <1>8, <2>2, <2>4, <3>1, <4>1, <4>2 DEF TogetherTimes
    <3>2. ASSUME currentCW # currentECM PROVE ApartTimes'
      <4>1. Place' \in {"packet", "insert"} => Lag > 0 \/ Lead = D
        BY <1>5, <1>7, <1>8, <1>10, <2>1, <2>4, <3>2 DEF Lead, Lag
      <4>2. Place' = "changeECM" /\ delay < 0 => Lag > 0
        BY <1>5, <1>10, <2>1 DEF Lag
      <4> QED BY <1>2, <1>6, <1>8, <2>2, <2>3, <2>4, <3>2, <4>1, <4>2 DEF ApartTimes, D
    <3> QED BY <1>8, <1>10, <2>4, <3>1, <3>2
  <2> QED BY <1>4, <1>9, <1>10, <2>1, <2>4
\* The plugin enters degraded mode.
<1>11. ASSUME UNCHANGED <<cp, currentCW, currentECM, cwIn, ecmIn, ret>>, degraded', InDegradedMode,
              apc' \in PacketLabels
       PROVE  TimeInv'
  <2>1. Place' = apc' /\ Both'
    BY <1>3, <1>11 DEF Place, Both, PacketLabels, GenLabels, SyncLabels, AsyncLabels
  <2>2. ASSUME ~abort PROVE currentCW = currentECM
    BY <1>2, <1>3, <1>11, <2>2, NoDegraded
  <2> QED BY <1>4, <1>9, <1>11, <2>1, <2>2
\* The first transition of a crypto-period.
<1>12. ASSUME NEW next \in PacketLabels, currentCW = currentECM,
              IF delay < 0 THEN SwitchECM(next) /\ ecmIn' = D /\ cwIn' \in Nat
              ELSE SwitchCW(next) /\ cwIn' = D /\ ecmIn' \in Nat,
              ~degraded',
              ~abort => /\ a <= Lag' /\ Lag' <= Gap
                        /\ next = "insert" => Lag' > 0
                        /\ next = "changeECM" => delay >= 0
       PROVE  TimeInv'
  <2>1. Place' = next /\ Both'
    BY <1>1, <1>2, <1>12, SwitchPlace
  <2>2. /\ currentCW' # currentECM'
        /\ IF delay' < 0 THEN Follows(currentECM, currentCW)' ELSE Follows(currentCW, currentECM)'
    BY <1>2, <1>3, <1>12, FirstSwitch
  <2>3. Lead' = D /\ Lag' \in Nat
    BY <1>2, <1>12 DEF Lead, Lag
  <2>4. ASSUME ~abort PROVE ApartTimes'
    <3>1. Lag' + (D - Gap) <= Lead' /\ Lead' <= Lag' + (D - a)
      <4>1. a <= Lag' /\ Lag' <= Gap
        BY <1>12, <2>4
      <4>2. \A l \in Nat : a <= l /\ l <= Gap => l + (D - Gap) <= D /\ D <= l + (D - a)
        BY <1>5
      <4> QED BY <2>3, <4>1, <4>2
    <3>2. Place' \in {"packet", "insert"} => Lag' > 0 \/ Lead' = D
      BY <2>3
    <3>3. Place' = "changeECM" /\ delay' < 0 => Lag' > 0
      BY <1>2, <1>5, <1>12, <2>1, <2>4
    <3> QED BY <1>6, <2>2, <3>1, <3>2, <3>3 DEF ApartTimes, D
  <2> QED BY <1>5, <1>9, <1>12, <2>1, <2>2, <2>4
\* The second transition.
<1>13. ASSUME NEW next \in PacketLabels, currentCW # currentECM, ~degraded',
              SwitchECM(next) \/ SwitchCW(next), cwIn' \in Nat, ecmIn' \in Nat,
              ~abort => /\ Lag = 0 /\ Lag' = D /\ Lead' = Lead /\ next # "packet"
       PROVE  TimeInv'
  <2>1. Place' = next /\ Both' /\ currentCW' = currentECM'
    BY <1>1, <1>2, <1>13, SwitchPlace, SwitchShape DEF Types
  <2>2. ASSUME ~abort PROVE TogetherTimes'
    <3>1. 0 + (D - Gap) <= Lead /\ Lead <= 0 + (D - a)
      BY <1>8, <1>13, <2>2
    <3>2. Lead' + a <= Lag' /\ Lag' <= Lead' + Gap /\ Lead' > 0
      BY <1>5, <1>7, <1>13, <2>2, <3>1
    <3> QED BY <1>6, <3>2 DEF TogetherTimes
  <2> QED BY <1>9, <1>13, <2>1, <2>2
<1>p. {"packet", "changeECM", "insert"} \subseteq PacketLabels
  BY DEF PacketLabels
<1>t. degraded \in BOOLEAN /\ currentCW \in Slots
  BY <1>1 DEF Types, SlotTypes
<1>14. CASE ChangeCW
  <2>1. apc = "changeCW" /\ ecmIn' = ecmIn
    BY <1>14 DEF ChangeCW
  <2>2. CASE cwIn = 0 /\ ~InDegradedMode
    <3>1. SwitchCW("changeECM") /\ cwIn' = D /\ degraded' = degraded /\ ~degraded
      BY <1>14, <2>2 DEF ChangeCW, D, InDegradedMode
    <3>2. CASE currentCW = currentECM /\ (~abort => delay >= 0)
      <4>1. CASE delay >= 0
        <5>1. ~abort => a <= Lag' /\ Lag' <= Gap
          BY <1>2, <1>5, <1>7, <1>8, <2>1, <2>2, <3>1, <3>2, <4>1 DEF Lead, Lag
        <5> QED BY <1>4, <1>5, <1>12, <1>p, <2>1, <3>1, <3>2, <4>1, <5>1
      <4>2. CASE abort
        <5>1. Place' = "changeECM" /\ Both'
          BY <1>1, <1>2, <1>p, <3>1, SwitchPlace
        <5> QED BY <1>4, <1>5, <1>9, <1>p, <2>1, <3>1, <4>2, <5>1
      <4> QED BY <3>2, <4>1, <4>2
    <3>3. CASE currentCW # currentECM
      <4>1. ASSUME ~abort PROVE Lag = 0 /\ Lag' = D /\ Lead' = Lead
        <5>1. delay < 0
          BY <1>5, <1>7, <1>8, <2>2, <3>3, <4>1 DEF Lead
        <5> QED BY <1>2, <2>1, <2>2, <3>1, <5>1 DEF Lead, Lag
      <4> QED BY <1>4, <1>5, <1>13, <1>p, <2>1, <3>1, <3>3, <4>1
    <3>4. ASSUME currentCW = currentECM, ~abort PROVE delay >= 0
      <4>1. Lead + a <= Lag
        BY <1>8, <3>1, <3>4
      <4>2. ASSUME delay < 0 PROVE FALSE
        <5>1. Lag = 0
          BY <2>2, <4>2 DEF Lag
        <5>2. a >= 1
          BY <1>5, <4>2
        <5> QED BY <1>5, <1>7, <4>1, <5>1, <5>2
      <4> QED BY <1>5, <4>2
    <3> QED BY <3>2, <3>3, <3>4
  <2>3. CASE cwIn = 0 /\ InDegradedMode
    <3>1. /\ UNCHANGED <<cp, currentCW, currentECM, cwIn, ecmIn, ret>> /\ degraded'
          /\ apc' = "changeECM"
      BY <1>14, <2>3 DEF ChangeCW, slotVars, GoTo
    <3> QED BY <1>11, <1>p, <2>3, <3>1
  <2>4. CASE cwIn # 0
    <3>1. /\ UNCHANGED <<cp, currentCW, currentECM, degraded, cwIn, ecmIn, ret>>
          /\ apc' = "changeECM"
      BY <1>14, <2>4 DEF ChangeCW, slotVars, cycleVars, GoTo
    <3>2. cwIn > 0
      BY <1>4, <2>4
    <3> QED BY <1>10, <2>1, <3>1, <3>2
  <2> QED BY <2>2, <2>3, <2>4
<1>15. CASE ChangeECM
  <2>1. apc = "changeECM" /\ cwIn' = cwIn
    BY <1>15 DEF ChangeECM
  <2>2. CASE ecmIn = 0 /\ ~InDegradedMode
    <3>1. SwitchECM("insert") /\ ecmIn' = D /\ degraded' = degraded /\ ~degraded
      BY <1>15, <2>2 DEF ChangeECM, D, InDegradedMode
    <3>2. CASE currentCW = currentECM /\ (~abort => delay < 0)
      <4>1. CASE delay < 0
        <5>1. ~abort => a <= Lag' /\ Lag' <= Gap /\ Lag' > 0
          BY <1>2, <1>5, <1>7, <1>8, <2>1, <2>2, <3>1, <3>2, <4>1 DEF Lead, Lag
        <5> QED BY <1>4, <1>5, <1>12, <1>p, <2>1, <3>1, <3>2, <4>1, <5>1
      <4>2. CASE abort
        <5>1. Place' = "insert" /\ Both'
          BY <1>1, <1>2, <1>p, <3>1, SwitchPlace
        <5> QED BY <1>4, <1>5, <1>9, <1>p, <2>1, <3>1, <4>2, <5>1
      <4> QED BY <3>2, <4>1, <4>2
    <3>3. CASE currentCW # currentECM
      <4>1. ASSUME ~abort PROVE Lag = 0 /\ Lag' = D /\ Lead' = Lead
        <5>1. ~(delay < 0)
          <6>1. (delay < 0 => Lag > 0) /\ Lag + (D - Gap) <= Lead
            BY <1>8, <2>1, <3>3, <4>1
          <6>2. ASSUME delay < 0 PROVE FALSE
            <7>1. Lead = 0 /\ Lag > 0
              BY <2>2, <6>1, <6>2 DEF Lead
            <7> QED BY <1>5, <1>7, <6>1, <7>1
          <6> QED BY <6>2
        <5> QED BY <1>2, <2>1, <2>2, <3>1, <5>1 DEF Lead, Lag
      <4> QED BY <1>4, <1>5, <1>13, <1>p, <2>1, <3>1, <3>3, <4>1
    <3>4. ASSUME currentCW = currentECM, ~abort PROVE delay < 0
      BY <1>5, <1>7, <1>8, <2>1, <2>2, <3>1, <3>4 DEF Lag
    <3> QED BY <3>2, <3>3, <3>4
  <2>3. CASE ecmIn = 0 /\ InDegradedMode
    <3>1. /\ UNCHANGED <<cp, currentCW, currentECM, cwIn, ecmIn, ret>> /\ degraded'
          /\ apc' = "insert"
      BY <1>15, <2>3 DEF ChangeECM, slotVars, GoTo
    <3> QED BY <1>11, <1>p, <2>3, <3>1
  <2>4. CASE ecmIn # 0
    <3>1. /\ UNCHANGED <<cp, currentCW, currentECM, degraded, cwIn, ecmIn, ret>>
          /\ apc' = "insert"
      BY <1>15, <2>4 DEF ChangeECM, slotVars, cycleVars, GoTo
    <3>2. ecmIn > 0
      BY <1>4, <2>4
    <3> QED BY <1>10, <2>1, <3>1, <3>2
  <2> QED BY <2>2, <2>3, <2>4
<1>16. CASE InsertECM
  <2>1. apc = "insert"
    BY <1>16 DEF InsertECM
  <2>2. CASE kind = "ecm" /\ degraded /\ cp[nextECM].ok
    <3>1. ~degraded' /\ ExitDegraded
      BY <1>16, <2>2 DEF InsertECM
    <3>2. IF delay < 0 THEN SwitchECM("packet") /\ ecmIn' = D /\ cwIn' = a
          ELSE SwitchCW("packet") /\ cwIn' = D /\ ecmIn' = a
      BY <3>1 DEF ExitDegraded, D, a
    <3>3. CASE ~abort
      <4>1. currentCW = currentECM /\ Lag' = a
        BY <1>2, <1>8, <2>2, <3>2, <3>3 DEF Lag
      <4> QED BY <1>5, <1>12, <1>p, <3>1, <3>2, <4>1
    <3>4. CASE abort
      <4>1. Place' = "packet" /\ Both'
        BY <1>1, <1>2, <1>p, <3>2, SwitchPlace
      <4> QED BY <1>5, <1>9, <1>p, <3>2, <3>4, <4>1
    <3> QED BY <3>3, <3>4
  <2>3. CASE ~(kind = "ecm" /\ degraded /\ cp[nextECM].ok)
    <3>1. /\ UNCHANGED <<cp, currentCW, currentECM, degraded, cwIn, ecmIn, ret>>
          /\ apc' = "packet"
      BY <1>16, <2>3 DEF InsertECM, slotVars, cycleVars, GoTo
    <3> QED BY <1>10, <2>1, <3>1
  <2> QED BY <2>2, <2>3
<1> QED BY <1>14, <1>15, <1>16

\* No transition is due before the first PMT.
LEMMA InitTime == Init => TimeInv
<1> SUFFICES ASSUME Init PROVE TimeInv
  OBVIOUS
<1>1. /\ apc = "connect" /\ ret = "connect" /\ currentCW = 0 /\ currentECM = 0 /\ ~degraded
      /\ cwIn = 0 /\ ecmIn = 0 /\ pmts = 0
  BY DEF Init, ClientInit
<1>2. ~Both /\ Place = "connect"
  BY <1>1 DEF Both, Place, ReturnLabels, PacketLabels, GenLabels, SyncLabels, AsyncLabels
<1> QED BY <1>1, <1>2 DEF TimeInv, TimeTypes

\* Every step keeps the times of the transitions.
LEMMA NextTime ==
    ASSUME IInv, Types', TimeInv, MaxPMTs = 1, CpDuration >= 2, [Next]_vars
    PROVE  TimeInv'
<1>1. Types /\ LinkInv
  BY DEF IInv
<1>2. CASE UNCHANGED vars
  <2>1. UNCHANGED <<cp, apc, ret, cwIn, ecmIn, pmts, delay, currentCW, currentECM, degraded, abort>>
    BY <1>2 DEF vars, ecmgVars, appVars, slotVars, timeVars, cycleVars, optVars
  <2>2. Both' = Both /\ Place' = Place
    BY <2>1 DEF Both, Place
  <2> QED BY <1>1, <2>1, <2>2, TimeStep
<1>3. CASE \/ Connect /\ UNCHANGED <<slotVars, timeVars, cycleVars, optVars, abort>>
           \/ Shutdown /\ UNCHANGED <<slotVars, timeVars, cycleVars, optVars, abort>>
           \/ GenerateECM(Provision, genSlot)
                /\ UNCHANGED <<slotVars, timeVars, cycleVars, optVars, abort>>
           \/ ReceiverThread /\ UNCHANGED <<slotVars, timeVars, cycleVars, optVars, abort>>
           \/ Ecmg /\ UNCHANGED <<slotVars, timeVars, cycleVars, optVars, abort>>
  <2>1. UNCHANGED <<timeVars, cycleVars, optVars, abort, cp>>
    BY <1>3 DEF slotVars
  <2>2. Connect \/ Shutdown \/ GenerateECM(Provision, genSlot) \/ ReceiverThread \/ Ecmg
    BY <1>3
  <2> QED BY <1>1, <2>1, <2>2, ClientTime
<1>4. CASE AsyncHandleECM \/ SyncHandleECM \/ GenerateFailed
  <2>1. UNCHANGED <<timeVars, cycleVars, optVars>>
    BY <1>4 DEF AsyncHandleECM, SyncHandleECM, GenerateFailed
  <2>2. abort => abort'
    <3>1. CASE AsyncHandleECM \/ SyncHandleECM
      BY <3>1 DEF AsyncHandleECM, SyncHandleECM, HandleECM
    <3>2. CASE GenerateFailed
      BY <3>2 DEF GenerateFailed
    <3> QED BY <1>4, <3>1, <3>2
  <2> QED BY <1>1, <1>4, <2>1, <2>2, ClientTime
<1>5. CASE InitCycle \/ StartNext \/ Started
  BY <1>1, <1>5, StartTime
<1>6. CASE ChangeCW \/ ChangeECM \/ InsertECM
  BY <1>6, CycleTime
<1>7. CASE Packet \/ EndOfStream
  BY <1>7, PacketTime
<1>8. ASSUME Next PROVE TimeInv'
  <2>1. CASE Plugin
    BY <1>3, <1>4, <1>5, <1>6, <2>1 DEF Plugin
  <2>2. CASE Client
    BY <1>3, <1>4, <2>2 DEF Client
  <2>3. CASE Server
    BY <1>3, <2>3 DEF Server
  <2> QED BY <1>7, <1>8, <2>1, <2>2, <2>3 DEF Next
<1> QED BY <1>2, <1>8

\* As long as the PMT of the service does not change and a crypto-period has at least two packets,
\* the two transitions of processPacket() alternate in the order which the sign of the delay
\* requires, in degraded mode and after it too, and the distance of their packets stays the delay.
THEOREM TransitionTimes ==
    ASSUME MaxPMTs = 1, CpDuration >= 2
    PROVE  Spec => []TimeInv
<1>1. Init => TimeInv
  BY InitTime
<1>2. IInv /\ IInv' /\ TimeInv /\ [Next]_vars => TimeInv'
  BY NextTime DEF IInv
<1> QED BY <1>1, <1>2, ScramblerInvariant, PTL DEF Spec

\* The distance of two consecutive numbers of crypto-periods, at the end of the numbers too.
LEMMA Consecutive ==
    ASSUME NEW n \in Numbers
    PROVE  /\ (((n + 1) % CpModulus) - n) % CpModulus = 1
           /\ (n - ((n + 1) % CpModulus)) % CpModulus = CpModulus - 1
           /\ (n - n) % CpModulus = 0
<1> DEFINE M == CpModulus
<1>1. n \in 0 .. (M - 1) /\ M \in Nat /\ M >= 4
  BY Constants DEF Numbers
<1> HIDE DEF M
<1>2. CASE n + 1 < M
  <2>1. (n + 1) % M = n + 1
    BY <1>1, <1>2
  <2>2. (n + 1) - n = 1 /\ n - (n + 1) = -1 /\ n - n = 0
    BY <1>1
  <2>3. 1 % M = 1 /\ (-1) % M = M - 1 /\ 0 % M = 0
    BY <1>1
  <2>4. /\ (((n + 1) % M) - n) % M = 1
        /\ (n - ((n + 1) % M)) % M = M - 1
        /\ (n - n) % M = 0
    BY <2>1, <2>2, <2>3
  <2> QED BY <2>4 DEF M
<1>3. CASE n + 1 = M
  <2>1. (n + 1) % M = 0
    BY <1>1, <1>3
  <2>2. 0 - n = 1 - M /\ n - 0 = M - 1 /\ n - n = 0
    BY <1>1, <1>3
  <2>3. (1 - M) % M = 1 /\ (M - 1) % M = M - 1 /\ 0 % M = 0
    BY <1>1
  <2>4. /\ (((n + 1) % M) - n) % M = 1
        /\ (n - ((n + 1) % M)) % M = M - 1
        /\ (n - n) % M = 0
    BY <2>1, <2>2, <2>3
  <2> QED BY <2>4 DEF M
<1> QED BY <1>1, <1>2, <1>3

\* What TimeInv says of a running plugin: the object whose transition comes first is the next one.
LEMMA RunningTimes ==
    ASSUME IInv, TimeInv, Running, currentCW # currentECM
    PROVE  /\ Both
           /\ delay < 0 => Follows(currentECM, currentCW)
           /\ delay >= 0 => Follows(currentCW, currentECM)
<1>1. apc \in {"packet", "insert"} /\ ~abort
  BY DEF Running
<1>2. Both /\ apc \notin EndLabels
  BY <1>1 DEF IInv, Types, LabelTypes, StartLabels, ReturnLabels, PacketLabels, GenLabels, SyncLabels,
              AsyncLabels, EndLabels, Both
<1>3. pmts > 0 /\ delay \in Int
  <2>1. pmts \in 0 .. 1 /\ pmts # 0
    BY DEF TimeInv, TimeTypes
  <2> QED BY <2>1, ScramblerAssumption DEF IInv, Types, LabelTypes
<1> QED BY <1>1, <1>2, <1>3 DEF TimeInv, ApartTimes

\* Under the same hypotheses, the ECM which is broadcast is the one of the crypto-period of the
\* control word in use or its neighbour: the next one with a negative delay, else the previous one.
THEOREM EcmStaysAligned ==
    ASSUME MaxPMTs = 1, CpDuration >= 2
    PROVE  Spec => []EcmAligned
<1>1. IInv /\ TimeInv => EcmAligned
  <2> SUFFICES ASSUME IInv, TimeInv, Running PROVE EcmAligned
    BY DEF EcmAligned
  <2>1. /\ cp[currentCW].num \in Numbers /\ cp[currentECM].num \in Numbers
        /\ delay \in Int
    BY ScramblerAssumption DEF IInv, Types, SlotTypes, LabelTypes
  <2>2. CASE currentCW = currentECM
    BY <2>1, <2>2, Consecutive DEF EcmAligned
  <2>3. CASE currentCW # currentECM /\ delay < 0
    <3>1. cp[currentECM].num = (cp[currentCW].num + 1) % CpModulus
      BY <2>3, RunningTimes DEF Follows
    <3>2. (cp[currentCW].num - cp[currentECM].num) % CpModulus = CpModulus - 1
      BY <2>1, <3>1, Consecutive
    <3> QED BY <2>3, <3>2 DEF EcmAligned
  <2>4. CASE currentCW # currentECM /\ delay >= 0
    <3>1. cp[currentCW].num = (cp[currentECM].num + 1) % CpModulus
      BY <2>4, RunningTimes DEF Follows
    <3>2. ~(delay < 0)
      BY <2>1, <2>4
    <3> QED BY <2>1, <3>1, <3>2, Consecutive DEF EcmAligned
  <2> QED BY <2>1, <2>2, <2>3, <2>4
<1> QED BY <1>1, ScramblerInvariant, TransitionTimes, PTL

\* Under the same hypotheses a receiver can always decode: the control word which scrambles the
\* packets is in the ECM which is broadcast or, with a negative delay, in the one before it.
THEOREM AlwaysDecodable ==
    ASSUME MaxPMTs = 1, CpDuration >= 2
    PROVE  Spec => []Decodable
<1>1. IInv /\ TimeInv => Decodable
  <2> SUFFICES ASSUME IInv, TimeInv, Running, cp[currentECM].ok
               PROVE  \E k \in {currentECM} \cup (IF delay < 0 THEN {currentCW} ELSE {}) :
                         cp[k].ok /\ \E j \in 1 .. 2 : cp[k].ecm[j] = cp[currentCW].cw
    BY DEF Decodable
  <2>1. apc \in {"packet", "insert"} /\ ~abort
    BY DEF Running
  <2>2. \A k \in Slots : cp[k].ok => cp[k].ecm[1] = cp[k].cw /\ cp[k].ecm[2] = cp[k].next
    BY <2>1 DEF IInv, MatchInv, Valid, ContentInv
  <2>3. currentCW \in Slots /\ currentECM \in Slots /\ delay \in Int
    BY ScramblerAssumption DEF IInv, Types, SlotTypes, LabelTypes
  <2>4. CASE currentCW = currentECM
    BY <2>2, <2>3, <2>4
  <2>5. CASE currentCW # currentECM /\ delay < 0
    <3>1. cp[currentCW].ok
      BY <2>1, <2>5, RunningTimes DEF IInv, ReadyInv
    <3> QED BY <2>2, <2>3, <2>5, <3>1
  <2>6. CASE currentCW # currentECM /\ delay >= 0
    <3>1. cp[currentCW].cw = cp[currentECM].next
      BY <2>6, RunningTimes DEF Follows
    <3>2. cp[currentECM].ecm[2] = cp[currentCW].cw
      BY <2>2, <2>3, <3>1
    <3> QED BY <3>2
  <2> QED BY <2>3, <2>4, <2>5, <2>6
<1> QED BY <1>1, ScramblerInvariant, TransitionTimes, PTL

=============================================================================

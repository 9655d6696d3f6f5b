----------------------------- MODULE ECMGClient -----------------------------
(***************************************************************************)
(* Class ECMGClient: a connection with an ECMG (ECM generator), used by an *)
(* application thread, with a receiver thread which passes the responses   *)
(* to the application thread through a MessageQueue or, for the ECM's      *)
(* which were submitted asynchronously, to a handler.                      *)
(*                                                                         *)
(* Sections under _mutex are one step.  The variable apc is the label of   *)
(* the application thread in the methods of this class; it goes to label   *)
(* ret when generateECM() or submitECM() succeeds, and to "genFailed" when *)
(* it fails.  The application connects once, as the scrambler plugin and   *)
(* the tools do.  Local variables are cleared after their last use.        *)
(*                                                                         *)
(* External: the TCP connection and the ECMG.  The ECMG answers requests   *)
(* in order, may send a test or an error at any time and may disconnect.   *)
(* The requests and responses of a link which it has closed are lost or    *)
(* not, as TCP does.                                                       *)
(***************************************************************************)
EXTENDS MessageQueue, Integers

CONSTANTS
    MaxUnsolicited,  \* bound: tests and errors sent by the ECMG
    MayDisconnect    \* the ECMG may disconnect, or refuse the connection

ASSUME ECMGAssumption == MaxUnsolicited \in Nat /\ MayDisconnect \in BOOLEAN

VARIABLES
    state,       \* _state
    link,        \* TCP connection: "closed", "up" or "eof" (closed by the ECMG)
    requests,    \* messages to the ECMG
    inbox,       \* messages from the ECMG
    async,       \* _async_requests: pairs of a crypto-period number and a handler
    rpc,         \* label of the receiver thread, "asleep" in waitCondition()
    rmsg,        \* msg in main()
    handler,     \* handler in main()
    apc, ret,    \* labels of the application thread
    reply,       \* message which the application thread dequeued
    unsolicited  \* count of tests and errors

clientVars == <<state, async, rpc, rmsg, handler>>
linkVars   == <<link, requests, inbox, unsolicited>>
appVars    == <<apc, ret, reply>>
ecmgVars   == <<messageVars, clientVars, linkVars, appVars>>

App      == "app"
Receiver == "receiver"

Message(tag, num, cws) == [tag |-> tag, cp |-> num, cws |-> cws]
Simple(tag) == Message(tag, 0, <<>>)
NoMessage == Simple("none")

ClientInit ==
    /\ QueueInit
    /\ state = "INITIAL" /\ async = {}
    /\ rpc = "none" /\ rmsg = NoMessage /\ handler = 0
    /\ link = "closed" /\ requests = <<>> /\ inbox = <<>> /\ unsolicited = 0
    /\ apc = "connect" /\ ret = "connect" /\ reply = NoMessage

GoTo(label) == apc' = label

\* Signal of _work_to_do.
Woken == IF rpc = "asleep" THEN "wait" ELSE rpc

\* disconnect() and close() of the connection.
CloseLink == link' = "closed" /\ requests' = <<>> /\ inbox' = <<>>

\* send() on the connection, with its result.
Sent(msg, ok) ==
    /\ \/ link = "up" /\ ok /\ requests' = Append(requests, msg)
       \/ link = "eof" /\ UNCHANGED requests
       \/ link = "closed" /\ ~ok /\ UNCHANGED requests
    /\ UNCHANGED <<link, inbox, unsolicited>>

\* dequeue() with a timeout: the expected response, with this tag and, for an ECM, this
\* crypto-period number, leads to label good, any other response or none to label bad.
AwaitReply(tag, num, good, bad) ==
    \/ /\ Dequeue(App)
       /\ reply' = IF Head(queue).tag = "ECM_response" THEN Head(queue) ELSE NoMessage
       /\ GoTo(IF Head(queue).tag = tag /\ Head(queue).cp = num THEN good ELSE bad)
    \/ DequeueWaits(App) /\ UNCHANGED <<apc, reply>>
    \/ DequeueTimeout(App) /\ GoTo(bad) /\ UNCHANGED reply

-----------------------------------------------------------------------------
(***************************************************************************)
(* Application thread: connect().                                          *)
(***************************************************************************)
StartReceiver ==
    /\ apc = "connect"
    /\ state' = "DISCONNECTED" /\ rpc' = "wait"
    /\ GoTo("open")
    /\ UNCHANGED <<messageVars, async, rmsg, handler, linkVars, ret, reply>>

\* open(), connect() and channel_setup.
OpenConnection ==
    /\ apc = "open"
    /\ \/ /\ link' = "up" /\ requests' = <<Simple("channel_setup")>>
          /\ GoTo("connecting")
       \/ /\ MayDisconnect /\ UNCHANGED <<link, requests>>
          /\ GoTo("connectFailed")
    /\ UNCHANGED <<messageVars, clientVars, inbox, unsolicited, ret, reply>>

StartListening ==
    /\ apc = "connecting"
    /\ state' = "CONNECTING" /\ rpc' = Woken
    /\ GoTo("channelReply")
    /\ UNCHANGED <<messageVars, async, rmsg, handler, linkVars, ret, reply>>

ChannelReply ==
    /\ apc = "channelReply"
    /\ AwaitReply("channel_status", 0, "streamSetup", "abortConnection")
    /\ UNCHANGED <<clientVars, linkVars, ret>>

StreamSetup ==
    /\ apc = "streamSetup"
    /\ \E ok \in BOOLEAN :
          /\ Sent(Simple("stream_setup"), ok)
          /\ GoTo(IF ok THEN "streamReply" ELSE "abortConnection")
    /\ UNCHANGED <<messageVars, clientVars, ret, reply>>

StreamReply ==
    /\ apc = "streamReply"
    /\ AwaitReply("stream_status", 0, "established", "abortConnection")
    /\ UNCHANGED <<clientVars, linkVars, ret>>

\* The state is set whatever the receiver thread has done of it.
Established ==
    /\ apc = "established"
    /\ state' = "CONNECTED"
    /\ GoTo("connected")
    /\ UNCHANGED <<messageVars, async, rpc, rmsg, handler, linkVars, ret, reply>>

AbortConnection ==
    /\ apc = "abortConnection"
    /\ state' = "DISCONNECTED" /\ rpc' = Woken /\ CloseLink
    /\ GoTo("connectFailed")
    /\ UNCHANGED <<messageVars, async, rmsg, handler, unsolicited, ret, reply>>

Connect ==
    \/ StartReceiver \/ OpenConnection \/ StartListening \/ ChannelReply \/ StreamSetup
    \/ StreamReply \/ Established \/ AbortConnection

(***************************************************************************)
(* generateECM() and submitECM() of the message provision, for handler h.  *)
(***************************************************************************)
SendProvision(provision) ==
    /\ apc = "generate"
    /\ \E ok \in BOOLEAN :
          /\ Sent(provision, ok)
          /\ GoTo(IF ok THEN "ecmReply" ELSE "genFailed")
    /\ UNCHANGED <<messageVars, clientVars, ret, reply>>

EcmReply(provision) ==
    /\ apc = "ecmReply"
    /\ AwaitReply("ECM_response", provision.cp, "gotECM", "genFailed")
    /\ UNCHANGED <<clientVars, linkVars, ret>>

Registered(num) == {r \in async : r[1] = num}

\* insert() in a map: an element with the same key is kept.
RegisterRequest(provision, h) ==
    /\ apc = "submit"
    /\ async' = async \cup (IF Registered(provision.cp) = {} THEN {<<provision.cp, h>>} ELSE {})
    /\ GoTo("submitSend")
    /\ UNCHANGED <<messageVars, state, rpc, rmsg, handler, linkVars, ret, reply>>

SubmitProvision(provision) ==
    /\ apc = "submitSend"
    /\ \E ok \in BOOLEAN :
          /\ Sent(provision, ok)
          /\ GoTo(IF ok THEN ret ELSE "submitFailed")
    /\ UNCHANGED <<messageVars, clientVars, ret, reply>>

UnregisterRequest(provision) ==
    /\ apc = "submitFailed"
    /\ async' = async \ Registered(provision.cp)
    /\ GoTo("genFailed")
    /\ UNCHANGED <<messageVars, state, rpc, rmsg, handler, linkVars, ret, reply>>

GenerateECM(provision, h) ==
    \/ SendProvision(provision) \/ EcmReply(provision)
    \/ RegisterRequest(provision, h) \/ SubmitProvision(provision) \/ UnregisterRequest(provision)

(***************************************************************************)
(* disconnect(), called when isConnected(), and the destructor.            *)
(***************************************************************************)
StopClient ==
    /\ apc = "stop"
    /\ IF state = "CONNECTED"
       THEN state' = "DISCONNECTING" /\ GoTo("closeStream")
       ELSE UNCHANGED state /\ GoTo("destroy")
    /\ UNCHANGED <<messageVars, async, rpc, rmsg, handler, linkVars, ret, reply>>

CloseStream ==
    /\ apc = "closeStream"
    /\ \E ok \in BOOLEAN :
          /\ Sent(Simple("stream_close_request"), ok)
          /\ GoTo(IF ok THEN "closeReply" ELSE "disconnect")
    /\ UNCHANGED <<messageVars, clientVars, ret, reply>>

CloseReply ==
    /\ apc = "closeReply"
    /\ AwaitReply("stream_close_response", 0, "closeChannel", "disconnect")
    /\ UNCHANGED <<clientVars, linkVars, ret>>

CloseChannel ==
    /\ apc = "closeChannel"
    /\ \E ok \in BOOLEAN : Sent(Simple("channel_close"), ok)
    /\ GoTo("disconnect")
    /\ UNCHANGED <<messageVars, clientVars, ret, reply>>

Disconnect ==
    /\ apc = "disconnect"
    /\ state' = "DISCONNECTED" /\ rpc' = Woken /\ CloseLink
    /\ GoTo("destroy")
    /\ UNCHANGED <<messageVars, async, rmsg, handler, unsolicited, ret, reply>>

\* Wrong variant: the receiver thread is not signalled.
DestroySilent ==
    /\ apc = "destroy"
    /\ state' = "DESTRUCTING" /\ CloseLink
    /\ GoTo("join")
    /\ UNCHANGED <<messageVars, async, rpc, rmsg, handler, unsolicited, ret, reply>>

Destroy ==
    /\ apc = "destroy"
    /\ state' = "DESTRUCTING" /\ rpc' = Woken /\ CloseLink
    /\ GoTo("join")
    /\ UNCHANGED <<messageVars, async, rmsg, handler, unsolicited, ret, reply>>

JoinReceiver ==
    /\ apc = "join" /\ rpc = "done"
    /\ GoTo("done")
    /\ UNCHANGED <<messageVars, clientVars, linkVars, ret, reply>>

Shutdown ==
    StopClient \/ CloseStream \/ CloseReply \/ CloseChannel \/ Disconnect \/ Destroy \/ JoinReceiver

-----------------------------------------------------------------------------
(***************************************************************************)
(* Receiver thread.                                                        *)
(***************************************************************************)
WaitConnection ==
    /\ rpc = "wait"
    /\ rpc' = CASE state = "DISCONNECTED" -> "asleep"
                [] state = "DESTRUCTING"  -> "done"
                [] OTHER                  -> "receive"
    /\ UNCHANGED <<messageVars, state, async, rmsg, handler, linkVars, appVars>>

\* receive() returns a message, or an error when there is none left on a closed link.
ReceiveMessage ==
    /\ rpc = "receive"
    /\ \/ /\ inbox # <<>>
          /\ rmsg' = Head(inbox) /\ inbox' = Tail(inbox) /\ rpc' = "dispatch"
       \/ /\ inbox = <<>> /\ link # "up"
          /\ rpc' = "error" /\ UNCHANGED <<rmsg, inbox>>
    /\ UNCHANGED <<messageVars, state, async, handler, link, requests, unsolicited, appVars>>

\* Automatic reply to channel_test and stream_test.
ReplyTest ==
    /\ rpc = "dispatch" /\ rmsg.tag = "test"
    /\ \E ok \in BOOLEAN :
          /\ Sent(Simple("status"), ok)
          /\ rpc' = IF ok THEN "receive" ELSE "error"
    /\ rmsg' = NoMessage
    /\ UNCHANGED <<messageVars, state, async, handler, appVars>>

\* Wrong variant: all pending requests are forgotten on a response.
PendingAfterAll(found) == IF found = {} THEN async ELSE {}

\* _async_requests after the search of a response.
PendingAfter(found) == async \ found

DispatchMessage ==
    /\ rpc = "dispatch" /\ rmsg.tag # "test"
    /\ LET found == IF rmsg.tag = "ECM_response" THEN Registered(rmsg.cp) ELSE {}
       IN  /\ async' = PendingAfter(found)
           /\ IF found = {} THEN rpc' = "enqueue" /\ UNCHANGED handler
              ELSE rpc' = "handle" /\ \E r \in found : handler' = r[2]
    /\ UNCHANGED <<messageVars, state, rmsg, linkVars, appVars>>

\* enqueue() without timeout.
EnqueueResponse ==
    /\ rpc = "enqueue"
    /\ \/ Enqueue(Receiver, rmsg) /\ rpc' = "receive" /\ rmsg' = NoMessage
       \/ EnqueueWaits(Receiver) /\ UNCHANGED <<rpc, rmsg>>
    /\ UNCHANGED <<state, async, handler, linkVars, appVars>>

ConnectionLost ==
    /\ rpc = "error"
    /\ IF state = "DESTRUCTING" THEN rpc' = "done" /\ UNCHANGED <<state, link, requests, inbox>>
       ELSE /\ rpc' = "wait" /\ state' = "DISCONNECTED"
            /\ IF state = "DISCONNECTED" THEN UNCHANGED <<link, requests, inbox>> ELSE CloseLink
    /\ UNCHANGED <<messageVars, async, rmsg, handler, unsolicited, appVars>>

ReceiverThread ==
    \/ WaitConnection \/ ReceiveMessage \/ ReplyTest \/ DispatchMessage \/ EnqueueResponse
    \/ ConnectionLost

-----------------------------------------------------------------------------
(***************************************************************************)
(* ECMG.                                                                   *)
(***************************************************************************)
Answers == [channel_setup |-> "channel_status", stream_setup |-> "stream_status",
            CW_provision |-> "ECM_response", stream_close_request |-> "stream_close_response"]

EcmgAnswer ==
    /\ link = "up" /\ requests # <<>>
    /\ requests' = Tail(requests)
    /\ inbox' = IF Head(requests).tag \in DOMAIN Answers
                THEN Append(inbox, [Head(requests) EXCEPT !.tag = Answers[@]])
                ELSE inbox
    /\ UNCHANGED <<messageVars, clientVars, link, unsolicited, appVars>>

EcmgSend ==
    /\ link = "up" /\ unsolicited < MaxUnsolicited
    /\ unsolicited' = unsolicited + 1
    /\ \E tag \in {"test", "error"} : inbox' = Append(inbox, Simple(tag))
    /\ UNCHANGED <<messageVars, clientVars, link, requests, appVars>>

EcmgDisconnect ==
    /\ MayDisconnect /\ link = "up"
    /\ link' = "eof" /\ requests' = <<>>
    /\ UNCHANGED <<messageVars, clientVars, inbox, unsolicited, appVars>>

Ecmg == EcmgAnswer \/ EcmgSend \/ EcmgDisconnect
=============================================================================

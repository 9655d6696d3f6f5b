----------------------------- MODULE Scrambler -----------------------------
(***************************************************************************)
(* The scrambler plugin with ECM generation: class ScramblerPlugin and its *)
(* CryptoPeriod objects, over the client of module ECMGClient.             *)
(*                                                                         *)
(* Time is counted in packets: cwIn and ecmIn are the distances from       *)
(* _packet_count to _pkt_change_cw and _pkt_change_ecm, zero when they are *)
(* in the past.  A packet is one of                                        *)
(*   newPMT: completes a new version of the PMT (handlePMT),               *)
(*   ecm:    null packet at or after the insertion point of the next ECM,  *)
(*   other:  any other packet.  That another packet of the PMT PID delays  *)
(*           a transition by one packet is left out: this is short, in the *)
(*           code, compared with the distance between two transitions.     *)
(* Packets which make the plugin end (service not found, PID conflict,     *)
(* already scrambled) are the end of the stream, as an end of input is.    *)
(*                                                                         *)
(* Control words are the numbers which the random generator draws, a       *)
(* crypto-period number is a uint16_t; both are taken modulo CpModulus.    *)
(* The steps of the plugin thread are cut where it reads _ecm_ok, which    *)
(* the receiver thread sets in handleECM().                                *)
(***************************************************************************)
EXTENDS ECMGClient

CONSTANTS
    CpDuration,  \* crypto-period in packets
    Delays,      \* values of delay_start in packets
    SyncModes,   \* values of _synchronous_ecmg
    MaxPMTs,     \* bound: versions of the PMT
    CpModulus,   \* modulus of crypto-period numbers, 2^16 in the code
    MayFailECM   \* the ECMG may return an invalid ECM

ASSUME ScramblerAssumption ==
    /\ CpDuration \in Nat \ {0}
    /\ Delays \subseteq {d \in Int : 2 * d <= CpDuration /\ -CpDuration <= 2 * d}
    /\ SyncModes \subseteq BOOLEAN /\ MayFailECM \in BOOLEAN
    /\ MaxPMTs \in Nat \ {0}
    /\ CpModulus \in Nat \ (0 .. 3)

VARIABLES
    delay,       \* _delay_start
    sync,        \* _synchronous_ecmg
    cp,          \* _cp: num (_cp_number), ok (_ecm_ok), ecm (_ecm: the control words in it),
                 \* cw (_cw_current), next (_cw_next)
    draws,       \* next random control word
    genSlot,     \* CryptoPeriod object in generateECM()
    currentCW,   \* _current_cw
    currentECM,  \* _current_ecm
    degraded,    \* _degraded_mode
    abort,       \* _abort
    cwIn, ecmIn,
    pmts,        \* count of handlePMT(); _scrambled_pids is empty when 0
    kind,        \* packet in processPacket()
    first        \* history: no ECM transition yet

slotVars  == <<cp, draws, genSlot>>
timeVars  == <<cwIn, ecmIn, pmts, kind>>
cycleVars == <<currentCW, currentECM, degraded, first>>
optVars   == <<delay, sync>>
vars == <<ecmgVars, slotVars, timeVars, cycleVars, optVars, abort>>

Abs(d) == IF d < 0 THEN -d ELSE d

Slot(num, cw, next) == [num |-> num, ok |-> FALSE, ecm |-> <<>>, cw |-> cw, next |-> next]

Init ==
    /\ ClientInit
    /\ delay \in Delays /\ sync \in SyncModes
    /\ cp = [k \in {0, 1} |-> Slot(0, 0, 0)] /\ draws = 0 /\ genSlot = 0
    /\ currentCW = 0 /\ currentECM = 0 /\ degraded = FALSE /\ first = TRUE
    /\ abort = FALSE
    /\ cwIn = 0 /\ ecmIn = 0 /\ pmts = 0 /\ kind = "other"

nextECM == 1 - currentECM

\* CW_provision of the CryptoPeriod object in generateECM().
Provision ==
    Message("CW_provision", cp[genSlot].num, <<cp[genSlot].cw, cp[genSlot].next>>)

-----------------------------------------------------------------------------
(***************************************************************************)
(* CryptoPeriod.                                                           *)
(***************************************************************************)
\* generateECM() of object k, up to the call to the client.  The plugin continues at label next.
GenerateFor(k, next) ==
    /\ genSlot' = k /\ ret' = next
    /\ GoTo(IF sync THEN "generate" ELSE "submit")

\* initCycle() in start().
InitCycle ==
    /\ apc = "connected"
    /\ cp' = [cp EXCEPT ![0] = Slot(0, 0, 1)]
    /\ draws' = 2
    /\ GenerateFor(0, "initNext")
    /\ UNCHANGED <<messageVars, clientVars, linkVars, reply, timeVars, cycleVars, optVars, abort>>

\* Wrong variant: both control words are drawn.
SlotAfterRandom(k) ==
    [num |-> (cp[k].num + 1) % CpModulus, ok |-> FALSE, ecm |-> cp[1 - k].ecm,
     cw |-> (draws + 1) % CpModulus, next |-> draws]

\* The object which follows cp[k], after initNext(cp[k]).
SlotAfter(k) ==
    [num |-> (cp[k].num + 1) % CpModulus, ok |-> FALSE, ecm |-> cp[1 - k].ecm,
     cw |-> cp[k].next, next |-> draws]

\* initNext(cp[k]) of the other object.
InitNext(k, next) ==
    /\ cp' = [cp EXCEPT ![1 - k] = SlotAfter(k)]
    /\ draws' = (draws + 1) % CpModulus
    /\ GenerateFor(1 - k, next)

\* handleECM() of object k for a response: an invalid ECM aborts the plugin.
HandleECM(k, response) ==
    \/ /\ cp' = [cp EXCEPT ![k].ok = TRUE, ![k].ecm = response.cws]
       /\ UNCHANGED abort
    \/ MayFailECM /\ abort' = TRUE /\ UNCHANGED cp

\* In the receiver thread, and in the plugin thread with --synchronous.
AsyncHandleECM ==
    /\ rpc = "handle"
    /\ HandleECM(handler, rmsg)
    /\ rpc' = "receive" /\ rmsg' = NoMessage /\ handler' = 0
    /\ UNCHANGED <<messageVars, state, async, linkVars, appVars, draws, genSlot, timeVars,
                   cycleVars, optVars>>

SyncHandleECM ==
    /\ apc = "gotECM"
    /\ HandleECM(genSlot, reply)
    /\ GoTo(ret) /\ reply' = NoMessage
    /\ UNCHANGED <<messageVars, clientVars, linkVars, ret, draws, genSlot, timeVars, cycleVars,
                   optVars>>

GenerateFailed ==
    /\ apc = "genFailed"
    /\ abort' = TRUE
    /\ GoTo(ret)
    /\ UNCHANGED <<messageVars, clientVars, linkVars, ret, reply, slotVars, timeVars, cycleVars,
                   optVars>>

-----------------------------------------------------------------------------
(***************************************************************************)
(* start()                                                                 *)
(***************************************************************************)
StartNext ==
    /\ apc = "initNext"
    /\ InitNext(0, "started")
    /\ UNCHANGED <<messageVars, clientVars, linkVars, reply, timeVars, cycleVars, optVars, abort>>

\* start() has returned; when it failed, the plugin object is deleted.
Started ==
    /\ apc \in {"started", "connectFailed"}
    /\ GoTo(IF apc = "connectFailed" \/ abort THEN "destroy" ELSE "packet")
    /\ UNCHANGED <<messageVars, clientVars, linkVars, ret, reply, slotVars, timeVars, cycleVars,
                   optVars, abort>>

-----------------------------------------------------------------------------
(***************************************************************************)
(* processPacket()                                                         *)
(***************************************************************************)
Closer(distance) == IF distance > 0 THEN distance - 1 ELSE 0

\* Wrong variant: the sign of the delay is ignored.
EcmDistanceAfter == CpDuration + Abs(delay)

\* Distance to the next ECM change in handlePMT().
EcmDistance == IF delay > 0 THEN CpDuration + Abs(delay) ELSE CpDuration - Abs(delay)

\* Up to the test of _pkt_change_cw.
ProcessPacket(k) ==
    /\ apc = "packet"
    /\ kind' = IF k = "ecm" THEN k ELSE "other"
    /\ IF k = "newPMT"
       THEN /\ pmts < MaxPMTs /\ pmts' = pmts + 1
            /\ cwIn' = CpDuration /\ ecmIn' = EcmDistance
       ELSE /\ pmts > 0 /\ UNCHANGED pmts
            /\ cwIn' = Closer(cwIn) /\ ecmIn' = Closer(ecmIn)
    /\ GoTo(IF abort THEN "stop" ELSE IF k = "newPMT" THEN "packet" ELSE "changeCW")
    /\ UNCHANGED <<messageVars, clientVars, linkVars, ret, reply, slotVars, cycleVars, optVars,
                   abort>>

\* End of the stream.
EndOfStream ==
    /\ apc = "packet"
    /\ GoTo("stop")
    /\ UNCHANGED <<messageVars, clientVars, linkVars, ret, reply, slotVars, timeVars, cycleVars,
                   optVars, abort>>

\* Wrong variant: the readiness of the next ECM is not tested.
InDegradedModeBlind == degraded

\* inDegradedMode(), which then sets the mode.
InDegradedMode == degraded \/ ~cp[nextECM].ok

\* changeCW() outside degraded mode.
SwitchCW(next) ==
    /\ currentCW' = 1 - currentCW
    /\ IF currentECM = currentCW' THEN InitNext(currentCW', next)
       ELSE GoTo(next) /\ UNCHANGED <<slotVars, ret>>
    /\ UNCHANGED <<currentECM, first>>

\* changeECM() outside degraded mode.
SwitchECM(next) ==
    /\ currentECM' = 1 - currentECM /\ first' = FALSE
    /\ IF currentECM' = currentCW THEN InitNext(currentCW, next)
       ELSE GoTo(next) /\ UNCHANGED <<slotVars, ret>>
    /\ UNCHANGED currentCW

\* The transition at its packet, which may enter degraded mode instead.
ChangeCW ==
    /\ apc = "changeCW"
    /\ CASE cwIn = 0 /\ ~InDegradedMode ->
              SwitchCW("changeECM") /\ cwIn' = CpDuration /\ UNCHANGED degraded
         [] cwIn = 0 /\ InDegradedMode ->
              degraded' = TRUE /\ GoTo("changeECM")
              /\ UNCHANGED <<currentCW, currentECM, first, slotVars, ret, cwIn>>
         [] OTHER -> GoTo("changeECM") /\ UNCHANGED <<cycleVars, slotVars, ret, cwIn>>
    /\ UNCHANGED <<messageVars, clientVars, linkVars, reply, ecmIn, pmts, kind, optVars, abort>>

ChangeECM ==
    /\ apc = "changeECM"
    /\ CASE ecmIn = 0 /\ ~InDegradedMode ->
              SwitchECM("insert") /\ ecmIn' = CpDuration /\ UNCHANGED degraded
         [] ecmIn = 0 /\ InDegradedMode ->
              degraded' = TRUE /\ GoTo("insert")
              /\ UNCHANGED <<currentCW, currentECM, first, slotVars, ret, ecmIn>>
         [] OTHER -> GoTo("insert") /\ UNCHANGED <<cycleVars, slotVars, ret, ecmIn>>
    /\ UNCHANGED <<messageVars, clientVars, linkVars, reply, cwIn, pmts, kind, optVars, abort>>

\* Exit of degraded mode in tryExitDegradedMode().
ExitDegraded ==
    IF delay < 0
    THEN SwitchECM("packet") /\ ecmIn' = CpDuration /\ cwIn' = Abs(delay)
    ELSE SwitchCW("packet") /\ cwIn' = CpDuration /\ ecmIn' = Abs(delay)

\* Insertion of an ECM packet, with tryExitDegradedMode(); or scrambling of the packet.
InsertECM ==
    /\ apc = "insert"
    /\ IF kind = "ecm" /\ degraded /\ cp[nextECM].ok
       THEN degraded' = FALSE /\ ExitDegraded
       ELSE GoTo("packet") /\ UNCHANGED <<cycleVars, slotVars, ret, cwIn, ecmIn>>
    /\ kind' = "other"
    /\ UNCHANGED <<messageVars, clientVars, linkVars, reply, pmts, optVars, abort>>

Packet == \E k \in {"newPMT", "ecm", "other"} : ProcessPacket(k)

Plugin ==
    \/ Connect /\ UNCHANGED <<slotVars, timeVars, cycleVars, optVars, abort>>
    \/ Shutdown /\ UNCHANGED <<slotVars, timeVars, cycleVars, optVars, abort>>
    \/ GenerateECM(Provision, genSlot)
          /\ UNCHANGED <<slotVars, timeVars, cycleVars, optVars, abort>>
    \/ InitCycle \/ StartNext \/ Started \/ SyncHandleECM \/ GenerateFailed
    \/ ChangeCW \/ ChangeECM \/ InsertECM

Client ==
    \/ ReceiverThread /\ UNCHANGED <<slotVars, timeVars, cycleVars, optVars, abort>>
    \/ AsyncHandleECM

Server == Ecmg /\ UNCHANGED <<slotVars, timeVars, cycleVars, optVars, abort>>

ServerAnswer == EcmgAnswer /\ UNCHANGED <<slotVars, timeVars, cycleVars, optVars, abort>>

Next == Plugin \/ Packet \/ EndOfStream \/ Client \/ Server

Spec == Init /\ [][Next]_vars

\* The threads run, the ECMG answers as long as it is connected, packets arrive, and null
\* packets are again and again available for ECM's.
FairSpec ==
    /\ Spec
    /\ WF_vars(Plugin) /\ WF_vars(Client) /\ WF_vars(ServerAnswer)
    /\ WF_vars(Packet) /\ SF_vars(ProcessPacket("ecm"))

-----------------------------------------------------------------------------
(***************************************************************************)
(* Properties.                                                             *)
(***************************************************************************)
\* The transitions of the packet are done; when the plugin aborts, this packet is the last one.
Running == apc \in {"packet", "insert"} /\ ~abort

\* "During cp(N), scrambling is performed using CW(N)": whatever the times of the responses,
\* the control word in use is in the ECM which is broadcast, or with a negative delay, in the
\* ECM which was broadcast before it.
Decodable ==
    Running /\ cp[currentECM].ok =>
        \E k \in {currentECM} \cup (IF delay < 0 THEN {currentCW} ELSE {}) :
            cp[k].ok /\ \E j \in 1 .. 2 : cp[k].ecm[j] = cp[currentCW].cw

\* "To complete a transition, we check that ECM(N+1) is ready": after the first transition, the
\* ECM to broadcast and the ECM of the control word in use are always available.
CurrentReady ==
    Running /\ ~first => cp[currentECM].ok /\ cp[currentCW].ok

\* "At beginning of cp(N), if delay_start > 0, we broadcast ECM(N-1). In middle of cp(N), we
\* broadcast ECM(N). At end of cp(N), if delay_start < 0, we broadcast ECM(N+1)."
EcmAligned ==
    Running =>
        LET lead == (cp[currentCW].num - cp[currentECM].num) % CpModulus
        IN  lead \in IF delay < 0 THEN {0, CpModulus - 1} ELSE {0, 1}

\* The response to a submitted ECM always goes to its handler, not to the queue where the
\* plugin thread expects the responses to its own requests.
HandlerGetsECM ==
    ~sync => \A j \in 1 .. Len(queue) : queue[j].tag # "ECM_response"

Ended == apc \in {"stop", "closeStream", "closeReply", "closeChannel", "disconnect", "destroy",
                  "join", "done"}

\* The receiver thread waits for room in the queue of responses.
QueueFull == Receiver \in onDequeued

(***************************************************************************)
(* As long as the ECMG is connected, the plugin leaves degraded mode, and  *)
(* changes its control word, unless it ends.  The exception is in          *)
(* asynchronous mode: the plugin thread does not read the queue of         *)
(* responses between packets, and when errors sent by the ECMG fill it,    *)
(* the receiver thread blocks in enqueue() and no ECM is handled any more. *)
(***************************************************************************)
DegradedEnds == degraded ~> (~degraded \/ link # "up" \/ Ended \/ (~sync /\ QueueFull))

(***************************************************************************)
(* When the plugin ends, the destructor of the client returns, whether the *)
(* receiver thread is asleep without a connection, receiving, or in a      *)
(* handler, and whatever other message is on its way.  The exception is a  *)
(* receiver thread which waits for room in the queue of responses while    *)
(* the destructor waits for this thread: nobody reads the queue any more.  *)
(***************************************************************************)
ShutdownCompletes == Ended ~> (apc = "done" \/ (apc = "join" /\ QueueFull))
=============================================================================

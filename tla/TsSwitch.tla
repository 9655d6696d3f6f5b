------------------------------ MODULE TsSwitch ------------------------------
(***************************************************************************)
(* The input switch tsswitch: classes Core, InputExecutor, OutputExecutor  *)
(* and CommandListener of namespace ts::tsswitch, with the receive         *)
(* watchdog of Core (class WatchDog).                                      *)
(*                                                                         *)
(* Threads: one per input plugin, the output, the command listener, the    *)
(* watchdog and the main thread.  The mutex of Core is the variable holder *)
(* because execute() runs several actions, one step each, while it is      *)
(* locked; each section under the mutex of one InputExecutor is one step.  *)
(* Condition variables are modelled by their sleeping waiters: a label     *)
(* which ends in "W" is a thread in waitCondition(), a signal moves it to  *)
(* the label without "W", where it evaluates its condition again.          *)
(*                                                                         *)
(* Packets have no content here: the ring buffer of an input is the pair   *)
(* (first, count) of InputExecutor, and the properties are about which     *)
(* slots are received into, which are output, and which input is current.  *)
(* What the plugins do is external: start() and send() may fail, receive() *)
(* returns any number of packets, zero being the end of input.             *)
(***************************************************************************)
EXTENDS Integers, Sequences

CONSTANTS
    NInputs,          \* number of input plugins
    BufferSize,       \* --buffer-packets
    MaxInputPackets,  \* --max-input-packets, at most half of BufferSize
    FirstInput,       \* --first-input
    CommandLines,     \* the other options and the environment, see below
    MaxCommands       \* bound: remote commands

Inputs   == 0 .. (NInputs - 1)
Output   == NInputs
Listener == NInputs + 1
Dog      == NInputs + 2
Main     == NInputs + 3
Threads  == 0 .. Main
None     == -1

(***************************************************************************)
(* One command line, with the use which is made of the process:            *)
(*   mode: "default", "fast" (--fast-switch), "delayed" (--delayed-switch) *)
(*   primary: --primary-input, NInputs when there is none (NPOS)           *)
(*   terminate: --terminate, which excludes the options of the cycle       *)
(*   cycle: --cycle, 1 by default, 0 is --infinite                         *)
(*   commands: remote commands which the user sends                        *)
(*   timeouts: bound on expirations of --receive-timeout, 0 without it     *)
(*   failures: what may fail, the start of an input or the output          *)
(***************************************************************************)
CommandLine ==
    [mode : {"default", "fast", "delayed"}, primary : 0 .. NInputs, terminate : BOOLEAN,
     cycle : Nat, commands : SUBSET {"set", "next", "prev", "quit"}, timeouts : Nat,
     failures : SUBSET {"start", "send"}]

ASSUME SwitchAssumption ==
    /\ NInputs \in Nat \ {0}
    /\ BufferSize \in Nat \ {0, 1}
    /\ MaxInputPackets \in 1 .. (BufferSize \div 2)
    /\ FirstInput \in Inputs
    /\ CommandLines \subseteq {l \in CommandLine : l.terminate => l.cycle = 1}
    /\ MaxCommands \in Nat

VARIABLES
    opt,          \* _opt, one of CommandLines
    \* Core
    curPlugin,    \* _curPlugin
    curCycle,     \* _curCycle, saturated at the number of cycles
    terminate,    \* _terminate
    actions,      \* _actions, queue of actions to execute
    events,       \* _events, pending events
    holder,       \* thread which locked _mutex, or None
    dogActive,    \* _active of _receiveWatchDog
    \* InputExecutor: isCurrent, inUse (_outputInUse), start (_startRequest),
    \* stop (_stopRequest), term (_terminated), first (_outFirst), count (_outCount)
    inp,
    inArea,       \* inFirst, inCount of each input thread
    started,      \* started, in main() of each input thread
    \* OutputExecutor
    outTerminate, \* _terminate
    outIdx,       \* pluginIndex
    outArea,      \* first, count
    \* Threads
    pc,
    stopStep,     \* progress of stop() in each thread
    startAt,      \* next input to start in Core::start()
    \* Bounds and history
    nCommands, nTimeouts, sendError

coreVars  == <<curPlugin, curCycle, terminate, actions, events>>
inputVars == <<inp, inArea, started>>
outVars   == <<outTerminate, outIdx, outArea>>
boundVars == <<nCommands, nTimeouts, sendError, startAt, opt>>
vars == <<coreVars, holder, dogActive, inputVars, outVars, pc, stopStep, boundVars>>

mode         == opt.mode
PrimaryInput == opt.primary
CycleCount   == opt.cycle

MinOf(a, b) == IF a <= b THEN a ELSE b

-----------------------------------------------------------------------------
(***************************************************************************)
(* Condition variables.                                                    *)
(***************************************************************************)
Woken == [idleW |-> "idle", spaceW |-> "space", drainW |-> "drain", getW |-> "get"]

\* pc after thread t moved to label next and signalled the threads in S.
Signalled(t, next, S) ==
    [u \in Threads |-> IF u = t THEN next
                       ELSE IF u \in S /\ pc[u] \in DOMAIN Woken THEN Woken[pc[u]]
                       ELSE pc[u]]

Goto(t, next) == pc' = [pc EXCEPT ![t] = next]

-----------------------------------------------------------------------------
(***************************************************************************)
(* Core: the queue of actions.                                             *)
(***************************************************************************)
Act(type, index, flag) == [type |-> type, index |-> index, flag |-> flag]
Suspend == Act("SUSPEND_TIMEOUT", 0, FALSE)
Restart == Act("RESTART_TIMEOUT", 0, FALSE)

WaitTypes == {"WAIT_STARTED", "WAIT_INPUT", "WAIT_STOPPED"}
Event(type, index) == [type |-> type, index |-> index]

If(cond, seq) == IF cond THEN seq ELSE <<>>

StopActions(i, abort) ==
    <<Act("ABORT_INPUT", i, abort), Act("STOP", i, FALSE), Act("WAIT_STOPPED", i, FALSE)>>

\* What setInputLocked(index, abort) enqueues.
\* Wrong variant: the first input is stopped before the switch.
DelayedSwitchStopFirst(index, abort) ==
    <<Suspend>> \o StopActions(curPlugin, abort)
    \o <<Act("START", index, FALSE), Act("WAIT_INPUT", index, FALSE),
         Act("SET_CURRENT", index, FALSE), Act("NOTIF_CURRENT", index, TRUE), Restart>>

DelayedSwitch(index, abort) ==
    <<Suspend>>
    \o If(index # PrimaryInput, <<Act("START", index, FALSE)>>)
    \o <<Act("WAIT_INPUT", index, FALSE)>>
    \o If(curPlugin = PrimaryInput, <<Act("NOTIF_CURRENT", curPlugin, FALSE)>>)
    \o <<Act("SET_CURRENT", index, FALSE), Act("NOTIF_CURRENT", index, TRUE), Restart>>
    \o If(curPlugin # PrimaryInput, StopActions(curPlugin, abort))

\* Wrong variant: the primary input is stopped like the others.
DirectSwitchStopAny(index, abort) ==
    <<Suspend>> \o StopActions(curPlugin, abort)
    \o <<Act("SET_CURRENT", index, FALSE), Act("START", index, TRUE),
         Act("WAIT_STARTED", index, FALSE), Restart>>

DirectSwitch(index, abort) ==
    <<Suspend>>
    \o (IF mode = "fast" \/ curPlugin = PrimaryInput
        THEN <<Act("NOTIF_CURRENT", curPlugin, FALSE)>>
        ELSE StopActions(curPlugin, abort))
    \o <<Act("SET_CURRENT", index, FALSE)>>
    \o (IF mode = "fast" \/ index = PrimaryInput
        THEN <<Act("NOTIF_CURRENT", index, TRUE)>>
        ELSE <<Act("START", index, TRUE), Act("WAIT_STARTED", index, FALSE)>>)
    \o <<Restart>>

\* setInputLocked(index, abort) up to execute(); an invalid or unchanged index is ignored.
SetInputLocked(index, abort) ==
    actions' = IF index \notin Inputs \/ index = curPlugin THEN actions
               ELSE actions \o (IF mode = "delayed" THEN DelayedSwitch(index, abort)
                                ELSE DirectSwitch(index, abort))

\* cancelActions(~type): only the actions of this type remain in the queue.
CancelActionsBut(type) ==
    LET kept[n \in 0 .. Len(actions)] ==
            IF n = 0 THEN <<>>
            ELSE IF actions[n].type = type THEN Append(kept[n - 1], actions[n])
            ELSE kept[n - 1]
    IN  kept[Len(actions)]

NextPlugin == (curPlugin + 1) % NInputs
PrevPlugin == (IF curPlugin > 0 THEN curPlugin ELSE NInputs) - 1

(***************************************************************************)
(* execute(): one step per action, while the holder keeps _mutex locked.   *)
(***************************************************************************)
HeadAct == Head(actions)

Executing(types) ==
    /\ holder # None
    /\ actions # <<>>
    /\ HeadAct.type \in types
    /\ actions' = Tail(actions)

ExecStart ==
    /\ Executing({"START"})
    /\ inp' = [inp EXCEPT ![HeadAct.index].isCurrent = HeadAct.flag,
                          ![HeadAct.index].start = TRUE,
                          ![HeadAct.index].stop = FALSE]
    /\ pc' = Signalled(holder, pc[holder], {HeadAct.index})
    /\ UNCHANGED <<curPlugin, curCycle, terminate, events, holder, dogActive, inArea, started,
                   outVars, stopStep, boundVars>>

ExecStop ==
    /\ Executing({"STOP"})
    /\ dogActive' = (dogActive /\ HeadAct.index # curPlugin)
    /\ inp' = [inp EXCEPT ![HeadAct.index].start = FALSE, ![HeadAct.index].stop = TRUE]
    /\ pc' = Signalled(holder, pc[holder], {HeadAct.index})
    /\ UNCHANGED <<curPlugin, curCycle, terminate, events, holder, inArea, started, outVars,
                   stopStep, boundVars>>

\* abortInput() makes receive() return, which it may do anyway in this model.
ExecAbort ==
    /\ Executing({"ABORT_INPUT"})
    /\ UNCHANGED <<curPlugin, curCycle, terminate, events, holder, dogActive, inputVars, outVars,
                   pc, stopStep, boundVars>>

ExecTimeout ==
    /\ Executing({"RESTART_TIMEOUT", "SUSPEND_TIMEOUT"})
    /\ dogActive' = (HeadAct.type = "RESTART_TIMEOUT")
    /\ UNCHANGED <<curPlugin, curCycle, terminate, events, holder, inputVars, outVars, pc,
                   stopStep, boundVars>>

\* setCurrent() does not signal the input thread.
ExecNotifCurrent ==
    /\ Executing({"NOTIF_CURRENT"})
    /\ inp' = [inp EXCEPT ![HeadAct.index].isCurrent = HeadAct.flag]
    /\ UNCHANGED <<curPlugin, curCycle, terminate, events, holder, dogActive, inArea, started,
                   outVars, pc, stopStep, boundVars>>

ExecSetCurrent ==
    /\ Executing({"SET_CURRENT"})
    /\ curPlugin' = HeadAct.index
    /\ UNCHANGED <<curCycle, terminate, events, holder, dogActive, inputVars, outVars, pc,
                   stopStep, boundVars>>

ExecWait ==
    /\ Executing(WaitTypes)
    /\ Event(HeadAct.type, HeadAct.index) \in events
    /\ events' = events \ {Event(HeadAct.type, HeadAct.index)}
    /\ UNCHANGED <<curPlugin, curCycle, terminate, holder, dogActive, inputVars, outVars, pc,
                   stopStep, boundVars>>

Execute == \/ ExecStart \/ ExecStop \/ ExecAbort \/ ExecTimeout
           \/ ExecNotifCurrent \/ ExecSetCurrent \/ ExecWait

\* execute() returns: the queue is empty or it waits for an event.
ExecuteReturns ==
    actions # <<>> => /\ HeadAct.type \in WaitTypes
                      /\ Event(HeadAct.type, HeadAct.index) \notin events

\* Thread t enters and leaves the section under the mutex of Core.
Lock(t)   == holder = None /\ holder' = t
Unlock(t) == holder = t /\ ExecuteReturns /\ holder' = None

-----------------------------------------------------------------------------
(***************************************************************************)
(* Core::stop(success), called by thread t.  With success = false the loop *)
(* on the inputs is not executed.                                          *)
(***************************************************************************)
StopCore(t) ==
    /\ pc[t] = "stop"
    /\ stopStep[t] = 0
    /\ holder = None
    /\ terminate' = TRUE
    /\ stopStep' = [stopStep EXCEPT ![t] = 1]
    /\ pc' = Signalled(t, "stop", {Output})
    /\ UNCHANGED <<curPlugin, curCycle, actions, events, holder, dogActive, inputVars, outVars,
                   boundVars>>

StopOutput(t) ==
    /\ pc[t] = "stop"
    /\ stopStep[t] = 1
    /\ outTerminate' = TRUE
    /\ stopStep' = [stopStep EXCEPT ![t] = 2]
    /\ UNCHANGED <<coreVars, holder, dogActive, inputVars, outIdx, outArea, pc, boundVars>>

StopInputs(t, success) ==
    /\ pc[t] = "stop"
    /\ stopStep[t] >= 2
    /\ success
    /\ stopStep[t] - 2 \in Inputs
    /\ inp' = [inp EXCEPT ![stopStep[t] - 2].term = TRUE]
    /\ pc' = Signalled(t, "stop", {stopStep[t] - 2})
    /\ stopStep' = [stopStep EXCEPT ![t] = @ + 1]
    /\ UNCHANGED <<coreVars, holder, dogActive, inArea, started, outVars, boundVars>>

StopReturn(t, success, next) ==
    /\ pc[t] = "stop"
    /\ stopStep[t] >= 2
    /\ success => stopStep[t] - 2 \notin Inputs
    /\ stopStep' = [stopStep EXCEPT ![t] = 0]
    /\ Goto(t, next)
    /\ UNCHANGED <<coreVars, holder, dogActive, inputVars, outVars, boundVars>>

Stop(t, success, next) ==
    StopCore(t) \/ StopOutput(t) \/ StopInputs(t, success) \/ StopReturn(t, success, next)

-----------------------------------------------------------------------------
(***************************************************************************)
(* Input threads.                                                          *)
(***************************************************************************)
Full(i) == inp[i].count >= BufferSize

\* Wait for a start request, after the reset of the buffer in a new iteration.
WaitStart(i) ==
    /\ pc[i] \in {"begin", "idle"}
    /\ LET this == IF pc[i] = "begin" THEN [inp[i] EXCEPT !.first = 0, !.count = 0] ELSE inp[i]
           go   == this.start /\ ~this.term
       IN /\ inp' = [inp EXCEPT ![i] = IF go THEN [this EXCEPT !.start = FALSE, !.stop = FALSE]
                                       ELSE this]
          /\ Goto(i, IF this.term THEN "done" ELSE IF go THEN "starting" ELSE "idleW")
    /\ UNCHANGED <<coreVars, holder, dogActive, inArea, started, outVars, stopStep, boundVars>>

PluginStart(i) ==
    /\ pc[i] = "starting"
    /\ \E ok \in IF "start" \in opt.failures THEN BOOLEAN ELSE {TRUE} :
          started' = [started EXCEPT ![i] = ok]
    /\ Goto(i, "inputStarted")
    /\ UNCHANGED <<coreVars, holder, dogActive, inp, inArea, outVars, stopStep, boundVars>>

\* Wrong variant: a failed start is not reported as an event.
InputStartedOnSuccess(i) ==
    /\ pc[i] = "inputStarted"
    /\ Lock(i)
    /\ events' = IF started[i] THEN events \cup {Event("WAIT_STARTED", i)} ELSE events
    /\ UNCHANGED <<curPlugin, curCycle, terminate, actions, dogActive, inputVars, outVars, pc,
                   stopStep, boundVars>>

InputStarted(i) ==
    /\ pc[i] = "inputStarted"
    /\ Lock(i)
    /\ events' = events \cup {Event("WAIT_STARTED", i)}
    /\ UNCHANGED <<curPlugin, curCycle, terminate, actions, dogActive, inputVars, outVars, pc,
                   stopStep, boundVars>>

InputStartedReturn(i) ==
    /\ pc[i] = "inputStarted"
    /\ Unlock(i)
    /\ dogActive' = (dogActive \/ i = curPlugin)
    /\ Goto(i, IF started[i] THEN "space" ELSE "inputStopped")
    /\ UNCHANGED <<coreVars, inputVars, outVars, stopStep, boundVars>>

\* Wrong variant: the current input also drops packets.
MayDropAny(i) == TRUE

\* In --fast-switch mode, when the input is not the current one, the older packets are dropped.
MayDrop(i) == ~inp[i].isCurrent /\ mode = "fast"

\* Wait for free buffer or stop.
WaitSpace(i) ==
    /\ pc[i] = "space"
    /\ ~inp[i].stop /\ ~inp[i].term
    /\ Full(i)
    /\ ~MayDrop(i)
    /\ Goto(i, "spaceW")
    /\ UNCHANGED <<coreVars, holder, dogActive, inputVars, outVars, stopStep, boundVars>>

PrepareReceive(i) ==
    /\ pc[i] = "space"
    /\ ~inp[i].stop /\ ~inp[i].term
    /\ Full(i) => MayDrop(i)
    /\ LET free    == IF Full(i) THEN MinOf(MaxInputPackets, BufferSize - inp[i].first) ELSE 0
           first   == (inp[i].first + free) % BufferSize
           count   == inp[i].count - free
           inFirst == (first + count) % BufferSize
       IN /\ inp' = [inp EXCEPT ![i].first = first, ![i].count = count]
          /\ inArea' = [inArea EXCEPT ![i] =
                [first |-> inFirst,
                 count |-> MinOf(MaxInputPackets, MinOf(BufferSize - count, BufferSize - inFirst))]]
    /\ Goto(i, "receive")
    /\ UNCHANGED <<coreVars, holder, dogActive, started, outVars, stopStep, boundVars>>

StopRequested(i) ==
    /\ pc[i] = "space"
    /\ inp[i].stop \/ inp[i].term
    /\ Goto(i, "drain")
    /\ UNCHANGED <<coreVars, holder, dogActive, inputVars, outVars, stopStep, boundVars>>

Receive(i) ==
    /\ pc[i] = "receive"
    /\ \E n \in 1 .. inArea[i].count : inp' = [inp EXCEPT ![i].count = @ + n]
    /\ Goto(i, "inputReceived")
    /\ UNCHANGED <<coreVars, holder, dogActive, inArea, started, outVars, stopStep, boundVars>>

EndOfInput(i) ==
    /\ pc[i] = "receive"
    /\ Goto(i, "drain")
    /\ UNCHANGED <<coreVars, holder, dogActive, inputVars, outVars, stopStep, boundVars>>

InputReceived(i) ==
    /\ pc[i] = "inputReceived"
    /\ Lock(i)
    /\ dogActive' = (dogActive \/ i = curPlugin)
    /\ events' = events \cup {Event("WAIT_INPUT", i)}
    /\ UNCHANGED <<curPlugin, curCycle, terminate, actions, inputVars, outVars, pc, stopStep,
                   boundVars>>

\* Packets are back on the primary input: drop the pending actions and switch to it.
BackOnPrimary(i) == i = PrimaryInput /\ curPlugin # PrimaryInput

PrimarySwitch ==
    <<Suspend, Act("NOTIF_CURRENT", curPlugin, FALSE), Act("SET_CURRENT", PrimaryInput, FALSE),
      Act("NOTIF_CURRENT", PrimaryInput, TRUE), Restart>>
    \o If(mode # "fast", StopActions(curPlugin, TRUE))

\* Wrong variant: the pending actions are kept.
ActionsToPrimaryLater == actions \o PrimarySwitch

ActionsToPrimary == PrimarySwitch

SwitchToPrimary(i) ==
    /\ pc[i] = "inputReceived"
    /\ holder = i
    /\ ExecuteReturns
    /\ BackOnPrimary(i)
    /\ actions' = ActionsToPrimary
    /\ Goto(i, "toPrimary")
    /\ UNCHANGED <<curPlugin, curCycle, terminate, events, holder, dogActive, inputVars, outVars,
                   stopStep, boundVars>>

InputReceivedReturn(i) ==
    /\ pc[i] = "toPrimary" \/ (pc[i] = "inputReceived" /\ ~BackOnPrimary(i))
    /\ Unlock(i)
    /\ pc' = Signalled(i, "space", IF i = curPlugin THEN {Output} ELSE {})
    /\ UNCHANGED <<coreVars, dogActive, inputVars, outVars, stopStep, boundVars>>

\* Wrong variant: the output may still use the buffer after a stop.
HasOutputUnlessStopped(i) == inp[i].count > 0 /\ ~inp[i].stop /\ ~inp[i].term

\* The output must not use the buffer any longer; after a normal end of input, all packets
\* must be output.
HasOutput(i) == inp[i].inUse \/ (inp[i].count > 0 /\ ~inp[i].stop /\ ~inp[i].term)

EndSession(i) ==
    /\ pc[i] = "drain"
    /\ IF HasOutput(i)
       THEN Goto(i, "drainW") /\ UNCHANGED inp
       ELSE Goto(i, "inputStopped") /\ inp' = [inp EXCEPT ![i].first = 0, ![i].count = 0]
    /\ UNCHANGED <<coreVars, holder, dogActive, inArea, started, outVars, stopStep, boundVars>>

\* Wrong variant: one cycle too many.
StopRequestLate(cycles) == opt.terminate \/ (CycleCount > 0 /\ cycles > CycleCount)

StopRequest(cycles) == opt.terminate \/ (CycleCount > 0 /\ cycles >= CycleCount)

InputStopped(i) ==
    /\ pc[i] = "inputStopped"
    /\ Lock(i)
    /\ curCycle' = IF i = NInputs - 1 THEN MinOf(curCycle + 1, CycleCount) ELSE curCycle
    /\ actions' =
          IF StopRequest(curCycle')
          THEN <<Suspend>> \o CancelActionsBut("WAIT_STOPPED")
          ELSE IF i = curPlugin /\ actions = <<>>
          THEN <<Suspend, Act("SET_CURRENT", NextPlugin, FALSE)>>
               \o (IF mode = "fast" THEN <<Act("NOTIF_CURRENT", NextPlugin, TRUE)>>
                   ELSE <<Act("START", NextPlugin, TRUE), Act("WAIT_STARTED", NextPlugin, FALSE)>>)
               \o <<Restart>>
          ELSE actions
    /\ events' = events \cup {Event("WAIT_STOPPED", i)}
    /\ UNCHANGED <<curPlugin, terminate, dogActive, inputVars, outVars, pc, stopStep, boundVars>>

\* _mutex is locked since InputStopped: StopRequest still has the value computed there.
InputStoppedReturn(i) ==
    /\ pc[i] = "inputStopped"
    /\ Unlock(i)
    /\ Goto(i, IF StopRequest(curCycle) THEN "stop" ELSE "begin")
    /\ UNCHANGED <<coreVars, dogActive, inputVars, outVars, stopStep, boundVars>>

Input(i) ==
    \/ WaitStart(i) \/ PluginStart(i) \/ InputStarted(i) \/ InputStartedReturn(i)
    \/ WaitSpace(i) \/ PrepareReceive(i) \/ StopRequested(i) \/ Receive(i) \/ EndOfInput(i)
    \/ InputReceived(i) \/ SwitchToPrimary(i) \/ InputReceivedReturn(i)
    \/ EndSession(i) \/ InputStopped(i) \/ InputStoppedReturn(i) \/ Stop(i, TRUE, "begin")

-----------------------------------------------------------------------------
(***************************************************************************)
(* Output thread.                                                          *)
(***************************************************************************)
OutputLoop ==
    /\ pc[Output] = "top"
    /\ Goto(Output, IF outTerminate THEN "done" ELSE "get")
    /\ UNCHANGED <<coreVars, holder, dogActive, inputVars, outVars, stopStep, boundVars>>

GetOutputArea ==
    /\ pc[Output] = "get"
    /\ holder = None
    /\ IF terminate
       THEN Goto(Output, "done") /\ UNCHANGED <<inp, outIdx, outArea>>
       ELSE LET count == MinOf(inp[curPlugin].count, BufferSize - inp[curPlugin].first)
            IN /\ inp' = [inp EXCEPT ![curPlugin].inUse = count > 0]
               /\ outIdx' = IF count > 0 THEN curPlugin ELSE outIdx
               /\ outArea' = [first |-> inp[curPlugin].first, count |-> count]
               /\ pc' = Signalled(Output, IF count > 0 THEN "got" ELSE "getW", {curPlugin})
    /\ UNCHANGED <<coreVars, holder, dogActive, inArea, started, outTerminate, stopStep, boundVars>>

\* "if (!_terminate && count > 0)"
OutputCheck ==
    /\ pc[Output] = "got"
    /\ Goto(Output, IF outTerminate THEN "top" ELSE "send")
    /\ UNCHANGED <<coreVars, holder, dogActive, inputVars, outVars, stopStep, boundVars>>

\* Wrong variant: the position is not wrapped.
FreeOutputNoWrap(i, n) ==
    [inp[i] EXCEPT !.first = @ + n, !.count = @ - n, !.inUse = FALSE]

FreeOutput(i, n) ==
    [inp[i] EXCEPT !.first = (@ + n) % BufferSize, !.count = @ - n, !.inUse = FALSE]

\* send(), then outputSent().  The process stops when the assertion in freeOutput() fails.
OutputSend ==
    /\ pc[Output] = "send"
    /\ outArea.count <= inp[outIdx].count
    /\ inp' = [inp EXCEPT ![outIdx] = FreeOutput(outIdx, outArea.count)]
    /\ \E success \in IF "send" \in opt.failures THEN BOOLEAN ELSE {TRUE} :
          /\ pc' = Signalled(Output, IF success THEN "top" ELSE "stop", {outIdx})
          /\ sendError' = (sendError \/ ~success)
    /\ UNCHANGED <<coreVars, holder, dogActive, inArea, started, outVars, stopStep, nCommands,
                   nTimeouts, startAt, opt>>

OutputThread ==
    OutputLoop \/ GetOutputArea \/ OutputCheck \/ OutputSend \/ Stop(Output, FALSE, "top")

-----------------------------------------------------------------------------
(***************************************************************************)
(* Command listener, watchdog and main threads.                            *)
(***************************************************************************)
SwitchCommand(cmd) ==
    /\ cmd \in opt.commands \ {"quit"}
    /\ pc[Listener] = "listen"
    /\ Lock(Listener)
    /\ nCommands < MaxCommands
    /\ nCommands' = nCommands + 1
    /\ \/ cmd = "next" /\ SetInputLocked(NextPlugin, FALSE)
       \/ cmd = "prev" /\ SetInputLocked(PrevPlugin, FALSE)
       \/ cmd = "set"  /\ \E index \in 0 .. NInputs : SetInputLocked(index, FALSE)
    /\ UNCHANGED <<curPlugin, curCycle, terminate, events, dogActive, inputVars, outVars, pc,
                   stopStep, nTimeouts, sendError, startAt, opt>>

SwitchCommandReturn ==
    /\ pc[Listener] = "listen"
    /\ Unlock(Listener)
    /\ UNCHANGED <<coreVars, dogActive, inputVars, outVars, pc, stopStep, boundVars>>

QuitCommand ==
    /\ "quit" \in opt.commands
    /\ pc[Listener] = "listen"
    /\ holder # Listener
    /\ nCommands < MaxCommands
    /\ nCommands' = nCommands + 1
    /\ Goto(Listener, "stop")
    /\ UNCHANGED <<coreVars, holder, dogActive, inputVars, outVars, stopStep, nTimeouts,
                   sendError, startAt, opt>>

CommandListener ==
    \/ \E cmd \in opt.commands : SwitchCommand(cmd)
    \/ SwitchCommandReturn \/ QuitCommand \/ Stop(Listener, TRUE, "listen")

\* The watchdog calls its handler without its mutex: a suspend() or restart() between the
\* expiration and the handler does not cancel it.
Expire ==
    /\ pc[Dog] = "timer"
    /\ dogActive
    /\ nTimeouts < opt.timeouts
    /\ nTimeouts' = nTimeouts + 1
    /\ Goto(Dog, "expired")
    /\ UNCHANGED <<coreVars, holder, dogActive, inputVars, outVars, stopStep, nCommands,
                   sendError, startAt, opt>>

HandleWatchDogTimeout ==
    /\ pc[Dog] = "expired"
    /\ Lock(Dog)
    /\ SetInputLocked(NextPlugin, TRUE)
    /\ UNCHANGED <<curPlugin, curCycle, terminate, events, dogActive, inputVars, outVars, pc,
                   stopStep, boundVars>>

HandleWatchDogReturn ==
    /\ pc[Dog] = "expired"
    /\ Unlock(Dog)
    /\ Goto(Dog, "timer")
    /\ UNCHANGED <<coreVars, dogActive, inputVars, outVars, stopStep, boundVars>>

WatchDog == Expire \/ HandleWatchDogTimeout \/ HandleWatchDogReturn

\* Wrong variant: as in --fast-switch mode.
StartTargetsAll == {startAt} \cap Inputs

\* Core::start(), once all threads are started: the inputs to start at each step.
StartTargets ==
    CASE mode = "fast" -> {startAt} \cap Inputs
      [] mode # "fast" /\ startAt = 0 -> {curPlugin}
      [] mode # "fast" /\ startAt = 1 -> {PrimaryInput} \cap (Inputs \ {curPlugin})
      [] OTHER -> {}

StartSteps == IF mode = "fast" THEN NInputs ELSE 2

CoreStart ==
    /\ pc[Main] = "start"
    /\ startAt < StartSteps
    /\ startAt' = startAt + 1
    /\ inp' = [i \in Inputs |->
                 IF i \in StartTargets
                 THEN [inp[i] EXCEPT !.isCurrent = (i = curPlugin), !.start = TRUE, !.stop = FALSE]
                 ELSE inp[i]]
    /\ pc' = Signalled(Main, "start", StartTargets)
    /\ UNCHANGED <<coreVars, holder, dogActive, inArea, started, outVars, stopStep, nCommands,
                   nTimeouts, sendError, opt>>

AllDone == \A t \in Inputs \cup {Output} : pc[t] = "done"

WaitForTermination ==
    /\ pc[Main] = "start"
    /\ startAt = StartSteps
    /\ AllDone
    /\ Goto(Main, "done")
    /\ UNCHANGED <<coreVars, holder, dogActive, inputVars, outVars, stopStep, boundVars>>

-----------------------------------------------------------------------------
Init ==
    /\ opt \in CommandLines
    /\ curPlugin = FirstInput
    /\ curCycle = 0
    /\ terminate = FALSE
    /\ actions = <<>>
    /\ events = {}
    /\ holder = None
    /\ dogActive = FALSE
    /\ inp = [i \in Inputs |-> [isCurrent |-> FALSE, inUse |-> FALSE, start |-> FALSE,
                                stop |-> FALSE, term |-> FALSE, first |-> 0, count |-> 0]]
    /\ inArea = [i \in Inputs |-> [first |-> 0, count |-> 0]]
    /\ started = [i \in Inputs |-> FALSE]
    /\ outTerminate = FALSE
    /\ outIdx = 0
    /\ outArea = [first |-> 0, count |-> 0]
    /\ pc = [t \in Threads |-> CASE t \in Inputs -> "begin"
                                 [] t = Output -> "top"
                                 [] t = Listener -> "listen"
                                 [] t = Dog -> "timer"
                                 [] t = Main -> "start"]
    /\ stopStep = [t \in Threads |-> 0]
    /\ startAt = 0
    /\ nCommands = 0
    /\ nTimeouts = 0
    /\ sendError = FALSE

Next ==
    \/ Execute
    \/ \E i \in Inputs : Input(i)
    \/ OutputThread
    \/ CommandListener
    \/ WatchDog
    \/ CoreStart
    \/ WaitForTermination

Spec == Init /\ [][Next]_vars

\* The system schedules all threads and all plugin calls return.  An input session ends
\* at some point (SF: it may receive packets any number of times before).
Fairness ==
    /\ WF_vars(Execute)
    /\ \A i \in Inputs : WF_vars(Input(i)) /\ SF_vars(EndOfInput(i))
    /\ WF_vars(OutputThread)
    /\ WF_vars(SwitchCommandReturn \/ Stop(Listener, TRUE, "listen"))
    /\ WF_vars(HandleWatchDogTimeout \/ HandleWatchDogReturn)
    /\ WF_vars(CoreStart \/ WaitForTermination)

FairSpec == Spec /\ Fairness

-----------------------------------------------------------------------------
(***************************************************************************)
(* Properties.                                                             *)
(***************************************************************************)
Area == [first : 0 .. (BufferSize - 1), count : 0 .. BufferSize]

Labels == {"begin", "idle", "idleW", "starting", "inputStarted", "space", "spaceW", "receive",
           "inputReceived", "toPrimary", "drain", "drainW", "inputStopped", "stop", "top", "get", "getW",
           "got", "send", "listen", "timer", "expired", "start", "done"}

\* Every variable has its type.  The assertions on inFirst and inCount in InputExecutor::main
\* are the first and last conjuncts on inArea.
TypeOK ==
    /\ opt \in CommandLines
    /\ curPlugin \in Inputs
    /\ curCycle \in 0 .. CycleCount
    /\ terminate \in BOOLEAN
    /\ actions \in Seq([type : WaitTypes \cup {"START", "STOP", "ABORT_INPUT", "RESTART_TIMEOUT",
                                "SUSPEND_TIMEOUT", "NOTIF_CURRENT", "SET_CURRENT"},
                        index : Inputs, flag : BOOLEAN])
    /\ events \subseteq [type : WaitTypes, index : Inputs]
    /\ holder \in Threads \cup {None}
    /\ dogActive \in BOOLEAN
    /\ inp \in [Inputs -> [isCurrent : BOOLEAN, inUse : BOOLEAN, start : BOOLEAN, stop : BOOLEAN,
                           term : BOOLEAN, first : 0 .. (BufferSize - 1), count : 0 .. BufferSize]]
    /\ inArea \in [Inputs -> Area]
    /\ \A i \in Inputs : inArea[i].first + inArea[i].count <= BufferSize
    /\ started \in [Inputs -> BOOLEAN]
    /\ outTerminate \in BOOLEAN
    /\ outIdx \in Inputs
    /\ outArea \in Area
    /\ pc \in [Threads -> Labels]
    /\ stopStep \in [Threads -> 0 .. (NInputs + 2)]
    /\ startAt \in 0 .. StartSteps
    /\ nCommands \in 0 .. MaxCommands
    /\ nTimeouts \in 0 .. opt.timeouts
    /\ sendError \in BOOLEAN

Slots(area) == {(area.first + k) % BufferSize : k \in 0 .. (area.count - 1)}

OutputUses(i) == pc[Output] \in {"got", "send"} /\ outIdx = i

\* The assertion at the start of freeOutput(): the packets which are sent are still counted
\* in the buffer of the input they came from.
FreeOutputAssertion ==
    pc[Output] = "send" => outArea.count <= inp[outIdx].count

\* An input thread never receives into a packet which waits for the output or which the
\* output plugin is sending, and the assertion of freeOutput() holds.  In --fast-switch mode,
\* an input which is no longer current drops packets, be they being sent or not.
NoOverwrite ==
    mode # "fast" =>
        /\ \A i \in Inputs : pc[i] = "receive" =>
              /\ Slots(inArea[i]) \cap Slots(inp[i]) = {}
              /\ OutputUses(i) => Slots(inArea[i]) \cap Slots(outArea) = {}
        /\ FreeOutputAssertion

InSession(i) ==
    \/ pc[i] \in {"starting", "space", "spaceW", "receive", "inputReceived", "toPrimary",
                 "drain", "drainW"}
    \/ pc[i] = "inputStarted" /\ started[i]

\* "By default, only one input plugin is started at a time": in particular, the next input is
\* only started when the previous one has really ended its session.
SingleSession ==
    mode = "default" => \A i, j \in Inputs : InSession(i) /\ InSession(j) => i = j

\* The output plugin only sends packets of an input which has not ended its session, and this
\* input knows it (_outputInUse): the input plugin cannot stop or restart below the output.
OutputFromSession ==
    \A i \in Inputs : OutputUses(i) => InSession(i) /\ inp[i].inUse

\* In a delayed switch, whatever switches pile up in the queue of actions, the current input is
\* never the one which was asked to stop, as far as the output can see it (it chooses its input
\* with the mutex of Core locked): the output does not lose its input before the switch.
CurrentNotStopped == mode = "delayed" /\ holder = None => ~inp[curPlugin].stop

\* The primary input is never asked to stop, by an operator, a timeout or a fallback.
PrimaryNeverStopped ==
    \A i \in Inputs \cap {PrimaryInput} : ~inp[i].stop

\* The assertion at the end of inputReceived(): after packets of the primary input, it is the
\* current input, whatever switch was pending and whoever waits for what.
PrimaryIsCurrent ==
    [][\A i \in Inputs \cap {PrimaryInput} :
          pc[i] \in {"inputReceived", "toPrimary"} /\ pc'[i] = "space"
             => curPlugin' = PrimaryInput]_vars

\* With --infinite and without remote commands, the queue of actions never remains stuck on an
\* event which never comes, even after a failed start: inputs are started again forever.
ActionsComplete ==
    CycleCount = 0 => []<>(actions = <<>>) /\ []<>(pc[curPlugin] = "starting")

\* With a finite number of cycles or --terminate, all threads terminate and the process exits.
Termination == CycleCount > 0 ~> (pc[Main] = "done")

\* After Core::stop(), whoever calls it, all threads terminate and the process exits.
StopTerminates == terminate ~> (pc[Main] = "done")
=============================================================================

---------------------------- MODULE AsyncReport ----------------------------
(***************************************************************************)
(* Class AsyncReport: several threads log messages through a MessageQueue, *)
(* a logging thread writes them.  In asynchronous mode a message is        *)
(* dropped when the queue is full, in synchronous mode its thread waits.   *)
(*                                                                         *)
(* The main thread terminates the report as tsp and tsswitch do, in the    *)
(* destructor of the report, after the termination of the other threads.   *)
(* A message is a pair <<producer, position>>, a fatal message being the   *)
(* last one of its thread; the logging thread exits the process on it.     *)
(***************************************************************************)
EXTENDS MessageQueue

CONSTANTS
    Producers,   \* threads which log messages
    MaxLogs,     \* bound: messages of each of them
    SyncModes,   \* values of _synchronous
    MayFatal     \* the last message of a thread may be fatal

ASSUME ReportAssumption ==
    /\ MaxLogs \in Nat \ {0}
    /\ SyncModes \subseteq BOOLEAN
    /\ MayFatal \in BOOLEAN

Logger == "logger"
Terminate == <<"terminate", 0>>

VARIABLES
    synchronous,  \* _synchronous
    sent,         \* messages which each producer has logged
    lpc,          \* label of the logging thread
    msg,          \* msg in AsyncReport::main()
    mpc,          \* label of the main thread
    fatal,        \* fatal messages
    exited,       \* ::exit() was called
    logged,       \* history: messages given to the report handler
    dropped       \* history: messages dropped on overflow

vars == <<messageVars, synchronous, sent, lpc, msg, mpc, fatal, exited, logged, dropped>>

Init ==
    /\ QueueInit
    /\ synchronous \in SyncModes
    /\ sent = [p \in Producers |-> 0]
    /\ lpc = "dequeue" /\ msg = Terminate /\ mpc = "run"
    /\ fatal \in SUBSET (IF MayFatal THEN Producers \X {MaxLogs} ELSE {})
    /\ exited = FALSE /\ logged = <<>> /\ dropped = {}

Current(p) == <<p, sent[p] + 1>>

-----------------------------------------------------------------------------
\* Wrong variant: a message is dropped on overflow in synchronous mode as well.
WriteLogDrops(p) ==
    /\ ~exited /\ sent[p] < MaxLogs
    /\ sent' = [sent EXCEPT ![p] = @ + 1]
    /\ \/ Enqueue(p, Current(p)) /\ UNCHANGED dropped
       \/ EnqueueFails(p) /\ dropped' = dropped \cup {Current(p)}
    /\ UNCHANGED <<synchronous, lpc, msg, mpc, fatal, exited, logged>>

\* writeLog(): the message is queued, or dropped on overflow, or the thread waits.
WriteLog(p) ==
    /\ ~exited /\ sent[p] < MaxLogs
    /\ \/ /\ Enqueue(p, Current(p))
          /\ sent' = [sent EXCEPT ![p] = @ + 1]
          /\ UNCHANGED dropped
       \/ /\ ~synchronous /\ EnqueueFails(p)
          /\ sent' = [sent EXCEPT ![p] = @ + 1]
          /\ dropped' = dropped \cup {Current(p)}
       \/ /\ synchronous /\ EnqueueWaits(p)
          /\ UNCHANGED <<sent, dropped>>
    /\ UNCHANGED <<synchronous, lpc, msg, mpc, fatal, exited, logged>>

\* The loop of AsyncReport::main(): dequeue() without timeout.
NextMessage ==
    /\ ~exited /\ lpc = "dequeue"
    /\ \/ DequeueWaits(Logger) /\ UNCHANGED <<lpc, msg>>
       \/ /\ Dequeue(Logger)
          /\ msg' = Head(queue)
          /\ lpc' = IF Head(queue) = Terminate THEN "done" ELSE "handle"
    /\ UNCHANGED <<synchronous, sent, mpc, fatal, exited, logged, dropped>>

\* Wrong variant: a fatal message is not honoured once the report is being terminated.
HandleMessageNoExit ==
    /\ ~exited /\ lpc = "handle"
    /\ logged' = Append(logged, msg)
    /\ exited' = (msg \in fatal /\ mpc = "run")
    /\ lpc' = "dequeue"
    /\ UNCHANGED <<messageVars, synchronous, sent, msg, mpc, fatal, dropped>>

\* handleMessage(), and exit on a fatal error.
HandleMessage ==
    /\ ~exited /\ lpc = "handle"
    /\ logged' = Append(logged, msg)
    /\ exited' = (msg \in fatal)
    /\ lpc' = "dequeue"
    /\ UNCHANGED <<messageVars, synchronous, sent, msg, mpc, fatal, dropped>>

\* terminate(), after the termination of all other threads.
TerminateReport ==
    /\ ~exited /\ mpc = "run"
    /\ \A p \in Producers : sent[p] = MaxLogs
    /\ ForceEnqueue(Terminate)
    /\ mpc' = "join"
    /\ UNCHANGED <<synchronous, sent, lpc, msg, fatal, exited, logged, dropped>>

Join ==
    /\ ~exited /\ mpc = "join" /\ lpc = "done"
    /\ mpc' = "done"
    /\ UNCHANGED <<messageVars, synchronous, sent, lpc, msg, fatal, exited, logged, dropped>>

Next ==
    \/ \E p \in Producers : WriteLog(p)
    \/ NextMessage \/ HandleMessage \/ TerminateReport \/ Join

Spec == Init /\ [][Next]_vars

\* All threads run.
FairSpec ==
    /\ Spec
    /\ \A p \in Producers : WF_vars(WriteLog(p))
    /\ WF_vars(NextMessage \/ HandleMessage)
    /\ WF_vars(TerminateReport \/ Join)

-----------------------------------------------------------------------------
(***************************************************************************)
(* Properties.                                                             *)
(***************************************************************************)
Logged == {logged[k] : k \in 1 .. Len(logged)}

Queued == {queue[k] : k \in 1 .. Len(queue)} \ {Terminate}

InHand == IF lpc = "handle" THEN {msg} ELSE {}

\* Every message which a thread has logged is in exactly one place: written, in the hands of the
\* logging thread, queued or dropped.  Nothing is dropped in synchronous mode, and nothing
\* remains behind the termination message.
Accounted ==
    LET places == <<Logged, InHand, Queued, dropped>>
    IN  /\ UNION {places[k] : k \in 1 .. 4} = UNION {{p} \X (1 .. sent[p]) : p \in Producers}
        /\ \A j, k \in 1 .. 4 : j # k => places[j] \cap places[k] = {}
        /\ synchronous => dropped = {}
        /\ lpc = "done" => Queued = {}

\* The messages of a thread are written in the order in which it logged them.
LoggedInOrder ==
    \A j, k \in 1 .. Len(logged) :
        j < k /\ logged[j][1] = logged[k][1] => logged[j][2] < logged[k][2]

\* A fatal message exits the process, whatever the other threads log and even when the report is
\* being terminated, unless it was dropped on overflow, in asynchronous mode.
FatalExits ==
    \A p \in Producers :
        LET msgFatal == <<p, MaxLogs>>
        IN  (msgFatal \in fatal /\ sent[p] = MaxLogs) ~> (exited \/ msgFatal \in dropped)

\* No wake-up is lost: the destructor of the report returns, all threads having logged their
\* messages in spite of a full queue, or a fatal message has exited the process.
ReportTerminates == <>(mpc = "done" \/ exited)
=============================================================================

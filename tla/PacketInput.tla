---------------------------- MODULE PacketInput ----------------------------
(***************************************************************************)
(* The two pairs of threads which use a TSPacketQueue:                     *)
(*  - "push": PushInputPlugin, with the download loop of its subclass      *)
(*    HttpInput.  The receiver thread pushes packets, the thread of the    *)
(*    input executor receives them and starts and stops the plugin, and    *)
(*    another thread (the core of tsswitch) may call abortInput().         *)
(*  - "merge": MergePlugin.  The receiver thread reads packets from a pipe *)
(*    into the queue, the plugin replaces null packets with them.          *)
(*                                                                         *)
(* External: the web server and the piped process deliver any number of    *)
(* packets, up to MaxPackets in a session, and end or fail at any time.    *)
(* A label which ends in "W" is a thread in waitCondition().               *)
(***************************************************************************)
EXTENDS TSPacketQueue

CONSTANTS
    Users,         \* subset of {"push", "merge"}
    MaxPackets,    \* bound: packets which the source delivers in a session
    MaxChunk,      \* bound: packets which the source delivers at a time
    MaxRead,       \* bound: max_packets in a call of receive()
    MinLock,       \* free packets which merge waits for (16 in the code)
    MaxSessions,   \* bound: sessions of a push input
    MaxAborts,     \* bound: calls of abortInput()
    RepeatCount,   \* --repeat of the http input
    IgnoreErrors   \* --ignore-errors of the http input

ASSUME InputAssumption ==
    /\ Users \subseteq {"push", "merge"}
    /\ {MaxPackets, MaxSessions, MaxAborts} \subseteq Nat
    /\ {MaxChunk, MaxRead, MinLock, RepeatCount} \subseteq Nat \ {0}
    /\ IgnoreErrors \in BOOLEAN

VARIABLES
    user,       \* which plugin uses the queue
    session,    \* history: number of calls of start()
    \* receiver thread
    wpc,        \* its label, "none" before it is started, "done" when it has terminated
    todo,       \* count in pushPackets()
    area,       \* buffer_size, then the number of packets to write in the window
    filled,     \* packets already written in the window
    downloads,  \* count in HttpInput::processInput()
    \* thread of the plugin
    rpc,        \* its label, "idle" outside of a session
    \* tsp->aborting()
    aborting,
    \* bounds and history
    aborts, sent, received, told

writerVars == <<todo, area, filled, downloads>>
vars == <<queueVars, user, session, wpc, writerVars, rpc, aborting, aborts, sent, received, told>>

WriterLabels == {"none", "top", "input", "push", "lock", "lockW", "read", "fill",
                 "release", "eof", "done"}
ReaderLabels == {"idle", "receive", "wait", "waitW", "eofTest", "stop", "join"}

Init ==
    /\ QueueInit
    /\ user \in Users
    /\ session = 0 /\ wpc = "none" /\ rpc = "idle" /\ aborting = FALSE
    /\ todo = 0 /\ area = 0 /\ filled = 0 /\ downloads = 0
    /\ aborts = 0 /\ sent = 0 /\ received = <<>> /\ told = FALSE

-----------------------------------------------------------------------------
(***************************************************************************)
(* Signals.  Only the receiver thread waits on _dequeued and only the      *)
(* thread of the plugin waits on _enqueued.                                *)
(***************************************************************************)
\* Wrong variant: the waiting thread is not told.
SignalNobody == UNCHANGED wpc

SignalDequeued == wpc' = IF wpc = "lockW" THEN "lock" ELSE wpc
SignalEnqueued == rpc' = IF rpc = "waitW" THEN "wait" ELSE rpc

-----------------------------------------------------------------------------
(***************************************************************************)
(* Receiver thread.                                                        *)
(***************************************************************************)
\* The loop of HttpInput::processInput() after a download: the next one, or the end of
\* processInput() and Receiver::main() goes on with setEOF().
AfterDownload(ok) ==
    /\ downloads' = downloads + 1
    /\ wpc' = IF downloads + 1 < RepeatCount /\ (ok \/ IgnoreErrors) THEN "input" ELSE "eof"

\* The web server sends data: HttpInput::handleWebData() calls pushPackets().
Deliver ==
    /\ wpc = "input"
    /\ \E n \in 1 .. MaxChunk : sent + n <= MaxPackets /\ todo' = n
    /\ wpc' = "push"
    /\ UNCHANGED <<queueVars, user, session, area, filled, downloads, rpc, aborting, aborts,
                   sent, received, told>>

\* The download completes or fails.
EndDownload ==
    /\ wpc = "input"
    /\ \E ok \in BOOLEAN : AfterDownload(ok)
    /\ UNCHANGED <<queueVars, user, session, todo, area, filled, rpc, aborting, aborts,
                   sent, received, told>>

\* Loop of pushPackets(). A failure makes handleWebData() fail and interrupts the download.
PushLoop ==
    /\ wpc = "push"
    /\ \/ todo = 0 /\ wpc' = "input" /\ UNCHANGED downloads
       \/ todo > 0 /\ (aborting \/ stopped) /\ AfterDownload(FALSE)
       \/ todo > 0 /\ ~aborting /\ ~stopped /\ wpc' = "lock" /\ UNCHANGED downloads
    /\ UNCHANGED <<queueVars, user, session, todo, area, filled, rpc, aborting, aborts,
                   sent, received, told>>

\* Loop of MergePlugin::main().
MergeLoop ==
    /\ wpc = "top"
    /\ wpc' = IF stopped THEN "done" ELSE "lock"
    /\ UNCHANGED <<queueVars, user, session, writerVars, rpc, aborting, aborts, sent, received, told>>

LockRequest == IF user = "push" THEN todo ELSE MinLock

\* lockWriteBuffer(): wait, give up on stop, or return the window. pushPackets() reduces it
\* to the packets which remain to push.
LockWriteBuffer ==
    /\ wpc = "lock"
    /\ \/ /\ ~stopped /\ LacksSpace(LockRequest)
          /\ wpc' = "lockW"
          /\ UNCHANGED writerVars
       \/ /\ stopped
          /\ IF user = "push" THEN AfterDownload(FALSE) ELSE wpc' = "done" /\ UNCHANGED downloads
          /\ UNCHANGED <<todo, area, filled>>
       \/ /\ ~stopped /\ ~LacksSpace(LockRequest)
          /\ area' = IF user = "push" THEN QMin(todo, Contiguous) ELSE Contiguous
          /\ filled' = 0
          /\ wpc' = IF user = "push" THEN "fill" ELSE "read"
          /\ UNCHANGED <<todo, downloads>>
    /\ UNCHANGED <<queueVars, user, session, rpc, aborting, aborts, sent, received, told>>

\* ForkPipe::read() in MergePlugin::main() returns one packet or more, or false at the end
\* of file or on error.
ReadPipe ==
    /\ wpc = "read"
    /\ \/ /\ \E n \in 1 .. QMin(area, MaxChunk) : sent + n <= MaxPackets /\ area' = n
          /\ wpc' = "fill"
       \/ wpc' = "eof" /\ UNCHANGED area
    /\ UNCHANGED <<queueVars, user, session, todo, filled, downloads, rpc, aborting, aborts,
                   sent, received, told>>

\* One packet is written in the window, without the mutex.
Fill ==
    /\ wpc = "fill"
    /\ buffer' = [buffer EXCEPT ![writeIndex + filled] = <<session, sent + filled + 1>>]
    /\ filled' = filled + 1
    /\ wpc' = IF filled + 1 = area THEN "release" ELSE "fill"
    /\ UNCHANGED <<indexVars, eof, stopped, user, session, todo, area, downloads, rpc, aborting,
                   aborts, sent, received, told>>

\* releaseWriteBuffer() and the return to the loop.
Release ==
    /\ wpc = "release"
    /\ ReleaseWriteBuffer(area)
    /\ SignalEnqueued
    /\ sent' = sent + area
    /\ todo' = IF user = "push" THEN todo - area ELSE todo
    /\ area' = 0 /\ filled' = 0
    /\ wpc' = IF user = "push" THEN "push" ELSE "top"
    /\ UNCHANGED <<user, session, downloads, aborting, aborts, received, told>>

\* Wrong variant: _enqueued is not signalled.
EndOfFileSilent ==
    /\ wpc = "eof"
    /\ SetEOF
    /\ wpc' = "done"
    /\ UNCHANGED <<user, session, writerVars, rpc, aborting, aborts, sent, received, told>>

\* setEOF() at the end of Receiver::main() and of MergePlugin::main().
EndOfFile ==
    /\ wpc = "eof"
    /\ SetEOF
    /\ SignalEnqueued
    /\ wpc' = "done"
    /\ UNCHANGED <<user, session, writerVars, aborting, aborts, sent, received, told>>

-----------------------------------------------------------------------------
(***************************************************************************)
(* Thread of the plugin.                                                   *)
(***************************************************************************)
LastSession == IF user = "push" THEN MaxSessions ELSE 1

\* start(): the queue is reset, MergePlugin starts its thread.
Start ==
    /\ rpc = "idle" /\ session < LastSession
    /\ Reset
    /\ session' = session + 1
    /\ rpc' = "receive"
    /\ wpc' = IF user = "merge" THEN "top" ELSE "none"
    /\ downloads' = 0 /\ todo' = 0 /\ area' = 0 /\ filled' = 0
    /\ sent' = 0 /\ received' = <<>> /\ told' = FALSE
    /\ UNCHANGED <<user, aborting, aborts>>

\* PushInputPlugin::receive(): the first call starts the receiver thread.
Receive ==
    /\ user = "push" /\ rpc = "receive"
    /\ wpc' = IF wpc = "none" THEN "input" ELSE wpc
    /\ rpc' = "wait"
    /\ UNCHANGED <<queueVars, user, session, writerVars, aborting, aborts, sent, received, told>>

Sleep ==
    /\ rpc = "wait" /\ LacksPackets
    /\ rpc' = "waitW"
    /\ UNCHANGED <<queueVars, user, session, wpc, writerVars, aborting, aborts, sent, received, told>>

\* waitPackets() returns packets, or none at the end of the input.
WaitPackets ==
    /\ rpc = "wait" /\ ~LacksPackets
    /\ \E max \in 1 .. MaxRead :
          LET n == QMin(max, inCount)
          IN  /\ received' = received \o Front(n)
              /\ TakePackets(n)
              /\ told' = (n = 0 /\ ~stopped)
              /\ rpc' = IF n = 0 THEN "stop" ELSE "receive"
    /\ SignalDequeued
    /\ UNCHANGED <<user, session, writerVars, aborting, aborts, sent>>

\* MergePlugin::processMergePacket(): getPacket(), and eof() when there is none.
GetPacket ==
    /\ user = "merge" /\ rpc = "receive"
    /\ \/ /\ inCount = 0
          /\ rpc' = "eofTest"
          /\ UNCHANGED <<queueVars, wpc, received>>
       \/ /\ inCount > 0
          /\ received' = received \o Front(1)
          /\ TakePackets(1)
          /\ SignalDequeued
          /\ UNCHANGED rpc
    /\ UNCHANGED <<user, session, writerVars, aborting, aborts, sent, told>>

EofTest ==
    /\ rpc = "eofTest"
    /\ told' = (told \/ Eof)
    /\ rpc' = "receive"
    /\ UNCHANGED <<queueVars, user, session, wpc, writerVars, aborting, aborts, sent, received>>

\* The executor decides to stop the plugin.
Leave ==
    /\ rpc = "receive"
    /\ rpc' = "stop"
    /\ UNCHANGED <<queueVars, user, session, wpc, writerVars, aborting, aborts, sent, received, told>>

\* Wrong variant: the sleeping receiver thread is not told.
StopSilent ==
    /\ rpc = "stop"
    /\ Stop
    /\ rpc' = "join"
    /\ UNCHANGED <<user, session, wpc, writerVars, aborting, aborts, sent, received, told>>

\* stop(), before waitForTermination().
StopPlugin ==
    /\ rpc = "stop"
    /\ Stop
    /\ SignalDequeued
    /\ rpc' = "join"
    /\ UNCHANGED <<user, session, writerVars, aborting, aborts, sent, received, told>>

Join ==
    /\ rpc = "join" /\ wpc \in {"none", "done"}
    /\ rpc' = "idle"
    /\ UNCHANGED <<queueVars, user, session, wpc, writerVars, aborting, aborts, sent, received, told>>

-----------------------------------------------------------------------------
\* PushInputPlugin::abortInput(), in another thread.
AbortInput ==
    /\ user = "push" /\ session > 0 /\ aborts < MaxAborts
    /\ Stop
    /\ SignalDequeued
    /\ aborts' = aborts + 1
    /\ UNCHANGED <<user, session, writerVars, rpc, aborting, sent, received, told>>

\* The application is interrupted: tsp->aborting() is now true.
Interrupt ==
    /\ user = "push" /\ ~aborting /\ aborts < MaxAborts
    /\ aborting' = TRUE
    /\ aborts' = aborts + 1
    /\ UNCHANGED <<queueVars, user, session, wpc, writerVars, rpc, sent, received, told>>

Source == Deliver \/ EndDownload \/ ReadPipe
Writer == PushLoop \/ MergeLoop \/ LockWriteBuffer \/ Fill \/ Release \/ EndOfFile
Reader == Start \/ Receive \/ Sleep \/ WaitPackets \/ GetPacket \/ EofTest \/ Leave \/ StopPlugin \/ Join

Next == Source \/ Writer \/ Reader \/ AbortInput \/ Interrupt

Spec == Init /\ [][Next]_vars

\* Both threads run.
ThreadSpec == Spec /\ WF_vars(Writer) /\ WF_vars(Reader)

\* Moreover, the source never keeps the receiver thread in a read for ever: web requests and
\* pipe reads return data or fail.
FairSpec == ThreadSpec /\ WF_vars(Source)

-----------------------------------------------------------------------------
(***************************************************************************)
(* Properties.                                                             *)
(***************************************************************************)
\* The packets of the queue, by slot.
Occupied == {(readIndex + k) % Size : k \in 0 .. (inCount - 1)}

\* While the receiver thread writes packets outside of the mutex, its window lies in the
\* buffer and shares no slot with the packets which the reader may take, although the reader
\* has moved since lockWriteBuffer(): the assertion of releaseWriteBuffer() holds.
WindowIsFree ==
    wpc \in {"read", "fill", "release"} =>
        /\ area > 0
        /\ area <= Contiguous
        /\ \A k \in 0 .. (area - 1) : (writeIndex + k) \notin Occupied

\* The two threads implement the bounded queue of module PacketFifo.
Fifo == INSTANCE PacketFifo WITH
            Capacity <- Size, fifo <- Front(inCount), closed <- eof

ImplementsFifo == Fifo!Spec

\* When the downloads of the http input are finite in number (--repeat, not --infinite with
\* --ignore-errors), stop() returns: a receiver thread which sleeps on a full queue wakes up, and
\* it leaves its loop.
StopCompletes == rpc = "stop" ~> rpc = "idle"

\* After the end of file, the thread of the plugin learns of it or stops, be it asleep in
\* waitPackets() or polling with getPacket().
EofNoticed == eof ~> told \/ stopped

\* A receiver thread which waits for space gets it, or is told to stop.
SpaceOrStop == wpc \in {"lock", "lockW"} ~> wpc \notin {"lock", "lockW"}

\* After abortInput(), a thread which waits in receive() returns from the wait, although stop()
\* signals _dequeued only: the receiver thread meets the stop condition with the next data of
\* the source, or at its end, and setEOF() then wakes up the other thread.
AbortUnblocks == stopped /\ rpc = "waitW" ~> rpc # "waitW"
=============================================================================

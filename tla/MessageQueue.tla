---------------------------- MODULE MessageQueue ----------------------------
(***************************************************************************)
(* Class MessageQueue: a queue of messages between threads, of limited     *)
(* size, with timeouts.  Each method locks _mutex, except while it waits,  *)
(* so that it is one step, or a step into a wait and one out of it.        *)
(*                                                                         *)
(* A thread in waitCondition() is in the set of the sleepers of its        *)
(* condition.  A signal removes one of them, which then evaluates the      *)
(* condition of its loop again, in competition with the other threads.  A  *)
(* timeout removes the thread itself.                                      *)
(***************************************************************************)
EXTENDS Naturals, Sequences

CONSTANT MaxMessages   \* _maxMessages, 0 means no limit

ASSUME MaxMessagesAssumption == MaxMessages \in Nat

VARIABLES
    queue,       \* _queue
    onEnqueued,  \* threads which wait on _enqueued, in dequeue()
    onDequeued   \* threads which wait on _dequeued, in enqueue()

messageVars == <<queue, onEnqueued, onDequeued>>

QueueInit == queue = <<>> /\ onEnqueued = {} /\ onDequeued = {}

Full == MaxMessages # 0 /\ Len(queue) >= MaxMessages

\* What Condition::signal() leaves of a set of sleepers.
AfterSignal(sleepers) ==
    IF sleepers = {} THEN {{}} ELSE {sleepers \ {t} : t \in sleepers}

\* Wrong variant: the newest message comes first.
InsertFirst(msg) ==
    /\ queue' = <<msg>> \o queue
    /\ onEnqueued' \in AfterSignal(onEnqueued)
    /\ UNCHANGED onDequeued

\* Insertion at the end of the queue and signal, in enqueue() and forceEnqueue().
Insert(msg) ==
    /\ queue' = Append(queue, msg)
    /\ onEnqueued' \in AfterSignal(onEnqueued)
    /\ UNCHANGED onDequeued

\* forceEnqueue()
ForceEnqueue(msg) == Insert(msg)

\* enqueue() with space in the queue.
Enqueue(t, msg) == t \notin onDequeued /\ ~Full /\ Insert(msg)

\* enqueue() on a full queue with a timeout of zero: the message is not queued.
EnqueueFails(t) == t \notin onDequeued /\ Full /\ UNCHANGED messageVars

\* enqueue() on a full queue without timeout.
EnqueueWaits(t) ==
    /\ t \notin onDequeued /\ Full
    /\ onDequeued' = onDequeued \cup {t}
    /\ UNCHANGED <<queue, onEnqueued>>

\* Wrong variant: the threads which wait for space are not signalled.
DequeueSilent(t) ==
    /\ t \notin onEnqueued /\ queue # <<>>
    /\ queue' = Tail(queue)
    /\ UNCHANGED <<onEnqueued, onDequeued>>

\* dequeue() of Head(queue).
Dequeue(t) ==
    /\ t \notin onEnqueued /\ queue # <<>>
    /\ queue' = Tail(queue)
    /\ onDequeued' \in AfterSignal(onDequeued)
    /\ UNCHANGED onEnqueued

\* dequeue() on an empty queue.
DequeueWaits(t) ==
    /\ t \notin onEnqueued /\ queue = <<>>
    /\ onEnqueued' = onEnqueued \cup {t}
    /\ UNCHANGED <<queue, onDequeued>>

\* The timeout of dequeue() expires before a signal: no message is returned.
DequeueTimeout(t) ==
    /\ t \in onEnqueued
    /\ onEnqueued' = onEnqueued \ {t}
    /\ UNCHANGED <<queue, onDequeued>>
=============================================================================

# Verification of the concurrent core of TSDuck

This directory holds TLA+ models of the concurrent and stateful core of the
repository, the TLC configurations which check them, and proofs checked by
TLAPS. The code is TSDuck (`src/tsduck/src/src`), a toolkit for MPEG transport
streams, wrapped by a small Node script. Its own logic is a large library
(`libtsduck`), plugins (`tsplugins`) and tools (`tstools`). Most of its lines are
data formats. What is hard to test is elsewhere: threads which share a packet
buffer, queues, a protocol client with its receiver thread, and state machines
which see lost or repeated packets. These are the subject here.

## Inventory

| Component | State | Operations | Interaction |
|---|---|---|---|
| Ring of plugin executors (`tspPluginExecutor`, `tsRingNode.h`) | per executor `_pkt_first`, `_pkt_cnt`, `_input_end`, `_tsp_aborting`, condition `_to_do`; one circular buffer | `waitWork`, `passPackets`, `setAbort`, `initBuffer` | one thread per executor, one global mutex, signals to next and previous |
| Joint termination (`tspJointTermination`) | `_use_jt`, `_jt_completed`, `_total_packets`, static `_jt_users`, `_jt_remaining`, `_jt_hightest_pkt` | `useJointTermination`, `jointTerminate`, `totalPacketsBeforeJointTermination` | called by plugins, read by the output |
| Input, processor and output executors | local variables of `main()`, stuffing counters | `main` of each | call plugins outside the mutex, on packets of the shared buffer |
| `tsp` process | interrupt handler | Ctrl+C calls `setAbort` on all | from a separate thread |
| `tsswitch::Core` | `_curPlugin`, `_curCycle`, `_terminate`, `_actions`, `_events` | `start`, `stop`, `setInput`..., `execute`, `inputStarted/Received/Stopped`, `getOutputArea`, `outputSent` | called by all threads, recursive mutex, condition `_gotInput` |
| `tsswitch::InputExecutor` | `_isCurrent`, `_outputInUse`, `_startRequest`, `_stopRequest`, `_terminated`, `_outFirst`, `_outCount` | `startInput`, `stopInput`, `setCurrent`, `terminateInput`, `getOutputArea`, `freeOutput`, `main` | own mutex and condition `_todo` |
| `tsswitch::OutputExecutor`, `CommandListener` | `_terminate` | `main` | call Core |
| `WatchDog` | `_active`, `_timeout`, `_handler`, `_terminate` | `restart`, `suspend`, `setTimeout`, `main` | calls its handler without its mutex |
| `TSPacketQueue` | circular buffer, `_inCount`, `_readIndex`, `_writeIndex`, `_eof`, `_stopped` | `lockWriteBuffer`, `releaseWriteBuffer`, `waitPackets`, `getPacket`, `setEOF`, `stop`, `reset` | one writer, one reader; the write window is filled without the mutex |
| `PushInputPlugin`, `HttpInput`, `MergePlugin` | `_started`, download count | `start`, `receive`, `stop`, `abortInput`, receiver thread | users of `TSPacketQueue` |
| `MessageQueue`, `AsyncReport` | bounded list of messages, two conditions; `_terminated` | `enqueue`, `forceEnqueue`, `dequeue`; `writeLog`, `terminate`, `main` | several producers, one consumer, timeouts |
| `ECMGClient` | `_state`, `_response_queue`, `_async_requests` | `connect`, `disconnect`, `generateECM`, `submitECM`, destructor, receiver `main` | messages over TCP with timeouts, handler called by the receiver thread |
| Scrambler plugin | two crypto-periods, `_current_cw`, `_current_ecm`, `_pkt_change_cw`, `_pkt_change_ecm`, `_degraded_mode`, `_abort` | `initCycle`, `tryExitDegradedMode`, `changeCW`, `changeECM`, `processPacket`, `handlePMT`, `handleECM` | ECMs arrive in the plugin thread or in the receiver thread of the client |
| `Packetizer`, `CyclingPacketizer` | current section, scheduled and other sections, cycle counters | `addSection`, `removeSections`, `setBitRate`, `reset`, `getNextPacket` | pulled by plugins, one packet at a time |
| `SectionDemux` | per PID: sync, continuity counter, bytes, table contexts | `feedPacket`, `resetPID` | calls handlers, which may reset it |
| `EMMGClient`, ECMG and EMMG tools | connection state | as `ECMGClient`, or its server side | TCP |
| PES, T2-MI, MPE demux, PCR analysis | context per PID | `feedPacket` | sequential, callbacks |
| Tables, descriptors, strings, XML, crypto, tuners, other plugins | data | conversions, device I/O | sequential |

Correctness of each, in short. In the ring, no packet is accessed by two
threads, none is lost, duplicated or reordered, and all threads terminate. In
tsswitch, the output never reads a packet which an input overwrites, switches
happen in the documented order, the primary input always wins, and the process
exits after its last cycle, a command or an error. In the queues, nothing is
lost or delivered twice and nobody sleeps for ever. In the scrambler, a receiver
always has the ECM of the control word in use, however late the ECMG is. On a
PID with sections, what comes out of the demux is what went into the
packetizer, less what a fault explains.

`PROJECT.json` lists all components, the lines which each definition models,
and the hazards line by line.

## Modules

| Module | Models |
|---|---|
| `PluginExecutor` | shared state of the ring and the operations under the global mutex |
| `Tsp` | EXTENDS `PluginExecutor`: the threads of tsp, packets, interrupt, properties |
| `TspProofs`, `TspStreamProofs` | EXTENDS `Tsp`, and the first one: theorems on the ring, on the packets which flow through it and on how it ends |
| `TsSwitch`, `MCTsSwitch` | Core, inputs, output, command listener and watchdog of tsswitch; its command lines |
| `TsSwitchProofs` | EXTENDS `TsSwitch`: theorems on the buffers, and on the queue of actions |
| `TSPacketQueue` | the circular buffer and its operations |
| `PacketInput` | EXTENDS `TSPacketQueue`: the two threads of a push input or of the merge plugin |
| `PacketFifo` | abstract specification: what the queue promises to its two threads |
| `PacketInputProofs` | EXTENDS `PacketInput`: theorems, the refinement included |
| `MessageQueue` | the bounded queue with its two conditions |
| `AsyncReport` | EXTENDS `MessageQueue`: the logging threads |
| `AsyncReportProofs` | EXTENDS `AsyncReport`: theorems |
| `ECMGClient` | EXTENDS `MessageQueue`: application thread, receiver thread, ECMG |
| `Scrambler`, `MCScrambler` | EXTENDS `ECMGClient`: the scrambler plugin as the application of the client |
| `ScramblerProofs` | EXTENDS `Scrambler`: theorems on the requests, the ECMs and the transitions |
| `CyclingPacketizer`, `Packetizer`, `SectionDemux` | each EXTENDS the previous one: pure operators on the state of the packetizer and of the demux |
| `SectionStream`, `MCSectionStream` | EXTENDS `SectionDemux`: the two of them over a faulty transmission |
| `PacketizerProofs` | EXTENDS `SectionStream`: lemmas on lists, on the packetizer and on the packets which it makes |
| `SectionStreamProofs` | EXTENDS `PacketizerProofs`: lemmas on the demux, theorems on the stream |

In all modules, a section under a mutex is one action, work outside of it is one
or several others, a thread asleep on a condition has a label of its own which
only a signal (or a timeout, where the code has one) leaves, and local variables
which are read under a mutex and used after it are variables of the model.

### tsp

The state has one function per field of the class, indexed by the executor: 0
is the input, `N` the output. The work of a plugin on its packets between two
sections under the mutex is one action per packet (processor), per segment
(output) or per receive (input). `pc[i]` is the position of thread `i` in its
`main()`; `"blocked"` is a thread asleep on `_to_do`, so that a lost wake-up is a
state where the model stops. `wFirst`, `wCnt`, `wEnd`, `wAbort` are the local
variables which `waitWork` fills. A packet is a record with its number in the
stream (identity, not in the code) and whether it is normal, null or dropped
(first byte zero). `passed`, `delivered`, `dropped` and `outStop` are history
variables.

Left out: bitrates, which travel with the packets but control nothing here;
the content of what `receiveAndStuff` returns (start stuffing, stuffing between
packets, loss of synchronization), of which only the count is seen; the
unlocked read of `_tsp_aborting` by the output is an action of its own.

### tsswitch

The recursive mutex of Core is the variable `holder`, because `execute()` runs
several actions in one critical section while the other threads act on their
own mutexes; each action of the queue is one step. Sections under the mutex of
an InputExecutor are one step each. `stop()` takes the mutexes one after the
other and may be interleaved with everything else: it has one step per mutex
(`stopStep`). Labels ending in `W` are threads asleep on a condition. The
watchdog has two steps, expiration and handler, since the handler runs without
the mutex of the watchdog. Plugins are external: `start` and `send` may fail,
`receive` returns any number of packets, zero being the end of the input.
`cancelActions` is `CancelActionsBut`, with the type of the actions which are kept: its
loop is a recursive function, so that it can be reasoned about.
The command line is a record which `Init` chooses in `CommandLines` and which
never changes, so that one run covers several modes. `SwitchAssumption` has the
exclusions of the options which `tsswitchOptions` enforces. `curCycle` is
saturated at `CycleCount` (the code only compares it); commands and timeouts are
bounded.

### Packet queue

`PacketInput` has the receiver thread (`wpc`) and the thread of the plugin
(`rpc`). With `user = "push"`, the receiver thread runs the download loop of the
http input, with `--repeat` and `--ignore-errors`, and pushes blocks of packets
of any size: a block larger than the contiguous part of the buffer takes several
turns of the loop of `pushPackets`. The plugin thread runs `start`, `receive` and
`stop` for several sessions. `abortInput` and an interrupt come from other
threads at any time. With `user = "merge"`, the receiver thread locks, reads the
pipe and releases; the plugin polls with `getPacket`. The packets are written one
by one in the window, without the mutex, while the reader moves. The source of
the packets is external.

`PacketFifo` is the promise: a sequence of at most `Capacity` packets, the reader
gets a prefix of what was sent, is told of the end only when it has everything,
and a new session starts empty. The mapping is `fifo <- Front(inCount)`, the
`inCount` packets from `readIndex` on, and `closed <- eof`. A packet is the pair
of its session and its position, so that a packet of an earlier session or one
which was written over shows.

### Logging

`MessageQueue` keeps the sets of threads asleep on `_enqueued` and `_dequeued`; a
signal wakes any one of them, as the system does. A thread which is awake from
`_dequeued` tests again for a full queue. `AsyncReport` has several threads which
log, synchronously or not, the logging thread, and the destructor. The last
message of a thread may be fatal.

### ECMG client and scrambler

`apc` is the label of the application thread, `rpc` that of the receiver thread.
Requests and responses are two sequences of messages, lost or not when the ECMG
closes. The receiver thread replies to tests, gives an ECM response to its
handler when its request is in `async`, and else enqueues it for the application
thread, which waits with a timeout; on a full queue it waits for room (`QueueFull`). `Scrambler` is the application: the two
crypto-period objects `cp[0]` and `cp[1]`, the distance in packets to each
transition (`cwIn`, `ecmIn`, instead of the packet counts, so that the state is
finite), degraded mode, and one action per packet and transition. Control words
and crypto-periods are numbered modulo `CpModulus`, which is larger than the
number in use at a time; a control word is the number of its random draw. An ECM
is the pair of control words in it.

### Sections

The packetizer and the demux are sequential, so they are operators: `zer` and
`demux` are records with the fields of the classes, and a packet is generated and
fed in one step of `SectionStream`. A byte of a section is the pair of the section
and its position, which is what the CRC stands for: a reassembled section is
valid when its bytes are those of one section in order. Sizes are scaled: a
payload of 8 bytes, sections of 4 to 17, so that a section is a fraction of a
packet, exactly one, or several, and the next header just fits in the packet or
not. The PID carries long sections only. When the demux reads a header in the middle
of a section, it finds what `Junk` says of this position: the header of a long section,
of which the CRC then fails, or that of a short one, which has no CRC
(`tsSectionDemux.cpp:384-393`, `tsSection.cpp:276-296`). A short section, when enough
bytes follow, is always a new version of a table of one section (`EndOfShort`): the
handlers get it and this table, whatever they are, and `garbage` records that. `missed`
records that bytes were missing which the demux did not see. `occ` is the number of the occurrence of a section (identity). The
transmission loses,
scrambles or repeats packets; the handler may reset the demux from within a call.
The plugin replaces one table (inject), all of them (zap), changes the bitrate,
or resets the packetizer and loads its files again.

## Runs

| Run | Instance | States | Shows |
|---|---|---|---|
| `tsp_ring` | 1 processor, buffer 3, 4 packets, drop, flush every 2, stop stuffing, output errors, interrupts | 449 059 | windows partition the buffer, no shared packet, assertions of `passPackets`, exact output, all threads terminate |
| `tsp_chain` | 2 processors, buffer 3, 3 packets, TSP_END, joint termination of the input and the first processor | 367 997 | inductive invariant, nothing after the end of input, the output stops exactly at the agreed packet, all threads terminate |
| `sw_cycle` | 2 inputs which may fail to start; two cycles, infinite, `--terminate` | 197 199 | one session at a time, the process exits when it must, the queue of actions always empties |
| `sw_switch` | default mode with every command, failures of start and send; delayed mode over two cycles with a switch, failures of start; primary input with timeout in default and fast mode | 3 736 341 | no packet overwritten below the output, output only from a running session, a delayed switch never leaves the output on a stopped input, the primary input is never stopped and comes back |
| `queue` | buffer 4, 6 packets in blocks of up to 4, 2 sessions, 2 aborts, 2 downloads | 58 669 | the queue implements `PacketFifo`, the write window is free, stop, end of file, space and abort reach the sleeping thread |
| `log` | 3 threads of 2 messages, queue of 2, both modes, fatal messages | 70 520 | each message in one place, in order, no lost wake-up, a fatal message exits |
| `scrambler` | crypto-period of 3 packets, delay before, at and after it, both modes, a queue of one response, an unsolicited message, disconnection, one PMT | 399 560 | decodable in all cases, degraded mode ends, the destructor returns unless the receiver thread is blocked on a full queue |
| `psi` | 2 tables, one of them with 2 versions, 3 stuffing policies, 2 bitrates, 5 packets, 3 faults, 1 command | 422 899 | exact cycle accounting, sections in order and none missed, tables complete and of one version, garbage without CRC only after bytes which the demux did not see missing |

Why the bounds are enough. The packets and trailing stuffing exceed the buffer in
`tsp_ring` and reach it in `tsp_chain`, so that windows wrap at the end of the
buffer and are returned in two parts; the theorems cover all sizes. Two inputs
of tsswitch are enough for each switch to have a previous and a next input with
all orders of their events; `next` and `prev` are then the same input. One
command meets every state of a session. In `queue`, 6 packets wrap a buffer of 4,
a block can be larger than the space at its end, and the second session starts
on indexes and packets left by the first. In `log`, the three threads outnumber
the queue, so that two of them sleep while a third one takes the place which was
freed. In `scrambler`, three packets per crypto-period let both transitions of a
period come in the same packet, in either order, or before the ECM is there; the
behaviour goes on for ever over the modulus. A queue of one response (ten in the code)
is filled by the unsolicited error or by a late response, so that the receiver thread
also waits for room in it, between packets and while the destructor waits for the
thread. In `psi`, 5 packets hold more than
a cycle of both tables, or the longest section and the start of the next cycle;
the continuity counter (modulo 3) wraps, and three faults in sequence are as many
packets as the counter has values: both losses which the demux cannot see are among
the cases (`Unseen`), with a packet before and one after.

Deadlock is checked in the runs of tsp (the end of `main()` is the stutter step
`Terminated`) and in `sw_drop`. The other systems may stop: tsswitch after its
exit, or when it waits for a command which the bound excludes; the queue, the
logger and the scrambler after their last session; the sections at the bound on
the packets. Where stopping early would be an error, a liveness property says
so.

### Disagreements found

Four runs expect a violation; the findings in `PROJECT.json` quote the lines.

- `sw_stop`: two ways in which an input never terminates and the process hangs.
  A stop between `getOutputArea` and the test of `_terminate` leaves
  `_outputInUse` set, and the input waits for it. After an output error,
  `stop(false)` skips the inputs.
- `sw_drop`: in fast mode, an input which was just left drops the packets which
  the output sends; the assertion of `freeOutput` fails.
- `scrambler_pmt`: a new PMT between the two transitions of a crypto-period sets
  both transition points again; the one already done is done twice, and the
  control word and the ECM are no longer aligned. (It needs two PMTs; with at
  most one, the alignment holds.)
- `psi_cycle`: after a packet from an empty packetizer, the counts of sections in
  and out differ for ever and `atCycleBoundary` is never true again.

Other behaviours which are seen in the code or in variants of these instances,
and which the properties above exclude by their premise or the instances by their
constants:

- After `TSP_END` of a processor, the output leaves with packets in its window: the
  comment at `tspOutputExecutor.cpp:70-72` says that the abort of the input is
  ignored, `passPackets` (`tspPluginExecutor.cpp:128`) does not ignore it.
- With two commands, a stale WAIT_STOPPED event (`tsswitchCore.cpp:351`) lets two
  inputs run at a time, against `tsswitchOptions.cpp:99-100`; and the stop of an
  input without session (`tsswitchCore.cpp:411`) blocks all later commands.
- In fast mode, an input asleep on a full buffer is not told that it may drop
  packets (`tsswitchInputExecutor.cpp:105`), and with several cycles the inputs
  which ended are not started again (`tsswitchCore.cpp:583`).
- With `--infinite --ignore-errors`, the http input starts downloads after a stop
  for ever: `queue` has a finite `--repeat`, and `StopCompletes` holds for these only.
- The receiver thread of `ECMGClient` enqueues without timeout: when the ECMG sends
  more errors than the response queue holds and nobody dequeues, it sleeps for ever
  (`tsECMGClient.cpp:437`) and the destructor waits for it (line 86). `scrambler`
  reaches this state; `ShutdownCompletes` says that it is the only one in which the
  destructor does not return. In asynchronous mode, the plugin thread does not
  read the queue between packets either, and the thread blocks there as well: then no ECM
  is handled any more. `DegradedEnds` excludes that; it takes two errors in the model,
  which is more than the bound of the run. Asynchronous requests which are pending at a
  disconnection never reach their handler.
- After bytes which the demux did not see missing, it may read a header inside a
  section. If this says a short section, no CRC protects it: the section handler gets
  garbage, and the table handler a table of one section made of it, even on a PID with
  long sections only (`tsSectionDemux.cpp:384-393`, `419`, `455-459`, `475-483`). `psi`
  reaches this after a loss which the continuity counter hides and after a late
  truncation; `SectionsInOrder` and `TablesConsistent` say that it happens after these
  only (`GarbageExplained`), and what they say of order and completeness is about the
  sections with a CRC.
- `addScheduledSection` inserts before the sections of the same due packet, where
  its comment says after (`tsCyclingPacketizer.cpp:104` and `112`). After removal
  of the last sections which remain in a cycle, the cycle does not end until a
  section is added (`tsCyclingPacketizer.cpp:341`).
- A header which is read in the middle of a section makes the context of a table
  before the CRC is checked (`tsSectionDemux.cpp:444-460`). If it has the version of
  the table and another number of sections, the sections of this version are refused
  from then on (`Poisoned`), until a handler resets the demux or a new version comes:
  `owed` excludes it.
- A long section which was truncated swallows the start of the next one when the
  pointer field comes too late (`tsSectionDemux.cpp:400-406`): `owed` excludes it.

## Fairness

`Tsp!Fairness`: weak fairness of each thread and of the interrupt handler: the
system schedules runnable threads, plugin calls return, and a thread asleep on
a condition is not runnable. The user need not hit Ctrl+C. The input returns at
most `StreamLength` packets, so that it ends.

`TsSwitch!Fairness`: weak fairness of each thread, and strong fairness of
`EndOfInput` of each input: a session may receive any number of times, but an
input does not last for ever. `sw_cycle` needs it, since a cycle only ends when
its inputs do. Commands and expirations have no fairness.

`PacketInput!FairSpec`: weak fairness of both threads and of `Source`: a web
request or a pipe read returns data or fails. `stop()` and the wake-up after an
abort depend on that, since the receiver thread tests the stop condition only
between two reads. Aborts and interrupts have no fairness.

`AsyncReport!FairSpec`: weak fairness of each thread.

`Scrambler!FairSpec`: weak fairness of the plugin, of the receiver thread, of the
answers of a connected ECMG and of the arrival of packets, and strong fairness of
a null packet in which an ECM can be inserted: null packets recur in the
stream. Unsolicited messages, PMTs and disconnections have no fairness.

## Proofs

All theorems hold for every value of the constants which the named ASSUMEs
allow, and these only have what the code enforces (sizes, ranges, exclusive
options). Each proof follows the same plan: an inductive invariant, one lemma per
group of actions, and the property as a consequence. A property which a run checks
too is named in brackets.

### tsp

For every number of processors `N - 1`, every buffer size `B` of at least 2 and all
behaviours of the plugins, from `RingAssumption` and `TspAssumption`:

- `RingCorrect`: the invariant `IInv` of the ring; `WindowsHold` (`WindowInv`);
- `PassAssertionsHold` (`PassAssertions`): the assertions of `passPackets`;
- `NoPacketShared` (`NoSharedPacket`): no packet in use by a thread is in the
  window of another; `BufferPartitioned` (`WindowsPartition`): each slot is in
  exactly one window;
- `NothingAfterEnd` (`NoPacketAfterEnd`): an executor passes nothing after its end
  of input; `TypeCorrect` (`TypeOK`);
- `OutputFaithful` (`DeliveredFaithful`): the output plugin gets exactly the packets
  which no processor dropped, in order;
- `JointStopExact` (`JointTerminationExact`): the output stops exactly at the packet
  which joint termination agreed on;
- `OutputTakesAll` (`OutputComplete`): without interrupt, output error or joint
  termination, the output ends after the last packet. Its hypothesis, that no
  processor ends the stream, is the case in which the property is true: after
  `TSP_END`, the packets behind the refused one are left in the buffer.

The windows alone are not inductive: that two windows far apart on the ring are
disjoint does not follow from what neighbours know of each other. `RingInv`
therefore speaks of `passed`, the number of packets each executor has passed
since the start: it decreases along the chain, by at most `B` from input to
output; a window is the difference of two neighbours; and positions in the
buffer differ by the distance, modulo `B`. `passPackets` moves a single counter,
and each conjunct follows by linear arithmetic. `LocalInv` ties what a thread
remembers outside the mutex to the front of its window: others can only extend
the window at its end. `EndInv` says that an executor which signalled the end
has left its loop. `IInv` adds the types these need. `tsp_chain` checks the first
two as `WindowInv`. Each action has a lemma;
the ones that call `passPackets` share `PassStep`, the others `LocalStep`.
Disjointness (`WindowsApart`) and cover (`WindowsCover`) are then arithmetic on
the counters: a slot belongs to the first executor, from the input on, which is
no further ahead of the output than the slot.

`TspStreamProofs` adds the content: `StreamInv` says which packet of the stream
each slot between the output and the input holds, and that its first byte is zero
exactly when a processor dropped it; `OutInv` says how many packets the output has
counted at each of its labels. A processor writes only in its own window, so that
the ring invariant gives the frame. Its second half adds `JointInv` and `CountInv`
(what each plugin counts is at least what it passed, so that the highest packet
is never below what the output has sent), and `QuietInv` (in a run which nothing
disturbs, a thread which saw the end of input has the rest of its window in its
hands, and the threads leave their loops from the input to the output).

### tsswitch

For any number of inputs, buffer size and set of command lines, from
`SwitchAssumption`:

- `SwitchTypes` (`TypeOK`);
- `NothingOverwritten` (`NoOverwrite`), `OutputInSession` (`OutputFromSession`),
  `PrimaryKept` (`PrimaryNeverStopped`);
- `PrimaryRestored` (`PrimaryIsCurrent`, an action property);
- `CurrentKept` (`CurrentNotStopped`);
- `OneSession` (`SingleSession`), under the hypothesis `Unattended`: in default
  mode there is no command to switch, no receive timeout and no primary input. With
  a command, TLC finds two sessions at a time (the stale WAIT_STOPPED event below
  "Disagreements found"), so that the hypothesis is needed.

The first four rest on `IInv`: the queue of actions has no order to stop the
primary input, and `Buffer` says for each input at which labels its buffer may hold
packets or be in use by the output, and where the area of the input and the area of
the output lie in it. The others are about what is pending in the queue of actions
while the mutex of Core is free. For `PrimaryRestored`, the thread of the primary
input which left `inputReceived` with the mutex has a last SET_CURRENT of the
primary input in front of any wait (`Coming`). For `CurrentKept`, each STOP in the
queue is behind the switch away from its input, each SET_CURRENT follows or
precedes the START of its input (`Pending`), and the mutex is only free when the
queue is empty or has a wait at its head. For `OneSession`, only the current input
is started or has a session, and a START is pending only when nobody has one.

`cancelActions` erases from the middle of the queue. What it keeps is proved by
induction on the position, with the least position at which the claim would fail
(`LeastElement`), as the induction rules of the library cannot be used.

### Packet queue

For any size of the buffer and any number of packets, sessions and aborts, from
`SizeAssumption` and `InputAssumption`: `WriterWindowFree` (`WindowIsFree`) and the
refinement `QueueImplementsFifo` (`ImplementsFifo`). The invariant has the relation
of the three indexes (`IndexInv`), the window between lock and release, which
remains contiguous and free since the reader only frees slots (`SpaceInv`), what is
already written in it (`ContentInv`), and that nothing is lost between the threads
(`EndInv`). A step of the code which releases, takes or closes is a step of
`PacketFifo` on the mapped state, the others stutter (`StepRefines`).

### Logging

For any number of threads, messages and places in the queue, from
`ReportAssumption` and `MaxMessagesAssumption`: `MessagesInOrder` (`LoggedInOrder`)
and `MessagesAccounted` (`Accounted`). The invariant is on `Flow`, the sequence of
what was written, what the logging thread has in its hands and what is queued: it
only grows at its end, and the termination message is its last element.

### Scrambler and ECMG client

From `ScramblerAssumption` and `MaxMessagesAssumption`, for any crypto-period, delay
(at most half of it, as `start` enforces), modulus of the numbers, limit of the
queue, and number of unsolicited messages, in both modes of the client, with losses
of the connection and invalid ECMs:

- `ScramblerInvariant`: the inductive invariant `IInv`;
- `ResponseReachesHandler` (`HandlerGetsECM`): the receiver thread finds the
  handler of each response to a submitted request;
- `TransitionsReady` (`CurrentReady`): after the first transition of the ECM, the
  ECM in use is ready.

`CurrentReady` needs to know that `handleECM` never completes an object which was
initialized again meanwhile, and that the second request of `start` is not answered
before the first one. `Flow` is the set of all ECM requests and responses: in the
connection, unread, in the hands of the receiver thread and in the queue. `FlowInv`
says that each is the current request of an object which still waits (`Awaits`), and
is registered or being handled; `OrderInv` that two of them are in the order of the
requests; `ContentInv` that a ready ECM has the control words of its object;
`LinkInv` that the two objects are consecutive crypto-periods; `FifoInv` and
`ReadyInv` that when the next object is ready, the current one is too and nothing is
in transit, so that a transition may initialize it again. Most steps leave the
objects alone and go through one lemma (`FlowStep`); the registration, the removal,
the dispatch and the handling of a response each have one.

Under two more hypotheses, that the PMT does not change (`MaxPMTs = 1`) and that a
crypto-period has two packets or more (`CpDuration >= 2`):

- `TransitionTimes`: the invariant `TimeInv`;
- `EcmStaysAligned` (`EcmAligned`): the ECM on air is the one of the control word in
  use or its neighbour on the side of the delay;
- `AlwaysDecodable` (`Decodable`): a receiver has the control word.

`TimeInv` says that the countdowns to the two transitions differ by the delay, or by
the delay less a crypto-period when only the first one is done, that a packet which
leaves `processPacket` has no countdown at zero (but the one of a delay of zero),
and that degraded mode is entered and left between crypto-periods only, which
`NoDegraded` takes from `ReadyInv`. The first hypothesis is needed: `scrambler_pmt`
shows that a new PMT between the two transitions reverses their order. So is
the second: with one packet per crypto-period and no delay, the exit of degraded mode,
which puts the second transition on the next packet, meets the first transition of the
next crypto-period there. Crypto-periods of the code are seconds long.

### Sections

For any tables, sizes of their sections and of the packets, repetition rates,
bitrates, policies, faults and commands, from `SizeAssumption`, `CCAssumption`,
`DemuxAssumption` and `StreamAssumption`:

- `PacketizerTyped`: the inductive invariant `PacketizerInv` of the packetizer;
- `PacketizerCounts` (`CycleAccounting`): its counters are exact, so that its
  assertions hold, and its list of scheduled sections is sorted;
- `SectionOrder` (`SectionsInOrder`): the sections with a CRC which the demux delivers
  were completely sent, and come in order and once; garbage without CRC is delivered
  only after bytes which the demux did not see missing;
- `NoSectionMissed` (`SectionsNotMissed`): it delivers all of them from the first one
  which starts after the last loss;
- `TablesDelivered` (`TablesConsistent`): the tables, but this garbage, are whole and of
  one version, in the order of the versions, each once, and none of which the sections were
  delivered is missing. After the demux had to start again, a version may come
  twice, and two of them in the wrong order if each has a section in one packet
  which was repeated.

The loops of this code (over a list, over the sections which fit in a packet, over
the bytes in the buffer) are recursive functions, and every invariant has to pass
through them. `PacketizerProofs` starts with what these need: a recursive function
exists and is the one which its equations define (`RecursionExists`, `RecursionIs`),
and what holds at zero and is kept by each turn holds at the end (`Induction`,
`ListInduction`). Then, the counters are sums of weights over the lists (`Total`):
one for each section, one for each which was not sent in this cycle, and its number
of packets; a sum is known over an insertion, a filter, a reversal and a
concatenation. `Exact` says that the three counters are these sums. `Placed` says
that the current section has an occurrence below the ones to come. `NextPacketOK`
then describes the packet which is made: its bytes are those of consecutive sections
in order (`Flow`), `pusi` and the pointer field show the first start of a section,
and the rest is stuffing.

`SectionStreamProofs` takes the packet through the demux. `ProcessPacketOK` is the
specification of `processPacket`: either nothing is delivered, or the buffer and the
packet were walked (`Outcome`), and each section which is delivered has all its bytes
there. `DeliveryInv` is the inductive invariant, which `psi` was checked for: no
byte in the buffer is of a section which was delivered or of one which is older than
a section which was delivered (`Before`), and what was delivered was sent
(`Emitted`, `Delivery`). A repeated packet is recognized by its continuity counter
unless the demux lost its synchronization after it, and then it brought nothing
(`Repeatable`), unless a handler reset the demux within it. That exception is the
second part of the order: such a section is delivered twice, or two of them in the
wrong order, only if they fit in a single packet with the pointer field.

What the demux must find is a second inductive invariant, `RecoveryInv`, on top of
these two. The property alone says nothing of the sections which are on the way: it
needs that no byte is missing between the buffer of the demux and the position of
the packetizer, as long as the demux is synchronized and nothing was lost (`Joins`),
or that the section which the packetizer gave up seems to end in the next packet, so
that the pointer field shows it. `InStep` relates the continuity counters by the
number of packets which were lost: a loss is seen unless it is of a multiple of
`CC_MAX`, or of one less, which looks like a repeated packet (`AheadOK`). `BegunInv`
and `OwedInv` bound the occurrences which were begun and which are owed: after a
loss, the section which is in progress is not owed. `Contextual` is about
the tables: unless a header which was read inside a section made the context of a
table, each context has the length of its version (`AllSound`), so that no section
of it is refused; and until the demux has to start again, each context is exactly
the last version of which a section was delivered, with its sections, and it is marked
when the table was notified (`Informed`). Tables come with their last section
(`Witnessed`), from which the order of the tables after a restart follows from the
order of the sections.

`WalkClean` is the heart of the argument: a walk over a buffer without a hole finds
every section which ends in it, leaves the rest of the last one in the buffer, and
keeps the contexts sound; it starts at a section, or behind one which was truncated.
`NextPacketClean` and `SynchronizedClean` bring every call of `processPacket` to such
a walk: a packet which goes on with the buffer, and the first one with a start of a
section after a loss. Such a walk reads no header inside a section but perhaps at the
section which was truncated, and it skips what it finds there (`FirstSkipped`): no short
section is passed to the handlers (`WalkQuiet`, `PacketQuiet`). `Quiet`, a part of
`RecoveryInv`, then says that as long as no bytes went missing unseen, the stream of the
demux has no hole (`owed` is not `Never`) and there is no garbage. `FeedSettled` then goes through the cases in which something
is owed after a packet.

### Only model-checked

- Liveness (`Termination` of tsp and of tsswitch, `ActionsComplete`, `StopCompletes`,
  `EofNoticed`, `SpaceOrStop`, `AbortUnblocks`, `ReportTerminates`, `FatalExits`,
  `DegradedEnds`, `ShutdownCompletes`): the prover has neither fairness nor ENABLED.
  Every other property of the passing runs is a theorem.

## Not modelled

- Bitrates, clocks, PCR analysis and regulation: arithmetic on values which small
  instances do not represent.
- `EMMGClient`: the same structure as `ECMGClient` with a simpler receiver thread.
  The ECMG and EMMG tools: I/O on connections; the ECMG is the environment of
  `ECMGClient`.
- PES, T2-MI and MPE demux: sequential state machines of the same kind as the
  section demux, without tables.
- In modelled parts: start and inter-packet stuffing of the tsp input
  (`receiveAndStuff` is seen through its count), the destructor of `WatchDog`,
  short sections which are sent (only bytes of long sections are read as one) and
  adaptation fields in the demux, PSI merge and PCR of the
  merge plugin, fixed control words and partial scrambling, peek and clear of
  `MessageQueue` (the splice injector peeks and dequeues in two sections).
- Command line, device and socket I/O, process creation, table and descriptor
  formats, cryptography, string and XML handling: sequential data conversions or
  system calls. They are most of the lines of the repository.

## Plan

1. Done: tsp and its proofs, tsswitch, packet queue with its refinement, logging,
   ECMG client and scrambler, packetizer and demux.
   Proofs of tsp from end to end, of tsswitch, of the packet queue with its
   refinement, of the logger, and of the scrambler over its client.
   Proofs of the packetizer and of the sections and tables out of the demux.
2. `TspInput`: `receiveAndStuff` with all stuffing counters, refining the abstract
   receive of `Tsp`; `WatchDog` on its own with its destructor.

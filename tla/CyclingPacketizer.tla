------------------------- MODULE CyclingPacketizer -------------------------
(***************************************************************************)
(* Class CyclingPacketizer: the sections which a plugin inserts in a PID,  *)
(* in which order they are provided and where stuffing is required.        *)
(*                                                                         *)
(* The object is a record z, with the fields of its superclass too (see    *)
(* PacketizerInit); a method is an operator from the object to its next    *)
(* value.                                                                  *)
(*                                                                         *)
(* A section is described by its table (tid, ver), its number in the       *)
(* table, the last number, its size, and occ: which occurrence on the PID  *)
(* it is, NoOcc in the lists.  All sections have a long header and a CRC.  *)
(***************************************************************************)
EXTENDS Integers, Sequences, SequencesExt

CONSTANTS
    PayloadSize,  \* bytes in a TS packet after its header, 184
    ShortHeader,  \* SHORT_SECTION_HEADER_SIZE, 3
    LongHeader    \* LONG_SECTION_HEADER_SIZE, 8

ASSUME SizeAssumption ==
    /\ {PayloadSize, ShortHeader, LongHeader} \subseteq Nat
    /\ 0 < ShortHeader /\ ShortHeader < LongHeader /\ LongHeader < PayloadSize

NoOcc == -1
UNDEFINED == -1  \* ~SectionCounter(0)
NullSection == [tid |-> "none", ver |-> 0, num |-> 0, last |-> 0, size |-> 0, occ |-> NoOcc]

\* PacketDistance(), with repetition rates in packets at bitrate 1.
PacketDistance(bitrate, rep) == bitrate * rep

\* Section::packetCount(), with room for a pointer_field
PacketsOf(s) == (s.size + PayloadSize) \div PayloadSize

PacketsIn(list) ==
    LET sum[n \in 0 .. Len(list)] == IF n = 0 THEN 0 ELSE sum[n - 1] + PacketsOf(list[n].section)
    IN  sum[Len(list)]

\* The elements of a list which are in S.
Only(list, S) ==
    LET kept[n \in 0 .. Len(list)] ==
          IF n = 0 THEN <<>>
          ELSE IF list[n] \in S THEN Append(kept[n - 1], list[n]) ELSE kept[n - 1]
    IN  kept[Len(list)]

\* addScheduledSection(): before the first one which is not due earlier.
AddScheduled(list, d) ==
    LET place == CHOOSE i \in 1 .. Len(list) + 1 :
                   /\ \A j \in 1 .. (i - 1) : list[j].due < d.due
                   /\ i <= Len(list) => list[i].due >= d.due
    IN  InsertAt(list, place, d)

\* addScheduledSection() for each element of new.
AddAllScheduled(list, new) ==
    LET added[n \in 0 .. Len(new)] == IF n = 0 THEN list ELSE AddScheduled(added[n - 1], new[n])
    IN  added[Len(new)]

AddSection(z, s, rep) ==
    LET d == [section |-> s, rep |-> rep, lastPacket |-> 0, lastCycle |-> 0,
              due |-> IF rep = 0 \/ z.bitrate = 0 THEN 0 ELSE z.packets]
        added == [z EXCEPT !.count = @ + 1, !.remain = @ + 1]
    IN  IF rep = 0 \/ z.bitrate = 0
        THEN [added EXCEPT !.other = Append(@, d)]
        ELSE [added EXCEPT !.sched = AddScheduled(@, d), !.schedPackets = @ + PacketsOf(s)]

\* addTable() and addSections()
AddSections(z, sections, rep) ==
    LET added[n \in 0 .. Len(sections)] ==
          IF n = 0 THEN z ELSE AddSection(added[n - 1], sections[n], rep)
    IN  added[Len(sections)]

\* Wrong variant: sections which were already sent in this cycle are deducted too.
UnsentAny(z, list) == list

\* The sections of a list which count in _remain_in_cycle.
Unsent(z, list) == Only(list, {d \in ToSet(list) : d.lastCycle # z.cycle})

RemoveSections(z, tid) ==
    LET Gone(list) == Only(list, {d \in ToSet(list) : d.section.tid = tid})
        Kept(list) == Only(list, {d \in ToSet(list) : d.section.tid # tid})
        gone == Gone(z.sched) \o Gone(z.other)
    IN  [z EXCEPT !.count = @ - Len(gone),
                  !.remain = @ - Len(Unsent(z, gone)),
                  !.schedPackets = @ - PacketsIn(Gone(z.sched)),
                  !.sched = Kept(@), !.other = Kept(@)]

RemoveAll(z) ==
    [z EXCEPT !.count = 0, !.remain = 0, !.schedPackets = 0, !.sched = <<>>, !.other = <<>>]

SetBitRate(z, bitrate) ==
    LET repeated == Only(z.other, {d \in ToSet(z.other) : d.rep # 0})
        now == [i \in DOMAIN repeated |->
                  [repeated[i] EXCEPT !.due = IF @ < z.packets THEN z.packets ELSE @]]
        later == [i \in DOMAIN z.sched |->
                    [z.sched[i] EXCEPT !.due = z.sched[i].lastPacket
                                               + PacketDistance(bitrate, z.sched[i].rep)]]
        moved ==
          CASE bitrate = z.bitrate -> z
            [] bitrate # z.bitrate /\ bitrate = 0 ->
                 [z EXCEPT !.other = @ \o z.sched, !.sched = <<>>, !.schedPackets = 0]
            [] bitrate # z.bitrate /\ bitrate # 0 /\ z.bitrate = 0 ->
                 [z EXCEPT !.other = Only(@, {d \in ToSet(@) : d.rep = 0}),
                           !.sched = AddAllScheduled(@, now),
                           !.schedPackets = @ + PacketsIn(repeated)]
            [] OTHER -> [z EXCEPT !.sched = AddAllScheduled(<<>>, Reverse(later))]
    IN  [moved EXCEPT !.bitrate = bitrate]

\* Unscheduled sections pass from time to time, whatever the scheduled ones require.
ForceUnscheduled(z) ==
    /\ z.other # <<>> /\ z.sched # <<>>
    /\ LET d == Last(z.other)
       IN  \/ d.lastCycle # z.cycle
           \/ d.lastPacket + PacketsOf(d.section) + z.schedPackets < z.packets

\* What is recorded of a section when it is provided.
Passed(z, d) == [d EXCEPT !.lastPacket = z.packets, !.lastCycle = z.cycle]

\* End of provideSection(): the section d is the last one of its cycle, or not.
CountInCycle(z, d, counter) ==
    CASE d.lastCycle = z.cycle -> z
      [] d.lastCycle # z.cycle /\ z.remain > 1 -> [z EXCEPT !.remain = @ - 1]
      [] OTHER -> [z EXCEPT !.cycleEnd = counter, !.cycle = @ + 1, !.remain = z.count]

\* provideSection(): the next object, and the section, NullSection if there is none.
ProvideSection(z0, counter) ==
    LET z == [z0 EXCEPT !.cycleEnd = UNDEFINED]
        scheduled == /\ ~ForceUnscheduled(z) /\ z.sched # <<>>
                     /\ Head(z.sched).due <= z.packets
        d == IF scheduled THEN Head(z.sched) ELSE Head(z.other)
        wait == PacketDistance(z.bitrate, d.rep)
        again == [Passed(z, d) EXCEPT !.due = z.packets + (IF wait > 1 THEN wait ELSE 1)]
        queued == IF scheduled
                  THEN [z EXCEPT !.sched = AddScheduled(Tail(@), again)]
                  ELSE [z EXCEPT !.other = Append(Tail(@), Passed(z, d))]
    IN  IF ~scheduled /\ z.other = <<>>
        THEN [z |-> z, section |-> NullSection]
        ELSE [z |-> CountInCycle(queued, d, counter),
              section |-> [d.section EXCEPT !.occ = counter]]

DoStuffing(z) ==
    \/ z.count = 0
    \/ z.stuffing = "ALWAYS"
    \/ z.stuffing = "AT_END" /\ z.remain = z.count
=============================================================================

----------------------------- MODULE Packetizer -----------------------------
(***************************************************************************)
(* Class Packetizer: TS packets from the sections of a provider, which is  *)
(* the CyclingPacketizer of the previous module.                           *)
(*                                                                         *)
(* A byte of a section is the section and the position of the byte in it.  *)
(***************************************************************************)
EXTENDS CyclingPacketizer

CONSTANT CC_MAX   \* modulus of continuity counters, 16

ASSUME CCAssumption == CC_MAX \in Nat \ (0 .. 2)

Stuffing == [of |-> NullSection, at |-> 0]   \* byte 0xFF
NullPacket == [cc |-> 0, pusi |-> FALSE, pointer |-> 0, data |-> <<>>]

PacketizerInit(policy) ==
    [cc |-> 0, section |-> NullSection, next |-> 0, packets |-> 0, in |-> 0, out |-> 0,
     stuffing |-> policy, bitrate |-> 0, sched |-> <<>>, other |-> <<>>, schedPackets |-> 0,
     count |-> 0, cycle |-> 1, remain |-> 0, cycleEnd |-> UNDEFINED]

\* CyclingPacketizer::reset() and Packetizer::reset()
Reset(z) == [RemoveAll(z) EXCEPT !.section = NullSection, !.next = 0]

AtSectionBoundary(z) == z.next = 0
AtCycleBoundary(z) ==
    AtSectionBoundary(z) /\ z.cycleEnd # UNDEFINED /\ z.cycleEnd + 1 = z.out

\* provideSection(_section_in_count++, section)
Provide(z) == ProvideSection([z EXCEPT !.in = @ + 1], z.in)

\* Same, into _section.
ProvideCurrent(z) ==
    LET p == Provide(z) IN [p.z EXCEPT !.section = p.section, !.next = 0]

(***************************************************************************)
(* One turn of the loop which fills the payload.  f: the object, the next  *)
(* section if it is known, the payload so far, the room in the packet,     *)
(* whether stuffing is required after the current section, end of loop.    *)
(***************************************************************************)
FillStep(f) ==
    LET s == f.z.section
        left == s.size - f.z.next
        length == IF left < f.room THEN left ELSE f.room
        data == f.data \o [i \in 1 .. length |-> [of |-> s, at |-> f.z.next + i]]
        room == f.room - length
        ended == [f.z EXCEPT !.out = @ + 1, !.section = f.following, !.next = 0]
        more == IF f.following = NullSection /\ ~f.stuffing /\ ~DoStuffing(ended)
                THEN ProvideCurrent(ended) ELSE ended
        last == f.stuffing \/ more.section = NullSection \/ room < LongHeader
    IN  IF length < left
        THEN [f EXCEPT !.z.next = @ + length, !.data = data, !.room = room, !.done = (room = 0)]
        ELSE [z |-> more, following |-> NullSection, data |-> data, room |-> room,
              stuffing |-> FALSE, done |-> last \/ room = 0]

Fill(f0) ==
    LET Turn[n \in 0 .. PayloadSize] ==
          IF n = 0 THEN f0 ELSE LET f == Turn[n - 1] IN IF f.done THEN f ELSE FillStep(f)
    IN  Turn[PayloadSize]

\* Wrong variant: pointer_field only at the beginning of a section.
StartsHereFirst(next, stuffing) == next = 0

\* payload_unit_start_indicator
StartsHere(next, stuffing) == next = 0 \/ ~stuffing

\* The rest of getNextPacket(), when the current section of z is in place, and p is z with the
\* section which follows it in the packet, if any: the next object and the packet.
BuildPacket(z, p) ==
    LET left == z.section.size - z.next
        stuffing == p.section = NullSection \/ left > PayloadSize - 1 - LongHeader
        pusi == StartsHere(z.next, stuffing)
        full == Fill([z |-> [p.z EXCEPT !.cc = (@ + 1) % CC_MAX], following |-> p.section,
                      data |-> <<>>, room |-> IF pusi THEN PayloadSize - 1 ELSE PayloadSize,
                      stuffing |-> stuffing, done |-> FALSE])
    IN  [z |-> full.z,
         packet |-> [cc |-> z.cc, pusi |-> pusi,
                     pointer |-> IF z.next = 0 THEN 0 ELSE left,
                     data |-> full.data \o [i \in 1 .. full.room |-> Stuffing]]]

\* The next section is provided at once when its start may fit in the packet.
JoinNext(z) ==
    IF z.section.size - z.next <= PayloadSize - 1 - ShortHeader /\ ~DoStuffing(z)
    THEN Provide(z) ELSE [z |-> z, section |-> NullSection]

PacketFrom(z) ==
    IF z.section = NullSection THEN [z |-> z, packet |-> NullPacket] ELSE BuildPacket(z, JoinNext(z))

\* getNextPacket(): the next object and the packet.
GetNextPacket(z) ==
    LET counted == [z EXCEPT !.packets = @ + 1]
    IN  PacketFrom(IF counted.section = NullSection THEN ProvideCurrent(counted) ELSE counted)
=============================================================================

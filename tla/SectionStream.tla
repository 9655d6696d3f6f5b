--------------------------- MODULE SectionStream ---------------------------
(***************************************************************************)
(* One PID with sections, from the plugin which inserts them to a demux    *)
(* which extracts them: CyclingPacketizer, Packetizer and SectionDemux,    *)
(* over a transmission which may lose, repeat or scramble packets.         *)
(*                                                                         *)
(* The plugin replaces a table or all of them by a new version, changes    *)
(* the bitrate, or resets the packetizer and loads its files again, as the *)
(* plugins of the repository do.  A packet is generated and fed in one     *)
(* step.                                                                   *)
(***************************************************************************)
EXTENDS SectionDemux

CONSTANTS
    TableSizes,     \* sizes of the sections of each version of each table
    Files,          \* the tables, in the order in which the plugin loads their files
    Repetition,     \* repetition rate of each table, 0 if none
    Bitrates,       \* values for setBitRate()
    Policies,       \* stuffing policies
    MayTruncate,    \* reset() also inside a section (zap), not only between two (inject)
    MaxPackets, MaxFaults, MaxCommands  \* bounds

ASSUME StreamAssumption ==
    /\ DOMAIN TableSizes = TIDs /\ DOMAIN Repetition = TIDs
    /\ \A t \in TIDs : /\ TableSizes[t] \in Seq(Seq(MinSection .. MaxSection) \ {<<>>})
                        /\ TableSizes[t] # <<>> /\ Repetition[t] \in Nat
    /\ Files \in Seq(TIDs) /\ Bitrates \subseteq Nat
    /\ \A k \in DOMAIN Junk, t \in TIDs : \A v \in DOMAIN TableSizes[t] :
       \A n \in DOMAIN TableSizes[t][v] : \A p \in 2 .. TableSizes[t][v][n] :
          Junk[k][t][v][n][p] \in [tid : TIDs \cup {"short"}, ver : Nat, num : Nat, last : Nat,
                                  size : Nat, occ : {NoOcc}]
    /\ Policies \subseteq {"NEVER", "AT_END", "ALWAYS"}
    /\ MayTruncate \in BOOLEAN
    /\ {MaxPackets, MaxFaults, MaxCommands} \subseteq Nat

VARIABLES
    zer,         \* the packetizer
    demux,       \* context of the PID in the demux
    version,     \* current version of each table in the plugin
    junk,        \* contents of the sections
    packet,      \* last generated packet
    sections,    \* history: sections passed to the section handler
    tables,      \* history: tables passed to the table handler
    garbage,     \* history: a section without CRC, and its table, were passed to the handlers
    begun,       \* history: last occurrence of which a byte was generated
    completed,   \* history: occurrences of which the last byte was generated
    owed,        \* history: the demux must find all occurrences from this one on
    gap,         \* packets which were lost since the last one which was fed
    lost,        \* count of lost and scrambled packets
    faults,      \* count of these, repeated packets and resets of the demux
    commands,    \* count of commands of the plugin, new tables excluded
    missed,      \* history: bytes are missing which the demux did not see missing
    forgot       \* history: the demux was reset, or missed bytes

inVars   == <<zer, version, commands>>
outVars  == <<demux, sections, tables, garbage, missed, forgot>>
linkVars == <<packet, begun, completed, gap, lost, faults, owed>>
vars == <<inVars, outVars, linkVars, junk>>

Never == -1   \* value of owed, when the demux need not find any

TableSections(t, v) ==
    LET sizes == TableSizes[t][v]
    IN  [i \in DOMAIN sizes |-> [tid |-> t, ver |-> v, num |-> i - 1, last |-> Len(sizes) - 1,
                                 size |-> sizes[i], occ |-> NoOcc]]

\* The sections of the files which exist.
LoadTables(z, files) ==
    LET loaded[n \in 0 .. Len(Files)] ==
          IF n = 0 THEN z
          ELSE IF Files[n] \notin files THEN loaded[n - 1]
          ELSE AddSections(loaded[n - 1], TableSections(Files[n], version[Files[n]]),
                           Repetition[Files[n]])
    IN  loaded[Len(Files)]

\* The first version of each table is loaded before the first packet.
Init ==
    /\ version = [t \in TIDs |-> 1]
    /\ \E policy \in Policies, bitrate \in Bitrates :
          zer = LoadTables(SetBitRate(PacketizerInit(policy), bitrate), TIDs)
    /\ demux = PIDContext
    /\ junk \in DOMAIN Junk
    /\ packet = NullPacket
    /\ sections = <<>> /\ tables = <<>>
    /\ begun = NoOcc /\ completed = {} /\ owed = 0
    /\ gap = 0 /\ lost = 0 /\ faults = 0 /\ commands = 0
    /\ garbage = FALSE /\ missed = FALSE /\ forgot = FALSE

-----------------------------------------------------------------------------
(* The plugin. *)

\* A new version of a table: removeSections() and addTable().
NewTable(t) ==
    /\ version[t] < Len(TableSizes[t])
    /\ version' = [version EXCEPT ![t] = @ + 1]
    /\ zer' = AddSections(RemoveSections(zer, t), TableSections(t, version'[t]), Repetition[t])
    /\ UNCHANGED <<outVars, linkVars, junk, commands>>

ChangeBitRate(bitrate) ==
    /\ commands < MaxCommands
    /\ zer' = SetBitRate(zer, bitrate)
    /\ zer' # zer
    /\ commands' = commands + 1
    /\ UNCHANGED <<outVars, linkVars, junk, version>>

\* removeAll() and addTable(): the table becomes the only one of the PID.
ReplaceTables(t) ==
    /\ commands < MaxCommands
    /\ version[t] < Len(TableSizes[t])
    /\ version' = [version EXCEPT ![t] = @ + 1]
    /\ zer' = AddSections(RemoveAll(zer), TableSections(t, version'[t]), Repetition[t])
    /\ commands' = commands + 1
    /\ UNCHANGED <<outVars, linkVars, junk>>

(***************************************************************************)
(* reset(), at a section boundary, and the files which still exist are     *)
(* loaded again (inject); or at any time (zap): the rest of the current    *)
(* section is lost.  The demux recovers from that if the section would     *)
(* have ended in the next packet.                                          *)
(***************************************************************************)
ResetPacketizer(files) ==
    LET late == zer.next > 0 /\ zer.section.size - zer.next > PayloadSize - 1
    IN  /\ commands < MaxCommands
        /\ AtSectionBoundary(zer) \/ (MayTruncate /\ files = {})
        /\ zer' = LoadTables(Reset(zer), files)
        /\ commands' = commands + 1
        /\ owed' = IF late THEN Never ELSE owed
        /\ missed' = (missed \/ late) /\ forgot' = (forgot \/ late)
        /\ UNCHANGED <<demux, sections, tables, garbage, version, junk,
                       packet, begun, completed, gap, lost, faults>>

-----------------------------------------------------------------------------
(* The transmission. *)

Generated(pkt, p) ==
    /\ zer.packets < MaxPackets
    /\ zer' = p.z
    /\ UNCHANGED <<version, commands, junk>>
    /\ packet' = pkt
    /\ LET bytes == {pkt.data[i] : i \in DOMAIN pkt.data} \ {Stuffing}
       IN  /\ begun' = Max({begun} \cup {b.of.occ : b \in bytes})
           /\ completed' = completed \cup {b.of.occ : b \in {x \in bytes : x.at = x.of.size}}

\* The packetizer is empty.
EmptyPacket ==
    LET p == GetNextPacket(zer)
    IN  /\ p.packet = NullPacket
        /\ Generated(packet, p)
        /\ UNCHANGED <<outVars, gap, lost, faults, owed>>

\* A header from the middle of a section made the context of a table: it has the version of the
\* table, but not its number of sections, and the sections of this version are refused.
Poisoned(d) ==
    \E t \in TIDs : /\ d.tids[t].sects # <<>> /\ d.tids[t].version \in DOMAIN TableSizes[t]
                    /\ Len(d.tids[t].sects) # Len(TableSizes[t][d.tids[t].version])

\* A packet is lost, or is scrambled, which the demux sees.
LosePacket(scrambled) ==
    LET p == GetNextPacket(zer)
    IN  /\ p.packet # NullPacket
        /\ faults < MaxFaults
        /\ Generated(p.packet, p)
        /\ lost' = lost + 1 /\ faults' = faults + 1
        /\ gap' = IF scrambled THEN 0 ELSE gap + 1
        /\ demux' = IF scrambled THEN SyncLost(demux) ELSE demux
        /\ owed' = IF owed = Never /\ (Poisoned(demux) \/ ~scrambled) THEN Never ELSE begun' + 1
        /\ UNCHANGED <<sections, tables, garbage, missed, forgot>>

\* The demux cannot see a loss of so many packets.
Unseen == gap > 0 /\ gap % CC_MAX \in {0, CC_MAX - 1}

\* The demux and its handlers, with the result r of processPacket().
Handled(r) ==
    /\ demux' = r.d
    /\ sections' = sections \o r.sections
    /\ tables' = tables \o r.tables
    /\ garbage' = (garbage \/ r.garbage)

\* The packet of p reaches the demux, with result r.
Delivered(p, r, handlerResets) ==
    /\ p.packet # NullPacket
    /\ Generated(p.packet, p)
    /\ Handled(r)
    /\ handlerResets => faults < MaxFaults /\ (r.sections # <<>> \/ r.garbage)
    /\ faults' = IF handlerResets THEN faults + 1 ELSE faults
    /\ gap' = 0
    /\ missed' = (missed \/ (Unseen /\ demux.sync))
    /\ forgot' = (forgot \/ handlerResets \/ (Unseen /\ demux.sync))
    /\ owed' = IF handlerResets THEN begun' + 1
               ELSE IF Poisoned(r.d) \/ (Unseen /\ demux.sync) THEN Never
               ELSE IF gap > 0 /\ ~Unseen /\ ~Poisoned(demux) THEN begun + 1
               ELSE IF owed = Never /\ ~r.d.sync THEN begun' + 1
               ELSE owed
    /\ UNCHANGED lost

FeedPacket(handlerResets) ==
    LET p == GetNextPacket(zer)
    IN  Delivered(p, ProcessPacket(demux, p.packet, junk, handlerResets), handlerResets)

RepeatPacket ==
    /\ packet # NullPacket /\ gap = 0 /\ faults < MaxFaults
    /\ faults' = faults + 1
    /\ Handled(ProcessPacket(demux, packet, junk, FALSE))
    /\ UNCHANGED <<inVars, junk, missed, forgot, packet, begun, completed, gap, lost, owed>>

Next ==
    \/ \E t \in TIDs : NewTable(t)
    \/ \E b \in Bitrates : ChangeBitRate(b)
    \/ \E t \in TIDs : ReplaceTables(t)
    \/ \E files \in SUBSET TIDs : ResetPacketizer(files)
    \/ EmptyPacket
    \/ \E s \in BOOLEAN : LosePacket(s)
    \/ \E h \in BOOLEAN : FeedPacket(h)
    \/ RepeatPacket

Spec == Init /\ [][Next]_vars

-----------------------------------------------------------------------------
(* Properties. *)

\* The stored sections.
Stored == zer.sched \o zer.other

(***************************************************************************)
(* The counters of the packetizer are exact after any mix of provided,     *)
(* added and removed sections, changes of bitrate and of cycle:            *)
(* _remain_in_cycle counts the sections which were not sent in this cycle, *)
(* so that the assertions of removeSections() and provideSection() hold,   *)
(* and the list of the scheduled sections is sorted.                       *)
(***************************************************************************)
CycleAccounting ==
    /\ zer.count = Len(Stored)
    /\ zer.remain = Cardinality({i \in DOMAIN Stored : Stored[i].lastCycle # zer.cycle})
    /\ zer.schedPackets = PacketsIn(zer.sched)
    /\ IsSorted(zer.sched, LAMBDA a, b : a.due <= b.due)

(***************************************************************************)
(* Whatever is lost, repeated or truncated, the section handler gets only  *)
(* sections which were completely sent, in the order in which they were    *)
(* sent, and each of them once, as long as the demux sees that bytes are   *)
(* missing.  When it does not (the packets which are lost are a multiple   *)
(* of the modulus of the continuity counters, or one less; or a section is *)
(* truncated long before its end), this is true of the sections with a     *)
(* CRC only: the handlers may get garbage, read as a short section.        *)
(* A demux which was reset by its handler does not know the packet any     *)
(* more: if that packet is repeated, sections which are entirely in it may *)
(* come again.                                                             *)
(***************************************************************************)
GarbageExplained == garbage => missed

InOnePacket(a, b) == (IF a = b THEN a.size ELSE a.size + b.size) < PayloadSize

SectionsInOrder ==
    /\ GarbageExplained
    /\ \A i \in DOMAIN sections : sections[i].occ \in completed
    /\ IsSorted(sections, LAMBDA a, b : a.occ < b.occ \/ (forgot /\ InOnePacket(a, b)))

(***************************************************************************)
(* The demux misses no section beyond those which a loss made incomplete:  *)
(* it synchronizes again on the first section which starts after the loss, *)
(* even in the middle of a packet, and it skips a section which a reset of *)
(* the packetizer truncated when the pointer_field shows that in time.     *)
(***************************************************************************)
SectionsNotMissed ==
    owed # Never
    => {o \in completed : o >= owed} \subseteq {sections[i].occ : i \in DOMAIN sections}

TableOf(sects) == [i \in DOMAIN sects |-> [sects[i] EXCEPT !.occ = NoOcc]]

(***************************************************************************)
(* Each table which the table handler gets is one version of the table,    *)
(* complete, whatever sections of other versions were received in between  *)
(* (or it is one short section of garbage, after bytes which the demux did *)
(* not see missing: see above);                                            *)
(* versions are notified in order and once, unless the demux had to start  *)
(* again (and a packet was repeated then, for those which are not in       *)
(* order); and a version of which all sections were received is notified.  *)
(***************************************************************************)
TablesConsistent ==
    /\ GarbageExplained
    /\ \A i \in DOMAIN tables :
          TableOf(tables[i]) = TableSections(tables[i][1].tid, tables[i][1].ver)
    /\ \A i, j \in DOMAIN tables :
          i < j /\ tables[i][1].tid = tables[j][1].tid
          => \/ tables[i][1].ver < tables[j][1].ver
             \/ tables[i][1].ver = tables[j][1].ver /\ forgot
             \/ /\ forgot
                /\ \E a \in ToSet(tables[i]), b \in ToSet(tables[j]) : InOnePacket(a, b)
    /\ ~forgot => \A t \in TIDs : \A v \in 1 .. version[t] :
          LET all == TableSections(t, v)
          IN  ToSet(all) \subseteq ToSet(TableOf(sections))
              => \E i \in DOMAIN tables : TableOf(tables[i]) = all

(***************************************************************************)
(* atCycleBoundary() is true when the last generated packet is the last    *)
(* one of a cycle: it holds the end of the section which ended the cycle.  *)
(* Stuffing policy NEVER is excluded, as in the documentation.             *)
(***************************************************************************)
CycleBoundarySeen ==
    zer.stuffing # "NEVER" /\ zer.cycleEnd # UNDEFINED
    /\ (\E i \in DOMAIN packet.data : packet.data[i].of.occ = zer.cycleEnd
                                      /\ packet.data[i].at = packet.data[i].of.size)
    => AtCycleBoundary(zer)
=============================================================================

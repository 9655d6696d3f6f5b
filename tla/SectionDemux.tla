---------------------------- MODULE SectionDemux ----------------------------
(***************************************************************************)
(* Class SectionDemux: sections and tables from the TS packets of a PID.   *)
(*                                                                         *)
(* The context of the PID is a record d: sync, cc (continuity), ts (bytes  *)
(* of sections which are not complete) and tids (the context of the table  *)
(* of each table id).  A handler for sections and one for tables are set.  *)
(*                                                                         *)
(* All sections which are sent are long ones, with a CRC which is ideal: a *)
(* long section is valid if and only if its bytes are the ones which were  *)
(* sent.  Bytes from the middle of a section which are taken for a section *)
(* header say any header, of a long section or of a short one, depending   *)
(* on where they are (but none is a 0xFF byte).  A short section has no    *)
(* CRC: this one is `garbage'.                                             *)
(***************************************************************************)
EXTENDS Packetizer

CONSTANTS
    TIDs,        \* table ids
    MaxSection,  \* MAX_PRIVATE_SECTION_SIZE
    MinSection,  \* MIN_LONG_SECTION_SIZE
    Junk         \* contents of the sections: what the bytes inside them say as a header

ASSUME DemuxAssumption ==
    /\ {NullSection.tid, "short"} \cap TIDs = {}
    /\ MinSection \in Nat /\ MaxSection \in Nat /\ LongHeader < MinSection

NoTable == [notified |-> FALSE, version |-> 0, sects |-> <<>>]
PIDContext == [sync |-> FALSE, cc |-> 0, ts |-> <<>>, tids |-> [t \in TIDs |-> NoTable]]

SyncLost(d) == [d EXCEPT !.sync = FALSE, !.ts = <<>>]

\* ETIDContext::init()
InitTable(h) ==
    [notified |-> FALSE, version |-> h.ver, sects |-> [i \in 1 .. h.last + 1 |-> NullSection]]

\* Wrong variant: the sections of the previous version are kept.
TableContextKept(tc, h) ==
    IF tc.sects = <<>> THEN InitTable(h) ELSE [tc EXCEPT !.version = h.ver]

\* The context of the table of a section: a new one for a new version.
TableContext(tc, h) == IF tc.sects = <<>> \/ tc.version # h.ver THEN InitTable(h) ELSE tc

\* Header of a section, where a 0xFF byte gives a length which is too large.  A packetizer does
\* not break a header: the other bytes of a header follow the first one.
Header(byte, junk) ==
    CASE byte = Stuffing -> [NullSection EXCEPT !.size = MaxSection + 1]
      [] byte.at = 1 -> byte.of
      [] OTHER -> Junk[junk][byte.of.tid][byte.of.ver][byte.of.num + 1][byte.at]

\* section_syntax_indicator is 0.
IsShort(h) == h.tid = "short"

Least(h) == IF IsShort(h) THEN ShortHeader ELSE MinSection

\* CRC32::CHECK of a long section.
Valid(bytes, h) == \A i \in 1 .. h.size : bytes[i] = [of |-> h, at |-> i]

\* Another section starts, according to the pointer_field, inside this one.
Truncated(w, h) == w.at < w.pusi /\ w.at + h.size > w.pusi

\* A section which is skipped without regard to its table.
Skipped(w, h) == Truncated(w, h) \/ h.num > h.last

\* The position of the next section, or the end of the buffer if stuffing follows this one.
NextPosition(w, h) ==
    LET ts == w.d.ts
        end == IF Truncated(w, h) THEN w.pusi ELSE w.at + h.size
    IN  IF end < Len(ts) /\ ts[end + 1] = Stuffing THEN Len(ts) ELSE end

\* A short section is in the buffer.  It is always a new version of a table of one section: it and
\* this table are passed to the handlers, and its context is not used again.
EndOfShort(w, h, handlerResets) ==
    LET ok == ~Truncated(w, h)
        resets == ok /\ handlerResets
    IN  [w EXCEPT !.garbage = @ \/ ok,
                  !.d = IF resets THEN PIDContext ELSE @,
                  !.done = resets,
                  !.at = IF resets THEN 0 ELSE NextPosition(w, h)]

\* A long section, with header h, of the table with context tc, is in the buffer; ok if it is valid.
EndOfSection(w, h, tc, ok, handlerResets) ==
    LET known == ok /\ tc.sects[h.num + 1] # NullSection
        stored == IF ok /\ ~known THEN [tc EXCEPT !.sects[h.num + 1] = h] ELSE tc
        complete == /\ ok /\ ~known /\ ~tc.notified
                    /\ \A i \in DOMAIN stored.sects : stored.sects[i] # NullSection
        d == IF Skipped(w, h) THEN w.d
             ELSE [w.d EXCEPT !.tids[h.tid] = [stored EXCEPT !.notified = @ \/ complete]]
    IN  [w EXCEPT !.sections = IF ok THEN Append(@, h) ELSE @,
                  !.tables = IF complete THEN Append(@, stored.sects) ELSE @,
                  !.d = IF ok /\ handlerResets THEN PIDContext ELSE d,
                  !.done = ok /\ handlerResets,
                  !.at = IF ok /\ handlerResets THEN 0 ELSE NextPosition(w, h)]

(***************************************************************************)
(* One turn of the loop on the sections of the buffer.  w: the context d,  *)
(* position at in the buffer, position pusi of the section which starts    *)
(* in the packet (-1 if none), sections and tables for the handlers, if a  *)
(* short section was among them, end of loop.  A handler may reset the     *)
(* demux: this is delayed until it returns, then the packet is left.       *)
(***************************************************************************)
WalkStep(w, junk, handlerResets) ==
    LET ts == w.d.ts
        rest == Len(ts) - w.at
        h == Header(ts[w.at + 1], junk)
        tc == TableContext(w.d.tids[h.tid], h)
        ok == /\ ~Skipped(w, h)
              /\ h.last + 1 = Len(tc.sects)
              /\ Valid(SubSeq(ts, w.at + 1, w.at + h.size), h)
    IN  CASE rest < ShortHeader -> [w EXCEPT !.done = TRUE]
          [] rest >= ShortHeader /\ (h.size > MaxSection \/ h.size < Least(h)) ->
               [w EXCEPT !.d = SyncLost(@), !.at = 0, !.done = TRUE]
          [] rest >= ShortHeader /\ h.size \in Least(h) .. MaxSection /\ rest < h.size ->
               [w EXCEPT !.done = TRUE]
          [] OTHER -> IF IsShort(h) THEN EndOfShort(w, h, handlerResets)
                      ELSE EndOfSection(w, h, tc, ok, handlerResets)

Walk(w0, junk, handlerResets) ==
    LET Turn[n \in 0 .. Len(w0.d.ts)] ==
          IF n = 0 THEN w0
          ELSE LET w == Turn[n - 1]
               IN  IF w.done \/ w.at >= Len(w.d.ts) THEN w ELSE WalkStep(w, junk, handlerResets)
    IN  Turn[Len(w0.d.ts)]

\* Wrong variant: duplicate packets are processed again.
DuplicateNever(d, packet) == FALSE

Duplicate(d, packet) == d.sync /\ packet.cc = d.cc

\* Loss of synchronization on a gap in the continuity counters.
CheckContinuity(d, packet) ==
    LET kept == IF d.sync /\ packet.cc # (d.cc + 1) % CC_MAX THEN SyncLost(d) ELSE d
    IN  [kept EXCEPT !.cc = packet.cc]

\* processPacket(): the next context, and what the handlers get.
ProcessPacket(d0, packet, junk, handlerResets) ==
    LET d == CheckContinuity(d0, packet)
        skip == IF d.sync THEN 0 ELSE packet.pointer
        payload == SubSeq(packet.data, skip + 1, Len(packet.data))
        ts == d.ts \o payload
        pusi == IF packet.pusi THEN Len(ts) - Len(payload) + packet.pointer - skip ELSE -1
        w == Walk([d |-> [d EXCEPT !.sync = TRUE, !.ts = ts], at |-> 0, pusi |-> pusi,
                   sections |-> <<>>, tables |-> <<>>, garbage |-> FALSE, done |-> FALSE],
                 junk, handlerResets)
    IN  CASE Duplicate(d0, packet) -> [d |-> d0, sections |-> <<>>, tables |-> <<>>, garbage |-> FALSE]
          [] ~Duplicate(d0, packet) /\ ~d.sync /\ ~packet.pusi ->
               [d |-> d, sections |-> <<>>, tables |-> <<>>, garbage |-> FALSE]
          [] OTHER -> [d |-> [w.d EXCEPT !.ts = SubSeq(@, w.at + 1, Len(@))],
                       sections |-> w.sections, tables |-> w.tables, garbage |-> w.garbage]
=============================================================================

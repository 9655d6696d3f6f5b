-------------------------- MODULE MCSectionStream --------------------------
(***************************************************************************)
(* Instances of SectionStream.  A packet holds 8 bytes, a section header 3 *)
(* of them: sections of 4 bytes share a packet with the next header, the   *)
(* others do not; one section needs two packets, one needs three.          *)
(***************************************************************************)
EXTENDS SectionStream

TwoVersions == [PMT |-> << <<4, 12>>, <<17, 4>> >>, CAT |-> << <<6>> >>]
BothFiles == <<"CAT", "PMT">>
Rates == [PMT |-> 0, CAT |-> 2]

(* What is read as a header inside a section: the size of a long section of *)
(* version 1 of the PMT which is too small (2), or a plausible one, and     *)
(* short sections, which are empty (2) or not, in turn.                     *)
Long(n) == [NullSection EXCEPT !.tid = "PMT", !.ver = 1, !.size = n]
NoCRC(n) == [NullSection EXCEPT !.tid = "short", !.size = n]
Contents(headers) ==
    [t \in DOMAIN TwoVersions |-> [v \in DOMAIN TwoVersions[t] |->
        [n \in DOMAIN TwoVersions[t][v] |-> [p \in 2 .. TwoVersions[t][v][n] |->
            headers[(p % Len(headers)) + 1]]]]]

JunkContents == << Contents(<<Long(2), NoCRC(2), Long(5)>>), Contents(<<Long(5), NoCRC(3)>>) >>
=============================================================================

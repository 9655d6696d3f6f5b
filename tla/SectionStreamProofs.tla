------------------------- MODULE SectionStreamProofs -------------------------
(***************************************************************************)
(* Sections from the packetizer to the demux: the invariants of the        *)
(* packetizer and of the order in which sections are delivered, for every  *)
(* value of the constants.                                                 *)
(***************************************************************************)
EXTENDS PacketizerProofs

-----------------------------------------------------------------------------
(***************************************************************************)
(* The counters of the packetizer.                                         *)
(***************************************************************************)
\* The step of the packetizer in the actions of the transmission.
LEMMA GeneratedKept ==
    ASSUME PacketizerInv, NEW pkt, Generated(pkt, GetNextPacket(zer))
    PROVE  PacketizerInv'
<1> DEFINE p == GetNextPacket(zer)
<1>1. version \in Versions /\ Good(zer, version)
  BY DEF PacketizerInv
<1>2. AllPast({}, zer, version)
  BY DEF AllPast
<1>3. Good(p.z, version)
  BY <1>1, <1>2, NextPacketOK DEF NextOK
<1>4. zer' = p.z /\ version' = version
  BY DEF Generated
<1> QED BY <1>1, <1>3, <1>4 DEF PacketizerInv

\* The sums in Exact are the counts in CycleAccounting.
LEMMA ExactCounts ==
    ASSUME PacketizerInv
    PROVE  CycleAccounting
<1> DEFINE c == zer.cycle
<1>1. zer \in Object /\ zer.sched \in Seq(Entry) /\ zer.other \in Seq(Entry) /\ c \in Nat
  BY LiveLists DEF PacketizerInv, Good, Exact, Object
<1>2. Stored \in Seq(Entry)
  BY <1>1 DEF Stored
<1>3. \A e \in Entry : One[e] = 1
  BY Weights
<1>4. One \in [Entry -> Int] /\ Late(c) \in [Entry -> Int]
  BY <1>1, Weights
<1>5. Total(Stored, One) = Total(zer.sched, One) + Total(zer.other, One)
      /\ Total(Stored, Late(c)) = Total(zer.sched, Late(c)) + Total(zer.other, Late(c))
  BY <1>1, <1>4, TotalConcat DEF Stored
<1>6. Total(Stored, One) = Len(Stored)
  BY <1>2, <1>3, <1>4, TotalLen
<1>7. zer.count = Len(Stored)
  BY <1>5, <1>6 DEF PacketizerInv, Good, Exact
<1>8. zer.remain = Cardinality({i \in DOMAIN Stored : Stored[i].lastCycle # zer.cycle})
  <2>1. Cardinality({i \in 1 .. Len(Stored) : Stored[i].lastCycle # c}) = Total(Stored, Late(c))
    BY <1>1, <1>2, LateTotal
  <2>2. DOMAIN Stored = 1 .. Len(Stored)
    BY <1>2
  <2> QED BY <1>5, <2>1, <2>2 DEF PacketizerInv, Good, Exact
<1>9. zer.schedPackets = PacketsIn(zer.sched)
  BY <1>1, PacketsTotal DEF PacketizerInv, Good, Exact
<1>10. IsSorted(zer.sched, LAMBDA a, b : a.due <= b.due)
  BY DEF IsSorted, PacketizerInv, Good, Exact, Sorted
<1> QED BY <1>7, <1>8, <1>9, <1>10 DEF CycleAccounting

(***************************************************************************)
(* The packetizer is well formed: the sections in its lists are those of   *)
(* the current versions, its counters are exact, and its current section   *)
(* was provided by it and has bytes left, or it has none.                  *)
(***************************************************************************)
THEOREM PacketizerTyped == Spec => []PacketizerInv
<1>1. Init => PacketizerInv
  BY InitPacketizer
<1>2. PacketizerInv /\ [Next]_vars => PacketizerInv'
  <2> SUFFICES ASSUME PacketizerInv, [Next]_vars PROVE PacketizerInv'
    OBVIOUS
  <2>1. ASSUME NEW t \in TIDs, NewTable(t) PROVE PacketizerInv'
    BY <2>1, NewTableKept DEF Kept, PacketizerInv
  <2>2. ASSUME NEW b \in Bitrates, ChangeBitRate(b) PROVE PacketizerInv'
    BY <2>2, ChangeBitRateKept DEF Kept, PacketizerInv
  <2>3. ASSUME NEW t \in TIDs, ReplaceTables(t) PROVE PacketizerInv'
    BY <2>3, ReplaceTablesKept DEF Kept, PacketizerInv
  <2>4. ASSUME NEW files \in SUBSET TIDs, ResetPacketizer(files) PROVE PacketizerInv'
    BY <2>4, ResetKept DEF Kept, PacketizerInv
  <2>5. CASE EmptyPacket
    BY <2>5, GeneratedKept DEF EmptyPacket
  <2>6. ASSUME NEW s \in BOOLEAN, LosePacket(s) PROVE PacketizerInv'
    BY <2>6, GeneratedKept DEF LosePacket
  <2>7. ASSUME NEW h \in BOOLEAN, FeedPacket(h) PROVE PacketizerInv'
    BY <2>7, GeneratedKept DEF FeedPacket, Delivered
  <2>8. CASE RepeatPacket
    BY <2>8 DEF RepeatPacket, inVars, PacketizerInv
  <2>9. CASE UNCHANGED vars
    BY <2>9 DEF vars, inVars, PacketizerInv
  <2> QED BY <2>1, <2>2, <2>3, <2>4, <2>5, <2>6, <2>7, <2>8, <2>9 DEF Next
<1> QED BY <1>1, <1>2, PTL DEF Spec

(***************************************************************************)
(* The counters of the packetizer are exact: CycleAccounting.              *)
(***************************************************************************)
THEOREM PacketizerCounts == Spec => []CycleAccounting
<1>1. PacketizerInv => CycleAccounting
  BY ExactCounts
<1> QED BY <1>1, PacketizerTyped, PTL

-----------------------------------------------------------------------------
(***************************************************************************)
(* The bytes in packets and in the buffer of the demux.                    *)
(***************************************************************************)
Raw == Byte \cup {Stuffing}

\* Byte b comes next after byte a, in packets or between two of them.
Succeeds(a, b) ==
    IF b = Stuffing THEN a.at = a.of.size ELSE a # Stuffing /\ Follows(a, b)

Later(a, b) ==
    /\ a = Stuffing => b = Stuffing
    /\ b # Stuffing => Upto(a.of, b.of)

\* What follows the first J bytes of u has no hole: sections, then stuffing.
Flow(u, J) ==
    /\ u \in Seq(Raw) /\ J \in Nat
    /\ \A i \in 1 .. Len(u) : J < i /\ i + 1 <= Len(u) => Succeeds(u[i], u[i + 1])
    /\ \A i, j \in 1 .. Len(u) : J < i /\ i < j => Later(u[i], u[j])

\* A byte is stuffing or of a section.
LEMMA RawByte ==
    ASSUME NEW b \in Raw
    PROVE  \/ b = Stuffing /\ b \notin Byte /\ b.at = 0 /\ b.of \notin Sent
           \/ /\ b # Stuffing /\ b \in Byte /\ b.of \in Sent /\ b.at \in Nat /\ 1 <= b.at
              /\ b.at <= b.of.size /\ b.of.size \in Nat /\ b = [of |-> b.of, at |-> b.at]
<1>1. CASE b \in Byte
  <2>1. b \in [of : Sent, at : Nat] /\ 1 <= b.at /\ b.at <= b.of.size
    BY <1>1 DEF Byte
  <2>2. b.of \in Sent /\ b.at \in Nat /\ b = [of |-> b.of, at |-> b.at]
    BY <2>1
  <2>3. b.of.size \in Nat
    BY <2>2, SentSize
  <2>4. b # Stuffing
    BY <2>1, <2>2 DEF Stuffing
  <2> QED BY <1>1, <2>1, <2>2, <2>3, <2>4
<1>2. CASE b = Stuffing
  <2>1. b.at = 0 /\ b.of = NullSection
    BY <1>2 DEF Stuffing
  <2>2. b \notin Byte
    BY <2>1 DEF Byte
  <2> QED BY <1>2, <2>1, <2>2, Sizes
<1> QED BY <1>1, <1>2 DEF Raw

\* The element of a flow at a position, and the next one.
LEMMA FlowAt ==
    ASSUME NEW u, NEW J, Flow(u, J), NEW i \in 1 .. Len(u)
    PROVE  /\ u \in Seq(Raw) /\ J \in Nat /\ Len(u) \in Nat /\ u[i] \in Raw
           /\ J < i /\ i + 1 <= Len(u) => Succeeds(u[i], u[i + 1])
           /\ \A j \in 1 .. Len(u) : J < i /\ i < j => Later(u[i], u[j])
<1>1. u \in Seq(Raw)
  BY DEF Flow
<1>2. Len(u) \in Nat /\ u[i] \in Raw
  BY <1>1
<1> QED BY <1>1, <1>2 DEF Flow

\* From its first byte on, a section is in the flow as far as the flow goes.
LEMMA FlowForward ==
    ASSUME NEW u, NEW J, Flow(u, J), NEW p \in Nat, J <= p, p < Len(u), u[p + 1].at = 1
    PROVE  /\ u[p + 1].of \in Sent
           /\ \A i \in 1 .. u[p + 1].of.size :
                 p + i <= Len(u) => u[p + i] = [of |-> u[p + 1].of, at |-> i]
<1> DEFINE h == u[p + 1].of  N == h.size
           S == {i \in 0 .. N : i > 0 /\ p + i <= Len(u) => u[p + i] = [of |-> h, at |-> i]}
<1>1. Len(u) \in Nat /\ J \in Nat /\ u \in Seq(Raw)
  BY DEF Flow
<1>2. u[p + 1] \in Raw /\ p + 1 \in 1 .. Len(u)
  BY <1>1
<1>3. h \in Sent /\ N \in Nat /\ u[p + 1] = [of |-> h, at |-> 1]
  BY <1>2, RawByte
<1>4. 0 \in S
  BY <1>3
<1>5. ASSUME NEW i \in 1 .. N, i - 1 \in S PROVE i \in S
  <2> SUFFICES ASSUME p + i <= Len(u) PROVE u[p + i] = [of |-> h, at |-> i]
    BY <1>3
  <2>1. CASE i = 1
    BY <1>3, <2>1
  <2>2. CASE i # 1
    <3>1. i - 1 > 0 /\ i - 1 \in 0 .. N /\ p + (i - 1) \in 1 .. Len(u) /\ p + i \in 1 .. Len(u)
          /\ (p + (i - 1)) + 1 = p + i /\ J < p + (i - 1)
      BY <1>1, <1>3, <2>2
    <3>2. u[p + (i - 1)] = [of |-> h, at |-> i - 1]
      BY <1>1, <1>5, <3>1
    <3> DEFINE k == p + (i - 1)  a == u[k]  b == u[p + i]
    <3>3. Succeeds(a, b) /\ a \in Raw
      BY <3>1, FlowAt
    <3>4. b \in Raw
      BY <3>1, FlowAt
    <3>5. a.of = h /\ a.at = i - 1 /\ i - 1 # N
      BY <1>3, <3>2
    <3> HIDE DEF k, a, b
    <3>6. b # Stuffing /\ Follows(a, b)
      BY <3>3, <3>5 DEF Succeeds
    <3>7. b.of = h /\ b.at = i
      BY <3>5, <3>6 DEF Follows
    <3>8. b = [of |-> b.of, at |-> b.at]
      BY <3>4, <3>6, RawByte
    <3> QED BY <3>7, <3>8 DEF b
  <2> QED BY <2>1, <2>2
<1>6. \A i \in 0 .. N : i \in S
  <2> HIDE DEF S
  <2> QED BY <1>3, <1>4, <1>5, Induction
<1>7. ASSUME NEW i \in 1 .. N, p + i <= Len(u) PROVE u[p + i] = [of |-> h, at |-> i]
  <2>1. i \in 0 .. N /\ i > 0
    BY <1>3
  <2> QED BY <1>6, <1>7, <2>1
<1> QED BY <1>3, <1>7

\* After the last byte of a section, only bytes of later sections follow.
LEMMA FlowAfter ==
    ASSUME NEW u, NEW J, Flow(u, J), NEW m \in 1 .. Len(u), J < m, u[m] # Stuffing,
           u[m].at = u[m].of.size, NEW j \in 1 .. Len(u), m < j
    PROVE  /\ u[m + 1] = Stuffing \/ u[m + 1].at = 1
           /\ u[j] # Stuffing => Prior(u[m].of, u[j].of) /\ u[m].of # u[j].of
<1>1. Len(u) \in Nat /\ J \in Nat /\ m + 1 \in 1 .. Len(u) /\ J < m + 1
  BY DEF Flow
<1>2. u[m] \in Raw /\ u[m + 1] \in Raw /\ u[j] \in Raw /\ Succeeds(u[m], u[m + 1]) /\ Later(u[m], u[j])
  BY <1>1, FlowAt
<1>3. u[m].of \in Sent /\ u[m].of.size \in Nat
  BY <1>2, RawByte
<1>4. CASE u[m + 1] = Stuffing
  <2>1. u[j] = Stuffing
    <3>1. CASE j = m + 1
      BY <1>4, <3>1
    <3>2. CASE j # m + 1
      <4>1. m + 1 < j
        BY <1>1, <3>2
      <4> QED BY <1>1, <1>4, <4>1, FlowAt DEF Later
    <3> QED BY <3>1, <3>2
  <2> QED BY <1>4, <2>1
<1>5. CASE u[m + 1] # Stuffing
  <2> DEFINE a == u[m]  b == u[m + 1]
  <2>1. Follows(a, b) /\ b \in Raw /\ b # Stuffing
    BY <1>2, <1>5 DEF Succeeds
  <2>2. b.of \in Sent /\ b.at \in Nat /\ b.at <= b.of.size
    BY <2>1, RawByte
  <2>3. a.of \in Sent /\ a.of.size \in Nat /\ a.at = a.of.size
    BY <1>3
  <2> HIDE DEF a, b
  <2>4. b.at = 1 /\ a.of # b.of /\ Upto(a.of, b.of)
    <3>1. ~(b.of = a.of /\ b.at = a.at + 1)
      BY <2>2, <2>3
    <3> QED BY <2>1, <3>1 DEF Follows
  <2>5. a.of.occ < b.of.occ
    BY <2>4 DEF Prior, Upto
  <2>6. ASSUME u[j] # Stuffing PROVE a.of.occ < u[j].of.occ
    <3>1. CASE j = m + 1
      BY <2>5, <3>1 DEF b
    <3>2. CASE j # m + 1
      <4>1. m + 1 < j
        BY <1>1, <3>2
      <4>2. Later(b, u[j])
        BY <1>1, <4>1, FlowAt DEF b
      <4>3. Upto(b.of, u[j].of)
        BY <2>6, <4>2 DEF Later
      <4>4. u[j].of \in Sent
        BY <1>2, <2>6, RawByte
      <4>5. u[j].of.occ \in Nat /\ a.of.occ \in Nat /\ b.of.occ \in Nat
        BY <2>2, <2>3, <4>4, SentSize
      <4> QED BY <2>5, <4>3, <4>5 DEF Prior, Upto
    <3> QED BY <3>1, <3>2
  <2>7. a.of.occ \in Nat
    BY <2>3, SentSize
  <2>8. ASSUME u[j] # Stuffing PROVE Prior(u[m].of, u[j].of) /\ u[m].of # u[j].of
    <3>1. Upto(u[m].of, u[j].of)
      BY <1>2, <2>8 DEF Later
    <3> QED BY <2>6, <2>7, <2>8, <3>1 DEF Upto, a
  <2> QED BY <2>4, <2>8 DEF b
<1> QED BY <1>4, <1>5

\* A section which ends in a flow after the end of another one is entirely between the two.
LEMMA FlowBackward ==
    ASSUME NEW u, Flow(u, 0), NEW q \in 1 .. Len(u), u[q] # Stuffing, u[q].at = u[q].of.size,
           NEW a \in Sent, u[q].of # a, NEW m \in 1 .. Len(u), q < m,
           u[m] = [of |-> a, at |-> a.size]
    PROVE  q + a.size <= m
<1> DEFINE A == a.size
           N == A - 1
           S == {j \in 0 .. N : q < m - j /\ u[m - j] = [of |-> a, at |-> A - j]}
<1>1. Len(u) \in Nat /\ q \in Nat /\ m \in Nat
  BY DEF Flow
<1>2. A \in Nat /\ N \in Nat /\ a # NullSection /\ u[m] = [of |-> a, at |-> A]
  <2>1. A \in Nat /\ 1 <= A /\ a # NullSection
    BY SentSize, Sizes
  <2> QED BY <2>1
<1> HIDE DEF A
<1>3. 0 \in S
  BY <1>1, <1>2
<1>4. ASSUME NEW j \in 1 .. N, j - 1 \in S PROVE j \in S
  <2> DEFINE k == m - j  x == u[k]  y == u[k + 1]
  <2>1. q < m - (j - 1) /\ u[m - (j - 1)] = [of |-> a, at |-> A - (j - 1)] /\ m - (j - 1) = k + 1
        /\ j \in Int /\ k \in Int
    BY <1>1, <1>4
  <2>2. k \in 1 .. Len(u) /\ q <= k /\ k + 1 <= Len(u) /\ 0 < k
    BY <1>1, <2>1
  <2>12. y = [of |-> a, at |-> A - (j - 1)]
    BY <2>1
  <2>13. j \in 1 .. A - 1
    OBVIOUS
  <2>3. y.of = a /\ y.at = (A - j) + 1 /\ y.at \in Nat /\ y.at # 1
    BY <1>2, <2>12, <2>13, SMTT(30)
  <2>4. Succeeds(x, y) /\ x \in Raw
    BY <2>2, FlowAt
  <2>5. y # Stuffing
    BY <1>2, <2>3 DEF Stuffing
  <2> HIDE DEF x, y
  <2>6. x # Stuffing /\ Follows(x, y)
    BY <2>4, <2>5 DEF Succeeds
  <2>7. x.of = a /\ y.at = x.at + 1 /\ x.at \in Nat
    <3>1. x.at \in Nat
      BY <2>4, <2>6, RawByte
    <3> QED BY <2>3, <2>6, <3>1 DEF Follows
  <2>8. x.at = A - j
    BY <1>2, <2>3, <2>7, <2>13
  <2>9. x = [of |-> a, at |-> A - j]
    BY <2>4, <2>6, <2>7, <2>8, RawByte
  <2>10. q # k
    BY <2>7 DEF x
  <2>11. q < m - j
    BY <1>1, <2>1, <2>2, <2>10
  <2> QED BY <2>9, <2>11 DEF x
<1>5. \A j \in 0 .. N : j \in S
  <2> HIDE DEF S
  <2> QED BY <1>2, <1>3, <1>4, Induction
<1>6. N \in 0 .. N
  BY <1>2
<1>7. q < m - (A - 1)
  <2>1. N \in S
    BY <1>5, <1>6, Zenon
  <2> QED BY <2>1
<1>8. q + A <= m
  BY <1>1, <1>2, <1>7
<1> QED BY <1>8 DEF A

\* The end of a flow, after any bytes.
LEMMA FlowPart ==
    ASSUME NEW u, Flow(u, 0), NEW l \in Seq(Raw), NEW k \in Nat, k <= Len(u)
    PROVE  LET t == l \o SubSeq(u, k + 1, Len(u))
           IN  /\ Flow(t, Len(l)) /\ Len(t) = Len(l) + (Len(u) - k)
               /\ \A i \in 1 .. Len(l) : t[i] = l[i]
               /\ \A i \in 1 .. Len(t) : Len(l) < i => t[i] = u[(i - Len(l)) + k]
<1> DEFINE J == Len(l)  L == Len(u)  v == SubSeq(u, k + 1, L)  t == l \o v
<1>1. u \in Seq(Raw) /\ L \in Nat /\ J \in Nat
  BY DEF Flow
<1>2. v \in Seq(Raw) /\ Len(v) = L - k /\ \A i \in 1 .. L - k : v[i] = u[i + k]
  <2>1. k + 1 \in 1 .. L + 1 /\ \A i \in k + 1 .. L : i \in DOMAIN u
    BY <1>1
  <2> QED BY <1>1, <2>1
<1> HIDE DEF v
<1>3. t \in Seq(Raw) /\ Len(t) = J + (L - k)
  <2>1. Len(t) = Len(l) + Len(v) /\ t \in Seq(Raw)
    BY <1>2, ConcatProperties
  <2> QED BY <1>2, <2>1
<1>4. \A i \in 1 .. J : t[i] = l[i]
  BY <1>1, <1>2
<1>5. ASSUME NEW i \in 1 .. Len(t), J < i
      PROVE  t[i] = u[(i - J) + k] /\ (i - J) + k \in 1 .. L
  <2>1. i - J \in 1 .. L - k /\ Len(v) = L - k
    BY <1>1, <1>2, <1>3, <1>5
  <2>2. t[i] = v[i - J]
    BY <1>1, <1>2, <1>5, <2>1
  <2>3. v[i - J] = u[(i - J) + k]
    BY <1>2, <2>1
  <2> QED BY <1>1, <2>1, <2>2, <2>3
<1> HIDE DEF t, J, L
<1>6. ASSUME NEW i \in 1 .. Len(t), J < i, i + 1 <= Len(t) PROVE Succeeds(t[i], t[i + 1])
  <2> DEFINE n == (i - J) + k
  <2>1. i + 1 \in 1 .. Len(t) /\ J < i + 1 /\ ((i + 1) - J) + k = n + 1
    BY <1>1, <1>3, <1>6
  <2>2. t[i] = u[n] /\ n \in 1 .. L
    BY <1>5, <1>6
  <2>3. t[i + 1] = u[n + 1] /\ n + 1 \in 1 .. L
    BY <1>5, <2>1
  <2> HIDE DEF n
  <2>4. 0 < n /\ n + 1 <= Len(u)
    BY <1>1, <2>2, <2>3 DEF L
  <2>5. Succeeds(u[n], u[n + 1])
    BY <2>2, <2>4, FlowAt DEF L
  <2> QED BY <2>2, <2>3, <2>5
<1>7. ASSUME NEW i \in 1 .. Len(t), NEW j \in 1 .. Len(t), J < i, i < j PROVE Later(t[i], t[j])
  <2> DEFINE n == (i - J) + k  o == (j - J) + k
  <2>1. t[i] = u[n] /\ n \in 1 .. L
    BY <1>5, <1>7
  <2>2. J < j /\ n < o
    BY <1>1, <1>3, <1>7
  <2>3. t[j] = u[o] /\ o \in 1 .. L
    BY <1>5, <2>2
  <2> HIDE DEF n, o
  <2>4. 0 < n
    BY <2>1
  <2>5. Later(u[n], u[o])
    BY <2>1, <2>2, <2>3, <2>4, FlowAt DEF L
  <2> QED BY <2>1, <2>3, <2>5
<1>8. Flow(t, J)
  BY <1>1, <1>3, <1>6, <1>7 DEF Flow
<1> QED BY <1>3, <1>4, <1>5, <1>8 DEF J, L, t, v

\* The bytes of a packet.
LEMMA PacketFlow ==
    ASSUME NEW pkt, NEW d, PacketShape(pkt, d),
           d[Len(d)].at = d[Len(d)].of.size \/ pkt.data = d
    PROVE  /\ Flow(pkt.data, 0) /\ Len(d) \in Nat /\ 1 <= Len(d) /\ Len(d) <= Len(pkt.data)
           /\ \A i \in 1 .. Len(d) : pkt.data[i] = d[i]
           /\ \A i \in 1 .. Len(pkt.data) : Len(d) < i => pkt.data[i] = Stuffing
<1> DEFINE L == Len(d)  u == pkt.data
<1>1. Chain(d) /\ d \in Seq(Byte) /\ d # <<>> /\ \E k \in Nat : u = d \o Stuffed(k)
  BY DEF PacketShape, Chain
<1>2. L \in Nat /\ 1 <= L
  BY <1>1
<1>3. PICK k \in Nat : u = d \o Stuffed(k)
  BY <1>1
<1>4. Stuffed(k) \in Seq({Stuffing}) /\ Len(Stuffed(k)) = k /\ \A i \in 1 .. k : Stuffed(k)[i] = Stuffing
  BY DEF Stuffed
<1> DEFINE v == Stuffed(k)
<1> HIDE DEF v
<1>5. Len(u) = L + k /\ (\A i \in 1 .. L : u[i] = d[i])
      /\ \A i \in 1 .. Len(u) : L < i => u[i] = Stuffing
  <2>1. v \in Seq({Stuffing}) /\ Len(v) = k /\ (\A i \in 1 .. k : v[i] = Stuffing) /\ u = d \o v
    BY <1>3, <1>4 DEF v
  <2>4. d \in Seq(Raw) /\ v \in Seq(Raw)
    BY <1>1, <2>1 DEF Raw
  <2>5. /\ Len(u) = L + k
        /\ \A i \in 1 .. Len(u) : u[i] = IF i <= L THEN d[i] ELSE v[i - L]
    <3>1. /\ Len(u) = Len(d) + Len(v)
          /\ \A i \in 1 .. Len(d) + Len(v) : (d \o v)[i] = IF i <= Len(d) THEN d[i] ELSE v[i - Len(d)]
      <4> HIDE DEF u
      <4>1. u = d \o v
        BY <2>1
      <4> QED BY <2>4, <4>1, ConcatProperties
    <3> QED BY <2>1, <3>1
  <2>2. Len(u) = L + k /\ \A i \in 1 .. L : u[i] = d[i]
    BY <1>2, <2>5
  <2>3. ASSUME NEW i \in 1 .. Len(u), L < i PROVE u[i] = Stuffing
    <3>1. i - L \in 1 .. k
      BY <1>2, <2>2, <2>3
    <3>2. u[i] = v[i - L]
      BY <1>2, <2>3, <2>5
    <3> QED BY <2>1, <3>1, <3>2
  <2> QED BY <2>2, <2>3
<1>6. u \in Seq(Raw)
  <2>1. d \in Seq(Raw)
    BY <1>1 DEF Raw
  <2>2. v \in Seq(Raw)
    BY <1>4 DEF v, Raw
  <2>3. u = d \o v
    BY <1>3 DEF v
  <2> QED BY <2>1, <2>2, <2>3
<1>7. \A i \in 1 .. L : d[i] \in Byte /\ d[i] # Stuffing
  <2>1. ASSUME NEW i \in 1 .. L PROVE d[i] \in Byte /\ d[i] # Stuffing
    <3>1. d[i] \in Byte /\ d[i] \in Raw
      BY <1>1 DEF Raw
    <3> QED BY <3>1, RawByte
  <2> QED BY <2>1
<1>8. ASSUME NEW i \in 1 .. L, i + 1 <= L PROVE Follows(d[i], d[i + 1])
  BY <1>1, <1>8 DEF Chain
<1>9. ASSUME NEW i \in 1 .. L, NEW j \in 1 .. L, i < j PROVE Upto(d[i].of, d[j].of)
  BY <1>1, <1>9 DEF Chain
<1>10. ASSUME L < Len(u) PROVE d[L].at = d[L].of.size
  <2>1. u # d
    BY <1>10
  <2> QED BY <2>1
<1>11. Stuffing.at = Stuffing.of.size
  BY DEF Stuffing, NullSection
<1> HIDE DEF L, u
<1>12. ASSUME NEW i \in 1 .. Len(u), 0 < i, i + 1 <= Len(u) PROVE Succeeds(u[i], u[i + 1])
  <2>1. CASE i + 1 <= L
    <3>1. i \in 1 .. L /\ i + 1 \in 1 .. L
      BY <1>2, <1>12, <2>1
    <3>2. u[i] = d[i] /\ u[i + 1] = d[i + 1] /\ d[i] # Stuffing /\ d[i + 1] # Stuffing
      BY <1>5, <1>7, <3>1
    <3> QED BY <1>8, <2>1, <3>1, <3>2 DEF Succeeds
  <2>2. CASE i = L
    <3>1. i + 1 \in 1 .. Len(u) /\ L < i + 1 /\ L \in 1 .. L /\ L < Len(u)
      BY <1>2, <1>5, <1>12, <2>2
    <3>2. u[i + 1] = Stuffing /\ u[i] = d[L]
      BY <1>5, <2>2, <3>1
    <3> QED BY <1>10, <3>1, <3>2 DEF Succeeds
  <2>3. CASE L < i
    <3>1. i + 1 \in 1 .. Len(u) /\ L < i + 1
      BY <1>2, <1>5, <1>12, <2>3
    <3>2. u[i] = Stuffing /\ u[i + 1] = Stuffing
      BY <1>5, <2>3, <3>1
    <3> QED BY <1>11, <3>2 DEF Succeeds
  <2> QED BY <1>2, <2>1, <2>2, <2>3
<1>13. ASSUME NEW i \in 1 .. Len(u), NEW j \in 1 .. Len(u), 0 < i, i < j PROVE Later(u[i], u[j])
  <2>1. CASE L < j
    <3>1. u[j] = Stuffing
      BY <1>5, <2>1
    <3> QED BY <3>1 DEF Later
  <2>2. CASE j <= L
    <3>1. i \in 1 .. L /\ j \in 1 .. L
      BY <1>2, <1>13, <2>2
    <3>2. u[i] = d[i] /\ u[j] = d[j] /\ d[i] # Stuffing
      BY <1>5, <1>7, <3>1
    <3>3. Upto(d[i].of, d[j].of)
      BY <1>9, <1>13, <3>1
    <3> QED BY <3>2, <3>3 DEF Later
  <2> QED BY <1>2, <2>1, <2>2
<1>14. Flow(u, 0)
  BY <1>6, <1>12, <1>13 DEF Flow
<1> QED BY <1>2, <1>3, <1>5, <1>14 DEF L, u

-----------------------------------------------------------------------------
(***************************************************************************)
(* The context of the demux.                                               *)
(***************************************************************************)
\* What is read as the header of a section.
Headers == [tid : TIDs \cup {"none", "short"}, ver : Nat, num : Nat, last : Nat, size : Nat, occ : Int]

\* The context of a table id holds sections of one version of this table, at their places.
AnyTable == [notified : BOOLEAN, version : Nat, sects : Seq(Sect)]
InPlace(s, t, tc, i) ==
    s # NullSection => /\ s \in Sent /\ s.tid = t /\ s.ver = tc.version
                       /\ s.num + 1 = i /\ s.last + 1 = Len(tc.sects)
TableIn(t) == {tc \in AnyTable : \A i \in 1 .. Len(tc.sects) : InPlace(tc.sects[i], t, tc, i)}
Contexts == {f \in [TIDs -> AnyTable] : \A t \in TIDs : f[t] \in TableIn(t)}
Demux == [sync : BOOLEAN, cc : Nat, ts : Seq(Raw), tids : Contexts]

\* All sections of one version of a table, in their order.
Complete(T) ==
    /\ T # <<>> /\ TableOf(T) = TableSections(T[1].tid, T[1].ver)
    /\ \A i \in 1 .. Len(T) : T[i].tid = T[1].tid /\ T[i].ver = T[1].ver
FullTable == {T \in Seq(Sent) : Complete(T)}

\* A byte which is read as a header.
LEMMA HeaderOK ==
    ASSUME NEW b \in Raw, NEW k \in DOMAIN Junk
    PROVE  LET h == Header(b, k)
           IN  /\ h \in Headers
               /\ b # Stuffing /\ b.at = 1 => h = b.of /\ ~IsShort(h)
               /\ b = Stuffing => h.size > MaxSection
               /\ h.size <= MaxSection /\ ~IsShort(h) => h.tid \in TIDs
<1> DEFINE n == MaxSection + 1
<1>1. CASE b = Stuffing
  <2>1. n \in Nat /\ n > MaxSection /\ ~(n <= MaxSection)
    BY Sizes
  <2>3. Stuffing.at # 1
    BY DEF Stuffing
  <2>2. Header(b, k) = [NullSection EXCEPT !.size = n]
    BY <1>1, <2>3 DEF Header
  <2> HIDE DEF n
  <2>4. NullSection \in Sect
    BY Sizes
  <2> QED BY <1>1, <2>1, <2>2, <2>3, <2>4 DEF Headers, Sect
<1>2. CASE b # Stuffing /\ b.at = 1
  <2>1. Header(b, k) = b.of
    BY <1>2 DEF Header
  <2>2. b.of \in Sent
    BY <1>2, RawByte
  <2>3. b.of \in Sect /\ b.of.tid \in TIDs
    BY <2>2, SentSize
  <2>4. b.of \in Headers
    BY <2>3 DEF Sect, Headers
  <2>5. ~IsShort(b.of)
    BY <2>3, DemuxAssumption DEF IsShort
  <2> QED BY <1>2, <2>1, <2>3, <2>4, <2>5
<1>3. CASE b # Stuffing /\ b.at # 1
  <2> DEFINE s == b.of  t == s.tid  v == s.ver  m == s.num + 1  p == b.at  h == Junk[k][t][v][m][p]
  <2>1. Header(b, k) = h
    BY <1>3 DEF Header
  <2>2. s \in Sent /\ p \in Nat /\ 1 <= p /\ p <= s.size /\ s.size \in Nat
    BY <1>3, RawByte
  <2>3. t \in TIDs /\ v \in DOMAIN TableSizes[t] /\ m \in DOMAIN TableSizes[t][v]
        /\ s.size = TableSizes[t][v][m]
    BY <2>2, SentSize
  <2>4. p \in 2 .. TableSizes[t][v][m]
    <3> HIDE DEF s, p, t, v, m
    <3>1. p # 1
      BY <1>3 DEF p
    <3> QED BY <2>2, <2>3, <3>1
  <2> HIDE DEF s, p, t, v, m
  <2>5. Junk[k][t][v][m][p] \in [tid : TIDs \cup {"short"}, ver : Nat, num : Nat, last : Nat,
                                 size : Nat, occ : {NoOcc}]
    BY <2>3, <2>4, StreamAssumption
  <2>6. h \in Headers /\ (h.tid = "short" \/ h.tid \in TIDs)
    BY <2>5 DEF Headers, NoOcc
  <2> QED BY <1>3, <2>1, <2>6 DEF IsShort, p
<1> QED BY <1>1, <1>2, <1>3

\* A context which is initialized.
LEMMA InitTableOK ==
    ASSUME NEW h \in Headers, NEW t
    PROVE  /\ InitTable(h) \in TableIn(t) /\ InitTable(h).version = h.ver /\ ~InitTable(h).notified
           /\ Len(InitTable(h).sects) = h.last + 1
           /\ \A i \in 1 .. h.last + 1 : InitTable(h).sects[i] = NullSection
<1> DEFINE n == h.last + 1  q == [i \in 1 .. n |-> NullSection]
           y == [notified |-> FALSE, version |-> h.ver, sects |-> q]
<1>1. h.last \in Nat /\ h.ver \in Nat
  BY DEF Headers
<1>2. n \in Nat /\ q \in Seq(Sect) /\ Len(q) = n /\ \A i \in 1 .. n : q[i] = NullSection
  <2>1. n \in Nat /\ NullSection \in Sect
    BY <1>1, Sizes
  <2> QED BY <2>1
<1>3. InitTable(h) = y
  BY DEF InitTable
<1> HIDE DEF q
<1>4. y \in AnyTable /\ y.sects = q /\ y.version = h.ver /\ ~y.notified
  BY <1>1, <1>2 DEF AnyTable
<1> HIDE DEF y, n
<1>5. y \in TableIn(t)
  BY <1>2, <1>4 DEF TableIn, InPlace
<1> QED BY <1>2, <1>3, <1>4, <1>5 DEF n

\* The context in which a section is put.
LEMMA TableContextOK ==
    ASSUME NEW t, NEW tc \in TableIn(t), NEW h \in Headers
    PROVE  TableContext(tc, h) \in TableIn(t) /\ TableContext(tc, h).version = h.ver
<1>1. CASE tc.sects = <<>> \/ tc.version # h.ver
  BY <1>1, InitTableOK DEF TableContext
<1>2. CASE ~(tc.sects = <<>> \/ tc.version # h.ver)
  BY <1>2 DEF TableContext
<1> QED BY <1>1, <1>2

\* A section is stored at its place.
LEMMA StoreOK ==
    ASSUME NEW t \in TIDs, NEW tc \in TableIn(t), NEW h \in Sent, h.tid = t, h.ver = tc.version,
           h.last + 1 = Len(tc.sects), NEW n, n = h.num + 1, n \in 1 .. Len(tc.sects)
    PROVE  LET y == [tc EXCEPT !.sects[n] = h]
           IN  y \in TableIn(t) /\ y.sects # <<>> /\ y.version = tc.version
               /\ y.notified = tc.notified
               /\ y.sects = [tc.sects EXCEPT ![n] = h] /\ Len(y.sects) = Len(tc.sects)
<1> DEFINE q == [tc.sects EXCEPT ![n] = h]  y == [tc EXCEPT !.sects = q]
<1>1. tc \in AnyTable /\ tc.sects \in Seq(Sect)
  BY DEF TableIn, AnyTable
<1>2. h \in Sect
  BY SentSize
<1>3. q \in Seq(Sect) /\ Len(q) = Len(tc.sects) /\ DOMAIN q = DOMAIN tc.sects
  BY <1>1, <1>2, ExceptSeq
<1>4. \A i \in 1 .. Len(tc.sects) : q[i] = IF i = n THEN h ELSE tc.sects[i]
  BY <1>1
<1>5. [tc EXCEPT !.sects[n] = h] = y
  BY <1>1 DEF AnyTable
<1> HIDE DEF q
<1>6. y \in AnyTable /\ y.sects = q /\ y.version = tc.version /\ y.notified = tc.notified
  BY <1>1, <1>3 DEF AnyTable
<1> HIDE DEF y
<1>7. ASSUME NEW i \in 1 .. Len(q) PROVE InPlace(q[i], t, y, i)
  <2>1. CASE i = n
    <3>1. q[i] = h
      BY <1>3, <1>4, <1>7, <2>1
    <3> QED BY <1>3, <1>6, <2>1, <3>1 DEF InPlace
  <2>2. CASE i # n
    <3>1. q[i] = tc.sects[i]
      BY <1>3, <1>4, <1>7, <2>2
    <3>2. InPlace(tc.sects[i], t, tc, i)
      BY <1>3, <1>7 DEF TableIn
    <3> QED BY <1>3, <1>6, <3>1, <3>2 DEF InPlace
  <2> QED BY <2>1, <2>2
<1>8. y \in TableIn(t)
  BY <1>6, <1>7 DEF TableIn
<1>9. y.sects # <<>>
  <2>1. Len(q) # 0
    BY <1>1, <1>3
  <2> QED BY <1>6, <2>1
<1> QED BY <1>3, <1>5, <1>6, <1>8, <1>9 DEF q

\* A context without an empty place holds a table.
LEMMA FullOK ==
    ASSUME NEW t \in TIDs, NEW tc \in TableIn(t), tc.sects # <<>>,
           \A i \in DOMAIN tc.sects : tc.sects[i] # NullSection
    PROVE  tc.sects \in FullTable /\ tc.sects[1].tid = t /\ tc.sects[1].ver = tc.version
<1> DEFINE q == tc.sects  n == Len(q)  v == tc.version
<1>1. tc \in AnyTable /\ q \in Seq(Sect)
  BY DEF TableIn, AnyTable
<1>2. n \in Nat /\ 1 <= n /\ DOMAIN q = 1 .. n
  BY <1>1
<1>3. ASSUME NEW i \in 1 .. n
      PROVE  q[i] \in Sent /\ q[i].tid = t /\ q[i].ver = v /\ q[i].num + 1 = i /\ q[i].last + 1 = n
  <2>1. InPlace(q[i], t, tc, i) /\ q[i] # NullSection
    BY <1>2 DEF TableIn
  <2> QED BY <2>1 DEF InPlace
<1>4. q \in Seq(Sent)
  <2> HIDE DEF q, n
  <2>1. \A i \in 1 .. Len(q) : q[i] \in Sent
    BY <1>3 DEF n
  <2> QED BY <1>1, <2>1
<1>5. 1 \in 1 .. n
  BY <1>2
<1>6. q[1].tid = t /\ q[1].ver = v
  BY <1>3, <1>5
<1> DEFINE sizes == TableSizes[t][v]
           A == [i \in DOMAIN q |-> [q[i] EXCEPT !.occ = NoOcc]]
           B == [i \in DOMAIN sizes |-> [tid |-> t, ver |-> v, num |-> i - 1, last |-> Len(sizes) - 1,
                                         size |-> sizes[i], occ |-> NoOcc]]
<1>7. TableOf(q) = A /\ TableSections(q[1].tid, q[1].ver) = B
  BY <1>6 DEF TableOf, TableSections
<1>8. DOMAIN sizes = 1 .. n /\ Len(sizes) = n
  <2>1. q[1] \in Sent /\ q[1].last + 1 = n
    BY <1>3, <1>5
  <2>2. v \in DOMAIN TableSizes[t] /\ n = Len(sizes)
    BY <1>6, <2>1, SentSize
  <2>3. TableSizes[t] \in Seq(Seq(MinSection .. MaxSection) \ {<<>>})
    BY StreamAssumption
  <2>4. sizes \in Seq(MinSection .. MaxSection)
    BY <2>2, <2>3
  <2> QED BY <2>2, <2>4
<1>9. ASSUME NEW i \in 1 .. n PROVE A[i] = B[i]
  <2> DEFINE s == q[i]
  <2>1. s \in Sent /\ s.tid = t /\ s.ver = v /\ s.num + 1 = i /\ s.last + 1 = n
    BY <1>3
  <2>2. s \in Sect /\ s.size = sizes[i]
    BY <2>1, SentSize
  <2> HIDE DEF s
  <2>3. s.num \in Nat /\ s.last \in Nat
    BY <2>2 DEF Sect
  <2>4. s.num = i - 1 /\ s.last = n - 1
    <3>1. i \in Int /\ n \in Int
      BY <1>2
    <3> HIDE DEF n
    <3> QED BY <2>1, <2>3, <3>1
  <2>5. [s EXCEPT !.occ = NoOcc]
        = [tid |-> t, ver |-> v, num |-> i - 1, last |-> n - 1, size |-> sizes[i], occ |-> NoOcc]
    <3> DEFINE x == i - 1  m == n - 1  z == sizes[i]
    <3>1. s.num = x /\ s.last = m /\ s.size = z
      BY <2>2, <2>4
    <3> HIDE DEF x, m, z
    <3>2. [s EXCEPT !.occ = NoOcc]
          = [tid |-> t, ver |-> v, num |-> x, last |-> m, size |-> z, occ |-> NoOcc]
      BY <2>1, <2>2, <3>1 DEF Sect
    <3> QED BY <3>2 DEF x, m, z
  <2> QED BY <1>2, <1>8, <2>5 DEF s
<1>10. A = B
  <2>1. DOMAIN A = 1 .. n /\ DOMAIN B = 1 .. n
    BY <1>2, <1>8
  <2> HIDE DEF n
  <2> QED BY <1>9, <2>1
<1>11. \A i \in 1 .. Len(q) : q[i].tid = q[1].tid /\ q[i].ver = q[1].ver
  BY <1>3, <1>6
<1>12. Complete(q)
  <2>1. q # <<>>
    OBVIOUS
  <2> HIDE DEF A, B, q
  <2> QED BY <1>7, <1>10, <1>11, <2>1 DEF Complete
<1> QED BY <1>4, <1>6, <1>12 DEF FullTable

-----------------------------------------------------------------------------
(***************************************************************************)
(* The loop on the sections of the buffer u, which has J bytes of earlier  *)
(* packets.  The section which starts in the last packet is at P.          *)
(***************************************************************************)
WalkState == [d : Demux, at : Nat, pusi : Int, sections : Seq(Sent), tables : Seq(FullTable),
              garbage : BOOLEAN, done : BOOLEAN]

\* The contents of the sections are k.
Buffer(u, J, P, k) ==
    /\ Flow(u, J) /\ k \in DOMAIN Junk /\ P \in Int
    /\ P = -1 \/ (J <= P /\ P < Len(u) /\ u[P + 1].at = 1)

\* No complete section is at position p of u.
NoneAt(u, p, k) == Len(u) - p < ShortHeader \/ Len(u) - p < Header(u[p + 1], k).size

\* The first section is not complete before the last packet.
FromStart(u, J, k) == J < ShortHeader \/ J < Header(u[1], k).size

Walking(w, u, J, P, k) ==
    /\ w \in WalkState /\ ~w.done /\ w.d.ts = u /\ w.pusi = P
    /\ w.at < Len(u)
    /\ J <= w.at \/ (w.at = 0 /\ FromStart(u, J, k))

\* A section begins at position p, or nothing.
Aligned(u, J, p) == J <= p /\ p <= Len(u) /\ (p < Len(u) => u[p + 1].at = 1)

\* Section s is at position p.
IsAt(s, u, p) == p + s.size <= Len(u) /\ \A i \in 1 .. s.size : u[p + i] = [of |-> s, at |-> i]

\* The section in the buffer of w, and what is made of it in the loop.
HeaderAt(w, k) == Header(w.d.ts[w.at + 1], k)
ContextAt(w, k) == TableContext(w.d.tids[HeaderAt(w, k).tid], HeaderAt(w, k))
Accepted(w, k) ==
    LET h == HeaderAt(w, k)
    IN  /\ ~Skipped(w, h) /\ h.last + 1 = Len(ContextAt(w, k).sects)
        /\ Valid(SubSeq(w.d.ts, w.at + 1, w.at + h.size), h)

\* A long section which is in the buffer as a whole; or a short one.
WholeAt(w, k) ==
    LET h == HeaderAt(w, k)
    IN  /\ ShortHeader <= Len(w.d.ts) - w.at /\ h.size <= Len(w.d.ts) - w.at
        /\ MinSection <= h.size /\ h.size <= MaxSection /\ ~IsShort(h)
ShortAt(w, k) ==
    LET h == HeaderAt(w, k)
    IN  /\ ShortHeader <= Len(w.d.ts) - w.at /\ h.size <= Len(w.d.ts) - w.at
        /\ ShortHeader <= h.size /\ h.size <= MaxSection /\ IsShort(h)

\* A section which is accepted is a section which was sent.
LEMMA AcceptedSent ==
    ASSUME NEW u, NEW J, NEW P, NEW k, Buffer(u, J, P, k), NEW w, Walking(w, u, J, P, k),
           WholeAt(w, k), Accepted(w, k)
    PROVE  HeaderAt(w, k) \in Sent /\ IsAt(HeaderAt(w, k), u, w.at) /\ ~Truncated(w, HeaderAt(w, k))
<1> DEFINE h == HeaderAt(w, k)
<1>1. u \in Seq(Raw) /\ w.at \in Nat /\ w.at < Len(u) /\ w.d.ts = u /\ Len(u) \in Nat
  BY DEF Buffer, Flow, Walking, WalkState
<1>2. u[w.at + 1] \in Raw /\ k \in DOMAIN Junk
  BY <1>1 DEF Buffer
<1>3. h \in Headers
  BY <1>1, <1>2, HeaderOK DEF HeaderAt
<1>4. h.size \in Nat /\ 1 <= h.size /\ h.size <= Len(u) - w.at
  <2>1. h.size \in Nat /\ MinSection <= h.size /\ h.size <= Len(u) - w.at
    BY <1>1, <1>3 DEF WholeAt, Headers
  <2> QED BY <2>1, Sizes
<1>5. Valid(SubSeq(u, w.at + 1, w.at + h.size), h) /\ ~Truncated(w, h)
  BY <1>1 DEF Accepted, Skipped
<1> HIDE DEF h
<1> DEFINE n == h.size  p == w.at
<1>6. n \in Nat /\ 1 <= n /\ p \in Nat /\ p + n <= Len(u) /\ Valid(SubSeq(u, p + 1, p + n), h)
  BY <1>1, <1>4, <1>5
<1> HIDE DEF n, p
<1>7. ASSUME NEW i \in 1 .. n PROVE u[p + i] = [of |-> h, at |-> i]
  <2>1. SubSeq(u, p + 1, p + n)[i] = u[p + i]
    BY <1>1, <1>6
  <2> QED BY <1>6, <2>1 DEF Valid, n
<1>8. h \in Sent
  <2>1. 1 \in 1 .. n /\ p + 1 \in 1 .. Len(u)
    BY <1>1, <1>6
  <2>2. u[p + 1] = [of |-> h, at |-> 1]
    BY <1>7, <2>1
  <2>3. u[p + 1] \in Raw /\ u[p + 1].of = h /\ u[p + 1].at = 1
    BY <1>1, <2>1, <2>2
  <2> QED BY <2>3, RawByte
<1> QED BY <1>5, <1>6, <1>7, <1>8 DEF IsAt, h, n, p

\* What is made of the context, when the section is accepted or not.
Known(w, k) == Accepted(w, k) /\ ContextAt(w, k).sects[HeaderAt(w, k).num + 1] # NullSection
StoredAt(w, k) ==
    LET h == HeaderAt(w, k)
        tc == ContextAt(w, k)
    IN  IF Accepted(w, k) /\ ~Known(w, k) THEN [tc EXCEPT !.sects[h.num + 1] = h] ELSE tc
Completes(w, k) ==
    /\ Accepted(w, k) /\ ~Known(w, k) /\ ~ContextAt(w, k).notified
    /\ \A i \in DOMAIN StoredAt(w, k).sects : StoredAt(w, k).sects[i] # NullSection
AfterAt(w, k) == [StoredAt(w, k) EXCEPT !.notified = @ \/ Completes(w, k)]
TidsAfter(w, k) ==
    IF Skipped(w, HeaderAt(w, k)) THEN w.d.tids
    ELSE [w.d.tids EXCEPT ![HeaderAt(w, k).tid] = AfterAt(w, k)]

\* The context of the table, after a section in the buffer.
LEMMA StoredOK ==
    ASSUME NEW u, NEW J, NEW P, NEW k, Buffer(u, J, P, k), NEW w, Walking(w, u, J, P, k),
           WholeAt(w, k)
    PROVE  LET h == HeaderAt(w, k)
           IN  /\ h \in Headers
               /\ ContextAt(w, k) \in TableIn(h.tid) /\ ContextAt(w, k).version = h.ver
               /\ StoredAt(w, k) \in TableIn(h.tid) /\ StoredAt(w, k).version = h.ver
               /\ AfterAt(w, k) \in TableIn(h.tid) /\ AfterAt(w, k).version = h.ver
               /\ AfterAt(w, k).sects = StoredAt(w, k).sects
               /\ AfterAt(w, k).notified <=> StoredAt(w, k).notified \/ Completes(w, k)
               /\ StoredAt(w, k).notified = ContextAt(w, k).notified
               /\ TidsAfter(w, k) \in Contexts
               /\ Completes(w, k) => /\ StoredAt(w, k).sects \in FullTable
                                     /\ StoredAt(w, k).sects[1].tid = h.tid
                                     /\ StoredAt(w, k).sects[1].ver = h.ver
<1> DEFINE h == HeaderAt(w, k)  t == h.tid  tc == ContextAt(w, k)  y == StoredAt(w, k)
           c == Completes(w, k)  a == AfterAt(w, k)
<1>1. u \in Seq(Raw) /\ w.at \in Nat /\ w.at < Len(u) /\ w.d.ts = u /\ Len(u) \in Nat /\ w.d \in Demux
  BY DEF Buffer, Flow, Walking, WalkState
<1>2. u[w.at + 1] \in Raw /\ k \in DOMAIN Junk
  BY <1>1 DEF Buffer
<1>3. h \in Headers
  BY <1>1, <1>2, HeaderOK DEF HeaderAt
<1>4. t \in TIDs
  BY <1>1, <1>2, HeaderOK DEF HeaderAt, WholeAt
<1>5. w.d.tids[t] \in TableIn(t)
  BY <1>1, <1>4 DEF Demux, Contexts
<1>6. tc \in TableIn(t) /\ tc.version = h.ver
  BY <1>3, <1>5, TableContextOK DEF ContextAt
<1>7. /\ y \in TableIn(t) /\ y.version = h.ver /\ y.notified = tc.notified
      /\ Accepted(w, k) /\ ~Known(w, k) => y.sects # <<>>
  <2>1. CASE ~(Accepted(w, k) /\ ~Known(w, k))
    <3>1. y = tc
      BY <2>1 DEF StoredAt
    <3> QED BY <1>6, <2>1, <3>1
  <2>2. CASE Accepted(w, k) /\ ~Known(w, k)
    <3> DEFINE n == h.num + 1
    <3>1. h \in Sent /\ h.last + 1 = Len(tc.sects) /\ ~Skipped(w, h)
      BY <2>2, AcceptedSent DEF Accepted
    <3>2. n \in 1 .. Len(tc.sects)
      <4>1. h.num \in Nat /\ h.last \in Nat /\ ~(h.num > h.last)
        BY <1>3, <3>1 DEF Skipped, Headers
      <4> QED BY <3>1, <4>1
    <3>3. y = [tc EXCEPT !.sects[n] = h]
      BY <2>2 DEF StoredAt
    <3> HIDE DEF h, tc, n, y
    <3>4. n = h.num + 1 /\ h.tid = t /\ t \in TIDs /\ h.ver = tc.version
      BY <1>4, <1>6 DEF n
    <3> HIDE DEF t
    <3> QED BY <1>6, <3>1, <3>2, <3>3, <3>4, StoreOK
  <2> QED BY <2>1, <2>2
<1>8. c \in BOOLEAN /\ y.notified \in BOOLEAN /\ y \in AnyTable
  BY <1>7 DEF TableIn, AnyTable, Completes
<1>9. a \in TableIn(t) /\ a.version = h.ver /\ a.sects = y.sects /\ (a.notified <=> y.notified \/ c)
  <2> DEFINE e == y.notified \/ c
  <2>1. a = [y EXCEPT !.notified = e]
    BY <1>8 DEF AfterAt, AnyTable
  <2>2. e \in BOOLEAN
    BY <1>8
  <2> HIDE DEF a, y, e, h, t
  <2>3. a \in AnyTable /\ a.sects = y.sects /\ a.version = y.version /\ a.notified = e
    BY <1>8, <2>1, <2>2 DEF AnyTable
  <2>4. ASSUME NEW i \in 1 .. Len(a.sects) PROVE InPlace(a.sects[i], t, a, i)
    <3>1. InPlace(y.sects[i], t, y, i)
      BY <1>7, <2>3, <2>4 DEF TableIn
    <3> QED BY <2>3, <3>1 DEF InPlace
  <2>5. a \in TableIn(t)
    BY <2>3, <2>4 DEF TableIn
  <2> QED BY <1>7, <2>3, <2>5 DEF e
<1>10. TidsAfter(w, k) \in Contexts
  <2> DEFINE f == w.d.tids
  <2>1. f \in Contexts
    BY <1>1 DEF Demux
  <2>2. CASE Skipped(w, h)
    BY <2>1, <2>2 DEF TidsAfter
  <2>3. CASE ~Skipped(w, h)
    <3>1. TidsAfter(w, k) = [f EXCEPT ![t] = a]
      BY <2>3 DEF TidsAfter
    <3>2. f \in [TIDs -> AnyTable] /\ \A i \in TIDs : f[i] \in TableIn(i)
      BY <2>1 DEF Contexts
    <3>3. a \in AnyTable
      BY <1>9 DEF TableIn
    <3> HIDE DEF a, f, t
    <3>4. [f EXCEPT ![t] = a] \in [TIDs -> AnyTable]
          /\ \A i \in TIDs : [f EXCEPT ![t] = a][i] = IF i = t THEN a ELSE f[i]
      BY <1>4, <3>2, <3>3
    <3> QED BY <1>9, <3>1, <3>2, <3>4 DEF Contexts
  <2> QED BY <2>2, <2>3
<1>11. ASSUME c PROVE y.sects \in FullTable /\ y.sects[1].tid = t /\ y.sects[1].ver = h.ver
  <2>1. y.sects # <<>> /\ \A i \in DOMAIN y.sects : y.sects[i] # NullSection
    BY <1>7, <1>11 DEF Completes
  <2> HIDE DEF y, t
  <2> QED BY <1>4, <1>7, <2>1, FullOK
<1> HIDE DEF h, tc, y, c, a
<1> QED BY <1>3, <1>6, <1>7, <1>9, <1>10, <1>11 DEF h, tc, y, c, a

\* The fields of w after a section of the buffer: y is w then.
Ends(y, w, u, P, k, hr) ==
    LET h == HeaderAt(w, k)
        ok == Accepted(w, k)
        end == IF Truncated(w, h) THEN P ELSE w.at + h.size
    IN  /\ y.pusi = P /\ y.done = (ok /\ hr)
        /\ y = [w EXCEPT !.sections = y.sections, !.tables = y.tables, !.d = y.d,
                         !.done = y.done, !.at = y.at]
        /\ y.sections = IF ok THEN Append(w.sections, h) ELSE w.sections
        /\ y.tables = IF Completes(w, k) THEN Append(w.tables, StoredAt(w, k).sects) ELSE w.tables
        /\ y.d = IF ok /\ hr THEN PIDContext ELSE [w.d EXCEPT !.tids = TidsAfter(w, k)]
        /\ y.at = IF ok /\ hr THEN 0
                  ELSE IF end < Len(u) /\ u[end + 1] = Stuffing THEN Len(u) ELSE end

\* Such a turn of the loop.
LEMMA EndFields ==
    ASSUME NEW u, NEW J, NEW P, NEW k, Buffer(u, J, P, k), NEW w, Walking(w, u, J, P, k),
           WholeAt(w, k), NEW hr \in BOOLEAN
    PROVE  Ends(WalkStep(w, k, hr), w, u, P, k, hr)
<1> DEFINE h == HeaderAt(w, k)  tc == ContextAt(w, k)  ok == Accepted(w, k)
           e == EndOfSection(w, h, tc, ok, hr)
<1>1. w \in WalkState /\ w.d.ts = u /\ w.pusi = P /\ ~w.done /\ w.d \in Demux
  BY DEF Walking, WalkState
<1>2. WalkStep(w, k, hr) = e
  <2>1. h.size \in Least(h) .. MaxSection /\ ~(Len(w.d.ts) - w.at < h.size) /\ ~IsShort(h)
        /\ ~(h.size > MaxSection \/ h.size < Least(h)) /\ ~(Len(w.d.ts) - w.at < ShortHeader)
    <3>1. h \in Headers
      BY StoredOK
    <3>2. h.size \in Nat /\ Len(w.d.ts) - w.at \in Int
      <4>1. w.at \in Nat /\ u \in Seq(Raw)
        BY DEF Walking, WalkState, Buffer, Flow
      <4> QED BY <1>1, <3>1, <4>1 DEF Headers
    <3> QED BY <3>2, Sizes DEF WholeAt, Least
  <2> HIDE DEF e
  <2>2. WalkStep(w, k, hr) = EndOfSection(w, h, tc, ok, hr)
    BY <2>1 DEF WalkStep, HeaderAt, ContextAt, Accepted
  <2> QED BY <2>2 DEF e
<1> DEFINE known == ok /\ tc.sects[h.num + 1] # NullSection
           stored == IF ok /\ ~known THEN [tc EXCEPT !.sects[h.num + 1] = h] ELSE tc
           complete == /\ ok /\ ~known /\ ~tc.notified
                       /\ \A i \in DOMAIN stored.sects : stored.sects[i] # NullSection
           end == IF Truncated(w, h) THEN w.pusi ELSE w.at + h.size
           d == IF Skipped(w, h) THEN w.d
                ELSE [w.d EXCEPT !.tids[h.tid] = [stored EXCEPT !.notified = @ \/ complete]]
           ys == IF ok THEN Append(w.sections, h) ELSE w.sections
           yt == IF complete THEN Append(w.tables, stored.sects) ELSE w.tables
           yd == IF ok /\ hr THEN PIDContext ELSE d
           yo == ok /\ hr
           ya == IF ok /\ hr THEN 0 ELSE IF end < Len(w.d.ts) /\ w.d.ts[end + 1] = Stuffing
                                         THEN Len(w.d.ts) ELSE end
<1>3. known = Known(w, k) /\ stored = StoredAt(w, k) /\ complete = Completes(w, k)
  BY DEF Known, StoredAt, Completes
<1>4. d = [w.d EXCEPT !.tids = TidsAfter(w, k)]
  <2>1. CASE Skipped(w, h)
    <3>1. TidsAfter(w, k) = w.d.tids
      BY <2>1 DEF TidsAfter
    <3>2. w.d = [w.d EXCEPT !.tids = w.d.tids]
      BY <1>1 DEF Demux
    <3> QED BY <2>1, <3>1, <3>2
  <2>2. CASE ~Skipped(w, h)
    <3> DEFINE b == [stored EXCEPT !.notified = @ \/ complete]  f == [w.d.tids EXCEPT ![h.tid] = b]
    <3>1. b = AfterAt(w, k)
      BY <1>3 DEF AfterAt
    <3>2. TidsAfter(w, k) = f
      BY <2>2, <3>1 DEF TidsAfter
    <3> HIDE DEF b
    <3>3. [w.d EXCEPT !.tids[h.tid] = b] = [w.d EXCEPT !.tids = f]
      BY <1>1 DEF Demux
    <3> QED BY <2>2, <3>2, <3>3 DEF b
  <2> QED BY <2>1, <2>2
<1>5. e = [w EXCEPT !.sections = ys, !.tables = yt, !.d = yd, !.done = yo, !.at = ya]
  BY <1>1 DEF EndOfSection, NextPosition, WalkState
<1> HIDE DEF ys, yt, yd, yo, ya, e
<1>6. e.sections = ys /\ e.tables = yt /\ e.d = yd /\ e.done = yo /\ e.at = ya /\ e.pusi = w.pusi
      /\ e = [w EXCEPT !.sections = e.sections, !.tables = e.tables, !.d = e.d, !.done = e.done,
                       !.at = e.at]
  BY <1>1, <1>5 DEF WalkState
<1> QED BY <1>1, <1>2, <1>3, <1>4, <1>6 DEF ys, yt, yd, yo, ya, Ends

\* A turn of the loop: y is w after it.
Stops(y, w, u, k) == y = [w EXCEPT !.done = TRUE] /\ NoneAt(u, w.at, k)

Fails(y, w, u, J) ==
    /\ y = [w EXCEPT !.d = SyncLost(w.d), !.at = 0, !.done = TRUE]
    /\ ~Aligned(u, J, w.at)

Goes(y, w, u, J) ==
    /\ ~y.done /\ y.d = [w.d EXCEPT !.tids = y.d.tids] /\ y.d.ts = u
    /\ w.at < y.at /\ J <= y.at /\ y.at <= Len(u)

Passes(y, w, u, J) ==
    /\ Goes(y, w, u, J) /\ y.sections = w.sections /\ y.tables = w.tables
    /\ Aligned(u, J, w.at) => Aligned(u, J, y.at)

Gets(y, w, u, J, hr) ==
    \E s \in Sent :
        /\ y.sections = Append(w.sections, s) /\ IsAt(s, u, w.at) /\ J < w.at + s.size
        /\ IF hr THEN y.done /\ y.d = PIDContext /\ y.at = 0
           ELSE Goes(y, w, u, J) /\ Aligned(u, J, y.at) /\ w.at + s.size <= y.at

\* A short section, which can only be read inside a section.
Drops(y, w, u, J, hr) ==
    /\ ~Aligned(u, J, w.at) /\ y.sections = w.sections /\ y.tables = w.tables
    /\ IF y.done THEN hr /\ y.d = PIDContext /\ y.at = 0
       ELSE y.d = w.d /\ Goes(y, w, u, J) /\ (hr => y.garbage = w.garbage)

\* The position after a section which is not the last one.
LEMMA EndPosition ==
    ASSUME NEW u, NEW J, NEW P, NEW k, Buffer(u, J, P, k), NEW w, Walking(w, u, J, P, k),
           WholeAt(w, k) \/ ShortAt(w, k), NEW at, NEW end,
           end = IF Truncated(w, HeaderAt(w, k)) THEN P ELSE w.at + HeaderAt(w, k).size,
           at = IF end < Len(u) /\ u[end + 1] = Stuffing THEN Len(u) ELSE end
    PROVE  /\ at \in Nat /\ w.at < at /\ J <= at /\ at <= Len(u)
           /\ J < w.at + HeaderAt(w, k).size
           /\ Aligned(u, J, w.at) => Aligned(u, J, at)
           /\ WholeAt(w, k) /\ Accepted(w, k)
              => Aligned(u, J, at) /\ w.at + HeaderAt(w, k).size <= at
<1> DEFINE h == HeaderAt(w, k)  n == h.size  p == w.at
<1>1. /\ u \in Seq(Raw) /\ p \in Nat /\ p < Len(u) /\ w.d.ts = u /\ Len(u) \in Nat /\ J \in Nat
      /\ w.pusi = P /\ P \in Int /\ Flow(u, J)
  BY DEF Buffer, Flow, Walking, WalkState
<1>2. P = -1 \/ (J <= P /\ P < Len(u) /\ u[P + 1].at = 1)
  BY DEF Buffer
<1>3. n \in Nat /\ p + n <= Len(u) /\ ShortHeader <= n /\ 1 <= n
  <2>1. h \in Headers
    <3>1. u[p + 1] \in Raw
      BY <1>1
    <3> QED BY <1>1, <3>1, HeaderOK DEF HeaderAt, Buffer
  <2>2. n \in Nat /\ (MinSection <= n \/ ShortHeader <= n) /\ n <= Len(u) - p
    BY <1>1, <2>1 DEF WholeAt, ShortAt, Headers
  <2> HIDE DEF n, p
  <2>3. p \in Nat /\ Len(u) \in Nat
    BY <1>1 DEF p
  <2> QED BY <2>2, <2>3, Sizes
<1>4. J <= p \/ (p = 0 /\ J < n)
  <2>1. CASE J <= p
    BY <2>1
  <2>2. CASE ~(J <= p)
    <3>1. p = 0 /\ FromStart(u, J, k)
      BY <2>2 DEF Walking
    <3>2. h = Header(u[1], k)
      BY <1>1, <3>1 DEF HeaderAt
    <3>3. J < n
      BY <1>1, <1>3, <3>1, <3>2, Sizes DEF FromStart
    <3> QED BY <3>1, <3>3
  <2> QED BY <2>1, <2>2
<1>5. J < p + n
  BY <1>1, <1>3, <1>4
<1>6. Truncated(w, h) <=> p < P /\ p + n > P
  BY <1>1 DEF Truncated
<1>7. end \in Nat /\ p < end /\ J <= end /\ end <= Len(u)
  <2>1. CASE Truncated(w, h)
    BY <1>1, <1>2, <1>6, <2>1
  <2>2. CASE ~Truncated(w, h)
    BY <1>1, <1>3, <1>5, <2>2
  <2> QED BY <2>1, <2>2
<1>8. at \in Nat /\ p < at /\ J <= at /\ at <= Len(u) /\ end <= at
  BY <1>1, <1>7
<1>9. ASSUME u[p + n] # Stuffing, u[p + n].at = u[p + n].of.size, end = p + n
      PROVE  Aligned(u, J, at)
  <2>1. CASE at = Len(u)
    BY <1>1, <1>8, <2>1 DEF Aligned
  <2>2. CASE at # Len(u)
    <3> DEFINE m == p + n
    <3>1. at = m /\ m < Len(u) /\ u[m + 1] # Stuffing
      BY <1>7, <1>9, <2>2
    <3>2. m \in 1 .. Len(u) /\ J < m /\ m + 1 \in 1 .. Len(u) /\ m < m + 1
      BY <1>1, <1>3, <1>5, <3>1
    <3>3. u[m] # Stuffing /\ u[m].at = u[m].of.size
      BY <1>9
    <3> HIDE DEF m
    <3>4. u[m + 1] = Stuffing \/ u[m + 1].at = 1
      BY <1>1, <3>2, <3>3, FlowAfter
    <3> QED BY <1>8, <3>1, <3>4 DEF Aligned
  <2> QED BY <2>1, <2>2
<1>10. ASSUME Aligned(u, J, p) PROVE Aligned(u, J, at)
  <2>1. J <= p /\ u[p + 1].at = 1 /\ p + 1 \in 1 .. Len(u)
    BY <1>1, <1>10 DEF Aligned
  <2>2. u[p + 1] # Stuffing /\ u[p + 1] \in Raw
    <3>1. u[p + 1] \in Raw
      BY <1>1, <2>1
    <3> QED BY <2>1, <3>1 DEF Stuffing
  <2>3. h = u[p + 1].of
    BY <1>1, <2>1, <2>2, HeaderOK DEF HeaderAt, Buffer
  <2>4. \A i \in 1 .. n : p + i <= Len(u) => u[p + i] = [of |-> h, at |-> i]
    <3>1. \A i \in 1 .. u[p + 1].of.size :
             p + i <= Len(u) => u[p + i] = [of |-> u[p + 1].of, at |-> i]
      BY <1>1, <2>1, FlowForward
    <3> QED BY <2>3, <3>1
  <2>5. ~Truncated(w, h)
    <3> SUFFICES ASSUME Truncated(w, h) PROVE FALSE
      OBVIOUS
    <3> DEFINE i == (P - p) + 1
    <3>1. i \in 1 .. n /\ p + i = P + 1 /\ p + i <= Len(u) /\ i # 1 /\ u[P + 1].at = 1
      BY <1>1, <1>2, <1>3, <1>6
    <3>2. u[p + i] = [of |-> h, at |-> i]
      BY <2>4, <3>1
    <3>3. u[P + 1].at = i
      BY <3>1, <3>2
    <3> QED BY <3>1, <3>3
  <2>6. end = p + n
    BY <2>5
  <2>7. u[p + n] = [of |-> h, at |-> n]
    <3>1. n \in 1 .. n
      BY <1>3
    <3> QED BY <1>3, <2>4, <3>1
  <2>8. u[p + n] # Stuffing
    BY <1>3, <2>7 DEF Stuffing
  <2>9. u[p + n].at = u[p + n].of.size
    BY <2>7
  <2> QED BY <1>9, <2>6, <2>8, <2>9
<1>11. ASSUME WholeAt(w, k), Accepted(w, k) PROVE Aligned(u, J, at) /\ p + n <= at
  <2>1. IsAt(h, u, p) /\ ~Truncated(w, h)
    BY <1>11, AcceptedSent
  <2>2. end = p + n
    BY <2>1
  <2>3. u[p + n] = [of |-> h, at |-> n]
    <3>1. n \in 1 .. n
      BY <1>3
    <3> QED BY <2>1, <3>1 DEF IsAt
  <2>4. u[p + n] # Stuffing
    BY <1>3, <2>3 DEF Stuffing
  <2>5. u[p + n].at = u[p + n].of.size
    BY <2>3
  <2> QED BY <1>8, <1>9, <2>2, <2>4, <2>5
<1> QED BY <1>5, <1>8, <1>10, <1>11

\* The contexts without synchronization.
LEMMA DemuxValues ==
    /\ PIDContext \in Demux /\ PIDContext.ts = <<>> /\ ~PIDContext.sync
    /\ \A d \in Demux : SyncLost(d) \in Demux /\ SyncLost(d).ts = <<>> /\ ~SyncLost(d).sync
                        /\ SyncLost(d).cc = d.cc /\ SyncLost(d).tids = d.tids
<1>1. NoTable \in AnyTable /\ \A t \in TIDs : NoTable \in TableIn(t)
  <2>1. NoTable \in AnyTable
    BY DEF NoTable, AnyTable
  <2>2. Len(NoTable.sects) = 0
    BY DEF NoTable
  <2> QED BY <2>1, <2>2 DEF TableIn
<1>2. [t \in TIDs |-> NoTable] \in Contexts
  BY <1>1 DEF Contexts
<1>3. PIDContext \in Demux /\ PIDContext.ts = <<>> /\ ~PIDContext.sync
  BY <1>2 DEF PIDContext, Demux
<1>4. ASSUME NEW d \in Demux
      PROVE  SyncLost(d) \in Demux /\ SyncLost(d).ts = <<>> /\ ~SyncLost(d).sync
             /\ SyncLost(d).cc = d.cc /\ SyncLost(d).tids = d.tids
  <2> DEFINE e == <<>>  f == FALSE
  <2>1. SyncLost(d) = [d EXCEPT !.sync = f, !.ts = e]
    BY DEF SyncLost
  <2>2. e \in Seq(Raw) /\ f \in BOOLEAN /\ e = <<>> /\ ~f
    OBVIOUS
  <2> HIDE DEF e, f
  <2> QED BY <2>1, <2>2 DEF Demux
<1> QED BY <1>3, <1>4

\* One turn of the loop.
LEMMA WalkStepOK ==
    ASSUME NEW u, NEW J, NEW P, NEW k, Buffer(u, J, P, k), NEW w, Walking(w, u, J, P, k),
           NEW hr \in BOOLEAN
    PROVE  LET y == WalkStep(w, k, hr)
           IN  /\ y \in WalkState /\ y.pusi = P
               /\ \/ Stops(y, w, u, k) \/ Fails(y, w, u, J)
                  \/ WholeAt(w, k) /\ (Passes(y, w, u, J) \/ Gets(y, w, u, J, hr))
                  \/ Drops(y, w, u, J, hr)
               /\ y.garbage = w.garbage \/ Drops(y, w, u, J, hr)
<1> DEFINE y == WalkStep(w, k, hr)  h == HeaderAt(w, k)  rest == Len(u) - w.at
<1>1. /\ w \in WalkState /\ w.d.ts = u /\ w.pusi = P /\ ~w.done /\ w.d \in Demux
      /\ u \in Seq(Raw) /\ w.at \in Nat /\ w.at < Len(u) /\ Len(u) \in Nat /\ k \in DOMAIN Junk
      /\ J \in Nat /\ Flow(u, J)
  BY DEF Walking, WalkState, Buffer, Flow
<1>2. u[w.at + 1] \in Raw /\ h \in Headers
  <2>1. u[w.at + 1] \in Raw
    BY <1>1
  <2> QED BY <1>1, <2>1, HeaderOK DEF HeaderAt
<1>3. h.size \in Nat /\ rest \in Nat
  BY <1>1, <1>2, SMTT(30) DEF Headers
<1>4. h = Header(w.d.ts[w.at + 1], k) /\ rest = Len(w.d.ts) - w.at
  BY <1>1 DEF HeaderAt
<1>g. w.garbage \in BOOLEAN /\ w = [w EXCEPT !.garbage = w.garbage]
  BY <1>1 DEF WalkState
<1>l. Least(h) \in Nat /\ Least(h) <= MinSection /\ ShortHeader <= Least(h)
  BY Sizes DEF Least
<1>a. ASSUME Aligned(u, J, w.at) PROVE h \in Sent /\ h = u[w.at + 1].of /\ ~IsShort(h)
  <2>1. u[w.at + 1].at = 1
    BY <1>1, <1>a DEF Aligned
  <2>2. u[w.at + 1] # Stuffing
    BY <2>1 DEF Stuffing
  <2> QED BY <1>1, <1>2, <2>1, <2>2, HeaderOK, RawByte DEF HeaderAt
<1>5. CASE rest < ShortHeader
  <2>1. y = [w EXCEPT !.done = TRUE]
    <3> HIDE DEF h, rest
    <3>1. ~(rest >= ShortHeader)
      BY <1>3, <1>5, Sizes
    <3> QED BY <1>4, <1>5, <3>1 DEF WalkStep
  <2>2. Stops(y, w, u, k)
    BY <1>5, <2>1 DEF Stops, NoneAt
  <2>3. y \in WalkState /\ y.pusi = P /\ y.garbage = w.garbage
    BY <1>1, <2>1 DEF WalkState
  <2> QED BY <2>2, <2>3
<1>6. CASE rest >= ShortHeader /\ (h.size > MaxSection \/ h.size < Least(h))
  <2> DEFINE l == SyncLost(w.d)
  <2>1. y = [w EXCEPT !.d = l, !.at = 0, !.done = TRUE]
    <3> HIDE DEF h, rest
    <3>1. ~(rest < ShortHeader) /\ ~(h.size \in Least(h) .. MaxSection)
      BY <1>3, <1>6, <1>l, Sizes
    <3> QED BY <1>4, <1>6, <3>1 DEF WalkStep
  <2>2. l \in Demux
    BY <1>1, DemuxValues
  <2> HIDE DEF l
  <2>3. y \in WalkState /\ y.pusi = P /\ y.garbage = w.garbage
    <3> DEFINE n == 0  b == TRUE
    <3>1. y = [w EXCEPT !.d = l, !.at = n, !.done = b] /\ n \in Nat /\ b \in BOOLEAN
      BY <2>1
    <3> HIDE DEF n, b, y
    <3> QED BY <1>1, <2>2, <3>1 DEF WalkState
  <2>4. ~Aligned(u, J, w.at)
    <3> SUFFICES ASSUME Aligned(u, J, w.at) PROVE FALSE
      OBVIOUS
    <3>3. h \in Sent
      BY <1>a
    <3>4. MinSection <= h.size /\ h.size <= MaxSection
      BY <3>3, SentSize
    <3> QED BY <1>3, <1>6, <1>l, <3>4, Sizes
  <2>5. Fails(y, w, u, J)
    BY <2>1, <2>4 DEF Fails, l
  <2> QED BY <2>3, <2>5
<1>7. CASE rest >= ShortHeader /\ h.size \in Least(h) .. MaxSection /\ rest < h.size
  <2>1. y = [w EXCEPT !.done = TRUE]
    <3> HIDE DEF h, rest
    <3>1. ~(rest < ShortHeader) /\ ~(h.size > MaxSection \/ h.size < Least(h))
      BY <1>3, <1>7, <1>l, Sizes
    <3> QED BY <1>4, <1>7, <3>1 DEF WalkStep
  <2>2. Stops(y, w, u, k)
    BY <1>1, <1>7, <2>1 DEF Stops, NoneAt, HeaderAt
  <2>3. y \in WalkState /\ y.pusi = P /\ y.garbage = w.garbage
    BY <1>1, <2>1 DEF WalkState
  <2> QED BY <2>2, <2>3
<1>s. CASE rest >= ShortHeader /\ h.size \in Least(h) .. MaxSection /\ ~(rest < h.size) /\ IsShort(h)
  <2> DEFINE ok == ~Truncated(w, h)  reset == ok /\ hr  g == w.garbage \/ ok
             end == IF Truncated(w, h) THEN P ELSE w.at + h.size
             at == IF end < Len(u) /\ u[end + 1] = Stuffing THEN Len(u) ELSE end
             a == IF reset THEN 0 ELSE at
             d == IF reset THEN PIDContext ELSE w.d
  <2>1. ShortAt(w, k)
    BY <1>1, <1>3, <1>l, <1>s, Sizes DEF ShortAt
  <2>2. y = [w EXCEPT !.garbage = g, !.d = d, !.done = reset, !.at = a]
    <3> HIDE DEF h, rest
    <3>1. ~(rest < ShortHeader) /\ ~(h.size > MaxSection \/ h.size < Least(h))
      BY <1>3, <1>s, <1>l, Sizes
    <3>2. y = EndOfShort(w, h, hr)
      BY <1>4, <1>s, <3>1 DEF WalkStep
    <3>3. NextPosition(w, h) = at
      BY <1>1 DEF NextPosition
    <3> HIDE DEF at
    <3> QED BY <1>1, <3>2, <3>3 DEF EndOfShort, WalkState
  <2>3. at \in Nat /\ w.at < at /\ J <= at /\ at <= Len(u)
    <3> HIDE DEF end, at
    <3>1. end = IF Truncated(w, HeaderAt(w, k)) THEN P ELSE w.at + HeaderAt(w, k).size
      BY DEF end
    <3>2. at = IF end < Len(u) /\ u[end + 1] = Stuffing THEN Len(u) ELSE end
      BY DEF at
    <3> QED BY <2>1, <3>1, <3>2, EndPosition
  <2> HIDE DEF at
  <2>4. g \in BOOLEAN /\ reset \in BOOLEAN /\ d \in Demux /\ a \in Nat
    BY <1>1, <1>g, <2>3, DemuxValues
  <2> HIDE DEF g, d, a, y, reset
  <2>5. y \in WalkState /\ y.pusi = P /\ y.done = reset /\ y.d = d /\ y.at = a
        /\ y.sections = w.sections /\ y.tables = w.tables /\ y.garbage = g
    BY <1>1, <2>2, <2>4 DEF WalkState
  <2>6. ~Aligned(u, J, w.at)
    BY <1>a, <1>s
  <2>7. CASE reset
    BY <2>5, <2>6, <2>7 DEF Drops, d, a, reset, y
  <2>8. CASE ~reset
    <3>1. ~y.done /\ y.d = w.d /\ y.at = at
      BY <2>5, <2>8 DEF d, a
    <3>2. w.d = [w.d EXCEPT !.tids = w.d.tids]
      BY <1>1 DEF Demux
    <3>3. Goes(y, w, u, J)
      BY <1>1, <2>3, <3>1, <3>2 DEF Goes
    <3>4. hr => y.garbage = w.garbage
      BY <1>1, <2>5, <2>8 DEF g, reset, WalkState
    <3> QED BY <2>5, <2>6, <3>1, <3>3, <3>4 DEF Drops, y
  <2> QED BY <2>7, <2>8
<1>8. CASE rest >= ShortHeader /\ h.size \in Least(h) .. MaxSection /\ ~(rest < h.size) /\ ~IsShort(h)
  <2> DEFINE ok == Accepted(w, k)  n == h.size
             end == IF Truncated(w, h) THEN P ELSE w.at + h.size
             at == IF end < Len(u) /\ u[end + 1] = Stuffing THEN Len(u) ELSE end
             tids == TidsAfter(w, k)  l == [w.d EXCEPT !.tids = tids]
  <2>1. WholeAt(w, k)
    BY <1>1, <1>3, <1>8, Sizes DEF WholeAt, Least
  <2>2. /\ y.pusi = P /\ y.done = (ok /\ hr)
        /\ y = [w EXCEPT !.sections = y.sections, !.tables = y.tables, !.d = y.d,
                         !.done = y.done, !.at = y.at]
        /\ y.sections = (IF ok THEN Append(w.sections, h) ELSE w.sections)
        /\ y.tables = (IF Completes(w, k) THEN Append(w.tables, StoredAt(w, k).sects)
                       ELSE w.tables)
        /\ y.d = (IF ok /\ hr THEN PIDContext ELSE l)
        /\ y.at = IF ok /\ hr THEN 0 ELSE at
    <3>1. Ends(y, w, u, P, k, hr)
      BY <2>1, EndFields
    <3> HIDE DEF y
    <3> QED BY <3>1 DEF Ends
  <2>3. /\ at \in Nat /\ w.at < at /\ J <= at /\ at <= Len(u) /\ J < w.at + n
        /\ Aligned(u, J, w.at) => Aligned(u, J, at)
        /\ ok => Aligned(u, J, at) /\ w.at + n <= at
    <3> HIDE DEF ok, end, at
    <3>1. end = IF Truncated(w, HeaderAt(w, k)) THEN P ELSE w.at + HeaderAt(w, k).size
      BY DEF end
    <3>2. at = IF end < Len(u) /\ u[end + 1] = Stuffing THEN Len(u) ELSE end
      BY DEF at
    <3> QED BY <2>1, <3>1, <3>2, EndPosition DEF ok
  <2> HIDE DEF at, end
  <2>4. tids \in Contexts
    BY <2>1, StoredOK
  <2>5. Completes(w, k) => StoredAt(w, k).sects \in FullTable /\ ok
    BY <2>1, StoredOK DEF Completes
  <2>6. ok => h \in Sent /\ IsAt(h, u, w.at)
    BY <2>1, AcceptedSent
  <2>7. ok \in BOOLEAN
    BY DEF Accepted
  <2> HIDE DEF y, h, ok, tids
  <2>8. l \in Demux /\ l = [w.d EXCEPT !.tids = l.tids] /\ l.ts = u
    BY <1>1, <2>4 DEF Demux
  <2> HIDE DEF l
  <2>9. y.sections \in Seq(Sent)
    BY <1>1, <2>2, <2>6 DEF WalkState
  <2>10. y.tables \in Seq(FullTable)
    BY <1>1, <2>2, <2>5 DEF WalkState
  <2>11. y.d \in Demux
    BY <2>2, <2>8, DemuxValues
  <2>12. y.at \in Nat /\ y.done \in BOOLEAN
    BY <2>2, <2>3, <2>7
  <2>13. y \in WalkState /\ y.garbage = w.garbage
    <3> DEFINE a == y.sections  b == y.tables  c == y.d  e == y.done  f == y.at
    <3>1. y = [w EXCEPT !.sections = a, !.tables = b, !.d = c, !.done = e, !.at = f]
      BY <2>2
    <3>2. a \in Seq(Sent) /\ b \in Seq(FullTable) /\ c \in Demux /\ e \in BOOLEAN /\ f \in Nat
      BY <2>9, <2>10, <2>11, <2>12
    <3> HIDE DEF a, b, c, e, f
    <3> QED BY <1>1, <3>1, <3>2 DEF WalkState
  <2>14. CASE ~ok
    <3>1. y.d = l /\ ~y.done /\ y.at = at /\ y.sections = w.sections /\ y.tables = w.tables
      BY <2>2, <2>5, <2>14
    <3>2. Goes(y, w, u, J)
      BY <2>3, <2>8, <3>1 DEF Goes
    <3>3. Passes(y, w, u, J)
      BY <2>3, <3>1, <3>2 DEF Passes
    <3> QED BY <2>1, <2>2, <2>13, <3>3 DEF y
  <2>15. CASE ok
    <3>1. y.sections = Append(w.sections, h) /\ h \in Sent /\ IsAt(h, u, w.at) /\ J < w.at + h.size
      BY <2>2, <2>3, <2>6, <2>15
    <3>2. CASE hr
      <4>1. y.done /\ y.d = PIDContext /\ y.at = 0
        BY <2>2, <2>15, <3>2
      <4>2. Gets(y, w, u, J, hr)
        BY <3>1, <3>2, <4>1 DEF Gets
      <4> QED BY <2>1, <2>2, <2>13, <4>2 DEF y
    <3>3. CASE ~hr
      <4>1. y.d = l /\ ~y.done /\ y.at = at
        BY <2>2, <3>3
      <4>2. Goes(y, w, u, J)
        BY <2>3, <2>8, <4>1 DEF Goes
      <4>3. Aligned(u, J, y.at) /\ w.at + h.size <= y.at
        BY <2>3, <2>15, <4>1
      <4>4. Gets(y, w, u, J, hr)
        BY <3>1, <3>3, <4>2, <4>3 DEF Gets
      <4> QED BY <2>1, <2>2, <2>13, <4>4 DEF y
    <3> QED BY <3>2, <3>3
  <2> QED BY <2>14, <2>15
<1>9. \/ rest < ShortHeader
      \/ rest >= ShortHeader /\ (h.size > MaxSection \/ h.size < Least(h))
      \/ rest >= ShortHeader /\ h.size \in Least(h) .. MaxSection /\ rest < h.size
      \/ rest >= ShortHeader /\ h.size \in Least(h) .. MaxSection /\ ~(rest < h.size) /\ IsShort(h)
      \/ rest >= ShortHeader /\ h.size \in Least(h) .. MaxSection /\ ~(rest < h.size) /\ ~IsShort(h)
  <2> DEFINE n == h.size  l == Least(h)
  <2>1. n \in Nat /\ rest \in Nat /\ l \in Nat
    BY <1>3, <1>l
  <2> HIDE DEF n, rest, l
  <2>2. n > MaxSection \/ n < l \/ n \in l .. MaxSection
    BY <2>1, Sizes
  <2>3. rest < ShortHeader \/ rest >= ShortHeader
    BY <2>1, Sizes
  <2> QED BY <2>2, <2>3 DEF n, l
<1> QED BY <1>5, <1>6, <1>7, <1>s, <1>8, <1>9

\* f is the function in the definition of Walk.
Walks(f, w0, k, hr) ==
    f = [n \in 0 .. Len(w0.d.ts) |->
            IF n = 0 THEN w0
            ELSE IF f[n - 1].done \/ f[n - 1].at >= Len(f[n - 1].d.ts) THEN f[n - 1]
            ELSE WalkStep(f[n - 1], k, hr)]

\* The set S is closed under the turns of the loop on the buffer u, which go forward.
Runs(S, u, k, hr) ==
    \A w \in S : /\ w.at \in Nat /\ w.done \in BOOLEAN /\ (~w.done => w.d.ts = u)
                 /\ ~w.done /\ w.at < Len(u)
                    => /\ WalkStep(w, k, hr) \in S
                       /\ WalkStep(w, k, hr).done \/ w.at < WalkStep(w, k, hr).at

\* The loop ends at the end of the buffer, or before, in a state which its turns can reach.
LEMMA WalkEnds ==
    ASSUME NEW u \in Seq(Raw), NEW k, NEW hr, NEW A, Runs(A, u, k, hr), NEW w0 \in A, w0.d.ts = u
    PROVE  /\ Walk(w0, k, hr) \in A
           /\ Walk(w0, k, hr).done \/ Len(u) <= Walk(w0, k, hr).at
<1> DEFINE N == Len(u)
           Stop(x) == x.done \/ x.at >= N
           F == [n \in 1 .. N |-> [x \in A |-> IF Stop(x) THEN x ELSE WalkStep(x, k, hr)]]
<1>0. N \in Nat
  OBVIOUS
<1>a. \A x \in A : x.at \in Nat /\ x.done \in BOOLEAN /\ (~x.done => x.d.ts = u)
  BY DEF Runs
<1>b. \A x \in A : ~Stop(x) => WalkStep(x, k, hr) \in A
                              /\ (WalkStep(x, k, hr).done \/ x.at < WalkStep(x, k, hr).at)
  <2>1. ASSUME NEW x \in A, ~Stop(x) PROVE ~x.done /\ x.at < Len(u)
    BY <1>0, <1>a, <2>1
  <2> QED BY <2>1 DEF Runs
<1>c. \A x \in A : (x.done \/ x.at >= Len(x.d.ts)) <=> Stop(x)
  BY <1>a
<1>1. F \in [1 .. N -> [A -> A]]
  BY <1>b
<1>d. \A n \in 1 .. N : \A x \in A : F[n][x] = IF Stop(x) THEN x ELSE WalkStep(x, k, hr)
  OBVIOUS
<1> HIDE DEF Stop
<1>2. PICK f : Recursive(f, N, A, w0, F)
  <2> HIDE DEF N, F
  <2> QED BY <1>0, <1>1, RecursionExists, Zenon
<1> HIDE DEF F
<1>3. Walks(f, w0, k, hr)
  <2> DEFINE g == [n \in 0 .. N |->
                     IF n = 0 THEN w0
                     ELSE IF f[n - 1].done \/ f[n - 1].at >= Len(f[n - 1].d.ts) THEN f[n - 1]
                     ELSE WalkStep(f[n - 1], k, hr)]
  <2>1. ASSUME NEW n \in 0 .. N PROVE f[n] = g[n]
    <3>1. CASE n = 0
      BY <3>1, <1>2 DEF Recursive
    <3>2. CASE n \in 1 .. N
      <4>1. n - 1 \in 0 .. N
        BY <3>2, <1>0
      <4>2. f[n - 1] \in A /\ f[n] = F[n][f[n - 1]]
        BY <4>1, <3>2, <1>2 DEF Recursive
      <4>3. g[n] = IF f[n - 1].done \/ f[n - 1].at >= Len(f[n - 1].d.ts) THEN f[n - 1]
                   ELSE WalkStep(f[n - 1], k, hr)
        BY <3>2, <1>0
      <4>4. f[n] = IF Stop(f[n - 1]) THEN f[n - 1] ELSE WalkStep(f[n - 1], k, hr)
        BY <4>2, <3>2, <1>d
      <4>5. (f[n - 1].done \/ f[n - 1].at >= Len(f[n - 1].d.ts)) <=> Stop(f[n - 1])
        BY <4>2, <1>c
      <4> HIDE DEF g
      <4> QED BY <4>3, <4>4, <4>5
    <3> QED BY <3>1, <3>2, <1>0
  <2>2. f = g
    BY <2>1, <1>2 DEF Recursive
  <2> QED BY <2>2 DEF Walks
<1> DEFINE G == CHOOSE g : Walks(g, w0, k, hr)
<1>4. Walks(G, w0, k, hr)
  BY <1>3
<1>5. Walk(w0, k, hr) = G[N]
  BY Zenon DEF Walk, Walks
<1> HIDE DEF G
<1>6. /\ G = [n \in 0 .. N |-> G[n]] /\ G[0] = w0
      /\ \A n \in 1 .. N : G[n - 1] \in A => G[n] = F[n][G[n - 1]]
  <2>1. G = [n \in 0 .. N |->
               IF n = 0 THEN w0
               ELSE IF G[n - 1].done \/ G[n - 1].at >= Len(G[n - 1].d.ts) THEN G[n - 1]
               ELSE WalkStep(G[n - 1], k, hr)]
    BY <1>4 DEF Walks
  <2>2. G = [n \in 0 .. N |-> G[n]] /\ G[0] = w0
    BY <1>0, <2>1
  <2>3. ASSUME NEW n \in 1 .. N, G[n - 1] \in A PROVE G[n] = F[n][G[n - 1]]
    <3>0. n \in 0 .. N /\ n # 0
      BY <1>0
    <3>1. G[n] = IF G[n - 1].done \/ G[n - 1].at >= Len(G[n - 1].d.ts) THEN G[n - 1]
                 ELSE WalkStep(G[n - 1], k, hr)
      BY <3>0, <2>1, Zenon
    <3>2. (G[n - 1].done \/ G[n - 1].at >= Len(G[n - 1].d.ts)) <=> Stop(G[n - 1])
      BY <2>3, <1>c
    <3>3. F[n][G[n - 1]] = IF Stop(G[n - 1]) THEN G[n - 1] ELSE WalkStep(G[n - 1], k, hr)
      BY <2>3, <1>d
    <3> QED BY <3>1, <3>2, <3>3
  <2> QED BY <2>2, <2>3
<1>7. Recursive(G, N, A, w0, F)
  <2> HIDE DEF N
  <2> QED BY <1>0, <1>1, <1>6, RecursionIs, Zenon
<1>8. \A n \in 0 .. N : G[n] \in A
  BY <1>7 DEF Recursive
<1> DEFINE S == {n \in 0 .. N : Stop(G[n]) \/ n <= G[n].at}
<1>9. 0 \in S
  BY <1>0, <1>8, <1>a
<1>10. ASSUME NEW n \in 1 .. N, n - 1 \in S PROVE n \in S
  <2>1. n - 1 \in 0 .. N /\ n \in 0 .. N /\ G[n - 1] \in A /\ G[n] \in A
    BY <1>0, <1>8
  <2>2. G[n] = IF Stop(G[n - 1]) THEN G[n - 1] ELSE WalkStep(G[n - 1], k, hr)
    BY <1>7, <1>d, <2>1 DEF Recursive
  <2>3. CASE Stop(G[n - 1])
    BY <2>1, <2>2, <2>3
  <2>4. CASE ~Stop(G[n - 1])
    <3> DEFINE a == G[n - 1].at  b == G[n].at
    <3>1. n - 1 <= a /\ a \in Nat /\ b \in Nat
      BY <1>10, <1>a, <2>1, <2>4
    <3>2. G[n].done \/ a < b
      BY <1>b, <2>1, <2>2, <2>4
    <3>3. G[n].done => Stop(G[n])
      BY DEF Stop
    <3> HIDE DEF b, a
    <3>4. a < b => n <= b
      BY <3>1
    <3> QED BY <2>1, <3>2, <3>3, <3>4 DEF b
  <2> QED BY <2>3, <2>4
<1>11. \A n \in 0 .. N : n \in S
  <2> HIDE DEF S, N
  <2> QED BY <1>0, <1>9, <1>10, Induction
<1>12. N \in 0 .. N /\ G[N] \in A
  BY <1>0, <1>8
<1>13. Stop(G[N]) \/ N <= G[N].at
  <2>1. N \in S
    BY <1>11, <1>12, Zenon
  <2> QED BY <2>1
<1>14. G[N].done \/ Len(u) <= G[N].at
  BY <1>0, <1>a, <1>12, <1>13 DEF Stop
<1> HIDE DEF N
<1> QED BY <1>5, <1>12, <1>14

\* Section s is in the buffer u, before position p, and not entirely in its first J bytes.
Ended(s, u, J, p) ==
    \E n \in Nat : IsAt(s, u, n) /\ J < n + s.size /\ n + s.size <= p

Ascending(l) == \A i, j \in 1 .. Len(l) : i < j => Prior(l[i], l[j])

\* The states of the loop on the buffer u, for a context with continuity c.
WalkOK(w, u, J, P, k, c, hr) ==
    /\ w \in WalkState
    /\ \A i \in 1 .. Len(w.sections) : Ended(w.sections[i], u, J, Len(u))
    /\ Ascending(w.sections)
    /\ w.d.sync =>
          /\ w.d.ts = u /\ w.d.cc = c /\ w.pusi = P /\ w.at <= Len(u)
          /\ J <= w.at \/ (w.at = 0 /\ FromStart(u, J, k))
          /\ \A i \in 1 .. Len(w.sections) : Ended(w.sections[i], u, J, w.at)
          /\ w.sections # <<>> \/ Aligned(u, J, 0) => Aligned(u, J, w.at)
          /\ w.done => w.at < Len(u) /\ NoneAt(u, w.at, k)
    /\ ~w.d.sync => w.done /\ w.d.ts = <<>> /\ w.at = 0 /\ (hr \/ w.sections = <<>>)

\* A section which ended comes before the section at a later position.
LEMMA EndedBefore ==
    ASSUME NEW u, NEW J, Flow(u, J), NEW p \in Nat, p <= Len(u), NEW s \in Sent, Ended(s, u, J, p),
           NEW i \in 1 .. Len(u), p < i, u[i] # Stuffing
    PROVE  Prior(s, u[i].of) /\ s # u[i].of
<1>1. PICK n \in Nat : IsAt(s, u, n) /\ J < n + s.size /\ n + s.size <= p
  BY DEF Ended
<1> DEFINE m == n + s.size
<1>2. s.size \in Nat /\ 1 <= s.size
  BY SentSize, Sizes
<1>3. Len(u) \in Nat /\ J \in Nat
  BY DEF Flow
<1>4. m \in 1 .. Len(u) /\ J < m /\ m < i
  BY <1>1, <1>2, <1>3
<1>5. u[m] = [of |-> s, at |-> s.size]
  <2>1. s.size \in 1 .. s.size
    BY <1>2
  <2> QED BY <1>1, <2>1 DEF IsAt
<1> HIDE DEF m
<1>6. u[m] # Stuffing /\ u[m].at = u[m].of.size /\ u[m].of = s
  BY <1>2, <1>5 DEF Stuffing
<1> QED BY <1>4, <1>6, FlowAfter

\* Each turn of the loop.
LEMMA WalkKept ==
    ASSUME NEW u, NEW J, NEW P, NEW k, Buffer(u, J, P, k), NEW c, NEW hr \in BOOLEAN,
           NEW w, WalkOK(w, u, J, P, k, c, hr), ~w.done, w.at < Len(u)
    PROVE  LET y == WalkStep(w, k, hr)
           IN  WalkOK(y, u, J, P, k, c, hr) /\ (y.done \/ w.at < y.at)
<1> DEFINE y == WalkStep(w, k, hr)
<1>1. w \in WalkState /\ w.d \in Demux /\ w.at \in Nat /\ w.d.sync /\ w.sections \in Seq(Sent)
  BY DEF WalkOK, WalkState
<1>2. /\ w.d.ts = u /\ w.d.cc = c /\ w.pusi = P /\ w.at <= Len(u)
      /\ J <= w.at \/ (w.at = 0 /\ FromStart(u, J, k))
      /\ \A i \in 1 .. Len(w.sections) : Ended(w.sections[i], u, J, w.at)
      /\ \A i \in 1 .. Len(w.sections) : Ended(w.sections[i], u, J, Len(u))
      /\ Ascending(w.sections)
      /\ w.sections # <<>> \/ Aligned(u, J, 0) => Aligned(u, J, w.at)
  BY <1>1 DEF WalkOK
<1>3. Walking(w, u, J, P, k)
  BY <1>1, <1>2 DEF Walking
<1>4. Flow(u, J) /\ u \in Seq(Raw) /\ Len(u) \in Nat /\ J \in Nat
  BY DEF Buffer, Flow
<1>5. /\ y \in WalkState /\ y.pusi = P
      /\ \/ Stops(y, w, u, k) \/ Fails(y, w, u, J) \/ Passes(y, w, u, J) \/ Gets(y, w, u, J, hr)
         \/ Drops(y, w, u, J, hr)
  BY <1>3, WalkStepOK
<1> HIDE DEF y
<1>6. y.d \in Demux /\ y.at \in Nat /\ y.sections \in Seq(Sent)
  BY <1>5 DEF WalkState
<1>7. CASE Stops(y, w, u, k)
  <2>1. y.d = w.d /\ y.at = w.at /\ y.sections = w.sections /\ y.done /\ NoneAt(u, w.at, k)
    BY <1>1, <1>7 DEF Stops, WalkState
  <2> QED BY <1>1, <1>2, <1>5, <2>1 DEF WalkOK, y
<1>8. CASE Fails(y, w, u, J)
  <2>1. y.d = SyncLost(w.d) /\ y.at = 0 /\ y.sections = w.sections /\ y.done
    BY <1>1, <1>8 DEF Fails, WalkState
  <2>2. w.sections = <<>>
    BY <1>2, <1>8 DEF Fails
  <2>3. ~y.d.sync /\ y.d.ts = <<>>
    BY <1>1, <2>1, DemuxValues
  <2> QED BY <1>2, <1>5, <2>1, <2>2, <2>3 DEF WalkOK, y
<1>9. ASSUME Goes(y, w, u, J)
      PROVE  /\ y.d.sync /\ y.d.ts = u /\ y.d.cc = c /\ ~y.done /\ J <= y.at /\ y.at <= Len(u)
             /\ w.at < y.at
             /\ \A s \in Sent : Ended(s, u, J, w.at) => Ended(s, u, J, y.at)
  <2>1. y.d = [w.d EXCEPT !.tids = y.d.tids] /\ y.d.ts = u /\ ~y.done /\ J <= y.at
        /\ y.at <= Len(u) /\ w.at < y.at
    BY <1>9 DEF Goes
  <2>2. y.d.sync = w.d.sync /\ y.d.cc = w.d.cc
    <3> DEFINE x == y.d.tids
    <3>1. y.d = [w.d EXCEPT !.tids = x]
      BY <2>1
    <3> HIDE DEF x
    <3> QED BY <1>1, <3>1 DEF Demux
  <2>3. ASSUME NEW s \in Sent, Ended(s, u, J, w.at) PROVE Ended(s, u, J, y.at)
    <3>1. PICK n \in Nat : IsAt(s, u, n) /\ J < n + s.size /\ n + s.size <= w.at
      BY <2>3 DEF Ended
    <3>2. n + s.size <= y.at
      <4>1. s.size \in Nat
        BY SentSize
      <4> QED BY <1>1, <1>6, <2>1, <3>1, <4>1
    <3> QED BY <3>1, <3>2 DEF Ended
  <2> QED BY <1>1, <1>2, <2>1, <2>2, <2>3
<1>10. CASE Passes(y, w, u, J)
  <2>1. Goes(y, w, u, J) /\ y.sections = w.sections /\ (Aligned(u, J, w.at) => Aligned(u, J, y.at))
    BY <1>10 DEF Passes
  <2>2. \A i \in 1 .. Len(y.sections) : Ended(y.sections[i], u, J, y.at)
    <3>1. ASSUME NEW i \in 1 .. Len(y.sections) PROVE Ended(y.sections[i], u, J, y.at)
      <4>1. y.sections[i] \in Sent /\ Ended(y.sections[i], u, J, w.at)
        BY <1>2, <1>6, <2>1
      <4> QED BY <1>9, <2>1, <4>1
    <3> QED BY <3>1
  <2> QED BY <1>2, <1>5, <1>9, <2>1, <2>2 DEF WalkOK, y
<1>11. CASE Gets(y, w, u, J, hr)
  <2>1. PICK s \in Sent :
          /\ y.sections = Append(w.sections, s) /\ IsAt(s, u, w.at) /\ J < w.at + s.size
          /\ IF hr THEN y.done /\ y.d = PIDContext /\ y.at = 0
             ELSE Goes(y, w, u, J) /\ Aligned(u, J, y.at) /\ w.at + s.size <= y.at
    BY <1>11 DEF Gets
  <2> DEFINE n == Len(w.sections)
  <2>2. n \in Nat /\ Len(y.sections) = n + 1 /\ y.sections[n + 1] = s
        /\ \A i \in 1 .. n : y.sections[i] = w.sections[i] /\ w.sections[i] \in Sent
    BY <1>1, <2>1
  <2>3. w.at + s.size <= Len(u) /\ s.size \in Nat /\ 1 <= s.size
    BY <2>1, SentSize, Sizes DEF IsAt
  <2>4. Ended(s, u, J, Len(u))
    BY <1>1, <2>1, <2>3 DEF Ended
  <2>5. \A i \in 1 .. n : Prior(w.sections[i], s)
    <3>1. u[w.at + 1] = [of |-> s, at |-> 1] /\ w.at + 1 \in 1 .. Len(u)
      <4>1. 1 \in 1 .. s.size
        BY <2>3
      <4> QED BY <1>1, <1>4, <2>1, <2>3, <4>1 DEF IsAt
    <3>2. u[w.at + 1] # Stuffing /\ u[w.at + 1].of = s
      BY <3>1 DEF Stuffing
    <3> DEFINE j == w.at + 1
    <3>3. j \in 1 .. Len(u) /\ w.at < j /\ u[j] # Stuffing /\ u[j].of = s
      BY <1>1, <3>1, <3>2
    <3> HIDE DEF j
    <3>4. ASSUME NEW i \in 1 .. n PROVE Prior(w.sections[i], s)
      <4>1. w.sections[i] \in Sent /\ Ended(w.sections[i], u, J, w.at)
        BY <1>2, <2>2
      <4> QED BY <1>1, <1>2, <1>4, <3>3, <4>1, EndedBefore
    <3> QED BY <3>4
  <2> HIDE DEF n
  <2>6. Ascending(y.sections)
    <3>1. ASSUME NEW i \in 1 .. n + 1, NEW j \in 1 .. n + 1, i < j
          PROVE  Prior(y.sections[i], y.sections[j])
      <4>1. i \in 1 .. n
        BY <2>2, <3>1
      <4>2. CASE j = n + 1
        BY <2>2, <2>5, <4>1, <4>2
      <4>3. CASE j # n + 1
        <5>1. j \in 1 .. n
          BY <2>2, <4>3
        <5> QED BY <1>2, <2>2, <3>1, <4>1, <5>1 DEF Ascending, n
      <4> QED BY <4>2, <4>3
    <3> QED BY <2>2, <3>1 DEF Ascending
  <2>7. \A i \in 1 .. Len(y.sections) : Ended(y.sections[i], u, J, Len(u))
    <3>1. ASSUME NEW i \in 1 .. n + 1 PROVE Ended(y.sections[i], u, J, Len(u))
      <4>1. CASE i = n + 1
        BY <2>2, <2>4, <4>1
      <4>2. CASE i # n + 1
        <5>1. i \in 1 .. n
          BY <2>2, <4>2
        <5> QED BY <1>2, <2>2, <5>1 DEF n
      <4> QED BY <4>1, <4>2
    <3> QED BY <2>2, <3>1
  <2>8. y.sections # <<>>
    BY <1>6, <2>2
  <2>9. CASE hr
    <3>1. y.done /\ y.d = PIDContext /\ y.at = 0
      BY <2>1, <2>9
    <3>3. ~y.d.sync /\ y.d.ts = <<>>
      BY <3>1, DemuxValues
    <3> QED BY <1>5, <2>6, <2>7, <2>9, <3>1, <3>3 DEF WalkOK, y
  <2>10. CASE ~hr
    <3>1. Goes(y, w, u, J) /\ Aligned(u, J, y.at) /\ w.at + s.size <= y.at
      BY <2>1, <2>10
    <3>2. Ended(s, u, J, y.at)
      BY <1>1, <2>1, <3>1 DEF Ended
    <3>3. \A i \in 1 .. Len(y.sections) : Ended(y.sections[i], u, J, y.at)
      <4>1. ASSUME NEW i \in 1 .. n + 1 PROVE Ended(y.sections[i], u, J, y.at)
        <5>1. CASE i = n + 1
          BY <2>2, <3>2, <5>1
        <5>2. CASE i # n + 1
          <6>1. i \in 1 .. n
            BY <2>2, <5>2
          <6>2. w.sections[i] \in Sent /\ Ended(w.sections[i], u, J, w.at)
            BY <1>2, <2>2, <6>1 DEF n
          <6> QED BY <1>9, <2>2, <3>1, <6>1, <6>2
        <5> QED BY <5>1, <5>2
      <4> QED BY <2>2, <4>1
    <3>4. y.d.sync /\ y.d.ts = u /\ y.d.cc = c /\ ~y.done /\ J <= y.at /\ y.at <= Len(u)
          /\ w.at < y.at
      BY <1>9, <3>1
    <3> QED BY <1>5, <2>6, <2>7, <3>1, <3>3, <3>4 DEF WalkOK, y
  <2> QED BY <2>9, <2>10
<1>12. CASE Drops(y, w, u, J, hr)
  <2>1. ~Aligned(u, J, w.at) /\ y.sections = w.sections
    BY <1>12 DEF Drops
  <2>2. CASE y.done
    <3>1. hr /\ y.d = PIDContext /\ y.at = 0
      BY <1>12, <2>2 DEF Drops
    <3>2. ~y.d.sync /\ y.d.ts = <<>>
      BY <3>1, DemuxValues
    <3> QED BY <1>2, <1>5, <2>1, <2>2, <3>1, <3>2 DEF WalkOK, y
  <2>3. CASE ~y.done
    <3>1. Passes(y, w, u, J)
      BY <1>12, <2>1, <2>3 DEF Drops, Passes
    <3> QED BY <1>10, <3>1
  <2> QED BY <2>2, <2>3
<1> QED BY <1>5, <1>7, <1>8, <1>10, <1>11, <1>12

\* The loop starts in the context e.
LoopFrom(e, P) ==
    [d |-> e, at |-> 0, pusi |-> P, sections |-> <<>>, tables |-> <<>>, garbage |-> FALSE,
     done |-> FALSE]

\* What the turns of the loop keep is true of the state after it.
LEMMA WalkIn ==
    ASSUME NEW u, NEW J, NEW P, NEW k, Buffer(u, J, P, k), J = 0 \/ FromStart(u, J, k), J <= Len(u),
           NEW d \in Demux, d.ts = u, d.sync, NEW hr \in BOOLEAN, NEW B, LoopFrom(d, P) \in B,
           \A v \in B : WalkOK(v, u, J, P, k, d.cc, hr) /\ ~v.done /\ v.at < Len(u)
                       => WalkStep(v, k, hr) \in B
    PROVE  LET w == Walk(LoopFrom(d, P), k, hr)
           IN  w \in B /\ WalkOK(w, u, J, P, k, d.cc, hr) /\ (w.done \/ Len(u) <= w.at)
<1> DEFINE c == d.cc
           A == {v \in WalkState : WalkOK(v, u, J, P, k, c, hr) /\ v \in B}
           w0 == LoopFrom(d, P)
           w == Walk(w0, k, hr)
<1>0. /\ w0 = [d |-> d, at |-> 0, pusi |-> P, sections |-> <<>>, tables |-> <<>>, garbage |-> FALSE,
              done |-> FALSE]
      /\ w0 \in B
  BY DEF LoopFrom
<1> HIDE DEF w0
<1>1. u \in Seq(Raw) /\ Len(u) \in Nat /\ J \in Nat /\ Flow(u, J) /\ P \in Int
  BY DEF Buffer, Flow
<1>2. w0 \in A /\ w0.d.ts = u
  <2> DEFINE e == <<>>  n == 0  f == FALSE
  <2>1. w0 = [d |-> d, at |-> n, pusi |-> P, sections |-> e, tables |-> e, garbage |-> f, done |-> f]
        /\ e \in Seq(Sent) /\ e \in Seq(FullTable) /\ n \in Nat /\ f \in BOOLEAN
    BY <1>0
  <2>2. e = <<>> /\ Len(e) = 0 /\ n = 0 /\ ~f
    OBVIOUS
  <2> HIDE DEF e, n, f
  <2>3. w0 \in WalkState /\ w0.d = d /\ w0.at = 0 /\ w0.sections = e /\ ~w0.done /\ w0.pusi = P
    BY <1>1, <2>1, <2>2 DEF WalkState
  <2>4. \A i \in 1 .. Len(w0.sections) : FALSE
    BY <2>2, <2>3
  <2>5. J <= 0 \/ (0 = 0 /\ FromStart(u, J, k))
    BY <1>1
  <2>6. WalkOK(w0, u, J, P, k, c, hr)
    BY <1>1, <2>2, <2>3, <2>4, <2>5 DEF WalkOK, Ascending
  <2> QED BY <1>0, <2>3, <2>6
<1>3. Runs(A, u, k, hr)
  <2> SUFFICES ASSUME NEW v \in A
               PROVE  /\ v.at \in Nat /\ v.done \in BOOLEAN /\ (~v.done => v.d.ts = u)
                      /\ ~v.done /\ v.at < Len(u)
                         => /\ WalkStep(v, k, hr) \in A
                            /\ WalkStep(v, k, hr).done \/ v.at < WalkStep(v, k, hr).at
    BY DEF Runs
  <2>1. v \in WalkState /\ WalkOK(v, u, J, P, k, c, hr) /\ v \in B
    OBVIOUS
  <2>2. v.at \in Nat /\ v.done \in BOOLEAN /\ v.d \in Demux
    BY <2>1 DEF WalkState
  <2>3. ~v.done => v.d.ts = u
    BY <2>1, <2>2 DEF WalkOK, Demux
  <2>4. ASSUME ~v.done, v.at < Len(u)
        PROVE  /\ WalkOK(WalkStep(v, k, hr), u, J, P, k, c, hr)
               /\ WalkStep(v, k, hr).done \/ v.at < WalkStep(v, k, hr).at
    BY <2>1, <2>4, WalkKept
  <2>5. ASSUME ~v.done, v.at < Len(u) PROVE WalkStep(v, k, hr) \in WalkState /\ WalkStep(v, k, hr) \in B
    BY <2>1, <2>4, <2>5 DEF WalkOK
  <2> QED BY <2>2, <2>3, <2>4, <2>5
<1>4. w \in A /\ (w.done \/ Len(u) <= w.at)
  <2> HIDE DEF A, w
  <2> QED BY <1>1, <1>2, <1>3, WalkEnds DEF w
<1> HIDE DEF w
<1>5. w \in B /\ WalkOK(w, u, J, P, k, c, hr) /\ (w.done \/ Len(u) <= w.at)
  BY <1>4
<1> QED BY <1>5 DEF w, w0

-----------------------------------------------------------------------------
(***************************************************************************)
(* processPacket().                                                        *)
(***************************************************************************)
\* What remains in the buffer u, from position a on, when the sections l were extracted.
Remains(ts, l, u, J, k, a) ==
    /\ ts = SubSeq(u, a + 1, Len(u))
    /\ a < Len(u) => NoneAt(u, a, k)
    /\ \A i \in 1 .. Len(l) : Ended(l[i], u, J, a)
    /\ Aligned(u, J, 0) => Aligned(u, J, a)

\* The result r of processPacket(), when the buffer was u, for a context with continuity c.
Outcome(r, u, J, k, c, hr) ==
    /\ r.d \in Demux /\ r.sections \in Seq(Sent) /\ r.tables \in Seq(FullTable)
    /\ Ascending(r.sections)
    /\ \A i \in 1 .. Len(r.sections) : Ended(r.sections[i], u, J, Len(u))
    /\ ~r.d.sync => r.d.ts = <<>> /\ (hr \/ r.sections = <<>>)
    /\ r.d.sync => r.d.cc = c
    /\ \E a \in 0 .. Len(u) : Remains(r.d.ts, r.sections, u, J, k, a)

\* What is made of the state w after the loop.
Result(w) == [d |-> [w.d EXCEPT !.ts = SubSeq(@, w.at + 1, Len(@))],
              sections |-> w.sections, tables |-> w.tables, garbage |-> w.garbage]

\* The loop, and what is left for the next packet.
LEMMA WalkOutcome ==
    ASSUME NEW u, NEW J, NEW P, NEW k, Buffer(u, J, P, k), J = 0 \/ FromStart(u, J, k), J <= Len(u),
           NEW d \in Demux, d.ts = u, d.sync, NEW hr \in BOOLEAN, NEW w0,
           w0 = LoopFrom(d, P)
    PROVE  Outcome(Result(Walk(w0, k, hr)), u, J, k, d.cc, hr)
<1> DEFINE c == d.cc
           w == Walk(w0, k, hr)
           x == SubSeq(w.d.ts, w.at + 1, Len(w.d.ts))
           b == [w.d EXCEPT !.ts = x]
           r == [d |-> b, sections |-> w.sections, tables |-> w.tables, garbage |-> w.garbage]
<1>1. u \in Seq(Raw) /\ Len(u) \in Nat /\ J \in Nat /\ Flow(u, J) /\ P \in Int
  BY DEF Buffer, Flow
<1>2. LoopFrom(d, P) = w0
  OBVIOUS
<1>4. WalkOK(w, u, J, P, k, c, hr) /\ (w.done \/ Len(u) <= w.at)
  <2> DEFINE B == {LoopFrom(d, P)} \cup {v \in WalkState : TRUE}
  <2>1. LoopFrom(d, P) \in B
    OBVIOUS
  <2>2. ASSUME NEW v \in B, WalkOK(v, u, J, P, k, d.cc, hr), ~v.done, v.at < Len(u)
        PROVE  WalkStep(v, k, hr) \in B
    <3>1. WalkOK(WalkStep(v, k, hr), u, J, P, k, d.cc, hr)
      BY <2>2, WalkKept
    <3> QED BY <3>1 DEF WalkOK
  <2> HIDE DEF B
  <2>3. WalkOK(Walk(LoopFrom(d, P), k, hr), u, J, P, k, d.cc, hr)
        /\ (Walk(LoopFrom(d, P), k, hr).done \/ Len(u) <= Walk(LoopFrom(d, P), k, hr).at)
    BY <2>1, <2>2, WalkIn
  <2> QED BY <1>2, <2>3
<1>5. w \in WalkState
  BY <1>4 DEF WalkOK
<1> HIDE DEF w
<1>r. Result(w) = r
  BY DEF Result
<1>6. w.d \in Demux /\ w.at \in Nat /\ w.sections \in Seq(Sent) /\ w.tables \in Seq(FullTable)
      /\ w.d.ts \in Seq(Raw) /\ w.done \in BOOLEAN /\ w.d.sync \in BOOLEAN
  BY <1>5 DEF WalkState, Demux
<1>7. x \in Seq(Raw)
  BY <1>6
<1> HIDE DEF x
<1>8. b \in Demux /\ b.ts = x /\ b.sync = w.d.sync /\ b.cc = w.d.cc
  BY <1>6, <1>7 DEF Demux
<1> HIDE DEF b
<1>9. r.d = b /\ r.sections = w.sections /\ r.tables = w.tables
  OBVIOUS
<1>10. Ascending(w.sections) /\ \A i \in 1 .. Len(w.sections) : Ended(w.sections[i], u, J, Len(u))
  BY <1>4 DEF WalkOK
<1>11. CASE w.d.sync
  <2>1. /\ w.d.ts = u /\ w.d.cc = c /\ w.at <= Len(u)
        /\ \A i \in 1 .. Len(w.sections) : Ended(w.sections[i], u, J, w.at)
        /\ Aligned(u, J, 0) => Aligned(u, J, w.at)
        /\ w.done => NoneAt(u, w.at, k)
    BY <1>4, <1>11 DEF WalkOK
  <2>2. w.at < Len(u) => w.done
    BY <1>1, <1>4, <1>6
  <2>3. Remains(x, w.sections, u, J, k, w.at)
    BY <2>1, <2>2 DEF Remains, x
  <2>4. w.at \in 0 .. Len(u)
    BY <1>1, <1>6, <2>1
  <2>5. Outcome(r, u, J, k, c, hr)
    <3> HIDE DEF r
    <3> QED BY <1>6, <1>8, <1>9, <1>10, <1>11, <2>1, <2>3, <2>4 DEF Outcome
  <2> HIDE DEF r
  <2> QED BY <1>r, <2>5 DEF w
<1>12. CASE ~w.d.sync
  <2>1. w.d.ts = <<>> /\ w.at = 0 /\ (hr \/ w.sections = <<>>)
    BY <1>4, <1>12 DEF WalkOK
  <2>2. x = <<>>
    BY <2>1 DEF x
  <2> DEFINE a == Len(u)
  <2>3. SubSeq(u, a + 1, Len(u)) = <<>> /\ a \in 0 .. Len(u) /\ ~(a < Len(u))
    BY <1>1
  <2>4. Aligned(u, J, a)
    BY <1>1, <2>3 DEF Aligned
  <2>5. Remains(x, w.sections, u, J, k, a)
    BY <1>10, <2>2, <2>3, <2>4 DEF Remains
  <2>6. Outcome(r, u, J, k, c, hr)
    <3> HIDE DEF r, a
    <3> QED BY <1>6, <1>8, <1>9, <1>10, <1>12, <2>1, <2>2, <2>3, <2>5 DEF Outcome
  <2> HIDE DEF r
  <2> QED BY <1>r, <2>6 DEF w
<1> QED BY <1>6, <1>11, <1>12

\* A packet which the demux can get.
PacketOK(pkt) ==
    /\ Flow(pkt.data, 0) /\ pkt.cc \in Nat /\ pkt.pusi \in BOOLEAN
    /\ pkt.pusi => /\ pkt.pointer \in Nat /\ pkt.pointer < Len(pkt.data)
                   /\ pkt.data[pkt.pointer + 1].at = 1 /\ Len(pkt.data) < PayloadSize

\* The context d between two packets: what is in its buffer is no complete section.
Waiting(d, k) ==
    /\ d \in Demux /\ k \in DOMAIN Junk
    /\ ~d.sync => d.ts = <<>>
    /\ d.ts # <<>> => NoneAt(d.ts, 0, k)

\* The bytes l of the buffer, and those of a packet from position q on.
Buffered(l, pkt, q) == l \o SubSeq(pkt.data, q + 1, Len(pkt.data))

\* The packet is ignored; or the section which starts in it is awaited; or it is processed.
NoneFrom(d) == [d |-> d, sections |-> <<>>, tables |-> <<>>, garbage |-> FALSE]
Ignores(r, d, pkt) == d.sync /\ pkt.cc = d.cc /\ r = NoneFrom(d)
Awaits(r, d, pkt) ==
    /\ ~pkt.pusi /\ (~d.sync \/ pkt.cc # (d.cc + 1) % CC_MAX)
    /\ r = NoneFrom(r.d)
    /\ r.d \in Demux /\ ~r.d.sync /\ r.d.ts = <<>> /\ r.d.tids = d.tids
Processes(r, d, pkt, k, hr) ==
    \/ /\ d.sync /\ pkt.cc = (d.cc + 1) % CC_MAX
       /\ Outcome(r, Buffered(d.ts, pkt, 0), Len(d.ts), k, pkt.cc, hr)
    \/ /\ ~d.sync \/ pkt.cc # (d.cc + 1) % CC_MAX
       /\ pkt.pusi /\ Aligned(Buffered(<<>>, pkt, pkt.pointer), 0, 0)
       /\ Outcome(r, Buffered(<<>>, pkt, pkt.pointer), 0, k, pkt.cc, hr)

\* The bytes t are the bytes l, and the data from position q on.
Appended(t, l, data, q) ==
    /\ Flow(t, Len(l)) /\ Len(t) = Len(l) + (Len(data) - q)
    /\ \A i \in 1 .. Len(l) : t[i] = l[i]
    /\ \A i \in 1 .. Len(t) : Len(l) < i => t[i] = data[(i - Len(l)) + q]

\* After the bytes of previous packets, the buffer is a flow.
LEMMA BufferedFlow ==
    ASSUME NEW pkt, Flow(pkt.data, 0), NEW l \in Seq(Raw), NEW q \in Nat, q <= Len(pkt.data),
           NEW t, t = Buffered(l, pkt, q)
    PROVE  Appended(t, l, pkt.data, q)
<1> DEFINE data == pkt.data
<1>1. Flow(data, 0) /\ q <= Len(data) /\ t = l \o SubSeq(data, q + 1, Len(data))
  BY DEF Buffered
<1> HIDE DEF data
<1>2. /\ Flow(t, Len(l)) /\ Len(t) = Len(l) + (Len(data) - q)
      /\ \A i \in 1 .. Len(l) : t[i] = l[i]
      /\ \A i \in 1 .. Len(t) : Len(l) < i => t[i] = data[(i - Len(l)) + q]
  BY <1>1, FlowPart
<1> QED BY <1>2 DEF data, Appended

\* The loop starts in context e, with the buffer u, when the packet comes in context d.
Starts(e, u, J, P, d, pkt, k) ==
    /\ e \in Demux /\ e.ts = u /\ e.sync /\ e.cc = pkt.cc /\ e.tids = d.tids
    /\ Buffer(u, J, P, k) /\ J <= Len(u) /\ (J = 0 \/ FromStart(u, J, k))
    /\ \/ /\ d.sync /\ pkt.cc = (d.cc + 1) % CC_MAX
          /\ u = Buffered(d.ts, pkt, 0) /\ J = Len(d.ts) /\ (pkt.pusi => P = J + pkt.pointer)
       \/ /\ ~d.sync \/ pkt.cc # (d.cc + 1) % CC_MAX
          /\ pkt.pusi /\ u = Buffered(<<>>, pkt, pkt.pointer) /\ J = 0 /\ Aligned(u, 0, 0)

\* processPacket() of a packet in a context which waits for it: the loop, if any.
LEMMA ProcessPacketIs ==
    ASSUME NEW d0, NEW k, Waiting(d0, k), NEW pkt, PacketOK(pkt), NEW hr \in BOOLEAN
    PROVE  LET r == ProcessPacket(d0, pkt, k, hr)
           IN  \/ Ignores(r, d0, pkt) \/ Awaits(r, d0, pkt)
               \/ /\ ~(d0.sync /\ pkt.cc = d0.cc)
                  /\ \E e, u, J, P : Starts(e, u, J, P, d0, pkt, k) /\ r = Result(Walk(LoopFrom(e, P), k, hr))
<1> DEFINE r == ProcessPacket(d0, pkt, k, hr)
           d == CheckContinuity(d0, pkt)
           kept == IF d0.sync /\ pkt.cc # (d0.cc + 1) % CC_MAX THEN SyncLost(d0) ELSE d0
           q == IF d.sync THEN 0 ELSE pkt.pointer
           payload == SubSeq(pkt.data, q + 1, Len(pkt.data))
           u == d.ts \o payload
           J == Len(d.ts)
           P == IF pkt.pusi THEN Len(u) - Len(payload) + pkt.pointer - q ELSE -1
           yes == TRUE
           e == [d EXCEPT !.sync = yes, !.ts = u]
           w0 == LoopFrom(e, P)
           w == Walk(w0, k, hr)
<1>1. d0 \in Demux /\ k \in DOMAIN Junk /\ pkt.cc \in Nat /\ Flow(pkt.data, 0) /\ pkt.pusi \in BOOLEAN
      /\ pkt.data \in Seq(Raw) /\ Len(pkt.data) \in Nat
  BY DEF Waiting, PacketOK, Flow
<1>2. kept \in Demux /\ kept.tids = d0.tids
      /\ (~kept.sync => kept.ts = <<>>)
      /\ (kept.sync <=> d0.sync /\ pkt.cc = (d0.cc + 1) % CC_MAX)
      /\ (kept.sync => kept.ts = d0.ts)
  <2>1. CASE d0.sync /\ pkt.cc # (d0.cc + 1) % CC_MAX
    BY <1>1, <2>1, DemuxValues
  <2>2. CASE ~(d0.sync /\ pkt.cc # (d0.cc + 1) % CC_MAX)
    BY <1>1, <2>2 DEF Waiting, Demux
  <2> QED BY <2>1, <2>2
<1>3. d \in Demux /\ d.sync = kept.sync /\ d.ts = kept.ts /\ d.tids = kept.tids /\ d.cc = pkt.cc
  <2> DEFINE c == pkt.cc
  <2>1. d = [kept EXCEPT !.cc = c]
    BY DEF CheckContinuity
  <2>2. c \in Nat
    BY <1>1
  <2> HIDE DEF d, c, kept
  <2> QED BY <1>2, <2>1, <2>2 DEF Demux, c
<1> HIDE DEF d, kept
<1>4. d.ts \in Seq(Raw) /\ J \in Nat
  BY <1>3 DEF Demux
<1>5. CASE Duplicate(d0, pkt)
  <2>1. r = NoneFrom(d0)
    BY <1>5 DEF ProcessPacket, NoneFrom
  <2> QED BY <1>5, <2>1 DEF Ignores, Duplicate
<1>6. CASE ~Duplicate(d0, pkt) /\ ~d.sync /\ ~pkt.pusi
  <2>1. r = NoneFrom(d)
    <3>1. ~Duplicate(d0, pkt) /\ ~CheckContinuity(d0, pkt).sync /\ ~pkt.pusi
      BY <1>6 DEF d
    <3> QED BY <3>1 DEF ProcessPacket, NoneFrom, d
  <2> HIDE DEF r
  <2>2. Awaits(r, d0, pkt)
    BY <1>2, <1>3, <1>6, <2>1 DEF Awaits, NoneFrom
  <2> QED BY <2>2 DEF r
<1>7. CASE ~Duplicate(d0, pkt) /\ (d.sync \/ pkt.pusi)
  <2>1. r = [d |-> [w.d EXCEPT !.ts = SubSeq(@, w.at + 1, Len(@))],
             sections |-> w.sections, tables |-> w.tables, garbage |-> w.garbage]
    <3>1. ~Duplicate(d0, pkt) /\ (CheckContinuity(d0, pkt).sync \/ pkt.pusi)
      BY <1>7 DEF d
    <3> QED BY <3>1, ZenonT(60) DEF ProcessPacket, LoopFrom, d
  <2>2. q \in Nat /\ q <= Len(pkt.data) /\ (pkt.pusi => q <= pkt.pointer)
    BY <1>1, <1>7 DEF PacketOK
  <2>3. u = Buffered(d.ts, pkt, q)
    BY DEF Buffered
  <2> HIDE DEF q, u
  <2>4. /\ Flow(u, J) /\ Len(u) = J + (Len(pkt.data) - q)
        /\ \A i \in 1 .. J : u[i] = d.ts[i]
        /\ \A i \in 1 .. Len(u) : J < i => u[i] = pkt.data[(i - J) + q]
    <3> DEFINE l == d.ts
    <3>1. l \in Seq(Raw) /\ u = Buffered(l, pkt, q)
      BY <1>4, <2>3
    <3> HIDE DEF l, r, e, w, P
    <3>2. Appended(u, l, pkt.data, q)
      BY <1>1, <2>2, <3>1, BufferedFlow
    <3> QED BY <3>2 DEF l, Appended
  <2>5. Len(payload) = Len(pkt.data) - q
    <3>1. \A i \in q + 1 .. Len(pkt.data) : i \in DOMAIN pkt.data
      BY <1>1, <2>2
    <3> QED BY <1>1, <2>2, <3>1
  <2> DEFINE N == Len(u)  n == Len(pkt.data)  m == Len(payload)
  <2>6. ASSUME pkt.pusi PROVE P \in Nat /\ J <= P /\ P < Len(u) /\ u[P + 1].at = 1 /\ P = J + (pkt.pointer - q)
    <3> DEFINE z == pkt.pointer
    <3>1. z \in Nat /\ z < n /\ q <= z
      BY <2>2, <2>6 DEF PacketOK
    <3>2. N \in Nat /\ n \in Nat /\ m \in Nat /\ N = J + (n - q) /\ m = n - q /\ J \in Nat /\ q \in Nat
      <4>1. n \in Nat /\ J \in Nat /\ q \in Nat /\ q <= n
        BY <1>1, <1>4, <2>2
      <4>2. N = J + (n - q) /\ m = n - q
        BY <2>4, <2>5
      <4> HIDE DEF N, n, m, J
      <4> QED BY <4>1, <4>2
    <3>3. P = (N - m) + (z - q)
      <4>1. pkt.pusi = TRUE
        BY <1>1, <2>6
      <4> HIDE DEF payload, J, q, u
      <4> QED BY <4>1, Zenon
    <3> HIDE DEF N, n, m, P, J, z
    <3>4. P = J + (z - q)
      BY <3>1, <3>2, <3>3
    <3>5. P \in Nat /\ J <= P /\ P < N /\ P + 1 \in 1 .. N /\ J < P + 1
          /\ ((P + 1) - J) + q = z + 1
      BY <3>1, <3>2, <3>4
    <3>6. u[P + 1] = pkt.data[pkt.pointer + 1]
      <4>1. u[P + 1] = pkt.data[((P + 1) - J) + q]
        BY <2>4, <3>5 DEF N, J
      <4> QED BY <3>5, <4>1 DEF z
    <3>7. u[P + 1].at = 1
      BY <2>6, <3>6 DEF PacketOK
    <3> QED BY <3>4, <3>5, <3>7 DEF N, z
  <2> HIDE DEF P, payload
  <2>7. Buffer(u, J, P, k)
    <3>1. CASE pkt.pusi
      BY <1>1, <2>4, <2>6, <3>1 DEF Buffer
    <3>2. CASE ~pkt.pusi
      BY <1>1, <2>4, <3>2 DEF Buffer, P
    <3> QED BY <3>1, <3>2
  <2>8. J <= Len(u)
    BY <1>1, <1>4, <2>2, <2>4
  <2>9. J = 0 \/ FromStart(u, J, k)
    <3> SUFFICES ASSUME J # 0 PROVE FromStart(u, J, k)
      OBVIOUS
    <3>1. d.ts # <<>> /\ 1 \in 1 .. J
      BY <1>4
    <3>2. d.ts = d0.ts
      BY <1>2, <1>3, <3>1
    <3>3. NoneAt(d.ts, 0, k)
      BY <3>1, <3>2 DEF Waiting
    <3>4. u[1] = d.ts[1]
      BY <2>4, <3>1
    <3>5. J < ShortHeader \/ J < Header(u[0 + 1], k).size
      BY <1>4, <3>3, <3>4 DEF NoneAt
    <3> QED BY <3>5 DEF FromStart
  <2>10. e \in Demux /\ e.ts = u /\ e.sync /\ e.cc = pkt.cc /\ e.tids = d0.tids
    <3>1. u \in Seq(Raw)
      BY <2>4 DEF Flow
    <3> HIDE DEF yes
    <3>2. yes \in BOOLEAN /\ yes
      BY DEF yes
    <3> QED BY <1>2, <1>3, <3>1, <3>2 DEF Demux
  <2>11. r = Result(Walk(LoopFrom(e, P), k, hr))
    <3>1. w0 = LoopFrom(e, P)
      BY DEF LoopFrom
    <3> HIDE DEF w0, e
    <3>2. Walk(LoopFrom(e, P), k, hr) = w
      BY <3>1
    <3> HIDE DEF w
    <3> QED BY <2>1, <3>2 DEF Result
  <2> HIDE DEF e, r
  <2>12. CASE d.sync
    <3>1. d.ts = d0.ts /\ q = 0 /\ d0.sync /\ pkt.cc = (d0.cc + 1) % CC_MAX
      BY <1>2, <1>3, <2>12 DEF q
    <3>2. pkt.pusi => P = J + pkt.pointer
      BY <2>2, <2>6, <3>1 DEF PacketOK
    <3> DEFINE j == J
    <3>3. u = Buffered(d0.ts, pkt, 0) /\ j = Len(d0.ts)
      BY <2>3, <3>1
    <3>4. Starts(e, u, j, P, d0, pkt, k)
      <4>1. Buffer(u, j, P, k) /\ j <= Len(u) /\ (j = 0 \/ FromStart(u, j, k)) /\ (pkt.pusi => P = j + pkt.pointer)
        BY <2>7, <2>8, <2>9, <3>2
      <4> HIDE DEF j
      <4> QED BY <2>10, <3>1, <3>3, <4>1 DEF Starts
    <3> HIDE DEF j
    <3> QED BY <1>7, <2>11, <3>4 DEF r, Duplicate
  <2>13. CASE ~d.sync
    <3>1. d.ts = <<>> /\ q = pkt.pointer /\ pkt.pusi /\ J = 0
      BY <1>2, <1>3, <1>7, <2>13 DEF q
    <3>2. ~d0.sync \/ pkt.cc # (d0.cc + 1) % CC_MAX
      BY <1>2, <1>3, <2>13
    <3>3. Aligned(u, 0, 0)
      <4>1. P = 0 /\ u[P + 1].at = 1 /\ Len(u) \in Nat
        <5>1. P = J + (pkt.pointer - q) /\ u[P + 1].at = 1
          BY <2>6, <3>1
        <5>2. Len(u) \in Nat
          BY <2>4 DEF Flow
        <5> QED BY <2>2, <3>1, <5>1, <5>2
      <4> QED BY <4>1 DEF Aligned
    <3> DEFINE j == J
    <3>4. Starts(e, u, j, P, d0, pkt, k)
      <4>1. Buffer(u, j, P, k) /\ j <= Len(u) /\ (j = 0 \/ FromStart(u, j, k)) /\ j = 0
        BY <2>7, <2>8, <2>9, <3>1
      <4>2. u = Buffered(<<>>, pkt, pkt.pointer)
        BY <2>3, <3>1
      <4> HIDE DEF j
      <4> QED BY <2>10, <3>1, <3>2, <3>3, <4>1, <4>2 DEF Starts
    <3> HIDE DEF j
    <3> QED BY <1>7, <2>11, <3>4 DEF r, Duplicate
  <2> QED BY <2>12, <2>13
<1>8. d.sync \in BOOLEAN
  BY <1>3 DEF Demux
<1> QED BY <1>1, <1>5, <1>6, <1>7, <1>8

\* What the loop leaves and delivers then.
LEMMA ProcessPacketOK ==
    ASSUME NEW d0, NEW k, Waiting(d0, k), NEW pkt, PacketOK(pkt), NEW hr \in BOOLEAN
    PROVE  LET r == ProcessPacket(d0, pkt, k, hr)
           IN  Ignores(r, d0, pkt) \/ Awaits(r, d0, pkt) \/ Processes(r, d0, pkt, k, hr)
<1> DEFINE r == ProcessPacket(d0, pkt, k, hr)
<1>1. \/ Ignores(r, d0, pkt) \/ Awaits(r, d0, pkt)
      \/ \E e, u, J, P : Starts(e, u, J, P, d0, pkt, k) /\ r = Result(Walk(LoopFrom(e, P), k, hr))
  BY ProcessPacketIs
<1> HIDE DEF r
<1>2. ASSUME NEW e, NEW u, NEW J, NEW P, Starts(e, u, J, P, d0, pkt, k),
             r = Result(Walk(LoopFrom(e, P), k, hr))
      PROVE  Processes(r, d0, pkt, k, hr)
  <2>1. /\ e \in Demux /\ e.ts = u /\ e.sync /\ e.cc = pkt.cc
        /\ Buffer(u, J, P, k) /\ J <= Len(u) /\ (J = 0 \/ FromStart(u, J, k))
    BY <1>2 DEF Starts
  <2> DEFINE w0 == LoopFrom(e, P)
  <2>2. w0 = LoopFrom(e, P)
    OBVIOUS
  <2> HIDE DEF w0
  <2>3. Outcome(Result(Walk(w0, k, hr)), u, J, k, e.cc, hr)
    BY <2>1, <2>2, WalkOutcome
  <2>4. Outcome(r, u, J, k, pkt.cc, hr)
    BY <1>2, <2>1, <2>3 DEF w0
  <2> QED BY <1>2, <2>4 DEF Starts, Processes
<1> QED BY <1>1, <1>2 DEF r

-----------------------------------------------------------------------------
(***************************************************************************)
(* The order in which sections are delivered.                              *)
(***************************************************************************)
\* Section x was sent and is not the current one of z.
Done(x, z, V) == Past(x, z, V) /\ x # z.section

\* The bytes of u were sent, those at the end of a section after all of its bytes.
SentBytes(u, z, V) ==
    \A i \in 1 .. Len(u) :
        u[i] # Stuffing => /\ Past(u[i].of, z, V)
                           /\ u[i].at = u[i].of.size => Done(u[i].of, z, V)

\* Section x was sent before all bytes of u; or it ends in u.
Before(x, u) == \A i \in 1 .. Len(u) : u[i] # Stuffing => Prior(x, u[i].of)
EndsIn(x, u) == \E m \in 1 .. Len(u) : u[m] = [of |-> x, at |-> x.size]

\* The occurrences of the sections which end in u.
EndedIn(u) == {u[i].of.occ : i \in {m \in 1 .. Len(u) : u[m] # Stuffing /\ u[m].at = u[m].of.size}}

LinkTypes ==
    /\ Waiting(demux, junk) /\ PacketOK(packet) /\ gap \in Nat /\ forgot \in BOOLEAN
    /\ sections \in Seq(Sent) /\ tables \in Seq(FullTable)

\* What is known of the bytes which were sent, and of the sections which were delivered.
Emitted == /\ SentBytes(packet.data, zer, version) /\ SentBytes(demux.ts, zer, version)
           /\ EndedIn(packet.data) \subseteq completed

WasSent(s, z, V, C, ts, data) ==
    Done(s, z, V) /\ s.occ \in C /\ Before(s, ts) /\ (Before(s, data) \/ EndsIn(s, data))
Delivery ==
    \A i \in 1 .. Len(sections) :
        WasSent(sections[i], zer, version, completed, demux.ts, packet.data)

\* A packet which may be repeated: it is known to the demux, or brought it no section.
Repeatable ==
    gap = 0 => /\ demux.sync => demux.cc = packet.cc
               /\ ~demux.sync /\ ~forgot
                  => \A i \in 1 .. Len(sections) : Before(sections[i], packet.data)

InOrder(list, f) ==
    \A i, j \in 1 .. Len(list) :
        i < j => Prior(list[i], list[j]) \/ (f /\ InOnePacket(list[i], list[j]))

DeliveryInv == LinkTypes /\ Emitted /\ Delivery /\ Repeatable /\ InOrder(sections, forgot)

\* The sections of X, which z had sent, after y sent the bytes u.
StillSent(X, u, y, z, V) ==
    \A x \in X : Past(x, y, V) /\ (Done(x, z, V) => Done(x, y, V) /\ Before(x, u))

\* The packet which the packetizer gives, and what was sent before.
LEMMA NewPacketSent ==
    ASSUME NEW V \in Versions, NEW z, Good(z, V), NEW X, NEW y, Good(y, V), NEW pkt, NEW d,
           NewPacket(pkt, d, y, z, V, X)
    PROVE  PacketOK(pkt) /\ SentBytes(pkt.data, y, V) /\ StillSent(X, pkt.data, y, z, V)
<1> DEFINE L == Len(d)  b == d[Len(d)]  u == pkt.data  f == d[1].of
<1>1. PacketShape(pkt, d) /\ Chain(d) /\ d \in Seq(Byte) /\ L \in Nat /\ 1 <= L /\ SentUpTo(y, d, V, X)
  <2>1. PacketShape(pkt, d) /\ Chain(d) /\ d \in Seq(Byte) /\ d # <<>> /\ SentUpTo(y, d, V, X)
    BY DEF NewPacket, PacketShape, Chain
  <2> QED BY <2>1
<1>2. /\ IF y.next > 0 THEN b.of = y.section /\ b.at = y.next /\ u = d
         ELSE b.at = b.of.size /\ b.of # y.section
  BY DEF NewPacket, SentUpTo
<1>3. Flow(u, 0) /\ L <= Len(u) /\ (\A i \in 1 .. L : u[i] = d[i])
      /\ \A i \in 1 .. Len(u) : L < i => u[i] = Stuffing
  <2>1. d[Len(d)].at = d[Len(d)].of.size \/ pkt.data = d
    BY <1>2
  <2> QED BY <1>1, <2>1, PacketFlow
<1>4. PacketOK(pkt)
  <2>1. pkt.cc \in Nat /\ pkt.pusi \in BOOLEAN
    BY <1>1 DEF NewPacket, PacketShape, Good, Exact, Object
  <2>2. ASSUME pkt.pusi
        PROVE  /\ pkt.pointer \in Nat /\ pkt.pointer < Len(u) /\ u[pkt.pointer + 1].at = 1
               /\ Len(u) < PayloadSize
    <3>1. pkt.pointer \in Nat /\ pkt.pointer < L /\ d[pkt.pointer + 1].at = 1 /\ Len(u) < PayloadSize
      BY <1>1, <2>2 DEF PacketShape
    <3>2. Len(u) \in Nat
      BY <1>3 DEF Flow
    <3> DEFINE q == pkt.pointer
    <3>3. q + 1 \in 1 .. L /\ q < Len(u)
      <4>1. q \in Nat /\ q < L
        BY <3>1
      <4> HIDE DEF q, L
      <4> QED BY <1>1, <1>3, <3>2, <4>1
    <3> QED BY <1>3, <3>1, <3>3
  <2> QED BY <1>3, <2>1, <2>2 DEF PacketOK
<1>5. ASSUME NEW i \in 1 .. L
      PROVE  /\ d[i] \in Byte /\ d[i].of \in Sent /\ Past(d[i].of, y, V) /\ Upto(d[i].of, b.of)
             /\ Upto(f, d[i].of) /\ d[i].of \in SectionsOf(d)
  <2>1. d[i] \in Byte /\ d[i].of \in SectionsOf(d)
    BY <1>1 DEF SectionsOf
  <2>2. d[i].of \in Sent
    BY <2>1 DEF Byte
  <2>3. Past(d[i].of, y, V)
    BY <1>1, <2>1 DEF SentUpTo
  <2>4. 1 \in 1 .. L /\ L \in 1 .. L /\ (i = L \/ i < L) /\ (i = 1 \/ 1 < i)
    BY <1>1
  <2>5. i < L => Upto(d[i].of, b.of)
    BY <1>1, <2>4 DEF Chain
  <2>6. 1 < i => Upto(f, d[i].of)
    BY <1>1, <2>4 DEF Chain
  <2> QED BY <2>1, <2>2, <2>3, <2>4, <2>5, <2>6 DEF Upto
<1>6. L \in 1 .. L /\ b \in Byte /\ b.of \in Sent /\ Past(b.of, y, V) /\ b.of.occ \in Nat
  <2>1. L \in 1 .. L
    BY <1>1
  <2>2. b \in Byte /\ b.of \in Sent /\ Past(b.of, y, V)
    BY <1>5, <2>1
  <2> QED BY <2>1, <2>2, SentSize
<1>7. ASSUME NEW x \in Sent, x.occ < b.of.occ PROVE x # y.section
  <2> SUFFICES ASSUME x = y.section PROVE FALSE
    OBVIOUS
  <2>1. x # NullSection /\ x.occ \in Nat
    BY SentSize
  <2>2. Upto(b.of, x)
    BY <1>6, <2>1 DEF Past
  <2> QED BY <1>6, <1>7, <2>1, <2>2 DEF Upto, Prior
<1> HIDE DEF L, b, u, f
<1>8. ASSUME NEW i \in 1 .. L, d[i].at = d[i].of.size PROVE d[i].of # y.section
  <2> DEFINE s == d[i].of
  <2>1. s \in Sent /\ Upto(s, b.of) /\ d[i] \in Byte
    BY <1>5
  <2>2. CASE y.next > 0
    <3>1. b.of = y.section /\ b.at = y.next /\ u = d
      BY <1>2, <2>2
    <3>2. CASE i = L
      <4>1. b = d[i]
        BY <3>2 DEF b, L
      <4>2. y.section # NullSection
        BY <1>6, <3>1, SentSize
      <4>3. y.next \in 0 .. y.section.size - 1
        BY <4>2 DEF Good, Placed
      <4>4. y.section.size \in Nat
        BY <1>6, <3>1, SentSize
      <4> QED BY <1>8, <3>1, <4>1, <4>3, <4>4
    <3>3. CASE i # L
      <4>1. i \in 1 .. Len(u) /\ L \in 1 .. Len(u) /\ 0 < i /\ i < L
        BY <1>1, <1>6, <3>1, <3>3 DEF L
      <4>2. u[i] = d[i] /\ u[L] = b /\ d[i] # Stuffing /\ b # Stuffing
        BY <1>6, <2>1, <3>1, RawByte DEF b, L, Raw
      <4>3. u[i].of # u[L].of
        BY <1>3, <1>8, <4>1, <4>2, FlowAfter
      <4> QED BY <3>1, <4>2, <4>3
    <3> QED BY <3>2, <3>3
  <2>3. CASE ~(y.next > 0)
    <3>1. b.of # y.section
      BY <1>2, <2>3
    <3>2. s = b.of \/ s.occ < b.of.occ
      BY <2>1 DEF Upto, Prior
    <3> QED BY <1>7, <2>1, <3>1, <3>2
  <2> QED BY <2>2, <2>3
<1>9. ASSUME NEW i \in 1 .. Len(u), u[i] # Stuffing PROVE i \in 1 .. L /\ u[i] = d[i]
  <2>1. Len(u) \in Nat
    BY <1>3 DEF Flow
  <2>2. ~(L < i)
    BY <1>3, <1>9
  <2>3. i \in 1 .. L
    BY <1>1, <2>1, <2>2
  <2> QED BY <1>3, <2>3
<1>10. SentBytes(u, y, V)
  <2> SUFFICES ASSUME NEW i \in 1 .. Len(u), u[i] # Stuffing
               PROVE  /\ Past(u[i].of, y, V)
                      /\ u[i].at = u[i].of.size => Done(u[i].of, y, V)
    BY DEF SentBytes
  <2>1. i \in 1 .. L /\ u[i] = d[i]
    BY <1>9
  <2>2. Past(d[i].of, y, V)
    BY <1>5, <2>1
  <2>3. d[i].at = d[i].of.size => d[i].of # y.section
    BY <1>8, <2>1
  <2> QED BY <2>1, <2>2, <2>3 DEF Done
<1>11. StillSent(X, u, y, z, V)
  <2>1. ASSUME NEW x \in X PROVE Past(x, y, V)
    BY <1>1 DEF SentUpTo
  <2>2. ASSUME NEW x \in X, Done(x, z, V) PROVE Done(x, y, V) /\ Before(x, u)
    <3>1. x \in Sent /\ x.occ \in Nat /\ x.occ < z.in /\ x # z.section
          /\ (z.section # NullSection => Upto(x, z.section))
      BY <2>2, SentSize DEF Done, Past, Old
    <3>2. 1 \in 1 .. L /\ f \in Sent /\ f.occ \in Nat
      <4>1. 1 \in 1 .. L
        BY <1>1
      <4>2. f \in Sent
        BY <1>5, <4>1 DEF f
      <4> QED BY <4>1, <4>2, SentSize
    <3>3. x.occ < f.occ
      <4>1. CASE z.section = NullSection
        BY <3>1, <4>1 DEF NewPacket, f
      <4>2. CASE z.section # NullSection
        <5>1. f = z.section
          BY <4>2 DEF NewPacket, f
        <5> QED BY <3>1, <4>2, <5>1 DEF Prior, Upto
      <4> QED BY <4>1, <4>2
    <3>4. ASSUME NEW i \in 1 .. L PROVE Prior(x, d[i].of)
      <4>1. Upto(f, d[i].of) /\ d[i].of \in Sent
        BY <1>5
      <4>2. d[i].of.occ \in Nat
        BY <4>1, SentSize
      <4>3. x.occ < d[i].of.occ
        BY <3>1, <3>2, <3>3, <4>1, <4>2 DEF Prior, Upto
      <4>4. Upto(x, d[i].of)
        BY <1>1, <1>5 DEF SentUpTo
      <4> QED BY <3>1, <4>3, <4>4 DEF Upto
    <3>5. Before(x, u)
      BY <1>9, <3>4 DEF Before
    <3>6. x # y.section
      <4>1. x.occ < b.of.occ
        BY <1>6, <3>4 DEF Prior, b, L
      <4> QED BY <1>7, <3>1, <4>1
    <3>7. Past(x, y, V)
      BY <2>1
    <3> QED BY <3>5, <3>6, <3>7 DEF Done
  <2> QED BY <2>1, <2>2 DEF StillSent
<1> QED BY <1>4, <1>10, <1>11 DEF u

\* The end of a list of bytes.
LEMMA RestOf ==
    ASSUME NEW u \in Seq(Raw), NEW a \in 0 .. Len(u), NEW t, t = SubSeq(u, a + 1, Len(u))
    PROVE  /\ t \in Seq(Raw) /\ Len(t) \in Nat /\ Len(t) = Len(u) - a
           /\ \A i \in 1 .. Len(t) : t[i] = u[a + i] /\ a + i \in 1 .. Len(u)
<1>1. Len(u) \in Nat /\ a \in Nat /\ a <= Len(u)
  OBVIOUS
<1>2. \A i \in a + 1 .. Len(u) : i \in DOMAIN u
  BY <1>1
<1>3. t \in Seq(Raw) /\ Len(t) = Len(u) - a
  BY <1>1, <1>2
<1>4. ASSUME NEW i \in 1 .. Len(t) PROVE t[i] = u[a + i] /\ a + i \in 1 .. Len(u)
  BY <1>1, <1>2, <1>3
<1> QED BY <1>1, <1>3, <1>4

\* The sections and the bytes in the result r of processPacket(), for the buffer u.
FromBuffer(r, u, J, k) ==
    /\ Waiting(r.d, k)
    /\ \A i \in 1 .. Len(r.sections) : Before(r.sections[i], r.d.ts)
    /\ \A i \in 1 .. Len(r.d.ts) : \E j \in 1 .. Len(u) : r.d.ts[i] = u[j]
    /\ \A i \in 1 .. Len(r.sections) :
          \E m \in 1 .. Len(u) :
             J < m /\ u[m] = [of |-> r.sections[i], at |-> r.sections[i].size]

\* It is so.
LEMMA OutcomeSent ==
    ASSUME NEW u, NEW J, Flow(u, J), NEW k \in DOMAIN Junk, NEW r, NEW c, NEW hr,
           Outcome(r, u, J, k, c, hr)
    PROVE  FromBuffer(r, u, J, k)
<1> DEFINE ts == r.d.ts
<1>1. u \in Seq(Raw) /\ Len(u) \in Nat /\ J \in Nat
  BY DEF Flow
<1>2. PICK a \in 0 .. Len(u) : Remains(r.d.ts, r.sections, u, J, k, a)
  BY DEF Outcome
<1>3. /\ r.d \in Demux /\ r.sections \in Seq(Sent) /\ (~r.d.sync => ts = <<>>)
      /\ \A i \in 1 .. Len(r.sections) : Ended(r.sections[i], u, J, Len(u))
  BY DEF Outcome
<1>4. /\ ts = SubSeq(u, a + 1, Len(u)) /\ (a < Len(u) => NoneAt(u, a, k))
      /\ \A i \in 1 .. Len(r.sections) : Ended(r.sections[i], u, J, a)
  BY <1>2 DEF Remains
<1> HIDE DEF ts
<1>5. /\ ts \in Seq(Raw) /\ Len(ts) \in Nat /\ Len(ts) = Len(u) - a
      /\ \A i \in 1 .. Len(ts) : ts[i] = u[a + i] /\ a + i \in 1 .. Len(u)
  BY <1>1, <1>4, RestOf
<1>6. Waiting(r.d, k)
  <2>1. ASSUME ts # <<>> PROVE NoneAt(ts, 0, k)
    <3>1. a < Len(u) /\ 1 \in 1 .. Len(ts)
      BY <1>1, <1>5, <2>1
    <3>2. ts[1] = u[a + 1] /\ Len(ts) - 0 = Len(u) - a /\ ts[0 + 1] = ts[1]
      BY <1>1, <1>5, <3>1
    <3> QED BY <1>4, <3>1, <3>2 DEF NoneAt
  <2> QED BY <1>3, <2>1 DEF Waiting, ts
<1>7. ASSUME NEW i \in 1 .. Len(r.sections) PROVE Before(r.sections[i], ts)
  <2>1. r.sections[i] \in Sent /\ Ended(r.sections[i], u, J, a)
    BY <1>3, <1>4
  <2>2. ASSUME NEW j \in 1 .. Len(ts), ts[j] # Stuffing PROVE Prior(r.sections[i], ts[j].of)
    <3>1. ts[j] = u[a + j] /\ a + j \in 1 .. Len(u) /\ a < a + j /\ a \in Nat /\ a <= Len(u)
      BY <1>1, <1>5
    <3> QED BY <2>1, <2>2, <3>1, EndedBefore
  <2> QED BY <2>2 DEF Before
<1>8. \A i \in 1 .. Len(ts) : \E j \in 1 .. Len(u) : ts[i] = u[j]
  BY <1>5
<1>9. ASSUME NEW i \in 1 .. Len(r.sections)
      PROVE  \E m \in 1 .. Len(u) :
                J < m /\ u[m] = [of |-> r.sections[i], at |-> r.sections[i].size]
  <2> DEFINE s == r.sections[i]  z == s.size
  <2>1. s \in Sent /\ Ended(s, u, J, Len(u))
    BY <1>3
  <2>2. z \in Nat /\ 1 <= z
    BY <2>1, SentSize, Sizes
  <2>3. PICK n \in Nat : IsAt(s, u, n) /\ J < n + z /\ n + z <= Len(u)
    BY <2>1 DEF Ended
  <2> HIDE DEF s
  <2>4. u[n + z] = [of |-> s, at |-> z]
    BY <2>2, <2>3 DEF IsAt
  <2>5. n + z \in 1 .. Len(u)
    <3> HIDE DEF z
    <3> QED BY <1>1, <2>2, <2>3
  <2> QED BY <2>3, <2>4, <2>5 DEF s
<1> QED BY <1>6, <1>7, <1>8, <1>9 DEF ts, FromBuffer

\* The result r of processPacket(): sections which end in the packet, bytes which were received.
Gives(r, d, pkt, k, hr) ==
    /\ Waiting(r.d, k) /\ r.sections \in Seq(Sent) /\ r.tables \in Seq(FullTable)
    /\ Ascending(r.sections)
    /\ \A i \in 1 .. Len(r.sections) : EndsIn(r.sections[i], pkt.data) /\ Before(r.sections[i], r.d.ts)
    /\ \A i \in 1 .. Len(r.d.ts) : \/ \E j \in 1 .. Len(d.ts) : r.d.ts[i] = d.ts[j]
                                   \/ \E j \in 1 .. Len(pkt.data) : r.d.ts[i] = pkt.data[j]
    /\ ~r.d.sync => hr \/ r.sections = <<>>
    /\ r.d.sync => r.d.cc = pkt.cc

\* The same, from the bytes t which were in the buffer.
LEMMA OutcomeGives ==
    ASSUME NEW d, NEW k \in DOMAIN Junk, NEW pkt, Flow(pkt.data, 0), NEW hr \in BOOLEAN, NEW l \in Seq(Raw),
           l = <<>> \/ l = d.ts, NEW q \in Nat, q <= Len(pkt.data),
           NEW r, Outcome(r, Buffered(l, pkt, q), Len(l), k, pkt.cc, hr)
    PROVE  Gives(r, d, pkt, k, hr)
<1> DEFINE J == Len(l)  data == pkt.data  t == Buffered(l, pkt, q)
<1>0. Outcome(r, t, J, k, pkt.cc, hr)
  OBVIOUS
<1>1. Appended(t, l, pkt.data, q)
  BY BufferedFlow
<1> HIDE DEF t
<1>2. /\ Flow(t, J) /\ Len(t) = J + (Len(data) - q) /\ (\A i \in 1 .. J : t[i] = l[i])
      /\ \A i \in 1 .. Len(t) : J < i => t[i] = data[(i - J) + q]
  BY <1>1 DEF Appended
<1>3. J \in Nat /\ Len(data) \in Nat /\ Len(t) \in Nat
  BY <1>2 DEF Flow
<1>4. /\ Waiting(r.d, k)
      /\ \A i \in 1 .. Len(r.sections) : Before(r.sections[i], r.d.ts)
      /\ \A i \in 1 .. Len(r.d.ts) : \E j \in 1 .. Len(t) : r.d.ts[i] = t[j]
      /\ \A i \in 1 .. Len(r.sections) :
            \E m \in 1 .. Len(t) :
               J < m /\ t[m] = [of |-> r.sections[i], at |-> r.sections[i].size]
  <2>1. FromBuffer(r, t, J, k)
    BY <1>0, <1>2, OutcomeSent
  <2> QED BY <2>1 DEF FromBuffer
<1> HIDE DEF data
<1>5. ASSUME NEW j \in 1 .. Len(t), J < j
      PROVE  (j - J) + q \in 1 .. Len(data) /\ t[j] = data[(j - J) + q]
  <2> HIDE DEF J
  <2> QED BY <1>2, <1>3, <1>5
<1>6. ASSUME NEW i \in 1 .. Len(r.sections) PROVE EndsIn(r.sections[i], data)
  <2>1. PICK m \in 1 .. Len(t) : J < m /\ t[m] = [of |-> r.sections[i], at |-> r.sections[i].size]
    BY <1>4
  <2>2. (m - J) + q \in 1 .. Len(data) /\ t[m] = data[(m - J) + q]
    BY <1>5, <2>1
  <2> QED BY <2>1, <2>2 DEF EndsIn
<1>7. ASSUME NEW i \in 1 .. Len(r.d.ts)
      PROVE  \/ \E j \in 1 .. Len(d.ts) : r.d.ts[i] = d.ts[j]
             \/ \E j \in 1 .. Len(data) : r.d.ts[i] = data[j]
  <2>1. PICK j \in 1 .. Len(t) : r.d.ts[i] = t[j]
    BY <1>4
  <2>2. CASE J < j
    <3>1. (j - J) + q \in 1 .. Len(data) /\ t[j] = data[(j - J) + q]
      BY <1>5, <2>2
    <3> QED BY <2>1, <3>1
  <2>3. CASE ~(J < j)
    <3>1. j \in 1 .. J /\ t[j] = l[j]
      BY <1>2, <1>3, <2>3
    <3>2. l = d.ts
      BY <3>1
    <3> QED BY <2>1, <3>1, <3>2
  <2> QED BY <2>2, <2>3
<1>8. /\ r.sections \in Seq(Sent) /\ r.tables \in Seq(FullTable) /\ Ascending(r.sections)
      /\ (~r.d.sync => hr \/ r.sections = <<>>) /\ (r.d.sync => r.d.cc = pkt.cc)
  BY <1>0 DEF Outcome
<1> QED BY <1>4, <1>6, <1>7, <1>8 DEF Gives, data

\* A packet from which nothing comes.
LEMMA GivesNothing ==
    ASSUME NEW r, NEW d, NEW pkt, NEW k, NEW hr \in BOOLEAN, Waiting(r.d, k), r.sections = <<>>, r.tables = <<>>,
           r.d.ts = <<>> \/ r.d.ts = d.ts, r.d.sync => r.d.cc = pkt.cc
    PROVE  Gives(r, d, pkt, k, hr)
<1>1. r.sections \in Seq(Sent) /\ r.tables \in Seq(FullTable)
  OBVIOUS
<1>2. \A i \in 1 .. Len(r.sections) : FALSE
  OBVIOUS
<1>3. \A i \in 1 .. Len(r.d.ts) : \E j \in 1 .. Len(d.ts) : r.d.ts[i] = d.ts[j]
  <2>1. CASE r.d.ts = <<>>
    BY <2>1
  <2>2. CASE r.d.ts = d.ts
    BY <2>2
  <2> QED BY <2>1, <2>2
<1> QED BY <1>1, <1>2, <1>3 DEF Gives, Ascending

\* processPacket().
LEMMA ProcessedSent ==
    ASSUME NEW d, NEW k, Waiting(d, k), NEW pkt, PacketOK(pkt), NEW hr \in BOOLEAN
    PROVE  Gives(ProcessPacket(d, pkt, k, hr), d, pkt, k, hr)
<1> DEFINE r == ProcessPacket(d, pkt, k, hr)  e == <<>>
<1>1. Ignores(r, d, pkt) \/ Awaits(r, d, pkt) \/ Processes(r, d, pkt, k, hr)
  BY ProcessPacketOK
<1>2. d \in Demux /\ k \in DOMAIN Junk /\ d.ts \in Seq(Raw) /\ Flow(pkt.data, 0)
      /\ Len(pkt.data) \in Nat
  BY DEF Waiting, PacketOK, Flow, Demux
<1>3. e \in Seq(Sent) /\ e \in Seq(FullTable) /\ e \in Seq(Raw) /\ Len(e) = 0 /\ e = <<>>
  OBVIOUS
<1> HIDE DEF r, e
<1> SUFFICES Gives(r, d, pkt, k, hr)
  BY DEF r
<1>4. CASE Ignores(r, d, pkt)
  <2>1. r.d = d /\ r.sections = e /\ r.tables = e /\ d.sync /\ d.cc = pkt.cc
    BY <1>3, <1>4 DEF Ignores, NoneFrom
  <2>2. Waiting(r.d, k) /\ r.d.ts = d.ts /\ r.d.cc = pkt.cc /\ r.sections = <<>> /\ r.tables = <<>>
    BY <1>3, <2>1
  <2> QED BY <2>2, GivesNothing
<1>5. CASE Awaits(r, d, pkt)
  <2>1. r.d \in Demux /\ ~r.d.sync /\ r.d.ts = e /\ r.sections = e /\ r.tables = e
    BY <1>3, <1>5 DEF Awaits, NoneFrom
  <2>2. Waiting(r.d, k) /\ r.d.ts = <<>> /\ ~r.d.sync /\ r.sections = <<>> /\ r.tables = <<>>
    BY <1>2, <1>3, <2>1 DEF Waiting
  <2> QED BY <2>2, GivesNothing
<1>6. CASE Processes(r, d, pkt, k, hr)
  <2>1. CASE Outcome(r, Buffered(d.ts, pkt, 0), Len(d.ts), k, pkt.cc, hr)
    <3>1. 0 \in Nat /\ 0 <= Len(pkt.data)
      BY <1>2
    <3> DEFINE l == d.ts  q == 0
    <3>2. Outcome(r, Buffered(l, pkt, q), Len(l), k, pkt.cc, hr) /\ l = d.ts /\ l \in Seq(Raw)
          /\ q \in Nat /\ q <= Len(pkt.data)
      BY <1>2, <2>1, <3>1
    <3> HIDE DEF l, q
    <3> QED BY <1>2, <3>2, OutcomeGives
  <2>2. CASE pkt.pusi /\ Outcome(r, Buffered(<<>>, pkt, pkt.pointer), 0, k, pkt.cc, hr)
    <3> DEFINE q == pkt.pointer
    <3>1. q \in Nat /\ q <= Len(pkt.data)
      BY <1>2, <2>2 DEF PacketOK
    <3>2. Outcome(r, Buffered(e, pkt, q), Len(e), k, pkt.cc, hr)
      BY <1>3, <2>2
    <3> HIDE DEF q
    <3> QED BY <1>2, <1>3, <3>1, <3>2, OutcomeGives
  <2> QED BY <1>6, <2>1, <2>2 DEF Processes
<1> QED BY <1>1, <1>4, <1>5, <1>6

\* The result r of the last packet, with these data, for a demux which lost synchronization.
GivesAgain(r, data) ==
    /\ \A i \in 1 .. Len(r.sections) :
          Len(data) < PayloadSize /\ \E p \in Nat : IsAt(r.sections[i], data, p)
    /\ \A x \in Sent : EndsIn(x, data) => Before(x, r.d.ts)

\* What is read again from a repeated packet is in this packet; its last section did not end.
LEMMA RepeatedSent ==
    ASSUME NEW d, NEW k, Waiting(d, k), ~d.sync, NEW pkt, PacketOK(pkt)
    PROVE  GivesAgain(ProcessPacket(d, pkt, k, FALSE), pkt.data)
<1> DEFINE r == ProcessPacket(d, pkt, k, FALSE)  e == <<>>  data == pkt.data  q == pkt.pointer
           u == Buffered(<<>>, pkt, pkt.pointer)
<1>1. Awaits(r, d, pkt) \/ Processes(r, d, pkt, k, FALSE)
  <2>1. Ignores(r, d, pkt) \/ Awaits(r, d, pkt) \/ Processes(r, d, pkt, k, FALSE)
    BY ProcessPacketOK
  <2> HIDE DEF r
  <2> QED BY <2>1 DEF Ignores
<1> HIDE DEF r
<1>2. k \in DOMAIN Junk /\ Flow(data, 0) /\ data \in Seq(Raw) /\ Len(data) \in Nat
  <2>1. k \in DOMAIN Junk
    BY DEF Waiting
  <2>2. Flow(data, 0) /\ data \in Seq(Raw) /\ Len(data) \in Nat
    BY DEF PacketOK, Flow
  <2> QED BY <2>1, <2>2
<1>3. e \in Seq(Raw) /\ Len(e) = 0 /\ e = <<>>
  OBVIOUS
<1> HIDE DEF e
<1> SUFFICES GivesAgain(r, data)
  BY DEF r
<1>4. CASE Awaits(r, d, pkt)
  <2>1. r.d.ts = e /\ r.sections = e
    BY <1>3, <1>4 DEF Awaits, NoneFrom
  <2>2. \A i \in 1 .. Len(e) : FALSE
    BY <1>3
  <2>3. \A x \in Sent : Before(x, r.d.ts)
    BY <2>1, <2>2 DEF Before
  <2>4. \A i \in 1 .. Len(r.sections) : FALSE
    BY <2>1, <2>2
  <2> HIDE DEF data
  <2> QED BY <2>3, <2>4 DEF GivesAgain
<1>5. CASE Processes(r, d, pkt, k, FALSE)
  <2>1. pkt.pusi /\ Aligned(u, 0, 0) /\ Outcome(r, u, 0, k, pkt.cc, FALSE)
    BY <1>5 DEF Processes
  <2>2. q \in Nat /\ q < Len(data) /\ Len(data) < PayloadSize
    BY <2>1 DEF PacketOK
  <2>3. Appended(u, e, data, q)
    <3>1. u = Buffered(e, pkt, q) /\ q <= Len(pkt.data)
      BY <1>2, <1>3, <2>2
    <3> HIDE DEF u, q
    <3> QED BY <1>2, <1>3, <2>2, <3>1, BufferedFlow
  <2> HIDE DEF u, q, data
  <2>4. /\ u \in Seq(Raw) /\ Len(u) \in Nat /\ Len(u) = Len(data) - q
        /\ \A i \in 1 .. Len(u) : u[i] = data[i + q]
    <3>1. /\ Flow(u, 0) /\ Len(u) = 0 + (Len(data) - q)
          /\ \A i \in 1 .. Len(u) : 0 < i => u[i] = data[(i - 0) + q]
      BY <1>3, <2>3 DEF Appended
    <3>2. u \in Seq(Raw) /\ Len(u) \in Nat
      BY <3>1 DEF Flow
    <3>3. ASSUME NEW i \in 1 .. Len(u) PROVE u[i] = data[i + q]
      <4>1. i \in Nat /\ 0 < i /\ (i - 0) + q = i + q
        BY <2>2, <3>2
      <4> QED BY <3>1, <4>1
    <3> QED BY <1>2, <2>2, <3>1, <3>2, <3>3
  <2>5. PICK a \in 0 .. Len(u) : Remains(r.d.ts, r.sections, u, 0, k, a)
    BY <2>1 DEF Outcome
  <2> DEFINE ts == r.d.ts  p == q + a
  <2>6. /\ ts = SubSeq(u, a + 1, Len(u)) /\ (a < Len(u) => NoneAt(u, a, k))
        /\ (a < Len(u) => u[a + 1].at = 1)
    BY <2>1, <2>5 DEF Remains, Aligned
  <2>7. r.sections \in Seq(Sent) /\ \A i \in 1 .. Len(r.sections) : Ended(r.sections[i], u, 0, Len(u))
    BY <2>1 DEF Outcome
  <2> HIDE DEF ts
  <2>8. /\ Len(ts) \in Nat /\ Len(ts) = Len(u) - a
        /\ \A i \in 1 .. Len(ts) : ts[i] = u[a + i] /\ a + i \in 1 .. Len(u)
    BY <2>4, <2>6, RestOf
  <2>9. ASSUME NEW i \in 1 .. Len(r.sections)
        PROVE  Len(data) < PayloadSize /\ \E m \in Nat : IsAt(r.sections[i], data, m)
    <3> DEFINE s == r.sections[i]  z == s.size
    <3>1. s \in Sent /\ Ended(s, u, 0, Len(u))
      BY <2>7
    <3>2. z \in Nat
      BY <3>1, SentSize
    <3>3. PICK n \in Nat : IsAt(s, u, n)
      BY <3>1 DEF Ended
    <3> HIDE DEF s
    <3>4. n + z <= Len(u) /\ \A j \in 1 .. z : u[n + j] = [of |-> s, at |-> j]
      BY <3>3 DEF IsAt
    <3> HIDE DEF z
    <3>5. (n + q) + z <= Len(data) /\ n + q \in Nat
      BY <1>2, <2>2, <2>4, <3>2, <3>4
    <3>6. ASSUME NEW j \in 1 .. z PROVE data[(n + q) + j] = [of |-> s, at |-> j]
      <4>1. n + j \in 1 .. Len(u) /\ (n + j) + q = (n + q) + j
        BY <2>2, <2>4, <3>2, <3>4
      <4> QED BY <2>4, <3>4, <4>1
    <3>7. IsAt(s, data, n + q)
      BY <3>5, <3>6 DEF IsAt, z
    <3> QED BY <2>2, <3>5, <3>7 DEF s
  <2>10. ASSUME NEW x \in Sent, EndsIn(x, data), NEW j \in 1 .. Len(ts), ts[j] # Stuffing
         PROVE  Prior(x, ts[j].of)
    <3>1. PICK m \in 1 .. Len(data) : data[m] = [of |-> x, at |-> x.size]
      BY <2>10 DEF EndsIn
    <3>2. a \in Nat /\ a < Len(u) /\ a + j \in 1 .. Len(u) /\ ts[j] = u[a + j] /\ a + 1 \in 1 .. Len(u)
          /\ j \in Nat /\ 1 <= j
      BY <2>4, <2>8
    <3>3. ts[j] = data[p + j] /\ u[a + 1] = data[p + 1] /\ p \in Nat /\ p < Len(data)
          /\ p + j \in 1 .. Len(data) /\ Len(u) - a = Len(data) - p
      <4>1. u[a + j] = data[(a + j) + q] /\ u[a + 1] = data[(a + 1) + q]
        BY <2>4, <3>2
      <4>2. a \in Nat /\ j \in Nat /\ 1 <= j /\ q \in Nat
        BY <2>2, <3>2
      <4> DEFINE N == Len(data)  M == Len(u)
      <4>3. N \in Nat /\ M \in Nat /\ M = N - q /\ a < M /\ a + j \in 1 .. M
        BY <1>2, <2>4, <3>2
      <4> HIDE DEF N, M
      <4>4. (a + j) + q = p + j /\ (a + 1) + q = p + 1 /\ p \in Nat
        BY <4>2
      <4>5. p < N /\ p + j \in 1 .. N /\ M - a = N - p
        BY <4>2, <4>3
      <4> QED BY <3>2, <4>1, <4>4, <4>5 DEF N, M
    <3> HIDE DEF p
    <3>4. data[p + 1].at = 1 /\ NoneAt(u, a, k)
      BY <2>6, <3>2, <3>3
    <3>5. x # NullSection /\ data[m] # Stuffing /\ data[m].of = x /\ data[m].at = x.size
      BY <3>1, SentSize DEF Stuffing
    <3>6. CASE m <= p
      <4>1. 0 < m /\ m < p + j
        BY <1>2, <3>2, <3>3, <3>6, SMTT(30)
      <4> QED BY <1>2, <2>10, <3>3, <3>5, <4>1, FlowAfter
    <3>7. CASE p < m
      <4> DEFINE s == data[p + 1].of  i == m - p
      <4>1. s \in Sent /\ \A n \in 1 .. s.size : p + n <= Len(data) => data[p + n] = [of |-> s, at |-> n]
        <5>1. p \in Nat /\ 0 <= p /\ p < Len(data) /\ data[p + 1].at = 1
          BY <3>3, <3>4
        <5>2. \A n \in 1 .. data[p + 1].of.size :
                 p + n <= Len(data) => data[p + n] = [of |-> data[p + 1].of, at |-> n]
          BY <1>2, <5>1, FlowForward
        <5>3. data[p + 1].of \in Sent
          BY <1>2, <5>1, FlowForward
        <5> QED BY <5>2, <5>3
      <4>2. s.size \in Nat /\ MinSection <= s.size /\ s # NullSection
        BY <4>1, SentSize
      <4>3. u[a + 1] \in Raw /\ u[a + 1].at = 1 /\ u[a + 1] # Stuffing /\ u[a + 1].of = s
        <5>1. u[a + 1] \in Raw /\ u[a + 1].at = 1 /\ u[a + 1].of = s
          BY <2>4, <3>2, <3>3, <3>4
        <5> QED BY <4>2, <5>1 DEF Stuffing
      <4>4. Header(u[a + 1], k) = s
        BY <1>2, <4>3, HeaderOK
      <4>5. Len(data) - p < s.size
        <5> DEFINE N == Len(data)  M == Len(u)  z == s.size
        <5>1. M - a < ShortHeader \/ M - a < z
          BY <3>4, <4>4 DEF NoneAt
        <5>2. N \in Nat /\ M \in Nat /\ M - a = N - p /\ z \in Nat /\ MinSection <= z
          BY <1>2, <2>4, <3>3, <4>2
        <5> HIDE DEF N, M, z
        <5>3. N - p < z
          BY <3>2, <3>3, <5>1, <5>2, Sizes
        <5> QED BY <5>3 DEF N, z
      <4> HIDE DEF s
      <4>6. i \in 1 .. s.size /\ p + i = m /\ p + i <= Len(data) /\ i < s.size /\ i \in Nat
        <5> DEFINE N == Len(data)  z == s.size
        <5>1. N \in Nat /\ z \in Nat /\ p \in Nat /\ m \in Nat /\ m <= N /\ N - p < z
          BY <1>2, <3>3, <4>2, <4>5
        <5> HIDE DEF N, z
        <5> QED BY <3>7, <5>1 DEF N, z
      <4> HIDE DEF i
      <4>7. data[m] = [of |-> s, at |-> i]
        BY <4>1, <4>6
      <4>8. x = s /\ x.size = i
        BY <3>5, <4>7
      <4> QED BY <4>2, <4>6, <4>8
    <3> QED BY <1>2, <3>3, <3>6, <3>7
  <2>11. \A x \in Sent : EndsIn(x, data) => Before(x, ts)
    BY <2>10 DEF Before
  <2> QED BY <2>9, <2>11 DEF GivesAgain, ts
<1> QED BY <1>1, <1>4, <1>5

\* A section which is read again in a packet where another one ends.
LEMMA TwoInPacket ==
    ASSUME NEW u, Flow(u, 0), Len(u) < PayloadSize, NEW a \in Sent, NEW b \in Sent, EndsIn(a, u),
           NEW p \in Nat, IsAt(b, u, p)
    PROVE  Prior(a, b) \/ InOnePacket(a, b)
<1> DEFINE x == a.size  y == b.size  e == p + b.size  L == Len(u)
<1>1. L \in Nat /\ L < PayloadSize /\ PayloadSize \in Nat
  BY Sizes DEF Flow
<1>2. x \in Nat /\ y \in Nat /\ 1 <= y /\ a # NullSection /\ b # NullSection
  <2>1. x \in Nat /\ y \in Nat /\ MinSection <= y /\ a # NullSection /\ b # NullSection
    BY SentSize
  <2> HIDE DEF x, y
  <2> QED BY <2>1, Sizes
<1>3. p + y <= L /\ \A i \in 1 .. y : u[p + i] = [of |-> b, at |-> i]
  BY DEF IsAt
<1>4. PICK m \in 1 .. L : u[m] = [of |-> a, at |-> x]
  BY DEF EndsIn
<1>5. u[e] = [of |-> b, at |-> y]
  <2> HIDE DEF L
  <2>1. y \in 1 .. y
    <3> HIDE DEF y
    <3> QED BY <1>2
  <2> QED BY <1>3, <2>1
<1>6. e \in 1 .. L /\ e \in Nat /\ m \in Nat /\ m <= L /\ y <= e /\ e = p + y
  <2> HIDE DEF y, L
  <2> QED BY <1>1, <1>2, <1>3 DEF y
<1>7. u[m] # Stuffing /\ u[m].of = a /\ u[m].at = u[m].of.size
  BY <1>2, <1>4 DEF Stuffing
<1>8. u[e] # Stuffing /\ u[e].of = b /\ u[e].at = u[e].of.size
  BY <1>2, <1>5 DEF Stuffing
<1>9. CASE a = b
  <2>1. y < PayloadSize
    <3> HIDE DEF e, L, y
    <3> QED BY <1>1, <1>2, <1>6
  <2> QED BY <1>9, <2>1 DEF InOnePacket
<1>10. CASE m < e
  <2> HIDE DEF e
  <2>1. Prior(a, b)
    BY <1>1, <1>6, <1>7, <1>8, <1>10, FlowAfter
  <2> QED BY <2>1
<1>11. CASE m = e
  BY <1>7, <1>8, <1>9, <1>11
<1>12. CASE e < m /\ a # b
  <2> HIDE DEF e
  <2>1. e + x <= m
    BY <1>4, <1>6, <1>8, <1>12, FlowBackward
  <2> HIDE DEF x, y, L
  <2>2. x + y < PayloadSize
    BY <1>1, <1>2, <1>6, <2>1
  <2> QED BY <1>12, <2>2 DEF InOnePacket, x, y
<1> HIDE DEF e, L
<1> QED BY <1>6, <1>9, <1>10, <1>11, <1>12

\* The elements of a concatenation.
LEMMA ConcatAt ==
    ASSUME NEW S, NEW l \in Seq(S), NEW n \in Seq(S), NEW t, t = l \o n, NEW i \in 1 .. Len(t)
    PROVE  \/ i \in 1 .. Len(l) /\ t[i] = l[i]
           \/ /\ i \in Nat /\ Len(l) \in Nat /\ Len(l) < i /\ i - Len(l) \in 1 .. Len(n)
              /\ t[i] = n[i - Len(l)]
<1>1. Len(l) \in Nat /\ Len(n) \in Nat /\ Len(t) = Len(l) + Len(n)
  OBVIOUS
<1>2. CASE i <= Len(l)
  BY <1>1, <1>2
<1>3. CASE ~(i <= Len(l))
  BY <1>1, <1>3
<1> QED BY <1>2, <1>3

\* Sections n are delivered after those of list l.
LEMMA MoreInOrder ==
    ASSUME NEW l \in Seq(Sent), NEW n \in Seq(Sent), NEW f \in BOOLEAN, NEW g \in BOOLEAN, f => g,
           InOrder(l, f), Ascending(n),
           \A i \in 1 .. Len(l), j \in 1 .. Len(n) :
               Prior(l[i], n[j]) \/ (g /\ InOnePacket(l[i], n[j]))
    PROVE  InOrder(l \o n, g)
<1> DEFINE t == l \o n  L == Len(l)
<1> HIDE DEF t
<1> SUFFICES ASSUME NEW i \in 1 .. Len(t), NEW j \in 1 .. Len(t), i < j
             PROVE  Prior(t[i], t[j]) \/ (g /\ InOnePacket(t[i], t[j]))
  BY DEF t, InOrder
<1>1. \/ i \in 1 .. L /\ t[i] = l[i]
      \/ i \in Nat /\ L \in Nat /\ L < i /\ i - L \in 1 .. Len(n) /\ t[i] = n[i - L]
  BY ConcatAt DEF t
<1>2. \/ j \in 1 .. L /\ t[j] = l[j]
      \/ j \in Nat /\ L \in Nat /\ L < j /\ j - L \in 1 .. Len(n) /\ t[j] = n[j - L]
  BY ConcatAt DEF t
<1>3. L \in Nat /\ Len(n) \in Nat
  OBVIOUS
<1> HIDE DEF L
<1>4. CASE i \in 1 .. L /\ t[i] = l[i] /\ j \in 1 .. L /\ t[j] = l[j]
  BY <1>4 DEF InOrder, L
<1>5. CASE i \in 1 .. L /\ t[i] = l[i] /\ L < j /\ j - L \in 1 .. Len(n) /\ t[j] = n[j - L]
  BY <1>5 DEF L
<1>6. CASE L < i /\ i - L \in 1 .. Len(n) /\ t[i] = n[i - L] /\ L < j /\ j - L \in 1 .. Len(n)
           /\ t[j] = n[j - L] /\ i \in Nat /\ j \in Nat
  <2>1. i - L < j - L
    BY <1>3, <1>6
  <2> QED BY <1>6, <2>1 DEF Ascending
<1> QED BY <1>1, <1>2, <1>3, <1>4, <1>5, <1>6

\* What was sent remains so: the sections which z had completed, and the bytes.
Persists(y, W, z, V) ==
    /\ \A x : Past(x, z, V) => Past(x, y, W)
    /\ \A x : Done(x, z, V) => Done(x, y, W)

\* It does when the current section stays or is given up.
LEMMA SectionKept ==
    ASSUME NEW y, NEW W, NEW z, NEW V, \A x : Past(x, z, V) => Past(x, y, W),
           y.section = z.section \/ y.section = NullSection
    PROVE  Persists(y, W, z, V)
<1>1. ASSUME NEW x, Done(x, z, V) PROVE Done(x, y, W)
  <2>1. x \in Sent /\ x # z.section
    BY <1>1 DEF Done, Past, Old
  <2>2. x # NullSection
    BY <2>1, Sizes
  <2> QED BY <1>1, <2>1, <2>2 DEF Done
<1> QED BY <1>1 DEF Persists

\* The bytes which were received are of it.
LEMMA BytesPersist ==
    ASSUME NEW u, NEW y, NEW W, NEW z, NEW V, Persists(y, W, z, V), SentBytes(u, z, V)
    PROVE  SentBytes(u, y, W)
BY DEF Persists, SentBytes

\* Nothing is received.
LEMMA Steady ==
    ASSUME DeliveryInv, Persists(zer', version', zer, version), completed \subseteq completed',
           UNCHANGED <<demux, sections, tables, packet, junk, gap>>,
           forgot' \in BOOLEAN, forgot => forgot'
    PROVE  DeliveryInv'
<1>1. LinkTypes'
  BY DEF DeliveryInv, LinkTypes
<1>2. SentBytes(packet.data, zer', version') /\ SentBytes(demux.ts, zer', version')
  BY BytesPersist DEF DeliveryInv, Emitted
<1>3. Emitted'
  BY <1>2 DEF DeliveryInv, Emitted
<1>4. Delivery'
  BY DEF DeliveryInv, Delivery, WasSent, Persists
<1>5. Repeatable'
  BY DEF DeliveryInv, Repeatable
<1>6. InOrder(sections, forgot)'
  BY DEF DeliveryInv, InOrder, LinkTypes
<1> QED BY <1>1, <1>3, <1>4, <1>5, <1>6 DEF DeliveryInv

\* The packetizer gives no packet.
LEMMA EmptyKept ==
    ASSUME PacketizerInv, DeliveryInv, EmptyPacket
    PROVE  DeliveryInv'
<1> DEFINE p == GetNextPacket(zer)  X == {x \in Sent : Past(x, zer, version)}
<1>1. p.packet = NullPacket /\ zer' = p.z /\ version' = version
  BY DEF EmptyPacket, Generated
<1>2. NextOK(p, zer, version, X)
  <2>1. AllPast(X, zer, version)
    BY DEF AllPast
  <2> HIDE DEF X
  <2> QED BY <2>1, NextPacketOK DEF PacketizerInv
<1> HIDE DEF p
<1>3. NoPacket(p.packet, p.z, zer, version, X)
  BY <1>1, <1>2 DEF NextOK, NewPacket
<1>4. \A x : Past(x, zer, version) => Past(x, zer', version')
  <2>1. \A x : Past(x, zer, version) => x \in X
    BY DEF Past, Old
  <2> QED BY <1>1, <1>3, <2>1 DEF NoPacket
<1>5. Persists(zer', version', zer, version)
  BY <1>1, <1>3, <1>4, SectionKept DEF NoPacket
<1>6. completed \subseteq completed' /\ UNCHANGED <<demux, sections, tables, packet, junk, gap, forgot>>
  BY DEF EmptyPacket, Generated, outVars
<1> QED BY <1>5, <1>6, Steady DEF DeliveryInv, LinkTypes

\* A new packet: what was sent before persists, and completed sections are before its bytes.
Renewed == /\ PacketOK(packet') /\ SentBytes(packet.data, zer, version)'
           /\ SentBytes(demux.ts, zer', version') /\ EndedIn(packet'.data) \subseteq completed'
           /\ completed \subseteq completed'
           /\ \A x : Done(x, zer, version) => Done(x, zer', version') /\ Before(x, packet'.data)

\* getNextPacket() in the actions of the transmission.
LEMMA NewPacketKept ==
    ASSUME PacketizerInv, DeliveryInv, GetNextPacket(zer).packet # NullPacket,
           Generated(GetNextPacket(zer).packet, GetNextPacket(zer))
    PROVE  Renewed
<1> DEFINE p == GetNextPacket(zer)  X == {x \in Sent : Past(x, zer, version)}
<1>1. p.packet # NullPacket /\ zer' = p.z /\ version' = version /\ packet' = p.packet
  BY DEF Generated
<1>2. NextOK(p, zer, version, X) /\ AllPast(X, zer, version)
  <2>1. AllPast(X, zer, version)
    BY DEF AllPast
  <2> HIDE DEF X
  <2> QED BY <2>1, NextPacketOK DEF PacketizerInv
<1> DEFINE bytes == {p.packet.data[i] : i \in DOMAIN p.packet.data} \ {Stuffing}
<1>3. completed' = completed \cup {b.of.occ : b \in {x \in bytes : x.at = x.of.size}}
  BY DEF Generated
<1> HIDE DEF p
<1>4. PICK d : NewPacket(p.packet, d, p.z, zer, version, X)
  BY <1>1, <1>2 DEF NextOK, NoPacket
<1>5. /\ PacketOK(packet') /\ SentBytes(packet'.data, zer', version')
      /\ StillSent(X, packet'.data, zer', zer, version)
  <2> HIDE DEF X
  <2>1. Good(p.z, version) /\ Good(zer, version) /\ version \in Versions
    BY <1>2 DEF NextOK, PacketizerInv
  <2>2. /\ PacketOK(p.packet) /\ SentBytes(p.packet.data, p.z, version)
        /\ StillSent(X, p.packet.data, p.z, zer, version)
    BY <1>2, <1>4, <2>1, NewPacketSent
  <2> QED BY <1>1, <2>2
<1>6. \A x : Past(x, zer, version) => x \in X
  BY DEF Past, Old
<1>7. \A x : Done(x, zer, version) => Done(x, zer', version') /\ Before(x, packet'.data)
  BY <1>1, <1>5, <1>6 DEF StillSent, Done
<1>8. \A x : Past(x, zer, version) => Past(x, zer', version')
  BY <1>1, <1>5, <1>6 DEF StillSent
<1>9. SentBytes(demux.ts, zer', version')
  <2>1. Persists(zer', version', zer, version)
    BY <1>7, <1>8 DEF Persists
  <2> QED BY <2>1, BytesPersist DEF DeliveryInv, Emitted
<1>10. EndedIn(packet'.data) \subseteq completed'
  <2> DEFINE data == p.packet.data
  <2>1. data \in Seq(Raw) /\ DOMAIN data = 1 .. Len(data)
    <3>1. data \in Seq(Raw)
      BY <1>1, <1>5 DEF PacketOK, Flow
    <3> QED BY <3>1
  <2> SUFFICES ASSUME NEW m \in 1 .. Len(data), data[m] # Stuffing, data[m].at = data[m].of.size
               PROVE  data[m].of.occ \in completed'
    BY <1>1 DEF EndedIn
  <2>2. data[m] \in bytes
    BY <2>1
  <2> HIDE DEF bytes, data
  <2> QED BY <1>3, <2>2
<1>11. completed \subseteq completed'
  BY <1>3
<1> QED BY <1>5, <1>7, <1>9, <1>10, <1>11 DEF Renewed

\* A packet is lost or scrambled.
LEMMA LoseKept ==
    ASSUME PacketizerInv, DeliveryInv, NEW s \in BOOLEAN, LosePacket(s)
    PROVE  DeliveryInv'
<1>1. Renewed
  <2>1. GetNextPacket(zer).packet # NullPacket /\ Generated(GetNextPacket(zer).packet, GetNextPacket(zer))
    BY DEF LosePacket
  <2> QED BY <2>1, NewPacketKept
<1>2. /\ sections' = sections /\ tables' = tables /\ forgot' = forgot /\ junk' = junk
      /\ gap' = (IF s THEN 0 ELSE gap + 1) /\ demux' = (IF s THEN SyncLost(demux) ELSE demux)
  BY DEF LosePacket, Generated
<1>3. Waiting(demux, junk) /\ demux \in Demux /\ gap \in Nat /\ sections \in Seq(Sent)
      /\ tables \in Seq(FullTable) /\ forgot \in BOOLEAN
  BY DEF DeliveryInv, LinkTypes, Waiting
<1>4. demux' \in Demux /\ (demux'.ts = <<>> \/ demux'.ts = demux.ts) /\ Waiting(demux', junk')
      /\ (s => ~demux'.sync)
  <2>1. CASE s
    BY <1>2, <1>3, <2>1, DemuxValues DEF Waiting
  <2>2. CASE ~s
    BY <1>2, <1>3, <2>2
  <2> QED BY <2>1, <2>2
<1>5. LinkTypes'
  BY <1>1, <1>2, <1>3, <1>4 DEF LinkTypes, Renewed
<1>6. \A x : SentBytes(<<>>, x, version') /\ Before(x, <<>>)
  BY DEF SentBytes, Before
<1>7. Emitted'
  <2>1. SentBytes(demux'.ts, zer', version')
    BY <1>1, <1>4, <1>6 DEF Renewed
  <2> QED BY <1>1, <2>1 DEF Emitted, Renewed
<1>8. ASSUME NEW i \in 1 .. Len(sections)
      PROVE  /\ WasSent(sections[i], zer', version', completed', demux'.ts, packet'.data)
             /\ Before(sections[i], packet'.data)
  <2>1. WasSent(sections[i], zer, version, completed, demux.ts, packet.data)
    BY DEF DeliveryInv, Delivery
  <2>2. Done(sections[i], zer', version') /\ Before(sections[i], packet'.data)
        /\ sections[i].occ \in completed'
    BY <1>1, <2>1 DEF WasSent, Renewed
  <2>3. Before(sections[i], demux'.ts)
    BY <1>4, <1>6, <2>1 DEF WasSent
  <2> QED BY <2>2, <2>3 DEF WasSent
<1>9. Delivery'
  BY <1>2, <1>8 DEF Delivery
<1>10. Repeatable'
  <2>1. gap' = 0 => s
    BY <1>2, <1>3
  <2> QED BY <1>2, <1>4, <1>8, <2>1 DEF Repeatable
<1>11. InOrder(sections, forgot)'
  BY <1>2 DEF DeliveryInv
<1> QED BY <1>5, <1>7, <1>9, <1>10, <1>11 DEF DeliveryInv

\* The sections and bytes which the demux gives, from bytes which were sent.
LEMMA GivenSent ==
    ASSUME NEW r, NEW d, NEW pkt, NEW k, NEW hr \in BOOLEAN, Gives(r, d, pkt, k, hr), NEW z, NEW V,
           NEW C, SentBytes(pkt.data, z, V), SentBytes(d.ts, z, V), EndedIn(pkt.data) \subseteq C
    PROVE  /\ SentBytes(r.d.ts, z, V)
           /\ \A i \in 1 .. Len(r.sections) :
                 WasSent(r.sections[i], z, V, C, r.d.ts, pkt.data)
<1> DEFINE data == pkt.data
<1>1. SentBytes(r.d.ts, z, V)
  BY DEF Gives, SentBytes
<1>2. ASSUME NEW i \in 1 .. Len(r.sections)
      PROVE  WasSent(r.sections[i], z, V, C, r.d.ts, data)
  <2> DEFINE s == r.sections[i]
  <2>1. s \in Sent /\ EndsIn(s, data) /\ Before(s, r.d.ts)
    BY DEF Gives
  <2> HIDE DEF s
  <2>2. PICK m \in 1 .. Len(data) : data[m] = [of |-> s, at |-> s.size]
    BY <2>1 DEF EndsIn
  <2>3. data[m] # Stuffing /\ data[m].of = s /\ data[m].at = data[m].of.size
    BY <2>1, <2>2, Sizes DEF Stuffing
  <2>4. Done(s, z, V)
    BY <2>3 DEF SentBytes
  <2>5. data[m].of.occ \in EndedIn(data)
    <3> HIDE DEF data
    <3> QED BY <2>3 DEF EndedIn
  <2>6. s.occ \in C
    BY <2>3, <2>5
  <2> QED BY <2>1, <2>4, <2>6 DEF WasSent, s
<1> QED BY <1>1, <1>2 DEF data

\* A packet reaches the demux.
LEMMA FeedKept ==
    ASSUME PacketizerInv, DeliveryInv, NEW h \in BOOLEAN, FeedPacket(h)
    PROVE  DeliveryInv'
<1> DEFINE r == ProcessPacket(demux, GetNextPacket(zer).packet, junk, h)
<1>1. Renewed
  <2>1. GetNextPacket(zer).packet # NullPacket /\ Generated(GetNextPacket(zer).packet, GetNextPacket(zer))
    BY DEF FeedPacket, Delivered
  <2> QED BY <2>1, NewPacketKept
<1>2. packet' = GetNextPacket(zer).packet /\ junk' = junk
  BY DEF FeedPacket, Delivered, Generated
<1>3. /\ demux' = r.d /\ sections' = sections \o r.sections /\ tables' = tables \o r.tables
      /\ gap' = 0 /\ forgot' = (forgot \/ h \/ (Unseen /\ demux.sync))
  BY DEF FeedPacket, Delivered, Handled
<1>4. Waiting(demux, junk) /\ demux.sync \in BOOLEAN /\ sections \in Seq(Sent)
      /\ tables \in Seq(FullTable) /\ forgot \in BOOLEAN
  BY DEF DeliveryInv, LinkTypes, Waiting, Demux
<1>5. PacketOK(packet')
  BY <1>1 DEF Renewed
<1>6. Gives(r, demux, packet', junk, h)
  <2> DEFINE q == packet'
  <2>1. r = ProcessPacket(demux, q, junk, h) /\ PacketOK(q)
    BY <1>2, <1>5
  <2> HIDE DEF q, r
  <2>2. Gives(r, demux, q, junk, h)
    BY <1>4, <2>1, ProcessedSent
  <2> QED BY <2>2 DEF q
<1> HIDE DEF r
<1>7. /\ Waiting(r.d, junk) /\ r.sections \in Seq(Sent) /\ r.tables \in Seq(FullTable)
      /\ Ascending(r.sections) /\ (~r.d.sync => h \/ r.sections = <<>>)
      /\ (r.d.sync => r.d.cc = packet'.cc)
  BY <1>6 DEF Gives
<1>8. LinkTypes'
  BY <1>2, <1>3, <1>4, <1>5, <1>7 DEF LinkTypes, Unseen
<1>9. /\ SentBytes(r.d.ts, zer', version')
      /\ \A i \in 1 .. Len(r.sections) :
            WasSent(r.sections[i], zer', version', completed', r.d.ts, packet'.data)
  <2> DEFINE q == packet'  y == zer'  W == version'  C == completed'
  <2>1. Gives(r, demux, q, junk, h) /\ SentBytes(q.data, y, W) /\ SentBytes(demux.ts, y, W)
        /\ EndedIn(q.data) \subseteq C
    BY <1>1, <1>6 DEF Renewed
  <2> HIDE DEF q, y, W, C
  <2>2. SentBytes(r.d.ts, y, W)
    BY <2>1, GivenSent
  <2>3. \A i \in 1 .. Len(r.sections) : WasSent(r.sections[i], y, W, C, r.d.ts, q.data)
    BY <2>1, GivenSent
  <2> QED BY <2>2, <2>3 DEF q, y, W, C
<1>10. Emitted'
  BY <1>1, <1>3, <1>9 DEF Emitted, Renewed
<1>11. ASSUME NEW i \in 1 .. Len(sections)
       PROVE  /\ WasSent(sections[i], zer', version', completed', r.d.ts, packet'.data)
              /\ Before(sections[i], packet'.data)
  <2>1. WasSent(sections[i], zer, version, completed, demux.ts, packet.data)
    BY DEF DeliveryInv, Delivery
  <2>2. Done(sections[i], zer', version') /\ Before(sections[i], packet'.data)
        /\ sections[i].occ \in completed' /\ Before(sections[i], demux.ts)
    BY <1>1, <2>1 DEF WasSent, Renewed
  <2>3. Before(sections[i], r.d.ts)
    BY <1>6, <2>2 DEF Gives, Before
  <2> QED BY <2>2, <2>3 DEF WasSent
<1>12. Delivery'
  <2> SUFFICES ASSUME NEW i \in 1 .. Len(sections')
               PROVE  WasSent(sections'[i], zer', version', completed', demux'.ts, packet'.data)
    BY DEF Delivery
  <2>1. \/ i \in 1 .. Len(sections) /\ sections'[i] = sections[i]
        \/ /\ i - Len(sections) \in 1 .. Len(r.sections)
           /\ sections'[i] = r.sections[i - Len(sections)]
    <3> DEFINE t == sections'
    <3>1. t = sections \o r.sections /\ i \in 1 .. Len(t)
      BY <1>3
    <3> HIDE DEF t
    <3>2. \/ i \in 1 .. Len(sections) /\ t[i] = sections[i]
          \/ /\ i \in Nat /\ Len(sections) \in Nat /\ Len(sections) < i
             /\ i - Len(sections) \in 1 .. Len(r.sections)
             /\ t[i] = r.sections[i - Len(sections)]
      BY <1>4, <1>7, <3>1, ConcatAt
    <3> QED BY <3>2 DEF t
  <2> QED BY <1>3, <1>9, <1>11, <2>1
<1>13. Repeatable'
  <2>1. ASSUME ~r.d.sync, ~forgot' PROVE sections' = sections
    <3>1. r.sections = <<>>
      BY <1>3, <1>7, <2>1
    <3> QED BY <1>3, <1>4, <3>1
  <2> QED BY <1>3, <1>7, <1>11, <2>1 DEF Repeatable
<1>14. InOrder(sections, forgot)'
  <2>1. ASSUME NEW i \in 1 .. Len(sections), NEW j \in 1 .. Len(r.sections)
        PROVE  Prior(sections[i], r.sections[j])
    <3>1. PICK m \in 1 .. Len(packet'.data) :
             packet'.data[m] = [of |-> r.sections[j], at |-> r.sections[j].size]
      BY <1>6 DEF Gives, EndsIn
    <3>2. r.sections[j] \in Sent
      BY <1>7
    <3>3. packet'.data[m] # Stuffing /\ packet'.data[m].of = r.sections[j]
      BY <3>1, <3>2, Sizes DEF Stuffing
    <3> QED BY <1>11, <3>3 DEF Before
  <2> DEFINE l == sections  n == r.sections  f == forgot  g == forgot'
  <2>2. l \in Seq(Sent) /\ n \in Seq(Sent) /\ InOrder(l, f) /\ Ascending(n) /\ f \in BOOLEAN
        /\ g \in BOOLEAN /\ (f => g)
        /\ \A i \in 1 .. Len(l), j \in 1 .. Len(n) :
               Prior(l[i], n[j]) \/ (g /\ InOnePacket(l[i], n[j]))
    BY <1>3, <1>4, <1>7, <2>1 DEF DeliveryInv, Unseen
  <2> HIDE DEF l, n, f, g
  <2>3. InOrder(l \o n, g)
    BY <2>2, MoreInOrder
  <2> QED BY <1>3, <2>3 DEF l, n, g
<1> QED BY <1>8, <1>10, <1>12, <1>13, <1>14 DEF DeliveryInv

\* The last packet reaches the demux again.
LEMMA RepeatKept ==
    ASSUME DeliveryInv, RepeatPacket
    PROVE  DeliveryInv'
<1> DEFINE r == ProcessPacket(demux, packet, junk, FALSE)
<1>1. /\ demux' = r.d /\ sections' = sections \o r.sections /\ tables' = tables \o r.tables
      /\ gap = 0 /\ UNCHANGED <<zer, version, junk, forgot, packet, completed, gap>>
  BY DEF RepeatPacket, Handled, inVars
<1>2. Waiting(demux, junk) /\ demux.sync \in BOOLEAN /\ sections \in Seq(Sent)
      /\ tables \in Seq(FullTable) /\ forgot \in BOOLEAN /\ PacketOK(packet)
  BY DEF DeliveryInv, LinkTypes, Waiting, Demux
<1>3. CASE demux.sync
  <2>1. packet.cc = demux.cc
    BY <1>1, <1>3 DEF DeliveryInv, Repeatable
  <2>2. Duplicate(demux, packet)
    BY <1>3, <2>1 DEF Duplicate
  <2>3. r.d = demux /\ r.sections = <<>> /\ r.tables = <<>>
    BY <2>2 DEF ProcessPacket
  <2> HIDE DEF r
  <2>4. demux' = demux /\ sections' = sections /\ tables' = tables
    BY <1>1, <1>2, <2>3
  <2>5. Persists(zer', version', zer, version)
    BY <1>1 DEF Persists
  <2> QED BY <1>1, <1>2, <2>4, <2>5, Steady
<1>4. CASE ~demux.sync
  <2>1. GivesAgain(r, packet.data)
    BY <1>2, <1>4, RepeatedSent
  <2>2. Gives(r, demux, packet, junk, FALSE)
    BY <1>2, ProcessedSent
  <2> HIDE DEF r
  <2>3. /\ Waiting(r.d, junk) /\ r.sections \in Seq(Sent) /\ r.tables \in Seq(FullTable)
        /\ Ascending(r.sections) /\ (~r.d.sync => r.sections = <<>>)
        /\ (r.d.sync => r.d.cc = packet.cc)
    BY <2>2 DEF Gives
  <2>4. LinkTypes'
    BY <1>1, <1>2, <2>3 DEF LinkTypes, DeliveryInv
  <2>5. /\ SentBytes(r.d.ts, zer, version)
        /\ \A i \in 1 .. Len(r.sections) :
              WasSent(r.sections[i], zer, version, completed, r.d.ts, packet.data)
    <3>1. SentBytes(packet.data, zer, version) /\ SentBytes(demux.ts, zer, version)
          /\ EndedIn(packet.data) \subseteq completed
      BY DEF DeliveryInv, Emitted
    <3>2. SentBytes(r.d.ts, zer, version)
      BY <2>2, <3>1, GivenSent
    <3>3. \A i \in 1 .. Len(r.sections) :
             WasSent(r.sections[i], zer, version, completed, r.d.ts, packet.data)
      BY <2>2, <3>1, GivenSent
    <3> QED BY <3>2, <3>3
  <2>6. Emitted'
    BY <1>1, <2>5 DEF Emitted, DeliveryInv
  <2>7. ASSUME NEW i \in 1 .. Len(sections)
        PROVE  WasSent(sections[i], zer, version, completed, r.d.ts, packet.data)
    <3> DEFINE s == sections[i]
    <3>1. WasSent(s, zer, version, completed, demux.ts, packet.data) /\ s \in Sent
      BY <1>2 DEF DeliveryInv, Delivery
    <3> HIDE DEF s
    <3>2. Before(s, r.d.ts)
      <4>1. CASE Before(s, packet.data)
        BY <2>2, <3>1, <4>1 DEF Gives, Before, WasSent
      <4>2. CASE EndsIn(s, packet.data)
        BY <2>1, <3>1, <4>2 DEF GivesAgain
      <4> QED BY <3>1, <4>1, <4>2 DEF WasSent
    <3> QED BY <3>1, <3>2 DEF WasSent, s
  <2>8. Delivery'
    <3> SUFFICES ASSUME NEW i \in 1 .. Len(sections')
                 PROVE  WasSent(sections'[i], zer', version', completed', demux'.ts, packet'.data)
      BY DEF Delivery
    <3>1. \/ i \in 1 .. Len(sections) /\ sections'[i] = sections[i]
          \/ /\ i - Len(sections) \in 1 .. Len(r.sections)
             /\ sections'[i] = r.sections[i - Len(sections)]
      <4> DEFINE t == sections'
      <4>1. t = sections \o r.sections /\ i \in 1 .. Len(t)
        BY <1>1
      <4> HIDE DEF t
      <4>2. \/ i \in 1 .. Len(sections) /\ t[i] = sections[i]
            \/ /\ i \in Nat /\ Len(sections) \in Nat /\ Len(sections) < i
               /\ i - Len(sections) \in 1 .. Len(r.sections)
               /\ t[i] = r.sections[i - Len(sections)]
        BY <1>2, <2>3, <4>1, ConcatAt
      <4> QED BY <4>2 DEF t
    <3> QED BY <1>1, <2>5, <2>7, <3>1
  <2>9. Repeatable'
    <3>1. ASSUME ~r.d.sync PROVE sections' = sections
      BY <1>1, <1>2, <2>3, <3>1
    <3>2. ~forgot => \A i \in 1 .. Len(sections) : Before(sections[i], packet.data)
      BY <1>1, <1>4 DEF DeliveryInv, Repeatable
    <3> QED BY <1>1, <2>3, <3>1, <3>2 DEF Repeatable
  <2>10. InOrder(sections, forgot)'
    <3>1. ASSUME NEW i \in 1 .. Len(sections), NEW j \in 1 .. Len(r.sections)
          PROVE  \/ Prior(sections[i], r.sections[j])
                 \/ forgot /\ InOnePacket(sections[i], r.sections[j])
      <4> DEFINE a == sections[i]  b == r.sections[j]  u == packet.data
      <4>1. a \in Sent /\ b \in Sent /\ EndsIn(b, u) /\ WasSent(a, zer, version, completed, demux.ts, u)
        BY <1>2, <2>2, <2>3 DEF Gives, DeliveryInv, Delivery
      <4>2. Flow(u, 0)
        BY <1>2 DEF PacketOK
      <4>3. Len(u) < PayloadSize /\ \E p \in Nat : IsAt(b, u, p)
        BY <2>1 DEF GivesAgain
      <4>4. ~forgot => Before(a, u)
        BY <1>1, <1>4 DEF DeliveryInv, Repeatable
      <4> HIDE DEF a, b, u
      <4>5. CASE Before(a, u)
        <5>1. PICK m \in 1 .. Len(u) : u[m] = [of |-> b, at |-> b.size]
          BY <4>1 DEF EndsIn
        <5>2. u[m] # Stuffing /\ u[m].of = b
          BY <4>1, <5>1, Sizes DEF Stuffing
        <5> QED BY <4>5, <5>2 DEF Before, a, b
      <4>6. CASE ~Before(a, u)
        <5>1. EndsIn(a, u) /\ forgot
          BY <1>2, <4>1, <4>4, <4>6 DEF WasSent
        <5>2. PICK p \in Nat : IsAt(b, u, p)
          BY <4>3
        <5>3. Prior(a, b) \/ InOnePacket(a, b)
          BY <4>1, <4>2, <4>3, <5>1, <5>2, TwoInPacket
        <5> QED BY <5>1, <5>3 DEF a, b
      <4> QED BY <4>5, <4>6
    <3> DEFINE l == sections  n == r.sections  f == forgot
    <3>2. l \in Seq(Sent) /\ n \in Seq(Sent) /\ InOrder(l, f) /\ Ascending(n) /\ f \in BOOLEAN
          /\ \A i \in 1 .. Len(l), j \in 1 .. Len(n) :
                 Prior(l[i], n[j]) \/ (f /\ InOnePacket(l[i], n[j]))
      BY <1>2, <2>3, <3>1 DEF DeliveryInv
    <3> HIDE DEF l, n, f
    <3>3. InOrder(l \o n, f)
      BY <3>2, MoreInOrder
    <3> QED BY <1>1, <3>3 DEF l, n, f
  <2> QED BY <2>4, <2>6, <2>8, <2>9, <2>10 DEF DeliveryInv
<1> QED BY <1>2, <1>3, <1>4

\* A command of the plugin.
LEMMA CommandKept ==
    ASSUME PacketizerInv, DeliveryInv, Kept(zer', version', zer, version),
           UNCHANGED <<demux, sections, tables, packet, junk, gap, completed>>,
           forgot' \in BOOLEAN, forgot => forgot'
    PROVE  DeliveryInv'
<1>1. Persists(zer', version', zer, version)
  BY SectionKept DEF Kept
<1> QED BY <1>1, Steady

\* The first state.
LEMMA InitDelivery ==
    ASSUME Init
    PROVE  DeliveryInv
<1> DEFINE e == <<>>
<1>1. /\ demux = PIDContext /\ junk \in DOMAIN Junk /\ packet = NullPacket /\ sections = e /\ tables = e
      /\ gap = 0 /\ forgot = FALSE
  BY DEF Init
<1>2. e \in Seq(Sent) /\ e \in Seq(FullTable) /\ e \in Seq(Raw) /\ Len(e) = 0 /\ e = <<>>
  OBVIOUS
<1>3. junk \in DOMAIN Junk
  BY <1>1
<1>4. packet.data = e /\ packet.cc = 0 /\ packet.pusi = FALSE
  BY <1>1, <1>2 DEF NullPacket
<1>5. demux \in Demux /\ demux.ts = e /\ ~demux.sync
  BY <1>1, <1>2, DemuxValues
<1> HIDE DEF e
<1>6. \A i \in 1 .. Len(e) : FALSE
  BY <1>2
<1>7. PacketOK(packet)
  <2>1. Flow(e, 0)
    BY <1>2, <1>6 DEF Flow
  <2>2. packet.cc \in Nat
    BY <1>4
  <2>4. ~packet.pusi /\ packet.pusi \in BOOLEAN
    BY <1>1 DEF NullPacket
  <2>3. Flow(packet.data, 0)
    BY <1>4, <2>1
  <2> QED BY <2>2, <2>3, <2>4 DEF PacketOK
<1>8. LinkTypes
  BY <1>1, <1>2, <1>3, <1>5, <1>7 DEF LinkTypes, Waiting
<1>9. Emitted
  BY <1>4, <1>5, <1>6 DEF Emitted, SentBytes, EndedIn
<1>10. Delivery /\ Repeatable /\ InOrder(sections, forgot)
  BY <1>1, <1>5, <1>6 DEF Delivery, Repeatable, InOrder
<1> QED BY <1>8, <1>9, <1>10 DEF DeliveryInv

\* Each step.
LEMMA NextDelivery ==
    ASSUME PacketizerInv, DeliveryInv, [Next]_vars
    PROVE  DeliveryInv'
<1>0. forgot \in BOOLEAN
  BY DEF DeliveryInv, LinkTypes
<1>1. ASSUME NEW t \in TIDs, NewTable(t) PROVE DeliveryInv'
  <2>1. UNCHANGED <<demux, sections, tables, packet, junk, gap, completed, forgot>>
    BY <1>1 DEF NewTable, outVars, linkVars
  <2> QED BY <1>0, <1>1, <2>1, NewTableKept, CommandKept
<1>2. ASSUME NEW b \in Bitrates, ChangeBitRate(b) PROVE DeliveryInv'
  <2>1. UNCHANGED <<demux, sections, tables, packet, junk, gap, completed, forgot>>
    BY <1>2 DEF ChangeBitRate, outVars, linkVars
  <2> QED BY <1>0, <1>2, <2>1, ChangeBitRateKept, CommandKept
<1>3. ASSUME NEW t \in TIDs, ReplaceTables(t) PROVE DeliveryInv'
  <2>1. UNCHANGED <<demux, sections, tables, packet, junk, gap, completed, forgot>>
    BY <1>3 DEF ReplaceTables, outVars, linkVars
  <2> QED BY <1>0, <1>3, <2>1, ReplaceTablesKept, CommandKept
<1>4. ASSUME NEW files \in SUBSET TIDs, ResetPacketizer(files) PROVE DeliveryInv'
  <2>1. /\ UNCHANGED <<demux, sections, tables, packet, junk, gap, completed>>
        /\ forgot' \in BOOLEAN /\ (forgot => forgot')
    BY <1>0, <1>4 DEF ResetPacketizer
  <2> QED BY <1>0, <1>4, <2>1, ResetKept, CommandKept
<1>5. ASSUME EmptyPacket PROVE DeliveryInv'
  BY <1>5, EmptyKept
<1>6. ASSUME NEW s \in BOOLEAN, LosePacket(s) PROVE DeliveryInv'
  BY <1>6, LoseKept
<1>7. ASSUME NEW h \in BOOLEAN, FeedPacket(h) PROVE DeliveryInv'
  BY <1>7, FeedKept
<1>8. ASSUME RepeatPacket PROVE DeliveryInv'
  BY <1>8, RepeatKept
<1>9. CASE UNCHANGED vars
  <2>1. UNCHANGED <<demux, sections, tables, packet, junk, gap, completed, forgot, zer, version>>
    BY <1>9 DEF vars, inVars, outVars, linkVars
  <2>2. Persists(zer', version', zer, version)
    BY <2>1 DEF Persists
  <2> QED BY <1>0, <2>1, <2>2, Steady
<1> QED BY <1>1, <1>2, <1>3, <1>4, <1>5, <1>6, <1>7, <1>8, <1>9 DEF Next

-----------------------------------------------------------------------------
(***************************************************************************)
(* The contexts of the tables, when no byte was missed in a way which the  *)
(* demux does not see.                                                     *)
(***************************************************************************)
\* The elements of a list of sections, and the versions of a list of tables.
Elements(S) == {S[i] : i \in 1 .. Len(S)}
Told(T) == {<<T[i][1].tid, T[i][1].ver>> : i \in 1 .. Len(T)}

\* All sections of version v of table t are in G.
AllGot(t, v, G) ==
    \A n \in 1 .. Len(TableSizes[t][v]) : \E g \in G : g.tid = t /\ g.ver = v /\ g.num + 1 = n

\* In the context c of table t, the list of sections has the length of its version.
Sound(t, c) ==
    c.sects # <<>> /\ c.version \in DOMAIN TableSizes[t]
    => Len(c.sects) = Len(TableSizes[t][c.version])

\* The version v of table t is the last one, with the sections and the mark of the context tc, when
\* the sections G were delivered and the tables N.
UpToVersion(t, v, tc, G, N) ==
    /\ \A g \in G : g.tid = t => g.ver <= v /\ (g.ver = v => tc.sects[g.num + 1] # NullSection)
    /\ \A x : <<t, x>> \in N => x \in Nat /\ x <= v
    /\ <<t, v>> \in N <=> tc.notified
    /\ ~tc.notified => \E i \in 1 .. Len(tc.sects) : tc.sects[i] = NullSection
    /\ \A x \in DOMAIN TableSizes[t] : x < v /\ AllGot(t, x, G) => <<t, x>> \in N

\* The context c of table t is the one of the last version of which a section was delivered.
TableKnown(t, c, G, N) ==
    IF c.sects = <<>> THEN (\A g \in G : g.tid # t) /\ \A x : <<t, x>> \notin N
    ELSE /\ c.version \in DOMAIN TableSizes[t] /\ Len(c.sects) = Len(TableSizes[t][c.version])
         /\ \E g \in G : g.tid = t /\ g.ver = c.version
         /\ UpToVersion(t, c.version, c, G, N)

\* The section h is put in the context tc of its table, which becomes y; it completes it if full.
Puts(y, tc, h, full) ==
    /\ y.version = h.ver /\ Len(y.sects) = Len(tc.sects) /\ h.last + 1 = Len(tc.sects)
    /\ h.num + 1 \in 1 .. Len(tc.sects) /\ y.sects[h.num + 1] # NullSection
    /\ \A i \in 1 .. Len(tc.sects) : i # h.num + 1 => y.sects[i] = tc.sects[i]
    /\ full <=> /\ tc.sects[h.num + 1] = NullSection /\ ~tc.notified
                /\ \A i \in 1 .. Len(tc.sects) : y.sects[i] # NullSection
    /\ y.notified <=> tc.notified \/ full

\* The context in which a section is put, when no section of a later version was delivered.
LEMMA VersionStarts ==
    ASSUME NEW t \in TIDs, NEW c \in TableIn(t), NEW G \in SUBSET Sent, NEW N, TableKnown(t, c, G, N),
           NEW h \in Sent, h.tid = t, \A g \in G : Prior(g, h)
    PROVE  UpToVersion(t, h.ver, TableContext(c, h), G, N)
<1> DEFINE tc == TableContext(c, h)  v == h.ver
<1>1. h \in Headers /\ v \in Nat /\ h.last \in Nat /\ v \in DOMAIN TableSizes[t]
      /\ DOMAIN TableSizes[t] \subseteq Nat
  <2>1. TableSizes[t] \in Seq(Seq(MinSection .. MaxSection) \ {<<>>})
    BY StreamAssumption
  <2>2. DOMAIN TableSizes[t] = 1 .. Len(TableSizes[t]) /\ Len(TableSizes[t]) \in Nat
    BY <2>1
  <2> QED BY <2>2, SentSize DEF Headers, Sect
<1>2. \A g \in G : g \in Sent /\ g.ver \in Nat /\ (g.tid = t => g.ver <= v)
  BY SentSize DEF Prior
<1>3. c.version \in Nat
  BY DEF TableIn, AnyTable
<1>4. CASE c.sects # <<>> /\ c.version = v
  <2>1. tc = c
    BY <1>4 DEF TableContext
  <2>2. UpToVersion(t, c.version, c, G, N)
    BY <1>4 DEF TableKnown
  <2> QED BY <1>4, <2>1, <2>2
<1>5. CASE c.sects = <<>> \/ c.version # v
  <2>1. tc = InitTable(h)
    BY <1>5 DEF TableContext
  <2>2. ~tc.notified /\ Len(tc.sects) = h.last + 1 /\ \A i \in 1 .. h.last + 1 : tc.sects[i] = NullSection
    BY <1>1, <2>1, InitTableOK
  <2> HIDE DEF tc
  <2>3. \E i \in 1 .. Len(tc.sects) : tc.sects[i] = NullSection
    <3>1. 1 \in 1 .. h.last + 1
      BY <1>1
    <3> QED BY <2>2, <3>1
  <2>4. /\ \A g \in G : g.tid = t => g.ver < v
        /\ \A x : <<t, x>> \in N => x \in Nat /\ x < v
        /\ \A x \in DOMAIN TableSizes[t] : x < v /\ AllGot(t, x, G) => <<t, x>> \in N
    <3>1. CASE c.sects = <<>>
      <4>1. (\A g \in G : g.tid # t) /\ \A x : <<t, x>> \notin N
        BY <3>1 DEF TableKnown
      <4>2. ASSUME NEW x \in DOMAIN TableSizes[t] PROVE ~AllGot(t, x, G)
        <5>1. TableSizes[t][x] # <<>> /\ TableSizes[t][x] \in Seq(MinSection .. MaxSection)
          BY StreamAssumption
        <5>2. 1 \in 1 .. Len(TableSizes[t][x])
          BY <5>1
        <5> QED BY <4>1, <5>2 DEF AllGot
      <4> QED BY <4>1, <4>2
    <3>2. CASE c.sects # <<>>
      <4>1. /\ c.version \in DOMAIN TableSizes[t] /\ Len(c.sects) = Len(TableSizes[t][c.version])
            /\ \E g \in G : g.tid = t /\ g.ver = c.version
            /\ UpToVersion(t, c.version, c, G, N)
        BY <3>2 DEF TableKnown
      <4>2. c.version < v
        <5>1. PICK g \in G : g.tid = t /\ g.ver = c.version
          BY <4>1
        <5>2. c.version <= v
          BY <1>2, <5>1
        <5> QED BY <1>1, <1>3, <1>5, <3>2, <5>2
      <4>3. \A g \in G : g.tid = t => g.ver <= c.version /\ (g.ver = c.version => c.sects[g.num + 1] # NullSection)
        BY <4>1 DEF UpToVersion
      <4>4. \A x : <<t, x>> \in N => x \in Nat /\ x <= c.version
        BY <4>1 DEF UpToVersion
      <4>5. ASSUME NEW x \in DOMAIN TableSizes[t], x < v, AllGot(t, x, G) PROVE <<t, x>> \in N
        <5>1. x \in Nat
          BY <1>1
        <5>2. CASE x < c.version
          BY <4>1, <4>5, <5>2 DEF UpToVersion
        <5>3. CASE x = c.version
          <6>1. ASSUME NEW i \in 1 .. Len(c.sects) PROVE c.sects[i] # NullSection
            <7>1. PICK g \in G : g.tid = t /\ g.ver = x /\ g.num + 1 = i
              BY <4>1, <4>5, <5>3, <6>1 DEF AllGot
            <7> QED BY <4>3, <5>3, <7>1
          <6> QED BY <4>1, <5>3, <6>1 DEF UpToVersion
        <5>4. CASE x > c.version
          <6>1. TableSizes[t][x] # <<>> /\ TableSizes[t][x] \in Seq(MinSection .. MaxSection)
            BY StreamAssumption
          <6>2. 1 \in 1 .. Len(TableSizes[t][x])
            BY <6>1
          <6>3. PICK g \in G : g.tid = t /\ g.ver = x
            BY <4>5, <6>2 DEF AllGot
          <6> QED BY <1>3, <4>3, <5>1, <5>4, <6>3
        <5> QED BY <1>3, <5>1, <5>2, <5>3, <5>4
      <4>6. \A g \in G : g.tid = t => g.ver < v
        BY <1>1, <1>2, <1>3, <4>2, <4>3
      <4>7. \A x : <<t, x>> \in N => x \in Nat /\ x < v
        BY <1>1, <1>3, <4>2, <4>4
      <4> QED BY <4>5, <4>6, <4>7
    <3> QED BY <3>1, <3>2
  <2>5. \A g \in G : g.tid = t => g.ver <= v /\ g.ver # v
    BY <1>1, <1>2, <2>4
  <2>6. \A x : <<t, x>> \in N => x \in Nat /\ x <= v /\ x # v
    BY <1>1, <2>4
  <2> QED BY <2>2, <2>3, <2>4, <2>5, <2>6 DEF UpToVersion, tc
<1> QED BY <1>4, <1>5

\* A section is delivered, and its table when it is complete.
LEMMA TableKnownKept ==
    ASSUME NEW t \in TIDs, NEW c \in TableIn(t), NEW G \in SUBSET Sent, NEW N, TableKnown(t, c, G, N),
           NEW h \in Sent, h.tid = t, \A g \in G : Prior(g, h), NEW full \in BOOLEAN,
           NEW y \in TableIn(t), Puts(y, TableContext(c, h), h, full),
           NEW M, M = IF full THEN N \cup {<<t, h.ver>>} ELSE N
    PROVE  /\ TableKnown(t, y, G \cup {h}, M)
           /\ full => \A x : <<t, x>> \in N => x \in Nat /\ x < h.ver
<1> DEFINE tc == TableContext(c, h)  v == h.ver  n == h.num + 1
<1>1. UpToVersion(t, v, tc, G, N)
  BY VersionStarts
<1>2. /\ y.version = v /\ Len(y.sects) = Len(tc.sects) /\ h.last + 1 = Len(tc.sects)
      /\ n \in 1 .. Len(tc.sects) /\ y.sects[n] # NullSection
      /\ \A i \in 1 .. Len(tc.sects) : i # n => y.sects[i] = tc.sects[i]
      /\ full <=> /\ tc.sects[n] = NullSection /\ ~tc.notified
                  /\ \A i \in 1 .. Len(tc.sects) : y.sects[i] # NullSection
      /\ y.notified <=> tc.notified \/ full
  BY DEF Puts
<1>3. /\ v \in Nat /\ v \in DOMAIN TableSizes[t] /\ h.last + 1 = Len(TableSizes[t][v]) /\ h.num \in Nat
      /\ h.last \in Nat /\ DOMAIN TableSizes[t] \subseteq Nat
  <2>1. TableSizes[t] \in Seq(Seq(MinSection .. MaxSection) \ {<<>>})
    BY StreamAssumption
  <2>2. DOMAIN TableSizes[t] = 1 .. Len(TableSizes[t]) /\ Len(TableSizes[t]) \in Nat
    BY <2>1
  <2> QED BY <2>2, SentSize DEF Sect
<1> HIDE DEF tc, v, n
<1>4. y.sects # <<>>
  BY <1>2, <1>3
<1>5. ASSUME NEW g \in G \cup {h}, g.tid = t
      PROVE  g.ver <= v /\ (g.ver = v => y.sects[g.num + 1] # NullSection)
  <2>1. CASE g = h
    BY <1>2, <1>3, <2>1 DEF v, n
  <2>2. CASE g \in G
    <3>1. g.ver <= v /\ (g.ver = v => tc.sects[g.num + 1] # NullSection)
      BY <1>1, <1>5, <2>2 DEF UpToVersion
    <3>2. ASSUME g.ver = v PROVE y.sects[g.num + 1] # NullSection
      <4>1. g \in Sent /\ g.num \in Nat
        BY <2>2, SentSize DEF Sect
      <4>2. g.num + 1 \in DOMAIN TableSizes[t][v] /\ TableSizes[t][v] \in Seq(MinSection .. MaxSection)
        BY <1>3, <1>5, <3>2, <4>1, SentSize, StreamAssumption
      <4>3. g.num + 1 \in 1 .. Len(tc.sects)
        BY <1>2, <1>3, <4>2
      <4> QED BY <1>2, <3>1, <3>2, <4>3
    <3> QED BY <3>1, <3>2
  <2> QED BY <2>1, <2>2
<1>6. ASSUME NEW x, <<t, x>> \in M PROVE x \in Nat /\ x <= v
  <2>1. <<t, x>> \in N \/ x = v
    BY <1>6 DEF v
  <2> QED BY <1>1, <1>3, <2>1 DEF UpToVersion
<1>7. <<t, v>> \in M <=> y.notified
  BY <1>1, <1>2 DEF UpToVersion, v
<1>8. ASSUME ~y.notified PROVE \E i \in 1 .. Len(y.sects) : y.sects[i] = NullSection
  <2>1. ~tc.notified /\ ~full
    BY <1>2, <1>8
  <2>2. PICK i \in 1 .. Len(tc.sects) : tc.sects[i] = NullSection
    BY <1>1, <2>1 DEF UpToVersion
  <2>3. CASE i = n
    BY <1>2, <2>1, <2>2, <2>3
  <2>4. CASE i # n
    BY <1>2, <2>2, <2>4
  <2> QED BY <2>3, <2>4
<1>9. ASSUME NEW x \in DOMAIN TableSizes[t], x < v, AllGot(t, x, G \cup {h}) PROVE <<t, x>> \in M
  <2>1. AllGot(t, x, G)
    <3>1. h.ver # x
      BY <1>3, <1>9 DEF v
    <3> QED BY <1>9, <3>1 DEF AllGot
  <2> QED BY <1>1, <1>9, <2>1 DEF UpToVersion
<1>10. UpToVersion(t, v, y, G \cup {h}, M)
  BY <1>5, <1>6, <1>7, <1>8, <1>9 DEF UpToVersion
<1>11. TableKnown(t, y, G \cup {h}, M)
  <2>1. \E g \in G \cup {h} : g.tid = t /\ g.ver = v
    BY DEF v
  <2> QED BY <1>2, <1>3, <1>4, <1>10, <2>1 DEF TableKnown
<1>12. ASSUME full, NEW x, <<t, x>> \in N PROVE x \in Nat /\ x < v
  <2>1. x \in Nat /\ x <= v /\ x # v
    BY <1>1, <1>2, <1>12 DEF UpToVersion
  <2> QED BY <1>3, <2>1
<1> QED BY <1>11, <1>12 DEF v
-----------------------------------------------------------------------------
(***************************************************************************)
(* Tables are delivered with their last section.                           *)
(***************************************************************************)
\* Section s is in the list T; the sections of tables T were delivered in S, in the same order.
Has(T, s) == \E i \in 1 .. Len(T) : T[i] = s
Witnessed(S, T) ==
    /\ \A i \in 1 .. Len(T) : \E p \in 1 .. Len(S) : Has(T[i], S[p])
    /\ \A i, j \in 1 .. Len(T) :
          i < j => \E p, q \in 1 .. Len(S) : p < q /\ Has(T[i], S[p]) /\ Has(T[j], S[q])

\* More sections and tables are delivered.
LEMMA WitnessedConcat ==
    ASSUME NEW S \in Seq(Sent), NEW T \in Seq(FullTable), Witnessed(S, T),
           NEW X \in Seq(Sent), NEW Y \in Seq(FullTable), Witnessed(X, Y)
    PROVE  Witnessed(S \o X, T \o Y)
<1> DEFINE A == S \o X  B == T \o Y  a == Len(S)  b == Len(T)
<1>1. /\ a \in Nat /\ Len(X) \in Nat /\ Len(A) = a + Len(X)
      /\ \A i \in 1 .. a : A[i] = S[i] /\ i \in 1 .. Len(A)
      /\ \A i \in 1 .. Len(X) : A[a + i] = X[i] /\ a + i \in 1 .. Len(A)
  OBVIOUS
<1>2. ASSUME NEW i \in 1 .. Len(B)
      PROVE  \/ i \in 1 .. b /\ B[i] = T[i]
             \/ i \in Nat /\ b \in Nat /\ b < i /\ i - b \in 1 .. Len(Y) /\ B[i] = Y[i - b]
  BY <1>2, ConcatAt
<1> HIDE DEF A, B, a, b
<1>3. ASSUME NEW i \in 1 .. b PROVE \E p \in 1 .. a : A[p] = S[p] /\ p \in 1 .. Len(A) /\ Has(T[i], A[p])
  BY <1>1, <1>3 DEF Witnessed, a, b
<1>4. ASSUME NEW i \in 1 .. Len(Y)
      PROVE  \E p \in 1 .. Len(A) : a < p /\ Has(Y[i], A[p])
  <2>1. PICK p \in 1 .. Len(X) : Has(Y[i], X[p])
    BY <1>4 DEF Witnessed
  <2>2. a + p \in 1 .. Len(A) /\ a < a + p /\ A[a + p] = X[p]
    BY <1>1
  <2> QED BY <2>1, <2>2
<1>5. ASSUME NEW i \in 1 .. Len(B) PROVE \E p \in 1 .. Len(A) : Has(B[i], A[p])
  <2>1. CASE i \in 1 .. b /\ B[i] = T[i]
    BY <1>3, <2>1
  <2>2. CASE i - b \in 1 .. Len(Y) /\ B[i] = Y[i - b]
    BY <1>4, <2>2
  <2> QED BY <1>2, <1>5, <2>1, <2>2
<1>6. ASSUME NEW i \in 1 .. Len(B), NEW j \in 1 .. Len(B), i < j
      PROVE  \E p, q \in 1 .. Len(A) : p < q /\ Has(B[i], A[p]) /\ Has(B[j], A[q])
  <2>1. CASE i \in 1 .. b /\ B[i] = T[i]
    <3>1. CASE j \in 1 .. b /\ B[j] = T[j]
      <4>1. PICK p \in 1 .. a, q \in 1 .. a : p < q /\ Has(T[i], S[p]) /\ Has(T[j], S[q])
        BY <1>6, <2>1, <3>1 DEF Witnessed, a, b
      <4>2. p \in 1 .. Len(A) /\ q \in 1 .. Len(A) /\ A[p] = S[p] /\ A[q] = S[q]
        BY <1>1
      <4> QED BY <2>1, <3>1, <4>1, <4>2
    <3>2. CASE j - b \in 1 .. Len(Y) /\ B[j] = Y[j - b]
      <4>1. PICK p \in 1 .. a : p \in 1 .. Len(A) /\ Has(T[i], A[p])
        BY <1>3, <2>1
      <4>2. PICK q \in 1 .. Len(A) : a < q /\ Has(Y[j - b], A[q])
        BY <1>4, <3>2
      <4>3. p < q
        BY <1>1, <4>1, <4>2
      <4> QED BY <2>1, <3>2, <4>1, <4>2, <4>3
    <3> QED BY <1>2, <3>1, <3>2
  <2>2. CASE i \in Nat /\ b \in Nat /\ b < i /\ i - b \in 1 .. Len(Y) /\ B[i] = Y[i - b]
    <3>1. j - b \in 1 .. Len(Y) /\ B[j] = Y[j - b]
      <4>1. ~(j \in 1 .. b)
        BY <1>6, <2>2
      <4> QED BY <1>2, <4>1
    <3> DEFINE m == i - b  n == j - b
    <3>2. m < n /\ m \in 1 .. Len(Y) /\ n \in 1 .. Len(Y)
      <4>1. j \in Nat
        OBVIOUS
      <4> QED BY <1>6, <2>2, <3>1, <4>1
    <3>3. B[i] = Y[m] /\ B[j] = Y[n]
      BY <2>2, <3>1
    <3> HIDE DEF m, n
    <3>4. PICK p \in 1 .. Len(X), q \in 1 .. Len(X) : p < q /\ Has(Y[m], X[p]) /\ Has(Y[n], X[q])
      BY <3>2 DEF Witnessed
    <3>5. a + p \in 1 .. Len(A) /\ a + q \in 1 .. Len(A) /\ a + p < a + q
          /\ A[a + p] = X[p] /\ A[a + q] = X[q]
      BY <1>1, <3>4
    <3> QED BY <3>3, <3>4, <3>5
  <2> QED BY <1>2, <2>1, <2>2
<1> QED BY <1>5, <1>6 DEF Witnessed, A, B

\* A section is put at its place in its table.
LEMMA PutsOK ==
    ASSUME NEW u, NEW J, NEW P, NEW k, Buffer(u, J, P, k), NEW w, Walking(w, u, J, P, k),
           WholeAt(w, k), Accepted(w, k)
    PROVE  /\ Puts(AfterAt(w, k), ContextAt(w, k), HeaderAt(w, k), Completes(w, k))
           /\ Completes(w, k) => Has(StoredAt(w, k).sects, HeaderAt(w, k))
<1> DEFINE h == HeaderAt(w, k)  t == h.tid  tc == ContextAt(w, k)  y == StoredAt(w, k)
           c == Completes(w, k)  a == AfterAt(w, k)  n == h.num + 1
<1>1. /\ tc \in TableIn(t) /\ tc.version = h.ver /\ y \in TableIn(t) /\ y.version = h.ver
      /\ a.version = h.ver /\ a.sects = y.sects /\ (a.notified <=> y.notified \/ c)
      /\ y.notified = tc.notified
  BY StoredOK
<1>2. h \in Sent /\ h.last + 1 = Len(tc.sects) /\ ~Skipped(w, h)
  BY AcceptedSent DEF Accepted
<1>3. h.num \in Nat /\ h.last \in Nat /\ t \in TIDs
  BY <1>2, SentSize DEF Sect
<1>4. n \in 1 .. Len(tc.sects)
  <2>1. ~(h.num > h.last)
    BY <1>2 DEF Skipped
  <2> QED BY <1>2, <1>3, <2>1
<1>5. c \in BOOLEAN /\ tc.notified \in BOOLEAN /\ a.notified \in BOOLEAN
  <2>1. a \in TableIn(t)
    BY StoredOK
  <2> QED BY <1>1, <2>1 DEF TableIn, AnyTable, Completes
<1>6. c <=> ~Known(w, k) /\ ~tc.notified /\ \A i \in DOMAIN y.sects : y.sects[i] # NullSection
  BY DEF Completes
<1>7. Known(w, k) <=> tc.sects[n] # NullSection
  BY DEF Known
<1>8. Len(y.sects) = Len(tc.sects) /\ y.sects[n] # NullSection
      /\ (\A i \in 1 .. Len(tc.sects) : i # n => y.sects[i] = tc.sects[i])
      /\ (~Known(w, k) => y.sects[n] = h)
  <2>1. CASE Known(w, k)
    <3>1. y = tc
      BY <2>1 DEF StoredAt
    <3> QED BY <1>7, <2>1, <3>1
  <2>2. CASE ~Known(w, k)
    <3>1. y = [tc EXCEPT !.sects[n] = h]
      BY <2>2 DEF StoredAt
    <3> HIDE DEF h, tc, n, y, t
    <3>2. n = h.num + 1 /\ h.tid = t /\ h.ver = tc.version
      BY <1>1 DEF n, t
    <3>3. y.sects = [tc.sects EXCEPT ![n] = h] /\ Len(y.sects) = Len(tc.sects)
      BY <1>1, <1>2, <1>3, <1>4, <3>1, <3>2, StoreOK
    <3>4. tc.sects \in Seq(Sect)
      BY <1>1 DEF TableIn, AnyTable
    <3> QED BY <1>2, <1>4, <3>3, <3>4, SentSize
  <2> QED BY <2>1, <2>2
<1>9. DOMAIN y.sects = 1 .. Len(tc.sects)
  <2>1. y.sects \in Seq(Sect)
    BY <1>1 DEF TableIn, AnyTable
  <2> QED BY <1>8, <2>1
<1> HIDE DEF y, a, c, tc, h, n
<1>10. Puts(a, tc, h, c)
  BY <1>1, <1>2, <1>4, <1>5, <1>6, <1>7, <1>8, <1>9 DEF Puts, n
<1>11. c => Has(y.sects, h)
  BY <1>4, <1>6, <1>8 DEF Has
<1> QED BY <1>10, <1>11 DEF y, a, c, tc, h

\* What a turn of the loop delivers.
LEMMA TurnWitnessed ==
    ASSUME NEW u, NEW J, NEW P, NEW k, Buffer(u, J, P, k), NEW w, Walking(w, u, J, P, k),
           NEW hr \in BOOLEAN, Witnessed(w.sections, w.tables), NEW y, y = WalkStep(w, k, hr)
    PROVE  /\ Witnessed(y.sections, y.tables)
           /\ hr /\ (y.sections # w.sections \/ y.garbage # w.garbage)
              => y.d = PIDContext /\ y.done
<1> DEFINE h == HeaderAt(w, k)  X == StoredAt(w, k).sects
<1>1. w \in WalkState /\ w.sections \in Seq(Sent) /\ w.tables \in Seq(FullTable)
  BY DEF Walking, WalkState
<1>g. WholeAt(w, k) => y.garbage = w.garbage
  <2> SUFFICES ASSUME WholeAt(w, k) PROVE y.garbage = w.garbage
    OBVIOUS
  <2>1. Ends(y, w, u, P, k, hr)
    BY EndFields
  <2> HIDE DEF h
  <2>2. y = [w EXCEPT !.sections = y.sections, !.tables = y.tables, !.d = y.d, !.done = y.done,
                      !.at = y.at]
    BY <2>1 DEF Ends
  <2> QED BY <1>1, <2>2 DEF WalkState
<1>2. CASE ~WholeAt(w, k)
  <2>1. Stops(y, w, u, k) \/ Fails(y, w, u, J) \/ Drops(y, w, u, J, hr)
    BY <1>2, WalkStepOK
  <2>2. CASE Stops(y, w, u, k) \/ Fails(y, w, u, J)
    <3>1. y.sections = w.sections /\ y.tables = w.tables /\ y.garbage = w.garbage
      BY <1>1, <2>2 DEF Stops, Fails, WalkState
    <3> QED BY <3>1
  <2>3. CASE Drops(y, w, u, J, hr)
    BY <2>3 DEF Drops
  <2> QED BY <2>1, <2>2, <2>3
<1>3. CASE WholeAt(w, k) /\ ~Accepted(w, k)
  <2>1. Ends(y, w, u, P, k, hr) /\ ~Completes(w, k)
    BY <1>3, EndFields DEF Completes
  <2>2. y.sections = w.sections /\ y.tables = w.tables
    BY <1>3, <2>1 DEF Ends
  <2> QED BY <1>3, <1>g, <2>2
<1>4. CASE WholeAt(w, k) /\ Accepted(w, k)
  <2>1. Ends(y, w, u, P, k, hr)
    BY <1>4, EndFields
  <2>2. h \in Sent
    BY <1>4, AcceptedSent
  <2>3. Completes(w, k) => X \in FullTable /\ Has(X, h)
    BY <1>4, PutsOK, StoredOK
  <2>4. /\ y.sections = Append(w.sections, h)
        /\ y.tables = IF Completes(w, k) THEN Append(w.tables, X) ELSE w.tables
        /\ hr => y.d = PIDContext /\ y.done
    BY <1>4, <2>1 DEF Ends
  <2> HIDE DEF h, X
  <2> DEFINE L == <<h>>  M == <<X>>  e == <<>>
  <2>5. y.sections = w.sections \o L /\ L \in Seq(Sent) /\ Len(L) = 1 /\ L[1] = h
    BY <1>1, <2>2, <2>4
  <2>6. CASE Completes(w, k)
    <3>1. y.tables = w.tables \o M /\ M \in Seq(FullTable) /\ Len(M) = 1 /\ M[1] = X
      BY <1>1, <2>3, <2>4, <2>6, SMTT(30)
    <3> HIDE DEF L, M
    <3>2. Witnessed(L, M)
      BY <2>3, <2>5, <2>6, <3>1 DEF Witnessed
    <3>3. Witnessed(w.sections \o L, w.tables \o M)
      BY <1>1, <2>5, <3>1, <3>2, WitnessedConcat
    <3> QED BY <1>4, <2>4, <2>5, <3>1, <3>3
  <2>7. CASE ~Completes(w, k)
    <3>1. y.tables = w.tables \o e /\ e \in Seq(FullTable) /\ Len(e) = 0
      BY <1>1, <2>4, <2>7
    <3> HIDE DEF L, e
    <3>2. Witnessed(L, e)
      BY <3>1 DEF Witnessed
    <3>3. Witnessed(w.sections \o L, w.tables \o e)
      BY <1>1, <2>5, <3>1, <3>2, WitnessedConcat
    <3> QED BY <1>4, <2>4, <2>5, <3>1, <3>3
  <2> QED BY <2>6, <2>7
<1> QED BY <1>2, <1>3, <1>4

\* What processPacket() delivers.  If the handler reset the demux, its contexts are new.
LEMMA ProcessedWitnessed ==
    ASSUME NEW d0, NEW k, Waiting(d0, k), NEW pkt, PacketOK(pkt), NEW hr \in BOOLEAN,
           NEW r, r = ProcessPacket(d0, pkt, k, hr)
    PROVE  /\ Witnessed(r.sections, r.tables)
           /\ hr /\ (r.sections # <<>> \/ r.garbage)
              => ~r.d.sync /\ r.d.tids = PIDContext.tids
<1>1. CASE Ignores(r, d0, pkt) \/ Awaits(r, d0, pkt)
  <2>1. r.sections = <<>> /\ r.tables = <<>> /\ ~r.garbage
    <3>1. CASE Ignores(r, d0, pkt)
      BY <3>1 DEF Ignores, NoneFrom
    <3>2. CASE Awaits(r, d0, pkt)
      <4> DEFINE x == r.d  e == <<>>
      <4>1. r = [d |-> x, sections |-> e, tables |-> e, garbage |-> FALSE]
        BY <3>2 DEF Awaits, NoneFrom
      <4> HIDE DEF x
      <4> QED BY <4>1
    <3> QED BY <1>1, <3>1, <3>2
  <2> QED BY <2>1 DEF Witnessed
<1>2. ASSUME NEW e, NEW u, NEW J, NEW P, Starts(e, u, J, P, d0, pkt, k),
             r = Result(Walk(LoopFrom(e, P), k, hr))
      PROVE  /\ Witnessed(r.sections, r.tables)
             /\ hr /\ (r.sections # <<>> \/ r.garbage)
                => ~r.d.sync /\ r.d.tids = PIDContext.tids
  <2> DEFINE B == {v \in WalkState : /\ Witnessed(v.sections, v.tables)
                                     /\ hr /\ (v.sections # <<>> \/ v.garbage)
                                        => v.d = PIDContext /\ v.done}
             w0 == LoopFrom(e, P)  w == Walk(w0, k, hr)
  <2>1. /\ e \in Demux /\ e.ts = u /\ e.sync
        /\ Buffer(u, J, P, k) /\ J <= Len(u) /\ (J = 0 \/ FromStart(u, J, k)) /\ P \in Int
    BY <1>2 DEF Starts, Buffer
  <2>2. w0 \in B
    <3> DEFINE s == <<>>  n == 0  f == FALSE
    <3>1. w0 = [d |-> e, at |-> n, pusi |-> P, sections |-> s, tables |-> s,
                 garbage |-> f, done |-> f]
          /\ s \in Seq(Sent) /\ s \in Seq(FullTable) /\ n \in Nat /\ f \in BOOLEAN /\ Len(s) = 0
          /\ s = <<>> /\ ~f
      BY DEF LoopFrom
    <3> HIDE DEF w0, s, n, f
    <3>2. w0 \in WalkState /\ w0.sections = s /\ w0.tables = s /\ ~w0.garbage
      BY <2>1, <3>1 DEF WalkState
    <3>3. Witnessed(s, s)
      BY <3>1 DEF Witnessed
    <3> QED BY <3>1, <3>2, <3>3
  <2>3. ASSUME NEW v \in B, WalkOK(v, u, J, P, k, e.cc, hr), ~v.done, v.at < Len(u)
        PROVE  WalkStep(v, k, hr) \in B
    <3> DEFINE y == WalkStep(v, k, hr)
    <3>1. Walking(v, u, J, P, k)
      <4>1. v \in WalkState /\ v.d \in Demux
        BY <2>3 DEF WalkOK, WalkState
      <4>2. v.d.sync
        BY <2>3, <4>1 DEF WalkOK, Demux
      <4> QED BY <2>3, <4>1, <4>2 DEF WalkOK, Walking
    <3>2. y \in WalkState
      BY <2>1, <3>1, WalkStepOK
    <3>3. Witnessed(v.sections, v.tables) /\ (hr => v.sections = <<>> /\ ~v.garbage)
          /\ v.garbage \in BOOLEAN
      BY <2>3 DEF WalkState
    <3>4. /\ Witnessed(y.sections, y.tables)
          /\ hr /\ (y.sections # v.sections \/ y.garbage # v.garbage) => y.d = PIDContext /\ y.done
      <4> HIDE DEF y
      <4>1. y = WalkStep(v, k, hr)
        BY DEF y
      <4> QED BY <2>1, <3>1, <3>3, <4>1, TurnWitnessed
    <3> HIDE DEF y
    <3>5. y \in B
      BY <3>2, <3>3, <3>4
    <3> QED BY <3>5 DEF y
  <2>4. w \in B
    <3> HIDE DEF B
    <3>1. Walk(LoopFrom(e, P), k, hr) \in B
      BY <2>1, <2>2, <2>3, WalkIn
    <3> QED BY <3>1
  <2> HIDE DEF w, w0
  <2>5. /\ w \in WalkState /\ Witnessed(w.sections, w.tables)
        /\ hr /\ (w.sections # <<>> \/ w.garbage) => w.d = PIDContext
    BY <2>4
  <2> DEFINE l == SubSeq(w.d.ts, w.at + 1, Len(w.d.ts))  x == [w.d EXCEPT !.ts = l]
  <2>6. r.d = x /\ r.sections = w.sections /\ r.tables = w.tables /\ r.garbage = w.garbage
    BY <1>2 DEF Result, w, w0
  <2> HIDE DEF l
  <2>7. x.sync = w.d.sync /\ x.tids = w.d.tids
    BY <2>5 DEF WalkState, Demux
  <2> HIDE DEF x
  <2> QED BY <2>5, <2>6, <2>7, DemuxValues
<1>3. \/ Ignores(r, d0, pkt) \/ Awaits(r, d0, pkt)
      \/ \E e, u, J, P : Starts(e, u, J, P, d0, pkt, k) /\ r = Result(Walk(LoopFrom(e, P), k, hr))
  BY ProcessPacketIs
<1> QED BY <1>1, <1>2, <1>3

-----------------------------------------------------------------------------
(***************************************************************************)
(* The loop on a buffer in which sections follow each other without a hole *)
(* from its start, or from the start of the packet.                        *)
(***************************************************************************)
Closed(b) == b = Stuffing \/ b.at = b.of.size

\* The contexts f of the tables have the length of their versions.
AllSound(f) == \A t \in TIDs : Sound(t, f[t])

\* Where a section begins, it is seen as it was sent.
LEMMA AlignedSection ==
    ASSUME NEW u, NEW J, NEW P, NEW k, Buffer(u, J, P, k), NEW w, Walking(w, u, J, P, k),
           Aligned(u, J, w.at)
    PROVE  LET h == HeaderAt(w, k)
           IN  /\ h \in Sent /\ h = u[w.at + 1].of /\ ~Truncated(w, h)
               /\ \A i \in 1 .. h.size : w.at + i <= Len(u) => u[w.at + i] = [of |-> h, at |-> i]
<1> DEFINE h == HeaderAt(w, k)  n == h.size  p == w.at
<1>1. /\ u \in Seq(Raw) /\ p \in Nat /\ p < Len(u) /\ w.d.ts = u /\ Len(u) \in Nat /\ J \in Nat
      /\ w.pusi = P /\ P \in Int /\ Flow(u, J) /\ k \in DOMAIN Junk
  BY DEF Buffer, Flow, Walking, WalkState
<1>2. P = -1 \/ (J <= P /\ P < Len(u) /\ u[P + 1].at = 1)
  BY DEF Buffer
<1>3. J <= p /\ u[p + 1].at = 1 /\ p + 1 \in 1 .. Len(u)
  BY <1>1 DEF Aligned
<1>4. u[p + 1] # Stuffing /\ u[p + 1] \in Raw
  <2>1. u[p + 1] \in Raw
    BY <1>1, <1>3
  <2> QED BY <1>3, <2>1 DEF Stuffing
<1>5. h = u[p + 1].of
  BY <1>1, <1>3, <1>4, HeaderOK DEF HeaderAt
<1>6. h \in Sent /\ \A i \in 1 .. n : p + i <= Len(u) => u[p + i] = [of |-> h, at |-> i]
  <2>1. /\ u[p + 1].of \in Sent
        /\ \A i \in 1 .. u[p + 1].of.size :
             p + i <= Len(u) => u[p + i] = [of |-> u[p + 1].of, at |-> i]
    BY <1>1, <1>3, FlowForward
  <2> QED BY <1>5, <2>1
<1>7. n \in Nat
  BY <1>6, SentSize
<1>8. ~Truncated(w, h)
  <2> SUFFICES ASSUME Truncated(w, h) PROVE FALSE
    OBVIOUS
  <2>0. p < P /\ p + n > P
    BY <1>1 DEF Truncated
  <2> DEFINE i == (P - p) + 1
  <2> HIDE DEF h, n
  <2>1. i \in 1 .. n /\ p + i = P + 1 /\ p + i <= Len(u) /\ i # 1 /\ u[P + 1].at = 1
    BY <1>1, <1>2, <1>7, <2>0, SMTT(30)
  <2>2. u[p + i] = [of |-> h, at |-> i]
    BY <1>6, <2>1
  <2>3. u[P + 1].at = i
    BY <2>1, <2>2
  <2> QED BY <2>1, <2>3
<1> QED BY <1>5, <1>6, <1>8

\* It is accepted when it is there as a whole.
LEMMA AlignedAccepted ==
    ASSUME NEW u, NEW J, NEW P, NEW k, Buffer(u, J, P, k), NEW w, Walking(w, u, J, P, k),
           Aligned(u, J, w.at), WholeAt(w, k), AllSound(w.d.tids)
    PROVE  Accepted(w, k) /\ IsAt(HeaderAt(w, k), u, w.at)
<1> DEFINE h == HeaderAt(w, k)  n == h.size  p == w.at  c == w.d.tids[h.tid]
<1>1. /\ h \in Sent /\ ~Truncated(w, h)
      /\ \A i \in 1 .. n : p + i <= Len(u) => u[p + i] = [of |-> h, at |-> i]
  BY AlignedSection
<1>2. /\ n \in Nat /\ h.tid \in TIDs /\ h.num \in Nat /\ h.last \in Nat /\ h.ver \in DOMAIN TableSizes[h.tid]
      /\ h.num + 1 \in DOMAIN TableSizes[h.tid][h.ver]
      /\ h.last + 1 = Len(TableSizes[h.tid][h.ver]) /\ h \in Headers
      /\ TableSizes[h.tid][h.ver] \in Seq(MinSection .. MaxSection)
  BY <1>1, SentSize, StreamAssumption, SMTT(30) DEF Sect, Headers
<1>3. u \in Seq(Raw) /\ p \in Nat /\ w.d.ts = u /\ Len(u) \in Nat /\ p + n <= Len(u)
  <2>1. u \in Seq(Raw) /\ p \in Nat /\ w.d.ts = u /\ Len(u) \in Nat
    BY DEF Buffer, Flow, Walking, WalkState
  <2>2. n <= Len(u) - p
    BY <2>1 DEF WholeAt
  <2> QED BY <1>2, <2>1, <2>2
<1>4. ~(h.num > h.last)
  BY <1>2
<1>5. h.last + 1 = Len(ContextAt(w, k).sects)
  <2>1. CASE c.sects # <<>> /\ c.version = h.ver
    <3>1. ContextAt(w, k) = c
      BY <2>1 DEF ContextAt, TableContext
    <3>2. Sound(h.tid, c)
      BY <1>2 DEF AllSound
    <3> QED BY <1>2, <2>1, <3>1, <3>2 DEF Sound
  <2>2. CASE ~(c.sects # <<>> /\ c.version = h.ver)
    <3>1. ContextAt(w, k) = InitTable(h)
      BY <2>2 DEF ContextAt, TableContext
    <3> QED BY <1>2, <3>1, InitTableOK
  <2> QED BY <2>1, <2>2
<1>6. \A i \in 1 .. n : u[p + i] = [of |-> h, at |-> i]
  BY <1>1, <1>2, <1>3
<1>7. Valid(SubSeq(u, p + 1, p + n), h)
  <2> HIDE DEF h, n, p
  <2> SUFFICES ASSUME NEW i \in 1 .. n PROVE SubSeq(u, p + 1, p + n)[i] = [of |-> h, at |-> i]
    BY DEF Valid, n
  <2>1. SubSeq(u, p + 1, p + n)[i] = u[p + i]
    BY <1>2, <1>3
  <2> QED BY <1>6, <2>1
<1>8. ~Skipped(w, h)
  BY <1>1, <1>4 DEF Skipped
<1> HIDE DEF h, n, p
<1>9. Accepted(w, k)
  BY <1>3, <1>5, <1>7, <1>8 DEF Accepted, h, n, p
<1> QED BY <1>3, <1>6, <1>9 DEF IsAt, h, n, p

\* The contexts remain so, with a section which is accepted.
LEMMA SoundKept ==
    ASSUME NEW u, NEW J, NEW P, NEW k, Buffer(u, J, P, k), NEW w, Walking(w, u, J, P, k),
           WholeAt(w, k), AllSound(w.d.tids), Accepted(w, k) \/ Skipped(w, HeaderAt(w, k))
    PROVE  AllSound(TidsAfter(w, k))
<1> DEFINE h == HeaderAt(w, k)  a == AfterAt(w, k)  f == w.d.tids
<1>1. CASE Skipped(w, h)
  BY <1>1 DEF TidsAfter
<1>2. CASE Accepted(w, k)
  <2>1. h \in Sent /\ ~Skipped(w, h)
    BY <1>2, AcceptedSent DEF Accepted
  <2>2. h.tid \in TIDs /\ h.last + 1 = Len(TableSizes[h.tid][h.ver])
    BY <2>1, SentSize
  <2>3. a.version = h.ver /\ Len(a.sects) = h.last + 1
    BY <1>2, PutsOK DEF Puts
  <2>4. TidsAfter(w, k) = [f EXCEPT ![h.tid] = a]
    BY <2>1 DEF TidsAfter
  <2>5. f \in [TIDs -> AnyTable]
    BY DEF Walking, WalkState, Demux, Contexts
  <2> HIDE DEF a, f, h
  <2>6. \A t \in TIDs : TidsAfter(w, k)[t] = IF t = h.tid THEN a ELSE f[t]
    BY <2>2, <2>4, <2>5
  <2>7. ASSUME NEW t \in TIDs PROVE Sound(t, TidsAfter(w, k)[t])
    <3>1. CASE t = h.tid
      BY <2>2, <2>3, <2>6, <3>1 DEF Sound
    <3>2. CASE t # h.tid
      BY <2>6, <3>2 DEF AllSound, f
    <3> QED BY <3>1, <3>2
  <2> QED BY <2>7 DEF AllSound
<1> QED BY <1>1, <1>2

\* The first T bytes of u are a section which was truncated, and which seems to go on in the packet.
CleanStart(u, T, P) ==
    IF T = 0 THEN Aligned(u, 0, 0) /\ u # <<>>
    ELSE /\ P = T /\ T < Len(u) /\ u[1].at = 1 /\ T < u[1].of.size /\ u[1].of.size <= Len(u)
         /\ \A i \in 1 .. T : u[i] = [of |-> u[1].of, at |-> i]

\* What was found in the buffer u, up to position p, beyond its first T bytes: the sections L.
Found(L, u, T, p) ==
    \A m \in 1 .. Len(u) :
        T < m /\ m <= p /\ u[m] # Stuffing /\ u[m].at = u[m].of.size => u[m].of \in Elements(L)

\* The states of the loop on such a buffer.
CleanOK(w, u, T) ==
    /\ w \in WalkState /\ w.d.sync /\ AllSound(w.d.tids)
    /\ Aligned(u, T, w.at) \/ (T > 0 /\ w.at = 0 /\ ~w.done)
    /\ Found(w.sections, u, T, w.at)
    /\ w.at = Len(u) => Closed(u[Len(u)])

\* The section which was truncated is skipped.
LEMMA FirstSkipped ==
    ASSUME NEW u, NEW T, NEW P, NEW k, Buffer(u, T, P, k), CleanStart(u, T, P), T > 0,
           NEW w, Walking(w, u, T, P, k), w.at = 0, NEW hr \in BOOLEAN,
           NEW y, y = WalkStep(w, k, hr)
    PROVE  /\ WholeAt(w, k) /\ Skipped(w, HeaderAt(w, k)) /\ ~Accepted(w, k)
           /\ y.sections = w.sections /\ y.garbage = w.garbage /\ ~y.done
           /\ y.d.tids = w.d.tids /\ y.d.sync = w.d.sync
           /\ y.at = T /\ T < Len(u) /\ Aligned(u, T, y.at)
<1> DEFINE h == HeaderAt(w, k)  n == h.size
           end == IF Truncated(w, h) THEN P ELSE w.at + n
           at == IF end < Len(u) /\ u[end + 1] = Stuffing THEN Len(u) ELSE end
<1>1. /\ u \in Seq(Raw) /\ w.d.ts = u /\ Len(u) \in Nat /\ T \in Nat /\ 0 < Len(u)
      /\ w.pusi = P /\ P \in Int /\ Flow(u, T) /\ k \in DOMAIN Junk /\ w \in WalkState /\ w.d \in Demux
  BY DEF Buffer, Flow, Walking, WalkState
<1>2. P = T /\ T < Len(u) /\ u[1].at = 1 /\ T < u[1].of.size /\ u[1].of.size <= Len(u)
  BY DEF CleanStart
<1>3. h = u[1].of /\ h \in Sent /\ ~IsShort(h)
  <2>1. u[1] \in Raw /\ u[1] # Stuffing
    <3>1. u[1] \in Raw
      BY <1>1
    <3> QED BY <1>2, <3>1 DEF Stuffing
  <2> QED BY <1>1, <1>2, <2>1, HeaderOK, RawByte DEF HeaderAt
<1>4. n \in Nat /\ MinSection <= n /\ n <= MaxSection /\ n <= Len(u) /\ T < n
  BY <1>2, <1>3, SentSize
<1>5. WholeAt(w, k)
  <2>1. ShortHeader <= Len(w.d.ts) - w.at /\ n <= Len(w.d.ts) - w.at
    BY <1>1, <1>4, Sizes
  <2> QED BY <1>3, <1>4, <2>1 DEF WholeAt
<1>6. Truncated(w, h)
  <2> HIDE DEF h
  <2> QED BY <1>1, <1>2, <1>4 DEF Truncated, n
<1>7. Skipped(w, h) /\ ~Accepted(w, k)
  BY <1>6 DEF Skipped, Accepted
<1>8. u[P + 1].at = 1 /\ u[P + 1] # Stuffing
  <2>1. u[P + 1].at = 1
    BY <1>1, <1>2 DEF Buffer
  <2> QED BY <2>1 DEF Stuffing
<1>9. at = T
  BY <1>2, <1>6, <1>8
<1>10. Ends(y, w, u, P, k, hr)
  BY <1>5, EndFields
<1> DEFINE x == TidsAfter(w, k)
<1>11. x = w.d.tids
  BY <1>7 DEF TidsAfter
<1>12. /\ y.sections = w.sections /\ ~y.done /\ y.d = [w.d EXCEPT !.tids = x] /\ y.at = at
       /\ y = [w EXCEPT !.sections = y.sections, !.tables = y.tables, !.d = y.d, !.done = y.done,
                        !.at = y.at]
  BY <1>7, <1>10 DEF Ends
<1> HIDE DEF x, at, h
<1>13. y.garbage = w.garbage
  BY <1>1, <1>12 DEF WalkState
<1>14. y.d.tids = x /\ y.d.sync = w.d.sync
  BY <1>1, <1>12 DEF Demux
<1>15. Aligned(u, T, y.at)
  BY <1>1, <1>2, <1>8, <1>9, <1>12 DEF Aligned
<1> QED BY <1>2, <1>5, <1>7, <1>9, <1>11, <1>12, <1>13, <1>14, <1>15 DEF h

\* Each turn of the loop on it.
LEMMA CleanKept ==
    ASSUME NEW u, NEW T, NEW P, NEW k, Buffer(u, T, P, k), CleanStart(u, T, P),
           NEW w, Walking(w, u, T, P, k), CleanOK(w, u, T)
    PROVE  /\ CleanOK(WalkStep(w, k, FALSE), u, T)
           /\ WholeAt(w, k) => Accepted(w, k) \/ Skipped(w, HeaderAt(w, k))
<1> DEFINE y == WalkStep(w, k, FALSE)  h == HeaderAt(w, k)  n == h.size  p == w.at
           end == IF Truncated(w, h) THEN P ELSE p + n
           at == IF end < Len(u) /\ u[end + 1] = Stuffing THEN Len(u) ELSE end
<1>1. /\ u \in Seq(Raw) /\ p \in Nat /\ p < Len(u) /\ w.d.ts = u /\ Len(u) \in Nat /\ T \in Nat
      /\ w.pusi = P /\ P \in Int /\ Flow(u, T) /\ k \in DOMAIN Junk /\ w \in WalkState /\ w.d \in Demux
      /\ w.sections \in Seq(Sent)
  BY DEF Buffer, Flow, Walking, WalkState
<1>2. y \in WalkState
  BY WalkStepOK
<1>3. ASSUME WholeAt(w, k)
      PROVE  /\ y.sections = IF Accepted(w, k) THEN Append(w.sections, h) ELSE w.sections
             /\ y.d.tids = TidsAfter(w, k) /\ y.d.sync /\ y.at = at /\ ~y.done
  <2>1. Ends(y, w, u, P, k, FALSE)
    BY <1>3, EndFields
  <2> DEFINE x == TidsAfter(w, k)
  <2>2. y.d = [w.d EXCEPT !.tids = x] /\ y.at = at /\ ~y.done
        /\ y.sections = IF Accepted(w, k) THEN Append(w.sections, h) ELSE w.sections
    BY <2>1 DEF Ends
  <2> HIDE DEF x
  <2>3. y.d.tids = x /\ y.d.sync = w.d.sync
    BY <1>1, <2>2 DEF Demux
  <2> QED BY <2>2, <2>3 DEF CleanOK, x
<1>4. CASE T > 0 /\ w.at = 0
  <2>1. /\ WholeAt(w, k) /\ Skipped(w, h) /\ y.sections = w.sections /\ y.d.tids = w.d.tids
        /\ y.d.sync = w.d.sync /\ y.at = T /\ T < Len(u) /\ Aligned(u, T, y.at)
    <3> DEFINE hr == FALSE  z == WalkStep(w, k, hr)
    <3>1. hr \in BOOLEAN /\ z = WalkStep(w, k, hr)
      OBVIOUS
    <3> HIDE DEF z, hr
    <3>2. /\ WholeAt(w, k) /\ Skipped(w, h) /\ z.sections = w.sections /\ z.d.tids = w.d.tids
          /\ z.d.sync = w.d.sync /\ z.at = T /\ T < Len(u) /\ Aligned(u, T, z.at)
      BY <1>4, <3>1, FirstSkipped
    <3> QED BY <3>2 DEF z, hr
  <2> HIDE DEF y, h
  <2>2. Found(y.sections, u, T, y.at)
    BY <1>1, <2>1 DEF Found
  <2>3. AllSound(y.d.tids) /\ y.at # Len(u) /\ y.d.sync
    BY <1>1, <2>1 DEF CleanOK
  <2>4. y \in WalkState
    BY <1>2 DEF y
  <2>5. CleanOK(y, u, T)
    BY <2>1, <2>2, <2>3, <2>4 DEF CleanOK
  <2> QED BY <2>1, <2>5 DEF y, h
<1>5. CASE Aligned(u, T, p)
  <2>1. /\ h \in Sent /\ h = u[p + 1].of /\ ~Truncated(w, h)
        /\ \A i \in 1 .. n : p + i <= Len(u) => u[p + i] = [of |-> h, at |-> i]
    BY <1>5, AlignedSection
  <2>2. n \in Nat /\ 1 <= n /\ end = p + n
    BY <2>1, SentSize, Sizes
  <2>3. CASE WholeAt(w, k)
    <3>1. Accepted(w, k) /\ IsAt(h, u, p)
      BY <1>5, <2>3, AlignedAccepted DEF CleanOK
    <3>2. y.sections = Append(w.sections, h) /\ y.d.tids = TidsAfter(w, k) /\ y.d.sync /\ y.at = at
      BY <1>3, <2>3, <3>1
    <3>3. AllSound(y.d.tids)
      BY <2>3, <3>1, <3>2, SoundKept DEF CleanOK
    <3>4. at \in Nat /\ Aligned(u, T, at) /\ p + n <= at /\ at <= Len(u)
      <4> HIDE DEF end, at
      <4>1. end = IF Truncated(w, HeaderAt(w, k)) THEN P ELSE w.at + HeaderAt(w, k).size
        BY DEF end
      <4>2. at = IF end < Len(u) /\ u[end + 1] = Stuffing THEN Len(u) ELSE end
        BY DEF at
      <4> QED BY <2>3, <3>1, <4>1, <4>2, EndPosition
    <3> HIDE DEF at, y, end
    <3>5. Elements(w.sections) \cup {h} \subseteq Elements(y.sections)
      <4>1. \A i \in 1 .. Len(w.sections) : y.sections[i] = w.sections[i] /\ i \in 1 .. Len(y.sections)
        BY <1>1, <2>1, <3>2
      <4>2. y.sections[Len(w.sections) + 1] = h /\ Len(w.sections) + 1 \in 1 .. Len(y.sections)
        BY <1>1, <2>1, <3>2
      <4> QED BY <4>1, <4>2 DEF Elements
    <3>6. ASSUME NEW m \in 1 .. Len(u), T < m, m <= at, u[m] # Stuffing, u[m].at = u[m].of.size
          PROVE  u[m].of \in Elements(y.sections)
      <4>1. CASE m <= p
        BY <3>5, <3>6, <4>1 DEF CleanOK, Found
      <4>2. CASE p < m /\ m <= p + n
        <5> DEFINE i == m - p
        <5>1. i \in 1 .. n /\ p + i = m
          BY <1>1, <2>2, <4>2
        <5>2. u[m] = [of |-> h, at |-> i]
          <6> HIDE DEF h, n, i
          <6> QED BY <2>1, <5>1
        <5> QED BY <3>5, <5>2
      <4>3. CASE p + n < m
        <5>1. at = Len(u) /\ end < Len(u) /\ u[end + 1] = Stuffing
          BY <1>1, <2>2, <3>4, <3>6, <4>3 DEF at
        <5> DEFINE j == end + 1
        <5>2. j \in 1 .. Len(u) /\ T < j /\ j <= m
          <6>1. T <= p
            BY <1>5 DEF Aligned
          <6> QED BY <1>1, <2>2, <4>3, <5>1, <6>1
        <5>3. u[j] = Stuffing
          BY <5>1
        <5> HIDE DEF j
        <5>4. CASE j = m
          BY <3>6, <5>3, <5>4
        <5>5. CASE j # m
          <6>1. Later(u[j], u[m])
            BY <1>1, <5>2, <5>5, FlowAt
          <6> QED BY <3>6, <5>3, <6>1 DEF Later
        <5> QED BY <5>4, <5>5
      <4> QED BY <1>1, <2>2, <4>1, <4>2, <4>3
    <3>7. Found(y.sections, u, T, y.at)
      BY <3>2, <3>6 DEF Found
    <3>8. ASSUME at = Len(u) PROVE Closed(u[Len(u)])
      <4>1. CASE end = Len(u)
        <5>0. n \in 1 .. n /\ p + n <= Len(u)
          BY <1>1, <2>2, <4>1
        <5>1. u[p + n] = [of |-> h, at |-> n]
          <6> HIDE DEF h, n
          <6> QED BY <2>1, <5>0
        <5> HIDE DEF h, n
        <5>2. u[p + n].at = u[p + n].of.size
          BY <5>1 DEF n
        <5> QED BY <2>2, <4>1, <5>2 DEF Closed
      <4>2. CASE end # Len(u)
        <5>1. end < Len(u) /\ u[end + 1] = Stuffing /\ end \in Nat /\ T <= end
          <6>1. T <= p
            BY <1>5 DEF Aligned
          <6> QED BY <1>1, <2>2, <3>8, <4>2, <6>1 DEF at
        <5> DEFINE j == end + 1  m == Len(u)
        <5>2. j \in 1 .. Len(u) /\ T < j /\ j <= m /\ m \in 1 .. Len(u) /\ u[j] = Stuffing
          BY <1>1, <5>1
        <5> HIDE DEF j
        <5>3. CASE j = m
          BY <5>2, <5>3 DEF Closed
        <5>4. CASE j # m
          <6>1. Later(u[j], u[m])
            BY <1>1, <5>2, <5>4, FlowAt
          <6> QED BY <5>2, <6>1 DEF Later, Closed
        <5> QED BY <5>3, <5>4
      <4> QED BY <4>1, <4>2
    <3>9. CleanOK(y, u, T)
      BY <1>2, <3>2, <3>3, <3>4, <3>7, <3>8 DEF CleanOK, y
    <3> QED BY <3>1, <3>9 DEF y
  <2>4. CASE ~WholeAt(w, k)
    <3>1. Stops(y, w, u, k)
      <4>1. Stops(y, w, u, k) \/ Fails(y, w, u, T) \/ Drops(y, w, u, T, FALSE)
        BY <2>4, WalkStepOK
      <4> QED BY <1>5, <4>1 DEF Fails, Drops
    <3> HIDE DEF y
    <3>2. y.d = w.d /\ y.at = w.at /\ y.sections = w.sections
      BY <1>1, <3>1 DEF Stops, WalkState
    <3>3. CleanOK(y, u, T)
      BY <1>2, <1>5, <3>2 DEF CleanOK, y
    <3> QED BY <2>4, <3>3 DEF y
  <2> QED BY <2>3, <2>4
<1> QED BY <1>4, <1>5 DEF CleanOK

\* The versions in the tables M increase; the contexts f are the ones after these and the sections L.
Increasing(M) ==
    \A i, j \in 1 .. Len(M) : i < j /\ M[i][1].tid = M[j][1].tid => M[i][1].ver < M[j][1].ver
Informed(f, L, M) ==
    Increasing(M) /\ \A t \in TIDs : TableKnown(t, f[t], Elements(L), Told(M))

\* A list after one more delivery.
LEMMA AppendFacts ==
    ASSUME NEW D, NEW L \in Seq(D), NEW K \in Seq(D), NEW x \in D
    PROVE  /\ L \o K \in Seq(D) /\ L \o Append(K, x) = Append(L \o K, x)
           /\ Len(Append(L, x)) = Len(L) + 1 /\ Append(L, x)[Len(L) + 1] = x /\ Len(L) \in Nat
           /\ \A i \in 1 .. Len(L) : Append(L, x)[i] = L[i]
OBVIOUS

\* The sections of it.
LEMMA AppendElements ==
    ASSUME NEW L \in Seq(Sent), NEW x \in Sent
    PROVE  Elements(Append(L, x)) = Elements(L) \cup {x}
<1> DEFINE A == Append(L, x)  n == Len(L)
<1>1. Len(A) = n + 1 /\ A[n + 1] = x /\ n \in Nat /\ \A i \in 1 .. n : A[i] = L[i]
  BY AppendFacts
<1> HIDE DEF A, n
<1>2. \A i \in 1 .. n + 1 : i \in 1 .. n \/ i = n + 1
  BY <1>1
<1>3. \A i \in 1 .. n : i \in 1 .. n + 1
  BY <1>1
<1>4. n + 1 \in 1 .. n + 1
  BY <1>1
<1> QED BY <1>1, <1>2, <1>3, <1>4 DEF Elements, A, n

\* The versions of it.
LEMMA AppendTold ==
    ASSUME NEW M \in Seq(FullTable), NEW X \in FullTable
    PROVE  Told(Append(M, X)) = Told(M) \cup {<<X[1].tid, X[1].ver>>}
<1> DEFINE A == Append(M, X)  n == Len(M)
<1>1. Len(A) = n + 1 /\ A[n + 1] = X /\ n \in Nat /\ \A i \in 1 .. n : A[i] = M[i]
  BY AppendFacts
<1> HIDE DEF A, n
<1>2. \A i \in 1 .. n + 1 : i \in 1 .. n \/ i = n + 1
  BY <1>1
<1>3. \A i \in 1 .. n : i \in 1 .. n + 1
  BY <1>1
<1>4. n + 1 \in 1 .. n + 1
  BY <1>1
<1> QED BY <1>1, <1>2, <1>3, <1>4 DEF Told, A, n

\* The version of the table which is appended was not told, and no later one was.
LEMMA IncreasingAppend ==
    ASSUME NEW M \in Seq(FullTable), NEW X \in FullTable, Increasing(M),
           \A x : <<X[1].tid, x>> \in Told(M) => x < X[1].ver
    PROVE  Increasing(Append(M, X))
<1> DEFINE A == Append(M, X)  n == Len(M)
<1>1. Len(A) = n + 1 /\ A[n + 1] = X /\ n \in Nat /\ \A i \in 1 .. n : A[i] = M[i]
  BY AppendFacts
<1>2. ASSUME NEW i \in 1 .. n, M[i][1].tid = X[1].tid PROVE M[i][1].ver < X[1].ver
  BY <1>2 DEF Told
<1> HIDE DEF A
<1>3. ASSUME NEW i \in 1 .. n + 1, NEW j \in 1 .. n + 1, i < j, A[i][1].tid = A[j][1].tid
      PROVE  A[i][1].ver < A[j][1].ver
  <2>1. i \in 1 .. n
    BY <1>1, <1>3
  <2>2. CASE j = n + 1
    BY <1>1, <1>2, <1>3, <2>1, <2>2
  <2>3. CASE j # n + 1
    <3>1. j \in 1 .. n
      BY <1>1, <2>3
    <3> QED BY <1>1, <1>3, <2>1, <3>1 DEF Increasing
  <2> QED BY <2>2, <2>3
<1>4. Increasing(A)
  BY <1>1, <1>3 DEF Increasing
<1> QED BY <1>4 DEF A

\* A section of another table says nothing of table t.
LEMMA OtherTable ==
    ASSUME NEW t, NEW c, NEW G, NEW N, TableKnown(t, c, G, N), NEW h, h.tid # t,
           NEW M, \A x : <<t, x>> \in M <=> <<t, x>> \in N
    PROVE  TableKnown(t, c, G \cup {h}, M)
<1>1. ASSUME NEW x, AllGot(t, x, G \cup {h}) PROVE AllGot(t, x, G)
  BY <1>1 DEF AllGot
<1>2. CASE c.sects = <<>>
  BY <1>2 DEF TableKnown
<1>3. CASE c.sects # <<>>
  <2>1. /\ c.version \in DOMAIN TableSizes[t] /\ Len(c.sects) = Len(TableSizes[t][c.version])
        /\ \E g \in G : g.tid = t /\ g.ver = c.version
        /\ UpToVersion(t, c.version, c, G, N)
    BY <1>3 DEF TableKnown
  <2>2. UpToVersion(t, c.version, c, G \cup {h}, M)
    BY <1>1, <2>1 DEF UpToVersion
  <2> QED BY <1>3, <2>1, <2>2 DEF TableKnown
<1> QED BY <1>2, <1>3

\* The contexts after a section h which is put in the one of its table.
LEMMA InformedKept ==
    ASSUME NEW f \in Contexts, NEW L \in Seq(Sent), NEW M \in Seq(FullTable), Informed(f, L, M),
           NEW h \in Sent, \A g \in Elements(L) : Prior(g, h), NEW full \in BOOLEAN,
           NEW y \in TableIn(h.tid), Puts(y, TableContext(f[h.tid], h), h, full),
           NEW X, full => X \in FullTable /\ X[1].tid = h.tid /\ X[1].ver = h.ver,
           NEW K, K = IF full THEN Append(M, X) ELSE M
    PROVE  Informed([f EXCEPT ![h.tid] = y], Append(L, h), K)
<1> DEFINE G == Elements(L)  N == Told(M)  b == h.tid  e == [f EXCEPT ![b] = y]
<1>1. G \in SUBSET Sent
  BY DEF Elements
<1>2. b \in TIDs /\ f[b] \in TableIn(b) /\ f \in [TIDs -> AnyTable]
  BY SentSize DEF Contexts
<1>3. Elements(Append(L, h)) = G \cup {h}
  BY AppendElements
<1>4. Told(K) = IF full THEN N \cup {<<b, h.ver>>} ELSE N
  <2>1. CASE full
    BY <2>1, AppendTold
  <2>2. CASE ~full
    BY <2>2
  <2> QED BY <2>1, <2>2
<1>5. \A t \in TIDs : e[t] = IF t = b THEN y ELSE f[t]
  BY <1>2
<1>6. TableKnown(b, f[b], G, N) /\ Increasing(M) /\ \A t \in TIDs : TableKnown(t, f[t], G, N)
  BY <1>2 DEF Informed
<1> HIDE DEF G, N, e, b
<1>7. h.tid = b /\ \A g \in G : Prior(g, h)
  BY DEF G, b
<1>8. /\ TableKnown(b, y, G \cup {h}, Told(K))
      /\ full => \A x : <<b, x>> \in N => x \in Nat /\ x < h.ver
  <2> DEFINE c == f[b]
  <2>1. c \in TableIn(b) /\ TableKnown(b, c, G, N) /\ Puts(y, TableContext(c, h), h, full) /\ y \in TableIn(b)
    BY <1>2, <1>6, <1>7
  <2> HIDE DEF c
  <2> QED BY <1>1, <1>2, <1>4, <1>7, <2>1, TableKnownKept
<1>9. ASSUME NEW t \in TIDs PROVE TableKnown(t, e[t], G \cup {h}, Told(K))
  <2>1. CASE t = b
    BY <1>5, <1>8, <2>1
  <2>2. CASE t # b
    <3>1. e[t] = f[t] /\ TableKnown(t, f[t], G, N)
      BY <1>5, <1>6, <2>2
    <3>2. \A x : <<t, x>> \in Told(K) <=> <<t, x>> \in N
      BY <1>4, <2>2
    <3>3. TableKnown(t, f[t], G \cup {h}, Told(K))
      BY <1>7, <2>2, <3>1, <3>2, OtherTable
    <3> QED BY <3>1, <3>3
  <2> QED BY <2>1, <2>2
<1>10. Increasing(K)
  <2>1. CASE full
    <3>1. X \in FullTable /\ X[1].tid = b /\ X[1].ver = h.ver
      BY <1>7, <2>1
    <3>2. \A x : <<X[1].tid, x>> \in Told(M) => x < X[1].ver
      BY <1>8, <2>1, <3>1 DEF N
    <3> QED BY <1>6, <2>1, <3>1, <3>2, IncreasingAppend
  <2>2. CASE ~full
    BY <1>6, <2>2
  <2> QED BY <2>1, <2>2
<1> QED BY <1>3, <1>9, <1>10 DEF Informed, e, b

\* A turn of the loop, where a section is either accepted or not looked at.
LEMMA TurnInformed ==
    ASSUME NEW u, NEW J, NEW P, NEW k, Buffer(u, J, P, k), NEW c,
           NEW w, WalkOK(w, u, J, P, k, c, FALSE), Walking(w, u, J, P, k),
           WholeAt(w, k) => Accepted(w, k) \/ Skipped(w, HeaderAt(w, k)),
           NEW S \in Seq(Sent), NEW B \in Seq(FullTable),
           \A i \in 1 .. Len(S) : Before(S[i], u),
           Informed(w.d.tids, S \o w.sections, B \o w.tables),
           NEW y, y = WalkStep(w, k, FALSE)
    PROVE  Informed(y.d.tids, S \o y.sections, B \o y.tables)
<1> DEFINE h == HeaderAt(w, k)  X == StoredAt(w, k).sects  f == w.d.tids  p == w.at
           L == S \o w.sections  M == B \o w.tables
<1>1. /\ w \in WalkState /\ w.d \in Demux /\ f \in Contexts /\ w.sections \in Seq(Sent)
      /\ w.tables \in Seq(FullTable) /\ w.d.sync /\ w.d.ts = u /\ p \in Nat /\ p < Len(u)
      /\ Flow(u, J) /\ Len(u) \in Nat /\ u \in Seq(Raw)
  <2>1. w \in WalkState /\ w.d \in Demux /\ w.d.ts = u /\ p \in Nat /\ p < Len(u) /\ ~w.done
    BY DEF Walking, WalkState
  <2>2. w.d.sync
    BY <2>1 DEF WalkOK, Demux
  <2> QED BY <2>1, <2>2 DEF WalkState, Demux, Buffer, Flow
<1>2. CASE ~WholeAt(w, k)
  <2>1. Stops(y, w, u, k) \/ Fails(y, w, u, J) \/ Drops(y, w, u, J, FALSE)
    BY <1>2, WalkStepOK
  <2>2. y.sections = w.sections /\ y.tables = w.tables /\ y.d.tids = f
    <3>1. CASE Stops(y, w, u, k)
      BY <1>1, <3>1 DEF Stops, WalkState
    <3>2. CASE Fails(y, w, u, J)
      <4> DEFINE l == SyncLost(w.d)
      <4>1. l.tids = f
        BY <1>1, DemuxValues
      <4>2. y = [w EXCEPT !.d = l, !.at = 0, !.done = TRUE]
        BY <3>2 DEF Fails
      <4> HIDE DEF l
      <4> QED BY <1>1, <4>1, <4>2 DEF WalkState
    <3>3. CASE Drops(y, w, u, J, FALSE)
      BY <3>3 DEF Drops
    <3> QED BY <2>1, <3>1, <3>2, <3>3
  <2> QED BY <2>2
<1>3. CASE WholeAt(w, k)
  <2> DEFINE x == TidsAfter(w, k)
  <2>1. /\ y.sections = IF Accepted(w, k) THEN Append(w.sections, h) ELSE w.sections
        /\ y.tables = IF Completes(w, k) THEN Append(w.tables, X) ELSE w.tables
        /\ y.d.tids = x
    <3>1. Ends(y, w, u, P, k, FALSE)
      BY <1>3, EndFields
    <3>2. /\ y.d = [w.d EXCEPT !.tids = x]
          /\ y.sections = IF Accepted(w, k) THEN Append(w.sections, h) ELSE w.sections
          /\ y.tables = IF Completes(w, k) THEN Append(w.tables, X) ELSE w.tables
      BY <3>1 DEF Ends
    <3> HIDE DEF x, h, X
    <3>3. y.d.tids = x
      BY <1>1, <3>2 DEF Demux
    <3> QED BY <3>2, <3>3
  <2>2. CASE ~Accepted(w, k)
    <3>1. Skipped(w, h) /\ ~Completes(w, k)
      BY <1>3, <2>2 DEF Completes
    <3>2. x = f
      BY <3>1 DEF TidsAfter
    <3> QED BY <2>1, <2>2, <3>1, <3>2
  <2>3. CASE Accepted(w, k)
    <3> DEFINE full == Completes(w, k)  a == AfterAt(w, k)  tc == TableContext(f[h.tid], h)
               K == IF full THEN Append(M, X) ELSE M
    <3>1. h \in Sent /\ IsAt(h, u, p)
      BY <1>3, <2>3, AcceptedSent
    <3>2. Puts(a, tc, h, full) /\ full \in BOOLEAN
      BY <1>3, <2>3, PutsOK DEF ContextAt, Completes
    <3>3. a \in TableIn(h.tid) /\ (full => X \in FullTable /\ X[1].tid = h.tid /\ X[1].ver = h.ver)
      BY <1>3, StoredOK
    <3>4. x = [f EXCEPT ![h.tid] = a]
      BY <2>3 DEF Accepted, TidsAfter
    <3>5. L \in Seq(Sent) /\ M \in Seq(FullTable) /\ S \o y.sections = Append(L, h) /\ B \o y.tables = K
      <4>1. L \in Seq(Sent) /\ S \o Append(w.sections, h) = Append(L, h)
        <5> DEFINE K1 == w.sections
        <5>1. K1 \in Seq(Sent) /\ h \in Sent
          BY <1>1, <3>1
        <5> HIDE DEF h, K1
        <5>2. S \o Append(K1, h) = Append(S \o K1, h) /\ S \o K1 \in Seq(Sent)
          BY <5>1, AppendFacts
        <5> QED BY <5>2 DEF K1
      <4>2. M \in Seq(FullTable)
        BY <1>1
      <4>3. CASE full
        <5>1. B \o Append(w.tables, X) = Append(M, X)
          <6>1. X \in FullTable
            BY <3>3, <4>3
          <6> HIDE DEF X
          <6> QED BY <1>1, <6>1, AppendFacts, SMTT(30)
        <5>2. y.tables = Append(w.tables, X)
          BY <2>1, <4>3
        <5> QED BY <2>1, <2>3, <4>1, <4>2, <4>3, <5>1, <5>2
      <4>4. CASE ~full
        BY <2>1, <2>3, <4>1, <4>2, <4>4
      <4> QED BY <4>3, <4>4
    <3>6. ASSUME NEW g \in Elements(L) PROVE Prior(g, h)
      <4>1. PICK i \in 1 .. Len(L) : g = L[i]
        BY DEF Elements
      <4> DEFINE j == p + 1
      <4>2. j \in 1 .. Len(u) /\ p < j /\ u[j] = [of |-> h, at |-> 1]
        <5>1. 1 \in 1 .. h.size /\ h.size \in Nat
          BY <3>1, SentSize, Sizes
        <5> QED BY <1>1, <3>1, <5>1, SMTT(30) DEF IsAt
      <4>3. u[j] # Stuffing /\ u[j].of = h
        BY <4>2 DEF Stuffing
      <4> HIDE DEF j
      <4>4. ASSUME NEW m \in 1 .. Len(S) PROVE Prior(S[m], h)
        BY <4>2, <4>3 DEF Before
      <4>5. ASSUME NEW m \in 1 .. Len(w.sections) PROVE Prior(w.sections[m], h)
        <5>1. w.sections[m] \in Sent /\ Ended(w.sections[m], u, J, p)
          BY <1>1 DEF WalkOK
        <5>2. p <= Len(u)
          BY <1>1
        <5> HIDE DEF p, h
        <5> QED BY <1>1, <4>2, <4>3, <5>1, <5>2, EndedBefore
      <4>6. \/ i \in 1 .. Len(S) /\ L[i] = S[i]
            \/ i - Len(S) \in 1 .. Len(w.sections) /\ L[i] = w.sections[i - Len(S)]
        BY <1>1, ConcatAt
      <4> QED BY <4>1, <4>4, <4>5, <4>6
    <3> HIDE DEF L, M, K, a, full, f, h, X, x
    <3>7. Informed(f, L, M) /\ Puts(a, TableContext(f[h.tid], h), h, full)
      BY <3>2 DEF L, M, f
    <3>8. Informed([f EXCEPT ![h.tid] = a], Append(L, h), K)
      BY <1>1, <3>1, <3>2, <3>3, <3>5, <3>6, <3>7, InformedKept DEF K
    <3> QED BY <2>1, <3>4, <3>5, <3>8
  <2> QED BY <2>2, <2>3
<1> QED BY <1>2, <1>3

\* The bytes ts are the first ones of a section.
Partial(ts) ==
    /\ ts # <<>> /\ Len(ts) < ts[1].of.size
    /\ \A i \in 1 .. Len(ts) : ts[i] = [of |-> ts[1].of, at |-> i]

\* The result r of processPacket(), with a last byte b.
CleanResult(r, u, T) ==
    /\ r.d.sync /\ AllSound(r.d.tids) /\ Found(r.sections, u, T, Len(u))
    /\ IF r.d.ts = <<>> THEN Closed(u[Len(u)]) ELSE Partial(r.d.ts) /\ r.d.ts[Len(r.d.ts)] = u[Len(u)]

\* The loop on such a buffer, after the sections S and the tables B.
LEMMA WalkClean ==
    ASSUME NEW u, NEW T, NEW P, NEW k, Buffer(u, T, P, k), T = 0 \/ FromStart(u, T, k), T <= Len(u),
           CleanStart(u, T, P), NEW e \in Demux, e.ts = u, e.sync, AllSound(e.tids),
           NEW S \in Seq(Sent), NEW B \in Seq(FullTable), \A i \in 1 .. Len(S) : Before(S[i], u),
           NEW known \in BOOLEAN, known => Informed(e.tids, S, B),
           NEW r, r = Result(Walk(LoopFrom(e, P), k, FALSE))
    PROVE  /\ CleanResult(r, u, T)
           /\ known => Informed(r.d.tids, S \o r.sections, B \o r.tables)
<1> DEFINE A == {v \in WalkState : /\ CleanOK(v, u, T)
                                   /\ known => Informed(v.d.tids, S \o v.sections, B \o v.tables)}
           w0 == LoopFrom(e, P)  w == Walk(w0, k, FALSE)
<1>1. u \in Seq(Raw) /\ Len(u) \in Nat /\ T \in Nat /\ P \in Int /\ Flow(u, T) /\ k \in DOMAIN Junk /\ u # <<>>
  <2>1. u \in Seq(Raw) /\ Len(u) \in Nat /\ T \in Nat /\ P \in Int /\ Flow(u, T) /\ k \in DOMAIN Junk
    BY DEF Buffer, Flow
  <2> QED BY <2>1 DEF CleanStart
<1>2. w0 \in A
  <2> DEFINE s == <<>>  n == 0  f == FALSE
  <2>1. w0 = [d |-> e, at |-> n, pusi |-> P, sections |-> s, tables |-> s, garbage |-> f,
              done |-> f]
        /\ s \in Seq(Sent) /\ s \in Seq(FullTable) /\ n \in Nat /\ f \in BOOLEAN /\ Len(s) = 0
        /\ s = <<>> /\ n = 0 /\ ~f
    BY DEF LoopFrom
  <2>2. S \o s = S /\ B \o s = B
    OBVIOUS
  <2> HIDE DEF w0, s, n, f
  <2>3. w0 \in WalkState /\ w0.sections = s /\ w0.tables = s /\ w0.at = n /\ ~w0.done /\ w0.d = e
    BY <1>1, <2>1 DEF WalkState
  <2>4. Found(s, u, T, n)
    BY <1>1, <2>1 DEF Found
  <2>5. Aligned(u, T, n) \/ (T > 0 /\ n = 0)
    BY <1>1, <2>1 DEF CleanStart
  <2>6. n # Len(u)
    BY <1>1, <2>1
  <2>7. CleanOK(w0, u, T)
    BY <2>1, <2>3, <2>4, <2>5, <2>6 DEF CleanOK
  <2> QED BY <2>2, <2>3, <2>7
<1>3. ASSUME NEW v \in A, WalkOK(v, u, T, P, k, e.cc, FALSE), ~v.done, v.at < Len(u)
      PROVE  WalkStep(v, k, FALSE) \in A
  <2> DEFINE y == WalkStep(v, k, FALSE)
  <2>0. v \in WalkState /\ CleanOK(v, u, T) /\ (known => Informed(v.d.tids, S \o v.sections, B \o v.tables))
    OBVIOUS
  <2>1. Walking(v, u, T, P, k)
    <3>1. v.d.sync
      BY <2>0 DEF CleanOK
    <3> QED BY <1>3, <2>0, <3>1 DEF WalkOK, Walking
  <2>2. y \in WalkState
    BY <2>1, WalkStepOK
  <2>3. CleanOK(y, u, T) /\ (WholeAt(v, k) => Accepted(v, k) \/ Skipped(v, HeaderAt(v, k)))
    BY <2>0, <2>1, CleanKept
  <2>4. known => Informed(y.d.tids, S \o y.sections, B \o y.tables)
    <3> HIDE DEF y
    <3>1. y = WalkStep(v, k, FALSE)
      BY DEF y
    <3> QED BY <1>3, <2>0, <2>1, <2>3, <3>1, TurnInformed
  <2> HIDE DEF y
  <2>5. y \in A
    BY <2>2, <2>3, <2>4
  <2> QED BY <2>5 DEF y
<1>4. w \in A /\ WalkOK(w, u, T, P, k, e.cc, FALSE) /\ (w.done \/ Len(u) <= w.at)
  <2> HIDE DEF A
  <2> DEFINE hr == FALSE
  <2>1. hr \in BOOLEAN /\ \A v \in A : WalkOK(v, u, T, P, k, e.cc, hr) /\ ~v.done /\ v.at < Len(u)
                       => WalkStep(v, k, hr) \in A
    BY <1>3
  <2> HIDE DEF hr
  <2>2. Walk(LoopFrom(e, P), k, hr) \in A
    BY <1>2, <2>1, WalkIn
  <2>3. WalkOK(Walk(LoopFrom(e, P), k, hr), u, T, P, k, e.cc, hr)
        /\ (Walk(LoopFrom(e, P), k, hr).done \/ Len(u) <= Walk(LoopFrom(e, P), k, hr).at)
    BY <1>2, <2>1, WalkIn
  <2> QED BY <2>2, <2>3 DEF hr
<1> HIDE DEF w, w0
<1>5. /\ w \in WalkState /\ CleanOK(w, u, T) /\ w.d.sync
      /\ known => Informed(w.d.tids, S \o w.sections, B \o w.tables)
  BY <1>4 DEF CleanOK
<1>6. w.d.ts = u /\ w.at <= Len(u) /\ w.at \in Nat /\ w.d \in Demux
      /\ (w.done => w.at < Len(u) /\ NoneAt(u, w.at, k))
  <2>1. w.at \in Nat /\ w.d \in Demux
    BY <1>5 DEF WalkState
  <2> QED BY <1>4, <1>5, <2>1 DEF WalkOK
<1> DEFINE x == SubSeq(w.d.ts, w.at + 1, Len(w.d.ts))  l == [w.d EXCEPT !.ts = x]
<1>7. r.d = l /\ r.sections = w.sections /\ r.tables = w.tables
  BY DEF Result, w, w0
<1>8. l.sync = w.d.sync /\ l.tids = w.d.tids /\ l.ts = x
  <2> HIDE DEF x
  <2> QED BY <1>6 DEF Demux
<1> HIDE DEF l
<1>9. CASE w.at = Len(u)
  <2>1. x = <<>>
    BY <1>1, <1>6, <1>9
  <2>2. Closed(u[Len(u)]) /\ AllSound(w.d.tids) /\ Found(w.sections, u, T, Len(u))
    BY <1>5, <1>9 DEF CleanOK
  <2>3. CleanResult(r, u, T)
    BY <1>5, <1>7, <1>8, <2>1, <2>2 DEF CleanResult
  <2> QED BY <1>5, <1>7, <1>8, <2>3
<1>10. CASE w.at < Len(u)
  <2> DEFINE p == w.at  h == u[p + 1].of  n == Len(u) - p
  <2>1. w.done /\ NoneAt(u, p, k) /\ Aligned(u, T, p)
    BY <1>4, <1>5, <1>6, <1>10 DEF CleanOK
  <2>2. T <= p /\ u[p + 1].at = 1 /\ p + 1 \in 1 .. Len(u) /\ p \in Nat
    BY <1>1, <1>6, <1>10, <2>1 DEF Aligned
  <2>3. h \in Sent /\ \A i \in 1 .. h.size : p + i <= Len(u) => u[p + i] = [of |-> h, at |-> i]
    <3> HIDE DEF p
    <3> QED BY <1>1, <1>10, <2>2, FlowForward DEF p
  <2>4. u[p + 1] # Stuffing /\ u[p + 1] \in Raw
    <3>1. u[p + 1] \in Raw
      BY <1>1, <2>2
    <3> QED BY <2>2, <3>1 DEF Stuffing
  <2>5. Header(u[p + 1], k) = h
    BY <1>1, <2>2, <2>4, HeaderOK
  <2>6. n \in Nat /\ n < h.size /\ h.size \in Nat /\ 1 <= n
    <3>1. h.size \in Nat /\ MinSection <= h.size
      BY <2>3, SentSize
    <3>2. n < ShortHeader \/ n < h.size
      BY <2>1, <2>5 DEF NoneAt
    <3> HIDE DEF h
    <3> QED BY <1>1, <1>10, <2>2, <3>1, <3>2, Sizes, SMTT(30)
  <2>7. \A i \in 1 .. n : u[p + i] = [of |-> h, at |-> i]
    <3> HIDE DEF h
    <3>1. ASSUME NEW i \in 1 .. n PROVE u[p + i] = [of |-> h, at |-> i]
      <4>1. i \in 1 .. h.size /\ p + i <= Len(u)
        BY <1>1, <2>2, <2>6
      <4> QED BY <2>3, <4>1
    <3> QED BY <3>1
  <2>8. Len(x) = n /\ \A i \in 1 .. n : x[i] = u[p + i]
    <3>1. x = SubSeq(u, p + 1, Len(u))
      BY <1>6
    <3>2. p \in 0 .. Len(u)
      BY <1>1, <2>2
    <3> HIDE DEF x, p
    <3>3. Len(x) = Len(u) - p /\ \A i \in 1 .. Len(x) : x[i] = u[p + i]
      BY <1>1, <3>1, <3>2, RestOf
    <3> QED BY <3>3 DEF p
  <2> HIDE DEF x, h
  <2>9. x[1] = [of |-> h, at |-> 1] /\ x[n] = u[Len(u)]
    <3>1. 1 \in 1 .. n /\ n \in 1 .. n /\ p + n = Len(u)
      BY <1>1, <2>2, <2>6
    <3> HIDE DEF n, p
    <3> QED BY <2>7, <2>8, <3>1
  <2>10. x # <<>>
    BY <2>6, <2>8
  <2>11. Partial(x) /\ x[Len(x)] = u[Len(u)]
    <3>1. x[1].of = h
      BY <2>9
    <3> HIDE DEF n, p
    <3>2. \A i \in 1 .. Len(x) : x[i] = [of |-> x[1].of, at |-> i]
      BY <2>7, <2>8, <3>1
    <3>3. Len(x) < x[1].of.size
      BY <2>6, <2>8, <3>1
    <3> QED BY <2>8, <2>9, <2>10, <3>2, <3>3 DEF Partial
  <2>12. Found(w.sections, u, T, Len(u))
    <3> SUFFICES ASSUME NEW m \in 1 .. Len(u), T < m, u[m] # Stuffing, u[m].at = u[m].of.size
                 PROVE  u[m].of \in Elements(w.sections)
      BY DEF Found
    <3>1. CASE m <= p
      BY <1>5, <3>1 DEF CleanOK, Found
    <3>2. CASE p < m
      <4> DEFINE i == m - p
      <4>1. i \in 1 .. n /\ p + i = m
        BY <1>1, <2>2, <3>2
      <4>2. u[m] = [of |-> h, at |-> i]
        <5> HIDE DEF i, n, p
        <5> QED BY <2>7, <4>1
      <4>3. i = h.size
        BY <4>2
      <4> QED BY <2>6, <4>1, <4>3
    <3> QED BY <1>1, <2>2, <3>1, <3>2
  <2>13. CleanResult(r, u, T)
    <3>1. AllSound(w.d.tids)
      BY <1>5 DEF CleanOK
    <3> QED BY <1>5, <1>7, <1>8, <2>10, <2>11, <2>12, <3>1 DEF CleanResult
  <2> QED BY <1>5, <1>7, <1>8, <2>13
<1>11. w.at = Len(u) \/ w.at < Len(u)
  BY <1>1, <1>6
<1> HIDE DEF x
<1> QED BY <1>9, <1>10, <1>11

-----------------------------------------------------------------------------
(***************************************************************************)
(* A packet which comes to a context without a hole before it.             *)
(***************************************************************************)
\* All sections which end after the first q bytes of the packet are delivered.
Clear(r, pkt, q) ==
    /\ r.d.sync /\ AllSound(r.d.tids) /\ Found(r.sections, pkt.data, q, Len(pkt.data))
    /\ LET b == pkt.data[Len(pkt.data)]
       IN  IF r.d.ts = <<>> THEN Closed(b) ELSE Partial(r.d.ts) /\ r.d.ts[Len(r.d.ts)] = b

\* The packet goes on with the section in the buffer ts, or with the next one: it was truncated.
GoesOn(ts, pkt) ==
    IF ts = <<>> THEN pkt.data[1].at = 1
    ELSE /\ Partial(ts)
         /\ \/ pkt.data[1] = [of |-> ts[1].of, at |-> Len(ts) + 1]
            \/ pkt.pusi /\ pkt.pointer = 0 /\ ts[1].of.size <= Len(ts) + Len(pkt.data)

\* Sections S were delivered, and tables B.
Earlier(S, B, pkt, ts) ==
    /\ S \in Seq(Sent) /\ B \in Seq(FullTable)
    /\ \A i \in 1 .. Len(S) : Before(S[i], pkt.data) /\ Before(S[i], ts)

\* The bytes of a buffer which goes on.
LEMMA ContinuedFlow ==
    ASSUME NEW ts, Partial(ts), NEW u, NEW J, J = Len(ts), Flow(u, J), J < Len(u), J \in Nat,
           \A i \in 1 .. J : u[i] = ts[i], u[J + 1] = [of |-> ts[1].of, at |-> J + 1]
    PROVE  Flow(u, 0)
<1> DEFINE s == ts[1].of
<1>1. u \in Seq(Raw) /\ Len(u) \in Nat
  BY DEF Flow
<1>2. \A i \in 1 .. J + 1 : u[i] = [of |-> s, at |-> i]
  <2>1. ASSUME NEW i \in 1 .. J + 1 PROVE u[i] = [of |-> s, at |-> i]
    <3>1. CASE i = J + 1
      BY <3>1
    <3>2. CASE i # J + 1
      <4>1. i \in 1 .. J
        BY <3>2
      <4> QED BY <4>1 DEF Partial
    <3> QED BY <3>1, <3>2
  <2> QED BY <2>1
<1> HIDE DEF s
<1>3. ASSUME NEW i \in 1 .. J + 1 PROVE u[i] # Stuffing /\ u[i].of = s /\ u[i].at = i
  <2>1. u[i] = [of |-> s, at |-> i] /\ i # 0
    BY <1>2
  <2>2. Stuffing.at = 0
    BY DEF Stuffing
  <2> QED BY <2>1, <2>2
<1>4. ASSUME NEW i \in 1 .. Len(u), i + 1 <= Len(u) PROVE Succeeds(u[i], u[i + 1])
  <2>1. CASE J < i
    BY <1>4, <2>1 DEF Flow
  <2>2. CASE i <= J
    <3>1. i \in 1 .. J + 1 /\ i + 1 \in 1 .. J + 1
      BY <2>2
    <3>2. u[i] # Stuffing /\ u[i + 1] # Stuffing /\ u[i].of = s /\ u[i + 1].of = s
          /\ u[i].at = i /\ u[i + 1].at = i + 1
      BY <1>3, <3>1
    <3> QED BY <3>2 DEF Succeeds, Follows
  <2> QED BY <2>1, <2>2
<1>5. ASSUME NEW i \in 1 .. Len(u), NEW j \in 1 .. Len(u), i < j PROVE Later(u[i], u[j])
  <2>1. CASE J < i
    BY <1>5, <2>1 DEF Flow
  <2>2. CASE i <= J
    <3>1. u[i] # Stuffing /\ u[i].of = s
      <4>1. i \in 1 .. J + 1
        BY <2>2
      <4> QED BY <1>3, <4>1
    <3>2. CASE j <= J + 1
      <4>1. j \in 1 .. J + 1
        BY <3>2
      <4>2. u[j].of = s
        BY <1>3, <4>1
      <4> QED BY <3>1, <4>2 DEF Later, Upto
    <3>3. CASE J + 1 < j
      <4> DEFINE m == J + 1
      <4>1. m \in 1 .. Len(u) /\ J < m /\ m < j /\ m \in 1 .. J + 1
        BY <1>1, <3>3
      <4>2. Later(u[m], u[j])
        BY <4>1 DEF Flow
      <4>3. u[m].of = s
        BY <1>3, <4>1
      <4> QED BY <3>1, <4>2, <4>3 DEF Later
    <3> QED BY <3>2, <3>3
  <2> QED BY <2>1, <2>2
<1> QED BY <1>1, <1>4, <1>5 DEF Flow

\* What the loop finds in the buffer u is what it finds in the packet.
LEMMA FoundInPacket ==
    ASSUME NEW u, NEW l \in Seq(Raw), NEW data \in Seq(Raw), NEW q \in Nat, q <= Len(data),
           Appended(u, l, data, q), NEW T \in Nat, T <= Len(l), NEW L, Found(L, u, T, Len(u))
    PROVE  Found(L, data, q, Len(data)) /\ (q < Len(data) => u[Len(u)] = data[Len(data)])
<1> DEFINE J == Len(l)  N == Len(u)  n == Len(data)
<1>1. /\ J \in Nat /\ n \in Nat /\ N = J + (n - q)
      /\ \A i \in 1 .. N : J < i => u[i] = data[(i - J) + q]
  BY DEF Appended
<1> HIDE DEF J, N, n
<1>2. ASSUME NEW m \in 1 .. n, q < m PROVE (J + (m - q)) \in 1 .. N /\ u[J + (m - q)] = data[m] /\ T < J + (m - q)
  <2> DEFINE i == J + (m - q)
  <2>1. i \in 1 .. N /\ J < i /\ (i - J) + q = m
    BY <1>1, <1>2
  <2>2. T < i
    BY <1>1, <1>2 DEF J
  <2> QED BY <1>1, <2>1, <2>2
<1>3. ASSUME NEW m \in 1 .. n, q < m, data[m] # Stuffing, data[m].at = data[m].of.size
      PROVE  data[m].of \in Elements(L)
  <2> DEFINE i == J + (m - q)
  <2>1. i \in 1 .. N /\ u[i] = data[m] /\ T < i
    BY <1>2, <1>3
  <2> HIDE DEF i
  <2> QED BY <1>3, <2>1 DEF Found, N
<1>4. ASSUME q < n PROVE u[N] = data[n]
  <2>1. n \in 1 .. n /\ J + (n - q) = N
    BY <1>1, <1>4
  <2> QED BY <1>2, <1>4, <2>1
<1> QED BY <1>3, <1>4 DEF Found, N, n

\* The sections before a packet and the buffer are before what is made of them.
LEMMA EarlierBuffer ==
    ASSUME NEW s, NEW l \in Seq(Raw), NEW data \in Seq(Raw), NEW q \in Nat, q <= Len(data), NEW u,
           Appended(u, l, data, q), Before(s, l), Before(s, data)
    PROVE  Before(s, u)
<1>1. ASSUME NEW i \in 1 .. Len(u), u[i] # Stuffing PROVE Prior(s, u[i].of)
  <2>1. CASE i \in 1 .. Len(l)
    <3>1. u[i] = l[i]
      BY <2>1 DEF Appended
    <3> QED BY <1>1, <2>1, <3>1 DEF Before
  <2>2. CASE Len(l) < i
    <3> DEFINE j == (i - Len(l)) + q
    <3>1. u[i] = data[j]
      BY <2>2 DEF Appended
    <3>2. j \in 1 .. Len(data)
      <4>1. Len(u) = Len(l) + (Len(data) - q) /\ Len(l) \in Nat /\ Len(data) \in Nat
        BY DEF Appended
      <4> QED BY <2>2, <4>1
    <3> HIDE DEF j
    <3> QED BY <1>1, <3>1, <3>2 DEF Before
  <2>3. Len(l) \in Nat
    OBVIOUS
  <2> QED BY <2>1, <2>2, <2>3
<1> QED BY <1>1 DEF Before

\* Any loop in such a buffer: from the first T bytes.
LEMMA StartedClean ==
    ASSUME NEW d, NEW k, Waiting(d, k), NEW pkt, PacketOK(pkt), NEW e, NEW u, NEW J, NEW P,
           Starts(e, u, J, P, d, pkt, k), NEW l \in Seq(Raw), NEW q \in Nat, q < Len(pkt.data),
           u = Buffered(l, pkt, q), l = <<>> \/ l = d.ts, NEW T \in Nat, T <= Len(l),
           Buffer(u, T, P, k), T = 0 \/ FromStart(u, T, k),
           CleanStart(u, T, P), AllSound(d.tids), NEW S, NEW B, Earlier(S, B, pkt, d.ts),
           NEW known \in BOOLEAN, known => Informed(d.tids, S, B),
           NEW r, r = Result(Walk(LoopFrom(e, P), k, FALSE))
    PROVE  Clear(r, pkt, q) /\ (known => Informed(r.d.tids, S \o r.sections, B \o r.tables))
<1>1. e \in Demux /\ e.ts = u /\ e.sync /\ e.tids = d.tids
  BY DEF Starts
<1>2. pkt.data \in Seq(Raw) /\ Flow(pkt.data, 0) /\ Len(pkt.data) \in Nat
  BY DEF PacketOK, Flow
<1>3. Appended(u, l, pkt.data, q)
  BY <1>2, BufferedFlow
<1>4. S \in Seq(Sent) /\ B \in Seq(FullTable)
  BY DEF Earlier
<1>5. ASSUME NEW i \in 1 .. Len(S) PROVE Before(S[i], u)
  <2>1. Before(S[i], pkt.data) /\ Before(S[i], d.ts) /\ Before(S[i], <<>>)
    BY DEF Earlier, Before
  <2>2. Before(S[i], l)
    BY <2>1
  <2> QED BY <1>2, <1>3, <2>1, <2>2, EarlierBuffer
<1>6. T <= Len(u) /\ Len(l) \in Nat /\ Len(u) \in Nat
  <2>1. Len(u) = Len(l) + (Len(pkt.data) - q) /\ Len(l) \in Nat
    BY <1>3 DEF Appended
  <2> DEFINE a == Len(u)  b == Len(l)  c == Len(pkt.data)
  <2>2. a = b + (c - q) /\ b \in Nat /\ c \in Nat /\ T <= b /\ q < c
    BY <1>2, <2>1
  <2> HIDE DEF a, b, c
  <2>3. T <= a /\ a \in Nat
    BY <2>2
  <2> QED BY <2>1, <2>3 DEF a
<1>7. known => Informed(e.tids, S, B)
  BY <1>1
<1>8. CleanResult(r, u, T) /\ (known => Informed(r.d.tids, S \o r.sections, B \o r.tables))
  BY <1>1, <1>4, <1>5, <1>6, <1>7, WalkClean
<1>9. Found(r.sections, u, T, Len(u))
  BY <1>8 DEF CleanResult
<1>10. Found(r.sections, pkt.data, q, Len(pkt.data)) /\ u[Len(u)] = pkt.data[Len(pkt.data)]
  <2> DEFINE L == r.sections  data == pkt.data
  <2>1. data \in Seq(Raw) /\ q <= Len(data) /\ q < Len(data) /\ Appended(u, l, data, q)
    BY <1>2, <1>3
  <2>2. Found(L, u, T, Len(u))
    BY <1>9
  <2> HIDE DEF L, data
  <2>3. Found(L, data, q, Len(data)) /\ u[Len(u)] = data[Len(data)]
    BY <2>1, <2>2, FoundInPacket
  <2> QED BY <2>3 DEF L, data
<1> QED BY <1>8, <1>10 DEF CleanResult, Clear

\* The loop in the buffer of a context, with the packet which goes on.
LEMMA ContinuesStart ==
    ASSUME NEW l \in Seq(Raw), NEW pkt, PacketOK(pkt), pkt.data # <<>>, GoesOn(l, pkt), NEW u,
           u = Buffered(l, pkt, 0), NEW k, NEW P, NEW J, J = Len(l), Buffer(u, J, P, k),
           pkt.pusi => P = J + pkt.pointer, J = 0 \/ FromStart(u, J, k)
    PROVE  \E T \in 0 .. J : Buffer(u, T, P, k) /\ (T = 0 \/ FromStart(u, T, k)) /\ CleanStart(u, T, P)
<1> DEFINE n == Len(pkt.data)  N == Len(u)
<1>1. pkt.data \in Seq(Raw) /\ Flow(pkt.data, 0) /\ n \in Nat /\ 1 <= n /\ J \in Nat
  BY DEF PacketOK, Flow
<1>2. /\ Flow(u, J) /\ N = J + n /\ u \in Seq(Raw)
      /\ \A i \in 1 .. J : u[i] = l[i]
      /\ \A i \in 1 .. N : J < i => u[i] = pkt.data[(i - J) + 0]
  <2>1. Appended(u, l, pkt.data, 0)
    BY <1>1, BufferedFlow
  <2>2. N = J + (n - 0)
    BY <2>1 DEF Appended
  <2>3. N = J + n
    BY <1>1, <2>2
  <2> QED BY <2>1, <2>3 DEF Appended, Flow
<1>3. N \in Nat /\ J < N /\ 1 <= N /\ J + 1 \in 1 .. N /\ u[J + 1] = pkt.data[1]
  <2>1. N \in Nat /\ J < N /\ 1 <= N /\ J + 1 \in 1 .. N /\ ((J + 1) - J) + 0 = 1
    BY <1>1, <1>2
  <2> QED BY <1>2, <2>1
<1>4. P = -1 \/ (P \in Int /\ J <= P /\ P < N /\ u[P + 1].at = 1)
  BY DEF Buffer
<1>5. k \in DOMAIN Junk /\ P \in Int
  BY DEF Buffer
<1> HIDE DEF N, n
<1>6. CASE Flow(u, 0) /\ u[1].at = 1
  <2>1. Buffer(u, 0, P, k)
    BY <1>1, <1>4, <1>5, <1>6 DEF Buffer, N
  <2>2. Aligned(u, 0, 0) /\ u # <<>>
    BY <1>2, <1>3, <1>6 DEF Aligned, N
  <2>3. CleanStart(u, 0, P)
    BY <2>2 DEF CleanStart
  <2> QED BY <1>1, <2>1, <2>3
<1>7. CASE l = <<>>
  <2>1. J = 0 /\ pkt.data[1].at = 1
    BY <1>7 DEF GoesOn
  <2> QED BY <1>2, <1>3, <1>6, <2>1
<1>8. CASE l # <<>> /\ pkt.data[1] = [of |-> l[1].of, at |-> Len(l) + 1]
  <2>1. Partial(l) /\ 1 \in 1 .. J
    BY <1>1, <1>8 DEF GoesOn
  <2>2. u[J + 1] = [of |-> l[1].of, at |-> J + 1]
    BY <1>3, <1>8
  <2>3. Flow(u, 0)
    BY <1>1, <1>2, <1>3, <2>1, <2>2, ContinuedFlow DEF N
  <2>4. u[1].at = 1
    <3>1. l[1] = [of |-> l[1].of, at |-> 1]
      BY <2>1 DEF Partial
    <3>2. u[1] = l[1] /\ l[1].at = 1
      BY <1>2, <2>1, <3>1
    <3> QED BY <3>2
  <2> QED BY <1>6, <2>3, <2>4
<1>9. CASE l # <<>> /\ pkt.data[1] # [of |-> l[1].of, at |-> Len(l) + 1]
  <2>1. Partial(l) /\ pkt.pusi /\ pkt.pointer = 0 /\ l[1].of.size <= J + n
    BY <1>9 DEF GoesOn, n
  <2>2. J # 0 /\ J \in 0 .. J /\ 1 \in 1 .. J
    BY <1>1, <1>9
  <2>3. P = J
    BY <1>1, <2>1
  <2>4. u[1] = l[1] /\ u[1].at = 1
    <3>1. l[1] = [of |-> l[1].of, at |-> 1]
      BY <2>1, <2>2 DEF Partial
    <3>2. u[1] = l[1] /\ l[1].at = 1
      BY <1>2, <2>2, <3>1
    <3> QED BY <3>2
  <2>5. \A i \in 1 .. J : u[i] = [of |-> u[1].of, at |-> i]
    BY <1>2, <2>1, <2>4 DEF Partial
  <2>6. J < u[1].of.size /\ u[1].of.size <= N
    BY <1>2, <2>1, <2>4 DEF Partial
  <2>7. CleanStart(u, J, P)
    BY <1>3, <2>2, <2>3, <2>4, <2>5, <2>6 DEF CleanStart, N
  <2> QED BY <2>2, <2>7
<1> QED BY <1>7, <1>8, <1>9

\* The next packet of a context which is synchronized.
LEMMA NextPacketClean ==
    ASSUME NEW d, NEW k, Waiting(d, k), NEW pkt, PacketOK(pkt), d.sync,
           pkt.cc = (d.cc + 1) % CC_MAX, pkt.cc # d.cc, pkt.data # <<>>, GoesOn(d.ts, pkt),
           AllSound(d.tids), NEW S, NEW B, Earlier(S, B, pkt, d.ts),
           NEW known \in BOOLEAN, known => Informed(d.tids, S, B),
           NEW r, r = ProcessPacket(d, pkt, k, FALSE)
    PROVE  Clear(r, pkt, 0) /\ (known => Informed(r.d.tids, S \o r.sections, B \o r.tables))
<1> DEFINE hr == FALSE
<1>1. hr \in BOOLEAN /\ r = ProcessPacket(d, pkt, k, hr)
  OBVIOUS
<1>2. ~Ignores(r, d, pkt) /\ ~Awaits(r, d, pkt)
  BY DEF Ignores, Awaits
<1> HIDE DEF hr
<1>3. PICK e, u, J, P : Starts(e, u, J, P, d, pkt, k) /\ r = Result(Walk(LoopFrom(e, P), k, hr))
  <2>1. \/ Ignores(r, d, pkt) \/ Awaits(r, d, pkt)
        \/ \E e, u, J, P : Starts(e, u, J, P, d, pkt, k) /\ r = Result(Walk(LoopFrom(e, P), k, hr))
    <3> DEFINE x == ProcessPacket(d, pkt, k, hr)
    <3>1. \/ Ignores(x, d, pkt) \/ Awaits(x, d, pkt)
          \/ \E e, u, J, P : Starts(e, u, J, P, d, pkt, k) /\ x = Result(Walk(LoopFrom(e, P), k, hr))
      BY <1>1, ProcessPacketIs
    <3> HIDE DEF x
    <3>2. r = x
      BY <1>1 DEF x
    <3> QED BY <3>1, <3>2
  <2> QED BY <1>2, <2>1
<1>4. /\ u = Buffered(d.ts, pkt, 0) /\ J = Len(d.ts) /\ (pkt.pusi => P = J + pkt.pointer)
      /\ Buffer(u, J, P, k) /\ (J = 0 \/ FromStart(u, J, k))
  BY <1>3 DEF Starts
<1> DEFINE l == d.ts
<1>5. l \in Seq(Raw) /\ Len(l) \in Nat
  BY DEF Waiting, Demux
<1>6. u = Buffered(l, pkt, 0) /\ J = Len(l) /\ GoesOn(l, pkt) /\ (l = <<>> \/ l = d.ts)
  BY <1>4
<1> HIDE DEF l
<1>7. PICK T \in 0 .. J : Buffer(u, T, P, k) /\ (T = 0 \/ FromStart(u, T, k)) /\ CleanStart(u, T, P)
  BY <1>4, <1>5, <1>6, ContinuesStart
<1>8. T \in Nat /\ T <= Len(l)
  BY <1>5, <1>6, <1>7
<1>9. 0 < Len(pkt.data)
  BY DEF PacketOK, Flow
<1>10. r = Result(Walk(LoopFrom(e, P), k, FALSE))
  BY <1>3 DEF hr
<1> DEFINE q == 0
<1>11. q \in Nat /\ q < Len(pkt.data) /\ u = Buffered(l, pkt, q)
  BY <1>6, <1>9
<1> HIDE DEF q
<1>12. Clear(r, pkt, q) /\ (known => Informed(r.d.tids, S \o r.sections, B \o r.tables))
  BY <1>3, <1>5, <1>6, <1>7, <1>8, <1>10, <1>11, StartedClean
<1> QED BY <1>12 DEF q

\* A packet in a context which has to be synchronized.
LEMMA SynchronizedClean ==
    ASSUME NEW d, NEW k, Waiting(d, k), NEW pkt, PacketOK(pkt),
           ~d.sync \/ (pkt.cc # (d.cc + 1) % CC_MAX /\ pkt.cc # d.cc),
           AllSound(d.tids), NEW S, NEW B, Earlier(S, B, pkt, d.ts),
           NEW known \in BOOLEAN, known => Informed(d.tids, S, B),
           NEW r, r = ProcessPacket(d, pkt, k, FALSE)
    PROVE  /\ IF pkt.pusi THEN Clear(r, pkt, pkt.pointer) ELSE Awaits(r, d, pkt)
           /\ known => Informed(r.d.tids, S \o r.sections, B \o r.tables)
<1> DEFINE hr == FALSE
<1>1. hr \in BOOLEAN /\ r = ProcessPacket(d, pkt, k, hr)
  OBVIOUS
<1>2. ~Ignores(r, d, pkt)
  BY DEF Ignores
<1> HIDE DEF hr
<1>3. \/ Awaits(r, d, pkt)
      \/ \E e, u, J, P : Starts(e, u, J, P, d, pkt, k) /\ r = Result(Walk(LoopFrom(e, P), k, hr))
  <2>1. \/ Ignores(r, d, pkt) \/ Awaits(r, d, pkt)
        \/ \E e, u, J, P : Starts(e, u, J, P, d, pkt, k) /\ r = Result(Walk(LoopFrom(e, P), k, hr))
    <3> DEFINE x == ProcessPacket(d, pkt, k, hr)
    <3>1. \/ Ignores(x, d, pkt) \/ Awaits(x, d, pkt)
          \/ \E e, u, J, P : Starts(e, u, J, P, d, pkt, k) /\ x = Result(Walk(LoopFrom(e, P), k, hr))
      BY <1>1, ProcessPacketIs
    <3> HIDE DEF x
    <3>2. r = x
      BY <1>1 DEF x
    <3> QED BY <3>1, <3>2
  <2> QED BY <1>2, <2>1
<1>4. CASE Awaits(r, d, pkt)
  <2>1. ~pkt.pusi /\ r.d.tids = d.tids /\ r.sections = <<>> /\ r.tables = <<>>
    <3> DEFINE x == r.d
    <3>1. ~pkt.pusi /\ x.tids = d.tids /\ r = NoneFrom(x)
      BY <1>4 DEF Awaits
    <3> HIDE DEF x
    <3> DEFINE y == NoneFrom(x)
    <3>2. y.d = x /\ y.sections = <<>> /\ y.tables = <<>> /\ r = y
      BY <3>1 DEF NoneFrom
    <3> HIDE DEF y
    <3>3. r.d = x /\ r.sections = <<>> /\ r.tables = <<>>
      BY <3>2, Zenon
    <3> QED BY <3>1, <3>3 DEF x
  <2>2. S \o r.sections = S /\ B \o r.tables = B
    <3>1. S \in Seq(Sent) /\ B \in Seq(FullTable)
      BY DEF Earlier
    <3>2. S \o <<>> = S /\ B \o <<>> = B
      BY <3>1, ConcatEmptySeq
    <3> QED BY <2>1, <3>2
  <2> QED BY <1>4, <2>1, <2>2
<1>5. ASSUME NEW e, NEW u, NEW J, NEW P, Starts(e, u, J, P, d, pkt, k),
             r = Result(Walk(LoopFrom(e, P), k, hr))
      PROVE  pkt.pusi /\ Clear(r, pkt, pkt.pointer)
             /\ (known => Informed(r.d.tids, S \o r.sections, B \o r.tables))
  <2> DEFINE l == <<>>  q == pkt.pointer  T == 0
  <2>1. /\ pkt.pusi /\ u = Buffered(l, pkt, q) /\ J = 0 /\ Aligned(u, 0, 0)
        /\ Buffer(u, J, P, k)
    BY <1>5 DEF Starts
  <2>2. l \in Seq(Raw) /\ T \in Nat /\ T <= Len(l) /\ (l = <<>> \/ l = d.ts)
        /\ (T = 0 \/ FromStart(u, T, k)) /\ Buffer(u, T, P, k)
    BY <2>1
  <2>3. q \in Nat /\ q < Len(pkt.data)
    BY <2>1 DEF PacketOK
  <2>4. u # <<>>
    <3>1. pkt.data \in Seq(Raw) /\ Flow(pkt.data, 0) /\ Len(pkt.data) \in Nat
      BY DEF PacketOK, Flow
    <3> HIDE DEF l, q
    <3>2. Appended(u, l, pkt.data, q)
      BY <2>1, <2>2, <2>3, <3>1, BufferedFlow
    <3>3. Len(u) = Len(l) + (Len(pkt.data) - q) /\ Len(l) \in Nat
      BY <3>2, <2>2 DEF Appended
    <3> QED BY <2>3, <3>1, <3>3
  <2>5. CleanStart(u, T, P)
    BY <2>1, <2>4 DEF CleanStart
  <2>6. r = Result(Walk(LoopFrom(e, P), k, FALSE))
    BY <1>5 DEF hr
  <2> HIDE DEF l, q, T
  <2>7. Clear(r, pkt, q) /\ (known => Informed(r.d.tids, S \o r.sections, B \o r.tables))
    BY <1>5, <2>1, <2>2, <2>3, <2>5, <2>6, StartedClean
  <2> QED BY <2>1, <2>7 DEF q
<1> QED BY <1>3, <1>4, <1>5

\* No short section is read in such a buffer.
LEMMA WalkQuiet ==
    ASSUME NEW u, NEW T, NEW P, NEW k, Buffer(u, T, P, k), T = 0 \/ FromStart(u, T, k), T <= Len(u),
           CleanStart(u, T, P), NEW e \in Demux, e.ts = u, e.sync, NEW hr \in BOOLEAN
    PROVE  ~Result(Walk(LoopFrom(e, P), k, hr)).garbage
<1> DEFINE A == {v \in WalkState : /\ ~v.garbage
                                   /\ v.done \/ Aligned(u, T, v.at) \/ (T > 0 /\ v.at = 0)}
           w0 == LoopFrom(e, P)  w == Walk(w0, k, hr)
<1>1. T \in Nat /\ P \in Int
  BY DEF Buffer, Flow
<1>2. w0 \in A
  <2> DEFINE s == <<>>  n == 0  f == FALSE
  <2>1. w0 = [d |-> e, at |-> n, pusi |-> P, sections |-> s, tables |-> s, garbage |-> f,
              done |-> f]
        /\ s \in Seq(Sent) /\ s \in Seq(FullTable) /\ n \in Nat /\ f \in BOOLEAN /\ n = 0 /\ ~f
    BY DEF LoopFrom
  <2> HIDE DEF w0, s, n, f
  <2>2. w0 \in WalkState /\ w0.at = n /\ ~w0.garbage
    BY <1>1, <2>1 DEF WalkState
  <2>3. Aligned(u, T, n) \/ (T > 0 /\ n = 0)
    BY <1>1, <2>1 DEF CleanStart
  <2> QED BY <2>1, <2>2, <2>3
<1>3. ASSUME NEW v \in A, WalkOK(v, u, T, P, k, e.cc, hr), ~v.done, v.at < Len(u)
      PROVE  WalkStep(v, k, hr) \in A
  <2> DEFINE y == WalkStep(v, k, hr)
  <2>0. v \in WalkState /\ ~v.garbage /\ (Aligned(u, T, v.at) \/ (T > 0 /\ v.at = 0))
    BY <1>3
  <2>1. Walking(v, u, T, P, k)
    <3>1. v.d.sync
      BY <1>3, <2>0 DEF WalkOK, WalkState, Demux
    <3> QED BY <1>3, <2>0, <3>1 DEF WalkOK, Walking
  <2>2. /\ y \in WalkState
        /\ \/ Stops(y, v, u, k) \/ Fails(y, v, u, T)
           \/ WholeAt(v, k) /\ (Passes(y, v, u, T) \/ Gets(y, v, u, T, hr))
           \/ Drops(y, v, u, T, hr)
        /\ y.garbage = v.garbage \/ Drops(y, v, u, T, hr)
    BY <2>1, WalkStepOK
  <2>3. T > 0 /\ v.at = 0 => y.garbage = v.garbage /\ Aligned(u, T, y.at)
    BY <2>1, FirstSkipped
  <2> HIDE DEF y
  <2>4. CASE Aligned(u, T, v.at)
    <3>1. ~Drops(y, v, u, T, hr)
      BY <2>4 DEF Drops
    <3>2. y.done \/ Aligned(u, T, y.at)
      <4>1. CASE Stops(y, v, u, k) \/ Fails(y, v, u, T)
        <5>1. y.done
          BY <2>0, <4>1 DEF Stops, Fails, WalkState
        <5> QED BY <5>1
      <4>2. CASE Passes(y, v, u, T)
        BY <2>4, <4>2 DEF Passes
      <4>3. CASE Gets(y, v, u, T, hr)
        BY <4>3 DEF Gets
      <4> QED BY <2>2, <3>1, <4>1, <4>2, <4>3
    <3>3. y \in A
      BY <2>0, <2>2, <3>1, <3>2
    <3> QED BY <3>3 DEF y
  <2>5. CASE T > 0 /\ v.at = 0
    <3>1. y \in A
      BY <2>0, <2>2, <2>3, <2>5
    <3> QED BY <3>1 DEF y
  <2> QED BY <2>0, <2>4, <2>5
<1>4. w \in A
  <2> HIDE DEF A
  <2> QED BY <1>2, <1>3, WalkIn
<1> DEFINE r == Result(w)
<1>5. r.garbage = w.garbage
  BY DEF Result
<1> QED BY <1>4, <1>5

-----------------------------------------------------------------------------
(***************************************************************************)
(* Every byte is sent, in the continuity of the packets.                   *)
(***************************************************************************)
\* The position of the packetizer y is after the last byte b of a packet.
After(b, y) ==
    IF Closed(b) THEN y.next = 0 ELSE y.next > 0 /\ b.of = y.section /\ b.at = y.next

\* Packet pkt goes on with the section of z, up to the position of y; until its pointer_field, if
\* any, there is only this section.
Carries(pkt, z, y) ==
    /\ PayloadSize - 1 <= Len(pkt.data) /\ pkt.data # <<>>
    /\ pkt.data[1].at = z.next + 1 /\ pkt.data[1] = [of |-> pkt.data[1].of, at |-> pkt.data[1].at]
    /\ z.next > 0 => pkt.data[1].of = z.section
    /\ z.next = 0 => pkt.pusi /\ pkt.pointer = 0
    /\ \A i \in 1 .. Len(pkt.data) :
          pkt.data[i] # Stuffing /\ (pkt.pusi => i <= pkt.pointer) => pkt.data[i].of = z.section
    /\ After(pkt.data[Len(pkt.data)], y)

\* getNextPacket() gives such a packet.
LEMMA PacketCarries ==
    ASSUME NEW V \in Versions, NEW z, Good(z, V), NEW X, NEW y, Good(y, V), NEW pkt, NEW d,
           NewPacket(pkt, d, y, z, V, X)
    PROVE  Carries(pkt, z, y)
<1> DEFINE L == Len(d)  b == d[Len(d)]  u == pkt.data  f == d[1]  N == Len(u)
<1>1. PacketShape(pkt, d) /\ Chain(d) /\ d \in Seq(Byte) /\ L \in Nat /\ 1 <= L /\ SentUpTo(y, d, V, X)
  <2>1. PacketShape(pkt, d) /\ Chain(d) /\ d \in Seq(Byte) /\ d # <<>> /\ SentUpTo(y, d, V, X)
    BY DEF NewPacket, PacketShape, Chain
  <2> QED BY <2>1
<1>2. IF y.next > 0 THEN b.of = y.section /\ b.at = y.next /\ u = d
      ELSE b.at = b.of.size /\ b.of # y.section
  BY DEF NewPacket, SentUpTo
<1>3. Flow(u, 0) /\ L <= Len(u) /\ (\A i \in 1 .. L : u[i] = d[i])
      /\ \A i \in 1 .. Len(u) : L < i => u[i] = Stuffing
  <2>1. d[Len(d)].at = d[Len(d)].of.size \/ pkt.data = d
    BY <1>2
  <2> QED BY <1>1, <2>1, PacketFlow
<1>4. u \in Seq(Raw) /\ N \in Nat /\ 1 <= N /\ L <= N
  <2>1. u \in Seq(Raw) /\ N \in Nat /\ L <= N
    BY <1>3 DEF Flow
  <2> QED BY <1>1, <2>1
<1>5. PayloadSize - 1 <= N
  BY <1>1, <1>4, Sizes DEF PacketShape
<1>6. z.next \in Nat /\ y.next \in Nat
  BY DEF Good, Exact, Object
<1>7. f = [of |-> f.of, at |-> z.next + 1] /\ (z.section # NullSection => f.of = z.section)
      /\ u[1] = f /\ f.at = z.next + 1
  <2>1. f = [of |-> f.of, at |-> z.next + 1] /\ (z.section # NullSection => f.of = z.section)
    BY DEF NewPacket
  <2>2. u[1] = f
    BY <1>1, <1>3
  <2> QED BY <2>1, <2>2
<1>8. z.next > 0 => f.of = z.section
  <2>1. z.next > 0 => z.section \in Sent
    BY DEF Good, Placed, Old
  <2> QED BY <1>7, <2>1, Sizes
<1>9. ASSUME pkt.pusi
      PROVE  pkt.pointer \in Nat /\ pkt.pointer < L /\ OneRest(d, pkt.pointer)
  BY <1>1, <1>9 DEF PacketShape
<1>10. ~pkt.pusi => OneRest(d, L)
  BY <1>1 DEF PacketShape
<1>11. ASSUME NEW n \in Nat, OneRest(d, n), n # 0
       PROVE  z.next > 0 /\ \A i \in 1 .. n : d[i].of = z.section
  <2>1. f.at # 1 /\ \A i \in 1 .. n : d[i].of = f.of
    BY <1>11 DEF OneRest
  <2>2. z.next > 0
    BY <1>6, <1>7, <2>1
  <2> QED BY <1>8, <2>1, <2>2
<1>12. z.next = 0 => pkt.pusi /\ pkt.pointer = 0
  <2>1. ASSUME ~pkt.pusi PROVE z.next > 0
    BY <1>1, <1>10, <1>11, <2>1
  <2>2. ASSUME pkt.pusi, pkt.pointer # 0 PROVE z.next > 0
    BY <1>9, <1>11, <2>2
  <2> QED BY <1>6, <2>1, <2>2
<1>13. ASSUME NEW i \in 1 .. N, u[i] # Stuffing, pkt.pusi => i <= pkt.pointer
       PROVE  u[i].of = z.section
  <2>1. i \in 1 .. L /\ u[i] = d[i]
    <3>1. i <= L
      BY <1>1, <1>3, <1>13
    <3> QED BY <1>1, <1>3, <3>1
  <2>2. CASE ~pkt.pusi
    BY <1>1, <1>10, <1>11, <2>1, <2>2
  <2>3. CASE pkt.pusi
    <3> DEFINE q == pkt.pointer
    <3>1. q \in Nat /\ i <= q /\ OneRest(d, q)
      BY <1>9, <1>13, <2>3
    <3> HIDE DEF q
    <3>2. q # 0 /\ i \in 1 .. q
      BY <2>1, <3>1
    <3> QED BY <1>11, <2>1, <3>1, <3>2
  <2> QED BY <2>2, <2>3
<1>14. After(u[N], y)
  <2>1. L \in 1 .. L /\ b \in Byte /\ b \in Raw
    BY <1>1 DEF Raw
  <2>2. b # Stuffing /\ b.of \in Sent /\ b.of.size \in Nat
    BY <2>1, RawByte
  <2>3. CASE y.next > 0
    <3>1. b.of = y.section /\ b.at = y.next /\ u[N] = b
      BY <1>2, <2>3
    <3>2. y.section # NullSection
      BY <2>2, <3>1, SentSize
    <3>3. y.next \in 0 .. y.section.size - 1
      BY <3>2 DEF Good, Placed
    <3>4. b.at # b.of.size
      BY <2>2, <3>1, <3>3
    <3> QED BY <2>2, <2>3, <3>1, <3>4 DEF After, Closed
  <2>4. CASE ~(y.next > 0)
    <3>1. y.next = 0 /\ b.at = b.of.size
      BY <1>2, <1>6, <2>4
    <3>2. u[N] = Stuffing \/ u[N] = b
      <4>1. CASE L < N
        BY <1>3, <1>4, <4>1
      <4>2. CASE ~(L < N)
        <5>1. L = N
          BY <1>1, <1>4, <4>2
        <5> QED BY <1>3, <2>1, <5>1
      <4> QED BY <4>1, <4>2
    <3> QED BY <3>1, <3>2 DEF After, Closed
  <2> QED BY <2>3, <2>4
<1>15. u # <<>>
  BY <1>4
<1> HIDE DEF u, N, f
<1>16. /\ PayloadSize - 1 <= N /\ u # <<>> /\ u[1].at = z.next + 1 /\ u[1] = [of |-> u[1].of, at |-> u[1].at]
       /\ (z.next > 0 => u[1].of = z.section) /\ (z.next = 0 => pkt.pusi /\ pkt.pointer = 0)
       /\ After(u[N], y)
  BY <1>5, <1>7, <1>8, <1>12, <1>14, <1>15
<1> QED BY <1>13, <1>16 DEF Carries, u, N

\* The last occurrence of which a byte was generated, after the bytes u.
LEMMA LastBegun ==
    ASSUME NEW u, Flow(u, 0), NEW n \in Int, NEW m,
           m = Max({n} \cup {b.of.occ : b \in ({u[i] : i \in DOMAIN u} \ {Stuffing})})
    PROVE  /\ m \in Int /\ n <= m
           /\ \A i \in 1 .. Len(u) : u[i] # Stuffing => u[i].of.occ <= m
<1> DEFINE bytes == {u[i] : i \in DOMAIN u} \ {Stuffing}
           S == {n} \cup {b.of.occ : b \in bytes}
           I == {i \in 1 .. Len(u) : u[i] # Stuffing}
<1>1. u \in Seq(Raw) /\ Len(u) \in Nat /\ DOMAIN u = 1 .. Len(u)
  <2>1. u \in Seq(Raw)
    BY DEF Flow
  <2> QED BY <2>1
<1>2. ASSUME NEW i \in I PROVE u[i].of.occ \in Nat /\ u[i].of.occ \in S
  <2>1. u[i] \in Raw /\ u[i] # Stuffing
    BY <1>1
  <2>2. u[i].of.occ \in Nat
    <3>1. u[i].of \in Sent
      BY <2>1, RawByte
    <3> QED BY <3>1, SentSize
  <2>3. u[i] \in bytes
    BY <1>1, <2>1
  <2> HIDE DEF bytes
  <2> QED BY <2>2, <2>3
<1>3. \A x \in S : x = n \/ \E i \in I : x = u[i].of.occ
  BY <1>1
<1> HIDE DEF S
<1>4. n \in S
  BY DEF S
<1>5. \E x \in S : \A y \in S : x >= y
  <2>1. CASE I = {}
    <3>1. \A y \in S : n >= y
      BY <1>3, <2>1
    <3> QED BY <1>4, <3>1
  <2>2. CASE I # {}
    <3> DEFINE T == {Len(u) - i : i \in I}
    <3>1. T \in SUBSET Nat /\ T # {}
      BY <1>1, <2>2
    <3>2. PICK x \in T : \A y \in T : x <= y
      <4> HIDE DEF T
      <4> QED BY <3>1, LeastElement
    <3>3. PICK j \in I : x = Len(u) - j
      OBVIOUS
    <3>4. ASSUME NEW i \in I PROVE i <= j
      <4>1. x <= Len(u) - i
        BY <3>2
      <4> QED BY <1>1, <3>3, <4>1
    <3> DEFINE k == u[j].of.occ
    <3>5. k \in Nat /\ k \in S
      BY <1>2
    <3>6. ASSUME NEW i \in I PROVE k >= u[i].of.occ
      <4>1. CASE i = j
        BY <3>5, <4>1
      <4>2. CASE i # j
        <5>1. 0 < i /\ i < j /\ i \in 1 .. Len(u) /\ j \in 1 .. Len(u)
          BY <1>1, <3>4, <4>2
        <5>2. Later(u[i], u[j]) /\ u[j] # Stuffing
          BY <5>1 DEF Flow
        <5>3. Upto(u[i].of, u[j].of)
          BY <5>2 DEF Later
        <5>4. u[i].of.occ \in Nat
          BY <1>2
        <5> QED BY <3>5, <5>3, <5>4 DEF Upto, Prior
      <4> QED BY <4>1, <4>2
    <3> HIDE DEF k
    <3>7. CASE k >= n
      <4>1. \A y \in S : k >= y
        BY <1>3, <3>6, <3>7
      <4> QED BY <3>5, <4>1
    <3>8. CASE ~(k >= n)
      <4>1. \A y \in S : n >= y
        <5>1. ASSUME NEW i \in I PROVE n >= u[i].of.occ
          <6>1. u[i].of.occ \in Nat /\ k >= u[i].of.occ
            BY <1>2, <3>6
          <6> QED BY <3>5, <3>8, <6>1
        <5> QED BY <1>3, <5>1
      <4> QED BY <1>4, <4>1
    <3> QED BY <3>7, <3>8
  <2> QED BY <2>1, <2>2
<1>6. m = Max(S)
  BY DEF S
<1>7. m \in S /\ \A y \in S : m >= y
  BY <1>5, <1>6 DEF Max
<1>8. m \in Int
  <2>1. m = n \/ \E i \in I : m = u[i].of.occ
    BY <1>3, <1>7
  <2> QED BY <1>2, <2>1
<1>9. n <= m
  BY <1>4, <1>7, <1>8
<1>10. ASSUME NEW i \in 1 .. Len(u), u[i] # Stuffing PROVE u[i].of.occ <= m
  <2>1. u[i].of.occ \in Nat /\ u[i].of.occ \in S
    BY <1>2, <1>10
  <2> QED BY <1>7, <1>8, <2>1
<1> QED BY <1>8, <1>9, <1>10

\* The quotient and the remainder.
LEMMA Remainder ==
    ASSUME NEW M \in Nat, M > 1, NEW n \in Nat
    PROVE  n = M * (n \div M) + (n % M) /\ n \div M \in Int /\ n % M \in 0 .. M - 1
OBVIOUS

\* Multiples of the modulus.
LEMMA Multiples ==
    ASSUME NEW M \in Nat, M > 1, NEW a \in Int, NEW b \in Int
    PROVE  /\ M * a \in Int /\ M * (a - b) = M * a - M * b
           /\ a >= 1 => M * a >= M
           /\ a <= -1 => M * a <= -M
OBVIOUS

\* The remainder of the next number.
LEMMA NextRemainder ==
    ASSUME NEW M \in Nat, M > 1, NEW n \in Nat
    PROVE  (n + 1) % M = IF (n % M) + 1 = M THEN 0 ELSE (n % M) + 1
<1> DEFINE q == n \div M  r == n % M  m == n + 1  x == m \div M  y == m % M  d == x - q
<1>1. n = M * q + r /\ q \in Int /\ r \in 0 .. M - 1
  BY Remainder
<1>2. m = M * x + y /\ x \in Int /\ y \in 0 .. M - 1
  BY Remainder
<1> HIDE DEF q, r, x, y
<1>3. d \in Int /\ d - 1 \in Int
  BY <1>1, <1>2
<1>4. M * d = M * x - M * q /\ M * x \in Int /\ M * q \in Int
  BY <1>1, <1>2, Multiples
<1> HIDE DEF d
<1>5. /\ M * d \in Int /\ (d >= 1 => M * d >= M) /\ (d <= -1 => M * d <= -M)
      /\ (d - 1 >= 1 => M * (d - 1) >= M) /\ M * (d - 1) = M * d - M
  <2>1. M * d \in Int /\ (d >= 1 => M * d >= M) /\ (d <= -1 => M * d <= -M)
    BY <1>3, Multiples
  <2>2. d - 1 >= 1 => M * (d - 1) >= M
    BY <1>3, Multiples
  <2>3. M * (d - 1) = M * d - M
    BY <1>3
  <2> QED BY <2>1, <2>2, <2>3
<1>6. (d = 0 => M * d = 0) /\ (d = 1 => M * d = M)
  OBVIOUS
<1> DEFINE a == M * x  b == M * q  e == M * d  f == M * (d - 1)
<1>7. /\ m = n + 1 /\ e = a - b /\ n = b + r /\ m = a + y /\ a \in Int /\ b \in Int /\ e \in Int
      /\ (d >= 1 => e >= M) /\ (d <= -1 => e <= -M) /\ (d - 1 >= 1 => f >= M) /\ f = e - M
      /\ (d = 0 => e = 0) /\ (d = 1 => e = M)
  BY <1>1, <1>2, <1>4, <1>5, <1>6
<1> HIDE DEF m, a, b, e, f
<1>8. d <= -1 \/ d = 0 \/ d = 1 \/ d - 1 >= 1
  BY <1>3
<1>9. y = IF r + 1 = M THEN 0 ELSE r + 1
  <2>1. ~(d <= -1)
    BY <1>1, <1>2, <1>7
  <2>2. ~(d - 1 >= 1)
    BY <1>1, <1>2, <1>7
  <2>3. d = 0 \/ d = 1
    BY <1>8, <2>1, <2>2
  <2> QED BY <1>1, <1>2, <1>7, <2>3
<1> QED BY <1>9 DEF r, y, m

\* The continuity counter of the packet which comes n packets after the next one of counter c.
Wrapped(x) == IF x < CC_MAX THEN x ELSE x - CC_MAX
Ahead(c, n) == Wrapped((c + 1) + (n % CC_MAX))

Counters == 0 .. CC_MAX - 1

\* It is the next one, or c itself, when that many packets make a round.
LEMMA AheadOK ==
    ASSUME NEW c \in Counters, NEW n \in Nat
    PROVE  /\ Ahead(c, n) \in Counters /\ Ahead(c, 0) = (c + 1) % CC_MAX
           /\ (Ahead(c, n) + 1) % CC_MAX = Ahead(c, n + 1)
           /\ Ahead(c, n) = (c + 1) % CC_MAX <=> n % CC_MAX = 0
           /\ Ahead(c, n) = c <=> n % CC_MAX = CC_MAX - 1
           /\ (c + 1) % CC_MAX # c
<1> DEFINE M == CC_MAX  r == n % M
<1>1. M \in Nat /\ M > 1
  BY CCAssumption
<1>2. c \in 0 .. M - 1
  BY DEF Counters
<1> HIDE DEF M
<1>3. r \in 0 .. M - 1
  BY <1>1, Remainder
<1>4. (c + 1) % M = IF c + 1 = M THEN 0 ELSE c + 1
  <2>1. c % M = c /\ c \in Nat
    BY <1>1, <1>2
  <2>2. (c + 1) % M = IF (c % M) + 1 = M THEN 0 ELSE (c % M) + 1
    BY <1>1, <2>1, NextRemainder
  <2> QED BY <2>1, <2>2
<1>5. (n + 1) % M = IF r + 1 = M THEN 0 ELSE r + 1
  BY <1>1, NextRemainder
<1>6. 0 % M = 0
  BY <1>1
<1> HIDE DEF r
<1> DEFINE x == (c + 1) + r  a == IF x < M THEN x ELSE x - M
<1>7. a \in 0 .. M - 1
  BY <1>1, <1>2, <1>3
<1>8. (a + 1) % M = IF a + 1 = M THEN 0 ELSE a + 1
  <2> HIDE DEF a
  <2>1. a % M = a /\ a \in Nat
    BY <1>1, <1>7
  <2>2. (a + 1) % M = IF (a % M) + 1 = M THEN 0 ELSE (a % M) + 1
    BY <1>1, <2>1, NextRemainder
  <2> QED BY <2>1, <2>2
<1>9. Ahead(c, n) = a
  BY DEF Ahead, Wrapped, M, r
<1>10. Ahead(c, 0) = (c + 1) % M
  <2> DEFINE s == 0 % M
  <2>1. Ahead(c, 0) = Wrapped((c + 1) + s)
    BY DEF Ahead, M
  <2>2. s = 0
    BY <1>6
  <2> HIDE DEF s
  <2> QED BY <1>1, <1>2, <1>4, <2>1, <2>2 DEF Wrapped, M
<1>11. (a + 1) % M = Ahead(c, n + 1)
  <2> DEFINE s == (n + 1) % M
  <2>1. Ahead(c, n + 1) = Wrapped((c + 1) + s)
    BY DEF Ahead, M
  <2>2. s = IF r + 1 = M THEN 0 ELSE r + 1
    BY <1>5
  <2> HIDE DEF s
  <2> QED BY <1>1, <1>2, <1>3, <1>8, <2>1, <2>2 DEF Wrapped, M
<1>12. /\ a = (IF c + 1 = M THEN 0 ELSE c + 1) <=> r = 0
       /\ a = c <=> r = M - 1
       /\ (IF c + 1 = M THEN 0 ELSE c + 1) # c
  BY <1>1, <1>2, <1>3
<1> HIDE DEF a
<1> QED BY <1>4, <1>7, <1>9, <1>10, <1>11, <1>12 DEF M, r, Counters

-----------------------------------------------------------------------------
(***************************************************************************)
(* What the demux does not miss.                                           *)
(***************************************************************************)
\* The position of z is after byte b; or the rest of the section was given up, in the buffer it seems
\* to end in the next packet, or nothing is owed: o.
AtByte(b, z, o) ==
    \/ After(b, z)
    \/ ~Closed(b) /\ z.next = 0 /\ (o = Never \/ b.of.size - b.at <= PayloadSize - 1)

AtBuffer(ts, z, o) == IF ts = <<>> THEN z.next = 0 ELSE Partial(ts) /\ AtByte(ts[Len(ts)], z, o)

\* The continuity counters, of which the demux sees or does not see the gaps.
InStep ==
    /\ zer.cc \in Counters
    /\ demux.sync => demux.cc \in Counters /\ zer.cc = Ahead(demux.cc, gap)
    /\ packet # NullPacket => packet.cc \in Counters /\ zer.cc = Ahead(packet.cc, 0)

\* The next packet goes on with the last one, and with what is in the buffer.
Joins ==
    /\ packet # NullPacket
       => packet.data # <<>> /\ AtByte(packet.data[Len(packet.data)], zer, owed)
    /\ owed # Never /\ demux.sync /\ gap = 0 => AtBuffer(demux.ts, zer, owed)

\* The occurrences which were begun, those which were completed, and those which are owed.
BegunInv ==
    /\ begun \in Int /\ -1 <= begun
    /\ zer.next > 0 => zer.section.occ <= begun
    /\ \A o \in completed : o \in Int /\ o <= begun

OwedInv ==
    /\ owed \in Int /\ owed <= begun + 1 /\ (owed = Never \/ 0 <= owed)
    /\ owed # Never /\ (~demux.sync \/ gap > 0) /\ zer.next > 0 => zer.section.occ < owed

\* The contexts of the tables are sound, and up to date when the demux did not have to start again.
Contextual ==
    /\ owed # Never => AllSound(demux.tids)
    /\ ~forgot => owed # Never /\ Informed(demux.tids, sections, tables)

\* Only bytes which were missed unseen explain a short section, and that the demux owes nothing.
Quiet ==
    /\ garbage \in BOOLEAN /\ missed \in BOOLEAN /\ GarbageExplained
    /\ ~missed => owed # Never

RecoveryInv ==
    /\ InStep /\ Joins /\ BegunInv /\ OwedInv /\ Contextual /\ Quiet
    /\ Witnessed(sections, tables) /\ SectionsNotMissed

\* A packet is generated.
Sends ==
    /\ Carries(packet', zer, zer') /\ PacketOK(packet')
    /\ packet'.cc = zer.cc /\ zer'.cc = (zer.cc + 1) % CC_MAX
    /\ completed' = completed \cup EndedIn(packet'.data)
    /\ begun' \in Int /\ begun <= begun' /\ -1 <= begun'
    /\ \A i \in 1 .. Len(packet'.data) :
          packet'.data[i] # Stuffing => packet'.data[i].of.occ <= begun'

\* The occurrences in the histories, after the bytes of a packet.
LEMMA GeneratedHistory ==
    ASSUME NEW pkt, Flow(pkt.data, 0), NEW p, Generated(pkt, p), begun \in Int
    PROVE  /\ completed' = completed \cup EndedIn(pkt.data)
           /\ begun' \in Int /\ begun <= begun'
           /\ \A i \in 1 .. Len(pkt.data) : pkt.data[i] # Stuffing => pkt.data[i].of.occ <= begun'
<1> DEFINE u == pkt.data  bytes == {u[i] : i \in DOMAIN u} \ {Stuffing}
<1>1. u \in Seq(Raw) /\ DOMAIN u = 1 .. Len(u)
  <2>1. u \in Seq(Raw)
    BY DEF Flow
  <2> QED BY <2>1
<1>2. /\ completed' = completed \cup {b.of.occ : b \in {x \in bytes : x.at = x.of.size}}
      /\ begun' = Max({begun} \cup {b.of.occ : b \in bytes})
  BY DEF Generated
<1>3. {b.of.occ : b \in {x \in bytes : x.at = x.of.size}} = EndedIn(u)
  <2>1. ASSUME NEW m \in 1 .. Len(u), u[m] # Stuffing, u[m].at = u[m].of.size
        PROVE  u[m].of.occ \in {b.of.occ : b \in {x \in bytes : x.at = x.of.size}}
    <3>1. u[m] \in bytes
      BY <1>1, <2>1
    <3> HIDE DEF bytes, u
    <3> QED BY <2>1, <3>1
  <2>2. ASSUME NEW b \in bytes, b.at = b.of.size PROVE b.of.occ \in EndedIn(u)
    <3>1. PICK i \in 1 .. Len(u) : b = u[i] /\ u[i] # Stuffing
      BY <1>1
    <3> HIDE DEF bytes, u
    <3> QED BY <2>2, <3>1 DEF EndedIn
  <2>3. \A o \in EndedIn(u) : \E m \in 1 .. Len(u) : o = u[m].of.occ /\ u[m] # Stuffing /\ u[m].at = u[m].of.size
    BY DEF EndedIn
  <2> HIDE DEF bytes, u
  <2> QED BY <2>1, <2>2, <2>3
<1>4. begun' = Max({begun} \cup {b.of.occ : b \in ({u[i] : i \in DOMAIN u} \ {Stuffing})})
  BY <1>2
<1> DEFINE n == begun'
<1>5. n \in Int /\ begun <= n /\ \A i \in 1 .. Len(u) : u[i] # Stuffing => u[i].of.occ <= n
  <2> HIDE DEF u, n, bytes
  <2>1. n = Max({begun} \cup {b.of.occ : b \in ({u[i] : i \in DOMAIN u} \ {Stuffing})}) /\ Flow(u, 0)
    BY <1>4 DEF n, u
  <2> QED BY <2>1, LastBegun, SMTT(30)
<1> QED BY <1>2, <1>3, <1>5

\* getNextPacket() in the actions of the transmission.
LEMMA SendsPacket ==
    ASSUME PacketizerInv, BegunInv, GetNextPacket(zer).packet # NullPacket,
           Generated(GetNextPacket(zer).packet, GetNextPacket(zer))
    PROVE  Sends /\ BegunInv'
<1> DEFINE p == GetNextPacket(zer)  X == {}
<1>1. p.packet # NullPacket /\ zer' = p.z /\ version' = version /\ packet' = p.packet
  BY DEF Generated
<1>2. NextOK(p, zer, version, X)
  <2>1. AllPast(X, zer, version)
    BY DEF AllPast
  <2> HIDE DEF X
  <2> QED BY <2>1, NextPacketOK DEF PacketizerInv
<1>3. Generated(p.packet, p)
  OBVIOUS
<1> HIDE DEF p, X
<1>4. PICK d : NewPacket(p.packet, d, p.z, zer, version, X)
  BY <1>1, <1>2 DEF NextOK, NoPacket
<1>5. Good(p.z, version) /\ Good(zer, version) /\ version \in Versions
  BY <1>2 DEF NextOK, PacketizerInv
<1>6. Carries(packet', zer, zer') /\ PacketOK(packet')
  <2> DEFINE y == p.z  pkt == p.packet
  <2>1. NewPacket(pkt, d, y, zer, version, X) /\ Good(y, version)
    BY <1>4, <1>5
  <2> HIDE DEF y, pkt
  <2>2. Carries(pkt, zer, y)
    BY <1>5, <2>1, PacketCarries
  <2>3. PacketOK(pkt)
    BY <1>5, <2>1, NewPacketSent
  <2> QED BY <1>1, <2>2, <2>3 DEF y, pkt
<1>7. packet'.cc = zer.cc /\ zer'.cc = (zer.cc + 1) % CC_MAX
  BY <1>1, <1>4 DEF NewPacket
<1>8. /\ completed' = completed \cup EndedIn(packet'.data)
      /\ begun' \in Int /\ begun <= begun'
      /\ \A i \in 1 .. Len(packet'.data) :
            packet'.data[i] # Stuffing => packet'.data[i].of.occ <= begun'
  <2> DEFINE pkt == p.packet
  <2>1. Flow(pkt.data, 0) /\ Generated(pkt, p) /\ begun \in Int /\ packet' = pkt
    BY <1>1, <1>3, <1>6 DEF PacketOK, BegunInv
  <2> HIDE DEF pkt
  <2> QED BY <2>1, GeneratedHistory
<1>9. begun \in Int /\ -1 <= begun /\ \A o \in completed : o \in Int /\ o <= begun
  BY DEF BegunInv
<1>10. Sends
  <2>1. -1 <= begun'
    BY <1>8, <1>9
  <2> QED BY <1>6, <1>7, <1>8, <2>1 DEF Sends
<1> DEFINE u == packet'.data
<1>11. u \in Seq(Raw) /\ Len(u) \in Nat
  BY <1>6 DEF PacketOK, Flow
<1>12. zer'.next > 0 => zer'.section.occ <= begun'
  <2> SUFFICES ASSUME zer'.next > 0 PROVE zer'.section.occ <= begun'
    OBVIOUS
  <2> DEFINE y == zer'  n == Len(u)
  <2>1. After(u[n], y) /\ u # <<>>
    BY <1>6 DEF Carries
  <2>2. n \in 1 .. Len(u)
    BY <1>11, <2>1
  <2>3. y.next > 0
    OBVIOUS
  <2> HIDE DEF u, n, y
  <2>4. ~Closed(u[n]) /\ u[n].of = y.section
    BY <2>1, <2>3 DEF After
  <2>5. u[n] # Stuffing
    BY <2>4 DEF Closed
  <2>6. u[n].of.occ <= begun'
    BY <1>8, <2>2, <2>5 DEF u
  <2> QED BY <2>4, <2>6 DEF y
<1>13. ASSUME NEW o \in completed' PROVE o \in Int /\ o <= begun'
  <2>1. CASE o \in completed
    <3>1. o \in Int /\ o <= begun
      BY <1>9, <2>1
    <3> QED BY <1>8, <1>9, <3>1
  <2>2. CASE o \in EndedIn(u)
    <3>1. PICK i \in 1 .. Len(u) : o = u[i].of.occ /\ u[i] # Stuffing
      BY <2>2 DEF EndedIn
    <3>2. u[i].of.occ \in Nat
      <4>1. u[i] \in Raw
        BY <1>11
      <4> HIDE DEF u
      <4>2. u[i].of \in Sent
        BY <3>1, <4>1, RawByte
      <4> QED BY <4>2, SentSize
    <3> QED BY <1>8, <3>1, <3>2
  <2> QED BY <1>8, <1>13, <2>1, <2>2
<1> QED BY <1>8, <1>10, <1>12, <1>13 DEF BegunInv, Sends

\* The packet pkt is read from position q on, with the result r.
Reads(r, pkt, q) ==
    /\ AllSound(r.d.tids) /\ Found(r.sections, pkt.data, q, Len(pkt.data))
    /\ LET b == pkt.data[Len(pkt.data)]
       IN  IF ~r.d.sync THEN q = Len(pkt.data)
           ELSE IF r.d.ts = <<>> THEN Closed(b)
           ELSE Partial(r.d.ts) /\ r.d.ts[Len(r.d.ts)] = b

\* The context d has to be synchronized, or goes on with the packet.
Comes(pkt, d, resync) ==
    IF resync THEN ~d.sync \/ (pkt.cc # (d.cc + 1) % CC_MAX /\ pkt.cc # d.cc)
    ELSE d.sync /\ pkt.cc = (d.cc + 1) % CC_MAX /\ pkt.cc # d.cc /\ GoesOn(d.ts, pkt)
Skip(pkt, resync) ==
    IF ~resync THEN 0 ELSE IF pkt.pusi THEN pkt.pointer ELSE Len(pkt.data)

\* processPacket(), when no byte was missed or when this is seen.
LEMMA PacketRead ==
    ASSUME NEW d, NEW k, Waiting(d, k), NEW pkt, PacketOK(pkt), pkt.data # <<>>, AllSound(d.tids),
           NEW resync \in BOOLEAN, Comes(pkt, d, resync), NEW S, NEW B, Earlier(S, B, pkt, d.ts),
           NEW known \in BOOLEAN, known => Informed(d.tids, S, B),
           NEW r, r = ProcessPacket(d, pkt, k, FALSE)
    PROVE  /\ Reads(r, pkt, Skip(pkt, resync))
           /\ known => Informed(r.d.tids, S \o r.sections, B \o r.tables)
<1> DEFINE informed == known => Informed(r.d.tids, S \o r.sections, B \o r.tables)
<1>1. ASSUME NEW q, Clear(r, pkt, q) PROVE Reads(r, pkt, q)
  BY <1>1 DEF Clear, Reads
<1>2. CASE ~resync
  <2>1. d.sync /\ pkt.cc = (d.cc + 1) % CC_MAX /\ pkt.cc # d.cc /\ GoesOn(d.ts, pkt)
    BY <1>2 DEF Comes
  <2>2. Clear(r, pkt, 0) /\ informed
    BY <2>1, NextPacketClean
  <2> QED BY <1>1, <1>2, <2>2 DEF Skip
<1>3. CASE resync
  <2>1. ~d.sync \/ (pkt.cc # (d.cc + 1) % CC_MAX /\ pkt.cc # d.cc)
    BY <1>3 DEF Comes
  <2>2. (IF pkt.pusi THEN Clear(r, pkt, pkt.pointer) ELSE Awaits(r, d, pkt)) /\ informed
    BY <2>1, SynchronizedClean
  <2> HIDE DEF informed
  <2>3. CASE pkt.pusi
    BY <1>1, <1>3, <2>2, <2>3 DEF Skip, informed
  <2>4. CASE ~pkt.pusi
    <3>1. ~r.d.sync /\ r.d.tids = d.tids
      BY <2>2, <2>4 DEF Awaits
    <3>2. Found(r.sections, pkt.data, Len(pkt.data), Len(pkt.data))
      BY DEF Found, PacketOK, Flow
    <3> QED BY <1>3, <2>2, <2>4, <3>1, <3>2 DEF Skip, Reads, informed
  <2> QED BY <2>2, <2>3, <2>4 DEF informed
<1> QED BY <1>2, <1>3

\* Whether a short section is in the result.
LEMMA GarbageTyped ==
    ASSUME NEW d, NEW k, Waiting(d, k), NEW pkt, PacketOK(pkt), NEW hr \in BOOLEAN,
           NEW r, r = ProcessPacket(d, pkt, k, hr)
    PROVE  r.garbage \in BOOLEAN
<1>1. CASE Ignores(r, d, pkt)
  BY <1>1 DEF Ignores, NoneFrom
<1>2. CASE Awaits(r, d, pkt)
  <2> DEFINE x == r.d  y == NoneFrom(x)
  <2>1. r = y
    BY <1>2 DEF Awaits
  <2>2. y.garbage \in BOOLEAN
    BY DEF NoneFrom
  <2> HIDE DEF y
  <2> QED BY <2>1, <2>2
<1>3. ASSUME NEW e, NEW u, NEW J, NEW P, Starts(e, u, J, P, d, pkt, k),
             r = Result(Walk(LoopFrom(e, P), k, hr))
      PROVE  r.garbage \in BOOLEAN
  <2> DEFINE w0 == LoopFrom(e, P)  w == Walk(w0, k, hr)
  <2>1. e \in Demux /\ e.ts = u /\ e.sync /\ Buffer(u, J, P, k) /\ J <= Len(u)
        /\ (J = 0 \/ FromStart(u, J, k)) /\ P \in Int
    BY <1>3 DEF Starts, Buffer
  <2>2. w0 \in WalkState
    <3> DEFINE s == <<>>  n == 0  f == FALSE
    <3>1. w0 = [d |-> e, at |-> n, pusi |-> P, sections |-> s, tables |-> s, garbage |-> f,
                done |-> f]
          /\ s \in Seq(Sent) /\ s \in Seq(FullTable) /\ n \in Nat /\ f \in BOOLEAN
      BY DEF LoopFrom
    <3> HIDE DEF w0, s, n, f
    <3> QED BY <2>1, <3>1 DEF WalkState
  <2>3. ASSUME NEW v \in WalkState, WalkOK(v, u, J, P, k, e.cc, hr), ~v.done, v.at < Len(u)
        PROVE  WalkStep(v, k, hr) \in WalkState
    <3>1. v.d.sync
      BY <2>3 DEF WalkOK, WalkState, Demux
    <3>2. Walking(v, u, J, P, k)
      BY <2>3, <3>1 DEF WalkOK, Walking
    <3> QED BY <2>1, <3>2, WalkStepOK
  <2>4. w \in WalkState
    BY <2>1, <2>2, <2>3, WalkIn
  <2>5. r = Result(w)
    BY <1>3
  <2> HIDE DEF w0, w
  <2>6. r.garbage = w.garbage
    BY <2>5 DEF Result
  <2> QED BY <2>4, <2>6 DEF WalkState
<1>4. \/ Ignores(r, d, pkt) \/ Awaits(r, d, pkt)
      \/ \E e, u, J, P : Starts(e, u, J, P, d, pkt, k) /\ r = Result(Walk(LoopFrom(e, P), k, hr))
  BY ProcessPacketIs
<1> QED BY <1>1, <1>2, <1>3, <1>4

\* Then no short section is read.
LEMMA PacketQuiet ==
    ASSUME NEW d, NEW k, Waiting(d, k), NEW pkt, PacketOK(pkt), pkt.data # <<>>,
           NEW resync \in BOOLEAN, Comes(pkt, d, resync), NEW hr \in BOOLEAN,
           NEW r, r = ProcessPacket(d, pkt, k, hr)
    PROVE  ~r.garbage
<1>1. CASE Ignores(r, d, pkt)
  BY <1>1 DEF Ignores, NoneFrom
<1>2. CASE Awaits(r, d, pkt)
  <2> DEFINE x == r.d  y == NoneFrom(x)
  <2>1. r = y
    BY <1>2 DEF Awaits
  <2>2. ~y.garbage
    BY DEF NoneFrom
  <2> HIDE DEF y
  <2> QED BY <2>1, <2>2
<1>3. ASSUME NEW e, NEW u, NEW J, NEW P, Starts(e, u, J, P, d, pkt, k),
             r = Result(Walk(LoopFrom(e, P), k, hr))
      PROVE  ~r.garbage
  <2>1. e \in Demux /\ e.ts = u /\ e.sync /\ Buffer(u, J, P, k) /\ J <= Len(u)
        /\ (J = 0 \/ FromStart(u, J, k)) /\ J \in Nat /\ u \in Seq(Raw)
    BY <1>3 DEF Starts, Buffer, Flow
  <2>2. CASE ~resync
    <3> DEFINE l == d.ts
    <3>1. d.sync /\ pkt.cc = (d.cc + 1) % CC_MAX /\ GoesOn(l, pkt)
      BY <2>2 DEF Comes
    <3>2. u = Buffered(l, pkt, 0) /\ J = Len(l) /\ (pkt.pusi => P = J + pkt.pointer)
      BY <1>3, <3>1 DEF Starts
    <3>3. l \in Seq(Raw)
      BY DEF Waiting, Demux
    <3> HIDE DEF l
    <3>4. PICK T \in 0 .. J : Buffer(u, T, P, k) /\ (T = 0 \/ FromStart(u, T, k)) /\ CleanStart(u, T, P)
      BY <2>1, <3>1, <3>2, <3>3, ContinuesStart
    <3>5. T <= Len(u)
      BY <2>1, <3>4
    <3> QED BY <1>3, <2>1, <3>4, <3>5, WalkQuiet
  <2>3. CASE resync
    <3>1. ~(d.sync /\ pkt.cc = (d.cc + 1) % CC_MAX)
      BY <2>3 DEF Comes
    <3> DEFINE T == 0  l == <<>>  q == pkt.pointer
    <3>2. pkt.pusi /\ u = Buffered(l, pkt, q) /\ J = T /\ Aligned(u, 0, 0)
      BY <1>3, <3>1 DEF Starts
    <3>3. u # <<>>
      <4>1. pkt.data \in Seq(Raw) /\ Flow(pkt.data, 0) /\ Len(pkt.data) \in Nat
        BY DEF PacketOK, Flow
      <4>2. q \in Nat /\ q < Len(pkt.data) /\ q <= Len(pkt.data)
        BY <3>2, <4>1 DEF PacketOK
      <4>3. l \in Seq(Raw) /\ Len(l) = 0
        OBVIOUS
      <4> HIDE DEF l, q
      <4>4. Len(u) = Len(l) + (Len(pkt.data) - q)
        BY <3>2, <4>1, <4>2, <4>3, BufferedFlow DEF Appended
      <4> QED BY <4>1, <4>2, <4>3, <4>4
    <3>4. CleanStart(u, T, P)
      BY <3>2, <3>3 DEF CleanStart
    <3>5. Buffer(u, T, P, k) /\ (T = 0 \/ FromStart(u, T, k)) /\ T <= Len(u)
      BY <2>1, <3>2
    <3> HIDE DEF T
    <3> QED BY <1>3, <2>1, <3>4, <3>5, WalkQuiet
  <2> QED BY <2>2, <2>3
<1>4. \/ Ignores(r, d, pkt) \/ Awaits(r, d, pkt)
      \/ \E e, u, J, P : Starts(e, u, J, P, d, pkt, k) /\ r = Result(Walk(LoopFrom(e, P), k, hr))
  BY ProcessPacketIs
<1> QED BY <1>1, <1>2, <1>3, <1>4

\* All occurrences of C from w on are in the list.
Covers(C, w, list) == \A o \in C : o >= w => \E i \in 1 .. Len(list) : list[i].occ = o

\* What is owed after a packet which is read: the occurrences from w on.
LEMMA ReadsOwed ==
    ASSUME NEW pkt, PacketOK(pkt), NEW z, NEW y, Carries(pkt, z, y), z.next \in Nat,
           NEW r, r.sections \in Seq(Sent), NEW resync \in BOOLEAN, Reads(r, pkt, Skip(pkt, resync)),
           NEW w, resync /\ z.next > 0 => z.section.occ < w, z.section.occ \in Int, w \in Int,
           NEW C, NEW list \in Seq(Sent), Covers(C, w, list)
    PROVE  /\ Covers(C \cup EndedIn(pkt.data), w, list \o r.sections)
           /\ ~r.d.sync /\ y.next > 0 => y.section.occ < w
           /\ r.d.sync => AtBuffer(r.d.ts, y, w)
<1> DEFINE u == pkt.data  n == Len(u)  q == Skip(pkt, resync)  L == r.sections
<1>1. u \in Seq(Raw) /\ n \in Nat /\ u # <<>> /\ n \in 1 .. n /\ After(u[n], y)
  <2>1. u \in Seq(Raw) /\ u # <<>> /\ After(u[n], y)
    BY DEF PacketOK, Flow, Carries
  <2> QED BY <2>1
<1>2. q \in Nat
  BY <1>1 DEF Skip, PacketOK
<1>3. ASSUME NEW i \in 1 .. n, i <= q, u[i] # Stuffing PROVE u[i].of.occ < w
  <2>1. resync
    BY <1>3 DEF Skip
  <2>2. pkt.pusi => q = pkt.pointer
    BY <2>1 DEF Skip
  <2>3. u[i].of = z.section
    BY <1>3, <2>2 DEF Carries
  <2>4. z.next > 0
    <3>1. z.next # 0
      BY <1>3, <2>2 DEF Carries
    <3> QED BY <3>1
  <2> QED BY <2>1, <2>3, <2>4
<1>4. ASSUME NEW i \in 1 .. n, q < i, u[i] # Stuffing, u[i].at = u[i].of.size
      PROVE  \E j \in 1 .. Len(L) : L[j] = u[i].of
  <2>1. Found(L, u, q, n)
    BY DEF Reads
  <2>2. u[i].of \in Elements(L)
    BY <1>4, <2>1 DEF Found
  <2> QED BY <2>2 DEF Elements
<1> HIDE DEF q
<1> DEFINE all == list \o L
<1>5. /\ \A i \in 1 .. Len(list) : i \in 1 .. Len(all) /\ all[i] = list[i]
      /\ \A j \in 1 .. Len(L) : Len(list) + j \in 1 .. Len(all) /\ all[Len(list) + j] = L[j]
  <2> HIDE DEF L
  <2>0. L \in Seq(Sent)
    BY DEF L
  <2>1. /\ Len(all) = Len(list) + Len(L) /\ Len(list) \in Nat /\ Len(L) \in Nat
        /\ \A i \in 1 .. Len(list) + Len(L) : all[i] = IF i <= Len(list) THEN list[i] ELSE L[i - Len(list)]
    BY <2>0, ConcatProperties
  <2> HIDE DEF all
  <2>2. ASSUME NEW i \in 1 .. Len(list) PROVE i \in 1 .. Len(all) /\ all[i] = list[i]
    BY <2>1
  <2>3. ASSUME NEW j \in 1 .. Len(L)
        PROVE  Len(list) + j \in 1 .. Len(all) /\ all[Len(list) + j] = L[j]
    <3>1. Len(list) + j \in 1 .. Len(list) + Len(L) /\ ~(Len(list) + j <= Len(list))
          /\ (Len(list) + j) - Len(list) = j
      BY <2>1
    <3> QED BY <2>1, <3>1
  <2> QED BY <2>2, <2>3
<1> HIDE DEF all, L, u, n
<1>6. Covers(C \cup EndedIn(u), w, all)
  <2> SUFFICES ASSUME NEW o \in C \cup EndedIn(u), o >= w
               PROVE  \E i \in 1 .. Len(all) : all[i].occ = o
    BY DEF Covers
  <2>1. CASE o \in C
    <3>1. PICK i \in 1 .. Len(list) : list[i].occ = o
      BY <2>1 DEF Covers
    <3> QED BY <1>5, <3>1
  <2>2. CASE o \in EndedIn(u)
    <3>1. PICK i \in 1 .. n : o = u[i].of.occ /\ u[i] # Stuffing /\ u[i].at = u[i].of.size
      BY <2>2 DEF EndedIn, n
    <3>2. u[i].of.occ \in Nat
      <4>1. u[i] \in Raw
        BY <1>1 DEF n
      <4>2. u[i].of \in Sent
        BY <3>1, <4>1, RawByte
      <4> QED BY <4>2, SentSize
    <3>3. q < i
      <4>1. ~(u[i].of.occ < w)
        BY <3>1, <3>2
      <4> QED BY <1>1, <1>2, <1>3, <3>1, <4>1
    <3>4. PICK j \in 1 .. Len(L) : L[j] = u[i].of
      BY <1>4, <3>1, <3>3
    <3> QED BY <1>5, <3>1, <3>4
  <2> QED BY <2>1, <2>2
<1>7. ASSUME ~r.d.sync, y.next > 0 PROVE y.section.occ < w
  <2>1. q = n
    BY <1>7 DEF Reads, q, n, u
  <2>2. u[n].of = y.section /\ u[n] # Stuffing
    BY <1>1, <1>7 DEF After, Closed
  <2>3. n <= q
    BY <1>1, <2>1
  <2> QED BY <1>1, <1>3, <2>2, <2>3
<1>8. ASSUME r.d.sync PROVE AtBuffer(r.d.ts, y, w)
  <2> DEFINE t == r.d.ts
  <2>1. IF t = <<>> THEN Closed(u[n]) ELSE Partial(t) /\ t[Len(t)] = u[n]
    BY <1>8 DEF Reads, n, u
  <2> HIDE DEF t
  <2>2. AtBuffer(t, y, w)
    BY <1>1, <2>1 DEF AtBuffer, AtByte, After
  <2> QED BY <2>2 DEF t
<1> QED BY <1>6, <1>7, <1>8 DEF all, L, u

\* The property, in these terms.
LEMMA CoversAll ==
    ASSUME NEW C, NEW w, NEW list \in Seq(Sent)
    PROVE  {o \in C : o >= w} \subseteq {list[i].occ : i \in DOMAIN list} <=> Covers(C, w, list)
<1>1. DOMAIN list = 1 .. Len(list)
  OBVIOUS
<1> QED BY <1>1 DEF Covers

\* Nothing is owed of what was not begun.
LEMMA NothingOwed ==
    ASSUME NEW b \in Int, NEW C, \A o \in C : o \in Int /\ o <= b, NEW w \in Int, b < w, NEW list
    PROVE  Covers(C, w, list)
<1>1. ASSUME NEW o \in C, o >= w PROVE FALSE
  BY <1>1
<1> QED BY <1>1 DEF Covers

\* A new packet, and the packetizer after it.
LEMMA SendsJoins ==
    ASSUME Sends, zer.cc \in Counters
    PROVE  /\ zer'.cc \in Counters /\ packet'.cc \in Counters /\ zer'.cc = Ahead(packet'.cc, 0)
           /\ packet'.data # <<>> /\ AtByte(packet'.data[Len(packet'.data)], zer', owed')
<1>1. packet'.cc = zer.cc /\ zer'.cc = (zer.cc + 1) % CC_MAX
  BY DEF Sends
<1>2. 0 \in Nat
  OBVIOUS
<1>3. Ahead(zer.cc, 0) \in Counters /\ Ahead(zer.cc, 0) = (zer.cc + 1) % CC_MAX
  BY <1>2, AheadOK
<1>4. packet'.data # <<>> /\ After(packet'.data[Len(packet'.data)], zer')
  BY DEF Sends, Carries
<1> QED BY <1>1, <1>3, <1>4 DEF AtByte

\* A packet is lost or scrambled: the demux has to start again after it.
LEMMA LoseRecovery ==
    ASSUME PacketizerInv, DeliveryInv, RecoveryInv, NEW s \in BOOLEAN, LosePacket(s)
    PROVE  RecoveryInv'
<1>1. /\ GetNextPacket(zer).packet # NullPacket
      /\ Generated(GetNextPacket(zer).packet, GetNextPacket(zer))
      /\ gap' = (IF s THEN 0 ELSE gap + 1) /\ demux' = (IF s THEN SyncLost(demux) ELSE demux)
      /\ owed' = (IF owed = Never /\ (Poisoned(demux) \/ ~s) THEN Never ELSE begun' + 1)
      /\ UNCHANGED <<sections, tables, garbage, missed, forgot>>
  BY DEF LosePacket
<1>2. Sends /\ BegunInv'
  BY <1>1, SendsPacket DEF RecoveryInv
<1>3. demux \in Demux /\ gap \in Nat /\ forgot \in BOOLEAN /\ sections \in Seq(Sent)
  BY DEF DeliveryInv, LinkTypes, Waiting
<1>4. demux'.tids = demux.tids
  BY <1>1, <1>3, DemuxValues
<1>5. ASSUME demux'.sync PROVE ~s /\ demux' = demux /\ gap' = gap + 1
  BY <1>1, <1>3, <1>5, DemuxValues
<1>6. zer.cc \in Counters
  BY DEF RecoveryInv, InStep
<1>7. InStep'
  <2>1. demux'.sync => demux'.cc \in Counters /\ zer'.cc = Ahead(demux'.cc, gap')
    <3> SUFFICES ASSUME demux'.sync PROVE demux'.cc \in Counters /\ zer'.cc = Ahead(demux'.cc, gap')
      OBVIOUS
    <3> DEFINE c == demux.cc
    <3>1. c \in Counters /\ zer.cc = Ahead(c, gap) /\ demux'.cc = c
      BY <1>5 DEF RecoveryInv, InStep
    <3> HIDE DEF c
    <3>2. (Ahead(c, gap) + 1) % CC_MAX = Ahead(c, gap + 1)
      BY <1>3, <3>1, AheadOK
    <3> QED BY <1>2, <1>5, <3>1, <3>2 DEF Sends
  <2> QED BY <1>2, <1>6, <2>1, SendsJoins DEF InStep
<1>8. Joins'
  <2>1. ~(demux'.sync /\ gap' = 0)
    BY <1>3, <1>5
  <2> QED BY <1>2, <1>6, <2>1, SendsJoins DEF Joins
<1>9. begun' \in Int /\ -1 <= begun' /\ (zer'.next > 0 => zer'.section.occ <= begun')
      /\ \A o \in completed' : o \in Int /\ o <= begun'
  BY <1>2 DEF BegunInv
<1>10. owed' = Never \/ owed' = begun' + 1
  BY <1>1
<1>11. OwedInv'
  <2>1. owed' \in Int /\ owed' <= begun' + 1 /\ (owed' = Never \/ 0 <= owed')
    BY <1>9, <1>10 DEF Never
  <2>2. ASSUME owed' # Never, zer'.next > 0 PROVE zer'.section.occ < owed'
    <3> DEFINE o == zer'.section.occ
    <3>1. o <= begun' /\ owed' = begun' + 1 /\ o \in Int
      <4>1. PacketizerInv'
        BY <1>1, GeneratedKept
      <4>2. zer'.section \in Sent
        BY <2>2, <4>1 DEF PacketizerInv, Good, Placed, Old
      <4>3. o \in Nat
        BY <4>2, SentSize
      <4> QED BY <1>9, <1>10, <2>2, <4>3
    <3> QED BY <1>9, <3>1
  <2> QED BY <2>1, <2>2 DEF OwedInv
<1>12. Contextual'
  <2>1. owed' # Never => AllSound(demux.tids)
    <3>1. CASE owed = Never
      <4>1. owed' # Never => ~Poisoned(demux)
        BY <1>1, <3>1
      <4>2. ~Poisoned(demux) => AllSound(demux.tids)
        BY DEF Poisoned, AllSound, Sound
      <4> QED BY <4>1, <4>2
    <3>2. CASE owed # Never
      BY <3>2 DEF RecoveryInv, Contextual
    <3> QED BY <3>1, <3>2
  <2>2. ~forgot => owed' # Never /\ Informed(demux.tids, sections, tables)
    <3>1. ~forgot => owed # Never /\ Informed(demux.tids, sections, tables)
      BY DEF RecoveryInv, Contextual
    <3>2. owed # Never => owed' # Never
      <4>1. owed # Never => owed' = begun' + 1
        BY <1>1
      <4> QED BY <1>9, <4>1 DEF Never
    <3> QED BY <3>1, <3>2
  <2> QED BY <1>1, <1>4, <2>1, <2>2 DEF Contextual
<1>13. SectionsNotMissed'
  <2> SUFFICES ASSUME owed' # Never
               PROVE  {o \in completed' : o >= owed'} \subseteq {sections'[i].occ : i \in DOMAIN sections'}
    BY DEF SectionsNotMissed
  <2> DEFINE C == completed'  w == owed'  b == begun'
  <2>1. w \in Int /\ b < w /\ b \in Int /\ \A o \in C : o \in Int /\ o <= b
    BY <1>9, <1>10
  <2> HIDE DEF C, w, b
  <2>2. Covers(C, w, sections)
    BY <2>1, NothingOwed
  <2>3. {o \in C : o >= w} \subseteq {sections[i].occ : i \in DOMAIN sections}
    BY <1>3, <2>2, CoversAll
  <2> QED BY <1>1, <2>3 DEF C, w
<1>14. Witnessed(sections', tables')
  BY <1>1 DEF RecoveryInv
<1>15. Quiet'
  <2>1. ASSUME ~missed
        PROVE  owed' # Never
    <3>1. owed # Never
      BY <2>1 DEF RecoveryInv, Quiet
    <3> DEFINE b == begun'  w == owed'
    <3>2. w = b + 1
      BY <1>1, <3>1
    <3>3. b \in Int /\ -1 <= b
      BY <1>9
    <3> HIDE DEF b, w
    <3>4. w # Never
      BY <3>2, <3>3 DEF Never
    <3> QED BY <3>4 DEF w
  <2>2. garbage \in BOOLEAN /\ missed \in BOOLEAN /\ GarbageExplained
    BY DEF RecoveryInv, Quiet
  <2>3. garbage' = garbage /\ missed' = missed
    BY <1>1
  <2> QED BY <2>1, <2>2, <2>3, Zenon DEF Quiet, GarbageExplained
<1> QED BY <1>2, <1>7, <1>8, <1>11, <1>12, <1>13, <1>14, <1>15 DEF RecoveryInv

\* What goes on with z and o does so with y and p.
AtLeast(z, o, y, p) == \A b : AtByte(b, z, o) => AtByte(b, y, p)

\* The packetizer gives no packet, or the plugin changes it.
LEMMA StillRecovers ==
    ASSUME RecoveryInv, UNCHANGED <<demux, sections, tables, garbage, packet, gap>>,
           sections \in Seq(Sent), zer'.cc = zer.cc, completed' = completed, begun' \in Int, begun <= begun',
           zer.next = 0 => zer'.next = 0,
           missed' \in BOOLEAN, zer'.next > 0 => zer.next > 0 /\ zer'.section = zer.section /\ zer.section.occ \in Int,
           AtLeast(zer, owed, zer', owed'),
           \/ owed' = owed /\ forgot' = forgot /\ missed' = missed
           \/ owed' = Never /\ forgot' /\ missed'
    PROVE  RecoveryInv'
<1>1. InStep'
  BY DEF RecoveryInv, InStep
<1>2. owed' # Never => owed' = owed /\ forgot' = forgot
  OBVIOUS
<1>3. Joins'
  <2>1. packet # NullPacket
        => packet.data # <<>> /\ AtByte(packet.data[Len(packet.data)], zer', owed')
    BY DEF RecoveryInv, Joins, AtLeast
  <2>2. ASSUME owed' # Never, demux.sync, gap = 0 PROVE AtBuffer(demux.ts, zer', owed')
    <3>1. AtBuffer(demux.ts, zer, owed)
      BY <1>2, <2>2 DEF RecoveryInv, Joins
    <3> QED BY <3>1 DEF AtBuffer, AtLeast
  <2> QED BY <2>1, <2>2 DEF Joins
<1>4. begun \in Int /\ -1 <= begun /\ \A o \in completed : o \in Int /\ o <= begun
  BY DEF RecoveryInv, BegunInv
<1>5. BegunInv'
  <2>1. ASSUME NEW o \in completed' PROVE o \in Int /\ o <= begun'
    <3>1. o \in Int /\ o <= begun
      BY <1>4
    <3> QED BY <1>4, <3>1
  <2>2. zer'.next > 0 => zer'.section.occ <= begun'
    <3>1. zer'.next > 0 => zer.section.occ <= begun /\ zer.section.occ \in Int
      BY DEF RecoveryInv, BegunInv
    <3> QED BY <1>4, <3>1
  <2>3. -1 <= begun'
    BY <1>4
  <2> QED BY <2>1, <2>2, <2>3 DEF BegunInv
<1>6. OwedInv'
  <2>1. owed \in Int /\ owed <= begun + 1 /\ (owed = Never \/ 0 <= owed)
    BY DEF RecoveryInv, OwedInv
  <2>2. owed' \in Int /\ owed' <= begun' + 1 /\ (owed' = Never \/ 0 <= owed')
    <3>1. owed' = owed \/ owed' = Never
      OBVIOUS
    <3> DEFINE b == begun  c == begun'  o == owed  w == owed'
    <3>2. b \in Int /\ c \in Int /\ b <= c /\ -1 <= b /\ o \in Int /\ o <= b + 1
          /\ (o = Never \/ 0 <= o) /\ (w = o \/ w = Never)
      BY <1>4, <2>1, <3>1
    <3> HIDE DEF b, c, o, w
    <3>3. w \in Int /\ w <= c + 1 /\ (w = Never \/ 0 <= w)
      BY <3>2 DEF Never
    <3> QED BY <3>3 DEF c, w
  <2>3. owed' # Never /\ (~demux.sync \/ gap > 0) /\ zer'.next > 0 => zer'.section.occ < owed'
    BY <1>2 DEF RecoveryInv, OwedInv
  <2> QED BY <2>2, <2>3 DEF OwedInv
<1>7. Contextual'
  BY <1>2 DEF RecoveryInv, Contextual
<1>8. SectionsNotMissed'
  BY <1>2 DEF RecoveryInv, SectionsNotMissed
<1>9. Witnessed(sections', tables')
  BY DEF RecoveryInv
<1>10. Quiet'
  BY DEF RecoveryInv, Quiet, GarbageExplained
<1> QED BY <1>1, <1>3, <1>5, <1>6, <1>7, <1>8, <1>9, <1>10 DEF RecoveryInv

\* The position of the packetizer, which is in a section or between two.
LEMMA InSection ==
    ASSUME NEW V, NEW z, Good(z, V)
    PROVE  /\ z.next \in Nat /\ z.cc \in Nat
           /\ z.next > 0 => z.section \in Sent /\ z.section.occ \in Nat
           /\ z.section = NullSection => z.next = 0
<1>1. z.next \in Nat /\ z.cc \in Nat
  BY DEF Good, Exact, Object
<1>2. z.next > 0 => z.section \in Sent
  BY DEF Good, Placed, Old
<1>3. z.section = NullSection => z.next = 0
  <2>1. NullSection \notin Sent
    BY Sizes
  <2> QED BY <2>1 DEF Good, Placed, Old
<1> QED BY <1>1, <1>2, <1>3, SentSize

\* The packetizer is empty.
LEMMA EmptyRecovery ==
    ASSUME PacketizerInv, DeliveryInv, RecoveryInv, EmptyPacket
    PROVE  RecoveryInv'
<1> DEFINE p == GetNextPacket(zer)  X == {}
<1>1. /\ p.packet = NullPacket /\ Generated(packet, p) /\ zer' = p.z /\ packet' = packet
      /\ UNCHANGED <<demux, sections, tables, garbage, gap, owed, missed, forgot>>
  BY DEF EmptyPacket, Generated, outVars
<1>2. NextOK(p, zer, version, X)
  <2>1. AllPast(X, zer, version)
    BY DEF AllPast
  <2> HIDE DEF X
  <2> QED BY <2>1, NextPacketOK DEF PacketizerInv
<1> HIDE DEF p, X
<1>3. zer.section = NullSection /\ zer'.section = NullSection /\ zer'.cc = zer.cc /\ Good(p.z, version)
  BY <1>1, <1>2 DEF NextOK, NoPacket, NewPacket
<1>4. zer.next = 0 /\ zer'.next = 0
  <2>1. zer.next = 0
    BY <1>3, InSection DEF PacketizerInv
  <2> DEFINE y == p.z
  <2>2. Good(y, version) /\ y.section = NullSection
    BY <1>1, <1>3
  <2> HIDE DEF y
  <2>3. y.next = 0
    BY <2>2, InSection
  <2> QED BY <1>1, <2>1, <2>3 DEF y
<1>5. completed' = completed /\ begun' \in Int /\ begun <= begun'
  <2>1. Flow(packet.data, 0) /\ begun \in Int /\ EndedIn(packet.data) \subseteq completed
    BY DEF DeliveryInv, LinkTypes, PacketOK, Emitted, RecoveryInv, BegunInv
  <2>2. completed' = completed \cup EndedIn(packet.data) /\ begun' \in Int /\ begun <= begun'
    BY <1>1, <2>1, GeneratedHistory
  <2> QED BY <2>1, <2>2
<1>6. AtLeast(zer, owed, zer', owed')
  BY <1>1, <1>4 DEF AtByte, After, AtLeast
<1>7. sections \in Seq(Sent) /\ missed' \in BOOLEAN
  BY <1>1 DEF DeliveryInv, LinkTypes, RecoveryInv, Quiet
<1>8. ~(zer'.next > 0)
  BY <1>4
<1> QED BY <1>1, <1>3, <1>4, <1>5, <1>6, <1>7, <1>8, StillRecovers

\* A command of the plugin which leaves the current section alone.
LEMMA CommandRecovery ==
    ASSUME PacketizerInv, DeliveryInv, RecoveryInv, Kept(zer', version', zer, version),
           SameCurrent(zer', zer),
           UNCHANGED <<demux, sections, tables, garbage, packet, gap, begun, completed, owed, missed, forgot>>
    PROVE  RecoveryInv'
<1>1. zer'.cc = zer.cc /\ zer'.next = zer.next /\ zer'.section = zer.section
  BY DEF Kept, SameCurrent
<1>2. zer.next > 0 => zer.section.occ \in Int
  BY InSection DEF PacketizerInv
<1>3. AtLeast(zer, owed, zer', owed')
  BY <1>1 DEF AtByte, After, AtLeast
<1>4. sections \in Seq(Sent) /\ begun' \in Int /\ begun <= begun' /\ missed' \in BOOLEAN
  BY DEF DeliveryInv, LinkTypes, RecoveryInv, BegunInv, Quiet
<1> QED BY <1>1, <1>2, <1>3, <1>4, StillRecovers

\* reset() gives up the rest of the current section.
LEMMA ResetRecovery ==
    ASSUME PacketizerInv, DeliveryInv, RecoveryInv, NEW files, ResetPacketizer(files)
    PROVE  RecoveryInv'
<1> DEFINE late == zer.next > 0 /\ zer.section.size - zer.next > PayloadSize - 1
<1>1. /\ UNCHANGED <<demux, sections, tables, garbage, packet, gap, begun, completed>>
      /\ owed' = (IF late THEN Never ELSE owed)
      /\ missed' = (missed \/ late) /\ forgot' = (forgot \/ late)
  BY DEF ResetPacketizer
<1>2. zer'.cc = zer.cc /\ zer'.next = 0
  BY ResetKept DEF Kept
<1>3. zer.next \in Nat /\ (zer.next > 0 => zer.section \in Sent)
  BY InSection DEF PacketizerInv
<1>4. ASSUME NEW b, AtByte(b, zer, owed) PROVE AtByte(b, zer', owed')
  <2>1. CASE Closed(b)
    BY <1>2, <2>1 DEF AtByte, After
  <2>2. CASE ~Closed(b) /\ zer.next > 0
    <3>1. b.of = zer.section /\ b.at = zer.next
      BY <1>4, <2>2 DEF AtByte, After
    <3>2. zer.section.size \in Nat
      BY <1>3, <2>2, SentSize
    <3>3. owed' = Never \/ b.of.size - b.at <= PayloadSize - 1
      BY <1>1, <1>3, <2>2, <3>1, <3>2, Sizes
    <3> QED BY <1>2, <2>2, <3>3 DEF AtByte
  <2>3. CASE ~Closed(b) /\ zer.next = 0
    <3>1. owed = Never \/ b.of.size - b.at <= PayloadSize - 1
      BY <1>4, <2>3 DEF AtByte, After
    <3>2. owed = Never => owed' = Never
      BY <1>1
    <3> QED BY <1>2, <2>3, <3>1, <3>2 DEF AtByte
  <2> QED BY <1>3, <2>1, <2>2, <2>3
<1> HIDE DEF late
<1>5. forgot \in BOOLEAN /\ missed \in BOOLEAN /\ missed' \in BOOLEAN /\ sections \in Seq(Sent)
  BY <1>1 DEF DeliveryInv, LinkTypes, RecoveryInv, Quiet
<1>6. \/ owed' = owed /\ forgot' = forgot /\ missed' = missed
      \/ owed' = Never /\ forgot' /\ missed'
  <2>1. CASE late
    BY <1>1, <2>1
  <2>2. CASE ~late
    BY <1>1, <1>5, <2>2
  <2> QED BY <2>1, <2>2
<1>7. begun' \in Int /\ begun <= begun'
  BY <1>1 DEF RecoveryInv, BegunInv
<1>8. AtLeast(zer, owed, zer', owed')
  BY <1>4 DEF AtLeast
<1>9. ~(zer'.next > 0)
  BY <1>2
<1> QED BY <1>1, <1>2, <1>5, <1>6, <1>7, <1>8, <1>9, StillRecovers

\* More sections are delivered.
LEMMA CoversMore ==
    ASSUME NEW C, NEW w, NEW list \in Seq(Sent), NEW L \in Seq(Sent), Covers(C, w, list)
    PROVE  Covers(C, w, list \o L)
<1> DEFINE all == list \o L
<1>1. /\ Len(all) = Len(list) + Len(L) /\ Len(list) \in Nat /\ Len(L) \in Nat
      /\ \A i \in 1 .. Len(list) + Len(L) : all[i] = IF i <= Len(list) THEN list[i] ELSE L[i - Len(list)]
  BY ConcatProperties
<1> HIDE DEF all
<1>2. ASSUME NEW i \in 1 .. Len(list) PROVE i \in 1 .. Len(all) /\ all[i] = list[i]
  BY <1>1
<1>3. ASSUME NEW o \in C, o >= w PROVE \E i \in 1 .. Len(all) : all[i].occ = o
  <2>1. PICK i \in 1 .. Len(list) : list[i].occ = o
    BY <1>3 DEF Covers
  <2> QED BY <1>2, <2>1
<1> QED BY <1>3 DEF Covers, all

\* The sections and tables which were delivered are earlier than a new packet, and than one which is
\* repeated for a demux which knows nothing of it.
LEMMA NoneEarlier ==
    ASSUME NEW pkt, NEW ts
    PROVE  Earlier(<<>>, <<>>, pkt, ts)
BY DEF Earlier

\* The last packet comes again.
LEMMA RepeatRecovery ==
    ASSUME PacketizerInv, DeliveryInv, RecoveryInv, RepeatPacket
    PROVE  RecoveryInv'
<1> DEFINE no == FALSE  r == ProcessPacket(demux, packet, junk, no)
<1>1. /\ packet # NullPacket /\ gap = 0
      /\ demux' = r.d /\ sections' = sections \o r.sections /\ tables' = tables \o r.tables
      /\ garbage' = (garbage \/ r.garbage)
      /\ UNCHANGED <<zer, junk, missed, forgot, packet, begun, completed, gap, owed>>
  BY DEF RepeatPacket, Handled, inVars
<1>2. /\ Waiting(demux, junk) /\ PacketOK(packet) /\ sections \in Seq(Sent) /\ tables \in Seq(FullTable)
      /\ forgot \in BOOLEAN /\ (demux.sync => demux.cc = packet.cc)
  BY <1>1 DEF DeliveryInv, LinkTypes, Repeatable
<1>3. r = ProcessPacket(demux, packet, junk, FALSE)
  OBVIOUS
<1>4. CASE demux.sync
  <2>1. r = [d |-> demux, sections |-> <<>>, tables |-> <<>>, garbage |-> FALSE]
    BY <1>2, <1>4 DEF ProcessPacket, Duplicate
  <2> HIDE DEF r
  <2>2. demux' = demux /\ sections' = sections /\ tables' = tables /\ garbage' = garbage
    <3>1. sections \o <<>> = sections /\ tables \o <<>> = tables
      BY <1>2, ConcatEmptySeq
    <3>2. garbage \in BOOLEAN
      BY DEF RecoveryInv, Quiet
    <3> QED BY <1>1, <2>1, <3>1, <3>2
  <2>3. AtLeast(zer, owed, zer', owed')
    BY <1>1 DEF AtLeast
  <2>4. zer.next > 0 => zer.section.occ \in Int
    BY InSection DEF PacketizerInv
  <2>5. begun' \in Int /\ begun <= begun' /\ missed' \in BOOLEAN
    BY <1>1 DEF RecoveryInv, BegunInv, Quiet
  <2> QED BY <1>1, <1>2, <2>2, <2>3, <2>4, <2>5, StillRecovers
<1>5. CASE ~demux.sync
  <2>0. no \in BOOLEAN
    OBVIOUS
  <2> HIDE DEF no
  <2>1. /\ r.sections \in Seq(Sent) /\ r.tables \in Seq(FullTable)
        /\ (r.d.sync => r.d.cc = packet.cc)
    <3>1. Gives(r, demux, packet, junk, no)
      BY <1>2, <2>0, ProcessedSent
    <3> QED BY <3>1 DEF Gives
  <2>2. Witnessed(r.sections, r.tables)
    <3> DEFINE x == r
    <3>1. x = ProcessPacket(demux, packet, junk, no)
      OBVIOUS
    <3> HIDE DEF x
    <3>2. Witnessed(x.sections, x.tables)
      BY <1>2, <2>0, <3>1, ProcessedWitnessed
    <3> QED BY <3>2 DEF x
  <2> HIDE DEF r
  <2> DEFINE L == r.sections  M == r.tables
  <2>3. Witnessed(sections', tables')
    <3>1. L \in Seq(Sent) /\ M \in Seq(FullTable) /\ Witnessed(L, M) /\ Witnessed(sections, tables)
      BY <2>1, <2>2 DEF RecoveryInv
    <3> HIDE DEF L, M
    <3>2. Witnessed(sections \o L, tables \o M)
      BY <1>2, <3>1, WitnessedConcat
    <3> QED BY <1>1, <3>2 DEF L, M
  <2>4. packet.data # <<>> /\ AtByte(packet.data[Len(packet.data)], zer, owed)
    BY <1>1 DEF RecoveryInv, Joins
  <2> DEFINE resync == TRUE
  <2>5. resync \in BOOLEAN /\ Comes(packet, demux, resync)
    BY <1>5 DEF Comes
  <2> HIDE DEF resync
  <2>6. ASSUME owed # Never
        PROVE  Reads(r, packet, Skip(packet, resync))
    <3> DEFINE known == FALSE  S == <<>>  B == <<>>
    <3>1. known \in BOOLEAN /\ (known => Informed(demux.tids, S, B)) /\ Earlier(S, B, packet, demux.ts)
      BY NoneEarlier
    <3>2. AllSound(demux.tids)
      BY <2>6 DEF RecoveryInv, Contextual
    <3> HIDE DEF known, S, B
    <3>3. r = ProcessPacket(demux, packet, junk, FALSE)
      BY <1>3
    <3> QED BY <1>2, <2>4, <2>5, <3>1, <3>2, <3>3, PacketRead
  <2>7. ASSUME ~forgot
        PROVE  owed # Never /\ Informed(r.d.tids, sections', tables')
    <3> DEFINE known == TRUE
    <3>1. owed # Never /\ Informed(demux.tids, sections, tables) /\ AllSound(demux.tids)
      BY <2>7 DEF RecoveryInv, Contextual
    <3>2. known \in BOOLEAN /\ known /\ (known => Informed(demux.tids, sections, tables))
      BY <3>1
    <3> HIDE DEF known
    <3>3. Earlier(sections, tables, packet, demux.ts)
      <4>1. \A i \in 1 .. Len(sections) : Before(sections[i], packet.data)
        BY <1>1, <1>5, <2>7 DEF DeliveryInv, Repeatable
      <4>2. \A i \in 1 .. Len(sections) : Before(sections[i], demux.ts)
        BY DEF DeliveryInv, Delivery, WasSent
      <4> QED BY <1>2, <4>1, <4>2 DEF Earlier
    <3>4. r = ProcessPacket(demux, packet, junk, FALSE)
      BY <1>3
    <3>5. known => Informed(r.d.tids, sections \o r.sections, tables \o r.tables)
      BY <1>2, <2>4, <2>5, <3>1, <3>2, <3>3, <3>4, PacketRead
    <3> QED BY <1>1, <3>1, <3>2, <3>5
  <2>8. InStep'
    <3>1. packet.cc \in Counters /\ zer.cc = Ahead(packet.cc, 0) /\ zer.cc \in Counters
      BY <1>1 DEF RecoveryInv, InStep
    <3> QED BY <1>1, <2>1, <3>1 DEF InStep
  <2>9. Joins'
    <3>1. ASSUME owed # Never, r.d.sync PROVE AtBuffer(r.d.ts, zer, owed)
      <4> DEFINE t == r.d.ts  b == packet.data[Len(packet.data)]
      <4>1. IF t = <<>> THEN Closed(b) ELSE Partial(t) /\ t[Len(t)] = b
        BY <2>6, <3>1 DEF Reads
      <4>2. AtByte(b, zer, owed)
        BY <2>4
      <4> HIDE DEF t, b
      <4>3. AtBuffer(t, zer, owed)
        BY <4>1, <4>2 DEF AtBuffer, AtByte, After
      <4> QED BY <4>3 DEF t
    <3> QED BY <1>1, <2>4, <3>1 DEF Joins
  <2>10. BegunInv'
    BY <1>1 DEF RecoveryInv, BegunInv
  <2>11. OwedInv'
    BY <1>1, <1>5 DEF RecoveryInv, OwedInv
  <2>12. Contextual'
    <3>1. owed # Never => AllSound(r.d.tids)
      BY <2>6 DEF Reads
    <3> QED BY <1>1, <2>7, <3>1 DEF Contextual
  <2>13. SectionsNotMissed'
    <3> SUFFICES ASSUME owed # Never
                 PROVE  {o \in completed : o >= owed} \subseteq {sections'[i].occ : i \in DOMAIN sections'}
      BY <1>1 DEF SectionsNotMissed
    <3>1. Covers(completed, owed, sections)
      BY <1>2, CoversAll DEF RecoveryInv, SectionsNotMissed
    <3> DEFINE all == sections \o L
    <3>2. L \in Seq(Sent) /\ all \in Seq(Sent)
      BY <1>2, <2>1
    <3>3. Covers(completed, owed, all)
      <4> HIDE DEF L
      <4> QED BY <1>2, <3>1, <3>2, CoversMore
    <3> HIDE DEF all
    <3>4. {o \in completed : o >= owed} \subseteq {all[i].occ : i \in DOMAIN all}
      BY <3>2, <3>3, CoversAll
    <3> QED BY <1>1, <3>4 DEF all
  <2>14. Quiet'
    <3>1. ~r.garbage
      <4> DEFINE x == r
      <4>1. x = ProcessPacket(demux, packet, junk, no)
        BY DEF r
      <4> HIDE DEF x
      <4>2. ~x.garbage
        BY <1>2, <2>0, <2>4, <2>5, <4>1, PacketQuiet
      <4> QED BY <4>2 DEF x
    <3> QED BY <1>1, <3>1 DEF RecoveryInv, Quiet, GarbageExplained
  <2> QED BY <2>3, <2>8, <2>9, <2>10, <2>11, <2>12, <2>13, <2>14 DEF RecoveryInv
<1>6. demux.sync \in BOOLEAN
  BY <1>2 DEF Waiting, Demux
<1> QED BY <1>4, <1>5, <1>6

\* After a packet: the context d and the packetizer z, when the occurrences of C are owed from w on.
Settled(d, z, C, list, w) ==
    /\ AllSound(d.tids) /\ Covers(C, w, list)
    /\ ~d.sync /\ z.next > 0 => z.section.occ < w
    /\ d.sync => AtBuffer(d.ts, z, w)

\* A new packet goes on with the buffer, or it has another counter than the next one or the last.
LEMMA FeedComes ==
    ASSUME PacketizerInv, DeliveryInv, RecoveryInv, Sends
    PROVE  /\ owed # Never /\ demux.sync /\ gap = 0 => Comes(packet', demux, FALSE)
           /\ ~demux.sync \/ (gap > 0 /\ ~Unseen) => Comes(packet', demux, TRUE)
<1> DEFINE pkt == packet'  c == demux.cc
<1>1. gap \in Nat /\ demux \in Demux
  BY DEF DeliveryInv, LinkTypes, Waiting
<1>2. ASSUME demux.sync
      PROVE  /\ c \in Counters /\ pkt.cc = Ahead(c, gap) /\ (c + 1) % CC_MAX # c
             /\ Ahead(c, gap) = (c + 1) % CC_MAX <=> gap % CC_MAX = 0
             /\ Ahead(c, gap) = c <=> gap % CC_MAX = CC_MAX - 1
             /\ Ahead(c, 0) = (c + 1) % CC_MAX
  <2>1. c \in Counters /\ pkt.cc = Ahead(c, gap)
    BY <1>2 DEF RecoveryInv, InStep, Sends
  <2> HIDE DEF c
  <2> QED BY <1>1, <2>1, AheadOK
<1>3. ASSUME owed # Never, demux.sync, gap = 0 PROVE Comes(pkt, demux, FALSE)
  <2>1. pkt.cc = (c + 1) % CC_MAX /\ pkt.cc # c
    BY <1>2, <1>3
  <2> DEFINE ts == demux.ts
  <2>2. AtBuffer(ts, zer, owed)
    BY <1>3 DEF RecoveryInv, Joins
  <2>3. Carries(pkt, zer, zer')
    BY DEF Sends
  <2>4. ts \in Seq(Raw) /\ Len(ts) \in Nat
    BY <1>1 DEF Demux
  <2> HIDE DEF ts, pkt
  <2>5. ASSUME ts = <<>> PROVE GoesOn(ts, pkt)
    <3>1. pkt.data[1].at = 1
      BY <2>2, <2>3, <2>5 DEF AtBuffer, Carries
    <3> QED BY <2>5, <3>1 DEF GoesOn
  <2>6. ASSUME ts # <<>> PROVE GoesOn(ts, pkt)
    <3> DEFINE s == ts[1].of  b == ts[Len(ts)]  n == Len(ts)
    <3>1. Partial(ts) /\ AtByte(b, zer, owed)
      BY <2>2, <2>6 DEF AtBuffer
    <3>2. n < s.size /\ b = [of |-> s, at |-> n] /\ 1 <= n /\ s.size \in Nat
      <4>1. 1 <= n /\ n \in 1 .. Len(ts) /\ ts[1] \in Raw /\ 1 \in 1 .. Len(ts)
        BY <2>4, <2>6
      <4>2. n < s.size /\ b = [of |-> s, at |-> n] /\ ts[1] = [of |-> s, at |-> 1]
        BY <3>1, <4>1 DEF Partial
      <4>3. ts[1] # Stuffing
        <5>1. ts[1].at = 1
          BY <4>2
        <5> QED BY <5>1 DEF Stuffing
      <4>4. s.size \in Nat
        <5> DEFINE e == ts[1]
        <5>1. e \in Raw /\ e # Stuffing
          BY <4>1, <4>3
        <5> HIDE DEF e
        <5>2. e.of \in Sent
          BY <5>1, RawByte
        <5> QED BY <5>2, SentSize DEF e
      <4> QED BY <4>1, <4>2, <4>4
    <3> HIDE DEF s, b, n
    <3>3. ~Closed(b) /\ b.of = s /\ b.at = n
      <4>1. b.of = s /\ b.at = n
        BY <3>2
      <4>2. b # Stuffing /\ b.at # b.of.size
        BY <2>4, <3>2, <4>1 DEF Stuffing, n
      <4> QED BY <4>1, <4>2 DEF Closed
    <3>4. CASE zer.next > 0 /\ s = zer.section /\ n = zer.next
      <4>1. pkt.data[1] = [of |-> s, at |-> n + 1]
        BY <2>3, <3>4 DEF Carries
      <4> QED BY <2>6, <3>1, <4>1 DEF GoesOn, s, n
    <3>5. CASE zer.next = 0 /\ s.size - n <= PayloadSize - 1
      <4>1. pkt.pusi /\ pkt.pointer = 0 /\ PayloadSize - 1 <= Len(pkt.data)
        BY <2>3, <3>5 DEF Carries
      <4>2. Len(pkt.data) \in Nat
        BY DEF Sends, PacketOK, Flow, pkt
      <4> DEFINE m == Len(pkt.data)
      <4>3. m \in Nat /\ PayloadSize - 1 <= m /\ n \in Nat
        BY <2>4, <4>1, <4>2 DEF n
      <4> HIDE DEF m
      <4>4. s.size <= n + m
        BY <3>2, <3>5, <4>3, Sizes
      <4> QED BY <2>6, <3>1, <4>1, <4>4 DEF GoesOn, s, n, m
    <3>6. (zer.next > 0 /\ s = zer.section /\ n = zer.next)
          \/ (zer.next = 0 /\ s.size - n <= PayloadSize - 1)
      BY <1>3, <3>1, <3>3 DEF AtByte, After
    <3> QED BY <3>4, <3>5, <3>6
  <2>7. GoesOn(ts, pkt) => Comes(pkt, demux, FALSE)
    BY <1>3, <2>1 DEF Comes, ts
  <2>8. GoesOn(ts, pkt)
    BY <2>5, <2>6
  <2> QED BY <2>7, <2>8 DEF pkt
<1>4. ASSUME ~demux.sync \/ (gap > 0 /\ ~Unseen) PROVE Comes(pkt, demux, TRUE)
  <2>1. CASE ~demux.sync
    BY <2>1 DEF Comes
  <2>2. CASE demux.sync
    <3>1. gap % CC_MAX # 0 /\ gap % CC_MAX # CC_MAX - 1
      BY <1>4, <2>2 DEF Unseen
    <3>2. pkt.cc # (c + 1) % CC_MAX /\ pkt.cc # c
      BY <1>2, <2>2, <3>1
    <3> QED BY <3>2 DEF Comes
  <2>3. demux.sync \in BOOLEAN
    BY <1>1 DEF Demux
  <2> QED BY <2>1, <2>2, <2>3
<1> QED BY <1>3, <1>4

\* The result of a new packet, for a demux which saw all losses so far.
LEMMA FeedRead ==
    ASSUME PacketizerInv, DeliveryInv, RecoveryInv, Sends, Renewed, NEW resync \in BOOLEAN,
           Comes(packet', demux, resync), AllSound(demux.tids),
           NEW r, r = ProcessPacket(demux, packet', junk, FALSE),
           NEW w \in Int, resync /\ zer.next > 0 => zer.section.occ < w,
           Covers(completed, w, sections)
    PROVE  /\ Settled(r.d, zer', completed', sections \o r.sections, w)
           /\ ~forgot => Informed(r.d.tids, sections \o r.sections, tables \o r.tables)
<1> DEFINE pkt == packet'  y == zer'  C == completed'  no == FALSE
<1>1. /\ Waiting(demux, junk) /\ sections \in Seq(Sent) /\ tables \in Seq(FullTable) /\ forgot \in BOOLEAN
  BY DEF DeliveryInv, LinkTypes
<1>2. /\ PacketOK(pkt) /\ Carries(pkt, zer, y) /\ C = completed \cup EndedIn(pkt.data)
      /\ pkt.data # <<>> /\ Comes(pkt, demux, resync) /\ no \in BOOLEAN /\ ~no
      /\ r = ProcessPacket(demux, pkt, junk, no)
  <2>1. pkt.data # <<>>
    BY SendsJoins DEF RecoveryInv, InStep
  <2> QED BY <2>1 DEF Sends
<1>3. Earlier(sections, tables, pkt, demux.ts)
  <2>1. ASSUME NEW i \in 1 .. Len(sections)
        PROVE  Before(sections[i], pkt.data) /\ Before(sections[i], demux.ts)
    <3>1. WasSent(sections[i], zer, version, completed, demux.ts, packet.data)
      BY DEF DeliveryInv, Delivery
    <3> QED BY <3>1 DEF WasSent, Renewed
  <2> QED BY <1>1, <2>1 DEF Earlier
<1> HIDE DEF pkt, y, C, no
<1>4. r.sections \in Seq(Sent)
  <2> DEFINE x == ProcessPacket(demux, pkt, junk, no)
  <2>1. Gives(x, demux, pkt, junk, no)
    BY <1>1, <1>2, ProcessedSent
  <2> HIDE DEF x
  <2>2. x.sections \in Seq(Sent)
    BY <2>1 DEF Gives
  <2> QED BY <1>2, <2>2 DEF x
<1> DEFINE known == ~forgot
<1>5. known \in BOOLEAN /\ (known => Informed(demux.tids, sections, tables))
  BY <1>1 DEF RecoveryInv, Contextual
<1>6. r = ProcessPacket(demux, pkt, junk, FALSE)
  BY <1>2 DEF no
<1> HIDE DEF known
<1>7. Reads(r, pkt, Skip(pkt, resync))
  BY <1>1, <1>2, <1>3, <1>5, <1>6, PacketRead
<1>8. known => Informed(r.d.tids, sections \o r.sections, tables \o r.tables)
  BY <1>1, <1>2, <1>3, <1>5, <1>6, PacketRead
<1>9. zer.next \in Nat /\ zer.section.occ \in Int
  <2>1. zer.section \in Sect
    BY DEF PacketizerInv, Good, Exact, Object
  <2> QED BY <2>1, InSection DEF PacketizerInv, Sect
<1> DEFINE L == r.sections  all == sections \o L  D == completed \cup EndedIn(pkt.data)
<1>10. Covers(D, w, all)
  BY <1>1, <1>2, <1>4, <1>7, <1>9, ReadsOwed
<1>11. ~r.d.sync /\ y.next > 0 => y.section.occ < w
  BY <1>1, <1>2, <1>4, <1>7, <1>9, ReadsOwed
<1>12. r.d.sync => AtBuffer(r.d.ts, y, w)
  BY <1>1, <1>2, <1>4, <1>7, <1>9, ReadsOwed
<1>13. Covers(C, w, all)
  BY <1>2, <1>10
<1> HIDE DEF L, all, D
<1>14. Settled(r.d, y, C, all, w)
  BY <1>7, <1>11, <1>12, <1>13 DEF Reads, Settled
<1> QED BY <1>8, <1>14 DEF y, C, all, L, known

\* A context is poisoned, or all tables in it are sound; those of a new one are.
LEMMA SoundContexts ==
    /\ \A d : Poisoned(d) <=> ~AllSound(d.tids)
    /\ AllSound(PIDContext.tids)
<1>1. \A d : Poisoned(d) <=> ~AllSound(d.tids)
  BY DEF Poisoned, AllSound, Sound
<1>2. AllSound(PIDContext.tids)
  BY DEF AllSound, Sound, PIDContext, NoTable
<1> QED BY <1>1, <1>2

\* A packet reaches a demux: what is owed is delivered, or known not to be.
LEMMA FeedSettled ==
    ASSUME PacketizerInv, DeliveryInv, RecoveryInv, Sends, Renewed, BegunInv',
           zer'.section.occ \in Int, NEW h \in BOOLEAN, Delivered(GetNextPacket(zer),
                                     ProcessPacket(demux, packet', junk, h), h),
           NEW r, r = ProcessPacket(demux, packet', junk, h)
    PROVE  /\ owed' # Never => Settled(r.d, zer', completed', sections', owed')
           /\ ~forgot' => owed' # Never /\ Informed(r.d.tids, sections', tables')
           /\ ~missed' => owed' # Never
<1> DEFINE b == begun'  y == zer'  C == completed'  S == sections'  T == tables'  w == owed'  f == forgot'
<1>1. /\ h => r.sections # <<>> \/ r.garbage
      /\ missed' = (missed \/ (Unseen /\ demux.sync))
      /\ S = sections \o r.sections /\ T = tables \o r.tables
      /\ f = (forgot \/ h \/ (Unseen /\ demux.sync))
      /\ w = IF h THEN b + 1
             ELSE IF Poisoned(r.d) \/ (Unseen /\ demux.sync) THEN Never
             ELSE IF gap > 0 /\ ~Unseen /\ ~Poisoned(demux) THEN begun + 1
             ELSE IF owed = Never /\ ~r.d.sync THEN b + 1
             ELSE owed
  BY DEF Delivered, Handled
<1>2. /\ Waiting(demux, junk) /\ gap \in Nat /\ demux.sync \in BOOLEAN /\ PacketOK(packet')
      /\ forgot \in BOOLEAN /\ Unseen \in BOOLEAN
  BY DEF DeliveryInv, LinkTypes, Waiting, Demux, Renewed, Unseen
<1>3. /\ b \in Int /\ -1 <= b /\ (y.next > 0 => y.section.occ <= b) /\ y.section.occ \in Int
      /\ (\A o \in C : o \in Int /\ o <= b)
  BY DEF BegunInv
<1>4. /\ begun \in Int /\ -1 <= begun /\ (zer.next > 0 => zer.section.occ <= begun)
      /\ (\A o \in completed : o \in Int /\ o <= begun) /\ owed \in Int
      /\ (owed # Never /\ ~demux.sync /\ zer.next > 0 => zer.section.occ < owed)
      /\ (owed # Never => AllSound(demux.tids) /\ Covers(completed, owed, sections))
      /\ (~forgot => owed # Never) /\ (~missed => owed # Never) /\ zer.section.occ \in Int
  <2>1. sections \in Seq(Sent)
    BY DEF DeliveryInv, LinkTypes
  <2>2. owed # Never => Covers(completed, owed, sections)
    BY <2>1, CoversAll DEF RecoveryInv, SectionsNotMissed
  <2>3. zer.section.occ \in Int
    <3>1. zer.section \in Sect
      BY DEF PacketizerInv, Good, Exact, Object
    <3> QED BY <3>1 DEF Sect
  <2> QED BY <2>2, <2>3 DEF RecoveryInv, BegunInv, OwedInv, Contextual, Quiet
<1> HIDE DEF b, y, C, S, T, w, f
<1>5. ASSUME AllSound(r.d.tids), ~r.d.sync PROVE Settled(r.d, y, C, S, b + 1)
  <2> DEFINE v == b + 1
  <2>1. v \in Int /\ b < v /\ (y.next > 0 => y.section.occ < v)
    BY <1>3
  <2> HIDE DEF v
  <2>2. Covers(C, v, S)
    BY <1>3, <2>1, NothingOwed
  <2>3. Settled(r.d, y, C, S, v)
    BY <1>5, <2>1, <2>2 DEF Settled
  <2> QED BY <2>3 DEF v
<1>6. CASE h
  <2>1. ~r.d.sync /\ AllSound(r.d.tids)
    <3> DEFINE q == packet'
    <3>1. r = ProcessPacket(demux, q, junk, h) /\ PacketOK(q)
      BY <1>2
    <3> HIDE DEF q
    <3>2. h /\ (r.sections # <<>> \/ r.garbage) => ~r.d.sync /\ r.d.tids = PIDContext.tids
      BY <1>2, <3>1, ProcessedWitnessed
    <3> QED BY <1>1, <1>6, <3>2, SoundContexts
  <2>2. w = b + 1 /\ f /\ w # Never
    <3>1. w = b + 1
      BY <1>1, <1>6
    <3>2. f
      BY <1>1, <1>6, Zenon
    <3> QED BY <1>3, <3>1, <3>2 DEF Never
  <2>3. Settled(r.d, y, C, S, w)
    BY <1>5, <2>1, <2>2
  <2> QED BY <2>2, <2>3 DEF y, C, S, T, w, f
<1>7. CASE ~h
  <2>1. ASSUME NEW resync \in BOOLEAN, Comes(packet', demux, resync), AllSound(demux.tids),
               NEW v \in Int, resync /\ zer.next > 0 => zer.section.occ < v, Covers(completed, v, sections)
        PROVE  Settled(r.d, y, C, S, v) /\ (~forgot => Informed(r.d.tids, S, T))
    <3>1. r = ProcessPacket(demux, packet', junk, FALSE)
      BY <1>7
    <3>2. /\ Settled(r.d, zer', completed', sections \o r.sections, v)
          /\ ~forgot => Informed(r.d.tids, sections \o r.sections, tables \o r.tables)
      BY <2>1, <3>1, FeedRead
    <3> QED BY <1>1, <3>2 DEF y, C
  <2>2. ASSUME gap > 0, ~Unseen, AllSound(demux.tids)
        PROVE  Settled(r.d, y, C, S, begun + 1) /\ (~forgot => Informed(r.d.tids, S, T))
    <3> DEFINE v == begun + 1  resync == TRUE
    <3>1. v \in Int /\ begun < v /\ (resync /\ zer.next > 0 => zer.section.occ < v) /\ resync \in BOOLEAN
      BY <1>4
    <3>2. Comes(packet', demux, resync)
      BY <2>2, FeedComes
    <3> HIDE DEF v, resync
    <3>3. Covers(completed, v, sections)
      BY <1>4, <3>1, NothingOwed
    <3>4. Settled(r.d, y, C, S, v) /\ (~forgot => Informed(r.d.tids, S, T))
      BY <2>1, <2>2, <3>1, <3>2, <3>3
    <3> QED BY <3>4 DEF v
  <2>3. ASSUME owed # Never, ~(gap > 0 /\ ~Unseen), ~(Unseen /\ demux.sync)
        PROVE  Settled(r.d, y, C, S, owed) /\ (~forgot => Informed(r.d.tids, S, T))
    <3>1. CASE demux.sync
      <4> DEFINE resync == FALSE
      <4>1. gap = 0
        BY <1>2, <2>3, <3>1
      <4>2. Comes(packet', demux, resync) /\ resync \in BOOLEAN /\ ~resync
        BY <2>3, <3>1, <4>1, FeedComes
      <4> HIDE DEF resync
      <4> QED BY <1>4, <2>1, <2>3, <4>2
    <3>2. CASE ~demux.sync
      <4> DEFINE resync == TRUE
      <4>1. Comes(packet', demux, resync) /\ resync \in BOOLEAN
        BY <3>2, FeedComes
      <4>2. resync /\ zer.next > 0 => zer.section.occ < owed
        BY <1>4, <2>3, <3>2
      <4> HIDE DEF resync
      <4> QED BY <1>4, <2>1, <2>3, <4>1, <4>2
    <3> QED BY <1>2, <3>1, <3>2
  <2>4. Poisoned(demux) <=> ~AllSound(demux.tids)
    BY SoundContexts
  <2>5. Poisoned(r.d) <=> ~AllSound(r.d.tids)
    BY SoundContexts
  <2>6. ASSUME NEW v, Settled(r.d, y, C, S, v) PROVE AllSound(r.d.tids)
    BY <2>6 DEF Settled
  <2>7. begun + 1 # Never /\ b + 1 # Never
    BY <1>3, <1>4 DEF Never
  <2>8. ASSUME w # Never PROVE Settled(r.d, y, C, S, w)
    <3>1. ~Poisoned(r.d) /\ ~(Unseen /\ demux.sync)
      BY <1>1, <1>7, <2>8
    <3>2. CASE gap > 0 /\ ~Unseen /\ ~Poisoned(demux)
      <4>1. w = begun + 1
        BY <1>1, <1>7, <3>1, <3>2
      <4> QED BY <2>2, <2>4, <3>2, <4>1
    <3>3. CASE ~(gap > 0 /\ ~Unseen /\ ~Poisoned(demux)) /\ owed = Never
      <4>1. ~r.d.sync /\ w = b + 1
        BY <1>1, <1>7, <2>8, <3>1, <3>3
      <4> QED BY <1>5, <2>5, <3>1, <4>1
    <3>4. CASE ~(gap > 0 /\ ~Unseen /\ ~Poisoned(demux)) /\ owed # Never
      <4>1. w = owed
        BY <1>1, <1>7, <3>1, <3>4
      <4>2. ~(gap > 0 /\ ~Unseen)
        BY <1>4, <2>4, <3>4
      <4> QED BY <2>3, <3>1, <3>4, <4>1, <4>2
    <3> QED BY <3>2, <3>3, <3>4
  <2>9. ASSUME owed # Never, ~(Unseen /\ demux.sync)
        PROVE  w # Never /\ (~forgot => Informed(r.d.tids, S, T))
    <3>1. AllSound(demux.tids) /\ ~Poisoned(demux)
      BY <1>4, <2>4, <2>9
    <3>2. CASE gap > 0 /\ ~Unseen
      <4>1. AllSound(r.d.tids) /\ (~forgot => Informed(r.d.tids, S, T))
        BY <2>2, <2>6, <3>1, <3>2
      <4>2. w = begun + 1
        BY <1>1, <1>7, <2>5, <2>9, <3>1, <3>2, <4>1
      <4> QED BY <2>7, <4>1, <4>2
    <3>3. CASE ~(gap > 0 /\ ~Unseen)
      <4>1. AllSound(r.d.tids) /\ (~forgot => Informed(r.d.tids, S, T))
        BY <2>3, <2>6, <2>9, <3>3
      <4>2. w = owed
        BY <1>1, <1>7, <2>5, <2>9, <3>1, <3>3, <4>1
      <4> QED BY <2>9, <4>1, <4>2
    <3> QED BY <3>2, <3>3
  <2>10. ~f => w # Never /\ Informed(r.d.tids, S, T)
    BY <1>1, <1>4, <2>9
  <2>11. ~missed' => w # Never
    BY <1>1, <1>4, <2>9
  <2> QED BY <2>8, <2>10, <2>11 DEF w, f, y, C, S, T
<1> QED BY <1>6, <1>7

\* A packet reaches the demux.
LEMMA FeedRecovery ==
    ASSUME PacketizerInv, DeliveryInv, RecoveryInv, NEW h \in BOOLEAN, FeedPacket(h)
    PROVE  RecoveryInv'
<1> DEFINE q == packet'  r == ProcessPacket(demux, q, junk, h)
<1>1. /\ GetNextPacket(zer).packet # NullPacket
      /\ Generated(GetNextPacket(zer).packet, GetNextPacket(zer))
      /\ q = GetNextPacket(zer).packet
  BY DEF FeedPacket, Delivered, Generated
<1>2. Delivered(GetNextPacket(zer), ProcessPacket(demux, packet', junk, h), h)
  BY <1>1 DEF FeedPacket
<1>3. /\ demux' = r.d /\ sections' = sections \o r.sections /\ tables' = tables \o r.tables
      /\ garbage' = (garbage \/ r.garbage) /\ missed' = (missed \/ (Unseen /\ demux.sync))
      /\ gap' = 0 /\ (owed' = begun' + 1 \/ owed' = begun + 1 \/ owed' = owed \/ owed' = Never)
  BY <1>2 DEF Delivered, Handled
<1>4. Sends /\ BegunInv' /\ Renewed
  BY <1>1, SendsPacket, NewPacketKept DEF RecoveryInv
<1>5. zer'.section.occ \in Int
  <2>1. PacketizerInv'
    BY <1>1, GeneratedKept
  <2>2. zer'.section \in Sect
    BY <2>1 DEF PacketizerInv, Good, Exact, Object
  <2> QED BY <2>2 DEF Sect
<1>6. Waiting(demux, junk) /\ PacketOK(q) /\ sections \in Seq(Sent) /\ tables \in Seq(FullTable)
  BY <1>4 DEF DeliveryInv, LinkTypes, Sends
<1>7. /\ owed' # Never => Settled(r.d, zer', completed', sections', owed')
      /\ ~forgot' => owed' # Never /\ Informed(r.d.tids, sections', tables')
      /\ ~missed' => owed' # Never
  <2> DEFINE x == r
  <2>1. x = ProcessPacket(demux, packet', junk, h)
    OBVIOUS
  <2> HIDE DEF x
  <2>2. /\ owed' # Never => Settled(x.d, zer', completed', sections', owed')
        /\ ~forgot' => owed' # Never /\ Informed(x.d.tids, sections', tables')
        /\ ~missed' => owed' # Never
    BY <1>2, <1>4, <1>5, <2>1, FeedSettled
  <2> QED BY <2>2 DEF x
<1>8. /\ r.sections \in Seq(Sent) /\ r.tables \in Seq(FullTable) /\ (r.d.sync => r.d.cc = q.cc)
      /\ Witnessed(r.sections, r.tables)
  <2> DEFINE x == r
  <2>1. x = ProcessPacket(demux, q, junk, h)
    OBVIOUS
  <2> HIDE DEF q
  <2>2. Gives(ProcessPacket(demux, q, junk, h), demux, q, junk, h)
    BY <1>6, ProcessedSent
  <2> HIDE DEF x
  <2>3. Gives(x, demux, q, junk, h) /\ Witnessed(x.sections, x.tables)
    BY <1>6, <2>1, <2>2, ProcessedWitnessed
  <2>4. /\ x.sections \in Seq(Sent) /\ x.tables \in Seq(FullTable) /\ (x.d.sync => x.d.cc = q.cc)
        /\ Witnessed(x.sections, x.tables)
    BY <2>3 DEF Gives
  <2> QED BY <2>4 DEF x
<1>q. Quiet'
  <2>1. garbage \in BOOLEAN /\ missed \in BOOLEAN /\ (garbage => missed) /\ (~missed => owed # Never)
    BY DEF RecoveryInv, Quiet, GarbageExplained
  <2>2. Unseen \in BOOLEAN /\ demux.sync \in BOOLEAN /\ gap \in Nat /\ q.data # <<>>
    BY <1>4, SendsJoins DEF Unseen, RecoveryInv, InStep, DeliveryInv, LinkTypes, Waiting, Demux
  <2>3. ASSUME ~missed, ~(Unseen /\ demux.sync) PROVE ~r.garbage
    <3>1. PICK resync \in BOOLEAN : Comes(q, demux, resync)
      <4>1. CASE ~demux.sync \/ (gap > 0 /\ ~Unseen)
        <5>1. Comes(q, demux, TRUE)
          BY <1>4, <4>1, FeedComes
        <5> QED BY <5>1
      <4>2. CASE ~(~demux.sync \/ (gap > 0 /\ ~Unseen))
        <5>1. demux.sync /\ gap = 0 /\ owed # Never
          BY <2>1, <2>2, <2>3, <4>2
        <5>2. Comes(q, demux, FALSE)
          BY <1>4, <5>1, FeedComes
        <5> QED BY <5>2
      <4> QED BY <4>1, <4>2
    <3> DEFINE x == r
    <3>2. x = ProcessPacket(demux, q, junk, h)
      OBVIOUS
    <3> HIDE DEF x, q
    <3>3. ~x.garbage
      BY <1>6, <2>2, <3>1, <3>2, PacketQuiet
    <3> QED BY <3>3 DEF x
  <2> DEFINE g == r.garbage
  <2>4. g \in BOOLEAN
    <3> DEFINE x == r
    <3>1. x = ProcessPacket(demux, q, junk, h)
      OBVIOUS
    <3> HIDE DEF x, q
    <3>2. x.garbage \in BOOLEAN
      BY <1>6, <3>1, GarbageTyped
    <3> QED BY <3>2 DEF x
  <2>5. garbage' = (garbage \/ g) /\ (~missed /\ ~(Unseen /\ demux.sync) => ~g)
    BY <1>3, <2>3
  <2> HIDE DEF g, r, q
  <2>6. garbage' \in BOOLEAN /\ missed' \in BOOLEAN /\ (garbage' => missed')
    BY <1>3, <2>1, <2>2, <2>4, <2>5
  <2> QED BY <1>7, <2>6 DEF Quiet, GarbageExplained
<1> HIDE DEF r
<1> DEFINE L == r.sections  M == r.tables
<1>9. Witnessed(sections', tables') /\ sections' \in Seq(Sent)
  <2>1. L \in Seq(Sent) /\ M \in Seq(FullTable) /\ Witnessed(L, M) /\ Witnessed(sections, tables)
    BY <1>8 DEF RecoveryInv
  <2> HIDE DEF L, M
  <2>2. Witnessed(sections \o L, tables \o M) /\ sections \o L \in Seq(Sent)
    BY <1>6, <2>1, WitnessedConcat
  <2> QED BY <1>3, <2>2 DEF L, M
<1>10. /\ zer'.cc \in Counters /\ q.cc \in Counters /\ zer'.cc = Ahead(q.cc, 0)
       /\ q.data # <<>> /\ AtByte(q.data[Len(q.data)], zer', owed')
  BY <1>4, SendsJoins DEF RecoveryInv, InStep
<1>11. InStep'
  BY <1>3, <1>8, <1>10 DEF InStep
<1>12. Joins'
  <2>1. owed' # Never /\ r.d.sync => AtBuffer(r.d.ts, zer', owed')
    BY <1>7 DEF Settled
  <2> QED BY <1>3, <1>10, <2>1 DEF Joins
<1>13. OwedInv'
  <2> DEFINE b == begun'  w == owed'
  <2>1. b \in Int /\ begun \in Int /\ begun <= b /\ -1 <= begun /\ w \in {b + 1, begun + 1, owed, Never}
        /\ owed \in Int /\ owed <= begun + 1 /\ (owed = Never \/ 0 <= owed)
    BY <1>3, <1>4 DEF RecoveryInv, BegunInv, OwedInv, Sends
  <2> HIDE DEF b, w
  <2>2. w \in Int /\ w <= b + 1 /\ (w = Never \/ 0 <= w)
    BY <2>1 DEF Never
  <2>3. owed' # Never /\ (~demux'.sync \/ gap' > 0) /\ zer'.next > 0 => zer'.section.occ < owed'
    BY <1>3, <1>7 DEF Settled
  <2> QED BY <2>2, <2>3 DEF OwedInv, b, w
<1>14. Contextual'
  BY <1>3, <1>7 DEF Contextual, Settled
<1>15. SectionsNotMissed'
  <2> SUFFICES ASSUME owed' # Never
               PROVE  {o \in completed' : o >= owed'} \subseteq {sections'[i].occ : i \in DOMAIN sections'}
    BY DEF SectionsNotMissed
  <2> DEFINE C == completed'  w == owed'  S == sections'
  <2>1. Covers(C, w, S) /\ S \in Seq(Sent)
    BY <1>7, <1>9 DEF Settled
  <2> HIDE DEF C, w, S
  <2>2. {o \in C : o >= w} \subseteq {S[i].occ : i \in DOMAIN S}
    BY <2>1, CoversAll
  <2> QED BY <2>2 DEF C, w, S
<1> QED BY <1>4, <1>q, <1>9, <1>11, <1>12, <1>13, <1>14, <1>15 DEF RecoveryInv

\* The first state.
LEMMA InitRecovery ==
    ASSUME Init
    PROVE  RecoveryInv
<1>1. /\ demux = PIDContext /\ packet = NullPacket /\ sections = <<>> /\ tables = <<>>
      /\ begun = NoOcc /\ completed = {} /\ owed = 0 /\ gap = 0 /\ forgot = FALSE
      /\ garbage = FALSE /\ missed = FALSE
  BY DEF Init
<1>2. zer.cc = 0 /\ zer.next = 0
  BY InitPacketizer, InSection DEF PacketizerInv
<1>3. InStep
  <2>1. 0 \in Counters
    BY CCAssumption DEF Counters
  <2> QED BY <1>1, <1>2, <2>1 DEF InStep, PIDContext
<1>4. Joins
  BY <1>1 DEF Joins, PIDContext
<1>5. BegunInv
  BY <1>1, <1>2 DEF BegunInv, NoOcc
<1>6. OwedInv
  BY <1>1, <1>2 DEF OwedInv, NoOcc, Never
<1>7. AllSound(demux.tids)
  BY <1>1, SoundContexts
<1>8. Informed(demux.tids, sections, tables)
  BY <1>1 DEF Informed, Increasing, TableKnown, Elements, Told, PIDContext, NoTable
<1>9. Contextual
  BY <1>1, <1>7, <1>8 DEF Contextual, Never
<1>10. Witnessed(sections, tables)
  BY <1>1 DEF Witnessed
<1>11. SectionsNotMissed
  BY <1>1 DEF SectionsNotMissed
<1>12. Quiet
  <2>1. owed # Never
    BY <1>1 DEF Never
  <2>2. garbage \in BOOLEAN /\ missed \in BOOLEAN /\ ~garbage
    BY <1>1
  <2> QED BY <2>1, <2>2, Zenon DEF Quiet, GarbageExplained
<1> QED BY <1>3, <1>4, <1>5, <1>6, <1>9, <1>10, <1>11, <1>12 DEF RecoveryInv

\* Nothing changes.
LEMMA UnchangedRecovery ==
    ASSUME PacketizerInv, RecoveryInv, UNCHANGED vars
    PROVE  RecoveryInv'
<1>1. UNCHANGED <<zer, demux, sections, tables, garbage, missed, forgot, packet, begun, completed, gap, owed>>
  BY DEF vars, inVars, outVars, linkVars
<1>2. InStep' /\ Joins' /\ BegunInv'
  BY <1>1 DEF RecoveryInv, InStep, Joins, BegunInv
<1>3. OwedInv' /\ Contextual' /\ Quiet' /\ SectionsNotMissed'
  BY <1>1 DEF RecoveryInv, OwedInv, Contextual, Quiet, GarbageExplained, SectionsNotMissed
<1>4. Witnessed(sections', tables')
  BY <1>1 DEF RecoveryInv
<1> QED BY <1>2, <1>3, <1>4 DEF RecoveryInv

\* Each step.
LEMMA NextRecovery ==
    ASSUME PacketizerInv, DeliveryInv, RecoveryInv, [Next]_vars
    PROVE  RecoveryInv'
<1>1. ASSUME NEW t \in TIDs, NewTable(t) PROVE RecoveryInv'
  <2>1. UNCHANGED <<demux, sections, tables, garbage, packet, gap, begun, completed, owed, missed, forgot>>
    BY <1>1 DEF NewTable, outVars, linkVars
  <2> QED BY <1>1, <2>1, NewTableKept, CommandRecovery
<1>2. ASSUME NEW b \in Bitrates, ChangeBitRate(b) PROVE RecoveryInv'
  <2>1. UNCHANGED <<demux, sections, tables, garbage, packet, gap, begun, completed, owed, missed, forgot>>
    BY <1>2 DEF ChangeBitRate, outVars, linkVars
  <2> QED BY <1>2, <2>1, ChangeBitRateKept, CommandRecovery
<1>3. ASSUME NEW t \in TIDs, ReplaceTables(t) PROVE RecoveryInv'
  <2>1. UNCHANGED <<demux, sections, tables, garbage, packet, gap, begun, completed, owed, missed, forgot>>
    BY <1>3 DEF ReplaceTables, outVars, linkVars
  <2> QED BY <1>3, <2>1, ReplaceTablesKept, CommandRecovery
<1>4. ASSUME NEW files \in SUBSET TIDs, ResetPacketizer(files) PROVE RecoveryInv'
  BY <1>4, ResetRecovery
<1>5. ASSUME EmptyPacket PROVE RecoveryInv'
  BY <1>5, EmptyRecovery
<1>6. ASSUME NEW s \in BOOLEAN, LosePacket(s) PROVE RecoveryInv'
  BY <1>6, LoseRecovery
<1>7. ASSUME NEW h \in BOOLEAN, FeedPacket(h) PROVE RecoveryInv'
  BY <1>7, FeedRecovery
<1>8. ASSUME RepeatPacket PROVE RecoveryInv'
  BY <1>8, RepeatRecovery
<1>9. CASE UNCHANGED vars
  BY <1>9, UnchangedRecovery
<1> QED BY <1>1, <1>2, <1>3, <1>4, <1>5, <1>6, <1>7, <1>8, <1>9 DEF Next

\* The invariant of the demux and of what it must find.
LEMMA Recovers == Spec => [](DeliveryInv /\ RecoveryInv)
<1>1. Init => DeliveryInv /\ RecoveryInv
  BY InitDelivery, InitRecovery
<1>2. PacketizerInv /\ DeliveryInv /\ RecoveryInv /\ [Next]_vars => (DeliveryInv /\ RecoveryInv)'
  BY NextDelivery, NextRecovery
<1> QED BY <1>1, <1>2, PacketizerTyped, PTL DEF Spec

\* The section handler gets only sections which were completely sent, in the order in which they
\* were sent, and each of them once, whatever happens on the way; but those of one packet which is
\* repeated after a reset of the demux.  It gets nothing else but garbage without CRC, and this
\* only after bytes which the demux did not see missing: of sections with a CRC, nothing else.
THEOREM SectionOrder == Spec => []SectionsInOrder
<1>1. DeliveryInv /\ RecoveryInv => SectionsInOrder
  <2> SUFFICES ASSUME DeliveryInv, RecoveryInv PROVE SectionsInOrder
    OBVIOUS
  <2>1. sections \in Seq(Sent) /\ DOMAIN sections = 1 .. Len(sections)
    BY DEF DeliveryInv, LinkTypes
  <2>2. \A i \in DOMAIN sections : sections[i].occ \in completed
    BY <2>1 DEF DeliveryInv, Delivery, WasSent
  <2>3. IsSorted(sections, LAMBDA a, b : a.occ < b.occ \/ (forgot /\ InOnePacket(a, b)))
    BY DEF DeliveryInv, InOrder, IsSorted, Prior
  <2>4. GarbageExplained
    BY DEF RecoveryInv, Quiet
  <2> QED BY <2>2, <2>3, <2>4 DEF SectionsInOrder
<1> QED BY <1>1, Recovers, PTL

\* The section handler gets all sections which the demux must find: it synchronizes again after a
\* loss, on the first section which starts after it, and misses none from there on.
THEOREM NoSectionMissed == Spec => []SectionsNotMissed
<1>1. RecoveryInv => SectionsNotMissed
  BY DEF RecoveryInv
<1> QED BY <1>1, Recovers, PTL

\* Tables which are delivered with sections which are in order.
LEMMA TablesInOrder ==
    ASSUME NEW S \in Seq(Sent), NEW T \in Seq(FullTable), NEW f, Witnessed(S, T), InOrder(S, f),
           NEW i \in 1 .. Len(T), NEW j \in 1 .. Len(T), i < j, T[i][1].tid = T[j][1].tid
    PROVE  \/ T[i][1].ver < T[j][1].ver \/ T[i][1].ver = T[j][1].ver
           \/ \E a \in ToSet(T[i]), b \in ToSet(T[j]) : InOnePacket(a, b)
<1> DEFINE X == T[i]  Y == T[j]
<1>1. PICK p \in 1 .. Len(S), q \in 1 .. Len(S) : p < q /\ Has(X, S[p]) /\ Has(Y, S[q])
  BY DEF Witnessed
<1>2. X \in FullTable /\ Y \in FullTable /\ X[1].tid = Y[1].tid
  OBVIOUS
<1> DEFINE a == S[p]  b == S[q]
<1>3. a \in Sent /\ b \in Sent /\ Has(X, a) /\ Has(Y, b) /\ (Prior(a, b) \/ InOnePacket(a, b))
  BY <1>1 DEF InOrder
<1> HIDE DEF X, Y, a, b
<1>4. a.tid = X[1].tid /\ a.ver = X[1].ver /\ a \in ToSet(X)
  BY <1>2, <1>3, SMTT(30) DEF Has, FullTable, Complete, ToSet
<1>5. b.tid = Y[1].tid /\ b.ver = Y[1].ver /\ b \in ToSet(Y)
  BY <1>2, <1>3, SMTT(30) DEF Has, FullTable, Complete, ToSet
<1>6. a.ver \in Nat /\ b.ver \in Nat
  BY <1>3, SentSize
<1>7. CASE Prior(a, b)
  <2>1. a.ver <= b.ver
    BY <1>2, <1>4, <1>5, <1>7 DEF Prior
  <2>2. a.ver < b.ver \/ a.ver = b.ver
    BY <1>6, <2>1
  <2> QED BY <1>4, <1>5, <2>2 DEF X, Y
<1>8. CASE InOnePacket(a, b)
  BY <1>4, <1>5, <1>8 DEF X, Y
<1> QED BY <1>3, <1>7, <1>8

\* A version of which all sections were delivered is told, when the contexts are up to date.
LEMMA AllGotTold ==
    ASSUME NEW t \in TIDs, NEW c, NEW G \in SUBSET Sent, NEW N, TableKnown(t, c, G, N),
           NEW v \in DOMAIN TableSizes[t], AllGot(t, v, G)
    PROVE  <<t, v>> \in N
<1> DEFINE sizes == TableSizes[t]
<1>1. sizes \in Seq(Seq(MinSection .. MaxSection) \ {<<>>}) /\ v \in DOMAIN sizes
  BY StreamAssumption
<1>2. Len(sizes[v]) \in Nat /\ 1 <= Len(sizes[v]) /\ v \in Nat
  <2>1. sizes[v] \in Seq(MinSection .. MaxSection) /\ sizes[v] # <<>> /\ v \in Nat
    BY <1>1
  <2> HIDE DEF sizes
  <2> QED BY <2>1
<1>3. PICK g \in G : g.tid = t /\ g.ver = v
  <2>1. 1 \in 1 .. Len(sizes[v])
    BY <1>2
  <2> QED BY <2>1 DEF AllGot
<1>4. c.sects # <<>> /\ c.version \in DOMAIN sizes /\ Len(c.sects) = Len(sizes[c.version])
      /\ UpToVersion(t, c.version, c, G, N)
  BY <1>3 DEF TableKnown
<1>5. v <= c.version /\ c.version \in Nat
  BY <1>1, <1>3, <1>4 DEF UpToVersion
<1>6. CASE v < c.version
  BY <1>4, <1>6 DEF UpToVersion
<1>7. CASE v = c.version
  <2>1. ASSUME NEW n \in 1 .. Len(c.sects) PROVE c.sects[n] # NullSection
    <3>1. PICK x \in G : x.tid = t /\ x.ver = v /\ x.num + 1 = n
      BY <1>4, <1>7, <2>1 DEF AllGot
    <3>2. c.sects[x.num + 1] # NullSection
      BY <1>4, <1>7, <3>1 DEF UpToVersion
    <3> QED BY <3>1, <3>2
  <2>2. c.notified
    BY <1>4, <2>1 DEF UpToVersion
  <2> QED BY <1>4, <1>7, <2>2 DEF UpToVersion
<1> QED BY <1>2, <1>5, <1>6, <1>7

\* All sections of a version are in the list.
LEMMA AllInList ==
    ASSUME NEW S \in Seq(Sent), NEW t \in TIDs, NEW v \in DOMAIN TableSizes[t],
           ToSet(TableSections(t, v)) \subseteq ToSet(TableOf(S))
    PROVE  AllGot(t, v, Elements(S))
<1> SUFFICES ASSUME NEW n \in 1 .. Len(TableSizes[t][v])
             PROVE  \E g \in Elements(S) : g.tid = t /\ g.ver = v /\ g.num + 1 = n
  BY DEF AllGot
<1> DEFINE s == TableSections(t, v)[n]
<1>1. /\ s = [tid |-> t, ver |-> v, num |-> n - 1, last |-> Len(TableSizes[t][v]) - 1,
              size |-> TableSizes[t][v][n], occ |-> NoOcc]
      /\ s \in ToSet(TableSections(t, v))
  <2>1. TableSizes[t] \in Seq(Seq(MinSection .. MaxSection) \ {<<>>})
    BY StreamAssumption
  <2>2. TableSizes[t][v] \in Seq(MinSection .. MaxSection)
    BY <2>1
  <2>3. n \in DOMAIN TableSizes[t][v]
    BY <2>2
  <2> QED BY <2>3 DEF TableSections, ToSet
<1> HIDE DEF s
<1>2. PICK p \in DOMAIN S : s = [S[p] EXCEPT !.occ = NoOcc]
  BY <1>1 DEF ToSet, TableOf
<1> DEFINE g == S[p]
<1>3. g \in Sent /\ g \in Elements(S) /\ p \in 1 .. Len(S)
  BY DEF Elements
<1>4. g \in Sect /\ s = [g EXCEPT !.occ = NoOcc]
  BY <1>2, <1>3, SentSize
<1> HIDE DEF g
<1>5. s.tid = g.tid /\ s.ver = g.ver /\ s.num = g.num /\ g.num \in Nat
  BY <1>4 DEF Sect
<1>6. g.num + 1 = n /\ g.tid = t /\ g.ver = v
  BY <1>1, <1>5
<1> QED BY <1>3, <1>6

\* The table handler gets whole tables, in the order of their versions, each of them once unless the
\* demux had to start again, and it gets all versions of which the demux found all sections.  It gets
\* garbage of one short section only after bytes which the demux did not see missing.
THEOREM TablesDelivered == Spec => []TablesConsistent
<1>1. PacketizerInv /\ DeliveryInv /\ RecoveryInv => TablesConsistent
  <2> SUFFICES ASSUME PacketizerInv, DeliveryInv, RecoveryInv PROVE TablesConsistent
    OBVIOUS
  <2>1. /\ sections \in Seq(Sent) /\ tables \in Seq(FullTable) /\ Witnessed(sections, tables)
        /\ InOrder(sections, forgot) /\ DOMAIN tables = 1 .. Len(tables) /\ forgot \in BOOLEAN
    BY DEF DeliveryInv, LinkTypes, RecoveryInv
  <2>2. \A i \in DOMAIN tables : TableOf(tables[i]) = TableSections(tables[i][1].tid, tables[i][1].ver)
    BY <2>1 DEF FullTable, Complete
  <2>3. ~forgot => Informed(demux.tids, sections, tables)
    BY DEF RecoveryInv, Contextual
  <2>4. ASSUME NEW i \in DOMAIN tables, NEW j \in DOMAIN tables,
               i < j, tables[i][1].tid = tables[j][1].tid
        PROVE  \/ tables[i][1].ver < tables[j][1].ver
               \/ tables[i][1].ver = tables[j][1].ver /\ forgot
               \/ /\ forgot
                  /\ \E a \in ToSet(tables[i]), b \in ToSet(tables[j]) : InOnePacket(a, b)
    <3>1. CASE forgot
      BY <2>1, <2>4, <3>1, TablesInOrder
    <3>2. CASE ~forgot
      BY <2>1, <2>3, <2>4, <3>2 DEF Informed, Increasing
    <3> QED BY <2>1, <3>1, <3>2
  <2>5. ASSUME ~forgot, NEW t \in TIDs, NEW v \in 1 .. version[t],
               ToSet(TableSections(t, v)) \subseteq ToSet(TableOf(sections))
        PROVE  \E i \in DOMAIN tables : TableOf(tables[i]) = TableSections(t, v)
    <3>1. v \in DOMAIN TableSizes[t]
      <4>1. TableSizes[t] \in Seq(Seq(MinSection .. MaxSection) \ {<<>>})
        BY StreamAssumption
      <4>2. version[t] \in Nat /\ version[t] \in DOMAIN TableSizes[t]
        BY DEF PacketizerInv, Versions
      <4> DEFINE z == TableSizes[t]
      <4>3. z \in Seq(Seq(MinSection .. MaxSection) \ {<<>>}) /\ version[t] \in DOMAIN z
        BY <4>1, <4>2
      <4> HIDE DEF z
      <4>4. v \in DOMAIN z
        BY <4>2, <4>3
      <4> QED BY <4>4 DEF z
    <3>2. AllGot(t, v, Elements(sections))
      BY <2>1, <2>5, <3>1, AllInList
    <3>3. TableKnown(t, demux.tids[t], Elements(sections), Told(tables))
      BY <2>3, <2>5 DEF Informed
    <3>4. Elements(sections) \in SUBSET Sent
      BY <2>1 DEF Elements
    <3>5. <<t, v>> \in Told(tables)
      BY <3>1, <3>2, <3>3, <3>4, AllGotTold
    <3>6. PICK i \in 1 .. Len(tables) : tables[i][1].tid = t /\ tables[i][1].ver = v
      BY <3>5 DEF Told
    <3> QED BY <2>1, <2>2, <3>6
  <2>6. GarbageExplained
    BY DEF RecoveryInv, Quiet
  <2> QED BY <2>2, <2>4, <2>5, <2>6 DEF TablesConsistent
<1> QED BY <1>1, PacketizerTyped, Recovers, PTL

=============================================================================

-------------------------- MODULE PacketizerProofs --------------------------
(***************************************************************************)
(* The packetizers: what their operators do to the lists of sections and   *)
(* to the counters, for every value of the constants.                      *)
(***************************************************************************)
EXTENDS SectionStream, SequenceTheorems, FiniteSetTheorems, WellFoundedInduction,
        NaturalsInduction, TLAPS

-----------------------------------------------------------------------------
(***************************************************************************)
(* Induction and recursion on 0 .. N.                                      *)
(***************************************************************************)
\* A nonempty set of naturals has a least element.
LEMMA LeastElement ==
    ASSUME NEW T \in SUBSET Nat, T # {}
    PROVE  \E x \in T : \A y \in T : x <= y
<1> DEFINE R == OpToRel(<, Nat)
<1>1. IsWellFoundedOn(R, Nat)
  BY NatLessThanWellFounded
<1>2. PICK x \in T : \A y \in T : ~(<<y, x>> \in R)
  BY <1>1, WFMin
<1>3. \A y \in T : ~(y < x)
  BY <1>2 DEF OpToRel
<1> QED BY <1>3

\* Induction on 0 .. N, with the set of the numbers which have the property.
LEMMA Induction ==
    ASSUME NEW N \in Nat, NEW S, 0 \in S, \A n \in 1 .. N : n - 1 \in S => n \in S
    PROVE  \A n \in 0 .. N : n \in S
<1> DEFINE T == {n \in 0 .. N : n \notin S}
<1> SUFFICES ASSUME T # {} PROVE FALSE
  OBVIOUS
<1>1. PICK x \in T : \A y \in T : x <= y
  <2>1. T \in SUBSET Nat
    OBVIOUS
  <2> QED BY <2>1, LeastElement
<1>2. x \in 1 .. N
  BY <1>1
<1>3. x - 1 \in 0 .. N /\ x - 1 \notin T
  BY <1>1, <1>2
<1> QED BY <1>1, <1>2, <1>3

\* f is defined on 0 .. N from the value a by recursion with the functions F.
Recursive(f, N, A, a, F) ==
    f \in [0 .. N -> A] /\ f[0] = a /\ \A n \in 1 .. N : f[n] = F[n][f[n - 1]]

\* A function which is defined by recursion exists.
LEMMA RecursionExists ==
    ASSUME NEW N \in Nat, NEW A, NEW a \in A, NEW F \in [1 .. N -> [A -> A]]
    PROVE  \E f : Recursive(f, N, A, a, F)
<1> DEFINE S == {m \in 0 .. N : \E f : Recursive(f, m, A, a, F)}
<1>1. 0 \in S
  <2>1. Recursive([n \in 0 .. 0 |-> a], 0, A, a, F)
    BY DEF Recursive
  <2>2. \E f : Recursive(f, 0, A, a, F)
    BY <2>1
  <2> QED BY <2>2
<1>2. ASSUME NEW m \in 1 .. N, m - 1 \in S PROVE m \in S
  <2>1. PICK f : Recursive(f, m - 1, A, a, F)
    BY <1>2
  <2> DEFINE g == [n \in 0 .. m |-> IF n < m THEN f[n] ELSE F[m][f[m - 1]]]
  <2>2. m - 1 \in 0 .. (m - 1) /\ f[m - 1] \in A
    BY <2>1 DEF Recursive
  <2>3. g \in [0 .. m -> A]
    BY <2>1, <2>2 DEF Recursive
  <2>4. g[0] = a
    BY <2>1 DEF Recursive
  <2>5. ASSUME NEW n \in 1 .. m PROVE g[n] = F[n][g[n - 1]]
    <3>1. g[n - 1] = f[n - 1]
      OBVIOUS
    <3>2. CASE n < m
      BY <2>1, <3>1, <3>2 DEF Recursive
    <3>3. CASE n = m
      BY <3>1, <3>3
    <3> QED BY <3>2, <3>3
  <2>6. Recursive(g, m, A, a, F)
    BY <2>3, <2>4, <2>5 DEF Recursive
  <2>7. \E h : Recursive(h, m, A, a, F)
    BY <2>6
  <2> QED BY <2>7
<1>3. N \in S
  <2> HIDE DEF S
  <2>1. \A n \in 0 .. N : n \in S
    BY <1>1, <1>2, Induction
  <2> QED BY <2>1
<1> QED BY <1>3

\* A function which follows the recursion as long as its values have the type A, has this type.
LEMMA RecursionIs ==
    ASSUME NEW N \in Nat, NEW A, NEW a \in A, NEW F \in [1 .. N -> [A -> A]], NEW g,
           g = [n \in 0 .. N |-> g[n]], g[0] = a,
           \A n \in 1 .. N : g[n - 1] \in A => g[n] = F[n][g[n - 1]]
    PROVE  Recursive(g, N, A, a, F)
<1> DEFINE S == {n \in 0 .. N : g[n] \in A}
<1>1. 0 \in S
  OBVIOUS
<1>2. \A n \in 1 .. N : n - 1 \in S => n \in S
  BY SMTT(30)
<1> HIDE DEF S
<1>3. \A n \in 0 .. N : n \in S
  BY <1>1, <1>2, Induction
<1>4. \A n \in 0 .. N : g[n] \in A
  BY <1>3 DEF S
<1>5. ASSUME NEW n \in 1 .. N PROVE g[n] = F[n][g[n - 1]]
  <2>1. n - 1 \in 0 .. N
    OBVIOUS
  <2> QED BY <1>4, <2>1
<1> QED BY <1>4, <1>5 DEF Recursive

-----------------------------------------------------------------------------
(***************************************************************************)
(* The sum of a weight over a list.  The counters of a CyclingPacketizer   *)
(* are such sums.                                                          *)
(***************************************************************************)
Total(list, w) ==
    LET sum[n \in 0 .. Len(list)] == IF n = 0 THEN 0 ELSE sum[n - 1] + w[list[n]]
    IN  sum[Len(list)]

\* f is the function in the definition of Total, and as the definition says it.
Summing(f, list, w) ==
    f = [n \in 0 .. Len(list) |-> IF n = 0 THEN 0 ELSE f[n - 1] + w[list[n]]]
Sums(f, list, w) ==
    /\ f \in [0 .. Len(list) -> Int] /\ f[0] = 0
    /\ \A n \in 1 .. Len(list) : f[n] = f[n - 1] + w[list[n]]

\* The sums over the beginnings of a list.
LEMMA TotalTurns ==
    ASSUME NEW E, NEW list \in Seq(E), NEW w \in [E -> Int]
    PROVE  \E f : Sums(f, list, w) /\ Total(list, w) = f[Len(list)]
<1> DEFINE N == Len(list)
           F == [n \in 1 .. N |-> [x \in Int |-> x + w[list[n]]]]
<1>0. N \in Nat /\ \A n \in 1 .. N : w[list[n]] \in Int
  OBVIOUS
<1>1. F \in [1 .. N -> [Int -> Int]]
  BY <1>0
<1>a. 0 \in Int /\ \A n \in 1 .. N : \A x \in Int : F[n][x] = x + w[list[n]]
  OBVIOUS
<1>2. PICK f : Recursive(f, N, Int, 0, F)
  <2> HIDE DEF N, F
  <2>1. N \in Nat /\ 0 \in Int
    BY <1>0
  <2> QED BY <2>1, <1>1, RecursionExists, Zenon
<1>3. Summing(f, list, w)
  <2> DEFINE g == [n \in 0 .. N |-> IF n = 0 THEN 0 ELSE f[n - 1] + w[list[n]]]
  <2>1. ASSUME NEW n \in 0 .. N PROVE f[n] = g[n]
    <3> HIDE DEF F
    <3>1. CASE n = 0
      BY <3>1, <1>2 DEF Recursive
    <3>2. CASE n \in 1 .. N
      <4>1. n - 1 \in 0 .. N /\ f[n - 1] \in Int /\ f[n] = F[n][f[n - 1]]
        <5> HIDE DEF N, g
        <5>1. n - 1 \in 0 .. N
          BY <3>2, <1>0
        <5> QED BY <3>2, <5>1, <1>2 DEF Recursive
      <4>2. g[n] = f[n - 1] + w[list[n]]
        BY <3>2, <1>0
      <4> HIDE DEF g
      <4> QED BY <4>1, <4>2, <3>2, <1>a
    <3> QED BY <3>1, <3>2, <1>0
  <2>2. f = g
    BY <2>1, <1>2 DEF Recursive
  <2> QED BY <2>2 DEF Summing
<1> DEFINE G == CHOOSE g : Summing(g, list, w)
<1>4. Summing(G, list, w)
  BY <1>3
<1>5. Total(list, w) = G[N]
  BY Zenon DEF Total, Summing
<1> HIDE DEF G
<1>6. /\ G = [n \in 0 .. N |-> G[n]] /\ G[0] = 0
      /\ \A n \in 1 .. N : G[n - 1] \in Int => G[n] = F[n][G[n - 1]]
  <2> HIDE DEF F
  <2>1. G = [n \in 0 .. N |-> IF n = 0 THEN 0 ELSE G[n - 1] + w[list[n]]]
    BY <1>4 DEF Summing
  <2>2. G = [n \in 0 .. N |-> G[n]] /\ G[0] = 0
    BY <1>0, <2>1
  <2>3. ASSUME NEW n \in 1 .. N, G[n - 1] \in Int PROVE G[n] = F[n][G[n - 1]]
    <3>1. G[n] = G[n - 1] + w[list[n]]
      BY <1>0, <2>1
    <3> QED BY <3>1, <2>3, <1>a
  <2> QED BY <2>2, <2>3
<1>7. Recursive(G, N, Int, 0, F)
  <2> HIDE DEF N, F
  <2>1. N \in Nat /\ 0 \in Int
    BY <1>0
  <2> QED BY <2>1, <1>1, <1>6, RecursionIs, Zenon
<1>8. Sums(G, list, w)
  <2> HIDE DEF F
  <2>1. \A n \in 1 .. N : n - 1 \in 0 .. N
    BY <1>0
  <2> QED BY <1>0, <1>a, <1>7, <2>1 DEF Recursive, Sums
<1> QED BY <1>5, <1>8

\* The sum over a list and one more element.
LEMMA TotalAppend ==
    ASSUME NEW E, NEW list \in Seq(E), NEW w \in [E -> Int], NEW e \in E
    PROVE  Total(Append(list, e), w) = Total(list, w) + w[e]
<1> DEFINE long == Append(list, e)  N == Len(list)
<1>0. N \in Nat /\ long \in Seq(E) /\ Len(long) = N + 1 /\ long[N + 1] = e
      /\ \A n \in 1 .. N : long[n] = list[n]
  OBVIOUS
<1>1. PICK f : Sums(f, list, w) /\ Total(list, w) = f[N]
  BY TotalTurns
<1>2. PICK g : Sums(g, long, w) /\ Total(long, w) = g[N + 1]
  <2> HIDE DEF long
  <2> QED BY <1>0, TotalTurns
<1> HIDE DEF long
<1> DEFINE S == {n \in 0 .. N : f[n] = g[n]}
<1>3. 0 \in S /\ \A n \in 1 .. N : n - 1 \in S => n \in S
  <2>1. 0 \in S
    BY <1>0, <1>1, <1>2 DEF Sums
  <2>2. ASSUME NEW n \in 1 .. N, n - 1 \in S PROVE n \in S
    <3>1. n \in 1 .. N + 1 /\ long[n] = list[n] /\ n \in 0 .. N
      BY <1>0
    <3>2. f[n] = f[n - 1] + w[list[n]] /\ g[n] = g[n - 1] + w[long[n]]
      BY <3>1, <1>0, <1>1, <1>2 DEF Sums
    <3> QED BY <3>1, <3>2, <2>2
  <2> QED BY <2>1, <2>2
<1>4. N \in S
  <2> HIDE DEF S
  <2>1. \A n \in 0 .. N : n \in S
    BY <1>0, <1>3, Induction
  <2> QED BY <1>0, <2>1
<1>5. g[N + 1] = g[N] + w[e]
  BY <1>0, <1>2, SMTT(30) DEF Sums
<1> QED BY <1>0, <1>1, <1>2, <1>4, <1>5 DEF long

\* The empty sum, and the type of a sum.
LEMMA TotalType ==
    ASSUME NEW E, NEW w \in [E -> Int]
    PROVE  Total(<<>>, w) = 0 /\ \A list \in Seq(E) : Total(list, w) \in Int
<1>1. <<>> \in Seq(E) /\ Len(<<>>) = 0
  OBVIOUS
<1>2. Total(<<>>, w) = 0
  BY <1>1, TotalTurns DEF Sums
<1>3. ASSUME NEW list \in Seq(E) PROVE Total(list, w) \in Int
  <2>1. PICK f : Sums(f, list, w) /\ Total(list, w) = f[Len(list)]
    BY TotalTurns
  <2> QED BY <2>1 DEF Sums
<1> QED BY <1>2, <1>3
\* A list is the result of appending its elements one by one.
LEMMA Prefix ==
    ASSUME NEW E, NEW list \in Seq(E)
    PROVE  /\ Len(list) \in Nat /\ SubSeq(list, 1, 0) = <<>> /\ SubSeq(list, 1, Len(list)) = list
           /\ \A n \in 1 .. Len(list) :
                 /\ list[n] \in E /\ SubSeq(list, 1, n) \in Seq(E) /\ SubSeq(list, 1, n - 1) \in Seq(E)
                 /\ SubSeq(list, 1, n) = Append(SubSeq(list, 1, n - 1), list[n])
<1>1. Len(list) \in Nat /\ SubSeq(list, 1, 0) = <<>>
  OBVIOUS
<1>2. SubSeq(list, 1, Len(list)) = list
  BY SubSeqFull
<1>3. ASSUME NEW n \in 1 .. Len(list)
      PROVE  /\ list[n] \in E /\ SubSeq(list, 1, n) \in Seq(E) /\ SubSeq(list, 1, n - 1) \in Seq(E)
             /\ SubSeq(list, 1, n) = Append(SubSeq(list, 1, n - 1), list[n])
  <2>1. list[n] \in E /\ SubSeq(list, 1, n) \in Seq(E) /\ SubSeq(list, 1, n - 1) \in Seq(E)
    OBVIOUS
  <2>2. 1 \in 1 .. Len(list) /\ SubSeq(list, 1, n) = SubSeq(list, 1, n - 1) \o <<list[n]>>
    BY SubSeqRecursiveSecond
  <2> QED BY <2>1, <2>2, AppendIsConcat
<1> QED BY <1>1, <1>2, <1>3

\* Appending to a concatenation.
LEMMA ConcatAppend ==
    ASSUME NEW E, NEW s \in Seq(E), NEW t \in Seq(E), NEW e \in E
    PROVE  s \o Append(t, e) = Append(s \o t, e)
<1>1. <<e>> \in Seq(E) /\ s \o t \in Seq(E)
  OBVIOUS
<1>2. Append(t, e) = t \o <<e>> /\ Append(s \o t, e) = (s \o t) \o <<e>>
  BY <1>1, AppendIsConcat
<1> QED BY <1>1, <1>2, ConcatAssociative

\* The sum over two lists.
LEMMA TotalConcat ==
    ASSUME NEW E, NEW list \in Seq(E), NEW new \in Seq(E), NEW w \in [E -> Int]
    PROVE  Total(list \o new, w) = Total(list, w) + Total(new, w)
<1> DEFINE P(n) == SubSeq(new, 1, n)
           S == {n \in 0 .. Len(new) : Total(list \o P(n), w) = Total(list, w) + Total(P(n), w)}
<1>0. Total(<<>>, w) = 0 /\ Total(list, w) \in Int /\ list \o <<>> = list
  BY TotalType
<1>a. P(0) = <<>> /\ Len(new) \in Nat
  BY Prefix
<1>1. 0 \in S
  <2> HIDE DEF P
  <2>1. Total(list \o P(0), w) = Total(list, w) /\ Total(P(0), w) = 0
    BY <1>0, <1>a, Zenon
  <2> QED BY <2>1, <1>0, <1>a
<1>2. ASSUME NEW n \in 1 .. Len(new), n - 1 \in S PROVE n \in S
  <2>1. P(n) = Append(P(n - 1), new[n]) /\ new[n] \in E /\ P(n - 1) \in Seq(E)
    BY Prefix
  <2>2. Total(list \o P(n - 1), w) = Total(list, w) + Total(P(n - 1), w)
    BY <1>2
  <2> HIDE DEF P
  <2>3. list \o P(n) = Append(list \o P(n - 1), new[n]) /\ list \o P(n - 1) \in Seq(E)
    <3> DEFINE p == P(n - 1)  e == new[n]
    <3>a. p \in Seq(E) /\ e \in E
      BY <2>1
    <3> HIDE DEF p, e
    <3>b. list \o Append(p, e) = Append(list \o p, e)
      BY <3>a, ConcatAppend, SMTT(30)
    <3>1. list \o Append(P(n - 1), new[n]) = Append(list \o P(n - 1), new[n])
      BY <3>b DEF p, e
    <3>2. list \o P(n - 1) \in Seq(E)
      BY <2>1, ConcatProperties
    <3> QED BY <2>1, <3>1, <3>2
  <2>4. Total(list \o P(n), w) = Total(list \o P(n - 1), w) + w[new[n]]
    BY <2>1, <2>3, TotalAppend, ZenonT(60)
  <2>5. Total(P(n), w) = Total(P(n - 1), w) + w[new[n]]
    BY <2>1, TotalAppend, SMTT(30)
  <2>6. Total(P(n - 1), w) \in Int /\ w[new[n]] \in Int
    BY <2>1, TotalType
  <2> QED BY <1>0, <2>2, <2>4, <2>5, <2>6
<1>3. Len(new) \in S
  <2> HIDE DEF S
  <2>1. \A n \in 0 .. Len(new) : n \in S
    BY <1>a, <1>1, <1>2, Induction
  <2> QED BY <2>1, <1>a
<1> QED BY <1>3, Prefix

\* The sum over one element.
LEMMA TotalOne ==
    ASSUME NEW E, NEW e \in E, NEW w \in [E -> Int]
    PROVE  Total(<<e>>, w) = w[e]
<1>1. <<e>> = Append(<<>>, e) /\ <<>> \in Seq(E) /\ w[e] \in Int
  OBVIOUS
<1>2. Total(<<>>, w) = 0
  BY TotalType
<1>3. Total(Append(<<>>, e), w) = Total(<<>>, w) + w[e]
  BY <1>1, TotalAppend
<1> QED BY <1>1, <1>2, <1>3

\* The sum over a list without its first element.
LEMMA TotalTail ==
    ASSUME NEW E, NEW list \in Seq(E), list # <<>>, NEW w \in [E -> Int]
    PROVE  Total(Tail(list), w) = Total(list, w) - w[Head(list)]
<1>1. list = <<Head(list)>> \o Tail(list) /\ Head(list) \in E /\ Tail(list) \in Seq(E)
      /\ <<Head(list)>> \in Seq(E)
  OBVIOUS
<1>2. Total(list, w) = Total(<<Head(list)>>, w) + Total(Tail(list), w)
  BY <1>1, TotalConcat, ZenonT(60)
<1>3. Total(<<Head(list)>>, w) = w[Head(list)] /\ Total(Tail(list), w) \in Int /\ w[Head(list)] \in Int
  BY <1>1, TotalOne, TotalType
<1> QED BY <1>2, <1>3

\* The sum over a list with an element which is inserted.
LEMMA TotalInsert ==
    ASSUME NEW E, NEW list \in Seq(E), NEW w \in [E -> Int], NEW e \in E,
           NEW p \in 1 .. Len(list) + 1
    PROVE  Total(InsertAt(list, p, e), w) = Total(list, w) + w[e]
<1> DEFINE a == SubSeq(list, 1, p - 1)  b == SubSeq(list, p, Len(list))
<1>1. a \in Seq(E) /\ b \in Seq(E) /\ <<e>> \in Seq(E) /\ a \o <<e>> \in Seq(E)
  OBVIOUS
<1>2. list = a \o b
  <2>1. 1 \in 1 .. Len(list) + 1 /\ p - 1 \in 0 .. Len(list) /\ Len(list) \in (p - 1) .. Len(list)
    OBVIOUS
  <2> DEFINE k == p - 1
  <2>2. k \in (1 - 1) .. Len(list) /\ Len(list) \in k .. Len(list) /\ k + 1 = p
    OBVIOUS
  <2> HIDE DEF k
  <2>3. SubSeq(list, 1, k) \o SubSeq(list, k + 1, Len(list)) = SubSeq(list, 1, Len(list))
    BY <2>1, <2>2, ConcatAdjacentSubSeq
  <2>4. SubSeq(list, 1, Len(list)) = list
    BY SubSeqFull
  <2> QED BY <2>2, <2>3, <2>4 DEF k
<1>3. InsertAt(list, p, e) = a \o <<e>> \o b
  BY DEF InsertAt
<1> HIDE DEF a, b
<1>4. /\ Total(a \o <<e>>, w) = Total(a, w) + Total(<<e>>, w)
      /\ Total((a \o <<e>>) \o b, w) = Total(a \o <<e>>, w) + Total(b, w)
  BY <1>1, TotalConcat, ZenonT(60)
<1>5. Total(list, w) = Total(a, w) + Total(b, w)
  BY <1>1, <1>2, TotalConcat
<1>6. Total(a, w) \in Int /\ Total(b, w) \in Int /\ w[e] \in Int /\ Total(<<e>>, w) = w[e]
  BY <1>1, TotalType, TotalOne
<1> QED BY <1>3, <1>4, <1>5, <1>6

\* Induction on lists, with the set of the lists which have the property.
LEMMA ListInduction ==
    ASSUME NEW E, NEW list \in Seq(E), NEW S, <<>> \in S,
           \A l \in Seq(E), e \in E : l \in S => Append(l, e) \in S
    PROVE  list \in S
<1> DEFINE P(n) == SubSeq(list, 1, n)
           T == {n \in 0 .. Len(list) : P(n) \in S}
<1>0. Len(list) \in Nat /\ P(0) = <<>> /\ P(Len(list)) = list
  BY Prefix
<1>1. 0 \in T
  <2> HIDE DEF P
  <2> QED BY <1>0
<1>2. ASSUME NEW n \in 1 .. Len(list), n - 1 \in T PROVE n \in T
  <2>1. P(n) = Append(P(n - 1), list[n]) /\ list[n] \in E /\ P(n - 1) \in Seq(E)
    BY Prefix
  <2>2. P(n - 1) \in S
    BY <1>2
  <2> HIDE DEF P
  <2>3. Append(P(n - 1), list[n]) \in S
    BY <2>1, <2>2
  <2>4. P(n) \in S
    BY <2>1, <2>3, Zenon
  <2> QED BY <1>0, <2>4
<1>3. Len(list) \in T
  <2> HIDE DEF T
  <2>1. \A n \in 0 .. Len(list) : n \in T
    BY <1>0, <1>1, <1>2, Induction
  <2> QED BY <1>0, <2>1
<1>4. P(Len(list)) \in S
  BY <1>3
<1> QED BY <1>0, <1>4, Zenon

\* The sum does not depend on the order.
LEMMA TotalReverse ==
    ASSUME NEW E, NEW list \in Seq(E), NEW w \in [E -> Int]
    PROVE  Reverse(list) \in Seq(E) /\ Total(Reverse(list), w) = Total(list, w)
<1> DEFINE S == {l \in Seq(E) : Reverse(l) \in Seq(E) /\ Total(Reverse(l), w) = Total(l, w)}
<1>1. <<>> \in S
  <2>1. Reverse(<<>>) = <<>> /\ <<>> \in Seq(E)
    BY DEF Reverse
  <2> QED BY <2>1
<1>2. ASSUME NEW l \in Seq(E), NEW e \in E, l \in S PROVE Append(l, e) \in S
  <2>1. Reverse(l) \in Seq(E) /\ Total(Reverse(l), w) = Total(l, w) /\ Total(l, w) \in Int
    BY <1>2, TotalType
  <2>2. Reverse(Append(l, e)) = <<e>> \o Reverse(l)
    BY DEF Reverse
  <2>3. <<e>> \in Seq(E) /\ <<e>> \o Reverse(l) \in Seq(E) /\ Append(l, e) \in Seq(E) /\ w[e] \in Int
    BY <2>1
  <2>4. Total(<<e>> \o Reverse(l), w) = Total(<<e>>, w) + Total(Reverse(l), w)
    <3> DEFINE r == Reverse(l)  o == <<e>>
    <3>1. r \in Seq(E) /\ o \in Seq(E)
      BY <2>1, <2>3
    <3> HIDE DEF r, o
    <3>2. Total(o \o r, w) = Total(o, w) + Total(r, w)
      BY <3>1, TotalConcat
    <3> QED BY <3>2 DEF r, o
  <2>5. Total(<<e>>, w) = w[e] /\ Total(Append(l, e), w) = Total(l, w) + w[e]
    BY TotalOne, TotalAppend
  <2>6. Total(Reverse(Append(l, e)), w) = Total(Append(l, e), w)
    BY <2>1, <2>2, <2>3, <2>4, <2>5
  <2> QED BY <2>2, <2>3, <2>6
<1>3. list \in S
  <2> HIDE DEF S
  <2> QED BY <1>1, <1>2, ListInduction
<1> QED BY <1>3

\* The elements of two lists have the same weights.
SameWeights(a, v, b, w) ==
    Len(a) = Len(b) /\ \A i \in 1 .. Len(a) : v[a[i]] = w[b[i]]

\* Lists with the same weights have the same sum.
LEMMA TotalSame ==
    ASSUME NEW E, NEW a \in Seq(E), NEW v \in [E -> Int],
           NEW D, NEW b \in Seq(D), NEW w \in [D -> Int],
           SameWeights(a, v, b, w)
    PROVE  Total(a, v) = Total(b, w)
<1> DEFINE N == Len(a)
<1>0. N \in Nat
  OBVIOUS
<1>a. N = Len(b) /\ \A i \in 1 .. N : v[a[i]] = w[b[i]]
  BY DEF SameWeights
<1>1. PICK f : Sums(f, a, v) /\ Total(a, v) = f[N]
  BY TotalTurns
<1>2. PICK g : Sums(g, b, w) /\ Total(b, w) = g[Len(b)]
  BY TotalTurns
<1> DEFINE S == {n \in 0 .. N : f[n] = g[n]}
<1>3. 0 \in S
  BY <1>0, <1>1, <1>2 DEF Sums
<1>4. ASSUME NEW n \in 1 .. N, n - 1 \in S PROVE n \in S
  <2>1. f[n] = f[n - 1] + v[a[n]] /\ g[n] = g[n - 1] + w[b[n]]
    BY <1>a, <1>1, <1>2 DEF Sums
  <2> QED BY <2>1, <1>a, <1>4
<1>5. \A n \in 0 .. N : n \in S
  <2> HIDE DEF S, N
  <2> QED BY <1>0, <1>3, <1>4, Induction
<1> QED BY <1>0, <1>a, <1>1, <1>2, <1>5

-----------------------------------------------------------------------------
(***************************************************************************)
(* The filter of a list.                                                   *)
(***************************************************************************)
\* f is the function in the definition of Only, and as the definition says it.
Filtering(f, list, S) ==
    f = [n \in 0 .. Len(list) |->
            IF n = 0 THEN <<>>
            ELSE IF list[n] \in S THEN Append(f[n - 1], list[n]) ELSE f[n - 1]]
Filters(f, list, S, E) ==
    /\ f \in [0 .. Len(list) -> Seq(E)] /\ f[0] = <<>>
    /\ \A n \in 1 .. Len(list) :
          f[n] = IF list[n] \in S THEN Append(f[n - 1], list[n]) ELSE f[n - 1]

\* The filters of the beginnings of a list.
LEMMA OnlyTurns ==
    ASSUME NEW E, NEW list \in Seq(E), NEW S
    PROVE  \E f : Filters(f, list, S, E) /\ Only(list, S) = f[Len(list)]
<1> DEFINE N == Len(list)
           A == Seq(E)
           F == [n \in 1 .. N |-> [x \in A |-> IF list[n] \in S THEN Append(x, list[n]) ELSE x]]
<1>0. N \in Nat /\ <<>> \in A
  OBVIOUS
<1>1. F \in [1 .. N -> [A -> A]]
  OBVIOUS
<1>a. \A n \in 1 .. N : \A x \in A : F[n][x] = IF list[n] \in S THEN Append(x, list[n]) ELSE x
  OBVIOUS
<1>2. PICK f : Recursive(f, N, A, <<>>, F)
  <2> HIDE DEF N, F, A
  <2>1. N \in Nat /\ <<>> \in A
    BY <1>0
  <2> QED BY <2>1, <1>1, RecursionExists, Zenon
<1> HIDE DEF F
<1>3. Filtering(f, list, S)
  <2> DEFINE g == [n \in 0 .. N |->
                     IF n = 0 THEN <<>>
                     ELSE IF list[n] \in S THEN Append(f[n - 1], list[n]) ELSE f[n - 1]]
  <2>1. ASSUME NEW n \in 0 .. N PROVE f[n] = g[n]
    <3>1. CASE n = 0
      BY <3>1, <1>2 DEF Recursive
    <3>2. CASE n \in 1 .. N
      <4>1. n - 1 \in 0 .. N /\ f[n - 1] \in A /\ f[n] = F[n][f[n - 1]]
        BY <3>2, <1>0, <1>2 DEF Recursive
      <4>2. g[n] = IF list[n] \in S THEN Append(f[n - 1], list[n]) ELSE f[n - 1]
        BY <3>2, <1>0
      <4> HIDE DEF g
      <4> QED BY <4>1, <4>2, <3>2, <1>a
    <3> QED BY <3>1, <3>2, <1>0
  <2>2. f = g
    BY <2>1, <1>2 DEF Recursive
  <2> QED BY <2>2 DEF Filtering
<1> DEFINE G == CHOOSE g : Filtering(g, list, S)
<1>4. Filtering(G, list, S)
  BY <1>3
<1>5. Only(list, S) = G[N]
  BY Zenon DEF Only, Filtering
<1> HIDE DEF G
<1>6. /\ G = [n \in 0 .. N |-> G[n]] /\ G[0] = <<>>
      /\ \A n \in 1 .. N : G[n - 1] \in A => G[n] = F[n][G[n - 1]]
  <2>1. G = [n \in 0 .. N |->
                IF n = 0 THEN <<>>
                ELSE IF list[n] \in S THEN Append(G[n - 1], list[n]) ELSE G[n - 1]]
    BY <1>4 DEF Filtering
  <2>2. G = [n \in 0 .. N |-> G[n]] /\ G[0] = <<>>
    BY <1>0, <2>1
  <2>3. ASSUME NEW n \in 1 .. N, G[n - 1] \in A PROVE G[n] = F[n][G[n - 1]]
    <3>0. n \in 0 .. N /\ n # 0
      BY <1>0
    <3>1. G[n] = IF list[n] \in S THEN Append(G[n - 1], list[n]) ELSE G[n - 1]
      BY <3>0, <2>1, Zenon
    <3> QED BY <3>1, <2>3, <1>a
  <2> QED BY <2>2, <2>3
<1>7. Recursive(G, N, A, <<>>, F)
  <2> HIDE DEF N, A
  <2>1. N \in Nat /\ <<>> \in A
    BY <1>0
  <2> QED BY <2>1, <1>1, <1>6, RecursionIs, Zenon
<1>8. Filters(G, list, S, E)
  <2>1. ASSUME NEW n \in 1 .. N
        PROVE  G[n] = IF list[n] \in S THEN Append(G[n - 1], list[n]) ELSE G[n - 1]
    <3>1. n - 1 \in 0 .. N /\ G[n - 1] \in A /\ G[n] = F[n][G[n - 1]]
      BY <1>0, <1>7 DEF Recursive
    <3> QED BY <3>1, <1>a
  <2> QED BY <2>1, <1>7 DEF Recursive, Filters
<1> QED BY <1>5, <1>8

\* The filter of a list and one more element, and of no element.
LEMMA OnlyAppend ==
    ASSUME NEW E, NEW list \in Seq(E), NEW S, NEW e \in E
    PROVE  /\ Only(list, S) \in Seq(E)
           /\ e \in S => Only(Append(list, e), S) = Append(Only(list, S), e)
           /\ e \notin S => Only(Append(list, e), S) = Only(list, S)
           /\ Only(<<>>, S) = <<>>
<1> DEFINE long == Append(list, e)  N == Len(list)
<1>0. N \in Nat /\ long \in Seq(E) /\ Len(long) = N + 1 /\ long[N + 1] = e
      /\ \A n \in 1 .. N : long[n] = list[n]
  OBVIOUS
<1>1. PICK f : Filters(f, list, S, E) /\ Only(list, S) = f[N]
  BY OnlyTurns
<1>2. PICK g : Filters(g, long, S, E) /\ Only(long, S) = g[N + 1]
  <2> HIDE DEF long
  <2> QED BY <1>0, OnlyTurns
<1> HIDE DEF long
<1> DEFINE T == {n \in 0 .. N : f[n] = g[n]}
<1>3. 0 \in T
  BY <1>0, <1>1, <1>2 DEF Filters
<1>4. ASSUME NEW n \in 1 .. N, n - 1 \in T PROVE n \in T
  <2>1. n \in 1 .. N + 1 /\ long[n] = list[n] /\ n \in 0 .. N /\ f[n - 1] = g[n - 1]
    BY <1>0, <1>4
  <2>2. f[n] = IF list[n] \in S THEN Append(f[n - 1], list[n]) ELSE f[n - 1]
    BY <1>1 DEF Filters
  <2>3. g[n] = IF long[n] \in S THEN Append(g[n - 1], long[n]) ELSE g[n - 1]
    BY <1>0, <1>2, <2>1 DEF Filters
  <2>4. f[n] = g[n]
    <3>1. long[n] = list[n] /\ f[n - 1] = g[n - 1]
      BY <2>1
    <3> QED BY <3>1, <2>2, <2>3
  <2> QED BY <2>1, <2>4
<1>5. N \in T
  <2> HIDE DEF T
  <2>1. \A n \in 0 .. N : n \in T
    BY <1>0, <1>3, <1>4, Induction
  <2> QED BY <1>0, <2>1
<1>6. g[N + 1] = IF e \in S THEN Append(g[N], e) ELSE g[N]
  <2>1. N + 1 \in 1 .. N + 1 /\ (N + 1) - 1 = N
    BY <1>0
  <2> QED BY <1>0, <1>2, <2>1 DEF Filters
<1>7. Only(list, S) \in Seq(E)
  BY <1>0, <1>1 DEF Filters
<1>8. Only(<<>>, S) = <<>>
  <2>1. <<>> \in Seq(E) /\ Len(<<>>) = 0
    OBVIOUS
  <2>2. PICK h : Filters(h, <<>>, S, E) /\ Only(<<>>, S) = h[0]
    BY <2>1, OnlyTurns
  <2> QED BY <2>2 DEF Filters
<1>9. /\ e \in S => Only(long, S) = Append(Only(list, S), e)
      /\ e \notin S => Only(long, S) = Only(list, S)
  <2>1. f[N] = g[N]
    BY <1>5
  <2> QED BY <1>1, <1>2, <1>6, <2>1, Zenon
<1> QED BY <1>7, <1>8, <1>9 DEF long

\* The filter has the elements of the list which are in the set.
LEMMA OnlyElements ==
    ASSUME NEW E, NEW list \in Seq(E), NEW S
    PROVE  /\ Only(list, S) \in Seq(E)
           /\ \A i \in 1 .. Len(Only(list, S)) :
                 /\ Only(list, S)[i] \in S
                 /\ \E j \in 1 .. Len(list) : Only(list, S)[i] = list[j]
<1> DEFINE Good(o, l) == /\ o \in Seq(E)
                         /\ \A i \in 1 .. Len(o) :
                               o[i] \in S /\ \E j \in 1 .. Len(l) : o[i] = l[j]
           T == {l \in Seq(E) : Good(Only(l, S), l)}
<1>1. <<>> \in T
  <2>1. Only(<<>>, S) = <<>>
    <3>1. PICK h : Filters(h, <<>>, S, E) /\ Only(<<>>, S) = h[Len(<<>>)]
      <4>1. <<>> \in Seq(E)
        OBVIOUS
      <4> QED BY <4>1, OnlyTurns
    <3> QED BY <3>1 DEF Filters
  <2>2. Good(<<>>, <<>>)
    OBVIOUS
  <2> QED BY <2>1, <2>2
<1>2. ASSUME NEW l \in Seq(E), NEW e \in E, l \in T PROVE Append(l, e) \in T
  <2> DEFINE o == Only(l, S)  p == Only(Append(l, e), S)
  <2>1. Good(o, l)
    BY <1>2
  <2>2. (e \in S => p = Append(o, e)) /\ (e \notin S => p = o)
    <3> HIDE DEF T
    <3>1. e \in S => Only(Append(l, e), S) = Append(Only(l, S), e)
      BY OnlyAppend, SMT
    <3>2. e \notin S => Only(Append(l, e), S) = Only(l, S)
      BY OnlyAppend, SMT
    <3> QED BY <3>1, <3>2, Zenon
  <2> HIDE DEF o
  <2>3. Append(l, e) \in Seq(E) /\ Len(Append(l, e)) = Len(l) + 1
        /\ Append(l, e)[Len(l) + 1] = e /\ \A j \in 1 .. Len(l) : Append(l, e)[j] = l[j]
    OBVIOUS
  <2>4. CASE e \in S
    <3> DEFINE q == Append(o, e)  m == Append(l, e)
    <3>1. q \in Seq(E) /\ Len(q) = Len(o) + 1 /\ q[Len(o) + 1] = e
          /\ \A i \in 1 .. Len(o) : q[i] = o[i]
      BY <2>1
    <3>2. m \in Seq(E) /\ Len(m) = Len(l) + 1 /\ m[Len(l) + 1] = e
          /\ \A j \in 1 .. Len(l) : m[j] = l[j]
      BY <2>3
    <3> HIDE DEF q, m
    <3>3. ASSUME NEW i \in 1 .. Len(q)
          PROVE  q[i] \in S /\ \E j \in 1 .. Len(m) : q[i] = m[j]
      <4>1. CASE i <= Len(o)
        <5>1. q[i] = o[i] /\ o[i] \in S
          BY <2>1, <3>1, <4>1
        <5>2. PICK j \in 1 .. Len(l) : o[i] = l[j]
          BY <2>1, <4>1
        <5>3. j \in 1 .. Len(m) /\ m[j] = l[j]
          BY <3>2
        <5> QED BY <5>1, <5>2, <5>3
      <4>2. CASE i = Len(o) + 1
        BY <2>4, <3>1, <3>2, <4>2
      <4> QED BY <4>1, <4>2, <3>1, <2>1
    <3>4. Good(q, m)
      BY <3>1, <3>3
    <3>5. p = q
      BY <2>2, <2>4 DEF q
    <3> QED BY <3>2, <3>4, <3>5 DEF m
  <2>5. CASE e \notin S
    <3> DEFINE m == Append(l, e)
    <3>2. m \in Seq(E) /\ Len(m) = Len(l) + 1 /\ \A j \in 1 .. Len(l) : m[j] = l[j]
      BY <2>3
    <3> HIDE DEF m
    <3>3. Good(o, m)
      BY <2>1, <3>2
    <3>4. p = o
      BY <2>2, <2>5
    <3> QED BY <3>2, <3>3, <3>4 DEF m
  <2> QED BY <2>4, <2>5
<1>3. list \in T
  <2> HIDE DEF T
  <2> QED BY <1>1, <1>2, ListInduction
<1> QED BY <1>3

\* The filter depends on the elements of the list only.
LEMMA OnlySame ==
    ASSUME NEW E, NEW list \in Seq(E), NEW S, NEW T,
           \A i \in 1 .. Len(list) : list[i] \in S <=> list[i] \in T
    PROVE  Only(list, S) = Only(list, T)
<1> DEFINE N == Len(list)
<1>0. N \in Nat
  OBVIOUS
<1>1. PICK f : Filters(f, list, S, E) /\ Only(list, S) = f[N]
  BY OnlyTurns
<1>2. PICK g : Filters(g, list, T, E) /\ Only(list, T) = g[N]
  BY OnlyTurns
<1> DEFINE U == {n \in 0 .. N : f[n] = g[n]}
<1>3. 0 \in U
  BY <1>0, <1>1, <1>2 DEF Filters
<1>4. ASSUME NEW n \in 1 .. N, n - 1 \in U PROVE n \in U
  <2>1. f[n - 1] = g[n - 1] /\ n \in 0 .. N
    BY <1>0, <1>4
  <2>2. f[n] = IF list[n] \in S THEN Append(f[n - 1], list[n]) ELSE f[n - 1]
    BY <1>1 DEF Filters
  <2>3. g[n] = IF list[n] \in T THEN Append(g[n - 1], list[n]) ELSE g[n - 1]
    BY <1>2 DEF Filters
  <2>4. f[n] = g[n]
    BY <2>1, <2>2, <2>3, Zenon
  <2> QED BY <2>1, <2>4
<1>5. \A n \in 0 .. N : n \in U
  <2> HIDE DEF U, N
  <2> QED BY <1>0, <1>3, <1>4, Induction
<1> QED BY <1>0, <1>1, <1>2, <1>5

\* The length of a list as a sum.
LEMMA TotalLen ==
    ASSUME NEW E, NEW list \in Seq(E), NEW w \in [E -> Int], \A e \in E : w[e] = 1
    PROVE  Total(list, w) = Len(list)
<1> DEFINE T == {l \in Seq(E) : Total(l, w) = Len(l)}
<1>1. <<>> \in T
  <2>1. Total(<<>>, w) = 0
    BY TotalType
  <2> QED BY <2>1
<1>2. ASSUME NEW l \in Seq(E), NEW e \in E, l \in T PROVE Append(l, e) \in T
  <2>1. Append(l, e) \in Seq(E) /\ Len(Append(l, e)) = Len(l) + 1
    OBVIOUS
  <2>2. Total(Append(l, e), w) = Total(l, w) + w[e]
    BY TotalAppend
  <2> QED BY <1>2, <2>1, <2>2
<1>3. list \in T
  <2> HIDE DEF T
  <2> QED BY <1>1, <1>2, ListInduction
<1> QED BY <1>3

\* The weight w is v in S and 0 elsewhere; it is the sum of u and v.
Within(w, v, S, E) == \A e \in E : w[e] = IF e \in S THEN v[e] ELSE 0
Plus(w, u, v, E) == \A e \in E : w[e] = u[e] + v[e]

\* S and T are complementary.
Apart(S, T, E) == \A e \in E : e \in S <=> e \notin T

\* The sum over a filter, as a sum over the list.
LEMMA TotalFilter ==
    ASSUME NEW E, NEW list \in Seq(E), NEW S, NEW v \in [E -> Int], NEW w \in [E -> Int],
           Within(w, v, S, E)
    PROVE  Total(Only(list, S), v) = Total(list, w)
<1> DEFINE T == {l \in Seq(E) : Total(Only(l, S), v) = Total(l, w)}
<1>0. Total(<<>>, w) = 0 /\ Total(<<>>, v) = 0
  BY TotalType
<1>1. <<>> \in T
  <2>1. Only(<<>>, S) = <<>> /\ <<>> \in Seq(E)
    <3>1. <<>> \in Seq(E)
      OBVIOUS
    <3>2. PICK h : Filters(h, <<>>, S, E) /\ Only(<<>>, S) = h[Len(<<>>)]
      BY <3>1, OnlyTurns
    <3> QED BY <3>1, <3>2 DEF Filters
  <2> QED BY <2>1, <1>0
<1>2. ASSUME NEW l \in Seq(E), NEW e \in E, l \in T PROVE Append(l, e) \in T
  <2> DEFINE o == Only(l, S)  p == Only(Append(l, e), S)
  <2>1. Append(l, e) \in Seq(E) /\ o \in Seq(E) /\ Total(o, v) = Total(l, w) /\ Total(l, w) \in Int
    <3>1. Append(l, e) \in Seq(E) /\ Total(o, v) = Total(l, w)
      BY <1>2
    <3>2. o \in Seq(E)
      BY OnlyElements, Zenon
    <3>3. Total(l, w) \in Int
      BY TotalType, Zenon
    <3> QED BY <3>1, <3>2, <3>3
  <2>2. Total(Append(l, e), w) = Total(l, w) + w[e]
    BY TotalAppend
  <2>3. (e \in S => p = Append(o, e)) /\ (e \notin S => p = o)
    <3> HIDE DEF T
    <3>1. e \in S => Only(Append(l, e), S) = Append(Only(l, S), e)
      BY OnlyAppend, SMT
    <3>2. e \notin S => Only(Append(l, e), S) = Only(l, S)
      BY OnlyAppend, SMT
    <3> QED BY <3>1, <3>2, Zenon
  <2> HIDE DEF o
  <2>4. Total(Append(o, e), v) = Total(o, v) + v[e] /\ v[e] \in Int
    BY <2>1, TotalAppend
  <2>5. Total(p, v) = Total(Append(l, e), w)
    <3> HIDE DEF p
    <3>0. w[e] = IF e \in S THEN v[e] ELSE 0
      BY DEF Within
    <3>1. CASE e \in S
      BY <3>0, <3>1, <2>1, <2>2, <2>3, <2>4
    <3>2. CASE e \notin S
      BY <3>0, <3>2, <2>1, <2>2, <2>3
    <3> QED BY <3>1, <3>2
  <2> QED BY <2>1, <2>5
<1>3. list \in T
  <2> HIDE DEF T
  <2> QED BY <1>1, <1>2, ListInduction
<1> QED BY <1>3

\* Sums of sums.
LEMMA TotalPlus ==
    ASSUME NEW E, NEW list \in Seq(E), NEW u \in [E -> Int], NEW v \in [E -> Int],
           NEW w \in [E -> Int], Plus(w, u, v, E)
    PROVE  Total(list, w) = Total(list, u) + Total(list, v)
<1> DEFINE T == {l \in Seq(E) : Total(l, w) = Total(l, u) + Total(l, v)}
<1>1. <<>> \in T
  <2>1. Total(<<>>, w) = 0 /\ Total(<<>>, v) = 0 /\ Total(<<>>, u) = 0
    BY TotalType
  <2> QED BY <2>1
<1>2. ASSUME NEW l \in Seq(E), NEW e \in E, l \in T PROVE Append(l, e) \in T
  <2>1. /\ Total(Append(l, e), w) = Total(l, w) + w[e]
        /\ Total(Append(l, e), u) = Total(l, u) + u[e]
        /\ Total(Append(l, e), v) = Total(l, v) + v[e]
    BY TotalAppend
  <2>2. Total(l, w) \in Int /\ Total(l, u) \in Int /\ Total(l, v) \in Int /\ Append(l, e) \in Seq(E)
    <3>1. Append(l, e) \in Seq(E)
      OBVIOUS
    <3> QED BY <3>1, TotalType, Zenon
  <2>3. u[e] \in Int /\ v[e] \in Int /\ w[e] = u[e] + v[e]
    BY DEF Plus
  <2>4. Total(Append(l, e), w) = Total(Append(l, e), u) + Total(Append(l, e), v)
    BY <1>2, <2>1, <2>2, <2>3
  <2> QED BY <2>2, <2>4
<1>3. list \in T
  <2> HIDE DEF T
  <2> QED BY <1>1, <1>2, ListInduction
<1> QED BY <1>3

\* A list is split in two by complementary filters.
LEMMA TotalParts ==
    ASSUME NEW E, NEW list \in Seq(E), NEW w \in [E -> Int], NEW S, NEW T, Apart(S, T, E)
    PROVE  Total(list, w) = Total(Only(list, S), w) + Total(Only(list, T), w)
<1> DEFINE inS == [e \in E |-> IF e \in S THEN w[e] ELSE 0]
           inT == [e \in E |-> IF e \in T THEN w[e] ELSE 0]
<1>1. inS \in [E -> Int] /\ inT \in [E -> Int]
  OBVIOUS
<1>2. Within(inS, w, S, E) /\ Within(inT, w, T, E) /\ Plus(w, inS, inT, E)
  BY DEF Within, Plus, Apart
<1> HIDE DEF inS, inT
<1>3. Total(list, w) = Total(list, inS) + Total(list, inT)
  <2>1. \A a, b, c \in [E -> Int] : Plus(c, a, b, E) => Total(list, c) = Total(list, a) + Total(list, b)
    BY TotalPlus
  <2> QED BY <1>1, <1>2, <2>1
<1>4. Total(Only(list, S), w) = Total(list, inS)
  BY <1>1, <1>2, TotalFilter
<1>5. Total(Only(list, T), w) = Total(list, inT)
  BY <1>1, <1>2, TotalFilter
<1> QED BY <1>3, <1>4, <1>5

-----------------------------------------------------------------------------
(***************************************************************************)
(* Types of the packetizer.                                                *)
(***************************************************************************)
\* Sections, those of the tables as they are in the lists of the packetizer, and the elements
\* of these lists.
Sect == [tid : TIDs \cup {"none"}, ver : Nat, num : Nat, last : Nat, size : Nat, occ : Int]
Listed == {s \in Sect : /\ s.tid \in TIDs /\ s.ver \in DOMAIN TableSizes[s.tid]
                        /\ s.num + 1 \in DOMAIN TableSizes[s.tid][s.ver]
                        /\ s.last + 1 = Len(TableSizes[s.tid][s.ver])
                        /\ s.size = TableSizes[s.tid][s.ver][s.num + 1]
                        /\ s.occ = NoOcc}
Entry == [section : Listed, rep : Nat, lastPacket : Nat, lastCycle : Nat, due : Nat]

Sorted(list) == \A i, j \in 1 .. Len(list) : i < j => list[i].due <= list[j].due

\* A filter of a sorted list is sorted.
LEMMA OnlySorted ==
    ASSUME NEW list \in Seq(Entry), NEW S, Sorted(list)
    PROVE  Sorted(Only(list, S))
<1> DEFINE T == {l \in Seq(Entry) : Sorted(l) => Sorted(Only(l, S))}
<1>1. <<>> \in T
  <2>1. <<>> \in Seq(Entry)
    OBVIOUS
  <2>2. PICK h : Filters(h, <<>>, S, Entry) /\ Only(<<>>, S) = h[Len(<<>>)]
    BY <2>1, OnlyTurns
  <2>3. Only(<<>>, S) = <<>>
    BY <2>2 DEF Filters
  <2> QED BY <2>1, <2>3 DEF Sorted
<1>2. ASSUME NEW l \in Seq(Entry), NEW e \in Entry, l \in T PROVE Append(l, e) \in T
  <2> SUFFICES ASSUME Sorted(Append(l, e)) PROVE Sorted(Only(Append(l, e), S))
    <3>1. Append(l, e) \in Seq(Entry)
      OBVIOUS
    <3> QED BY <3>1
  <2> DEFINE m == Append(l, e)  o == Only(l, S)
  <2>1. m \in Seq(Entry) /\ Len(m) = Len(l) + 1 /\ Len(l) \in Nat /\ m[Len(l) + 1] = e
        /\ \A j \in 1 .. Len(l) : m[j] = l[j]
    OBVIOUS
  <2> HIDE DEF m
  <2>2. Sorted(l) /\ \A j \in 1 .. Len(l) : l[j].due <= e.due
    <3>1. ASSUME NEW i \in 1 .. Len(l), NEW j \in 1 .. Len(l), i < j PROVE l[i].due <= l[j].due
      BY <2>1, <3>1 DEF Sorted, m
    <3>2. ASSUME NEW j \in 1 .. Len(l) PROVE l[j].due <= e.due
      <4>1. j \in 1 .. Len(m) /\ Len(l) + 1 \in 1 .. Len(m) /\ j < Len(l) + 1
        BY <2>1
      <4>2. m[j].due <= m[Len(l) + 1].due
        BY <4>1 DEF Sorted, m
      <4> QED BY <4>2, <2>1
    <3> QED BY <3>1, <3>2 DEF Sorted
  <2>3. Sorted(o)
    BY <1>2, <2>2
  <2>4. o \in Seq(Entry) /\ \A i \in 1 .. Len(o) : \E j \in 1 .. Len(l) : o[i] = l[j]
    <3> HIDE DEF T
    <3> QED BY OnlyElements
  <2> HIDE DEF o
  <2>5. \A i \in 1 .. Len(o) : o[i].due <= e.due
    BY <2>2, <2>4
  <2>6. Sorted(Append(o, e))
    <3> DEFINE q == Append(o, e)
    <3>1. q \in Seq(Entry) /\ Len(q) = Len(o) + 1 /\ Len(o) \in Nat /\ q[Len(o) + 1] = e
          /\ \A i \in 1 .. Len(o) : q[i] = o[i]
      BY <2>4
    <3> HIDE DEF q
    <3>2. ASSUME NEW i \in 1 .. Len(q), NEW j \in 1 .. Len(q), i < j PROVE q[i].due <= q[j].due
      <4>1. i \in 1 .. Len(o) /\ q[i] = o[i]
        BY <3>1, <3>2
      <4>2. CASE j = Len(o) + 1
        BY <2>5, <3>1, <4>1, <4>2
      <4>3. CASE j \in 1 .. Len(o)
        BY <2>3, <3>1, <3>2, <4>1, <4>3 DEF Sorted
      <4> QED BY <3>1, <4>2, <4>3
    <3> QED BY <3>2 DEF Sorted, q
  <2>7. (e \in S => Only(Append(l, e), S) = Append(o, e)) /\ (e \notin S => Only(Append(l, e), S) = o)
    <3> HIDE DEF T
    <3>1. e \in S => Only(Append(l, e), S) = Append(Only(l, S), e)
      BY OnlyAppend, SMT
    <3>2. e \notin S => Only(Append(l, e), S) = Only(l, S)
      BY OnlyAppend, SMT
    <3> QED BY <3>1, <3>2, Zenon DEF o
  <2> QED BY <2>3, <2>6, <2>7, Zenon
<1>3. list \in T
  <2> HIDE DEF T
  <2> QED BY <1>1, <1>2, ListInduction
<1> QED BY <1>3

\* An element is inserted in a list, at the place p.
LEMMA Inserted ==
    ASSUME NEW E, NEW list \in Seq(E), NEW e \in E, NEW p \in 1 .. Len(list) + 1
    PROVE  /\ InsertAt(list, p, e) \in Seq(E)
           /\ Len(InsertAt(list, p, e)) = Len(list) + 1
           /\ \A i \in 1 .. Len(list) + 1 :
                 InsertAt(list, p, e)[i] = IF i < p THEN list[i]
                                           ELSE IF i = p THEN e ELSE list[i - 1]
<1> DEFINE a == SubSeq(list, 1, p - 1)  b == SubSeq(list, p, Len(list))  o == <<e>>  c == a \o o
<1>0. Len(list) \in Nat /\ p \in Int /\ o \in Seq(E) /\ Len(o) = 1 /\ o[1] = e
  OBVIOUS
<1>1. /\ a \in Seq(E) /\ Len(a) = p - 1 /\ \A i \in 1 .. (p - 1) : a[i] = list[i]
      /\ b \in Seq(E) /\ Len(b) = (Len(list) - p) + 1
      /\ \A i \in 1 .. (Len(list) - p) + 1 : b[i] = list[(p + i) - 1]
  OBVIOUS
<1>2. InsertAt(list, p, e) = c \o b
  BY DEF InsertAt
<1> HIDE DEF a, b, o
<1>3. /\ c \in Seq(E) /\ Len(c) = Len(a) + Len(o)
      /\ \A i \in 1 .. Len(a) + Len(o) : c[i] = IF i <= Len(a) THEN a[i] ELSE o[i - Len(a)]
  BY <1>0, <1>1, ConcatProperties
<1> HIDE DEF c
<1>4. /\ c \o b \in Seq(E) /\ Len(c \o b) = Len(c) + Len(b)
      /\ \A i \in 1 .. Len(c) + Len(b) : (c \o b)[i] = IF i <= Len(c) THEN c[i] ELSE b[i - Len(c)]
  <2>1. b \in Seq(E) /\ c \in Seq(E)
    BY <1>1, <1>3
  <2> QED BY <2>1, ConcatProperties
<1>a. Len(c) = p /\ Len(c) + Len(b) = Len(list) + 1
  BY <1>0, <1>1, <1>3
<1>b. c[p] = e /\ \A i \in 1 .. (p - 1) : c[i] = list[i]
  <2>1. p \in 1 .. Len(a) + Len(o) /\ ~(p <= Len(a)) /\ p - Len(a) = 1
    BY <1>0, <1>1
  <2>2. c[p] = e
    BY <1>0, <1>3, <2>1
  <2>3. ASSUME NEW i \in 1 .. (p - 1) PROVE c[i] = list[i]
    <3>1. i \in 1 .. Len(a) + Len(o) /\ i <= Len(a)
      BY <1>0, <1>1
    <3> QED BY <1>1, <1>3, <3>1
  <2> QED BY <2>2, <2>3
<1> DEFINE r == c \o b
<1> HIDE DEF r
<1>5. ASSUME NEW i \in 1 .. Len(list) + 1
      PROVE  r[i] = IF i < p THEN list[i] ELSE IF i = p THEN e ELSE list[i - 1]
  <2>0. r[i] = IF i <= p THEN c[i] ELSE b[i - p]
    BY <1>4, <1>a DEF r
  <2>1. CASE i < p
    <3>1. i \in 1 .. (p - 1) /\ i <= p
      BY <1>0, <2>1
    <3> QED BY <2>0, <2>1, <3>1, <1>b
  <2>2. CASE i = p
    BY <2>0, <2>2, <1>b
  <2>3. CASE i > p
    <3>1. i - p \in 1 .. (Len(list) - p) + 1 /\ (p + (i - p)) - 1 = i - 1
      BY <2>3
    <3>2. b[i - p] = list[(p + (i - p)) - 1]
      BY <3>1, <1>1
    <3> QED BY <2>0, <2>3, <3>1, <3>2
  <2> QED BY <2>1, <2>2, <2>3, <1>0
<1>6. r \in Seq(E) /\ Len(r) = Len(list) + 1
  BY <1>4, <1>a DEF r
<1>7. InsertAt(list, p, e) = r
  BY <1>2 DEF r
<1> QED BY <1>5, <1>6, <1>7

\* addScheduledSection(): the list gets the element, and is still sorted.
LEMMA ScheduledOne ==
    ASSUME NEW E \in SUBSET Entry, NEW list \in Seq(E), NEW d \in E
    PROVE  /\ AddScheduled(list, d) \in Seq(E)
           /\ Sorted(list) => Sorted(AddScheduled(list, d))
           /\ \E p \in 1 .. Len(list) + 1 : AddScheduled(list, d) = InsertAt(list, p, d)
           /\ \A w \in [Entry -> Int] : Total(AddScheduled(list, d), w) = Total(list, w) + w[d]
<1> DEFINE N == Len(list)
           Place(i) == /\ \A j \in 1 .. (i - 1) : list[j].due < d.due
                       /\ i <= N => list[i].due >= d.due
           p == CHOOSE i \in 1 .. N + 1 : Place(i)
           after == InsertAt(list, p, d)
<1>0. N \in Nat /\ d.due \in Int /\ \A i \in 1 .. N : list[i] \in Entry /\ list[i].due \in Int
  <2>1. N \in Nat /\ \A i \in 1 .. N : list[i] \in E
    OBVIOUS
  <2>2. \A e \in Entry : e.due \in Int
    BY DEF Entry
  <2> QED BY <2>1, <2>2
<1>1. \E i \in 1 .. N + 1 : Place(i)
  <2> DEFINE T == {i \in 1 .. N + 1 : i <= N => list[i].due >= d.due}
  <2>1. T \in SUBSET Nat /\ N + 1 \in T
    BY <1>0
  <2>2. PICK i \in T : \A j \in T : i <= j
    BY <2>1, LeastElement
  <2>3. ASSUME NEW j \in 1 .. (i - 1) PROVE list[j].due < d.due
    <3>1. j \in 1 .. N /\ j \notin T
      BY <1>0, <2>2
    <3> QED BY <1>0, <3>1
  <2>4. Place(i)
    BY <2>2, <2>3
  <2> QED BY <2>2, <2>4
<1>2. p \in 1 .. N + 1 /\ Place(p)
  <2> HIDE DEF Place
  <2> QED BY <1>1
<1>3. AddScheduled(list, d) = after
  BY Zenon DEF AddScheduled
<1> HIDE DEF p
<1>4. /\ after \in Seq(E) /\ Len(after) = N + 1
      /\ \A i \in 1 .. N + 1 : after[i] = IF i < p THEN list[i] ELSE IF i = p THEN d ELSE list[i - 1]
  BY <1>2, Inserted
<1>5. ASSUME Sorted(list) PROVE Sorted(after)
  <2> HIDE DEF after
  <2> SUFFICES ASSUME NEW i \in 1 .. N + 1, NEW j \in 1 .. N + 1, i < j
               PROVE  after[i].due <= after[j].due
    BY <1>4 DEF Sorted
  <2>1. \A a, b \in 1 .. N : a < b => list[a].due <= list[b].due
    BY <1>5 DEF Sorted
  <2>2. \A a \in 1 .. N : a < p => list[a].due < d.due
    BY <1>2
  <2>3. \A a \in 1 .. N : a >= p => list[a].due >= d.due
    <3> SUFFICES ASSUME NEW a \in 1 .. N, a >= p PROVE list[a].due >= d.due
      OBVIOUS
    <3>1. p \in 1 .. N /\ list[p].due >= d.due
      BY <1>0, <1>2
    <3>2. CASE a = p
      BY <3>1, <3>2
    <3>3. CASE a > p
      BY <1>0, <2>1, <3>1, <3>3
    <3> QED BY <1>2, <3>2, <3>3
  <2>4. CASE j < p
    <3>1. i \in 1 .. N /\ j \in 1 .. N /\ i < p
      BY <1>0, <1>2, <2>4
    <3>2. after[i] = list[i] /\ after[j] = list[j]
      BY <1>4, <2>4, <3>1
    <3> QED BY <2>1, <3>1, <3>2
  <2>5. CASE j = p
    <3>1. i \in 1 .. N /\ i < p
      BY <1>0, <1>2, <2>5
    <3>2. after[i] = list[i] /\ after[j] = d
      BY <1>4, <2>5, <3>1
    <3> QED BY <1>0, <2>2, <3>1, <3>2
  <2>6. CASE j > p
    <3>1. after[j] = list[j - 1] /\ j - 1 \in 1 .. N
      BY <1>0, <1>2, <1>4, <2>6
    <3>2. CASE i < p
      <4>1. after[i] = list[i] /\ i \in 1 .. N /\ i < j - 1
        BY <1>0, <1>2, <1>4, <2>6, <3>2
      <4> QED BY <2>1, <3>1, <4>1
    <3>3. CASE i = p
      <4>1. after[i] = d
        BY <1>4, <3>3
      <4> QED BY <1>0, <1>2, <2>3, <2>6, <3>1, <4>1
    <3>4. CASE i > p
      <4>1. after[i] = list[i - 1] /\ i - 1 \in 1 .. N /\ i - 1 < j - 1
        BY <1>0, <1>2, <1>4, <2>6, <3>4
      <4> QED BY <2>1, <3>1, <4>1
    <3> QED BY <1>2, <3>2, <3>3, <3>4
  <2> QED BY <1>2, <2>4, <2>5, <2>6
<1>6. \A w \in [Entry -> Int] : Total(after, w) = Total(list, w) + w[d]
  <2>1. list \in Seq(Entry) /\ d \in Entry
    BY SeqMonotonic
  <2> QED BY <1>2, <2>1, TotalInsert
<1> QED BY <1>2, <1>3, <1>4, <1>5, <1>6

\* f is the function in the definition of AddAllScheduled, and as the definition says it.
Scheduling(f, list, new) ==
    f = [n \in 0 .. Len(new) |-> IF n = 0 THEN list ELSE AddScheduled(f[n - 1], new[n])]
Schedules(f, list, new, E) ==
    /\ f \in [0 .. Len(new) -> Seq(E)] /\ f[0] = list
    /\ \A n \in 1 .. Len(new) : f[n] = AddScheduled(f[n - 1], new[n])

\* The turns of the loop which schedules a list of sections.
LEMMA ScheduleTurns ==
    ASSUME NEW E \in SUBSET Entry, NEW list \in Seq(E), NEW new \in Seq(E)
    PROVE  \E f : Schedules(f, list, new, E) /\ AddAllScheduled(list, new) = f[Len(new)]
<1> DEFINE N == Len(new)
           A == Seq(E)
           F == [n \in 1 .. N |-> [x \in A |-> AddScheduled(x, new[n])]]
<1>0. N \in Nat /\ list \in A /\ \A n \in 1 .. N : new[n] \in E
  OBVIOUS
<1>1. F \in [1 .. N -> [A -> A]]
  <2>1. \A n \in 1 .. N : \A x \in A : AddScheduled(x, new[n]) \in A
    BY <1>0, ScheduledOne
  <2> QED BY <2>1
<1>a. \A n \in 1 .. N : \A x \in A : F[n][x] = AddScheduled(x, new[n])
  OBVIOUS
<1>2. PICK f : Recursive(f, N, A, list, F)
  <2> HIDE DEF N, F, A
  <2>1. N \in Nat /\ list \in A
    BY <1>0
  <2> QED BY <2>1, <1>1, RecursionExists, Zenon
<1> HIDE DEF F
<1>3. Scheduling(f, list, new)
  <2> DEFINE g == [n \in 0 .. N |-> IF n = 0 THEN list ELSE AddScheduled(f[n - 1], new[n])]
  <2>1. ASSUME NEW n \in 0 .. N PROVE f[n] = g[n]
    <3>1. CASE n = 0
      BY <3>1, <1>2 DEF Recursive
    <3>2. CASE n \in 1 .. N
      <4>1. n - 1 \in 0 .. N /\ f[n - 1] \in A /\ f[n] = F[n][f[n - 1]]
        <5>1. n - 1 \in 0 .. N
          BY <3>2, <1>0
        <5> QED BY <5>1, <3>2, <1>2 DEF Recursive
      <4>2. g[n] = AddScheduled(f[n - 1], new[n])
        BY <3>2, <1>0
      <4> HIDE DEF g
      <4> QED BY <4>1, <4>2, <3>2, <1>a
    <3> QED BY <3>1, <3>2, <1>0
  <2>2. f = g
    BY <2>1, <1>2 DEF Recursive
  <2> QED BY <2>2 DEF Scheduling
<1> DEFINE G == CHOOSE g : Scheduling(g, list, new)
<1>4. Scheduling(G, list, new)
  BY <1>3
<1>5. AddAllScheduled(list, new) = G[N]
  BY Zenon DEF AddAllScheduled, Scheduling
<1> HIDE DEF G
<1>6. /\ G = [n \in 0 .. N |-> G[n]] /\ G[0] = list
      /\ \A n \in 1 .. N : G[n - 1] \in A => G[n] = F[n][G[n - 1]]
  <2>1. G = [n \in 0 .. N |-> IF n = 0 THEN list ELSE AddScheduled(G[n - 1], new[n])]
    BY <1>4 DEF Scheduling
  <2>2. G = [n \in 0 .. N |-> G[n]] /\ G[0] = list
    BY <1>0, <2>1
  <2>3. ASSUME NEW n \in 1 .. N, G[n - 1] \in A PROVE G[n] = F[n][G[n - 1]]
    <3>0. n \in 0 .. N /\ n # 0
      BY <1>0
    <3>1. G[n] = AddScheduled(G[n - 1], new[n])
      BY <3>0, <2>1, Zenon
    <3> QED BY <3>1, <2>3, <1>a
  <2> QED BY <2>2, <2>3
<1>7. Recursive(G, N, A, list, F)
  <2>1. N \in Nat /\ list \in A
    BY <1>0
  <2> HIDE DEF N, A, F
  <2> QED BY <2>1, <1>1, <1>6, RecursionIs, Zenon
<1>8. Schedules(G, list, new, E)
  <2>1. ASSUME NEW n \in 1 .. N PROVE G[n] = AddScheduled(G[n - 1], new[n])
    <3>1. n - 1 \in 0 .. N /\ G[n - 1] \in A /\ G[n] = F[n][G[n - 1]]
      BY <1>0, <1>7, SMTT(30) DEF Recursive
    <3> QED BY <3>1, <1>a
  <2> QED BY <2>1, <1>7 DEF Recursive, Schedules
<1> QED BY <1>5, <1>8

\* addScheduledSection() for all elements of a list.
LEMMA ScheduledAll ==
    ASSUME NEW E \in SUBSET Entry, NEW list \in Seq(E), NEW new \in Seq(E)
    PROVE  /\ AddAllScheduled(list, new) \in Seq(E)
           /\ Sorted(list) => Sorted(AddAllScheduled(list, new))
           /\ \A w \in [Entry -> Int] :
                 Total(AddAllScheduled(list, new), w) = Total(list, w) + Total(new, w)
<1> DEFINE N == Len(new)
<1>0. N \in Nat /\ list \in Seq(Entry) /\ new \in Seq(Entry)
  BY SeqMonotonic
<1>1. PICK f : Schedules(f, list, new, E) /\ AddAllScheduled(list, new) = f[N]
  BY ScheduleTurns
<1>2. \A n \in 1 .. N : /\ new[n] \in E /\ f[n - 1] \in Seq(E) /\ f[n] = AddScheduled(f[n - 1], new[n])
                        /\ n - 1 \in 0 .. N
  <2> SUFFICES ASSUME NEW n \in 1 .. N
               PROVE  /\ new[n] \in E /\ f[n - 1] \in Seq(E) /\ f[n] = AddScheduled(f[n - 1], new[n])
                      /\ n - 1 \in 0 .. N
    OBVIOUS
  <2>1. new[n] \in E /\ n - 1 \in 0 .. N
    BY <1>0
  <2> QED BY <1>1, <2>1 DEF Schedules
<1>3. ASSUME Sorted(list) PROVE Sorted(f[N])
  <2> DEFINE S == {n \in 0 .. N : Sorted(f[n])}
  <2>1. 0 \in S
    BY <1>0, <1>1, <1>3 DEF Schedules
  <2>2. ASSUME NEW n \in 1 .. N, n - 1 \in S PROVE n \in S
    <3>1. Sorted(f[n - 1]) /\ n \in 0 .. N
      BY <1>0, <2>2
    <3>2. Sorted(AddScheduled(f[n - 1], new[n]))
      BY <1>2, <3>1, ScheduledOne
    <3> QED BY <1>2, <3>1, <3>2
  <2> HIDE DEF S
  <2>3. \A n \in 0 .. N : n \in S
    BY <1>0, <2>1, <2>2, Induction
  <2> QED BY <1>0, <2>3 DEF S
<1>4. ASSUME NEW w \in [Entry -> Int] PROVE Total(f[N], w) = Total(list, w) + Total(new, w)
  <2>1. PICK g : Sums(g, new, w) /\ Total(new, w) = g[N]
    BY <1>0, TotalTurns
  <2> DEFINE S == {n \in 0 .. N : Total(f[n], w) = Total(list, w) + g[n]}
  <2>2. Total(list, w) \in Int
    BY <1>0, TotalType
  <2>3. 0 \in S
    BY <1>0, <1>1, <2>1, <2>2 DEF Schedules, Sums
  <2>4. ASSUME NEW n \in 1 .. N, n - 1 \in S PROVE n \in S
    <3>1. Total(f[n - 1], w) = Total(list, w) + g[n - 1] /\ n \in 0 .. N
      BY <1>0, <2>4
    <3>2. Total(AddScheduled(f[n - 1], new[n]), w) = Total(f[n - 1], w) + w[new[n]]
      BY <1>2, ScheduledOne, ZenonT(60)
    <3>3. g[n] = g[n - 1] + w[new[n]] /\ g[n - 1] \in Int /\ w[new[n]] \in Int
      BY <1>2, <2>1 DEF Sums
    <3>4. Total(f[n], w) = Total(list, w) + g[n]
      BY <1>2, <2>2, <3>1, <3>2, <3>3
    <3> QED BY <3>1, <3>4
  <2> HIDE DEF S
  <2>5. \A n \in 0 .. N : n \in S
    BY <1>0, <2>3, <2>4, Induction
  <2> QED BY <1>0, <2>1, <2>5 DEF S
<1>5. f[N] \in Seq(E)
  BY <1>0, <1>1 DEF Schedules
<1> QED BY <1>1, <1>3, <1>4, <1>5

-----------------------------------------------------------------------------
(***************************************************************************)
(* The counters of the packetizer.                                         *)
(***************************************************************************)
\* What one element of a list counts for: in _section_count, in _remain_in_cycle, and in
\* _sched_packets.
One == [e \in Entry |-> 1]
Late(c) == [e \in Entry |-> IF e.lastCycle # c THEN 1 ELSE 0]
Weight == [e \in Entry |-> PacketsOf(e.section)]

\* The elements of the lists in cycle c, with current versions V.
Live(c, V) == {e \in Entry : e.lastCycle <= c /\ e.section.ver = V[e.section.tid]}

Versions == {V \in [TIDs -> Nat] : \A t \in TIDs : V[t] \in DOMAIN TableSizes[t]}

Object == [cc : Nat, section : Sect, next : Nat, packets : Nat, in : Nat, out : Nat,
           stuffing : Policies, bitrate : Nat, sched : Seq(Entry), other : Seq(Entry),
           schedPackets : Int, count : Int, cycle : Nat \ {0}, remain : Int, cycleEnd : Int]

\* The counters are exact: see CycleAccounting.
Exact(z, V) ==
    /\ z \in Object
    /\ z.sched \in Seq(Live(z.cycle, V)) /\ z.other \in Seq(Live(z.cycle, V))
    /\ z.count = Total(z.sched, One) + Total(z.other, One)
    /\ z.remain = Total(z.sched, Late(z.cycle)) + Total(z.other, Late(z.cycle))
    /\ z.schedPackets = Total(z.sched, Weight)
    /\ Sorted(z.sched)

\* The weights are integers.
LEMMA Weights ==
    /\ One \in [Entry -> Int] /\ Weight \in [Entry -> Int] /\ \A c \in Nat : Late(c) \in [Entry -> Int]
    /\ \A e \in Entry : One[e] = 1 /\ Weight[e] = PacketsOf(e.section) /\ PacketsOf(e.section) \in Int
    /\ \A e \in Entry, c \in Nat : Late(c)[e] = IF e.lastCycle # c THEN 1 ELSE 0
<1>1. ASSUME NEW e \in Entry PROVE PacketsOf(e.section) \in Int
  <2>1. e.section.size \in Nat
    BY DEF Entry, Listed, Sect
  <2>2. PayloadSize \in Nat \ {0}
    BY SizeAssumption
  <2> QED BY <2>1, <2>2 DEF PacketsOf
<1>2. Weight \in [Entry -> Int] /\ \A e \in Entry : Weight[e] = PacketsOf(e.section)
  BY <1>1 DEF Weight
<1>3. One \in [Entry -> Int] /\ \A e \in Entry : One[e] = 1
  BY DEF One
<1>4. ASSUME NEW c \in Nat
      PROVE  Late(c) \in [Entry -> Int] /\ \A e \in Entry : Late(c)[e] = IF e.lastCycle # c THEN 1 ELSE 0
  BY DEF Late
<1> QED BY <1>1, <1>2, <1>3, <1>4

\* f is the function in the definition of PacketsIn.
Counting(f, list) ==
    f = [n \in 0 .. Len(list) |-> IF n = 0 THEN 0 ELSE f[n - 1] + PacketsOf(list[n].section)]

\* PacketsIn is a sum of weights.
LEMMA PacketsTotal ==
    ASSUME NEW list \in Seq(Entry)
    PROVE  PacketsIn(list) = Total(list, Weight)
<1> DEFINE N == Len(list)
<1>0. N \in Nat
  OBVIOUS
<1>1. PICK f : Sums(f, list, Weight) /\ Total(list, Weight) = f[N]
  BY Weights, TotalTurns
<1>2. \A n \in 1 .. N : f[n] = f[n - 1] + PacketsOf(list[n].section)
  <2> SUFFICES ASSUME NEW n \in 1 .. N PROVE f[n] = f[n - 1] + PacketsOf(list[n].section)
    OBVIOUS
  <2>1. list[n] \in Entry
    OBVIOUS
  <2>2. Weight[list[n]] = PacketsOf(list[n].section)
    BY <2>1, Weights
  <2> QED BY <1>1, <2>2 DEF Sums
<1>3. Counting(f, list)
  <2> DEFINE g == [n \in 0 .. N |-> IF n = 0 THEN 0 ELSE f[n - 1] + PacketsOf(list[n].section)]
  <2>1. ASSUME NEW n \in 0 .. N PROVE f[n] = g[n]
    <3>1. CASE n = 0
      BY <3>1, <1>1 DEF Sums
    <3>2. CASE n \in 1 .. N
      BY <3>2, <1>2
    <3> QED BY <1>0, <3>1, <3>2
  <2>2. f = g
    BY <2>1, <1>1 DEF Sums
  <2> QED BY <2>2 DEF Counting
<1> DEFINE G == CHOOSE g : Counting(g, list)
<1>4. Counting(G, list)
  BY <1>3
<1>5. PacketsIn(list) = G[N]
  BY Zenon DEF PacketsIn, Counting
<1> HIDE DEF G
<1> DEFINE S == {n \in 0 .. N : f[n] = G[n]}
<1>6. 0 \in S
  BY <1>0, <1>1, <1>4 DEF Sums, Counting
<1>7. ASSUME NEW n \in 1 .. N, n - 1 \in S PROVE n \in S
  <2>1. n \in 0 .. N /\ n # 0 /\ f[n - 1] = G[n - 1]
    BY <1>0, <1>7
  <2>2. G[n] = G[n - 1] + PacketsOf(list[n].section)
    BY <1>4, <2>1 DEF Counting
  <2> QED BY <1>2, <2>1, <2>2
<1>8. \A n \in 0 .. N : n \in S
  <2> HIDE DEF S, N
  <2> QED BY <1>0, <1>6, <1>7, Induction
<1> QED BY <1>0, <1>1, <1>5, <1>8

\* The number of the elements which were not sent in a cycle is a sum of weights.
LEMMA LateTotal ==
    ASSUME NEW list \in Seq(Entry), NEW c \in Nat
    PROVE  Cardinality({i \in 1 .. Len(list) : list[i].lastCycle # c}) = Total(list, Late(c))
<1> DEFINE I(l) == {i \in 1 .. Len(l) : l[i].lastCycle # c}
           T == {l \in Seq(Entry) : IsFiniteSet(I(l)) /\ Cardinality(I(l)) = Total(l, Late(c))}
<1>0. Late(c) \in [Entry -> Int] /\ \A e \in Entry : Late(c)[e] = IF e.lastCycle # c THEN 1 ELSE 0
  BY Weights
<1>1. <<>> \in T
  <2>1. I(<<>>) = {}
    OBVIOUS
  <2>2. Total(<<>>, Late(c)) = 0
    BY <1>0, TotalType
  <2> QED BY <2>1, <2>2, FS_EmptySet
<1>2. ASSUME NEW l \in Seq(Entry), NEW e \in Entry, l \in T PROVE Append(l, e) \in T
  <2> DEFINE m == Append(l, e)
  <2>1. m \in Seq(Entry) /\ Len(m) = Len(l) + 1 /\ Len(l) \in Nat /\ m[Len(l) + 1] = e
        /\ \A j \in 1 .. Len(l) : m[j] = l[j]
    OBVIOUS
  <2>2. IsFiniteSet(I(l)) /\ Cardinality(I(l)) = Total(l, Late(c)) /\ Total(l, Late(c)) \in Int
    BY <1>0, <1>2, TotalType
  <2>3. Total(m, Late(c)) = Total(l, Late(c)) + Late(c)[e]
    BY <1>0, TotalAppend
  <2> HIDE DEF m
  <2>4. CASE e.lastCycle # c
    <3>1. I(m) = I(l) \cup {Len(l) + 1} /\ Len(l) + 1 \notin I(l)
      BY <2>1, <2>4
    <3>2. IsFiniteSet(I(m)) /\ Cardinality(I(m)) = Cardinality(I(l)) + 1
      <4> HIDE DEF I
      <4> QED BY <2>2, <3>1, FS_AddElement
    <3> QED BY <1>0, <2>1, <2>2, <2>3, <2>4, <3>2 DEF m
  <2>5. CASE e.lastCycle = c
    <3>1. I(m) = I(l)
      BY <2>1, <2>5
    <3>2. Late(c)[e] = 0
      BY <1>0, <2>5
    <3>3. Total(m, Late(c)) = Total(l, Late(c))
      BY <2>2, <2>3, <3>2
    <3>4. IsFiniteSet(I(m)) /\ Cardinality(I(m)) = Total(m, Late(c))
      <4> HIDE DEF I
      <4> QED BY <2>2, <3>1, <3>3
    <3> QED BY <2>1, <3>4 DEF m
  <2> QED BY <2>4, <2>5
<1>3. list \in T
  <2> HIDE DEF T
  <2> QED BY <1>1, <1>2, ListInduction
<1> QED BY <1>3

\* Lists of live elements are lists of elements.
LEMMA LiveLists ==
    ASSUME NEW c, NEW V, NEW list \in Seq(Live(c, V))
    PROVE  list \in Seq(Entry) /\ Live(c, V) \in SUBSET Entry
<1>1. Live(c, V) \subseteq Entry
  BY DEF Live
<1> QED BY <1>1, SeqMonotonic

\* The sums over the lists of the object are integers.
LEMMA ListTotals ==
    ASSUME NEW list \in Seq(Entry), NEW c \in Nat
    PROVE  Total(list, One) \in Int /\ Total(list, Late(c)) \in Int /\ Total(list, Weight) \in Int
  BY Weights, TotalType

\* addSection() of a section of a table with its current version.
LEMMA AddSectionExact ==
    ASSUME NEW V \in Versions, NEW z, Exact(z, V), NEW s \in Listed, s.ver = V[s.tid], NEW rep \in Nat
    PROVE  Exact(AddSection(z, s, rep), V)
<1> DEFINE c == z.cycle
           unsched == rep = 0 \/ z.bitrate = 0
           d == [section |-> s, rep |-> rep, lastPacket |-> 0, lastCycle |-> 0,
                 due |-> IF unsched THEN 0 ELSE z.packets]
           E == Live(c, V)
           y == AddSection(z, s, rep)
<1>1. z \in Object /\ c \in Nat \ {0} /\ z.packets \in Nat /\ z.bitrate \in Nat
  BY DEF Exact, Object
<1>2. d \in Entry /\ d \in E /\ d.lastCycle # c /\ d.section = s
  BY <1>1 DEF Entry, Live
<1>3. E \in SUBSET Entry /\ z.sched \in Seq(E) /\ z.other \in Seq(E)
      /\ z.sched \in Seq(Entry) /\ z.other \in Seq(Entry)
  BY LiveLists DEF Exact
<1>4. One[d] = 1 /\ Late(c)[d] = 1 /\ Weight[d] = PacketsOf(s) /\ PacketsOf(s) \in Int
  BY <1>1, <1>2, Weights
<1>5. /\ Total(z.sched, One) \in Int /\ Total(z.sched, Late(c)) \in Int /\ Total(z.sched, Weight) \in Int
      /\ Total(z.other, One) \in Int /\ Total(z.other, Late(c)) \in Int
  BY <1>1, <1>3, ListTotals
<1>6. /\ z.count = Total(z.sched, One) + Total(z.other, One)
      /\ z.remain = Total(z.sched, Late(c)) + Total(z.other, Late(c))
      /\ z.schedPackets = Total(z.sched, Weight) /\ Sorted(z.sched)
  BY DEF Exact
<1> HIDE DEF d, E
<1>7. CASE unsched
  <2> DEFINE o == Append(z.other, d)  k == z.count + 1  r == z.remain + 1
  <2>1. y = [z EXCEPT !.count = k, !.remain = r, !.other = o]
    BY <1>1, <1>7 DEF AddSection, Object, d
  <2>2. o \in Seq(E) /\ o \in Seq(Entry)
    BY <1>2, <1>3
  <2>3. Total(o, One) = Total(z.other, One) + 1 /\ Total(o, Late(c)) = Total(z.other, Late(c)) + 1
    <3>1. \A w \in [Entry -> Int] : Total(o, w) = Total(z.other, w) + w[d]
      BY <1>2, <1>3, TotalAppend
    <3> QED BY <1>1, <1>4, <3>1, Weights
  <2>k. k \in Int /\ r \in Int
    BY <1>1 DEF Object
  <2> HIDE DEF o, k, r, y
  <2>4. y \in Object
    BY <1>1, <2>1, <2>2, <2>k DEF Object
  <2>5. /\ y.count = k /\ y.remain = r /\ y.other = o
        /\ y.sched = z.sched /\ y.cycle = c /\ y.schedPackets = z.schedPackets
    BY <1>1, <2>1, <2>2 DEF Object
  <2>6. /\ k = Total(z.sched, One) + Total(o, One)
        /\ r = Total(z.sched, Late(c)) + Total(o, Late(c))
    BY <1>5, <1>6, <2>3 DEF k, r
  <2> HIDE DEF c
  <2> QED BY <1>3, <1>6, <2>2, <2>4, <2>5, <2>6 DEF Exact, E, y
<1>8. CASE ~unsched
  <2> DEFINE o == AddScheduled(z.sched, d)  k == z.count + 1  r == z.remain + 1
             n == z.schedPackets + PacketsOf(s)
  <2>1. y = [z EXCEPT !.count = k, !.remain = r, !.sched = o, !.schedPackets = n]
    BY <1>1, <1>8 DEF AddSection, Object, d
  <2>2. o \in Seq(E) /\ Sorted(o)
    BY <1>2, <1>3, <1>6, ScheduledOne
  <2>3. /\ Total(o, One) = Total(z.sched, One) + 1 /\ Total(o, Late(c)) = Total(z.sched, Late(c)) + 1
        /\ Total(o, Weight) = Total(z.sched, Weight) + PacketsOf(s)
    <3>1. \A w \in [Entry -> Int] : Total(o, w) = Total(z.sched, w) + w[d]
      BY <1>2, <1>3, ScheduledOne
    <3> QED BY <1>1, <1>4, <3>1, Weights
  <2>4. o \in Seq(Entry)
    BY <1>3, <2>2, SeqMonotonic
  <2>k. k \in Int /\ r \in Int /\ n \in Int
    BY <1>1, <1>4, SMTT(30) DEF Object
  <2> HIDE DEF o, k, r, n, y
  <2>5. y \in Object
    BY <1>1, <2>1, <2>4, <2>k DEF Object
  <2>6. /\ y.count = k /\ y.remain = r /\ y.sched = o
        /\ y.other = z.other /\ y.cycle = c /\ y.schedPackets = n
    BY <1>1, <2>1, <2>2 DEF Object
  <2>7. /\ k = Total(o, One) + Total(z.other, One)
        /\ r = Total(o, Late(c)) + Total(z.other, Late(c))
        /\ n = Total(o, Weight)
    BY <1>4, <1>5, <1>6, <2>3 DEF k, r, n
  <2> HIDE DEF c
  <2> QED BY <1>3, <1>6, <2>2, <2>5, <2>6, <2>7 DEF Exact, E, y
<1> QED BY <1>7, <1>8

\* reset() and removeAll().
LEMMA RemoveAllExact ==
    ASSUME NEW V \in Versions, NEW z, Exact(z, V), NEW W \in Versions
    PROVE  Exact(RemoveAll(z), W)
<1> DEFINE y == RemoveAll(z)
<1>1. z \in Object
  BY DEF Exact
<1>2. /\ y \in Object /\ y.count = 0 /\ y.remain = 0 /\ y.sched = <<>> /\ y.other = <<>>
      /\ y.cycle \in Nat /\ y.schedPackets = 0
  <2> DEFINE e == <<>>  k == 0
  <2>1. e \in Seq(Entry) /\ k \in Int
    OBVIOUS
  <2>2. y = [z EXCEPT !.count = k, !.remain = k, !.schedPackets = k, !.sched = e, !.other = e]
    BY DEF RemoveAll
  <2> HIDE DEF e, k, y
  <2>3. y \in Object
    BY <1>1, <2>1, <2>2 DEF Object
  <2>4. /\ y.count = k /\ y.remain = k /\ y.sched = e /\ y.other = e
        /\ y.cycle = z.cycle /\ y.schedPackets = k
    BY <1>1, <2>2 DEF Object
  <2>5. z.cycle \in Nat
    BY <1>1 DEF Object
  <2> QED BY <2>3, <2>4, <2>5 DEF e, k
<1>3. Total(<<>>, One) = 0 /\ Total(<<>>, Weight) = 0 /\ Total(<<>>, Late(y.cycle)) = 0
  BY <1>2, Weights, TotalType
<1>4. <<>> \in Seq(Live(y.cycle, W)) /\ Sorted(<<>>)
  BY DEF Sorted
<1> HIDE DEF y
<1>5. Exact(y, W)
  BY <1>2, <1>3, <1>4 DEF Exact
<1> QED BY <1>5 DEF y

\* What the operations on the lists leave alone.
SameOutput(y, z) ==
    /\ y.section = z.section /\ y.next = z.next /\ y.cc = z.cc /\ y.packets = z.packets
    /\ y.in = z.in /\ y.out = z.out /\ y.stuffing = z.stuffing /\ y.cycle = z.cycle
    /\ y.cycleEnd = z.cycleEnd

\* addSection() and removeAll() leave the current section alone.
LEMMA AddSectionSame ==
    ASSUME NEW z \in Object, NEW s, NEW rep
    PROVE  SameOutput(AddSection(z, s, rep), z) /\ SameOutput(RemoveAll(z), z)
<1> DEFINE y == AddSection(z, s, rep)
           d == [section |-> s, rep |-> rep, lastPacket |-> 0, lastCycle |-> 0,
                 due |-> IF rep = 0 \/ z.bitrate = 0 THEN 0 ELSE z.packets]
<1>1. CASE rep = 0 \/ z.bitrate = 0
  <2> DEFINE o == Append(z.other, d)  k == z.count + 1  r == z.remain + 1
  <2>1. y = [z EXCEPT !.count = k, !.remain = r, !.other = o]
    BY <1>1 DEF AddSection, Object
  <2> HIDE DEF o, k, r, y
  <2>2. SameOutput(y, z)
    BY <2>1 DEF SameOutput, Object
  <2> QED BY <2>2 DEF y, SameOutput, RemoveAll, Object
<1>2. CASE ~(rep = 0 \/ z.bitrate = 0)
  <2> DEFINE o == AddScheduled(z.sched, d)  k == z.count + 1  r == z.remain + 1
             n == z.schedPackets + PacketsOf(s)
  <2>1. y = [z EXCEPT !.count = k, !.remain = r, !.sched = o, !.schedPackets = n]
    BY <1>2 DEF AddSection, Object
  <2> HIDE DEF o, k, r, n, y
  <2>2. SameOutput(y, z)
    BY <2>1 DEF SameOutput, Object
  <2> QED BY <2>2 DEF y, SameOutput, RemoveAll, Object
<1> QED BY <1>1, <1>2

\* Sections of the current versions.
Current(V) == {s \in Listed : s.ver = V[s.tid]}

\* The objects which differ from z by their lists only, with exact counters.
Variants(z, V) == {y \in Object : Exact(y, V) /\ SameOutput(y, z)}

\* f is the function in the definition of AddSections.
Adding(f, z, sects, rep) ==
    f = [n \in 0 .. Len(sects) |-> IF n = 0 THEN z ELSE AddSection(f[n - 1], sects[n], rep)]

\* addSections() keeps the counters exact.
LEMMA AddSectionsExact ==
    ASSUME NEW V \in Versions, NEW z, Exact(z, V), NEW sects \in Seq(Current(V)), NEW rep \in Nat
    PROVE  AddSections(z, sects, rep) \in Variants(z, V)
<1> DEFINE N == Len(sects)
           A == Variants(z, V)
           F == [n \in 1 .. N |-> [x \in A |-> AddSection(x, sects[n], rep)]]
<1>0. N \in Nat /\ \A n \in 1 .. N : sects[n] \in Current(V)
  OBVIOUS
<1>b. z \in A
  BY DEF Variants, SameOutput, Exact
<1>1. F \in [1 .. N -> [A -> A]]
  <2>1. ASSUME NEW n \in 1 .. N, NEW x \in A PROVE AddSection(x, sects[n], rep) \in A
    <3>1. sects[n] \in Listed /\ sects[n].ver = V[sects[n].tid] /\ Exact(x, V) /\ x \in Object
          /\ SameOutput(x, z)
      BY <1>0 DEF Current, Variants
    <3>2. Exact(AddSection(x, sects[n], rep), V)
      BY <3>1, AddSectionExact
    <3>3. SameOutput(AddSection(x, sects[n], rep), x)
      BY <3>1, AddSectionSame
    <3>4. SameOutput(AddSection(x, sects[n], rep), z)
      BY <3>1, <3>3 DEF SameOutput
    <3> QED BY <3>2, <3>4 DEF Variants, Exact
  <2> QED BY <2>1
<1>a. \A n \in 1 .. N : \A x \in A : F[n][x] = AddSection(x, sects[n], rep)
  OBVIOUS
<1>2. PICK f : Recursive(f, N, A, z, F)
  <2> HIDE DEF N, F, A
  <2>1. N \in Nat
    BY <1>0
  <2> QED BY <2>1, <1>1, <1>b, RecursionExists, Zenon
<1> HIDE DEF F, A
<1>3. Adding(f, z, sects, rep)
  <2> DEFINE g == [n \in 0 .. N |-> IF n = 0 THEN z ELSE AddSection(f[n - 1], sects[n], rep)]
  <2>1. ASSUME NEW n \in 0 .. N PROVE f[n] = g[n]
    <3>1. CASE n = 0
      BY <3>1, <1>2 DEF Recursive
    <3>2. CASE n \in 1 .. N
      <4>1. n - 1 \in 0 .. N
        BY <3>2, <1>0
      <4>2. f[n - 1] \in A /\ f[n] = F[n][f[n - 1]]
        BY <4>1, <3>2, <1>2 DEF Recursive
      <4>3. g[n] = AddSection(f[n - 1], sects[n], rep)
        BY <3>2, <1>0
      <4> HIDE DEF g
      <4> QED BY <4>2, <4>3, <3>2, <1>a
    <3> QED BY <3>1, <3>2, <1>0
  <2>2. f = g
    BY <2>1, <1>2 DEF Recursive
  <2> QED BY <2>2 DEF Adding
<1> DEFINE G == CHOOSE g : Adding(g, z, sects, rep)
<1>4. Adding(G, z, sects, rep)
  BY <1>3
<1>5. AddSections(z, sects, rep) = G[N]
  BY Zenon DEF AddSections, Adding
<1> HIDE DEF G
<1>6. /\ G = [n \in 0 .. N |-> G[n]] /\ G[0] = z
      /\ \A n \in 1 .. N : G[n - 1] \in A => G[n] = F[n][G[n - 1]]
  <2>1. G = [n \in 0 .. N |-> IF n = 0 THEN z ELSE AddSection(G[n - 1], sects[n], rep)]
    BY <1>4 DEF Adding
  <2>2. G = [n \in 0 .. N |-> G[n]] /\ G[0] = z
    BY <1>0, <2>1
  <2>3. ASSUME NEW n \in 1 .. N, G[n - 1] \in A PROVE G[n] = F[n][G[n - 1]]
    <3>0. n \in 0 .. N /\ n # 0
      BY <1>0
    <3>1. G[n] = AddSection(G[n - 1], sects[n], rep)
      BY <3>0, <2>1, Zenon
    <3> QED BY <3>1, <2>3, <1>a
  <2> QED BY <2>2, <2>3
<1>7. Recursive(G, N, A, z, F)
  <2> HIDE DEF N
  <2>1. N \in Nat
    BY <1>0
  <2> QED BY <2>1, <1>1, <1>b, <1>6, RecursionIs, Zenon
<1>8. G[N] \in A
  BY <1>0, <1>7 DEF Recursive
<1> QED BY <1>5, <1>8 DEF A

\* f is the function in the definition of LoadTables.
Loading(f, z, files) ==
    f = [n \in 0 .. Len(Files) |->
            IF n = 0 THEN z
            ELSE IF Files[n] \notin files THEN f[n - 1]
            ELSE AddSections(f[n - 1], TableSections(Files[n], version[Files[n]]),
                             Repetition[Files[n]])]

\* The sections of a table with its current version.
LEMMA TableSectionsCurrent ==
    ASSUME NEW V \in Versions, NEW t \in TIDs
    PROVE  /\ TableSections(t, V[t]) \in Seq(Current(V))
           /\ Len(TableSections(t, V[t])) = Len(TableSizes[t][V[t]])
           /\ Repetition[t] \in Nat
<1> DEFINE v == V[t]  sizes == TableSizes[t][v]
<1>1. v \in Nat /\ v \in DOMAIN TableSizes[t]
  BY DEF Versions
<1>2. TableSizes[t] \in Seq(Seq(MinSection .. MaxSection) \ {<<>>}) /\ Repetition[t] \in Nat
  BY StreamAssumption
<1>3. sizes \in Seq(MinSection .. MaxSection) /\ sizes # <<>>
  BY <1>1, <1>2
<1> DEFINE N == Len(sizes)
<1>4. N \in Nat \ {0} /\ DOMAIN sizes = 1 .. N /\ \A i \in 1 .. N : sizes[i] \in MinSection .. MaxSection
  <2> HIDE DEF sizes
  <2> QED BY <1>3, EmptySeq, LenProperties, ElementOfSeq
<1>5. ASSUME NEW i \in 1 .. N
      PROVE  [tid |-> t, ver |-> v, num |-> i - 1, last |-> N - 1, size |-> sizes[i], occ |-> NoOcc]
                \in Current(V)
  <2> DEFINE s == [tid |-> t, ver |-> v, num |-> i - 1, last |-> N - 1, size |-> sizes[i], occ |-> NoOcc]
  <2>1. sizes[i] \in Nat /\ i - 1 \in Nat /\ N - 1 \in Nat /\ NoOcc \in Int
    <3>1. MinSection \in Nat /\ MaxSection \in Nat
      BY DemuxAssumption
    <3> QED BY <1>4, <3>1 DEF NoOcc
  <2>2. s \in Sect
    BY <1>1, <2>1 DEF Sect
  <2>3. /\ s.tid = t /\ s.ver = v /\ s.num + 1 = i /\ s.last + 1 = N /\ s.size = sizes[i]
        /\ s.occ = NoOcc
    BY <1>4
  <2> HIDE DEF s, sizes
  <2>4. s \in Listed
    BY <1>1, <1>4, <2>2, <2>3 DEF Listed, sizes
  <2> QED BY <2>3, <2>4 DEF Current, s
<1>6. TableSections(t, v) = [i \in 1 .. N |-> [tid |-> t, ver |-> v, num |-> i - 1, last |-> N - 1,
                                              size |-> sizes[i], occ |-> NoOcc]]
  BY <1>4 DEF TableSections
<1> QED BY <1>2, <1>4, <1>5, <1>6

\* Loading files keeps the counters exact.
LEMMA LoadTablesExact ==
    ASSUME version \in Versions, NEW z, Exact(z, version), NEW files
    PROVE  LoadTables(z, files) \in Variants(z, version)
<1> DEFINE N == Len(Files)
           A == Variants(z, version)
           Step(x, n) == AddSections(x, TableSections(Files[n], version[Files[n]]), Repetition[Files[n]])
           F == [n \in 1 .. N |-> [x \in A |-> IF Files[n] \notin files THEN x ELSE Step(x, n)]]
<1>0. N \in Nat /\ \A n \in 1 .. N : Files[n] \in TIDs
  BY StreamAssumption
<1>b. z \in A
  BY DEF Variants, SameOutput, Exact
<1>c. ASSUME NEW n \in 1 .. N, NEW x \in A PROVE Step(x, n) \in A
  <2>1. Files[n] \in TIDs /\ Exact(x, version) /\ x \in Object /\ SameOutput(x, z)
    BY <1>0 DEF Variants
  <2>2. /\ TableSections(Files[n], version[Files[n]]) \in Seq(Current(version))
        /\ Repetition[Files[n]] \in Nat
    BY <2>1, TableSectionsCurrent
  <2>3. Step(x, n) \in Variants(x, version)
    BY <2>1, <2>2, AddSectionsExact
  <2> HIDE DEF Step
  <2> QED BY <2>1, <2>3 DEF Variants, SameOutput
<1>1. F \in [1 .. N -> [A -> A]]
  <2> HIDE DEF Step
  <2> QED BY <1>c
<1>a. \A n \in 1 .. N : \A x \in A : F[n][x] = IF Files[n] \notin files THEN x ELSE Step(x, n)
  OBVIOUS
<1>2. PICK f : Recursive(f, N, A, z, F)
  <2> HIDE DEF N, F, A
  <2>1. N \in Nat
    BY <1>0
  <2> QED BY <2>1, <1>1, <1>b, RecursionExists, Zenon
<1> HIDE DEF F, A
<1>3. Loading(f, z, files)
  <2> DEFINE g == [n \in 0 .. N |-> IF n = 0 THEN z
                                    ELSE IF Files[n] \notin files THEN f[n - 1] ELSE Step(f[n - 1], n)]
  <2>1. ASSUME NEW n \in 0 .. N PROVE f[n] = g[n]
    <3> HIDE DEF Step
    <3>1. CASE n = 0
      BY <3>1, <1>2 DEF Recursive
    <3>2. CASE n \in 1 .. N
      <4>1. n - 1 \in 0 .. N
        BY <3>2, <1>0
      <4>2. f[n - 1] \in A /\ f[n] = F[n][f[n - 1]]
        BY <4>1, <3>2, <1>2 DEF Recursive
      <4>3. g[n] = IF Files[n] \notin files THEN f[n - 1] ELSE Step(f[n - 1], n)
        BY <3>2, <1>0
      <4> HIDE DEF g
      <4> QED BY <4>2, <4>3, <3>2, <1>a
    <3> QED BY <3>1, <3>2, <1>0
  <2>2. f = g
    BY <2>1, <1>2 DEF Recursive
  <2> QED BY <2>2 DEF Loading
<1> DEFINE G == CHOOSE g : Loading(g, z, files)
<1>4. Loading(G, z, files)
  BY <1>3
<1>5. LoadTables(z, files) = G[N]
  BY Zenon DEF LoadTables, Loading
<1> HIDE DEF G
<1>6. /\ G = [n \in 0 .. N |-> G[n]] /\ G[0] = z
      /\ \A n \in 1 .. N : G[n - 1] \in A => G[n] = F[n][G[n - 1]]
  <2>1. G = [n \in 0 .. N |-> IF n = 0 THEN z
                              ELSE IF Files[n] \notin files THEN G[n - 1] ELSE Step(G[n - 1], n)]
    BY <1>4 DEF Loading
  <2> HIDE DEF Step
  <2>2. G = [n \in 0 .. N |-> G[n]] /\ G[0] = z
    BY <1>0, <2>1
  <2>3. ASSUME NEW n \in 1 .. N, G[n - 1] \in A PROVE G[n] = F[n][G[n - 1]]
    <3>0. n \in 0 .. N /\ n # 0
      BY <1>0
    <3>1. G[n] = IF Files[n] \notin files THEN G[n - 1] ELSE Step(G[n - 1], n)
      BY <3>0, <2>1, Zenon
    <3> QED BY <3>1, <2>3, <1>a
  <2> QED BY <2>2, <2>3
<1>7. Recursive(G, N, A, z, F)
  <2> HIDE DEF N
  <2>1. N \in Nat
    BY <1>0
  <2> QED BY <2>1, <1>1, <1>b, <1>6, RecursionIs, Zenon
<1>8. G[N] \in A
  BY <1>0, <1>7 DEF Recursive
<1> QED BY <1>5, <1>8 DEF A

\* The elements of the list are in S if and only if they are in P, or are not.
Matches(list, S, P) == \A i \in 1 .. Len(list) : list[i] \in S <=> list[i] \in P
Differs(list, S, P) == \A i \in 1 .. Len(list) : list[i] \in S <=> list[i] \notin P

\* The elements of the list are those of a and b together, for all that is counted.
Parted(list, a, b) == \A w \in [Entry -> Int] : Total(list, w) = Total(a, w) + Total(b, w)

\* A list is split in the elements with and without a property, which are given as sets of the
\* elements of the list.
LEMMA Split ==
    ASSUME NEW E \in SUBSET Entry, NEW list \in Seq(E), NEW P \in SUBSET Entry, NEW S, NEW T,
           Matches(list, S, P), Differs(list, T, P)
    PROVE  /\ Only(list, S) \in Seq(E \cap P) /\ Only(list, T) \in Seq(E \ P)
           /\ Sorted(list) => Sorted(Only(list, T))
           /\ Parted(list, Only(list, S), Only(list, T))
<1> DEFINE Q == Entry \ P  o == Only(list, S)  p == Only(list, T)
<1>1. list \in Seq(Entry) /\ \A i \in 1 .. Len(list) : list[i] \in E
  BY SeqMonotonic
<1>2. o = Only(list, P)
  BY <1>1, OnlySame, Zenon DEF Matches
<1>3. p = Only(list, Q)
  <2>1. \A i \in 1 .. Len(list) : list[i] \in T <=> list[i] \in Q
    BY <1>1 DEF Differs
  <2> HIDE DEF Q
  <2> QED BY <1>1, <2>1, OnlySame, Zenon
<1>4. /\ Only(list, P) \in Seq(E)
      /\ \A i \in 1 .. Len(Only(list, P)) : Only(list, P)[i] \in P
  BY OnlyElements
<1>5. /\ Only(list, Q) \in Seq(E)
      /\ \A i \in 1 .. Len(Only(list, Q)) : Only(list, Q)[i] \in Q
  <2> HIDE DEF Q
  <2> QED BY OnlyElements
<1>6. o \in Seq(E \cap P)
  <2> HIDE DEF o
  <2>1. o \in Seq(E) /\ \A i \in 1 .. Len(o) : o[i] \in P
    BY <1>2, <1>4, Zenon
  <2> QED BY <2>1
<1>7. p \in Seq(E \ P)
  <2> HIDE DEF p
  <2>1. p \in Seq(E) /\ \A i \in 1 .. Len(p) : p[i] \in Q
    <3> HIDE DEF Q
    <3> QED BY <1>3, <1>5, Zenon
  <2> QED BY <2>1
<1>8. ASSUME Sorted(list) PROVE Sorted(p)
  BY <1>1, <1>8, OnlySorted
<1>9. ASSUME NEW w \in [Entry -> Int] PROVE Total(list, w) = Total(o, w) + Total(p, w)
  <2>1. Apart(P, Q, Entry)
    BY DEF Apart
  <2> HIDE DEF Q
  <2>2. Total(list, w) = Total(Only(list, P), w) + Total(Only(list, Q), w)
    BY <1>1, <2>1, TotalParts
  <2> QED BY <1>2, <1>3, <2>2
<1> QED BY <1>6, <1>7, <1>8, <1>9 DEF Parted

\* The sections which count in _remain_in_cycle.
LEMMA UnsentTotal ==
    ASSUME NEW list \in Seq(Entry), NEW z, z.cycle \in Nat
    PROVE  Len(Unsent(z, list)) = Total(list, Late(z.cycle))
<1> DEFINE c == z.cycle
           P == {e \in Entry : e.lastCycle # c}
           S == {d \in ToSet(list) : d.lastCycle # c}
<1>1. \A i \in 1 .. Len(list) : list[i] \in S <=> list[i] \in P
  BY DEF ToSet
<1>2. Unsent(z, list) = Only(list, S)
  BY DEF Unsent
<1>3. Within(Late(c), One, P, Entry)
  BY Weights DEF Within
<1>4. Late(c) \in [Entry -> Int] /\ One \in [Entry -> Int] /\ \A e \in Entry : One[e] = 1
  BY Weights
<1> HIDE DEF P, S, c
<1>5. Only(list, S) = Only(list, P)
  BY <1>1, OnlySame, Zenon
<1>6. Total(Only(list, P), One) = Total(list, Late(c))
  BY <1>3, <1>4, TotalFilter
<1>7. Only(list, P) \in Seq(Entry)
  BY OnlyElements
<1>8. Total(Only(list, P), One) = Len(Only(list, P))
  <2> DEFINE o == Only(list, P)
  <2>1. o \in Seq(Entry)
    BY <1>7
  <2> HIDE DEF o
  <2>2. Total(o, One) = Len(o)
    BY <1>4, <2>1, TotalLen, Zenon
  <2> QED BY <2>2 DEF o
<1> QED BY <1>2, <1>5, <1>6, <1>8 DEF c

\* removeSections() keeps the counters exact; another version of the table may follow.
LEMMA RemoveSectionsExact ==
    ASSUME NEW V \in Versions, NEW z, Exact(z, V), NEW t \in TIDs, NEW W \in Versions,
           \A u \in TIDs \ {t} : W[u] = V[u]
    PROVE  RemoveSections(z, t) \in Variants(z, W)
<1> DEFINE c == z.cycle
           E == Live(c, V)
           P == {e \in Entry : e.section.tid = t}
           Leave(l) == {d \in ToSet(l) : d.section.tid = t}
           Stay(l) == {d \in ToSet(l) : d.section.tid # t}
           gs == Only(z.sched, Leave(z.sched))  ks == Only(z.sched, Stay(z.sched))
           go == Only(z.other, Leave(z.other))  ko == Only(z.other, Stay(z.other))
           k == z.count - Len(gs \o go)
           r == z.remain - Len(Unsent(z, gs \o go))
           n == z.schedPackets - PacketsIn(gs)
           y == RemoveSections(z, t)
<1>1. z \in Object /\ c \in Nat \ {0}
  BY DEF Exact, Object
<1>2. E \in SUBSET Entry /\ z.sched \in Seq(E) /\ z.other \in Seq(E)
      /\ z.sched \in Seq(Entry) /\ z.other \in Seq(Entry)
  BY LiveLists DEF Exact
<1>3. /\ z.count = Total(z.sched, One) + Total(z.other, One)
      /\ z.remain = Total(z.sched, Late(c)) + Total(z.other, Late(c))
      /\ z.schedPackets = Total(z.sched, Weight) /\ Sorted(z.sched)
  BY DEF Exact
<1>4. y = [z EXCEPT !.count = k, !.remain = r, !.schedPackets = n, !.sched = ks, !.other = ko]
  BY <1>1 DEF RemoveSections, Object
<1>5. ASSUME NEW l \in Seq(E)
      PROVE  /\ Only(l, Leave(l)) \in Seq(E \cap P) /\ Only(l, Stay(l)) \in Seq(E \ P)
             /\ Sorted(l) => Sorted(Only(l, Stay(l)))
             /\ Parted(l, Only(l, Leave(l)), Only(l, Stay(l)))
  <2>0. \A i \in 1 .. Len(l) : l[i] \in Entry /\ l[i] \in ToSet(l)
    BY <1>2 DEF ToSet
  <2>1. Matches(l, Leave(l), P)
    BY <2>0 DEF Matches
  <2>2. Differs(l, Stay(l), P)
    BY <2>0 DEF Differs
  <2>3. P \in SUBSET Entry
    OBVIOUS
  <2>4. E \in SUBSET Entry
    BY <1>2
  <2> HIDE DEF P, Leave, Stay, E
  <2>5. Only(l, Leave(l)) \in Seq(E \cap P)
    BY <2>1, <2>2, <2>3, <2>4, Split
  <2>6. Only(l, Stay(l)) \in Seq(E \ P)
    BY <2>1, <2>2, <2>3, <2>4, Split
  <2>7. Sorted(l) => Sorted(Only(l, Stay(l)))
    BY <2>1, <2>2, <2>3, <2>4, Split
  <2>8. Parted(l, Only(l, Leave(l)), Only(l, Stay(l)))
    BY <2>1, <2>2, <2>3, <2>4, Split
  <2> QED BY <2>5, <2>6, <2>7, <2>8
<1>6. gs \in Seq(E \cap P) /\ go \in Seq(E \cap P) /\ ks \in Seq(E \ P) /\ ko \in Seq(E \ P) /\ Sorted(ks)
  BY <1>2, <1>3, <1>5, Zenon
<1>7. \A w \in [Entry -> Int] : /\ Total(z.sched, w) = Total(gs, w) + Total(ks, w)
                                /\ Total(z.other, w) = Total(go, w) + Total(ko, w)
  BY <1>2, <1>5, Zenon DEF Parted
<1>8. E \ P \subseteq Live(c, W)
  <2> SUFFICES ASSUME NEW e \in E, e \notin P PROVE e \in Live(c, W)
    OBVIOUS
  <2>1. e \in Entry /\ e.lastCycle <= c /\ e.section.ver = V[e.section.tid] /\ e.section.tid # t
    BY DEF Live
  <2>2. e.section.tid \in TIDs
    BY <2>1 DEF Entry, Listed
  <2> QED BY <2>1, <2>2 DEF Live
<1> HIDE DEF gs, go, ks, ko, P, Leave, Stay, E
<1>9. gs \in Seq(Entry) /\ go \in Seq(Entry) /\ ks \in Seq(Entry) /\ ko \in Seq(Entry)
      /\ ks \in Seq(Live(c, W)) /\ ko \in Seq(Live(c, W))
  <2>1. E \cap P \subseteq Entry /\ E \ P \subseteq Entry
    BY <1>2
  <2> QED BY <1>6, <1>8, <2>1, SeqMonotonic
<1>10. gs \o go \in Seq(Entry)
       /\ \A w \in [Entry -> Int] : Total(gs \o go, w) = Total(gs, w) + Total(go, w)
  BY <1>9, TotalConcat, ConcatProperties
<1>11. k = Total(ks, One) + Total(ko, One)
  <2>1. Len(gs \o go) = Total(gs \o go, One)
    <3> DEFINE q == gs \o go
    <3>1. q \in Seq(Entry)
      BY <1>10
    <3> HIDE DEF q
    <3>2. One \in [Entry -> Int] /\ \A e \in Entry : One[e] = 1
      BY Weights
    <3>3. Total(q, One) = Len(q)
      BY <3>1, <3>2, TotalLen, Zenon
    <3> QED BY <3>3 DEF q
  <2>2. Total(gs \o go, One) = Total(gs, One) + Total(go, One) /\ One \in [Entry -> Int]
    BY <1>10, Weights
  <2>3. /\ Total(gs, One) \in Int /\ Total(go, One) \in Int
        /\ Total(ks, One) \in Int /\ Total(ko, One) \in Int
    BY <1>9, <1>1, ListTotals
  <2>4. Total(z.sched, One) = Total(gs, One) + Total(ks, One)
        /\ Total(z.other, One) = Total(go, One) + Total(ko, One)
    BY <1>7, <2>2
  <2> QED BY <1>3, <2>1, <2>2, <2>3, <2>4
<1>12. r = Total(ks, Late(c)) + Total(ko, Late(c))
  <2>1. Len(Unsent(z, gs \o go)) = Total(gs \o go, Late(c)) /\ Late(c) \in [Entry -> Int]
    BY <1>1, <1>10, UnsentTotal, Weights
  <2>2. Total(gs \o go, Late(c)) = Total(gs, Late(c)) + Total(go, Late(c))
    BY <1>10, <2>1
  <2>3. /\ Total(gs, Late(c)) \in Int /\ Total(go, Late(c)) \in Int
        /\ Total(ks, Late(c)) \in Int /\ Total(ko, Late(c)) \in Int
    BY <1>9, <1>1, ListTotals
  <2>4. Total(z.sched, Late(c)) = Total(gs, Late(c)) + Total(ks, Late(c))
        /\ Total(z.other, Late(c)) = Total(go, Late(c)) + Total(ko, Late(c))
    BY <1>7, <2>1
  <2> QED BY <1>3, <2>1, <2>2, <2>3, <2>4
<1>13. n = Total(ks, Weight)
  <2>1. PacketsIn(gs) = Total(gs, Weight) /\ Weight \in [Entry -> Int]
    BY <1>9, PacketsTotal, Weights
  <2>2. Total(gs, Weight) \in Int /\ Total(ks, Weight) \in Int
    BY <1>9, <1>1, ListTotals
  <2>3. Total(z.sched, Weight) = Total(gs, Weight) + Total(ks, Weight)
    BY <1>7, <2>1
  <2> QED BY <1>3, <2>1, <2>2, <2>3
<1>14. k \in Int /\ r \in Int /\ n \in Int
  <2>1. /\ Total(ks, One) \in Int /\ Total(ks, Late(c)) \in Int /\ Total(ks, Weight) \in Int
        /\ Total(ko, One) \in Int /\ Total(ko, Late(c)) \in Int
    BY <1>9, <1>1, ListTotals
  <2> HIDE DEF k, r, n
  <2> QED BY <1>11, <1>12, <1>13, <2>1
<1> HIDE DEF k, r, n, y
<1>15. y \in Object
  BY <1>1, <1>4, <1>9, <1>14 DEF Object
<1>16. /\ y.count = k /\ y.remain = r /\ y.schedPackets = n /\ y.sched = ks /\ y.other = ko
       /\ y.cycle = c /\ SameOutput(y, z)
  BY <1>1, <1>4 DEF Object, SameOutput
<1> HIDE DEF c
<1>17. Exact(y, W)
  BY <1>6, <1>9, <1>11, <1>12, <1>13, <1>15, <1>16 DEF Exact
<1> QED BY <1>15, <1>16, <1>17 DEF Variants, y

\* The elements of a list with other due dates.
Retimed(new, list) ==
    /\ new \in Seq(Entry) /\ Len(new) = Len(list)
    /\ \A i \in 1 .. Len(list) : new[i].section = list[i].section /\ new[i].lastCycle = list[i].lastCycle

\* They count for the same.
LEMMA RetimedTotals ==
    ASSUME NEW V, NEW c \in Nat, NEW list \in Seq(Live(c, V)), NEW new, Retimed(new, list)
    PROVE  /\ new \in Seq(Live(c, V))
           /\ Total(new, One) = Total(list, One) /\ Total(new, Late(c)) = Total(list, Late(c))
           /\ Total(new, Weight) = Total(list, Weight)
<1>1. list \in Seq(Entry) /\ new \in Seq(Entry) /\ Len(new) = Len(list)
  BY LiveLists DEF Retimed
<1>2. ASSUME NEW i \in 1 .. Len(list)
      PROVE  /\ new[i] \in Entry /\ list[i] \in Entry /\ list[i] \in Live(c, V)
             /\ new[i].section = list[i].section /\ new[i].lastCycle = list[i].lastCycle
  <2>1. list[i] \in Live(c, V)
    OBVIOUS
  <2> QED BY <1>1, <2>1 DEF Retimed
<1>3. new \in Seq(Live(c, V))
  <2>1. \A i \in 1 .. Len(new) : new[i] \in Live(c, V)
    BY <1>1, <1>2 DEF Live
  <2> QED BY <1>1, <2>1
<1>4. SameWeights(new, One, list, One) /\ SameWeights(new, Late(c), list, Late(c))
      /\ SameWeights(new, Weight, list, Weight)
  <2>1. ASSUME NEW i \in 1 .. Len(list)
        PROVE  /\ One[new[i]] = One[list[i]] /\ Late(c)[new[i]] = Late(c)[list[i]]
               /\ Weight[new[i]] = Weight[list[i]]
    <3>1. One[new[i]] = 1 /\ One[list[i]] = 1
      BY <1>2, Weights, Zenon
    <3>2. /\ Weight[new[i]] = PacketsOf(new[i].section)
          /\ Weight[list[i]] = PacketsOf(list[i].section)
      BY <1>2, Weights, Zenon
    <3>3. /\ Late(c)[new[i]] = (IF new[i].lastCycle # c THEN 1 ELSE 0)
          /\ Late(c)[list[i]] = (IF list[i].lastCycle # c THEN 1 ELSE 0)
      BY <1>2, Weights, Zenon
    <3> QED BY <1>2, <3>1, <3>2, <3>3
  <2> QED BY <1>1, <2>1 DEF SameWeights
<1>5. One \in [Entry -> Int] /\ Weight \in [Entry -> Int] /\ Late(c) \in [Entry -> Int]
  BY Weights
<1>6. ASSUME NEW w \in [Entry -> Int], SameWeights(new, w, list, w)
      PROVE  Total(new, w) = Total(list, w)
  BY <1>1, <1>6, TotalSame
<1>7. Total(new, One) = Total(list, One) /\ Total(new, Weight) = Total(list, Weight)
  BY <1>4, <1>5, <1>6, Zenon
<1>8. Total(new, Late(c)) = Total(list, Late(c))
  BY <1>4, <1>5, <1>6, Zenon
<1> QED BY <1>3, <1>7, <1>8

\* The lists and the bitrate of the object are replaced.
LEMMA RelistedExact ==
    ASSUME NEW V \in Versions, NEW z, Exact(z, V), NEW b \in Nat, NEW y \in Object,
           NEW s \in Seq(Live(z.cycle, V)), NEW o \in Seq(Live(z.cycle, V)), NEW n,
           SameOutput(y, z), y.sched = s, y.other = o, y.schedPackets = n,
           y.count = z.count, y.remain = z.remain,
           Sorted(s), n = Total(s, Weight),
           Total(s, One) + Total(o, One) = Total(z.sched, One) + Total(z.other, One),
           Total(s, Late(z.cycle)) + Total(o, Late(z.cycle)) =
              Total(z.sched, Late(z.cycle)) + Total(z.other, Late(z.cycle))
    PROVE  y \in Variants(z, V)
<1>1. y.cycle = z.cycle
  BY DEF SameOutput
<1>2. Exact(y, V)
  BY <1>1 DEF Exact
<1> QED BY <1>2 DEF Variants

\* setBitRate(): the sections which are scheduled or not scheduled change, or their due dates.
LEMMA SetBitRateExact ==
    ASSUME NEW V \in Versions, NEW z, Exact(z, V), NEW b \in Nat
    PROVE  SetBitRate(z, b) \in Variants(z, V)
<1> DEFINE c == z.cycle
           E == Live(c, V)
           y == SetBitRate(z, b)
           repeated == Only(z.other, {d \in ToSet(z.other) : d.rep # 0})
           rest == Only(z.other, {d \in ToSet(z.other) : d.rep = 0})
           now == [i \in DOMAIN repeated |->
                     [repeated[i] EXCEPT !.due = IF @ < z.packets THEN z.packets ELSE @]]
           later == [i \in DOMAIN z.sched |->
                       [z.sched[i] EXCEPT !.due = z.sched[i].lastPacket
                                                  + PacketDistance(b, z.sched[i].rep)]]
<1>1. z \in Object /\ c \in Nat \ {0} /\ z.packets \in Nat /\ z.bitrate \in Nat
  BY DEF Exact, Object
<1>2. E \in SUBSET Entry /\ z.sched \in Seq(E) /\ z.other \in Seq(E)
      /\ z.sched \in Seq(Entry) /\ z.other \in Seq(Entry)
  BY LiveLists DEF Exact
<1>3. z.schedPackets = Total(z.sched, Weight) /\ Sorted(z.sched) /\ z.schedPackets \in Int
  BY <1>1 DEF Exact, Object
<1>4. One \in [Entry -> Int] /\ Weight \in [Entry -> Int] /\ Late(c) \in [Entry -> Int]
  BY <1>1, Weights
<1>5. /\ Total(z.sched, One) \in Int /\ Total(z.sched, Late(c)) \in Int /\ Total(z.sched, Weight) \in Int
      /\ Total(z.other, One) \in Int /\ Total(z.other, Late(c)) \in Int
  BY <1>1, <1>2, ListTotals
<1>6. CASE b = z.bitrate
  <2>1. y = [z EXCEPT !.bitrate = b]
    BY <1>6 DEF SetBitRate
  <2> HIDE DEF y
  <2>2. y \in Object
    BY <1>1, <2>1 DEF Object
  <2>3. /\ SameOutput(y, z) /\ y.sched = z.sched /\ y.other = z.other
        /\ y.schedPackets = z.schedPackets /\ y.count = z.count /\ y.remain = z.remain
    BY <1>1, <2>1 DEF Object, SameOutput
  <2> HIDE DEF E, c
  <2>4. y.cycle = z.cycle
    BY <2>3 DEF SameOutput
  <2>5. Exact(y, V)
    BY <2>2, <2>3, <2>4 DEF Exact
  <2> QED BY <2>2, <2>3, <2>5 DEF Variants, y
<1>7. CASE b # z.bitrate /\ b = 0
  <2> DEFINE o == z.other \o z.sched  s == <<>>  n == 0
  <2>1. y = [z EXCEPT !.other = o, !.sched = s, !.schedPackets = n, !.bitrate = b]
    BY <1>1, <1>7 DEF SetBitRate, Object
  <2>2. o \in Seq(E) /\ o \in Seq(Entry) /\ s \in Seq(E) /\ s \in Seq(Entry) /\ n \in Int
    BY <1>2
  <2>3. \A w \in [Entry -> Int] : Total(o, w) = Total(z.other, w) + Total(z.sched, w)
    BY <1>2, TotalConcat
  <2>4. Total(s, One) = 0 /\ Total(s, Late(c)) = 0 /\ Total(s, Weight) = 0 /\ Sorted(s)
    BY <1>4, TotalType DEF Sorted
  <2>5. /\ Total(s, One) + Total(o, One) = Total(z.sched, One) + Total(z.other, One)
        /\ Total(s, Late(c)) + Total(o, Late(c)) = Total(z.sched, Late(c)) + Total(z.other, Late(c))
        /\ n = Total(s, Weight)
    <3> HIDE DEF o, s, c
    <3> QED BY <1>4, <1>5, <2>3, <2>4
  <2> HIDE DEF y, o, s, n
  <2>6. y \in Object
    BY <1>1, <2>1, <2>2 DEF Object
  <2>7. /\ SameOutput(y, z) /\ y.sched = s /\ y.other = o
        /\ y.schedPackets = n /\ y.count = z.count /\ y.remain = z.remain
    BY <1>1, <2>1 DEF Object, SameOutput
  <2>8. y \in Variants(z, V)
    BY <2>2, <2>4, <2>5, <2>6, <2>7, RelistedExact
  <2> QED BY <2>8 DEF y
<1>8. CASE b # z.bitrate /\ b # 0 /\ z.bitrate = 0
  <2> DEFINE P == {e \in Entry : e.rep # 0}
             Moved == {d \in ToSet(z.other) : d.rep # 0}
             Stay == {d \in ToSet(z.other) : d.rep = 0}
             s == AddAllScheduled(z.sched, now)
             n == z.schedPackets + PacketsIn(repeated)
  <2>1. y = [z EXCEPT !.other = rest, !.sched = s, !.schedPackets = n, !.bitrate = b]
    BY <1>1, <1>8 DEF SetBitRate, Object
  <2>2. repeated \in Seq(E \cap P) /\ rest \in Seq(E \ P) /\ Parted(z.other, repeated, rest)
    <3>0. \A i \in 1 .. Len(z.other) : z.other[i] \in Entry /\ z.other[i] \in ToSet(z.other)
      BY <1>2 DEF ToSet
    <3>1. Matches(z.other, Moved, P) /\ Differs(z.other, Stay, P)
      BY <3>0 DEF Matches, Differs
    <3>2. P \in SUBSET Entry
      OBVIOUS
    <3>3. repeated = Only(z.other, Moved) /\ rest = Only(z.other, Stay)
      OBVIOUS
    <3> HIDE DEF P, Moved, Stay, E, repeated, rest
    <3>4. Only(z.other, Moved) \in Seq(E \cap P)
      BY <1>2, <3>1, <3>2, Split
    <3>5. Only(z.other, Stay) \in Seq(E \ P)
      BY <1>2, <3>1, <3>2, Split
    <3>6. Parted(z.other, Only(z.other, Moved), Only(z.other, Stay))
      BY <1>2, <3>1, <3>2, Split
    <3> QED BY <3>3, <3>4, <3>5, <3>6
  <2> HIDE DEF repeated, rest, P
  <2>3. repeated \in Seq(E) /\ rest \in Seq(E) /\ repeated \in Seq(Entry) /\ rest \in Seq(Entry)
    <3>1. E \cap P \subseteq E /\ E \ P \subseteq E
      OBVIOUS
    <3> QED BY <1>2, <2>2, <3>1, SeqMonotonic
  <2>4. Retimed(now, repeated)
    <3>1. DOMAIN repeated = 1 .. Len(repeated) /\ Len(repeated) \in Nat
      BY <2>3
    <3>2. ASSUME NEW i \in 1 .. Len(repeated)
          PROVE  /\ now[i] \in Entry
                 /\ now[i].section = repeated[i].section /\ now[i].lastCycle = repeated[i].lastCycle
      <4>1. repeated[i] \in Entry
        BY <2>3
      <4> DEFINE due == IF repeated[i].due < z.packets THEN z.packets ELSE repeated[i].due
      <4>2. due \in Nat
        BY <1>1, <4>1 DEF Entry
      <4>3. now[i] = [repeated[i] EXCEPT !.due = due]
        BY <3>1
      <4> HIDE DEF due, now
      <4> QED BY <4>1, <4>2, <4>3 DEF Entry
    <3>3. now = [i \in 1 .. Len(repeated) |-> now[i]]
      BY <3>1
    <3> HIDE DEF now
    <3>4. now \in Seq(Entry) /\ Len(now) = Len(repeated)
      BY <3>1, <3>2, <3>3
    <3> QED BY <3>2, <3>4 DEF Retimed
  <2> HIDE DEF now
  <2>5. /\ now \in Seq(E) /\ Total(now, One) = Total(repeated, One)
        /\ Total(now, Late(c)) = Total(repeated, Late(c)) /\ Total(now, Weight) = Total(repeated, Weight)
    BY <1>1, <2>3, <2>4, RetimedTotals
  <2>6. s \in Seq(E) /\ Sorted(s)
    <3> HIDE DEF E
    <3> QED BY <1>2, <1>3, <2>5, ScheduledAll
  <2>7. \A w \in [Entry -> Int] : Total(s, w) = Total(z.sched, w) + Total(now, w)
    <3> HIDE DEF E
    <3> QED BY <1>2, <2>5, ScheduledAll
  <2>8. \A w \in [Entry -> Int] : Total(z.other, w) = Total(repeated, w) + Total(rest, w)
    BY <2>2 DEF Parted
  <2>9. /\ Total(repeated, One) \in Int /\ Total(repeated, Late(c)) \in Int /\ Total(repeated, Weight) \in Int
        /\ Total(rest, One) \in Int /\ Total(rest, Late(c)) \in Int
    BY <1>1, <2>3, ListTotals
  <2>10. PacketsIn(repeated) = Total(repeated, Weight)
    BY <2>3, PacketsTotal
  <2>11. s \in Seq(Entry)
    BY <1>2, <2>6, SeqMonotonic
  <2> HIDE DEF s, c, E
  <2>12. /\ Total(s, One) = Total(z.sched, One) + Total(now, One)
         /\ Total(s, Late(c)) = Total(z.sched, Late(c)) + Total(now, Late(c))
         /\ Total(s, Weight) = Total(z.sched, Weight) + Total(now, Weight)
         /\ Total(z.other, One) = Total(repeated, One) + Total(rest, One)
         /\ Total(z.other, Late(c)) = Total(repeated, Late(c)) + Total(rest, Late(c))
    BY <1>4, <2>7, <2>8
  <2>13. /\ Total(s, One) + Total(rest, One) = Total(z.sched, One) + Total(z.other, One)
         /\ Total(s, Late(c)) + Total(rest, Late(c)) = Total(z.sched, Late(c)) + Total(z.other, Late(c))
         /\ n = Total(s, Weight) /\ n \in Int
    BY <1>3, <1>5, <2>5, <2>9, <2>10, <2>12, SMTT(30)
  <2> HIDE DEF y, n
  <2>14. y \in Object
    BY <1>1, <2>1, <2>3, <2>11, <2>13 DEF Object
  <2>15. /\ SameOutput(y, z) /\ y.sched = s /\ y.other = rest
         /\ y.schedPackets = n /\ y.count = z.count /\ y.remain = z.remain
    BY <1>1, <2>1 DEF Object, SameOutput
  <2>16. y \in Variants(z, V)
    BY <2>3, <2>6, <2>13, <2>14, <2>15, RelistedExact DEF c, E
  <2> QED BY <2>16 DEF y
<1>9. CASE b # z.bitrate /\ b # 0 /\ z.bitrate # 0
  <2> DEFINE e == <<>>  back == Reverse(later)  s == AddAllScheduled(e, back)
  <2>1. y = [z EXCEPT !.sched = s, !.bitrate = b]
    BY <1>1, <1>9 DEF SetBitRate, Object
  <2>2. Retimed(later, z.sched)
    <3>1. DOMAIN z.sched = 1 .. Len(z.sched) /\ Len(z.sched) \in Nat
      BY <1>2
    <3>2. ASSUME NEW i \in 1 .. Len(z.sched)
          PROVE  /\ later[i] \in Entry
                 /\ later[i].section = z.sched[i].section /\ later[i].lastCycle = z.sched[i].lastCycle
      <4>1. z.sched[i] \in Entry
        BY <1>2
      <4> DEFINE due == z.sched[i].lastPacket + PacketDistance(b, z.sched[i].rep)
      <4>2. z.sched[i].lastPacket \in Nat /\ z.sched[i].rep \in Nat
        BY <4>1 DEF Entry
      <4>3. due \in Nat
        <5>1. \A j, k \in Nat : j * k \in Nat
          OBVIOUS
        <5>2. PacketDistance(b, z.sched[i].rep) \in Nat
          BY <4>2, <5>1 DEF PacketDistance
        <5> QED BY <4>2, <5>2
      <4>4. later[i] = [z.sched[i] EXCEPT !.due = due]
        BY <3>1
      <4> HIDE DEF due, later
      <4> QED BY <4>1, <4>3, <4>4 DEF Entry
    <3>3. later = [i \in 1 .. Len(z.sched) |-> later[i]]
      BY <3>1
    <3> HIDE DEF later
    <3>4. later \in Seq(Entry) /\ Len(later) = Len(z.sched)
      BY <3>1, <3>2, <3>3
    <3> QED BY <3>2, <3>4 DEF Retimed
  <2> HIDE DEF later
  <2>3. /\ later \in Seq(E) /\ Total(later, One) = Total(z.sched, One)
        /\ Total(later, Late(c)) = Total(z.sched, Late(c)) /\ Total(later, Weight) = Total(z.sched, Weight)
    BY <1>1, <1>2, <2>2, RetimedTotals
  <2>4. later \in Seq(Entry)
    BY <2>2 DEF Retimed
  <2>5. back \in Seq(E) /\ back \in Seq(Entry)
    <3>1. \A i \in 1 .. Len(later) : later[i] \in E /\ later[i] \in Entry
      BY <2>3, <2>4
    <3> HIDE DEF E
    <3> QED BY <2>3, <2>4, <3>1 DEF Reverse
  <2>6. \A w \in [Entry -> Int] : Total(back, w) = Total(later, w)
    BY <2>4, TotalReverse
  <2>7. e \in Seq(E) /\ e \in Seq(Entry) /\ Sorted(e)
    BY DEF Sorted
  <2>8. \A w \in [Entry -> Int] : Total(e, w) = 0
    BY TotalType
  <2> HIDE DEF e, back
  <2>9. s \in Seq(E) /\ Sorted(s)
    <3> HIDE DEF E
    <3> QED BY <1>2, <2>5, <2>7, ScheduledAll
  <2>10. \A w \in [Entry -> Int] : Total(s, w) = Total(e, w) + Total(back, w)
    <3> HIDE DEF E
    <3> QED BY <1>2, <2>5, <2>7, ScheduledAll
  <2>11. s \in Seq(Entry)
    BY <1>2, <2>9, SeqMonotonic
  <2> HIDE DEF s, c, E
  <2>12. /\ Total(s, One) = Total(z.sched, One) /\ Total(s, Late(c)) = Total(z.sched, Late(c))
         /\ Total(s, Weight) = Total(z.sched, Weight)
    <3>1. ASSUME NEW w \in [Entry -> Int], Total(later, w) \in Int
          PROVE  Total(s, w) = Total(later, w)
      <4>1. Total(s, w) = Total(e, w) + Total(back, w) /\ Total(back, w) = Total(later, w)
            /\ Total(e, w) = 0
        BY <2>6, <2>8, <2>10, Zenon
      <4> QED BY <3>1, <4>1
    <3>2. /\ Total(s, One) = Total(later, One) /\ Total(s, Late(c)) = Total(later, Late(c))
          /\ Total(s, Weight) = Total(later, Weight)
      BY <1>4, <1>5, <2>3, <3>1, Zenon
    <3> QED BY <2>3, <3>2, Zenon
  <2> HIDE DEF y
  <2>13. y \in Object
    BY <1>1, <2>1, <2>11 DEF Object
  <2>14. /\ SameOutput(y, z) /\ y.sched = s /\ y.other = z.other
         /\ y.schedPackets = z.schedPackets /\ y.count = z.count /\ y.remain = z.remain
    BY <1>1, <2>1 DEF Object, SameOutput
  <2>15. y \in Variants(z, V)
    BY <1>2, <1>3, <2>9, <2>12, <2>13, <2>14, RelistedExact DEF c, E
  <2> QED BY <2>15 DEF y
<1> QED BY <1>6, <1>7, <1>8, <1>9

-----------------------------------------------------------------------------
(***************************************************************************)
(* What is provided to the packetizer.                                     *)
(***************************************************************************)
\* The sections which are sent: those of the tables, with the number of the occurrence.
Sent == {s \in Sect : [s EXCEPT !.occ = NoOcc] \in Listed /\ s.occ \in Nat}

\* What provideSection() leaves alone.
SamePosition(y, z) ==
    /\ y.section = z.section /\ y.next = z.next /\ y.cc = z.cc /\ y.packets = z.packets
    /\ y.in = z.in /\ y.out = z.out /\ y.stuffing = z.stuffing /\ y.bitrate = z.bitrate

\* The lists of the object are in place, and section d is not counted in the cycle yet.
Uncounted(q, V, d) ==
    /\ q \in Object
    /\ q.sched \in Seq(Live(q.cycle, V)) /\ q.other \in Seq(Live(q.cycle, V))
    /\ q.count = Total(q.sched, One) + Total(q.other, One)
    /\ q.remain = Total(q.sched, Late(q.cycle)) + Total(q.other, Late(q.cycle)) + Late(q.cycle)[d]
    /\ q.schedPackets = Total(q.sched, Weight)
    /\ Sorted(q.sched)

\* All sections of the lists are late in the next cycle.
LEMMA NextCycle ==
    ASSUME NEW V \in Versions, NEW c \in Nat, NEW list \in Seq(Live(c, V))
    PROVE  list \in Seq(Live(c + 1, V)) /\ Total(list, Late(c + 1)) = Total(list, One)
<1>1. list \in Seq(Entry) /\ c + 1 \in Nat
  BY LiveLists
<1>2. Live(c, V) \subseteq Live(c + 1, V)
  <2> SUFFICES ASSUME NEW e \in Live(c, V) PROVE e \in Live(c + 1, V)
    OBVIOUS
  <2>1. e \in Entry /\ e.lastCycle \in Nat /\ e.lastCycle <= c /\ e.section.ver = V[e.section.tid]
    BY DEF Live, Entry
  <2> QED BY <2>1 DEF Live
<1>3. list \in Seq(Live(c + 1, V))
  BY <1>2, SeqMonotonic
<1> DEFINE late == Late(c + 1)
<1>4. late \in [Entry -> Int] /\ One \in [Entry -> Int]
  BY <1>1, Weights
<1>5. SameWeights(list, late, list, One)
  <2>1. ASSUME NEW i \in 1 .. Len(list) PROVE late[list[i]] = One[list[i]]
    <3>1. list[i] \in Entry
      BY <1>1
    <3>2. list[i].lastCycle \in Nat /\ list[i].lastCycle <= c
      <4>1. list[i] \in Live(c, V)
        OBVIOUS
      <4> QED BY <3>1, <4>1 DEF Live, Entry
    <3>3. late[list[i]] = (IF list[i].lastCycle # c + 1 THEN 1 ELSE 0)
      BY <1>1, <3>1, Weights, Zenon
    <3>4. One[list[i]] = 1
      BY <3>1, Weights, Zenon
    <3> QED BY <3>2, <3>3, <3>4
  <2> QED BY <2>1 DEF SameWeights
<1> HIDE DEF late
<1>6. Total(list, late) = Total(list, One)
  BY <1>1, <1>4, <1>5, TotalSame
<1> QED BY <1>3, <1>6 DEF late

\* End of provideSection(): the section is counted, or the next cycle begins.
LEMMA CountInCycleExact ==
    ASSUME NEW V \in Versions, NEW d \in Entry, NEW q, Uncounted(q, V, d), NEW counter \in Nat
    PROVE  Exact(CountInCycle(q, d, counter), V) /\ SamePosition(CountInCycle(q, d, counter), q)
<1> DEFINE c == q.cycle  y == CountInCycle(q, d, counter)
           ls == Total(q.sched, Late(c))  lo == Total(q.other, Late(c))
<1>1. q \in Object /\ c \in Nat \ {0} /\ q.remain \in Int /\ q.count \in Int
  BY DEF Uncounted, Object
<1>2. q.sched \in Seq(Entry) /\ q.other \in Seq(Entry)
  BY LiveLists DEF Uncounted
<1>3. ls \in Int /\ lo \in Int /\ Total(q.sched, One) \in Int /\ Total(q.other, One) \in Int
  BY <1>1, <1>2, ListTotals
<1>4. Late(c)[d] = (IF d.lastCycle # c THEN 1 ELSE 0)
  BY <1>1, Weights
<1>5. CASE d.lastCycle = c
  <2>1. y = q
    BY <1>5 DEF CountInCycle
  <2>2. q.remain = ls + lo
    BY <1>3, <1>4, <1>5 DEF Uncounted
  <2> HIDE DEF y
  <2> QED BY <2>1, <2>2 DEF Exact, Uncounted, SamePosition, y
<1>6. CASE d.lastCycle # c /\ q.remain > 1
  <2> DEFINE r == q.remain - 1
  <2>1. y = [q EXCEPT !.remain = r]
    BY <1>1, <1>6 DEF CountInCycle, Object
  <2>2. r \in Int /\ r = ls + lo
    <3>1. q.remain = ls + lo + Late(c)[d]
      BY DEF Uncounted
    <3>2. Late(c)[d] = 1
      BY <1>4, <1>6
    <3> HIDE DEF ls, lo, c
    <3> QED BY <1>1, <1>3, <3>1, <3>2
  <2> HIDE DEF y, r
  <2>3. y \in Object
    BY <1>1, <2>1, <2>2 DEF Object
  <2>4. /\ y.sched = q.sched /\ y.other = q.other /\ y.count = q.count /\ y.remain = r
        /\ y.schedPackets = q.schedPackets /\ y.cycle = c /\ SamePosition(y, q)
    BY <1>1, <2>1 DEF Object, SamePosition
  <2> HIDE DEF c
  <2>5. Exact(y, V)
    BY <2>2, <2>3, <2>4 DEF Exact, Uncounted, c
  <2> QED BY <2>4, <2>5 DEF y
<1>7. CASE d.lastCycle # c /\ ~(q.remain > 1)
  <2> DEFINE next == c + 1  r == q.count
  <2>1. y = [q EXCEPT !.cycleEnd = counter, !.cycle = next, !.remain = r]
    BY <1>1, <1>7 DEF CountInCycle, Object
  <2>2. next \in Nat \ {0} /\ r \in Int /\ counter \in Int
    BY <1>1
  <2>3. /\ q.sched \in Seq(Live(next, V)) /\ q.other \in Seq(Live(next, V))
        /\ Total(q.sched, Late(next)) = Total(q.sched, One)
        /\ Total(q.other, Late(next)) = Total(q.other, One)
    BY <1>1, NextCycle DEF Uncounted
  <2>4. r = Total(q.sched, Late(next)) + Total(q.other, Late(next))
    BY <2>3 DEF Uncounted
  <2> HIDE DEF y, r, next
  <2>5. y \in Object
    BY <1>1, <2>1, <2>2 DEF Object
  <2>6. /\ y.sched = q.sched /\ y.other = q.other /\ y.count = q.count /\ y.remain = r
        /\ y.schedPackets = q.schedPackets /\ y.cycle = next /\ SamePosition(y, q)
    BY <1>1, <2>1 DEF Object, SamePosition
  <2> HIDE DEF c
  <2>7. Exact(y, V)
    BY <2>3, <2>4, <2>5, <2>6 DEF Exact, Uncounted
  <2> QED BY <2>6, <2>7 DEF y
<1> QED BY <1>5, <1>6, <1>7

\* A section of a list with the number of an occurrence is one which is sent.
LEMMA SentSection ==
    ASSUME NEW s \in Listed, NEW k \in Nat
    PROVE  /\ [s EXCEPT !.occ = k] \in Sent /\ [s EXCEPT !.occ = k].occ = k
           /\ [s EXCEPT !.occ = k].ver = s.ver /\ [s EXCEPT !.occ = k].tid = s.tid
           /\ [s EXCEPT !.occ = k] # NullSection
<1> DEFINE y == [s EXCEPT !.occ = k]
<1>1. s \in Sect /\ s.tid \in TIDs /\ s.occ = NoOcc
  BY DEF Listed
<1>2. y \in Sect
  BY <1>1 DEF Sect
<1>3. y.occ = k /\ y.ver = s.ver /\ y.tid = s.tid
  BY <1>1 DEF Sect
<1>4. [y EXCEPT !.occ = NoOcc] = s
  BY <1>1 DEF Sect
<1>5. y # NullSection
  <2>1. NullSection.tid \notin TIDs
    BY DemuxAssumption
  <2> QED BY <1>1, <1>3, <2>1
<1> QED BY <1>2, <1>3, <1>4, <1>5 DEF Sent

\* The result p of a method which provides a section, with number counter.
Provided(p, z, V, counter) ==
    /\ Exact(p.z, V) /\ SamePosition(p.z, z)
    /\ p.section # NullSection =>
         p.section \in Sent /\ p.section.occ = counter /\ p.section.ver = V[p.section.tid]

\* A section moves to the place where it is due again.
LEMMA Requeued ==
    ASSUME NEW V \in Versions, NEW z, Exact(z, V), NEW d \in Entry, NEW e \in Live(z.cycle, V),
           e.section = d.section, e.lastCycle = z.cycle
    PROVE  /\ z.sched # <<>> /\ d = Head(z.sched) =>
                Uncounted([z EXCEPT !.sched = AddScheduled(Tail(z.sched), e)], V, d)
           /\ z.other # <<>> /\ d = Head(z.other) =>
                Uncounted([z EXCEPT !.other = Append(Tail(z.other), e)], V, d)
<1> DEFINE c == z.cycle  E == Live(c, V)
<1>1. z \in Object /\ c \in Nat \ {0}
  BY DEF Exact, Object
<1>2. E \in SUBSET Entry /\ z.sched \in Seq(E) /\ z.other \in Seq(E)
      /\ z.sched \in Seq(Entry) /\ z.other \in Seq(Entry) /\ e \in Entry
  BY LiveLists DEF Exact, Live
<1>3. One \in [Entry -> Int] /\ Weight \in [Entry -> Int] /\ Late(c) \in [Entry -> Int]
  BY <1>1, Weights
<1>4. /\ Total(z.sched, One) \in Int /\ Total(z.sched, Late(c)) \in Int /\ Total(z.sched, Weight) \in Int
      /\ Total(z.other, One) \in Int /\ Total(z.other, Late(c)) \in Int
  BY <1>1, <1>2, ListTotals
<1>5. /\ z.count = Total(z.sched, One) + Total(z.other, One)
      /\ z.remain = Total(z.sched, Late(c)) + Total(z.other, Late(c))
      /\ z.schedPackets = Total(z.sched, Weight) /\ Sorted(z.sched)
  BY DEF Exact
<1>6. One[e] = 1 /\ One[d] = 1
  BY <1>2, Weights, Zenon
<1>7. Weight[e] = Weight[d] /\ Weight[d] \in Int
  <2>1. Weight[e] = PacketsOf(e.section) /\ Weight[d] = PacketsOf(d.section)
        /\ PacketsOf(d.section) \in Int
    BY <1>2, Weights, Zenon
  <2> QED BY <2>1
<1>8. Late(c)[e] = 0 /\ Late(c)[d] \in Int
  <2>1. Late(c)[e] = (IF e.lastCycle # c THEN 1 ELSE 0)
        /\ Late(c)[d] = (IF d.lastCycle # c THEN 1 ELSE 0)
    BY <1>1, <1>2, Weights, Zenon
  <2> QED BY <2>1
<1>9. ASSUME z.sched # <<>>, d = Head(z.sched)
      PROVE  Uncounted([z EXCEPT !.sched = AddScheduled(Tail(z.sched), e)], V, d)
  <2> DEFINE t == Tail(z.sched)  s == AddScheduled(t, e)  q == [z EXCEPT !.sched = s]
  <2>1. t \in Seq(E) /\ Sorted(t)
    <3> HIDE DEF E
    <3>1. t \in Seq(E) /\ Len(z.sched) \in Nat
      BY <1>2, <1>9
    <3>2. Len(t) = Len(z.sched) - 1 /\ \A i \in 1 .. Len(t) : t[i] = z.sched[i + 1]
      BY <1>2, <1>9
    <3>3. Sorted(t)
      <4> HIDE DEF t
      <4>1. ASSUME NEW i \in 1 .. Len(t), NEW j \in 1 .. Len(t), i < j PROVE t[i].due <= t[j].due
        <5>1. /\ i + 1 \in 1 .. Len(z.sched) /\ j + 1 \in 1 .. Len(z.sched) /\ i + 1 < j + 1
              /\ t[i] = z.sched[i + 1] /\ t[j] = z.sched[j + 1]
          BY <3>1, <3>2, <4>1, SMTT(30)
        <5> QED BY <1>5, <5>1 DEF Sorted
      <4> QED BY <4>1 DEF Sorted
    <3> QED BY <3>1, <3>3
  <2>2. \A w \in [Entry -> Int] : Total(t, w) = Total(z.sched, w) - w[d]
    BY <1>2, <1>9, TotalTail
  <2> HIDE DEF t, E
  <2>3. s \in Seq(E) /\ Sorted(s)
    BY <1>2, <2>1, ScheduledOne DEF E
  <2>4. \A w \in [Entry -> Int] : Total(s, w) = Total(t, w) + w[e]
    BY <1>2, <2>1, ScheduledOne DEF E
  <2>5. s \in Seq(Entry)
    BY <1>2, <2>3, SeqMonotonic
  <2> HIDE DEF s, c
  <2>6. /\ Total(t, One) = Total(z.sched, One) - One[d]
        /\ Total(t, Late(c)) = Total(z.sched, Late(c)) - Late(c)[d]
        /\ Total(t, Weight) = Total(z.sched, Weight) - Weight[d]
        /\ Total(s, One) = Total(t, One) + One[e]
        /\ Total(s, Late(c)) = Total(t, Late(c)) + Late(c)[e]
        /\ Total(s, Weight) = Total(t, Weight) + Weight[e]
    BY <1>3, <2>2, <2>4, Zenon
  <2>7. /\ Total(s, One) = Total(z.sched, One) /\ Total(s, Weight) = Total(z.sched, Weight)
        /\ Total(z.sched, Late(c)) = Total(s, Late(c)) + Late(c)[d]
        /\ Total(s, Late(c)) \in Int
    BY <1>4, <1>6, <1>7, <1>8, <2>6
  <2>8. z.remain = Total(s, Late(c)) + Total(z.other, Late(c)) + Late(c)[d]
    BY <1>4, <1>5, <1>8, <2>7
  <2> HIDE DEF q
  <2>9. q \in Object
    BY <1>1, <2>5 DEF Object, q
  <2>10. /\ q.sched = s /\ q.other = z.other /\ q.count = z.count /\ q.remain = z.remain
         /\ q.schedPackets = z.schedPackets /\ q.cycle = c
    BY <1>1 DEF Object, q, c
  <2>11. Uncounted(q, V, d)
    BY <1>2, <1>5, <2>3, <2>7, <2>8, <2>9, <2>10 DEF Uncounted, E
  <2> QED BY <2>11 DEF q, s, t
<1>10. ASSUME z.other # <<>>, d = Head(z.other)
       PROVE  Uncounted([z EXCEPT !.other = Append(Tail(z.other), e)], V, d)
  <2> DEFINE t == Tail(z.other)  o == Append(t, e)  q == [z EXCEPT !.other = o]
  <2>1. t \in Seq(E) /\ o \in Seq(E) /\ t \in Seq(Entry) /\ o \in Seq(Entry)
    <3> HIDE DEF E
    <3>1. t \in Seq(E) /\ t \in Seq(Entry)
      BY <1>2, <1>10
    <3> QED BY <1>2, <3>1 DEF E
  <2>2. \A w \in [Entry -> Int] : Total(t, w) = Total(z.other, w) - w[d]
    BY <1>2, <1>10, TotalTail
  <2> HIDE DEF t, E
  <2>4. \A w \in [Entry -> Int] : Total(o, w) = Total(t, w) + w[e]
    BY <1>2, <2>1, TotalAppend, SMTT(30)
  <2> HIDE DEF o, c
  <2>6. /\ Total(t, One) = Total(z.other, One) - One[d]
        /\ Total(t, Late(c)) = Total(z.other, Late(c)) - Late(c)[d]
        /\ Total(o, One) = Total(t, One) + One[e]
        /\ Total(o, Late(c)) = Total(t, Late(c)) + Late(c)[e]
    BY <1>3, <2>2, <2>4, Zenon
  <2>7. /\ Total(o, One) = Total(z.other, One)
        /\ Total(z.other, Late(c)) = Total(o, Late(c)) + Late(c)[d]
        /\ Total(o, Late(c)) \in Int
    BY <1>4, <1>6, <1>8, <2>6
  <2>8. z.remain = Total(z.sched, Late(c)) + Total(o, Late(c)) + Late(c)[d]
    BY <1>4, <1>5, <1>8, <2>7
  <2> HIDE DEF q
  <2>9. q \in Object
    BY <1>1, <2>1 DEF Object, q
  <2>10. /\ q.sched = z.sched /\ q.other = o /\ q.count = z.count /\ q.remain = z.remain
         /\ q.schedPackets = z.schedPackets /\ q.cycle = c
    BY <1>1 DEF Object, q, c
  <2>11. Uncounted(q, V, d)
    BY <1>2, <1>5, <2>1, <2>7, <2>8, <2>9, <2>10 DEF Uncounted, E
  <2> QED BY <2>11 DEF q, o, t
<1> QED BY <1>9, <1>10

\* provideSection() keeps the counters exact.
LEMMA ProvideSectionExact ==
    ASSUME NEW V \in Versions, NEW z0, Exact(z0, V), NEW counter \in Nat
    PROVE  Provided(ProvideSection(z0, counter), z0, V, counter)
<1> DEFINE z == [z0 EXCEPT !.cycleEnd = UNDEFINED]
           c == z.cycle
           E == Live(c, V)
           scheduled == /\ ~ForceUnscheduled(z) /\ z.sched # <<>>
                        /\ Head(z.sched).due <= z.packets
           d == IF scheduled THEN Head(z.sched) ELSE Head(z.other)
           wait == PacketDistance(z.bitrate, d.rep)
           due == z.packets + (IF wait > 1 THEN wait ELSE 1)
           passed == Passed(z, d)
           again == [passed EXCEPT !.due = due]
           queued == IF scheduled
                     THEN [z EXCEPT !.sched = AddScheduled(Tail(z.sched), again)]
                     ELSE [z EXCEPT !.other = Append(Tail(z.other), passed)]
           sent == [d.section EXCEPT !.occ = counter]
           p == ProvideSection(z0, counter)
<1>1. p = IF ~scheduled /\ z.other = <<>>
          THEN [z |-> z, section |-> NullSection]
          ELSE [z |-> CountInCycle(queued, d, counter), section |-> sent]
  <2>1. z0 \in Object
    BY DEF Exact
  <2>2. z.sched = z0.sched /\ z.other = z0.other
    BY <2>1 DEF Object
  <2> QED BY <2>2, Zenon DEF ProvideSection
<1>2. z \in Object /\ Exact(z, V) /\ SamePosition(z, z0)
  <2>1. z0 \in Object /\ UNDEFINED \in Int
    BY DEF Exact, UNDEFINED
  <2>2. z \in Object
    BY <2>1 DEF Object
  <2>3. /\ z.sched = z0.sched /\ z.other = z0.other /\ z.count = z0.count /\ z.remain = z0.remain
        /\ z.schedPackets = z0.schedPackets /\ z.cycle = z0.cycle /\ SamePosition(z, z0)
    BY <2>1 DEF Object, SamePosition
  <2> HIDE DEF z
  <2> QED BY <2>2, <2>3 DEF Exact
<1> HIDE DEF z
<1>3. /\ c \in Nat \ {0} /\ z.packets \in Nat /\ z.bitrate \in Nat
      /\ z.sched \in Seq(E) /\ z.other \in Seq(E) /\ E \in SUBSET Entry
  BY <1>2, LiveLists DEF Exact, Object
<1> HIDE DEF scheduled, p, c
<1>4. CASE ~scheduled /\ z.other = <<>>
  <2>1. p.z = z /\ p.section = NullSection
    BY <1>1, <1>4
  <2> QED BY <1>2, <2>1 DEF Provided, p
<1>5. CASE scheduled \/ z.other # <<>>
  <2>1. p.z = CountInCycle(queued, d, counter) /\ p.section = sent
    <3> HIDE DEF queued, d, sent
    <3> QED BY <1>1, <1>5
  <2>2. d \in E /\ (scheduled => z.sched # <<>> /\ d = Head(z.sched))
        /\ (~scheduled => z.other # <<>> /\ d = Head(z.other))
    <3> HIDE DEF E
    <3> QED BY <1>3, <1>5 DEF scheduled
  <2> HIDE DEF d
  <2>3. d \in Entry /\ d.section \in Listed /\ d.section.ver = V[d.section.tid] /\ d.rep \in Nat
    BY <2>2 DEF Live, Entry
  <2>4. passed \in Entry /\ passed.section = d.section /\ passed.lastCycle = c
    <3>1. passed = [d EXCEPT !.lastPacket = z.packets, !.lastCycle = c]
      BY DEF Passed, c
    <3> HIDE DEF passed
    <3> QED BY <1>3, <2>3, <3>1 DEF Entry
  <2>5. due \in Nat
    <3>1. \A j, k \in Nat : j * k \in Nat
      OBVIOUS
    <3>2. wait \in Nat
      BY <1>3, <2>3, <3>1 DEF PacketDistance
    <3> HIDE DEF wait
    <3> QED BY <1>3, <3>2
  <2> HIDE DEF due, passed
  <2>6. again \in Entry /\ again.section = d.section /\ again.lastCycle = c
    BY <2>4, <2>5 DEF Entry
  <2> HIDE DEF again
  <2>7. passed \in E /\ again \in E
    BY <1>3, <2>3, <2>4, <2>6 DEF Live
  <2>8. Uncounted(queued, V, d) /\ SamePosition(queued, z)
    <3>1. CASE scheduled
      <4>1. queued = [z EXCEPT !.sched = AddScheduled(Tail(z.sched), again)]
        BY <3>1
      <4>2. Uncounted([z EXCEPT !.sched = AddScheduled(Tail(z.sched), again)], V, d)
        BY <1>2, <2>2, <2>3, <2>6, <2>7, <3>1, Requeued DEF c
      <4> HIDE DEF queued
      <4> QED BY <1>2, <4>1, <4>2 DEF SamePosition, Object
    <3>2. CASE ~scheduled
      <4>1. queued = [z EXCEPT !.other = Append(Tail(z.other), passed)]
        BY <3>2
      <4>2. Uncounted([z EXCEPT !.other = Append(Tail(z.other), passed)], V, d)
        BY <1>2, <2>2, <2>3, <2>4, <2>7, <3>2, Requeued DEF c
      <4> HIDE DEF queued
      <4> QED BY <1>2, <4>1, <4>2 DEF SamePosition, Object
    <3> QED BY <3>1, <3>2
  <2> HIDE DEF queued
  <2>9. Exact(p.z, V) /\ SamePosition(p.z, queued)
    BY <2>1, <2>3, <2>8, CountInCycleExact
  <2>10. SamePosition(p.z, z0)
    BY <1>2, <2>8, <2>9 DEF SamePosition
  <2>11. p.section \in Sent /\ p.section.occ = counter /\ p.section.ver = V[p.section.tid]
    BY <2>1, <2>3, SentSection
  <2> QED BY <2>9, <2>10, <2>11 DEF Provided, p
<1> QED BY <1>4, <1>5

-----------------------------------------------------------------------------
(***************************************************************************)
(* The bytes which are generated.                                          *)
(***************************************************************************)
Byte == {b \in [of : Sent, at : Nat] : 1 <= b.at /\ b.at <= b.of.size}

\* Section a is sent before section b, which has not an earlier version.
Prior(a, b) == a.occ < b.occ /\ (a.tid = b.tid => a.ver <= b.ver)
Upto(a, b) == a = b \/ Prior(a, b)

\* Byte b comes next after byte a.
Follows(a, b) ==
    \/ b.of = a.of /\ b.at = a.at + 1
    \/ a.at = a.of.size /\ b.at = 1 /\ a.of # b.of /\ Upto(a.of, b.of)

\* Bytes without a hole, in the order in which they are sent.
Chain(s) ==
    /\ s \in Seq(Byte)
    /\ \A i \in 1 .. Len(s) : i + 1 <= Len(s) => Follows(s[i], s[i + 1])
    /\ \A i, j \in 1 .. Len(s) : i < j => Upto(s[i].of, s[j].of)

SectionsOf(s) == {s[i].of : i \in 1 .. Len(s)}

\* Section s was provided, by the object z with the current versions V.
Old(s, z, V) == s \in Sent /\ s.occ < z.in /\ s.ver <= V[s.tid]

\* The current section and the position in it.
Placed(z, V) ==
    \/ z.section = NullSection /\ z.next = 0
    \/ Old(z.section, z, V) /\ z.next \in 0 .. z.section.size - 1

\* Section x was sent, at least in part: it is not after the current section.
Past(x, z, V) == Old(x, z, V) /\ (z.section # NullSection => Upto(x, z.section))

SameLists(y, z) ==
    /\ y.sched = z.sched /\ y.other = z.other /\ y.schedPackets = z.schedPackets
    /\ y.count = z.count /\ y.cycle = z.cycle /\ y.remain = z.remain

\* The sizes of the sections.
LEMMA Sizes ==
    /\ PayloadSize \in Nat /\ ShortHeader \in Nat /\ LongHeader \in Nat /\ MinSection \in Nat
    /\ MaxSection \in Nat /\ 0 < ShortHeader /\ ShortHeader < LongHeader /\ LongHeader < MinSection
    /\ LongHeader < PayloadSize
    /\ NullSection \in Sect /\ NullSection \notin Sent /\ NullSection.size = 0
<1>1. NullSection \in Sect /\ NullSection.size = 0 /\ NullSection.tid \notin TIDs
      /\ NullSection.occ \notin Nat
  BY DemuxAssumption DEF NullSection, Sect, NoOcc
<1>2. NullSection \notin Sent
  BY <1>1 DEF Sent
<1> QED BY <1>1, <1>2, SizeAssumption, DemuxAssumption

\* A section which is sent.
LEMMA SentSize ==
    ASSUME NEW s \in Sent
    PROVE  /\ s \in Sect /\ s # NullSection /\ s.tid \in TIDs /\ s.occ \in Nat /\ s.ver \in Nat
           /\ s.size \in Nat /\ MinSection <= s.size /\ s.size <= MaxSection
           /\ s.ver \in DOMAIN TableSizes[s.tid] /\ s.num + 1 \in DOMAIN TableSizes[s.tid][s.ver]
           /\ s.last + 1 = Len(TableSizes[s.tid][s.ver])
           /\ s.size = TableSizes[s.tid][s.ver][s.num + 1]
<1> DEFINE l == [s EXCEPT !.occ = NoOcc]
<1>1. s \in Sect /\ s.occ \in Nat /\ l \in Listed
  BY DEF Sent
<1>2. l.tid = s.tid /\ l.ver = s.ver /\ l.num = s.num /\ l.last = s.last /\ l.size = s.size
  BY <1>1 DEF Sect
<1> HIDE DEF l
<1>3. /\ s.tid \in TIDs /\ s.ver \in DOMAIN TableSizes[s.tid]
      /\ s.num + 1 \in DOMAIN TableSizes[s.tid][s.ver]
      /\ s.last + 1 = Len(TableSizes[s.tid][s.ver])
      /\ s.size = TableSizes[s.tid][s.ver][s.num + 1]
  BY <1>1, <1>2 DEF Listed
<1>4. s.size \in MinSection .. MaxSection
  <2>1. TableSizes[s.tid] \in Seq(Seq(MinSection .. MaxSection) \ {<<>>})
    BY <1>3, StreamAssumption
  <2> DEFINE sizes == TableSizes[s.tid][s.ver]  n == s.num + 1
  <2>2. sizes \in Seq(MinSection .. MaxSection)
    BY <1>3, <2>1
  <2>3. n \in DOMAIN sizes /\ s.size = sizes[n]
    BY <1>3
  <2> DEFINE M == MinSection .. MaxSection
  <2> HIDE DEF sizes, n, M
  <2>4. sizes \in Seq(M)
    BY <2>2 DEF M
  <2>5. sizes[n] \in M
    BY <2>3, <2>4
  <2> QED BY <2>3, <2>5 DEF M
<1>5. s # NullSection
  BY <1>1, Sizes
<1> QED BY <1>1, <1>3, <1>4, <1>5, Sizes DEF Sect

\* The counters are exact whatever the current section is.
LEMMA ExactSame ==
    ASSUME NEW V, NEW z, Exact(z, V), NEW y \in Object, SameLists(y, z)
    PROVE  Exact(y, V)
  BY DEF Exact, SameLists

\* What a section which is provided is.
Fresh(s, k, V) == s # NullSection => s \in Sent /\ s.occ = k /\ s.ver = V[s.tid]

\* provideSection() of the next section.
LEMMA ProvideExact ==
    ASSUME NEW V \in Versions, NEW z, Exact(z, V)
    PROVE  /\ Exact(Provide(z).z, V) /\ Fresh(Provide(z).section, z.in, V)
           /\ Provide(z).z.section = z.section /\ Provide(z).z.next = z.next
           /\ Provide(z).z.in = z.in + 1 /\ Provide(z).z.cc = z.cc
           /\ Provide(z).z.packets = z.packets
<1> DEFINE k == z.in + 1  y == [z EXCEPT !.in = k]  p == ProvideSection(y, z.in)
<1>1. z \in Object /\ z.in \in Nat
  BY DEF Exact, Object
<1>2. y \in Object /\ SameLists(y, z) /\ y.section = z.section /\ y.next = z.next /\ y.in = k
      /\ y.cc = z.cc /\ y.packets = z.packets
  <2>1. k \in Nat
    BY <1>1
  <2> HIDE DEF k
  <2> QED BY <1>1, <2>1 DEF Object, SameLists
<1>3. Provide(z) = p
  BY <1>1 DEF Provide, Object
<1> HIDE DEF y
<1>4. Exact(y, V)
  BY <1>2, ExactSame
<1>5. Provided(p, y, V, z.in)
  BY <1>1, <1>4, ProvideSectionExact
<1> HIDE DEF p
<1> QED BY <1>2, <1>3, <1>5 DEF Provided, SamePosition, Fresh

\* provideSection() of the current section.
LEMMA ProvideCurrentExact ==
    ASSUME NEW V \in Versions, NEW z, Exact(z, V)
    PROVE  /\ Exact(ProvideCurrent(z), V) /\ Fresh(ProvideCurrent(z).section, z.in, V)
           /\ ProvideCurrent(z).next = 0 /\ ProvideCurrent(z).in = z.in + 1
           /\ ProvideCurrent(z).cc = z.cc /\ ProvideCurrent(z).packets = z.packets
<1> DEFINE p == Provide(z)  s == p.section  n == 0  x == p.z
           y == [x EXCEPT !.section = s, !.next = n]
<1>1. ProvideCurrent(z) = y
  BY DEF ProvideCurrent
<1>2. /\ Exact(x, V) /\ Fresh(s, z.in, V) /\ x.in = z.in + 1 /\ x.cc = z.cc
      /\ x.packets = z.packets
  BY ProvideExact
<1>3. x \in Object /\ s \in Sect /\ n \in Nat
  <2>1. s = NullSection \/ s \in Sent
    BY <1>2 DEF Fresh
  <2> HIDE DEF s, p
  <2> QED BY <1>2, <2>1, Sizes, SentSize DEF Exact
<1> HIDE DEF p, s, n, x
<1>4. y \in Object /\ SameLists(y, x) /\ y.section = s /\ y.next = n /\ y.in = x.in /\ y.cc = x.cc
      /\ y.packets = x.packets
  BY <1>3 DEF Object, SameLists
<1> HIDE DEF y
<1>5. Exact(y, V)
  BY <1>2, <1>4, ExactSame
<1> QED BY <1>1, <1>2, <1>4, <1>5 DEF n

\* A piece of a section, after n bytes of it.
Piece(s, n, k) == [i \in 1 .. k |-> [of |-> s, at |-> n + i]]

\* After chain d comes section s, of which n bytes were sent.
Continues(d, s, n) ==
    /\ \A x \in SectionsOf(d) : Upto(x, s)
    /\ d # <<>> => Follows(d[Len(d)], [of |-> s, at |-> n + 1])

\* e is the chain d and k bytes of section s.
Extension(e, d, s, n, k) ==
    /\ Chain(e) /\ Len(e) = Len(d) + k /\ SectionsOf(e) = SectionsOf(d) \cup {s}
    /\ e[Len(e)] = [of |-> s, at |-> n + k]
    /\ e[1] = IF d = <<>> THEN [of |-> s, at |-> n + 1] ELSE d[1]

\* A piece of a section after a chain is a chain.
LEMMA Extended ==
    ASSUME NEW d, Chain(d), NEW s \in Sent, NEW n \in Nat, NEW k \in Nat, 1 <= k, n + k <= s.size,
           Continues(d, s, n)
    PROVE  Extension(d \o Piece(s, n, k), d, s, n, k)
<1> DEFINE e == d \o Piece(s, n, k)
<1> DEFINE L == Len(d)  g == Piece(s, n, k)
<1>1. d \in Seq(Byte) /\ L \in Nat /\ (d = <<>> <=> L = 0)
  BY DEF Chain
<1>2. s.size \in Nat
  BY SentSize
<1>3. \A i \in 1 .. k : g[i] \in Byte /\ g[i].of = s /\ g[i].at = n + i
  <2> SUFFICES ASSUME NEW i \in 1 .. k PROVE g[i] \in Byte /\ g[i].of = s /\ g[i].at = n + i
    OBVIOUS
  <2>1. n + i \in Nat /\ 1 <= n + i /\ n + i <= s.size
    BY <1>2
  <2> QED BY <2>1 DEF Byte, Piece
<1>4. g \in Seq(Byte) /\ Len(g) = k
  <2>1. g = [i \in 1 .. k |-> g[i]]
    BY DEF Piece
  <2> HIDE DEF g
  <2> QED BY <1>3, <2>1
<1>5. e = d \o g /\ e \in Seq(Byte) /\ Len(e) = L + k
  <2> HIDE DEF g
  <2>1. e = d \o g
    BY DEF g
  <2> HIDE DEF e, L
  <2>2. d \o g \in Seq(Byte) /\ Len(d \o g) = Len(d) + Len(g)
    BY <1>1, <1>4, ConcatProperties
  <2> QED BY <1>4, <2>1, <2>2 DEF L
<1> HIDE DEF e
<1>6. \A i \in 1 .. L + k : e[i] = IF i <= L THEN d[i] ELSE g[i - L]
  <2> HIDE DEF g
  <2> QED BY <1>1, <1>4, <1>5
<1>7. \A i \in 1 .. L : e[i] = d[i]
  BY <1>1, <1>6
<1>8. \A i \in 1 .. k : e[L + i] = [of |-> s, at |-> n + i]
  <2> SUFFICES ASSUME NEW i \in 1 .. k PROVE e[L + i] = [of |-> s, at |-> n + i]
    OBVIOUS
  <2>1. L + i \in 1 .. L + k /\ ~(L + i <= L) /\ (L + i) - L = i
    BY <1>1
  <2>2. e[L + i] = g[i]
    BY <1>6, <2>1
  <2> QED BY <2>2 DEF Piece
<1> HIDE DEF L, g
<1>9. ASSUME NEW i \in 1 .. L + k, i + 1 <= L + k PROVE Follows(e[i], e[i + 1])
  <2>1. CASE i + 1 <= L
    <3>1. i \in 1 .. L /\ i + 1 \in 1 .. L
      BY <1>1, <2>1
    <3>2. Follows(d[i], d[i + 1])
      BY <2>1, <3>1 DEF Chain, L
    <3> QED BY <1>7, <3>1, <3>2
  <2>2. CASE i = L
    <3>1. 1 \in 1 .. k /\ L \in 1 .. L
      BY <2>2
    <3>2. e[L + 1] = [of |-> s, at |-> n + 1] /\ e[L] = d[L]
      BY <1>7, <1>8, <3>1
    <3>3. d # <<>>
      BY <1>1, <2>2
    <3> QED BY <2>2, <3>2, <3>3 DEF L, Continues
  <2>3. CASE i > L
    <3> DEFINE j == i - L
    <3>1. j \in 1 .. k /\ j + 1 \in 1 .. k /\ i = L + j /\ i + 1 = L + (j + 1) /\ n + (j + 1) = (n + j) + 1
      BY <1>1, <1>9, <2>3
    <3> HIDE DEF j
    <3>2. e[L + j] = [of |-> s, at |-> n + j] /\ e[L + (j + 1)] = [of |-> s, at |-> n + (j + 1)]
      BY <1>8, <3>1
    <3> QED BY <3>1, <3>2 DEF Follows
  <2> QED BY <1>1, <2>1, <2>2, <2>3
<1>10. ASSUME NEW i \in 1 .. L + k
       PROVE  (i <= L /\ e[i] = d[i] /\ Upto(e[i].of, s)) \/ (i > L /\ e[i].of = s)
  <2>1. CASE i <= L
    <3>1. i \in 1 .. L
      BY <1>1, <2>1
    <3>2. d[i].of \in SectionsOf(d)
      BY <3>1 DEF SectionsOf, L
    <3> QED BY <1>7, <2>1, <3>1, <3>2 DEF Continues
  <2>2. CASE i > L
    <3>1. i - L \in 1 .. k /\ L + (i - L) = i
      BY <1>1, <2>2
    <3>2. e[i] = [of |-> s, at |-> n + (i - L)]
      BY <1>8, <3>1
    <3> QED BY <2>2, <3>2
  <2> QED BY <1>1, <2>1, <2>2
<1>11. ASSUME NEW i \in 1 .. L + k, NEW j \in 1 .. L + k, i < j PROVE Upto(e[i].of, e[j].of)
  <2>1. CASE j <= L
    <3>1. i \in 1 .. L /\ j \in 1 .. L
      BY <1>1, <1>11, <2>1
    <3> QED BY <1>7, <1>11, <3>1 DEF Chain, L
  <2>2. CASE j > L
    <3>1. e[j].of = s
      BY <1>1, <1>10, <2>2
    <3>2. Upto(e[i].of, s)
      BY <1>10 DEF Prior, Upto
    <3> QED BY <3>1, <3>2
  <2> QED BY <1>1, <2>1, <2>2
<1>12. Chain(e)
  BY <1>5, <1>9, <1>11 DEF Chain
<1>13. SectionsOf(e) = SectionsOf(d) \cup {s}
  <2>1. ASSUME NEW x \in SectionsOf(e) PROVE x \in SectionsOf(d) \cup {s}
    <3>1. PICK i \in 1 .. L + k : x = e[i].of
      BY <1>5 DEF SectionsOf
    <3>2. CASE i <= L /\ e[i] = d[i]
      <4>1. i \in 1 .. L
        BY <1>1, <3>2
      <4> QED BY <3>1, <3>2, <4>1 DEF SectionsOf, L
    <3> QED BY <1>10, <3>1, <3>2
  <2>2. ASSUME NEW x \in SectionsOf(d) PROVE x \in SectionsOf(e)
    <3>1. PICK i \in 1 .. L : x = d[i].of
      BY DEF SectionsOf, L
    <3>2. i \in 1 .. L + k /\ e[i] = d[i]
      BY <1>1, <1>7
    <3> QED BY <1>5, <3>1, <3>2 DEF SectionsOf
  <2>3. s \in SectionsOf(e)
    <3>1. 1 \in 1 .. k /\ L + 1 \in 1 .. L + k
      BY <1>1
    <3>2. e[L + 1] = [of |-> s, at |-> n + 1]
      BY <1>8, <3>1
    <3> QED BY <1>5, <3>1, <3>2 DEF SectionsOf
  <2> QED BY <2>1, <2>2, <2>3
<1>14. e[L + k] = [of |-> s, at |-> n + k]
  <2>1. k \in 1 .. k
    OBVIOUS
  <2> QED BY <1>8, <2>1
<1>15. e[1] = IF d = <<>> THEN [of |-> s, at |-> n + 1] ELSE d[1]
  <2>1. CASE d = <<>>
    <3>1. 1 \in 1 .. k /\ L + 1 = 1
      BY <1>1, <2>1
    <3>2. e[L + 1] = [of |-> s, at |-> n + 1]
      BY <1>8, <3>1
    <3> QED BY <2>1, <3>1, <3>2
  <2>2. CASE d # <<>>
    <3>1. 1 \in 1 .. L
      BY <1>1, <2>2
    <3> QED BY <1>7, <2>2, <3>1
  <2> QED BY <2>1, <2>2
<1> QED BY <1>5, <1>12, <1>13, <1>14, <1>15 DEF L, e, Extension

\* The state of the loop which fills a packet.
Filling == [z : Object, following : Sect, data : Seq(Byte), room : Nat,
            stuffing : BOOLEAN, done : BOOLEAN]

\* The section which follows in the packet, if it is known.
Awaited(f, V) ==
    f.following # NullSection =>
      /\ f.z.section # NullSection /\ Old(f.following, f.z, V)
      /\ f.following # f.z.section /\ Upto(f.z.section, f.following)

\* The sections which were sent before.
Behind(f, V, X) ==
    /\ \A x \in X \cup SectionsOf(f.data) :
          Past(x, f.z, V) /\ (f.following # NullSection => Upto(x, f.following))
    /\ \A x \in X, s \in SectionsOf(f.data) : Upto(x, s)

\* The payload begins with byte first, and the current position comes after its last byte.
Joined(f, first) ==
    /\ f.data = <<>> => f.z.section = first.of /\ f.z.next + 1 = first.at
    /\ f.data # <<>> =>
         LET b == f.data[Len(f.data)]
         IN  /\ f.data[1] = first
             /\ IF f.z.next > 0 THEN b.of = f.z.section /\ b.at = f.z.next
                ELSE b.at = b.of.size /\ b.of # f.z.section

\* R bytes of payload, more than m of them are of sections.
Spaced(f, m, R) ==
    /\ Len(f.data) + f.room = R
    /\ f.room = 0 => f.done
    /\ f.done /\ f.room > 0 => f.z.next = 0
    /\ f.done => Len(f.data) > m
    /\ Len(f.data) < m =>
         /\ ~f.stuffing /\ f.following # NullSection
         /\ f.z.section.size - f.z.next = m - Len(f.data)
         /\ f.room >= m - Len(f.data) + LongHeader

\* Without the start of a section (m < 0) there is only the current section.
Solo(f, first, m) ==
    m < 0 => /\ SectionsOf(f.data) \subseteq {first.of}
             /\ ~f.done => f.stuffing /\ f.z.section = first.of

FillOK(f, V, X, first, m, R) ==
    /\ f \in Filling /\ Exact(f.z, V) /\ Placed(f.z, V)
    /\ f.z.section = NullSection => f.done
    /\ Awaited(f, V) /\ Behind(f, V, X) /\ Chain(f.data) /\ Joined(f, first) /\ Spaced(f, m, R)
    /\ Solo(f, first, m)

\* What a section which is provided comes after.
LEMMA FreshLater ==
    ASSUME NEW V \in Versions, NEW s, NEW k \in Nat, Fresh(s, k, V), s # NullSection,
           NEW x \in Sent, x.occ < k, x.ver <= V[x.tid]
    PROVE  Upto(x, s) /\ x # s
<1>1. s \in Sent /\ s.occ = k /\ s.ver = V[s.tid]
  BY DEF Fresh
<1>2. x.occ \in Nat
  BY SentSize
<1> QED BY <1>1, <1>2 DEF Prior, Upto

\* A section which is provided is the current one.
LEMMA FreshPlaced ==
    ASSUME NEW V \in Versions, NEW y, NEW k \in Nat, Fresh(y.section, k, V), y.next = 0, y.in = k + 1
    PROVE  Placed(y, V)
<1>1. CASE y.section = NullSection
  BY <1>1 DEF Placed
<1>2. CASE y.section # NullSection
  <2>1. y.section \in Sent /\ y.section.occ = k /\ y.section.ver = V[y.section.tid]
    BY <1>2 DEF Fresh
  <2>2. y.section.size \in Nat /\ 0 < y.section.size /\ y.section.ver \in Nat
    BY <2>1, SentSize, Sizes
  <2>3. Old(y.section, y, V)
    BY <2>1, <2>2 DEF Old
  <2> QED BY <2>2, <2>3 DEF Placed
<1> QED BY <1>1, <1>2

\* One more turn of the loop.
Fills(g, f, V, X, first, m, R) ==
    /\ FillOK(g, V, X, first, m, R) /\ Len(g.data) > Len(f.data)
    /\ g.z.cc = f.z.cc /\ g.z.packets = f.z.packets

\* One turn of the loop: a piece of the current section, which does not end in it.
LEMMA FillPiece ==
    ASSUME NEW V \in Versions, NEW X, NEW first \in Byte, NEW m \in Int, NEW R \in Nat,
           NEW f, FillOK(f, V, X, first, m, R), ~f.done, f.room < f.z.section.size - f.z.next
    PROVE  Fills(FillStep(f), f, V, X, first, m, R)
<1> DEFINE s == f.z.section
           n == f.z.next
           k == f.room
           d == f.data \o Piece(s, n, k)
           q == n + k
           y == [f.z EXCEPT !.next = q]
           g == FillStep(f)
<1>1. /\ f \in Filling /\ Exact(f.z, V) /\ f.z \in Object /\ s # NullSection
      /\ k \in Nat /\ 1 <= k /\ f.following \in Sect /\ f.stuffing \in BOOLEAN /\ Chain(f.data)
      /\ f.data \in Seq(Byte) /\ Len(f.data) \in Nat
  <2>1. f \in Filling /\ Exact(f.z, V) /\ Chain(f.data) /\ s # NullSection /\ k # 0
    BY DEF FillOK, Spaced
  <2>2. f.z \in Object /\ k \in Nat /\ f.following \in Sect /\ f.stuffing \in BOOLEAN
        /\ f.data \in Seq(Byte)
    BY <2>1 DEF Filling
  <2>3. Len(f.data) \in Nat
    BY <2>2
  <2> QED BY <2>1, <2>2, <2>3
<1>2. Old(s, f.z, V) /\ n \in Nat /\ n < s.size /\ s \in Sent /\ s.size \in Nat /\ s.occ \in Nat
  <2>1. Old(s, f.z, V) /\ n \in 0 .. s.size - 1
    BY <1>1 DEF FillOK, Placed
  <2>2. s \in Sent
    BY <2>1 DEF Old
  <2> QED BY <2>1, <2>2, SentSize
<1>3. n + k <= s.size /\ q \in Nat /\ q < s.size /\ q > 0
  BY <1>1, <1>2
<1>4. Continues(f.data, s, n)
  <2>1. \A x \in SectionsOf(f.data) : Upto(x, s)
    BY <1>1 DEF FillOK, Behind, Past
  <2>2. ASSUME f.data # <<>> PROVE Follows(f.data[Len(f.data)], [of |-> s, at |-> n + 1])
    <3> DEFINE b == f.data[Len(f.data)]
    <3>1. Len(f.data) \in 1 .. Len(f.data)
      BY <1>1, <2>2
    <3>2. b.of \in SectionsOf(f.data)
      BY <3>1 DEF SectionsOf
    <3>3. IF n > 0 THEN b.of = s /\ b.at = n ELSE b.at = b.of.size /\ b.of # s
      BY <2>2 DEF FillOK, Joined
    <3>4. Upto(b.of, s)
      BY <2>1, <3>2
    <3> QED BY <1>2, <3>3, <3>4 DEF Follows
  <2> QED BY <2>1, <2>2 DEF Continues
<1>5. Extension(d, f.data, s, n, k)
  BY <1>1, <1>2, <1>3, <1>4, Extended
<1>6. g = [f EXCEPT !.z = y, !.data = d, !.room = 0, !.done = TRUE]
  <2>1. ~(s.size - n < f.room) /\ k < s.size - n /\ f.room - k = 0
    BY <1>1, <1>2
  <2>2. Piece(s, n, k) = [i \in 1 .. k |-> [of |-> s, at |-> n + i]]
    BY DEF Piece
  <2> QED BY <1>1, <2>1, <2>2 DEF FillStep, Filling
<1>7. d \in Seq(Byte) /\ d # <<>> /\ Len(d) = Len(f.data) + k /\ Len(d) \in Nat
  <2>1. Chain(d) /\ Len(d) = Len(f.data) + k
    BY <1>5 DEF Extension
  <2>2. d \in Seq(Byte)
    BY <2>1 DEF Chain
  <2> HIDE DEF d
  <2> QED BY <1>1, <2>1, <2>2
<1> HIDE DEF d, q
<1>8. y \in Object /\ SameLists(y, f.z) /\ y.section = s /\ y.next = q /\ y.in = f.z.in
      /\ y.cc = f.z.cc /\ y.packets = f.z.packets
  BY <1>1, <1>3 DEF Object, SameLists
<1> HIDE DEF y, g
<1>9. g \in Filling /\ g.z = y /\ g.data = d /\ g.room = 0 /\ g.done /\ g.following = f.following
      /\ g.stuffing = f.stuffing
  BY <1>1, <1>6, <1>7, <1>8 DEF Filling
<1>10. Exact(y, V)
  BY <1>1, <1>8, ExactSame
<1>11. Old(s, y, V) /\ Placed(y, V)
  <2>1. Old(s, y, V)
    BY <1>2, <1>8 DEF Old
  <2> QED BY <1>2, <1>3, <1>8, <2>1 DEF Placed
<1>12. Awaited(g, V)
  BY <1>8, <1>9 DEF FillOK, Awaited, Old
<1>13. Behind(g, V, X)
  <2>1. SectionsOf(d) = SectionsOf(f.data) \cup {s}
    BY <1>5 DEF Extension
  <2>2. ASSUME NEW x \in X \cup SectionsOf(f.data)
        PROVE  Past(x, y, V) /\ (f.following # NullSection => Upto(x, f.following))
    <3>1. Past(x, f.z, V) /\ (f.following # NullSection => Upto(x, f.following))
      BY <2>2 DEF FillOK, Behind
    <3> QED BY <1>8, <3>1 DEF Past, Old
  <2>3. Past(s, y, V) /\ (f.following # NullSection => Upto(s, f.following))
    <3>1. Past(s, y, V)
      BY <1>8, <1>11 DEF Past, Prior, Upto
    <3>2. f.following # NullSection => Upto(s, f.following)
      BY DEF FillOK, Awaited
    <3> QED BY <3>1, <3>2
  <2>4. \A x \in X, b \in SectionsOf(d) : Upto(x, b)
    <3>1. \A x \in X : Upto(x, s)
      BY <1>1 DEF FillOK, Behind, Past
    <3> QED BY <2>1, <3>1 DEF FillOK, Behind
  <2> QED BY <1>9, <2>1, <2>2, <2>3, <2>4 DEF Behind
<1>14. Joined(g, first)
  <2>1. d[Len(d)] = [of |-> s, at |-> q]
    BY <1>5 DEF Extension, q
  <2>2. d[1] = first
    <3>1. CASE f.data = <<>>
      <4>1. s = first.of /\ n + 1 = first.at /\ d[1] = [of |-> s, at |-> n + 1]
        BY <1>5, <3>1 DEF FillOK, Joined, Extension
      <4>2. first = [of |-> first.of, at |-> first.at]
        BY DEF Byte
      <4> QED BY <4>1, <4>2
    <3>2. CASE f.data # <<>>
      BY <1>5, <3>2 DEF FillOK, Joined, Extension
    <3> QED BY <3>1, <3>2
  <2> QED BY <1>3, <1>7, <1>8, <1>9, <2>1, <2>2 DEF Joined
<1>15. Spaced(g, m, R)
  <2>1. Len(f.data) + f.room = R
    BY DEF FillOK, Spaced
  <2>2. Len(f.data) < m =>
          s.size - n = m - Len(f.data) /\ f.room >= m - Len(f.data) + LongHeader
    BY DEF FillOK, Spaced
  <2>3. Len(f.data) >= m
    <3> DEFINE l == Len(f.data)  left == s.size - n
    <3>1. l \in Nat /\ left \in Int /\ k < left /\ k \in Nat /\ LongHeader \in Nat
      BY <1>1, <1>2, Sizes
    <3>2. l < m => left = m - l /\ k >= m - l + LongHeader
      BY <2>2
    <3> HIDE DEF l, left, k
    <3>3. l >= m
      BY <3>1, <3>2
    <3> QED BY <3>3 DEF l
  <2> QED BY <1>1, <1>7, <1>9, <2>1, <2>3 DEF Spaced
<1>16. Chain(d)
  BY <1>5 DEF Extension
<1>17. Solo(g, first, m)
  <2>1. SectionsOf(d) = SectionsOf(f.data) \cup {s}
    BY <1>5 DEF Extension
  <2> QED BY <1>9, <2>1 DEF FillOK, Solo
<1>18. FillOK(g, V, X, first, m, R)
  BY <1>8, <1>9, <1>10, <1>11, <1>12, <1>13, <1>14, <1>15, <1>16, <1>17 DEF FillOK
<1> QED BY <1>1, <1>7, <1>8, <1>9, <1>18 DEF g, Fills

\* After the last byte of a section: the section which follows, or one which is provided.
AfterSection(f) ==
    LET ended == [f.z EXCEPT !.out = @ + 1, !.section = f.following, !.next = 0]
    IN  IF f.following = NullSection /\ ~f.stuffing /\ ~DoStuffing(ended)
        THEN ProvideCurrent(ended) ELSE ended

\* It comes after all the sections before.
LEMMA AfterSectionOK ==
    ASSUME NEW V \in Versions, NEW f \in Filling, Exact(f.z, V), Awaited(f, V)
    PROVE  /\ Exact(AfterSection(f), V) /\ Placed(AfterSection(f), V) /\ AfterSection(f).next = 0
           /\ AfterSection(f).cc = f.z.cc /\ AfterSection(f).packets = f.z.packets
           /\ f.following # NullSection => AfterSection(f).section = f.following
           /\ \A x : Old(x, f.z, V) /\ (f.following # NullSection => Upto(x, f.following))
                     => Past(x, AfterSection(f), V)
                        /\ (x # f.following => x # AfterSection(f).section)
<1> DEFINE r == f.z.out + 1
           w == f.following
           ended == [f.z EXCEPT !.out = r, !.section = w, !.next = 0]
           y == AfterSection(f)
<1>1. f.z \in Object /\ w \in Sect /\ r \in Nat
  BY DEF Filling, Object
<1>2. y = IF w = NullSection /\ ~f.stuffing /\ ~DoStuffing(ended) THEN ProvideCurrent(ended) ELSE ended
  BY <1>1 DEF AfterSection, Object
<1> HIDE DEF r, w, y
<1>3. ended \in Object /\ SameLists(ended, f.z) /\ ended.section = w /\ ended.next = 0
      /\ ended.in = f.z.in /\ ended.cc = f.z.cc /\ ended.packets = f.z.packets
  BY <1>1 DEF Object, SameLists
<1> HIDE DEF ended
<1>4. Exact(ended, V) /\ ended.in \in Nat
  BY <1>3, ExactSame DEF Object
<1>5. CASE y = ended
  <2>1. Placed(y, V)
    <3>1. CASE w = NullSection
      BY <1>3, <1>5, <3>1 DEF Placed
    <3>2. CASE w # NullSection
      <4>1. Old(w, f.z, V)
        BY <3>2 DEF Awaited, w
      <4>2. w.size \in Nat /\ 0 < w.size
        BY <4>1, SentSize, Sizes DEF Old
      <4>3. Old(w, y, V)
        BY <1>3, <1>5, <4>1 DEF Old
      <4> QED BY <1>3, <1>5, <4>2, <4>3 DEF Placed
    <3> QED BY <3>1, <3>2
  <2>2. ASSUME NEW x, Old(x, f.z, V), w # NullSection => Upto(x, w)
        PROVE  Past(x, y, V) /\ (x # w => x # y.section)
    BY <1>3, <1>5, <2>2 DEF Past, Old
  <2> QED BY <1>3, <1>4, <1>5, <2>1, <2>2 DEF w, y
<1>6. CASE w = NullSection /\ y = ProvideCurrent(ended)
  <2> DEFINE k == ended.in
  <2>1. /\ Exact(y, V) /\ Fresh(y.section, k, V) /\ y.next = 0 /\ y.in = k + 1 /\ y.cc = ended.cc
        /\ y.packets = ended.packets
    BY <1>4, <1>6, ProvideCurrentExact
  <2>2. Placed(y, V)
    BY <1>4, <2>1, FreshPlaced
  <2>3. ASSUME NEW x, Old(x, f.z, V) PROVE Past(x, y, V) /\ x # y.section
    <3>1. x \in Sent /\ x.occ < k /\ x.ver <= V[x.tid] /\ x.occ \in Nat /\ x # NullSection
      BY <1>3, <2>3, SentSize DEF Old
    <3>2. Old(x, y, V)
      BY <1>4, <2>1, <3>1 DEF Old
    <3>3. y.section # NullSection => Upto(x, y.section) /\ x # y.section
      BY <1>4, <2>1, <3>1, FreshLater
    <3> QED BY <3>1, <3>2, <3>3 DEF Past
  <2> QED BY <1>3, <1>6, <2>1, <2>2, <2>3 DEF w, y
<1> QED BY <1>2, <1>5, <1>6

\* One turn of the loop: the rest of the current section.
LEMMA FillRest ==
    ASSUME NEW V \in Versions, NEW X, NEW first \in Byte, NEW m \in Int, NEW R \in Nat,
           NEW f, FillOK(f, V, X, first, m, R), ~f.done, ~(f.room < f.z.section.size - f.z.next)
    PROVE  Fills(FillStep(f), f, V, X, first, m, R)
<1> DEFINE s == f.z.section
           n == f.z.next
           k == s.size - n
           d == f.data \o Piece(s, n, k)
           r == f.room - k
           y == AfterSection(f)
           last == f.stuffing \/ y.section = NullSection \/ r < LongHeader
           g == FillStep(f)
<1>1. /\ f \in Filling /\ Exact(f.z, V) /\ f.z \in Object /\ s # NullSection
      /\ f.room \in Nat /\ f.following \in Sect /\ f.stuffing \in BOOLEAN /\ Chain(f.data)
      /\ f.data \in Seq(Byte) /\ Len(f.data) \in Nat
  <2>1. f \in Filling /\ Exact(f.z, V) /\ Chain(f.data) /\ s # NullSection
    BY DEF FillOK
  <2>2. f.z \in Object /\ f.room \in Nat /\ f.following \in Sect /\ f.stuffing \in BOOLEAN
        /\ f.data \in Seq(Byte)
    BY <2>1 DEF Filling
  <2>3. Len(f.data) \in Nat
    BY <2>2
  <2> QED BY <2>1, <2>2, <2>3
<1>2. Old(s, f.z, V) /\ n \in Nat /\ n < s.size /\ s \in Sent /\ s.size \in Nat
  <2>1. Old(s, f.z, V) /\ n \in 0 .. s.size - 1
    BY <1>1 DEF FillOK, Placed
  <2>2. s \in Sent
    BY <2>1 DEF Old
  <2> QED BY <2>1, <2>2, SentSize
<1>3. k \in Nat /\ 1 <= k /\ n + k = s.size /\ n + k <= s.size /\ r \in Nat
  BY <1>1, <1>2, SMTT(30)
<1>4. Continues(f.data, s, n)
  <2>1. \A x \in SectionsOf(f.data) : Upto(x, s)
    BY <1>1 DEF FillOK, Behind, Past
  <2>2. ASSUME f.data # <<>> PROVE Follows(f.data[Len(f.data)], [of |-> s, at |-> n + 1])
    <3> DEFINE b == f.data[Len(f.data)]
    <3>1. Len(f.data) \in 1 .. Len(f.data)
      BY <1>1, <2>2
    <3>2. b.of \in SectionsOf(f.data)
      BY <3>1 DEF SectionsOf
    <3>3. IF n > 0 THEN b.of = s /\ b.at = n ELSE b.at = b.of.size /\ b.of # s
      BY <2>2 DEF FillOK, Joined
    <3>4. Upto(b.of, s)
      BY <2>1, <3>2
    <3> QED BY <1>2, <3>3, <3>4 DEF Follows
  <2> QED BY <2>1, <2>2 DEF Continues
<1> HIDE DEF k
<1>5. Extension(d, f.data, s, n, k)
  BY <1>1, <1>2, <1>3, <1>4, Extended
<1>6. g = [z |-> y, following |-> NullSection, data |-> d, room |-> r, stuffing |-> FALSE,
           done |-> last \/ r = 0]
  <2>1. IF k < f.room THEN k = k ELSE f.room = k
    BY <1>1, <1>3 DEF k
  <2>2. (IF k < f.room THEN k ELSE f.room) = k
    BY <2>1
  <2>3. Piece(s, n, k) = [i \in 1 .. k |-> [of |-> s, at |-> n + i]]
    BY DEF Piece
  <2>4. ~(k < k)
    BY <1>3
  <2> QED BY <2>2, <2>3, <2>4 DEF FillStep, AfterSection, k
<1>7. d \in Seq(Byte) /\ d # <<>> /\ Len(d) = Len(f.data) + k /\ Len(d) \in Nat
  <2>1. Chain(d) /\ Len(d) = Len(f.data) + k
    BY <1>5 DEF Extension
  <2>2. d \in Seq(Byte)
    BY <2>1 DEF Chain
  <2> HIDE DEF d
  <2> QED BY <1>1, <1>3, <2>1, <2>2
<1>8. Awaited(f, V)
  BY DEF FillOK
<1> HIDE DEF d, y, g, r
<1>9. /\ Exact(y, V) /\ Placed(y, V) /\ y.next = 0 /\ y.cc = f.z.cc /\ y.packets = f.z.packets
      /\ f.following # NullSection => y.section = f.following
  BY <1>1, <1>8, AfterSectionOK DEF y
<1>10. \A x : Old(x, f.z, V) /\ (f.following # NullSection => Upto(x, f.following))
              => Past(x, y, V) /\ (x # f.following => x # y.section)
  BY <1>1, <1>8, AfterSectionOK, Zenon DEF y
<1>11. g \in Filling /\ g.z = y /\ g.data = d /\ g.room = r /\ g.following = NullSection
       /\ (g.done <=> last \/ r = 0) /\ ~g.stuffing
  <2>1. y \in Object /\ NullSection \in Sect
    BY <1>9, Sizes DEF Exact
  <2> QED BY <1>3, <1>6, <1>7, <2>1 DEF Filling
<1> HIDE DEF last
<1>12. Awaited(g, V)
  BY <1>11 DEF Awaited
<1>13. Behind(g, V, X)
  <2>1. SectionsOf(d) = SectionsOf(f.data) \cup {s}
    BY <1>5 DEF Extension
  <2>2. ASSUME NEW x \in X \cup SectionsOf(f.data) PROVE Past(x, y, V)
    <3>1. Past(x, f.z, V) /\ (f.following # NullSection => Upto(x, f.following))
      BY <2>2 DEF FillOK, Behind
    <3> QED BY <1>10, <3>1 DEF Past
  <2>3. Past(s, y, V)
    <3>1. f.following # NullSection => Upto(s, f.following)
      BY <1>8 DEF Awaited
    <3> QED BY <1>2, <1>10, <3>1
  <2>4. \A x \in X, b \in SectionsOf(d) : Upto(x, b)
    <3>1. \A x \in X : Upto(x, s)
      BY <1>1 DEF FillOK, Behind, Past
    <3> QED BY <2>1, <3>1 DEF FillOK, Behind
  <2> QED BY <1>11, <2>1, <2>2, <2>3, <2>4 DEF Behind
<1>14. Joined(g, first)
  <2>1. d[Len(d)] = [of |-> s, at |-> s.size]
    BY <1>3, <1>5 DEF Extension
  <2>2. d[1] = first
    <3>1. CASE f.data = <<>>
      <4>1. s = first.of /\ n + 1 = first.at /\ d[1] = [of |-> s, at |-> n + 1]
        BY <1>5, <3>1 DEF FillOK, Joined, Extension
      <4>2. first = [of |-> first.of, at |-> first.at]
        BY DEF Byte
      <4> QED BY <4>1, <4>2
    <3>2. CASE f.data # <<>>
      BY <1>5, <3>2 DEF FillOK, Joined, Extension
    <3> QED BY <3>1, <3>2
  <2>3. s # y.section
    <3>1. f.following # NullSection => Upto(s, f.following)
      BY <1>8 DEF Awaited
    <3>2. s # f.following
      BY <1>1, <1>8 DEF Awaited
    <3> QED BY <1>2, <1>10, <3>1, <3>2
  <2> QED BY <1>7, <1>9, <1>11, <2>1, <2>2, <2>3 DEF Joined
<1>15. Spaced(g, m, R)
  <2> DEFINE l == Len(f.data)
  <2>1. l + f.room = R
    BY DEF FillOK, Spaced
  <2>2. l < m => ~f.stuffing /\ f.following # NullSection /\ k = m - l /\ f.room >= m - l + LongHeader
    BY DEF FillOK, Spaced, k
  <2>3. Len(d) + r = R
    BY <1>1, <1>3, <1>7, <2>1 DEF r
  <2>4. ASSUME l < m PROVE ~g.done /\ Len(d) = m
    <3>1. y.section # NullSection /\ ~f.stuffing
      BY <1>9, <2>2, <2>4
    <3>2. Len(d) = m /\ r >= LongHeader /\ r > 0
      <4> HIDE DEF l
      <4>1. LongHeader \in Nat /\ 0 < LongHeader /\ l \in Nat /\ Len(d) = l + k
        BY <1>1, <1>7, Sizes DEF l
      <4> QED BY <1>1, <1>3, <2>2, <2>4, <4>1 DEF r
    <3>3. ~last /\ r # 0
      BY <1>3, <3>1, <3>2, Sizes DEF last
    <3> QED BY <1>11, <3>2, <3>3
  <2>5. ASSUME ~(l < m) PROVE Len(d) > m
    <3>1. l \in Nat /\ Len(d) = l + k
      BY <1>1, <1>7
    <3> HIDE DEF l
    <3> QED BY <1>3, <2>5, <3>1
  <2>6. (g.done => Len(d) > m) /\ ~(Len(d) < m)
    <3> HIDE DEF l
    <3> QED BY <1>7, <2>4, <2>5
  <2> QED BY <1>9, <1>11, <2>3, <2>6 DEF Spaced
<1>16. Chain(d)
  BY <1>5 DEF Extension
<1>17. g.z.section = NullSection => g.done
  BY <1>11 DEF last
<1>18. Solo(g, first, m)
  <2>1. SectionsOf(d) = SectionsOf(f.data) \cup {s}
    BY <1>5 DEF Extension
  <2> QED BY <1>11, <2>1 DEF FillOK, Solo, last
<1>19. FillOK(g, V, X, first, m, R)
  BY <1>9, <1>11, <1>12, <1>13, <1>14, <1>15, <1>16, <1>17, <1>18 DEF FillOK
<1>20. Len(d) > Len(f.data)
  BY <1>1, <1>3, <1>7
<1> QED BY <1>9, <1>11, <1>19, <1>20 DEF g, Fills

\* f is the function in the definition of Fill.
Turning(t, f0) ==
    t = [n \in 0 .. PayloadSize |->
            IF n = 0 THEN f0 ELSE IF t[n - 1].done THEN t[n - 1] ELSE FillStep(t[n - 1])]

\* One turn of the loop.
LEMMA FillStepOK ==
    ASSUME NEW V \in Versions, NEW X, NEW first \in Byte, NEW m \in Int, NEW R \in Nat,
           NEW f, FillOK(f, V, X, first, m, R), ~f.done
    PROVE  FillOK(FillStep(f), V, X, first, m, R) /\ Len(FillStep(f).data) > Len(f.data)
           /\ FillStep(f).z.cc = f.z.cc /\ FillStep(f).z.packets = f.z.packets
<1>1. Fills(FillStep(f), f, V, X, first, m, R)
  BY FillPiece, FillRest
<1> QED BY <1>1 DEF Fills

\* The payload is filled, or the last section before stuffing ended.
LEMMA FillEnds ==
    ASSUME NEW V \in Versions, NEW X, NEW first \in Byte, NEW m \in Int, NEW R \in Nat,
           R <= PayloadSize, NEW f0, FillOK(f0, V, X, first, m, R)
    PROVE  /\ FillOK(Fill(f0), V, X, first, m, R) /\ Fill(f0).done
           /\ Fill(f0).z.cc = f0.z.cc /\ Fill(f0).z.packets = f0.z.packets
<1> DEFINE N == PayloadSize
           A == {f \in Filling : /\ FillOK(f, V, X, first, m, R)
                                 /\ f.z.cc = f0.z.cc /\ f.z.packets = f0.z.packets}
           F == [n \in 1 .. N |-> [x \in A |-> IF x.done THEN x ELSE FillStep(x)]]
<1>0. N \in Nat
  BY Sizes
<1>b. f0 \in A
  BY DEF FillOK
<1>1. F \in [1 .. N -> [A -> A]]
  <2>1. ASSUME NEW x \in A, ~x.done PROVE FillStep(x) \in A
    <3>1. FillOK(FillStep(x), V, X, first, m, R) /\ FillStep(x).z.cc = x.z.cc
          /\ FillStep(x).z.packets = x.z.packets
      BY <2>1, FillStepOK
    <3>2. FillStep(x) \in Filling
      BY <3>1 DEF FillOK
    <3> QED BY <3>1, <3>2
  <2> QED BY <2>1
<1>a. \A n \in 1 .. N : \A x \in A : F[n][x] = IF x.done THEN x ELSE FillStep(x)
  OBVIOUS
<1>2. PICK f : Recursive(f, N, A, f0, F)
  <2> HIDE DEF N, F, A
  <2>1. N \in Nat
    BY <1>0
  <2> QED BY <2>1, <1>1, <1>b, RecursionExists, Zenon
<1> HIDE DEF F, A
<1>3. Turning(f, f0)
  <2> DEFINE g == [n \in 0 .. N |-> IF n = 0 THEN f0
                                    ELSE IF f[n - 1].done THEN f[n - 1] ELSE FillStep(f[n - 1])]
  <2>1. ASSUME NEW n \in 0 .. N PROVE f[n] = g[n]
    <3>1. CASE n = 0
      BY <3>1, <1>2 DEF Recursive
    <3>2. CASE n \in 1 .. N
      <4>1. n - 1 \in 0 .. N
        BY <3>2, <1>0
      <4>2. f[n - 1] \in A /\ f[n] = F[n][f[n - 1]]
        BY <4>1, <3>2, <1>2 DEF Recursive
      <4>3. g[n] = IF f[n - 1].done THEN f[n - 1] ELSE FillStep(f[n - 1])
        BY <3>2, <1>0
      <4> HIDE DEF g
      <4> QED BY <4>2, <4>3, <3>2, <1>a
    <3> QED BY <3>1, <3>2, <1>0
  <2>2. f = g
    BY <2>1, <1>2 DEF Recursive
  <2> QED BY <2>2 DEF Turning
<1> DEFINE G == CHOOSE g : Turning(g, f0)
<1>4. Turning(G, f0)
  BY <1>3
<1>5. Fill(f0) = G[N]
  BY Zenon DEF Fill, Turning
<1> HIDE DEF G
<1>6. /\ G = [n \in 0 .. N |-> G[n]] /\ G[0] = f0
      /\ \A n \in 1 .. N : G[n - 1] \in A => G[n] = F[n][G[n - 1]]
  <2>1. G = [n \in 0 .. N |-> IF n = 0 THEN f0
                              ELSE IF G[n - 1].done THEN G[n - 1] ELSE FillStep(G[n - 1])]
    BY <1>4 DEF Turning
  <2>2. G = [n \in 0 .. N |-> G[n]] /\ G[0] = f0
    BY <1>0, <2>1
  <2>3. ASSUME NEW n \in 1 .. N, G[n - 1] \in A PROVE G[n] = F[n][G[n - 1]]
    <3>0. n \in 0 .. N /\ n # 0
      BY <1>0
    <3>1. G[n] = IF G[n - 1].done THEN G[n - 1] ELSE FillStep(G[n - 1])
      BY <3>0, <2>1, Zenon
    <3> QED BY <3>1, <2>3, <1>a
  <2> QED BY <2>2, <2>3
<1>7. Recursive(G, N, A, f0, F)
  <2> HIDE DEF N
  <2>1. N \in Nat
    BY <1>0
  <2> QED BY <2>1, <1>1, <1>b, <1>6, RecursionIs, Zenon
<1>8. \A n \in 0 .. N : G[n] \in A /\ FillOK(G[n], V, X, first, m, R) /\ Len(G[n].data) \in Nat
  <2> SUFFICES ASSUME NEW n \in 0 .. N
               PROVE  G[n] \in A /\ FillOK(G[n], V, X, first, m, R) /\ Len(G[n].data) \in Nat
    OBVIOUS
  <2>1. G[n] \in A
    BY <1>7 DEF Recursive
  <2>2. FillOK(G[n], V, X, first, m, R)
    BY <2>1 DEF A
  <2>3. G[n].data \in Seq(Byte)
    BY <2>2 DEF FillOK, Chain
  <2> QED BY <2>1, <2>2, <2>3
<1> DEFINE S == {n \in 0 .. N : G[n].done \/ Len(G[n].data) >= n}
<1>9. 0 \in S
  BY <1>0, <1>8
<1>10. ASSUME NEW n \in 1 .. N, n - 1 \in S PROVE n \in S
  <2>1. n - 1 \in 0 .. N /\ n \in 0 .. N
    BY <1>0
  <2>2. G[n] = IF G[n - 1].done THEN G[n - 1] ELSE FillStep(G[n - 1])
    <3>1. G[n - 1] \in A /\ G[n] = F[n][G[n - 1]]
      BY <1>7, <2>1 DEF Recursive
    <3> QED BY <1>a, <3>1
  <2>3. CASE G[n - 1].done
    BY <2>1, <2>2, <2>3
  <2>4. CASE ~G[n - 1].done
    <3>1. FillOK(G[n - 1], V, X, first, m, R) /\ Len(G[n - 1].data) \in Nat /\ Len(G[n].data) \in Nat
      BY <1>8, <2>1
    <3>2. Len(FillStep(G[n - 1]).data) > Len(G[n - 1].data)
      BY <2>4, <3>1, FillStepOK
    <3>3. Len(G[n].data) > Len(G[n - 1].data) /\ Len(G[n - 1].data) >= n - 1
      BY <1>10, <2>2, <2>4, <3>2
    <3> DEFINE a == Len(G[n].data)  b == Len(G[n - 1].data)
    <3> HIDE DEF a, b
    <3>4. a \in Nat /\ b \in Nat /\ a > b /\ b >= n - 1 => a >= n
      OBVIOUS
    <3> QED BY <2>1, <3>1, <3>3, <3>4 DEF a, b
  <2> QED BY <2>3, <2>4
<1>11. G[N].done \/ Len(G[N].data) >= N
  <2> HIDE DEF S
  <2>1. \A n \in 0 .. N : n \in S
    BY <1>0, <1>9, <1>10, Induction
  <2>2. N \in S
    BY <1>0, <2>1
  <2> QED BY <2>2 DEF S
<1>12. G[N] \in A /\ FillOK(G[N], V, X, first, m, R) /\ Len(G[N].data) \in Nat
  BY <1>0, <1>8
<1>13. G[N].done
  <2>1. Len(G[N].data) + G[N].room = R /\ (G[N].room = 0 => G[N].done)
    BY <1>12 DEF FillOK, Spaced
  <2>2. G[N].room \in Nat
    BY <1>12 DEF FillOK, Filling
  <2> DEFINE a == Len(G[N].data)  b == G[N].room
  <2>3. a \in Nat /\ b \in Nat /\ a + b = R /\ (b = 0 => G[N].done) /\ (G[N].done \/ a >= PayloadSize)
    BY <1>11, <1>12, <2>1, <2>2
  <2> HIDE DEF a, b, N
  <2> QED BY <1>0, <2>3 DEF N
<1> QED BY <1>5, <1>12, <1>13 DEF A

Good(z, V) == Exact(z, V) /\ Placed(z, V)

Stuffed(k) == [i \in 1 .. k |-> Stuffing]

\* The first n bytes are from the rest of one section.
OneRest(d, n) == \A i \in 1 .. n : d[i].at # 1 /\ d[i].of = d[1].of

\* A packet with the bytes d of sections, then stuffing.
PacketShape(pkt, d) ==
    /\ Chain(d) /\ d # <<>>
    /\ \E k \in Nat : pkt.data = d \o Stuffed(k)
    /\ pkt.pusi \in BOOLEAN
    /\ Len(pkt.data) >= PayloadSize - 1
    /\ pkt.pusi => /\ pkt.pointer \in Nat /\ pkt.pointer < Len(d) /\ d[pkt.pointer + 1].at = 1
                   /\ Len(pkt.data) < PayloadSize /\ OneRest(d, pkt.pointer)
    /\ ~pkt.pusi => OneRest(d, Len(d))

\* The object y after the bytes d of sections were sent, and those of the sections X before.
SentUpTo(y, d, V, X) ==
    /\ \A x \in X \cup SectionsOf(d) : Past(x, y, V)
    /\ \A x \in X, s \in SectionsOf(d) : Upto(x, s)
    /\ LET b == d[Len(d)]
       IN  IF y.next > 0 THEN b.of = y.section /\ b.at = y.next
           ELSE b.at = b.of.size /\ b.of # y.section

\* The positions in a chain which begins in the middle of a section.
LEMMA ChainStart ==
    ASSUME NEW d, Chain(d), d # <<>>, NEW s \in Sent, NEW n \in Nat,
           d[1] = [of |-> s, at |-> n + 1], n < s.size
    PROVE  /\ s.size - n < Len(d) => d[s.size - n + 1].at = 1
           /\ s.size - n < Len(d) /\ n > 0 => OneRest(d, s.size - n)
           /\ SectionsOf(d) \subseteq {s} /\ n > 0 => OneRest(d, Len(d))
<1> DEFINE L == Len(d)
<1>1. d \in Seq(Byte) /\ L \in Nat /\ 1 <= L
  <2>1. d \in Seq(Byte)
    BY DEF Chain
  <2> QED BY <2>1
<1>2. s.size \in Nat
  BY SentSize
<1>3. ASSUME NEW i \in 1 .. L
      PROVE  d[i].of \in Sent /\ d[i].at \in Nat /\ 1 <= d[i].at /\ d[i].at <= d[i].of.size
             /\ (i + 1 <= L => Follows(d[i], d[i + 1]))
  <2>1. d[i] \in Byte
    BY <1>1
  <2> QED BY <2>1 DEF Byte, Chain
<1> DEFINE k == s.size - n
           S == {i \in 0 .. L : i > 0 /\ i <= k => d[i] = [of |-> s, at |-> n + i]}
<1>4. 0 \in S
  BY <1>1
<1>5. ASSUME NEW i \in 1 .. L, i - 1 \in S PROVE i \in S
  <2>1. CASE i = 1
    BY <2>1, <1>1
  <2>2. CASE i > 1 /\ i <= k
    <3>1. i - 1 \in 1 .. L /\ (i - 1) + 1 = i /\ i - 1 <= k /\ i - 1 > 0
      BY <1>1, <1>2, <2>2
    <3>2. d[i - 1] = [of |-> s, at |-> n + (i - 1)]
      BY <1>5, <3>1
    <3>3. Follows(d[i - 1], d[i])
      BY <1>3, <3>1
    <3>4. n + (i - 1) # s.size /\ (n + (i - 1)) + 1 = n + i
      BY <1>2, <2>2
    <3>5. d[i].of = s /\ d[i].at = n + i
      BY <3>2, <3>3, <3>4 DEF Follows
    <3>6. d[i] = [of |-> d[i].of, at |-> d[i].at]
      <4>1. d[i] \in Byte
        BY <1>1
      <4> QED BY <4>1 DEF Byte
    <3> QED BY <3>5, <3>6
  <2>3. CASE i > k
    BY <1>1, <1>2, <2>3
  <2> QED BY <1>1, <1>2, <2>1, <2>2, <2>3
<1>6. \A i \in 0 .. L : i \in S
  <2> HIDE DEF S
  <2> QED BY <1>1, <1>4, <1>5, Induction
<1>7. ASSUME k < L PROVE d[k + 1].at = 1
  <2>1. k \in 1 .. L /\ k + 1 \in 1 .. L /\ k > 0 /\ n + k = s.size
    BY <1>1, <1>2, <1>7, SMTT(30)
  <2>2. d[k] = [of |-> s, at |-> n + k]
    <3>1. k \in 0 .. L /\ k <= k
      BY <2>1
    <3> QED BY <1>6, <2>1, <3>1
  <2>3. Follows(d[k], d[k + 1])
    BY <1>3, <1>7, <2>1
  <2>4. d[k + 1].of \in Sent /\ d[k + 1].at <= d[k + 1].of.size /\ d[k + 1].at \in Nat
    BY <1>3, <2>1
  <2>5. ~(d[k + 1].of = s /\ d[k + 1].at = (n + k) + 1)
    <3>1. ASSUME d[k + 1].of = s, d[k + 1].at = (n + k) + 1 PROVE FALSE
      <4>1. d[k + 1].at <= s.size /\ d[k + 1].at = s.size + 1
        BY <2>1, <2>4, <3>1
      <4> QED BY <1>2, <4>1
    <3> QED BY <3>1
  <2> QED BY <2>2, <2>3, <2>5 DEF Follows
<1>8. ASSUME SectionsOf(d) \subseteq {s}, n > 0, NEW i \in 1 .. L PROVE d[i].at # 1 /\ d[i].of = s
  <2>1. \A j \in 1 .. L : d[j].of = s
    BY <1>8 DEF SectionsOf
  <2>2. CASE i = 1
    BY <1>8, <2>1, <2>2
  <2>3. CASE i # 1
    <3>1. i - 1 \in 1 .. L /\ (i - 1) + 1 = i
      BY <1>1, <2>3
    <3>2. Follows(d[i - 1], d[i]) /\ d[i - 1].at \in Nat /\ 1 <= d[i - 1].at
      BY <1>3, <3>1
    <3>3. d[i].at = d[i - 1].at + 1
      BY <2>1, <3>1, <3>2 DEF Follows
    <3> QED BY <2>1, <3>2, <3>3
  <2> QED BY <2>2, <2>3
<1>9. ASSUME k < L, n > 0 PROVE OneRest(d, k)
  <2> SUFFICES ASSUME NEW i \in 1 .. k PROVE d[i].at # 1 /\ d[i].of = d[1].of
    BY DEF OneRest
  <2>1. k \in Nat /\ i \in 0 .. L /\ i > 0 /\ i <= k /\ n + i # 1
    BY <1>1, <1>2, <1>9
  <2>2. d[i] = [of |-> s, at |-> n + i]
    BY <1>6, <2>1
  <2> QED BY <2>1, <2>2
<1>10. ASSUME SectionsOf(d) \subseteq {s}, n > 0 PROVE OneRest(d, L)
  BY <1>8, <1>10 DEF OneRest
<1> QED BY <1>7, <1>9, <1>10

\* The packet which is built around the current section.
LEMMA BuildPacketOK ==
    ASSUME NEW V \in Versions, NEW z, Good(z, V), z.section # NullSection, NEW X,
           \A x \in X : Past(x, z, V)
    PROVE  LET r == BuildPacket(z, JoinNext(z))
           IN  /\ Good(r.z, V) /\ r.z.packets = z.packets /\ r.z.cc = (z.cc + 1) % CC_MAX
               /\ r.packet.cc = z.cc
               /\ \E d : /\ PacketShape(r.packet, d) /\ SentUpTo(r.z, d, V, X)
                         /\ d[1] = [of |-> z.section, at |-> z.next + 1]
                         /\ r.z.next > 0 => r.packet.data = d
<1> DEFINE s == z.section
           n == z.next
           left == s.size - n
           p == JoinNext(z)
           w == p.section
           stuffing == w = NullSection \/ left > PayloadSize - 1 - LongHeader
           pusi == StartsHere(n, stuffing)
           R == IF pusi THEN PayloadSize - 1 ELSE PayloadSize
           c == (p.z.cc + 1) % CC_MAX
           y == [p.z EXCEPT !.cc = c]
           f0 == [z |-> y, following |-> w, data |-> <<>>, room |-> R,
                  stuffing |-> stuffing, done |-> FALSE]
           f == Fill(f0)
           r == BuildPacket(z, p)
           first == [of |-> s, at |-> n + 1]
           m == IF pusi THEN (IF n = 0 THEN 0 ELSE left) ELSE -1
<1>1. z \in Object /\ Exact(z, V) /\ z.cc \in Nat /\ z.in \in Nat
  BY DEF Good, Exact, Object
<1>2. Old(s, z, V) /\ s \in Sent /\ n \in Nat /\ n < s.size /\ s.size \in Nat /\ s.occ \in Nat
  <2>1. Old(s, z, V) /\ n \in 0 .. s.size - 1
    BY DEF Good, Placed
  <2>2. s \in Sent
    BY <2>1 DEF Old
  <2> QED BY <2>1, <2>2, SentSize
<1>3. /\ Exact(p.z, V) /\ Fresh(w, z.in, V) /\ p.z.section = s /\ p.z.next = n /\ p.z.cc = z.cc
      /\ p.z.packets = z.packets /\ z.in <= p.z.in /\ p.z.in \in Nat
      /\ w # NullSection => p.z.in = z.in + 1
  <2>1. CASE p = Provide(z)
    BY <1>1, <2>1, ProvideExact
  <2>2. CASE p = [z |-> z, section |-> NullSection]
    BY <1>1, <2>2 DEF Fresh
  <2>3. p = Provide(z) \/ p = [z |-> z, section |-> NullSection]
    BY DEF JoinNext
  <2> QED BY <2>1, <2>2, <2>3
<1> HIDE DEF p
<1>4. c \in Nat
  BY <1>1, <1>3, CCAssumption
<1> HIDE DEF c
<1>5. y \in Object /\ SameLists(y, p.z) /\ y.section = s /\ y.next = n /\ y.cc = c
      /\ y.packets = z.packets /\ y.in = p.z.in
  <2>1. p.z \in Object
    BY <1>3 DEF Exact
  <2> QED BY <1>3, <1>4, <2>1 DEF Object, SameLists
<1> HIDE DEF y
<1>6. Exact(y, V)
  BY <1>3, <1>5, ExactSame
<1>7. Old(s, y, V) /\ \A x \in X : Past(x, y, V)
  <2>1. ASSUME NEW x, Old(x, z, V) PROVE Old(x, y, V)
    <3>1. x.occ \in Nat
      BY <2>1, SentSize DEF Old
    <3> QED BY <1>1, <1>3, <1>5, <2>1, <3>1 DEF Old
  <2>2. Old(s, y, V)
    BY <1>2, <2>1
  <2>3. ASSUME NEW x \in X PROVE Past(x, y, V)
    BY <1>5, <2>1, <2>3 DEF Past
  <2> QED BY <2>2, <2>3
<1>8. w \in Sect /\ (w # NullSection => Old(w, y, V))
  <2>1. CASE w = NullSection
    BY <2>1, Sizes
  <2>2. CASE w # NullSection
    <3>1. w \in Sent /\ w.occ = z.in /\ w.ver = V[w.tid]
      BY <1>3, <2>2 DEF Fresh
    <3>2. w \in Sect /\ w.ver \in Nat
      BY <3>1, SentSize
    <3> QED BY <1>1, <1>3, <1>5, <2>2, <3>1, <3>2 DEF Old
  <2> QED BY <2>1, <2>2
<1>9. ASSUME NEW x, Old(x, z, V), w # NullSection PROVE Upto(x, w) /\ x # w
  BY <1>1, <1>3, <1>9, FreshLater DEF Old
<1>10. first \in Byte
  BY <1>2 DEF Byte
<1>11. /\ pusi \in BOOLEAN /\ stuffing \in BOOLEAN /\ R \in Nat /\ R # 0 /\ R <= PayloadSize /\ m \in Int
       /\ (pusi => R = PayloadSize - 1 /\ m >= 0) /\ (~pusi => m < 0 /\ stuffing /\ n # 0)
  BY <1>2, Sizes DEF StartsHere
<1>12. 0 < m => ~stuffing /\ w # NullSection /\ left = m /\ R >= m + LongHeader
  <2> SUFFICES ASSUME 0 < m PROVE ~stuffing /\ w # NullSection /\ left = m /\ R >= m + LongHeader
    OBVIOUS
  <2>1. pusi /\ n # 0 /\ m = left
    OBVIOUS
  <2>2. ~stuffing
    BY <2>1 DEF StartsHere
  <2>3. left \in Int /\ PayloadSize \in Int /\ LongHeader \in Int
    BY <1>2, Sizes
  <2> QED BY <2>1, <2>2, <2>3
<1>13. FillOK(f0, V, X, first, m, R)
  <2> HIDE DEF stuffing, pusi, R, m, left, w, s, n
  <2>1. f0 \in Filling
    BY <1>5, <1>8, <1>11 DEF Filling
  <2>2. Placed(y, V) /\ s # NullSection
    BY <1>2, <1>5, <1>7 DEF Placed, s
  <2>3. SectionsOf(<<>>) = {} /\ Len(<<>>) = 0
    BY DEF SectionsOf
  <2>4. Awaited(f0, V)
    BY <1>2, <1>5, <1>8, <1>9, <2>2 DEF Awaited
  <2>5. Behind(f0, V, X)
    <3>1. \A x \in X : w # NullSection => Upto(x, w)
      BY <1>9 DEF Past
    <3> QED BY <1>7, <2>3, <3>1 DEF Behind
  <2>6. Chain(<<>>)
    BY DEF Chain
  <2>7. Joined(f0, first)
    BY <1>5 DEF Joined
  <2>8. Spaced(f0, m, R)
    BY <1>5, <1>11, <1>12, <2>3 DEF Spaced, left
  <2>9. Solo(f0, first, m)
    BY <1>5, <1>11, <2>3 DEF Solo
  <2> QED BY <1>5, <1>6, <2>1, <2>2, <2>4, <2>5, <2>6, <2>7, <2>8, <2>9 DEF FillOK
<1>14. FillOK(f, V, X, first, m, R) /\ f.done /\ f.z.cc = c /\ f.z.packets = z.packets
  <2>1. f0.z.cc = c /\ f0.z.packets = z.packets
    BY <1>5
  <2> HIDE DEF f0, R, m, first
  <2> QED BY <1>10, <1>11, <1>13, <2>1, FillEnds
<1>15. r = [z |-> f.z, packet |-> [cc |-> z.cc, pusi |-> pusi, pointer |-> IF n = 0 THEN 0 ELSE left,
                                   data |-> f.data \o Stuffed(f.room)]]
  BY Zenon DEF BuildPacket, Stuffed, y, c
<1> HIDE DEF f0, f, r
<1> DEFINE d == f.data  pkt == r.packet
<1>16. /\ r.z = f.z /\ pkt.cc = z.cc /\ pkt.pusi = pusi /\ pkt.pointer = (IF n = 0 THEN 0 ELSE left)
       /\ pkt.data = d \o Stuffed(f.room)
  BY <1>15
<1>17. f.room \in Nat /\ Chain(d) /\ Len(d) > m /\ Len(d) + f.room = R /\ d \in Seq(Byte)
       /\ (f.room > 0 => f.z.next = 0) /\ Exact(f.z, V) /\ Placed(f.z, V)
  <2>1. f \in Filling /\ Chain(d) /\ Spaced(f, m, R) /\ Exact(f.z, V) /\ Placed(f.z, V)
    BY <1>14 DEF FillOK
  <2>2. f.room \in Nat /\ d \in Seq(Byte)
    BY <2>1 DEF Filling
  <2> QED BY <1>14, <2>1, <2>2 DEF Spaced
<1>18. Len(d) \in Nat /\ d # <<>> /\ d[1] = first
  <2>1. Len(d) \in Nat
    BY <1>17
  <2>2. ASSUME d = <<>> PROVE FALSE
    <3>1. Len(d) = 0
      BY <2>2
    <3>2. f.room = R /\ m < 0
      <4> HIDE DEF d, R, m
      <4> QED BY <1>11, <1>17, <3>1
    <3>3. f.z.next = 0
      BY <1>11, <1>17, <3>2
    <3>4. f.z.next + 1 = n + 1
      BY <1>14, <2>2 DEF FillOK, Joined
    <3>5. n # 0
      BY <1>11, <3>2
    <3> QED BY <1>2, <3>3, <3>4, <3>5
  <2>3. d # <<>>
    BY <2>2
  <2> QED BY <1>14, <2>1, <2>3 DEF FillOK, Joined
<1> HIDE DEF d, pkt, R, m
<1>19. Len(pkt.data) = R
  <2>1. Stuffed(f.room) \in Seq({Stuffing}) /\ Len(Stuffed(f.room)) = f.room
    BY <1>17 DEF Stuffed
  <2>2. Len(d \o Stuffed(f.room)) = Len(d) + Len(Stuffed(f.room))
    BY <1>17, <2>1
  <2> QED BY <1>16, <1>17, <2>1, <2>2
<1>20. PacketShape(pkt, d)
  <2>1. ASSUME pusi
        PROVE  pkt.pointer \in Nat /\ pkt.pointer < Len(d) /\ d[pkt.pointer + 1].at = 1
               /\ Len(pkt.data) < PayloadSize /\ OneRest(d, pkt.pointer)
    <3>1. Len(pkt.data) < PayloadSize
      BY <1>11, <1>19, <2>1, Sizes
    <3>2. CASE n = 0
      BY <1>11, <1>16, <1>17, <1>18, <2>1, <3>1, <3>2 DEF OneRest
    <3>3. CASE n # 0
      <4>1. pkt.pointer = left /\ left \in Nat /\ m = left
        BY <1>2, <1>16, <2>1, <3>3 DEF m
      <4>2. left < Len(d)
        BY <1>17, <4>1
      <4>3. d[left + 1].at = 1 /\ OneRest(d, left)
        BY <3>3, <1>2, <1>17, <1>18, <4>2, ChainStart
      <4> QED BY <3>1, <4>1, <4>2, <4>3
    <3> QED BY <3>2, <3>3
  <2>2. ASSUME ~pusi PROVE OneRest(d, Len(d))
    <3>1. SectionsOf(d) \subseteq {s} /\ n > 0
      BY <1>2, <1>11, <1>14, <2>2 DEF FillOK, Solo, d
    <3> QED BY <1>2, <1>17, <1>18, <3>1, ChainStart
  <2>3. Len(pkt.data) >= PayloadSize - 1
    BY <1>19, Sizes DEF R
  <2> HIDE DEF pusi
  <2> QED BY <1>11, <1>16, <1>17, <1>18, <2>1, <2>2, <2>3 DEF PacketShape
<1>21. SentUpTo(r.z, d, V, X)
  BY <1>14, <1>16, <1>18 DEF FillOK, SentUpTo, Behind, Joined, d
<1>22. r.z.next > 0 => pkt.data = d
  <2>1. ASSUME f.z.next > 0 PROVE pkt.data = d
    <3>1. f.room = 0
      BY <1>17, <2>1
    <3>2. Stuffed(0) = <<>>
      BY DEF Stuffed
    <3> QED BY <1>16, <1>17, <3>1, <3>2
  <2> QED BY <1>16, <2>1
<1>23. Good(r.z, V) /\ r.z.packets = z.packets /\ r.z.cc = (z.cc + 1) % CC_MAX
  BY <1>3, <1>14, <1>16, <1>17 DEF Good, c
<1> QED BY <1>16, <1>18, <1>20, <1>21, <1>22, <1>23 DEF r, pkt, p

\* getNextPacket(): the object z becomes y, with packet pkt, of which the bytes d are of sections.
NewPacket(pkt, d, y, z, V, X) ==
    /\ pkt # NullPacket /\ PacketShape(pkt, d) /\ SentUpTo(y, d, V, X)
    /\ pkt.cc = z.cc /\ y.cc = (z.cc + 1) % CC_MAX
    /\ d[1] = [of |-> d[1].of, at |-> z.next + 1]
    /\ IF z.section = NullSection THEN d[1].of.occ = z.in ELSE d[1].of = z.section
    /\ y.next > 0 => pkt.data = d

NoPacket(pkt, y, z, V, X) ==
    /\ pkt = NullPacket /\ z.section = NullSection /\ y.section = NullSection
    /\ y.cc = z.cc /\ \A x \in X : Past(x, y, V)

AllPast(X, z, V) == \A x \in X : Past(x, z, V)

\* What getNextPacket() may do, when the sections X were sent before: p is its result.
NextOK(p, z, V, X) ==
    /\ Good(p.z, V) /\ p.z.packets = z.packets + 1
    /\ \/ NoPacket(p.packet, p.z, z, V, X)
       \/ \E d : NewPacket(p.packet, d, p.z, z, V, X)

\* getNextPacket().
LEMMA NextPacketOK ==
    ASSUME NEW V \in Versions, NEW z, Good(z, V), NEW X, AllPast(X, z, V)
    PROVE  NextOK(GetNextPacket(z), z, V, X)
<1> DEFINE q == z.packets + 1
           counted == [z EXCEPT !.packets = q]
           y == IF counted.section = NullSection THEN ProvideCurrent(counted) ELSE counted
           p == GetNextPacket(z)
<1>1. z \in Object /\ z.packets \in Nat /\ Exact(z, V) /\ Placed(z, V) /\ z.in \in Nat
  BY DEF Good, Exact, Object
<1>0. \A x \in X : Past(x, z, V)
  BY DEF AllPast
<1>2. counted \in Object /\ SameLists(counted, z) /\ counted.section = z.section
      /\ counted.next = z.next /\ counted.in = z.in /\ counted.cc = z.cc /\ counted.packets = q
  <2>1. q \in Nat
    BY <1>1
  <2> HIDE DEF q
  <2> QED BY <1>1, <2>1 DEF Object, SameLists
<1>3. p = PacketFrom(y)
  BY <1>1 DEF GetNextPacket, Object
<1> HIDE DEF counted, p, q
<1>4. Exact(counted, V)
  BY <1>1, <1>2, ExactSame
<1>5. /\ Good(y, V) /\ y.cc = z.cc /\ y.packets = q /\ \A x \in X : Past(x, y, V)
      /\ (z.section # NullSection => y.section = z.section) /\ y.next = z.next
      /\ (z.section = NullSection /\ y.section # NullSection => y.section.occ = z.in)
  <2>1. CASE z.section # NullSection
    <3>1. y = counted
      BY <1>2, <2>1
    <3>2. Placed(y, V) /\ \A x \in X : Past(x, y, V)
      BY <1>0, <1>1, <1>2, <3>1 DEF Placed, Past, Old
    <3> HIDE DEF y
    <3> QED BY <1>2, <1>4, <3>1, <3>2 DEF Good
  <2>2. CASE z.section = NullSection
    <3>1. y = ProvideCurrent(counted)
      BY <1>2, <2>2
    <3>2. z.next = 0
      BY <1>1, <2>2 DEF Placed, Old, Sent, NullSection, NoOcc
    <3> HIDE DEF y
    <3>3. /\ Exact(y, V) /\ Fresh(y.section, z.in, V) /\ y.next = 0 /\ y.in = z.in + 1
          /\ y.cc = z.cc /\ y.packets = q
      BY <1>2, <1>4, <3>1, ProvideCurrentExact
    <3>4. Placed(y, V)
      BY <1>1, <3>3, FreshPlaced
    <3>5. ASSUME NEW x \in X PROVE Past(x, y, V)
      <4>1. x \in Sent /\ x.occ < z.in /\ x.ver <= V[x.tid] /\ x.occ \in Nat
        BY <1>0, SentSize DEF Past, Old
      <4>2. Old(x, y, V)
        BY <1>1, <3>3, <4>1 DEF Old
      <4>3. y.section # NullSection => Upto(x, y.section)
        BY <1>1, <3>3, <4>1, FreshLater
      <4> QED BY <4>2, <4>3 DEF Past
    <3>6. y.section # NullSection => y.section.occ = z.in
      BY <3>3 DEF Fresh
    <3> QED BY <2>2, <3>2, <3>3, <3>4, <3>5, <3>6 DEF Good
  <2> QED BY <2>1, <2>2
<1> HIDE DEF y
<1> SUFFICES /\ Good(p.z, V) /\ p.z.packets = z.packets + 1
             /\ \/ NoPacket(p.packet, p.z, z, V, X)
                \/ \E d : NewPacket(p.packet, d, p.z, z, V, X)
  BY DEF p, NextOK
<1>6. CASE y.section = NullSection
  <2>1. p.z = y /\ p.packet = NullPacket
    BY <1>3, <1>6 DEF PacketFrom
  <2>2. z.section = NullSection
    BY <1>5, <1>6
  <2>3. NoPacket(p.packet, p.z, z, V, X)
    BY <1>5, <1>6, <2>1, <2>2 DEF NoPacket
  <2> QED BY <1>5, <2>1, <2>3 DEF q
<1>7. CASE y.section # NullSection
  <2> DEFINE r == BuildPacket(y, JoinNext(y))
  <2>1. p = r
    BY <1>3, <1>7 DEF PacketFrom
  <2>2. /\ Good(r.z, V) /\ r.z.packets = y.packets /\ r.z.cc = (y.cc + 1) % CC_MAX
        /\ r.packet.cc = y.cc
        /\ \E d : /\ PacketShape(r.packet, d) /\ SentUpTo(r.z, d, V, X)
                  /\ d[1] = [of |-> y.section, at |-> y.next + 1]
                  /\ r.z.next > 0 => r.packet.data = d
    BY <1>5, <1>7, BuildPacketOK
  <2> HIDE DEF r
  <2>3. PICK d : /\ PacketShape(r.packet, d) /\ SentUpTo(r.z, d, V, X)
                 /\ d[1] = [of |-> y.section, at |-> y.next + 1]
                 /\ r.z.next > 0 => r.packet.data = d
    BY <2>2
  <2>4. r.packet # NullPacket
    <3>1. PICK k \in Nat : r.packet.data = d \o Stuffed(k)
      BY <2>3 DEF PacketShape
    <3>2. d \in Seq(Byte) /\ d # <<>>
      BY <2>3 DEF PacketShape, Chain
    <3>3. Stuffed(k) \in Seq({Stuffing})
      BY <3>1 DEF Stuffed
    <3>4. Len(d \o Stuffed(k)) = Len(d) + Len(Stuffed(k)) /\ Len(d) \in Nat /\ Len(Stuffed(k)) \in Nat
          /\ Len(d) # 0
      BY <3>2, <3>3
    <3>5. Len(NullPacket.data) = 0
      BY DEF NullPacket
    <3> QED BY <3>1, <3>4, <3>5
  <2>5. NewPacket(r.packet, d, r.z, z, V, X)
    <3>1. d[1].of = y.section
      BY <2>3
    <3>2. IF z.section = NullSection THEN d[1].of.occ = z.in ELSE d[1].of = z.section
      BY <1>5, <1>7, <3>1
    <3>3. d[1] = [of |-> d[1].of, at |-> z.next + 1]
      BY <1>5, <2>3, <3>1
    <3>4. r.packet.cc = z.cc /\ r.z.cc = (z.cc + 1) % CC_MAX
      BY <1>5, <2>2
    <3> QED BY <2>3, <2>4, <3>2, <3>3, <3>4 DEF NewPacket
  <2> QED BY <1>5, <2>1, <2>2, <2>5 DEF q
<1> QED BY <1>6, <1>7

-----------------------------------------------------------------------------
(***************************************************************************)
(* The plugin, and the invariant of the packetizer.                        *)
(***************************************************************************)
PacketizerInv == version \in Versions /\ Good(zer, version)

\* The plugin changed the object z and the versions V into y and W.
Kept(y, W, z, V) ==
    /\ W \in Versions /\ Good(y, W)
    /\ y.cc = z.cc /\ y.packets = z.packets
    /\ (y.section = z.section /\ y.next = z.next) \/ (y.section = NullSection /\ y.next = 0)
    /\ \A x : Past(x, z, V) => Past(x, y, W)

SameCurrent(y, z) == y.section = z.section /\ y.next = z.next

\* No version is withdrawn.
LEMMA NoOlder ==
    ASSUME NEW V \in Versions, NEW z, Good(z, V), NEW W \in Versions,
           \A t \in TIDs : V[t] <= W[t],
           NEW y, Exact(y, W), SameOutput(y, z)
    PROVE  Kept(y, W, z, V) /\ SameCurrent(y, z)
<1>1. ASSUME NEW x, Old(x, z, V) PROVE Old(x, y, W)
  <2>1. x \in Sent /\ x.tid \in TIDs /\ x.ver \in Nat /\ x.ver <= V[x.tid] /\ x.occ < z.in
    BY <1>1, SentSize DEF Old
  <2>2. V[x.tid] \in Nat /\ W[x.tid] \in Nat /\ V[x.tid] <= W[x.tid]
    BY <2>1 DEF Versions
  <2> QED BY <2>1, <2>2 DEF Old, SameOutput
<1>2. y.section = z.section /\ y.next = z.next /\ y.cc = z.cc /\ y.packets = z.packets
  BY DEF SameOutput
<1>3. Placed(y, W)
  BY <1>1, <1>2 DEF Good, Placed
<1>4. ASSUME NEW x, Past(x, z, V) PROVE Past(x, y, W)
  BY <1>1, <1>2, <1>4 DEF Past
<1> QED BY <1>2, <1>3, <1>4 DEF Kept, SameCurrent, Good

\* The next version of a table.
LEMMA NextVersion ==
    ASSUME NEW V \in Versions, NEW t \in TIDs, V[t] < Len(TableSizes[t]), NEW W,
           W = [V EXCEPT ![t] = @ + 1]
    PROVE  /\ W \in Versions /\ W[t] = V[t] + 1 /\ \A u \in TIDs : V[u] <= W[u]
           /\ \A u \in TIDs \ {t} : W[u] = V[u]
<1>1. TableSizes[t] \in Seq(Seq(MinSection .. MaxSection) \ {<<>>})
  BY StreamAssumption
<1>2. Len(TableSizes[t]) \in Nat /\ DOMAIN TableSizes[t] = 1 .. Len(TableSizes[t])
  BY <1>1
<1>3. V \in [TIDs -> Nat] /\ \A u \in TIDs : V[u] \in Nat /\ V[u] \in DOMAIN TableSizes[u]
  BY DEF Versions
<1>4. W[t] = V[t] + 1 /\ \A u \in TIDs \ {t} : W[u] = V[u]
  BY <1>3
<1>5. V[t] + 1 \in DOMAIN TableSizes[t]
  BY <1>2, <1>3
<1>6. W \in [TIDs -> Nat]
  BY <1>3
<1>7. \A u \in TIDs : W[u] \in DOMAIN TableSizes[u]
  BY <1>3, <1>4, <1>5
<1>8. \A u \in TIDs : V[u] <= W[u]
  BY <1>3, <1>4
<1> QED BY <1>4, <1>6, <1>7, <1>8 DEF Versions

\* The operations of the plugin: the next version of a table replaces it.
LEMMA NewTableKept ==
    ASSUME PacketizerInv, NEW t \in TIDs, NewTable(t)
    PROVE  Kept(zer', version', zer, version) /\ SameCurrent(zer', zer)
<1> DEFINE V == version  W == version'  y == RemoveSections(zer, t)
           sects == TableSections(t, W[t])
<1>1. V \in Versions /\ Good(zer, V) /\ Exact(zer, V)
  BY DEF PacketizerInv, Good
<1>2. W \in Versions /\ (\A u \in TIDs : V[u] <= W[u]) /\ \A u \in TIDs \ {t} : W[u] = V[u]
  <2>1. V[t] < Len(TableSizes[t]) /\ W = [V EXCEPT ![t] = @ + 1]
    BY DEF NewTable
  <2> HIDE DEF V, W
  <2>2. W \in Versions
    BY <1>1, <2>1, NextVersion
  <2>3. \A u \in TIDs : V[u] <= W[u]
    BY <1>1, <2>1, NextVersion
  <2>4. \A u \in TIDs \ {t} : W[u] = V[u]
    BY <1>1, <2>1, NextVersion
  <2> QED BY <2>2, <2>3, <2>4
<1>3. zer' = AddSections(y, sects, Repetition[t])
  BY DEF NewTable
<1> HIDE DEF V, W, y
<1>4. y \in Variants(zer, W)
  BY <1>1, <1>2, RemoveSectionsExact DEF y
<1>5. Exact(y, W) /\ SameOutput(y, zer)
  BY <1>4 DEF Variants
<1>6. sects \in Seq(Current(W)) /\ Repetition[t] \in Nat
  BY <1>2, TableSectionsCurrent
<1> HIDE DEF sects
<1>7. zer' \in Variants(y, W)
  BY <1>2, <1>3, <1>5, <1>6, AddSectionsExact
<1>8. Exact(zer', W) /\ SameOutput(zer', zer)
  BY <1>5, <1>7 DEF Variants, SameOutput
<1>9. Kept(zer', W, zer, V) /\ SameCurrent(zer', zer)
  BY <1>1, <1>2, <1>8, NoOlder
<1> QED BY <1>9 DEF V, W

\* setBitRate().
LEMMA ChangeBitRateKept ==
    ASSUME PacketizerInv, NEW b \in Bitrates, ChangeBitRate(b)
    PROVE  Kept(zer', version', zer, version) /\ SameCurrent(zer', zer)
<1>1. version \in Versions /\ Good(zer, version) /\ Exact(zer, version) /\ b \in Nat
  BY StreamAssumption DEF PacketizerInv, Good
<1>2. zer' = SetBitRate(zer, b) /\ version' = version
  BY DEF ChangeBitRate
<1>3. zer' \in Variants(zer, version)
  BY <1>1, <1>2, SetBitRateExact
<1>4. Exact(zer', version) /\ SameOutput(zer', zer) /\ \A u \in TIDs : version[u] <= version[u]
  BY <1>1, <1>3 DEF Variants, Versions
<1>5. Kept(zer', version, zer, version) /\ SameCurrent(zer', zer)
  BY <1>1, <1>4, NoOlder
<1> QED BY <1>2, <1>5

\* All tables are removed and the next version of one is added.
LEMMA ReplaceTablesKept ==
    ASSUME PacketizerInv, NEW t \in TIDs, ReplaceTables(t)
    PROVE  Kept(zer', version', zer, version) /\ SameCurrent(zer', zer)
<1> DEFINE V == version  W == version'  y == RemoveAll(zer)
           sects == TableSections(t, W[t])
<1>1. V \in Versions /\ Good(zer, V) /\ Exact(zer, V) /\ zer \in Object
  BY DEF PacketizerInv, Good, Exact
<1>2. W \in Versions /\ (\A u \in TIDs : V[u] <= W[u])
  BY <1>1, NextVersion DEF ReplaceTables
<1>3. zer' = AddSections(y, sects, Repetition[t])
  BY DEF ReplaceTables
<1> HIDE DEF V, W
<1>4. Exact(y, W) /\ SameOutput(y, zer)
  BY <1>1, <1>2, RemoveAllExact, AddSectionSame
<1> HIDE DEF y
<1>6. sects \in Seq(Current(W)) /\ Repetition[t] \in Nat
  BY <1>2, TableSectionsCurrent
<1> HIDE DEF sects
<1>7. zer' \in Variants(y, W)
  BY <1>2, <1>3, <1>4, <1>6, AddSectionsExact
<1>8. Exact(zer', W) /\ SameOutput(zer', zer)
  BY <1>4, <1>7 DEF Variants, SameOutput
<1>9. Kept(zer', W, zer, V) /\ SameCurrent(zer', zer)
  BY <1>1, <1>2, <1>8, NoOlder
<1> QED BY <1>9 DEF V, W

\* reset(), and the files which still exist are loaded again: no section is current.
LEMMA ResetKept ==
    ASSUME PacketizerInv, NEW files, ResetPacketizer(files)
    PROVE  Kept(zer', version', zer, version) /\ zer'.section = NullSection /\ zer'.next = 0
<1> DEFINE a == RemoveAll(zer)  n == 0  e == NullSection
           y == [a EXCEPT !.section = e, !.next = n]
<1>1. version \in Versions /\ Good(zer, version) /\ Exact(zer, version) /\ zer \in Object
  BY DEF PacketizerInv, Good, Exact
<1>2. zer' = LoadTables(y, files) /\ version' = version
  BY DEF ResetPacketizer, Reset
<1>3. Exact(a, version) /\ SameOutput(a, zer) /\ a \in Object
  BY <1>1, RemoveAllExact, AddSectionSame DEF Exact
<1> HIDE DEF a
<1>4. e \in Sect /\ n \in Nat
  BY Sizes
<1> HIDE DEF e, n
<1>5. y \in Object /\ SameLists(y, a) /\ y.section = e /\ y.next = n /\ y.cc = a.cc
      /\ y.packets = a.packets /\ y.in = a.in
  BY <1>3, <1>4 DEF Object, SameLists
<1> HIDE DEF y
<1>6. Exact(y, version)
  BY <1>3, <1>5, ExactSame
<1>7. zer' \in Variants(y, version)
  BY <1>1, <1>2, <1>6, LoadTablesExact
<1>8. Exact(zer', version) /\ zer'.section = NullSection /\ zer'.next = 0 /\ zer'.in = zer.in
      /\ zer'.cc = zer.cc /\ zer'.packets = zer.packets
  BY <1>3, <1>5, <1>7 DEF Variants, SameOutput, e, n
<1>9. Good(zer', version)
  BY <1>8 DEF Good, Placed
<1>10. ASSUME NEW x, Past(x, zer, version) PROVE Past(x, zer', version)
  BY <1>8, <1>10 DEF Past, Old
<1> QED BY <1>1, <1>2, <1>8, <1>9, <1>10 DEF Kept

\* The first state of the packetizer.
LEMMA InitPacketizer ==
    ASSUME Init
    PROVE  PacketizerInv /\ zer.section = NullSection /\ zer.cc = 0 /\ zer.packets = 0
<1>1. version = [t \in TIDs |-> 1]
  BY DEF Init
<1>2. version \in Versions
  <2>1. ASSUME NEW t \in TIDs PROVE 1 \in DOMAIN TableSizes[t]
    <3>1. TableSizes[t] \in Seq(Seq(MinSection .. MaxSection) \ {<<>>}) /\ TableSizes[t] # <<>>
      BY StreamAssumption
    <3> QED BY <3>1
  <2> QED BY <1>1, <2>1 DEF Versions
<1>3. PICK policy \in Policies, bitrate \in Bitrates :
         zer = LoadTables(SetBitRate(PacketizerInit(policy), bitrate), TIDs)
  BY DEF Init
<1> DEFINE a == PacketizerInit(policy)  b == SetBitRate(a, bitrate)
<1>4. a \in Object
  <2> DEFINE e == <<>>
  <2>1. e \in Seq(Entry) /\ NullSection \in Sect /\ UNDEFINED \in Int
    BY Sizes DEF UNDEFINED
  <2>2. a = [cc |-> 0, section |-> NullSection, next |-> 0, packets |-> 0, in |-> 0, out |-> 0,
             stuffing |-> policy, bitrate |-> 0, sched |-> e, other |-> e, schedPackets |-> 0,
             count |-> 0, cycle |-> 1, remain |-> 0, cycleEnd |-> UNDEFINED]
    BY DEF PacketizerInit
  <2> HIDE DEF a, e
  <2> QED BY <2>1, <2>2 DEF Object
<1>5. a.section = NullSection /\ a.next = 0 /\ a.cc = 0 /\ a.packets = 0 /\ a.in = 0 /\ a.sched = <<>>
      /\ a.other = <<>> /\ a.count = 0 /\ a.cycle = 1 /\ a.remain = 0 /\ a.schedPackets = 0
  BY DEF PacketizerInit
<1> HIDE DEF a
<1>6. Exact(a, version)
  <2>1. Total(<<>>, One) = 0 /\ Total(<<>>, Weight) = 0 /\ Total(<<>>, Late(1)) = 0
    <3>1. One \in [Entry -> Int] /\ Weight \in [Entry -> Int] /\ Late(1) \in [Entry -> Int]
      BY Weights
    <3> QED BY <3>1, TotalType
  <2>2. <<>> \in Seq(Live(1, version)) /\ Sorted(<<>>)
    BY DEF Sorted
  <2> QED BY <1>4, <1>5, <2>1, <2>2 DEF Exact
<1>7. b \in Variants(a, version)
  BY <1>2, <1>6, SetBitRateExact, StreamAssumption
<1> HIDE DEF b
<1>8. zer = LoadTables(b, TIDs)
  BY <1>3 DEF a, b
<1>9. Exact(b, version) /\ SameOutput(b, a)
  BY <1>7 DEF Variants
<1>10. zer \in Variants(b, version)
  BY <1>2, <1>8, <1>9, LoadTablesExact
<1>11. Exact(zer, version) /\ SameOutput(zer, a)
  BY <1>9, <1>10 DEF Variants, SameOutput
<1>12. Placed(zer, version)
  BY <1>5, <1>11 DEF SameOutput, Placed
<1> QED BY <1>2, <1>5, <1>11, <1>12 DEF PacketizerInv, Good, SameOutput

=============================================================================

-------------------------- MODULE EslPacketsProofs --------------------------
(***************************************************************************)
(* Facts about the packet framing of EslPackets, for byte strings of any   *)
(* length: where the first packet ends and that what arrives later does    *)
(* not change it.                                                          *)
(***************************************************************************)
EXTENDS EslPackets, WellFoundedInduction, TLAPS

(* Every non-empty set of natural numbers has a least element.             *)
LEMMA LeastNatural ==
  ASSUME NEW S \in SUBSET Nat, S # {}
  PROVE  \E p \in S : \A q \in S : p <= q
<1> DEFINE less == OpToRel(<, Nat)
<1>1. IsWellFoundedOn(less, Nat)
  BY NatLessThanWellFounded
<1>2. \A p, q \in Nat : q < p => <<q, p>> \in less
  BY DEF OpToRel
<1> HIDE DEF less
<1>3. PICK p \in S : \A q \in S : ~(<<q, p>> \in less)
  BY <1>1, WFMin
<1>4. \A q \in S : ~(q < p)
  BY <1>2, <1>3
<1>5. \A q \in S : p <= q
  BY <1>4
<1> QED BY <1>5

(* What holds at the end of a string, and at a place if it holds at all    *)
(* places behind it, holds everywhere: the places where it fails have no   *)
(* last one.                                                               *)
LEMMA FromTheEnd ==
  ASSUME NEW n \in Nat, NEW G \in SUBSET (0 .. n),
         \A k \in 0 .. n : (k + 1 .. n) \subseteq G => k \in G
  PROVE  G = 0 .. n
<1> DEFINE Bad == {m \in 0 .. n : n - m \notin G}
<1>1. ASSUME Bad # {} PROVE FALSE
  <2>1. Bad \in SUBSET Nat
    OBVIOUS
  <2>2. PICK m \in Bad : \A l \in Bad : m <= l
    <3> HIDE DEF Bad
    <3> QED BY <1>1, <2>1, LeastNatural
  <2>3. m \in 0 .. n /\ n - m \in 0 .. n /\ n - m \notin G
    OBVIOUS
  <2>4. ASSUME NEW j \in n - m + 1 .. n PROVE j \in G
    <3>1. n - j \in 0 .. n /\ ~(m <= n - j) /\ n - (n - j) = j
      BY <2>3
    <3>2. n - j \notin Bad
      BY <2>2, <3>1
    <3> QED BY <3>1, <3>2
  <2> QED BY <2>3, <2>4
<1>2. ASSUME NEW k \in 0 .. n PROVE k \in G
  <2>1. n - k \in 0 .. n /\ n - (n - k) = k
    OBVIOUS
  <2> QED BY <1>1, <2>1
<1> QED BY <1>2

(* A terminator is a line feed that nothing but bytes other than NUL comes *)
(* before, and the line feed that ends it is in the string, too.           *)
LEMMA TerminatorFacts ==
  ASSUME NEW T, NEW s \in Seq(T), NEW p \in Terminators(s)
  PROVE  /\ p \in Nat /\ 1 <= p /\ p < PairOf(s, p)
         /\ PairOf(s, p) \in Nat /\ PairOf(s, p) <= Len(s) /\ PairOf(s, p) <= p + 2
BY DEF Terminators, Scanned, TerminatorAt, PairOf

(* When there is a terminator, FirstTerminator is the first one.           *)
LEMMA FirstIsLeast ==
  ASSUME NEW T, NEW s \in Seq(T), Terminators(s) # {}
  PROVE  /\ FirstTerminator(s) \in Terminators(s)
         /\ \A q \in Terminators(s) : FirstTerminator(s) <= q
<1>1. Terminators(s) \in SUBSET Nat
  BY DEF Terminators, Scanned
<1>2. \E p \in Terminators(s) : \A q \in Terminators(s) : p <= q
  BY <1>1, LeastNatural
<1> QED BY <1>2 DEF FirstTerminator

(* The length of the first packet, and the byte behind it: a packet leaves *)
(* at least the line feed that ends it.                                    *)
LEMMA FirstPacketLenType ==
  ASSUME NEW T, NEW s \in Seq(T)
  PROVE  /\ FirstPacketLen(s) \in Nat
         /\ FirstPacketLen(s) # 0 => FirstPacketLen(s) < Len(s)
<1>1. CASE Terminators(s) = {}
  BY <1>1 DEF FirstPacketLen
<1>2. CASE Terminators(s) # {}
  <2>1. FirstTerminator(s) \in Terminators(s)
    BY <1>2, FirstIsLeast
  <2>2. /\ PairOf(s, FirstTerminator(s)) \in Nat
        /\ 1 < PairOf(s, FirstTerminator(s))
        /\ PairOf(s, FirstTerminator(s)) <= Len(s)
    BY <2>1, TerminatorFacts
  <2> QED BY <2>2, <1>2 DEF FirstPacketLen
<1> QED BY <1>1, <1>2

(* t begins with s.                                                        *)
Begins(s, t) == Len(s) <= Len(t) /\ \A i \in 1 .. Len(s) : t[i] = s[i]

(* A place is a terminator of the beginning when both of its line feeds    *)
(* are in there.                                                           *)
LEMMA SameTerminators ==
  ASSUME NEW T, NEW s \in Seq(T), NEW t \in Seq(T), Begins(s, t),
         NEW p \in Nat
  PROVE  /\ p \in Terminators(s) => p \in Terminators(t) /\ PairOf(t, p) = PairOf(s, p)
         /\ p \in Terminators(t) /\ PairOf(t, p) <= Len(s) => p \in Terminators(s)
<1>1. ASSUME p < Len(s) PROVE PairOf(t, p) = PairOf(s, p)
  BY <1>1 DEF PairOf, Begins
<1>2. ASSUME p \in 1 .. Len(s), NEW q \in 1 .. p PROVE t[q] = s[q]
  BY <1>2 DEF Begins
<1>3. ASSUME p \in Terminators(s)
      PROVE  p \in Terminators(t) /\ PairOf(t, p) = PairOf(s, p)
  <2>1. p < Len(s) /\ p \in 1 .. Len(s)
    BY <1>3, TerminatorFacts
  <2>2. PairOf(t, p) = PairOf(s, p) /\ PairOf(s, p) \in 1 .. Len(s)
    BY <1>1, <1>3, <2>1, TerminatorFacts
  <2>3. TerminatorAt(t, p)
    BY <1>3, <2>1, <2>2 DEF Terminators, TerminatorAt, Begins
  <2>4. p \in Scanned(t)
    BY <1>2, <1>3, <2>1 DEF Terminators, Scanned, Begins
  <2> QED BY <2>2, <2>3, <2>4 DEF Terminators
<1>4. ASSUME p \in Terminators(t), PairOf(t, p) <= Len(s)
      PROVE  p \in Terminators(s)
  <2>1. p < Len(s) /\ p \in 1 .. Len(s)
    BY <1>4, TerminatorFacts
  <2>2. PairOf(t, p) = PairOf(s, p) /\ PairOf(s, p) \in 1 .. Len(s)
    BY <1>1, <1>4, <2>1, TerminatorFacts
  <2>3. TerminatorAt(s, p)
    BY <1>4, <2>1, <2>2 DEF Terminators, TerminatorAt, Begins
  <2>4. p \in Scanned(s)
    BY <1>2, <1>4, <2>1 DEF Terminators, Scanned, Begins
  <2> QED BY <2>3, <2>4 DEF Terminators
<1> QED BY <1>3, <1>4

(* A packet once complete keeps its length whatever arrives after it.      *)
LEMMA PacketStays ==
  ASSUME NEW T, NEW s \in Seq(T), NEW t \in Seq(T), Begins(s, t),
         FirstPacketLen(s) # 0
  PROVE  FirstPacketLen(t) = FirstPacketLen(s)
<1> DEFINE p == FirstTerminator(s)
           q == FirstTerminator(t)
<1>1. Terminators(s) # {}
  BY DEF FirstPacketLen
<1>2. p \in Terminators(s) /\ \A r \in Terminators(s) : p <= r
  BY <1>1, FirstIsLeast
<1>3. p \in Nat /\ PairOf(s, p) <= Len(s) /\ PairOf(s, p) \in Nat /\ p < PairOf(s, p)
  BY <1>2, TerminatorFacts
<1>4. p \in Terminators(t) /\ PairOf(t, p) = PairOf(s, p)
  BY <1>2, <1>3, SameTerminators
<1>5. q \in Terminators(t) /\ q <= p
  BY <1>4, FirstIsLeast
<1>6. q \in Nat /\ PairOf(t, q) \in Nat
  BY <1>5, TerminatorFacts
<1> HIDE DEF p, q
<1>7. ASSUME q < p PROVE PairOf(t, q) <= Len(s)
  BY <1>3, <1>6, <1>7 DEF PairOf, Begins
<1>8. q = p
  BY <1>2, <1>3, <1>5, <1>6, <1>7, SameTerminators
<1> QED BY <1>1, <1>4, <1>8 DEF FirstPacketLen, p, q

-----------------------------------------------------------------------------
(* Recursion over the places m .. n, which the proofs about strings and    *)
(* events share.                                                           *)

(* What holds at a place if it holds at all places before it.              *)
LEMMA FromTheStart ==
  ASSUME NEW n \in Nat, NEW G \in SUBSET (0 .. n),
         \A k \in 0 .. n : (0 .. k - 1) \subseteq G => k \in G
  PROVE  G = 0 .. n
<1> DEFINE Bad == (0 .. n) \ G
<1>1. ASSUME Bad # {} PROVE FALSE
  <2>1. Bad \in SUBSET Nat
    OBVIOUS
  <2>2. PICK m \in Bad : \A l \in Bad : m <= l
    <3> HIDE DEF Bad
    <3> QED BY <1>1, <2>1, LeastNatural
  <2>3. m \in 0 .. n /\ m \notin G
    OBVIOUS
  <2>4. ASSUME NEW j \in 0 .. m - 1 PROVE j \in G
    <3>1. j \in 0 .. n /\ ~(m <= j)
      BY <2>3
    <3>2. j \notin Bad
      BY <2>2, <3>1
    <3> QED BY <3>1, <3>2
  <2> QED BY <2>3, <2>4
<1> QED BY <1>1

(* An equation: H[k][f] is the value at k of a function that is f at the   *)
(* other places, and needs only those behind k, or only those before it.   *)
Equation(m, n, T, H) == H \in [m .. n -> [[m .. n -> T] -> T]]

UsesBehind(m, n, T, H) ==
  \A k \in m .. n : \A f, g \in [m .. n -> T] :
     (\A j \in k + 1 .. n : f[j] = g[j]) => H[k][f] = H[k][g]

UsesBefore(m, n, T, H) ==
  \A k \in m .. n : \A f, g \in [m .. n -> T] :
     (\A j \in m .. k - 1 : f[j] = g[j]) => H[k][f] = H[k][g]

Solves(f, m, n, T, H) == f \in [m .. n -> T] /\ \A k \in m .. n : f[k] = H[k][f]

LEMMA Downward ==
  ASSUME NEW m \in Nat, NEW n \in Nat, NEW T, NEW t \in T, NEW H,
         Equation(m, n, T, H), UsesBehind(m, n, T, H)
  PROVE  \E f : Solves(f, m, n, T, H)
<1>0. /\ H \in [m .. n -> [[m .. n -> T] -> T]]
      /\ \A k \in m .. n : \A f, g \in [m .. n -> T] :
            (\A j \in k + 1 .. n : f[j] = g[j]) => H[k][f] = H[k][g]
  BY DEF Equation, UsesBehind
<1> DEFINE Done(i, f) == \A k \in m .. n : i <= k => f[k] = H[k][f]
           G == {i \in 0 .. n : \E f \in [m .. n -> T] : Done(i, f)}
<1>1. ASSUME NEW i \in 0 .. n, (i + 1 .. n) \subseteq G PROVE i \in G
  <2>1. \E f \in [m .. n -> T] : \A k \in m .. n : i + 1 <= k => f[k] = H[k][f]
    <3>1. CASE i = n
      <4>1. [k \in m .. n |-> t] \in [m .. n -> T]
        OBVIOUS
      <4>2. \A k \in m .. n : ~(i + 1 <= k)
        BY <3>1
      <4> QED BY <4>1, <4>2
    <3>2. CASE i # n
      <4>1. i + 1 \in i + 1 .. n
        BY <3>2
      <4> QED BY <1>1, <4>1
    <3> QED BY <3>1, <3>2
  <2>2. PICK f \in [m .. n -> T] : \A k \in m .. n : i + 1 <= k => f[k] = H[k][f]
    BY <2>1
  <2>3. CASE i \notin m .. n
    <3>1. \A k \in m .. n : i <= k => i + 1 <= k
      BY <2>3
    <3>2. Done(i, f)
      BY <2>2, <3>1
    <3> QED BY <3>2
  <2>4. CASE i \in m .. n
    <3> DEFINE g == [f EXCEPT ![i] = H[i][f]]
    <3>1. H[i][f] \in T
      BY <1>0, <2>4
    <3>2. g \in [m .. n -> T] /\ g[i] = H[i][f] /\ \A k \in m .. n : k # i => g[k] = f[k]
      BY <2>4, <3>1
    <3> HIDE DEF g
    <3>3. ASSUME NEW k \in m .. n, i <= k PROVE g[k] = H[k][g]
      <4>1. \A j \in k + 1 .. n : f[j] = g[j]
        BY <3>2, <3>3
      <4>2. H[k][f] = H[k][g]
        BY <1>0, <3>2, <4>1
      <4>3. CASE k = i
        BY <3>2, <4>2, <4>3
      <4>4. CASE k # i
        <5>1. i + 1 <= k
          BY <3>3, <4>4
        <5> QED BY <2>2, <3>2, <4>2, <4>4, <5>1
      <4> QED BY <4>3, <4>4
    <3> QED BY <3>2, <3>3
  <2> QED BY <2>3, <2>4
<1>2. G = 0 .. n
  <2>1. G \in SUBSET (0 .. n)
    OBVIOUS
  <2> HIDE DEF G
  <2> QED BY <1>1, <2>1, FromTheEnd
<1>3. PICK f \in [m .. n -> T] : Done(0, f)
  <2>1. 0 \in 0 .. n
    OBVIOUS
  <2>2. 0 \in G
    BY <1>2, <2>1
  <2> QED BY <2>2
<1> QED BY <1>3 DEF Solves

LEMMA Upward ==
  ASSUME NEW m \in Nat, NEW n \in Nat, NEW T, NEW t \in T, NEW H,
         Equation(m, n, T, H), UsesBefore(m, n, T, H)
  PROVE  \E f : Solves(f, m, n, T, H)
<1>0. /\ H \in [m .. n -> [[m .. n -> T] -> T]]
      /\ \A k \in m .. n : \A f, g \in [m .. n -> T] :
            (\A j \in m .. k - 1 : f[j] = g[j]) => H[k][f] = H[k][g]
  BY DEF Equation, UsesBefore
<1> DEFINE Done(i, f) == \A k \in m .. n : k <= i => f[k] = H[k][f]
           G == {i \in 0 .. n : \E f \in [m .. n -> T] : Done(i, f)}
<1>1. ASSUME NEW i \in 0 .. n, (0 .. i - 1) \subseteq G PROVE i \in G
  <2>1. \E f \in [m .. n -> T] : \A k \in m .. n : k <= i - 1 => f[k] = H[k][f]
    <3>1. CASE i = 0
      <4>1. [k \in m .. n |-> t] \in [m .. n -> T]
        OBVIOUS
      <4>2. \A k \in m .. n : ~(k <= i - 1)
        BY <3>1
      <4> QED BY <4>1, <4>2
    <3>2. CASE i # 0
      <4>1. i - 1 \in 0 .. i - 1
        BY <3>2
      <4> QED BY <1>1, <4>1
    <3> QED BY <3>1, <3>2
  <2>2. PICK f \in [m .. n -> T] : \A k \in m .. n : k <= i - 1 => f[k] = H[k][f]
    BY <2>1
  <2>3. CASE i \notin m .. n
    <3>1. \A k \in m .. n : k <= i => k <= i - 1
      BY <2>3
    <3>2. Done(i, f)
      BY <2>2, <3>1
    <3> QED BY <3>2
  <2>4. CASE i \in m .. n
    <3> DEFINE g == [f EXCEPT ![i] = H[i][f]]
    <3>1. H[i][f] \in T
      BY <1>0, <2>4
    <3>2. g \in [m .. n -> T] /\ g[i] = H[i][f] /\ \A k \in m .. n : k # i => g[k] = f[k]
      BY <2>4, <3>1
    <3> HIDE DEF g
    <3>3. ASSUME NEW k \in m .. n, k <= i PROVE g[k] = H[k][g]
      <4>1. \A j \in m .. k - 1 : f[j] = g[j]
        BY <3>2, <3>3
      <4>2. H[k][f] = H[k][g]
        BY <1>0, <3>2, <4>1
      <4>3. CASE k = i
        BY <3>2, <4>2, <4>3
      <4>4. CASE k # i
        <5>1. k <= i - 1
          BY <3>3, <4>4
        <5> QED BY <2>2, <3>2, <4>2, <4>4, <5>1
      <4> QED BY <4>3, <4>4
    <3> QED BY <3>2, <3>3
  <2> QED BY <2>3, <2>4
<1>2. G = 0 .. n
  <2>1. G \in SUBSET (0 .. n)
    OBVIOUS
  <2> HIDE DEF G
  <2> QED BY <1>1, <2>1, FromTheStart
<1>3. PICK f \in [m .. n -> T] : Done(n, f)
  <2>1. n \in 0 .. n
    OBVIOUS
  <2>2. n \in G
    BY <1>2, <2>1
  <2> QED BY <2>2
<1> QED BY <1>3 DEF Solves

(* One step after the other: S[i] leads from the result of step i - 1 to   *)
(* that of step i.                                                         *)
Steps(n, T, S) == S \in [1 .. n -> [T -> T]]

Runs(f, n, T, a, S) == /\ f \in [0 .. n -> T] /\ f[0] = a
                       /\ \A i \in 1 .. n : f[i] = S[i][f[i - 1]]

LEMMA Iterates ==
  ASSUME NEW n \in Nat, NEW T, NEW a \in T, NEW S, Steps(n, T, S)
  PROVE  \E f : Runs(f, n, T, a, S)
<1>0. S \in [1 .. n -> [T -> T]]
  BY DEF Steps
<1> DEFINE Step(i, f) == IF i = 0 THEN a ELSE S[i][f[i - 1]]
           H == [i \in 0 .. n |-> [f \in [0 .. n -> T] |-> Step(i, f)]]
<1>1. ASSUME NEW i \in 0 .. n, NEW f \in [0 .. n -> T] PROVE Step(i, f) \in T
  <2>1. CASE i = 0
    BY <2>1
  <2>2. CASE i # 0
    <3>1. i \in 1 .. n /\ i - 1 \in 0 .. n
      BY <2>2
    <3> QED BY <1>0, <2>2, <3>1
  <2> QED BY <2>1, <2>2
<1>2. ASSUME NEW i \in 0 .. n, NEW f, NEW g, \A j \in 0 .. i - 1 : f[j] = g[j]
      PROVE  Step(i, f) = Step(i, g)
  <2>1. CASE i = 0
    BY <2>1
  <2>2. CASE i # 0
    <3>1. i - 1 \in 0 .. i - 1
      BY <2>2
    <3>2. f[i - 1] = g[i - 1]
      BY <1>2, <3>1
    <3> QED BY <3>2, Zenon
  <2> QED BY <2>1, <2>2
<1>3. \A i \in 0 .. n : \A f : Step(i, f) = IF i = 0 THEN a ELSE S[i][f[i - 1]]
  OBVIOUS
<1> HIDE DEF Step
<1>4. \A i \in 0 .. n : \A f \in [0 .. n -> T] : H[i][f] = Step(i, f)
  BY Zenon
<1>5. Equation(0, n, T, H)
  BY <1>1 DEF Equation
<1>6. UsesBefore(0, n, T, H)
  <2> HIDE DEF H
  <2>1. ASSUME NEW i \in 0 .. n, NEW f \in [0 .. n -> T], NEW g \in [0 .. n -> T],
               \A j \in 0 .. i - 1 : f[j] = g[j]
        PROVE  H[i][f] = H[i][g]
    <3>1. Step(i, f) = Step(i, g)
      BY <1>2, <2>1
    <3> QED BY <1>4, <3>1
  <2> QED BY <2>1 DEF UsesBefore
<1> HIDE DEF H
<1>7. PICK f : Solves(f, 0, n, T, H)
  BY <1>5, <1>6, Upward
<1>8. f \in [0 .. n -> T] /\ \A i \in 0 .. n : f[i] = Step(i, f)
  BY <1>4, <1>7 DEF Solves
<1>9. f[0] = a
  BY <1>3, <1>8
<1>10. ASSUME NEW i \in 1 .. n PROVE f[i] = S[i][f[i - 1]]
  <2>1. i \in 0 .. n /\ i # 0
    OBVIOUS
  <2> QED BY <1>3, <1>8, <2>1
<1> QED BY <1>8, <1>9, <1>10 DEF Runs

(* What holds at the start and is kept by every step holds at the end.     *)
LEMMA Inductive ==
  ASSUME NEW n \in Nat, NEW G \in SUBSET (0 .. n), 0 \in G,
         \A i \in 1 .. n : i - 1 \in G => i \in G
  PROVE  G = 0 .. n
<1>1. ASSUME NEW k \in 0 .. n, (0 .. k - 1) \subseteq G PROVE k \in G
  <2>1. CASE k = 0
    BY <2>1
  <2>2. CASE k # 0
    <3>1. k \in 1 .. n /\ k - 1 \in 0 .. k - 1
      BY <2>2
    <3> QED BY <1>1, <3>1
  <2> QED BY <2>1, <2>2
<1> QED BY <1>1, FromTheStart
=============================================================================

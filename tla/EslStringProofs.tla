-------------------------- MODULE EslStringProofs --------------------------
(***************************************************************************)
(* Proofs about the functions of the library that only compute, for texts  *)
(* and files of any length: the loops that look for packets, the string    *)
(* helpers and the configuration reader.                                   *)
(*                                                                         *)
(* The loops of the code are recursive functions over the places of a      *)
(* text.  That such a function exists follows from Downward, Upward or     *)
(* Iterates; that it is what it should be, from its equation, from the end *)
(* of the text to its start or the other way round, to the last place      *)
(* where something could be wrong.                                         *)
(***************************************************************************)
EXTENDS MCEslConfig, EslPacketsProofs, SequenceTheorems

-----------------------------------------------------------------------------
(* The length of the first packet when the scan begins at p.               *)
LenAt(t, p) == FirstPacketLen(From(t, p))

(* A length, seen from one byte before.                                    *)
Later(n) == IF n = 0 THEN 0 ELSE n + 1

(* One step of a scan: what the first byte says of the first packet.       *)
LEMMA FirstByte ==
  ASSUME NEW t \in Seq(Byte), t # <<>>, NEW u \in Seq(Byte), u = From(t, 2)
  PROVE  /\ t[1] = NUL => FirstPacketLen(t) = 0
         /\ t[1] # NUL /\ t[1] # LF => FirstPacketLen(t) = Later(FirstPacketLen(u))
         /\ t[1] = LF /\ PairOf(t, 1) > Len(t) => FirstPacketLen(t) = 0
         /\ t[1] = LF /\ PairOf(t, 1) <= Len(t) /\ t[PairOf(t, 1)] = LF
              => FirstPacketLen(t) = PairOf(t, 1) - 1
         /\ t[1] = LF /\ PairOf(t, 1) <= Len(t) /\ t[PairOf(t, 1)] # LF
              => FirstPacketLen(t) = Later(FirstPacketLen(u))
<1>1. Len(t) \in Nat /\ Len(t) >= 1 /\ Len(u) = Len(t) - 1 /\ \A i \in 1 .. Len(u) : u[i] = t[i + 1]
  <2>1. Len(t) \in Nat /\ Len(t) >= 1
    BY EmptySeq
  <2>2. u = SubSeq(t, 2, Len(t))
    BY DEF From
  <2>3. Len(u) = Len(t) - 1
    BY <2>1, <2>2
  <2>4. ASSUME NEW i \in 1 .. Len(u) PROVE u[i] = t[i + 1]
    <3>1. i \in 1 .. Len(t) - 1
      BY <2>3
    <3> QED BY <2>1, <2>2, <3>1
  <2> QED BY <2>1, <2>3, <2>4
<1>2. ASSUME NEW i \in 1 .. Len(u) PROVE PairOf(t, i + 1) = PairOf(u, i) + 1 /\ PairOf(u, i) \in Nat
  <2>1. (i < Len(u) <=> i + 1 < Len(t)) /\ i \in Nat
    BY <1>1
  <2>2. i < Len(u) => u[i + 1] = t[i + 1 + 1]
    BY <1>1
  <2> QED BY <2>1, <2>2 DEF PairOf
(* Behind a byte that is not NUL the same terminators are seen.            *)
<1>3. ASSUME t[1] # NUL, NEW i \in 1 .. Len(u)
      PROVE  i \in Terminators(u) <=> i + 1 \in Terminators(t)
  <2>1. i + 1 \in 1 .. Len(t) /\ u[i] = t[i + 1]
    BY <1>1
  <2>2. TerminatorAt(u, i) <=> TerminatorAt(t, i + 1)
    <3>1. PairOf(u, i) <= Len(u) <=> PairOf(t, i + 1) <= Len(t)
      BY <1>1, <1>2
    <3>2. PairOf(u, i) <= Len(u) => u[PairOf(u, i)] = t[PairOf(t, i + 1)]
      <4>1. PairOf(u, i) >= 1
        BY DEF PairOf
      <4> QED BY <1>1, <1>2, <4>1
    <3> QED BY <2>1, <3>1, <3>2 DEF TerminatorAt
  <2>3. i \in Scanned(u) <=> i + 1 \in Scanned(t)
    <3>1. ASSUME \A q \in 1 .. i : u[q] # NUL, NEW q \in 1 .. i + 1 PROVE t[q] # NUL
      <4>1. CASE q = 1
        BY <1>3, <4>1
      <4>2. CASE q # 1
        <5> DEFINE r == q - 1
        <5>1. r \in 1 .. i /\ r \in 1 .. Len(u) /\ r + 1 = q
          BY <1>1, <4>2
        <5> HIDE DEF r
        <5> QED BY <1>1, <3>1, <5>1
      <4> QED BY <4>1, <4>2
    <3>2. ASSUME \A q \in 1 .. i + 1 : t[q] # NUL, NEW q \in 1 .. i PROVE u[q] # NUL
      <4>1. q \in 1 .. Len(u) /\ q + 1 \in 1 .. i + 1
        BY <1>1
      <4> QED BY <1>1, <3>2, <4>1
    <3> QED BY <2>1, <3>1, <3>2 DEF Scanned
  <2> QED BY <2>2, <2>3 DEF Terminators
<1>4. 1 \in Terminators(t) <=> t[1] = LF /\ PairOf(t, 1) <= Len(t) /\ t[PairOf(t, 1)] = LF
  BY <1>1, ByteAssumption DEF Terminators, Scanned, TerminatorAt
<1>5. Terminators(t) \subseteq 1 .. Len(t) /\ Terminators(u) \subseteq 1 .. Len(u)
  BY DEF Terminators, Scanned
<1>6. ASSUME t[1] = NUL PROVE FirstPacketLen(t) = 0
  <2>1. Terminators(t) = {}
    BY <1>6 DEF Terminators, Scanned
  <2> QED BY <2>1 DEF FirstPacketLen
<1>7. ASSUME t[1] # NUL, 1 \notin Terminators(t)
      PROVE  FirstPacketLen(t) = Later(FirstPacketLen(u))
  <2>1. \A i \in Terminators(t) : i - 1 \in 1 .. Len(u) /\ i - 1 \in Terminators(u) /\ i - 1 + 1 = i
    <3> SUFFICES ASSUME NEW i \in Terminators(t)
                 PROVE  i - 1 \in 1 .. Len(u) /\ i - 1 \in Terminators(u) /\ i - 1 + 1 = i
      OBVIOUS
    <3> DEFINE r == i - 1
    <3>1. i # 1 /\ i \in 1 .. Len(t)
      BY <1>5, <1>7
    <3>2. r \in 1 .. Len(u) /\ r + 1 = i
      BY <1>1, <3>1
    <3> HIDE DEF r
    <3>3. r \in Terminators(u)
      BY <1>3, <1>7, <3>2
    <3> QED BY <3>2, <3>3 DEF r
  <2>2. CASE Terminators(u) = {}
    <3>1. Terminators(t) = {}
      BY <2>1, <2>2
    <3> QED BY <2>2, <3>1 DEF FirstPacketLen, Later
  <2>3. CASE Terminators(u) # {}
    <3> DEFINE i == FirstTerminator(u)
               j == FirstTerminator(t)
    <3>1. i \in Terminators(u) /\ \A q \in Terminators(u) : i <= q
      BY <2>3, FirstIsLeast
    <3>2. i \in 1 .. Len(u) /\ i + 1 \in Terminators(t)
      BY <1>3, <1>5, <1>7, <3>1
    <3>3. j \in Terminators(t) /\ \A q \in Terminators(t) : j <= q
      BY <3>2, FirstIsLeast
    <3> HIDE DEF i, j
    <3>4. j - 1 \in Terminators(u) /\ j \in Nat
      BY <1>5, <2>1, <3>3
    <3>5. j = i + 1
      BY <3>1, <3>2, <3>3, <3>4
    <3>6. PairOf(t, j) = PairOf(u, i) + 1 /\ PairOf(u, i) \in Nat
      BY <1>2, <3>2, <3>5
    <3>7. FirstPacketLen(t) = PairOf(t, j) - 1 /\ FirstPacketLen(u) = PairOf(u, i) - 1
      BY <2>3, <3>3 DEF FirstPacketLen, i, j
    <3>8. PairOf(u, i) > 1
      BY <3>1, TerminatorFacts
    <3> QED BY <3>6, <3>7, <3>8 DEF Later
  <2> QED BY <2>2, <2>3
<1>8. ASSUME t[1] = LF, PairOf(t, 1) > Len(t) PROVE FirstPacketLen(t) = 0
  <2>1. ASSUME NEW i \in Terminators(t) PROVE FALSE
    <3>1. i \in Nat /\ 1 <= i /\ i < PairOf(t, i) /\ PairOf(t, i) \in Nat /\ PairOf(t, i) <= Len(t)
      BY TerminatorFacts
    <3>2. t[i] = LF
      BY DEF Terminators, TerminatorAt
    <3>3. i = 1 \/ (i = 2 /\ Len(t) = 2)
      BY <1>1, <1>8, <3>1 DEF PairOf
    <3> QED BY <1>1, <1>8, <3>1, <3>3 DEF PairOf
  <2>2. Terminators(t) = {}
    BY <2>1
  <2> QED BY <2>2 DEF FirstPacketLen
<1>9. ASSUME t[1] = LF, PairOf(t, 1) <= Len(t), t[PairOf(t, 1)] = LF
      PROVE  FirstPacketLen(t) = PairOf(t, 1) - 1
  <2>1. 1 \in Terminators(t)
    BY <1>4, <1>9
  <2>2. FirstTerminator(t) \in 1 .. Len(t) /\ FirstTerminator(t) <= 1
    BY <1>5, <2>1, FirstIsLeast
  <2>3. FirstTerminator(t) = 1
    BY <2>2
  <2> QED BY <2>1, <2>3 DEF FirstPacketLen
<1>10. ASSUME t[1] # NUL, t[1] # LF PROVE FirstPacketLen(t) = Later(FirstPacketLen(u))
  BY <1>4, <1>7, <1>10
<1>11. ASSUME t[1] = LF, t[PairOf(t, 1)] # LF PROVE FirstPacketLen(t) = Later(FirstPacketLen(u))
  BY <1>4, <1>7, <1>11, ByteAssumption
<1> QED BY <1>6, <1>8, <1>9, <1>10, <1>11

(* The same at any place of a string.                                      *)
LEMMA AnyByte ==
  ASSUME NEW t \in Seq(Byte), NEW p \in 1 .. Len(t)
  PROVE  /\ PairOf(t, p) \in {p + 1, p + 2}
         /\ t[p] = NUL => LenAt(t, p) = 0
         /\ t[p] # NUL /\ t[p] # LF => LenAt(t, p) = Later(LenAt(t, p + 1))
         /\ t[p] = LF /\ PairOf(t, p) > Len(t) => LenAt(t, p) = 0
         /\ t[p] = LF /\ PairOf(t, p) <= Len(t) /\ t[PairOf(t, p)] = LF
              => LenAt(t, p) = PairOf(t, p) - p
         /\ t[p] = LF /\ PairOf(t, p) <= Len(t) /\ t[PairOf(t, p)] # LF
              => LenAt(t, p) = Later(LenAt(t, p + 1))
<1> DEFINE v == From(t, p)
           u == From(t, p + 1)
           w == From(v, 2)
<1>1. /\ v \in Seq(Byte) /\ Len(v) = Len(t) - p + 1
      /\ \A i \in 1 .. Len(v) : v[i] = t[p + i - 1]
  BY DEF From
<1>2. /\ u \in Seq(Byte) /\ Len(u) = Len(t) - p
      /\ \A i \in 1 .. Len(u) : u[i] = t[p + i]
  BY DEF From
<1> HIDE DEF u, v
<1>3. Len(v) \in Nat /\ Len(v) >= 1
  BY <1>1
<1>4. w \in Seq(Byte) /\ Len(w) = Len(v) - 1 /\ \A i \in 1 .. Len(w) : w[i] = v[i + 1]
  BY <1>1, <1>3 DEF From
<1> HIDE DEF w
<1>5. w = u
  <2>1. Len(w) = Len(u)
    BY <1>1, <1>2, <1>4
  <2>2. ASSUME NEW i \in 1 .. Len(w) PROVE w[i] = u[i]
    <3>1. i + 1 \in 1 .. Len(v) /\ i \in 1 .. Len(u) /\ p + (i + 1) - 1 = p + i
      BY <1>1, <1>3, <1>4, <2>1
    <3> QED BY <1>1, <1>2, <1>4, <3>1
  <2> QED BY <1>2, <1>4, <2>1, <2>2, SeqEqual
<1>6. v # <<>> /\ v[1] = t[p]
  BY <1>1, <1>3
<1>7. PairOf(v, 1) \in {2, 3} /\ PairOf(t, p) = PairOf(v, 1) + p - 1
  <2>1. 1 < Len(v) <=> p < Len(t)
    BY <1>1
  <2>2. 1 < Len(v) => v[2] = t[p + 1]
    BY <1>1
  <2> QED BY <2>1, <2>2 DEF PairOf
<1>8. PairOf(v, 1) <= Len(v) => v[PairOf(v, 1)] = t[PairOf(t, p)]
  <2> DEFINE q == PairOf(v, 1)
  <2>1. q \in {2, 3} /\ PairOf(t, p) = p + q - 1
    BY <1>7
  <2> HIDE DEF q
  <2>2. q <= Len(v) => v[q] = t[p + q - 1]
    BY <1>1, <1>3, <2>1
  <2> QED BY <2>1, <2>2 DEF q
<1>9. PairOf(v, 1) <= Len(v) <=> PairOf(t, p) <= Len(t)
  BY <1>1, <1>7
<1>10. LenAt(t, p) = FirstPacketLen(v) /\ LenAt(t, p + 1) = FirstPacketLen(u)
  BY DEF LenAt, u, v
<1>11. /\ v[1] = NUL => FirstPacketLen(v) = 0
       /\ v[1] # NUL /\ v[1] # LF => FirstPacketLen(v) = Later(FirstPacketLen(u))
       /\ v[1] = LF /\ PairOf(v, 1) > Len(v) => FirstPacketLen(v) = 0
       /\ v[1] = LF /\ PairOf(v, 1) <= Len(v) /\ v[PairOf(v, 1)] = LF
            => FirstPacketLen(v) = PairOf(v, 1) - 1
       /\ v[1] = LF /\ PairOf(v, 1) <= Len(v) /\ v[PairOf(v, 1)] # LF
            => FirstPacketLen(v) = Later(FirstPacketLen(u))
  BY <1>1, <1>2, <1>5, <1>6, FirstByte DEF w
<1>12. PairOf(v, 1) > Len(v) <=> PairOf(t, p) > Len(t)
  BY <1>1, <1>7
<1>13. PairOf(t, p) \in {p + 1, p + 2} /\ PairOf(v, 1) - 1 = PairOf(t, p) - p
  BY <1>7
<1> QED BY <1>6, <1>8, <1>9, <1>10, <1>11, <1>12, <1>13

(* How long a packet can be, and the line feed that it leaves behind.      *)
LEMMA LeftBehind ==
  ASSUME NEW t \in Seq(Byte), NEW p \in 1 .. Len(t) + 1
  PROVE  /\ LenAt(t, p) \in Nat
         /\ LenAt(t, p) # 0 => p + LenAt(t, p) <= Len(t) /\ t[p + LenAt(t, p)] = LF
<1> DEFINE v == From(t, p)
           n == FirstPacketLen(v)
           q == FirstTerminator(v)
<1>1. /\ v \in Seq(Byte) /\ Len(v) = Len(t) - p + 1
      /\ \A i \in 1 .. Len(v) : v[i] = t[p + i - 1]
  BY DEF From
<1> HIDE DEF v
<1>2. n \in Nat /\ (n # 0 => n < Len(v))
  BY <1>1, FirstPacketLenType
<1>3. ASSUME n # 0 PROVE v[n + 1] = LF
  <2>1. Terminators(v) # {} /\ n = PairOf(v, q) - 1
    BY <1>3 DEF FirstPacketLen
  <2>2. q \in Terminators(v)
    BY <1>1, <2>1, FirstIsLeast
  <2>3. v[PairOf(v, q)] = LF /\ PairOf(v, q) \in Nat
    BY <1>1, <2>2, TerminatorFacts DEF Terminators, TerminatorAt
  <2>4. PairOf(v, q) = n + 1
    BY <2>1, <2>3
  <2> QED BY <2>3, <2>4
<1> HIDE DEF n
<1>4. n # 0 => p + n <= Len(t) /\ t[p + n] = LF
  <2> SUFFICES ASSUME n # 0 PROVE p + n <= Len(t) /\ t[p + n] = LF
    OBVIOUS
  <2>1. n + 1 \in 1 .. Len(v) /\ p + (n + 1) - 1 = p + n /\ p + n <= Len(t)
    BY <1>1, <1>2
  <2> QED BY <1>1, <1>3, <2>1
<1> QED BY <1>2, <1>4 DEF LenAt, n, v

(* Nothing is found behind the end.                                        *)
LEMMA NothingAtEnd ==
  ASSUME NEW t \in Seq(Byte)
  PROVE  LenAt(t, Len(t) + 1) = 0
<1>1. Len(t) + 1 \in 1 .. Len(t) + 1 /\ Len(t) \in Nat
  OBVIOUS
<1>2. /\ LenAt(t, Len(t) + 1) \in Nat
      /\ LenAt(t, Len(t) + 1) # 0 => Len(t) + 1 + LenAt(t, Len(t) + 1) <= Len(t)
  BY <1>1, LeftBehind
<1> QED BY <1>1, <1>2

-----------------------------------------------------------------------------
(* The scan of esl_buffer_read_packet.                                     *)

(* What the loop makes of the place p when f says what it makes of those   *)
(* behind it.                                                              *)
ScanStep(t, p, f) ==
  IF p > Len(t) \/ t[p] = NUL THEN 0
  ELSE IF t[p] # LF THEN f[p + 1]
  ELSE IF PairOf(t, p) > Len(t) THEN 0
  ELSE IF t[PairOf(t, p)] = LF THEN PairOf(t, p) - 1
  ELSE f[p + 1]

(* What it should make of it: where the packet ends.                       *)
ScanResult(t, p) == IF LenAt(t, p) = 0 THEN 0 ELSE p - 1 + LenAt(t, p)

LEMMA ScanResultStep ==
  ASSUME NEW t \in Seq(Byte), NEW p \in 1 .. Len(t) + 1, NEW f,
         p <= Len(t) => f[p + 1] = ScanResult(t, p + 1)
  PROVE  ScanStep(t, p, f) = ScanResult(t, p)
<1>1. CASE p = Len(t) + 1
  <2>1. p > Len(t) /\ LenAt(t, p) = 0
    BY <1>1, NothingAtEnd
  <2> QED BY <2>1 DEF ScanStep, ScanResult
<1>2. CASE p # Len(t) + 1
  <2>1. p \in 1 .. Len(t) /\ p + 1 \in 1 .. Len(t) + 1 /\ ~(p > Len(t))
    BY <1>2
  <2>2. LenAt(t, p) \in Nat /\ LenAt(t, p + 1) \in Nat
    BY <2>1, LeftBehind
  <2>3. f[p + 1] = IF LenAt(t, p + 1) = 0 THEN 0 ELSE p + LenAt(t, p + 1)
    <3>1. p + 1 - 1 = p
      OBVIOUS
    <3> QED BY <2>1, <3>1 DEF ScanResult
  <2>4. ASSUME LenAt(t, p) = Later(LenAt(t, p + 1)) PROVE f[p + 1] = ScanResult(t, p)
    BY <2>2, <2>3, <2>4 DEF ScanResult, Later
  <2>5. CASE t[p] = NUL
    BY <2>1, <2>5, AnyByte DEF ScanStep, ScanResult
  <2>6. CASE t[p] # NUL /\ t[p] # LF
    BY <2>1, <2>4, <2>6, AnyByte DEF ScanStep
  <2>7. CASE t[p] = LF /\ PairOf(t, p) > Len(t)
    BY <2>1, <2>7, AnyByte, ByteAssumption DEF ScanStep, ScanResult
  <2>8. CASE t[p] = LF /\ ~(PairOf(t, p) > Len(t)) /\ t[PairOf(t, p)] # LF
    <3>1. PairOf(t, p) <= Len(t)
      BY <2>1, <2>8, AnyByte
    <3> QED BY <2>1, <2>4, <2>8, <3>1, AnyByte, ByteAssumption DEF ScanStep
  <2>9. CASE t[p] = LF /\ ~(PairOf(t, p) > Len(t)) /\ t[PairOf(t, p)] = LF
    <3>1. PairOf(t, p) <= Len(t) /\ PairOf(t, p) \in {p + 1, p + 2}
      BY <2>1, <2>9, AnyByte
    <3>2. LenAt(t, p) = PairOf(t, p) - p
      BY <2>1, <2>9, <3>1, AnyByte
    <3>3. ScanResult(t, p) = PairOf(t, p) - 1
      BY <3>1, <3>2 DEF ScanResult
    <3> QED BY <2>1, <2>9, <3>3, ByteAssumption DEF ScanStep
  <2> QED BY <2>5, <2>6, <2>7, <2>8, <2>9
<1> QED BY <1>1, <1>2

(* The loop stops where the first packet ends.                             *)
LEMMA ScanFinds ==
  ASSUME NEW t \in Seq(Byte)
  PROVE  ScanLoop(t) = FirstPacketLen(t)
<1> DEFINE Raw(f) ==
      [p \in Nat |->
         IF p > Len(t) \/ t[p] = NUL THEN 0
         ELSE IF t[p] # LF THEN f[p + 1]
         ELSE IF PairOf(t, p) > Len(t) THEN 0
         ELSE IF t[PairOf(t, p)] = LF THEN PairOf(t, p) - 1
         ELSE f[p + 1]]
           d == CHOOSE f : f = Raw(f)
<1>1. ScanLoop(t) = d[1]
  BY Zenon DEF ScanLoop
<1>2. ASSUME NEW f, NEW p \in Nat PROVE Raw(f)[p] = ScanStep(t, p, f)
  BY Zenon DEF ScanStep
<1>3. ASSUME NEW f PROVE Raw(f) = [p \in Nat |-> Raw(f)[p]]
  BY Zenon
(* There is a function that satisfies the equation of the loop.            *)
<1>4. \E f : f = Raw(f)
  <2> DEFINE g == [p \in Nat |-> IF p \in 1 .. Len(t) + 1 THEN ScanResult(t, p) ELSE 0]
             f == [p \in Nat |-> ScanStep(t, p, g)]
  <2>1. \A p \in Nat : f[p] = ScanStep(t, p, g)
    BY Zenon
  <2>2. \A p \in 1 .. Len(t) + 1 : g[p] = ScanResult(t, p)
    OBVIOUS
  <2>3. f = [p \in Nat |-> f[p]]
    BY Zenon
  <2> HIDE DEF f, g
  <2>4. ASSUME NEW p \in 1 .. Len(t) + 1 PROVE f[p] = g[p]
    <3>1. p <= Len(t) => g[p + 1] = ScanResult(t, p + 1)
      BY <2>2
    <3>2. ScanStep(t, p, g) = ScanResult(t, p)
      BY <3>1, ScanResultStep
    <3> QED BY <2>1, <2>2, <3>2
  <2>5. ASSUME NEW p \in Nat PROVE f[p] = ScanStep(t, p, f)
    <3>1. CASE p > Len(t)
      BY <2>1, <3>1 DEF ScanStep
    <3>2. CASE ~(p > Len(t))
      <4>1. p + 1 \in 1 .. Len(t) + 1
        BY <3>2
      <4>2. f[p + 1] = g[p + 1]
        BY <2>4, <4>1
      <4> QED BY <2>1, <4>2 DEF ScanStep
    <3> QED BY <3>1, <3>2
  <2> HIDE DEF Raw
  <2>6. f = Raw(f)
    BY <1>2, <1>3, <2>3, <2>5
  <2> QED BY <2>6
<1>5. d = Raw(d)
  <2> HIDE DEF Raw
  <2> QED BY <1>4
<1> HIDE DEF Raw, d
<1>6. \A p \in Nat : d[p] = ScanStep(t, p, d)
  BY <1>2, <1>5
(* It is what it should be, from the end to the start.                     *)
<1> DEFINE n == Len(t)
           G == {k \in 0 .. n : d[k + 1] = ScanResult(t, k + 1)}
<1>7. ASSUME NEW k \in 0 .. n, (k + 1 .. n) \subseteq G PROVE k \in G
  <2>1. k + 1 \in 1 .. Len(t) + 1 /\ k + 1 \in Nat
    OBVIOUS
  <2>2. k + 1 <= Len(t) => d[k + 1 + 1] = ScanResult(t, k + 1 + 1)
    BY <1>7
  <2> DEFINE p == k + 1
  <2>3. p \in 1 .. Len(t) + 1 /\ p \in Nat /\ (p <= Len(t) => d[p + 1] = ScanResult(t, p + 1))
    BY <2>1, <2>2
  <2> HIDE DEF p
  <2>4. d[p] = ScanResult(t, p)
    BY <1>6, <2>3, ScanResultStep
  <2> QED BY <2>4 DEF p
<1>8. G = 0 .. n
  <2>1. n \in Nat /\ G \in SUBSET (0 .. n)
    OBVIOUS
  <2> HIDE DEF G, n
  <2> QED BY <1>7, <2>1, FromTheEnd
<1>9. d[1] = ScanResult(t, 1)
  <2>1. 0 \in 0 .. n /\ 0 + 1 = 1
    OBVIOUS
  <2> QED BY <1>8, <2>1
<1>10. From(t, 1) = t
  BY SubSeqFull DEF From
<1>11. FirstPacketLen(t) \in Nat
  BY FirstPacketLenType
<1> QED BY <1>1, <1>9, <1>10, <1>11 DEF ScanResult, LenAt

-----------------------------------------------------------------------------
(* Taking packets out of a buffer.                                         *)

(* What a reader gets at k, when f says what it gets further on.           *)
DrainStep(t, keep, k, f) ==
  IF LenAt(t, k + 1) = 0 THEN 0 ELSE 1 + f[k + LenAt(t, k + 1) + 1 - keep]

Drains(t, keep, f) == \A k \in 0 .. Len(t) : f[k] = DrainStep(t, keep, k, f)

(* Where it goes on.                                                       *)
LEMMA DrainGoesOn ==
  ASSUME NEW t \in Seq(Byte), NEW keep \in {0, 1}, NEW k \in 0 .. Len(t), LenAt(t, k + 1) # 0
  PROVE  k + LenAt(t, k + 1) + 1 - keep \in k + 1 .. Len(t)
<1> DEFINE n == LenAt(t, k + 1)
           p == k + 1
<1>1. p \in 1 .. Len(t) + 1
  OBVIOUS
<1> HIDE DEF p
<1>2. LenAt(t, p) \in Nat /\ (LenAt(t, p) # 0 => p + LenAt(t, p) <= Len(t))
  BY <1>1, LeftBehind
<1>3. n \in Nat /\ k + 1 + n <= Len(t)
  BY <1>2 DEF p
<1> HIDE DEF n
<1>4. n # 0
  BY DEF n
<1>5. k + n + 1 - keep \in k + 1 .. Len(t)
  BY <1>3, <1>4
<1> QED BY <1>5 DEF n

(* Reads is what a function does at 0 that satisfies its equation.         *)
LEMMA ReadsBy ==
  ASSUME NEW t \in Seq(Byte), NEW keep \in {0, 1}
  PROVE  \E f : Reads(t, keep) = f[0] /\ Drains(t, keep, f)
<1> DEFINE Raw(f) ==
      [k \in 0 .. Len(t) |->
        LET n == FirstPacketLen(From(t, k + 1))
        IN IF n = 0 THEN 0 ELSE 1 + f[k + n + 1 - keep]]
           d == CHOOSE f : f = Raw(f)
<1>1. Reads(t, keep) = d[0]
  BY Zenon DEF Reads
<1>2. ASSUME NEW f, NEW k \in 0 .. Len(t) PROVE Raw(f)[k] = DrainStep(t, keep, k, f)
  BY Zenon DEF DrainStep, LenAt
<1>3. ASSUME NEW f PROVE Raw(f) = [k \in 0 .. Len(t) |-> Raw(f)[k]]
  BY Zenon
<1> DEFINE n == Len(t)
           Upto(m, f) == \A k \in m .. n : f[k] = DrainStep(t, keep, k, f)
           G == {m \in 0 .. n : \E f : Upto(m, f)}
<1>4. ASSUME NEW m \in 0 .. n, (m + 1 .. n) \subseteq G PROVE m \in G
  <2>1. \E f : \A k \in m + 1 .. n : f[k] = DrainStep(t, keep, k, f)
    <3>1. CASE m = n
      BY <3>1
    <3>2. CASE m # n
      <4>1. m + 1 \in m + 1 .. n
        BY <3>2
      <4> QED BY <1>4, <4>1
    <3> QED BY <3>1, <3>2
  <2>2. PICK f : \A k \in m + 1 .. n : f[k] = DrainStep(t, keep, k, f)
    BY <2>1
  <2> DEFINE g == [k \in 0 .. n |-> DrainStep(t, keep, k, f)]
  <2>3. \A k \in 0 .. n : g[k] = DrainStep(t, keep, k, f)
    BY Zenon
  <2> HIDE DEF g
  <2>4. ASSUME NEW k \in m .. n PROVE g[k] = DrainStep(t, keep, k, g)
    <3>1. k \in 0 .. n /\ k \in 0 .. Len(t)
      OBVIOUS
    <3>2. CASE LenAt(t, k + 1) # 0
      <4> DEFINE j == k + LenAt(t, k + 1) + 1 - keep
      <4>1. j \in k + 1 .. Len(t)
        BY <3>1, <3>2, DrainGoesOn
      <4> HIDE DEF j
      <4>2. j \in m + 1 .. n /\ j \in 0 .. n
        BY <4>1
      <4>3. g[j] = f[j]
        BY <2>2, <2>3, <4>2
      <4> QED BY <2>3, <3>1, <4>3 DEF DrainStep, j
    <3>3. CASE LenAt(t, k + 1) = 0
      BY <2>3, <3>1, <3>3 DEF DrainStep
    <3> QED BY <3>2, <3>3
  <2> QED BY <2>4
<1>5. G = 0 .. n
  <2>1. n \in Nat /\ G \in SUBSET (0 .. n)
    OBVIOUS
  <2> HIDE DEF G, n
  <2> QED BY <1>4, <2>1, FromTheEnd
<1>6. \E f : f = Raw(f)
  <2>1. 0 \in G
    BY <1>5
  <2>2. PICK f : \A k \in 0 .. n : f[k] = DrainStep(t, keep, k, f)
    BY <2>1
  <2> DEFINE g == [k \in 0 .. Len(t) |-> f[k]]
  <2>3. \A k \in 0 .. Len(t) : g[k] = f[k]
    OBVIOUS
  <2>4. g = [k \in 0 .. Len(t) |-> g[k]]
    BY Zenon
  <2> HIDE DEF g
  <2>5. ASSUME NEW k \in 0 .. Len(t) PROVE g[k] = DrainStep(t, keep, k, g)
    <3>1. CASE LenAt(t, k + 1) # 0
      <4> DEFINE j == k + LenAt(t, k + 1) + 1 - keep
      <4>1. j \in k + 1 .. Len(t)
        BY <3>1, DrainGoesOn
      <4> HIDE DEF j
      <4>2. j \in 0 .. Len(t)
        BY <4>1
      <4> QED BY <2>2, <2>3, <4>2 DEF DrainStep, j
    <3>2. CASE LenAt(t, k + 1) = 0
      BY <2>2, <2>3, <3>2 DEF DrainStep
    <3> QED BY <3>1, <3>2
  <2> HIDE DEF Raw
  <2>6. g = Raw(g)
    BY <1>2, <1>3, <2>4, <2>5
  <2> QED BY <2>6
<1>7. d = Raw(d)
  <2> HIDE DEF Raw
  <2> QED BY <1>6
<1> HIDE DEF Raw, d
<1>8. \A k \in 0 .. Len(t) : d[k] = DrainStep(t, keep, k, d)
  BY <1>2, <1>7
<1> QED BY <1>1, <1>8 DEF Drains

(* The packets a reader gets are a natural number.                         *)
LEMMA DrainType ==
  ASSUME NEW t \in Seq(Byte), NEW keep \in {0, 1}, NEW f, Drains(t, keep, f)
  PROVE  \A k \in 0 .. Len(t) : f[k] \in Nat
<1> DEFINE n == Len(t)
           G == {k \in 0 .. n : f[k] \in Nat}
<1>1. ASSUME NEW k \in 0 .. n, (k + 1 .. n) \subseteq G PROVE k \in G
  <2>1. f[k] = DrainStep(t, keep, k, f)
    BY DEF Drains
  <2>2. CASE LenAt(t, k + 1) # 0
    <3> DEFINE j == k + LenAt(t, k + 1) + 1 - keep
    <3>1. j \in k + 1 .. n
      BY <2>2, DrainGoesOn
    <3> HIDE DEF j
    <3>2. f[j] \in Nat
      BY <1>1, <3>1
    <3>3. f[k] = 1 + f[j]
      BY <2>1, <2>2 DEF DrainStep, j
    <3> QED BY <3>2, <3>3
  <2>3. CASE LenAt(t, k + 1) = 0
    BY <2>1, <2>3 DEF DrainStep
  <2> QED BY <2>2, <2>3
<1>2. G = 0 .. n
  <2>1. n \in Nat /\ G \in SUBSET (0 .. n)
    OBVIOUS
  <2> HIDE DEF G, n
  <2> QED BY <1>1, <2>1, FromTheEnd
<1> QED BY <1>2

(* A reader of the whole string sees at a byte that begins no terminator   *)
(* what it sees behind it.                                                 *)
LEMMA DrainSkips ==
  ASSUME NEW t \in Seq(Byte), NEW keep \in {0, 1}, NEW f, Drains(t, keep, f),
         NEW k \in 0 .. Len(t) - 1, LenAt(t, k + 1) = Later(LenAt(t, k + 2))
  PROVE  f[k] = f[k + 1]
<1> DEFINE l == k + 1
           m == LenAt(t, k + 2)
<1>1. l \in 0 .. Len(t) /\ k \in 0 .. Len(t) /\ l + 1 = k + 2
  OBVIOUS
<1>2. f[k] = DrainStep(t, keep, k, f) /\ f[l] = DrainStep(t, keep, l, f)
  BY <1>1 DEF Drains
<1>3. m \in Nat
  <2> DEFINE p == k + 2
  <2>1. p \in 1 .. Len(t) + 1
    OBVIOUS
  <2> HIDE DEF p
  <2> QED BY <2>1, LeftBehind DEF p
<1>4. LenAt(t, k + 1) = (IF m = 0 THEN 0 ELSE m + 1) /\ LenAt(t, l + 1) = m
  BY <1>1 DEF Later
<1> HIDE DEF m
<1>5. CASE m = 0
  <2>1. f[k] = 0 /\ f[l] = 0
    BY <1>2, <1>4, <1>5 DEF DrainStep
  <2> QED BY <2>1
<1>6. CASE m # 0
  <2>1. m + 1 # 0
    BY <1>3
  <2>2. f[k] = 1 + f[k + (m + 1) + 1 - keep]
    BY <1>2, <1>4, <1>6, <2>1 DEF DrainStep
  <2>3. f[l] = 1 + f[l + m + 1 - keep]
    <3> HIDE DEF l
    <3> QED BY <1>2, <1>4, <1>6 DEF DrainStep
  <2>4. k + (m + 1) + 1 - keep = l + m + 1 - keep
    BY <1>3
  <2> QED BY <2>2, <2>3, <2>4
<1> QED BY <1>5, <1>6

-----------------------------------------------------------------------------
(* The count of esl_buffer_packet_count.                                   *)
CountStep(t, p, f) ==
  IF p > Len(t) \/ t[p] = NUL THEN 0
  ELSE IF t[p] # LF THEN f[p + 1]
  ELSE IF PairOf(t, p) > Len(t) THEN 0
  ELSE IF t[PairOf(t, p)] = LF THEN 1 + f[PairOf(t, p) + 1]
  ELSE f[p + 1]

(* The loop counts at p what a reader that takes whole packets gets when p *)
(* is the first byte it has not read.                                      *)
LEMMA CountStepReads ==
  ASSUME NEW t \in Seq(Byte), NEW b, Drains(t, 0, b), NEW p \in 1 .. Len(t) + 1, NEW f,
         \A q \in p + 1 .. Len(t) + 1 : f[q] = b[q - 1]
  PROVE  CountStep(t, p, f) = b[p - 1]
<1> DEFINE k == p - 1
<1>0. k \in 0 .. Len(t) /\ k + 1 = p
  OBVIOUS
<1>1. b[k] = DrainStep(t, 0, k, b)
  BY <1>0 DEF Drains
<1>2. CASE p = Len(t) + 1
  <2>1. p > Len(t) /\ LenAt(t, k + 1) = 0
    BY <1>2, NothingAtEnd
  <2> QED BY <1>1, <2>1 DEF CountStep, DrainStep
<1>3. CASE p # Len(t) + 1
  <2>1. p \in 1 .. Len(t) /\ ~(p > Len(t)) /\ p + 1 \in p + 1 .. Len(t) + 1 /\ p + 1 - 1 = p
    BY <1>3
  <2>2. f[p + 1] = b[p]
    BY <2>1
  <2>3. ASSUME LenAt(t, p) = Later(LenAt(t, p + 1)) PROVE f[p + 1] = b[p - 1]
    <3>1. k \in 0 .. Len(t) - 1 /\ k + 1 = p /\ k + 2 = p + 1
      BY <2>1
    <3> HIDE DEF k
    <3>2. b[k] = b[k + 1]
      BY <2>3, <3>1, DrainSkips
    <3> QED BY <2>2, <3>1, <3>2 DEF k
  <2>4. ASSUME LenAt(t, p) = 0 PROVE b[p - 1] = 0
    BY <1>0, <1>1, <2>4 DEF DrainStep
  <2>5. CASE t[p] = NUL
    BY <2>1, <2>4, <2>5, AnyByte DEF CountStep
  <2>6. CASE t[p] # NUL /\ t[p] # LF
    BY <2>1, <2>3, <2>6, AnyByte DEF CountStep
  <2>7. CASE t[p] = LF /\ PairOf(t, p) > Len(t)
    BY <2>1, <2>4, <2>7, AnyByte, ByteAssumption DEF CountStep
  <2>8. CASE t[p] = LF /\ ~(PairOf(t, p) > Len(t)) /\ t[PairOf(t, p)] # LF
    <3>1. PairOf(t, p) <= Len(t)
      BY <2>1, <2>8, AnyByte
    <3> QED BY <2>1, <2>3, <2>8, <3>1, AnyByte, ByteAssumption DEF CountStep
  <2>9. CASE t[p] = LF /\ ~(PairOf(t, p) > Len(t)) /\ t[PairOf(t, p)] = LF
    <3> DEFINE r == PairOf(t, p)
    <3>1. r <= Len(t) /\ r \in {p + 1, p + 2} /\ LenAt(t, p) = r - p
      <4>1. PairOf(t, p) <= Len(t)
        BY <2>1, <2>9, AnyByte
      <4> QED BY <2>1, <2>9, <4>1, AnyByte
    <3>2. CountStep(t, p, f) = 1 + f[r + 1]
      BY <2>1, <2>9, ByteAssumption DEF CountStep
    <3> HIDE DEF r
    <3>3. r + 1 \in p + 1 .. Len(t) + 1 /\ r + 1 - 1 = r
      BY <3>1
    <3> DEFINE q == r + 1
    <3>4. q \in p + 1 .. Len(t) + 1 /\ q - 1 = r
      BY <3>1
    <3>5. f[q] = b[q - 1]
      <4> HIDE DEF q
      <4> QED BY <3>4
    <3>6. f[r + 1] = b[r]
      BY <3>4, <3>5
    <3>7. LenAt(t, k + 1) # 0 /\ k + LenAt(t, k + 1) + 1 - 0 = r
      BY <1>0, <3>1
    <3>8. b[k] = 1 + b[r]
      BY <1>1, <3>7 DEF DrainStep
    <3> QED BY <3>2, <3>6, <3>8
  <2> QED BY <2>5, <2>6, <2>7, <2>8, <2>9
<1> QED BY <1>2, <1>3

LEMMA CountIsReads ==
  ASSUME NEW t \in Seq(Byte), NEW b, Drains(t, 0, b)
  PROVE  CountLoop(t) = b[0]
<1> DEFINE Raw(f) ==
      [p \in Nat |->
         IF p > Len(t) \/ t[p] = NUL THEN 0
         ELSE IF t[p] # LF THEN f[p + 1]
         ELSE IF PairOf(t, p) > Len(t) THEN 0
         ELSE IF t[PairOf(t, p)] = LF THEN 1 + f[PairOf(t, p) + 1]
         ELSE f[p + 1]]
           d == CHOOSE f : f = Raw(f)
           n == Len(t)
<1>1. CountLoop(t) = d[1]
  BY Zenon DEF CountLoop
<1>2. ASSUME NEW f, NEW p \in Nat PROVE Raw(f)[p] = CountStep(t, p, f)
  BY Zenon DEF CountStep
<1>3. ASSUME NEW f PROVE Raw(f) = [p \in Nat |-> Raw(f)[p]]
  BY Zenon
(* There is a function that satisfies the equation of the loop.            *)
<1>4. \E f : f = Raw(f)
  <2> DEFINE g == [p \in Nat |-> IF p \in 1 .. n + 1 THEN b[p - 1] ELSE 0]
             f == [p \in Nat |-> CountStep(t, p, g)]
  <2>1. \A p \in Nat : f[p] = CountStep(t, p, g)
    BY Zenon
  <2>2. \A p \in 1 .. n + 1 : g[p] = b[p - 1]
    OBVIOUS
  <2>3. f = [p \in Nat |-> f[p]]
    BY Zenon
  <2> HIDE DEF f, g
  <2>4. ASSUME NEW p \in 1 .. n + 1 PROVE f[p] = g[p]
    <3>1. \A q \in p + 1 .. Len(t) + 1 : g[q] = b[q - 1]
      BY <2>2
    <3>2. CountStep(t, p, g) = b[p - 1]
      BY <3>1, CountStepReads
    <3> QED BY <2>1, <2>2, <3>2
  <2>5. ASSUME NEW p \in Nat PROVE f[p] = CountStep(t, p, f)
    <3>1. CASE p > Len(t)
      BY <2>1, <3>1 DEF CountStep
    <3>2. CASE ~(p > Len(t))
      <4>1. p + 1 \in 1 .. n + 1
        BY <3>2
      <4>2. f[p + 1] = g[p + 1]
        BY <2>4, <4>1
      <4> DEFINE q == PairOf(t, p)
      <4>3. q \in {p + 1, p + 2}
        BY DEF PairOf
      <4> HIDE DEF q
      <4>4. ~(q > Len(t)) => f[q + 1] = g[q + 1]
        <5> SUFFICES ASSUME ~(q > Len(t)) PROVE f[q + 1] = g[q + 1]
          OBVIOUS
        <5>1. q + 1 \in 1 .. n + 1
          BY <3>2, <4>3
        <5> QED BY <2>4, <5>1
      <4> QED BY <2>1, <4>2, <4>4 DEF CountStep, q
    <3> QED BY <3>1, <3>2
  <2> HIDE DEF Raw
  <2>6. f = Raw(f)
    BY <1>2, <1>3, <2>3, <2>5
  <2> QED BY <2>6
<1>5. d = Raw(d)
  <2> HIDE DEF Raw
  <2> QED BY <1>4
<1> HIDE DEF Raw, d
<1>6. \A p \in Nat : d[p] = CountStep(t, p, d)
  BY <1>2, <1>5
<1> DEFINE G == {k \in 0 .. n : d[k + 1] = b[k]}
<1>7. ASSUME NEW k \in 0 .. n, (k + 1 .. n) \subseteq G PROVE k \in G
  <2> DEFINE p == k + 1
  <2>1. p \in 1 .. Len(t) + 1 /\ p \in Nat /\ p - 1 = k
    OBVIOUS
  <2>2. ASSUME NEW q \in p + 1 .. Len(t) + 1 PROVE d[q] = b[q - 1]
    <3> DEFINE j == q - 1
    <3>1. j \in k + 1 .. n /\ j + 1 = q
      OBVIOUS
    <3> HIDE DEF j
    <3>2. d[j + 1] = b[j]
      BY <1>7, <3>1
    <3> QED BY <3>1, <3>2 DEF j
  <2> HIDE DEF p
  <2>3. d[p] = b[p - 1]
    BY <1>6, <2>1, <2>2, CountStepReads
  <2> QED BY <2>1, <2>3 DEF p
<1>8. G = 0 .. n
  <2>1. n \in Nat /\ G \in SUBSET (0 .. n)
    OBVIOUS
  <2> HIDE DEF G, n
  <2> QED BY <1>7, <2>1, FromTheEnd
<1>9. d[0 + 1] = b[0]
  BY <1>8
<1> QED BY <1>1, <1>9

(* A reader that leaves the last line feed of each packet gets at least    *)
(* the packets there are, and at most one more for each.  At such a line   *)
(* feed, k, the bounds are those of the packets behind it, and one more.   *)
LEMMA ReaderBounds ==
  ASSUME NEW t \in Seq(Byte), NEW a, NEW b, Drains(t, 1, a), Drains(t, 0, b)
  PROVE  b[0] <= a[0] /\ a[0] <= 2 * b[0]
<1> DEFINE n == Len(t)
           Between(k) == b[k] <= a[k] /\ a[k] <= 2 * b[k]
           AfterLF(k) == k < n /\ t[k + 1] = LF => b[k + 1] <= a[k] /\ a[k] <= 2 * b[k + 1] + 1
           G == {k \in 0 .. n : Between(k) /\ AfterLF(k)}
<1>1. \A k \in 0 .. n : a[k] \in Nat /\ b[k] \in Nat
  BY DrainType
<1>2. ASSUME NEW k \in 0 .. n, (k + 1 .. n) \subseteq G PROVE k \in G
  <2> DEFINE p == k + 1
             m == LenAt(t, p)
  <2>1. a[k] = DrainStep(t, 1, k, a) /\ b[k] = DrainStep(t, 0, k, b)
    BY DEF Drains
  <2>2. p \in 1 .. Len(t) + 1
    OBVIOUS
  <2>3. m \in Nat /\ (m # 0 => p + m <= Len(t) /\ t[p + m] = LF)
    <3> HIDE DEF p
    <3> QED BY <2>2, LeftBehind
  <2>4. CASE m = 0
    <3>1. a[k] = 0 /\ b[k] = 0
      BY <2>1, <2>4 DEF DrainStep
    <3>2. AfterLF(k)
      <4> SUFFICES ASSUME k < n, t[p] = LF PROVE b[p] = 0
        BY <3>1
      <4>1. p \in 1 .. Len(t) /\ p \in 0 .. Len(t) /\ Len(t) \in Nat
        OBVIOUS
      <4>2. LenAt(t, p + 1) = 0
        <5> DEFINE q == p + 1
        <5>1. q \in 1 .. Len(t) + 1
          BY <4>1
        <5> HIDE DEF q
        <5>2. LenAt(t, q) \in Nat /\ (LenAt(t, q) # 0 => q + LenAt(t, q) <= Len(t))
          BY <5>1, LeftBehind
        <5> HIDE DEF p
        <5>3. CASE PairOf(t, p) > Len(t)
          <6>1. PairOf(t, p) \in {p + 1, p + 2}
            BY <4>1, AnyByte
          <6>2. q + 1 > Len(t)
            BY <4>1, <5>3, <6>1 DEF q
          <6> QED BY <4>1, <5>1, <5>2, <6>2 DEF q
        <5>4. CASE ~(PairOf(t, p) > Len(t))
          <6>1. PairOf(t, p) \in {p + 1, p + 2} /\ PairOf(t, p) <= Len(t)
            BY <4>1, <5>4, AnyByte
          <6>2. t[PairOf(t, p)] # LF
            BY <2>4, <4>1, <6>1, AnyByte
          <6>3. LenAt(t, p) = Later(LenAt(t, p + 1))
            BY <4>1, <6>1, <6>2, AnyByte
          <6> QED BY <2>4, <5>2, <6>3 DEF Later, q
        <5> QED BY <5>3, <5>4 DEF q
      <4>3. b[p] = DrainStep(t, 0, p, b)
        BY <4>1 DEF Drains
      <4> QED BY <4>2, <4>3 DEF DrainStep
    <3> QED BY <3>1, <3>2
  <2>5. CASE m # 0
    <3> DEFINE i == k + m
    <3>1. i \in k + 1 .. n /\ i < n /\ i + 1 = p + m /\ i + 1 \in 0 .. n /\ i \in 0 .. n
      BY <2>3, <2>5
    <3>2. a[k] = 1 + a[i] /\ b[k] = 1 + b[i + 1]
      <4>1. k + m + 1 - 1 = i /\ k + m + 1 - 0 = i + 1
        BY <2>3
      <4> HIDE DEF i, m
      <4>2. DrainStep(t, 1, k, a) = 1 + a[k + m + 1 - 1] /\ DrainStep(t, 0, k, b) = 1 + b[k + m + 1 - 0]
        BY <2>5 DEF DrainStep, m
      <4> QED BY <2>1, <4>1, <4>2
    <3>3. Between(i) /\ AfterLF(i)
      BY <1>2, <3>1
    <3>4. b[i + 1] <= a[i] /\ a[i] <= 2 * b[i + 1] + 1
      <4>1. t[i + 1] = LF
        BY <2>3, <2>5, <3>1
      <4> HIDE DEF i
      <4> QED BY <3>1, <3>3, <4>1
    <3>5. a[k] \in Nat /\ b[k] \in Nat /\ a[i] \in Nat /\ b[i] \in Nat /\ b[i + 1] \in Nat
      BY <1>1, <3>1
    <3>6. Between(k)
      BY <3>2, <3>4, <3>5, SMTT(20)
    <3>7. AfterLF(k)
      <4> SUFFICES ASSUME k < n, t[p] = LF PROVE b[p] <= a[k] /\ a[k] <= 2 * b[p] + 1
        OBVIOUS
      <4>1. p \in 1 .. Len(t) /\ p \in 0 .. n /\ p \in k + 1 .. n /\ b[p] \in Nat
        <5>1. p \in 1 .. Len(t) /\ p \in 0 .. n /\ p \in k + 1 .. n
          OBVIOUS
        <5> QED BY <1>1, <5>1
      <4> DEFINE q == PairOf(t, p)
      <4>2. q \in {p + 1, p + 2}
        <5> HIDE DEF p
        <5> QED BY <4>1, AnyByte
      <4>3. q <= Len(t)
        <5>1. ~(q > Len(t))
          <6> HIDE DEF p
          <6> QED BY <2>5, <4>1, AnyByte
        <5> QED BY <4>1, <4>2, <5>1
      <4>4. CASE t[q] # LF
        <5>1. LenAt(t, p) = Later(LenAt(t, p + 1))
          <6> HIDE DEF p
          <6> QED BY <4>1, <4>3, <4>4, AnyByte
        <5>2. k \in 0 .. Len(t) - 1 /\ k + 2 = p + 1
          BY <4>1
        <5>3. a[k] = a[p] /\ b[k] = b[p]
          BY <5>1, <5>2, DrainSkips
        <5>4. Between(p)
          BY <1>2, <4>1
        <5> QED BY <3>5, <4>1, <5>3, <5>4
      <4>5. CASE t[q] = LF
        <5>1. m = q - p
          <6> HIDE DEF p
          <6> QED BY <4>1, <4>3, <4>5, AnyByte
        <5>2. i = q - 1
          BY <4>1, <4>2, <5>1
        <5>3. b[p] = b[i]
          <6>1. CASE q = p + 1
            BY <4>1, <5>2, <6>1
          <6>2. CASE q = p + 2
            <7>1. t[p + 1] = CR /\ p + 1 \in 1 .. Len(t)
              BY <4>1, <4>3, <6>2 DEF PairOf
            <7> DEFINE r == p + 1
            <7>2. LenAt(t, r) = Later(LenAt(t, r + 1))
              <8>1. r \in 1 .. Len(t) /\ t[r] # NUL /\ t[r] # LF
                BY <7>1, ByteAssumption
              <8> HIDE DEF r
              <8> QED BY <8>1, AnyByte
            <7>3. p \in 0 .. Len(t) - 1 /\ r + 1 = p + 2 /\ i = p + 1
              BY <4>1, <5>2, <6>2, <7>1
            <7> HIDE DEF p, i
            <7>4. b[p] = b[p + 1]
              BY <7>2, <7>3, DrainSkips DEF r
            <7> QED BY <7>3, <7>4
          <6> QED BY <4>2, <6>1, <6>2
        <5> QED BY <3>2, <3>3, <3>5, <5>3, SMTT(20)
      <4> QED BY <4>4, <4>5
    <3> QED BY <3>6, <3>7
  <2> QED BY <2>4, <2>5
<1>3. G = 0 .. n
  <2>1. n \in Nat /\ G \in SUBSET (0 .. n)
    OBVIOUS
  <2> HIDE DEF G, n
  <2> QED BY <1>2, <2>1, FromTheEnd
<1>4. 0 \in G
  BY <1>3
<1> QED BY <1>4

-----------------------------------------------------------------------------
(* The two loops agree with what they promise for byte strings of any      *)
(* length: the first packet ends where the scan says, and the count is the *)
(* number of packets that a reader of whole packets gets.                  *)
THEOREM LoopsAlwaysAgree ==
  ASSUME s \in Seq(Byte)
  PROVE  LoopsAgree
<1>1. ScanLoop(s) = FirstPacketLen(s)
  BY ScanFinds
<1>2. PICK b : Reads(s, 0) = b[0] /\ Drains(s, 0, b)
  BY ReadsBy
<1>3. CountLoop(s) = Reads(s, 0)
  BY <1>2, CountIsReads
<1> QED BY <1>1, <1>3 DEF LoopsAgree

(* Whatever is in the buffer, esl_buffer_read_packet, which leaves a line  *)
(* feed behind each packet, gives every packet that was counted and at     *)
(* most one that nobody sent for each of them.                             *)
THEOREM ReaderMissesNone ==
  ASSUME s \in Seq(Byte)
  PROVE  ReadsEveryPacket
<1>1. PICK b : Reads(s, 0) = b[0] /\ Drains(s, 0, b)
  BY ReadsBy
<1>2. PICK a : Reads(s, 1) = a[0] /\ Drains(s, 1, a)
  BY ReadsBy
<1>3. CountLoop(s) = b[0]
  BY <1>1, CountIsReads
<1>4. b[0] <= a[0] /\ a[0] <= 2 * b[0]
  BY <1>1, <1>2, ReaderBounds
<1> QED BY <1>2, <1>3, <1>4 DEF ReadsEveryPacket

(* A stream of bytes that arrives in pieces of any size.                   *)
Arriving == s \in Seq(Byte) /\ [][\E t \in Seq(Byte) : s' = s \o t]_vars

(* A packet that was complete once keeps its length in all that follows.   *)
THEOREM FramingIsStable == Arriving => ChunkIndependent
<1> DEFINE Grows == \E t \in Seq(Byte) : s' = s \o t
<1>1. ASSUME s \in Seq(Byte), [Grows]_vars
      PROVE  /\ s' \in Seq(Byte)
             /\ FirstPacketLen(s) # 0 => FirstPacketLen(s') = FirstPacketLen(s)
  <2>1. CASE UNCHANGED vars
    BY <1>1, <2>1 DEF vars
  <2>2. ASSUME NEW t \in Seq(Byte), s' = s \o t
        PROVE  /\ s' \in Seq(Byte)
               /\ FirstPacketLen(s) # 0 => FirstPacketLen(s') = FirstPacketLen(s)
    <3> DEFINE x == s \o t
    <3>1. x \in Seq(Byte) /\ Begins(s, x)
      BY <1>1 DEF Begins
    <3> HIDE DEF x
    <3>2. FirstPacketLen(s) # 0 => FirstPacketLen(x) = FirstPacketLen(s)
      BY <1>1, <3>1, PacketStays
    <3> QED BY <2>2, <3>1, <3>2 DEF x
  <2> QED BY <1>1, <2>1, <2>2
<1>2. s \in Seq(Byte) /\ [Grows]_vars => (s \in Seq(Byte))'
  BY <1>1
<1>3. ASSUME s \in Seq(Byte), [Grows]_vars
      PROVE  [kind = "packet" /\ FirstPacketLen(s) # 0
                => FirstPacketLen(s') = FirstPacketLen(s)]_vars
  BY <1>1, <1>3
<1> QED BY <1>2, <1>3, PTL DEF Arriving, ChunkIndependent

-----------------------------------------------------------------------------
Char == 1 .. 255

-----------------------------------------------------------------------------
(* One byte.                                                               *)
LEMMA CodedFacts ==
  ASSUME NEW c \in Char
  PROVE  /\ Coded(c) \in Seq(Char) /\ Len(Coded(c)) \in {1, 3}
         /\ ~Unsafe(c) => Coded(c) = <<c>> /\ c # PERCENT
         /\ Unsafe(c) => /\ Len(Coded(c)) = 3 /\ Coded(c)[1] = PERCENT
                         /\ IsHex(Coded(c)[2]) /\ IsHex(Coded(c)[3])
                         /\ 16 * Nibble(Coded(c)[2]) + Nibble(Coded(c)[3]) = c
<1> DEFINE q == c \div 16
           r == c % 16
<1>1. q \in 0 .. 15 /\ r \in 0 .. 15 /\ 16 * q + r = c
  BY DEF Char
<1> HIDE DEF q, r
<1>2. ASSUME NEW d \in 0 .. 15
      PROVE  HexDigit[d] \in Char /\ IsHex(HexDigit[d]) /\ Nibble(HexDigit[d]) = d
  <2>1. HexDigit[d] = IF d < 10 THEN 48 + d ELSE 55 + d
    BY DEF HexDigit
  <2>2. CASE d < 10
    <3>1. HexDigit[d] \in 48 .. 57 /\ HexDigit[d] - 48 = d
      BY <2>1, <2>2
    <3> QED BY <3>1 DEF IsHex, Nibble, Char
  <2>3. CASE ~(d < 10)
    <3>1. HexDigit[d] \in 65 .. 70 /\ HexDigit[d] - 55 = d
      BY <2>1, <2>3
    <3>2. HexDigit[d] \notin 48 .. 57 /\ HexDigit[d] \notin 97 .. 102
      BY <3>1
    <3>3. Nibble(HexDigit[d]) = HexDigit[d] - 55
      BY <3>1, <3>2 DEF Nibble
    <3> QED BY <3>1, <3>3 DEF IsHex, Char
  <2> QED BY <2>2, <2>3
<1>3. Escape(c) = <<PERCENT, HexDigit[q], HexDigit[r]>>
  BY DEF Escape, q, r
<1>4. HexDigit[q] \in Char /\ HexDigit[r] \in Char /\ PERCENT \in Char /\ c \in Char
  <2>1. PERCENT \in Char
    BY DEF PERCENT, Char
  <2> QED BY <1>1, <1>2, <2>1
<1>5. CASE Unsafe(c)
  <2>1. Coded(c) = <<PERCENT, HexDigit[q], HexDigit[r]>>
    BY <1>3, <1>5 DEF Coded
  <2>2. Coded(c) \in Seq(Char) /\ Len(Coded(c)) = 3
    BY <1>4, <2>1
  <2>3. /\ Coded(c)[1] = PERCENT /\ Coded(c)[2] = HexDigit[q] /\ Coded(c)[3] = HexDigit[r]
    BY <2>1
  <2>4. /\ IsHex(HexDigit[q]) /\ IsHex(HexDigit[r])
        /\ Nibble(HexDigit[q]) = q /\ Nibble(HexDigit[r]) = r
    BY <1>1, <1>2
  <2> QED BY <1>1, <1>5, <2>2, <2>3, <2>4
<1>6. CASE ~Unsafe(c)
  <2>1. Coded(c) = <<c>>
    BY <1>6 DEF Coded
  <2>2. c # PERCENT
    BY <1>6 DEF Unsafe, PERCENT
  <2>3. <<c>> \in Seq(Char) /\ Len(<<c>>) = 1
    BY <1>4
  <2> QED BY <1>6, <2>1, <2>2, <2>3
<1> QED BY <1>5, <1>6

-----------------------------------------------------------------------------
(* What stands for the byte at i.                                          *)
Piece(t, i) == Coded(t[i])

LEMMA PieceFacts ==
  ASSUME NEW t \in Seq(Char), NEW i \in 1 .. Len(t)
  PROVE  /\ t[i] \in Char /\ Piece(t, i) \in Seq(Char) /\ Len(Piece(t, i)) \in {1, 3}
         /\ ~Unsafe(t[i]) => /\ Len(Piece(t, i)) = 1 /\ Piece(t, i)[1] = t[i]
                             /\ t[i] # PERCENT
         /\ Unsafe(t[i]) =>
              /\ Len(Piece(t, i)) = 3 /\ Piece(t, i)[1] = PERCENT
              /\ IsHex(Piece(t, i)[2]) /\ IsHex(Piece(t, i)[3])
              /\ 16 * Nibble(Piece(t, i)[2]) + Nibble(Piece(t, i)[3]) = t[i]
<1> DEFINE c == t[i]
<1>1. c \in Char /\ Len(<<c>>) = 1 /\ <<c>>[1] = c
  OBVIOUS
<1> HIDE DEF c
<1> QED BY <1>1, CodedFacts DEF Piece, c

(* The encoding of the first bytes of t, when there is room.               *)
Encodes(t, a) ==
  /\ a \in [0 .. Len(t) -> Seq(Char)]
  /\ a[0] = <<>>
  /\ \A i \in 1 .. Len(t) : a[i] = a[i - 1] \o Coded(t[i])

LEMMA EncodesType ==
  ASSUME NEW t \in Seq(Char), NEW a, Encodes(t, a), NEW i \in 0 .. Len(t)
  PROVE  a[i] \in Seq(Char) /\ Len(a[i]) \in Nat
BY DEF Encodes

Follows(h, i) == i = h + 1

LEMMA EncodesStep ==
  ASSUME NEW t \in Seq(Char), NEW a, Encodes(t, a),
         NEW h \in 0 .. Len(t), NEW i \in 1 .. Len(t), Follows(h, i)
  PROVE  /\ t[i] \in Char /\ Len(a[i]) = Len(a[h]) + Len(Piece(t, i))
         /\ \A x \in 1 .. Len(a[h]) : a[i][x] = a[h][x]
         /\ \A x \in 1 .. Len(Piece(t, i)) : a[i][Len(a[h]) + x] = Piece(t, i)[x]
<1> DEFINE u == a[h]
           v == Piece(t, i)
           w == a[i]
<1>1. t[i] \in Char /\ i - 1 = h
  BY DEF Follows
<1>2. u \in Seq(Char) /\ v \in Seq(Char) /\ w = u \o v
  BY <1>1, EncodesType, PieceFacts DEF Encodes, Piece
<1> HIDE DEF u, v, w
<1>3. /\ Len(w) = Len(u) + Len(v) /\ Len(u) \in Nat /\ Len(v) \in Nat
      /\ \A x \in 1 .. Len(u) + Len(v) : w[x] = IF x <= Len(u) THEN u[x] ELSE v[x - Len(u)]
  BY <1>2, ConcatProperties
<1>4. \A x \in 1 .. Len(u) : w[x] = u[x]
  BY <1>3
<1>5. ASSUME NEW x \in 1 .. Len(v) PROVE w[Len(u) + x] = v[x]
  <2> DEFINE y == Len(u) + x
  <2>1. y \in 1 .. Len(u) + Len(v) /\ ~(y <= Len(u)) /\ y - Len(u) = x
    BY <1>3
  <2> HIDE DEF y
  <2>2. w[y] = v[x]
    BY <1>3, <2>1
  <2> QED BY <2>2 DEF y
<1> QED BY <1>1, <1>3, <1>4, <1>5 DEF u, v, w

(* What was written stays.                                                 *)
LEMMA EncodesGrows ==
  ASSUME NEW t \in Seq(Char), NEW a, Encodes(t, a), NEW i \in 0 .. Len(t),
         NEW j \in i .. Len(t)
  PROVE  Len(a[i]) <= Len(a[j]) /\ \A x \in 1 .. Len(a[i]) : a[j][x] = a[i][x]
<1> DEFINE n == Len(t)
           Kept(m) == Len(a[i]) <= Len(a[m]) /\ \A x \in 1 .. Len(a[i]) : a[m][x] = a[i][x]
           G == {m \in 0 .. n : m >= i => Kept(m)}
<1>0. Len(a[i]) \in Nat
  BY EncodesType
<1>1. ASSUME NEW m \in 0 .. n, (0 .. m - 1) \subseteq G PROVE m \in G
  <2> SUFFICES ASSUME m >= i PROVE Kept(m)
    OBVIOUS
  <2>1. CASE m = i
    BY <1>0, <2>1
  <2>2. CASE m # i
    <3> DEFINE l == m - 1
    <3>0. m \in 1 .. Len(t) /\ l \in 0 .. Len(t) /\ Follows(l, m)
      BY <2>2 DEF Follows
    <3>1. l \in 0 .. m - 1 /\ l >= i
      BY <2>2
    <3>2. Kept(l)
      BY <1>1, <3>1
    <3> HIDE DEF l
    <3>3. /\ Len(a[m]) = Len(a[l]) + Len(Piece(t, m)) /\ t[m] \in Char
          /\ \A x \in 1 .. Len(a[l]) : a[m][x] = a[l][x]
      BY <3>0, EncodesStep
    <3> DEFINE b == Len(a[l])
               c == Len(Piece(t, m))
    <3>4. b \in Nat /\ c \in Nat /\ Len(a[i]) <= b /\ Len(a[m]) = b + c
      BY <3>0, <3>2, <3>3, EncodesType, PieceFacts
    <3> HIDE DEF b, c
    <3>5. Len(a[i]) <= Len(a[m])
      BY <1>0, <3>4
    <3>6. ASSUME NEW x \in 1 .. Len(a[i]) PROVE a[m][x] = a[i][x]
      <4>1. x \in 1 .. Len(a[l])
        BY <1>0, <3>4 DEF b
      <4> QED BY <3>2, <3>3, <4>1
    <3> QED BY <3>5, <3>6
  <2> QED BY <2>1, <2>2
<1>2. G = 0 .. n
  <2>1. n \in Nat /\ G \in SUBSET (0 .. n)
    OBVIOUS
  <2> HIDE DEF G, n
  <2> QED BY <1>1, <2>1, FromTheStart
<1>3. j \in 0 .. n /\ j >= i
  OBVIOUS
<1> HIDE DEF Kept, n
<1>4. Kept(j)
  BY <1>2, <1>3
<1> QED BY <1>4 DEF Kept

(* It takes at most three times the room, and less when a byte stands for  *)
(* itself.                                                                 *)
LEMMA EncodesShort ==
  ASSUME NEW t \in Seq(Char), NEW a, Encodes(t, a), NEW i \in 0 .. Len(t)
  PROVE  /\ Len(a[i]) <= 3 * i
         /\ (\E x \in 1 .. i : ~Unsafe(t[x])) => Len(a[i]) < 3 * i
<1> DEFINE n == Len(t)
           Plain(m) == \E x \in 1 .. m : ~Unsafe(t[x])
           Short(m) == Len(a[m]) <= 3 * m /\ (Plain(m) => Len(a[m]) < 3 * m)
           G == {m \in 0 .. n : Short(m)}
<1>1. ASSUME NEW m \in 0 .. n, (0 .. m - 1) \subseteq G PROVE m \in G
  <2>1. CASE m = 0
    <3>1. a[0] = <<>>
      BY DEF Encodes
    <3> QED BY <2>1, <3>1
  <2>2. CASE m # 0
    <3> DEFINE l == m - 1
    <3>0. m \in 1 .. Len(t) /\ l \in 0 .. Len(t) /\ Follows(l, m)
      BY <2>2 DEF Follows
    <3>1. m = l + 1 /\ l \in 0 .. m - 1
      BY <2>2
    <3>2. Short(l)
      BY <1>1, <3>1
    <3>3. Plain(m) => Plain(l) \/ ~Unsafe(t[m])
      BY <3>1
    <3> HIDE DEF l, Plain
    <3>4. Len(a[m]) = Len(a[l]) + Len(Piece(t, m)) /\ t[m] \in Char
      BY <3>0, EncodesStep
    <3> DEFINE b == Len(a[l])
               c == Len(Piece(t, m))
    <3>5. b \in Nat /\ c \in {1, 3} /\ (~Unsafe(t[m]) => c = 1) /\ Len(a[m]) = b + c
      BY <3>0, <3>4, EncodesType, PieceFacts
    <3>6. b <= 3 * l /\ (Plain(l) => b < 3 * l)
      BY <3>2
    <3> HIDE DEF b, c
    <3>7. l \in Nat /\ m = l + 1
      BY <3>1
    <3>8. b + c <= 3 * m
      BY <3>5, <3>6, <3>7
    <3>9. Plain(m) => b + c < 3 * m
      <4>1. CASE Plain(l)
        BY <3>5, <3>6, <3>7, <4>1
      <4>2. CASE ~Unsafe(t[m])
        BY <3>5, <3>6, <3>7, <4>2
      <4> QED BY <3>3, <4>1, <4>2
    <3> QED BY <3>5, <3>8, <3>9
  <2> QED BY <2>1, <2>2
<1>2. G = 0 .. n
  <2>1. n \in Nat /\ G \in SUBSET (0 .. n)
    OBVIOUS
  <2> HIDE DEF G, n
  <2> QED BY <1>1, <2>1, FromTheStart
<1>3. i \in 0 .. n
  OBVIOUS
<1> HIDE DEF n, Short
<1>4. Short(i)
  BY <1>2, <1>3
<1> QED BY <1>4 DEF Short

(* esl_url_encode stops in front of the first byte that does not fit.      *)
LEMMA EncodedBy ==
  ASSUME NEW t \in Seq(Char), NEW len \in Nat, len # 0
  PROVE  \E a : \E k \in 0 .. Len(t) :
           /\ Encodes(t, a) /\ UrlEncoded(t, len) = a[k]
           /\ \A i \in 0 .. k - 1 : Fits(t[i + 1], Len(a[i]), len - 1)
           /\ k < Len(t) => ~Fits(t[k + 1], Len(a[k]), len - 1)
<1> DEFINE n == Len(t)
           Raw(f) == [i \in 0 .. Len(t) |-> IF i = 0 THEN <<>> ELSE f[i - 1] \o Coded(t[i])]
           a == CHOOSE f : f = Raw(f)
           stops == {i \in 0 .. Len(t) - 1 : ~Fits(t[i + 1], Len(a[i]), len - 1)}
           k == CHOOSE i \in stops \cup {Len(t)} : \A j \in stops : i <= j
<1>1. UrlEncoded(t, len) = a[k]
  BY Zenon DEF UrlEncoded
<1>2. ASSUME NEW f, NEW i \in 0 .. n
      PROVE  Raw(f)[i] = IF i = 0 THEN <<>> ELSE f[i - 1] \o Coded(t[i])
  BY Zenon
<1>3. ASSUME NEW f PROVE Raw(f) = [i \in 0 .. n |-> Raw(f)[i]]
  BY Zenon
<1>4. ASSUME NEW i \in 1 .. n PROVE t[i] \in Char /\ Coded(t[i]) \in Seq(Char) /\ i - 1 \in 0 .. n
  <2>1. t[i] \in Char
    OBVIOUS
  <2> QED BY <2>1, CodedFacts
<1>5. \E f \in [0 .. n -> Seq(Char)] : f = Raw(f)
  <2> DEFINE T == Seq(Char)
             Step(i, f) == IF i = 0 THEN <<>> ELSE f[i - 1] \o Coded(t[i])
             H == [i \in 0 .. n |-> [f \in [0 .. n -> T] |-> Step(i, f)]]
  <2>1. ASSUME NEW i \in 0 .. n, NEW f \in [0 .. n -> T] PROVE Step(i, f) \in T
    <3>1. CASE i = 0
      BY <3>1
    <3>2. CASE i # 0
      <4>1. i \in 1 .. n
        BY <3>2
      <4>2. f[i - 1] \in Seq(Char) /\ Coded(t[i]) \in Seq(Char)
        BY <1>4, <4>1
      <4>3. f[i - 1] \o Coded(t[i]) \in Seq(Char)
        BY <4>2, ConcatProperties
      <4> QED BY <3>2, <4>3
    <3> QED BY <3>1, <3>2
  <2>2. \A i \in 0 .. n : \A f \in [0 .. n -> T] : H[i][f] = Step(i, f)
    BY Zenon
  <2>3. H \in [0 .. n -> [[0 .. n -> T] -> T]]
    <3> HIDE DEF Step, T
    <3> QED BY <2>1
  <2>4. ASSUME NEW i \in 0 .. n, NEW f \in [0 .. n -> T], NEW g \in [0 .. n -> T],
               \A j \in 0 .. i - 1 : f[j] = g[j]
        PROVE  H[i][f] = H[i][g]
    <3>1. CASE i = 0
      BY <2>2, <3>1
    <3>2. CASE i # 0
      <4>1. f[i - 1] = g[i - 1]
        <5>1. i - 1 \in 0 .. i - 1
          BY <3>2
        <5> QED BY <2>4, <5>1
      <4> QED BY <2>2, <4>1
    <3> QED BY <3>1, <3>2
  <2>5. <<>> \in T /\ n \in Nat /\ 0 \in Nat
    OBVIOUS
  <2> HIDE DEF H, T, n, Step
  <2>6. PICK f : Solves(f, 0, n, T, H)
    <3>1. Equation(0, n, T, H)
      BY <2>3 DEF Equation
    <3>2. UsesBefore(0, n, T, H)
      BY <2>4 DEF UsesBefore
    <3> QED BY <2>5, <3>1, <3>2, Upward
  <2>7. ASSUME NEW i \in 0 .. n PROVE f[i] = Raw(f)[i]
    <3>1. f[i] = Step(i, f)
      BY <2>2, <2>6 DEF Solves
    <3> HIDE DEF Raw
    <3> QED BY <1>2, <3>1 DEF Step
  <2> HIDE DEF Raw
  <2>8. f = Raw(f)
    <3>1. f = [i \in 0 .. n |-> f[i]]
      BY <2>6 DEF Solves
    <3> QED BY <1>3, <2>7, <3>1
  <2> QED BY <2>6, <2>8 DEF Solves, T
<1>6. a = Raw(a)
  <2> HIDE DEF Raw
  <2> QED BY <1>5
<1> HIDE DEF Raw, a
<1>7. \A i \in 0 .. n : a[i] = IF i = 0 THEN <<>> ELSE a[i - 1] \o Coded(t[i])
  BY <1>2, <1>6
<1>8. Encodes(t, a)
  <2>0. a = [i \in 0 .. n |-> a[i]]
    BY <1>3, <1>6
  <2> DEFINE G == {i \in 0 .. n : a[i] \in Seq(Char)}
  <2>1. ASSUME NEW i \in 0 .. n, (0 .. i - 1) \subseteq G PROVE i \in G
    <3>1. CASE i = 0
      <4>1. a[i] = <<>> /\ <<>> \in Seq(Char)
        BY <1>7, <3>1
      <4> QED BY <4>1
    <3>2. CASE i # 0
      <4>1. i \in 1 .. n /\ i - 1 \in 0 .. i - 1
        BY <3>2
      <4>2. a[i - 1] \in Seq(Char) /\ Coded(t[i]) \in Seq(Char)
        BY <1>4, <2>1, <4>1
      <4>3. a[i - 1] \o Coded(t[i]) \in Seq(Char)
        BY <4>2, ConcatProperties
      <4> QED BY <1>7, <3>2, <4>3
    <3> QED BY <3>1, <3>2
  <2>2. G = 0 .. n
    <3>1. n \in Nat /\ G \in SUBSET (0 .. n)
      OBVIOUS
    <3> HIDE DEF G, n
    <3> QED BY <2>1, <3>1, FromTheStart
  <2>3. \A i \in 0 .. n : a[i] \in Seq(Char)
    BY <2>2
  <2>4. a \in [0 .. Len(t) -> Seq(Char)]
    BY <2>0, <2>3
  <2>5. a[0] = <<>>
    BY <1>7
  <2>6. ASSUME NEW i \in 1 .. Len(t) PROVE a[i] = a[i - 1] \o Coded(t[i])
    <3>1. i \in 0 .. n /\ i # 0
      OBVIOUS
    <3> QED BY <1>7, <3>1
  <2> QED BY <2>4, <2>5, <2>6 DEF Encodes
<1>9. /\ k \in stops \cup {Len(t)}
      /\ \A j \in stops : k <= j
  <2> DEFINE S == stops \cup {Len(t)}
  <2>1. S \in SUBSET Nat /\ S # {}
    OBVIOUS
  <2>2. \A j \in stops : j \in S
    OBVIOUS
  <2> HIDE DEF stops, S
  <2>3. \E i \in S : \A j \in S : i <= j
    BY <2>1, LeastNatural
  <2>4. \E i \in S : \A j \in stops : i <= j
    BY <2>2, <2>3
  <2> QED BY <2>4 DEF S
<1> HIDE DEF k
<1>10. k \in 0 .. Len(t) /\ (k < Len(t) => k \in stops)
  BY <1>9
<1>11. ASSUME NEW i \in 0 .. k - 1 PROVE Fits(t[i + 1], Len(a[i]), len - 1)
  <2>1. i \in 0 .. Len(t) - 1 /\ ~(k <= i)
    BY <1>10
  <2>2. i \notin stops
    BY <1>9, <2>1
  <2> QED BY <2>1, <2>2
<1> QED BY <1>1, <1>8, <1>10, <1>11

-----------------------------------------------------------------------------
(* The number an escape at i stands for.                                   *)
ByteAt(e, i) == 16 * Nibble(e[i + 1]) + Nibble(e[i + 2])

(* What is decoded from each place of e.                                   *)
Decodes(e, d) ==
  /\ d \in [1 .. Len(e) + 3 -> Seq(Char)]
  /\ \A i \in 1 .. Len(e) + 3 :
       d[i] = IF i > Len(e) THEN <<>>
              ELSE IF EscapeAt(e, i)
              THEN IF ByteAt(e, i) = 0 THEN <<>> ELSE <<ByteAt(e, i)>> \o d[i + 3]
              ELSE <<e[i]>> \o d[i + 1]

LEMMA ByteAtType ==
  ASSUME NEW e \in Seq(Char), NEW i \in 1 .. Len(e), EscapeAt(e, i), ByteAt(e, i) # 0
  PROVE  ByteAt(e, i) \in Char /\ i + 3 \in 1 .. Len(e) + 3
<1>1. i + 2 <= Len(e) /\ IsHex(e[i + 1]) /\ IsHex(e[i + 2])
  BY DEF EscapeAt
<1>2. \A c : IsHex(c) => Nibble(c) \in 0 .. 15
  <2> SUFFICES ASSUME NEW c, IsHex(c) PROVE Nibble(c) \in 0 .. 15
    OBVIOUS
  <2>1. CASE c \in 48 .. 57
    BY <2>1 DEF Nibble
  <2>2. CASE c \in 97 .. 102
    BY <2>2 DEF Nibble
  <2>3. CASE c \in 65 .. 70
    BY <2>3 DEF Nibble
  <2> QED BY <2>1, <2>2, <2>3 DEF IsHex
<1> DEFINE p == Nibble(e[i + 1])
           q == Nibble(e[i + 2])
<1>3. p \in 0 .. 15 /\ q \in 0 .. 15
  BY <1>1, <1>2
<1>4. ByteAt(e, i) = 16 * p + q
  BY DEF ByteAt
<1> HIDE DEF p, q
<1>5. ByteAt(e, i) \in Char
  BY <1>3, <1>4 DEF Char
<1> QED BY <1>1, <1>5

(* esl_url_decode.                                                         *)
LEMMA DecodedBy ==
  ASSUME NEW e \in Seq(Char)
  PROVE  \E d : Decodes(e, d) /\ UrlDecoded(e) = d[1]
<1> DEFINE n == Len(e) + 3
           Step(i, f) ==
             IF i > Len(e) THEN <<>>
             ELSE IF EscapeAt(e, i)
             THEN IF ByteAt(e, i) = 0 THEN <<>> ELSE <<ByteAt(e, i)>> \o f[i + 3]
             ELSE <<e[i]>> \o f[i + 1]
           Raw(f) == [i \in 1 .. n |-> Step(i, f)]
           T == Seq(Char)
           H == [i \in 1 .. n |-> [f \in [1 .. n -> T] |-> Step(i, f)]]
           d == CHOOSE f : f = Raw(f)
<1>1. UrlDecoded(e) = d[1]
  BY Zenon DEF UrlDecoded, ByteAt
<1>2. n \in Nat /\ 1 \in Nat /\ <<>> \in T
  OBVIOUS
<1>3. ASSUME NEW i \in 1 .. n, NEW f, \A j \in i + 1 .. n : f[j] \in T
      PROVE  Step(i, f) \in T
  <2>1. CASE i > Len(e)
    BY <1>2, <2>1
  <2>2. CASE ~(i > Len(e)) /\ EscapeAt(e, i) /\ ByteAt(e, i) = 0
    BY <1>2, <2>2
  <2>3. CASE ~(i > Len(e)) /\ EscapeAt(e, i) /\ ByteAt(e, i) # 0
    <3> DEFINE c == ByteAt(e, i)
               j == i + 3
    <3>1. c \in Char /\ j \in i + 1 .. n
      BY <2>3, ByteAtType
    <3>2. Step(i, f) = <<c>> \o f[j]
      BY <2>3
    <3> HIDE DEF c, j, Step
    <3>3. <<c>> \in Seq(Char) /\ f[j] \in Seq(Char)
      BY <1>3, <3>1
    <3> QED BY <3>2, <3>3, ConcatProperties
  <2>4. CASE ~(i > Len(e)) /\ ~EscapeAt(e, i)
    <3> DEFINE c == e[i]
               j == i + 1
    <3>1. c \in Char /\ j \in i + 1 .. n
      BY <2>4
    <3>2. Step(i, f) = <<c>> \o f[j]
      BY <2>4
    <3> HIDE DEF c, j, Step
    <3>3. <<c>> \in Seq(Char) /\ f[j] \in Seq(Char)
      BY <1>3, <3>1
    <3> QED BY <3>2, <3>3, ConcatProperties
  <2> QED BY <2>1, <2>2, <2>3, <2>4
<1>4. ASSUME NEW i \in 1 .. n, NEW f, NEW g, \A j \in i + 1 .. n : f[j] = g[j]
      PROVE  Step(i, f) = Step(i, g)
  <2>1. CASE i > Len(e)
    BY <2>1
  <2>2. CASE ~(i > Len(e)) /\ EscapeAt(e, i)
    <3>1. i + 3 \in i + 1 .. n
      BY <2>2 DEF EscapeAt
    <3>2. f[i + 3] = g[i + 3]
      BY <1>4, <3>1
    <3> QED BY <2>2, <3>2
  <2>3. CASE ~(i > Len(e)) /\ ~EscapeAt(e, i)
    <3>1. i + 1 \in i + 1 .. n
      BY <2>3
    <3>2. f[i + 1] = g[i + 1]
      BY <1>4, <3>1
    <3> QED BY <2>3, <3>2
  <2> QED BY <2>1, <2>2, <2>3
<1> HIDE DEF Step
<1>5. \A i \in 1 .. n : \A f \in [1 .. n -> T] : H[i][f] = Step(i, f)
  BY Zenon
<1>6. \A i \in 1 .. n : \A f : Raw(f)[i] = Step(i, f)
  BY Zenon
<1>7. \E f \in [1 .. n -> T] : f = Raw(f)
  <2>1. Equation(1, n, T, H)
    <3>1. H \in [1 .. n -> [[1 .. n -> T] -> T]]
      <4>1. ASSUME NEW i \in 1 .. n, NEW f \in [1 .. n -> T] PROVE Step(i, f) \in T
        <5>1. \A j \in i + 1 .. n : f[j] \in T
          OBVIOUS
        <5> QED BY <1>3, <5>1
      <4> HIDE DEF T, n
      <4> QED BY <4>1
    <3> QED BY <3>1 DEF Equation
  <2>2. UsesBehind(1, n, T, H)
    <3> HIDE DEF H
    <3> QED BY <1>4, <1>5 DEF UsesBehind
  <2> HIDE DEF H, T, n
  <2>3. PICK f : Solves(f, 1, n, T, H)
    BY <1>2, <2>1, <2>2, Downward
  <2>4. f \in [1 .. n -> T] /\ \A i \in 1 .. n : f[i] = Step(i, f)
    BY <1>5, <2>3 DEF Solves
  <2>5. f = [i \in 1 .. n |-> f[i]]
    BY <2>4
  <2>6. f = Raw(f)
    BY <2>4, <2>5
  <2> QED BY <2>4, <2>6
<1>8. d = Raw(d)
  <2> HIDE DEF Raw
  <2> QED BY <1>7
<1> HIDE DEF d, H
<1> DEFINE G == {i \in 0 .. n : i # 0 => d[i] \in T}
<1>9. ASSUME NEW i \in 0 .. n, (i + 1 .. n) \subseteq G PROVE i \in G
  <2>1. CASE i = 0
    BY <2>1
  <2>2. CASE i # 0
    <3>1. i \in 1 .. n
      BY <2>2
    <3>2. \A j \in i + 1 .. n : d[j] \in T
      BY <1>9, <3>1
    <3> HIDE DEF n, T, Raw
    <3>3. Step(i, d) \in T
      BY <1>3, <3>1, <3>2
    <3>4. d[i] = Step(i, d)
      BY <1>6, <1>8, <3>1
    <3> QED BY <3>3, <3>4
  <2> QED BY <2>1, <2>2
<1>10. G = 0 .. n
  <2>1. n \in Nat /\ G \in SUBSET (0 .. n)
    OBVIOUS
  <2> HIDE DEF G, n
  <2> QED BY <1>9, <2>1, FromTheEnd
<1>11. \A i \in 1 .. n : d[i] \in T
  <2>1. \A i \in 1 .. n : i \in 0 .. n /\ i # 0
    OBVIOUS
  <2> QED BY <1>10, <2>1
<1>12. d \in [1 .. n -> T]
  <2>1. Raw(d) = [i \in 1 .. n |-> Raw(d)[i]]
    BY Zenon
  <2>2. d = [i \in 1 .. n |-> d[i]]
    <3> HIDE DEF Raw
    <3> QED BY <1>8, <2>1
  <2> HIDE DEF T, n
  <2> QED BY <1>11, <2>2
<1>13. \A i \in 1 .. n : d[i] = Step(i, d)
  <2> HIDE DEF Raw
  <2> QED BY <1>6, <1>8
<1>14. Decodes(e, d)
  BY <1>12, <1>13 DEF Decodes, Step
<1> QED BY <1>1, <1>14

-----------------------------------------------------------------------------
(* The bytes that stand for one byte are decoded to that byte, ...         *)
LEMMA DecodesPiece ==
  ASSUME NEW t \in Seq(Char), NEW a, Encodes(t, a), NEW k \in 0 .. Len(t),
         NEW d, Decodes(a[k], d),
         NEW h \in 0 .. k, NEW i \in 1 .. k, Follows(h, i)
  PROVE  d[Len(a[h]) + 1] = <<t[i]>> \o d[Len(a[i]) + 1]
<1> DEFINE e == a[k]
           b == Len(a[h])
           c == Len(Piece(t, i))
           p == b + 1
<1>1. h \in 0 .. Len(t) /\ i \in 1 .. Len(t) /\ i \in 0 .. Len(t) /\ k \in i .. Len(t)
  OBVIOUS
<1>2. e \in Seq(Char) /\ Len(e) \in Nat /\ b \in Nat
  BY <1>1, EncodesType
<1>3. /\ t[i] \in Char /\ Len(a[i]) = b + c
      /\ \A x \in 1 .. c : a[i][b + x] = Piece(t, i)[x]
  BY <1>1, EncodesStep, SMTT(20)
<1>4. c \in {1, 3}
  BY <1>1, PieceFacts
<1>5. Len(a[i]) <= Len(e) /\ \A x \in 1 .. Len(a[i]) : e[x] = a[i][x]
  BY <1>1, EncodesGrows
<1>6. ASSUME NEW x \in 1 .. c PROVE e[b + x] = Piece(t, i)[x]
  <2> DEFINE y == b + x
  <2> HIDE DEF e, b, c
  <2>1. y \in 1 .. Len(a[i])
    BY <1>2, <1>3, <1>4
  <2> HIDE DEF y
  <2>2. e[y] = a[i][y]
    BY <1>5, <2>1
  <2> QED BY <1>3, <2>2 DEF y
<1>7. \A j \in 1 .. Len(e) + 3 :
        d[j] = IF j > Len(e) THEN <<>>
               ELSE IF EscapeAt(e, j)
               THEN IF ByteAt(e, j) = 0 THEN <<>> ELSE <<ByteAt(e, j)>> \o d[j + 3]
               ELSE <<e[j]>> \o d[j + 1]
  BY DEF Decodes
<1> HIDE DEF e, b, c
<1>8. p \in 1 .. Len(e) + 3 /\ ~(p > Len(e)) /\ p \in Nat
  BY <1>2, <1>3, <1>4, <1>5
<1>9. CASE ~Unsafe(t[i])
  <2>1. c = 1 /\ Piece(t, i)[1] = t[i] /\ t[i] # PERCENT
    BY <1>1, <1>9, PieceFacts DEF c
  <2>2. e[p] = t[i]
    <3>1. 1 \in 1 .. c
      BY <2>1
    <3> QED BY <1>6, <2>1, <3>1
  <2>3. Len(a[i]) + 1 = p + 1
    BY <1>2, <1>3, <2>1
  <2> HIDE DEF p
  <2>4. ~EscapeAt(e, p)
    BY <2>1, <2>2 DEF EscapeAt
  <2>5. d[p] = <<e[p]>> \o d[p + 1]
    BY <1>7, <1>8, <2>4
  <2>6. d[p] = <<t[i]>> \o d[Len(a[i]) + 1]
    BY <2>2, <2>3, <2>5
  <2> QED BY <2>6 DEF p, b
<1>10. CASE Unsafe(t[i])
  <2>1. /\ c = 3 /\ Piece(t, i)[1] = PERCENT
        /\ IsHex(Piece(t, i)[2]) /\ IsHex(Piece(t, i)[3])
        /\ 16 * Nibble(Piece(t, i)[2]) + Nibble(Piece(t, i)[3]) = t[i]
    BY <1>1, <1>10, PieceFacts DEF c
  <2>2. e[p] = Piece(t, i)[1] /\ e[p + 1] = Piece(t, i)[2] /\ e[p + 2] = Piece(t, i)[3]
    <3>1. 1 \in 1 .. c /\ 2 \in 1 .. c /\ 3 \in 1 .. c
      BY <2>1
    <3>2. e[b + 1] = Piece(t, i)[1] /\ e[b + 2] = Piece(t, i)[2] /\ e[b + 3] = Piece(t, i)[3]
      BY <1>6, <3>1
    <3>3. p = b + 1 /\ p + 1 = b + 2 /\ p + 2 = b + 3
      BY <1>2
    <3> QED BY <3>2, <3>3
  <2>3. Len(a[i]) + 1 = p + 3 /\ p + 2 <= Len(e)
    BY <1>2, <1>3, <1>5, <2>1, SMTT(20)
  <2> HIDE DEF p
  <2>4. EscapeAt(e, p)
    BY <2>1, <2>2, <2>3 DEF EscapeAt
  <2>5. ByteAt(e, p) = t[i]
    BY <2>1, <2>2 DEF ByteAt
  <2>6. t[i] # 0
    <3>1. 0 \notin Char
      BY DEF Char
    <3> QED BY <1>3, <3>1
  <2>7. d[p] = <<ByteAt(e, p)>> \o d[p + 3]
    BY <1>7, <1>8, <2>4, <2>5, <2>6
  <2>8. d[p] = <<t[i]>> \o d[Len(a[i]) + 1]
    BY <2>3, <2>5, <2>7
  <2> QED BY <2>8 DEF p, b
<1> QED BY <1>9, <1>10

(* ... and an encoding to what was encoded.                                *)
LEMMA DecodesEncoding ==
  ASSUME NEW t \in Seq(Char), NEW a, Encodes(t, a), NEW k \in 0 .. Len(t)
  PROVE  UrlDecoded(a[k]) = SubSeq(t, 1, k)
<1> DEFINE e == a[k]
<1>1. e \in Seq(Char) /\ Len(e) \in Nat
  BY EncodesType
<1>2. PICK d : Decodes(e, d) /\ UrlDecoded(e) = d[1]
  <2> HIDE DEF e
  <2> QED BY <1>1, DecodedBy
<1> DEFINE Back(i) == d[Len(a[i]) + 1] = SubSeq(t, i + 1, k)
           G == {i \in 0 .. k : Back(i)}
<1>3. ASSUME NEW i \in 0 .. k, (i + 1 .. k) \subseteq G PROVE i \in G
  <2>1. CASE i = k
    <3>1. SubSeq(t, i + 1, k) = <<>>
      BY <2>1
    <3>2. d[Len(e) + 1] = <<>>
      <4> DEFINE j == Len(e) + 1
      <4>1. j \in 1 .. Len(e) + 3 /\ j > Len(e)
        BY <1>1
      <4> HIDE DEF e, j
      <4>2. d[j] = <<>>
        BY <1>2, <4>1 DEF Decodes
      <4> QED BY <4>2 DEF j
    <3> QED BY <2>1, <3>1, <3>2
  <2>2. CASE i # k
    <3> DEFINE l == i + 1
    <3>1. l \in 1 .. k /\ Follows(i, l)
      BY <2>2 DEF Follows
    <3>2. Back(l)
      <4>1. l \in i + 1 .. k
        BY <2>2
      <4> QED BY <1>3, <4>1
    <3> HIDE DEF l
    <3>3. d[Len(a[i]) + 1] = <<t[l]>> \o d[Len(a[l]) + 1]
      BY <1>2, <3>1, DecodesPiece
    <3>4. <<t[l]>> \o SubSeq(t, l + 1, k) = SubSeq(t, l, k)
      <4> DEFINE x == <<t[l]>>
                 y == SubSeq(t, l + 1, k)
                 z == SubSeq(t, l, k)
      <4>1. l \in Nat /\ l >= 1 /\ l <= k /\ k <= Len(t) /\ k \in Nat /\ Len(t) \in Nat
        BY <3>1
      <4>2. x \in Seq(Char) /\ Len(x) = 1 /\ x[1] = t[l]
        BY <4>1
      <4>3. y \in Seq(Char) /\ Len(y) = k - l /\ \A j \in 1 .. k - l : y[j] = t[l + j]
        BY <4>1
      <4>4. z \in Seq(Char) /\ Len(z) = k - l + 1 /\ \A j \in 1 .. k - l + 1 : z[j] = t[l + j - 1]
        BY <4>1
      <4> HIDE DEF x, y, z
      <4>5. /\ x \o y \in Seq(Char) /\ Len(x \o y) = 1 + (k - l)
            /\ \A j \in 1 .. 1 + (k - l) : (x \o y)[j] = IF j <= 1 THEN x[j] ELSE y[j - 1]
        <5>1. /\ x \o y \in Seq(Char) /\ Len(x \o y) = Len(x) + Len(y)
              /\ \A j \in 1 .. Len(x) + Len(y) :
                    (x \o y)[j] = IF j <= Len(x) THEN x[j] ELSE y[j - Len(x)]
          BY <4>2, <4>3, ConcatProperties
        <5> QED BY <4>2, <4>3, <5>1
      <4>6. ASSUME NEW j \in 1 .. k - l + 1 PROVE (x \o y)[j] = z[j]
        <5>1. CASE j = 1
          <6>1. 1 \in 1 .. 1 + (k - l) /\ 1 \in 1 .. k - l + 1 /\ l + 1 - 1 = l
            BY <4>1
          <6> QED BY <4>2, <4>4, <4>5, <5>1, <6>1
        <5>2. CASE j # 1
          <6>1. j - 1 \in 1 .. k - l /\ l + (j - 1) = l + j - 1
            BY <4>1, <5>2
          <6>2. (x \o y)[j] = y[j - 1]
            BY <4>1, <4>5, <5>2
          <6>3. y[j - 1] = t[l + (j - 1)]
            BY <4>3, <6>1
          <6>4. z[j] = t[l + j - 1]
            BY <4>4
          <6> QED BY <6>1, <6>2, <6>3, <6>4
        <5> QED BY <5>1, <5>2
      <4>7. Len(x \o y) = Len(z)
        BY <4>1, <4>4, <4>5
      <4>8. x \o y = z
        BY <4>4, <4>5, <4>6, <4>7, SeqEqual
      <4> QED BY <4>8 DEF x, y, z
    <3> QED BY <3>2, <3>3, <3>4 DEF l
  <2> QED BY <2>1, <2>2
<1>4. G = 0 .. k
  <2>1. k \in Nat /\ G \in SUBSET (0 .. k)
    OBVIOUS
  <2> HIDE DEF G
  <2> QED BY <1>3, <2>1, FromTheEnd
<1>5. Back(0)
  <2>1. 0 \in 0 .. k
    OBVIOUS
  <2> QED BY <1>4, <2>1
<1>6. Len(a[0]) + 1 = 1 /\ 0 + 1 = 1
  <2>1. a[0] = <<>>
    BY DEF Encodes
  <2> QED BY <2>1
<1> QED BY <1>2, <1>5, <1>6

-----------------------------------------------------------------------------
(* What is left of t after encoding and decoding when the buffer has len   *)
(* bytes: its first k bytes, and if these are not all, the byte at k + 1   *)
(* did not fit behind x bytes.                                             *)
LEMMA RoundTrip ==
  ASSUME NEW t \in Seq(Char), NEW len \in Nat, len # 0
  PROVE  /\ Len(UrlEncoded(t, len)) < len
         /\ \E k \in 0 .. Len(t) :
              /\ UrlDecoded(UrlEncoded(t, len)) = SubSeq(t, 1, k)
              /\ k < Len(t) =>
                   \E x \in Nat : /\ ~Fits(t[k + 1], x, len - 1)
                                  /\ x <= 3 * k
                                  /\ (\E y \in 1 .. k : ~Unsafe(t[y])) => x < 3 * k
<1>0. PICK a : \E k \in 0 .. Len(t) :
        /\ Encodes(t, a) /\ UrlEncoded(t, len) = a[k]
        /\ \A i \in 0 .. k - 1 : Fits(t[i + 1], Len(a[i]), len - 1)
        /\ k < Len(t) => ~Fits(t[k + 1], Len(a[k]), len - 1)
  BY EncodedBy
<1>1. PICK k \in 0 .. Len(t) :
        /\ Encodes(t, a) /\ UrlEncoded(t, len) = a[k]
        /\ \A i \in 0 .. k - 1 : Fits(t[i + 1], Len(a[i]), len - 1)
        /\ k < Len(t) => ~Fits(t[k + 1], Len(a[k]), len - 1)
  BY <1>0
<1>2. Len(a[k]) \in Nat
  BY <1>1, EncodesType
<1>3. Len(a[k]) < len
  <2>1. CASE k = 0
    <3>1. a[0] = <<>>
      BY <1>1 DEF Encodes
    <3> QED BY <2>1, <3>1
  <2>2. CASE k # 0
    <3> DEFINE h == k - 1
    <3>1. h \in 0 .. Len(t) /\ k \in 1 .. Len(t) /\ Follows(h, k)
      BY <2>2 DEF Follows
    <3>2. h \in 0 .. k - 1 /\ h + 1 = k
      BY <2>2
    <3> HIDE DEF h
    <3>3. Fits(t[k], Len(a[h]), len - 1)
      BY <1>1, <3>2
    <3>4. Len(a[k]) = Len(a[h]) + Len(Piece(t, k)) /\ Len(a[h]) \in Nat
      BY <1>1, <3>1, EncodesStep, EncodesType
    <3>5. /\ Len(Piece(t, k)) \in {1, 3}
          /\ ~Unsafe(t[k]) => Len(Piece(t, k)) = 1
      BY <3>1, PieceFacts
    <3> DEFINE b == Len(a[h])
               c == Len(Piece(t, k))
    <3>6. b < len - 1 /\ (Unsafe(t[k]) => b + 3 < len - 1) /\ b \in Nat
      BY <3>3, <3>4 DEF Fits
    <3>7. c \in {1, 3} /\ (~Unsafe(t[k]) => c = 1) /\ Len(a[k]) = b + c
      BY <3>4, <3>5
    <3> HIDE DEF b, c
    <3> QED BY <3>6, <3>7
  <2> QED BY <2>1, <2>2
<1>4. UrlDecoded(a[k]) = SubSeq(t, 1, k)
  BY <1>1, DecodesEncoding
<1>5. /\ Len(a[k]) <= 3 * k
      /\ (\E y \in 1 .. k : ~Unsafe(t[y])) => Len(a[k]) < 3 * k
  BY <1>1, EncodesShort
<1> QED BY <1>1, <1>2, <1>3, <1>4, <1>5

(* A prefix of a text.                                                     *)
LEMMA SubSeqIsPrefix ==
  ASSUME NEW t \in Seq(Char), NEW k \in 0 .. Len(t)
  PROVE  IsPrefix(SubSeq(t, 1, k), t)
<1> DEFINE u == SubSeq(t, 1, k)
<1>1. u \in Seq(Char) /\ Len(u) = k
  OBVIOUS
<1>2. SubSeq(u, 1, Len(u)) = u
  <2> HIDE DEF u
  <2>1. \A i \in 1 .. Len(u) : u[i] = u[i]
    OBVIOUS
  <2> DEFINE v == SubSeq(u, 1, Len(u))
  <2>2. v \in Seq(Char) /\ Len(v) = Len(u) /\ \A i \in 1 .. Len(u) : v[i] = u[i]
    BY <1>1
  <2> HIDE DEF v
  <2>3. v = u
    BY <1>1, <2>2, SeqEqual
  <2> QED BY <2>3 DEF v
<1> QED BY <1>1, <1>2 DEF IsPrefix

(* However long the text and however small the buffer, esl_url_encode      *)
(* stays inside it and what is decoded again is the beginning of the text. *)
THEOREM NoEscapeIsCut ==
  ASSUME s \in Seq(Char)
  PROVE  EncodesPrefix
<1> SUFFICES ASSUME NEW n \in Capacity
             PROVE  /\ n > 0 => Len(UrlEncoded(s, n)) < n
                    /\ IsPrefix(UrlDecoded(UrlEncoded(s, n)), s)
  BY DEF EncodesPrefix
<1>1. n \in Nat
  BY DEF Capacity
<1>2. CASE n # 0
  <2>1. PICK k \in 0 .. Len(s) : UrlDecoded(UrlEncoded(s, n)) = SubSeq(s, 1, k)
    BY <1>1, <1>2, RoundTrip
  <2> QED BY <1>1, <1>2, <2>1, RoundTrip, SubSeqIsPrefix
<1>3. CASE n = 0
  <2> DEFINE e == <<>>
  <2>1. UrlEncoded(s, n) = e
    BY <1>3 DEF UrlEncoded
  <2>2. e \in Seq(Char) /\ Len(e) = 0
    OBVIOUS
  <2> HIDE DEF e
  <2>3. PICK d : Decodes(e, d) /\ UrlDecoded(e) = d[1]
    BY <2>2, DecodedBy
  <2>4. d[1] = <<>>
    <3>1. 1 \in 1 .. Len(e) + 3 /\ 1 > Len(e)
      BY <2>2
    <3> QED BY <2>3, <3>1 DEF Decodes
  <2>5. SubSeq(s, 1, 0) = <<>> /\ 0 \in 0 .. Len(s)
    OBVIOUS
  <2>6. IsPrefix(SubSeq(s, 1, 0), s)
    BY <2>5, SubSeqIsPrefix
  <2>7. UrlDecoded(UrlEncoded(s, n)) = SubSeq(s, 1, 0)
    BY <2>1, <2>3, <2>4, <2>5 DEF e
  <2>8. ~(n > 0)
    BY <1>3
  <2> QED BY <2>6, <2>7, <2>8
<1> QED BY <1>2, <1>3

(* 3 n + 2 bytes are enough for a text of n bytes; in the 3 n + 1 that the *)
(* serialization allots to a header value, a text of escapes alone may     *)
(* lose its last byte and any other survives.                              *)
THEOREM OneByteMayBeLost ==
  ASSUME s \in Seq(Char)
  PROVE  ValueSurvives
<1> DEFINE n == Len(s)
           back(m) == UrlDecoded(UrlEncoded(s, m))
           Plain == \E i \in DOMAIN s : ~Unsafe(s[i])
<1>1. n \in Nat /\ DOMAIN s = 1 .. n
  OBVIOUS
<1>2. SubSeq(s, 1, n) = s
  <2> DEFINE v == SubSeq(s, 1, n)
  <2>1. v \in Seq(Char) /\ Len(v) = Len(s) /\ \A i \in 1 .. Len(v) : v[i] = s[i]
    OBVIOUS
  <2> HIDE DEF v
  <2>2. v = s
    BY <2>1, SeqEqual
  <2> QED BY <2>2 DEF v
<1>3. back(3 * n + 2) = s
  <2> DEFINE len == 3 * n + 2
  <2>1. len \in Nat /\ len # 0 /\ len - 1 = 3 * n + 1
    BY <1>1
  <2> HIDE DEF len
  <2>2. PICK k \in 0 .. n : /\ back(len) = SubSeq(s, 1, k)
                            /\ k < n => \E x \in Nat : ~Fits(s[k + 1], x, len - 1) /\ x <= 3 * k
    BY <2>1, RoundTrip
  <2>3. ASSUME k < n PROVE FALSE
    <3>1. PICK x \in Nat : ~Fits(s[k + 1], x, len - 1) /\ x <= 3 * k
      BY <2>2, <2>3
    <3>2. x < 3 * n + 1 /\ x + 3 < 3 * n + 1
      BY <1>1, <2>3, <3>1
    <3> QED BY <2>1, <3>1, <3>2 DEF Fits
  <2>4. k = n
    <3>1. k \in 0 .. n
      OBVIOUS
    <3> HIDE DEF n
    <3> QED BY <1>1, <2>3, <3>1
  <2> QED BY <1>2, <2>2, <2>4 DEF len
<1>4. (Plain => back(3 * n + 1) = s) /\ back(3 * n + 1) \in {s, Front(s)}
  <2> DEFINE len == 3 * n + 1
  <2>1. len \in Nat /\ len # 0 /\ len - 1 = 3 * n
    BY <1>1
  <2> HIDE DEF len
  <2>2. PICK k \in 0 .. n : /\ back(len) = SubSeq(s, 1, k)
                            /\ k < n => \E x \in Nat : /\ ~Fits(s[k + 1], x, len - 1)
                                                       /\ x <= 3 * k
                                                       /\ (\E y \in 1 .. k : ~Unsafe(s[y])) => x < 3 * k
    BY <2>1, RoundTrip
  <2>3. CASE k = n
    BY <1>2, <2>2, <2>3 DEF len
  <2>4. CASE k # n
    <3>0. k \in Nat /\ k < n /\ k + 1 <= n
      <4>1. k \in 0 .. n
        OBVIOUS
      <4> HIDE DEF n
      <4> QED BY <1>1, <2>4, <4>1
    <3>1. PICK x \in Nat : /\ ~Fits(s[k + 1], x, len - 1)
                           /\ x <= 3 * k
                           /\ (\E y \in 1 .. k : ~Unsafe(s[y])) => x < 3 * k
      BY <2>2, <3>0
    <3>2. x < 3 * n
      BY <1>1, <3>0, <3>1
    <3>3. Unsafe(s[k + 1]) /\ ~(x + 3 < 3 * n)
      BY <2>1, <3>1, <3>2 DEF Fits
    <3>4. k = n - 1 /\ ~(x < 3 * k)
      <4>1. n \in Nat /\ k \in Nat /\ k + 1 <= n /\ x \in Nat /\ x <= 3 * k
        BY <1>1, <3>0, <3>1
      <4>2. ~(x + 3 < 3 * n)
        BY <3>3
      <4> HIDE DEF n
      <4> QED BY <4>1, <4>2
    <3>5. back(len) = Front(s)
      BY <2>2, <3>4 DEF Front
    <3>6. ~Plain
      <4> SUFFICES ASSUME NEW i \in 1 .. n PROVE Unsafe(s[i])
        BY <1>1
      <4>1. CASE i = n
        <5>1. k + 1 = i
          BY <1>1, <3>0, <3>4, <4>1
        <5> QED BY <3>3, <5>1
      <4>2. CASE i # n
        <5>1. i \in 1 .. k
          <6>1. i \in 1 .. n /\ k = n - 1 /\ n \in Nat
            BY <1>1, <3>4
          <6> HIDE DEF n
          <6> QED BY <4>2, <6>1
        <5> QED BY <3>1, <3>4, <5>1
      <4> QED BY <4>1, <4>2
    <3> QED BY <3>5, <3>6 DEF len
  <2> QED BY <2>3, <2>4
<1> QED BY <1>3, <1>4 DEF ValueSurvives

-----------------------------------------------------------------------------
(* Letters compared without their case.                                    *)
LEMMA CaseFolds ==
  ASSUME NEW c \in Char, NEW e \in Char
  PROVE  ToUpper(c) = ToUpper(e) <=> ToLower(c) = ToLower(e)
<1> DEFINE Small(x) == x \in 97 .. 122
           Large(x) == x \in 65 .. 90
<1>1. ASSUME NEW x \in Char
      PROVE  /\ Small(x) => ToUpper(x) = x - 32 /\ ToLower(x) = x
             /\ Large(x) => ToUpper(x) = x /\ ToLower(x) = x + 32
             /\ ~Small(x) /\ ~Large(x) => ToUpper(x) = x /\ ToLower(x) = x
  BY DEF ToUpper, ToLower
<1>2. c \in Int /\ e \in Int
  BY DEF Char
<1>3. CASE Small(c)
  BY <1>1, <1>2, <1>3
<1>4. CASE Large(c)
  BY <1>1, <1>2, <1>4
<1>5. CASE ~Small(c) /\ ~Large(c)
  BY <1>1, <1>2, <1>5
<1> QED BY <1>3, <1>4, <1>5

Lower(t) == [i \in DOMAIN t |-> ToLower(t[i])]

(* Whether byte x + 1 of the pattern p is found at start + x, and whether  *)
(* all of p is found at j.                                                 *)
Same(p, t, start, x) == /\ x < Len(p) /\ start + x <= Len(t)
                        /\ ToUpper(t[start + x]) = ToUpper(p[x + 1])

Hit(p, t, j) == /\ j + Len(p) - 1 <= Len(t)
                /\ \A x \in 0 .. Len(p) - 1 : ToUpper(t[j + x]) = ToUpper(p[x + 1])

(* r is the first place at or behind start where p is found, 0 if none is. *)
FirstHit(p, t, start, r) ==
  \/ r = 0 /\ \A j \in Nat : j >= start => ~Hit(p, t, j)
  \/ r # 0 /\ r \in Nat /\ r >= start /\ Hit(p, t, r) /\ \A j \in start .. r - 1 : ~Hit(p, t, j)

LEMMA LowerType ==
  ASSUME NEW t \in Seq(Char)
  PROVE  /\ Lower(t) \in Seq(Int) /\ Len(Lower(t)) = Len(t)
         /\ \A i \in 1 .. Len(t) : Lower(t)[i] = ToLower(t[i])
<1>1. \A i \in 1 .. Len(t) : ToLower(t[i]) \in Int
  <2> SUFFICES ASSUME NEW i \in 1 .. Len(t) PROVE ToLower(t[i]) \in Int
    OBVIOUS
  <2> DEFINE c == t[i]
  <2>1. c \in Char
    OBVIOUS
  <2> HIDE DEF c
  <2>2. ToLower(c) \in Int
    BY <2>1 DEF ToLower, Char
  <2> QED BY <2>2 DEF c
<1>2. Lower(t) = [i \in 1 .. Len(t) |-> ToLower(t[i])]
  BY DEF Lower
<1> QED BY <1>1, <1>2

LEMMA HitIsPlace ==
  ASSUME NEW p \in Seq(Char), NEW t \in Seq(Char), Len(p) # 0, NEW i \in Nat \ {0}
  PROVE  Hit(p, t, i) <=> /\ i \in 1 .. Len(Lower(t)) - Len(Lower(p)) + 1
                          /\ SubSeq(Lower(t), i, i + Len(Lower(p)) - 1) = Lower(p)
<1> DEFINE m == Len(p)
           n == Len(t)
           u == Lower(t)
           v == Lower(p)
           w == SubSeq(u, i, i + m - 1)
<1>1. m \in Nat \ {0} /\ n \in Nat
  OBVIOUS
<1>2. u \in Seq(Int) /\ Len(u) = n /\ v \in Seq(Int) /\ Len(v) = m
  BY LowerType
<1>3. ASSUME i + m - 1 <= n
      PROVE  w \in Seq(Int) /\ Len(w) = m /\ \A x \in 1 .. m : w[x] = u[i + x - 1]
  <2> HIDE DEF u, v, m, n
  <2> QED BY <1>1, <1>2, <1>3
<1>4. ASSUME i + m - 1 <= n, NEW x \in 1 .. m
      PROVE  w[x] = v[x] <=> ToUpper(t[i + (x - 1)]) = ToUpper(p[(x - 1) + 1])
  <2> DEFINE y == i + x - 1
             c == t[y]
             e == p[x]
  <2>1. y \in 1 .. Len(t) /\ x \in 1 .. Len(p) /\ y = i + (x - 1) /\ x = (x - 1) + 1
    BY <1>1, <1>4
  <2>2. w[x] = u[y]
    BY <1>3, <1>4
  <2> HIDE DEF y
  <2>3. c \in Char /\ e \in Char /\ u[y] = ToLower(c) /\ v[x] = ToLower(e)
    BY <2>1, LowerType
  <2>4. ToUpper(c) = ToUpper(e) <=> ToLower(c) = ToLower(e)
    <3> HIDE DEF c, e
    <3> QED BY <2>3, CaseFolds
  <2>5. ToUpper(t[i + (x - 1)]) = ToUpper(c) /\ ToUpper(p[(x - 1) + 1]) = ToUpper(e)
    BY <2>1
  <2> QED BY <2>2, <2>3, <2>4, <2>5
<1>5. ASSUME Hit(p, t, i)
      PROVE  i \in 1 .. Len(u) - Len(v) + 1 /\ w = v
  <2>1. i + m - 1 <= n /\ \A x \in 0 .. m - 1 : ToUpper(t[i + x]) = ToUpper(p[x + 1])
    BY <1>5 DEF Hit
  <2>2. ASSUME NEW x \in 1 .. m PROVE w[x] = v[x]
    <3>1. x - 1 \in 0 .. m - 1
      BY <1>1
    <3> QED BY <1>4, <2>1, <3>1
  <2>3. w = v
    BY <1>2, <1>3, <2>1, <2>2, SeqEqual
  <2>4. i \in 1 .. n - m + 1
    <3> HIDE DEF n, m
    <3> QED BY <1>1, <2>1
  <2> QED BY <1>2, <2>3, <2>4
<1>6. ASSUME i \in 1 .. Len(u) - Len(v) + 1, w = v
      PROVE  Hit(p, t, i)
  <2>1. i + m - 1 <= n
    <3>1. i \in 1 .. n - m + 1
      BY <1>2, <1>6
    <3> HIDE DEF n, m
    <3> QED BY <1>1, <3>1
  <2>2. ASSUME NEW x \in 0 .. m - 1 PROVE ToUpper(t[i + x]) = ToUpper(p[x + 1])
    <3> DEFINE y == x + 1
    <3>1. y \in 1 .. m /\ i + (y - 1) = i + x /\ (y - 1) + 1 = x + 1
      BY <1>1
    <3> HIDE DEF y
    <3>2. ToUpper(t[i + (y - 1)]) = ToUpper(p[(y - 1) + 1])
      BY <1>4, <1>6, <2>1, <3>1
    <3> QED BY <3>1, <3>2
  <2> QED BY <2>1, <2>2 DEF Hit
<1>7. w = SubSeq(u, i, i + Len(v) - 1)
  BY <1>2
<1> QED BY <1>5, <1>6, <1>7

(* The first hit is what strstr finds in lower case.                       *)
LEMMA FirstHitIsFirstPlace ==
  ASSUME NEW p \in Seq(Char), NEW t \in Seq(Char), Len(p) # 0, NEW r, FirstHit(p, t, 1, r)
  PROVE  FirstPlace(Lower(t), Lower(p)) = r
<1> DEFINE u == Lower(t)
           v == Lower(p)
           places == {i \in 1 .. Len(u) - Len(v) + 1 : SubSeq(u, i, i + Len(v) - 1) = v}
<1>1. FirstPlace(u, v) = IF places = {} THEN 0
                         ELSE CHOOSE i \in places : \A j \in places : i <= j
  BY DEF FirstPlace
<1>2. \A i \in Nat : i # 0 => (Hit(p, t, i) <=> i \in places)
  BY HitIsPlace
<1>3. \A i \in places : i \in Nat /\ i # 0
  <2>1. Len(u) - Len(v) + 1 \in Int
    BY LowerType
  <2> QED BY <2>1
<1> HIDE DEF places, u, v
<1>4. CASE r = 0
  <2>1. \A j \in Nat : j # 0 => ~Hit(p, t, j)
    BY <1>4 DEF FirstHit
  <2> QED BY <1>1, <1>2, <1>3, <1>4, <2>1 DEF u, v
<1>5. CASE r # 0
  <2>1. r \in Nat /\ Hit(p, t, r) /\ \A j \in 1 .. r - 1 : ~Hit(p, t, j)
    BY <1>5 DEF FirstHit
  <2>2. r \in places
    BY <1>2, <1>5, <2>1
  <2>3. ASSUME NEW j \in places PROVE r <= j
    <3>1. j \in Nat /\ j # 0 /\ Hit(p, t, j)
      BY <1>2, <1>3
    <3> QED BY <2>1, <3>1
  <2>4. \A i \in places : (\A j \in places : i <= j) => i = r
    BY <1>3, <2>1, <2>2, <2>3
  <2>5. (CHOOSE i \in places : \A j \in places : i <= j) = r
    BY <2>2, <2>3, <2>4
  <2> QED BY <1>1, <2>2, <2>5 DEF u, v
<1> QED BY <1>4, <1>5

(* How many bytes of p agree at start.                                     *)
Agree(p, t, start) ==
  CHOOSE m \in 0 .. Len(p) :
    ~Same(p, t, start, m) /\ \A l \in 0 .. m - 1 : Same(p, t, start, l)

LEMMA AgreeType ==
  ASSUME NEW p \in Seq(Char), NEW t \in Seq(Char), NEW start
  PROVE  /\ Agree(p, t, start) \in 0 .. Len(p)
         /\ ~Same(p, t, start, Agree(p, t, start))
         /\ \A l \in 0 .. Agree(p, t, start) - 1 : Same(p, t, start, l)
<1> DEFINE G == {m \in 0 .. Len(p) : ~Same(p, t, start, m)}
<1>1. G \in SUBSET Nat /\ Len(p) \in G
  BY DEF Same
<1>2. PICK m \in G : \A l \in G : m <= l
  <2> HIDE DEF G
  <2> QED BY <1>1, LeastNatural
<1>3. m \in 0 .. Len(p) /\ ~Same(p, t, start, m)
  OBVIOUS
<1>4. ASSUME NEW l \in 0 .. m - 1 PROVE Same(p, t, start, l)
  <2>1. l \in 0 .. Len(p) /\ ~(m <= l)
    BY <1>3
  <2>2. l \notin G
    BY <1>2, <2>1
  <2> QED BY <2>1, <2>2
<1> HIDE DEF G
<1> QED BY <1>3, <1>4 DEF Agree

(* What the search finds from each place on.                               *)
Searches(p, t, d) ==
  /\ DOMAIN d = 1 .. Len(t) + Len(p) + 1
  /\ \A start \in 1 .. Len(t) + Len(p) + 1 :
       d[start] = IF start > Len(t) THEN 0
                  ELSE IF Agree(p, t, start) = Len(p) THEN start
                  ELSE IF Agree(p, t, start) > 0 /\ start + Agree(p, t, start) > Len(t) THEN 0
                  ELSE d[start + 1]

(* esl_stristr for a pattern that is not empty.                            *)
LEMMA StristrBy ==
  ASSUME NEW p \in Seq(Char), NEW t \in Seq(Char), p # <<>>
  PROVE  \E d : Searches(p, t, d) /\ Stristr(p, t) = d[1]
<1> DEFINE n == Len(t) + Len(p) + 1
           Step(start, f) ==
             IF start > Len(t) THEN 0
             ELSE IF Agree(p, t, start) = Len(p) THEN start
             ELSE IF Agree(p, t, start) > 0 /\ start + Agree(p, t, start) > Len(t) THEN 0
             ELSE f[start + 1]
           Raw(f) == [start \in 1 .. n |-> Step(start, f)]
           T == Nat
           H == [start \in 1 .. n |-> [f \in [1 .. n -> T] |-> Step(start, f)]]
           d == CHOOSE f : f = Raw(f)
<1>1. Stristr(p, t) = d[1]
  BY Zenon DEF Stristr, Agree, Same, Resume
<1>2. n \in Nat /\ 1 \in Nat /\ 0 \in T
  OBVIOUS
<1>3. ASSUME NEW i \in 1 .. n, NEW f \in [1 .. n -> T] PROVE Step(i, f) \in T
  <2>1. i \in Nat /\ (~(i > Len(t)) => i + 1 \in 1 .. n)
    OBVIOUS
  <2>2. ~(i > Len(t)) => f[i + 1] \in T
    BY <2>1
  <2> QED BY <2>1, <2>2
<1>4. ASSUME NEW i \in 1 .. n, NEW f, NEW g, \A j \in i + 1 .. n : f[j] = g[j]
      PROVE  Step(i, f) = Step(i, g)
  <2>1. CASE i > Len(t)
    BY <2>1
  <2>2. CASE ~(i > Len(t))
    <3>1. i + 1 \in i + 1 .. n
      BY <2>2
    <3>2. f[i + 1] = g[i + 1]
      BY <1>4, <3>1
    <3> QED BY <3>2
  <2> QED BY <2>1, <2>2
<1> HIDE DEF Step
<1>5. \A i \in 1 .. n : \A f \in [1 .. n -> T] : H[i][f] = Step(i, f)
  BY Zenon
<1>6. \A i \in 1 .. n : \A f : Raw(f)[i] = Step(i, f)
  BY Zenon
<1>7. \E f : f = Raw(f)
  <2>1. Equation(1, n, T, H)
    <3>1. H \in [1 .. n -> [[1 .. n -> T] -> T]]
      <4> HIDE DEF T, n
      <4> QED BY <1>3
    <3> QED BY <3>1 DEF Equation
  <2>2. UsesBehind(1, n, T, H)
    <3> HIDE DEF H, T, n
    <3>1. ASSUME NEW i \in 1 .. n, NEW f \in [1 .. n -> T], NEW g \in [1 .. n -> T],
                 \A j \in i + 1 .. n : f[j] = g[j]
          PROVE  H[i][f] = H[i][g]
      <4>1. Step(i, f) = Step(i, g)
        BY <1>4, <3>1
      <4> QED BY <1>5, <4>1
    <3> QED BY <3>1 DEF UsesBehind
  <2> HIDE DEF H, T, n
  <2>3. PICK f : Solves(f, 1, n, T, H)
    BY <1>2, <2>1, <2>2, Downward
  <2>4. f \in [1 .. n -> T] /\ \A i \in 1 .. n : f[i] = Step(i, f)
    BY <1>5, <2>3 DEF Solves
  <2>5. f = [i \in 1 .. n |-> f[i]]
    BY <2>4
  <2>6. f = Raw(f)
    BY <2>4, <2>5
  <2> QED BY <2>6
<1>8. d = Raw(d)
  <2> HIDE DEF Raw
  <2> QED BY <1>7
<1>9. DOMAIN Raw(d) = 1 .. n
  BY Zenon
<1> HIDE DEF d, H, Raw
<1>10. DOMAIN d = 1 .. n /\ \A i \in 1 .. n : d[i] = Step(i, d)
  BY <1>6, <1>8, <1>9
<1> QED BY <1>1, <1>10 DEF Searches, Step

(* It finds the first place, although it gives up when t ends inside a     *)
(* partial match: p does not fit any further.                              *)
LEMMA SearchFindsFirst ==
  ASSUME NEW p \in Seq(Char), NEW t \in Seq(Char), Len(p) # 0, NEW d, Searches(p, t, d)
  PROVE  FirstHit(p, t, 1, d[1])
<1> DEFINE m == Len(p)
           n == Len(t)
           G == {i \in 0 .. n + 1 : i # 0 => FirstHit(p, t, i, d[i])}
<1>1. m \in Nat \ {0} /\ n \in Nat
  OBVIOUS
<1>2. \A i \in 1 .. n + m + 1 :
        d[i] = IF i > n THEN 0
               ELSE IF Agree(p, t, i) = m THEN i
               ELSE IF Agree(p, t, i) > 0 /\ i + Agree(p, t, i) > n THEN 0
               ELSE d[i + 1]
  BY DEF Searches
<1>3. ASSUME NEW j \in Nat, Hit(p, t, j) PROVE j + m - 1 <= n
  BY <1>3 DEF Hit
<1>4. ASSUME NEW i \in 0 .. n + 1, (i + 1 .. n + 1) \subseteq G PROVE i \in G
  <2> SUFFICES ASSUME i # 0 PROVE FirstHit(p, t, i, d[i])
    OBVIOUS
  <2>0. i \in Nat \ {0} /\ i <= n + 1 /\ i \in 1 .. n + m + 1
    BY <1>1
  <2> DEFINE a == Agree(p, t, i)
  <2>1. /\ a \in 0 .. m /\ ~Same(p, t, i, a)
        /\ \A l \in 0 .. a - 1 : Same(p, t, i, l)
    BY AgreeType
  <2>2. CASE i > n
    <3>1. d[i] = 0
      BY <1>2, <2>0, <2>2
    <3>2. ASSUME NEW j \in Nat, j >= i, Hit(p, t, j) PROVE FALSE
      <4>1. j + m - 1 <= n
        BY <1>3, <3>2
      <4> HIDE DEF m, n
      <4> QED BY <1>1, <2>0, <2>2, <3>2, <4>1
    <3> QED BY <3>1, <3>2 DEF FirstHit
  <2>3. CASE ~(i > n) /\ a = m
    <3>1. d[i] = i
      BY <1>2, <2>0, <2>3
    <3>2. ASSUME NEW l \in 0 .. m - 1
          PROVE  i + l <= n /\ ToUpper(t[i + l]) = ToUpper(p[l + 1])
      BY <2>1, <2>3 DEF Same
    <3>3. i + m - 1 <= n
      <4>1. m - 1 \in 0 .. m - 1
        BY <1>1
      <4>2. i + (m - 1) <= n
        BY <3>2, <4>1
      <4> HIDE DEF m, n
      <4> QED BY <1>1, <2>0, <4>2
    <3>4. Hit(p, t, i)
      BY <3>2, <3>3 DEF Hit
    <3>5. \A j \in i .. i - 1 : FALSE
      BY <2>0
    <3> HIDE DEF m, n, a
    <3> QED BY <2>0, <3>1, <3>4, <3>5 DEF FirstHit
  <2>4. CASE ~(i > n) /\ a # m /\ a > 0 /\ i + a > n
    <3>1. d[i] = 0
      BY <1>2, <2>0, <2>4
    <3>2. ASSUME NEW j \in Nat, j >= i, Hit(p, t, j) PROVE FALSE
      <4>1. j + m - 1 <= n
        BY <1>3, <3>2
      <4>2. a \in 0 .. m /\ a # m /\ i + a > n
        BY <2>1, <2>4
      <4> HIDE DEF m, n, a
      <4> QED BY <1>1, <2>0, <3>2, <4>1, <4>2
    <3> QED BY <3>1, <3>2 DEF FirstHit
  <2>5. CASE ~(i > n) /\ a # m /\ ~(a > 0 /\ i + a > n)
    <3> DEFINE k == i + 1
    <3>1. d[i] = d[k]
      BY <1>2, <2>0, <2>5
    <3>2. ~Hit(p, t, i)
      <4>1. a \in 0 .. m - 1 /\ i + a <= n
        <5>1. a \in 0 .. m
          BY <2>1
        <5> HIDE DEF m, n, a
        <5> QED BY <1>1, <2>0, <2>5, <5>1
      <4>2. ToUpper(t[i + a]) # ToUpper(p[a + 1])
        BY <2>1, <4>1 DEF Same
      <4> QED BY <4>1, <4>2 DEF Hit
    <3>3. k \in i + 1 .. n + 1 /\ k # 0 /\ k \in Nat
      BY <1>1, <2>0, <2>5
    <3>4. FirstHit(p, t, k, d[k])
      BY <1>4, <3>3
    <3>5. \A j \in Nat : j >= i => j = i \/ j >= k
      BY <2>0
    <3>6. k >= i
      BY <2>0
    <3> HIDE DEF m, n, a, k
    <3>7. CASE d[k] = 0 /\ \A j \in Nat : j >= k => ~Hit(p, t, j)
      BY <3>1, <3>2, <3>5, <3>7 DEF FirstHit
    <3>8. CASE /\ d[k] # 0 /\ d[k] \in Nat /\ d[k] >= k /\ Hit(p, t, d[k])
               /\ \A j \in k .. d[k] - 1 : ~Hit(p, t, j)
      <4> DEFINE r == d[k]
      <4>1. r # 0 /\ r \in Nat /\ r >= k /\ Hit(p, t, r) /\ \A j \in k .. r - 1 : ~Hit(p, t, j)
        BY <3>8
      <4>2. d[i] = r
        BY <3>1
      <4> HIDE DEF r
      <4>3. r >= i
        BY <2>0, <3>3, <3>6, <4>1
      <4>4. ASSUME NEW j \in i .. r - 1 PROVE ~Hit(p, t, j)
        <5>1. j \in Nat /\ j >= i
          BY <2>0
        <5>2. j = i \/ j >= k
          BY <3>5, <5>1
        <5>3. CASE j = i
          BY <3>2, <5>3
        <5>4. CASE j >= k
          <6>1. j \in k .. r - 1
            BY <2>0, <3>3, <4>1, <5>4
          <6> QED BY <4>1, <6>1
        <5> QED BY <5>2, <5>3, <5>4
      <4> QED BY <4>1, <4>2, <4>3, <4>4 DEF FirstHit
    <3> QED BY <3>4, <3>7, <3>8 DEF FirstHit
  <2> QED BY <2>2, <2>3, <2>4, <2>5
<1>5. G = 0 .. n + 1
  <2> DEFINE l == n + 1
  <2>1. l \in Nat /\ G \in SUBSET (0 .. l)
    OBVIOUS
  <2>2. \A i \in 0 .. l : (i + 1 .. l) \subseteq G => i \in G
    BY <1>4
  <2> HIDE DEF G, l
  <2>3. G = 0 .. l
    BY <2>1, <2>2, FromTheEnd
  <2> QED BY <2>3 DEF l
<1>6. 1 \in G
  BY <1>1, <1>5
<1> QED BY <1>6

(* For texts of any length, esl_stristr gives the place where strstr finds *)
(* the pattern when both are in lower case.                                *)
THEOREM SearchIgnoresCase ==
  ASSUME s \in Seq(Char)
  PROVE  FindsFirst
<1> SUFFICES ASSUME NEW k \in 0 .. Len(s)
             PROVE  Stristr(SubSeq(s, 1, k), SubSeq(s, k + 1, Len(s)))
                      = IF k = 0 THEN 0
                        ELSE FirstPlace(Lower(SubSeq(s, k + 1, Len(s))), Lower(SubSeq(s, 1, k)))
  BY DEF FindsFirst, Lower
<1> DEFINE p == SubSeq(s, 1, k)
           t == SubSeq(s, k + 1, Len(s))
<1>1. p \in Seq(Char) /\ Len(p) = k /\ t \in Seq(Char)
  OBVIOUS
<1> HIDE DEF p, t
<1>2. CASE k = 0
  <2>1. p = <<>>
    BY <1>1, <1>2, EmptySeq
  <2>2. Stristr(p, t) = 0
    BY <2>1 DEF Stristr
  <2> QED BY <1>2, <2>2 DEF p, t
<1>3. CASE k # 0
  <2>1. Len(p) # 0 /\ p # <<>>
    BY <1>1, <1>3
  <2>2. PICK d : Searches(p, t, d) /\ Stristr(p, t) = d[1]
    BY <1>1, <2>1, StristrBy
  <2>3. FirstHit(p, t, 1, d[1])
    BY <1>1, <2>1, <2>2, SearchFindsFirst
  <2>4. FirstPlace(Lower(t), Lower(p)) = d[1]
    BY <1>1, <2>1, <2>3, FirstHitIsFirstPlace
  <2> QED BY <1>3, <2>2, <2>4 DEF p, t
<1> QED BY <1>2, <1>3

-----------------------------------------------------------------------------
(* The end of a text from p on, and what a piece at its front leaves.      *)
Rest(t, p) == SubSeq(t, p, Len(t))

LEMMA RestType ==
  ASSUME NEW t \in Seq(Char), NEW p \in 1 .. Len(t) + 1
  PROVE  /\ Rest(t, p) \in Seq(Char) /\ Len(Rest(t, p)) = Len(t) - p + 1
         /\ \A x \in 1 .. Len(t) - p + 1 : Rest(t, p)[x] = t[p + x - 1]
BY DEF Rest

(* The first place of a delimiter.                                         *)
LEMMA FirstPlaceFacts ==
  ASSUME NEW u \in Seq(Char), NEW z \in Seq(Char), z # <<>>
  PROVE  LET i == FirstPlace(u, z)
         IN /\ i \in Nat
            /\ i # 0 => /\ i + Len(z) - 1 <= Len(u)
                        /\ SubSeq(u, i, i + Len(z) - 1) = z
            /\ \A j \in 1 .. Len(u) - Len(z) + 1 :
                 SubSeq(u, j, j + Len(z) - 1) = z => i # 0 /\ i <= j
<1> DEFINE n == Len(u) - Len(z) + 1
           places == {i \in 1 .. n : SubSeq(u, i, i + Len(z) - 1) = z}
           i == FirstPlace(u, z)
<1>1. i = IF places = {} THEN 0 ELSE CHOOSE k \in places : \A j \in places : k <= j
  BY DEF FirstPlace
<1>2. n \in Int /\ Len(u) \in Nat /\ Len(z) \in Nat
  OBVIOUS
<1>3. \A k : k \in places <=> k \in 1 .. n /\ SubSeq(u, k, k + Len(z) - 1) = z
  OBVIOUS
<1>4. places \in SUBSET Nat /\ \A k \in 1 .. n : k \in Nat /\ k # 0 /\ k + Len(z) - 1 <= Len(u)
  BY <1>2
<1> HIDE DEF places, i
<1>5. CASE places = {}
  <2>1. i \in Nat /\ ~(i # 0)
    BY <1>1, <1>5
  <2>2. \A j \in 1 .. n : SubSeq(u, j, j + Len(z) - 1) # z
    BY <1>3, <1>5
  <2> QED BY <2>1, <2>2 DEF i
<1>6. CASE places # {}
  <2>1. \E k \in places : \A j \in places : k <= j
    BY <1>4, <1>6, LeastNatural
  <2>2. i \in places /\ \A j \in places : i <= j
    BY <1>1, <1>6, <2>1
  <2>3. i \in 1 .. n /\ SubSeq(u, i, i + Len(z) - 1) = z
    BY <1>3, <2>2
  <2>4. i \in Nat /\ i # 0 /\ i + Len(z) - 1 <= Len(u)
    BY <1>4, <2>3
  <2>5. \A j \in 1 .. n : SubSeq(u, j, j + Len(z) - 1) = z => i <= j
    BY <1>3, <2>2
  <2> QED BY <2>3, <2>4, <2>5 DEF i
<1> QED BY <1>5, <1>6

(* The text in front of the first delimiter has none.                      *)
LEMMA NoneInFront ==
  ASSUME NEW u \in Seq(Char), NEW z \in Seq(Char), z # <<>>, FirstPlace(u, z) # 0
  PROVE  /\ SubSeq(u, 1, FirstPlace(u, z) - 1) \in Seq(Char)
         /\ FirstPlace(SubSeq(u, 1, FirstPlace(u, z) - 1), z) = 0
<1> DEFINE i == FirstPlace(u, z)
           c == Len(z)
           v == SubSeq(u, 1, i - 1)
           j == FirstPlace(v, z)
<1>1. /\ i \in Nat /\ i # 0 /\ i + c - 1 <= Len(u)
      /\ \A k \in 1 .. Len(u) - c + 1 : SubSeq(u, k, k + c - 1) = z => i <= k
  BY FirstPlaceFacts
<1>2. c \in Nat \ {0} /\ Len(u) \in Nat
  BY EmptySeq
<1> HIDE DEF i, c
<1>3. v \in Seq(Char) /\ Len(v) = i - 1 /\ \A x \in 1 .. i - 1 : v[x] = u[x]
  BY <1>1, <1>2
<1> HIDE DEF v
<1>4. j \in Nat /\ (j # 0 => j + c - 1 <= Len(v) /\ SubSeq(v, j, j + c - 1) = z)
  BY <1>3, FirstPlaceFacts DEF c
<1> HIDE DEF j
<1>5. ASSUME j # 0 PROVE FALSE
  <2> DEFINE x == SubSeq(v, j, j + c - 1)
             y == SubSeq(u, j, j + c - 1)
  <2>1. j + c - 1 <= i - 1 /\ j \in 1 .. Len(u) - c + 1 /\ j < i
    BY <1>1, <1>2, <1>3, <1>4, <1>5
  <2>2. x \in Seq(Char) /\ Len(x) = c /\ \A k \in 1 .. c : x[k] = v[j + k - 1]
    BY <1>2, <1>3, <1>4, <2>1
  <2>3. y \in Seq(Char) /\ Len(y) = c /\ \A k \in 1 .. c : y[k] = u[j + k - 1]
    BY <1>1, <1>2, <2>1
  <2>4. ASSUME NEW k \in 1 .. c PROVE x[k] = y[k]
    <3>1. j + k - 1 \in 1 .. i - 1
      BY <1>1, <1>2, <1>4, <1>5, <2>1
    <3> QED BY <1>3, <2>2, <2>3, <3>1
  <2>5. x = z
    BY <1>4, <1>5
  <2> HIDE DEF x, y
  <2>6. x = y
    BY <2>2, <2>3, <2>4, SeqEqual
  <2>7. i <= j
    BY <1>1, <2>1, <2>5, <2>6 DEF y
  <2> QED BY <1>1, <1>4, <2>1, <2>7
<1> QED BY <1>3, <1>5 DEF v, j, i

(* What is in front of the first delimiter, the delimiter and what is      *)
(* behind it are the text.                                                 *)
LEMMA PutTogether ==
  ASSUME NEW t \in Seq(Char), NEW z \in Seq(Char), z # <<>>,
         NEW p \in 1 .. Len(t) + 1, NEW i \in Nat, i # 0,
         i + Len(z) - 1 <= Len(Rest(t, p)), SubSeq(Rest(t, p), i, i + Len(z) - 1) = z,
         NEW q \in Nat, q - p = i - 1 + Len(z)
  PROVE  /\ q \in 1 .. Len(t) + 1
         /\ (SubSeq(Rest(t, p), 1, i - 1) \o z) \o Rest(t, q) = Rest(t, p)
<1> DEFINE u == Rest(t, p)
           c == Len(z)
           v == SubSeq(u, 1, i - 1)
           w == Rest(t, q)
           n == Len(t)
<1>1. p \in Nat /\ p >= 1 /\ n \in Nat /\ c \in Nat \ {0}
  BY EmptySeq
<1>2. u \in Seq(Char) /\ Len(u) = n - p + 1 /\ \A x \in 1 .. n - p + 1 : u[x] = t[p + x - 1]
  BY RestType
<1> HIDE DEF u
<1>3. /\ i \in Nat /\ i >= 1 /\ i + c - 1 <= Len(u) /\ SubSeq(u, i, i + c - 1) = z
  BY DEF u
<1>4. q - p = i - 1 + c
  OBVIOUS
<1> HIDE DEF c, n
<1>5. q \in Nat /\ q >= 1 /\ q <= n + 1
  BY <1>1, <1>2, <1>3, <1>4
<1>6. w \in Seq(Char) /\ Len(w) = n - q + 1 /\ \A x \in 1 .. n - q + 1 : w[x] = t[q + x - 1]
  <2>1. q \in 1 .. Len(t) + 1
    BY <1>5 DEF n
  <2> QED BY <2>1, RestType DEF n
<1> HIDE DEF w
<1>7. v \in Seq(Char) /\ Len(v) = i - 1 /\ \A x \in 1 .. i - 1 : v[x] = u[x]
  BY <1>1, <1>2, <1>3, SMTT(20)
<1> HIDE DEF v
<1>8. Len(z) = c /\ \A x \in 1 .. c : z[x] = u[i + x - 1]
  <2> DEFINE y == SubSeq(u, i, i + c - 1)
  <2>1. \A x \in 1 .. c : y[x] = u[i + x - 1]
    BY <1>1, <1>2, <1>3
  <2> QED BY <1>3, <2>1 DEF c
<1> DEFINE f == v \o z
           g == f \o w
<1>9. /\ f \in Seq(Char) /\ Len(f) = i - 1 + c
      /\ \A x \in 1 .. i - 1 + c : f[x] = IF x <= i - 1 THEN v[x] ELSE z[x - (i - 1)]
  <2>1. /\ f \in Seq(Char) /\ Len(f) = Len(v) + Len(z)
        /\ \A x \in 1 .. Len(v) + Len(z) : f[x] = IF x <= Len(v) THEN v[x] ELSE z[x - Len(v)]
    BY <1>7, ConcatProperties
  <2> QED BY <1>7, <1>8, <2>1
<1> HIDE DEF f
<1>10. /\ g \in Seq(Char) /\ Len(g) = i - 1 + c + (n - q + 1)
       /\ \A x \in 1 .. i - 1 + c + (n - q + 1) :
            g[x] = IF x <= i - 1 + c THEN f[x] ELSE w[x - (i - 1 + c)]
  <2>0. f \in Seq(Char) /\ w \in Seq(Char)
    BY <1>6, <1>9
  <2>1. /\ g \in Seq(Char) /\ Len(g) = Len(f) + Len(w)
        /\ \A x \in 1 .. Len(f) + Len(w) : g[x] = IF x <= Len(f) THEN f[x] ELSE w[x - Len(f)]
    BY <2>0, ConcatProperties
  <2> QED BY <1>6, <1>9, <2>1
<1> HIDE DEF g
<1>11. Len(g) = Len(u)
  BY <1>1, <1>2, <1>3, <1>4, <1>5, <1>10
<1>12. ASSUME NEW x \in 1 .. Len(u) PROVE g[x] = u[x]
  <2>0. x \in Nat /\ x >= 1 /\ x <= n - p + 1 /\ x \in 1 .. i - 1 + c + (n - q + 1)
    BY <1>1, <1>2, <1>3, <1>4, <1>5
  <2>1. CASE x <= i - 1
    <3>1. x \in 1 .. i - 1 + c /\ x \in 1 .. i - 1 /\ x <= i - 1 + c
      BY <1>1, <1>3, <2>0, <2>1
    <3> QED BY <1>7, <1>9, <1>10, <2>0, <2>1, <3>1
  <2>2. CASE ~(x <= i - 1) /\ x <= i - 1 + c
    <3>1. /\ x \in 1 .. i - 1 + c /\ x - (i - 1) \in 1 .. c
          /\ i + (x - (i - 1)) - 1 = x
      BY <1>1, <1>3, <2>0, <2>2
    <3>2. g[x] = z[x - (i - 1)]
      BY <1>9, <1>10, <2>0, <2>2, <3>1
    <3>3. z[x - (i - 1)] = u[i + (x - (i - 1)) - 1]
      BY <1>8, <3>1
    <3> QED BY <3>1, <3>2, <3>3
  <2>3. CASE ~(x <= i - 1 + c)
    <3> DEFINE y == x - (i - 1 + c)
    <3>1. y \in 1 .. n - q + 1 /\ q + y - 1 = p + x - 1
      BY <1>1, <1>3, <1>4, <1>5, <2>0, <2>3
    <3>2. g[x] = w[y]
      BY <1>10, <2>0, <2>3
    <3> HIDE DEF y
    <3>3. w[y] = t[q + y - 1]
      BY <1>6, <3>1
    <3>4. u[x] = t[p + x - 1]
      BY <1>2, <2>0
    <3> QED BY <3>1, <3>2, <3>3, <3>4
  <2> QED BY <2>1, <2>2, <2>3
<1>13. g = u
  BY <1>2, <1>10, <1>11, <1>12, SeqEqual
<1>14. q \in 1 .. Len(t) + 1
  BY <1>5 DEF n
<1> QED BY <1>13, <1>14 DEF g, f, v, w, u

(* The pieces of the text from each place on, for each size of the array.  *)
Cuts(t, z, m, d) ==
  \A n \in 1 .. m : \A p \in 1 .. Len(t) + 1 :
    LET i == FirstPlace(Rest(t, p), z)
    IN d[n][p] = IF n = 1 \/ i = 0 THEN <<Rest(t, p)>>
                 ELSE <<SubSeq(Rest(t, p), 1, i - 1)>> \o d[n - 1][Behind(p + i - 1, z)]

(* Where the text goes on behind a delimiter.                              *)
LEMMA GoesOn ==
  ASSUME NEW t \in Seq(Char), NEW z \in Seq(Char), z # <<>>, NEW p \in 1 .. Len(t) + 1,
         FirstPlace(Rest(t, p), z) # 0
  PROVE  LET i == FirstPlace(Rest(t, p), z)
             q == Behind(p + i - 1, z)
         IN /\ q \in 1 .. Len(t) + 1
            /\ SubSeq(Rest(t, p), 1, i - 1) \in Seq(Char)
            /\ FirstPlace(SubSeq(Rest(t, p), 1, i - 1), z) = 0
            /\ (SubSeq(Rest(t, p), 1, i - 1) \o z) \o Rest(t, q) = Rest(t, p)
<1> DEFINE u == Rest(t, p)
           i == FirstPlace(u, z)
           q == Behind(p + i - 1, z)
<1>1. u \in Seq(Char)
  BY RestType
<1>2. i \in Nat /\ i # 0 /\ i + Len(z) - 1 <= Len(u) /\ SubSeq(u, i, i + Len(z) - 1) = z
  <2> HIDE DEF u
  <2> QED BY <1>1, FirstPlaceFacts DEF u
<1>3. SubSeq(u, 1, i - 1) \in Seq(Char) /\ FirstPlace(SubSeq(u, 1, i - 1), z) = 0
  <2>1. FirstPlace(u, z) # 0
    BY <1>2
  <2> HIDE DEF u
  <2> QED BY <1>1, <2>1, NoneInFront
<1>4. q \in Nat /\ q - p = i - 1 + Len(z)
  <2> HIDE DEF i
  <2> QED BY <1>2 DEF Behind
<1>5. q \in 1 .. Len(t) + 1 /\ (SubSeq(u, 1, i - 1) \o z) \o Rest(t, q) = u
  <2>1. /\ i + Len(z) - 1 <= Len(Rest(t, p))
        /\ SubSeq(Rest(t, p), i, i + Len(z) - 1) = z
    <3> HIDE DEF i
    <3> QED BY <1>2
  <2>2. i \in Nat /\ i # 0 /\ q \in Nat /\ q - p = i - 1 + Len(z)
    BY <1>2, <1>4
  <2> HIDE DEF i, q
  <2>3. /\ q \in 1 .. Len(t) + 1
        /\ (SubSeq(Rest(t, p), 1, i - 1) \o z) \o Rest(t, q) = Rest(t, p)
    BY <2>1, <2>2, PutTogether, ZenonT(30)
  <2> QED BY <2>3
<1> QED BY <1>3, <1>5

(* esl_separate_string_string for an array that is not empty.              *)
LEMMA SeparatedBy ==
  ASSUME NEW t \in Seq(Char), NEW z \in Seq(Char), z # <<>>, NEW m \in Nat, m # 0
  PROVE  \E d : Cuts(t, z, m, d) /\ Separated(t, z, m) = d[m][1]
<1> DEFINE Q == 1 .. Len(t) + 1
           T == [Q -> Seq(Seq(Char))]
           Cut(n, f, p) ==
             IF n = 1 \/ FirstPlace(Rest(t, p), z) = 0 THEN <<Rest(t, p)>>
             ELSE <<SubSeq(Rest(t, p), 1, FirstPlace(Rest(t, p), z) - 1)>>
                    \o f[n - 1][Behind(p + FirstPlace(Rest(t, p), z) - 1, z)]
           Step(n, f) == [p \in Q |-> Cut(n, f, p)]
           Raw(f) == [n \in 1 .. m |-> Step(n, f)]
           H == [n \in 1 .. m |-> [f \in [1 .. m -> T] |-> Step(n, f)]]
           d == CHOOSE f : f = Raw(f)
<1>1. Separated(t, z, m) = d[m][1]
  BY Zenon DEF Separated, Rest
<1>2. [p \in Q |-> <<>>] \in T
  OBVIOUS
<1>3. ASSUME NEW n \in 1 .. m, NEW f \in [1 .. m -> T], NEW p \in Q
      PROVE  Cut(n, f, p) \in Seq(Seq(Char))
  <2>1. Rest(t, p) \in Seq(Char)
    BY RestType
  <2>2. CASE n = 1 \/ FirstPlace(Rest(t, p), z) = 0
    <3> DEFINE u == Rest(t, p)
    <3>1. Cut(n, f, p) = <<u>>
      BY <2>2
    <3> HIDE DEF u
    <3>2. <<u>> \in Seq(Seq(Char))
      BY <2>1 DEF u
    <3> HIDE DEF Cut
    <3> QED BY <3>1, <3>2
  <2>3. CASE ~(n = 1 \/ FirstPlace(Rest(t, p), z) = 0)
    <3> DEFINE v == SubSeq(Rest(t, p), 1, FirstPlace(Rest(t, p), z) - 1)
               q == Behind(p + FirstPlace(Rest(t, p), z) - 1, z)
               r == f[n - 1][q]
    <3>1. v \in Seq(Char) /\ q \in Q
      BY <2>3, GoesOn
    <3>2. n - 1 \in 1 .. m
      BY <2>3
    <3>3. Cut(n, f, p) = <<v>> \o r
      BY <2>3
    <3> HIDE DEF v, q
    <3>4. r \in Seq(Seq(Char)) /\ <<v>> \in Seq(Seq(Char))
      <4>1. f[n - 1] \in T
        BY <3>2
      <4> HIDE DEF Q
      <4> QED BY <3>1, <4>1
    <3> HIDE DEF r, Cut
    <3> QED BY <3>3, <3>4, ConcatProperties
  <2> QED BY <2>2, <2>3
<1>4. ASSUME NEW n \in 1 .. m, NEW f, NEW g, \A j \in 1 .. n - 1 : f[j] = g[j]
      PROVE  Step(n, f) = Step(n, g)
  <2>1. CASE n = 1
    BY <2>1, Zenon
  <2>2. CASE n # 1
    <3>1. f[n - 1] = g[n - 1]
      <4>1. n - 1 \in 1 .. n - 1
        BY <2>2
      <4> QED BY <1>4, <4>1
    <3> QED BY <3>1, Zenon
  <2> QED BY <2>1, <2>2
<1>5. ASSUME NEW n \in 1 .. m, NEW f \in [1 .. m -> T] PROVE Step(n, f) \in T
  <2> HIDE DEF Cut
  <2> QED BY <1>3
<1>6. \A n \in 1 .. m : \A p \in Q : \A f : Raw(f)[n] = Step(n, f) /\ Step(n, f)[p] = Cut(n, f, p)
  BY Zenon
<1> HIDE DEF Step
<1>7. \A n \in 1 .. m : \A f \in [1 .. m -> T] : H[n][f] = Step(n, f)
  BY Zenon
<1>8. \E f : f = Raw(f)
  <2>1. Equation(1, m, T, H)
    <3>1. H \in [1 .. m -> [[1 .. m -> T] -> T]]
      <4> HIDE DEF T
      <4> QED BY <1>5
    <3> QED BY <3>1 DEF Equation
  <2>2. UsesBefore(1, m, T, H)
    <3> HIDE DEF H, T
    <3>1. ASSUME NEW i \in 1 .. m, NEW f \in [1 .. m -> T], NEW g \in [1 .. m -> T],
                 \A j \in 1 .. i - 1 : f[j] = g[j]
          PROVE  H[i][f] = H[i][g]
      <4>1. Step(i, f) = Step(i, g)
        BY <1>4, <3>1
      <4> QED BY <1>7, <4>1
    <3> QED BY <3>1 DEF UsesBefore
  <2>3. m \in Nat /\ 1 \in Nat
    OBVIOUS
  <2> DEFINE o == [p \in Q |-> <<>>]
  <2>4. o \in T
    BY <1>2
  <2> HIDE DEF H, T, o
  <2>5. PICK f : Solves(f, 1, m, T, H)
    BY <2>1, <2>2, <2>3, <2>4, Upward
  <2>6. f \in [1 .. m -> T] /\ \A i \in 1 .. m : f[i] = Step(i, f)
    BY <1>7, <2>5 DEF Solves
  <2>7. f = [i \in 1 .. m |-> f[i]]
    BY <2>6
  <2>8. f = Raw(f)
    BY <2>6, <2>7
  <2> QED BY <2>8
<1>9. d = Raw(d)
  <2> HIDE DEF Raw
  <2> QED BY <1>8
<1> HIDE DEF d, H, Raw, Cut
<1>10. \A n \in 1 .. m : \A p \in Q : d[n][p] = Cut(n, d, p)
  BY <1>6, <1>9
<1>11. Cuts(t, z, m, d)
  BY <1>10 DEF Cuts, Cut
<1> QED BY <1>1, <1>11

(* The pieces of q from each one on, with delimiters between them.         *)
Joins(q, z, f) ==
  \A x \in 1 .. Len(q) : f[x] = IF x = Len(q) THEN q[x] ELSE (q[x] \o z) \o f[x + 1]

Joined(q, z) ==
  CHOOSE f : f = [x \in DOMAIN q |-> IF x = Len(q) THEN q[x] ELSE (q[x] \o z) \o f[x + 1]]

LEMMA JoinedBy ==
  ASSUME NEW z \in Seq(Char), NEW q \in Seq(Seq(Char))
  PROVE  Joins(q, z, Joined(q, z))
<1> DEFINE n == Len(q)
           Step(x, f) == IF x = n THEN q[x] ELSE (q[x] \o z) \o f[x + 1]
           Raw(f) == [x \in DOMAIN q |-> Step(x, f)]
           T == Seq(Char)
           H == [x \in 1 .. n |-> [f \in [1 .. n -> T] |-> Step(x, f)]]
           d == Joined(q, z)
<1>1. d = CHOOSE f : f = Raw(f)
  BY Zenon DEF Joined
<1>2. n \in Nat /\ 1 \in Nat /\ <<>> \in T /\ DOMAIN q = 1 .. n
  OBVIOUS
<1>3. ASSUME NEW x \in 1 .. n, NEW f \in [1 .. n -> T] PROVE Step(x, f) \in T
  <2>1. CASE x = n
    BY <2>1
  <2>2. CASE x # n
    <3> DEFINE y == x + 1
               u == q[x]
    <3>1. y \in 1 .. n /\ u \in Seq(Char)
      BY <2>2
    <3>2. Step(x, f) = (u \o z) \o f[y]
      BY <2>2
    <3> HIDE DEF y, u, Step, n
    <3>3. u \o z \in Seq(Char) /\ f[y] \in Seq(Char)
      BY <3>1, ConcatProperties
    <3> DEFINE v == u \o z
               w == f[y]
    <3>4. v \in Seq(Char) /\ w \in Seq(Char)
      BY <3>3
    <3> HIDE DEF v, w
    <3>5. v \o w \in Seq(Char)
      BY <3>4, ConcatProperties
    <3> QED BY <3>2, <3>5 DEF v, w
  <2> QED BY <2>1, <2>2
<1>4. ASSUME NEW x \in 1 .. n, NEW f, NEW g, \A j \in x + 1 .. n : f[j] = g[j]
      PROVE  Step(x, f) = Step(x, g)
  <2>1. CASE x = n
    BY <2>1
  <2>2. CASE x # n
    <3>1. x + 1 \in x + 1 .. n
      BY <2>2
    <3>2. f[x + 1] = g[x + 1]
      BY <1>4, <3>1
    <3> QED BY <3>2
  <2> QED BY <2>1, <2>2
<1> HIDE DEF Step
<1>5. \A x \in 1 .. n : \A f \in [1 .. n -> T] : H[x][f] = Step(x, f)
  BY Zenon
<1>6. \A x \in DOMAIN q : \A f : Raw(f)[x] = Step(x, f)
  BY Zenon
<1>7. \E f : f = Raw(f)
  <2>1. Equation(1, n, T, H)
    <3>1. H \in [1 .. n -> [[1 .. n -> T] -> T]]
      <4> HIDE DEF T, n
      <4> QED BY <1>3
    <3> QED BY <3>1 DEF Equation
  <2>2. UsesBehind(1, n, T, H)
    <3> HIDE DEF H, T, n
    <3>1. ASSUME NEW i \in 1 .. n, NEW f \in [1 .. n -> T], NEW g \in [1 .. n -> T],
                 \A j \in i + 1 .. n : f[j] = g[j]
          PROVE  H[i][f] = H[i][g]
      <4>1. Step(i, f) = Step(i, g)
        BY <1>4, <3>1
      <4> QED BY <1>5, <4>1
    <3> QED BY <3>1 DEF UsesBehind
  <2> DEFINE o == <<>>
  <2>3. o \in T
    BY <1>2
  <2> HIDE DEF H, T, n, o
  <2>4. PICK f : Solves(f, 1, n, T, H)
    BY <1>2, <2>1, <2>2, <2>3, Downward
  <2>5. f \in [1 .. n -> T] /\ \A x \in 1 .. n : f[x] = Step(x, f)
    BY <1>5, <2>4 DEF Solves
  <2>6. f = [x \in DOMAIN q |-> f[x]]
    BY <1>2, <2>5
  <2>7. f = Raw(f)
    BY <1>2, <2>5, <2>6
  <2> QED BY <2>7
<1>8. d = Raw(d)
  <2> HIDE DEF Raw, d
  <2> QED BY <1>1, <1>7
<1> HIDE DEF d, H, Raw
<1>9. \A x \in 1 .. n : d[x] = Step(x, d)
  BY <1>2, <1>6, <1>8
<1> QED BY <1>9 DEF Joins, Step, d

(* What is promised of the pieces q when the text is cut from p on into an *)
(* array of n places.                                                      *)
Proper(t, z, n, p, q) ==
  /\ q \in Seq(Seq(Char)) /\ Len(q) \in 1 .. n
  /\ \A x \in 1 .. Len(q) : FirstPlace(q[x], z) = 0 \/ (x = n /\ x = Len(q))
  /\ \A f : Joins(q, z, f) => f[1] = Rest(t, p)

LEMMA OnePiece ==
  ASSUME NEW t \in Seq(Char), NEW z \in Seq(Char), NEW n \in Nat \ {0},
         NEW p \in 1 .. Len(t) + 1, n = 1 \/ FirstPlace(Rest(t, p), z) = 0
  PROVE  Proper(t, z, n, p, <<Rest(t, p)>>)
<1> DEFINE u == Rest(t, p)
           q == <<u>>
<1>1. u \in Seq(Char)
  BY RestType
<1>2. n = 1 \/ FirstPlace(u, z) = 0
  OBVIOUS
<1> HIDE DEF u
<1>3. q \in Seq(Seq(Char)) /\ Len(q) = 1 /\ q[1] = u
  BY <1>1
<1> HIDE DEF q
<1>4. ASSUME NEW x \in 1 .. Len(q) PROVE FirstPlace(q[x], z) = 0 \/ (x = n /\ x = Len(q))
  <2>1. x = 1
    BY <1>3
  <2> QED BY <1>2, <1>3, <2>1
<1>5. ASSUME NEW f, Joins(q, z, f) PROVE f[1] = u
  <2>1. 1 \in 1 .. Len(q) /\ Len(q) = 1
    BY <1>3
  <2> QED BY <1>3, <1>5, <2>1 DEF Joins
<1>6. Len(q) \in 1 .. n
  BY <1>3
<1> QED BY <1>3, <1>4, <1>5, <1>6 DEF Proper, u, q

LEMMA MorePieces ==
  ASSUME NEW t \in Seq(Char), NEW z \in Seq(Char), NEW n \in Nat \ {0}, NEW h \in Nat \ {0},
         Follows(h, n), NEW p \in 1 .. Len(t) + 1, NEW k \in 1 .. Len(t) + 1,
         NEW v \in Seq(Char), FirstPlace(v, z) = 0, (v \o z) \o Rest(t, k) = Rest(t, p),
         NEW r, Proper(t, z, h, k, r)
  PROVE  Proper(t, z, n, p, <<v>> \o r)
<1> DEFINE a == <<v>>
           q == a \o r
           l == Len(r)
<1>1. /\ r \in Seq(Seq(Char)) /\ l \in 1 .. h /\ l \in Nat /\ h \in Nat
      /\ \A x \in 1 .. l : FirstPlace(r[x], z) = 0 \/ (x = h /\ x = l)
      /\ \A f : Joins(r, z, f) => f[1] = Rest(t, k)
  BY DEF Proper
<1>2. a \in Seq(Seq(Char)) /\ Len(a) = 1 /\ a[1] = v
  OBVIOUS
<1> HIDE DEF a
<1>3. /\ q \in Seq(Seq(Char)) /\ Len(q) = Len(a) + Len(r)
      /\ \A x \in 1 .. Len(a) + Len(r) : q[x] = IF x <= Len(a) THEN a[x] ELSE r[x - Len(a)]
  <2>1. a \in Seq(Seq(Char)) /\ r \in Seq(Seq(Char))
    BY <1>1, <1>2
  <2> DEFINE E == Seq(Char)
  <2>2. a \in Seq(E) /\ r \in Seq(E)
    BY <2>1
  <2> HIDE DEF E
  <2>3. /\ q \in Seq(E) /\ Len(q) = Len(a) + Len(r)
        /\ \A x \in 1 .. Len(a) + Len(r) : q[x] = IF x <= Len(a) THEN a[x] ELSE r[x - Len(a)]
    BY <2>2, ConcatProperties
  <2> QED BY <2>3 DEF E
<1> HIDE DEF q, l
<1>4. Len(q) = 1 + l /\ q[1] = v
  BY <1>1, <1>2, <1>3 DEF l
<1>5. ASSUME NEW x \in 1 .. l PROVE q[x + 1] = r[x]
  <2> DEFINE y == x + 1
  <2>1. y \in 1 .. 1 + l /\ ~(y <= 1) /\ y - 1 = x
    BY <1>1
  <2> HIDE DEF y
  <2>2. q[y] = r[y - 1]
    BY <1>2, <1>3, <2>1 DEF l
  <2> QED BY <2>1, <2>2 DEF y
<1>6. n - 1 = h
  BY DEF Follows
<1>7. Len(q) \in 1 .. n
  BY <1>1, <1>4, <1>6
<1>8. ASSUME NEW x \in 1 .. Len(q) PROVE FirstPlace(q[x], z) = 0 \/ (x = n /\ x = Len(q))
  <2>1. CASE x = 1
    BY <1>4, <2>1
  <2>2. CASE x # 1
    <3> DEFINE y == x - 1
    <3>1. y \in 1 .. l /\ y + 1 = x
      BY <1>1, <1>4, <2>2
    <3>2. (y = h => x = n) /\ (y = l => x = Len(q))
      BY <1>1, <1>4, <1>6
    <3> HIDE DEF y
    <3>3. q[x] = r[y]
      BY <1>5, <3>1
    <3>4. FirstPlace(r[y], z) = 0 \/ (y = h /\ y = l)
      BY <1>1, <3>1
    <3> QED BY <3>2, <3>3, <3>4
  <2> QED BY <2>1, <2>2
<1>9. ASSUME NEW f, Joins(q, z, f) PROVE f[1] = Rest(t, p)
  <2> DEFINE g == [x \in 1 .. l |-> f[x + 1]]
  <2>1. \A x \in 1 .. Len(q) : f[x] = IF x = Len(q) THEN q[x] ELSE (q[x] \o z) \o f[x + 1]
    BY <1>9 DEF Joins
  <2>2. \A x \in 1 .. l : g[x] = f[x + 1]
    BY Zenon
  <2> HIDE DEF g
  <2>3. ASSUME NEW x \in 1 .. l
        PROVE  g[x] = IF x = l THEN r[x] ELSE (r[x] \o z) \o g[x + 1]
    <3> DEFINE y == x + 1
    <3>1. y \in 1 .. Len(q) /\ (x = l <=> y = Len(q)) /\ (x # l => x + 1 \in 1 .. l)
      BY <1>1, <1>4
    <3>2. g[x] = f[y] /\ q[y] = r[x] /\ (x # l => g[y] = f[y + 1])
      BY <1>5, <2>2, <3>1
    <3> HIDE DEF y
    <3>3. f[y] = IF y = Len(q) THEN q[y] ELSE (q[y] \o z) \o f[y + 1]
      BY <2>1, <3>1
    <3>4. CASE x = l
      BY <3>1, <3>2, <3>3, <3>4
    <3>5. CASE x # l
      BY <3>1, <3>2, <3>3, <3>5 DEF y
    <3> QED BY <3>4, <3>5
  <2>4. Joins(r, z, g)
    BY <2>3 DEF Joins, l
  <2>5. g[1] = Rest(t, k)
    BY <1>1, <2>4
  <2>6. 1 \in 1 .. l /\ 1 \in 1 .. Len(q) /\ 1 # Len(q)
    BY <1>1, <1>4
  <2>7. f[1] = (q[1] \o z) \o f[1 + 1]
    BY <2>1, <2>6
  <2>8. f[1 + 1] = Rest(t, k)
    BY <2>2, <2>5, <2>6
  <2> QED BY <1>4, <2>7, <2>8
<1> QED BY <1>3, <1>7, <1>8, <1>9 DEF Proper, q, a

LEMMA AllPieces ==
  ASSUME NEW t \in Seq(Char), NEW z \in Seq(Char), z # <<>>, NEW m \in Nat, m # 0,
         NEW d, Cuts(t, z, m, d)
  PROVE  Proper(t, z, m, 1, d[m][1])
<1> DEFINE Q == 1 .. Len(t) + 1
           Good(n) == \A p \in Q : Proper(t, z, n, p, d[n][p])
           G == {n \in 0 .. m : n # 0 => Good(n)}
<1>1. ASSUME NEW n \in 0 .. m, (0 .. n - 1) \subseteq G PROVE n \in G
  <2> SUFFICES ASSUME n # 0, NEW p \in Q PROVE Proper(t, z, n, p, d[n][p])
    OBVIOUS
  <2> DEFINE u == Rest(t, p)
             i == FirstPlace(u, z)
             k == Behind(p + i - 1, z)
             v == SubSeq(u, 1, i - 1)
             h == n - 1
  <2>1. n \in 1 .. m /\ n \in Nat \ {0}
    OBVIOUS
  <2>2. d[n][p] = IF n = 1 \/ i = 0 THEN <<u>> ELSE <<v>> \o d[h][k]
    BY <2>1 DEF Cuts
  <2>3. CASE n = 1 \/ i = 0
    <3>1. Proper(t, z, n, p, <<u>>)
      BY <2>1, <2>3, OnePiece
    <3> HIDE DEF u, i, v
    <3> QED BY <2>2, <2>3, <3>1
  <2>4. CASE ~(n = 1 \/ i = 0)
    <3>1. /\ k \in Q /\ v \in Seq(Char) /\ FirstPlace(v, z) = 0
          /\ (v \o z) \o Rest(t, k) = Rest(t, p)
      BY <2>4, GoesOn
    <3>2. h \in Nat \ {0} /\ h \in 0 .. n - 1 /\ Follows(h, n)
      BY <2>1, <2>4 DEF Follows
    <3> DEFINE r == d[h][k]
    <3> HIDE DEF h, k, v, i, u
    <3>3. h \in G /\ h # 0
      BY <1>1, <3>2
    <3>4. Proper(t, z, h, k, r)
      BY <3>1, <3>3
    <3>5. d[n][p] = <<v>> \o r
      BY <2>2, <2>4
    <3> HIDE DEF r, G
    <3>6. Proper(t, z, n, p, <<v>> \o r)
      BY <2>1, <3>1, <3>2, <3>4, MorePieces
    <3> QED BY <3>5, <3>6
  <2> QED BY <2>3, <2>4
<1>2. G = 0 .. m
  <2>1. G \in SUBSET (0 .. m)
    OBVIOUS
  <2> HIDE DEF G
  <2> QED BY <1>1, <2>1, FromTheStart
<1>3. m \in G /\ 1 \in Q
  BY <1>2
<1> QED BY <1>3

(* For texts of any length, any delimiter and any array,                   *)
(* esl_separate_string_string loses nothing: the pieces with delimiters    *)
(* between them are the text, and only the last piece of a full array      *)
(* contains delimiters.                                                    *)
THEOREM AnyDelimiter ==
  ASSUME NEW t \in Seq(Char), NEW z \in Seq(Char), z # <<>>, NEW n \in Nat, n # 0
  PROVE  /\ Joined(Separated(t, z, n), z)[1] = t
         /\ Len(Separated(t, z, n)) <= n
         /\ \A i \in DOMAIN Separated(t, z, n) :
              \/ FirstPlace(Separated(t, z, n)[i], z) = 0
              \/ i = n /\ i = Len(Separated(t, z, n))
<1> DEFINE q == Separated(t, z, n)
<1>1. PICK d : Cuts(t, z, n, d) /\ q = d[n][1]
  BY SeparatedBy
<1> HIDE DEF q
<1>2. Proper(t, z, n, 1, q)
  BY <1>1, AllPieces
<1>3. q \in Seq(Seq(Char)) /\ Len(q) \in 1 .. n
  BY <1>2 DEF Proper
<1>4. Joined(q, z)[1] = Rest(t, 1)
  BY <1>2, <1>3, JoinedBy DEF Proper
<1>5. Rest(t, 1) = t
  <2> DEFINE w == Rest(t, 1)
  <2>1. 1 \in 1 .. Len(t) + 1 /\ Len(t) - 1 + 1 = Len(t)
    OBVIOUS
  <2>2. w \in Seq(Char) /\ Len(w) = Len(t) /\ \A x \in 1 .. Len(w) : w[x] = t[x]
    BY DEF Rest
  <2> HIDE DEF w
  <2>3. w = t
    BY <2>2, SeqEqual
  <2> QED BY <2>3 DEF w
<1>6. DOMAIN q = 1 .. Len(q) /\ Len(q) <= n
  BY <1>3
<1>7. \A i \in DOMAIN q : FirstPlace(q[i], z) = 0 \/ (i = n /\ i = Len(q))
  BY <1>2, <1>6 DEF Proper
<1> QED BY <1>4, <1>5, <1>6, <1>7 DEF q

(* The same of the delimiters and arrays of the run: nothing is lost when  *)
(* esl_separate_string_string cuts a text.                                 *)
THEOREM NothingIsLost ==
  ASSUME s \in Seq(Char)
  PROVE  Rejoins
<1>1. ASSUME NEW z \in Delimiter, NEW n \in 1 .. Len(s) + 1
      PROVE  /\ Joined(Separated(s, z, n), z)[1] = s
             /\ Len(Separated(s, z, n)) <= n
             /\ \A i \in DOMAIN Separated(s, z, n) :
                  \/ FirstPlace(Separated(s, z, n)[i], z) = 0
                  \/ i = n /\ i = Len(Separated(s, z, n))
  <2>1. z \in Seq(Char) /\ z # <<>>
    <3>1. 97 \in Char /\ 98 \in Char
      BY DEF Char
    <3>2. CASE z = <<97>>
      BY <3>1, <3>2
    <3>3. CASE z = <<97, 97>>
      BY <3>1, <3>3
    <3>4. CASE z = <<97, 98>>
      BY <3>1, <3>4
    <3> QED BY <3>2, <3>3, <3>4 DEF Delimiter
  <2>2. n \in Nat /\ n # 0
    OBVIOUS
  <2> QED BY <2>1, <2>2, AnyDelimiter
<1> QED BY <1>1, Zenon DEF Rejoins, Joined

-----------------------------------------------------------------------------
(* The first place of a character.                                         *)
LEMMA FirstOfFacts ==
  ASSUME NEW T, NEW t \in Seq(T), NEW ch
  PROVE  /\ FirstOf(t, ch) \in 0 .. Len(t)
         /\ FirstOf(t, ch) = 0 => \A i \in DOMAIN t : t[i] # ch
         /\ FirstOf(t, ch) # 0 => /\ t[FirstOf(t, ch)] = ch
                                  /\ \A j \in 1 .. FirstOf(t, ch) - 1 : t[j] # ch
<1> DEFINE P == {i \in DOMAIN t : t[i] = ch}
           First(i) == i \in DOMAIN t /\ t[i] = ch /\ \A j \in 1 .. i - 1 : t[j] # ch
<1>1. DOMAIN t = 1 .. Len(t) /\ Len(t) \in Nat
  OBVIOUS
<1>2. FirstOf(t, ch) = IF \E i \in DOMAIN t : t[i] = ch
                       THEN CHOOSE i \in DOMAIN t : t[i] = ch /\ \A j \in 1 .. i - 1 : t[j] # ch
                       ELSE 0
  BY DEF FirstOf
<1>3. CASE P = {}
  <2>1. \A i \in DOMAIN t : t[i] # ch
    BY <1>3
  <2> QED BY <1>1, <1>2, <2>1
<1>4. CASE P # {}
  <2>1. P \in SUBSET Nat /\ \A i : i \in P <=> i \in DOMAIN t /\ t[i] = ch
    BY <1>1
  <2> HIDE DEF P
  <2>2. PICK p \in P : \A q \in P : p <= q
    BY <1>4, <2>1, LeastNatural
  <2>3. ASSUME NEW j \in 1 .. p - 1 PROVE t[j] # ch
    <3>1. j \in DOMAIN t /\ ~(p <= j)
      BY <1>1, <2>1, <2>2
    <3> QED BY <2>1, <2>2, <3>1
  <2>4. First(p)
    BY <2>1, <2>2, <2>3
  <2>5. \E i \in DOMAIN t : t[i] = ch /\ \A j \in 1 .. i - 1 : t[j] # ch
    BY <2>4
  <2>6. First(FirstOf(t, ch))
    BY <1>2, <2>5
  <2> QED BY <1>1, <2>6
<1> QED BY <1>3, <1>4

-----------------------------------------------------------------------------
(* The CAS bits.                                                           *)

LEMMA Weights == Weight(1) = 8 /\ Weight(2) = 4 /\ Weight(3) = 2 /\ Weight(4) = 1
BY DEF Weight

(* The four characters behind the first colon are read as a binary number. *)
THEOREM CasBitsBinary ==
  ASSUME NEW T, s \in Seq(T)
  PROVE  CasBitsAreBinary
<1> DEFINE colon == FirstOf(s, ":")
           good == colon # 0 /\ colon + 4 <= Len(s) /\ \A i \in 1 .. 4 : s[colon + i] \in {"0", "1"}
           b(i) == IF s[colon + i] = "1" THEN 1 ELSE 0
           v(i) == IF s[colon + i] = "1" THEN Weight(i) ELSE 0
<1>1. CasBits(s) = IF good THEN v(1) + v(2) + v(3) + v(4) ELSE -1
  <2>1. colon \in Nat
    BY FirstOfFacts
  <2>2. CasBits(s) =
          IF colon = 0 \/ colon + 4 > Len(s) \/ \E i \in 1 .. 4 : s[colon + i] \notin {"0", "1"}
          THEN -1 ELSE v(1) + v(2) + v(3) + v(4)
    BY DEF CasBits
  <2> HIDE DEF v
  <2> QED BY <2>1, <2>2
<1>2. /\ v(1) = 8 * b(1) /\ v(2) = 4 * b(2) /\ v(3) = 2 * b(3) /\ v(4) = b(4)
      /\ b(1) \in Nat /\ b(2) \in Nat /\ b(3) \in Nat /\ b(4) \in Nat
  BY Weights
<1> HIDE DEF v, b
<1>3. v(1) + v(2) + v(3) + v(4) = ((2 * b(1) + b(2)) * 2 + b(3)) * 2 + b(4)
  BY <1>2, SMTT(20)
<1>4. CasBits(s) = IF good THEN ((2 * b(1) + b(2)) * 2 + b(3)) * 2 + b(4) ELSE -1
  BY <1>1, <1>3
<1> QED BY <1>4 DEF CasBitsAreBinary, b

-----------------------------------------------------------------------------
(* One line.                                                               *)

(* A part of a text.                                                       *)
LEMMA PartFacts ==
  ASSUME NEW T, NEW t \in Seq(T), NEW a \in 1 .. Len(t) + 1, NEW b \in a - 1 .. Len(t)
  PROVE  /\ SubSeq(t, a, b) \in Seq(T) /\ Len(SubSeq(t, a, b)) = b - a + 1
         /\ \A i \in 1 .. b - a + 1 : SubSeq(t, a, b)[i] = t[a + i - 1]
OBVIOUS

LEMMA PartOfPart ==
  ASSUME NEW T, NEW t \in Seq(T), NEW a \in 1 .. Len(t) + 1, NEW b \in a - 1 .. Len(t),
         NEW c \in 1 .. b - a + 2, NEW d \in c - 1 .. b - a + 1
  PROVE  SubSeq(SubSeq(t, a, b), c, d) = SubSeq(t, a + c - 1, a + d - 1)
<1> DEFINE u == SubSeq(t, a, b)
           x == SubSeq(u, c, d)
           y == SubSeq(t, a + c - 1, a + d - 1)
<1>1. /\ u \in Seq(T) /\ Len(u) = b - a + 1
      /\ \A i \in 1 .. b - a + 1 : u[i] = t[a + i - 1]
  BY PartFacts
<1> HIDE DEF u
<1>2. /\ x \in Seq(T) /\ Len(x) = d - c + 1
      /\ \A i \in 1 .. d - c + 1 : x[i] = u[c + i - 1]
  BY <1>1, PartFacts
<1>3. a + c - 1 \in 1 .. Len(t) + 1 /\ a + d - 1 \in a + c - 1 - 1 .. Len(t)
      /\ a + d - 1 - (a + c - 1) + 1 = d - c + 1
  OBVIOUS
<1>4. /\ y \in Seq(T) /\ Len(y) = d - c + 1
      /\ \A i \in 1 .. d - c + 1 : y[i] = t[a + c - 1 + i - 1]
  BY <1>3, PartFacts
<1> HIDE DEF x, y
<1>5. \A i \in 1 .. Len(x) : x[i] = y[i]
  BY <1>1, <1>2, <1>4
<1>6. x = y
  BY <1>2, <1>4, <1>5, SeqEqual
<1> QED BY <1>6 DEF x, y, u

(* A line as it is read.                                                   *)
LEMMA LineFacts ==
  ASSUME NEW T, s \in Seq(T), IsLine
  PROVE  /\ Len(s) \in Nat /\ Len(s) >= 1 /\ DOMAIN s = 1 .. Len(s)
         /\ s[1] # LineFeed /\ \A i \in 1 .. Len(s) : s[i] = LineFeed => i = Len(s)
<1>1. s # <<>>
  BY Zenon DEF IsLine
<1>2. s[1] # LineFeed /\ \A i \in DOMAIN s : s[i] = LineFeed => i = Len(s)
  BY Zenon DEF IsLine
<1>3. Len(s) \in Nat /\ DOMAIN s = 1 .. Len(s)
  OBVIOUS
<1>4. Len(s) >= 1
  BY <1>1
<1> QED BY <1>2, <1>3, <1>4, Zenon

(* The text that TextOf finds is the one that the line shows, and the      *)
(* pointer end is on its last character only in front of a comment.        *)
LEMMA TextOfFacts ==
  ASSUME NEW T, s \in Seq(T), IsLine
  PROVE  LET t == TextOf(s)
         IN /\ t.text = Shown /\ t.text \in Seq(T)
            /\ \/ Commented /\ t.end = Len(t.text)
               \/ t.end = Len(t.text) + 1
               \/ t.end = 0
<1> DEFINE n == Len(s)
           sc == ";"
           semi == FirstOf(s, sc)
           lf == FirstOf(s, LineFeed)
           stop == IF lf > 1 /\ s[lf - 1] = Return THEN lf - 1 ELSE lf
           t == TextOf(s)
<1>1. n \in Nat /\ n >= 1 /\ s[1] # LineFeed /\ \A i \in 1 .. n : s[i] = LineFeed => i = n
  BY LineFacts
<1>2. semi \in 0 .. n
  BY FirstOfFacts
<1>3. lf \in 0 .. n /\ (lf = 0 => \A i \in 1 .. n : s[i] # LineFeed) /\ (lf # 0 => s[lf] = LineFeed)
  BY FirstOfFacts
<1>4. Commented <=> semi > 0 /\ semi < n /\ s[semi + 1] = sc
  BY DEF Commented
<1>5. t = IF Commented THEN [text |-> SubSeq(s, 1, semi - 1), end |-> semi - 1]
          ELSE IF lf > 0 THEN [text |-> SubSeq(s, 1, stop - 1), end |-> stop]
          ELSE [text |-> s, end |-> 0]
  BY <1>4 DEF TextOf
<1> HIDE DEF t, semi, lf, sc
<1>6. CASE Commented
  <2>1. t.text = SubSeq(s, 1, semi - 1) /\ t.end = semi - 1
    BY <1>5, <1>6
  <2>2. Shown = SubSeq(s, 1, semi - 1)
    BY <1>6 DEF Shown, semi, sc
  <2>3. Len(t.text) = semi - 1 /\ t.text \in Seq(T)
    BY <1>2, <1>4, <1>6, <2>1
  <2> QED BY <1>6, <2>1, <2>2, <2>3 DEF t
<1>7. CASE ~Commented /\ lf # 0
  <2>1. lf = n /\ n > 1 /\ s[n] = LineFeed
    BY <1>1, <1>3, <1>7
  <2>2. t.text = SubSeq(s, 1, stop - 1) /\ t.end = stop
    BY <1>3, <1>5, <1>7
  <2> DEFINE f == Front(s)
  <2>3. f \in Seq(T) /\ Len(f) = n - 1 /\ f = SubSeq(s, 1, n - 1) /\ Last(f) = s[n - 1] /\ f # <<>>
    <3>1. f = SubSeq(s, 1, n - 1)
      BY DEF Front
    <3> HIDE DEF f
    <3>2. f \in Seq(T) /\ Len(f) = n - 1 /\ \A i \in 1 .. n - 1 : f[i] = s[i]
      BY <1>1, <2>1, <3>1
    <3>3. Last(f) = s[n - 1] /\ f # <<>>
      BY <1>1, <2>1, <3>2 DEF Last
    <3> QED BY <3>1, <3>2, <3>3
  <2>4. Shown = IF Ends(f, Return) THEN Front(f) ELSE f
    <3>1. Ends(s, LineFeed)
      BY <2>1 DEF Ends, Last
    <3> QED BY <1>7, <3>1 DEF Shown
  <2> HIDE DEF f
  <2>5. CASE s[n - 1] = Return
    <3>1. stop = n - 1
      BY <2>1, <2>5
    <3>2. Shown = Front(f)
      BY <2>3, <2>4, <2>5 DEF Ends
    <3>3. Front(f) = SubSeq(SubSeq(s, 1, n - 1), 1, n - 2)
      BY <2>3, <1>1 DEF Front
    <3>4. SubSeq(SubSeq(s, 1, n - 1), 1, n - 2) = SubSeq(s, 1 + 1 - 1, 1 + (n - 2) - 1)
      <4>1. /\ 1 \in 1 .. n + 1 /\ n - 1 \in 1 - 1 .. n /\ 1 \in 1 .. n - 1 - 1 + 2
            /\ n - 2 \in 1 - 1 .. n - 1 - 1 + 1
        BY <1>1, <2>1
      <4> QED BY <4>1, PartOfPart
    <3>5. Shown = SubSeq(s, 1, n - 2)
      BY <1>1, <3>2, <3>3, <3>4
    <3>6. t.text = SubSeq(s, 1, n - 2) /\ t.end = n - 1
      BY <1>1, <2>2, <3>1
    <3>7. Len(t.text) = n - 2 /\ t.text \in Seq(T)
      BY <1>1, <2>1, <3>6
    <3> QED BY <1>1, <3>5, <3>6, <3>7 DEF t
  <2>6. CASE s[n - 1] # Return
    <3>1. stop = n
      BY <2>1, <2>6
    <3>2. Shown = f
      BY <2>3, <2>4, <2>6 DEF Ends
    <3>3. t.text = SubSeq(s, 1, n - 1) /\ t.end = n
      BY <2>2, <3>1
    <3> QED BY <1>1, <2>3, <3>2, <3>3 DEF t
  <2> QED BY <2>5, <2>6
<1>8. CASE ~Commented /\ lf = 0
  <2>1. ~Ends(s, LineFeed)
    BY <1>1, <1>3, <1>8 DEF Ends, Last
  <2>2. Shown = s
    BY <1>8, <2>1 DEF Shown
  <2>3. t.text = s /\ t.end = 0
    BY <1>5, <1>8
  <2> QED BY <2>2, <2>3 DEF t
<1> QED BY <1>3, <1>6, <1>7, <1>8

(* Past the blanks is the first place that is no blank, or end.            *)
LEMMA PastBlanksFacts ==
  ASSUME NEW T, NEW t \in Seq(T), NEW p \in 1 .. Len(t) + 1, NEW end
  PROVE  LET q == PastBlanks(t, p, end)
         IN /\ q \in p .. Len(t) + 1
            /\ \A i \in p .. q - 1 : Blank(t[i]) /\ i # end
            /\ q > Len(t) \/ ~Blank(t[q]) \/ q = end
<1> DEFINE S == {q \in p .. Len(t) + 1 : q > Len(t) \/ ~Blank(t[q]) \/ q = end}
           Good(q) == /\ q \in p .. Len(t) + 1
                      /\ \A i \in p .. q - 1 : Blank(t[i]) /\ i # end
                      /\ q > Len(t) \/ ~Blank(t[q]) \/ q = end
<1>1. S \in SUBSET Nat /\ Len(t) + 1 \in S
  OBVIOUS
<1>2. \A q : q \in S <=> q \in p .. Len(t) + 1 /\ (q > Len(t) \/ ~Blank(t[q]) \/ q = end)
  OBVIOUS
<1> HIDE DEF S
<1>3. PICK q \in S : \A r \in S : q <= r
  BY <1>1, LeastNatural
<1>4. ASSUME NEW i \in p .. q - 1 PROVE Blank(t[i]) /\ i # end
  <2>1. q \in p .. Len(t) + 1
    BY <1>2
  <2>2. i \in p .. Len(t) + 1 /\ ~(q <= i)
    BY <2>1
  <2>3. i \notin S
    BY <1>3, <2>2
  <2> QED BY <1>2, <2>2, <2>3
<1>5. Good(q)
  BY <1>2, <1>3, <1>4
<1>6. PastBlanks(t, p, end) = CHOOSE r \in p .. Len(t) + 1 :
        /\ \A i \in p .. r - 1 : Blank(t[i]) /\ i # end
        /\ r > Len(t) \/ ~Blank(t[r]) \/ r = end
  BY DEF PastBlanks
<1>7. Good(PastBlanks(t, p, end))
  BY <1>5, <1>6
<1> QED BY <1>7

LEMMA TrimmedRightFacts ==
  ASSUME NEW T, NEW t \in Seq(T)
  PROVE  \E b \in 0 .. Len(t) : /\ TrimmedRight(t) = SubSeq(t, 1, b)
                                /\ \A i \in b + 1 .. Len(t) : Blank(t[i])
                                /\ b # 0 => ~Blank(t[b])
<1> DEFINE kept == {i \in DOMAIN t : ~Blank(t[i])}
           b == IF kept = {} THEN 0 ELSE CHOOSE i \in kept : \A j \in kept : j <= i
<1>1. DOMAIN t = 1 .. Len(t) /\ Len(t) \in Nat
  OBVIOUS
<1>2. TrimmedRight(t) = SubSeq(t, 1, b)
  BY DEF TrimmedRight
<1>3. \A i : i \in kept <=> i \in 1 .. Len(t) /\ ~Blank(t[i])
  OBVIOUS
<1>4. CASE kept = {}
  <2>1. b = 0
    BY <1>4
  <2> HIDE DEF kept, b
  <2> QED BY <1>1, <1>2, <1>3, <1>4, <2>1
<1>5. CASE kept # {}
  <2> DEFINE S == {m \in Nat : \E i \in kept : m = Len(t) - i}
  <2>1. S \in SUBSET Nat
    OBVIOUS
  <2>2. S # {}
    <3>1. PICK i \in kept : TRUE
      BY <1>5
    <3>2. Len(t) - i \in S
      BY <1>1, <1>3
    <3> QED BY <3>2
  <2>3. \A i \in kept : Len(t) - i \in S
    BY <1>1, <1>3
  <2>4. \A m \in S : \E i \in kept : m = Len(t) - i
    OBVIOUS
  <2> HIDE DEF S
  <2>5. PICK m \in S : \A l \in S : m <= l
    BY <2>1, <2>2, LeastNatural
  <2>6. PICK k \in kept : m = Len(t) - k
    BY <2>4
  <2> HIDE DEF kept
  <2>7. \A j \in kept : j <= k
    <3>1. ASSUME NEW j \in kept PROVE j <= k
      <4>1. m <= Len(t) - j
        BY <2>3, <2>5
      <4> QED BY <1>1, <1>3, <2>6, <4>1
    <3> QED BY <3>1
  <2>8. b \in kept /\ \A j \in kept : j <= b
    BY <1>5, <2>7
  <2> HIDE DEF b
  <2>9. ASSUME NEW i \in b + 1 .. Len(t) PROVE Blank(t[i])
    <3>1. i \in 1 .. Len(t) /\ ~(i <= b)
      BY <1>3, <2>8
    <3> QED BY <1>3, <2>8, <3>1
  <2>10. b \in 0 .. Len(t) /\ ~Blank(t[b])
    BY <1>1, <1>3, <2>8
  <2> QED BY <1>2, <2>9, <2>10
<1> QED BY <1>4, <1>5

(* What is left of the equals sign, and what is right of it or its arrow.  *)
LEMMA NameFacts ==
  ASSUME NEW T, NEW t \in Seq(T), NEW eqc, ~Blank(eqc), NEW end,
         end = Len(t) \/ end = Len(t) + 1 \/ end = 0
  PROVE  LET v == PastBlanks(t, 1, end)
             rest == SubSeq(t, v, Len(t))
             k == FirstOf(rest, eqc)
             eq == FirstOf(t, eqc)
             var == TrimmedRight(SubSeq(t, v, eq - 1))
         IN /\ k = 0 <=> eq = 0
            /\ eq # 0 => /\ v - 1 + k = eq
                         /\ TrimOf(var, SubSeq(t, 1, eq - 1))
                         /\ var # <<>> => ~Blank(var[1]) /\ ~Blank(Last(var))
<1> DEFINE n == Len(t)
           v == PastBlanks(t, 1, end)
           rest == SubSeq(t, v, n)
           k == FirstOf(rest, eqc)
           eq == FirstOf(t, eqc)
           x == SubSeq(t, v, eq - 1)
           var == TrimmedRight(x)
<1>1. n \in Nat /\ DOMAIN t = 1 .. n /\ 1 \in 1 .. n + 1
  OBVIOUS
<1>2. /\ v \in 1 .. n + 1 /\ \A i \in 1 .. v - 1 : Blank(t[i]) /\ i # end
      /\ v > n \/ ~Blank(t[v]) \/ v = end
  BY <1>1, PastBlanksFacts
<1>3. /\ eq \in 0 .. n /\ (eq = 0 => \A i \in 1 .. n : t[i] # eqc)
      /\ (eq # 0 => t[eq] = eqc /\ \A j \in 1 .. eq - 1 : t[j] # eqc)
  BY <1>1, FirstOfFacts
<1> HIDE DEF v
<1>4. rest \in Seq(T) /\ Len(rest) = n - v + 1 /\ \A i \in 1 .. n - v + 1 : rest[i] = t[v + i - 1]
  BY <1>1, <1>2, PartFacts
<1> HIDE DEF rest
<1>5. /\ k \in 0 .. n - v + 1 /\ (k = 0 => \A i \in 1 .. n - v + 1 : rest[i] # eqc)
      /\ (k # 0 => rest[k] = eqc /\ \A j \in 1 .. k - 1 : rest[j] # eqc)
  <2>1. DOMAIN rest = 1 .. n - v + 1
    BY <1>4
  <2> QED BY <1>4, <2>1, FirstOfFacts
<1> HIDE DEF k, eq, n
<1>6. ASSUME eq # 0 PROVE v <= eq /\ k # 0 /\ v - 1 + k = eq
  <2>1. v <= eq
    <3>1. ASSUME ~(v <= eq) PROVE FALSE
      <4>1. eq \in 1 .. v - 1
        BY <1>2, <1>3, <1>6, <3>1
      <4>2. Blank(t[eq]) /\ t[eq] = eqc
        BY <1>2, <1>3, <1>6, <4>1
      <4> QED BY <4>2
    <3> QED BY <3>1
  <2> DEFINE d == eq - v + 1
  <2>2. d \in 1 .. n - v + 1 /\ v + d - 1 = eq
    BY <1>1, <1>2, <1>3, <2>1
  <2>3. rest[d] = eqc
    BY <1>3, <1>4, <1>6, <2>2
  <2> HIDE DEF d
  <2>4. k # 0
    BY <1>5, <2>2, <2>3
  <2>5. k <= d
    <3>1. ASSUME ~(k <= d) PROVE FALSE
      <4>1. d \in 1 .. k - 1
        BY <1>1, <1>2, <1>5, <2>2, <3>1
      <4> QED BY <1>5, <2>3, <2>4, <4>1
    <3> QED BY <3>1
  <2>6. d <= k
    <3>1. ASSUME ~(d <= k) PROVE FALSE
      <4>1. v + k - 1 \in 1 .. eq - 1 /\ k \in 1 .. n - v + 1
        BY <1>1, <1>2, <1>3, <1>5, <2>2, <2>4, <3>1
      <4>2. t[v + k - 1] = eqc
        BY <1>4, <1>5, <2>4, <4>1
      <4> QED BY <1>3, <1>6, <4>1, <4>2
    <3> QED BY <3>1
  <2>7. k = d
    BY <1>1, <1>2, <1>5, <2>2, <2>5, <2>6
  <2> QED BY <1>1, <1>2, <1>3, <2>1, <2>2, <2>4, <2>7
<1>7. ASSUME eq = 0 PROVE k = 0
  <2>1. ASSUME k # 0 PROVE FALSE
    <3>1. k \in 1 .. n - v + 1 /\ v + k - 1 \in 1 .. n
      BY <1>1, <1>2, <1>5, <2>1
    <3>2. t[v + k - 1] = eqc
      BY <1>4, <1>5, <2>1, <3>1
    <3> QED BY <1>3, <1>7, <3>1, <3>2
  <2> QED BY <2>1
<1>8. ASSUME eq # 0
      PROVE  /\ TrimOf(var, SubSeq(t, 1, eq - 1))
             /\ var # <<>> => ~Blank(var[1]) /\ ~Blank(Last(var))
  <2> DEFINE w == SubSeq(t, 1, eq - 1)
  <2>1. v <= eq /\ eq \in 1 .. n /\ v \in 1 .. n + 1 /\ n = Len(t)
    BY <1>2, <1>3, <1>6, <1>8 DEF n
  <2>2. x \in Seq(T) /\ Len(x) = eq - v /\ \A i \in 1 .. eq - v : x[i] = t[v + i - 1]
    <3>1. v \in 1 .. Len(t) + 1 /\ eq - 1 \in v - 1 .. Len(t) /\ eq - 1 - v + 1 = eq - v
      BY <1>1, <2>1
    <3> QED BY <3>1, PartFacts
  <2>3. w \in Seq(T) /\ Len(w) = eq - 1 /\ \A i \in 1 .. eq - 1 : w[i] = t[i]
    BY <1>1, <2>1
  <2>4. PICK b \in 0 .. Len(x) : /\ var = SubSeq(x, 1, b)
                                 /\ \A i \in b + 1 .. Len(x) : Blank(x[i])
                                 /\ b # 0 => ~Blank(x[b])
    <3> HIDE DEF x
    <3> QED BY <2>2, TrimmedRightFacts
  <2>5. SubSeq(x, 1, b) = SubSeq(t, v, v + b - 1)
    <3>1. /\ v \in 1 .. Len(t) + 1 /\ eq - 1 \in v - 1 .. Len(t) /\ 1 \in 1 .. eq - 1 - v + 2
          /\ b \in 1 - 1 .. eq - 1 - v + 1 /\ v + 1 - 1 = v
      BY <1>1, <2>1, <2>2
    <3> QED BY <3>1, PartOfPart
  <2>6. SubSeq(w, v, v + b - 1) = SubSeq(t, v, v + b - 1)
    <3>1. /\ 1 \in 1 .. Len(t) + 1 /\ eq - 1 \in 1 - 1 .. Len(t) /\ v \in 1 .. eq - 1 - 1 + 2
          /\ v + b - 1 \in v - 1 .. eq - 1 - 1 + 1 /\ 1 + v - 1 = v /\ 1 + (v + b - 1) - 1 = v + b - 1
      BY <1>1, <2>1, <2>2
    <3>2. SubSeq(SubSeq(t, 1, eq - 1), v, v + b - 1) = SubSeq(t, 1 + v - 1, 1 + (v + b - 1) - 1)
      BY <3>1, PartOfPart
    <3> QED BY <3>1, <3>2
  <2> HIDE DEF w, var, x
  <2>7. TrimOf(var, w)
    <3> DEFINE a == v - 1
               c == v + b - 1
    <3>1. a \in 0 .. Len(w) /\ c \in 0 .. Len(w) /\ a + 1 = v
      BY <1>1, <2>1, <2>2, <2>3, SMTT(20)
    <3>2. var = SubSeq(w, a + 1, c)
      BY <2>4, <2>5, <2>6, <3>1
    <3>3. ASSUME NEW i \in DOMAIN w, i <= a \/ c < i PROVE Blank(w[i])
      <4>1. i \in 1 .. eq - 1 /\ w[i] = t[i]
        BY <2>3
      <4>2. CASE i <= a
        <5>1. i \in 1 .. v - 1
          BY <1>1, <2>1, <4>1, <4>2
        <5> QED BY <1>2, <4>1, <5>1
      <4>3. CASE c < i
        <5> DEFINE j == i - v + 1
        <5>1. j \in b + 1 .. Len(x) /\ j \in 1 .. eq - v /\ v + j - 1 = i
          BY <1>1, <2>1, <2>2, <4>1, <4>3
        <5> HIDE DEF j
        <5>2. Blank(x[j]) /\ x[j] = t[i]
          BY <2>2, <2>4, <5>1
        <5> QED BY <4>1, <5>2
      <4> QED BY <3>3, <4>2, <4>3
    <3> HIDE DEF a, c
    <3> QED BY <3>1, <3>2, <3>3 DEF TrimOf
  <2>8. ASSUME var # <<>> PROVE ~Blank(var[1]) /\ ~Blank(Last(var))
    <3>1. Len(var) = b /\ \A i \in 1 .. b : var[i] = x[i]
      BY <2>2, <2>4
    <3>2. b # 0
      <4>1. b = 0 => SubSeq(x, 1, b) = <<>>
        BY <2>2
      <4> QED BY <2>4, <2>8, <4>1
    <3>3. Last(var) = x[b] /\ var[1] = x[1] /\ 1 \in 1 .. eq - v
      BY <2>2, <2>4, <3>1, <3>2 DEF Last
    <3>4. x[1] = t[v] /\ v < eq
      <4>1. v + 1 - 1 = v
        BY <2>1
      <4> QED BY <1>1, <2>1, <2>2, <3>3, <4>1
    <3>5. ~Blank(t[v])
      BY <1>1, <1>2, <2>1, <3>4
    <3> QED BY <2>4, <3>2, <3>3, <3>4, <3>5
  <2> QED BY <2>7, <2>8 DEF w, var, x
<1> QED BY <1>6, <1>7, <1>8 DEF var, x, k, eq, rest, v, n

LEMMA ValueFacts ==
  ASSUME NEW T, NEW t \in Seq(T), NEW st \in 1 .. Len(t) + 1, NEW end,
         end = Len(t) \/ end = Len(t) + 1 \/ end = 0
  PROVE  LET p == PastBlanks(t, st, end)
             val == SubSeq(t, p, Len(t))
         IN /\ TrimOf(val, SubSeq(t, st, Len(t)))
            /\ val # <<>> => ~Blank(val[1]) \/ (end = Len(t) /\ Len(val) = 1)
<1> DEFINE n == Len(t)
           p == PastBlanks(t, st, end)
           val == SubSeq(t, p, n)
           w == SubSeq(t, st, n)
<1>1. n \in Nat /\ n = Len(t) /\ st \in 1 .. n + 1
  OBVIOUS
<1>2. /\ p \in st .. n + 1 /\ \A i \in st .. p - 1 : Blank(t[i]) /\ i # end
      /\ p > n \/ ~Blank(t[p]) \/ p = end
  BY PastBlanksFacts
<1> HIDE DEF p, n
<1>3. w \in Seq(T) /\ Len(w) = n - st + 1 /\ \A i \in 1 .. n - st + 1 : w[i] = t[st + i - 1]
  BY <1>1, PartFacts
<1>4. val \in Seq(T) /\ Len(val) = n - p + 1 /\ \A i \in 1 .. n - p + 1 : val[i] = t[p + i - 1]
  BY <1>1, <1>2, PartFacts
<1> DEFINE a == p - st
           b == n - st + 1
<1>5. a \in 0 .. Len(w) /\ b \in 0 .. Len(w)
  BY <1>1, <1>2, <1>3
<1>6. val = SubSeq(w, a + 1, b)
  <2>1. /\ st \in 1 .. Len(t) + 1 /\ n \in st - 1 .. Len(t) /\ a + 1 \in 1 .. n - st + 2
        /\ b \in a + 1 - 1 .. n - st + 1 /\ st + (a + 1) - 1 = p /\ st + b - 1 = n
    BY <1>1, <1>2
  <2> DEFINE c == a + 1
  <2>2. /\ c \in 1 .. n - st + 2 /\ b \in c - 1 .. n - st + 1 /\ st + c - 1 = p
    BY <2>1
  <2> HIDE DEF b, c
  <2>3. SubSeq(SubSeq(t, st, n), c, b) = SubSeq(t, st + c - 1, st + b - 1)
    BY <2>1, <2>2, PartOfPart
  <2> QED BY <2>1, <2>2, <2>3 DEF c
<1>7. ASSUME NEW i \in DOMAIN w, i <= a \/ b < i PROVE Blank(w[i])
  <2>1. i \in 1 .. n - st + 1
    BY <1>3
  <2>2. w[i] = t[st + i - 1] /\ st + i - 1 \in st .. p - 1
    BY <1>1, <1>2, <1>3, <1>7, <2>1
  <2> QED BY <1>2, <2>2
<1> HIDE DEF val, w, a, b
<1>8. TrimOf(val, w)
  BY <1>5, <1>6, <1>7 DEF TrimOf
<1>9. ASSUME val # <<>> PROVE ~Blank(val[1]) \/ (end = n /\ Len(val) = 1)
  <2>1. Len(val) # 0
    BY <1>4, <1>9
  <2>2. p <= n
    BY <1>1, <1>2, <1>4, <2>1
  <2>3. val[1] = t[p]
    BY <1>1, <1>2, <1>4, <2>2
  <2>4. CASE p = end
    <3>1. end = n
      BY <1>1, <1>2, <2>2, <2>4
    <3> QED BY <1>1, <1>4, <2>4, <3>1
  <2>5. CASE p # end
    BY <1>1, <1>2, <2>2, <2>3, <2>5
  <2> QED BY <2>4, <2>5
<1> QED BY <1>8, <1>9 DEF val, w, p, n

(* The name and the value of an assignment are what is left and right of   *)
(* the equals sign, without the blanks, in lines of any length.            *)
THEOREM PairsAreClean ==
  ASSUME NEW T, s \in Seq(T)
  PROVE  PairIsClean
<1> SUFFICES ASSUME IsLine
             PROVE  LET p == Pair(s)
                        eq == FirstOf(Shown, "=")
                        right == SubSeq(Shown, eq + 1, Len(Shown))
                    IN /\ p.ok <=> eq # 0
                       /\ p.ok =>
                            /\ TrimOf(p.var, SubSeq(Shown, 1, eq - 1))
                            /\ TrimOf(p.val, IF right # <<>> /\ Head(right) = ">" THEN Tail(right) ELSE right)
                            /\ p.var # <<>> => ~Blank(p.var[1]) /\ ~Blank(Last(p.var))
                            /\ p.val # <<>> => ~Blank(p.val[1]) \/ (Commented /\ Len(p.val) = 1)
  BY Zenon DEF PairIsClean
<1> DEFINE t == Shown
           n == Len(t)
           end == TextOf(s).end
           eqc == "="
           gt == ">"
           v == PastBlanks(t, 1, end)
           rest == SubSeq(t, v, n)
           k == FirstOf(rest, eqc)
           eq == FirstOf(t, eqc)
           e == v - 1 + k
           arrow == e < n /\ t[e + 1] = gt
           st == IF arrow THEN e + 2 ELSE e + 1
           q == PastBlanks(t, st, end)
           var == TrimmedRight(SubSeq(t, v, e - 1))
           val == SubSeq(t, q, n)
           right == SubSeq(t, eq + 1, n)
           side == IF right # <<>> /\ Head(right) = gt THEN Tail(right) ELSE right
<1>1. /\ TextOf(s).text = t /\ t \in Seq(T)
      /\ (Commented /\ end = n) \/ end = n + 1 \/ end = 0
  BY TextOfFacts
<1>2. Pair(s) = IF k = 0 THEN [ok |-> FALSE] ELSE [ok |-> TRUE, var |-> var, val |-> val]
  <2>1. TextOf(s).text = t
    BY <1>1
  <2> HIDE DEF t
  <2> QED BY <2>1, Zenon DEF Pair
<1>3. ~Blank(eqc)
  BY DEF Blank
<1> HIDE DEF t, end, eqc, gt
<1>4. n \in Nat /\ n = Len(t) /\ (end = Len(t) \/ end = Len(t) + 1 \/ end = 0)
  BY <1>1
<1>5. /\ k = 0 <=> eq = 0
      /\ eq # 0 => /\ e = eq
                   /\ TrimOf(TrimmedRight(SubSeq(t, v, eq - 1)), SubSeq(t, 1, eq - 1))
                   /\ TrimmedRight(SubSeq(t, v, eq - 1)) # <<>>
                        => ~Blank(TrimmedRight(SubSeq(t, v, eq - 1))[1])
                           /\ ~Blank(Last(TrimmedRight(SubSeq(t, v, eq - 1))))
  BY <1>1, <1>3, <1>4, NameFacts
<1>6. eq \in 0 .. n
  BY <1>1, FirstOfFacts
<1>7. ASSUME eq # 0
      PROVE  /\ st \in 1 .. n + 1 /\ side = SubSeq(t, st, n)
  <2>1. e = eq
    BY <1>5, <1>7
  <2> HIDE DEF e, eq, n
  <2>2. right \in Seq(T) /\ Len(right) = n - eq /\ \A i \in 1 .. n - eq : right[i] = t[eq + i]
    BY <1>1, <1>4, <1>6, <1>7
  <2>3. CASE eq < n
    <3>1. Head(right) = t[eq + 1] /\ Tail(right) = SubSeq(t, eq + 1 + 1, n)
      <4>1. eq + 1 \in 1 .. Len(t) /\ n \in eq + 1 .. Len(t)
        BY <1>4, <1>6, <2>3
      <4> DEFINE m == eq + 1
      <4> HIDE DEF m
      <4>2. m \in 1 .. Len(t) /\ n \in m .. Len(t)
        BY <4>1 DEF m
      <4>3. Head(SubSeq(t, m, n)) = t[m] /\ Tail(SubSeq(t, m, n)) = SubSeq(t, m + 1, n)
        BY <1>1, <4>2, HeadTailOfSubSeq
      <4> QED BY <4>3 DEF m
    <3>2. right # <<>>
      BY <1>4, <1>6, <2>2, <2>3
    <3>3. arrow <=> Head(right) = gt
      BY <2>1, <2>3, <3>1
    <3>4. CASE arrow
      <4>1. side = Tail(right) /\ st = eq + 2 /\ eq + 1 + 1 = eq + 2
        <5>1. side = Tail(right)
          BY <3>2, <3>3, <3>4
        <5>2. st = eq + 2
          <6> HIDE DEF arrow
          <6> QED BY <2>1, <3>4
        <5>3. eq + 1 + 1 = eq + 2
          BY <1>6
        <5> QED BY <5>1, <5>2, <5>3
      <4> HIDE DEF side, st, arrow
      <4> QED BY <1>4, <1>6, <2>3, <3>1, <4>1
    <3>5. CASE ~arrow
      <4>1. side = right /\ st = eq + 1
        BY <2>1, <3>2, <3>3, <3>5
      <4> HIDE DEF side, st, arrow
      <4> QED BY <1>4, <1>6, <2>3, <4>1
    <3> QED BY <3>4, <3>5
  <2>4. CASE ~(eq < n)
    <3>1. ~arrow /\ st = eq + 1
      BY <2>1, <2>4
    <3>2. right = <<>>
      BY <1>4, <1>6, <2>2, <2>4
    <3>3. side = right
      BY <3>2
    <3> QED BY <1>4, <1>6, <2>4, <3>1, <3>3
  <2> QED BY <2>3, <2>4
<1>8. ASSUME eq # 0
      PROVE  /\ TrimOf(val, side)
             /\ val # <<>> => ~Blank(val[1]) \/ (Commented /\ Len(val) = 1)
  <2>1. st \in 1 .. Len(t) + 1 /\ side = SubSeq(t, st, Len(t)) /\ n = Len(t)
    BY <1>4, <1>7, <1>8
  <2> HIDE DEF st, side
  <2>2. /\ TrimOf(val, SubSeq(t, st, Len(t)))
        /\ val # <<>> => ~Blank(val[1]) \/ (end = Len(t) /\ Len(val) = 1)
    <3>1. t \in Seq(T) /\ st \in 1 .. Len(t) + 1 /\ (end = Len(t) \/ end = Len(t) + 1 \/ end = 0)
      BY <1>1, <1>4, <2>1
    <3>2. LET p == PastBlanks(t, st, end)
              w == SubSeq(t, p, Len(t))
          IN /\ TrimOf(w, SubSeq(t, st, Len(t)))
             /\ w # <<>> => ~Blank(w[1]) \/ (end = Len(t) /\ Len(w) = 1)
      BY <3>1, ValueFacts
    <3> QED BY <3>2
  <2>3. end = Len(t) => Commented
    <3> HIDE DEF eq
    <3> QED BY <1>1, <1>4, <1>6, <1>8
  <2> QED BY <2>1, <2>2, <2>3
<1> DEFINE p == Pair(s)
<1>9. /\ p.ok <=> eq # 0
      /\ eq # 0 => p.var = TrimmedRight(SubSeq(t, v, eq - 1)) /\ p.val = val
  <2>1. CASE k = 0
    BY <1>2, <1>5, <2>1
  <2>2. CASE k # 0
    <3>1. e = eq /\ eq # 0
      BY <1>5, <2>2
    <3> HIDE DEF val, e, k
    <3> QED BY <1>2, <2>2, <3>1
  <2> QED BY <2>1, <2>2
<1> HIDE DEF p, val, side
<1>10. /\ p.ok <=> eq # 0
       /\ p.ok => /\ TrimOf(p.var, SubSeq(t, 1, eq - 1))
                  /\ TrimOf(p.val, side)
                  /\ p.var # <<>> => ~Blank(p.var[1]) /\ ~Blank(Last(p.var))
                  /\ p.val # <<>> => ~Blank(p.val[1]) \/ (Commented /\ Len(p.val) = 1)
  <2> HIDE DEF eq, v
  <2> QED BY <1>5, <1>8, <1>9
<1> QED BY <1>10, Zenon DEF p, side, t, eqc, gt

-----------------------------------------------------------------------------
(* Configuration files.                                                    *)

SectionName == Section \cup {""}
Config == [pos : Nat, lineno : Nat, section : SectionName, sectno : Nat, catno : Nat,
           lockto : Int]
Reply == [cfg : Config, ret : {-1, 0, 1}, done : BOOLEAN, pair : Nat]

AtHeader(i) == s[i].kind = "section"
AtEnd(i) == s[i].kind = "end"
AtPair(i) == s[i].kind = "pair"
AtJunk(i) == s[i].kind = "junk"

(* A line at which esl_config_next_pair reads on.                          *)
Quiet(i) == s[i].kind \in {"junk", "comment", "category"}

LEMMA KindFacts ==
  ASSUME s \in Seq(Line), NEW i \in 1 .. Len(s)
  PROVE  /\ AtHeader(i) \/ AtEnd(i) \/ AtPair(i) \/ Quiet(i)
         /\ ~(AtHeader(i) /\ AtEnd(i)) /\ ~(AtHeader(i) /\ AtPair(i)) /\ ~(AtHeader(i) /\ Quiet(i))
         /\ ~(AtEnd(i) /\ AtPair(i)) /\ ~(AtEnd(i) /\ Quiet(i)) /\ ~(AtPair(i) /\ Quiet(i))
         /\ AtJunk(i) => Quiet(i)
         /\ AtHeader(i) => s[i].name \in Section
<1> DEFINE l == s[i]
<1>1. l \in Line
  OBVIOUS
<1> HIDE DEF l
<1>2. /\ l.kind \in {"section", "category", "comment", "end", "junk", "pair"}
      /\ l.kind = "section" => l.name \in Section
  BY <1>1 DEF Line
<1> QED BY <1>2 DEF l, AtHeader, AtEnd, AtPair, AtJunk, Quiet

LEMMA ConfigFacts ==
  ASSUME NEW c \in Config
  PROVE  LET next == [c EXCEPT !.pos = @ + 1, !.lineno = @ + 1]
             category == [c EXCEPT !.catno = @ + 1]
             top == [c EXCEPT !.catno = 0, !.lineno = 0]
             ended == [c EXCEPT !.lineno = @ + 1]
             header(name) == [c EXCEPT !.section = name, !.sectno = @ + 1]
         IN /\ next \in Config /\ next.pos = c.pos + 1 /\ next.lockto = c.lockto
            /\ next.section = c.section /\ next.sectno = c.sectno
            /\ category \in Config /\ category.pos = c.pos /\ category.lockto = c.lockto
            /\ category.section = c.section /\ category.sectno = c.sectno
            /\ top \in Config /\ top.pos = c.pos /\ top.lockto = c.lockto
            /\ top.section = c.section /\ top.sectno = c.sectno
            /\ ended \in Config /\ ended.pos = c.pos /\ ended.lockto = c.lockto
            /\ ended.section = c.section /\ ended.sectno = c.sectno
            /\ \A name \in SectionName :
                 /\ header(name) \in Config /\ header(name).pos = c.pos
                 /\ header(name).lockto = c.lockto
                 /\ header(name).section = name /\ header(name).sectno = c.sectno + 1
<1> DEFINE next == [c EXCEPT !.pos = @ + 1, !.lineno = @ + 1]
           category == [c EXCEPT !.catno = @ + 1]
           top == [c EXCEPT !.catno = 0, !.lineno = 0]
           ended == [c EXCEPT !.lineno = @ + 1]
           header(name) == [c EXCEPT !.section = name, !.sectno = @ + 1]
<1>1. c.pos + 1 \in Nat /\ c.lineno + 1 \in Nat /\ c.catno + 1 \in Nat /\ c.sectno + 1 \in Nat
  BY DEF Config
<1>2. /\ next \in Config /\ next.pos = c.pos + 1 /\ next.lockto = c.lockto
      /\ next.section = c.section /\ next.sectno = c.sectno
  BY <1>1 DEF Config
<1>3. /\ category \in Config /\ category.pos = c.pos /\ category.lockto = c.lockto
      /\ category.section = c.section /\ category.sectno = c.sectno
  BY <1>1 DEF Config
<1>4. /\ top \in Config /\ top.pos = c.pos /\ top.lockto = c.lockto
      /\ top.section = c.section /\ top.sectno = c.sectno
  BY <1>1 DEF Config
<1>5. /\ ended \in Config /\ ended.pos = c.pos /\ ended.lockto = c.lockto
      /\ ended.section = c.section /\ ended.sectno = c.sectno
  BY <1>1 DEF Config
<1>6. ASSUME NEW name \in SectionName
      PROVE  /\ header(name) \in Config /\ header(name).pos = c.pos
             /\ header(name).lockto = c.lockto
             /\ header(name).section = name /\ header(name).sectno = c.sectno + 1
  BY <1>1 DEF Config
<1> QED BY <1>2, <1>3, <1>4, <1>5, <1>6, Zenon

(* What a turn of its loop makes of a line.                                *)
Turned(i, a, r) ==
  /\ r.cfg.pos = a.cfg.pos + 1 /\ r.cfg.lockto = a.cfg.lockto
  /\ AtHeader(i) =>
       /\ r.done /\ r.pair = a.pair
       /\ r.cfg.section = s[i].name /\ r.cfg.sectno = a.cfg.sectno + 1
       /\ r.ret = IF LockedOut(a.cfg, s[i].name) THEN a.ret ELSE 1
  /\ ~AtHeader(i) => r.cfg.section = a.cfg.section /\ r.cfg.sectno = a.cfg.sectno
  /\ Quiet(i) => ~r.done /\ r.pair = a.pair /\ r.ret = IF AtJunk(i) THEN -1 ELSE a.ret
  /\ AtEnd(i) => r.done /\ r.pair = a.pair /\ r.ret = a.ret
  /\ AtPair(i) => r.done /\ r.pair = a.cfg.pos + 1 /\ r.ret = 1

LEMMA TakenFacts ==
  ASSUME s \in Seq(Line), NEW i \in 1 .. Len(s), NEW a \in Reply
  PROVE  /\ Taken(a, s[i]) \in Reply
         /\ a.done => Taken(a, s[i]) = a
         /\ ~a.done => Turned(i, a, Taken(a, s[i]))
<1> DEFINE l == s[i]
           r == Taken(a, l)
           cfg == [a.cfg EXCEPT !.pos = @ + 1, !.lineno = @ + 1]
           next == [a EXCEPT !.cfg = cfg]
           found == [next EXCEPT !.ret = 1, !.done = TRUE]
           header == [cfg EXCEPT !.section = l.name, !.sectno = @ + 1]
<1>1. l \in Line
  OBVIOUS
<1>2. /\ l.kind \in {"section", "category", "comment", "end", "junk", "pair"}
      /\ l.kind = "section" => l.name \in Section
  BY <1>1 DEF Line
<1>3. a.cfg \in Config /\ a.done \in BOOLEAN /\ a.ret \in {-1, 0, 1} /\ a.pair \in Nat
  BY DEF Reply
<1>4. cfg \in Config /\ cfg.pos = a.cfg.pos + 1 /\ cfg.lockto = a.cfg.lockto
      /\ cfg.section = a.cfg.section /\ cfg.sectno = a.cfg.sectno
  BY <1>3, ConfigFacts
<1> HIDE DEF cfg
<1>5. next \in Reply /\ next.cfg = cfg /\ next.ret = a.ret /\ next.done = a.done /\ next.pair = a.pair
  BY <1>3, <1>4 DEF Reply
<1> HIDE DEF next
<1>6. found \in Reply /\ found.cfg = cfg /\ found.ret = 1 /\ found.done = TRUE /\ found.pair = a.pair
  BY <1>3, <1>5 DEF Reply
<1> HIDE DEF found
<1>7. LockedOut(cfg, l.name) <=> LockedOut(a.cfg, l.name)
  BY <1>4 DEF LockedOut
<1>8. CASE a.done
  <2>1. r = a
    BY <1>8, Zenon DEF Taken
  <2> QED BY <1>8, <2>1
<1>9. CASE ~a.done
  <2>1. CASE l.kind = "section"
    <3>1. /\ header \in Config /\ header.pos = cfg.pos /\ header.lockto = cfg.lockto
          /\ header.section = l.name /\ header.sectno = cfg.sectno + 1
      <4>1. l.name \in SectionName
        BY <1>2, <2>1 DEF SectionName
      <4> QED BY <1>4, <4>1, ConfigFacts
    <3>2. r = IF LockedOut(cfg, l.name)
              THEN [next EXCEPT !.cfg = header, !.done = TRUE]
              ELSE [found EXCEPT !.cfg = [header EXCEPT !.catno = 0, !.lineno = 0]]
      BY <1>9, <2>1 DEF Taken, cfg, next, found
    <3> HIDE DEF header, r
    <3>3. CASE LockedOut(cfg, l.name)
      <4>1. r = [next EXCEPT !.cfg = header, !.done = TRUE]
        BY <3>2, <3>3
      <4>2. r \in Reply /\ r.cfg = header /\ r.done = TRUE /\ r.ret = a.ret /\ r.pair = a.pair
        BY <1>5, <3>1, <4>1 DEF Reply
      <4>3. Turned(i, a, r)
        BY <1>2, <1>4, <1>7, <2>1, <3>1, <3>3, <4>2 DEF Turned, AtHeader, AtEnd, AtPair, Quiet
      <4> QED BY <1>9, <4>2, <4>3 DEF r
    <3>4. CASE ~LockedOut(cfg, l.name)
      <4> HIDE DEF header
      <4> DEFINE top == [header EXCEPT !.catno = 0, !.lineno = 0]
      <4>1. /\ top \in Config /\ top.pos = cfg.pos /\ top.lockto = cfg.lockto
            /\ top.section = l.name /\ top.sectno = cfg.sectno + 1
        BY <3>1, ConfigFacts
      <4> HIDE DEF top
      <4>2. r = [found EXCEPT !.cfg = top]
        BY <3>2, <3>4 DEF top
      <4>3. r \in Reply /\ r.cfg = top /\ r.done = TRUE /\ r.ret = 1 /\ r.pair = a.pair
        BY <1>6, <4>1, <4>2 DEF Reply
      <4>4. Turned(i, a, r)
        BY <1>2, <1>4, <1>7, <2>1, <3>4, <4>1, <4>3 DEF Turned, AtHeader, AtEnd, AtPair, Quiet
      <4> QED BY <1>9, <4>3, <4>4 DEF r
    <3> QED BY <3>3, <3>4
  <2>2. CASE l.kind = "category"
    <3>1. r = [next EXCEPT !.cfg.catno = @ + 1]
      BY <1>9, <2>2 DEF Taken, cfg, next
    <3> DEFINE c == [cfg EXCEPT !.catno = @ + 1]
    <3>2. /\ c \in Config /\ c.pos = cfg.pos /\ c.lockto = cfg.lockto
          /\ c.section = cfg.section /\ c.sectno = cfg.sectno
      BY <1>4, ConfigFacts
    <3>3. r = [next EXCEPT !.cfg = c]
      BY <1>5, <3>1
    <3> HIDE DEF r, c
    <3>4. r \in Reply /\ r.cfg = c /\ r.done = a.done /\ r.ret = a.ret /\ r.pair = a.pair
      BY <1>5, <3>2, <3>3 DEF Reply
    <3>5. Turned(i, a, r)
      BY <1>4, <1>9, <2>2, <3>2, <3>4 DEF Turned, AtHeader, AtEnd, AtPair, AtJunk, Quiet
    <3> QED BY <1>9, <3>4, <3>5 DEF r
  <2>3. CASE l.kind = "comment"
    <3>1. r = next
      BY <1>9, <2>3 DEF Taken, cfg, next
    <3> HIDE DEF r
    <3>2. Turned(i, a, r)
      BY <1>4, <1>5, <1>9, <2>3, <3>1 DEF Turned, AtHeader, AtEnd, AtPair, AtJunk, Quiet
    <3> QED BY <1>5, <1>9, <3>1, <3>2 DEF r
  <2>4. CASE l.kind = "end"
    <3>1. r = [next EXCEPT !.done = TRUE]
      BY <1>9, <2>4 DEF Taken, cfg, next
    <3> HIDE DEF r
    <3>2. r \in Reply /\ r.cfg = cfg /\ r.done = TRUE /\ r.ret = a.ret /\ r.pair = a.pair
      BY <1>5, <3>1 DEF Reply
    <3>3. Turned(i, a, r)
      BY <1>4, <2>4, <3>2 DEF Turned, AtHeader, AtEnd, AtPair, AtJunk, Quiet
    <3> QED BY <1>9, <3>2, <3>3 DEF r
  <2>5. CASE l.kind = "junk"
    <3>1. r = [next EXCEPT !.ret = -1]
      BY <1>9, <2>5 DEF Taken, cfg, next
    <3> HIDE DEF r
    <3>2. r \in Reply /\ r.cfg = cfg /\ r.done = a.done /\ r.ret = -1 /\ r.pair = a.pair
      BY <1>5, <3>1 DEF Reply
    <3>3. Turned(i, a, r)
      BY <1>4, <1>9, <2>5, <3>2 DEF Turned, AtHeader, AtEnd, AtPair, AtJunk, Quiet
    <3> QED BY <1>9, <3>2, <3>3 DEF r
  <2>6. CASE l.kind = "pair"
    <3>1. r = [found EXCEPT !.pair = cfg.pos]
      BY <1>9, <2>6 DEF Taken, cfg, next, found
    <3>2. cfg.pos \in Nat
      BY <1>4 DEF Config
    <3> HIDE DEF r
    <3>3. r \in Reply /\ r.cfg = cfg /\ r.done = TRUE /\ r.ret = 1 /\ r.pair = cfg.pos
      BY <1>6, <3>1, <3>2 DEF Reply
    <3>4. Turned(i, a, r)
      BY <1>4, <2>6, <3>3 DEF Turned, AtHeader, AtEnd, AtPair, AtJunk, Quiet
    <3> QED BY <1>9, <3>3, <3>4 DEF r
  <2> QED BY <1>2, <2>1, <2>2, <2>3, <2>4, <2>5, <2>6
<1> QED BY <1>8, <1>9
-----------------------------------------------------------------------------
(* esl_config_next_pair.                                                   *)

Fresh(c) == [cfg |-> c, ret |-> 0, done |-> FALSE, pair |-> 0]
Closed(r) == IF r.done THEN r ELSE [r EXCEPT !.ret = 0, !.cfg.lineno = @ + 1]

Turns(c, d) ==
  /\ d[0] = Fresh(c)
  /\ \A i \in 1 .. Len(s) - c.pos : d[i] = Taken(d[i - 1], s[c.pos + i])
  /\ \A i \in 0 .. Len(s) - c.pos : d[i] \in Reply
  /\ NextPair(s, c) = Closed(d[Len(s) - c.pos])

(* The turns of its loop.                                                  *)
LEMMA TurnsBy ==
  ASSUME s \in Seq(Line), NEW c \in Config, c.pos <= Len(s)
  PROVE  \E d : Turns(c, d)
<1> DEFINE n == Len(s) - c.pos
           o == Fresh(c)
           Step(i, x) == Taken(x, s[c.pos + i])
           Item(f, i) == IF i = 0 THEN o ELSE Step(i, f[i - 1])
           Raw(f) == [i \in 0 .. n |-> Item(f, i)]
           H == [i \in 1 .. n |-> [x \in Reply |-> Step(i, x)]]
           d == CHOOSE f : f = Raw(f)
<1>1. NextPair(s, c) = Closed(d[n])
  BY Zenon DEF NextPair, Fresh, Closed
<1>2. n \in Nat
  BY DEF Config
<1>3. o \in Reply /\ \A i \in 1 .. n : \A x \in Reply : Step(i, x) \in Reply
  <2>1. o \in Reply
    BY DEF Fresh, Reply
  <2>2. ASSUME NEW i \in 1 .. n, NEW x \in Reply PROVE Step(i, x) \in Reply
    <3>1. c.pos + i \in 1 .. Len(s)
      BY DEF Config
    <3> QED BY <3>1, TakenFacts
  <2> QED BY <2>1, <2>2
<1>4. \A f : \A i \in 0 .. n : Raw(f)[i] = Item(f, i)
  BY Zenon
<1>5. ASSUME NEW f, NEW i \in 1 .. n PROVE Item(f, i) = Step(i, f[i - 1])
  <2>1. i # 0
    BY <1>2
  <2> QED BY <2>1, Zenon
<1>6. \A f : Item(f, 0) = o
  OBVIOUS
<1> HIDE DEF Step, Item, n, o
<1>7. \A i \in 1 .. n : \A x \in Reply : H[i][x] = Step(i, x)
  BY Zenon
<1>8. Steps(n, Reply, H)
  BY <1>3 DEF Steps
<1> HIDE DEF H
<1>9. PICK f : Runs(f, n, Reply, o, H)
  BY <1>2, <1>3, <1>8, Iterates
<1>10. f \in [0 .. n -> Reply] /\ f[0] = o /\ \A i \in 1 .. n : f[i] = H[i][f[i - 1]]
  BY <1>9 DEF Runs
<1>11. f = Raw(f)
  <2>1. ASSUME NEW i \in 0 .. n PROVE f[i] = Item(f, i)
    <3>1. CASE i = 0
      BY <1>6, <1>10, <3>1
    <3>2. CASE i # 0
      <4>1. i \in 1 .. n /\ i - 1 \in 0 .. n
        BY <1>2, <3>2
      <4>2. f[i - 1] \in Reply
        BY <1>10, <4>1
      <4>3. f[i] = Step(i, f[i - 1])
        BY <1>7, <1>10, <4>1, <4>2
      <4> QED BY <1>5, <4>1, <4>3
    <3> QED BY <3>1, <3>2
  <2>2. f = [i \in 0 .. n |-> f[i]]
    BY <1>10
  <2> QED BY <2>1, <2>2
<1>12. d = Raw(d)
  <2> HIDE DEF Raw
  <2> QED BY <1>11
<1> HIDE DEF d, Raw
<1>13. d[0] = o
  <2>1. 0 \in 0 .. n
    BY <1>2
  <2>2. d[0] = Item(d, 0)
    BY <1>4, <1>12, <2>1
  <2> QED BY <1>6, <2>2
<1>14. ASSUME NEW i \in 1 .. n PROVE d[i] = Step(i, d[i - 1])
  <2>1. i \in 0 .. n
    BY <1>2
  <2> QED BY <1>4, <1>5, <1>12, <2>1
<1> DEFINE G == {i \in 0 .. n : d[i] \in Reply}
<1>15. 0 \in G
  <2>1. 0 \in 0 .. n
    BY <1>2
  <2> QED BY <1>3, <1>13, <2>1
<1>16. ASSUME NEW i \in 1 .. n, i - 1 \in G PROVE i \in G
  <2>1. i \in 0 .. n
    BY <1>2
  <2> QED BY <1>3, <1>14, <1>16, <2>1
<1>17. G = 0 .. n
  <2>1. G \in SUBSET (0 .. n)
    OBVIOUS
  <2> HIDE DEF G
  <2> QED BY <1>2, <1>15, <1>16, <2>1, Inductive
<1>18. \A i \in 0 .. n : d[i] \in Reply
  BY <1>17
<1> QED BY <1>1, <1>13, <1>14, <1>18 DEF n, o, Step, Turns

(* The lines between p and q, and what it says when it stops there.        *)
QuietBetween(p, q) == \A i \in p + 1 .. q - 1 : Quiet(i)
Spoils(p, q) == \E j \in p + 1 .. q - 1 : AtJunk(j)
Said(p, q) == IF Spoils(p, q) THEN -1 ELSE 0

(* After k quiet lines.                                                    *)
Reading(c, k, a) ==
  /\ ~a.done /\ a.pair = 0 /\ a.ret = Said(c.pos, c.pos + k + 1)
  /\ QuietBetween(c.pos, c.pos + k + 1)
  /\ a.cfg.pos = c.pos + k /\ a.cfg.lockto = c.lockto
  /\ a.cfg.section = c.section /\ a.cfg.sectno = c.sectno

(* It has stopped at line q.                                               *)
Stops(c, q, a) ==
  /\ a.done /\ q \in c.pos + 1 .. Len(s) /\ QuietBetween(c.pos, q) /\ ~Quiet(q)
  /\ a.cfg.pos = q /\ a.cfg.lockto = c.lockto
  /\ AtHeader(q) =>
       /\ a.pair = 0 /\ a.cfg.section = s[q].name /\ a.cfg.sectno = c.sectno + 1
       /\ a.ret = IF LockedOut(c, s[q].name) THEN Said(c.pos, q) ELSE 1
  /\ ~AtHeader(q) => a.cfg.section = c.section /\ a.cfg.sectno = c.sectno
  /\ AtEnd(q) => a.pair = 0 /\ a.ret = Said(c.pos, q)
  /\ AtPair(q) => a.pair = q /\ a.ret = 1

(* It has come to the end of the file.                                     *)
RunsOut(c, r) == QuietBetween(c.pos, Len(s) + 1) /\ r.ret = 0 /\ r.pair = 0

LEMMA TurnFacts ==
  ASSUME s \in Seq(Line), NEW c \in Config, NEW k \in Nat, c.pos + k + 1 <= Len(s),
         NEW a \in Reply, Reading(c, k, a)
  PROVE  LET r == Taken(a, s[c.pos + k + 1])
         IN Reading(c, k + 1, r) \/ Stops(c, c.pos + k + 1, r)
<1> DEFINE q == c.pos + k + 1
           r == Taken(a, s[q])
<1>1. c.pos \in Nat /\ c.sectno \in Nat /\ q \in 1 .. Len(s) /\ q \in c.pos + 1 .. Len(s)
  BY DEF Config
<1>2. /\ ~a.done /\ a.pair = 0 /\ a.ret = Said(c.pos, q) /\ QuietBetween(c.pos, q)
      /\ a.cfg.pos + 1 = q /\ a.cfg.lockto = c.lockto
      /\ a.cfg.section = c.section /\ a.cfg.sectno = c.sectno
  BY <1>1 DEF Reading
<1>3. Turned(q, a, r)
  BY <1>1, <1>2, TakenFacts
<1>4. q + 1 = c.pos + (k + 1) + 1 /\ q = c.pos + (k + 1)
  BY <1>1
<1> HIDE DEF q, r
<1>5. LockedOut(a.cfg, s[q].name) <=> LockedOut(c, s[q].name)
  BY <1>2 DEF LockedOut
<1>6. CASE Quiet(q)
  <2>1. QuietBetween(c.pos, q + 1)
    BY <1>1, <1>2, <1>6 DEF QuietBetween
  <2>2. Said(c.pos, q + 1) = IF AtJunk(q) THEN -1 ELSE Said(c.pos, q)
    <3>2. Spoils(c.pos, q + 1) <=> AtJunk(q) \/ Spoils(c.pos, q)
      <4>1. ASSUME NEW j \in c.pos + 1 .. (q + 1) - 1, AtJunk(j) PROVE AtJunk(q) \/ Spoils(c.pos, q)
        <5>1. CASE j = q
          BY <4>1, <5>1
        <5>2. CASE j # q
          <6>1. j \in c.pos + 1 .. q - 1
            BY <1>1, <5>2
          <6> QED BY <4>1, <6>1 DEF Spoils
        <5> QED BY <5>1, <5>2
      <4>2. ASSUME AtJunk(q) PROVE Spoils(c.pos, q + 1)
        <5>1. q \in c.pos + 1 .. (q + 1) - 1
          BY <1>1
        <5> QED BY <4>2, <5>1 DEF Spoils
      <4>3. ASSUME NEW j \in c.pos + 1 .. q - 1, AtJunk(j) PROVE Spoils(c.pos, q + 1)
        <5>1. j \in c.pos + 1 .. (q + 1) - 1
          BY <1>1
        <5> QED BY <4>3, <5>1 DEF Spoils
      <4> QED BY <4>1, <4>2, <4>3 DEF Spoils
    <3> QED BY <3>2 DEF Said
  <2>3. ~AtHeader(q)
    BY <1>1, <1>6, KindFacts
  <2>4. /\ ~r.done /\ r.pair = 0 /\ r.ret = Said(c.pos, q + 1)
        /\ r.cfg.pos = q /\ r.cfg.lockto = c.lockto
        /\ r.cfg.section = c.section /\ r.cfg.sectno = c.sectno
    BY <1>2, <1>3, <1>6, <2>2, <2>3 DEF Turned
  <2>5. Reading(c, k + 1, r)
    BY <1>4, <2>1, <2>4 DEF Reading
  <2> QED BY <2>5 DEF q, r
<1>7. CASE ~Quiet(q)
  <2>1. AtHeader(q) \/ AtEnd(q) \/ AtPair(q)
    BY <1>1, <1>7, KindFacts
  <2>2. r.done /\ r.cfg.pos = q /\ r.cfg.lockto = c.lockto
    BY <1>2, <1>3, <2>1 DEF Turned
  <2>3. AtHeader(q) =>
          /\ r.pair = 0 /\ r.cfg.section = s[q].name /\ r.cfg.sectno = c.sectno + 1
          /\ r.ret = IF LockedOut(c, s[q].name) THEN Said(c.pos, q) ELSE 1
    BY <1>2, <1>3, <1>5 DEF Turned
  <2>4. ~AtHeader(q) => r.cfg.section = c.section /\ r.cfg.sectno = c.sectno
    BY <1>2, <1>3 DEF Turned
  <2>5. AtEnd(q) => r.pair = 0 /\ r.ret = Said(c.pos, q)
    BY <1>2, <1>3 DEF Turned
  <2>6. AtPair(q) => r.pair = q /\ r.ret = 1
    BY <1>2, <1>3 DEF Turned
  <2>7. Stops(c, q, r)
    BY <1>1, <1>2, <1>7, <2>2, <2>3, <2>4, <2>5, <2>6 DEF Stops
  <2> QED BY <2>7 DEF q, r
<1> QED BY <1>6, <1>7

(* What it returns.                                                        *)
LEMMA NextPairFacts ==
  ASSUME s \in Seq(Line), NEW c \in Config, c.pos <= Len(s)
  PROVE  LET r == NextPair(s, c)
         IN r \in Reply /\ (RunsOut(c, r) \/ \E q : Stops(c, q, r))
<1> DEFINE n == Len(s) - c.pos
           r == NextPair(s, c)
<1>1. PICK d : Turns(c, d)
  BY TurnsBy
<1>2. c.pos \in Nat /\ n \in Nat /\ c.pos + n = Len(s)
  BY DEF Config
<1>3. /\ d[0] = Fresh(c) /\ \A i \in 1 .. n : d[i] = Taken(d[i - 1], s[c.pos + i])
      /\ \A i \in 0 .. n : d[i] \in Reply
      /\ r = Closed(d[n])
  BY <1>1 DEF Turns
<1> HIDE DEF n, r
<1> DEFINE G == {k \in 0 .. n : Reading(c, k, d[k]) \/ \E q : Stops(c, q, d[k])}
<1>4. 0 \in G
  <2>1. Said(c.pos, c.pos + 0 + 1) = 0 /\ QuietBetween(c.pos, c.pos + 0 + 1)
    BY <1>2 DEF Said, Spoils, QuietBetween
  <2>2. Reading(c, 0, Fresh(c))
    BY <1>2, <2>1 DEF Reading, Fresh
  <2>3. Reading(c, 0, d[0]) /\ 0 \in 0 .. n
    BY <1>2, <1>3, <2>2
  <2> QED BY <2>3
<1>5. ASSUME NEW i \in 1 .. n, i - 1 \in G PROVE i \in G
  <2> DEFINE k == i - 1
             a == d[k]
  <2>1. k \in Nat /\ k \in 0 .. n /\ i \in 0 .. n /\ c.pos + k + 1 = c.pos + i
        /\ c.pos + k + 1 <= Len(s) /\ k + 1 = i /\ c.pos + i \in 1 .. Len(s)
    BY <1>2
  <2>2. a \in Reply /\ d[i] = Taken(a, s[c.pos + i])
    BY <1>3, <2>1
  <2>3. Reading(c, k, a) \/ \E q : Stops(c, q, a)
    BY <1>5
  <2> HIDE DEF k, a
  <2>4. CASE Reading(c, k, a)
    <3>1. LET x == Taken(a, s[c.pos + k + 1])
          IN Reading(c, k + 1, x) \/ Stops(c, c.pos + k + 1, x)
      BY <2>1, <2>2, <2>4, TurnFacts
    <3>2. Reading(c, i, d[i]) \/ Stops(c, c.pos + k + 1, d[i])
      BY <2>1, <2>2, <3>1
    <3> QED BY <2>1, <3>2
  <2>5. ASSUME NEW q, Stops(c, q, a) PROVE i \in G
    <3>1. d[i] = a
      <4>1. a.done
        BY <2>5 DEF Stops
      <4> QED BY <2>1, <2>2, <4>1, TakenFacts
    <3> QED BY <2>1, <2>5, <3>1
  <2> QED BY <2>3, <2>4, <2>5
<1>6. G = 0 .. n
  <2>1. G \in SUBSET (0 .. n)
    OBVIOUS
  <2> HIDE DEF G
  <2> QED BY <1>2, <1>4, <1>5, <2>1, Inductive
<1>7. n \in 0 .. n
  BY <1>2
<1>8. Reading(c, n, d[n]) \/ \E q : Stops(c, q, d[n])
  BY <1>6, <1>7
<1> DEFINE z == d[n]
<1>9. z \in Reply
  BY <1>3, <1>7
<1>10. r = Closed(z) /\ (Reading(c, n, z) \/ \E q : Stops(c, q, z))
  BY <1>3, <1>8
<1> HIDE DEF z, G
<1>11. CASE Reading(c, n, z)
  <2>1. ~z.done /\ z.pair = 0 /\ QuietBetween(c.pos, Len(s) + 1)
    BY <1>2, <1>11 DEF Reading
  <2>2. r = [z EXCEPT !.ret = 0, !.cfg.lineno = @ + 1]
    BY <1>10, <2>1 DEF Closed
  <2> DEFINE f == [z.cfg EXCEPT !.lineno = @ + 1]
  <2>3. z.cfg \in Config
    BY <1>9 DEF Reply
  <2>4. f \in Config
    BY <2>3, ConfigFacts
  <2>5. r = [z EXCEPT !.ret = 0, !.cfg = f]
    BY <1>9, <2>2 DEF Reply
  <2> HIDE DEF f
  <2>6. r \in Reply /\ r.ret = 0 /\ r.pair = z.pair
    BY <1>9, <2>4, <2>5 DEF Reply
  <2>7. RunsOut(c, r)
    BY <2>1, <2>6 DEF RunsOut
  <2> QED BY <2>6, <2>7 DEF r
<1>12. ASSUME NEW q, Stops(c, q, z)
       PROVE  LET x == NextPair(s, c)
              IN x \in Reply /\ (RunsOut(c, x) \/ \E y : Stops(c, y, x))
  <2>1. r = z
    <3>1. z.done
      BY <1>12 DEF Stops
    <3> QED BY <1>10, <3>1 DEF Closed
  <2> QED BY <1>9, <1>12, <2>1 DEF r
<1> QED BY <1>10, <1>11, <1>12

-----------------------------------------------------------------------------
(* The assignments between two lines.                                      *)

Lists(p, d) ==
  /\ d[0] = <<>>
  /\ \A i \in 1 .. Len(s) : d[i] = IF p < i /\ AtPair(i) THEN Append(d[i - 1], i) ELSE d[i - 1]
  /\ \A i \in 0 .. Len(s) : d[i] \in Seq(Nat)
  /\ \A q : PairsBetween(p, q) = d[q - 1]

(* They are listed one by one.                                            *)
LEMMA ListsBy ==
  ASSUME s \in Seq(Line), NEW p \in Nat
  PROVE  \E d : Lists(p, d)
<1> DEFINE n == Len(s)
           o == <<>>
           Step(i, x) == IF p < i /\ AtPair(i) THEN Append(x, i) ELSE x
           Item(f, i) == IF i = 0 THEN o ELSE Step(i, f[i - 1])
           Raw(f) == [i \in 0 .. n |-> Item(f, i)]
           H == [i \in 1 .. n |-> [x \in Seq(Nat) |-> Step(i, x)]]
           d == CHOOSE f : f = Raw(f)
<1>1. \A q : PairsBetween(p, q) = d[q - 1]
  BY Zenon DEF PairsBetween, AtPair
<1>2. n \in Nat
  OBVIOUS
<1>3. o \in Seq(Nat) /\ \A i \in 1 .. n : \A x \in Seq(Nat) : Step(i, x) \in Seq(Nat)
  OBVIOUS
<1>4. \A f : \A i \in 0 .. n : Raw(f)[i] = Item(f, i)
  BY Zenon
<1>5. ASSUME NEW f, NEW i \in 1 .. n PROVE Item(f, i) = Step(i, f[i - 1])
  <2>1. i # 0
    BY <1>2
  <2> QED BY <2>1, Zenon
<1>6. \A f : Item(f, 0) = o
  OBVIOUS
<1> HIDE DEF Step, Item, n, o
<1>7. \A i \in 1 .. n : \A x \in Seq(Nat) : H[i][x] = Step(i, x)
  BY Zenon
<1>8. Steps(n, Seq(Nat), H)
  BY <1>3 DEF Steps
<1> HIDE DEF H
<1>9. PICK f : Runs(f, n, Seq(Nat), o, H)
  BY <1>2, <1>3, <1>8, Iterates
<1>10. f \in [0 .. n -> Seq(Nat)] /\ f[0] = o /\ \A i \in 1 .. n : f[i] = H[i][f[i - 1]]
  BY <1>9 DEF Runs
<1>11. f = Raw(f)
  <2>1. ASSUME NEW i \in 0 .. n PROVE f[i] = Item(f, i)
    <3>1. CASE i = 0
      BY <1>6, <1>10, <3>1
    <3>2. CASE i # 0
      <4>1. i \in 1 .. n /\ i - 1 \in 0 .. n
        BY <1>2, <3>2
      <4>2. f[i - 1] \in Seq(Nat)
        BY <1>10, <4>1
      <4>3. f[i] = Step(i, f[i - 1])
        BY <1>7, <1>10, <4>1, <4>2
      <4> QED BY <1>5, <4>1, <4>3
    <3> QED BY <3>1, <3>2
  <2>2. f = [i \in 0 .. n |-> f[i]]
    BY <1>10
  <2> QED BY <2>1, <2>2
<1>12. d = Raw(d)
  <2> HIDE DEF Raw
  <2> QED BY <1>11
<1> HIDE DEF d, Raw
<1>13. d[0] = o
  <2>1. 0 \in 0 .. n
    BY <1>2
  <2>2. d[0] = Item(d, 0)
    BY <1>4, <1>12, <2>1
  <2> QED BY <1>6, <2>2
<1>14. ASSUME NEW i \in 1 .. n PROVE d[i] = Step(i, d[i - 1])
  <2>1. i \in 0 .. n
    BY <1>2
  <2> QED BY <1>4, <1>5, <1>12, <2>1
<1> DEFINE G == {i \in 0 .. n : d[i] \in Seq(Nat)}
<1>15. 0 \in G
  <2>1. 0 \in 0 .. n
    BY <1>2
  <2> QED BY <1>3, <1>13, <2>1
<1>16. ASSUME NEW i \in 1 .. n, i - 1 \in G PROVE i \in G
  <2>1. i \in 0 .. n
    BY <1>2
  <2> QED BY <1>3, <1>14, <1>16, <2>1
<1>17. G = 0 .. n
  <2>1. G \in SUBSET (0 .. n)
    OBVIOUS
  <2> HIDE DEF G
  <2> QED BY <1>2, <1>15, <1>16, <2>1, Inductive
<1>18. \A i \in 0 .. n : d[i] \in Seq(Nat)
  BY <1>17
<1> QED BY <1>1, <1>13, <1>14, <1>18 DEF n, o, Step, Lists

LEMMA PairsFacts ==
  ASSUME s \in Seq(Line), NEW p \in 0 .. Len(s)
  PROVE  /\ PairsBetween(p, p + 1) = <<>>
         /\ \A q \in p + 1 .. Len(s) :
              PairsBetween(p, q + 1) = IF AtPair(q) THEN Append(PairsBetween(p, q), q)
                                       ELSE PairsBetween(p, q)
<1>1. PICK d : Lists(p, d)
  BY ListsBy
<1>2. /\ d[0] = <<>>
      /\ \A i \in 1 .. Len(s) : d[i] = IF p < i /\ AtPair(i) THEN Append(d[i - 1], i) ELSE d[i - 1]
      /\ \A q : PairsBetween(p, q) = d[q - 1]
  BY <1>1 DEF Lists
<1>3. Len(s) \in Nat
  OBVIOUS
<1> DEFINE G == {i \in 0 .. p : d[i] = <<>>}
<1>4. G = 0 .. p
  <2>1. 0 \in G
    BY <1>2
  <2>2. ASSUME NEW i \in 1 .. p, i - 1 \in G PROVE i \in G
    <3>1. i \in 1 .. Len(s) /\ i \in 0 .. p /\ ~(p < i) /\ d[i - 1] = <<>>
      BY <1>3, <2>2
    <3>2. d[i] = d[i - 1]
      BY <1>2, <3>1
    <3> QED BY <3>1, <3>2
  <2>3. G \in SUBSET (0 .. p)
    OBVIOUS
  <2> HIDE DEF G
  <2> QED BY <2>1, <2>2, <2>3, Inductive
<1>5. PairsBetween(p, p + 1) = <<>>
  <2>1. p \in G /\ (p + 1) - 1 = p
    BY <1>4
  <2>2. PairsBetween(p, p + 1) = d[(p + 1) - 1]
    BY <1>2
  <2> QED BY <2>1, <2>2
<1>6. ASSUME NEW q \in p + 1 .. Len(s)
      PROVE  PairsBetween(p, q + 1) = IF AtPair(q) THEN Append(PairsBetween(p, q), q)
                                      ELSE PairsBetween(p, q)
  <2>1. q \in 1 .. Len(s) /\ p < q /\ (q + 1) - 1 = q
    BY <1>3
  <2>2. PairsBetween(p, q + 1) = d[(q + 1) - 1] /\ PairsBetween(p, q) = d[q - 1]
    BY <1>2
  <2>3. d[q] = IF AtPair(q) THEN Append(d[q - 1], q) ELSE d[q - 1]
    BY <1>2, <2>1
  <2> QED BY <2>1, <2>2, <2>3
<1> QED BY <1>5, <1>6

(* Quiet lines have none.                                                  *)
LEMMA NoneOnTheWay ==
  ASSUME s \in Seq(Line), NEW p \in 0 .. Len(s), NEW x \in p .. Len(s),
         NEW q \in x + 1 .. Len(s) + 1, QuietBetween(x, q)
  PROVE  PairsBetween(p, q) = PairsBetween(p, x + 1)
<1> DEFINE n == q - (x + 1)
           G == {i \in 0 .. n : PairsBetween(p, x + 1 + i) = PairsBetween(p, x + 1)}
<1>1. n \in Nat /\ Len(s) \in Nat /\ x + 1 + n = q /\ x + 1 + 0 = x + 1
  OBVIOUS
<1>2. 0 \in G
  BY <1>1
<1>3. ASSUME NEW i \in 1 .. n, i - 1 \in G PROVE i \in G
  <2> DEFINE y == x + i
  <2>1. /\ y \in p + 1 .. Len(s) /\ y \in 1 .. Len(s) /\ y \in x + 1 .. q - 1 /\ i \in 0 .. n
        /\ x + 1 + (i - 1) = y /\ x + 1 + i = y + 1
    BY <1>1
  <2> HIDE DEF y
  <2>2. ~AtPair(y)
    <3>1. Quiet(y)
      BY <2>1 DEF QuietBetween
    <3> QED BY <2>1, <3>1, KindFacts
  <2>3. PairsBetween(p, y + 1) = PairsBetween(p, y)
    BY <2>1, <2>2, PairsFacts
  <2>4. PairsBetween(p, x + 1 + (i - 1)) = PairsBetween(p, x + 1)
    BY <1>3
  <2> QED BY <2>1, <2>3, <2>4
<1>4. G = 0 .. n
  <2>1. G \in SUBSET (0 .. n)
    OBVIOUS
  <2> HIDE DEF G
  <2> QED BY <1>1, <1>2, <1>3, <2>1, Inductive
<1>5. n \in 0 .. n
  BY <1>1
<1>6. PairsBetween(p, x + 1 + n) = PairsBetween(p, x + 1)
  BY <1>4, <1>5
<1> QED BY <1>1, <1>6

-----------------------------------------------------------------------------
(* A reader.                                                               *)

Reader == [cfg : {c \in Config : c.pos <= Len(s)}, over : BOOLEAN, got : Seq(Nat)]

(* One call of a reader whose more does not contain 0.                     *)
LEMMA ReadOnFacts ==
  ASSUME s \in Seq(Line), NEW more, 0 \notin more, NEW a \in Reader
  PROVE  LET r == NextPair(s, a.cfg)
             b == ReadOn(s, more, a)
         IN /\ b \in Reader
            /\ a.over => b = a
            /\ ~a.over /\ r.ret \notin more => b.over /\ b.got = a.got
            /\ ~a.over /\ r.ret \in more =>
                 /\ ~b.over /\ b.cfg = r.cfg
                 /\ b.got = IF r.pair = 0 THEN a.got ELSE Append(a.got, r.pair)
<1> DEFINE r == NextPair(s, a.cfg)
           b == ReadOn(s, more, a)
<1>1. a.cfg \in Config /\ a.cfg.pos <= Len(s) /\ a.over \in BOOLEAN /\ a.got \in Seq(Nat)
  BY DEF Reader
<1>2. r \in Reply /\ (RunsOut(a.cfg, r) \/ \E q : Stops(a.cfg, q, r))
  BY <1>1, NextPairFacts
<1>3. b = CASE a.over -> a
            [] ~a.over /\ r.ret \notin more -> [a EXCEPT !.over = TRUE]
            [] OTHER -> [cfg |-> r.cfg, over |-> FALSE,
                         got |-> IF r.pair = 0 THEN a.got ELSE Append(a.got, r.pair)]
  BY Zenon DEF ReadOn
<1> HIDE DEF b, r
<1>4. CASE a.over
  <2>1. b = a
    BY <1>3, <1>4
  <2> QED BY <1>4, <2>1 DEF b, r
<1>5. CASE ~a.over /\ r.ret \notin more
  <2>1. b = [a EXCEPT !.over = TRUE]
    BY <1>3, <1>5
  <2>2. b \in Reader /\ b.over = TRUE /\ b.got = a.got
    BY <2>1 DEF Reader
  <2> QED BY <1>5, <2>2 DEF b, r
<1>6. CASE ~a.over /\ r.ret \in more
  <2> DEFINE g == IF r.pair = 0 THEN a.got ELSE Append(a.got, r.pair)
  <2>1. b = [cfg |-> r.cfg, over |-> FALSE, got |-> g]
    BY <1>3, <1>6
  <2>2. g \in Seq(Nat)
    BY <1>1, <1>2 DEF Reply
  <2>3. r.cfg \in Config /\ r.cfg.pos <= Len(s)
    <3>1. ~RunsOut(a.cfg, r)
      BY <1>6 DEF RunsOut
    <3>2. PICK q : Stops(a.cfg, q, r)
      BY <1>2, <3>1
    <3>3. r.cfg.pos = q /\ q \in a.cfg.pos + 1 .. Len(s)
      BY <3>2 DEF Stops
    <3> QED BY <1>2, <3>3 DEF Reply
  <2> HIDE DEF g
  <2>4. b \in Reader /\ b.cfg = r.cfg /\ ~b.over /\ b.got = g
    BY <2>1, <2>2, <2>3 DEF Reader
  <2> QED BY <1>6, <2>4 DEF b, r, g
<1> QED BY <1>4, <1>5, <1>6

Starting(c) == [cfg |-> c, over |-> FALSE, got |-> <<>>]

CallsOn(c, more, d) ==
  /\ d[0] = Starting(c)
  /\ \A i \in 1 .. Len(s) + 1 : d[i] = ReadOn(s, more, d[i - 1])
  /\ \A i \in 0 .. Len(s) + 1 : d[i] \in Reader
  /\ Readings(s, c, more) = d[Len(s) + 1].got

(* All its calls.                                                         *)
LEMMA CallsOnBy ==
  ASSUME s \in Seq(Line), NEW c \in Config, c.pos <= Len(s), NEW more, 0 \notin more
  PROVE  \E d : CallsOn(c, more, d)
<1> DEFINE n == Len(s) + 1
           o == Starting(c)
           Step(i, x) == ReadOn(s, more, x)
           Item(f, i) == IF i = 0 THEN o ELSE Step(i, f[i - 1])
           Raw(f) == [i \in 0 .. n |-> Item(f, i)]
           H == [i \in 1 .. n |-> [x \in Reader |-> Step(i, x)]]
           d == CHOOSE f : f = Raw(f)
<1>1. Readings(s, c, more) = d[n].got
  BY Zenon DEF Readings, Starting
<1>2. n \in Nat
  OBVIOUS
<1>3. o \in Reader /\ \A i \in 1 .. n : \A x \in Reader : Step(i, x) \in Reader
  <2>1. o \in Reader
    BY DEF Starting, Reader
  <2>2. ASSUME NEW i \in 1 .. n, NEW x \in Reader PROVE Step(i, x) \in Reader
    BY ReadOnFacts
  <2> QED BY <2>1, <2>2
<1>4. \A f : \A i \in 0 .. n : Raw(f)[i] = Item(f, i)
  BY Zenon
<1>5. ASSUME NEW f, NEW i \in 1 .. n PROVE Item(f, i) = Step(i, f[i - 1])
  <2>1. i # 0
    BY <1>2
  <2> QED BY <2>1, Zenon
<1>6. \A f : Item(f, 0) = o
  OBVIOUS
<1> HIDE DEF Step, Item, n, o
<1>7. \A i \in 1 .. n : \A x \in Reader : H[i][x] = Step(i, x)
  BY Zenon
<1>8. Steps(n, Reader, H)
  BY <1>3 DEF Steps
<1> HIDE DEF H
<1>9. PICK f : Runs(f, n, Reader, o, H)
  BY <1>2, <1>3, <1>8, Iterates
<1>10. f \in [0 .. n -> Reader] /\ f[0] = o /\ \A i \in 1 .. n : f[i] = H[i][f[i - 1]]
  BY <1>9 DEF Runs
<1>11. f = Raw(f)
  <2>1. ASSUME NEW i \in 0 .. n PROVE f[i] = Item(f, i)
    <3>1. CASE i = 0
      BY <1>6, <1>10, <3>1
    <3>2. CASE i # 0
      <4>1. i \in 1 .. n /\ i - 1 \in 0 .. n
        BY <1>2, <3>2
      <4>2. f[i - 1] \in Reader
        BY <1>10, <4>1
      <4>3. f[i] = Step(i, f[i - 1])
        BY <1>7, <1>10, <4>1, <4>2
      <4> QED BY <1>5, <4>1, <4>3
    <3> QED BY <3>1, <3>2
  <2>2. f = [i \in 0 .. n |-> f[i]]
    BY <1>10
  <2> QED BY <2>1, <2>2
<1>12. d = Raw(d)
  <2> HIDE DEF Raw
  <2> QED BY <1>11
<1> HIDE DEF d, Raw
<1>13. d[0] = o
  <2>1. 0 \in 0 .. n
    BY <1>2
  <2>2. d[0] = Item(d, 0)
    BY <1>4, <1>12, <2>1
  <2> QED BY <1>6, <2>2
<1>14. ASSUME NEW i \in 1 .. n PROVE d[i] = Step(i, d[i - 1])
  <2>1. i \in 0 .. n
    BY <1>2
  <2> QED BY <1>4, <1>5, <1>12, <2>1
<1> DEFINE G == {i \in 0 .. n : d[i] \in Reader}
<1>15. 0 \in G
  <2>1. 0 \in 0 .. n
    BY <1>2
  <2> QED BY <1>3, <1>13, <2>1
<1>16. ASSUME NEW i \in 1 .. n, i - 1 \in G PROVE i \in G
  <2>1. i \in 0 .. n
    BY <1>2
  <2> QED BY <1>3, <1>14, <1>16, <2>1
<1>17. G = 0 .. n
  <2>1. G \in SUBSET (0 .. n)
    OBVIOUS
  <2> HIDE DEF G
  <2> QED BY <1>2, <1>15, <1>16, <2>1, Inductive
<1>18. \A i \in 0 .. n : d[i] \in Reader
  BY <1>17
<1> QED BY <1>1, <1>13, <1>14, <1>18 DEF n, o, Step, CallsOn

(* The lines that a reader in state c gets to read: last is the line at    *)
(* which it ends, or the place behind the file.                            *)
Stretch(c, last) ==
  /\ c.pos <= Len(s) /\ last \in c.pos + 1 .. Len(s) + 1
  /\ c.lockto > -1 => c.sectno = c.lockto
  /\ \A i \in c.pos + 1 .. last - 1 : ~AtEnd(i) /\ (c.lockto > -1 => ~AtHeader(i))
  /\ last <= Len(s) => AtEnd(last) \/ (AtHeader(last) /\ c.lockto > -1)

(* A reader that stops there.                                              *)
Patient(more, last) == 1 \in more /\ 0 \notin more /\ (-1 \in more => ~Spoilt(last))

(* On its way, after i calls, or at the end.                               *)
Within(c, last, i, a) ==
  /\ ~a.over /\ a.cfg.pos \in c.pos .. last - 1 /\ a.cfg.pos >= c.pos + i
  /\ a.cfg.lockto = c.lockto /\ (c.lockto > -1 => a.cfg.sectno = c.lockto)
  /\ a.got = PairsBetween(c.pos, a.cfg.pos + 1)

Through(c, last, a) == a.over /\ a.got = PairsBetween(c.pos, last)

LEMMA SpoiltFacts ==
  ASSUME NEW p \in Nat, NEW q \in Nat, s \in Seq(Line), q <= Len(s) + 1,
         QuietBetween(p, q), ~Spoilt(q)
  PROVE  Said(p, q) = 0
<1>1. ASSUME NEW j \in p + 1 .. q - 1, AtJunk(j) PROVE FALSE
  <2>1. j \in Kinds("junk") /\ j < q
    BY <1>1 DEF Kinds, AtJunk
  <2>2. \A i \in j + 1 .. q - 1 : s[i].kind \in {"junk", "comment", "category"}
    BY DEF QuietBetween, Quiet
  <2> QED BY <2>1, <2>2 DEF Spoilt
<1>2. ~Spoils(p, q)
  BY <1>1 DEF Spoils
<1> QED BY <1>2 DEF Said

(* One call brings the reader on its way or to the end.                    *)
LEMMA CallFacts ==
  ASSUME s \in Seq(Line), NEW c \in Config, NEW last, NEW more, Stretch(c, last),
         Patient(more, last), NEW i \in Nat, NEW a \in Reader, Within(c, last, i, a)
  PROVE  LET b == ReadOn(s, more, a)
         IN Within(c, last, i + 1, b) \/ Through(c, last, b)
<1> DEFINE f == a.cfg
           x == f.pos
           r == NextPair(s, f)
           b == ReadOn(s, more, a)
           n == Len(s)
           p == c.pos
<1>1. /\ n \in Nat /\ p \in 0 .. n /\ last \in p + 1 .. n + 1
      /\ c.lockto \in Int /\ c.sectno \in Nat
      /\ c.lockto > -1 => c.sectno = c.lockto
      /\ \A j \in p + 1 .. last - 1 : ~AtEnd(j) /\ (c.lockto > -1 => ~AtHeader(j))
      /\ last <= n => AtEnd(last) \/ (AtHeader(last) /\ c.lockto > -1)
  BY DEF Stretch, Config
<1>2. 1 \in more /\ 0 \notin more /\ (-1 \in more => ~Spoilt(last))
  BY DEF Patient
<1>3. /\ ~a.over /\ x \in p .. last - 1 /\ x >= p + i
      /\ f.lockto = c.lockto /\ (c.lockto > -1 => f.sectno = c.lockto)
      /\ a.got = PairsBetween(p, x + 1)
  BY DEF Within
<1>4. f \in Config /\ x <= n /\ x \in Nat /\ f.sectno \in Nat
  BY DEF Reader, Config
<1>5. r \in Reply /\ (RunsOut(f, r) \/ \E q : Stops(f, q, r))
  BY <1>4, NextPairFacts
<1>6. /\ b \in Reader
      /\ r.ret \notin more => b.over /\ b.got = a.got
      /\ r.ret \in more => /\ ~b.over /\ b.cfg = r.cfg
                           /\ b.got = IF r.pair = 0 THEN a.got ELSE Append(a.got, r.pair)
  BY <1>2, <1>3, ReadOnFacts
<1>7. last <= n => ~Quiet(last) /\ last \in 1 .. n
  <2>1. last <= n => last \in 1 .. n
    BY <1>1
  <2> QED BY <1>1, <2>1, KindFacts
<1> HIDE DEF r, b
<1>8. ASSUME RunsOut(f, r) PROVE Through(c, last, b)
  <2>1. QuietBetween(x, n + 1) /\ r.ret = 0
    BY <1>8 DEF RunsOut
  <2>2. last = n + 1
    <3>1. ASSUME last <= n PROVE FALSE
      <4>1. last \in x + 1 .. (n + 1) - 1
        BY <1>1, <1>3, <1>4, <3>1
      <4>2. Quiet(last)
        BY <2>1, <4>1 DEF QuietBetween
      <4> QED BY <1>7, <3>1, <4>2
    <3> QED BY <1>1, <3>1
  <2>3. PairsBetween(p, n + 1) = PairsBetween(p, x + 1)
    <3>1. x \in p .. Len(s) /\ n + 1 \in x + 1 .. Len(s) + 1
      BY <1>1, <1>3, <1>4
    <3> QED BY <1>1, <2>1, <3>1, NoneOnTheWay
  <2> QED BY <1>2, <1>3, <1>6, <2>1, <2>2, <2>3 DEF Through
<1>9. ASSUME NEW q, Stops(f, q, r)
      PROVE  Within(c, last, i + 1, b) \/ Through(c, last, b)
  <2>1. /\ q \in x + 1 .. n /\ QuietBetween(x, q) /\ ~Quiet(q)
        /\ r.cfg.pos = q /\ r.cfg.lockto = f.lockto
    BY <1>9 DEF Stops
  <2>2. /\ AtHeader(q) => /\ r.pair = 0 /\ r.cfg.sectno = f.sectno + 1
                          /\ r.ret = IF LockedOut(f, s[q].name) THEN Said(x, q) ELSE 1
        /\ ~AtHeader(q) => r.cfg.sectno = f.sectno
        /\ AtEnd(q) => r.ret = Said(x, q)
        /\ AtPair(q) => r.pair = q /\ r.ret = 1
    BY <1>9 DEF Stops
  <2>3. q \in 1 .. n /\ q \in p + 1 .. n /\ q # 0
    <3>1. n \in Nat /\ p \in Nat /\ x \in Nat /\ x >= p
      BY <1>1, <1>3, <1>4
    <3>2. q \in x + 1 .. n
      BY <2>1
    <3> HIDE DEF n, p, x
    <3> QED BY <3>1, <3>2
  <2>4. /\ AtHeader(q) \/ AtEnd(q) \/ AtPair(q)
        /\ ~(AtHeader(q) /\ AtPair(q)) /\ ~(AtHeader(q) /\ AtEnd(q)) /\ ~(AtEnd(q) /\ AtPair(q))
    BY <2>1, <2>3, KindFacts
  <2>5. q <= last
    <3>1. ASSUME last < q PROVE FALSE
      <4>1. last \in x + 1 .. q - 1 /\ last <= n
        <5>1. n \in Nat /\ p \in 0 .. n /\ last \in p + 1 .. n + 1 /\ x \in p .. last - 1
          BY <1>1, <1>3
        <5>2. q \in x + 1 .. n
          BY <2>1
        <5> HIDE DEF n, p, x
        <5> QED BY <3>1, <5>1, <5>2
      <4>2. Quiet(last)
        BY <2>1, <4>1 DEF QuietBetween
      <4> QED BY <1>7, <4>1, <4>2
    <3> QED BY <1>1, <2>3, <3>1
  <2>6. PairsBetween(p, q) = PairsBetween(p, x + 1)
    <3>1. x \in p .. Len(s) /\ q \in x + 1 .. Len(s) + 1
      BY <1>1, <1>3, <1>4, <2>1
    <3> QED BY <1>1, <2>1, <3>1, NoneOnTheWay
  <2>7. CASE q < last
    <3>1. q \in p + 1 .. last - 1
      BY <1>1, <2>3, <2>7
    <3>2. ~AtEnd(q) /\ (c.lockto > -1 => ~AtHeader(q))
      BY <1>1, <3>1
    <3>3. r.ret = 1
      <4>1. CASE AtHeader(q)
        <5>1. ~LockedOut(f, s[q].name)
          BY <1>3, <3>2, <4>1 DEF LockedOut
        <5> QED BY <2>2, <4>1, <5>1
      <4> QED BY <2>2, <2>4, <3>2, <4>1
    <3>4. /\ ~b.over /\ b.cfg = r.cfg
          /\ b.got = IF r.pair = 0 THEN a.got ELSE Append(a.got, r.pair)
      BY <1>2, <1>6, <3>3
    <3>5. b.got = PairsBetween(p, q + 1)
      <4>1. PairsBetween(p, q + 1) = IF AtPair(q) THEN Append(PairsBetween(p, q), q)
                                     ELSE PairsBetween(p, q)
        BY <1>1, <2>3, PairsFacts
      <4> QED BY <1>3, <2>2, <2>3, <2>4, <2>6, <3>2, <3>4, <4>1
    <3>6. c.lockto > -1 => b.cfg.sectno = c.lockto
      BY <1>3, <2>2, <3>2, <3>4
    <3>7. b.cfg.lockto = c.lockto /\ b.cfg.pos = q
      BY <1>3, <2>1, <3>4
    <3>8. b.cfg.pos \in p .. last - 1 /\ b.cfg.pos >= p + (i + 1)
      <4>1. q \in p .. last - 1
        BY <1>1, <3>1
      <4>2. q >= x + 1
        BY <2>1
      <4> HIDE DEF x, p, f
      <4>3. q >= p + (i + 1)
        BY <1>1, <1>3, <1>4, <2>3, <4>2
      <4> QED BY <3>7, <4>1, <4>3
    <3>9. Within(c, last, i + 1, b)
      BY <3>4, <3>5, <3>6, <3>7, <3>8 DEF Within
    <3> QED BY <3>9
  <2>8. CASE ~(q < last)
    <3>1. q = last /\ last <= n
      BY <1>1, <2>3, <2>5, <2>8
    <3>2. r.ret = Said(x, q)
      <4>1. CASE AtEnd(q)
        BY <2>2, <4>1
      <4>2. CASE ~AtEnd(q)
        <5>1. AtHeader(q) /\ c.lockto > -1
          BY <1>1, <3>1, <4>2
        <5>2. LockedOut(f, s[q].name)
          BY <1>1, <1>3, <1>4, <5>1 DEF LockedOut
        <5> QED BY <2>2, <5>1, <5>2
      <4> QED BY <4>1, <4>2
    <3>3. r.ret \notin more
      <4>1. -1 \in more => Said(x, q) = 0
        <5>1. q \in Nat /\ q <= Len(s) + 1
          BY <1>1, <3>1
        <5> QED BY <1>2, <1>4, <2>1, <3>1, <5>1, SpoiltFacts
      <4>2. Said(x, q) = 0 \/ Said(x, q) = -1
        BY DEF Said
      <4> QED BY <1>2, <3>2, <4>1, <4>2
    <3>4. Through(c, last, b)
      BY <1>3, <1>6, <2>6, <3>1, <3>3 DEF Through
    <3> QED BY <3>4
  <2> QED BY <2>7, <2>8
<1>10. Within(c, last, i + 1, b) \/ Through(c, last, b)
  BY <1>5, <1>8, <1>9
<1> QED BY <1>10 DEF b

(* A patient reader gets the assignments of its stretch.                   *)
LEMMA ReadingsFacts ==
  ASSUME s \in Seq(Line), NEW c \in Config, NEW last, NEW more, Stretch(c, last),
         Patient(more, last)
  PROVE  Readings(s, c, more) = PairsBetween(c.pos, last)
<1> DEFINE n == Len(s) + 1
<1>1. c.pos <= Len(s) /\ 0 \notin more /\ last \in c.pos + 1 .. Len(s) + 1
  BY DEF Stretch, Patient
<1>2. PICK d : CallsOn(c, more, d)
  BY <1>1, CallsOnBy
<1>3. /\ d[0] = Starting(c) /\ \A i \in 1 .. n : d[i] = ReadOn(s, more, d[i - 1])
      /\ \A i \in 0 .. n : d[i] \in Reader
      /\ Readings(s, c, more) = d[n].got
  BY <1>2 DEF CallsOn
<1>4. n \in Nat /\ c.pos \in 0 .. Len(s) /\ c.pos + n > last - 1
  BY <1>1 DEF Config
<1> HIDE DEF n
<1> DEFINE G == {i \in 0 .. n : Within(c, last, i, d[i]) \/ Through(c, last, d[i])}
<1>5. 0 \in G
  <2> DEFINE o == Starting(c)
  <2>1. ~o.over /\ o.cfg = c /\ o.got = <<>>
    BY DEF Starting
  <2> HIDE DEF o
  <2>2. PairsBetween(c.pos, c.pos + 1) = <<>>
    BY <1>4, PairsFacts
  <2>3. c.pos \in c.pos .. last - 1 /\ c.pos >= c.pos + 0
    BY <1>1, <1>4
  <2>4. c.lockto > -1 => c.sectno = c.lockto
    BY DEF Stretch
  <2>5. Within(c, last, 0, o)
    BY <2>1, <2>2, <2>3, <2>4 DEF Within
  <2>6. d[0] = o /\ 0 \in 0 .. n
    BY <1>3, <1>4 DEF o
  <2> QED BY <2>5, <2>6
<1>6. ASSUME NEW i \in 1 .. n, i - 1 \in G PROVE i \in G
  <2> DEFINE k == i - 1
             a == d[k]
  <2>1. k \in Nat /\ k \in 0 .. n /\ i \in 0 .. n /\ k + 1 = i
    BY <1>4
  <2>2. a \in Reader /\ d[i] = ReadOn(s, more, a)
    BY <1>3, <2>1
  <2>3. Within(c, last, k, a) \/ Through(c, last, a)
    BY <1>6
  <2> HIDE DEF k, a
  <2>4. CASE Within(c, last, k, a)
    <3>1. LET b == ReadOn(s, more, a)
          IN Within(c, last, k + 1, b) \/ Through(c, last, b)
      BY <2>1, <2>2, <2>4, CallFacts
    <3> QED BY <2>1, <2>2, <3>1
  <2>5. CASE Through(c, last, a)
    <3>1. a.over
      BY <2>5 DEF Through
    <3>2. d[i] = a
      BY <1>1, <2>2, <3>1, ReadOnFacts
    <3> QED BY <2>1, <2>5, <3>2
  <2> QED BY <2>3, <2>4, <2>5
<1>7. G = 0 .. n
  <2>1. G \in SUBSET (0 .. n)
    OBVIOUS
  <2> HIDE DEF G
  <2> QED BY <1>4, <1>5, <1>6, <2>1, Inductive
<1>8. Within(c, last, n, d[n]) \/ Through(c, last, d[n])
  <2>1. n \in 0 .. n
    BY <1>4
  <2> QED BY <1>7, <2>1
<1>9. ~Within(c, last, n, d[n])
  <2> DEFINE x == d[n].cfg.pos
  <2>1. ASSUME Within(c, last, n, d[n]) PROVE x \in c.pos .. last - 1 /\ x >= c.pos + n
    BY <2>1 DEF Within
  <2> HIDE DEF x
  <2> QED BY <1>1, <1>4, <2>1
<1> QED BY <1>3, <1>8, <1>9 DEF Through

LEMMA SmallestFacts ==
  ASSUME NEW S \in SUBSET Nat, NEW default
  PROVE  /\ S = {} => SmallestOf(S, default) = default
         /\ S # {} => /\ SmallestOf(S, default) \in S
                      /\ \A j \in S : SmallestOf(S, default) <= j
<1>1. S # {} => \E i \in S : \A j \in S : i <= j
  BY LeastNatural
<1> QED BY <1>1 DEF SmallestOf

LEMMA EndFacts ==
  ASSUME s \in Seq(Line), NEW p \in 1 .. Len(s) + 1
  PROVE  /\ EndAfter(p) \in p .. Len(s) + 1
         /\ EndAfter(p) <= Len(s) => AtEnd(EndAfter(p))
         /\ \A i \in p .. EndAfter(p) - 1 : ~AtEnd(i)
<1> DEFINE S == {i \in Kinds("end") : i >= p}
           e == EndAfter(p)
<1>1. Len(s) \in Nat /\ DOMAIN s = 1 .. Len(s)
  OBVIOUS
<1>2. \A i : i \in S <=> i \in p .. Len(s) /\ AtEnd(i)
  BY <1>1 DEF Kinds, AtEnd
<1>3. e = SmallestOf(S, Len(s) + 1)
  BY DEF EndAfter
<1>4. S \in SUBSET Nat
  BY <1>1, <1>2
<1> HIDE DEF S, e
<1>5. /\ S = {} => e = Len(s) + 1
      /\ S # {} => e \in S /\ \A j \in S : e <= j
  BY <1>3, <1>4, SmallestFacts
<1>6. e \in p .. Len(s) + 1
  BY <1>1, <1>2, <1>5
<1>7. e <= Len(s) => AtEnd(e)
  BY <1>1, <1>2, <1>5
<1>8. ASSUME NEW i \in p .. e - 1, AtEnd(i) PROVE FALSE
  <2>1. i \in S /\ ~(e <= i)
    BY <1>1, <1>2, <1>6, <1>8
  <2> QED BY <1>5, <2>1
<1> QED BY <1>6, <1>7, <1>8 DEF e

LEMMA NewConfigFacts ==
  /\ NewConfig \in Config /\ NewConfig.pos = 0 /\ NewConfig.lockto = -1
  /\ NewConfig.section = ""
BY DEF NewConfig, Config, SectionName

LEMMA MoreFacts ==
  /\ 1 \in Strict /\ 0 \notin Strict /\ -1 \notin Strict
  /\ 1 \in Lenient /\ 0 \notin Lenient
BY DEF Strict, Lenient

(* For files of any length: a reader that stops at any result but 1 gets   *)
(* every assignment in front of the first __END__ and nothing behind it,   *)
(* and so does one that stops only at 0, unless that __END__ is spoilt.    *)
THEOREM NothingReadBehindEnd ==
  ASSUME s \in Seq(Line)
  PROVE  NothingBehindEnd
<1> DEFINE e == EndAfter(1)
           c == NewConfig
<1>1. Len(s) \in Nat /\ 1 \in 1 .. Len(s) + 1
  OBVIOUS
<1>2. /\ e \in 1 .. Len(s) + 1
      /\ e <= Len(s) => AtEnd(e)
      /\ \A i \in 1 .. e - 1 : ~AtEnd(i)
  BY <1>1, EndFacts
<1>3. c \in Config /\ c.pos = 0 /\ c.lockto = -1
  BY NewConfigFacts
<1> HIDE DEF e, c
<1>4. Stretch(c, e)
  <2>1. c.pos <= Len(s) /\ e \in c.pos + 1 .. Len(s) + 1 /\ ~(c.lockto > -1)
    BY <1>1, <1>2, <1>3
  <2>2. \A i \in c.pos + 1 .. e - 1 : ~AtEnd(i)
    BY <1>2, <1>3
  <2> QED BY <1>2, <2>1, <2>2 DEF Stretch
<1>5. Patient(Strict, e) /\ (~Spoilt(e) => Patient(Lenient, e))
  BY MoreFacts DEF Patient
<1>6. Readings(s, c, Strict) = PairsBetween(0, e)
  BY <1>3, <1>4, <1>5, ReadingsFacts
<1>7. ~Spoilt(e) => Readings(s, c, Lenient) = PairsBetween(0, e)
  BY <1>3, <1>4, <1>5, ReadingsFacts
<1> QED BY <1>6, <1>7 DEF NothingBehindEnd, e, c

-----------------------------------------------------------------------------
(* The search for a section.                                               *)

Hunt == [cfg : {c \in Config : c.pos <= Len(s)}, over : BOOLEAN, open : BOOLEAN]

LEMMA SearchOnFacts ==
  ASSUME s \in Seq(Line), NEW name, NEW a \in Hunt
  PROVE  LET r == NextPair(s, a.cfg)
             b == SearchOn(s, name, a)
         IN /\ b \in Hunt
            /\ a.over => b = a
            /\ ~a.over /\ r.ret = 0 => b.over /\ b.open = a.open
            /\ ~a.over /\ r.ret # 0 /\ r.cfg.section = name =>
                 /\ b.over /\ b.open /\ b.cfg.pos = r.cfg.pos
                 /\ b.cfg.sectno = r.cfg.sectno /\ b.cfg.lockto = r.cfg.sectno
            /\ ~a.over /\ r.ret # 0 /\ r.cfg.section # name =>
                 ~b.over /\ b.open = a.open /\ b.cfg = r.cfg
<1> DEFINE r == NextPair(s, a.cfg)
           b == SearchOn(s, name, a)
<1>1. a.cfg \in Config /\ a.cfg.pos <= Len(s) /\ a.over \in BOOLEAN /\ a.open \in BOOLEAN
  BY DEF Hunt
<1>2. r \in Reply /\ (RunsOut(a.cfg, r) \/ \E q : Stops(a.cfg, q, r))
  BY <1>1, NextPairFacts
<1>3. b = CASE a.over -> a
            [] ~a.over /\ r.ret = 0 -> [a EXCEPT !.over = TRUE]
            [] OTHER -> IF r.cfg.section = name
                        THEN [cfg |-> [r.cfg EXCEPT !.lockto = r.cfg.sectno],
                              over |-> TRUE, open |-> TRUE]
                        ELSE [a EXCEPT !.cfg = r.cfg]
  BY Zenon DEF SearchOn
<1> HIDE DEF b, r
<1>4. r.ret # 0 => r.cfg \in Config /\ r.cfg.pos <= Len(s)
  <2>1. ASSUME r.ret # 0 PROVE r.cfg \in Config /\ r.cfg.pos <= Len(s)
    <3>1. ~RunsOut(a.cfg, r)
      BY <2>1 DEF RunsOut
    <3>2. PICK q : Stops(a.cfg, q, r)
      BY <1>2, <3>1
    <3>3. r.cfg.pos = q /\ q \in a.cfg.pos + 1 .. Len(s)
      BY <3>2 DEF Stops
    <3> QED BY <1>2, <3>3 DEF Reply
  <2> QED BY <2>1
<1>5. CASE a.over
  <2>1. b = a
    BY <1>3, <1>5
  <2> QED BY <1>5, <2>1 DEF b, r
<1>6. CASE ~a.over /\ r.ret = 0
  <2>1. b = [a EXCEPT !.over = TRUE]
    BY <1>3, <1>6
  <2>2. b \in Hunt /\ b.over = TRUE /\ b.open = a.open
    BY <2>1 DEF Hunt
  <2> QED BY <1>6, <2>2 DEF b, r
<1>7. CASE ~a.over /\ r.ret # 0 /\ r.cfg.section = name
  <2> DEFINE c == r.cfg
             f == [c EXCEPT !.lockto = c.sectno]
  <2>1. b = [cfg |-> f, over |-> TRUE, open |-> TRUE]
    BY <1>3, <1>7
  <2>2. c \in Config /\ c.pos <= Len(s)
    BY <1>4, <1>7
  <2> HIDE DEF c
  <2>3. f \in Config /\ f.pos = c.pos /\ f.sectno = c.sectno /\ f.lockto = c.sectno
    BY <2>2 DEF Config
  <2> HIDE DEF f
  <2>4. b \in Hunt /\ b.cfg = f /\ b.over = TRUE /\ b.open = TRUE
    BY <2>1, <2>2, <2>3 DEF Hunt
  <2> QED BY <1>7, <2>3, <2>4 DEF b, r, c
<1>8. CASE ~a.over /\ r.ret # 0 /\ r.cfg.section # name
  <2>1. b = [a EXCEPT !.cfg = r.cfg]
    BY <1>3, <1>8
  <2>2. b \in Hunt /\ b.over = a.over /\ b.open = a.open /\ b.cfg = r.cfg
    BY <1>4, <1>8, <2>1 DEF Hunt
  <2> QED BY <1>8, <2>2 DEF b, r
<1> QED BY <1>5, <1>6, <1>7, <1>8

Setout == [cfg |-> NewConfig, over |-> FALSE, open |-> FALSE]

Hunts(name, d) ==
  /\ d[0] = Setout
  /\ \A i \in 1 .. Len(s) + 1 : d[i] = SearchOn(s, name, d[i - 1])
  /\ \A i \in 0 .. Len(s) + 1 : d[i] \in Hunt
  /\ OpenedShared(s, name) = d[Len(s) + 1]

(* The loop of esl_config_open_file.                                       *)
LEMMA HuntsBy ==
  ASSUME s \in Seq(Line), NEW name
  PROVE  \E d : Hunts(name, d)
<1> DEFINE n == Len(s) + 1
           o == Setout
           Step(i, x) == SearchOn(s, name, x)
           Item(f, i) == IF i = 0 THEN o ELSE Step(i, f[i - 1])
           Raw(f) == [i \in 0 .. n |-> Item(f, i)]
           H == [i \in 1 .. n |-> [x \in Hunt |-> Step(i, x)]]
           d == CHOOSE f : f = Raw(f)
<1>1. OpenedShared(s, name) = d[n]
  BY Zenon DEF OpenedShared, Setout
<1>2. n \in Nat
  OBVIOUS
<1>3. o \in Hunt /\ \A i \in 1 .. n : \A x \in Hunt : Step(i, x) \in Hunt
  <2>1. o \in Hunt
    <3>1. Len(s) >= 0
      OBVIOUS
    <3> QED BY <3>1, NewConfigFacts DEF Setout, Hunt
  <2>2. ASSUME NEW i \in 1 .. n, NEW x \in Hunt PROVE Step(i, x) \in Hunt
    BY SearchOnFacts
  <2> QED BY <2>1, <2>2
<1>4. \A f : \A i \in 0 .. n : Raw(f)[i] = Item(f, i)
  BY Zenon
<1>5. ASSUME NEW f, NEW i \in 1 .. n PROVE Item(f, i) = Step(i, f[i - 1])
  <2>1. i # 0
    BY <1>2
  <2> QED BY <2>1, Zenon
<1>6. \A f : Item(f, 0) = o
  OBVIOUS
<1> HIDE DEF Step, Item, n, o
<1>7. \A i \in 1 .. n : \A x \in Hunt : H[i][x] = Step(i, x)
  BY Zenon
<1>8. Steps(n, Hunt, H)
  BY <1>3 DEF Steps
<1> HIDE DEF H
<1>9. PICK f : Runs(f, n, Hunt, o, H)
  BY <1>2, <1>3, <1>8, Iterates
<1>10. f \in [0 .. n -> Hunt] /\ f[0] = o /\ \A i \in 1 .. n : f[i] = H[i][f[i - 1]]
  BY <1>9 DEF Runs
<1>11. f = Raw(f)
  <2>1. ASSUME NEW i \in 0 .. n PROVE f[i] = Item(f, i)
    <3>1. CASE i = 0
      BY <1>6, <1>10, <3>1
    <3>2. CASE i # 0
      <4>1. i \in 1 .. n /\ i - 1 \in 0 .. n
        BY <1>2, <3>2
      <4>2. f[i - 1] \in Hunt
        BY <1>10, <4>1
      <4>3. f[i] = Step(i, f[i - 1])
        BY <1>7, <1>10, <4>1, <4>2
      <4> QED BY <1>5, <4>1, <4>3
    <3> QED BY <3>1, <3>2
  <2>2. f = [i \in 0 .. n |-> f[i]]
    BY <1>10
  <2> QED BY <2>1, <2>2
<1>12. d = Raw(d)
  <2> HIDE DEF Raw
  <2> QED BY <1>11
<1> HIDE DEF d, Raw
<1>13. d[0] = o
  <2>1. 0 \in 0 .. n
    BY <1>2
  <2>2. d[0] = Item(d, 0)
    BY <1>4, <1>12, <2>1
  <2> QED BY <1>6, <2>2
<1>14. ASSUME NEW i \in 1 .. n PROVE d[i] = Step(i, d[i - 1])
  <2>1. i \in 0 .. n
    BY <1>2
  <2> QED BY <1>4, <1>5, <1>12, <2>1
<1> DEFINE G == {i \in 0 .. n : d[i] \in Hunt}
<1>15. 0 \in G
  <2>1. 0 \in 0 .. n
    BY <1>2
  <2> QED BY <1>3, <1>13, <2>1
<1>16. ASSUME NEW i \in 1 .. n, i - 1 \in G PROVE i \in G
  <2>1. i \in 0 .. n
    BY <1>2
  <2> QED BY <1>3, <1>14, <1>16, <2>1
<1>17. G = 0 .. n
  <2>1. G \in SUBSET (0 .. n)
    OBVIOUS
  <2> HIDE DEF G
  <2> QED BY <1>2, <1>15, <1>16, <2>1, Inductive
<1>18. \A i \in 0 .. n : d[i] \in Hunt
  BY <1>17
<1> QED BY <1>1, <1>13, <1>14, <1>18 DEF n, o, Step, Hunts

(* The first header of a name in front of e.                               *)
FirstHeader(name, e) == SmallestOf({i \in Kinds("section") : i < e /\ s[i].name = name}, 0)

LEMMA HeaderFacts ==
  ASSUME s \in Seq(Line), NEW name, NEW e \in 1 .. Len(s) + 1
  PROVE  LET h == FirstHeader(name, e)
         IN /\ h \in 0 .. e - 1
            /\ h # 0 => AtHeader(h) /\ s[h].name = name
            /\ \A i \in 1 .. e - 1 : AtHeader(i) /\ s[i].name = name => h # 0 /\ h <= i
<1> DEFINE S == {i \in Kinds("section") : i < e /\ s[i].name = name}
           h == FirstHeader(name, e)
<1>1. Len(s) \in Nat /\ DOMAIN s = 1 .. Len(s)
  OBVIOUS
<1>2. \A i : i \in S <=> i \in 1 .. e - 1 /\ AtHeader(i) /\ s[i].name = name
  BY <1>1 DEF Kinds, AtHeader
<1>3. h = SmallestOf(S, 0)
  BY DEF FirstHeader
<1>4. S \in SUBSET Nat
  BY <1>1, <1>2
<1> HIDE DEF S, h
<1>5. /\ S = {} => h = 0
      /\ S # {} => h \in S /\ \A j \in S : h <= j
  BY <1>3, <1>4, SmallestFacts
<1>6. h \in 0 .. e - 1
  BY <1>1, <1>2, <1>5
<1>7. h # 0 => AtHeader(h) /\ s[h].name = name
  BY <1>2, <1>5
<1>8. ASSUME NEW i \in 1 .. e - 1, AtHeader(i), s[i].name = name PROVE h # 0 /\ h <= i
  <2>1. i \in S
    BY <1>2, <1>8
  <2>2. h \in S /\ h <= i
    BY <1>5, <2>1
  <2>3. h \in 1 .. e - 1
    BY <1>2, <2>2
  <2> QED BY <2>2, <2>3
<1> QED BY <1>6, <1>7, <1>8 DEF h

(* Still in front of the header h that is looked for, after i turns; and   *)
(* at the end of the search.                                               *)
Looking(name, e, h, i, a) ==
  /\ ~a.over /\ ~a.open /\ a.cfg.lockto = -1 /\ a.cfg.section # name
  /\ a.cfg.pos \in 0 .. e - 1 /\ a.cfg.pos >= i /\ (h # 0 => a.cfg.pos < h)

Settled(h, a) ==
  /\ a.over /\ (a.open <=> h # 0)
  /\ h # 0 => a.cfg.pos = h /\ a.cfg.lockto = a.cfg.sectno

LEMMA HuntStep ==
  ASSUME s \in Seq(Line), NEW name, NEW e, e = EndAfter(1), ~Spoilt(e),
         NEW h, h = FirstHeader(name, e),
         NEW i \in Nat, NEW a \in Hunt, Looking(name, e, h, i, a)
  PROVE  LET b == SearchOn(s, name, a)
         IN Looking(name, e, h, i + 1, b) \/ Settled(h, b)
<1> DEFINE f == a.cfg
           x == f.pos
           r == NextPair(s, f)
           b == SearchOn(s, name, a)
           n == Len(s)
<1>1. n \in Nat /\ 1 \in 1 .. Len(s) + 1
  OBVIOUS
<1>2. /\ e \in 1 .. n + 1
      /\ e <= n => AtEnd(e)
      /\ \A j \in 1 .. e - 1 : ~AtEnd(j)
  BY <1>1, EndFacts
<1>3. /\ h \in 0 .. e - 1
      /\ h # 0 => AtHeader(h) /\ s[h].name = name
      /\ \A j \in 1 .. e - 1 : AtHeader(j) /\ s[j].name = name => h # 0 /\ h <= j
  BY <1>2, HeaderFacts
<1>4. /\ ~a.over /\ ~a.open /\ f.lockto = -1 /\ f.section # name
      /\ x \in 0 .. e - 1 /\ x >= i /\ (h # 0 => x < h)
  BY DEF Looking
<1>5. f \in Config /\ x <= n /\ x \in Nat
  BY DEF Hunt, Config
<1>6. r \in Reply /\ (RunsOut(f, r) \/ \E q : Stops(f, q, r))
  BY <1>5, NextPairFacts
<1>7. /\ b \in Hunt
      /\ r.ret = 0 => b.over /\ b.open = a.open
      /\ r.ret # 0 /\ r.cfg.section = name =>
           /\ b.over /\ b.open /\ b.cfg.pos = r.cfg.pos
           /\ b.cfg.sectno = r.cfg.sectno /\ b.cfg.lockto = r.cfg.sectno
      /\ r.ret # 0 /\ r.cfg.section # name => ~b.over /\ b.open = a.open /\ b.cfg = r.cfg
  BY <1>4, SearchOnFacts
<1>8. /\ e <= n => ~Quiet(e)
      /\ h # 0 => ~Quiet(h) /\ h \in 1 .. n
  <2>1. (e <= n => e \in 1 .. n) /\ (h # 0 => h \in 1 .. n)
    BY <1>1, <1>2, <1>3
  <2>2. e <= n => ~Quiet(e)
    BY <1>2, <2>1, KindFacts
  <2>3. h # 0 => ~Quiet(h)
    BY <1>3, <2>1, KindFacts
  <2> QED BY <2>1, <2>2, <2>3
<1> HIDE DEF r, b
<1>9. ASSUME RunsOut(f, r) PROVE Settled(h, b)
  <2>1. QuietBetween(x, n + 1) /\ r.ret = 0
    BY <1>9 DEF RunsOut
  <2>2. h = 0
    <3>1. ASSUME h # 0 PROVE FALSE
      <4>1. h \in x + 1 .. (n + 1) - 1
        BY <1>4, <1>5, <1>8, <3>1
      <4>2. Quiet(h)
        BY <2>1, <4>1 DEF QuietBetween
      <4> QED BY <1>8, <3>1, <4>2
    <3> QED BY <3>1
  <2> QED BY <1>4, <1>7, <2>1, <2>2 DEF Settled
<1>10. ASSUME NEW q, Stops(f, q, r)
       PROVE  Looking(name, e, h, i + 1, b) \/ Settled(h, b)
  <2>1. /\ q \in x + 1 .. n /\ QuietBetween(x, q) /\ ~Quiet(q)
        /\ r.cfg.pos = q /\ r.cfg.lockto = f.lockto
    BY <1>10 DEF Stops
  <2>2. /\ AtHeader(q) => /\ r.cfg.section = s[q].name
                          /\ r.ret = IF LockedOut(f, s[q].name) THEN Said(x, q) ELSE 1
        /\ ~AtHeader(q) => r.cfg.section = f.section
        /\ AtEnd(q) => r.ret = Said(x, q)
        /\ AtPair(q) => r.ret = 1
    BY <1>10 DEF Stops
  <2>3. q \in 1 .. n
    BY <1>1, <1>5, <2>1
  <2>4. /\ AtHeader(q) \/ AtEnd(q) \/ AtPair(q)
        /\ ~(AtHeader(q) /\ AtPair(q)) /\ ~(AtHeader(q) /\ AtEnd(q)) /\ ~(AtEnd(q) /\ AtPair(q))
    BY <2>1, <2>3, KindFacts
  <2>5. q <= e
    <3>1. ASSUME e < q PROVE FALSE
      <4>1. e \in x + 1 .. q - 1 /\ e <= n
        BY <1>1, <1>2, <1>4, <2>1, <3>1
      <4>2. Quiet(e)
        BY <2>1, <4>1 DEF QuietBetween
      <4> QED BY <1>8, <4>1, <4>2
    <3> QED BY <1>2, <2>3, <3>1
  <2>6. h # 0 => q <= h
    <3>1. ASSUME h # 0, h < q PROVE FALSE
      <4>1. h \in x + 1 .. q - 1
        BY <1>1, <1>4, <1>5, <1>8, <2>1, <3>1
      <4>2. Quiet(h)
        BY <2>1, <4>1 DEF QuietBetween
      <4> QED BY <1>8, <3>1, <4>2
    <3> QED BY <1>3, <2>3, <3>1
  <2>7. CASE q < e
    <3>1. q \in 1 .. e - 1
      BY <1>2, <2>3, <2>7
    <3>2. ~AtEnd(q)
      BY <1>2, <3>1
    <3>3. r.ret = 1
      <4>1. CASE AtHeader(q)
        <5>1. ~LockedOut(f, s[q].name)
          BY <1>4 DEF LockedOut
        <5> QED BY <2>2, <4>1, <5>1
      <4> QED BY <2>2, <2>4, <3>2, <4>1
    <3>4. CASE AtHeader(q) /\ s[q].name = name
      <4>1. h # 0 /\ h = q
        BY <1>3, <2>3, <2>6, <3>1, <3>4
      <4>2. b.over /\ b.open /\ b.cfg.pos = q /\ b.cfg.lockto = b.cfg.sectno
        BY <1>7, <2>1, <2>2, <3>3, <3>4
      <4>3. Settled(h, b)
        BY <4>1, <4>2 DEF Settled
      <4> QED BY <4>3
    <3>5. CASE ~(AtHeader(q) /\ s[q].name = name)
      <4>1. r.cfg.section # name
        BY <1>4, <2>2, <3>5
      <4>2. ~b.over /\ ~b.open /\ b.cfg = r.cfg
        BY <1>4, <1>7, <3>3, <4>1
      <4>3. h # 0 => q < h
        <5>1. h # 0 => q # h
          BY <1>3, <3>5
        <5> QED BY <1>3, <2>3, <2>6, <5>1
      <4>4. q \in 0 .. e - 1 /\ q >= i + 1
        <5>1. q >= x + 1 /\ x >= i
          BY <1>4, <2>1
        <5> HIDE DEF x
        <5> QED BY <1>5, <2>3, <3>1, <5>1
      <4>5. b.cfg.pos = q /\ b.cfg.lockto = -1 /\ b.cfg.section # name
        BY <1>4, <2>1, <4>1, <4>2
      <4>6. Looking(name, e, h, i + 1, b)
        BY <4>2, <4>3, <4>4, <4>5 DEF Looking
      <4> QED BY <4>6
    <3> QED BY <3>4, <3>5
  <2>8. CASE ~(q < e)
    <3>1. q = e /\ e <= n
      BY <1>2, <2>3, <2>5, <2>8
    <3>2. AtEnd(q)
      BY <1>2, <3>1
    <3>3. Said(x, q) = 0
      <4>1. q \in Nat /\ q <= Len(s) + 1
        BY <1>1, <2>3
      <4> QED BY <1>5, <2>1, <3>1, <4>1, SpoiltFacts
    <3>4. h = 0
      BY <1>2, <1>3, <2>6, <3>1
    <3>5. Settled(h, b)
      BY <1>4, <1>7, <2>2, <3>2, <3>3, <3>4 DEF Settled
    <3> QED BY <3>5
  <2> QED BY <2>7, <2>8
<1>11. Looking(name, e, h, i + 1, b) \/ Settled(h, b)
  BY <1>6, <1>9, <1>10
<1> QED BY <1>11 DEF b

(* The search ends at the first header of the name.                        *)
LEMMA HuntFacts ==
  ASSUME s \in Seq(Line), NEW name \in Section, NEW e, e = EndAfter(1), ~Spoilt(e),
         NEW h, h = FirstHeader(name, e)
  PROVE  OpenedShared(s, name) \in Hunt /\ Settled(h, OpenedShared(s, name))
<1> DEFINE n == Len(s) + 1
<1>1. PICK d : Hunts(name, d)
  BY HuntsBy
<1>2. /\ d[0] = Setout /\ \A i \in 1 .. n : d[i] = SearchOn(s, name, d[i - 1])
      /\ \A i \in 0 .. n : d[i] \in Hunt
      /\ OpenedShared(s, name) = d[n]
  BY <1>1 DEF Hunts
<1>3. Len(s) \in Nat /\ 1 \in 1 .. Len(s) + 1
  OBVIOUS
<1>4. e \in 1 .. Len(s) + 1
  BY <1>3, EndFacts
<1>5. h \in 0 .. e - 1
  BY <1>4, HeaderFacts
<1>6. n \in Nat /\ n > e - 1
  BY <1>3, <1>4
<1> HIDE DEF n
<1> DEFINE G == {i \in 0 .. n : Looking(name, e, h, i, d[i]) \/ Settled(h, d[i])}
<1>7. 0 \in G
  <2> DEFINE o == Setout
  <2>1. ~o.over /\ ~o.open /\ o.cfg = NewConfig
    BY DEF Setout
  <2> HIDE DEF o
  <2>2. NewConfig.section # name
    BY NewConfigFacts, SectionAssumption
  <2>3. 0 \in 0 .. e - 1 /\ (h # 0 => 0 < h)
    BY <1>4, <1>5
  <2>4. Looking(name, e, h, 0, o)
    <3>1. o.cfg.pos = 0 /\ o.cfg.lockto = -1 /\ o.cfg.section # name
      BY <2>1, <2>2, NewConfigFacts
    <3>2. o.cfg.pos \in 0 .. e - 1 /\ o.cfg.pos >= 0 /\ (h # 0 => o.cfg.pos < h)
      BY <2>3, <3>1
    <3> QED BY <2>1, <3>1, <3>2 DEF Looking
  <2>5. d[0] = o /\ 0 \in 0 .. n
    BY <1>2, <1>6 DEF o
  <2> QED BY <2>4, <2>5
<1>8. ASSUME NEW i \in 1 .. n, i - 1 \in G PROVE i \in G
  <2> DEFINE k == i - 1
             a == d[k]
  <2>1. k \in Nat /\ k \in 0 .. n /\ i \in 0 .. n /\ k + 1 = i
    BY <1>6
  <2>2. a \in Hunt /\ d[i] = SearchOn(s, name, a)
    BY <1>2, <2>1
  <2>3. Looking(name, e, h, k, a) \/ Settled(h, a)
    BY <1>8
  <2> HIDE DEF k, a
  <2>4. CASE Looking(name, e, h, k, a)
    <3>1. LET b == SearchOn(s, name, a)
          IN Looking(name, e, h, k + 1, b) \/ Settled(h, b)
      BY <2>1, <2>2, <2>4, HuntStep
    <3> QED BY <2>1, <2>2, <3>1
  <2>5. CASE Settled(h, a)
    <3>1. a.over
      BY <2>5 DEF Settled
    <3>2. d[i] = a
      BY <2>2, <3>1, SearchOnFacts
    <3> QED BY <2>1, <2>5, <3>2
  <2> QED BY <2>3, <2>4, <2>5
<1>9. G = 0 .. n
  <2>1. G \in SUBSET (0 .. n)
    OBVIOUS
  <2> HIDE DEF G
  <2> QED BY <1>6, <1>7, <1>8, <2>1, Inductive
<1>10. n \in 0 .. n
  BY <1>6
<1>11. Looking(name, e, h, n, d[n]) \/ Settled(h, d[n])
  BY <1>9, <1>10
<1>12. ~Looking(name, e, h, n, d[n])
  <2> DEFINE x == d[n].cfg.pos
  <2>1. ASSUME Looking(name, e, h, n, d[n]) PROVE x \in 0 .. e - 1 /\ x >= n
    BY <2>1 DEF Looking
  <2> HIDE DEF x
  <2> QED BY <1>4, <1>6, <2>1
<1> QED BY <1>2, <1>10, <1>11, <1>12

(* For files of any length: when the common file stands in for one of its  *)
(* own, the first section of that name opens, also when another has the    *)
(* same name, and its reader gets the assignments of that section alone.   *)
THEOREM LockKeepsToSection ==
  ASSUME s \in Seq(Line)
  PROVE  LockedToItsSection
<1>1. ASSUME NEW name \in Section, ~Spoilt(EndAfter(1))
      PROVE  LET e == EndAfter(1)
                 h == FirstHeader(name, e)
                 stop == SmallestOf({i \in Kinds("section") : i > h}, Len(s) + 1)
                 last == IF stop < EndAfter(h) THEN stop ELSE EndAfter(h)
                 o == OpenedShared(s, name)
             IN /\ o.open <=> h # 0
                /\ h # 0 => Readings(s, o.cfg, Strict) = PairsBetween(h, last)
                /\ h # 0 /\ ~Spoilt(last) => Readings(s, o.cfg, Lenient) = PairsBetween(h, last)
  <2> DEFINE e == EndAfter(1)
             h == FirstHeader(name, e)
             S == {i \in Kinds("section") : i > h}
             stop == SmallestOf(S, Len(s) + 1)
             ea == EndAfter(h)
             last == IF stop < ea THEN stop ELSE ea
             o == OpenedShared(s, name)
             c == o.cfg
  <2>1. Len(s) \in Nat /\ DOMAIN s = 1 .. Len(s) /\ 1 \in 1 .. Len(s) + 1
    OBVIOUS
  <2>2. e \in 1 .. Len(s) + 1
    BY <2>1, EndFacts
  <2>3. h \in 0 .. e - 1 /\ (h # 0 => AtHeader(h))
    BY <2>2, HeaderFacts
  <2>4. o \in Hunt /\ Settled(h, o)
    BY <1>1, HuntFacts
  <2> HIDE DEF e, h, o
  <2>5. o.open <=> h # 0
    BY <2>4 DEF Settled
  <2>6. ASSUME h # 0
        PROVE  /\ Readings(s, c, Strict) = PairsBetween(h, last)
               /\ ~Spoilt(last) => Readings(s, c, Lenient) = PairsBetween(h, last)
    <3>1. h \in 1 .. Len(s) /\ h \in 1 .. Len(s) + 1 /\ AtHeader(h)
      BY <2>1, <2>2, <2>3, <2>6
    <3>2. c \in Config /\ c.pos = h /\ c.lockto = c.sectno /\ c.sectno \in Nat
      BY <2>4, <2>6 DEF Settled, Hunt, Config
    <3>3. /\ ea \in h .. Len(s) + 1
          /\ ea <= Len(s) => AtEnd(ea)
          /\ \A i \in h .. ea - 1 : ~AtEnd(i)
      BY <3>1, EndFacts
    <3>4. ea # h
      <4>1. ~AtEnd(h)
        BY <3>1, KindFacts
      <4> QED BY <2>1, <3>1, <3>3, <4>1
    <3>5. \A i : i \in S <=> i \in h + 1 .. Len(s) /\ AtHeader(i)
      BY <2>1, <3>1 DEF Kinds, AtHeader
    <3>6. S \in SUBSET Nat
      BY <2>1, <3>1, <3>5
    <3> HIDE DEF S, ea, c
    <3>7. /\ S = {} => stop = Len(s) + 1
          /\ S # {} => stop \in S /\ \A j \in S : stop <= j
      BY <3>6, SmallestFacts
    <3> HIDE DEF stop
    <3>8. stop \in h + 1 .. Len(s) + 1 /\ (stop <= Len(s) => AtHeader(stop))
      BY <2>1, <3>1, <3>5, <3>7
    <3>9. \A i \in h + 1 .. stop - 1 : ~AtHeader(i)
      <4>1. ASSUME NEW i \in h + 1 .. stop - 1, AtHeader(i) PROVE FALSE
        <5>1. i \in S /\ ~(stop <= i)
          BY <2>1, <3>1, <3>5, <3>8, <4>1
        <5> QED BY <3>7, <5>1
      <4> QED BY <4>1
    <3>10. /\ last \in h + 1 .. Len(s) + 1 /\ last <= stop /\ last <= ea
           /\ last = stop \/ last = ea
      BY <2>1, <3>1, <3>3, <3>4, <3>8
    <3> HIDE DEF last
    <3>11. c.lockto > -1
      BY <3>2
    <3>12. ASSUME NEW i \in h + 1 .. last - 1 PROVE ~AtEnd(i) /\ ~AtHeader(i)
      <4>1. i \in h .. ea - 1 /\ i \in h + 1 .. stop - 1
        BY <3>1, <3>3, <3>8, <3>10
      <4> QED BY <3>3, <3>9, <4>1
    <3>13. last <= Len(s) => AtEnd(last) \/ AtHeader(last)
      BY <3>3, <3>8, <3>10
    <3>14. c.pos <= Len(s) /\ c.sectno = c.lockto
      BY <3>1, <3>2
    <3>15. Stretch(c, last)
      BY <3>2, <3>10, <3>11, <3>12, <3>13, <3>14 DEF Stretch
    <3>16. Patient(Strict, last) /\ (~Spoilt(last) => Patient(Lenient, last))
      BY MoreFacts DEF Patient
    <3>17. Readings(s, c, Strict) = PairsBetween(h, last)
      BY <3>2, <3>15, <3>16, ReadingsFacts
    <3>18. ~Spoilt(last) => Readings(s, c, Lenient) = PairsBetween(h, last)
      BY <3>2, <3>15, <3>16, ReadingsFacts
    <3> QED BY <3>17, <3>18
  <2> HIDE DEF last
  <2> QED BY <2>5, <2>6 DEF e, h, o, last, stop, ea, S
<1> QED BY <1>1, Zenon DEF LockedToItsSection, FirstHeader
=============================================================================

-------------------------- MODULE EslReceiveProofs --------------------------
(***************************************************************************)
(* Proofs about EslReceive for any repertoire of messages, any limits of   *)
(* the header block and of the buffer, and any way the stream is cut.      *)
(*                                                                         *)
(* The first part is about the stream alone: what is decoded at a place of *)
(* it does not change when it grows, and Decode, defined by recursion from *)
(* the end of the stream, begins with any chain of events found one behind *)
(* the other from its start.  The second part shows that the events handed *)
(* over are such a chain.                                                  *)
(***************************************************************************)
EXTENDS EslReceive, EslPacketsProofs, SequenceTheorems

-----------------------------------------------------------------------------
(* Decoding a stream.                                                      *)

(* The packet at k, behind the first k tokens, and how long it is.         *)
Size(s, k) == Least(FirstPacketLen(From(s, k + 1)), HeaderMax)
PacketAt(s, k) == SubSeq(From(s, k + 1), 1, Size(s, k))

(* The value of its Content-Length, and the event it becomes when the body *)
(* that announces is there.                                                *)
LengthAt(s, k) == Get(PacketAt(s, k), "content-length")
Need(s, k) == IF LengthAt(s, k) = None THEN 0 ELSE LengthOf(LengthAt(s, k))
EndAt(s, k) == k + Size(s, k) + Need(s, k)
BodyAt(s, k) == IF LengthAt(s, k) = None THEN None
                ELSE SubSeq(From(s, k + 1), Size(s, k) + 1, Size(s, k) + Need(s, k))
EventAt(s, k) == Event(PacketAt(s, k), BodyAt(s, k))
Complete(s, k) ==
  /\ Size(s, k) # 0
  /\ LengthAt(s, k) # None =>
       LengthOf(LengthAt(s, k)) # BadLength /\ EndAt(s, k) <= Len(s)

AnyEvent == {Event(p, b) : p \in Seq(Byte), b \in Seq(Byte) \cup {None}}

(* What Decode does at k when f says what it does further on.              *)
Events(s, k, f) ==
  IF Complete(s, k) THEN <<EventAt(s, k)>> \o f[EndAt(s, k)] ELSE <<>>

(* The value that Get finds is that of a header.                           *)
LEMMA GetFinds ==
  ASSUME NEW p \in Seq(Byte), NEW name, Get(p, name) # None
  PROVE  \E h \in Header : Get(p, name) = ValueOf(h)
<1> DEFINE found == {i \in Recognised(p) : NameOf(p[i]) = name}
<1>1. found \in SUBSET Nat /\ \A i \in found : p[i] \in Header
  BY DEF Recognised
<1>2. /\ Get(p, name) = ValueOf(p[CHOOSE i \in found : \A j \in found : i <= j])
      /\ found # {}
  BY DEF Get
<1> HIDE DEF found
<1>3. (CHOOSE i \in found : \A j \in found : i <= j) \in found
  BY <1>1, <1>2, LeastNatural
<1> QED BY <1>1, <1>2, <1>3

LEMMA LengthType ==
  ASSUME NEW p \in Seq(Byte), Get(p, "content-length") # None
  PROVE  LengthOf(Get(p, "content-length")) \in Nat \cup {BadLength}
<1>1. PICK h \in Header : Get(p, "content-length") = ValueOf(h)
  BY GetFinds
<1> QED BY <1>1, StreamAssumption

(* The rest of a stream.                                                   *)
LEMMA FromType ==
  ASSUME NEW s \in Seq(Byte), NEW k \in 0 .. Len(s)
  PROVE  /\ From(s, k + 1) \in Seq(Byte)
         /\ Len(From(s, k + 1)) = Len(s) - k
         /\ \A i \in 1 .. Len(s) - k : From(s, k + 1)[i] = s[k + i]
BY DEF From

LEMMA PacketAtType ==
  ASSUME NEW s \in Seq(Byte), NEW k \in 0 .. Len(s)
  PROVE  /\ Size(s, k) \in 0 .. Len(s) - k
         /\ PacketAt(s, k) \in Seq(Byte)
         /\ Len(PacketAt(s, k)) = Size(s, k)
         /\ LengthAt(s, k) # None => LengthOf(LengthAt(s, k)) \in Nat \cup {BadLength}
<1>1. /\ From(s, k + 1) \in Seq(Byte)
      /\ Len(From(s, k + 1)) = Len(s) - k
  BY FromType
<1>2. /\ FirstPacketLen(From(s, k + 1)) \in Nat
      /\ FirstPacketLen(From(s, k + 1)) <= Len(s) - k
  BY <1>1, FirstPacketLenType
<1>3. Size(s, k) \in 0 .. Len(s) - k
  BY <1>2, StreamAssumption DEF Size, Least
<1>4. PacketAt(s, k) \in Seq(Byte) /\ Len(PacketAt(s, k)) = Size(s, k)
  BY <1>1, <1>3 DEF PacketAt
<1>5. LengthAt(s, k) # None => LengthOf(LengthAt(s, k)) \in Nat \cup {BadLength}
  BY <1>4, LengthType DEF LengthAt
<1> QED BY <1>3, <1>4, <1>5

(* An event takes at least one token and ends inside the stream.           *)
LEMMA CompleteType ==
  ASSUME NEW s \in Seq(Byte), NEW k \in 0 .. Len(s), Complete(s, k)
  PROVE  /\ Need(s, k) \in Nat
         /\ EndAt(s, k) \in k + 1 .. Len(s)
         /\ EventAt(s, k) \in AnyEvent
<1>1. /\ Size(s, k) \in 1 .. Len(s) - k
      /\ PacketAt(s, k) \in Seq(Byte)
      /\ LengthAt(s, k) # None => LengthOf(LengthAt(s, k)) \in Nat
  <2>1. /\ Size(s, k) # 0
        /\ LengthAt(s, k) # None => LengthOf(LengthAt(s, k)) # BadLength
    BY DEF Complete
  <2>2. /\ Size(s, k) \in 0 .. Len(s) - k
        /\ PacketAt(s, k) \in Seq(Byte)
        /\ LengthAt(s, k) # None => LengthOf(LengthAt(s, k)) \in Nat \cup {BadLength}
    BY PacketAtType
  <2> QED BY <2>1, <2>2
<1>2. Need(s, k) \in Nat
  BY <1>1 DEF Need
<1>3. EndAt(s, k) \in k + 1 .. Len(s)
  BY <1>1, <1>2 DEF EndAt, Complete, Need
<1>4. BodyAt(s, k) \in Seq(Byte) \cup {None}
  <2>1. /\ From(s, k + 1) \in Seq(Byte)
        /\ Len(From(s, k + 1)) = Len(s) - k
    BY FromType
  <2>2. SubSeq(From(s, k + 1), Size(s, k) + 1, Size(s, k) + Need(s, k)) \in Seq(Byte)
    BY <2>1, <1>1, <1>2, <1>3 DEF EndAt
  <2> QED BY <2>2 DEF BodyAt
<1>5. EventAt(s, k) \in AnyEvent
  BY <1>1, <1>4 DEF EventAt, AnyEvent
<1> QED BY <1>2, <1>3, <1>5

(* What begins with s has the same packet at k, and the same event once it *)
(* is complete in s.                                                       *)
LEMMA EventStays ==
  ASSUME NEW s \in Seq(Byte), NEW t \in Seq(Byte), Begins(s, t), NEW k \in 0 .. Len(s),
         Size(s, k) # 0
  PROVE  /\ Size(t, k) = Size(s, k)
         /\ PacketAt(t, k) = PacketAt(s, k)
         /\ LengthAt(t, k) = LengthAt(s, k)
         /\ Complete(s, k) => /\ Complete(t, k)
                              /\ EndAt(t, k) = EndAt(s, k)
                              /\ EventAt(t, k) = EventAt(s, k)
<1> DEFINE u == From(s, k + 1)
           v == From(t, k + 1)
<1>0. k \in 0 .. Len(t)
  BY DEF Begins
<1>1. /\ u \in Seq(Byte) /\ Len(u) = Len(s) - k
      /\ v \in Seq(Byte) /\ Len(v) = Len(t) - k
      /\ \A i \in 1 .. Len(u) : u[i] = s[k + i]
      /\ \A i \in 1 .. Len(v) : v[i] = t[k + i]
  BY <1>0, FromType
<1>2. Begins(u, v)
  <2>1. Len(u) <= Len(v) /\ \A i \in 1 .. Len(u) : i \in 1 .. Len(v) /\ k + i \in 1 .. Len(s)
    BY <1>1 DEF Begins
  <2>2. \A j \in 1 .. Len(s) : t[j] = s[j]
    BY DEF Begins
  <2> HIDE DEF u, v
  <2>3. ASSUME NEW i \in 1 .. Len(u) PROVE v[i] = u[i]
    BY <1>1, <2>1, <2>2
  <2> QED BY <2>1, <2>3 DEF Begins
<1>3. FirstPacketLen(u) # 0
  BY StreamAssumption, <1>1, FirstPacketLenType DEF Size, Least
<1> HIDE DEF u, v
<1>4. FirstPacketLen(v) = FirstPacketLen(u)
  BY <1>1, <1>2, <1>3, PacketStays
<1>5. Size(t, k) = Size(s, k)
  BY <1>4 DEF Size, u, v
<1>6. ASSUME NEW m \in Nat, NEW n \in Nat, n <= Len(u)
      PROVE  SubSeq(v, m + 1, n) = SubSeq(u, m + 1, n)
  <2>1. n <= Len(v)
    BY <1>1, <1>2, <1>6 DEF Begins
  <2>2. /\ SubSeq(v, m + 1, n) \in Seq(Byte) /\ SubSeq(u, m + 1, n) \in Seq(Byte)
        /\ Len(SubSeq(v, m + 1, n)) = Len(SubSeq(u, m + 1, n))
    BY <1>1, <1>6, <2>1
  <2>3. ASSUME NEW i \in 1 .. Len(SubSeq(u, m + 1, n))
        PROVE  SubSeq(v, m + 1, n)[i] = SubSeq(u, m + 1, n)[i]
    BY <1>1, <1>2, <1>6, <2>1, <2>3 DEF Begins
  <2> DEFINE x == SubSeq(v, m + 1, n)
             y == SubSeq(u, m + 1, n)
  <2> HIDE DEF x, y
  <2>4. x = y
    BY <2>2, <2>3, SeqEqual DEF x, y
  <2> QED BY <2>4 DEF x, y
<1>7. Size(s, k) \in Nat /\ Size(s, k) <= Len(u)
  BY <1>1, PacketAtType
<1>8. PacketAt(t, k) = PacketAt(s, k)
  <2> DEFINE n == Size(s, k)
             m == 0
  <2>1. n \in Nat /\ n <= Len(u) /\ m \in Nat /\ m + 1 = 1
    BY <1>7
  <2> HIDE DEF m, n
  <2>2. SubSeq(v, m + 1, n) = SubSeq(u, m + 1, n)
    BY <1>6, <2>1
  <2> QED BY <1>5, <2>1, <2>2 DEF PacketAt, u, v, n
<1>9. LengthAt(t, k) = LengthAt(s, k)
  BY <1>8 DEF LengthAt
<1>10. ASSUME Complete(s, k)
       PROVE  Complete(t, k) /\ EndAt(t, k) = EndAt(s, k) /\ EventAt(t, k) = EventAt(s, k)
  <2>1. Need(s, k) \in Nat /\ EndAt(s, k) \in k + 1 .. Len(s)
    BY <1>10, CompleteType
  <2>2. Need(t, k) = Need(s, k) /\ EndAt(t, k) = EndAt(s, k)
    BY <1>5, <1>9 DEF Need, EndAt
  <2>3. Complete(t, k)
    BY <1>5, <1>9, <1>10, <2>1, <2>2 DEF Complete, Begins
  <2>4. Size(s, k) + Need(s, k) \in Nat /\ Size(s, k) + Need(s, k) <= Len(u)
    BY <1>1, <1>7, <2>1 DEF EndAt
  <2>5. SubSeq(v, Size(s, k) + 1, Size(s, k) + Need(s, k))
          = SubSeq(u, Size(s, k) + 1, Size(s, k) + Need(s, k))
    <3> DEFINE m == Size(s, k)
               n == Size(s, k) + Need(s, k)
    <3>1. m \in Nat /\ n \in Nat /\ n <= Len(u)
      BY <1>7, <2>4
    <3> HIDE DEF m, n
    <3>2. SubSeq(v, m + 1, n) = SubSeq(u, m + 1, n)
      BY <1>6, <3>1
    <3> QED BY <3>2 DEF m, n
  <2>6. BodyAt(t, k) = BodyAt(s, k)
    BY <1>5, <1>9, <2>2, <2>5 DEF BodyAt, u, v
  <2> QED BY <1>8, <2>2, <2>3, <2>6 DEF EventAt
<1> QED BY <1>5, <1>8, <1>9, <1>10

(* Decode is what a function does at 0 that satisfies its equation.        *)
LEMMA DecodeBy ==
  ASSUME NEW s \in Seq(Byte)
  PROVE  \E f : /\ Decode(s) = f[0]
                /\ \A k \in 0 .. Len(s) : f[k] = Events(s, k, f)
<1> DEFINE Raw(f) ==
      [k \in 0 .. Len(s) |->
        LET rest == From(s, k + 1)
            n == Least(FirstPacketLen(rest), HeaderMax)
            p == SubSeq(rest, 1, n)
            length == Get(p, "content-length")
            need == LengthOf(length)
        IN IF n = 0 THEN <<>>
           ELSE IF length = None THEN <<Event(p, None)>> \o f[k + n]
           ELSE IF need = BadLength \/ k + n + need > Len(s) THEN <<>>
           ELSE <<Event(p, SubSeq(rest, n + 1, n + need))>> \o f[k + n + need]]
      Clean(f) == [k \in 0 .. Len(s) |-> Events(s, k, f)]
<1>1. Decode(s) = (CHOOSE f : f = Raw(f))[0]
  BY DEF Decode
<1>2. ASSUME NEW f PROVE Raw(f) = Clean(f)
  <2>1. ASSUME NEW k \in 0 .. Len(s) PROVE Raw(f)[k] = Events(s, k, f)
    <3>1. Size(s, k) \in Nat /\ (LengthAt(s, k) # None => LengthOf(LengthAt(s, k)) \in Nat \cup {BadLength})
      BY PacketAtType
    <3>2. Raw(f)[k] =
            IF Size(s, k) = 0 THEN <<>>
            ELSE IF LengthAt(s, k) = None THEN <<Event(PacketAt(s, k), None)>> \o f[k + Size(s, k)]
            ELSE IF LengthOf(LengthAt(s, k)) = BadLength
                      \/ k + Size(s, k) + LengthOf(LengthAt(s, k)) > Len(s) THEN <<>>
            ELSE <<Event(PacketAt(s, k), SubSeq(From(s, k + 1), Size(s, k) + 1,
                                               Size(s, k) + LengthOf(LengthAt(s, k))))>>
                   \o f[k + Size(s, k) + LengthOf(LengthAt(s, k))]
      BY Zenon DEF Size, LengthAt, PacketAt
    <3> HIDE DEF Raw
    <3>3. CASE LengthAt(s, k) = None
      <4>1. Need(s, k) = 0 /\ EndAt(s, k) = k + Size(s, k)
        BY <3>1, <3>3 DEF Need, EndAt
      <4> QED BY <3>2, <3>3, <4>1 DEF Events, Complete, EventAt, BodyAt
    <3>4. CASE LengthAt(s, k) # None /\ LengthOf(LengthAt(s, k)) # BadLength
      <4>1. Need(s, k) = LengthOf(LengthAt(s, k)) /\ Need(s, k) \in Nat
        BY <3>1, <3>4 DEF Need
      <4>2. EndAt(s, k) > Len(s) <=> ~(EndAt(s, k) <= Len(s))
        BY <3>1, <4>1 DEF EndAt
      <4> QED BY <3>2, <3>4, <4>1, <4>2 DEF Events, Complete, EventAt, BodyAt, EndAt
    <3>5. CASE LengthAt(s, k) # None /\ LengthOf(LengthAt(s, k)) = BadLength
      BY <3>2, <3>5 DEF Events, Complete
    <3> QED BY <3>3, <3>4, <3>5
  <2>2. Raw(f) = [k \in 0 .. Len(s) |-> Raw(f)[k]]
    BY Zenon
  <2> HIDE DEF Raw
  <2> QED BY <2>1, <2>2
<1> DEFINE Upto(n, f) == \A k \in Len(s) - n .. Len(s) : f[k] = Events(s, k, f)
           Bad == {n \in 0 .. Len(s) : ~\E f : Upto(n, f)}
<1>3. Bad = {}
  <2> SUFFICES ASSUME Bad # {} PROVE FALSE
    OBVIOUS
  <2>1. PICK m \in Bad : \A n \in Bad : m <= n
    <3>1. Bad \in SUBSET Nat
      OBVIOUS
    <3> HIDE DEF Bad
    <3> QED BY <3>1, LeastNatural
  <2>2. m \in 0 .. Len(s)
    OBVIOUS
  <2>3. \E f : \A k \in Len(s) - m + 1 .. Len(s) : f[k] = Events(s, k, f)
    <3>1. CASE m = 0
      BY <3>1, <2>2
    <3>2. CASE m # 0
      <4>1. m - 1 \in 0 .. Len(s) /\ ~(m <= m - 1) /\ Len(s) - (m - 1) = Len(s) - m + 1
        BY <2>2, <3>2
      <4>2. m - 1 \notin Bad
        BY <2>1, <4>1
      <4> QED BY <4>1, <4>2
    <3> QED BY <3>1, <3>2
  <2>4. PICK f : \A k \in Len(s) - m + 1 .. Len(s) : f[k] = Events(s, k, f)
    BY <2>3
  <2> DEFINE g == [k \in 0 .. Len(s) |-> Events(s, k, f)]
  <2>6. \A k \in 0 .. Len(s) : g[k] = Events(s, k, f)
    BY Zenon
  <2> HIDE DEF g
  <2>5. ASSUME NEW k \in Len(s) - m + 1 .. Len(s)
        PROVE  k \in 0 .. Len(s) /\ g[k] = f[k]
    <3>1. k \in 0 .. Len(s)
      BY <2>2
    <3> QED BY <2>4, <2>6, <3>1
  <2>7. ASSUME NEW k \in Len(s) - m .. Len(s) PROVE g[k] = Events(s, k, g)
    <3>1. k \in 0 .. Len(s) /\ g[k] = Events(s, k, f)
      BY <2>2, <2>6
    <3>2. CASE Complete(s, k)
      <4>1. EndAt(s, k) \in k + 1 .. Len(s)
        BY <3>1, <3>2, CompleteType
      <4>2. EndAt(s, k) \in Len(s) - m + 1 .. Len(s)
        BY <2>2, <3>1, <4>1
      <4> QED BY <3>1, <4>2, <2>5 DEF Events
    <3>3. CASE ~Complete(s, k)
      BY <3>1, <3>3 DEF Events
    <3> QED BY <3>2, <3>3
  <2> QED BY <2>7
<1>4. \E f : f = Clean(f)
  <2>1. Len(s) \in 0 .. Len(s) /\ Len(s) - Len(s) = 0
    OBVIOUS
  <2>2. PICK f : \A k \in 0 .. Len(s) : f[k] = Events(s, k, f)
    <3>1. Len(s) \notin Bad
      BY <1>3
    <3> QED BY <2>1, <3>1
  <2> DEFINE g == [k \in 0 .. Len(s) |-> Events(s, k, f)]
  <2>3. \A k \in 0 .. Len(s) : g[k] = Events(s, k, f) /\ g[k] = f[k]
    BY <2>2
  <2> HIDE DEF g
  <2>4. ASSUME NEW k \in 0 .. Len(s) PROVE Events(s, k, f) = Events(s, k, g)
    <3>1. Complete(s, k) => EndAt(s, k) \in 0 .. Len(s)
      BY CompleteType
    <3> QED BY <3>1, <2>3 DEF Events
  <2>5. g = Clean(g)
    BY <2>4 DEF g
  <2> QED BY <2>5
<1> DEFINE d == CHOOSE f : f = Raw(f)
<1>5. d = Raw(d)
  <2>1. PICK f : f = Clean(f)
    BY <1>4
  <2> HIDE DEF Raw, Clean
  <2>2. f = Raw(f)
    BY <1>2, <2>1
  <2> QED BY <2>2
<1>6. d = Clean(d) /\ Decode(s) = d[0]
  BY <1>1, <1>2, <1>5
<1> HIDE DEF d
<1>7. \A k \in 0 .. Len(s) : d[k] = Events(s, k, d)
  BY <1>6
<1> QED BY <1>6, <1>7

(* d is what is decoded when the stream is cut at c[1], c[2], ..., each    *)
(* place the end of an event that begins at the one before.                *)
Chain(s, d, c) ==
  /\ c \in [0 .. Len(d) -> 0 .. Len(s)]
  /\ c[0] = 0
  /\ \A i \in 0 .. Len(d) - 1 : /\ Complete(s, c[i])
                                /\ c[i + 1] = EndAt(s, c[i])
                                /\ d[i + 1] = EventAt(s, c[i])

(* A chain stays one when the stream grows.                                *)
LEMMA ChainStays ==
  ASSUME NEW s \in Seq(Byte), NEW t \in Seq(Byte), Begins(s, t),
         NEW d \in Seq(AnyEvent), NEW c, Chain(s, d, c)
  PROVE  Chain(t, d, c)
<1>1. c \in [0 .. Len(d) -> 0 .. Len(t)] /\ c[0] = 0
  BY DEF Chain, Begins
<1>2. ASSUME NEW i \in 0 .. Len(d) - 1
      PROVE  /\ Complete(t, c[i])
             /\ c[i + 1] = EndAt(t, c[i])
             /\ d[i + 1] = EventAt(t, c[i])
  <2>1. /\ Complete(s, c[i])
        /\ c[i + 1] = EndAt(s, c[i]) /\ d[i + 1] = EventAt(s, c[i])
    BY DEF Chain
  <2>2. c[i] \in 0 .. Len(s)
    <3>1. c \in [0 .. Len(d) -> 0 .. Len(s)]
      BY DEF Chain
    <3>2. i \in 0 .. Len(d)
      OBVIOUS
    <3> QED BY <3>1, <3>2
  <2>3. Size(s, c[i]) # 0
    BY <2>1 DEF Complete
  <2> QED BY <2>1, <2>2, <2>3, EventStays
<1> QED BY <1>1, <1>2 DEF Chain

(* It grows by the event behind its end.                                   *)
LEMMA ChainGrows ==
  ASSUME NEW s \in Seq(Byte), NEW d \in Seq(AnyEvent), NEW c, Chain(s, d, c),
         Complete(s, c[Len(d)])
  PROVE  /\ Append(d, EventAt(s, c[Len(d)])) \in Seq(AnyEvent)
         /\ Len(Append(d, EventAt(s, c[Len(d)]))) = Len(d) + 1
         /\ \E b : /\ Chain(s, Append(d, EventAt(s, c[Len(d)])), b)
                   /\ b[Len(d) + 1] = EndAt(s, c[Len(d)])
<1> DEFINE n == Len(d)
           e == EventAt(s, c[n])
           x == Append(d, e)
           b == [i \in 0 .. n + 1 |-> IF i = n + 1 THEN EndAt(s, c[n]) ELSE c[i]]
<1>1. n \in Nat /\ c[n] \in 0 .. Len(s)
  BY DEF Chain
<1>2. e \in AnyEvent /\ EndAt(s, c[n]) \in 0 .. Len(s)
  BY <1>1, CompleteType
<1>3. x \in Seq(AnyEvent) /\ Len(x) = n + 1 /\ x[n + 1] = e /\ \A i \in 1 .. n : x[i] = d[i]
  <2> HIDE DEF e
  <2> QED BY <1>2
<1>4. /\ b \in [0 .. n + 1 -> 0 .. Len(s)] /\ b[n + 1] = EndAt(s, c[n])
      /\ \A i \in 0 .. n : b[i] = c[i]
  BY <1>1, <1>2 DEF Chain
<1> HIDE DEF b, x
<1>5. ASSUME NEW i \in 0 .. n
      PROVE  Complete(s, b[i]) /\ b[i + 1] = EndAt(s, b[i]) /\ x[i + 1] = EventAt(s, b[i])
  <2>1. CASE i = n
    BY <1>1, <1>3, <1>4, <2>1
  <2>2. CASE i # n
    <3>1. i \in 0 .. Len(d) - 1 /\ i + 1 \in 0 .. n /\ i + 1 \in 1 .. n
      BY <1>1, <2>2
    <3>2. /\ Complete(s, c[i]) /\ c[i + 1] = EndAt(s, c[i]) /\ d[i + 1] = EventAt(s, c[i])
      BY <3>1 DEF Chain
    <3> QED BY <1>3, <1>4, <3>1, <3>2
  <2> QED BY <2>1, <2>2
<1>6. Chain(s, x, b)
  <2>1. b[0] = 0
    BY <1>1, <1>4 DEF Chain
  <2>2. Len(x) - 1 = n
    BY <1>1, <1>3
  <2> QED BY <1>3, <1>4, <1>5, <2>1, <2>2 DEF Chain
<1> QED BY <1>3, <1>4, <1>6 DEF x

(* Decode begins with every chain.                                         *)
LEMMA ChainDecodes ==
  ASSUME NEW s \in Seq(Byte), NEW d \in Seq(AnyEvent), NEW c, Chain(s, d, c)
  PROVE  Len(d) <= Len(Decode(s)) /\ d = SubSeq(Decode(s), 1, Len(d))
<1>1. PICK f : /\ Decode(s) = f[0]
               /\ \A k \in 0 .. Len(s) : f[k] = Events(s, k, f)
  BY DecodeBy
(* All values of f are sequences of events.                                *)
<1>2. \A k \in 0 .. Len(s) : f[k] \in Seq(AnyEvent)
  <2> DEFINE Bad == {n \in 0 .. Len(s) : f[Len(s) - n] \notin Seq(AnyEvent)}
  <2>1. ASSUME Bad # {} PROVE FALSE
    <3>1. Bad \in SUBSET Nat
      OBVIOUS
    <3>2. PICK m \in Bad : \A n \in Bad : m <= n
      <4> HIDE DEF Bad
      <4> QED BY <2>1, <3>1, LeastNatural
    <3> DEFINE k == Len(s) - m
    <3>3. m \in 0 .. Len(s) /\ k \in 0 .. Len(s) /\ f[k] \notin Seq(AnyEvent)
      OBVIOUS
    <3>4. f[k] = Events(s, k, f)
      BY <1>1, <3>3
    <3>5. Complete(s, k)
      BY <3>3, <3>4 DEF Events
    <3>6. EndAt(s, k) \in k + 1 .. Len(s) /\ EventAt(s, k) \in AnyEvent
      BY <3>3, <3>5, CompleteType
    <3>7. Len(s) - EndAt(s, k) \in 0 .. Len(s) /\ Len(s) - EndAt(s, k) < m
          /\ Len(s) - (Len(s) - EndAt(s, k)) = EndAt(s, k)
      BY <3>3, <3>6
    <3>8. Len(s) - EndAt(s, k) \notin Bad
      BY <3>2, <3>3, <3>7
    <3>9. f[EndAt(s, k)] \in Seq(AnyEvent)
      BY <3>7, <3>8
    <3> HIDE DEF k
    <3>10. <<EventAt(s, k)>> \o f[EndAt(s, k)] \in Seq(AnyEvent)
      BY <3>6, <3>9
    <3> QED BY <3>3, <3>4, <3>5, <3>10 DEF Events
  <2>2. ASSUME NEW k \in 0 .. Len(s) PROVE f[k] \in Seq(AnyEvent)
    <3>1. Len(s) - k \in 0 .. Len(s) /\ Len(s) - (Len(s) - k) = k
      OBVIOUS
    <3> QED BY <2>1, <3>1
  <2> QED BY <2>2
(* From the end of the chain to its start: f begins with the rest of it.   *)
<1> DEFINE n == Len(d)
           Rest(i) == /\ n - i <= Len(f[c[i]])
                      /\ \A j \in 1 .. n - i : f[c[i]][j] = d[i + j]
           Bad == {m \in 0 .. n : ~Rest(n - m)}
<1>3. n \in Nat /\ \A i \in 0 .. n : c[i] \in 0 .. Len(s)
  BY DEF Chain
<1>4. ASSUME NEW i \in 0 .. n - 1, Rest(i + 1) PROVE Rest(i)
  <2>1. /\ i \in 0 .. n /\ i + 1 \in 0 .. n
        /\ c[i] \in 0 .. Len(s) /\ c[i + 1] \in 0 .. Len(s)
    BY <1>3
  <2>2. Complete(s, c[i]) /\ c[i + 1] = EndAt(s, c[i]) /\ d[i + 1] = EventAt(s, c[i])
    BY DEF Chain
  <2>3. f[c[i]] = <<d[i + 1]>> \o f[c[i + 1]]
    BY <1>1, <2>1, <2>2 DEF Events
  <2> DEFINE x == f[c[i]]
             y == f[c[i + 1]]
             e == d[i + 1]
  <2>4. y \in Seq(AnyEvent)
    BY <1>2, <2>1
  <2>5. e \in AnyEvent
    BY <1>3
  <2>6. n - (i + 1) <= Len(y) /\ \A j \in 1 .. n - (i + 1) : y[j] = d[i + 1 + j]
    BY <1>4
  <2>7. x = <<e>> \o y
    BY <2>3
  <2> HIDE DEF x, y, e
  <2>8. /\ Len(x) = Len(y) + 1 /\ x[1] = e
        /\ \A j \in 1 .. Len(y) : x[j + 1] = y[j]
    BY <2>4, <2>5, <2>7
  <2>9. n - i <= Len(x)
    BY <1>3, <2>4, <2>6, <2>8
  <2>10. ASSUME NEW j \in 1 .. n - i PROVE x[j] = d[i + j]
    <3>1. CASE j = 1
      BY <2>8, <3>1 DEF e
    <3>2. CASE j # 1
      <4> DEFINE l == j - 1
      <4>1. l \in 1 .. n - (i + 1) /\ l \in 1 .. Len(y) /\ l + 1 = j /\ i + 1 + l = i + j
        BY <1>3, <2>4, <2>6, <3>2
      <4> HIDE DEF l
      <4>2. x[l + 1] = d[i + 1 + l]
        BY <2>6, <2>8, <4>1
      <4> QED BY <4>1, <4>2
    <3> QED BY <3>1, <3>2
  <2> QED BY <2>9, <2>10 DEF x
<1>5. Rest(n)
  <2>1. f[c[n]] \in Seq(AnyEvent)
    BY <1>2, <1>3
  <2>2. Len(f[c[n]]) \in Nat
    BY <2>1
  <2> QED BY <1>3, <2>2
<1> HIDE DEF Rest
<1>6. ASSUME Bad # {} PROVE FALSE
  <2>1. Bad \in SUBSET Nat
    BY <1>3
  <2>2. PICK m \in Bad : \A l \in Bad : m <= l
    <3> HIDE DEF Bad
    <3> QED BY <1>6, <2>1, LeastNatural
  <2>3. m \in 0 .. n /\ ~Rest(n - m)
    OBVIOUS
  <2>4. m # 0
    BY <1>3, <1>5, <2>3
  <2>5. m - 1 \in 0 .. n /\ ~(m <= m - 1) /\ n - (m - 1) = n - m + 1 /\ n - m \in 0 .. n - 1
    BY <1>3, <2>3, <2>4
  <2>6. m - 1 \notin Bad
    BY <2>2, <2>5
  <2>7. Rest(n - m + 1)
    BY <2>5, <2>6
  <2> DEFINE i == n - m
  <2>8. i \in 0 .. n - 1 /\ Rest(i + 1) /\ ~Rest(i)
    BY <2>3, <2>5, <2>7
  <2> HIDE DEF i
  <2> QED BY <1>4, <2>8
<1>7. Rest(0)
  <2>1. n \in 0 .. n /\ n - n = 0
    BY <1>3
  <2> QED BY <1>6, <2>1
<1>8. /\ n <= Len(f[0]) /\ \A j \in 1 .. n : f[0][j] = d[j]
  <2>1. c[0] = 0 /\ n - 0 = n /\ \A j \in 1 .. n : 0 + j = j
    BY <1>3 DEF Chain
  <2> QED BY <1>7, <2>1 DEF Rest
<1> DEFINE x == Decode(s)
<1>9. x \in Seq(AnyEvent) /\ n <= Len(x) /\ \A j \in 1 .. n : x[j] = d[j]
  BY <1>1, <1>2, <1>8
<1> HIDE DEF x
<1>10. /\ SubSeq(x, 1, n) \in Seq(AnyEvent) /\ Len(SubSeq(x, 1, n)) = n
       /\ \A j \in 1 .. n : SubSeq(x, 1, n)[j] = x[j]
  BY <1>3, <1>9
<1> DEFINE y == SubSeq(x, 1, n)
<1> HIDE DEF y
<1>11. d = y
  BY <1>9, <1>10, SeqEqual DEF y
<1> QED BY <1>9, <1>11 DEF x, y

-----------------------------------------------------------------------------
(* The receiving thread.                                                   *)

(* Where the unread tokens of the buffer begin in the stream, and where    *)
(* the packet begins that is being made into an event.                     *)
Consumed == arrived - Len(buf)
UnderWay == pc \in {"parse", "body"}
Position == IF UnderWay THEN Consumed - Len(cur.packet) ELSE Consumed

(* As long as the handle is connected its buffer is the part of the stream *)
(* in front of what has not arrived.                                       *)
Buffered ==
  connected => Consumed \in 0 .. Len(stream) /\ Begins(buf, From(stream, Consumed + 1))

(* An unconnected handle is not receiving.                                 *)
Lost == ~connected => pc = "idle"

(* The event under construction is the one at Position.                    *)
Building ==
  /\ UnderWay => /\ Position \in 0 .. Len(stream)
                 /\ Size(stream, Position) # 0
                 /\ cur = [packet |-> cur.packet, need |-> cur.need]
                 /\ cur.packet = PacketAt(stream, Position)
  /\ pc = "body" => /\ LengthAt(stream, Position) # None
                    /\ cur.need = LengthOf(LengthAt(stream, Position))
                    /\ cur.need # BadLength

(* The events handed over are a chain, which ends where the next event     *)
(* begins.                                                                 *)
Chained ==
  \E c : /\ Chain(stream, delivered, c)
         /\ connected => c[Len(delivered)] = Position

(* A call that may set the inner event has forgotten the one before.       *)
Forgotten == pc \in {"header", "parse", "body"} => ievent = None

Current == pc = "idle" /\ status = "SUCCESS" => delivered # <<>>

Typed == TypeOK /\ delivered \in Seq(AnyEvent)

IInv == Typed /\ Lost /\ Buffered /\ Building /\ Chained
        /\ Forgotten /\ Current /\ InnerIsCurrent

(* What a call that returns an error leaves alone.                         *)
LEMMA FailFacts ==
  ASSUME NEW last, Fail(last)
  PROVE  pc' = "idle" /\ status' = "FAIL" /\ cur' = None /\ connected' = FALSE
BY DEF Fail, Return

(* The two ways to finish an event.                                        *)
LEMMA FinishFacts ==
  ASSUME NEW e, Finish(e)
  PROVE  /\ pc' = "idle" /\ cur' = None
         /\ \/ /\ status' = "SUCCESS" /\ connected' = connected
               /\ delivered' = Append(delivered, e)
               /\ ~call.save => ievent' = IF Inner(e) = None THEN ievent ELSE Inner(e)
            \/ /\ status' = "FAIL" /\ connected' = FALSE
               /\ UNCHANGED <<ievent, delivered>>
BY DEF Finish, Fail, Return

(* Nothing changes the stream but the server, which only adds to it.       *)
LEMMA StreamGrows ==
  ASSUME IInv, [Next]_vars
  PROVE  stream' \in Seq(Byte) /\ Begins(stream, stream')
<1>1. stream \in Seq(Byte)
  BY DEF IInv, Typed, TypeOK
<1>2. Begins(stream, stream)
  BY <1>1 DEF Begins
<1>3. ASSUME NEW m \in Messages, stream' = stream \o m
      PROVE  stream' \in Seq(Byte) /\ Begins(stream, stream')
  <2>1. m \in Seq(Byte)
    BY StreamAssumption
  <2> QED BY <1>1, <1>3, <2>1 DEF Begins
<1>4. CASE stream' = stream
  BY <1>1, <1>2, <1>4
<1>5. ASSUME NEW timed \in BOOLEAN, NEW save \in BOOLEAN, Enter(timed, save)
      PROVE  stream' = stream
  BY <1>5 DEF Enter, net
<1>6. ASSUME Step PROVE stream' = stream
  BY <1>6 DEF Step, PollTimeout, PollReady, PollError, ReadPacket, ParseHeaders,
              ReadBody, Recv, RecvFails, net
<1>7. ASSUME PollInterrupted \/ RecvInterrupted \/ NoMemory PROVE stream' = stream
  BY <1>7 DEF PollInterrupted, RecvInterrupted, NoMemory, net
<1>8. ASSUME UNCHANGED vars PROVE stream' = stream
  BY <1>8 DEF vars, net
<1> QED BY <1>3, <1>4, <1>5, <1>6, <1>7, <1>8 DEF Next, ServerSend, ServerGone

(* What is known of the event under construction once its body, if it has  *)
(* one, is in the buffer: it is the event at Position.                     *)
LEMMA EventReady ==
  ASSUME IInv, UnderWay, connected
  PROVE  /\ stream \in Seq(Byte) /\ buf \in Seq(Byte)
         /\ Position \in 0 .. Len(stream)
         /\ cur.packet = PacketAt(stream, Position)
         /\ Len(cur.packet) = Size(stream, Position)
         /\ Size(stream, Position) \in Nat /\ Size(stream, Position) # 0
         /\ Consumed = Position + Size(stream, Position)
         /\ Consumed \in 0 .. Len(stream)
         /\ Begins(buf, From(stream, Consumed + 1))
<1>1. /\ stream \in Seq(Byte) /\ buf \in Seq(Byte) /\ arrived \in Nat
  BY DEF IInv, Typed, TypeOK
<1>2. /\ Position \in 0 .. Len(stream)
      /\ cur.packet = PacketAt(stream, Position)
      /\ Size(stream, Position) # 0
      /\ Consumed \in 0 .. Len(stream)
      /\ Begins(buf, From(stream, Consumed + 1))
  BY DEF IInv, Building, Buffered
<1>3. Len(cur.packet) = Size(stream, Position) /\ Size(stream, Position) \in Nat
  BY <1>1, <1>2, PacketAtType
<1>4. Position = Consumed - Len(cur.packet)
  BY DEF Position
<1>5. Consumed = Position + Size(stream, Position)
  BY <1>2, <1>3, <1>4
<1> QED BY <1>1, <1>2, <1>3, <1>5

(* The types.  Only the events handed over need an argument: a finished    *)
(* event is made of the packet and of what stands behind it.               *)
LEMMA FinishTyped ==
  ASSUME IInv, NEW e \in AnyEvent, Finish(e)
  PROVE  /\ delivered' \in Seq(AnyEvent) /\ connected' \in BOOLEAN
         /\ pc' = "idle" /\ status' \in {"SUCCESS", "FAIL"}
<1>1. delivered \in Seq(AnyEvent) /\ connected \in BOOLEAN
  BY DEF IInv, Typed, TypeOK
<1>2. Append(delivered, e) \in Seq(AnyEvent)
  BY <1>1
<1> QED BY <1>1, <1>2, FinishFacts

LEMMA TypedNext == IInv /\ [Next]_vars => Typed'
<1> SUFFICES ASSUME IInv, [Next]_vars PROVE Typed'
  OBVIOUS
<1>0. /\ stream \in Seq(Byte) /\ arrived \in 0 .. Len(stream)
      /\ peer \in {"open", "closed", "reset"}
      /\ buf \in Seq(Byte) /\ connected \in BOOLEAN
      /\ pc \in {"idle", "poll", "header", "parse", "body"}
      /\ call \in [timed : BOOLEAN, save : BOOLEAN]
      /\ status \in {"none", "SUCCESS", "FAIL", "BREAK"}
      /\ calls \in 0 .. MaxCalls /\ sends \in 0 .. MaxMessages
      /\ delivered \in Seq(AnyEvent)
      /\ UnderWay => connected /\ cur.packet \in Seq(Byte)
  <2>1. UnderWay => connected
    BY DEF IInv, Lost, UnderWay
  <2>2. UnderWay => cur.packet \in Seq(Byte)
    <3> SUFFICES ASSUME UnderWay PROVE cur.packet \in Seq(Byte)
      OBVIOUS
    <3>1. /\ stream \in Seq(Byte) /\ Position \in 0 .. Len(stream)
          /\ cur.packet = PacketAt(stream, Position)
      BY <2>1, EventReady
    <3> QED BY <3>1, PacketAtType
  <2> QED BY <2>1, <2>2 DEF IInv, Typed, TypeOK
<1> DEFINE Typing == /\ stream' \in Seq(Byte) /\ arrived' \in 0 .. Len(stream')
                     /\ peer' \in {"open", "closed", "reset"}
                     /\ buf' \in Seq(Byte) /\ connected' \in BOOLEAN
                     /\ pc' \in {"idle", "poll", "header", "parse", "body"}
                     /\ call' \in [timed : BOOLEAN, save : BOOLEAN]
                     /\ status' \in {"none", "SUCCESS", "FAIL", "BREAK"}
                     /\ calls' \in 0 .. MaxCalls /\ sends' \in 0 .. MaxMessages
                     /\ delivered' \in Seq(AnyEvent)
<1> SUFFICES Typing
  BY DEF Typed, TypeOK
<1>s. stream' \in Seq(Byte) /\ Len(stream) <= Len(stream')
  BY StreamGrows DEF Begins
<1>1. CASE ServerSend
  <2>1. sends' \in 0 .. MaxMessages /\ arrived' \in 0 .. Len(stream')
    BY <1>0, <1>1, <1>s, StreamAssumption DEF ServerSend
  <2> QED BY <1>0, <1>1, <1>s, <2>1 DEF ServerSend, handle
<1>2. CASE ServerGone
  BY <1>0, <1>2 DEF ServerGone, handle
<1>3. ASSUME NEW timed \in BOOLEAN, NEW save \in BOOLEAN, Enter(timed, save) PROVE Typing
  <2>1. /\ calls' = calls + 1 /\ calls < MaxCalls
        /\ call' = [timed |-> timed, save |-> save]
        /\ pc' \in {"idle", "poll", "header"}
        /\ status' \in {status, "FAIL"}
        /\ UNCHANGED <<stream, arrived, peer, sends, buf, connected, delivered>>
    BY <1>3 DEF Enter, Return, net
  <2>2. calls' \in 0 .. MaxCalls /\ call' \in [timed : BOOLEAN, save : BOOLEAN]
    BY <1>0, <2>1, StreamAssumption
  <2> QED BY <1>0, <2>1, <2>2
<1>4. CASE PollTimeout \/ PollError \/ PollReady \/ PollInterrupted
  BY <1>0, <1>4 DEF PollTimeout, PollError, PollReady, PollInterrupted, Return, net, handle
<1>5. CASE ReadPacket
  <2>1. FirstPacketLen(buf) \in Nat /\ FirstPacketLen(buf) <= Len(buf)
    BY <1>0, FirstPacketLenType
  <2>2. Least(FirstPacketLen(buf), HeaderMax) \in 0 .. Len(buf)
    BY <1>0, <2>1, StreamAssumption DEF Least
  <2> DEFINE n == Least(FirstPacketLen(buf), HeaderMax)
  <2>3. buf' = From(buf, n + 1)
    BY <1>5 DEF ReadPacket
  <2> HIDE DEF n
  <2>4. buf' \in Seq(Byte)
    BY <1>0, <2>2, <2>3, FromType DEF n
  <2> QED BY <1>0, <1>5, <2>4 DEF ReadPacket, net
<1>6. CASE ParseHeaders
  <2>0. cur.packet \in Seq(Byte)
    BY <1>0, <1>6 DEF ParseHeaders, UnderWay
  <2>1. Event(cur.packet, None) \in AnyEvent
    BY <2>0 DEF AnyEvent
  <2>2. UNCHANGED <<stream, arrived, peer, sends, buf, call, calls>>
    BY <1>6 DEF ParseHeaders, net
  <2> DEFINE length == Get(cur.packet, "content-length")
  <2>3. CASE length = None
    <3>1. Finish(Event(cur.packet, None))
      BY <1>6, <2>3 DEF ParseHeaders
    <3>2. /\ delivered' \in Seq(AnyEvent) /\ connected' \in BOOLEAN
          /\ pc' = "idle" /\ status' \in {"SUCCESS", "FAIL"}
      BY <2>1, <3>1, FinishTyped
    <3> QED BY <1>0, <2>2, <3>2
  <2>4. CASE length # None /\ LengthOf(length) = BadLength
    <3>1. Fail(event) /\ delivered' = delivered
      BY <1>6, <2>4 DEF ParseHeaders
    <3> QED BY <1>0, <2>2, <3>1, FailFacts
  <2>5. CASE length # None /\ LengthOf(length) # BadLength
    <3>1. pc' = "body" /\ UNCHANGED <<connected, delivered, status>>
      BY <1>6, <2>5 DEF ParseHeaders
    <3> QED BY <1>0, <2>2, <3>1
  <2> QED BY <2>3, <2>4, <2>5
<1>7. CASE ReadBody
  <2>0. /\ cur.packet \in Seq(Byte) /\ UnderWay /\ connected
        /\ Len(buf) >= cur.need /\ cur.need \in Nat
    <3>1. UnderWay /\ connected /\ pc = "body" /\ Len(buf) >= cur.need
      BY <1>0, <1>7 DEF ReadBody, UnderWay
    <3>2. /\ LengthAt(stream, Position) # None
          /\ cur.need = LengthOf(LengthAt(stream, Position)) /\ cur.need # BadLength
      BY <3>1 DEF IInv, Building
    <3>3. cur.need \in Nat
      BY <1>0, <3>1, <3>2, EventReady, PacketAtType
    <3> QED BY <1>0, <3>1, <3>3
  <2>1. SubSeq(buf, 1, cur.need) \in Seq(Byte) /\ From(buf, cur.need + 1) \in Seq(Byte)
    BY <1>0, <2>0, FromType
  <2>2. Event(cur.packet, SubSeq(buf, 1, cur.need)) \in AnyEvent
    <3> DEFINE b == SubSeq(buf, 1, cur.need)
    <3>1. b \in Seq(Byte) \cup {None}
      BY <2>1
    <3> HIDE DEF b
    <3> DEFINE p == cur.packet
    <3>2. p \in Seq(Byte)
      BY <2>0
    <3> HIDE DEF p
    <3>3. Event(p, b) \in AnyEvent
      BY <3>1, <3>2 DEF AnyEvent
    <3> QED BY <3>3 DEF b, p
  <2>3. /\ UNCHANGED <<stream, arrived, peer, sends, call, calls>>
        /\ buf' = From(buf, cur.need + 1)
        /\ Finish(Event(cur.packet, SubSeq(buf, 1, cur.need)))
    BY <1>7 DEF ReadBody, net
  <2>4. /\ delivered' \in Seq(AnyEvent) /\ connected' \in BOOLEAN
        /\ pc' = "idle" /\ status' \in {"SUCCESS", "FAIL"}
    BY <2>2, <2>3, FinishTyped
  <2> QED BY <1>0, <2>1, <2>3, <2>4
<1>8. CASE Recv
  <2>1. PICK k \in 1 .. Least(HeaderMax, Len(Waiting)) :
          /\ arrived' = arrived + k
          /\ \/ Fail(event) /\ buf' = buf
             \/ /\ buf' = buf \o SubSeq(Waiting, 1, k)
                /\ UNCHANGED <<pc, status, connected>>
    BY <1>8 DEF Recv
  <2>2. UNCHANGED <<stream, peer, sends, call, delivered, calls>>
    BY <1>8 DEF Recv
  <2>3. /\ Waiting \in Seq(Byte) /\ Len(Waiting) = Len(stream) - arrived
    BY <1>0, FromType DEF Waiting
  <2>4. k \in 1 .. Len(Waiting)
    BY <2>1, <2>3, StreamAssumption DEF Least
  <2>5. arrived' \in 0 .. Len(stream')
    BY <1>0, <2>1, <2>2, <2>3, <2>4
  <2>6. SubSeq(Waiting, 1, k) \in Seq(Byte)
    BY <2>3, <2>4
  <2>7. buf \o SubSeq(Waiting, 1, k) \in Seq(Byte)
    BY <1>0, <2>6
  <2> QED BY <1>0, <2>1, <2>2, <2>5, <2>7, FailFacts
<1>9. CASE RecvFails \/ RecvInterrupted \/ NoMemory
  <2>1. Fail(event) /\ UNCHANGED <<stream, arrived, peer, sends, buf, call, delivered, calls>>
    BY <1>9 DEF RecvFails, RecvInterrupted, NoMemory, net
  <2> QED BY <1>0, <2>1, FailFacts
<1>10. CASE UNCHANGED vars
  BY <1>0, <1>10 DEF vars, net, handle
<1> HIDE DEF Typing
<1> QED BY <1>1, <1>2, <1>3, <1>4, <1>5, <1>6, <1>7, <1>8, <1>9, <1>10 DEF Next, Step

(* What a failure leaves: the chain of the events handed over before.      *)
LEMMA FailingStep ==
  ASSUME IInv, stream' \in Seq(Byte), Begins(stream, stream'),
         connected' = FALSE, pc' = "idle", delivered' = delivered
  PROVE  Buffered' /\ Building' /\ Chained'
<1>1. stream \in Seq(Byte) /\ delivered \in Seq(AnyEvent)
  BY DEF IInv, Typed, TypeOK
<1>2. PICK c : Chain(stream, delivered, c)
  <2>1. Chained
    BY DEF IInv
  <2> QED BY <2>1, Zenon DEF Chained
<1>3. Chain(stream', delivered', c)
  BY <1>1, <1>2, ChainStays
<1>4. Buffered' /\ Building'
  BY DEF Buffered, Building, UnderWay
<1> QED BY <1>3, <1>4 DEF Chained

(* What a step leaves that only moves the thread outside of an event.      *)
LEMMA QuietStep ==
  ASSUME IInv, UNCHANGED <<stream, arrived, buf, connected, delivered>>,
         ~UnderWay, ~UnderWay'
  PROVE  Buffered' /\ Building' /\ Chained'
<1>1. Consumed' = Consumed /\ Position' = Position
  BY DEF Consumed, Position
<1>2. Buffered'
  BY <1>1 DEF IInv, Buffered
<1>3. Building'
  BY DEF Building, UnderWay
<1>4. PICK c : Chain(stream, delivered, c) /\ (connected => c[Len(delivered)] = Position)
  <2>1. Chained
    BY DEF IInv
  <2> QED BY <2>1, Zenon DEF Chained
<1>5. Chain(stream', delivered', c) /\ (connected' => c[Len(delivered')] = Position')
  BY <1>1, <1>4
<1> QED BY <1>2, <1>3, <1>5 DEF Chained

(* The server sends.  What is in the buffer and under construction is the  *)
(* same part of the longer stream.                                         *)
LEMMA ServerStep ==
  ASSUME IInv, stream' \in Seq(Byte), Begins(stream, stream'),
         UNCHANGED <<arrived, handle, pc, cur, delivered>>
  PROVE  Buffered' /\ Building' /\ Chained'
<1>1. /\ stream \in Seq(Byte) /\ buf \in Seq(Byte) /\ delivered \in Seq(AnyEvent)
      /\ Len(stream) <= Len(stream')
      /\ \A j \in 1 .. Len(stream) : stream'[j] = stream[j]
  BY DEF IInv, Typed, TypeOK, Begins
<1>2. /\ Consumed' = Consumed /\ (UnderWay' <=> UnderWay) /\ Position' = Position
      /\ buf' = buf /\ connected' = connected
  BY DEF Consumed, Position, UnderWay, handle
<1>3. Buffered'
  <2> SUFFICES ASSUME connected
               PROVE  /\ Consumed \in 0 .. Len(stream')
                      /\ Begins(buf, From(stream', Consumed + 1))
    BY <1>2 DEF Buffered
  <2>1. Consumed \in 0 .. Len(stream) /\ Begins(buf, From(stream, Consumed + 1))
    BY DEF IInv, Buffered
  <2>2. Consumed \in 0 .. Len(stream')
    BY <1>1, <2>1
  <2> DEFINE u == From(stream, Consumed + 1)
             v == From(stream', Consumed + 1)
  <2>3. /\ Len(u) = Len(stream) - Consumed /\ \A i \in 1 .. Len(u) : u[i] = stream[Consumed + i]
    BY <1>1, <2>1, FromType
  <2>4. /\ Len(v) = Len(stream') - Consumed /\ \A i \in 1 .. Len(v) : v[i] = stream'[Consumed + i]
    BY <1>1, <2>2, FromType
  <2> HIDE DEF u, v
  <2>5. Len(u) <= Len(v) /\ Len(u) \in Nat
    BY <1>1, <2>1, <2>2, <2>3, <2>4
  <2>6. ASSUME NEW i \in 1 .. Len(u) PROVE v[i] = u[i]
    <3>1. Consumed + i \in 1 .. Len(stream) /\ i \in 1 .. Len(v)
      BY <1>1, <2>1, <2>3, <2>4, <2>5
    <3> QED BY <1>1, <2>3, <2>4, <3>1
  <2>7. Begins(buf, u)
    BY <2>1 DEF u
  <2>8. Begins(buf, v)
    BY <1>1, <2>5, <2>6, <2>7 DEF Begins
  <2> QED BY <2>2, <2>8 DEF v
<1>4. Building'
  <2>1. CASE UnderWay
    <3>1. /\ Position \in 0 .. Len(stream) /\ Size(stream, Position) # 0
          /\ cur.packet = PacketAt(stream, Position)
          /\ cur = [packet |-> cur.packet, need |-> cur.need]
          /\ pc = "body" => /\ LengthAt(stream, Position) # None
                            /\ cur.need = LengthOf(LengthAt(stream, Position))
                            /\ cur.need # BadLength
      BY <2>1 DEF IInv, Building
    <3>2. /\ Size(stream', Position) = Size(stream, Position)
          /\ PacketAt(stream', Position) = PacketAt(stream, Position)
          /\ LengthAt(stream', Position) = LengthAt(stream, Position)
      BY <1>1, <3>1, EventStays
    <3>3. Position \in 0 .. Len(stream')
      BY <1>1, <3>1
    <3> QED BY <1>2, <3>1, <3>2, <3>3 DEF Building
  <2>2. CASE ~UnderWay
    BY <1>2, <2>2 DEF Building, UnderWay
  <2> QED BY <2>1, <2>2
<1>5. Chained'
  <2>1. PICK c : Chain(stream, delivered, c) /\ (connected => c[Len(delivered)] = Position)
    BY DEF IInv, Chained
  <2>2. Chain(stream', delivered, c)
    BY <1>1, <2>1, ChainStays
  <2>3. Chain(stream', delivered', c) /\ (connected' => c[Len(delivered')] = Position')
    BY <1>2, <2>1, <2>2
  <2> QED BY <2>3 DEF Chained
<1> QED BY <1>3, <1>4, <1>5

(* What is left when the first n tokens are taken out of the buffer.       *)
LEMMA TakeOut ==
  ASSUME NEW s \in Seq(Byte), NEW b \in Seq(Byte), NEW k \in 0 .. Len(s),
         Begins(b, From(s, k + 1)), NEW n \in 0 .. Len(b)
  PROVE  /\ k + n \in 0 .. Len(s)
         /\ From(b, n + 1) \in Seq(Byte) /\ Len(From(b, n + 1)) = Len(b) - n
         /\ Begins(From(b, n + 1), From(s, k + n + 1))
         /\ SubSeq(b, 1, n) = SubSeq(From(s, k + 1), 1, n)
<1> DEFINE u == From(s, k + 1)
           v == From(s, k + n + 1)
           r == From(b, n + 1)
<1>1. u \in Seq(Byte) /\ Len(u) = Len(s) - k /\ \A i \in 1 .. Len(u) : u[i] = s[k + i]
  BY FromType
<1>2. Len(b) <= Len(u) /\ \A i \in 1 .. Len(b) : u[i] = b[i]
  BY DEF Begins
<1>3. k + n \in 0 .. Len(s)
  BY <1>1, <1>2
<1>4. v \in Seq(Byte) /\ Len(v) = Len(s) - (k + n) /\ \A i \in 1 .. Len(v) : v[i] = s[k + n + i]
  BY <1>3, FromType
<1>5. r \in Seq(Byte) /\ Len(r) = Len(b) - n /\ \A i \in 1 .. Len(r) : r[i] = b[n + i]
  BY FromType
<1> HIDE DEF u, v, r
<1>6. Begins(r, v)
  <2>1. Len(r) <= Len(v)
    BY <1>1, <1>2, <1>4, <1>5
  <2>2. ASSUME NEW i \in 1 .. Len(r) PROVE v[i] = r[i]
    <3>1. /\ i \in 1 .. Len(v) /\ n + i \in 1 .. Len(b) /\ n + i \in 1 .. Len(u)
          /\ k + (n + i) = k + n + i
      BY <1>1, <1>2, <1>4, <1>5, <2>1
    <3> QED BY <1>1, <1>2, <1>4, <1>5, <3>1
  <2> QED BY <2>1, <2>2 DEF Begins
<1>7. SubSeq(b, 1, n) = SubSeq(u, 1, n)
  <2> DEFINE x == SubSeq(b, 1, n)
             y == SubSeq(u, 1, n)
  <2>1. x \in Seq(Byte) /\ Len(x) = n /\ \A i \in 1 .. n : x[i] = b[i]
    OBVIOUS
  <2>2. n <= Len(u)
    BY <1>1, <1>2
  <2>3. y \in Seq(Byte) /\ Len(y) = n /\ \A i \in 1 .. n : y[i] = u[i]
    BY <1>1, <2>2
  <2>4. \A i \in 1 .. n : i \in 1 .. Len(b)
    OBVIOUS
  <2> HIDE DEF x, y
  <2>5. x = y
    BY <1>2, <2>1, <2>3, <2>4, SeqEqual
  <2> QED BY <2>5 DEF x, y
<1> QED BY <1>3, <1>5, <1>6, <1>7 DEF u, v, r

(* An event is handed over: the chain grows by it and ends where the       *)
(* buffer begins again.                                                    *)
LEMMA HandingOver ==
  ASSUME IInv, connected, Complete(stream, Position),
         UNCHANGED <<stream, connected>>, pc' = "idle",
         delivered' = Append(delivered, EventAt(stream, Position)),
         Consumed' = EndAt(stream, Position)
  PROVE  Building' /\ Chained'
<1>1. stream \in Seq(Byte) /\ delivered \in Seq(AnyEvent)
  BY DEF IInv, Typed, TypeOK
<1>2. PICK c : Chain(stream, delivered, c) /\ c[Len(delivered)] = Position
  BY DEF IInv, Chained
<1>3. /\ Len(delivered') = Len(delivered) + 1
      /\ \E b : Chain(stream, delivered', b) /\ b[Len(delivered) + 1] = EndAt(stream, Position)
  BY <1>1, <1>2, ChainGrows
<1>4. PICK b : Chain(stream, delivered', b) /\ b[Len(delivered')] = EndAt(stream, Position)
  BY <1>3
<1>5. ~UnderWay' /\ Position' = Consumed'
  BY DEF UnderWay, Position
<1>6. Chain(stream', delivered', b) /\ b[Len(delivered')] = Position'
  BY <1>4, <1>5
<1>7. Building'
  BY DEF Building, UnderWay
<1> QED BY <1>6, <1>7 DEF Chained

(* A packet is copied out of the buffer: it is the one the stream has      *)
(* there, although only a part of the stream has arrived.                  *)
LEMMA ReadPacketStep ==
  ASSUME IInv, ReadPacket
  PROVE  Buffered' /\ Building' /\ Chained'
<1>1. /\ stream \in Seq(Byte) /\ buf \in Seq(Byte) /\ arrived \in Nat
      /\ connected /\ pc = "header" /\ pc' = "parse"
      /\ UNCHANGED <<stream, arrived, connected, delivered>>
  BY DEF IInv, Typed, TypeOK, Lost, ReadPacket, net
<1> DEFINE n == Least(FirstPacketLen(buf), HeaderMax)
           k == Consumed
<1>2. /\ buf' = From(buf, n + 1)
      /\ cur' = [packet |-> SubSeq(buf, 1, n), need |-> 0]
      /\ FirstPacketLen(buf) # 0
  <2>1. FirstPacketLen(buf) \in Nat
    BY <1>1, FirstPacketLenType
  <2> QED BY <2>1 DEF ReadPacket
<1>3. n \in 1 .. Len(buf)
  <2>1. FirstPacketLen(buf) \in Nat /\ FirstPacketLen(buf) <= Len(buf)
    BY <1>1, <1>2, FirstPacketLenType
  <2> QED BY <1>1, <1>2, <2>1, StreamAssumption DEF Least
<1>4. k \in 0 .. Len(stream) /\ Begins(buf, From(stream, k + 1)) /\ k = arrived - Len(buf)
  BY <1>1 DEF IInv, Buffered, Consumed
<1>5. /\ From(stream, k + 1) \in Seq(Byte)
      /\ FirstPacketLen(From(stream, k + 1)) = FirstPacketLen(buf)
  BY <1>1, <1>2, <1>4, FromType, PacketStays
<1> HIDE DEF k
<1>6. Size(stream, k) = n
  BY <1>5 DEF Size
<1> HIDE DEF n
<1>7. /\ k + n \in 0 .. Len(stream)
      /\ Len(buf') = Len(buf) - n
      /\ Begins(buf', From(stream, k + n + 1))
      /\ cur'.packet = PacketAt(stream, k)
      /\ Len(cur'.packet) = n
  <2>1. n \in 0 .. Len(buf)
    BY <1>3
  <2>2. /\ k + n \in 0 .. Len(stream)
        /\ Len(buf') = Len(buf) - n
        /\ Begins(buf', From(stream, k + n + 1))
        /\ SubSeq(buf, 1, n) = SubSeq(From(stream, k + 1), 1, n)
    <3>1. /\ k + n \in 0 .. Len(stream)
          /\ Len(From(buf, n + 1)) = Len(buf) - n
          /\ Begins(From(buf, n + 1), From(stream, k + n + 1))
          /\ SubSeq(buf, 1, n) = SubSeq(From(stream, k + 1), 1, n)
      <4>1. stream \in Seq(Byte) /\ buf \in Seq(Byte) /\ k \in 0 .. Len(stream)
            /\ Begins(buf, From(stream, k + 1))
        BY <1>1, <1>4
      <4> QED BY <2>1, <4>1, TakeOut
    <3>2. buf' = From(buf, n + 1)
      BY <1>2 DEF n
    <3> QED BY <3>1, <3>2
  <2>3. cur'.packet = PacketAt(stream, k)
    BY <1>2, <1>6, <2>2 DEF PacketAt
  <2>4. Len(PacketAt(stream, k)) = n
    BY <1>1, <1>4, <1>6, PacketAtType
  <2> QED BY <2>2, <2>3, <2>4
<1>8. Consumed' = k + n
  BY <1>1, <1>3, <1>4, <1>7 DEF Consumed
<1>9. UnderWay' /\ Position' = k
  BY <1>1, <1>3, <1>4, <1>7, <1>8 DEF UnderWay, Position
<1>10. Buffered'
  BY <1>1, <1>7, <1>8 DEF Buffered
<1>11. Building'
  <2>1. cur' = [packet |-> cur'.packet, need |-> cur'.need]
    BY <1>2
  <2>2. /\ Position' \in 0 .. Len(stream') /\ Size(stream', Position') # 0
        /\ cur'.packet = PacketAt(stream', Position')
    BY <1>1, <1>3, <1>4, <1>6, <1>7, <1>9
  <2>3. pc' # "body"
    BY <1>1
  <2> QED BY <2>1, <2>2, <2>3 DEF Building
<1>12. Chained'
  <2>1. PICK c : Chain(stream, delivered, c) /\ c[Len(delivered)] = Position
    BY <1>1 DEF IInv, Chained
  <2>2. Position = k
    BY <1>1 DEF Position, UnderWay, k
  <2>3. Chain(stream', delivered', c) /\ c[Len(delivered')] = Position'
    BY <1>1, <1>9, <2>1, <2>2
  <2> QED BY <2>3 DEF Chained
<1> QED BY <1>10, <1>11, <1>12

(* The headers tell that no body follows, or a length that is refused, or  *)
(* how long the body is.                                                   *)
LEMMA ParseHeadersStep ==
  ASSUME IInv, ParseHeaders
  PROVE  Buffered' /\ Building' /\ Chained'
<1> DEFINE length == Get(cur.packet, "content-length")
           k == Position
<1>1. /\ pc = "parse" /\ UnderWay /\ connected
      /\ UNCHANGED <<stream, arrived, buf>>
  BY DEF ParseHeaders, net, UnderWay, IInv, Lost
<1>2. /\ stream \in Seq(Byte) /\ k \in 0 .. Len(stream)
      /\ cur.packet = PacketAt(stream, k)
      /\ Size(stream, k) \in Nat /\ Size(stream, k) # 0
      /\ Consumed = k + Size(stream, k)
  BY <1>1, EventReady
<1>3. length = LengthAt(stream, k)
  BY <1>2 DEF LengthAt
<1>4. Begins(stream, stream') /\ stream' \in Seq(Byte)
  BY <1>1, <1>2 DEF Begins
<1>5. Consumed' = Consumed
  BY <1>1 DEF Consumed
<1>6. CASE length = None
  <2>1. Finish(Event(cur.packet, None))
    BY <1>6 DEF ParseHeaders
  <2>2. Event(cur.packet, None) = EventAt(stream, k)
    BY <1>2, <1>3, <1>6 DEF EventAt, BodyAt
  <2>3. Complete(stream, k) /\ EndAt(stream, k) = Consumed
    BY <1>2, <1>3, <1>6 DEF Complete, EndAt, Need
  <2>4. CASE connected' = FALSE /\ delivered' = delivered
    <3>1. pc' = "idle"
      BY <2>1, FinishFacts
    <3> QED BY <1>4, <2>4, <3>1, FailingStep
  <2>5. CASE connected' = connected /\ delivered' = Append(delivered, EventAt(stream, k))
    <3>1. pc' = "idle"
      BY <2>1, FinishFacts
    <3>2. Building' /\ Chained'
      BY <1>1, <1>5, <2>3, <2>5, <3>1, HandingOver
    <3>3. Buffered'
      BY <1>1, <1>5, <2>5 DEF IInv, Buffered
    <3> QED BY <3>2, <3>3
  <2>6. \/ connected' = connected /\ delivered' = Append(delivered, EventAt(stream, k))
        \/ connected' = FALSE /\ delivered' = delivered
    BY <2>1, <2>2, FinishFacts
  <2> QED BY <2>4, <2>5, <2>6
<1>7. CASE length # None /\ LengthOf(length) = BadLength
  <2>1. Fail(event) /\ delivered' = delivered
    BY <1>7 DEF ParseHeaders
  <2>2. pc' = "idle" /\ connected' = FALSE
    BY <2>1, FailFacts
  <2> QED BY <1>4, <2>1, <2>2, FailingStep
<1>8. CASE length # None /\ LengthOf(length) # BadLength
  <2>1. /\ pc' = "body" /\ cur' = [cur EXCEPT !.need = LengthOf(length)]
        /\ UNCHANGED <<connected, delivered>>
    BY <1>8 DEF ParseHeaders
  <2>2. cur' = [packet |-> cur.packet, need |-> LengthOf(length)]
    <3>1. cur = [packet |-> cur.packet, need |-> cur.need]
      BY <1>1 DEF IInv, Building
    <3> HIDE DEF length
    <3> QED BY <2>1, <3>1
  <2>3. cur'.packet = cur.packet /\ cur'.need = LengthOf(length)
    BY <2>2
  <2>4. UnderWay' /\ Position' = k
    BY <1>1, <1>5, <2>1, <2>3 DEF UnderWay, Position
  <2>5. Buffered'
    BY <1>1, <1>5, <2>1 DEF IInv, Buffered
  <2>6. Building'
    <3>1. cur' = [packet |-> cur'.packet, need |-> cur'.need]
      BY <2>2
    <3>2. /\ LengthAt(stream', Position') # None /\ cur'.need # BadLength
          /\ cur'.need = LengthOf(LengthAt(stream', Position'))
      BY <1>1, <1>3, <1>8, <2>3, <2>4
    <3>3. /\ Position' \in 0 .. Len(stream') /\ Size(stream', Position') # 0
          /\ cur'.packet = PacketAt(stream', Position')
      BY <1>1, <1>2, <2>3, <2>4
    <3> QED BY <3>1, <3>2, <3>3 DEF Building
  <2>7. Chained'
    <3>1. PICK c : Chain(stream, delivered, c) /\ c[Len(delivered)] = Position
      BY <1>1 DEF IInv, Chained
    <3>2. Chain(stream', delivered', c) /\ c[Len(delivered')] = Position'
      BY <1>1, <2>1, <2>4, <3>1
    <3> QED BY <3>2 DEF Chained
  <2> QED BY <2>5, <2>6, <2>7
<1> QED BY <1>6, <1>7, <1>8

(* The body is taken from the buffer.                                      *)
LEMMA ReadBodyStep ==
  ASSUME IInv, ReadBody
  PROVE  Buffered' /\ Building' /\ Chained'
<1> DEFINE k == Position
           n == cur.need
<1>1. /\ pc = "body" /\ UnderWay /\ connected /\ Len(buf) >= n
      /\ UNCHANGED <<stream, arrived>> /\ buf' = From(buf, n + 1)
      /\ Finish(Event(cur.packet, SubSeq(buf, 1, n)))
  BY DEF ReadBody, net, UnderWay, IInv, Lost
<1>2. /\ stream \in Seq(Byte) /\ buf \in Seq(Byte) /\ k \in 0 .. Len(stream)
      /\ cur.packet = PacketAt(stream, k)
      /\ Size(stream, k) \in Nat /\ Size(stream, k) # 0
      /\ Consumed = k + Size(stream, k)
      /\ Consumed \in 0 .. Len(stream)
      /\ Begins(buf, From(stream, Consumed + 1))
  BY <1>1, EventReady
<1>3. /\ LengthAt(stream, k) # None /\ n = LengthOf(LengthAt(stream, k)) /\ n # BadLength
  BY <1>1 DEF IInv, Building
<1>4. n \in Nat /\ n \in 0 .. Len(buf) /\ Need(stream, k) = n
  <2>1. n \in Nat
    BY <1>2, <1>3, PacketAtType
  <2> QED BY <1>1, <1>2, <1>3, <2>1 DEF Need
<1> HIDE DEF k, n
<1> DEFINE c0 == Consumed
<1>5. /\ c0 + n \in 0 .. Len(stream)
      /\ Len(buf') = Len(buf) - n
      /\ Begins(buf', From(stream, c0 + n + 1))
      /\ SubSeq(buf, 1, n) = SubSeq(From(stream, c0 + 1), 1, n)
  <2>1. /\ c0 \in 0 .. Len(stream) /\ Begins(buf, From(stream, c0 + 1))
        /\ stream \in Seq(Byte) /\ buf \in Seq(Byte) /\ n \in 0 .. Len(buf)
    BY <1>2, <1>4
  <2>2. buf' = From(buf, n + 1)
    BY <1>1
  <2> HIDE DEF c0
  <2>3. /\ c0 + n \in 0 .. Len(stream)
        /\ Len(From(buf, n + 1)) = Len(buf) - n
        /\ Begins(From(buf, n + 1), From(stream, c0 + n + 1))
        /\ SubSeq(buf, 1, n) = SubSeq(From(stream, c0 + 1), 1, n)
    BY <2>1, TakeOut
  <2> QED BY <2>2, <2>3
<1>6. Consumed' = c0 + n /\ EndAt(stream, k) = c0 + n
  <2>1. arrived \in Nat /\ Len(buf) \in Nat
    BY <1>2 DEF IInv, Typed, TypeOK
  <2>2. arrived' = arrived /\ Len(buf') = Len(buf) - n /\ n \in Nat
    BY <1>1, <1>4, <1>5
  <2>3. c0 = arrived - Len(buf)
    BY DEF Consumed
  <2>4. Consumed' = arrived' - Len(buf')
    BY DEF Consumed
  <2>5. Consumed' = c0 + n
    <3> HIDE DEF c0
    <3> QED BY <2>1, <2>2, <2>3, <2>4
  <2>6. EndAt(stream, k) = k + Size(stream, k) + Need(stream, k)
    BY DEF EndAt
  <2>7. k + Size(stream, k) = c0 /\ Need(stream, k) = n
    BY <1>2, <1>4
  <2>8. EndAt(stream, k) = c0 + n
    BY <2>6, <2>7
  <2> QED BY <2>5, <2>8
<1>7. Complete(stream, k)
  BY <1>2, <1>3, <1>5, <1>6 DEF Complete
<1>8. SubSeq(From(stream, c0 + 1), 1, n)
        = SubSeq(From(stream, k + 1), Size(stream, k) + 1, Size(stream, k) + n)
  <2> DEFINE m == Size(stream, k)
             u == From(stream, k + 1)
             v == From(stream, c0 + 1)
             x == SubSeq(v, 1, n)
             y == SubSeq(u, m + 1, m + n)
  <2>1. u \in Seq(Byte) /\ Len(u) = Len(stream) - k /\ \A i \in 1 .. Len(u) : u[i] = stream[k + i]
    BY <1>2, FromType
  <2>2. v \in Seq(Byte) /\ Len(v) = Len(stream) - c0 /\ \A i \in 1 .. Len(v) : v[i] = stream[c0 + i]
    BY <1>2, FromType
  <2>3. m \in Nat /\ c0 = k + m /\ n <= Len(v) /\ m + n <= Len(u)
    <3>1. c0 = k + m /\ m \in Nat /\ k \in Nat /\ n \in Nat /\ c0 + n <= Len(stream)
          /\ Len(stream) \in Nat
      BY <1>2, <1>4, <1>5
    <3>2. Len(u) = Len(stream) - k /\ Len(v) = Len(stream) - c0
      BY <2>1, <2>2
    <3> HIDE DEF u, v, m, c0
    <3> QED BY <3>1, <3>2
  <2> HIDE DEF u, v, m, c0
  <2>4. x \in Seq(Byte) /\ Len(x) = n /\ \A i \in 1 .. n : x[i] = v[i]
    BY <1>4, <2>2, <2>3
  <2>5. y \in Seq(Byte) /\ Len(y) = n /\ \A i \in 1 .. n : y[i] = u[m + i]
    BY <1>4, <2>1, <2>3
  <2> HIDE DEF x, y
  <2>6. ASSUME NEW i \in 1 .. n PROVE x[i] = y[i]
    <3>1. i \in 1 .. Len(v) /\ m + i \in 1 .. Len(u) /\ c0 + i = k + (m + i)
      BY <1>2, <1>4, <2>1, <2>2, <2>3
    <3> QED BY <2>1, <2>2, <2>4, <2>5, <3>1
  <2>7. x = y
    BY <1>4, <2>4, <2>5, <2>6, SeqEqual
  <2> QED BY <2>7 DEF x, y, u, v, m
<1>9. Event(cur.packet, SubSeq(buf, 1, n)) = EventAt(stream, k)
  <2>1. SubSeq(buf, 1, n) = BodyAt(stream, k)
    BY <1>3, <1>4, <1>5, <1>8 DEF BodyAt
  <2> QED BY <1>2, <2>1 DEF EventAt
<1>10. pc' = "idle" /\ \/ connected' = connected /\ delivered' = Append(delivered, EventAt(stream, k))
                       \/ connected' = FALSE /\ delivered' = delivered
  <2>1. Finish(EventAt(stream, k))
    BY <1>1, <1>9
  <2> QED BY <2>1, FinishFacts
<1>11. CASE connected' = FALSE /\ delivered' = delivered
  <2>1. Begins(stream, stream') /\ stream' \in Seq(Byte)
    BY <1>1, <1>2 DEF Begins
  <2> QED BY <1>10, <1>11, <2>1, FailingStep
<1>12. CASE connected' = connected /\ delivered' = Append(delivered, EventAt(stream, k))
  <2>1. Building' /\ Chained'
    BY <1>1, <1>6, <1>7, <1>10, <1>12, HandingOver DEF k
  <2>2. Buffered'
    BY <1>1, <1>5, <1>6 DEF Buffered
  <2> QED BY <2>1, <2>2
<1> QED BY <1>10, <1>11, <1>12

(* What recv has taken is what comes next in the stream.                   *)
LEMMA RecvStep ==
  ASSUME IInv, Recv
  PROVE  Buffered' /\ Building' /\ Chained'
<1>1. /\ stream \in Seq(Byte) /\ buf \in Seq(Byte) /\ arrived \in 0 .. Len(stream)
      /\ connected /\ UNCHANGED <<stream, delivered>>
  BY DEF IInv, Typed, TypeOK, Lost, Recv, Starved
<1>2. Waiting \in Seq(Byte) /\ Len(Waiting) = Len(stream) - arrived
      /\ \A i \in 1 .. Len(Waiting) : Waiting[i] = stream[arrived + i]
  BY <1>1, FromType DEF Waiting
<1>3. PICK k \in 1 .. Least(HeaderMax, Len(Waiting)) :
        /\ arrived' = arrived + k
        /\ \/ Fail(event) /\ buf' = buf
           \/ /\ buf' = buf \o SubSeq(Waiting, 1, k)
              /\ UNCHANGED <<pc, cur, connected>>
  BY DEF Recv
<1>4. k \in 1 .. Len(Waiting)
  BY <1>2, <1>3, StreamAssumption DEF Least
<1>5. CASE Fail(event)
  <2>1. Begins(stream, stream') /\ stream' \in Seq(Byte)
    BY <1>1 DEF Begins
  <2> QED BY <1>1, <1>5, <2>1, FailFacts, FailingStep
<1>6. CASE buf' = buf \o SubSeq(Waiting, 1, k) /\ UNCHANGED <<pc, cur, connected>>
  <2> DEFINE x == SubSeq(Waiting, 1, k)
             c0 == Consumed
             u == From(stream, c0 + 1)
  <2>1. x \in Seq(Byte) /\ Len(x) = k /\ \A i \in 1 .. k : x[i] = Waiting[i]
    BY <1>2, <1>4
  <2>2. buf' = buf \o x
    BY <1>6
  <2> HIDE DEF x
  <2>3. /\ buf' \in Seq(Byte) /\ Len(buf') = Len(buf) + k
        /\ \A i \in 1 .. Len(buf) : buf'[i] = buf[i]
        /\ \A i \in 1 .. k : buf'[Len(buf) + i] = x[i]
    <3>1. buf \in Seq(Byte) /\ x \in Seq(Byte) /\ Len(x) = k /\ buf' = buf \o x
      BY <1>1, <2>1, <2>2
    <3>2. buf' \in Seq(Byte) /\ Len(buf') = Len(buf) + k
      BY <3>1, ConcatProperties
    <3>3. \A i \in 1 .. Len(buf) : buf'[i] = buf[i]
      BY <3>1
    <3>4. ASSUME NEW i \in 1 .. k PROVE buf'[Len(buf) + i] = x[i]
      <4>1. Len(buf) + i \in 1 .. Len(buf) + Len(x) /\ Len(buf) + i > Len(buf)
            /\ Len(buf) + i - Len(buf) = i
        BY <3>1, <3>4
      <4> QED BY <3>1, <4>1
    <3> QED BY <3>2, <3>3, <3>4
  <2>4. /\ c0 \in 0 .. Len(stream) /\ c0 = arrived - Len(buf) /\ Begins(buf, u)
    BY <1>1 DEF IInv, Buffered, Consumed
  <2>5. Consumed' = c0
    BY <1>1, <1>3, <1>4, <2>3, <2>4 DEF Consumed
  <2> HIDE DEF c0
  <2>6. Len(u) = Len(stream) - c0 /\ \A i \in 1 .. Len(u) : u[i] = stream[c0 + i]
    BY <1>1, <2>4, FromType
  <2> HIDE DEF u
  <2>7. Len(buf') <= Len(u)
    BY <1>1, <1>2, <1>4, <2>3, <2>4, <2>6
  <2>8. ASSUME NEW i \in 1 .. Len(buf') PROVE u[i] = buf'[i]
    <3>1. CASE i <= Len(buf)
      BY <1>1, <2>3, <2>4, <3>1 DEF Begins
    <3>2. CASE i > Len(buf)
      <4> DEFINE j == i - Len(buf)
      <4>1. /\ j \in 1 .. k /\ j \in 1 .. Len(Waiting) /\ i = Len(buf) + j
            /\ i \in 1 .. Len(u) /\ c0 + i = arrived + j
        BY <1>1, <1>2, <1>4, <2>3, <2>4, <2>7, <3>2
      <4> HIDE DEF j
      <4> QED BY <1>2, <2>1, <2>3, <2>6, <4>1
    <3> QED BY <1>1, <2>3, <3>1, <3>2
  <2>9. Begins(buf', u)
    BY <2>7, <2>8 DEF Begins
  <2>10. (UnderWay' <=> UnderWay) /\ Position' = Position
    BY <1>6, <2>5 DEF UnderWay, Position, c0
  <2>11. Buffered'
    BY <1>1, <2>4, <2>5, <2>9 DEF Buffered, u
  <2>12. Building'
    BY <1>1, <1>6, <2>10 DEF IInv, Building
  <2>13. Chained'
    <3>1. PICK c : Chain(stream, delivered, c) /\ c[Len(delivered)] = Position
      BY <1>1 DEF IInv, Chained
    <3>2. Chain(stream', delivered', c) /\ c[Len(delivered')] = Position'
      BY <1>1, <2>10, <3>1
    <3> QED BY <3>2 DEF Chained
  <2> QED BY <2>11, <2>12, <2>13
<1> QED BY <1>3, <1>5, <1>6

LEMMA DecodingNext == IInv /\ [Next]_vars => Buffered' /\ Building' /\ Chained'
<1> SUFFICES ASSUME IInv, [Next]_vars PROVE Buffered' /\ Building' /\ Chained'
  OBVIOUS
<1>0. stream' \in Seq(Byte) /\ Begins(stream, stream')
  BY StreamGrows
<1>1. CASE ServerSend
  BY <1>0, <1>1, ServerStep DEF ServerSend
<1>2. CASE ServerGone
  BY <1>0, <1>2, ServerStep DEF ServerGone
<1>3. ASSUME NEW timed \in BOOLEAN, NEW save \in BOOLEAN, Enter(timed, save)
      PROVE  Buffered' /\ Building' /\ Chained'
  <2>1. /\ UNCHANGED <<stream, arrived, buf, connected, delivered>>
        /\ pc = "idle" /\ pc' \in {"idle", "poll", "header"}
    BY <1>3 DEF Enter, Return, net
  <2> QED BY <2>1, QuietStep DEF UnderWay
<1>4. CASE PollTimeout \/ PollReady \/ PollError
  <2>1. /\ UNCHANGED <<stream, arrived, buf, connected, delivered>>
        /\ pc = "poll" /\ pc' \in {"idle", "header"}
    BY <1>4 DEF PollTimeout, PollReady, PollError, Return, net, handle
  <2> QED BY <2>1, QuietStep DEF UnderWay
<1>5. CASE PollInterrupted \/ RecvFails \/ RecvInterrupted \/ NoMemory
  <2>1. pc' = "idle" /\ connected' = FALSE /\ delivered' = delivered
    BY <1>5, FailFacts DEF PollInterrupted, RecvFails, RecvInterrupted, NoMemory, Return
  <2> QED BY <1>0, <2>1, FailingStep
<1>6. CASE ReadPacket
  BY <1>6, ReadPacketStep
<1>7. CASE ParseHeaders
  BY <1>7, ParseHeadersStep
<1>8. CASE ReadBody
  BY <1>8, ReadBodyStep
<1>9. CASE Recv
  BY <1>9, RecvStep
<1>10. CASE UNCHANGED vars
  BY <1>0, <1>10, ServerStep DEF vars, net
<1> QED BY <1>1, <1>2, <1>3, <1>4, <1>5, <1>6, <1>7, <1>8, <1>9, <1>10 DEF Next, Step

(* A connection is lost by a call that returns, and it is not found again. *)
LEMMA LostNext ==
  IInv /\ [Next]_vars =>
    /\ Lost'
    /\ status' = "FAIL" /\ pc # "idle" /\ pc' = "idle" => ~connected'
    /\ ~connected => ~connected' /\ UNCHANGED <<arrived, buf, delivered, event>>
<1> DEFINE Goal == /\ Lost'
                   /\ status' = "FAIL" /\ pc # "idle" /\ pc' = "idle" => ~connected'
                   /\ ~connected => ~connected' /\ UNCHANGED <<arrived, buf, delivered, event>>
<1> SUFFICES ASSUME IInv, [Next]_vars PROVE Goal
  OBVIOUS
<1>0. (~connected => pc = "idle") /\ connected \in BOOLEAN
  BY DEF IInv, Typed, TypeOK, Lost
<1>1. CASE ServerSend \/ ServerGone \/ UNCHANGED vars
  <2>1. UNCHANGED <<arrived, buf, connected, event, pc, delivered>>
    BY <1>1 DEF ServerSend, ServerGone, vars, net, handle
  <2> QED BY <1>0, <2>1 DEF Lost
<1>2. ASSUME NEW timed \in BOOLEAN, NEW save \in BOOLEAN, Enter(timed, save) PROVE Goal
  <2>1. /\ UNCHANGED <<arrived, buf, connected, event, delivered>>
        /\ pc = "idle" /\ (~connected => pc' = "idle")
    BY <1>2 DEF Enter, Return, net
  <2> QED BY <1>0, <2>1 DEF Lost
<1>3. CASE PollTimeout \/ PollReady \/ PollError \/ ReadPacket
  <2>1. /\ pc # "idle" /\ connected' = connected
        /\ status' = "BREAK" \/ pc' # "idle"
    BY <1>3 DEF PollTimeout, PollReady, PollError, ReadPacket, Return, handle
  <2> QED BY <1>0, <2>1 DEF Lost
<1>4. CASE PollInterrupted \/ RecvFails \/ RecvInterrupted \/ NoMemory
  <2>1. pc' = "idle" /\ connected' = FALSE
    BY <1>4, FailFacts DEF PollInterrupted, RecvFails, RecvInterrupted, NoMemory, Return
  <2>2. pc # "idle"
    BY <1>4 DEF PollInterrupted, RecvFails, RecvInterrupted, NoMemory, Starved
  <2> QED BY <1>0, <2>1, <2>2 DEF Lost
<1>5. ASSUME NEW e, Finish(e), pc # "idle" PROVE Goal
  <2>1. pc' = "idle" /\ (connected' = FALSE \/ (connected' = connected /\ status' = "SUCCESS"))
    BY <1>5, FinishFacts
  <2> QED BY <1>0, <1>5, <2>1 DEF Lost
<1>6. CASE ParseHeaders
  <2>1. pc # "idle"
    BY <1>6 DEF ParseHeaders
  <2>2. \/ Finish(Event(cur.packet, None)) \/ Fail(event)
        \/ pc' = "body" /\ connected' = connected
    BY <1>6 DEF ParseHeaders
  <2>3. ASSUME Fail(event) PROVE Goal
    BY <1>0, <2>1, <2>3, FailFacts DEF Lost
  <2>4. ASSUME pc' = "body", connected' = connected PROVE Goal
    BY <1>0, <2>1, <2>4 DEF Lost
  <2> HIDE DEF Goal
  <2> QED BY <1>5, <2>1, <2>2, <2>3, <2>4
<1>7. CASE ReadBody
  <2>1. pc # "idle" /\ Finish(Event(cur.packet, SubSeq(buf, 1, cur.need)))
    BY <1>7 DEF ReadBody
  <2> HIDE DEF Goal
  <2> QED BY <1>5, <2>1
<1>8. CASE Recv
  <2>1. pc # "idle"
    BY <1>8 DEF Recv, Starved
  <2>2. Fail(event) \/ UNCHANGED <<pc, connected>>
    BY <1>8 DEF Recv
  <2> QED BY <1>0, <2>1, <2>2, FailFacts DEF Lost
<1> HIDE DEF Goal
<1> QED BY <1>1, <1>2, <1>3, <1>4, <1>6, <1>7, <1>8 DEF Next, Step

(* An event that is finished finds no inner event of another one.          *)
LEMMA FinishInner ==
  ASSUME IInv, NEW e \in AnyEvent, Finish(e), ievent = None, call' = call
  PROVE  Forgotten' /\ Current' /\ InnerIsCurrent'
<1>1. delivered \in Seq(AnyEvent)
  BY DEF IInv, Typed
<1> DEFINE d == Append(delivered, e)
<1>2. d # <<>> /\ Len(d) = Len(delivered) + 1 /\ d[Len(delivered) + 1] = e
  BY <1>1
<1> HIDE DEF d
<1>3. d # <<>> /\ d[Len(d)] = e
  BY <1>2
<1>4. /\ pc' = "idle"
      /\ \/ /\ status' = "SUCCESS" /\ delivered' = d
            /\ ~call.save => ievent' = IF Inner(e) = None THEN ievent ELSE Inner(e)
         \/ status' = "FAIL"
  BY FinishFacts DEF d
<1>5. Forgotten'
  BY <1>4 DEF Forgotten
<1>6. CASE status' = "FAIL"
  BY <1>5, <1>6 DEF Current, InnerIsCurrent
<1>7. CASE /\ status' = "SUCCESS" /\ delivered' = d
           /\ ~call.save => ievent' = IF Inner(e) = None THEN ievent ELSE Inner(e)
  <2>1. Current'
    BY <1>3, <1>7 DEF Current
  <2>2. ~call.save => ievent' = Inner(e)
    BY <1>7
  <2>3. InnerIsCurrent'
    BY <1>3, <1>7, <2>2 DEF InnerIsCurrent
  <2> QED BY <1>5, <2>1, <2>3
<1> QED BY <1>4, <1>6, <1>7

LEMMA InnerNext == IInv /\ [Next]_vars => Forgotten' /\ Current' /\ InnerIsCurrent'
<1> SUFFICES ASSUME IInv, [Next]_vars PROVE Forgotten' /\ Current' /\ InnerIsCurrent'
  OBVIOUS
<1>0. /\ pc \in {"header", "parse", "body"} => ievent = None
      /\ pc = "idle" /\ status = "SUCCESS" => delivered # <<>>
      /\ pc = "idle" /\ status = "SUCCESS" /\ ~call.save =>
           ievent = Inner(delivered[Len(delivered)])
  BY DEF IInv, Forgotten, Current, InnerIsCurrent
<1>1. CASE ServerSend \/ ServerGone \/ UNCHANGED vars
  <2>1. UNCHANGED <<ievent, pc, status, delivered, call>>
    BY <1>1 DEF ServerSend, ServerGone, vars, handle
  <2> QED BY <1>0, <2>1 DEF Forgotten, Current, InnerIsCurrent
<1>2. ASSUME NEW timed \in BOOLEAN, NEW save \in BOOLEAN, Enter(timed, save)
      PROVE  Forgotten' /\ Current' /\ InnerIsCurrent'
  <2>1. \/ pc' = "idle" /\ status' = "FAIL"
        \/ pc' = "poll"
        \/ pc' = "header" /\ ievent' = None
    BY <1>2 DEF Enter, Return
  <2> QED BY <2>1 DEF Forgotten, Current, InnerIsCurrent
<1>3. CASE PollReady
  BY <1>3 DEF PollReady, Forgotten, Current, InnerIsCurrent
<1>4. ASSUME pc' = "idle", status' # "SUCCESS"
      PROVE  Forgotten' /\ Current' /\ InnerIsCurrent'
  BY <1>4 DEF Forgotten, Current, InnerIsCurrent
<1>5. CASE PollTimeout \/ PollError \/ PollInterrupted \/ RecvFails \/ RecvInterrupted \/ NoMemory
  <2>1. pc' = "idle" /\ status' # "SUCCESS"
    BY <1>5, FailFacts DEF PollTimeout, PollError, PollInterrupted, RecvFails,
                           RecvInterrupted, NoMemory, Return
  <2> QED BY <1>4, <2>1
<1>6. CASE ReadPacket
  <2>1. pc = "header" /\ pc' = "parse" /\ ievent' = ievent
    BY <1>6 DEF ReadPacket
  <2> QED BY <1>0, <2>1 DEF Forgotten, Current, InnerIsCurrent
<1>7. CASE ParseHeaders
  <2>1. pc = "parse" /\ call' = call /\ UnderWay /\ connected
    BY <1>7 DEF ParseHeaders, UnderWay, IInv, Lost
  <2>2. \/ Finish(Event(cur.packet, None)) \/ Fail(event)
        \/ pc' = "body" /\ ievent' = ievent
    BY <1>7 DEF ParseHeaders
  <2>3. Event(cur.packet, None) \in AnyEvent
    <3>1. cur.packet \in Seq(Byte)
      BY <2>1, EventReady, PacketAtType
    <3> QED BY <3>1 DEF AnyEvent
  <2>4. ASSUME Finish(Event(cur.packet, None))
        PROVE  Forgotten' /\ Current' /\ InnerIsCurrent'
    BY <1>0, <2>1, <2>3, <2>4, FinishInner
  <2>5. ASSUME Fail(event) PROVE Forgotten' /\ Current' /\ InnerIsCurrent'
    BY <1>4, <2>5, FailFacts
  <2>6. ASSUME pc' = "body", ievent' = ievent PROVE Forgotten' /\ Current' /\ InnerIsCurrent'
    BY <1>0, <2>1, <2>6 DEF Forgotten, Current, InnerIsCurrent
  <2> QED BY <2>2, <2>4, <2>5, <2>6
<1>8. CASE ReadBody
  <2> DEFINE b == SubSeq(buf, 1, cur.need)
             p == cur.packet
             e == Event(p, b)
  <2>1. /\ pc = "body" /\ call' = call /\ UnderWay /\ connected
        /\ Len(buf) >= cur.need /\ Finish(e)
    BY <1>8 DEF ReadBody, UnderWay, IInv, Lost
  <2>2. /\ buf \in Seq(Byte) /\ stream \in Seq(Byte) /\ Position \in 0 .. Len(stream)
        /\ p = PacketAt(stream, Position)
    BY <2>1, EventReady
  <2>3. p \in Seq(Byte) /\ cur.need \in Nat
    <3>1. /\ LengthAt(stream, Position) # None
          /\ cur.need = LengthOf(LengthAt(stream, Position)) /\ cur.need # BadLength
      BY <2>1 DEF IInv, Building
    <3> QED BY <2>2, <3>1, PacketAtType
  <2>4. b \in Seq(Byte) \cup {None}
    BY <2>1, <2>2, <2>3
  <2> HIDE DEF b, p
  <2>5. e \in AnyEvent
    BY <2>3, <2>4 DEF AnyEvent
  <2> HIDE DEF e
  <2> QED BY <1>0, <2>1, <2>5, FinishInner
<1>9. CASE Recv
  <2>1. pc \in {"header", "body"}
    BY <1>9 DEF Recv, Starved
  <2>2. \/ Fail(event) \/ UNCHANGED <<pc, ievent>>
    BY <1>9 DEF Recv
  <2>3. ASSUME UNCHANGED <<pc, ievent>> PROVE Forgotten' /\ Current' /\ InnerIsCurrent'
    BY <1>0, <2>1, <2>3 DEF Forgotten, Current, InnerIsCurrent
  <2> QED BY <1>4, <2>2, <2>3, FailFacts
<1> QED BY <1>1, <1>2, <1>3, <1>5, <1>6, <1>7, <1>8, <1>9 DEF Next, Step

LEMMA InvInit == Init => IInv
<1> SUFFICES ASSUME Init PROVE IInv
  OBVIOUS
<1>1. /\ stream = <<>> /\ arrived = 0 /\ buf = <<>> /\ connected = TRUE
      /\ pc = "idle" /\ delivered = <<>> /\ status = "none"
  BY DEF Init
<1>2. Typed
  <2>1. stream \in Seq(Byte) /\ buf \in Seq(Byte) /\ delivered \in Seq(AnyEvent)
        /\ arrived \in 0 .. Len(stream)
    BY <1>1
  <2>2. calls \in 0 .. MaxCalls /\ sends \in 0 .. MaxMessages
    BY StreamAssumption DEF Init
  <2>3. /\ peer \in {"open", "closed", "reset"} /\ connected \in BOOLEAN
        /\ pc \in {"idle", "poll", "header", "parse", "body"}
        /\ call \in [timed : BOOLEAN, save : BOOLEAN]
        /\ status \in {"none", "SUCCESS", "FAIL", "BREAK"}
    BY DEF Init
  <2> QED BY <2>1, <2>2, <2>3 DEF Typed, TypeOK
<1>3. Consumed = 0 /\ Position = 0
  <2>1. Len(buf) = 0 /\ arrived = 0
    BY <1>1
  <2>2. Consumed = 0
    BY <2>1 DEF Consumed
  <2> QED BY <1>1, <2>2 DEF Position, UnderWay
<1>4. Buffered
  <2>1. stream \in Seq(Byte) /\ Len(stream) = 0 /\ 0 \in 0 .. Len(stream)
    BY <1>1
  <2>2. Len(From(stream, 0 + 1)) = Len(stream) - 0
    BY <2>1, FromType
  <2>3. Len(From(stream, 1)) = 0
    BY <2>1, <2>2
  <2>4. Begins(buf, From(stream, 1))
    BY <1>1, <2>3 DEF Begins
  <2> QED BY <1>3, <2>1, <2>4 DEF Buffered
<1>5. Chained
  <2> DEFINE c == [i \in 0 .. 0 |-> 0]
  <2>1. Len(delivered) = 0 /\ c \in [0 .. Len(delivered) -> 0 .. Len(stream)] /\ c[0] = 0
    BY <1>1
  <2>2. Chain(stream, delivered, c)
    BY <2>1 DEF Chain
  <2>3. c[Len(delivered)] = Position
    BY <1>3, <2>1
  <2> HIDE DEF c
  <2> QED BY <2>2, <2>3 DEF Chained
<1>6. Lost /\ Building /\ Forgotten /\ Current /\ InnerIsCurrent
  BY <1>1 DEF Lost, Building, UnderWay, Forgotten, Current, InnerIsCurrent
<1> QED BY <1>2, <1>4, <1>5, <1>6 DEF IInv

LEMMA InvNext == IInv /\ [Next]_vars => IInv'
<1> SUFFICES ASSUME IInv, [Next]_vars PROVE IInv'
  OBVIOUS
<1> QED BY TypedNext, LostNext, DecodingNext, InnerNext DEF IInv

LEMMA Invariant == Spec => []IInv
BY InvInit, InvNext, PTL DEF Spec

(* The types of the state of EslReceive.                                   *)
THEOREM TypeCorrect == Spec => []TypeOK
<1>1. IInv => TypeOK
  BY DEF IInv, Typed
<1> QED BY <1>1, Invariant, PTL

(* However the stream is cut into pieces, whichever calls are made and     *)
(* wherever the connection breaks, the events handed over are those that   *)
(* decoding the whole stream at once gives, in order and without gaps.     *)
THEOREM ReceivesTheStream == Spec => []DecodesStream
<1>1. ASSUME IInv PROVE DecodesStream
  <2>1. stream \in Seq(Byte) /\ delivered \in Seq(AnyEvent)
    BY <1>1 DEF IInv, Typed, TypeOK
  <2>2. PICK c : Chain(stream, delivered, c)
    BY <1>1 DEF IInv, Chained
  <2> QED BY <2>1, <2>2, ChainDecodes DEF DecodesStream
<1> QED BY <1>1, Invariant, PTL

(* After a call that returned an event for good, the inner event is the    *)
(* one in that event's body and never one that was left over.              *)
THEOREM InnerBelongs == Spec => []InnerIsCurrent
<1>1. IInv => InnerIsCurrent
  BY DEF IInv
<1> QED BY <1>1, Invariant, PTL

(* A receive that fails has lost the connection, and an unconnected handle *)
(* takes nothing from the socket, its buffer or the stream any more.       *)
THEOREM NothingAfterFailure == Spec => FailureIsFinal
<1>1. ASSUME IInv, [Next]_vars
      PROVE  [/\ status' = "FAIL" /\ pc # "idle" /\ pc' = "idle" => ~connected'
              /\ ~connected => /\ ~connected'
                               /\ UNCHANGED <<arrived, buf, delivered, event>>]_vars
  BY <1>1, LostNext
<1> QED BY <1>1, Invariant, PTL DEF Spec, FailureIsFinal
=============================================================================

--------------------------- MODULE EslBufferProofs ---------------------------
(***************************************************************************)
(* Proofs about EslBuffer for every size of block, every max_len and every *)
(* set of byte strings written.  Each call is shown to keep a buffer well  *)
(* formed; the invariants of the specification follow.                     *)
(***************************************************************************)
EXTENDS MCEslBuffer, EslPacketsProofs, SequenceTheorems

(* What one call needs of the buffer and leaves behind: the conjunction of *)
(* the buffer's type, Bounds and Initialised, of an arbitrary buffer.      *)
WellFormed(b) ==
  /\ b \in Buffer
  /\ b.head + b.used = b.actually_used
  /\ b.actually_used <= b.datalen
  /\ b.datalen = Len(b.data)
  /\ \A i \in 1 .. b.actually_used : b.data[i] \in Byte

(* The types of the fields of a buffer.                                    *)
LEMMA FieldTypes ==
  ASSUME NEW b, WellFormed(b)
  PROVE  /\ b \in Buffer /\ b.data \in Seq(Cell)
         /\ b.head \in Nat /\ b.used \in Nat /\ b.actually_used \in Nat
         /\ b.datalen \in Nat /\ b.max_len \in Nat /\ b.loops \in Int
BY DEF WellFormed, Buffer

(* A slice of a sequence whose elements are in S is a sequence over S.     *)
LEMMA SliceType ==
  ASSUME NEW T, NEW S, NEW s \in Seq(T), NEW m \in Nat, NEW n \in Nat,
         n <= Len(s), \A i \in m + 1 .. n : s[i] \in S
  PROVE  /\ SubSeq(s, m + 1, n) \in Seq(S)
         /\ SubSeq(s, m + 1, n) \in Seq(T)
         /\ Len(SubSeq(s, m + 1, n)) = IF m < n THEN n - m ELSE 0
         /\ \A i \in 1 .. Len(SubSeq(s, m + 1, n)) : SubSeq(s, m + 1, n)[i] \in S
OBVIOUS

(* A newly created buffer is well formed.                                  *)
LEMMA FreshWellFormed ==
  ASSUME NEW m \in Nat
  PROVE  WellFormed(Fresh(m))
BY SizeAssumption, ByteAssumption DEF WellFormed, Fresh, Buffer, Cell

(* esl_buffer_read and esl_buffer_toss keep the buffer well formed.        *)
LEMMA AdvancedWellFormed ==
  ASSUME NEW b, NEW n \in Nat, WellFormed(b)
  PROVE  /\ WellFormed(Advanced(b, n))
         /\ Reading(b, n) \in Nat
         /\ Reading(b, n) <= n
         /\ Advanced(b, n).used \in Nat
         /\ Advanced(b, n).actually_used = b.actually_used
         /\ Advanced(b, n).loops = b.loops
<1>0. /\ b \in Buffer /\ b.data \in Seq(Cell)
      /\ b.head \in Nat /\ b.used \in Nat /\ b.actually_used \in Nat
      /\ b.datalen \in Nat /\ b.loops \in Int
  BY FieldTypes
<1>1. Reading(b, n) \in Nat /\ Reading(b, n) <= n /\ Reading(b, n) <= b.used
  BY <1>0 DEF Reading, Lower
<1>2. /\ Advanced(b, n) \in Buffer
      /\ Advanced(b, n).data = b.data
      /\ Advanced(b, n).head = b.head + Reading(b, n)
      /\ Advanced(b, n).used = b.used - Reading(b, n)
      /\ Advanced(b, n).actually_used = b.actually_used
      /\ Advanced(b, n).datalen = b.datalen
      /\ Advanced(b, n).loops = b.loops
  <2> DEFINE u == b.used - Reading(b, n)
             h == b.head + Reading(b, n)
  <2>1. u \in Nat /\ h \in Nat
    BY <1>0, <1>1
  <2>2. Advanced(b, n) = [b EXCEPT !.used = u, !.head = h]
    BY DEF Advanced
  <2> HIDE DEF u, h
  <2>3. /\ Advanced(b, n) \in Buffer
        /\ Advanced(b, n).data = b.data
        /\ Advanced(b, n).head = h /\ Advanced(b, n).used = u
        /\ Advanced(b, n).actually_used = b.actually_used
        /\ Advanced(b, n).datalen = b.datalen
        /\ Advanced(b, n).loops = b.loops
    BY <1>0, <2>1, <2>2 DEF Buffer
  <2> QED BY <2>3 DEF u, h
<1>3. Advanced(b, n).head + Advanced(b, n).used = b.actually_used
  BY <1>1, <1>2, <1>0 DEF WellFormed
<1> QED BY <1>1, <1>2, <1>3, <1>0 DEF WellFormed

(* What a read delivers was written.                                       *)
LEMMA DeliveredWritten ==
  ASSUME NEW b, NEW n \in Nat, WellFormed(b)
  PROVE  Delivered(b, n) \in Seq(Byte)
<1>1. /\ b.data \in Seq(Cell) /\ b.head \in Nat /\ b.used \in Nat
      /\ b.head + Reading(b, n) \in Nat
      /\ b.head + Reading(b, n) <= Len(b.data)
      /\ \A i \in b.head + 1 .. b.head + Reading(b, n) : b.data[i] \in Byte
  BY DEF WellFormed, Buffer, Reading, Lower
<1> QED BY <1>1, SliceType DEF Delivered

(* Seeking, rewinding and zeroing keep the buffer well formed.             *)
LEMMA MovedWellFormed ==
  ASSUME NEW b, NEW n \in Nat, WellFormed(b)
  PROVE  WellFormed(Sought(b, n)) /\ WellFormed(Rewound(b)) /\ WellFormed(Zeroed(b))
<1>0. /\ b \in Buffer /\ b.data \in Seq(Cell)
      /\ b.head \in Nat /\ b.used \in Nat /\ b.actually_used \in Nat
      /\ b.datalen \in Nat /\ b.loops \in Int
  BY FieldTypes
<1>1. WellFormed(Sought(b, n))
  <2> DEFINE r == Reading(b, n)
             u == b.actually_used - r
             c == [b EXCEPT !.used = u, !.head = r]
  <2>1. r \in Nat /\ u \in Nat
    BY <1>0 DEF Reading, Lower, WellFormed
  <2> HIDE DEF r, u
  <2>2. /\ c \in Buffer /\ c.data = b.data /\ c.head = r /\ c.used = u
        /\ c.actually_used = b.actually_used /\ c.datalen = b.datalen
    BY <2>1, <1>0 DEF Buffer
  <2>3. Sought(b, n) = b \/ Sought(b, n) = c
    BY DEF Sought, r, u
  <2> HIDE DEF c
  <2>4. c.head + c.used = c.actually_used
    BY <2>1, <2>2, <1>0 DEF u
  <2>5. WellFormed(c)
    BY <2>2, <2>4 DEF WellFormed
  <2> QED BY <2>3, <2>5
<1>2. WellFormed(Rewound(b))
  <2>1. /\ Rewound(b) \in Buffer /\ Rewound(b).data = b.data
        /\ Rewound(b).head = 0 /\ Rewound(b).used = b.actually_used
        /\ Rewound(b).actually_used = b.actually_used
        /\ Rewound(b).datalen = b.datalen
    BY <1>0 DEF Rewound, Buffer
  <2> QED BY <2>1, <1>0 DEF WellFormed
<1>3. WellFormed(Zeroed(b))
  <2>1. /\ Zeroed(b) \in Buffer /\ Zeroed(b).data = b.data
        /\ Zeroed(b).head = 0 /\ Zeroed(b).used = 0
        /\ Zeroed(b).actually_used = 0 /\ Zeroed(b).datalen = b.datalen
    BY <1>0 DEF Zeroed, Buffer
  <2> QED BY <2>1, <1>0 DEF WellFormed
<1> QED BY <1>1, <1>2, <1>3

(* Compaction keeps the buffer well formed and its unread length.  Unless  *)
(* the tail of the block has room, it leaves the unread bytes in front,    *)
(* which is why growth may reset head without moving anything.             *)
LEMMA CompactedWellFormed ==
  ASSUME NEW b, NEW n \in Nat, WellFormed(b), ~WriteRefused(b, n)
  PROVE  /\ WellFormed(Compacted(b, n))
         /\ Compacted(b, n).used = b.used
         /\ Compacted(b, n).loops = b.loops
         /\ \/ Compacted(b, n).actually_used + n <= Compacted(b, n).datalen
            \/ Compacted(b, n).head = 0
<1>0. /\ b \in Buffer /\ b.data \in Seq(Cell)
      /\ b.head \in Nat /\ b.used \in Nat /\ b.actually_used \in Nat
      /\ b.datalen \in Nat /\ b.loops \in Int
  BY FieldTypes
<1> DEFINE moved == [i \in 1 .. Len(b.data) |->
                       IF i <= b.used THEN b.data[b.head + i] ELSE b.data[i]]
<1>1. moved \in Seq(Cell) /\ Len(moved) = Len(b.data)
  BY DEF WellFormed, Buffer
<1>2. \A i \in 1 .. b.used : moved[i] \in Byte
  BY DEF WellFormed, Buffer
<1>3. CASE b.datalen - b.actually_used < n
  <2>1. b.max_len = 0 \/ b.used + n <= b.max_len
    BY SizeAssumption DEF WriteRefused, WellFormed, Buffer
  <2>2. Compacted(b, n) = [b EXCEPT !.data = moved, !.head = 0,
                                    !.actually_used = b.used]
    BY <1>3, <2>1 DEF Compacted
  <2> HIDE DEF moved
  <2>3. /\ Compacted(b, n) \in Buffer /\ Compacted(b, n).data = moved
        /\ Compacted(b, n).head = 0 /\ Compacted(b, n).used = b.used
        /\ Compacted(b, n).actually_used = b.used
        /\ Compacted(b, n).datalen = b.datalen
        /\ Compacted(b, n).loops = b.loops
    <3> DEFINE u == b.used
    <3>1. moved \in Seq(Cell) /\ u \in Nat
      BY <1>0, <1>1
    <3>2. Compacted(b, n) = [b EXCEPT !.data = moved, !.head = 0,
                                      !.actually_used = u]
      BY <2>2
    <3> HIDE DEF u
    <3>3. Compacted(b, n) \in Buffer
      <4>1. [b EXCEPT !.data = moved, !.head = 0, !.actually_used = u] \in Buffer
        BY <1>0, <3>1 DEF Buffer
      <4> QED BY <3>2, <4>1, Zenon
    <3>4. /\ Compacted(b, n).data = moved
          /\ Compacted(b, n).head = 0 /\ Compacted(b, n).used = b.used
          /\ Compacted(b, n).actually_used = u
          /\ Compacted(b, n).datalen = b.datalen
          /\ Compacted(b, n).loops = b.loops
      BY <1>0, <3>2 DEF Buffer
    <3> QED BY <3>3, <3>4 DEF u
  <2>4. b.used <= b.datalen
    BY <1>0 DEF WellFormed
  <2> QED BY <1>1, <1>2, <2>3, <2>4, <1>0 DEF WellFormed
<1>4. CASE ~(b.datalen - b.actually_used < n)
  BY <1>4 DEF Compacted, WellFormed, Buffer
<1> QED BY <1>3, <1>4

(* Growth keeps a compacted buffer well formed and makes room.             *)
LEMMA GrownWellFormed ==
  ASSUME NEW b, NEW n \in Nat, WellFormed(b), b.head = 0
  PROVE  /\ WellFormed(Grown(b, n))
         /\ Grown(b, n).actually_used + n <= Grown(b, n).datalen
<1>0. /\ b \in Buffer /\ b.data \in Seq(Cell)
      /\ b.head \in Nat /\ b.used \in Nat /\ b.actually_used \in Nat
      /\ b.datalen \in Nat /\ b.loops \in Int
  BY FieldTypes
<1> DEFINE larger == [i \in 1 .. NewSize(b, n) |->
                        IF i <= Len(b.data) THEN b.data[i] ELSE Junk]
<1>1. /\ NewSize(b, n) \in Nat
      /\ b.datalen + n <= NewSize(b, n) /\ b.datalen <= NewSize(b, n)
  BY SizeAssumption DEF WellFormed, Buffer, NewSize, Higher
<1>2. larger \in Seq(Cell) /\ Len(larger) = NewSize(b, n)
  BY <1>1 DEF WellFormed, Buffer, Cell
<1>3. \A i \in 1 .. b.actually_used : larger[i] \in Byte
  BY <1>1 DEF WellFormed, Buffer
<1>4. Grown(b, n) = [b EXCEPT !.data = larger, !.head = 0,
                              !.datalen = NewSize(b, n)]
  BY DEF Grown
<1> HIDE DEF larger
<1>5. /\ Grown(b, n) \in Buffer /\ Grown(b, n).data = larger
      /\ Grown(b, n).head = 0 /\ Grown(b, n).used = b.used
      /\ Grown(b, n).actually_used = b.actually_used
      /\ Grown(b, n).datalen = NewSize(b, n)
  BY <1>1, <1>2, <1>4, <1>0 DEF Buffer
<1> QED BY <1>1, <1>2, <1>3, <1>5, <1>0 DEF WellFormed

(* The memcpy of a write into a block with room stays inside the block.    *)
LEMMA AppendedWellFormed ==
  ASSUME NEW b, NEW d \in Seq(Byte), WellFormed(b),
         b.actually_used + Len(d) <= b.datalen
  PROVE  WellFormed(Appended(b, d))
<1>0. /\ b \in Buffer /\ b.data \in Seq(Cell)
      /\ b.head \in Nat /\ b.used \in Nat /\ b.actually_used \in Nat
      /\ b.datalen \in Nat /\ b.loops \in Int
  BY FieldTypes
<1> DEFINE at == b.head + b.used
           stored == [i \in 1 .. Len(b.data) |->
                        IF i > at /\ i <= at + Len(d) THEN d[i - at]
                        ELSE b.data[i]]
<1>1. stored \in Seq(Cell) /\ Len(stored) = Len(b.data)
  BY DEF WellFormed, Buffer, Cell
<1>2. \A i \in 1 .. b.actually_used + Len(d) : stored[i] \in Byte
  BY DEF WellFormed, Buffer
<1>3. Appended(b, d) = [b EXCEPT !.data = stored,
                                 !.used = b.used + Len(d),
                                 !.actually_used = b.actually_used + Len(d)]
  BY DEF Appended
<1>4. Len(d) \in Nat
  OBVIOUS
<1> HIDE DEF stored
<1>5. /\ Appended(b, d) \in Buffer /\ Appended(b, d).data = stored
      /\ Appended(b, d).head = b.head
      /\ Appended(b, d).used = b.used + Len(d)
      /\ Appended(b, d).actually_used = b.actually_used + Len(d)
      /\ Appended(b, d).datalen = b.datalen
  <2> DEFINE u == b.used + Len(d)
             a == b.actually_used + Len(d)
  <2>1. stored \in Seq(Cell) /\ u \in Nat /\ a \in Nat
    BY <1>0, <1>1, <1>4
  <2>2. Appended(b, d) = [b EXCEPT !.data = stored, !.used = u,
                                   !.actually_used = a]
    BY <1>3
  <2> HIDE DEF u, a
  <2>3. /\ Appended(b, d) \in Buffer /\ Appended(b, d).data = stored
        /\ Appended(b, d).head = b.head /\ Appended(b, d).used = u
        /\ Appended(b, d).actually_used = a
        /\ Appended(b, d).datalen = b.datalen
    BY <1>0, <2>1, <2>2 DEF Buffer
  <2> QED BY <2>3 DEF u, a
<1> QED BY <1>1, <1>2, <1>4, <1>5, <1>0 DEF WellFormed

(* esl_buffer_write, on every one of its paths.                            *)
LEMMA WrittenWellFormed ==
  ASSUME NEW b, NEW d \in Seq(Byte), NEW ok \in BOOLEAN, WellFormed(b)
  PROVE  WellFormed(Written(b, d, ok)) /\ WriteRet(b, d, ok) \in Nat
<1> DEFINE n == Len(d)
           c == Compacted(b, n)
<1>1. n \in Nat
  OBVIOUS
<1>2. WriteRet(b, d, ok) \in Nat
  BY <1>1 DEF WriteRet, WellFormed, Buffer
<1>3. CASE n = 0 \/ WriteRefused(b, n)
  BY <1>2, <1>3 DEF Written
<1>4. CASE ~(n = 0 \/ WriteRefused(b, n))
  <2>1. /\ WellFormed(c)
        /\ c.actually_used + n <= c.datalen \/ c.head = 0
    BY <1>1, <1>4, CompactedWellFormed
  <2>2. Written(b, d, ok) = IF ~MustGrow(c, n) THEN Appended(c, d)
                            ELSE IF GrowthOverflows(c, n) THEN c
                            ELSE IF ~ok THEN [c EXCEPT !.head = 0]
                            ELSE Appended(Grown(c, n), d)
    BY <1>4 DEF Written
  <2> HIDE DEF c
  <2>5. /\ c.head \in Nat /\ c.used \in Nat /\ c.actually_used \in Nat
        /\ c.datalen \in Nat /\ c.head + c.used = c.actually_used
        /\ c.actually_used <= c.datalen
    BY <2>1 DEF WellFormed, Buffer
  <2> HIDE DEF n
  <2>6. n \in Nat
    BY <1>1
  <2>3. CASE ~MustGrow(c, n)
    <3>1. c.actually_used + n <= c.datalen
      <4>1. n <= c.datalen - c.used
        BY <2>3, <2>5, <2>6 DEF MustGrow
      <4>2. c.head = 0 => c.actually_used + n <= c.datalen
        BY <4>1, <2>5, <2>6
      <4> QED BY <2>1, <4>2
    <3> QED BY <1>2, <2>1, <2>2, <2>3, <3>1, AppendedWellFormed DEF n
  <2>4. CASE MustGrow(c, n)
    <3>1. c.head = 0
      <4>1. c.datalen - c.used < n
        BY <2>4 DEF MustGrow
      <4>2. ~(c.head = 0) => ~(c.actually_used + n <= c.datalen)
        BY <4>1, <2>5, <2>6
      <4> QED BY <2>1, <4>2
    <3>2. [c EXCEPT !.head = 0] = c
      BY <2>1, <3>1 DEF WellFormed, Buffer
    <3>3. WellFormed(Appended(Grown(c, n), d))
      BY <1>1, <2>1, <3>1, GrownWellFormed, AppendedWellFormed DEF n
    <3> QED BY <1>2, <2>1, <2>2, <2>4, <3>2, <3>3
  <2> QED BY <2>3, <2>4
<1> QED BY <1>3, <1>4

(* The four invariants together are inductive: the offsets need the type, *)
(* and what is delivered is written because all reachable cells are.       *)
Inv == TypeOK /\ Bounds /\ Initialised /\ DeliversWritten

(* A result that delivers written bytes only.                              *)
GoodResult(o) ==
  /\ o \in Result
  /\ \A i \in 1 .. Len(o.bytes) : o.bytes[i] \in Byte

(* The invariant, taken apart and put together again.                      *)
LEMMA InvParts ==
  Inv <=> live \in BOOLEAN /\ WellFormed(buf) /\ GoodResult(out)
BY DEF Inv, TypeOK, Bounds, Initialised, DeliversWritten, WellFormed, GoodResult

(* The same for the state after a step.                                    *)
LEMMA InvPartsNext ==
  ASSUME live' \in BOOLEAN, WellFormed(buf'), GoodResult(out')
  PROVE  Inv'
BY DEF Inv, TypeOK, Bounds, Initialised, DeliversWritten, WellFormed, GoodResult

(* Bytes that were written are also cells.                                 *)
LEMMA WrittenBytes ==
  ASSUME NEW bytes \in Seq(Byte)
  PROVE  bytes \in Seq(Cell) /\ \A i \in 1 .. Len(bytes) : bytes[i] \in Byte
BY DEF Cell

(* Every call keeps the invariant.                                         *)
LEMMA NextKeepsInv == Inv /\ [Next]_vars => Inv'
<1> SUFFICES ASSUME Inv, [Next]_vars PROVE Inv'
  OBVIOUS
<1>0. live \in BOOLEAN /\ WellFormed(buf) /\ GoodResult(out)
  BY InvParts
<1>e. <<>> \in Seq(Byte)
  OBVIOUS
<1>1. ASSUME NEW m \in MaxLens, Create(m) PROVE Inv'
  <2>1. m \in Nat
    BY SizeAssumption
  <2>2. GoodResult(out')
    <3>1. Returns("create", m, 1, <<>>) \/ Returns("create", m, 0, <<>>)
      BY <1>1 DEF Create
    <3>2. CASE Returns("create", m, 1, <<>>)
      BY <1>e, <2>1, <3>2, WrittenBytes DEF Call, Returns, GoodResult, Result
    <3>3. CASE Returns("create", m, 0, <<>>)
      BY <1>e, <2>1, <3>3, WrittenBytes DEF Call, Returns, GoodResult, Result
    <3> QED BY <3>1, <3>2, <3>3
  <2>3. live' \in BOOLEAN
    BY <1>0, <1>1, Zenon DEF Create
  <2>4. buf' = Fresh(m) \/ buf' = buf
    BY <1>1 DEF Create
  <2>5. WellFormed(buf')
    BY <1>0, <2>1, <2>4, FreshWellFormed
  <2> QED BY <2>2, <2>3, <2>5, InvPartsNext
<1>2. CASE Destroy
  <2>1. GoodResult(out')
    BY <1>2, <1>e, WrittenBytes DEF Call, Destroy, Returns, GoodResult, Result
  <2>2. live' \in BOOLEAN
    BY <1>2, Zenon DEF Destroy
  <2>3. WellFormed(buf')
    BY <1>2, FreshWellFormed DEF Destroy
  <2> QED BY <2>1, <2>2, <2>3, InvPartsNext
<1>3. CASE Zero
  <2>1. WellFormed(buf')
    BY <1>0, <1>3, MovedWellFormed DEF Zero
  <2>g. GoodResult(out')
    BY <1>3, <1>e, WrittenBytes DEF Call, Zero, Returns, GoodResult, Result
  <2>l. live' \in BOOLEAN
    BY <1>0, <1>3, Zenon DEF Zero
  <2> QED BY <2>1, <2>g, <2>l, InvPartsNext
<1>4. ASSUME NEW d \in Chunks, Write(d) PROVE Inv'
  <2>1. d \in Seq(Byte) /\ Len(d) \in Int
    BY CallAssumption
  <2>2. PICK ok \in BOOLEAN : /\ buf' = Written(buf, d, ok)
                              /\ Returns("write", Len(d), WriteRet(buf, d, ok), d)
    BY <1>4 DEF Write
  <2>3. WellFormed(buf') /\ WriteRet(buf, d, ok) \in Nat
    BY <1>0, <2>1, <2>2, WrittenWellFormed
  <2>4. live' = live
    BY <1>4 DEF Write
  <2>g. GoodResult(out')
    BY <2>1, <2>2, <2>3, WrittenBytes DEF Call, Returns, GoodResult, Result
  <2>l. live' \in BOOLEAN
    BY <1>0, <2>4, Zenon
  <2> QED BY <2>3, <2>g, <2>l, InvPartsNext
<1>5. ASSUME NEW d \in Chunks, ZWrite(d) PROVE Inv'
  <2>1. d \in Seq(Byte) /\ Len(d) \in Int
    BY CallAssumption
  <2>2. PICK ok \in BOOLEAN, ok2 \in BOOLEAN :
          \/ /\ buf' = Written(buf, d, ok)
             /\ Returns("zwrite", Len(d), WriteRet(buf, d, ok), d)
          \/ /\ buf' = Written(Zeroed(Written(buf, d, ok)), d, ok2)
             /\ Returns("zwrite", Len(d),
                        WriteRet(Zeroed(Written(buf, d, ok)), d, ok2), d)
    BY <1>5 DEF ZWrite
  <2>3. live' = live
    BY <1>5 DEF ZWrite
  <2>4. WellFormed(Written(buf, d, ok)) /\ WriteRet(buf, d, ok) \in Nat
    BY <1>0, <2>1, WrittenWellFormed
  <2>5. WellFormed(Zeroed(Written(buf, d, ok)))
    BY <2>4, MovedWellFormed
  <2>6. /\ WellFormed(Written(Zeroed(Written(buf, d, ok)), d, ok2))
        /\ WriteRet(Zeroed(Written(buf, d, ok)), d, ok2) \in Nat
    BY <2>1, <2>5, WrittenWellFormed
  <2>g. GoodResult(out')
    BY <2>1, <2>2, <2>4, <2>6, WrittenBytes DEF Call, Returns, GoodResult, Result
  <2>l. live' \in BOOLEAN
    BY <1>0, <2>3, Zenon
  <2> QED BY <2>2, <2>4, <2>6, <2>g, <2>l, InvPartsNext
<1>6. ASSUME NEW n \in Requests, Read(n) PROVE Inv'
  <2>1. n \in Nat
    BY CallAssumption
  <2>2. WellFormed(buf') /\ Reading(buf, n) \in Nat /\ Delivered(buf, n) \in Seq(Byte)
    BY <1>0, <1>6, <2>1, AdvancedWellFormed, DeliveredWritten DEF Read
  <2>g. GoodResult(out')
    BY <1>6, <2>1, <2>2, WrittenBytes DEF Call, Read, Returns, GoodResult, Result
  <2>l. live' \in BOOLEAN
    BY <1>0, <1>6, Zenon DEF Read
  <2> QED BY <2>2, <2>g, <2>l, InvPartsNext
<1>7. ASSUME NEW m \in Requests, ReadPacket(m) PROVE Inv'
  <2> DEFINE n == Lower(FirstPacketLen(Unread(buf)), m)
  <2>1. m \in Nat
    BY CallAssumption
  <2>2. Unread(buf) \in Seq(Cell)
    BY <1>0, FieldTypes DEF Unread, WellFormed
  <2>3. n \in Nat
    BY <2>1, <2>2, FirstPacketLenType DEF Lower
  <2>4. /\ live' = live /\ buf' = Advanced(buf, n)
        /\ Returns("read_packet", m, Reading(buf, n), Delivered(buf, n))
    BY <1>7 DEF ReadPacket
  <2> HIDE DEF n
  <2>5. WellFormed(buf') /\ Reading(buf, n) \in Nat /\ Delivered(buf, n) \in Seq(Byte)
    BY <1>0, <2>3, <2>4, AdvancedWellFormed, DeliveredWritten
  <2>g. GoodResult(out')
    BY <2>1, <2>4, <2>5, WrittenBytes DEF Call, Returns, GoodResult, Result
  <2>l. live' \in BOOLEAN
    BY <1>0, <2>4, Zenon
  <2> QED BY <2>5, <2>g, <2>l, InvPartsNext
<1>8. ASSUME NEW n \in Requests, Toss(n) PROVE Inv'
  <2>1. n \in Nat
    BY CallAssumption
  <2>2. WellFormed(buf') /\ buf'.used \in Nat
    BY <1>0, <1>8, <2>1, AdvancedWellFormed DEF Toss
  <2>g. GoodResult(out')
    BY <1>8, <1>e, <2>1, <2>2, WrittenBytes DEF Call, Toss, Returns, GoodResult, Result
  <2>l. live' \in BOOLEAN
    BY <1>0, <1>8, Zenon DEF Toss
  <2> QED BY <2>2, <2>g, <2>l, InvPartsNext
<1>9. ASSUME NEW n \in Requests, Seek(n) PROVE Inv'
  <2>1. n \in Nat
    BY CallAssumption
  <2>2. WellFormed(buf') /\ Reading(buf, n) \in Nat
    BY <1>0, <1>9, <2>1, MovedWellFormed, AdvancedWellFormed DEF Seek
  <2>g. GoodResult(out')
    BY <1>9, <1>e, <2>1, <2>2, WrittenBytes DEF Call, Seek, Returns, GoodResult, Result
  <2>l. live' \in BOOLEAN
    BY <1>0, <1>9, Zenon DEF Seek
  <2> QED BY <2>2, <2>g, <2>l, InvPartsNext
<1>10. ASSUME NEW n \in Requests, ReadLoop(n) PROVE Inv'
  <2> DEFINE first == Reading(buf, n)
             again == Rewound(Advanced(buf, n))
             last == Advanced(again, n - first)
             wrapped == [last EXCEPT !.loops = @ - 1]
  <2>1. n \in Nat /\ live' = live
    BY <1>10, CallAssumption DEF ReadLoop
  <2>l. live' \in BOOLEAN
    BY <1>0, <2>1, Zenon
  <2>2. /\ WellFormed(Advanced(buf, n)) /\ first \in Nat /\ n - first \in Nat
        /\ Delivered(buf, n) \in Seq(Byte)
    BY <1>0, <2>1, AdvancedWellFormed, DeliveredWritten
  <2>3. CASE /\ buf' = Advanced(buf, n)
             /\ Returns("read_loop", n, first, Delivered(buf, n))
    <3>1. GoodResult(out')
      BY <2>1, <2>2, <2>3, WrittenBytes DEF Call, Returns, GoodResult, Result
    <3> QED BY <2>l, <2>2, <2>3, <3>1, InvPartsNext
  <2>4. CASE /\ buf' = wrapped
             /\ Returns("read_loop", n, Reading(again, n - first),
                        Delivered(buf, n) \o Delivered(again, n - first))
    <3>1. WellFormed(again)
      BY <2>2, MovedWellFormed
    <3>2. /\ WellFormed(last) /\ Reading(again, n - first) \in Nat
          /\ Delivered(again, n - first) \in Seq(Byte)
      BY <2>2, <3>1, AdvancedWellFormed, DeliveredWritten
    <3> HIDE DEF last
    <3>3. WellFormed(wrapped)
      <4>1. /\ last \in Buffer /\ last.loops \in Int
        BY <3>2, FieldTypes
      <4>2. /\ wrapped \in Buffer /\ wrapped.data = last.data
            /\ wrapped.head = last.head /\ wrapped.used = last.used
            /\ wrapped.actually_used = last.actually_used
            /\ wrapped.datalen = last.datalen
        BY <4>1 DEF Buffer
      <4> QED BY <3>2, <4>2 DEF WellFormed
    <3>4. Delivered(buf, n) \o Delivered(again, n - first) \in Seq(Byte)
      BY <2>2, <3>2
    <3> HIDE DEF wrapped, again, first
    <3>5. GoodResult(out')
      BY <2>1, <2>4, <3>2, <3>4, WrittenBytes DEF Call, Returns, GoodResult, Result
    <3> QED BY <2>l, <2>4, <3>3, <3>5, InvPartsNext
  <2> QED BY <1>10, <2>3, <2>4 DEF ReadLoop
<1>11. ASSUME NEW k \in LoopSettings, SetLoops(k) PROVE Inv'
  <2>1. k \in Int
    BY CallAssumption
  <2>2. buf' = [buf EXCEPT !.loops = k] /\ buf \in Buffer
    BY <1>0, <1>11 DEF SetLoops, WellFormed
  <2>3. /\ buf' \in Buffer /\ buf'.data = buf.data
        /\ buf'.head = buf.head /\ buf'.used = buf.used
        /\ buf'.actually_used = buf.actually_used /\ buf'.datalen = buf.datalen
    BY <2>1, <2>2 DEF Buffer
  <2>4. WellFormed(buf')
    BY <1>0, <2>3 DEF WellFormed
  <2>g. GoodResult(out')
    BY <1>11, <1>e, <2>1, WrittenBytes DEF Call, SetLoops, Returns, GoodResult, Result
  <2>l. live' \in BOOLEAN
    BY <1>0, <1>11, Zenon DEF SetLoops
  <2> QED BY <2>4, <2>g, <2>l, InvPartsNext
<1>12. CASE UNCHANGED vars
  <2>1. live' = live /\ buf' = buf /\ out' = out
    BY <1>12 DEF vars
  <2>2. live' \in BOOLEAN
    BY <1>0, <2>1, Zenon
  <2> QED BY <1>0, <2>1, <2>2, InvPartsNext
<1> QED BY <1>1, <1>2, <1>3, <1>4, <1>5, <1>6, <1>7, <1>8, <1>9, <1>10,
          <1>11, <1>12 DEF Next

(* The initial state satisfies the invariant.                              *)
LEMMA InitInv == Init => Inv
<1> SUFFICES ASSUME Init PROVE Inv
  OBVIOUS
<1>1. GoodResult(out)
  <2>1. <<>> \in Seq(Byte)
    OBVIOUS
  <2> QED BY <2>1, WrittenBytes DEF Call, Init, GoodResult, Result
<1>2. WellFormed(buf)
  BY FreshWellFormed DEF Init
<1> QED BY <1>1, <1>2, InvParts DEF Init

(* Whatever sequence of calls is made, with allocation failing whenever it *)
(* likes, the types hold, all offsets stay inside the allocated block,     *)
(* every byte a rewind can reach was written, and so was every byte a call *)
(* delivers.                                                               *)
THEOREM BufferSafety ==
  Spec => [](TypeOK /\ Bounds /\ Initialised /\ DeliversWritten)
<1>1. Inv => TypeOK /\ Bounds /\ Initialised /\ DeliversWritten
  BY DEF Inv
<1> QED BY <1>1, InitInv, NextKeepsInv, PTL DEF Spec

(* Every byte that a rewind can make readable again was written.           *)
COROLLARY WrittenOnly == Spec => []Initialised
<1>1. TypeOK /\ Bounds /\ Initialised /\ DeliversWritten => Initialised
  OBVIOUS
<1> QED BY <1>1, BufferSafety, PTL

(* No call hands bytes to its caller that nobody wrote.                    *)
COROLLARY NothingInvented == Spec => []DeliversWritten
<1>1. TypeOK /\ Bounds /\ Initialised /\ DeliversWritten => DeliversWritten
  OBVIOUS
<1> QED BY <1>1, BufferSafety, PTL

-----------------------------------------------------------------------------
(***************************************************************************)
(* The buffer implements the tape: each call maps to the call of the same  *)
(* name of ByteTape.  Two facts about buffers with a max_len follow from   *)
(* the invariant of the buffer.                                            *)
(***************************************************************************)

(* The tape of a buffer, as the refinement mapping has it.                 *)
TapeOf(b) == SubSeq(b.data, 1, b.actually_used)

(* c is b with d behind its tape; the consumed bytes may be gone.          *)
Appends(b, c, d) ==
  /\ \/ TapeOf(c) = TapeOf(b) \o d /\ c.head = b.head
     \/ TapeOf(c) = Unread(b) \o d /\ c.head = 0
  /\ c.max_len = b.max_len /\ c.loops = b.loops


(* A slice of k bytes behind the first m.                                  *)
LEMMA Slice ==
  ASSUME NEW T, NEW s \in Seq(T), NEW m \in Nat, NEW k \in Nat, m + k <= Len(s)
  PROVE  /\ SubSeq(s, m + 1, m + k) \in Seq(T)
         /\ Len(SubSeq(s, m + 1, m + k)) = k
         /\ \A i \in 1 .. k : SubSeq(s, m + 1, m + k)[i] = s[m + i]
OBVIOUS

LEMMA TapeProperties ==
  ASSUME NEW b, WellFormed(b)
  PROVE  /\ TapeOf(b) \in Seq(Byte) /\ Len(TapeOf(b)) = b.actually_used
         /\ \A i \in 1 .. b.actually_used : TapeOf(b)[i] = b.data[i]
         /\ Unread(b) \in Seq(Byte) /\ Len(Unread(b)) = b.used
         /\ \A i \in 1 .. b.used : Unread(b)[i] = b.data[b.head + i]
<1>1. /\ b.data \in Seq(Cell) /\ b.head \in Nat /\ b.used \in Nat
      /\ b.actually_used \in Nat /\ b.actually_used <= Len(b.data)
      /\ b.head + b.used = b.actually_used
      /\ \A i \in 1 .. b.actually_used : b.data[i] \in Byte
  BY DEF WellFormed, Buffer
<1> DEFINE d == b.data
           h == b.head
           u == b.used
           a == b.actually_used
<1>2. /\ d \in Seq(Cell) /\ h \in Nat /\ u \in Nat /\ a \in Nat /\ a <= Len(d) /\ h + u = a
      /\ \A i \in 1 .. a : d[i] \in Byte
  BY <1>1
<1>3. TapeOf(b) = SubSeq(d, 1, a) /\ Unread(b) = SubSeq(d, h + 1, h + u)
  BY DEF TapeOf, Unread
<1> HIDE DEF d, h, u, a
<1>4. /\ SubSeq(d, 1, a) \in Seq(Byte) /\ Len(SubSeq(d, 1, a)) = a
      /\ \A i \in 1 .. a : SubSeq(d, 1, a)[i] = d[i]
  BY <1>2
<1>5. /\ Len(SubSeq(d, h + 1, h + u)) = u
      /\ \A i \in 1 .. u : SubSeq(d, h + 1, h + u)[i] = d[h + i]
      /\ SubSeq(d, h + 1, h + u) \in Seq(Cell)
  BY <1>2, Slice
<1>6. \A i \in 1 .. u : d[h + i] \in Byte
  BY <1>2
<1>7. SubSeq(d, h + 1, h + u) \in Seq(Byte)
  <2> DEFINE y == SubSeq(d, h + 1, h + u)
  <2> HIDE DEF y
  <2> SUFFICES y \in Seq(Byte)
    BY DEF y
  <2>1. y \in Seq(Cell) /\ Len(y) = u /\ \A i \in 1 .. u : y[i] \in Byte
    BY <1>5, <1>6 DEF y
  <2> QED BY <2>1
<1> QED BY <1>3, <1>4, <1>5, <1>7 DEF d, h, u, a

(* The bytes on the tape between two positions are those in the block.     *)
LEMMA TapeSlice ==
  ASSUME NEW b, WellFormed(b), NEW k \in Nat, k <= b.used
  PROVE  SubSeq(TapeOf(b), b.head + 1, b.head + k) = SubSeq(b.data, b.head + 1, b.head + k)
<1> DEFINE d == b.data
           h == b.head
           t == TapeOf(b)
<1>1. /\ d \in Seq(Cell) /\ h \in Nat /\ h + k \in Nat /\ h + k <= Len(d)
      /\ h + k <= b.actually_used /\ b.actually_used \in Nat
  BY DEF WellFormed, Buffer
<1>2. /\ t \in Seq(Byte) /\ h + k <= Len(t) /\ \A i \in 1 .. h + k : t[i] = d[i]
  BY <1>1, TapeProperties
<1> HIDE DEF d, h, t
<1> DEFINE x == SubSeq(t, h + 1, h + k)
           y == SubSeq(d, h + 1, h + k)
<1>3. x \in Seq(Byte) /\ Len(x) = k /\ \A i \in 1 .. k : x[i] = t[h + i]
  BY <1>1, <1>2, Slice
<1>4. y \in Seq(Cell) /\ Len(y) = k /\ \A i \in 1 .. k : y[i] = d[h + i]
  BY <1>1, Slice
<1> HIDE DEF x, y
<1>5. ASSUME NEW i \in 1 .. k PROVE x[i] = y[i]
  <2>1. h + i \in 1 .. h + k
    BY <1>1
  <2>2. t[h + i] = d[h + i]
    BY <1>2, <2>1
  <2> QED BY <1>3, <1>4, <2>2
<1>6. x = y
  BY <1>3, <1>4, <1>5, SeqEqual
<1> QED BY <1>6 DEF x, y, t, d, h

LEMMA LeftIsUnread ==
  ASSUME NEW b, WellFormed(b)
  PROVE  SubSeq(TapeOf(b), b.head + 1, Len(TapeOf(b))) = Unread(b)
<1>1. b.head \in Nat /\ b.used \in Nat /\ b.actually_used = b.head + b.used
  BY DEF WellFormed, Buffer
<1>2. Len(TapeOf(b)) = b.head + b.used
  BY <1>1, TapeProperties
<1>3. SubSeq(TapeOf(b), b.head + 1, b.head + b.used) =
        SubSeq(b.data, b.head + 1, b.head + b.used)
  <2> DEFINE u == b.used
  <2>1. u \in Nat /\ u <= b.used
    BY <1>1
  <2> HIDE DEF u
  <2>2. SubSeq(TapeOf(b), b.head + 1, b.head + u) = SubSeq(b.data, b.head + 1, b.head + u)
    BY <2>1, TapeSlice
  <2> QED BY <2>2 DEF u
<1> QED BY <1>2, <1>3 DEF Unread

LEMMA TakenIsDelivered ==
  ASSUME NEW b, WellFormed(b), NEW n \in Nat
  PROVE  /\ SubSeq(TapeOf(b), b.head + 1, b.head + Reading(b, n)) = Delivered(b, n)
         /\ Reading(b, n) = IF n <= Len(TapeOf(b)) - b.head THEN n ELSE Len(TapeOf(b)) - b.head
<1>1. /\ b.head \in Nat /\ b.used \in Nat /\ b.actually_used = b.head + b.used
  BY DEF WellFormed, Buffer
<1>2. Reading(b, n) \in Nat /\ Reading(b, n) <= b.used
  BY <1>1 DEF Reading, Lower
<1>3. Reading(b, n) = IF n <= Len(TapeOf(b)) - b.head THEN n ELSE Len(TapeOf(b)) - b.head
  BY <1>1, TapeProperties DEF Reading, Lower
<1> QED BY <1>1, <1>2, <1>3, TapeSlice DEF Delivered

-----------------------------------------------------------------------------
(* What each call does to the tape.                                        *)
LEMMA AdvancedTape ==
  ASSUME NEW b, WellFormed(b), NEW n \in Nat
  PROVE  /\ TapeOf(Advanced(b, n)) = TapeOf(b)
         /\ Advanced(b, n).head = b.head + Reading(b, n)
         /\ Advanced(b, n).used = b.used - Reading(b, n)
         /\ Advanced(b, n).max_len = b.max_len /\ Advanced(b, n).loops = b.loops
BY FieldTypes DEF Advanced, TapeOf, Buffer

LEMMA CompactedTape ==
  ASSUME NEW b, WellFormed(b), NEW n \in Nat, ~WriteRefused(b, n)
  PROVE  Appends(b, Compacted(b, n), <<>>)
<1> DEFINE c == Compacted(b, n)
<1>1. WellFormed(c) /\ c.used = b.used /\ c.loops = b.loops
  BY CompactedWellFormed
<1>2. CASE c = b
  BY <1>2, TapeProperties DEF Appends
<1>3. CASE c # b
  <2> DEFINE moved == [i \in 1 .. Len(b.data) |->
                         IF i <= b.used THEN b.data[b.head + i] ELSE b.data[i]]
  <2>1. c = [b EXCEPT !.data = moved, !.head = 0, !.actually_used = b.used]
    BY <1>3 DEF Compacted
  <2> HIDE DEF moved, c
  <2>2. c.data = moved /\ c.head = 0 /\ c.actually_used = b.used /\ c.max_len = b.max_len
    BY <2>1, FieldTypes DEF Buffer
  <2>3. /\ TapeOf(c) \in Seq(Byte) /\ Len(TapeOf(c)) = b.used
        /\ \A i \in 1 .. b.used : TapeOf(c)[i] = moved[i]
    BY <1>1, <2>2, TapeProperties
  <2>4. b.used \in Nat /\ b.used <= Len(b.data) /\ b.data \in Seq(Cell)
    BY DEF WellFormed, Buffer
  <2>5. \A i \in 1 .. b.used : moved[i] = b.data[b.head + i]
    BY <2>4 DEF moved
  <2>6. TapeOf(c) = Unread(b)
    BY <2>3, <2>5, TapeProperties, SeqEqual
  <2> QED BY <1>1, <2>2, <2>6, TapeProperties DEF Appends, c
<1> QED BY <1>2, <1>3

LEMMA GrownTape ==
  ASSUME NEW b, WellFormed(b), b.head = 0, NEW n \in Nat
  PROVE  /\ TapeOf(Grown(b, n)) = TapeOf(b) /\ Grown(b, n).head = 0
         /\ Grown(b, n).max_len = b.max_len /\ Grown(b, n).loops = b.loops
         /\ Grown(b, n).used = b.used
<1> DEFINE g == Grown(b, n)
           grown == [i \in 1 .. NewSize(b, n) |->
                       IF i <= Len(b.data) THEN b.data[i] ELSE Junk]
<1>1. WellFormed(g)
  BY GrownWellFormed
<1>2. /\ g.data = grown /\ g.head = 0 /\ g.actually_used = b.actually_used
      /\ g.max_len = b.max_len /\ g.loops = b.loops /\ g.used = b.used
  BY FieldTypes DEF Grown, Buffer
<1>3. /\ b.actually_used \in Nat /\ b.actually_used <= Len(b.data) /\ b.data \in Seq(Cell)
      /\ Len(b.data) <= NewSize(b, n) /\ NewSize(b, n) \in Nat
  BY SizeAssumption DEF WellFormed, Buffer, NewSize, Higher
<1>4. \A i \in 1 .. b.actually_used : grown[i] = b.data[i]
  BY <1>3
<1> HIDE DEF g, grown
<1>5. TapeOf(g) = TapeOf(b)
  BY <1>1, <1>2, <1>4, TapeProperties, SeqEqual
<1> QED BY <1>2, <1>5 DEF g

LEMMA AppendedTape ==
  ASSUME NEW b, WellFormed(b), NEW d \in Seq(Byte), b.actually_used + Len(d) <= b.datalen
  PROVE  /\ TapeOf(Appended(b, d)) = TapeOf(b) \o d /\ Appended(b, d).head = b.head
         /\ Appended(b, d).max_len = b.max_len /\ Appended(b, d).loops = b.loops
<1> DEFINE a == b.actually_used
           c == Appended(b, d)
           copied == [i \in 1 .. Len(b.data) |->
                        IF i > b.head + b.used /\ i <= b.head + b.used + Len(d)
                        THEN d[i - (b.head + b.used)] ELSE b.data[i]]
<1>1. WellFormed(c)
  BY AppendedWellFormed
<1>2. /\ c.data = copied /\ c.head = b.head /\ c.actually_used = a + Len(d)
      /\ c.max_len = b.max_len /\ c.loops = b.loops
  BY FieldTypes DEF Appended, Buffer
<1>3. /\ a \in Nat /\ a + Len(d) <= Len(b.data) /\ b.data \in Seq(Cell)
      /\ b.head + b.used = a /\ Len(d) \in Nat
  BY DEF WellFormed, Buffer
<1>4. \A i \in 1 .. a + Len(d) : copied[i] = IF i > a THEN d[i - a] ELSE b.data[i]
  BY <1>3
<1> HIDE DEF a, c, copied
<1> DEFINE t == TapeOf(b)
           u == TapeOf(c)
<1>5. t \in Seq(Byte) /\ Len(t) = a /\ \A i \in 1 .. a : t[i] = b.data[i]
  BY TapeProperties DEF a
<1>6. u \in Seq(Byte) /\ Len(u) = a + Len(d) /\ \A i \in 1 .. a + Len(d) : u[i] = copied[i]
  BY <1>1, <1>2, TapeProperties
<1> HIDE DEF t, u
<1>7. /\ t \o d \in Seq(Byte) /\ Len(t \o d) = a + Len(d)
      /\ \A i \in 1 .. a + Len(d) : (t \o d)[i] = IF i > a THEN d[i - a] ELSE t[i]
  <2>1. t \o d \in Seq(Byte) /\ Len(t \o d) = Len(t) + Len(d)
    BY <1>5
  <2>2. \A i \in 1 .. Len(t) + Len(d) : (t \o d)[i] = IF i <= Len(t) THEN t[i] ELSE d[i - Len(t)]
    BY <1>5
  <2> QED BY <1>3, <1>5, <2>1, <2>2
<1>8. ASSUME NEW i \in 1 .. a + Len(d)
      PROVE  u[i] = (t \o d)[i]
  <2>1. CASE i > a
    BY <1>3, <1>4, <1>6, <1>7, <2>1
  <2>2. CASE ~(i > a)
    <3>1. i \in 1 .. a
      BY <1>3, <2>2
    <3> QED BY <1>4, <1>5, <1>6, <1>7, <2>2, <3>1
  <2> QED BY <2>1, <2>2
<1>9. u = t \o d
  BY <1>6, <1>7, <1>8, SeqEqual DEF u
<1> QED BY <1>2, <1>9 DEF c, t, u

(* Appending nothing and then d is appending d.                            *)
LEMMA AppendsBehind ==
  ASSUME NEW b, NEW c, NEW e, NEW d, WellFormed(b), WellFormed(c), Appends(b, c, <<>>),
         TapeOf(e) = TapeOf(c) \o d, e.head = c.head, e.max_len = c.max_len,
         e.loops = c.loops
  PROVE  Appends(b, e, d)
<1>1. TapeOf(b) \o <<>> = TapeOf(b) /\ Unread(b) \o <<>> = Unread(b)
  BY TapeProperties, ConcatEmptySeq
<1> QED BY <1>1 DEF Appends

LEMMA WrittenTape ==
  ASSUME NEW b, NEW d \in Seq(Byte), NEW ok \in BOOLEAN, WellFormed(b)
  PROVE  /\ WriteRet(b, d, ok) # 0 \/ d = <<>> =>
              /\ Appends(b, Written(b, d, ok), d)
              /\ WriteRet(b, d, ok) = b.used + Len(d)
              /\ d = <<>> \/ b.max_len = 0 \/ b.used + Len(d) <= b.max_len
         /\ WriteRet(b, d, ok) = 0 =>
              /\ Appends(b, Written(b, d, ok), <<>>)
              /\ d # <<>> \/ b.used = 0
<1> DEFINE n == Len(d)
           c == Compacted(b, n)
           w == Written(b, d, ok)
           ret == WriteRet(b, d, ok)
<1>0. n \in Nat /\ b.used \in Nat /\ b.max_len \in Nat /\ (d = <<>> <=> n = 0)
  BY DEF WellFormed, Buffer
<1>1. Appends(b, b, <<>>)
  BY TapeProperties, ConcatEmptySeq DEF Appends
<1>2. CASE n = 0
  <2>1. w = b /\ ret = b.used + n
    BY <1>2 DEF Written, WriteRet
  <2> QED BY <1>0, <1>1, <1>2, <2>1
<1>3. CASE n # 0 /\ WriteRefused(b, n)
  <2>1. w = b /\ ret = 0
    BY <1>3 DEF Written, WriteRet
  <2> QED BY <1>0, <1>1, <1>3, <2>1
<1>4. CASE n # 0 /\ ~WriteRefused(b, n)
  <2>1. /\ WellFormed(c) /\ c.used = b.used
        /\ c.actually_used + n <= c.datalen \/ c.head = 0
    BY <1>0, <1>4, CompactedWellFormed
  <2>2. Appends(b, c, <<>>)
    BY <1>0, <1>4, CompactedTape
  <2>3. b.max_len = 0 \/ b.used + n <= b.max_len
    BY <1>0, <1>4 DEF WriteRefused
  <2>4. w = IF ~MustGrow(c, n) THEN Appended(c, d)
            ELSE IF GrowthOverflows(c, n) THEN c
            ELSE IF ~ok THEN [c EXCEPT !.head = 0]
            ELSE Appended(Grown(c, n), d)
    BY <1>4 DEF Written
  <2>5. ret = IF MustGrow(c, n) => ~GrowthOverflows(c, n) /\ ok THEN b.used + n ELSE 0
    BY <1>4 DEF WriteRet
  <2>6. b.used + n # 0
    BY <1>0, <1>4
  <2> HIDE DEF c, w, ret
  <2>7. /\ c.head \in Nat /\ c.used \in Nat /\ c.actually_used \in Nat
        /\ c.datalen \in Nat /\ c.head + c.used = c.actually_used
    BY <2>1 DEF WellFormed, Buffer
  <2>8. MustGrow(c, n) => c.head = 0
    BY <1>0, <2>1, <2>7 DEF MustGrow
  <2>9. CASE ~MustGrow(c, n)
    <3>1. c.actually_used + n <= c.datalen
      BY <1>0, <2>1, <2>7, <2>9 DEF MustGrow
    <3>2. w = Appended(c, d) /\ ret = b.used + n
      BY <2>4, <2>5, <2>9
    <3>3. /\ TapeOf(w) = TapeOf(c) \o d /\ w.head = c.head
          /\ w.max_len = c.max_len /\ w.loops = c.loops
      BY <2>1, <3>1, <3>2, AppendedTape
    <3>4. Appends(b, w, d)
      BY <2>1, <2>2, <3>3, AppendsBehind
    <3> QED BY <1>0, <1>4, <2>3, <2>6, <3>2, <3>4 DEF w, ret
  <2>10. CASE MustGrow(c, n) /\ (GrowthOverflows(c, n) \/ ~ok)
    <3>1. [c EXCEPT !.head = 0] = c
      BY <2>1, <2>8, <2>10 DEF WellFormed, Buffer
    <3>2. w = c /\ ret = 0
      BY <2>4, <2>5, <2>10, <3>1
    <3> QED BY <1>0, <1>4, <2>2, <3>2 DEF w, ret
  <2>11. CASE MustGrow(c, n) /\ ~GrowthOverflows(c, n) /\ ok
    <3> DEFINE g == Grown(c, n)
    <3>1. WellFormed(g) /\ g.actually_used + n <= g.datalen
      BY <1>0, <2>1, <2>8, <2>11, GrownWellFormed
    <3>2. w = Appended(g, d) /\ ret = b.used + n
      BY <2>4, <2>5, <2>11
    <3>3. /\ TapeOf(g) = TapeOf(c) /\ g.head = c.head
          /\ g.max_len = c.max_len /\ g.loops = c.loops
      BY <1>0, <2>1, <2>8, <2>11, GrownTape
    <3> HIDE DEF g
    <3>4. /\ TapeOf(w) = TapeOf(g) \o d /\ w.head = g.head
          /\ w.max_len = g.max_len /\ w.loops = g.loops
      BY <3>1, <3>2, AppendedTape
    <3>5. Appends(b, w, d)
      BY <2>1, <2>2, <3>3, <3>4, AppendsBehind
    <3> QED BY <1>0, <1>4, <2>3, <2>6, <3>2, <3>5 DEF w, ret
  <2> QED BY <2>9, <2>10, <2>11
<1> QED BY <1>2, <1>3, <1>4

-----------------------------------------------------------------------------
(* The refinement, step by step.                                           *)
LEMMA MappedState ==
  ASSUME WellFormed(buf)
  PROVE  /\ Tape!Left = Unread(buf) /\ Len(Tape!Left) = buf.used
         /\ Len(TapeOf(buf)) = buf.head + buf.used
         /\ \A n \in Nat : Tape!Cut(n) = Reading(buf, n) /\ Tape!Taken(n) = Delivered(buf, n)
<1>1. buf.head \in Nat /\ buf.used \in Nat /\ buf.actually_used = buf.head + buf.used
  BY DEF WellFormed, Buffer
<1>2. Tape!Left = Unread(buf)
  BY LeftIsUnread DEF Tape!Left, TapeOf
<1>3. ASSUME NEW n \in Nat
      PROVE  Tape!Cut(n) = Reading(buf, n) /\ Tape!Taken(n) = Delivered(buf, n)
  <2>1. Tape!Cut(n) = Reading(buf, n)
    BY TakenIsDelivered DEF Tape!Cut, TapeOf
  <2>2. Tape!Taken(n) = Delivered(buf, n)
    BY <2>1, TakenIsDelivered DEF Tape!Taken, TapeOf
  <2> QED BY <2>1, <2>2
<1> QED BY <1>1, <1>2, <1>3, TapeProperties

LEMMA InitMapped == Init => Tape!Init
<1> SUFFICES ASSUME Init PROVE Tape!Init
  OBVIOUS
<1>1. buf.head = 0 /\ buf.actually_used = 0 /\ buf.max_len = 0 /\ buf.loops = 0
  BY DEF Init, Fresh
<1>2. SubSeq(buf.data, 1, buf.actually_used) = <<>>
  BY <1>1
<1> QED BY <1>1, <1>2 DEF Init, Tape!Init

(* What a fresh buffer looks like as a tape.                               *)
LEMMA FreshTape ==
  ASSUME NEW m
  PROVE  /\ SubSeq(Fresh(m).data, 1, Fresh(m).actually_used) = <<>> /\ Fresh(m).head = 0
         /\ Fresh(m).max_len = m /\ Fresh(m).loops = 0
BY DEF Fresh

LEMMA CreateMapped ==
  ASSUME NEW m, Create(m), ~live => buf = Fresh(0)
  PROVE  Tape!Create(m)
<1>1. CASE live' = TRUE /\ buf' = Fresh(m) /\ Returns("create", m, 1, <<>>)
  BY <1>1, FreshTape DEF Create, Tape!Create, Tape!Returns, Returns
<1>2. CASE UNCHANGED <<live, buf>> /\ Returns("create", m, 0, <<>>)
  BY <1>2 DEF Create, Tape!Create, Tape!Returns, Returns
<1> QED BY <1>1, <1>2 DEF Create

LEMMA DestroyMapped == ASSUME Destroy PROVE Tape!Destroy
BY FreshTape DEF Destroy, Tape!Destroy, Tape!Empty, Tape!Returns, Returns

LEMMA WriteMapped ==
  ASSUME WellFormed(buf), NEW d \in Chunks, Write(d)
  PROVE  Tape!Write(d)
<1>1. PICK ok \in BOOLEAN : /\ buf' = Written(buf, d, ok)
                            /\ Returns("write", Len(d), WriteRet(buf, d, ok), d)
  BY DEF Write
<1>2. d \in Seq(Byte)
  BY CallAssumption
<1>3. CASE WriteRet(buf, d, ok) # 0 \/ d = <<>>
  <2>1. /\ Appends(buf, buf', d) /\ WriteRet(buf, d, ok) = buf.used + Len(d)
        /\ d = <<>> \/ buf.max_len = 0 \/ buf.used + Len(d) <= buf.max_len
    BY <1>1, <1>2, <1>3, WrittenTape
  <2>2. Tape!Append1(d) /\ UNCHANGED <<buf.max_len, buf.loops>>
    BY <2>1, MappedState DEF Appends, Tape!Append1, TapeOf
  <2>3. d = <<>> \/ Tape!Fits(d, Len(Tape!Left))
    BY <2>1, MappedState DEF Tape!Fits
  <2>4. Tape!Returns("write", Len(d), Len(Tape!Left) + Len(d), d)
    BY <1>1, <2>1, MappedState DEF Returns, Tape!Returns
  <2> QED BY <2>2, <2>3, <2>4 DEF Write, Tape!Write
<1>4. CASE WriteRet(buf, d, ok) = 0 /\ d # <<>>
  <2>1. Appends(buf, buf', <<>>)
    BY <1>1, <1>2, <1>4, WrittenTape
  <2>2. Tape!Append1(<<>>) /\ UNCHANGED <<buf.max_len, buf.loops>>
    BY <2>1, MappedState DEF Appends, Tape!Append1, TapeOf
  <2>3. Tape!Returns("write", Len(d), 0, d)
    BY <1>1, <1>4 DEF Returns, Tape!Returns
  <2> QED BY <1>4, <2>2, <2>3 DEF Write, Tape!Write
<1> QED BY <1>3, <1>4

(* A zeroed buffer is an empty tape.                                       *)
LEMMA ZeroedTape ==
  ASSUME NEW b, WellFormed(b)
  PROVE  /\ WellFormed(Zeroed(b)) /\ TapeOf(Zeroed(b)) = <<>> /\ Zeroed(b).head = 0
         /\ Zeroed(b).max_len = b.max_len /\ Zeroed(b).loops = b.loops
         /\ Unread(Zeroed(b)) = <<>> /\ Zeroed(b).used = 0
<1>1. WellFormed(Zeroed(b))
  BY MovedWellFormed
<1>2. /\ Zeroed(b).head = 0 /\ Zeroed(b).used = 0 /\ Zeroed(b).actually_used = 0
      /\ Zeroed(b).max_len = b.max_len /\ Zeroed(b).loops = b.loops
  BY FieldTypes DEF Zeroed, Buffer
<1>3. TapeOf(Zeroed(b)) = <<>> /\ Unread(Zeroed(b)) = <<>>
  BY <1>1, <1>2, TapeProperties
<1> QED BY <1>1, <1>2, <1>3

LEMMA ZWriteMapped ==
  ASSUME WellFormed(buf), NEW d \in Chunks, ZWrite(d)
  PROVE  Tape!ZWrite(d)
<1>1. PICK ok \in BOOLEAN, ok2 \in BOOLEAN :
        IF WriteRet(buf, d, ok) # 0
        THEN /\ buf' = Written(buf, d, ok)
             /\ Returns("zwrite", Len(d), WriteRet(buf, d, ok), d)
        ELSE /\ buf' = Written(Zeroed(Written(buf, d, ok)), d, ok2)
             /\ Returns("zwrite", Len(d), WriteRet(Zeroed(Written(buf, d, ok)), d, ok2), d)
  BY DEF ZWrite
<1>2. d \in Seq(Byte) /\ Len(d) \in Nat /\ (d = <<>> <=> Len(d) = 0)
  BY CallAssumption
<1>3. live /\ UNCHANGED live
  BY DEF ZWrite
<1>4. CASE WriteRet(buf, d, ok) # 0
  <2>1. /\ Appends(buf, buf', d) /\ WriteRet(buf, d, ok) = buf.used + Len(d)
        /\ d = <<>> \/ buf.max_len = 0 \/ buf.used + Len(d) <= buf.max_len
    BY <1>1, <1>2, <1>4, WrittenTape
  <2>2. Tape!Append1(d) /\ UNCHANGED <<buf.max_len, buf.loops>>
    BY <2>1, MappedState DEF Appends, Tape!Append1, TapeOf
  <2>3. d = <<>> \/ Tape!Fits(d, Len(Tape!Left))
    BY <2>1, MappedState DEF Tape!Fits
  <2>4. Tape!Returns("zwrite", Len(d), Len(Tape!Left) + Len(d), d)
    BY <1>1, <1>4, <2>1, MappedState DEF Returns, Tape!Returns
  <2>5. Tape!Left \o d # <<>>
    <3>1. Unread(buf) \in Seq(Byte) /\ Len(Unread(buf)) = buf.used
      BY TapeProperties
    <3>2. Len(Unread(buf) \o d) = buf.used + Len(d)
      BY <1>2, <3>1
    <3>3. Len(Unread(buf) \o d) # 0
      BY <1>4, <2>1, <3>2
    <3>4. Unread(buf) \o d # <<>>
      BY <3>3
    <3> QED BY <3>4, MappedState
  <2> QED BY <1>3, <2>2, <2>3, <2>4, <2>5 DEF Tape!ZWrite
<1>5. CASE WriteRet(buf, d, ok) = 0
  <2> DEFINE w == Written(buf, d, ok)
             z == Zeroed(w)
             ret == WriteRet(z, d, ok2)
  <2>1. WellFormed(w)
    BY <1>2, WrittenWellFormed
  <2>2. w.max_len = buf.max_len /\ w.loops = buf.loops /\ (d # <<>> \/ buf.used = 0)
    BY <1>2, <1>5, WrittenTape DEF Appends
  <2> HIDE DEF w
  <2>3. /\ WellFormed(z) /\ TapeOf(z) = <<>> /\ z.head = 0 /\ z.used = 0
        /\ Unread(z) = <<>> /\ z.max_len = buf.max_len /\ z.loops = buf.loops
    BY <2>1, <2>2, ZeroedTape
  <2>4. buf' = Written(z, d, ok2) /\ Returns("zwrite", Len(d), ret, d)
    BY <1>1, <1>5 DEF w
  <2> HIDE DEF z
  <2>5. <<>> \o d = d
    BY <1>2
  <2>6. CASE ret # 0
    <3>1. /\ Appends(z, buf', d) /\ ret = 0 + Len(d)
          /\ d = <<>> \/ z.max_len = 0 \/ 0 + Len(d) <= z.max_len
      BY <1>2, <2>3, <2>4, <2>6, WrittenTape
    <3>2. d # <<>> /\ ret = Len(d) /\ Tape!Fits(d, 0)
      BY <1>2, <2>3, <2>6, <3>1 DEF Tape!Fits
    <3>3. TapeOf(buf') = d /\ buf'.head = 0
      BY <2>3, <2>5, <3>1 DEF Appends
    <3>4. buf'.max_len = buf.max_len /\ buf'.loops = buf.loops
      BY <2>3, <3>1 DEF Appends
    <3>5. Tape!Returns("zwrite", Len(d), Len(d), d)
      BY <2>4, <3>2 DEF Returns, Tape!Returns
    <3> QED BY <1>3, <3>2, <3>3, <3>4, <3>5 DEF Tape!ZWrite, TapeOf
  <2>7. CASE ret = 0
    <3>1. Appends(z, buf', <<>>)
      BY <1>2, <2>3, <2>4, <2>7, WrittenTape
    <3>2. TapeOf(buf') = <<>> /\ buf'.head = 0
      BY <2>3, <3>1, ConcatEmptySeq DEF Appends
    <3>3. buf'.max_len = buf.max_len /\ buf'.loops = buf.loops
      BY <2>3, <3>1 DEF Appends
    <3>4. d # <<>> \/ Tape!Left = <<>>
      <4>1. buf.used = 0 => Unread(buf) = <<>>
        BY TapeProperties
      <4> QED BY <2>2, <4>1, MappedState
    <3>5. Tape!Returns("zwrite", Len(d), 0, d)
      BY <2>4, <2>7 DEF Returns, Tape!Returns
    <3>6. Tape!Empty
      BY <3>2 DEF Tape!Empty, TapeOf
    <3> QED BY <1>3, <3>3, <3>4, <3>5, <3>6 DEF Tape!ZWrite
  <2> QED BY <2>6, <2>7
<1> QED BY <1>4, <1>5

(* A move of head alone, as the calls that consume make it.                *)
LEMMA ConsumeMapped ==
  ASSUME WellFormed(buf), NEW n \in Nat, buf' = Advanced(buf, n)
  PROVE  /\ buf'.head = buf.head + Tape!Cut(n)
         /\ SubSeq(buf'.data, 1, buf'.actually_used) = SubSeq(buf.data, 1, buf.actually_used)
         /\ buf'.max_len = buf.max_len /\ buf'.loops = buf.loops
         /\ buf'.used = Len(TapeOf(buf)) - buf'.head
<1>1. /\ TapeOf(buf') = TapeOf(buf) /\ buf'.head = buf.head + Reading(buf, n)
      /\ buf'.used = buf.used - Reading(buf, n)
      /\ buf'.max_len = buf.max_len /\ buf'.loops = buf.loops
  BY AdvancedTape
<1>2. Tape!Cut(n) = Reading(buf, n) /\ Len(TapeOf(buf)) = buf.head + buf.used
  BY MappedState
<1>3. buf.head \in Nat /\ buf.used \in Nat /\ Reading(buf, n) \in Nat
  BY FieldTypes, AdvancedWellFormed
<1>4. buf'.head = buf.head + Tape!Cut(n)
  BY <1>1, <1>2
<1>5. SubSeq(buf'.data, 1, buf'.actually_used) = SubSeq(buf.data, 1, buf.actually_used)
  BY <1>1 DEF TapeOf
<1>6. buf'.used = Len(TapeOf(buf)) - buf'.head
  BY <1>1, <1>2, <1>3
<1> QED BY <1>1, <1>4, <1>5, <1>6

LEMMA ReadMapped ==
  ASSUME WellFormed(buf), NEW n \in Requests, Read(n)
  PROVE  Tape!Read(n)
<1>1. n \in Nat
  BY CallAssumption
<1>2. Tape!Returns("read", n, Tape!Cut(n), Tape!Taken(n))
  BY <1>1, MappedState DEF Read, Returns, Tape!Returns
<1> QED BY <1>1, <1>2, ConsumeMapped DEF Read, Tape!Read

LEMMA ReadPacketMapped ==
  ASSUME WellFormed(buf), NEW m \in Requests, ReadPacket(m)
  PROVE  Tape!ReadPacket(m)
<1> DEFINE n == Lower(FirstPacketLen(Unread(buf)), m)
<1>1. m \in Nat
  BY CallAssumption
<1>2. n \in Nat
  BY <1>1, TapeProperties, FirstPacketLenType DEF Lower
<1>3. n = IF FirstPacketLen(Tape!Left) <= m THEN FirstPacketLen(Tape!Left) ELSE m
  BY MappedState DEF Lower
<1>4. /\ live /\ UNCHANGED live /\ buf' = Advanced(buf, n)
      /\ Returns("read_packet", m, Reading(buf, n), Delivered(buf, n))
  BY DEF ReadPacket
<1> HIDE DEF n
<1>5. Tape!Returns("read_packet", m, Tape!Cut(n), Tape!Taken(n))
  BY <1>2, <1>4, MappedState DEF Returns, Tape!Returns
<1>6. /\ buf'.head = buf.head + Tape!Cut(n)
      /\ SubSeq(buf'.data, 1, buf'.actually_used) = SubSeq(buf.data, 1, buf.actually_used)
      /\ buf'.max_len = buf.max_len /\ buf'.loops = buf.loops
  BY <1>2, <1>4, ConsumeMapped
<1> QED BY <1>3, <1>4, <1>5, <1>6 DEF Tape!ReadPacket

LEMMA TossMapped ==
  ASSUME WellFormed(buf), NEW n \in Requests, Toss(n)
  PROVE  Tape!Toss(n)
<1>1. n \in Nat
  BY CallAssumption
<1>2. buf'.used = Len(TapeOf(buf)) - buf'.head
  BY <1>1, ConsumeMapped DEF Toss
<1>3. Tape!Returns("toss", n, Len(SubSeq(buf.data, 1, buf.actually_used)) - buf'.head, <<>>)
  BY <1>2 DEF Toss, Returns, Tape!Returns, TapeOf
<1> QED BY <1>1, <1>3, ConsumeMapped DEF Toss, Tape!Toss

LEMMA SeekMapped ==
  ASSUME WellFormed(buf), NEW n \in Requests, Seek(n)
  PROVE  Tape!Seek(n)
<1>1. n \in Nat /\ buf \in Buffer /\ buf.used \in Nat
  BY CallAssumption, FieldTypes
<1>2. Tape!Returns("seek", n, Tape!Cut(n), <<>>)
  BY <1>1, MappedState DEF Seek, Returns, Tape!Returns
<1>3. Tape!Left = <<>> <=> buf.used < 1
  BY <1>1, MappedState, TapeProperties
<1>4. /\ buf'.head = IF buf.used < 1 THEN buf.head ELSE Reading(buf, n)
      /\ buf'.data = buf.data /\ buf'.actually_used = buf.actually_used
      /\ buf'.max_len = buf.max_len /\ buf'.loops = buf.loops
  BY <1>1 DEF Seek, Sought, Buffer
<1>5. buf'.head = IF Tape!Left = <<>> THEN buf.head ELSE Tape!Cut(n)
  BY <1>1, <1>3, <1>4, MappedState
<1> QED BY <1>2, <1>4, <1>5 DEF Seek, Tape!Seek

LEMMA SetLoopsMapped ==
  ASSUME WellFormed(buf), NEW k \in LoopSettings, SetLoops(k)
  PROVE  Tape!SetLoops(k)
<1>1. /\ buf'.loops = k /\ buf'.data = buf.data /\ buf'.head = buf.head
      /\ buf'.actually_used = buf.actually_used /\ buf'.max_len = buf.max_len
  BY FieldTypes DEF SetLoops, Buffer
<1> QED BY <1>1 DEF SetLoops, Tape!SetLoops, Returns, Tape!Returns

LEMMA ZeroMapped ==
  ASSUME WellFormed(buf), Zero
  PROVE  Tape!Zero
<1>1. /\ TapeOf(buf') = <<>> /\ buf'.head = 0
      /\ buf'.max_len = buf.max_len /\ buf'.loops = buf.loops
  BY ZeroedTape DEF Zero
<1>2. Tape!Empty
  BY <1>1 DEF Tape!Empty, TapeOf
<1> QED BY <1>1, <1>2 DEF Zero, Tape!Zero, Returns, Tape!Returns

(* A looping read that wraps delivers the rest of the tape and then its    *)
(* start.                                                                  *)
LEMMA WrappedTape ==
  ASSUME NEW b, WellFormed(b), NEW n \in Nat, Reading(b, n) # n, NEW r, NEW c,
         r = n - Reading(b, n), c = Rewound(Advanced(b, n))
  PROVE  /\ Delivered(b, n) = Unread(b)
         /\ r \in Nat /\ WellFormed(c) /\ TapeOf(c) = TapeOf(b)
         /\ Reading(c, r) = IF r <= Len(TapeOf(b)) THEN r ELSE Len(TapeOf(b))
         /\ Delivered(c, r) = SubSeq(TapeOf(b), 1, Reading(c, r))
         /\ TapeOf(Advanced(c, r)) = TapeOf(b)
         /\ Advanced(c, r).head = Reading(c, r)
         /\ Advanced(c, r).max_len = b.max_len /\ Advanced(c, r).loops = b.loops
         /\ WellFormed(Advanced(c, r))
<1> DEFINE a == Advanced(b, n)
<1>1. b.head \in Nat /\ b.used \in Nat /\ b.actually_used = b.head + b.used
  BY DEF WellFormed, Buffer
<1>2. Reading(b, n) = b.used /\ r \in Nat
  BY <1>1 DEF Reading, Lower
<1>3. /\ WellFormed(a) /\ TapeOf(a) = TapeOf(b)
      /\ a.max_len = b.max_len /\ a.loops = b.loops /\ a.actually_used = b.actually_used
  BY AdvancedWellFormed, AdvancedTape
<1>4. Delivered(b, n) = Unread(b)
  BY <1>2 DEF Delivered, Unread
<1> HIDE DEF a
<1>5. WellFormed(c)
  BY <1>3, MovedWellFormed DEF a
<1>6. /\ c.data = a.data /\ c.head = 0 /\ c.used = a.actually_used
      /\ c.actually_used = a.actually_used /\ c.max_len = a.max_len /\ c.loops = a.loops
  <2>1. c = Rewound(a)
    BY DEF a
  <2>2. a \in Buffer
    BY <1>3, FieldTypes
  <2> QED BY <2>1, <2>2 DEF Rewound, Buffer
<1>7. TapeOf(c) = TapeOf(b)
  BY <1>3, <1>6 DEF TapeOf
<1>8. Reading(c, r) = IF r <= Len(TapeOf(b)) THEN r ELSE Len(TapeOf(b))
  BY <1>3, <1>6, TapeProperties DEF Reading, Lower
<1>9. /\ TapeOf(Advanced(c, r)) = TapeOf(b)
      /\ Advanced(c, r).head = 0 + Reading(c, r)
      /\ Advanced(c, r).max_len = b.max_len /\ Advanced(c, r).loops = b.loops
      /\ WellFormed(Advanced(c, r)) /\ Reading(c, r) \in Nat
  <2>1. /\ TapeOf(Advanced(c, r)) = TapeOf(c)
        /\ Advanced(c, r).head = c.head + Reading(c, r)
        /\ Advanced(c, r).max_len = c.max_len /\ Advanced(c, r).loops = c.loops
    BY <1>2, <1>5, AdvancedTape
  <2>2. WellFormed(Advanced(c, r)) /\ Reading(c, r) \in Nat
    BY <1>2, <1>5, AdvancedWellFormed
  <2> QED BY <1>3, <1>6, <1>7, <2>1, <2>2
<1>10. Delivered(c, r) = SubSeq(TapeOf(b), 0 + 1, 0 + Reading(c, r))
  BY <1>2, <1>5, <1>6, <1>7, TakenIsDelivered
<1> QED BY <1>2, <1>4, <1>5, <1>7, <1>8, <1>9, <1>10

LEMMA ReadLoopMapped ==
  ASSUME WellFormed(buf), NEW n \in Requests, ReadLoop(n)
  PROVE  Tape!ReadLoop(n)
<1> DEFINE r == n - Reading(buf, n)
           c == Rewound(Advanced(buf, n))
           tp == SubSeq(buf.data, 1, buf.actually_used)
           wrap == IF r <= Len(tp) THEN r ELSE Len(tp)
<1>1. n \in Nat /\ live /\ n # 0 /\ buf.loops > LoopFloor /\ UNCHANGED live
  BY CallAssumption DEF ReadLoop
<1>2. /\ Reading(buf, n) \in Nat /\ tp = TapeOf(buf)
      /\ Tape!Cut(n) = Reading(buf, n) /\ Tape!Taken(n) = Delivered(buf, n)
      /\ Tape!Left = Unread(buf)
  BY <1>1, AdvancedWellFormed, MappedState DEF TapeOf
<1>3. r = n - Tape!Cut(n) /\ (r = 0 <=> Reading(buf, n) = n)
  BY <1>1, <1>2
<1>4. CASE Reading(buf, n) = n \/ buf.loops = 0
  <2>1. /\ buf' = Advanced(buf, n)
        /\ Returns("read_loop", n, Reading(buf, n), Delivered(buf, n))
    BY <1>4 DEF ReadLoop
  <2>2. /\ buf'.head = buf.head + Tape!Cut(n)
        /\ SubSeq(buf'.data, 1, buf'.actually_used) = tp
        /\ buf'.max_len = buf.max_len /\ buf'.loops = buf.loops
    BY <1>1, <2>1, ConsumeMapped
  <2>3. Tape!Returns("read_loop", n, Tape!Cut(n), Tape!Taken(n))
    BY <1>2, <2>1 DEF Returns, Tape!Returns
  <2>4. n - Tape!Cut(n) = 0 \/ buf.loops = 0
    BY <1>3, <1>4
  <2> QED BY <1>1, <2>2, <2>3, <2>4 DEF Tape!ReadLoop
<1>5. CASE ~(Reading(buf, n) = n \/ buf.loops = 0)
  <2>1. /\ buf' = [Advanced(c, r) EXCEPT !.loops = @ - 1]
        /\ Returns("read_loop", n, Reading(c, r), Delivered(buf, n) \o Delivered(c, r))
    BY <1>5 DEF ReadLoop
  <2> DEFINE a == Advanced(c, r)
  <2>2. /\ Delivered(buf, n) = Unread(buf)
        /\ Reading(c, r) = wrap
        /\ Delivered(c, r) = SubSeq(tp, 1, wrap)
        /\ TapeOf(a) = tp
        /\ a.head = wrap /\ a.max_len = buf.max_len /\ a.loops = buf.loops
        /\ WellFormed(a)
    <3> DEFINE cc == c
               rr == r
    <3>1. rr = n - Reading(buf, n) /\ cc = Rewound(Advanced(buf, n))
      OBVIOUS
    <3> HIDE DEF cc, rr
    <3>2. /\ Delivered(buf, n) = Unread(buf)
          /\ Reading(cc, rr) = IF rr <= Len(TapeOf(buf)) THEN rr ELSE Len(TapeOf(buf))
          /\ Delivered(cc, rr) = SubSeq(TapeOf(buf), 1, Reading(cc, rr))
          /\ TapeOf(Advanced(cc, rr)) = TapeOf(buf)
          /\ Advanced(cc, rr).head = Reading(cc, rr)
          /\ Advanced(cc, rr).max_len = buf.max_len /\ Advanced(cc, rr).loops = buf.loops
          /\ WellFormed(Advanced(cc, rr))
      BY <1>1, <1>5, <3>1, WrappedTape
    <3> HIDE DEF tp
    <3> QED BY <1>2, <3>2 DEF cc, rr
  <2>3. buf' = [a EXCEPT !.loops = a.loops - 1]
    BY <2>1
  <2> HIDE DEF a, c
  <2>4. /\ buf'.data = a.data /\ buf'.actually_used = a.actually_used /\ buf'.head = a.head
        /\ buf'.max_len = a.max_len /\ buf'.loops = a.loops - 1
    <3>1. a \in Buffer
      BY <2>2, FieldTypes
    <3> QED BY <2>3, <3>1 DEF Buffer
  <2>5. Tape!Returns("read_loop", n, wrap, Tape!Left \o SubSeq(tp, 1, wrap))
    BY <1>2, <2>1, <2>2 DEF Returns, Tape!Returns
  <2>6. /\ SubSeq(buf'.data, 1, buf'.actually_used) = tp /\ buf'.head = wrap
        /\ buf'.max_len = buf.max_len /\ buf'.loops = buf.loops - 1
    BY <2>2, <2>4 DEF TapeOf
  <2>7. ~(n - Tape!Cut(n) = 0 \/ buf.loops = 0)
    BY <1>3, <1>5
  <2> QED BY <1>1, <1>3, <2>5, <2>6, <2>7 DEF Tape!ReadLoop
<1> QED BY <1>4, <1>5

-----------------------------------------------------------------------------
(* The invariant the refinement needs beyond that of the buffer: without a *)
(* buffer there is an empty block.                                         *)
Idle == ~live => buf = Fresh(0)

LEMMA IdleInductive ==
  /\ Init => Idle
  /\ Idle /\ [Next]_vars => Idle'
<1>1. Init => Idle
  BY DEF Init, Idle
<1>2. ASSUME Idle, [Next]_vars PROVE Idle'
  <2>1. CASE live' /\ ~live
    BY <2>1 DEF Idle
  <2>2. CASE UNCHANGED <<live, buf>>
    BY <1>2, <2>2 DEF Idle
  <2>3. CASE Destroy
    BY <2>3 DEF Destroy, Idle
  <2>4. CASE live /\ UNCHANGED live
    BY <2>4 DEF Idle
  <2>5. ASSUME NEW m \in MaxLens, Create(m)
        PROVE  (live' /\ ~live) \/ UNCHANGED <<live, buf>>
    BY <2>5 DEF Create
  <2>6. ASSUME Next
        PROVE  \/ Destroy \/ \E m \in MaxLens : Create(m)
               \/ live /\ UNCHANGED live
    BY <2>6 DEF Next, Zero, Write, ZWrite, Read, ReadPacket, ReadLoop, Toss, Seek, SetLoops
  <2> QED BY <1>2, <2>1, <2>2, <2>3, <2>4, <2>5, <2>6 DEF vars
<1> QED BY <1>1, <1>2

(* Every step of the buffer is a step of the tape of the same name.        *)
LEMMA NextMapped == WellFormed(buf) /\ Idle /\ [Next]_vars => [Tape!Next]_(Tape!vars)
<1> SUFFICES ASSUME WellFormed(buf), Idle, [Next]_vars PROVE [Tape!Next]_(Tape!vars)
  OBVIOUS
<1>1. CASE Destroy
  BY <1>1, DestroyMapped DEF Tape!Next
<1>2. CASE Zero
  BY <1>2, ZeroMapped DEF Tape!Next
<1>3. ASSUME NEW m \in MaxLens, Create(m) PROVE Tape!Next
  BY <1>3, CreateMapped DEF Tape!Next, Idle
<1>4. ASSUME NEW d \in Chunks, Write(d) \/ ZWrite(d) PROVE Tape!Next
  BY <1>4, WriteMapped, ZWriteMapped DEF Tape!Next
<1>5. ASSUME NEW n \in Requests,
             Read(n) \/ ReadPacket(n) \/ ReadLoop(n) \/ Toss(n) \/ Seek(n)
      PROVE  Tape!Next
  BY <1>5, ReadMapped, ReadPacketMapped, ReadLoopMapped, TossMapped, SeekMapped
     DEF Tape!Next
<1>6. ASSUME NEW k \in LoopSettings, SetLoops(k) PROVE Tape!Next
  BY <1>6, SetLoopsMapped DEF Tape!Next
<1>7. CASE UNCHANGED vars
  BY <1>7 DEF vars, Tape!vars
<1> QED BY <1>1, <1>2, <1>3, <1>4, <1>5, <1>6, <1>7 DEF Next

(* The buffer implements the tape, for every size of block, every max_len  *)
(* and every set of byte strings: whatever is written comes out in order,  *)
(* once, whole, and only what the tape of a caller's writes has is ever    *)
(* delivered, through compaction, growth, failed allocations and seeking.  *)
THEOREM ImplementsTape == Spec => TapeSpec
<1>1. Inv => WellFormed(buf)
  BY InvParts
<1>2. Init => Inv /\ Idle /\ Tape!Init
  BY InitInv, IdleInductive, InitMapped
<1>3. Inv /\ Idle /\ [Next]_vars => Inv' /\ Idle'
  BY NextKeepsInv, IdleInductive
<1>4. Inv /\ Idle /\ [Next]_vars => [Tape!Next]_(Tape!vars)
  BY <1>1, NextMapped
<1> QED BY <1>2, <1>3, <1>4, PTL DEF Spec, TapeSpec, Tape!Spec

-----------------------------------------------------------------------------
(* Two facts about buffers with a max_len.                                 *)

(* esl_buffer_freespace never promises room that esl_buffer_write refuses, *)
(* nor hides room it would use, in any reachable state of any buffer.      *)
THEOREM FreespaceIsHonest == Spec => []FreespaceHonest
<1>1. Inv => FreespaceHonest
  <2> SUFFICES ASSUME Inv, buf.max_len # 0, NEW n \in 1 .. SizeMax - buf.used
               PROVE  WriteRefused(buf, n) <=> n > Freespace(buf)
    BY DEF FreespaceHonest
  <2>1. /\ buf.used \in Nat /\ buf.max_len \in Nat /\ buf.datalen \in Nat
        /\ buf.actually_used <= buf.datalen /\ buf.used <= buf.datalen
    BY InvParts DEF WellFormed, Buffer
  <2>2. n \in Nat /\ n > 0 /\ ~(n > SizeMax - buf.used)
    BY <2>1, SizeAssumption
  <2>3. WriteRefused(buf, n) <=> buf.used > buf.max_len \/ n > buf.max_len - buf.used
    <3>1. ~(buf.used > buf.datalen) /\ ~(buf.actually_used > buf.datalen)
      BY InvParts DEF WellFormed, Buffer
    <3> QED BY <2>2, <3>1, Zenon DEF WriteRefused
  <2>4. CASE buf.used >= buf.max_len
    BY <2>1, <2>2, <2>3, <2>4 DEF Freespace
  <2>5. CASE ~(buf.used >= buf.max_len)
    BY <2>1, <2>2, <2>3, <2>5 DEF Freespace
  <2> QED BY <2>4, <2>5
<1> QED BY <1>1, InitInv, NextKeepsInv, PTL DEF Spec

(* The block of a buffer with a max_len has at most this many bytes.       *)
Ceiling(m) == Higher(StartLen, m - 1 + Higher(m, BlockSize))

Contained(b) == b.max_len # 0 => b.datalen <= Ceiling(b.max_len)

(* A call that leaves max_len and the size of the block alone.             *)
LEMMA SameBlock ==
  ASSUME NEW b, NEW c, Contained(b), c.max_len = b.max_len, c.datalen = b.datalen
  PROVE  Contained(c)
BY DEF Contained

(* None of these touches the size of the block.                            *)
LEMMA KeepBlock ==
  ASSUME NEW b, WellFormed(b), NEW n \in Nat, NEW d, NEW k
  PROVE  /\ Advanced(b, n).max_len = b.max_len /\ Advanced(b, n).datalen = b.datalen
         /\ Sought(b, n).max_len = b.max_len /\ Sought(b, n).datalen = b.datalen
         /\ Rewound(b).max_len = b.max_len /\ Rewound(b).datalen = b.datalen
         /\ Zeroed(b).max_len = b.max_len /\ Zeroed(b).datalen = b.datalen
         /\ Compacted(b, n).max_len = b.max_len /\ Compacted(b, n).datalen = b.datalen
         /\ Appended(b, d).max_len = b.max_len /\ Appended(b, d).datalen = b.datalen
         /\ [b EXCEPT !.loops = k].max_len = b.max_len
         /\ [b EXCEPT !.loops = k].datalen = b.datalen
         /\ [b EXCEPT !.head = 0].max_len = b.max_len
         /\ [b EXCEPT !.head = 0].datalen = b.datalen
<1>1. b \in Buffer
  BY FieldTypes
<1>2. /\ Advanced(b, n).max_len = b.max_len /\ Advanced(b, n).datalen = b.datalen
      /\ Sought(b, n).max_len = b.max_len /\ Sought(b, n).datalen = b.datalen
  BY <1>1 DEF Advanced, Sought, Buffer
<1>3. /\ Rewound(b).max_len = b.max_len /\ Rewound(b).datalen = b.datalen
      /\ Zeroed(b).max_len = b.max_len /\ Zeroed(b).datalen = b.datalen
  BY <1>1 DEF Rewound, Zeroed, Buffer
<1>4. Compacted(b, n).max_len = b.max_len /\ Compacted(b, n).datalen = b.datalen
  BY <1>1 DEF Compacted, Buffer
<1>5. Appended(b, d).max_len = b.max_len /\ Appended(b, d).datalen = b.datalen
  BY <1>1 DEF Appended, Buffer
<1>6. /\ [b EXCEPT !.loops = k].max_len = b.max_len
      /\ [b EXCEPT !.loops = k].datalen = b.datalen
      /\ [b EXCEPT !.head = 0].max_len = b.max_len
      /\ [b EXCEPT !.head = 0].datalen = b.datalen
  BY <1>1 DEF Buffer
<1> QED BY <1>2, <1>3, <1>4, <1>5, <1>6

(* A write enlarges the block only while it is shorter than max_len.       *)
LEMMA WrittenContained ==
  ASSUME NEW b, NEW d \in Seq(Byte), NEW ok \in BOOLEAN, WellFormed(b), Contained(b)
  PROVE  /\ Contained(Written(b, d, ok))
         /\ Written(b, d, ok).max_len = b.max_len
<1> DEFINE n == Len(d)
           c == Compacted(b, n)
           g == Grown(c, n)
<1>1. n \in Nat
  OBVIOUS
<1>2. CASE n = 0 \/ WriteRefused(b, n)
  BY <1>2 DEF Written
<1>3. CASE ~(n = 0 \/ WriteRefused(b, n))
  <2>1. /\ WellFormed(c) /\ c.used = b.used
        /\ c.max_len = b.max_len /\ c.datalen = b.datalen
    BY <1>1, <1>3, CompactedWellFormed, KeepBlock
  <2>2. Contained(c)
    BY <2>1, SameBlock
  <2>3. Written(b, d, ok) = IF ~MustGrow(c, n) THEN Appended(c, d)
                            ELSE IF GrowthOverflows(c, n) THEN c
                            ELSE IF ~ok THEN [c EXCEPT !.head = 0]
                            ELSE Appended(g, d)
    BY <1>3 DEF Written
  <2>4. b.max_len # 0 => b.used + n <= b.max_len
    <3>1. b.used \in Nat /\ b.max_len \in Nat
      BY FieldTypes
    <3> QED BY <1>1, <1>3, <3>1 DEF WriteRefused
  <2> HIDE DEF c
  <2>5. c.used \in Nat /\ c.max_len \in Nat /\ c.datalen \in Nat /\ c \in Buffer
    BY <2>1, FieldTypes
  <2>6. ASSUME MustGrow(c, n) PROVE Contained(g) /\ g.max_len = c.max_len
    <3>1. g.max_len = c.max_len /\ g.datalen = c.datalen + Higher(n, BlockSize)
      BY <2>5 DEF Grown, NewSize, Buffer
    <3>2. ASSUME c.max_len # 0 PROVE g.datalen <= Ceiling(c.max_len)
      <4>1. c.datalen < c.max_len /\ n <= c.max_len
        BY <1>1, <2>1, <2>4, <2>5, <2>6, <3>2 DEF MustGrow
      <4>2. Higher(n, BlockSize) <= Higher(c.max_len, BlockSize) /\ Higher(n, BlockSize) \in Nat
        BY <1>1, <2>5, <4>1, SizeAssumption DEF Higher
      <4>3. g.datalen <= c.max_len - 1 + Higher(c.max_len, BlockSize)
        BY <2>5, <3>1, <4>1, <4>2, SizeAssumption DEF Higher
      <4> QED BY <2>5, <3>1, <4>2, <4>3, SizeAssumption DEF Ceiling, Higher
    <3> QED BY <3>1, <3>2 DEF Contained
  <2>7. CASE ~MustGrow(c, n)
    <3>1. Contained(Appended(c, d)) /\ Appended(c, d).max_len = c.max_len
      BY <1>1, <2>1, <2>2, KeepBlock, SameBlock
    <3> QED BY <2>1, <2>3, <2>7, <3>1
  <2>8. CASE MustGrow(c, n) /\ (GrowthOverflows(c, n) \/ ~ok)
    <3>1. /\ Contained([c EXCEPT !.head = 0]) /\ [c EXCEPT !.head = 0].max_len = c.max_len
      BY <1>1, <2>1, <2>2, KeepBlock, SameBlock
    <3> QED BY <2>1, <2>2, <2>3, <2>8, <3>1
  <2>9. CASE MustGrow(c, n) /\ ~GrowthOverflows(c, n) /\ ok
    <3>1. g \in Buffer
      <4>1. c.head = 0
        <5>1. c.actually_used + n <= c.datalen \/ c.head = 0
          BY <1>1, <1>3, CompactedWellFormed DEF c
        <5>2. c.datalen - c.used < n /\ c.head + c.used = c.actually_used
          BY <2>1, <2>9 DEF MustGrow, WellFormed
        <5>3. /\ c.head \in Nat /\ c.used \in Nat /\ c.actually_used \in Nat
              /\ c.datalen \in Nat /\ n \in Nat
          BY <1>1, <2>1, FieldTypes
        <5> QED BY <5>1, <5>2, <5>3
      <4> QED BY <1>1, <2>1, <4>1, GrownWellFormed, FieldTypes
    <3>2. Contained(g) /\ g.max_len = c.max_len
      BY <2>6, <2>9
    <3> HIDE DEF g
    <3>3. Appended(g, d).max_len = g.max_len /\ Appended(g, d).datalen = g.datalen
      BY <3>1 DEF Appended, Buffer
    <3>4. Contained(Appended(g, d))
      BY <3>2, <3>3, SameBlock
    <3> QED BY <2>1, <2>3, <2>9, <3>2, <3>3, <3>4
  <2> QED BY <2>7, <2>8, <2>9
<1> QED BY <1>2, <1>3

LEMMA FreshContained ==
  ASSUME NEW m \in Nat
  PROVE  Contained(Fresh(m))
<1>1. Fresh(m).datalen = StartLen /\ Fresh(m).max_len = m
  BY DEF Fresh
<1>2. StartLen <= Ceiling(m)
  BY SizeAssumption DEF Ceiling, Higher
<1> QED BY <1>1, <1>2 DEF Contained

LEMMA NextContained == WellFormed(buf) /\ Contained(buf) /\ [Next]_vars => Contained(buf')
<1> SUFFICES ASSUME WellFormed(buf), Contained(buf), [Next]_vars PROVE Contained(buf')
  OBVIOUS
<1>1. CASE Destroy
  BY <1>1, FreshContained DEF Destroy
<1>2. CASE Zero
  <2>1. 0 \in Nat
    OBVIOUS
  <2> QED BY <1>2, <2>1, KeepBlock, SameBlock DEF Zero
<1>3. ASSUME NEW m \in MaxLens, Create(m) PROVE Contained(buf')
  <2>1. m \in Nat
    BY SizeAssumption
  <2> QED BY <1>3, <2>1, FreshContained DEF Create
<1>4. ASSUME NEW d \in Chunks, Write(d) PROVE Contained(buf')
  BY <1>4, CallAssumption, WrittenContained DEF Write
<1>5. ASSUME NEW d \in Chunks, ZWrite(d) PROVE Contained(buf')
  <2>1. d \in Seq(Byte) /\ 0 \in Nat
    BY CallAssumption
  <2>2. PICK ok \in BOOLEAN, ok2 \in BOOLEAN :
          \/ buf' = Written(buf, d, ok)
          \/ buf' = Written(Zeroed(Written(buf, d, ok)), d, ok2)
    BY <1>5 DEF ZWrite
  <2> DEFINE w == Written(buf, d, ok)
  <2>3. WellFormed(w) /\ Contained(w)
    BY <2>1, WrittenWellFormed, WrittenContained
  <2> HIDE DEF w
  <2>4. WellFormed(Zeroed(w)) /\ Contained(Zeroed(w))
    BY <2>1, <2>3, MovedWellFormed, KeepBlock, SameBlock
  <2>5. Contained(Written(Zeroed(w), d, ok2))
    BY <2>1, <2>4, WrittenContained
  <2> QED BY <2>2, <2>3, <2>5 DEF w
<1>6. ASSUME NEW n \in Requests, Read(n) \/ Toss(n) \/ Seek(n) PROVE Contained(buf')
  <2>1. n \in Nat
    BY CallAssumption
  <2> QED BY <1>6, <2>1, KeepBlock, SameBlock DEF Read, Toss, Seek
<1>7. ASSUME NEW m \in Requests, ReadPacket(m) PROVE Contained(buf')
  <2> DEFINE n == Lower(FirstPacketLen(Unread(buf)), m)
  <2>1. n \in Nat
    BY CallAssumption, TapeProperties, FirstPacketLenType DEF Lower
  <2>2. buf' = Advanced(buf, n)
    BY <1>7 DEF ReadPacket
  <2> HIDE DEF n
  <2> QED BY <2>1, <2>2, KeepBlock, SameBlock
<1>8. ASSUME NEW n \in Requests, ReadLoop(n) PROVE Contained(buf')
  <2> DEFINE r == n - Reading(buf, n)
             a == Advanced(buf, n)
             c == Rewound(a)
  <2>1. n \in Nat
    BY CallAssumption
  <2>2. /\ WellFormed(a) /\ Contained(a) /\ r \in Nat
    BY <2>1, AdvancedWellFormed, KeepBlock, SameBlock
  <2>3. buf' = a \/ buf' = [Advanced(c, r) EXCEPT !.loops = @ - 1]
    BY <1>8 DEF ReadLoop
  <2> HIDE DEF r, a
  <2>4. WellFormed(c) /\ Contained(c)
    BY <2>1, <2>2, MovedWellFormed, KeepBlock, SameBlock
  <2> HIDE DEF c
  <2> DEFINE e == Advanced(c, r)
  <2>5. WellFormed(e) /\ Contained(e)
    <3>1. WellFormed(e)
      BY <2>2, <2>4, AdvancedWellFormed
    <3> QED BY <2>2, <2>4, <3>1, KeepBlock, SameBlock
  <2>6. buf' = a \/ buf' = [e EXCEPT !.loops = e.loops - 1]
    BY <2>3
  <2> HIDE DEF e
  <2>7. Contained([e EXCEPT !.loops = e.loops - 1])
    <3> DEFINE k == e.loops - 1
    <3> HIDE DEF k
    <3>1. e \in Buffer
      BY <2>5, FieldTypes
    <3>2. /\ [e EXCEPT !.loops = k].max_len = e.max_len
          /\ [e EXCEPT !.loops = k].datalen = e.datalen
      BY <3>1 DEF Buffer
    <3>3. Contained([e EXCEPT !.loops = k])
      BY <2>5, <3>2, SameBlock
    <3> QED BY <3>3 DEF k
  <2> QED BY <2>2, <2>6, <2>7
<1>9. ASSUME NEW k \in LoopSettings, SetLoops(k) PROVE Contained(buf')
  <2>1. 0 \in Nat
    OBVIOUS
  <2> QED BY <1>9, <2>1, KeepBlock, SameBlock DEF SetLoops
<1>10. CASE UNCHANGED vars
  BY <1>10 DEF vars
<1> QED BY <1>1, <1>2, <1>3, <1>4, <1>5, <1>6, <1>7, <1>8, <1>9, <1>10 DEF Next

(* However it is written to, a buffer with a max_len never holds more      *)
(* memory than its first block or one growth from below max_len, although  *)
(* esl_buffer_write enlarges the block by whole blocks and seek can make   *)
(* more than max_len bytes unread again.                                   *)
THEOREM FootprintHolds == Spec => []Footprint
<1>1. Init => Contained(buf)
  BY FreshContained DEF Init
<1>2. Inv /\ Contained(buf) /\ [Next]_vars => Contained(buf)'
  BY NextContained, InvParts
<1>3. Contained(buf) => Footprint
  BY DEF Contained, Footprint, Ceiling
<1> QED BY <1>1, <1>2, <1>3, InitInv, NextKeepsInv, PTL DEF Spec
=============================================================================

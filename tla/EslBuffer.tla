------------------------------ MODULE EslBuffer ------------------------------
(***************************************************************************)
(* The dynamic buffer of src/src/esl_buffer.c, memory included.            *)
(*                                                                         *)
(* buf.data is the allocated block, one cell per byte: a Byte once it was  *)
(* written (or cleared by calloc), Junk after realloc enlarged the block.  *)
(* head is the offset of buffer->head in the block.  Pointers into the     *)
(* block are offsets, so a copy to the wrong place really damages data.    *)
(*                                                                         *)
(* Every public call is one action; the calls the library itself composes  *)
(* (zwrite, read_loop, read_packet) are compositions of the operators of   *)
(* the simple ones.  out is what the last call returned and delivered.     *)
(* Allocation may fail whenever the code allocates.                        *)
(***************************************************************************)
EXTENDS EslPackets

CONSTANTS
  StartLen,      \* start_len, after 0 was replaced by the default
  BlockSize,     \* blocksize, after 0 was replaced by start_len
  MaxLens,       \* bound: the max_len callers ask for, 0 for no limit
  SizeMax,       \* SIZE_MAX
  Junk,          \* content of a cell that realloc did not initialise
  Chunks,        \* bound: the byte strings callers write
  Requests,      \* bound: the lengths callers pass to read, toss and seek
  LoopSettings,  \* bound: the values passed to set_loops
  LoopFloor      \* bound: read_loop is not called when loops is this low

ASSUME SizeAssumption ==
  /\ StartLen \in Nat \ {0} /\ BlockSize \in Nat \ {0}
  /\ SizeMax \in Nat /\ StartLen <= SizeMax
  /\ MaxLens \subseteq 0 .. SizeMax

ASSUME CallAssumption ==
  /\ Junk \notin Byte
  /\ Chunks \subseteq Seq(Byte)
  /\ Requests \subseteq Nat
  /\ LoopSettings \subseteq Int /\ LoopFloor \in Int

VARIABLES live,  \* the caller holds a buffer
          buf,   \* struct esl_buffer
          out    \* the last call: its name, argument, result and bytes

vars == <<live, buf, out>>

Cell == Byte \cup {Junk}

Lower(m, n) == IF m <= n THEN m ELSE n
Higher(m, n) == IF m >= n THEN m ELSE n

Buffer == [data : Seq(Cell), head : Nat, used : Nat, actually_used : Nat,
           datalen : Nat, max_len : Nat, loops : Int]

Call == {"none", "create", "destroy", "write", "zwrite", "read",
         "read_packet", "read_loop", "toss", "seek", "set_loops", "zero"}

Result == [op : Call, arg : Int, ret : Nat, bytes : Seq(Cell)]

Fresh(m) == [data |-> [i \in 1 .. StartLen |-> NUL], head |-> 0, used |-> 0,
             actually_used |-> 0, datalen |-> StartLen, max_len |-> m,
             loops |-> 0]

Unread(b) == SubSeq(b.data, b.head + 1, b.head + b.used)

-----------------------------------------------------------------------------
(* The calls as functions of the buffer.                                   *)

(* "reading" of read, toss and seek: the request, cut to what is unread.   *)
Reading(b, n) == Lower(n, b.used)

Advanced(b, n) ==
  [b EXCEPT !.used = b.used - Reading(b, n), !.head = b.head + Reading(b, n)]

Delivered(b, n) == SubSeq(b.data, b.head + 1, b.head + Reading(b, n))

(* Bug: the bytes in front of head are forgotten.                          *)
SoughtFromHead(b, n) ==
  IF b.used < 1 THEN b
  ELSE [b EXCEPT !.used = b.used - Reading(b, n), !.head = Reading(b, n)]

(* Seek measures the request against the unread length but then counts the *)
(* offset from the start of the block; an exhausted buffer does not move.  *)
Sought(b, n) ==
  IF b.used < 1 THEN b
  ELSE [b EXCEPT !.used = b.actually_used - Reading(b, n),
                 !.head = Reading(b, n)]

(* The reset of a looping read: everything written is unread again.        *)
Rewound(b) == [b EXCEPT !.head = 0, !.used = b.actually_used]

Zeroed(b) == [b EXCEPT !.used = 0, !.actually_used = 0, !.head = 0]

(* What esl_buffer_freespace answers; 1000000 stands for "no limit".       *)
Freespace(b) ==
  IF b.max_len # 0
  THEN (IF b.used >= b.max_len THEN 0 ELSE b.max_len - b.used)
  ELSE 1000000

(* Bug: a write that just fits is refused.                                 *)
WriteRefusedWhenFull(b, n) ==
  \/ b.used > b.datalen \/ b.actually_used > b.datalen
  \/ n > SizeMax - b.used
  \/ b.max_len # 0 /\ n + b.used >= b.max_len

(* The early returns of write, taken before anything is touched.           *)
WriteRefused(b, n) ==
  \/ b.used > b.datalen \/ b.actually_used > b.datalen
  \/ n > SizeMax - b.used
  \/ b.max_len # 0 /\ (b.used > b.max_len \/ n > b.max_len - b.used)

(* Bug: head is reset without moving the unread bytes.                     *)
CompactedInPlace(b, n) ==
  IF b.datalen - b.actually_used < n
  THEN [b EXCEPT !.head = 0, !.actually_used = b.used]
  ELSE b

(* memmove of the unread bytes to the front of the block when the tail of  *)
(* the block is too short.                                                 *)
Compacted(b, n) ==
  IF /\ b.datalen - b.actually_used < n
     /\ b.max_len = 0 \/ b.used + n <= b.max_len
  THEN [b EXCEPT !.data = [i \in 1 .. Len(b.data) |->
                             IF i <= b.used THEN b.data[b.head + i]
                             ELSE b.data[i]],
                 !.head = 0, !.actually_used = b.used]
  ELSE b

MustGrow(b, n) == b.datalen - b.used < n

GrowthOverflows(b, n) ==
  n > SizeMax - b.datalen \/ BlockSize > SizeMax - b.datalen

(* Bug: the block size is added to the length instead of compared with it. *)
NewSizeSum(b, n) == b.datalen + n + BlockSize

NewSize(b, n) == b.datalen + Higher(n, BlockSize)

(* A successful realloc: the old cells are kept, the new ones are junk and *)
(* head is set to the start of the block.                                  *)
Grown(b, n) ==
  [b EXCEPT !.data = [i \in 1 .. NewSize(b, n) |->
                        IF i <= Len(b.data) THEN b.data[i] ELSE Junk],
            !.head = 0, !.datalen = NewSize(b, n)]

(* Bug: the copy starts one byte late.                                     *)
AppendedLate(b, d) ==
  LET at == b.head + b.used + 1
  IN [b EXCEPT !.data = [i \in 1 .. Len(b.data) |->
                           IF i > at /\ i <= at + Len(d) THEN d[i - at]
                           ELSE b.data[i]],
               !.used = b.used + Len(d),
               !.actually_used = b.actually_used + Len(d)]

(* Bug: the last byte is not copied.                                       *)
AppendedShort(b, d) ==
  LET at == b.head + b.used
  IN [b EXCEPT !.data = [i \in 1 .. Len(b.data) |->
                           IF i > at /\ i < at + Len(d) THEN d[i - at]
                           ELSE b.data[i]],
               !.used = b.used + Len(d),
               !.actually_used = b.actually_used + Len(d)]

(* memcpy to head + used.                                                  *)
Appended(b, d) ==
  LET at == b.head + b.used
  IN [b EXCEPT !.data = [i \in 1 .. Len(b.data) |->
                           IF i > at /\ i <= at + Len(d) THEN d[i - at]
                           ELSE b.data[i]],
               !.used = b.used + Len(d),
               !.actually_used = b.actually_used + Len(d)]

(* The buffer esl_buffer_write leaves behind; ok is realloc's outcome.     *)
Written(b, d, ok) ==
  LET c == Compacted(b, Len(d))
  IN CASE Len(d) = 0 \/ WriteRefused(b, Len(d)) -> b
       [] OTHER ->
          IF ~MustGrow(c, Len(d)) THEN Appended(c, d)
          ELSE IF GrowthOverflows(c, Len(d)) THEN c
          ELSE IF ~ok THEN [c EXCEPT !.head = 0]
          ELSE Appended(Grown(c, Len(d)), d)

(* Its result: the unread length after the write, 0 when it was refused.   *)
WriteRet(b, d, ok) ==
  LET c == Compacted(b, Len(d))
  IN IF \/ Len(d) = 0
        \/ /\ ~WriteRefused(b, Len(d))
           /\ MustGrow(c, Len(d)) => ~GrowthOverflows(c, Len(d)) /\ ok
     THEN b.used + Len(d)
     ELSE 0

-----------------------------------------------------------------------------
Returns(op, arg, ret, bytes) ==
  out' = [op |-> op, arg |-> arg, ret |-> ret, bytes |-> bytes]

Init == /\ live = FALSE
        /\ buf = Fresh(0)
        /\ out = [op |-> "none", arg |-> 0, ret |-> 0, bytes |-> <<>>]

(* esl_buffer_create: either calloc may fail.  ret is 1 for ESL_SUCCESS.   *)
Create(m) == /\ ~live
             /\ \/ /\ live' = TRUE /\ buf' = Fresh(m)
                   /\ Returns("create", m, 1, <<>>)
                \/ /\ UNCHANGED <<live, buf>>
                   /\ Returns("create", m, 0, <<>>)

(* Without a buffer buf means nothing; it is the initial one again.        *)
Destroy == /\ live
           /\ live' = FALSE
           /\ buf' = Fresh(0)
           /\ Returns("destroy", 0, 0, <<>>)

Write(d) == /\ live
            /\ \E ok \in BOOLEAN : /\ buf' = Written(buf, d, ok)
                                   /\ Returns("write", Len(d), WriteRet(buf, d, ok), d)
            /\ UNCHANGED live

(* A refused write empties the buffer and is tried again.                  *)
ZWrite(d) ==
  /\ live
  /\ \E ok, ok2 \in BOOLEAN :
       IF WriteRet(buf, d, ok) # 0
       THEN /\ buf' = Written(buf, d, ok)
            /\ Returns("zwrite", Len(d), WriteRet(buf, d, ok), d)
       ELSE LET z == Zeroed(Written(buf, d, ok))
            IN /\ buf' = Written(z, d, ok2)
               /\ Returns("zwrite", Len(d), WriteRet(z, d, ok2), d)
  /\ UNCHANGED live

Read(n) == /\ live
           /\ buf' = Advanced(buf, n)
           /\ Returns("read", n, Reading(buf, n), Delivered(buf, n))
           /\ UNCHANGED live

(* esl_buffer_read_packet reads at most maxlen bytes of the first packet.  *)
ReadPacket(maxlen) ==
  LET n == Lower(FirstPacketLen(Unread(buf)), maxlen)
  IN /\ live
     /\ buf' = Advanced(buf, n)
     /\ Returns("read_packet", maxlen, Reading(buf, n), Delivered(buf, n))
     /\ UNCHANGED live

Toss(n) == /\ live
           /\ buf' = Advanced(buf, n)
           /\ Returns("toss", n, buf'.used, <<>>)
           /\ UNCHANGED live

Seek(n) == /\ live
           /\ buf' = Sought(buf, n)
           /\ Returns("seek", n, Reading(buf, n), <<>>)
           /\ UNCHANGED live

SetLoops(k) == /\ live
               /\ buf' = [buf EXCEPT !.loops = k]
               /\ Returns("set_loops", k, 0, <<>>)
               /\ UNCHANGED live

(* A short read wraps to the start of the block once, and the result is    *)
(* the length of the second read only.                                     *)
ReadLoop(n) ==
  LET first == Reading(buf, n)
      again == Rewound(Advanced(buf, n))
  IN /\ live /\ n # 0
     /\ buf.loops > LoopFloor
     /\ IF first = n \/ buf.loops = 0
        THEN /\ buf' = Advanced(buf, n)
             /\ Returns("read_loop", n, first, Delivered(buf, n))
        ELSE /\ buf' = [Advanced(again, n - first) EXCEPT !.loops = @ - 1]
             /\ Returns("read_loop", n, Reading(again, n - first),
                        Delivered(buf, n) \o Delivered(again, n - first))
     /\ UNCHANGED live

Zero == /\ live
        /\ buf' = Zeroed(buf)
        /\ Returns("zero", 0, 0, <<>>)
        /\ UNCHANGED live

Next == \/ Destroy \/ Zero
        \/ \E m \in MaxLens : Create(m)
        \/ \E d \in Chunks : Write(d) \/ ZWrite(d)
        \/ \E n \in Requests : \/ Read(n) \/ ReadPacket(n) \/ ReadLoop(n)
                               \/ Toss(n) \/ Seek(n)
        \/ \E k \in LoopSettings : SetLoops(k)

Spec == Init /\ [][Next]_vars

-----------------------------------------------------------------------------
(* The type invariant.                                                     *)
TypeOK == /\ live \in BOOLEAN
          /\ buf \in Buffer
          /\ out \in Result

(* The offsets stay inside the block the code believes it owns, and the    *)
(* block it believes it owns is the one it allocated: what esl_buffer_read *)
(* and the memcpy of esl_buffer_write rely on to stay in bounds, through   *)
(* every mixture of seeking, looping, compaction and growth.               *)
Bounds == /\ buf.head + buf.used = buf.actually_used
          /\ buf.actually_used <= buf.datalen
          /\ buf.datalen = Len(buf.data)

(* Rewinding never exposes memory nobody wrote: all of the bytes a seek or *)
(* a looping read can reach were stored by a write.                        *)
Initialised == \A i \in 1 .. buf.actually_used : buf.data[i] \in Byte

(* No call hands uninitialised memory to its caller.                       *)
DeliversWritten == \A i \in 1 .. Len(out.bytes) : out.bytes[i] \in Byte
=============================================================================

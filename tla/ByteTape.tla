------------------------------ MODULE ByteTape ------------------------------
(***************************************************************************)
(* What esl_buffer promises its callers, without memory: a tape of bytes   *)
(* that were written, and a position that splits it into bytes already     *)
(* consumed and bytes still unread.  Writing appends; reading moves the    *)
(* position; seek and the looping read may move it back over consumed      *)
(* bytes, as long as no write has forgotten them.  Writing never loses or  *)
(* reorders an unread byte, whether it succeeds or not.  What the calls    *)
(* return is what the code returns, also where its header says otherwise:  *)
(* see ReadLoop.                                                           *)
(***************************************************************************)
EXTENDS Integers, Sequences

CONSTANTS Byte, Capacities,  \* the capacities asked for, 0 for no limit
          Chunks, Requests, LoopSettings, LoopFloor,
          PacketLen(_)     \* length of the first packet of a byte string

VARIABLES live, tape, pos, capacity, loops, out

vars == <<live, tape, pos, capacity, loops, out>>

Left == SubSeq(tape, pos + 1, Len(tape))

Cut(n) == IF n <= Len(tape) - pos THEN n ELSE Len(tape) - pos

Taken(n) == SubSeq(tape, pos + 1, pos + Cut(n))

Returns(op, arg, ret, bytes) ==
  out' = [op |-> op, arg |-> arg, ret |-> ret, bytes |-> bytes]

Empty == tape' = <<>> /\ pos' = 0

Init == /\ live = FALSE /\ tape = <<>> /\ pos = 0 /\ loops = 0 /\ capacity = 0
        /\ out = [op |-> "none", arg |-> 0, ret |-> 0, bytes |-> <<>>]

Create(m) ==
  /\ ~live
  /\ \/ /\ live' = TRUE /\ capacity' = m
        /\ Returns("create", m, 1, <<>>)
     \/ /\ UNCHANGED <<live, capacity>>
        /\ Returns("create", m, 0, <<>>)
  /\ UNCHANGED <<tape, pos, loops>>

Destroy == /\ live /\ live' = FALSE
           /\ Empty /\ loops' = 0 /\ capacity' = 0
           /\ Returns("destroy", 0, 0, <<>>)

(* d is appended to the tape; the consumed bytes may be forgotten.         *)
Append1(d) == \/ tape' = tape \o d /\ pos' = pos
              \/ tape' = Left \o d /\ pos' = 0

Fits(d, unread) == capacity = 0 \/ unread + Len(d) <= capacity

(* A write is all or nothing.  One that would exceed the capacity must be  *)
(* refused; any other may be, for want of memory.  0 reports a refusal.    *)
Write(d) ==
  /\ live
  /\ \/ /\ d = <<>> \/ Fits(d, Len(Left))
        /\ Append1(d)
        /\ Returns("write", Len(d), Len(Left) + Len(d), d)
     \/ /\ d # <<>>
        /\ Append1(<<>>)
        /\ Returns("write", Len(d), 0, d)
  /\ UNCHANGED <<live, capacity, loops>>

(* As Write, but a refusal discards the whole tape: d replaces it when     *)
(* there is memory for d and is lost with it otherwise.                    *)
ZWrite(d) ==
  /\ live
  /\ \/ /\ Left \o d # <<>>
        /\ d = <<>> \/ Fits(d, Len(Left))
        /\ Append1(d)
        /\ Returns("zwrite", Len(d), Len(Left) + Len(d), d)
     \/ /\ d # <<>> /\ Fits(d, 0)
        /\ tape' = d /\ pos' = 0
        /\ Returns("zwrite", Len(d), Len(d), d)
     \/ /\ d # <<>> \/ Left = <<>>
        /\ Empty
        /\ Returns("zwrite", Len(d), 0, d)
  /\ UNCHANGED <<live, capacity, loops>>

Read(n) == /\ live
           /\ pos' = pos + Cut(n)
           /\ Returns("read", n, Cut(n), Taken(n))
           /\ UNCHANGED <<live, tape, capacity, loops>>

ReadPacket(max) ==
  LET n == IF PacketLen(Left) <= max THEN PacketLen(Left) ELSE max
  IN /\ live
     /\ pos' = pos + Cut(n)
     /\ Returns("read_packet", max, Cut(n), Taken(n))
     /\ UNCHANGED <<live, tape, capacity, loops>>

Toss(n) == /\ live
           /\ pos' = pos + Cut(n)
           /\ Returns("toss", n, Len(tape) - pos', <<>>)
           /\ UNCHANGED <<live, tape, capacity, loops>>

(* Seeking is possible only while something is unread, and no further than *)
(* the number of unread bytes.                                             *)
Seek(n) == /\ live
           /\ pos' = IF Left = <<>> THEN pos ELSE Cut(n)
           /\ Returns("seek", n, Cut(n), <<>>)
           /\ UNCHANGED <<live, tape, capacity, loops>>

SetLoops(k) == /\ live
               /\ loops' = k
               /\ Returns("set_loops", k, 0, <<>>)
               /\ UNCHANGED <<live, tape, pos, capacity>>

(* The tape is read as if its end were joined to its start, once per call. *)
(* A call that got past the end does not return how many bytes it has      *)
(* delivered, only how many of them came from the start.                   *)
ReadLoop(n) ==
  LET rest == n - Cut(n)
      wrap == IF rest <= Len(tape) THEN rest ELSE Len(tape)
  IN /\ live /\ n # 0 /\ loops > LoopFloor
     /\ IF rest = 0 \/ loops = 0
        THEN /\ pos' = pos + Cut(n)
             /\ Returns("read_loop", n, Cut(n), Taken(n))
             /\ UNCHANGED loops
        ELSE /\ pos' = wrap
             /\ loops' = loops - 1
             /\ Returns("read_loop", n, wrap, Left \o SubSeq(tape, 1, wrap))
     /\ UNCHANGED <<live, tape, capacity>>

Zero == /\ live /\ Empty
        /\ Returns("zero", 0, 0, <<>>)
        /\ UNCHANGED <<live, capacity, loops>>

Next == \/ Destroy \/ Zero
        \/ \E m \in Capacities : Create(m)
        \/ \E d \in Chunks : Write(d) \/ ZWrite(d)
        \/ \E n \in Requests : \/ Read(n) \/ ReadPacket(n) \/ ReadLoop(n)
                               \/ Toss(n) \/ Seek(n)
        \/ \E k \in LoopSettings : SetLoops(k)

Spec == Init /\ [][Next]_vars
=============================================================================

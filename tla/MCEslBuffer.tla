---------------------------- MODULE MCEslBuffer ----------------------------
(* Model checking of EslBuffer and of its refinement of ByteTape.          *)
EXTENDS EslBuffer

MCChunks == {<<>>, <<LF>>, <<CR, LF>>, <<LF, CR>>}
MCLoops == {-1}  \* set_loops(-1): "-1 for infinite"
MCLoopFloor == -2

Tape == INSTANCE ByteTape WITH
          Capacities <- MaxLens,
          tape <- SubSeq(buf.data, 1, buf.actually_used),
          pos <- buf.head,
          capacity <- buf.max_len,
          loops <- buf.loops,
          PacketLen <- FirstPacketLen

(* The buffer with its block, its compaction and its growth implements the *)
(* tape: every call returns and delivers what the tape says, and no unread *)
(* byte is lost, duplicated, reordered or replaced by memory junk.         *)
TapeSpec == Tape!Spec

(* "Ammount of data actually read", says the header of each read of what   *)
(* it returns (esl_buffer.h).  A looping read that got past the end        *)
(* returns less.                                                           *)
ReadReturnsLength ==
  out.op \in {"read", "read_packet", "read_loop"} => out.ret = Len(out.bytes)

(* esl_buffer_freespace tells the truth about a limited buffer: a write is *)
(* turned away at the door exactly when it is longer than the free space,  *)
(* even after seek has brought more bytes back than max_len.               *)
FreespaceHonest ==
  buf.max_len # 0 => \A n \in 1 .. SizeMax - buf.used :
                       WriteRefused(buf, n) <=> n > Freespace(buf)

(* The memory a limited buffer can occupy: growth happens only below       *)
(* max_len, by one block or one write, so the block stays under this size. *)
Footprint ==
  buf.max_len # 0 =>
    buf.datalen <= Higher(StartLen,
                          buf.max_len - 1 + Higher(buf.max_len, BlockSize))
=============================================================================

----------------------------- MODULE EslPackets -----------------------------
(***************************************************************************)
(* The packet framing of src/src/esl_buffer.c: where a header block ends   *)
(* in the unread bytes of a buffer.  A block ends with an empty line, LF   *)
(* followed by LF or by CR LF.  A byte string is a sequence over Byte;     *)
(* only the three bytes the scan looks at are told apart.                  *)
(*                                                                         *)
(* FirstPacketLen says what the scan for the first packet finds; ScanLoop  *)
(* and CountLoop are the two C loops step by step.  What the loops compute *)
(* is checked by the run strings and proved in EslStringProofs.            *)
(***************************************************************************)
EXTENDS Integers, Sequences

CONSTANTS Byte,  \* the values of an unsigned char that matter
          NUL, LF, CR

ASSUME ByteAssumption ==
  /\ {NUL, LF, CR} \subseteq Byte
  /\ NUL # LF /\ LF # CR /\ CR # NUL

(* What is left of s when everything in front of its p-th byte is gone.    *)
From(s, p) == SubSeq(s, p, Len(s))

(* pe of the C code, one-based: where the LF that ends the empty line must *)
(* be when the line feed at p is the first half of a terminator.           *)
PairOf(s, p) == IF p < Len(s) /\ s[p + 1] = CR THEN p + 2 ELSE p + 1

(* The line feed at p and the one at PairOf(s, p) enclose an empty line.   *)
TerminatorAt(s, p) ==
  /\ s[p] = LF
  /\ PairOf(s, p) <= Len(s)
  /\ s[PairOf(s, p)] = LF

(* The loop condition "*p && p < e": nothing at or past a NUL is scanned.  *)
Scanned(s) == {p \in 1 .. Len(s) : \A q \in 1 .. p : s[q] # NUL}

Terminators(s) == {p \in Scanned(s) : TerminatorAt(s, p)}

(* Bug: the end of the last packet instead of the first.                   *)
LastTerminator(s) ==
  CHOOSE p \in Terminators(s) : \A q \in Terminators(s) : q <= p

FirstTerminator(s) ==
  CHOOSE p \in Terminators(s) : \A q \in Terminators(s) : p <= q

(* Bug: pe - head counted from the last byte of the header line.           *)
FirstPacketLenShort(s) ==
  IF Terminators(s) = {} THEN 0 ELSE PairOf(s, FirstTerminator(s)) - 2

(* esl_buffer_read_packet's datalen before it is cut to maxlen: pe - head, *)
(* the bytes in front of the LF that ends the empty line.  0 when no       *)
(* complete packet is there.  That LF itself is left unread.               *)
FirstPacketLen(s) ==
  IF Terminators(s) = {} THEN 0 ELSE PairOf(s, FirstTerminator(s)) - 1

-----------------------------------------------------------------------------
(* Bug: a line feed that starts no empty line takes the byte after it      *)
(* along.                                                                  *)
ScanLoopSkipping(s) ==
  LET from[p \in Nat] ==
        IF p > Len(s) \/ s[p] = NUL THEN 0
        ELSE IF s[p] # LF THEN from[p + 1]
        ELSE IF PairOf(s, p) > Len(s) THEN 0
        ELSE IF s[PairOf(s, p)] = LF THEN PairOf(s, p) - 1
        ELSE from[PairOf(s, p) + 1]
  IN from[1]

(* The loop of esl_buffer_read_packet.                                     *)
ScanLoop(s) ==
  LET from[p \in Nat] ==
        IF p > Len(s) \/ s[p] = NUL THEN 0
        ELSE IF s[p] # LF THEN from[p + 1]
        ELSE IF PairOf(s, p) > Len(s) THEN 0
        ELSE IF s[PairOf(s, p)] = LF THEN PairOf(s, p) - 1
        ELSE from[p + 1]
  IN from[1]

(* The loop of esl_buffer_packet_count, which resumes after pe.            *)
CountLoop(s) ==
  LET from[p \in Nat] ==
        IF p > Len(s) \/ s[p] = NUL THEN 0
        ELSE IF s[p] # LF THEN from[p + 1]
        ELSE IF PairOf(s, p) > Len(s) THEN 0
        ELSE IF s[PairOf(s, p)] = LF THEN 1 + from[PairOf(s, p) + 1]
        ELSE from[p + 1]
  IN from[1]
=============================================================================

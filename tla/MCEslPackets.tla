---------------------------- MODULE MCEslPackets ----------------------------
(***************************************************************************)
(* What the packet framing of EslPackets promises of a byte string s that  *)
(* grows.  MCEslStrings lets it grow, and checks strings of other kinds.   *)
(***************************************************************************)
EXTENDS EslPackets

VARIABLES kind,  \* which functions the string is for
          s

vars == <<kind, s>>

(* How often a reader can take a packet out of t when it also takes keep   *)
(* bytes less than the whole packet: 0 for a reader that consumes the      *)
(* terminator, 1 for esl_buffer_read_packet, which leaves its last LF.     *)
Reads(t, keep) ==
  LET drain[k \in 0 .. Len(t)] ==
        LET n == FirstPacketLen(From(t, k + 1))
        IN IF n = 0 THEN 0 ELSE 1 + drain[k + n + 1 - keep]
  IN drain[0]

(* The two loops that look for packets agree.  That of                     *)
(* esl_buffer_read_packet finds the first empty line in front of the first *)
(* NUL, whatever mixture of LF, CR and NUL surrounds it, and               *)
(* esl_buffer_packet_count counts the packets that a reader would see that *)
(* consumed each of them with the whole of its terminator.                 *)
LoopsAgree ==
  kind = "packet" =>
    /\ ScanLoop(s) = FirstPacketLen(s)
    /\ CountLoop(s) = Reads(s, 0)

(* esl_buffer_read_packet leaves the last LF of each packet behind.  Its   *)
(* reader gets every packet that packet_count counted, and the LF left     *)
(* behind can join the next one to make a packet nobody sent: never more   *)
(* than one such packet for each real one.                                 *)
ReadsEveryPacket ==
  kind = "packet" =>
    /\ CountLoop(s) <= Reads(s, 1)
    /\ Reads(s, 1) <= 2 * CountLoop(s)

(* Framing does not depend on how the stream is cut into recv calls: a     *)
(* packet once complete keeps its length whatever arrives after it.        *)
ChunkIndependent ==
  [][kind = "packet" /\ FirstPacketLen(s) # 0
       => FirstPacketLen(s') = FirstPacketLen(s)]_vars
=============================================================================

----------------------------- MODULE MCEslHandle -----------------------------
(***************************************************************************)
(* EslHandle for TLC.                                                      *)
(***************************************************************************)
EXTENDS EslHandle, TLC

(* Who calls what: everyone everything; requests only; or one thread       *)
(* disconnects and the others receive.                                     *)
MCAllCalls == [t \in Thread |-> AllOps]
MCRequests == [t \in Thread |-> Requests]
MCUntimed == [t \in Thread |-> {"send_recv"}]
MCTimed == [t \in Thread |-> {"send_recv_timed"}]
MCOneDisconnects ==
  LET one == CHOOSE t \in Thread : TRUE
  IN [t \in Thread |-> IF t = one THEN {"disconnect"} ELSE {"recv"}]

(* An event without a body, whose content type is not its first header.    *)
MCPlainEvent == <<"event">>

(* An event as the server sends it: its content length is its first header *)
(* and is lost, so that its body becomes a packet of its own.              *)
MCEventWithBody == <<"event", "none">>

(* Threads make the same calls: any permutation of them is a symmetry of   *)
(* the specification and of its invariants.                                *)
MCSymmetry == Permutations(Thread)
=============================================================================

--------------------------- MODULE MCEslLifecycle ---------------------------
(* EslLifecycle for TLC.                                                   *)
EXTENDS EslLifecycle, TLC

(* sock of a handle that its owner initialised with ESL_SOCK_INVALID.      *)
MCInvalid == INVALID

(* Handles are alike: any permutation of them is a symmetry of the         *)
(* specification and of its invariants.                                    *)
MCSymmetry == Permutations(Handle)
=============================================================================

---------------------------- MODULE MCMergeLaws ----------------------------
(***************************************************************************)
(* Small instances of the distributed layer for TLC: three runtimes, so    *)
(* that an event may reach the third through the second, and three events, *)
(* so that one may be in conflict with two that are not with each other.   *)
(* MaxSeq and MaxEmitted are the only bounds.                              *)
(***************************************************************************)
EXTENDS MergeLaws

=============================================================================

----------------------------- MODULE MCEventBus -----------------------------
(***************************************************************************)
(* Small instances of EventBus for TLC: two buses with a tracer on one,    *)
(* callbacks that subscribe, unsubscribe, publish and raise.  Until a      *)
(* tracer is attached the buses are alike.                                 *)
(***************************************************************************)
EXTENDS EventBus, TLC

Buses == Permutations(Bus)

=============================================================================

---------------------------- MODULE MCStateStore ----------------------------
(***************************************************************************)
(* Small instances of StateStore for TLC: two keys, two values, None among *)
(* the values or not, a store that starts empty or filled.                 *)
(***************************************************************************)
EXTENDS StateStore

CONSTANTS k1, k2, v1, v2

EmptyOrFilled == {NoKeys, [k \in {k1} |-> v1]}

=============================================================================

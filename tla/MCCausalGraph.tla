--------------------------- MODULE MCCausalGraph ---------------------------
(***************************************************************************)
(* Small instances of CausalGraph for TLC: an event, a condition and an    *)
(* action with every edge set over them, cycles and loops included.        *)
(***************************************************************************)
EXTENDS CausalGraph

CONSTANTS e1, c1, a1

AllEdges == Node \X Node

=============================================================================

--------------------------- MODULE MCRealityLayers --------------------------
(***************************************************************************)
(* One layer of each kind, on a stack of up to three, in any order and any *)
(* number of times.                                                        *)
(***************************************************************************)
EXTENDS RealityLayers

CONSTANT MaxCalls   \* bound: events, allocations and units of time together

\* Events, allocations and clocks touch different variables: a run that has
\* much of all three at once shows nothing new.
Budget ==
    SumOverLayers(injected) + SumOverLayers([l \in DeterministicLayer |->
        Len(allocs[l]) + clock[l]]) + now <= MaxCalls
=============================================================================

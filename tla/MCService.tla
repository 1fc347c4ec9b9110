------------------------------ MODULE MCService ------------------------------
(***************************************************************************)
(* Instances of the control plane for TLC.                                 *)
(***************************************************************************)
EXTENDS ServiceProperties, TLC

CONSTANTS r1, r2, main, c1, c2

MCRequests  == {r1, r2}
MCConfigs   == {c1, c2}
MCProcs     == MCRequests \cup {main}

\* The requests of a run are interchangeable, and so are its configurations.
Symmetry == Permutations(MCRequests) \cup Permutations(MCConfigs)
=============================================================================

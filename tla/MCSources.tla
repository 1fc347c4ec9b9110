------------------------------ MODULE MCSources ------------------------------
(***************************************************************************)
(* Instances of mounts, nbdkit plugin and source files for TLC.            *)
(***************************************************************************)
EXTENDS SourceAccess, TLC

CONSTANTS m1, nfs1, nfs2, t1, t2, kernel, nbdsh, p, q

MCPointOf == (p :> m1) @@ (q :> m1)

\* Everything but the numbers of the descriptors is interchangeable.
Symmetry ==
    Permutations(Shares) \cup Permutations(Compilers)
        \cup Permutations(Conns) \cup Permutations(Paths)
=============================================================================

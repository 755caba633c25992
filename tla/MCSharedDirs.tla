---------------------------- MODULE MCSharedDirs ----------------------------
(***************************************************************************)
(* Bounded instances of SharedDirs.                                        *)
(***************************************************************************)
EXTENDS SharedDirs, TLC

Symmetry == Permutations(Procs) \cup Permutations(Versions)
=============================================================================

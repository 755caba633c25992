----------------------------- MODULE MCStartup -----------------------------
(***************************************************************************)
(* Bounded instances of Startup.                                           *)
(***************************************************************************)
EXTENDS Startup, TLC

RunSymmetry == Permutations(Runs) \cup Permutations(Threads)
=============================================================================

---------------------------- MODULE MCSelfHeal ----------------------------
(***************************************************************************)
(* Bounded instances of SelfHeal for TLC.                                  *)
(***************************************************************************)
EXTENDS SelfHealRefinement, TLC

(* Versions only label backup directories here, and contents are only       *)
(* compared, so both may be permuted.                                       *)
Symmetry == Permutations(Versions) \cup Permutations(Contents)
=============================================================================

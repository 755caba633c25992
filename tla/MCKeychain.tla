---------------------------- MODULE MCKeychain ----------------------------
(***************************************************************************)
(* Bounded instances of Keychain.                                          *)
(***************************************************************************)
EXTENDS KeychainRefinement

CONSTANTS c1, c2

MCCallers == {c1, c2}
MCMaxCalls == [c \in MCCallers |-> IF c = c1 THEN 1 ELSE 2]
=============================================================================

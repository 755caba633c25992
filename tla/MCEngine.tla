------------------------------ MODULE MCEngine ------------------------------
(***************************************************************************)
(* Bounded instances of Engine: three releases, each with its own build,   *)
(* and other bytes a server may send.                                      *)
(***************************************************************************)
EXTENDS Engine, TLC

CONSTANTS exe, r1, r2, r3, b1, b2, b3, other

MCBuild == (r1 :> b1) @@ (r2 :> b2) @@ (r3 :> b3)
InOrder == (r1 :> 1) @@ (r2 :> 2) @@ (r3 :> 3)

(* Releases such as 1.8.0, 1.9.0 and 1.10.0: the third string sorts first.  *)
TenAfterNine == (r1 :> 2) @@ (r2 :> 3) @@ (r3 :> 1)

(* The first two releases only.                                             *)
TwoBuilds == (r1 :> b1) @@ (r2 :> b2)
TwoInOrder == (r1 :> 1) @@ (r2 :> 2)
=============================================================================

------------------------- MODULE SelfHealRefinement -------------------------
(***************************************************************************)
(* The step-by-step engine seen through RestorePoint.  The installation is *)
(* the content of the directory the snapshot reads; a version is saved     *)
(* while its manifest is sealed; a rollback has settled on an image once   *)
(* it has loaded that manifest, and puts it into the working directory,    *)
(* which may be the same directory or another one.                         *)
(***************************************************************************)
EXTENDS SelfHeal

Settled == pc \in {"restore", "stage", "swap"} \cup CountPCs

Promise == INSTANCE RestorePoint WITH
    Labels       <- Versions,
    Parts        <- Files,
    Values       <- Contents \cup {NoFile},
    Places       <- Dirs,
    Source       <- AppDir,
    Target       <- RestoreDir,
    Nothing      <- NoFile,
    Threshold    <- BlacklistThreshold,
    ListReadable <- "blacklist_read" \notin Faults,
    content      <- tree,
    saved        <- [v \in Versions |-> IF seal[v] \in Manifests THEN seal[v] ELSE NoFile],
    label        <- IF Settled THEN ver ELSE NoFile,
    image        <- IF Settled THEN man ELSE NoFile,
    confirmed    <- successes,
    banned       <- blacklist

(* rollback.rs:278 and 358: a live file only ever becomes what the host     *)
(* installs while no rollback runs or, in one step and in the working       *)
(* directory, what it is in the image the rollback loaded at its start; a   *)
(* saved image is always a whole installation that was current; success is  *)
(* logged, and a version banned after three of them, only with the whole    *)
(* image in place there.  Crashes, failed calls and damaged backups         *)
(* included; nothing is promised of the directory the snapshot was read     *)
(* from, nor of files restored before a refusal.                            *)
KeepsPromise == Promise!Spec
=============================================================================

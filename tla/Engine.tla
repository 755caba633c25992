------------------------------- MODULE Engine -------------------------------
(***************************************************************************)
(* The C API of src/src/lib.rs, which composes the downloader, the         *)
(* self-heal store and the host application around them.                   *)
(*                                                                         *)
(* SelfHeal is extended (its variables are this process's disk and its     *)
(* running take_snapshot or rollback); Downloader is instantiated.  The    *)
(* host calls one function at a time, as synqro.h:289 asks, installs what  *)
(* was staged when it likes, and restarts.  The publisher moves from one   *)
(* release to another.                                                     *)
(***************************************************************************)
EXTENDS SelfHeal, Integers

CONSTANTS
    Exe,          \* the one file synqro_apply_update snapshots
    Build,        \* [Versions -> Contents]: the binary of each release
    ReleaseRank,  \* [Versions -> Nat]: semantic version order
    LexRank,      \* [Versions -> Nat]: order of the strings v<version>
    FirstVersion, \* what is installed at the start
    PublishDown,  \* whether an older manifest may be served after a newer one
    MaxRetries,
    NotASig,
    NoOffer,
    NetFaults,    \* Downloader!Faults
    MaxNetFaults

VARIABLES
    (* the downloader of the running call *)
    step, retry, offer, body, temp, final, failures, degraded, result, upsets,
    (* the engine and its surroundings *)
    engine,      \* ENGINE: "unset" until synqro_init stores it
    phase,       \* where the running API call stands
    published,   \* the release the manifest describes
    lastSnap,    \* history: what the last completed take_snapshot saved
    lastApply,   \* history: the last apply_update that returned Ok
    outcome      \* how the last apply or rollback call ended

selfHealVars == <<live, store, books, trail, call, faults>>
downloader == <<step, retry, offer, body, temp, final, failures, degraded, result, upsets>>
host == <<engine, published>>
history == <<lastSnap, lastApply>>
engineVars == <<selfHealVars, downloader, host, phase, history, outcome>>

(* Every release is genuine: signed, fresh and for this installation.       *)
Manifest(v) ==
    [age |-> 60, signed |-> TRUE, iid |-> "absent", version |-> v,
     artifact |-> [sha256 |-> Build[v], sha512 |-> Build[v], sig |-> Build[v]]]

D == INSTANCE Downloader WITH
    Payloads    <- Contents,
    SizeOf      <- [c \in Contents |-> 1],
    MaxPayload  <- 1,
    Replies     <- {Manifest(v) : v \in Versions},
    Reuse       <- FALSE,
    Faults      <- NetFaults,
    MaxFaults   <- MaxNetFaults,
    MaxFailures <- 2 * MaxRetries + 4

ASSUME EngineConstants ==
    /\ Files = {Exe}
    /\ Build \in [Versions -> Contents]
    /\ ReleaseRank \in [Versions -> Nat] /\ LexRank \in [Versions -> Nat]
    /\ \A v, w \in Versions : v # w => ReleaseRank[v] # ReleaseRank[w]
                                       /\ LexRank[v] # LexRank[w]
    /\ FirstVersion \in Versions
    /\ PublishDown \in BOOLEAN
    /\ MaxRetries \in Nat /\ MaxNetFaults \in Nat
    /\ NotASig \notin Contents
    /\ \A v \in Versions : Manifest(v) # NoOffer

NoRecord == [version |-> NoFile, before |-> NoFile]
Records == [version : Versions, before : Contents]

Phases == {"none", "check", "fetch", "snapshot", "download", "rollback"}

EngineTypeOK ==
    /\ TypeOK
    /\ D!TypeOK
    /\ engine \in {"unset", "set"}
    /\ phase \in Phases
    /\ published \in Versions
    /\ lastSnap \in Records \cup {NoRecord}
    /\ lastApply \in Records \cup {NoRecord}
    /\ outcome \in {"none", "error", "applied", "rolled_back"}

EngineInit ==
    /\ Init
    /\ tree[AppDir][Exe] = Build[FirstVersion]
    /\ D!Init
    /\ engine = "unset" /\ phase = "none"
    /\ published = FirstVersion
    /\ lastSnap = NoRecord /\ lastApply = NoRecord
    /\ outcome = "none"

Idle == phase = "none" /\ engine = "set"

(* lib.rs:225, 260: each call starts with a downloader of its own.          *)
FreshDownloader ==
    /\ step' = "ready" /\ retry' = 0 /\ body' = NoFile
    /\ offer' = NoOffer /\ result' = "none"
    /\ failures' = 0 /\ degraded' = FALSE
    /\ UNCHANGED <<temp, final, upsets>>

Leave(how) == phase' = "none" /\ outcome' = how

-----------------------------------------------------------------------------
(* synqro_init: once the engine is stored a further call changes nothing.   *)
SynqroInit ==
    /\ engine = "unset"
    /\ engine' = "set"
    /\ UNCHANGED <<selfHealVars, downloader, phase, published, history, outcome>>

(* synqro_check_update: one verified fetch, whose version nobody compares.  *)
CheckUpdate ==
    /\ Idle
    /\ FreshDownloader
    /\ phase' = "check"
    /\ UNCHANGED <<selfHealVars, host, history, outcome>>

CheckEnd ==
    /\ phase = "check" /\ step = "ready" /\ result # "none"
    /\ phase' = "none"
    /\ UNCHANGED <<selfHealVars, downloader, host, history, outcome>>

-----------------------------------------------------------------------------
(* synqro_apply_update                                                      *)

ApplyUpdate ==
    /\ Idle
    /\ FreshDownloader
    /\ phase' = "fetch"
    /\ outcome' = "none"
    /\ UNCHANGED <<selfHealVars, host, history>>

(* The manifest of the published release arrives, or the fetch goes wrong.  *)
FetchStep ==
    /\ phase \in {"check", "fetch"}
    /\ D!Fetch
    /\ offer' \in {NoOffer, Manifest(published)}
    /\ UNCHANGED <<selfHealVars, host, phase, history, outcome>>

FetchFailed ==
    /\ phase = "fetch" /\ step = "ready" /\ result \in {"error", "degraded"}
    /\ Leave("error")
    /\ UNCHANGED <<selfHealVars, downloader, host, history>>

(* The staging directory cannot be created, or the path of the running      *)
(* executable is unknown: nothing has been saved yet.                       *)
PrepareFailed ==
    /\ Fault("io")
    /\ phase = "fetch" /\ step = "ready" /\ result = "fetched"
    /\ Leave("error")
    /\ UNCHANGED <<live, store, books, trail, call, downloader, host, history>>

(* Mutation of ApplySnapshot: an existing backup directory is good enough.  *)
ApplySnapshotOnce ==
    /\ phase = "fetch" /\ step = "ready" /\ result = "fetched"
    /\ \/ /\ offer.version \notin dirs
          /\ BeginSnapshot(offer.version)
          /\ phase' = "snapshot"
       \/ /\ offer.version \in dirs
          /\ phase' = "download"
          /\ UNCHANGED selfHealVars
    /\ UNCHANGED <<downloader, host, history, outcome>>

(* lib.rs:290: the snapshot of the running executable is filed under the    *)
(* version that is about to replace it.                                     *)
ApplySnapshot ==
    /\ phase = "fetch" /\ step = "ready" /\ result = "fetched"
    /\ BeginSnapshot(offer.version)
    /\ phase' = "snapshot"
    /\ UNCHANGED <<downloader, host, history, outcome>>

SnapshotStep ==
    /\ phase = "snapshot"
    /\ CopyOpen(Exe) \/ CopyClose \/ SealOpen
    /\ UNCHANGED <<downloader, host, phase, history, outcome>>

(* Mutation of SnapshotDone: the version is read when the call is over.     *)
SnapshotDoneLate ==
    /\ phase = "snapshot"
    /\ SealClose
    /\ lastSnap' = [version |-> ver', before |-> man[Exe]]
    /\ phase' = "download"
    /\ UNCHANGED <<downloader, host, lastApply, outcome>>

SnapshotDone ==
    /\ phase = "snapshot"
    /\ lastSnap' = [version |-> ver, before |-> man[Exe]]
    /\ SealClose
    /\ phase' = "download"
    /\ UNCHANGED <<downloader, host, lastApply, outcome>>

SnapshotFailed ==
    /\ phase = "snapshot"
    /\ CopyRefuse(Exe) \/ IoError
    /\ Leave("error")
    /\ UNCHANGED <<downloader, host, history>>

DownloadStep ==
    /\ phase = "download"
    /\ D!Download
    /\ UNCHANGED <<selfHealVars, host, phase, history, outcome>>

DownloadFailed ==
    /\ phase = "download" /\ step = "ready" /\ result \in {"error", "degraded"}
    /\ Leave("error")
    /\ UNCHANGED <<selfHealVars, downloader, host, history>>

(* Mutation of UpdateApplied: the version is the one published by now.      *)
PublishedApplied ==
    /\ phase = "download" /\ result = "staged"
    /\ lastApply' = [version |-> published, before |-> tree[AppDir][Exe]]
    /\ Leave("applied")
    /\ UNCHANGED <<selfHealVars, downloader, host, lastSnap>>

(* UPDATE_APPLIED is logged, the watchdog is started or not, and the call   *)
(* returns Ok.  The staged file stays where it is.                          *)
UpdateApplied ==
    /\ phase = "download" /\ result = "staged"
    /\ lastApply' = [version |-> offer.version, before |-> tree[AppDir][Exe]]
    /\ Leave("applied")
    /\ UNCHANGED <<selfHealVars, downloader, host, lastSnap>>

(* The audit log cannot be written: the error is all the caller sees.       *)
UpdateUnlogged ==
    /\ Fault("io")
    /\ phase = "download" /\ result = "staged"
    /\ Leave("error")
    /\ UNCHANGED <<live, store, books, trail, call, downloader, host, history>>

-----------------------------------------------------------------------------
(* synqro_rollback                                                          *)

(* Mutation of IsMostRecent: ascending order.                               *)
IsLeastRecent(v) == v \in dirs /\ \A w \in dirs : LexRank[w] >= LexRank[v]

(* most_recent_backup_version: the backup directory whose name is greatest  *)
(* as a string.                                                             *)
IsMostRecent(v) == v \in dirs /\ \A w \in dirs : LexRank[w] <= LexRank[v]

SynqroRollback ==
    /\ Idle
    /\ \E v \in Versions : IsMostRecent(v) /\ BeginRollback(v)
    /\ phase' = "rollback"
    /\ outcome' = "none"
    /\ UNCHANGED <<downloader, host, history>>

(* There is no backup, or ROLLBACK_TRIGGERED cannot be logged.              *)
RollbackNotStarted ==
    /\ Idle
    /\ \/ dirs = {} /\ UNCHANGED faults
       \/ Fault("io")
    /\ outcome' = "error"
    /\ UNCHANGED <<live, store, books, trail, call, downloader, host, phase, history>>

RollbackStep ==
    /\ phase = "rollback"
    /\ \/ Load \/ Verify(Exe) \/ Stage \/ Swap \/ LogSuccess
       \/ Count \/ BlacklistVersion \/ BlacklistReadError \/ BlacklistLog
    /\ UNCHANGED <<downloader, host, phase, history, outcome>>

RollbackOk ==
    /\ phase = "rollback"
    /\ ReturnOk
    /\ Leave("rolled_back")
    /\ UNCHANGED <<downloader, host, history>>

RollbackErr ==
    /\ phase = "rollback"
    /\ LoadRefuse \/ VerifyRefuse(Exe) \/ IoError
    /\ Leave("error")
    /\ UNCHANGED <<downloader, host, history>>

-----------------------------------------------------------------------------
(* The host, the publisher and the machine                                  *)

(* The host puts the staged artifact in place and restarts.                 *)
HostInstall ==
    /\ phase = "none" /\ outcome = "applied"
    /\ final # NoFile
    /\ tree' = [tree EXCEPT ![AppDir][Exe] = final]
    /\ engine' = "unset"
    /\ outcome' = "none"
    /\ FreshDownloader
    /\ UNCHANGED <<tmp, store, books, trail, call, faults,
                   phase, published, history>>

(* The host unlinked the executable this process was started from.          *)
HostUnlink ==
    /\ phase = "none"
    /\ tree[AppDir][Exe] # NoFile
    /\ Fault("io")
    /\ tree' = [tree EXCEPT ![AppDir][Exe] = NoFile]
    /\ UNCHANGED <<tmp, store, books, trail, call, downloader,
                   host, phase, history, outcome>>

Publish(v) ==
    /\ v # published
    /\ ~PublishDown => ReleaseRank[v] > ReleaseRank[published]
    /\ published' = v
    /\ UNCHANGED <<selfHealVars, downloader, engine, phase, history, outcome>>

(* The process stops in the middle of a call; the host starts it again.     *)
ProcessCrash ==
    /\ Fault("crash")
    /\ phase # "none"
    /\ Return
    /\ FreshDownloader
    /\ engine' = "unset"
    /\ Leave("none")
    /\ UNCHANGED <<live, store, books, trail, published, history>>

EngineSteps ==
    \/ CheckEnd \/ FetchStep \/ FetchFailed \/ PrepareFailed
    \/ ApplySnapshot \/ SnapshotStep \/ SnapshotDone \/ SnapshotFailed
    \/ DownloadStep \/ DownloadFailed \/ UpdateApplied \/ UpdateUnlogged
    \/ RollbackStep \/ RollbackOk \/ RollbackErr

EngineNext ==
    \/ SynqroInit \/ CheckUpdate \/ ApplyUpdate \/ SynqroRollback \/ RollbackNotStarted
    \/ EngineSteps
    \/ HostInstall \/ HostUnlink \/ ProcessCrash
    \/ \E v \in Versions : Publish(v)

EngineSpec == EngineInit /\ [][EngineNext]_engineVars

-----------------------------------------------------------------------------
(* Properties                                                               *)

Restores(v) == seal[v] \in Manifests /\ backup[v] = seal[v]

(* lib.rs:271, "rollback safety net": when apply_update has returned Ok,    *)
(* a rollback called next picks an intact snapshot of exactly what was      *)
(* installed when the update was applied, crashes before it included.       *)
AppliedIsReversible ==
    phase = "none" /\ outcome = "applied" =>
        \E v \in Versions :
            /\ IsMostRecent(v)
            /\ Restores(v)
            /\ seal[v][Exe] = lastApply.before

(* synqro.h:304: rollback restores the snapshot taken by the most recent    *)
(* apply_update, of those that completed it.                                *)
RestoresLatestSnapshot ==
    phase = "rollback" /\ pc \in CountPCs => man[Exe] = lastSnap.before

(* The file the host installs after an apply_update that returned Ok is the *)
(* build of the version that call logged as applied.                        *)
AppliedIsStaged ==
    phase = "none" /\ outcome = "applied" => final = Build[lastApply.version]

(* From the server through the staging directory, the host, the snapshots   *)
(* and back by a rollback: whatever is at the path of the executable, or    *)
(* where a rollback puts one, is the build of a release, however calls fail *)
(* and processes stop.                                                      *)
InstalledIsGenuine ==
    \A d \in Dirs : tree[d][Exe] \in {Build[v] : v \in Versions} \cup {NoFile}

(* synqro.h:312: after a rollback that returned Ok the version that was     *)
(* installed before the last applied update is active again.                *)
RollbackActivatesPrevious ==
    outcome = "rolled_back" /\ lastApply # NoRecord =>
        tree[AppDir][Exe] = lastApply.before

(* synqro.h:303-304, rollback restores the snapshot the most recent         *)
(* apply_update created: after a rollback that returned Ok the executable   *)
(* is what that snapshot saved.  Not kept by the code when the process runs *)
(* in another directory (rollback.rs:358).                                  *)
RollbackRestoresExecutable ==
    outcome = "rolled_back" => tree[AppDir][Exe] = lastSnap.before

(* synqro.h:309, the precondition of rollback is that a valid backup exists *)
(* in the cache: a manifest is refused only when none does.  Not kept by    *)
(* the code, which also picks a directory without one (lib.rs:361).         *)
ValidBackupSuffices ==
    [][ phase = "rollback" /\ LoadRefuse => \A v \in Versions : ~Restores(v) ]_engineVars
=============================================================================

------------------------------ MODULE SelfHeal ------------------------------
(***************************************************************************)
(* The self-heal engine of src/src/rollback.rs: the snapshot taken before  *)
(* an update, the rollback that restores it, the rollback counters and the *)
(* version blacklist, as they live on disk.                                *)
(*                                                                         *)
(* The granularity is one durable effect per step: truncating a file and   *)
(* completing the write are two steps (fs::write is not atomic), a rename  *)
(* is one.  The environment may stop the process between any two steps,    *)
(* fail an I/O call or damage a backup, as far as Faults and MaxFaults     *)
(* allow.  What a process wrote survives it: the machine does not lose     *)
(* power.                                                                  *)
(*                                                                         *)
(* A file's bytes are abstract values; since SHA-256 is taken to be        *)
(* collision free, the hash recorded for a file is the value itself, and   *)
(* a snapshot manifest is the function from file to recorded value.        *)
(***************************************************************************)
EXTENDS Naturals

CONSTANTS
    Versions,    \* version strings naming backup directories v<version>
    Files,       \* names of the files a snapshot covers (target_paths)
    Contents,    \* what a complete file can hold
    NoFile,      \* no such file, version or manifest
    Torn,        \* a file truncated, half written or damaged: its hash is no
                 \* recorded one
    BadMac,      \* a snapshot.json that parses but whose HMAC does not match
    Dirs,        \* directories a file can live in
    AppDir,      \* the directory the snapshot reads the targets from
    RestoreDir,  \* the working directory, which rollback restores into
    Faults,      \* the kinds of fault the environment may produce
    MaxFaults,   \* bound: faults in one behaviour
    MaxCount     \* bound: rollbacks of one version (the code's u32)

FaultKinds == {"crash", "io", "rot", "blacklist_read"}
BlacklistThreshold == 3

ASSUME SelfHealConstants ==
    /\ AppDir \in Dirs /\ RestoreDir \in Dirs
    /\ Faults \subseteq FaultKinds
    /\ MaxFaults \in Nat
    /\ MaxCount \in Nat

ASSUME DistinctMarkers ==
    /\ {NoFile, Torn, BadMac} \cap (Contents \cup Versions \cup Files) = {}
    /\ NoFile # Torn /\ NoFile # BadMac /\ Torn # BadMac
    /\ {NoFile, Torn, BadMac} \cap [Files -> Contents] = {}

VARIABLES
    tree,       \* [Dirs -> [Files -> ...]]: the live files
    tmp,        \* [Files -> ...]: the .synqro_restore.tmp next to each file
    dirs,       \* versions whose backup directory exists
    backup,     \* [Versions -> [Files -> ...]]: the copies in v<version>/
    seal,       \* [Versions -> ...]: v<version>/snapshot.json
    rewritten,  \* history: sealed versions whose copies a later take_snapshot
                \* began to overwrite and did not seal again
    counters,   \* [Versions -> Nat]: rollback_counters.json
    blacklist,  \* SUBSET Versions: blacklist.json
    successes,  \* [Versions -> Nat]: ROLLBACK_SUCCESS entries in the audit log
    alarms,     \* SUBSET Versions: versions a BACKUP_TAMPERED entry names
    okCount,    \* [Versions -> Nat]: rollback() calls that returned Ok
    pc,         \* where the running call stands
    ver,        \* its version argument
    man,        \* the manifest it is building or has loaded
    todo,       \* the files it has still to process
    cur,        \* the file it is processing
    faults      \* faults so far

live == <<tree, tmp>>
store == <<dirs, backup, seal, rewritten>>
books == <<counters, blacklist>>
trail == <<successes, alarms, okCount>>
call == <<pc, ver, man, todo, cur>>
vars == <<live, store, books, trail, call, faults>>

Manifests == [Files -> Contents]
NoManifest == [f \in Files |-> NoFile]

SnapshotPCs == {"snapshot", "copy", "seal"}
RestorePCs == {"load", "restore", "stage", "swap"}
CountPCs == {"count", "blacklist", "blacklist_log", "return"}
PCs == {"idle"} \cup SnapshotPCs \cup RestorePCs \cup CountPCs

TypeOK ==
    /\ tree \in [Dirs -> [Files -> Contents \cup {NoFile, Torn}]]
    /\ tmp \in [Files -> Contents \cup {NoFile, Torn}]
    /\ dirs \subseteq Versions
    /\ backup \in [Versions -> [Files -> Contents \cup {NoFile, Torn}]]
    /\ seal \in [Versions -> Manifests \cup {NoFile, Torn, BadMac}]
    /\ rewritten \subseteq Versions
    /\ counters \in [Versions -> Nat]
    /\ blacklist \subseteq Versions
    /\ successes \in [Versions -> Nat]
    /\ alarms \subseteq Versions
    /\ okCount \in [Versions -> Nat]
    /\ pc \in PCs
    /\ ver \in Versions \cup {NoFile}
    /\ man \in [Files -> Contents \cup {NoFile}]
    /\ todo \subseteq Files
    /\ cur \in Files \cup {NoFile}
    /\ faults \in 0..MaxFaults

-----------------------------------------------------------------------------
(* Installation: some complete version of every file, no backups.           *)
Init ==
    /\ \E m \in [Files -> Contents] :
          tree = [d \in Dirs |-> IF d = AppDir THEN m ELSE NoManifest]
    /\ tmp = NoManifest
    /\ dirs = {}
    /\ backup = [v \in Versions |-> NoManifest]
    /\ seal = [v \in Versions |-> NoFile]
    /\ rewritten = {}
    /\ counters = [v \in Versions |-> 0]
    /\ blacklist = {}
    /\ successes = [v \in Versions |-> 0]
    /\ alarms = {}
    /\ okCount = [v \in Versions |-> 0]
    /\ pc = "idle" /\ ver = NoFile /\ man = NoManifest
    /\ todo = {} /\ cur = NoFile
    /\ faults = 0

(* The call is over, whatever its result: its locals are gone.              *)
Return ==
    /\ pc' = "idle" /\ ver' = NoFile /\ man' = NoManifest
    /\ todo' = {} /\ cur' = NoFile

Goto(step) == pc' = step /\ UNCHANGED <<ver, man, todo, cur>>

-----------------------------------------------------------------------------
(* take_snapshot(version, target_paths, backup_dir, hmac_key)               *)

BeginSnapshot(v) ==
    /\ pc = "idle"
    /\ dirs' = dirs \cup {v}
    /\ pc' = "snapshot" /\ ver' = v /\ todo' = Files
    /\ UNCHANGED <<man, cur, live, backup, seal, rewritten, books, trail, faults>>

(* Read and hash one target, then truncate its old copy in the backup.      *)
CopyOpen(f) ==
    /\ pc = "snapshot" /\ f \in todo
    /\ tree[AppDir][f] \in Contents
    /\ man' = [man EXCEPT ![f] = tree[AppDir][f]]
    /\ backup' = [backup EXCEPT ![ver][f] = Torn]
    /\ rewritten' = IF seal[ver] \in Manifests THEN rewritten \cup {ver} ELSE rewritten
    /\ pc' = "copy" /\ cur' = f
    /\ UNCHANGED <<ver, todo, live, dirs, seal, books, trail, faults>>

(* A target that cannot be canonicalised ends the call with an error.       *)
CopyRefuse(f) ==
    /\ pc = "snapshot" /\ f \in todo
    /\ tree[AppDir][f] = NoFile
    /\ Return
    /\ UNCHANGED <<live, store, books, trail, faults>>

(* Mutation of CopyClose: a failed fs::write of a copy is ignored.          *)
CopyCloseUnchecked ==
    /\ pc = "copy"
    /\ \E got \in {man[cur], Torn} : backup' = [backup EXCEPT ![ver][cur] = got]
    /\ todo' = todo \ {cur}
    /\ pc' = "snapshot" /\ cur' = NoFile
    /\ UNCHANGED <<ver, man, live, dirs, seal, rewritten, books, trail, faults>>

CopyClose ==
    /\ pc = "copy"
    /\ backup' = [backup EXCEPT ![ver][cur] = man[cur]]
    /\ todo' = todo \ {cur}
    /\ pc' = "snapshot" /\ cur' = NoFile
    /\ UNCHANGED <<ver, man, live, dirs, seal, rewritten, books, trail, faults>>

(* Mutation of SealOpen: snapshot.json is written before the last copy.     *)
SealOpenEarly ==
    /\ pc = "snapshot"
    /\ seal' = [seal EXCEPT ![ver] = Torn]
    /\ Goto("seal")
    /\ UNCHANGED <<live, dirs, backup, rewritten, books, trail, faults>>

SealOpen ==
    /\ pc = "snapshot" /\ todo = {}
    /\ seal' = [seal EXCEPT ![ver] = Torn]
    /\ Goto("seal")
    /\ UNCHANGED <<live, dirs, backup, rewritten, books, trail, faults>>

SealClose ==
    /\ pc = "seal"
    /\ seal' = [seal EXCEPT ![ver] = man]
    /\ rewritten' = rewritten \ {ver}
    /\ Return
    /\ UNCHANGED <<live, dirs, backup, books, trail, faults>>

-----------------------------------------------------------------------------
(* rollback(version, backup_dir, hmac_key, audit)                           *)

BeginRollback(v) ==
    /\ pc = "idle"
    /\ successes[v] < MaxCount
    /\ pc' = "load" /\ ver' = v
    /\ UNCHANGED <<man, todo, cur, live, store, books, trail, faults>>

(* Step 1: read snapshot.json and check its HMAC.                           *)
Load ==
    /\ pc = "load"
    /\ seal[ver] \in Manifests
    /\ man' = seal[ver]
    /\ todo' = Files
    /\ pc' = "restore"
    /\ UNCHANGED <<ver, cur, live, store, books, trail, faults>>

(* Mutation of LoadRefuse: an unreadable snapshot.json is an alarm too.     *)
LoadRefuseLoudly ==
    /\ pc = "load"
    /\ seal[ver] \notin Manifests
    /\ alarms' = IF seal[ver] = NoFile THEN alarms ELSE alarms \cup {ver}
    /\ Return
    /\ UNCHANGED <<live, store, books, successes, okCount, faults>>

LoadRefuse ==
    /\ pc = "load"
    /\ seal[ver] \notin Manifests
    /\ alarms' = IF seal[ver] = BadMac THEN alarms \cup {ver} ELSE alarms
    /\ Return
    /\ UNCHANGED <<live, store, books, successes, okCount, faults>>

(* Mutation of Verify: the copy is written straight over the live file.     *)
VerifyInPlace(f) ==
    /\ pc = "restore" /\ f \in todo
    /\ backup[ver][f] = man[f]
    /\ tree' = [tree EXCEPT ![RestoreDir][f] = Torn]
    /\ pc' = "stage" /\ cur' = f
    /\ UNCHANGED <<ver, man, todo, tmp, store, books, trail, faults>>

(* Step 2 for one file: the copy matches the recorded hash; the temp file   *)
(* next to the destination is created and the write begins.                 *)
Verify(f) ==
    /\ pc = "restore" /\ f \in todo
    /\ backup[ver][f] = man[f]
    /\ tmp' = [tmp EXCEPT ![f] = Torn]
    /\ pc' = "stage" /\ cur' = f
    /\ UNCHANGED <<ver, man, todo, tree, store, books, trail, faults>>

VerifyRefuse(f) ==
    /\ pc = "restore" /\ f \in todo
    /\ backup[ver][f] # man[f]
    /\ alarms' = IF backup[ver][f] = NoFile THEN alarms ELSE alarms \cup {ver}
    /\ Return
    /\ UNCHANGED <<live, store, books, successes, okCount, faults>>

(* Mutation of Stage: the backup is read again instead of the bytes that    *)
(* were verified.                                                           *)
StageReread ==
    /\ pc = "stage"
    /\ tmp' = [tmp EXCEPT ![cur] = backup[ver][cur]]
    /\ Goto("swap")
    /\ UNCHANGED <<tree, store, books, trail, faults>>

(* The temp file is complete and has its permissions.                       *)
Stage ==
    /\ pc = "stage"
    /\ tmp' = [tmp EXCEPT ![cur] = man[cur]]
    /\ Goto("swap")
    /\ UNCHANGED <<tree, store, books, trail, faults>>

(* Step 3 for one file: rename the temp file over the destination.          *)
Swap ==
    /\ pc = "swap"
    /\ tree' = [tree EXCEPT ![RestoreDir][cur] = tmp[cur]]
    /\ tmp' = [tmp EXCEPT ![cur] = NoFile]
    /\ todo' = todo \ {cur}
    /\ pc' = "restore" /\ cur' = NoFile
    /\ UNCHANGED <<ver, man, store, books, trail, faults>>

(* Step 4: ROLLBACK_SUCCESS is logged once every file is in place.          *)
LogSuccess ==
    /\ pc = "restore" /\ todo = {}
    /\ successes' = [successes EXCEPT ![ver] = @ + 1]
    /\ Goto("count")
    /\ UNCHANGED <<live, store, books, alarms, okCount, faults>>

(* Mutation of AtThreshold: more than three rollbacks instead of three.     *)
PastThreshold(count) == count > BlacklistThreshold

(* Mutation of AtThreshold: the third rollback only, never a later one.     *)
ExactlyThreshold(count) == count = BlacklistThreshold

(* Mutation of AtThreshold: two rollbacks are enough.                       *)
NearThreshold(count) == count + 1 >= BlacklistThreshold

AtThreshold(count) == count >= BlacklistThreshold

(* Step 5: the rollback is counted, in a file replaced by a synced temp     *)
(* file and a rename; the third one goes on to blacklist.                   *)
Count ==
    /\ pc = "count"
    /\ counters' = [counters EXCEPT ![ver] = @ + 1]
    /\ \/ AtThreshold(counters'[ver]) /\ Goto("blacklist")
       \/ ~AtThreshold(counters'[ver]) /\ Goto("return")
    /\ UNCHANGED <<live, store, blacklist, trail, faults>>

(* What load_blacklist_raw(..).unwrap_or_default() gives blacklist_version: *)
(* the list, or the empty list when the file cannot be read or verified.    *)
AddToBlacklist(loaded) ==
    /\ pc = "blacklist"
    /\ blacklist' = loaded \cup {ver}
    /\ Goto("blacklist_log")
    /\ UNCHANGED <<live, store, counters, trail>>

BlacklistVersion ==
    /\ AddToBlacklist(blacklist)
    /\ UNCHANGED faults

(* VERSION_BLACKLISTED is logged.                                           *)
BlacklistLog ==
    /\ pc = "blacklist_log"
    /\ Goto("return")
    /\ UNCHANGED <<live, store, books, trail, faults>>

ReturnOk ==
    /\ pc = "return"
    /\ okCount' = [okCount EXCEPT ![ver] = @ + 1]
    /\ Return
    /\ UNCHANGED <<live, store, books, successes, alarms, faults>>

-----------------------------------------------------------------------------
(* The environment                                                          *)

Fault(kind) ==
    /\ kind \in Faults
    /\ faults < MaxFaults
    /\ faults' = faults + 1

(* A system call of the running call fails and the call returns Err.  Only  *)
(* a failed rename removes its temp file; permissions that cannot be set    *)
(* leave a complete one.                                                    *)
IoError ==
    /\ Fault("io")
    /\ pc \notin {"idle", "return"}
    /\ CASE pc = "swap"  -> tmp' = [tmp EXCEPT ![cur] = NoFile]
         [] pc = "stage" -> \E left \in {Torn, man[cur]} :
                               tmp' = [tmp EXCEPT ![cur] = left]
         [] OTHER        -> tmp' = tmp
    /\ Return
    /\ UNCHANGED <<tree, store, books, trail>>

BlacklistReadError ==
    /\ Fault("blacklist_read")
    /\ AddToBlacklist({})

(* The process stops; what it wrote stays.                                  *)
Crash ==
    /\ Fault("crash")
    /\ pc # "idle"
    /\ Return
    /\ UNCHANGED <<live, store, books, trail>>

(* A backup file or a snapshot.json is damaged on disk.                     *)
Rot(v) ==
    /\ Fault("rot")
    /\ \/ \E f \in Files :
             /\ backup[v][f] # NoFile
             /\ backup' = [backup EXCEPT ![v][f] = Torn]
             /\ UNCHANGED seal
       \/ \E bad \in {Torn, BadMac} :
             /\ seal[v] \in Manifests
             /\ seal' = [seal EXCEPT ![v] = bad]
             /\ UNCHANGED backup
    /\ UNCHANGED <<live, dirs, rewritten, books, trail, call>>

(* The host installs new files: the engine itself never swaps a download    *)
(* into place (src/src/lib.rs leaves it in the staging directory).  A file  *)
(* the host unlinked, such as the executable a running process was started  *)
(* from, is NoFile at the path the engine knows.                            *)
Deploy ==
    /\ pc = "idle"
    /\ \E m \in [Files -> Contents \cup {NoFile}] :
          tree' = [tree EXCEPT ![AppDir] = m]
    /\ UNCHANGED <<tmp, store, books, trail, call, faults>>

-----------------------------------------------------------------------------
TakeSnapshot ==
    \/ \E v \in Versions : BeginSnapshot(v)
    \/ \E f \in Files : CopyOpen(f) \/ CopyRefuse(f)
    \/ CopyClose \/ SealOpen \/ SealClose

Rollback ==
    \/ \E v \in Versions : BeginRollback(v)
    \/ Load \/ LoadRefuse
    \/ \E f \in Files : Verify(f) \/ VerifyRefuse(f)
    \/ Stage \/ Swap \/ LogSuccess \/ Count \/ BlacklistVersion \/ BlacklistLog
    \/ ReturnOk

Environment ==
    \/ IoError \/ BlacklistReadError \/ Crash \/ Deploy
    \/ \E v \in Versions : Rot(v)

Next == TakeSnapshot \/ Rollback \/ Environment

Spec == Init /\ [][Next]_vars

-----------------------------------------------------------------------------
(* Properties                                                               *)

(* No live file is ever seen half written: whatever a crash or a failed     *)
(* call interrupts, rollback replaces a file by a rename (rollback.rs:375). *)
LiveFilesWhole == \A d \in Dirs, f \in Files : tree[d][f] # Torn

(* Once rollback has logged ROLLBACK_SUCCESS, and until it returns, every   *)
(* file of the snapshot holds the bytes its manifest recorded, even if the  *)
(* backup was damaged while the files were being restored.                  *)
SuccessMeansRestored ==
    pc \in CountPCs => /\ man \in Manifests
                       /\ tree[RestoreDir] = man

(* A snapshot that was completed stays restorable through crashes and       *)
(* failed calls, if nothing damages it: the copies are complete before      *)
(* snapshot.json names them.  A version that is being snapshotted again, or *)
(* whose repeated snapshot was interrupted, is excepted: rollback.rs:186    *)
(* writes over the copies the old manifest still names.                     *)
SealedSnapshotKept ==
    "rot" \notin Faults =>
        \A v \in Versions \ rewritten : seal[v] \in Manifests => backup[v] = seal[v]

(* When nothing damages a backup, BACKUP_TAMPERED is logged only of a       *)
(* version whose repeated snapshot was interrupted: neither a first         *)
(* snapshot that was interrupted, nor a repeated one that was completed,    *)
(* nor a rollback that failed half way ever raises it.                      *)
AlarmsAreReal ==
    [][ "rot" \notin Faults => alarms' \subseteq alarms \cup rewritten ]_vars

(* audit.rs:70, BACKUP_TAMPERED is possible tampering: an undamaged backup  *)
(* never raises it.  Not kept by the code: see AlarmsAreReal.               *)
AlarmMeansDamage == "rot" \notin Faults => alarms = {}

(* rollback.rs:278-283, the files are verified (step 2) before any is       *)
(* restored (step 3): a rollback refused for a copy that does not match its *)
(* hash has restored nothing.  Not kept by the code: with two files the     *)
(* first may be in place when the second is refused.                        *)
RefusedBeforeRestoring ==
    [][ (\E f \in Files : VerifyRefuse(f)) => todo = Files ]_vars

(* Three rollbacks of a version that were reported as done put it on the    *)
(* blacklist, through any crash or failed call in between.                  *)
OkRollbacksBlacklist ==
    "blacklist_read" \notin Faults =>
        \A v \in Versions :
            okCount[v] >= BlacklistThreshold => v \in blacklist

(* rollback.rs:17, three rollbacks blacklist a version, as far as it holds  *)
(* of the audit log: each fault hides at most one logged rollback from the  *)
(* blacklist, wherever between log, counter and list it strikes.            *)
FaultsHideOneRollbackEach ==
    pc = "idle" /\ "blacklist_read" \notin Faults =>
        \A v \in Versions \ blacklist : successes[v] < BlacklistThreshold + faults

(* No version is blacklisted before the audit log holds three               *)
(* ROLLBACK_SUCCESS entries for it.                                         *)
BlacklistJustified ==
    \A v \in blacklist : successes[v] >= BlacklistThreshold

(* rollback.rs:17, a version is blacklisted permanently: the list never     *)
(* loses one.  Not kept by the code, which takes a list it cannot read for  *)
(* an empty one (rollback.rs:443).                                          *)
BlacklistPermanent == [][ blacklist \subseteq blacklist' ]_vars
=============================================================================

------------------------ MODULE SelfHealSafetyProofs ------------------------
(***************************************************************************)
(* The safety properties of SelfHeal, proved for any versions, files,      *)
(* contents, directories and faults.                                       *)
(***************************************************************************)
EXTENDS SelfHealProofs, SelfHealRefinement

(* Between the rename of a file and the return of the call the restored     *)
(* files stay as the manifest says.                                         *)
RestoreInv ==
    /\ pc \in CopiedPCs => \A f \in Files \ todo : tree[RestoreDir][f] = man[f]
    /\ pc = "swap" => tmp[cur] = man[cur]
    /\ pc \in CountPCs => tree[RestoreDir] = man

(* A rollback is counted between its audit entry and its Ok, and a version  *)
(* at the threshold is on the list before its caller is told.               *)
BooksInv ==
    /\ \A v \in Versions : okCount[v] <= counters[v] /\ counters[v] <= successes[v]
    /\ pc = "count" => counters[ver] < successes[ver]
    /\ pc \in CountPCs \ {"count"} => okCount[ver] < counters[ver]
    /\ pc \in {"blacklist", "blacklist_log"} => counters[ver] >= BlacklistThreshold
    /\ pc \in {"blacklist_log", "return"} /\ counters[ver] >= BlacklistThreshold
           => ver \in blacklist
    /\ \A v \in blacklist : counters[v] >= BlacklistThreshold

(* What a count says of the rollbacks that did not reach the list.          *)
BelowThreshold(count) == IF count < BlacklistThreshold THEN count ELSE BlacklistThreshold - 1

(* A logged rollback of a version that is not listed was counted below the  *)
(* threshold, was hidden by a fault, or is about to be counted or listed.   *)
HiddenInv ==
    "blacklist_read" \notin Faults =>
        \A v \in Versions \ blacklist :
            successes[v] <= faults + BelowThreshold(counters[v])
                            + (IF ver = v /\ pc \in {"count", "blacklist"} THEN 1 ELSE 0)

(* The copies made so far are the recorded ones; a sealed version whose     *)
(* copies are being overwritten is on record as rewritten; and a rollback   *)
(* works from the manifest that is still sealed.                            *)
CopyInv ==
    "rot" \notin Faults =>
        /\ pc \in {"snapshot", "copy", "seal"} =>
               \A f \in Files \ todo : backup[ver][f] = man[f]
        /\ pc = "copy" /\ seal[ver] \in Manifests => ver \in rewritten
        /\ pc = "seal" => todo = {} /\ seal[ver] \notin Manifests
        /\ pc \in CopiedPCs => seal[ver] = man
        /\ \A v \in Versions : seal[v] # BadMac

-----------------------------------------------------------------------------
(* Nothing is being restored at first.                                     *)
LEMMA RestoreStart == Init => RestoreInv
BY DEF Init, RestoreInv, CopiedPCs, CountPCs

(* What was restored stays restored while the call runs.                    *)
LEMMA RestoreKept == TypeInv /\ RestoreInv /\ [Next]_vars => RestoreInv'
<1> SUFFICES ASSUME TypeInv, RestoreInv, [Next]_vars PROVE RestoreInv'
  OBVIOUS
<1> USE DEF TypeInv, TypeOK, CallInv, RestoreInv, CopiedPCs, CountPCs,
            live, store, books, trail, call
<1>1. CASE TakeSnapshot
  BY <1>1 DEF TakeSnapshot, BeginSnapshot, CopyOpen, CopyRefuse, CopyClose,
              SealOpen, SealClose, Goto, Return
<1>2. CASE Rollback
  <2>1. ASSUME NEW v \in Versions, BeginRollback(v) PROVE RestoreInv'
    BY <2>1 DEF BeginRollback
  <2>2. CASE Load \/ LoadRefuse
    BY <2>2 DEF Load, LoadRefuse, Return
  <2>3. ASSUME NEW f \in Files, Verify(f) \/ VerifyRefuse(f) PROVE RestoreInv'
    BY <2>3 DEF Verify, VerifyRefuse, Return
  <2>4. CASE Stage
    BY <2>4 DEF Stage, Goto
  <2>5. CASE Swap
    <3>1. /\ tree' = [tree EXCEPT ![RestoreDir][cur] = man[cur]]
          /\ todo' = todo \ {cur} /\ pc' = "restore" /\ man' = man
      BY <2>5 DEF Swap
    <3>2. \A f \in Files \ todo' : tree'[RestoreDir][f] = man[f]
      BY <2>5, <3>1, SelfHealConstants DEF Swap
    <3>3. QED
      BY <3>1, <3>2
  <2>6. CASE LogSuccess
    <3>1. \A f \in Files : tree[RestoreDir][f] = man[f]
      BY <2>6 DEF LogSuccess
    <3>2. tree[RestoreDir] = man
      BY <3>1, <2>6, SelfHealConstants DEF LogSuccess
    <3>3. QED
      BY <2>6, <3>2 DEF LogSuccess, Goto
  <2>7. CASE Count \/ BlacklistVersion \/ BlacklistLog \/ ReturnOk
    BY <2>7 DEF Count, BlacklistVersion, AddToBlacklist, BlacklistLog, ReturnOk, Return, Goto
  <2>8. QED
    BY <1>2, <2>1, <2>2, <2>3, <2>4, <2>5, <2>6, <2>7 DEF Rollback
<1>3. CASE Environment
  <2>1. CASE IoError \/ Crash
    BY <2>1 DEF IoError, Crash, Return
  <2>2. CASE BlacklistReadError
    BY <2>2 DEF BlacklistReadError, AddToBlacklist, Goto
  <2>3. ASSUME NEW v \in Versions, Rot(v) PROVE RestoreInv'
    BY <2>3 DEF Rot
  <2>4. CASE Deploy
    BY <2>4 DEF Deploy
  <2>5. QED
    BY <1>3, <2>1, <2>2, <2>3, <2>4 DEF Environment
<1>4. CASE UNCHANGED vars
  BY <1>4 DEF vars
<1>5. QED
  BY <1>1, <1>2, <1>3, <1>4 DEF Next

(* From the audit entry to the return everything is restored.               *)
LEMMA RestoredFromInv == TypeInv /\ RestoreInv => SuccessMeansRestored
BY DEF TypeInv, CallInv, RestoreInv, SuccessMeansRestored

(* rollback.rs:403-428: ROLLBACK_SUCCESS is logged only when every restored *)
(* file holds what the manifest recorded.                                   *)
THEOREM RollbackRestores == Spec => []SuccessMeansRestored
BY RestoredFromInv, RestoreStart, RestoreKept, SelfHealType, PTL DEF Spec

-----------------------------------------------------------------------------
(* The bookkeeping invariant of rollback.rs:403-425.                        *)
LEMMA BooksKept == TypeInv /\ BooksInv /\ [Next]_vars => BooksInv'
<1> SUFFICES ASSUME TypeInv, BooksInv, [Next]_vars PROVE BooksInv'
  OBVIOUS
<1> USE DEF TypeInv, TypeOK, CallInv, BooksInv, BlacklistThreshold, CountPCs,
            live, store, books, trail, call
<1>1. CASE TakeSnapshot
  BY <1>1 DEF TakeSnapshot, BeginSnapshot, CopyOpen, CopyRefuse, CopyClose,
              SealOpen, SealClose, Goto, Return
<1>2. CASE Rollback
  <2>1. CASE \/ \E v \in Versions : BeginRollback(v)
             \/ Load \/ LoadRefuse \/ Stage \/ Swap
             \/ \E f \in Files : Verify(f) \/ VerifyRefuse(f)
    BY <2>1 DEF BeginRollback, Load, LoadRefuse, Stage, Swap, Verify, VerifyRefuse, Goto, Return
  <2>2. CASE LogSuccess
    BY <2>2 DEF LogSuccess, Goto
  <2>3. CASE Count
    <3>1. ver \in Versions /\ counters[ver] \in Nat /\ okCount[ver] \in Nat
      BY <2>3 DEF Count
    <3>2. counters'[ver] = counters[ver] + 1
      BY <2>3, <3>1 DEF Count
    <3>3. CASE AtThreshold(counters'[ver])
      BY <2>3, <3>1, <3>2, <3>3 DEF Count, AtThreshold, Goto
    <3>4. CASE ~AtThreshold(counters'[ver])
      BY <2>3, <3>1, <3>2, <3>4 DEF Count, AtThreshold, Goto
    <3>5. QED
      BY <3>3, <3>4
  <2>4. CASE BlacklistVersion \/ BlacklistLog
    BY <2>4 DEF BlacklistVersion, AddToBlacklist, BlacklistLog, Goto
  <2>5. CASE ReturnOk
    BY <2>5 DEF ReturnOk, Return
  <2>6. QED
    BY <1>2, <2>1, <2>2, <2>3, <2>4, <2>5 DEF Rollback
<1>3. CASE Environment
  <2>1. CASE IoError \/ Crash
    BY <2>1 DEF IoError, Crash, Return
  <2>2. CASE BlacklistReadError
    BY <2>2 DEF BlacklistReadError, AddToBlacklist, Goto
  <2>3. CASE (\E v \in Versions : Rot(v)) \/ Deploy
    BY <2>3 DEF Rot, Deploy
  <2>4. QED
    BY <1>3, <2>1, <2>2, <2>3 DEF Environment
<1>4. CASE UNCHANGED vars
  BY <1>4 DEF vars
<1>5. QED
  BY <1>1, <1>2, <1>3, <1>4 DEF Next

(* At first nothing has been counted.                                       *)
LEMMA BooksStart == Init => BooksInv
BY DEF Init, BooksInv, CountPCs

(* A listed version was counted three times, and logged as often.           *)
LEMMA JustifiedFromInv == TypeInv /\ BooksInv => BlacklistJustified
<1> SUFFICES ASSUME TypeInv, BooksInv, NEW v \in blacklist
             PROVE  successes[v] >= BlacklistThreshold
  BY DEF BlacklistJustified
<1>1. v \in Versions /\ counters[v] \in Nat /\ successes[v] \in Nat
  BY DEF TypeInv, TypeOK
<1>2. counters[v] >= BlacklistThreshold /\ counters[v] <= successes[v]
  BY <1>1 DEF BooksInv
<1>3. QED
  BY <1>1, <1>2 DEF BlacklistThreshold

(* No version is blacklisted for fewer than three completed rollbacks.      *)
THEOREM BlacklistIsJustified == Spec => []BlacklistJustified
BY JustifiedFromInv, BooksStart, BooksKept, SelfHealType, PTL DEF Spec

(* No call has returned Ok at first.                                        *)
LEMMA OksStart == Init => OkRollbacksBlacklist
BY DEF Init, OkRollbacksBlacklist, BlacklistThreshold

(* The third Ok of a version finds it on the list, and it stays there.      *)
LEMMA OksKept ==
    TypeInv /\ BooksInv /\ OkRollbacksBlacklist /\ [Next]_vars => OkRollbacksBlacklist'
<1> SUFFICES ASSUME TypeInv, BooksInv, OkRollbacksBlacklist, [Next]_vars,
                    "blacklist_read" \notin Faults,
                    NEW v \in Versions, okCount'[v] >= BlacklistThreshold
             PROVE  v \in blacklist'
  BY DEF OkRollbacksBlacklist
<1> USE DEF TypeInv, TypeOK, CallInv, BooksInv, OkRollbacksBlacklist, BlacklistThreshold,
            live, store, books, trail, call
<1>1. CASE TakeSnapshot
  BY <1>1 DEF TakeSnapshot, BeginSnapshot, CopyOpen, CopyRefuse, CopyClose,
              SealOpen, SealClose
<1>2. CASE ReturnOk
  <2>1. /\ ver \in Versions /\ okCount[ver] < counters[ver]
        /\ counters[ver] >= BlacklistThreshold => ver \in blacklist
    BY <1>2 DEF ReturnOk, CountPCs
  <2>2. /\ okCount' = [okCount EXCEPT ![ver] = @ + 1]
        /\ blacklist' = blacklist
    BY <1>2 DEF ReturnOk
  <2>3. CASE v = ver
    <3>1. okCount[ver] \in Nat /\ counters[ver] \in Nat /\ okCount'[ver] = okCount[ver] + 1
      BY <2>1, <2>2
    <3>2. QED
      BY <2>1, <2>2, <2>3, <3>1
  <2>4. CASE v # ver
    BY <2>2, <2>4
  <2>5. QED
    BY <2>3, <2>4
<1>3. CASE BlacklistVersion
  BY <1>3 DEF BlacklistVersion, AddToBlacklist
<1>4. CASE Count \/ BlacklistLog
  BY <1>4 DEF Count, BlacklistLog
<1>5. CASE Rollback /\ ~Count /\ ~BlacklistVersion /\ ~BlacklistLog /\ ~ReturnOk
  BY <1>5 DEF Rollback, BeginRollback, Load, LoadRefuse, Verify, VerifyRefuse,
              Stage, Swap, LogSuccess
<1>6. CASE Environment
  BY <1>6 DEF Environment, IoError, BlacklistReadError, Fault, Crash,
              Rot, Deploy
<1>7. CASE UNCHANGED vars
  BY <1>7 DEF vars
<1>8. QED
  BY <1>1, <1>2, <1>3, <1>4, <1>5, <1>6, <1>7 DEF Next

(* rollback.rs:17, as far as the code keeps it: three rollbacks that were   *)
(* reported as done put a version on the list, while the list is readable.  *)
THEOREM ThreeOksBlacklist == Spec => []OkRollbacksBlacklist
BY OksStart, OksKept, BooksStart, BooksKept, SelfHealType, PTL DEF Spec

(* Nothing is hidden at first.                                              *)
LEMMA HiddenStart == Init => HiddenInv
<1> SUFFICES ASSUME Init, NEW v \in Versions
             PROVE  successes[v] <= faults + BelowThreshold(counters[v])
                        + (IF ver = v /\ pc \in {"count", "blacklist"} THEN 1 ELSE 0)
  BY DEF HiddenInv
<1>1. successes[v] = 0 /\ counters[v] = 0 /\ faults = 0 /\ pc = "idle"
  BY DEF Init
<1>2. QED
  BY <1>1 DEF BelowThreshold, BlacklistThreshold

(* Only a fault moves a rollback that is being counted to the hidden ones.  *)
LEMMA HiddenKept == TypeInv /\ HiddenInv /\ [Next]_vars => HiddenInv'
<1> SUFFICES ASSUME TypeInv, HiddenInv, [Next]_vars, "blacklist_read" \notin Faults,
                    NEW v \in Versions, v \notin blacklist'
             PROVE  successes'[v] <= faults' + BelowThreshold(counters'[v])
                        + (IF ver' = v /\ pc' \in {"count", "blacklist"} THEN 1 ELSE 0)
  BY DEF HiddenInv, TypeInv, TypeOK
<1> USE DEF TypeInv, TypeOK, CallInv, HiddenInv, BelowThreshold, BlacklistThreshold,
            live, store, books, trail, call
<1>1. faults \in Nat /\ counters[v] \in Nat /\ successes[v] \in Nat
  OBVIOUS
<1>2. CASE TakeSnapshot
  BY <1>2 DEF TakeSnapshot, BeginSnapshot, CopyOpen, CopyRefuse, CopyClose, SealOpen, SealClose,
              Goto, Return
<1>3. CASE \/ (\E w \in Versions : BeginRollback(w)) \/ Load \/ LoadRefuse
           \/ (\E f \in Files : Verify(f) \/ VerifyRefuse(f)) \/ Stage \/ Swap
  BY <1>3 DEF BeginRollback, Load, LoadRefuse, Verify, VerifyRefuse, Stage, Swap, Goto, Return
<1>4. CASE LogSuccess
  BY <1>1, <1>4 DEF LogSuccess, Goto
<1>5. CASE Count
  <2>1. /\ counters'[v] = IF v = ver THEN counters[v] + 1 ELSE counters[v]
        /\ UNCHANGED <<successes, faults, blacklist, ver>> /\ pc = "count"
        /\ counters'[ver] >= 3 => pc' = "blacklist"
    BY <1>5 DEF Count, AtThreshold, Goto
  <2>2. QED
    BY <1>1, <2>1
<1>6. CASE BlacklistVersion
  BY <1>1, <1>6 DEF BlacklistVersion, AddToBlacklist, Goto
<1>7. CASE BlacklistLog \/ ReturnOk
  BY <1>7 DEF BlacklistLog, ReturnOk, Goto, Return
<1>8. CASE IoError \/ Crash
  <2>1. faults' = faults + 1 /\ UNCHANGED <<successes, counters, blacklist>>
    BY <1>8 DEF IoError, Crash, Fault
  <2>2. QED
    BY <1>1, <2>1
<1>9. CASE (\E w \in Versions : Rot(w)) \/ Deploy
  <2>1. faults' \in {faults, faults + 1} /\ UNCHANGED <<successes, counters, blacklist, pc, ver>>
    BY <1>9 DEF Rot, Deploy, Fault
  <2>2. QED
    BY <1>1, <2>1
<1>10. CASE BlacklistReadError
  BY <1>10 DEF BlacklistReadError, Fault
<1>11. CASE UNCHANGED vars
  BY <1>11 DEF vars
<1>12. QED
  BY <1>2, <1>3, <1>4, <1>5, <1>6, <1>7, <1>8, <1>9, <1>10, <1>11
     DEF Next, Rollback, Environment

(* Between calls only faults are left to account for the difference.        *)
LEMMA HiddenFromInv == TypeInv /\ HiddenInv => FaultsHideOneRollbackEach
<1> SUFFICES ASSUME TypeInv, HiddenInv, pc = "idle", "blacklist_read" \notin Faults,
                    NEW v \in Versions \ blacklist
             PROVE  successes[v] < BlacklistThreshold + faults
  BY DEF FaultsHideOneRollbackEach
<1>1. successes[v] \in Nat /\ counters[v] \in Nat /\ faults \in Nat
  BY DEF TypeInv, TypeOK
<1>2. successes[v] <= faults + BelowThreshold(counters[v])
  BY <1>1 DEF HiddenInv, BelowThreshold, BlacklistThreshold
<1>3. QED
  BY <1>1, <1>2 DEF BelowThreshold, BlacklistThreshold

(* rollback.rs:403-425: however crashes and failed calls fall between the   *)
(* audit entry, the counter and the list, each of them hides at most one    *)
(* logged rollback of a version from the blacklist.                         *)
THEOREM FaultsHideLittle == Spec => []FaultsHideOneRollbackEach
BY HiddenStart, HiddenKept, HiddenFromInv, SelfHealType, PTL DEF Spec

-----------------------------------------------------------------------------
SnapshotsInv == CopyInv /\ SealedSnapshotKept

(* At first there is no snapshot.                                           *)
LEMMA SnapshotsStart == Init => SnapshotsInv
BY DistinctMarkers
   DEF Init, SnapshotsInv, CopyInv, SealedSnapshotKept, Manifests, CopiedPCs

(* take_snapshot opens a copy of a sealed version only after putting it on  *)
(* record, and seals a version when every copy is the recorded one.         *)
LEMMA SnapshotsKept == TypeInv /\ SnapshotsInv /\ [Next]_vars => SnapshotsInv'
<1> SUFFICES ASSUME TypeInv, SnapshotsInv, [Next]_vars, "rot" \notin Faults
             PROVE  SnapshotsInv'
  BY DEF SnapshotsInv, CopyInv, SealedSnapshotKept
<1> USE DEF TypeInv, TypeOK, CallInv, SnapshotsInv, CopyInv, SealedSnapshotKept,
            CopiedPCs, CountPCs, live, store, books, trail, call
<1>1. Torn \notin Manifests /\ BadMac \notin Manifests /\ NoFile \notin Manifests
      /\ Torn # BadMac
  BY DistinctMarkers DEF Manifests
<1>2. CASE TakeSnapshot
  <2>1. ASSUME NEW v \in Versions, BeginSnapshot(v) PROVE SnapshotsInv'
    BY <2>1 DEF BeginSnapshot
  <2>2. ASSUME NEW f \in Files, CopyOpen(f) PROVE SnapshotsInv'
    BY <2>2 DEF CopyOpen
  <2>3. ASSUME NEW f \in Files, CopyRefuse(f) PROVE SnapshotsInv'
    BY <2>3 DEF CopyRefuse, Return
  <2>4. CASE CopyClose
    BY <2>4 DEF CopyClose
  <2>5. CASE SealOpen
    BY <1>1, <2>5 DEF SealOpen, Goto
  <2>6. CASE SealClose
    <3>1. backup[ver] = man
      BY <2>6 DEF SealClose, Manifests
    <3>2. QED
      BY <1>1, <2>6, <3>1 DEF SealClose, Return
  <2>7. QED
    BY <1>2, <2>1, <2>2, <2>3, <2>4, <2>5, <2>6 DEF TakeSnapshot
<1>3. CASE Rollback
  <2>1. CASE (\E v \in Versions : BeginRollback(v)) \/ Load
    BY <2>1 DEF BeginRollback, Load
  <2>2. CASE LoadRefuse
    BY <2>2 DEF LoadRefuse, Return
  <2>3. ASSUME NEW f \in Files, Verify(f) \/ VerifyRefuse(f) PROVE SnapshotsInv'
    BY <2>3 DEF Verify, VerifyRefuse, Return
  <2>4. CASE Stage \/ Swap \/ LogSuccess
    BY <2>4 DEF Stage, Swap, LogSuccess, Goto
  <2>5. CASE Count \/ BlacklistVersion \/ BlacklistLog \/ ReturnOk
    BY <2>5 DEF Count, BlacklistVersion, AddToBlacklist, BlacklistLog, ReturnOk, Return, Goto
  <2>6. QED
    BY <1>3, <2>1, <2>2, <2>3, <2>4, <2>5 DEF Rollback
<1>4. CASE Environment
  <2>1. CASE IoError \/ Crash
    BY <2>1 DEF IoError, Crash, Return
  <2>2. CASE BlacklistReadError
    BY <2>2 DEF BlacklistReadError, AddToBlacklist, Goto
  <2>3. CASE (\E v \in Versions : Rot(v)) \/ Deploy
    BY <2>3 DEF Rot, Fault, Deploy
  <2>4. QED
    BY <1>4, <2>1, <2>2, <2>3 DEF Environment
<1>5. CASE UNCHANGED vars
  BY <1>5 DEF vars
<1>6. QED
  BY <1>2, <1>3, <1>4, <1>5 DEF Next

(* A rollback that refuses a copy works on a rewritten version.             *)
LEMMA AlarmsKept ==
    ASSUME TypeInv, SnapshotsInv, [Next]_vars, "rot" \notin Faults
    PROVE  alarms' \subseteq alarms \cup rewritten
<1> USE DEF TypeInv, TypeOK, CallInv, live, store, books, trail, call
<1>1. CASE LoadRefuse
  BY <1>1 DEF LoadRefuse, SnapshotsInv, CopyInv
<1>2. ASSUME NEW f \in Files, VerifyRefuse(f) PROVE alarms' \subseteq alarms \cup rewritten
  <2>1. ver \in Versions /\ seal[ver] = man /\ man \in Manifests /\ backup[ver][f] # man[f]
    BY <1>2 DEF VerifyRefuse, SnapshotsInv, CopyInv, CopiedPCs
  <2>2. ver \in rewritten
    BY <2>1 DEF SnapshotsInv, SealedSnapshotKept
  <2>3. QED
    BY <1>2, <2>2 DEF VerifyRefuse
<1>3. CASE TakeSnapshot
  BY <1>3 DEF TakeSnapshot, BeginSnapshot, CopyOpen, CopyRefuse, CopyClose,
              SealOpen, SealClose
<1>4. CASE Rollback /\ ~LoadRefuse /\ ~(\E f \in Files : VerifyRefuse(f))
  BY <1>4 DEF Rollback, BeginRollback, Load, Verify, Stage, Swap, LogSuccess, Count,
              BlacklistVersion, AddToBlacklist, BlacklistLog, ReturnOk
<1>5. CASE Environment
  BY <1>5 DEF Environment, IoError, BlacklistReadError, AddToBlacklist, Crash, Rot, Deploy
<1>6. CASE UNCHANGED vars
  BY <1>6 DEF vars
<1>7. QED
  BY <1>1, <1>2, <1>3, <1>4, <1>5, <1>6 DEF Next

(* rollback.rs:156-219: a completed snapshot outlives crashes and failed    *)
(* calls, if it is neither damaged nor being taken again.                   *)
THEOREM SnapshotsSurvive == Spec => []SealedSnapshotKept
BY SnapshotsStart, SnapshotsKept, SelfHealType, PTL DEF Spec, SnapshotsInv

(* rollback.rs:341: an undamaged backup raises BACKUP_TAMPERED only after a *)
(* repeated snapshot of its version was interrupted.                        *)
THEOREM NoFalseAlarm == Spec => AlarmsAreReal
<1>1. TypeInv /\ SnapshotsInv /\ [Next]_vars
          => [ "rot" \notin Faults => alarms' \subseteq alarms \cup rewritten ]_vars
  BY AlarmsKept
<1>2. QED
  BY <1>1, SnapshotsStart, SnapshotsKept, SelfHealType, PTL DEF Spec, AlarmsAreReal

-----------------------------------------------------------------------------
(* The installation is complete at first.                                   *)
LEMMA FilesStart == Init => LiveFilesWhole
BY DistinctMarkers DEF Init, LiveFilesWhole, NoManifest

(* What is renamed into place is complete, and so is what hosts install.    *)
LEMMA FilesKept ==
    TypeInv /\ RestoreInv /\ LiveFilesWhole /\ [Next]_vars => LiveFilesWhole'
<1> SUFFICES ASSUME TypeInv, RestoreInv, LiveFilesWhole, [Next]_vars
             PROVE  LiveFilesWhole'
  OBVIOUS
<1> USE DEF TypeInv, TypeOK, LiveFilesWhole, live, store, books, trail, call
<1>1. CASE Swap
  <2>1. cur \in Files /\ man[cur] \in Contents
    BY <1>1 DEF Swap, CallInv, CopiedPCs, Manifests
  <2>2. tree' = [tree EXCEPT ![RestoreDir][cur] = man[cur]]
    BY <1>1 DEF Swap, RestoreInv
  <2>3. Torn \notin Contents
    BY DistinctMarkers
  <2>4. QED
    BY <2>1, <2>2, <2>3, SelfHealConstants
<1>2. CASE Deploy
  <2>1. PICK m \in [Files -> Contents \cup {NoFile}] :
           tree' = [tree EXCEPT ![AppDir] = m]
    BY <1>2 DEF Deploy
  <2>2. \A f \in Files : m[f] # Torn
    BY <2>1, DistinctMarkers
  <2>3. QED
    BY <2>1, <2>2, SelfHealConstants
<1>3. CASE TakeSnapshot
  BY <1>3 DEF TakeSnapshot, BeginSnapshot, CopyOpen, CopyRefuse, CopyClose,
              SealOpen, SealClose
<1>4. CASE Rollback /\ ~Swap
  BY <1>4 DEF Rollback, BeginRollback, Load, LoadRefuse, Verify, VerifyRefuse, Stage,
              LogSuccess, Count, BlacklistVersion, AddToBlacklist, BlacklistLog, ReturnOk
<1>5. CASE Environment /\ ~Deploy
  BY <1>5 DEF Environment, IoError, BlacklistReadError, AddToBlacklist, Crash, Rot
<1>6. CASE UNCHANGED vars
  BY <1>6 DEF vars
<1>7. QED
  BY <1>1, <1>2, <1>3, <1>4, <1>5, <1>6 DEF Next

(* rollback.rs:375: whatever interrupts a rollback, no live file is half    *)
(* written.                                                                 *)
THEOREM FilesStayWhole == Spec => []LiveFilesWhole
BY FilesStart, FilesKept, RestoreStart, RestoreKept, SelfHealType, PTL DEF Spec

-----------------------------------------------------------------------------
(* The refinement of RestorePoint                                           *)

(* A manifest in the making describes the installation as it still is.      *)
ReadInv ==
    /\ pc \in {"snapshot", "copy", "seal"} => \A f \in Files \ todo : man[f] = tree[AppDir][f]
    /\ pc = "copy" => man[cur] = tree[AppDir][cur]
    /\ pc = "seal" => todo = {}

LEMMA ReadStart == Init => ReadInv
BY DEF Init, ReadInv

LEMMA ReadKept == TypeInv /\ ReadInv /\ [Next]_vars => ReadInv'
<1> SUFFICES ASSUME TypeInv, ReadInv, [Next]_vars PROVE ReadInv'
  OBVIOUS
<1> USE DEF TypeInv, TypeOK, CallInv, ReadInv, live, store, books, trail, call
<1>1. CASE TakeSnapshot
  BY <1>1, SelfHealConstants
     DEF TakeSnapshot, BeginSnapshot, CopyOpen, CopyRefuse, CopyClose, SealOpen, SealClose,
         Goto, Return
<1>2. CASE Rollback
  BY <1>2 DEF Rollback, BeginRollback, Load, LoadRefuse, Verify, VerifyRefuse, Stage, Swap,
              LogSuccess, Count, BlacklistVersion, AddToBlacklist, BlacklistLog, ReturnOk,
              Goto, Return
<1>3. CASE Environment
  BY <1>3 DEF Environment, IoError, BlacklistReadError, AddToBlacklist, Crash, Rot, Deploy,
              Goto, Return
<1>4. CASE UNCHANGED vars
  BY <1>4 DEF vars
<1>5. QED
  BY <1>1, <1>2, <1>3, <1>4 DEF Next

RefinementInv == TypeInv /\ RestoreInv /\ BooksInv /\ ReadInv /\ LiveFilesWhole

LEMMA RefinementInvariant == Spec => []RefinementInv
BY SelfHealType, RestoreStart, RestoreKept, BooksStart, BooksKept, ReadStart, ReadKept,
   FilesStayWhole, PTL DEF Spec, RefinementInv

(* What the abstract specification sees of the disk and of the call.        *)
Recorded == [v \in Versions |-> IF seal[v] \in Manifests THEN seal[v] ELSE NoFile]
Label == IF Settled THEN ver ELSE NoFile
Image == IF Settled THEN man ELSE NoFile

(* A write of one snapshot.json is a write of one recorded image.           *)
LEMMA RecordedWrite ==
    ASSUME TypeInv, NEW v \in Versions, NEW x, seal' = [seal EXCEPT ![v] = x]
    PROVE  Recorded' = [Recorded EXCEPT ![v] = IF x \in Manifests THEN x ELSE NoFile]
BY DEF Recorded, TypeInv, TypeOK

(* Between Load and the return of a rollback its label is a version.        *)
LEMMA SettledLabel ==
    ASSUME TypeInv, Settled
    PROVE  Label = ver /\ Image = man /\ ver \in Versions /\ Label # NoFile
           /\ man \in Manifests
BY DistinctMarkers DEF Label, Image, Settled, TypeInv, CallInv, CountPCs, CopiedPCs

(* Each step of take_snapshot is a Save, a Lose or a stutter.               *)
LEMMA SnapshotRefines ==
    ASSUME RefinementInv, TakeSnapshot
    PROVE  [Promise!Next]_(Promise!vars)
<1> USE DEF RefinementInv, TypeInv
<1>1. ~Settled /\ ~Settled'
  BY DEF TakeSnapshot, BeginSnapshot, CopyOpen, CopyRefuse, CopyClose, SealOpen, SealClose,
         Goto, Return, Settled, CountPCs
<1>2. UNCHANGED <<tree, successes, blacklist>>
  BY DEF TakeSnapshot, BeginSnapshot, CopyOpen, CopyRefuse, CopyClose, SealOpen, SealClose,
         live, books, trail
<1>3. CASE SealOpen
  <2>1. PICK v \in Versions : v = ver
    BY <1>3 DEF SealOpen, CallInv
  <2>2. seal' = [seal EXCEPT ![v] = Torn]
    BY <1>3, <2>1 DEF SealOpen
  <2>3. Recorded' = [Recorded EXCEPT ![v] = NoFile]
    BY <2>2, RecordedWrite, DistinctMarkers DEF Manifests
  <2>4. Promise!Lose(v)
    BY <1>1, <1>2, <2>3 DEF Promise!Lose, Recorded
  <2>5. QED
    BY <2>4 DEF Promise!Next
<1>4. CASE SealClose
  <2>1. PICK v \in Versions : v = ver
    BY <1>4 DEF SealClose, CallInv
  <2>2. man \in Manifests /\ seal' = [seal EXCEPT ![v] = man]
    BY <1>4, <2>1 DEF SealClose, CallInv
  <2>3. man = tree[AppDir]
    <3>1. \A f \in Files : man[f] = tree[AppDir][f]
      BY <1>4 DEF SealClose, ReadInv
    <3>2. QED
      BY <2>2, <3>1, SelfHealConstants DEF TypeOK, Manifests
  <2>4. Recorded' = [Recorded EXCEPT ![v] = tree[AppDir]]
    BY <2>2, <2>3, RecordedWrite
  <2>5. Promise!Save(v)
    BY <1>1, <1>2, <2>4 DEF Promise!Save, Recorded
  <2>6. QED
    BY <2>5 DEF Promise!Next
<1>5. CASE ~SealOpen /\ ~SealClose
  <2>1. seal' = seal
    BY <1>5 DEF TakeSnapshot, BeginSnapshot, CopyOpen, CopyRefuse, CopyClose, store
  <2>2. UNCHANGED Promise!vars
    BY <1>1, <1>2, <2>1 DEF Promise!vars
  <2>3. QED
    BY <2>2
<1>6. QED
  BY <1>3, <1>4, <1>5

(* A version enters the list, or a list that could not be read, only after  *)
(* enough confirmed rollbacks and with its image in place.                  *)
LEMMA BanRefines ==
    ASSUME RefinementInv, BlacklistVersion \/ BlacklistReadError
    PROVE  Promise!Ban
<1> USE DEF RefinementInv, TypeInv
<1>1. pc = "blacklist" /\ pc' = "blacklist_log"
      /\ UNCHANGED <<ver, man, tree, seal, successes>>
  BY DEF BlacklistVersion, BlacklistReadError, AddToBlacklist, Goto, live, store, trail
<1>2. Settled /\ Settled' /\ tree[RestoreDir] = man
  BY <1>1 DEF Settled, CountPCs, RestoreInv
<1>3. ver \in Versions /\ Label # NoFile
  BY <1>2, SettledLabel
<1>4. \/ blacklist' = blacklist \cup {ver}
      \/ ~("blacklist_read" \notin Faults) /\ blacklist' = {ver}
  BY DEF BlacklistVersion, BlacklistReadError, AddToBlacklist, Fault
<1>5. successes[ver] >= BlacklistThreshold
  <2>1. counters[ver] >= BlacklistThreshold /\ counters[ver] <= successes[ver]
    BY <1>1, <1>3 DEF BooksInv
  <2>2. counters[ver] \in Nat /\ successes[ver] \in Nat
    BY <1>3 DEF TypeOK
  <2>3. QED
    BY <2>1, <2>2 DEF BlacklistThreshold
<1>6. QED
  BY <1>1, <1>2, <1>3, <1>4, <1>5 DEF Promise!Ban, Label

(* Each step of rollback is a Begin, a Restore, a Confirm, a Ban, an End or *)
(* a stutter.                                                               *)
LEMMA RollbackRefines ==
    ASSUME RefinementInv, Rollback
    PROVE  [Promise!Next]_(Promise!vars)
<1> USE DEF RefinementInv, TypeInv
<1>1. seal' = seal
  BY DEF Rollback, BeginRollback, Load, LoadRefuse, Verify, VerifyRefuse, Stage, Swap,
         LogSuccess, Count, BlacklistVersion, AddToBlacklist, BlacklistLog, ReturnOk, store
<1>2. Recorded' = Recorded
  BY <1>1 DEF Recorded
<1>3. CASE \/ (\E v \in Versions : BeginRollback(v)) \/ LoadRefuse
           \/ (\E f \in Files : Verify(f)) \/ Stage \/ Count \/ BlacklistLog
  <2>1. UNCHANGED <<tree, successes, blacklist>>
    BY <1>3 DEF BeginRollback, LoadRefuse, Verify, Stage, Count, BlacklistLog, live, books, trail
  <2>2. UNCHANGED <<Label, Image>>
    BY <1>3 DEF BeginRollback, LoadRefuse, Verify, Stage, Count, BlacklistLog, Goto, Return,
                Label, Image, Settled, CountPCs
  <2>3. UNCHANGED Promise!vars
    BY <1>1, <2>1, <2>2 DEF Promise!vars, Label, Image
  <2>4. QED
    BY <2>3
<1>4. CASE Load
  <2>1. /\ ver \in Versions /\ seal[ver] \in Manifests /\ Recorded[ver] = seal[ver]
        /\ Label = NoFile /\ Label' = ver /\ Image' = seal[ver]
    BY <1>4 DEF Load, CallInv, Recorded, Label, Image, Settled, CountPCs
  <2>2. Recorded[ver] # NoFile
    BY <2>1, DistinctMarkers DEF Manifests
  <2>3. UNCHANGED <<tree, successes, blacklist>>
    BY <1>4 DEF Load, live, books, trail
  <2>4. Promise!Begin(ver)
    BY <1>1, <2>1, <2>2, <2>3 DEF Promise!Begin, Recorded, Label, Image
  <2>5. QED
    BY <2>1, <2>4 DEF Promise!Next
<1>5. CASE Swap
  <2>1. Settled /\ Settled' /\ ver' = ver /\ man' = man
        /\ UNCHANGED <<successes, blacklist>>
    BY <1>5 DEF Swap, Settled, books, trail
  <2>2. cur \in Files /\ tree' = [tree EXCEPT ![RestoreDir][cur] = man[cur]]
    BY <1>5 DEF Swap, RestoreInv, CallInv, TypeOK
  <2>3. Label # NoFile
    BY <2>1, SettledLabel
  <2>4. Promise!Restore(cur)
    BY <1>1, <2>1, <2>2, <2>3 DEF Promise!Restore, Label
  <2>5. QED
    BY <2>2, <2>4 DEF Promise!Next
<1>6. CASE LogSuccess
  <2>1. Settled /\ Settled' /\ UNCHANGED <<ver, man, tree, blacklist>>
        /\ successes' = [successes EXCEPT ![ver] = @ + 1]
    BY <1>6 DEF LogSuccess, Goto, Settled, CountPCs, live, books
  <2>2. tree[RestoreDir] = man
    <3>1. \A f \in Files : tree[RestoreDir][f] = man[f]
      BY <1>6 DEF LogSuccess, RestoreInv, CopiedPCs
    <3>2. man \in Manifests
      BY <2>1, SettledLabel
    <3>3. QED
      BY <3>1, <3>2, SelfHealConstants DEF TypeOK, Manifests
  <2>3. Label # NoFile
    BY <2>1, SettledLabel
  <2>4. Promise!Confirm
    BY <1>1, <2>1, <2>2, <2>3 DEF Promise!Confirm, Label
  <2>5. QED
    BY <2>4 DEF Promise!Next
<1>7. CASE ReturnOk \/ \E f \in Files : VerifyRefuse(f)
  <2>1. Settled /\ ~Settled' /\ UNCHANGED <<tree, successes, blacklist>>
    BY <1>7 DEF ReturnOk, VerifyRefuse, Return, Settled, CountPCs, live, books
  <2>2. Promise!End
    BY <1>1, <2>1, SettledLabel DEF Promise!End, Label
  <2>3. QED
    BY <2>2 DEF Promise!Next
<1>8. CASE BlacklistVersion
  BY <1>8, BanRefines DEF Promise!Next
<1>9. QED
  BY <1>3, <1>4, <1>5, <1>6, <1>7, <1>8 DEF Rollback

(* What the environment does is an Install, a Lose, a Ban, an End or a      *)
(* stutter.                                                                 *)
LEMMA EnvironmentRefines ==
    ASSUME RefinementInv, Environment
    PROVE  [Promise!Next]_(Promise!vars)
<1> USE DEF RefinementInv, TypeInv
<1>1. CASE IoError \/ Crash
  <2>1. ~Settled' /\ UNCHANGED <<tree, seal, successes, blacklist>>
    BY <1>1 DEF IoError, Crash, Return, Settled, CountPCs, live, store, books, trail
  <2>2. CASE Settled
    <3>1. Promise!End
      BY <2>1, <2>2, SettledLabel DEF Promise!End, Label
    <3>2. QED
      BY <3>1 DEF Promise!Next
  <2>3. CASE ~Settled
    <3>1. UNCHANGED Promise!vars
      BY <2>1, <2>3 DEF Promise!vars
    <3>2. QED
      BY <3>1
  <2>4. QED
    BY <2>2, <2>3
<1>2. CASE BlacklistReadError
  BY <1>2, BanRefines DEF Promise!Next
<1>3. ASSUME NEW v \in Versions, Rot(v) PROVE [Promise!Next]_(Promise!vars)
  <2>1. UNCHANGED <<tree, successes, blacklist, pc, ver, man>>
    BY <1>3 DEF Rot, live, books, trail, call
  <2>2. UNCHANGED <<Label, Image>>
    BY <2>1 DEF Label, Image, Settled
  <2>3. CASE UNCHANGED seal
    <3>1. UNCHANGED Promise!vars
      BY <2>1, <2>2, <2>3 DEF Promise!vars, Label, Image
    <3>2. QED
      BY <3>1
  <2>4. CASE \E bad \in {Torn, BadMac} : seal' = [seal EXCEPT ![v] = bad]
    <3>1. Recorded' = [Recorded EXCEPT ![v] = NoFile]
      BY <2>4, RecordedWrite, DistinctMarkers DEF Manifests
    <3>2. Promise!Lose(v)
      BY <2>1, <2>2, <3>1 DEF Promise!Lose, Recorded, Label, Image
    <3>3. QED
      BY <3>2 DEF Promise!Next
  <2>5. QED
    BY <1>3, <2>3, <2>4 DEF Rot
<1>4. CASE Deploy
  <2>1. /\ ~Settled /\ ~Settled' /\ UNCHANGED <<seal, successes, blacklist>>
        /\ \E m \in [Files -> Contents \cup {NoFile}] : tree' = [tree EXCEPT ![AppDir] = m]
    BY <1>4 DEF Deploy, Settled, CountPCs, store, books, trail, call
  <2>2. Promise!Install
    BY <2>1 DEF Promise!Install
  <2>3. QED
    BY <2>2 DEF Promise!Next
<1>5. QED
  BY <1>1, <1>2, <1>3, <1>4 DEF Environment

(* An installation without backups is a fresh restore point.                *)
LEMMA PromiseStart == Init => Promise!Init
<1> SUFFICES ASSUME Init PROVE Promise!Init
  OBVIOUS
<1>1. tree \in [Dirs -> [Files -> Contents \cup {NoFile}]]
  BY DEF Init, NoManifest
<1>2. Recorded = [v \in Versions |-> NoFile]
  BY DistinctMarkers DEF Init, Recorded, Manifests
<1>3. ~Settled /\ successes = [v \in Versions |-> 0] /\ blacklist = {}
  BY DEF Init, Settled, CountPCs
<1>4. QED
  BY <1>1, <1>2, <1>3 DEF Promise!Init, Recorded

(* Each step of the engine is a step of the restore point or a stutter.     *)
LEMMA PromiseStep ==
    RefinementInv /\ [Next]_vars => [Promise!Next]_(Promise!vars)
<1>1. UNCHANGED vars => UNCHANGED Promise!vars
  BY DEF vars, Promise!vars, Settled, live, store, books, trail, call
<1>2. QED
  BY <1>1, SnapshotRefines, RollbackRefines, EnvironmentRefines DEF Next

(* rollback.rs:278: the step-by-step engine implements RestorePoint, for    *)
(* any set of files, any working directory and any faults.                  *)
THEOREM EngineKeepsPromise == Spec => KeepsPromise
BY PromiseStep, PromiseStart, RefinementInvariant, PTL DEF Spec, KeepsPromise, Promise!Spec
=============================================================================

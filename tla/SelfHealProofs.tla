--------------------------- MODULE SelfHealProofs ---------------------------
(***************************************************************************)
(* Proofs about SelfHeal for any versions, files, contents, directories    *)
(* and faults.                                                             *)
(***************************************************************************)
EXTENDS SelfHeal, TLAPS

CopiedPCs == {"restore", "stage", "swap"}

(* The locals of the running call: the version it is about, the file it is  *)
(* at, and how much of its manifest is complete.                            *)
CallInv ==
    /\ pc # "idle" => ver \in Versions
    /\ pc \in {"copy", "stage", "swap"} => cur \in todo
    /\ pc \in {"snapshot", "copy"} => \A f \in Files \ todo : man[f] \in Contents
    /\ pc = "copy" => man[cur] \in Contents
    /\ pc \in {"seal"} \cup CopiedPCs \cup CountPCs => man \in Manifests

TypeInv == TypeOK /\ CallInv

(* The initial state has the types.                                         *)
LEMMA InitType == Init => TypeInv
<1> SUFFICES ASSUME Init PROVE TypeInv
  OBVIOUS
<1> USE SelfHealConstants DEF Init, NoManifest, PCs, SnapshotPCs, RestorePCs, CountPCs
<1>1. NoManifest \in [Files -> Contents \cup {NoFile, Torn}]
  OBVIOUS
<1>2. tree \in [Dirs -> [Files -> Contents \cup {NoFile, Torn}]]
  BY <1>1
<1>3. TypeOK
  BY <1>1, <1>2 DEF TypeOK
<1>4. CallInv
  BY DEF CallInv, CopiedPCs
<1>5. QED
  BY <1>3, <1>4 DEF TypeInv

(* take_snapshot keeps the types.                                           *)
LEMMA SnapshotType == TypeInv /\ TakeSnapshot => TypeInv'
<1> SUFFICES ASSUME TypeInv, TakeSnapshot PROVE TypeInv'
  OBVIOUS
<1> USE DEF TypeInv, TypeOK, CallInv, PCs, SnapshotPCs, RestorePCs, CountPCs, CopiedPCs,
            live, store, books, trail, call
<1>1. ASSUME NEW v \in Versions, BeginSnapshot(v) PROVE TypeInv'
  BY <1>1 DEF BeginSnapshot
<1>2. ASSUME NEW f \in Files, CopyOpen(f) PROVE TypeInv'
  BY <1>2 DEF CopyOpen
<1>3. ASSUME NEW f \in Files, CopyRefuse(f) PROVE TypeInv'
  BY <1>3 DEF CopyRefuse, Return, NoManifest
<1>4. CASE CopyClose
  BY <1>4 DEF CopyClose
<1>5. CASE SealOpen
  BY <1>5 DEF SealOpen, Goto, Manifests
<1>6. CASE SealClose
  BY <1>6 DEF SealClose, Return, NoManifest
<1>7. QED
  BY <1>1, <1>2, <1>3, <1>4, <1>5, <1>6 DEF TakeSnapshot

(* rollback keeps the types.                                                *)
LEMMA RollbackType == TypeInv /\ Rollback => TypeInv'
<1> SUFFICES ASSUME TypeInv, Rollback PROVE TypeInv'
  OBVIOUS
<1> USE DEF TypeInv, TypeOK, CallInv, PCs, SnapshotPCs, RestorePCs, CountPCs, CopiedPCs,
            live, store, books, trail, call
<1>1. ASSUME NEW v \in Versions, BeginRollback(v) PROVE TypeInv'
  BY <1>1 DEF BeginRollback
<1>2. CASE Load
  BY <1>2 DEF Load, Manifests
<1>3. CASE LoadRefuse
  BY <1>3 DEF LoadRefuse, Return, NoManifest
<1>4. ASSUME NEW f \in Files, Verify(f) PROVE TypeInv'
  BY <1>4 DEF Verify
<1>5. ASSUME NEW f \in Files, VerifyRefuse(f) PROVE TypeInv'
  BY <1>5 DEF VerifyRefuse, Return, NoManifest
<1>6. CASE Stage
  BY <1>6 DEF Stage, Goto, Manifests
<1>7. CASE Swap
  BY <1>7, SelfHealConstants DEF Swap
<1>8. CASE LogSuccess
  BY <1>8 DEF LogSuccess, Goto
<1>9. CASE Count
  BY <1>9 DEF Count, Goto
<1>10. CASE BlacklistVersion
  BY <1>10 DEF BlacklistVersion, AddToBlacklist, Goto
<1>11. CASE BlacklistLog
  BY <1>11 DEF BlacklistLog, Goto
<1>12. CASE ReturnOk
  BY <1>12 DEF ReturnOk, Return, NoManifest
<1>13. QED
  BY <1>1, <1>2, <1>3, <1>4, <1>5, <1>6, <1>7, <1>8, <1>9, <1>10, <1>11, <1>12 DEF Rollback

(* So does the environment.                                                 *)
LEMMA EnvironmentType == TypeInv /\ Environment => TypeInv'
<1> SUFFICES ASSUME TypeInv, Environment PROVE TypeInv'
  OBVIOUS
<1> USE SelfHealConstants
    DEF TypeInv, TypeOK, CallInv, PCs, SnapshotPCs, RestorePCs, CountPCs, CopiedPCs,
        live, store, books, trail, call
<1>1. CASE IoError
  <2>1. faults' \in 0..MaxFaults
    BY <1>1 DEF IoError, Fault
  <2>2. tmp' \in [Files -> Contents \cup {NoFile, Torn}]
    BY <1>1 DEF IoError, Manifests
  <2>3. QED
    BY <1>1, <2>1, <2>2 DEF IoError, Return, NoManifest
<1>2. CASE BlacklistReadError
  BY <1>2 DEF BlacklistReadError, AddToBlacklist, Goto, Fault
<1>3. CASE Crash
  BY <1>3 DEF Crash, Return, NoManifest, Fault
<1>4. ASSUME NEW v \in Versions, Rot(v) PROVE TypeInv'
  <2>1. /\ faults' \in 0..MaxFaults
        /\ UNCHANGED <<live, dirs, rewritten, books, trail, call>>
    BY <1>4 DEF Rot, Fault
  <2>2. /\ backup' \in [Versions -> [Files -> Contents \cup {NoFile, Torn}]]
        /\ seal' \in [Versions -> Manifests \cup {NoFile, Torn, BadMac}]
    <3>1. CASE /\ UNCHANGED seal
               /\ \E f \in Files : backup' = [backup EXCEPT ![v][f] = Torn]
      BY <3>1
    <3>2. CASE /\ UNCHANGED backup
               /\ \E bad \in {Torn, BadMac} : seal' = [seal EXCEPT ![v] = bad]
      BY <3>2
    <3>3. QED
      BY <1>4, <3>1, <3>2 DEF Rot
  <2>3. QED
    BY <2>1, <2>2
<1>5. CASE Deploy
  BY <1>5 DEF Deploy
<1>6. QED
  BY <1>1, <1>2, <1>3, <1>4, <1>5 DEF Environment

(* Every variable keeps its type and the locals of a running call keep      *)
(* their meaning, for all constants.                                        *)
THEOREM SelfHealType == Spec => []TypeInv
<1>1. TypeInv /\ UNCHANGED vars => TypeInv'
  BY DEF TypeInv, TypeOK, CallInv, vars, live, store, books, trail, call
<1>2. TypeInv /\ [Next]_vars => TypeInv'
  BY <1>1, SnapshotType, RollbackType, EnvironmentType DEF Next
<1>3. QED
  BY <1>2, InitType, PTL DEF Spec

(* The type invariant alone, as the runs check it.                          *)
COROLLARY SelfHealTypeOK == Spec => []TypeOK
BY SelfHealType, PTL DEF TypeInv
=============================================================================

----------------------------- MODULE EngineProofs -----------------------------
(***************************************************************************)
(* Proofs about Engine for any releases, builds, ranks and retries, and    *)
(* for the faults of both the self-heal store and the downloader.          *)
(***************************************************************************)
EXTENDS Engine, SelfHealSafetyProofs

-----------------------------------------------------------------------------
(* The inductive invariant                                                  *)

(* Which part of which component runs in which phase of an API call.        *)
PhaseInv ==
    /\ phase \in {"none", "check", "fetch", "download"} => pc = "idle"
    /\ phase = "snapshot" => pc \in SnapshotPCs /\ offer # NoOffer /\ ver = offer.version
    /\ phase = "rollback" => pc \in RestorePCs \cup CountPCs
    /\ phase \in {"check", "fetch"} => step \in {"ready", "attempt"} /\ result # "staged"
    /\ phase \in {"none", "snapshot", "rollback"} => step = "ready"
    /\ phase = "snapshot" => result = "fetched"
    /\ phase = "download" => offer # NoOffer /\ (step # "ready" => result = "fetched")
    /\ step = "attempt" => result = "none"
    /\ result = "fetched" => offer # NoOffer

(* What the downloader knows while it works on an accepted manifest.        *)
StagingInv ==
    /\ step \in {"check", "rename"} => temp = body
    /\ step = "rename" => body = offer.artifact.sig
    /\ phase = "download" /\ result = "staged" => final = Build[offer.version]

(* The executable stays as it was read while its snapshot is written.       *)
SnapshotInv ==
    /\ pc \in SnapshotPCs =>
           \A f \in Files \ todo : backup[ver][f] = man[f] /\ man[f] = tree[AppDir][f]
    /\ pc = "copy" => man[cur] = tree[AppDir][cur]
    /\ pc = "seal" => todo = {}

(* record is what is filed under the version it names, and intact.          *)
Filed(record) ==
    /\ record \in Records
    /\ Restores(record.version)
    /\ seal[record.version][Exe] = record.before

(* From the end of the snapshot to the next apply or rollback call.         *)
SavedInv ==
    /\ phase = "download" =>
           /\ lastSnap = [version |-> offer.version, before |-> tree[AppDir][Exe]]
           /\ Filed(lastSnap)
    /\ outcome = "applied" =>
           /\ phase \in {"none", "check"}
           /\ lastApply = lastSnap
           /\ Filed(lastApply)
           /\ final = Build[lastApply.version]

(* The publisher never goes back, and the strings v<version> sort as the    *)
(* versions do.                                                             *)
OrderedReleases ==
    /\ ~PublishDown
    /\ \A v, w \in Versions : ReleaseRank[v] <= ReleaseRank[w] => LexRank[v] <= LexRank[w]

(* Then no backup directory names a version later than the one being        *)
(* applied, so the one rollback picks is that of the last snapshot that was *)
(* completed.                                                               *)
LatestInv ==
    OrderedReleases =>
        /\ \A w \in dirs : LexRank[w] <= LexRank[published]
        /\ offer # NoOffer => \A w \in dirs : LexRank[w] <= LexRank[offer.version]
        /\ offer # NoOffer => LexRank[offer.version] <= LexRank[published]
        /\ phase \in {"snapshot", "download"} => offer.version \in dirs
        /\ \A v \in Versions \ dirs : seal[v] = NoFile
        /\ \A v \in Versions :
              IsMostRecent(v) /\ seal[v] \in Manifests =>
                  lastSnap = [version |-> v, before |-> seal[v][Exe]]
        /\ phase = "rollback" => IsMostRecent(ver)
        /\ phase = "rollback" /\ pc # "load" => man[Exe] = lastSnap.before
        /\ outcome = "applied" => IsMostRecent(lastApply.version)

EngineInv ==
    EngineTypeOK /\ CallInv /\ PhaseInv /\ StagingInv /\ SnapshotInv /\ SavedInv /\ LatestInv

-----------------------------------------------------------------------------
(* What the constants give: a release's manifest carries its build.         *)
LEMMA ManifestFacts ==
    ASSUME NEW v \in Versions
    PROVE  /\ Manifest(v).artifact.sig = Build[v]
           /\ Manifest(v).artifact.sha256 = Build[v]
           /\ Manifest(v).version = v
           /\ Build[v] \in Contents
           /\ Manifest(v) # NoOffer
BY EngineConstants DEF Manifest

(* An accepted offer is the manifest of a release.                          *)
LEMMA OfferFacts ==
    ASSUME D!TypeOK, offer # NoOffer
    PROVE  /\ offer.version \in Versions
           /\ offer.artifact.sig = Build[offer.version]
           /\ Build[offer.version] \in Contents
BY ManifestFacts DEF D!TypeOK

(* The engine runs with one file, read where it is restored or not.         *)
LEMMA OneFile == Files = {Exe} /\ Exe \in Files /\ AppDir \in Dirs
BY EngineConstants, SelfHealConstants

(* Init gives the invariant.                                                *)
LEMMA EngineStart == EngineInit => EngineInv
<1> SUFFICES ASSUME EngineInit PROVE EngineInv
  OBVIOUS
<1>1. TypeInv
  BY InitType DEF EngineInit
<1>2. D!TypeOK
  <2>1. retry \in 0..MaxRetries /\ upsets \in 0..MaxNetFaults /\ failures \in Nat
    BY EngineConstants DEF EngineInit, D!Init
  <2>2. degraded \in BOOLEAN
    BY DEF EngineInit, D!Init
  <2>3. step \in D!Steps /\ result \in D!Results
    BY DEF EngineInit, D!Init, D!Steps, D!Results
  <2>4. QED
    BY <2>1, <2>2, <2>3, Zenon DEF EngineInit, D!Init, D!TypeOK
<1>3. EngineTypeOK
  BY <1>1, <1>2, EngineConstants DEF EngineInit, EngineTypeOK, TypeInv, Phases
<1>4. pc = "idle" /\ phase = "none" /\ step = "ready" /\ result = "none"
      /\ offer = NoOffer /\ outcome = "none" /\ dirs = {}
      /\ seal = [v \in Versions |-> NoFile]
  BY DEF EngineInit, Init, D!Init
<1>5. PhaseInv /\ StagingInv /\ SnapshotInv /\ SavedInv
  BY <1>4 DEF PhaseInv, StagingInv, SnapshotInv, SavedInv, SnapshotPCs
<1>6. LatestInv
  BY <1>4 DEF LatestInv, IsMostRecent
<1>7. QED
  BY <1>1, <1>3, <1>5, <1>6 DEF EngineInv, TypeInv

(* A step of a running take_snapshot or rollback keeps SelfHeal's types.    *)
LEMMA CallStepType ==
    ASSUME TypeInv, [Next]_selfHealVars
    PROVE  TypeInv'
<1>1. CASE UNCHANGED selfHealVars
  BY <1>1 DEF selfHealVars, TypeInv, TypeOK, CallInv, live, store, books, trail, call
<1>2. CASE Next
  BY <1>2, SnapshotType, RollbackType, EnvironmentType DEF Next
<1>3. QED
  BY <1>1, <1>2

(* What the engine's own steps may do around a call: change the installed   *)
(* executable while no call runs, count a fault, end a call.                *)
LEMMA AroundType ==
    ASSUME TypeInv, faults' \in 0..MaxFaults,
           UNCHANGED <<tmp, store, books, trail>>,
           UNCHANGED call \/ Return,
           \/ UNCHANGED tree
           \/ \E c \in Contents \cup {NoFile, Torn} :
                 tree' = [tree EXCEPT ![AppDir][Exe] = c]
    PROVE  TypeInv'
<1> USE DEF TypeInv, TypeOK, CallInv, store, books, trail, call
<1>1. tree' \in [Dirs -> [Files -> Contents \cup {NoFile, Torn}]]
  <2>1. ASSUME NEW c \in Contents \cup {NoFile, Torn},
               tree' = [tree EXCEPT ![AppDir][Exe] = c]
        PROVE  tree' \in [Dirs -> [Files -> Contents \cup {NoFile, Torn}]]
    BY <2>1, OneFile
  <2>2. QED
    BY <2>1
<1>2. CASE UNCHANGED call
  BY <1>1, <1>2
<1>3. CASE Return
  BY <1>1, <1>3 DEF Return, NoManifest, PCs, CopiedPCs, CountPCs
<1>4. QED
  BY <1>2, <1>3

(* The steps that belong to a running take_snapshot or rollback.            *)
StoreCall == TakeSnapshot \/ Rollback \/ IoError \/ BlacklistReadError

LEMMA CallsOfStore ==
    ASSUME EngineInv,
           \/ ApplySnapshot \/ SnapshotStep \/ SnapshotDone \/ SnapshotFailed
           \/ SynqroRollback \/ RollbackStep \/ RollbackOk \/ RollbackErr
    PROVE  StoreCall
<1>1. CASE ApplySnapshot
  BY <1>1, OfferFacts DEF EngineInv, EngineTypeOK, PhaseInv, ApplySnapshot, StoreCall, TakeSnapshot
<1>2. CASE SnapshotStep \/ SnapshotDone \/ SnapshotFailed
  BY <1>2, OneFile DEF SnapshotStep, SnapshotDone, SnapshotFailed, StoreCall, TakeSnapshot
<1>3. CASE SynqroRollback \/ RollbackStep \/ RollbackOk \/ RollbackErr
  BY <1>3, OneFile DEF SynqroRollback, RollbackStep, RollbackOk, RollbackErr, StoreCall, Rollback
<1>4. QED
  BY <1>1, <1>2, <1>3

(* Every step of the engine keeps the types of the self-heal store.         *)
LEMMA StoreTypeKept == EngineInv /\ [EngineNext]_engineVars => TypeInv'
<1> SUFFICES ASSUME EngineInv, [EngineNext]_engineVars PROVE TypeInv'
  OBVIOUS
<1>1. TypeInv /\ D!TypeOK /\ faults \in 0..MaxFaults
  BY DEF EngineInv, EngineTypeOK, TypeInv, TypeOK
<1>2. ASSUME NEW kind, Fault(kind) PROVE faults' \in 0..MaxFaults
  BY <1>1, <1>2, SelfHealConstants DEF Fault
<1>3. CASE \/ SynqroInit \/ CheckUpdate \/ CheckEnd \/ ApplyUpdate \/ FetchStep
           \/ FetchFailed \/ DownloadStep \/ DownloadFailed \/ UpdateApplied
           \/ (\E v \in Versions : Publish(v)) \/ UNCHANGED engineVars
  <2>1. UNCHANGED selfHealVars
    BY <1>3 DEF SynqroInit, CheckUpdate, CheckEnd, ApplyUpdate, FetchStep,
                FetchFailed, DownloadStep, DownloadFailed, UpdateApplied, Publish, engineVars
  <2>2. QED
    BY <1>1, <2>1, CallStepType
<1>4. CASE \/ ApplySnapshot \/ SnapshotStep \/ SnapshotDone \/ SnapshotFailed
           \/ SynqroRollback \/ RollbackStep \/ RollbackOk \/ RollbackErr
  <2>1. Next
    BY <1>4, CallsOfStore DEF StoreCall, Next, Environment
  <2>2. QED
    BY <1>1, <2>1, CallStepType
<1>5. CASE PrepareFailed \/ UpdateUnlogged \/ RollbackNotStarted
  <2>1. faults' \in 0..MaxFaults
    BY <1>1, <1>2, <1>5 DEF PrepareFailed, UpdateUnlogged, RollbackNotStarted
  <2>2. QED
    BY <1>1, <1>5, <2>1, AroundType
       DEF PrepareFailed, UpdateUnlogged, RollbackNotStarted, live, store, books, trail, call
<1>6. CASE HostInstall
  <2>1. final \in Contents \cup {NoFile, Torn}
    BY <1>1 DEF D!TypeOK
  <2>2. QED
    BY <1>1, <1>6, <2>1, AroundType DEF HostInstall
<1>7. CASE HostUnlink
  BY <1>1, <1>2, <1>7, AroundType DEF HostUnlink
<1>8. CASE ProcessCrash
  BY <1>1, <1>2, <1>8, AroundType DEF ProcessCrash, live
<1>9. QED
  BY <1>3, <1>4, <1>5, <1>6, <1>7, <1>8 DEF EngineNext, EngineSteps

-----------------------------------------------------------------------------
(* What a step of the manifest fetch does to the downloader.                *)
LEMMA FetchMoves ==
    ASSUME D!TypeOK, D!Fetch,
           step \in {"ready", "attempt"}, result # "staged",
           step = "attempt" => result = "none"
    PROVE  /\ D!TypeOK'
           /\ step' \in {"ready", "attempt"} /\ result' # "staged"
           /\ step' = "attempt" => result' = "none"
           /\ result' = "fetched" => offer' # NoOffer
           /\ UNCHANGED final
<1> DEFINE Good == /\ D!TypeOK'
                   /\ step' \in {"ready", "attempt"} /\ result' # "staged"
                   /\ step' = "attempt" => result' = "none"
                   /\ result' = "fetched" => offer' # NoOffer
                   /\ UNCHANGED final
<1> USE EngineConstants DEF D!TypeOK, D!Steps, D!Results, D!files, D!health
<1>1. CASE D!MayCall /\ D!BeginFetch
  BY <1>1 DEF D!MayCall, D!BeginFetch
<1>2. CASE D!FetchRefused
  BY <1>2 DEF D!FetchRefused, D!End
<1>3. CASE D!FetchNotStarted
  BY <1>3 DEF D!FetchNotStarted, D!End, D!Fault
<1>4. ASSUME NEW r \in {Manifest(v) : v \in Versions}, D!AttemptAccepted(r) PROVE Good
  BY <1>4 DEF D!AttemptAccepted, D!End, D!RecordSuccess
<1>5. ASSUME D!AttemptFailed, upsets' \in 0..MaxNetFaults PROVE Good
  <2>1. degraded' \in BOOLEAN /\ failures' \in Nat
    <3>1. failures' = failures + 1
      BY <1>5 DEF D!AttemptFailed, D!RecordFailure
    <3>2. degraded' = (degraded \/ failures + 1 >= D!DEGRADED_THRESHOLD)
      BY <1>5, Zenon DEF D!AttemptFailed, D!RecordFailure
    <3>3. QED
      BY <3>1, <3>2
  <2>2. /\ step' \in {"attempt", "ready"} /\ retry' \in 0..MaxRetries
        /\ body' \in {body, NoFile} /\ result' \in {"error", result}
        /\ step' = "attempt" => result' = "none"
        /\ result' # "fetched" /\ result' # "staged"
        /\ UNCHANGED <<offer, temp, final>>
    BY <1>5 DEF D!AttemptFailed, D!End
  <2>3. QED
    BY <1>5, <2>1, <2>2
<1>6. CASE D!AttemptUnanswered \/ \E r \in {Manifest(v) : v \in Versions} : D!AttemptRejected(r)
  BY <1>5, <1>6 DEF D!AttemptUnanswered, D!AttemptRejected
<1>7. CASE D!AttemptWithoutToken
  <2>1. upsets' \in 0..MaxNetFaults
    BY <1>7 DEF D!AttemptWithoutToken, D!Fault
  <2>2. QED
    BY <1>5, <1>7, <2>1 DEF D!AttemptWithoutToken
<1>8. QED
  BY <1>1, <1>2, <1>3, <1>4, <1>6, <1>7 DEF D!Fetch

(* What a step of the artifact download does: the manifest stays, and what  *)
(* is staged is the build of its version.                                   *)
LEMMA DownloadMoves ==
    ASSUME D!TypeOK, D!Download, StagingInv, offer # NoOffer, phase = "download",
           step # "ready" => result = "fetched", step # "attempt"
    PROVE  /\ D!TypeOK' /\ UNCHANGED offer
           /\ step' # "attempt" /\ (step' # "ready" => result' = "fetched")
           /\ result' = "fetched" => result = "fetched"
           /\ step' \in {"check", "rename"} => temp' = body'
           /\ step' = "rename" => body' = offer.artifact.sig
           /\ result' = "staged" => final' = Build[offer.version]
<1> DEFINE Good == /\ D!TypeOK' /\ UNCHANGED offer
                   /\ step' # "attempt" /\ (step' # "ready" => result' = "fetched")
                   /\ result' = "fetched" => result = "fetched"
                   /\ step' \in {"check", "rename"} => temp' = body'
                   /\ step' = "rename" => body' = offer.artifact.sig
                   /\ result' = "staged" => final' = Build[offer.version]
<1> USE EngineConstants DEF D!TypeOK, StagingInv, D!Steps, D!Results, D!files, D!health
<1>1. CASE D!BeginDownload
  BY <1>1 DEF D!BeginDownload, D!HasManifest, D!End, D!Goto
<1>2. CASE D!DownloadRefused \/ D!CheckUndecodable
  BY <1>2 DEF D!DownloadRefused, D!CheckUndecodable, D!End
<1>3. CASE D!DownloadWithoutToken
  BY <1>3 DEF D!DownloadWithoutToken, D!End, D!Fault
<1>4. ASSUME NEW q \in Contents, D!Stream(q) PROVE Good
  BY <1>4 DEF D!Stream, D!Goto
<1>5. CASE D!StreamFailed \/ D!CheckFailed
  <2>1. degraded' \in BOOLEAN /\ failures' \in Nat
    <3>1. failures' = failures + 1
      BY <1>5 DEF D!StreamFailed, D!CheckFailed, D!RecordFailure
    <3>2. degraded' = (degraded \/ failures + 1 >= D!DEGRADED_THRESHOLD)
      BY <1>5, Zenon DEF D!StreamFailed, D!CheckFailed, D!RecordFailure
    <3>3. QED
      BY <3>1, <3>2
  <2>2. /\ step' = "ready" /\ retry' = 0 /\ body' = NoFile /\ temp' = NoFile
        /\ result' = "error" /\ UNCHANGED <<offer, final, upsets>>
    BY <1>5 DEF D!StreamFailed, D!CheckFailed, D!End
  <2>3. QED
    BY <2>1, <2>2
<1>6. CASE D!Create \/ D!Fill
  BY <1>6 DEF D!Create, D!Fill, D!Goto
<1>7. CASE D!CheckPassed
  BY <1>7 DEF D!CheckPassed, D!Goto
<1>8. CASE D!Rename
  <2>1. final' = offer.artifact.sig
    BY <1>8 DEF D!Rename
  <2>2. final' = Build[offer.version] /\ final' \in Contents
    BY <2>1, OfferFacts
  <2>3. QED
    BY <1>8, <2>2 DEF D!Rename, D!RecordSuccess, D!End
<1>9. CASE D!StagingError
  BY <1>9 DEF D!StagingError, D!End, D!Fault
<1>10. QED
  BY <1>1, <1>2, <1>3, <1>4, <1>5, <1>6, <1>7, <1>8, <1>9 DEF D!Download

(* A call that starts, and a host that restarts, get a fresh downloader.    *)
LEMMA FreshMoves ==
    ASSUME D!TypeOK, FreshDownloader
    PROVE  /\ D!TypeOK'
           /\ step' = "ready" /\ result' = "none" /\ offer' = NoOffer
           /\ UNCHANGED final
<1>1. /\ step' = "ready" /\ retry' = 0 /\ body' = NoFile /\ offer' = NoOffer
      /\ result' = "none" /\ failures' = 0 /\ degraded' = FALSE
      /\ UNCHANGED <<temp, final, upsets>>
  BY DEF FreshDownloader
<1>2. /\ step' \in D!Steps /\ retry' \in 0..MaxRetries /\ result' \in D!Results
      /\ failures' \in Nat
  BY <1>1, EngineConstants DEF D!Steps, D!Results
<1>3. degraded' \in BOOLEAN
  BY <1>1
<1>4. D!TypeOK'
  BY <1>1, <1>2, <1>3, Zenon DEF D!TypeOK
<1>5. QED
  BY <1>1, <1>4

(* Every step keeps the types of the downloader, the order of phases, and   *)
(* what the downloader knows.                                               *)
LEMMA PhasesKept ==
    EngineInv /\ [EngineNext]_engineVars => D!TypeOK' /\ PhaseInv' /\ StagingInv'
<1> SUFFICES ASSUME EngineInv, [EngineNext]_engineVars
             PROVE  D!TypeOK' /\ PhaseInv' /\ StagingInv'
  OBVIOUS
<1>1. TypeOK /\ D!TypeOK /\ PhaseInv /\ StagingInv /\ phase \in Phases
  BY DEF EngineInv, EngineTypeOK
<1> USE DEF PhaseInv, StagingInv, Phases, SnapshotPCs, RestorePCs, CountPCs
<1>2. CASE CheckUpdate \/ ApplyUpdate
  BY <1>1, <1>2, FreshMoves DEF CheckUpdate, ApplyUpdate, Idle, selfHealVars, call
<1>3. CASE HostInstall
  BY <1>1, <1>3, FreshMoves DEF HostInstall, call
<1>4. CASE ProcessCrash
  BY <1>1, <1>4, FreshMoves DEF ProcessCrash, Leave, Return
<1>5. CASE FetchStep
  BY <1>1, <1>5, FetchMoves DEF FetchStep, selfHealVars, call
<1>6. CASE DownloadStep
  BY <1>1, <1>6, DownloadMoves DEF DownloadStep, selfHealVars, call
<1>7. ASSUME UNCHANGED downloader PROVE D!TypeOK'
  BY <1>1, <1>7 DEF D!TypeOK, downloader
<1>8. CASE \/ CheckEnd \/ FetchFailed \/ PrepareFailed \/ DownloadFailed
           \/ UpdateApplied \/ UpdateUnlogged
  BY <1>1, <1>7, <1>8 DEF CheckEnd, FetchFailed, PrepareFailed, DownloadFailed, UpdateApplied,
                    UpdateUnlogged, Leave, selfHealVars, call, downloader
<1>9. CASE ApplySnapshot
  BY <1>1, <1>7, <1>9 DEF ApplySnapshot, BeginSnapshot, downloader
<1>10. CASE SnapshotStep
  BY <1>1, <1>7, <1>10 DEF SnapshotStep, CopyOpen, CopyClose, SealOpen, Goto, downloader
<1>11. CASE SnapshotDone \/ SnapshotFailed
  BY <1>1, <1>7, <1>11 DEF SnapshotDone, SnapshotFailed, SealClose, CopyRefuse, IoError,
                           Return, Leave, downloader
<1>12. CASE SynqroRollback
  BY <1>1, <1>7, <1>12 DEF SynqroRollback, BeginRollback, Idle, downloader
<1>13. CASE RollbackStep
  BY <1>1, <1>7, <1>13 DEF RollbackStep, Load, Verify, Stage, Swap, LogSuccess, Count,
                           BlacklistVersion, BlacklistReadError, AddToBlacklist, BlacklistLog,
                           Goto, downloader
<1>14. CASE RollbackOk \/ RollbackErr
  BY <1>1, <1>7, <1>14 DEF RollbackOk, RollbackErr, ReturnOk, LoadRefuse, VerifyRefuse, IoError,
                           Return, Leave, downloader
<1>15. CASE \/ SynqroInit \/ RollbackNotStarted \/ HostUnlink
            \/ (\E v \in Versions : Publish(v)) \/ UNCHANGED engineVars
  BY <1>1, <1>7, <1>15 DEF SynqroInit, RollbackNotStarted, HostUnlink, Publish, Idle,
                     engineVars, selfHealVars, call, downloader
<1>16. QED
  BY <1>2, <1>3, <1>4, <1>5, <1>6, <1>8, <1>9, <1>10, <1>11, <1>12, <1>13, <1>14, <1>15
     DEF EngineNext, EngineSteps

-----------------------------------------------------------------------------
(* The engine's own variables and its history keep their types.             *)
LEMMA EngineTypeKept == EngineInv /\ [EngineNext]_engineVars => EngineTypeOK'
<1> SUFFICES ASSUME EngineInv, [EngineNext]_engineVars
             PROVE  /\ engine' \in {"unset", "set"} /\ phase' \in Phases
                    /\ published' \in Versions
                    /\ lastSnap' \in Records \cup {NoRecord}
                    /\ lastApply' \in Records \cup {NoRecord}
                    /\ outcome' \in {"none", "error", "applied", "rolled_back"}
  BY StoreTypeKept, PhasesKept DEF EngineTypeOK, TypeInv
<1>1. /\ engine \in {"unset", "set"} /\ phase \in Phases /\ published \in Versions
      /\ lastSnap \in Records \cup {NoRecord} /\ lastApply \in Records \cup {NoRecord}
      /\ outcome \in {"none", "error", "applied", "rolled_back"}
      /\ TypeInv
  BY DEF EngineInv, EngineTypeOK, TypeInv
<1> USE DEF Phases
<1>2. CASE SnapshotDone
  <2>1. man[Exe] \in Contents /\ ver \in Versions
    BY <1>1, <1>2, OneFile DEF SnapshotDone, SealClose, TypeInv, CallInv, Manifests
  <2>2. lastSnap' \in Records
    BY <1>2, <2>1 DEF SnapshotDone, Records
  <2>3. QED
    BY <1>1, <1>2, <2>2 DEF SnapshotDone, host
<1>3. CASE UpdateApplied
  <2>1. lastApply' = lastSnap /\ lastSnap \in Records
    BY <1>3 DEF UpdateApplied, EngineInv, SavedInv, Filed
  <2>2. QED
    BY <1>1, <1>3, <2>1 DEF UpdateApplied, Leave, host
<1>4. CASE SynqroInit \/ CheckUpdate \/ CheckEnd \/ ApplyUpdate \/ FetchStep \/ FetchFailed
           \/ PrepareFailed \/ ApplySnapshot \/ SnapshotStep \/ SnapshotFailed
           \/ DownloadStep \/ DownloadFailed \/ UpdateUnlogged
  BY <1>1, <1>4 DEF SynqroInit, CheckUpdate, CheckEnd, ApplyUpdate, FetchStep, FetchFailed,
     PrepareFailed, ApplySnapshot, SnapshotStep, SnapshotFailed, DownloadStep, DownloadFailed,
     UpdateUnlogged, Leave, host, history
<1>5. CASE SynqroRollback \/ RollbackNotStarted \/ RollbackStep \/ RollbackOk \/ RollbackErr
           \/ HostInstall \/ HostUnlink \/ ProcessCrash
           \/ (\E v \in Versions : Publish(v)) \/ UNCHANGED engineVars
  BY <1>1, <1>5 DEF SynqroRollback, RollbackNotStarted, RollbackStep, RollbackOk, RollbackErr,
     HostInstall, HostUnlink, ProcessCrash, Publish, Leave, host, history, engineVars
<1>6. QED
  BY <1>2, <1>3, <1>4, <1>5 DEF EngineNext, EngineSteps

(* While apply_update takes its snapshot the executable stays what was read. *)
LEMMA SnapshotKept == EngineInv /\ [EngineNext]_engineVars => SnapshotInv'
<1> SUFFICES ASSUME EngineInv, [EngineNext]_engineVars, pc' \in SnapshotPCs
             PROVE  SnapshotInv'
  BY DEF SnapshotInv, SnapshotPCs
<1>1. phase' = "snapshot"
  BY PhasesKept, EngineTypeKept
     DEF PhaseInv, EngineTypeOK, Phases, SnapshotPCs, RestorePCs, CountPCs
<1>2. TypeInv /\ SnapshotInv
  BY DEF EngineInv, EngineTypeOK, TypeInv
<1> USE DEF SnapshotInv, SnapshotPCs
<1>3. CASE ApplySnapshot
  BY <1>3 DEF ApplySnapshot, BeginSnapshot
<1>4. CASE SnapshotStep
  <2>1. CASE CopyOpen(Exe)
    BY <1>2, <2>1, OneFile DEF CopyOpen, live, TypeInv, TypeOK, CallInv
  <2>2. CASE CopyClose
    BY <1>2, <2>2, OneFile DEF CopyClose, live, TypeInv, TypeOK, CallInv
  <2>3. CASE SealOpen
    BY <1>2, <2>3 DEF SealOpen, Goto, live
  <2>4. QED
    BY <1>4, <2>1, <2>2, <2>3 DEF SnapshotStep
<1>5. CASE SynqroInit \/ (\E v \in Versions : Publish(v)) \/ UNCHANGED engineVars
  BY <1>2, <1>5 DEF SynqroInit, Publish, engineVars, selfHealVars, live, store, call
<1>6. QED
  BY <1>1, <1>3, <1>4, <1>5
     DEF EngineNext, EngineSteps, CheckUpdate, ApplyUpdate, SynqroRollback, RollbackNotStarted,
         Idle, CheckEnd, FetchStep, FetchFailed, PrepareFailed, SnapshotDone, SnapshotFailed,
         DownloadStep, DownloadFailed, UpdateApplied, UpdateUnlogged, RollbackStep, RollbackOk,
         RollbackErr, HostInstall, HostUnlink, ProcessCrash, Leave

(* The snapshot of the update in progress, and then of the update that was  *)
(* applied, is filed and intact until the next apply or rollback call.      *)
LEMMA SavedKept == EngineInv /\ [EngineNext]_engineVars => SavedInv'
<1> SUFFICES ASSUME EngineInv, [EngineNext]_engineVars PROVE SavedInv'
  OBVIOUS
<1>1. TypeInv /\ D!TypeOK /\ SavedInv /\ SnapshotInv /\ PhaseInv /\ StagingInv
  BY DEF EngineInv, EngineTypeOK, TypeInv
<1>2. SavedInv' <=> /\ phase' = "download" =>
                          /\ lastSnap' = [version |-> offer'.version,
                                          before |-> tree'[AppDir][Exe]]
                          /\ Filed(lastSnap)'
                    /\ outcome' = "applied" =>
                          /\ phase' \in {"none", "check"}
                          /\ lastApply' = lastSnap'
                          /\ Filed(lastApply)'
                          /\ final' = Build[lastApply'.version]
  BY DEF SavedInv
<1>3. ASSUME UNCHANGED <<store, history>>
      PROVE  /\ Filed(lastSnap)' <=> Filed(lastSnap)
             /\ Filed(lastApply)' <=> Filed(lastApply)
  BY <1>3 DEF store, history, Filed, Restores
<1>4. CASE SnapshotDone
  <2>1. /\ ver \in Versions /\ man \in Manifests /\ man[Exe] \in Contents
        /\ backup[ver][Exe] = man[Exe] /\ man[Exe] = tree[AppDir][Exe]
        /\ ver = offer.version
    BY <1>1, <1>4, OneFile
       DEF SnapshotDone, SealClose, TypeInv, CallInv, Manifests, SnapshotInv, SnapshotPCs, PhaseInv
  <2>2. backup[ver] = man
    BY <1>1, <2>1, OneFile DEF TypeInv, TypeOK, Manifests
  <2>3. /\ seal'[ver] = man /\ backup' = backup
        /\ lastSnap' = [version |-> ver, before |-> man[Exe]]
    BY <1>1, <1>4, <2>1 DEF SnapshotDone, SealClose, TypeInv, TypeOK
  <2>4. Filed(lastSnap)'
    BY <2>1, <2>2, <2>3 DEF Filed, Restores, Records
  <2>5. phase' = "download" /\ outcome' # "applied" /\ UNCHANGED <<tree, offer>>
    BY <1>1, <1>4 DEF SnapshotDone, SealClose, SavedInv, live, downloader
  <2>6. QED
    BY <1>2, <2>1, <2>3, <2>4, <2>5
<1>5. CASE DownloadStep
  <2>1. UNCHANGED <<store, history, tree, offer, phase, outcome>> /\ phase = "download"
    BY <1>1, <1>5, DownloadMoves DEF DownloadStep, selfHealVars, live, PhaseInv
  <2>2. QED
    BY <1>1, <1>2, <1>3, <2>1 DEF SavedInv, history
<1>6. CASE UpdateApplied
  <2>1. /\ UNCHANGED <<store, offer, final, lastSnap>>
        /\ lastSnap = [version |-> offer.version, before |-> tree[AppDir][Exe]]
        /\ Filed(lastSnap) /\ lastApply' = lastSnap /\ phase' = "none"
        /\ final = Build[offer.version]
    BY <1>1, <1>6 DEF UpdateApplied, Leave, SavedInv, StagingInv, selfHealVars, downloader
  <2>2. Filed(lastApply)'
    BY <2>1 DEF Filed, Restores, store
  <2>3. QED
    BY <1>2, <2>1, <2>2
<1>7. CASE FetchStep
  <2>1. UNCHANGED <<store, history, phase, outcome, final>> /\ phase # "download"
    BY <1>1, <1>7, FetchMoves DEF FetchStep, selfHealVars, PhaseInv
  <2>2. QED
    BY <1>1, <1>2, <1>3, <2>1 DEF SavedInv, history
<1>8. CASE CheckUpdate \/ CheckEnd \/ HostUnlink
  <2>1. /\ UNCHANGED <<store, history, outcome, final>>
        /\ phase' \in {"none", "check"} /\ phase \in {"none", "check"}
    BY <1>8 DEF CheckUpdate, CheckEnd, HostUnlink, FreshDownloader, Idle, downloader, selfHealVars
  <2>2. QED
    BY <1>1, <1>2, <1>3, <2>1 DEF SavedInv, history
<1>9. CASE SynqroInit \/ (\E v \in Versions : Publish(v)) \/ UNCHANGED engineVars
  <2>1. UNCHANGED <<store, history, tree, offer, final, phase, outcome>>
    BY <1>9 DEF SynqroInit, Publish, engineVars, selfHealVars, live, downloader
  <2>2. QED
    BY <1>1, <1>2, <1>3, <2>1 DEF SavedInv, history
<1>10. CASE \/ ApplyUpdate \/ FetchFailed \/ PrepareFailed \/ ApplySnapshot \/ SnapshotStep
            \/ SnapshotFailed \/ DownloadFailed \/ UpdateUnlogged
            \/ SynqroRollback \/ RollbackNotStarted \/ RollbackStep \/ RollbackOk \/ RollbackErr
            \/ HostInstall \/ ProcessCrash
  <2>1. phase' # "download" /\ outcome' # "applied"
    BY <1>1, <1>10 DEF ApplyUpdate, FetchFailed, PrepareFailed, ApplySnapshot, SnapshotStep,
       SnapshotFailed, DownloadFailed, UpdateUnlogged, SynqroRollback, RollbackNotStarted,
       RollbackStep, RollbackOk, RollbackErr, HostInstall, ProcessCrash, Leave, Idle, SavedInv
  <2>2. QED
    BY <1>2, <2>1
<1>11. QED
  BY <1>4, <1>5, <1>6, <1>7, <1>8, <1>9, <1>10 DEF EngineNext, EngineSteps

-----------------------------------------------------------------------------
(* Ranks are numbers, and no two releases share one.                        *)
LEMMA RankFacts ==
    /\ \A v \in Versions : LexRank[v] \in Nat /\ ReleaseRank[v] \in Nat
    /\ \A v, w \in Versions : LexRank[v] <= LexRank[w] /\ LexRank[w] <= LexRank[v] => v = w
BY EngineConstants

(* The parts of LatestInv, under its condition.                             *)
Newest ==
    /\ \A w \in dirs : LexRank[w] <= LexRank[published]
    /\ offer # NoOffer => \A w \in dirs : LexRank[w] <= LexRank[offer.version]
    /\ offer # NoOffer => LexRank[offer.version] <= LexRank[published]
    /\ phase \in {"snapshot", "download"} => offer.version \in dirs
    /\ \A v \in Versions \ dirs : seal[v] = NoFile

LastIsNewest ==
    \A v \in Versions :
        IsMostRecent(v) /\ seal[v] \in Manifests =>
            lastSnap = [version |-> v, before |-> seal[v][Exe]]

NewestRestored ==
    /\ phase = "rollback" => IsMostRecent(ver)
    /\ phase = "rollback" /\ pc # "load" => man[Exe] = lastSnap.before

AppliedIsNewest == outcome = "applied" => IsMostRecent(lastApply.version)

(* Every release that is fetched is at least as new as any that was         *)
(* snapshotted, and directories are only added for it.                      *)
LEMMA NewestKept ==
    OrderedReleases /\ EngineInv /\ Newest /\ [EngineNext]_engineVars => Newest'
<1> SUFFICES ASSUME OrderedReleases, EngineInv, Newest, [EngineNext]_engineVars
             PROVE  Newest'
  OBVIOUS
<1>1. TypeOK /\ D!TypeOK /\ PhaseInv /\ phase \in Phases /\ published \in Versions
      /\ CallInv /\ dirs \subseteq Versions
  BY DEF EngineInv, EngineTypeOK, TypeOK
<1>2. ASSUME UNCHANGED <<dirs, seal, offer, published>>,
             phase' \in {"snapshot", "download"} => phase \in {"snapshot", "download"}
      PROVE  Newest'
  BY <1>2 DEF Newest
<1>3. ASSUME UNCHANGED <<dirs, seal, published>>, offer' = NoOffer,
             phase' \notin {"snapshot", "download"}
      PROVE  Newest'
  BY <1>3 DEF Newest
<1>4. CASE ApplySnapshot
  <2>1. /\ offer # NoOffer /\ offer.version \in Versions
        /\ dirs' = dirs \cup {offer.version} /\ UNCHANGED <<seal, offer, published>>
    BY <1>1, <1>4, OfferFacts DEF ApplySnapshot, BeginSnapshot, PhaseInv, downloader, host
  <2>2. LexRank[offer.version] <= LexRank[offer.version]
    BY <2>1, RankFacts
  <2>3. QED
    BY <2>1, <2>2 DEF Newest
<1>5. CASE \E v \in Versions : Publish(v)
  <2>1. PICK v \in Versions : Publish(v)
    BY <1>5
  <2>2. published' = v /\ UNCHANGED <<dirs, seal, offer, phase>>
    BY <2>1 DEF Publish, selfHealVars, store, downloader
  <2>3. LexRank[published] <= LexRank[v]
    <3>1. ReleaseRank[v] > ReleaseRank[published]
      BY <2>1 DEF Publish, OrderedReleases
    <3>2. ReleaseRank[published] <= ReleaseRank[v]
      BY <1>1, <3>1, RankFacts
    <3>3. QED
      BY <1>1, <3>2 DEF OrderedReleases
  <2>4. \A w \in Versions : LexRank[w] <= LexRank[published] => LexRank[w] <= LexRank[v]
    BY <1>1, <2>3, RankFacts
  <2>5. offer # NoOffer => offer.version \in Versions
    BY <1>1, OfferFacts
  <2>6. QED
    BY <1>1, <2>2, <2>4, <2>5 DEF Newest
<1>6. CASE FetchStep
  <2>1. /\ UNCHANGED <<dirs, seal, published, phase>> /\ phase \in {"check", "fetch"}
        /\ offer' \in {NoOffer, Manifest(published)}
    BY <1>6 DEF FetchStep, selfHealVars, store, host
  <2>2. LexRank[published] <= LexRank[published] /\ Manifest(published).version = published
    BY <1>1, RankFacts, ManifestFacts
  <2>3. QED
    BY <2>1, <2>2 DEF Newest
<1>7. CASE SnapshotStep \/ SnapshotDone
  <2>1. PICK x : seal' = [seal EXCEPT ![ver] = x] \/ seal' = seal
    BY <1>7 DEF SnapshotStep, SnapshotDone, CopyOpen, CopyClose, SealOpen, SealClose
  <2>2. /\ ver = offer.version /\ phase = "snapshot"
        /\ UNCHANGED <<dirs, offer, published>>
    BY <1>1, <1>7 DEF SnapshotStep, SnapshotDone, CopyOpen, CopyClose, SealOpen, SealClose,
                      PhaseInv, store, downloader, host
  <2>3. \A v \in Versions \ dirs : seal'[v] = seal[v]
    BY <1>1, <2>1, <2>2 DEF TypeOK, Newest
  <2>4. QED
    BY <2>2, <2>3 DEF Newest
<1>8. CASE CheckUpdate \/ ApplyUpdate \/ HostInstall \/ ProcessCrash
  BY <1>3, <1>8 DEF CheckUpdate, ApplyUpdate, HostInstall, ProcessCrash, FreshDownloader, Leave,
                    selfHealVars, store, host
<1>9. CASE DownloadStep
  BY <1>1, <1>2, <1>9, DownloadMoves
     DEF DownloadStep, selfHealVars, store, host, PhaseInv, EngineInv
<1>10. CASE \/ SynqroInit \/ CheckEnd \/ FetchFailed \/ PrepareFailed \/ SnapshotFailed
            \/ DownloadFailed \/ UpdateApplied \/ UpdateUnlogged
            \/ RollbackNotStarted \/ HostUnlink \/ UNCHANGED engineVars
  BY <1>2, <1>10 DEF SynqroInit, CheckEnd, FetchFailed, PrepareFailed, SnapshotFailed,
     DownloadFailed, UpdateApplied, UpdateUnlogged, RollbackNotStarted, HostUnlink, CopyRefuse,
     IoError, Leave, engineVars, selfHealVars, store, downloader, host
<1>11. CASE SynqroRollback \/ RollbackStep \/ RollbackOk \/ RollbackErr
  BY <1>2, <1>11 DEF SynqroRollback, RollbackStep, RollbackOk, RollbackErr, BeginRollback, Load,
     Verify, Stage, Swap, LogSuccess, Count, BlacklistVersion, BlacklistReadError,
     AddToBlacklist, BlacklistLog, ReturnOk, LoadRefuse, VerifyRefuse, IoError, Leave,
     store, downloader, host
<1>12. QED
  BY <1>4, <1>5, <1>6, <1>7, <1>8, <1>9, <1>10, <1>11 DEF EngineNext, EngineSteps

(* A damaged or missing snapshot.json is no manifest.                       *)
LEMMA NoManifestMarker == Torn \notin Manifests /\ NoFile \notin Manifests
BY DistinctMarkers DEF Manifests

(* The newest directory, once its snapshot is complete, is the last one     *)
(* that was completed.                                                      *)
LEMMA LastKept ==
    OrderedReleases /\ EngineInv /\ Newest /\ LastIsNewest /\ [EngineNext]_engineVars
        => LastIsNewest'
<1> SUFFICES ASSUME OrderedReleases, EngineInv, Newest, LastIsNewest, [EngineNext]_engineVars
             PROVE  LastIsNewest'
  OBVIOUS
<1>1. TypeInv /\ TypeOK /\ D!TypeOK /\ PhaseInv /\ dirs \subseteq Versions
  BY DEF EngineInv, EngineTypeOK, TypeInv, TypeOK
<1>2. ASSUME UNCHANGED <<dirs, seal, lastSnap>> PROVE LastIsNewest'
  BY <1>2 DEF LastIsNewest, IsMostRecent
<1>3. CASE ApplySnapshot
  <2> DEFINE o == offer.version
  <2>1. /\ offer # NoOffer /\ o \in Versions
        /\ dirs' = dirs \cup {o} /\ UNCHANGED <<seal, lastSnap>>
    BY <1>1, <1>3, OfferFacts DEF ApplySnapshot, BeginSnapshot, PhaseInv, history
  <2>2. ASSUME NEW v \in Versions, IsMostRecent(v)', seal[v] \in Manifests
        PROVE  IsMostRecent(v)
    <3>1. v \in dirs
      BY <2>1, <2>2, NoManifestMarker DEF Newest
    <3>2. \A w \in dirs : LexRank[w] <= LexRank[v]
      BY <2>1, <2>2 DEF IsMostRecent
    <3>3. QED
      BY <3>1, <3>2 DEF IsMostRecent
  <2>3. QED
    BY <2>1, <2>2 DEF LastIsNewest
<1>4. CASE SnapshotStep
  <2>1. CASE CopyOpen(Exe) \/ CopyClose
    BY <1>2, <1>4, <2>1 DEF CopyOpen, CopyClose, SnapshotStep, history
  <2>2. CASE SealOpen
    <3>1. seal' = [seal EXCEPT ![ver] = Torn] /\ UNCHANGED <<dirs, lastSnap>>
      BY <1>4, <2>2 DEF SealOpen, SnapshotStep, history
    <3>2. \A v \in Versions : seal'[v] \in Manifests => seal'[v] = seal[v]
      BY <1>1, <3>1, NoManifestMarker DEF TypeOK
    <3>3. \A v \in Versions : IsMostRecent(v)' <=> IsMostRecent(v)
      BY <3>1 DEF IsMostRecent
    <3>4. QED
      BY <3>1, <3>2, <3>3 DEF LastIsNewest
  <2>3. QED
    BY <1>4, <2>1, <2>2 DEF SnapshotStep
<1>5. CASE SnapshotDone
  <2>1. /\ ver = offer.version /\ ver \in Versions /\ ver \in dirs
        /\ \A w \in dirs : LexRank[w] <= LexRank[ver]
        /\ dirs' = dirs
    BY <1>1, <1>5, OfferFacts DEF SnapshotDone, SealClose, PhaseInv, Newest
  <2>2. seal'[ver] = man /\ lastSnap' = [version |-> ver, before |-> man[Exe]]
    BY <1>1, <1>5, <2>1 DEF SnapshotDone, SealClose, TypeOK
  <2>3. \A v \in Versions : IsMostRecent(v)' => v = ver
    BY <2>1, RankFacts DEF IsMostRecent
  <2>4. QED
    BY <2>2, <2>3 DEF LastIsNewest
<1>6. CASE \/ SynqroInit \/ CheckUpdate \/ CheckEnd \/ ApplyUpdate \/ FetchStep \/ FetchFailed
           \/ PrepareFailed \/ SnapshotFailed \/ DownloadStep \/ DownloadFailed
           \/ UpdateApplied \/ UpdateUnlogged
           \/ (\E v \in Versions : Publish(v)) \/ UNCHANGED engineVars
  BY <1>2, <1>6 DEF SynqroInit, CheckUpdate, CheckEnd, ApplyUpdate, FetchStep, FetchFailed,
     PrepareFailed, SnapshotFailed, DownloadStep, DownloadFailed, UpdateApplied, UpdateUnlogged,
     Publish, CopyRefuse, IoError, engineVars, selfHealVars, store, history
<1>7. CASE \/ SynqroRollback \/ RollbackNotStarted \/ RollbackStep \/ RollbackOk \/ RollbackErr
           \/ HostInstall \/ HostUnlink \/ ProcessCrash
  BY <1>2, <1>7 DEF SynqroRollback, RollbackNotStarted, RollbackStep, RollbackOk, RollbackErr,
     HostInstall, HostUnlink, ProcessCrash, BeginRollback, Load, Verify, Stage, Swap, LogSuccess,
     Count, BlacklistVersion, BlacklistReadError, AddToBlacklist, BlacklistLog, ReturnOk,
     LoadRefuse, VerifyRefuse, IoError, store, history
<1>8. QED
  BY <1>3, <1>4, <1>5, <1>6, <1>7 DEF EngineNext, EngineSteps

(* synqro_rollback works on the newest directory, and what it loads there   *)
(* is the last snapshot that was completed.                                 *)
LEMMA RestoredKept ==
    EngineInv /\ LastIsNewest /\ NewestRestored /\ [EngineNext]_engineVars => NewestRestored'
<1> SUFFICES ASSUME EngineInv, LastIsNewest, NewestRestored, [EngineNext]_engineVars,
                    phase' = "rollback"
             PROVE  IsMostRecent(ver)' /\ (pc' # "load" => man'[Exe] = lastSnap'.before)
  BY DEF NewestRestored
<1>1. TypeInv
  BY DEF EngineInv, EngineTypeOK, TypeInv
<1>2. CASE SynqroRollback
  BY <1>2 DEF SynqroRollback, BeginRollback, store, IsMostRecent
<1>3. CASE RollbackStep
  <2>1. phase = "rollback" /\ IsMostRecent(ver) /\ UNCHANGED <<dirs, ver, lastSnap>>
    BY <1>3 DEF RollbackStep, NewestRestored, Load, Verify, Stage, Swap, LogSuccess, Count,
                BlacklistVersion, BlacklistReadError, AddToBlacklist, BlacklistLog, Goto,
                store, history
  <2>2. CASE Load
    <3>1. ver \in Versions /\ seal[ver] \in Manifests /\ man' = seal[ver]
      BY <1>1, <2>2 DEF Load, TypeInv, CallInv
    <3>2. lastSnap = [version |-> ver, before |-> seal[ver][Exe]]
      BY <2>1, <3>1 DEF LastIsNewest
    <3>3. QED
      BY <2>1, <3>1, <3>2 DEF IsMostRecent
  <2>3. CASE ~Load
    BY <1>3, <2>1, <2>3 DEF RollbackStep, NewestRestored, Verify, Stage, Swap, LogSuccess, Count,
       BlacklistVersion, BlacklistReadError, AddToBlacklist, BlacklistLog, Goto, IsMostRecent
  <2>4. QED
    BY <2>2, <2>3
<1>4. CASE SynqroInit \/ (\E v \in Versions : Publish(v)) \/ UNCHANGED engineVars
  BY <1>4 DEF SynqroInit, Publish, engineVars, selfHealVars, store, call, history,
              NewestRestored, IsMostRecent
<1>5. QED
  BY <1>2, <1>3, <1>4
     DEF EngineNext, EngineSteps, CheckUpdate, ApplyUpdate, RollbackNotStarted,
         Idle, CheckEnd, FetchStep, FetchFailed, PrepareFailed, ApplySnapshot, SnapshotStep,
         SnapshotDone, SnapshotFailed, DownloadStep, DownloadFailed, UpdateApplied,
         UpdateUnlogged, RollbackOk, RollbackErr, HostInstall, HostUnlink, ProcessCrash, Leave

(* The version that was applied stays the newest one until the next call.   *)
LEMMA AppliedKept ==
    EngineInv /\ Newest /\ AppliedIsNewest /\ [EngineNext]_engineVars => AppliedIsNewest'
<1> SUFFICES ASSUME EngineInv, Newest, AppliedIsNewest, [EngineNext]_engineVars,
                    outcome' = "applied"
             PROVE  IsMostRecent(lastApply.version)'
  BY DEF AppliedIsNewest
<1>1. PhaseInv /\ (outcome = "applied" => phase \in {"none", "check"})
  BY DEF EngineInv, SavedInv
<1>2. ASSUME UNCHANGED <<dirs, lastApply, outcome>> PROVE IsMostRecent(lastApply.version)'
  BY <1>2 DEF AppliedIsNewest, IsMostRecent
<1>3. CASE UpdateApplied
  <2>1. lastApply'.version = offer.version /\ dirs' = dirs
    BY <1>3 DEF UpdateApplied, selfHealVars, store
  <2>2. IsMostRecent(offer.version)
    BY <1>1, <1>3 DEF UpdateApplied, PhaseInv, Newest, IsMostRecent
  <2>3. QED
    BY <2>1, <2>2 DEF IsMostRecent
<1>4. CASE \/ SynqroInit \/ CheckUpdate \/ CheckEnd \/ FetchStep \/ DownloadStep
           \/ HostUnlink \/ (\E v \in Versions : Publish(v)) \/ UNCHANGED engineVars
  BY <1>2, <1>4 DEF SynqroInit, CheckUpdate, CheckEnd, FetchStep, DownloadStep, HostUnlink,
                    Publish, engineVars, selfHealVars, store, history
<1>5. QED
  BY <1>1, <1>3, <1>4
     DEF EngineNext, EngineSteps, ApplyUpdate, FetchFailed, PrepareFailed, ApplySnapshot,
         SnapshotStep, SnapshotDone, SnapshotFailed, DownloadFailed, UpdateUnlogged,
         SynqroRollback, RollbackNotStarted, RollbackStep, RollbackOk, RollbackErr,
         HostInstall, ProcessCrash, Leave, Idle

-----------------------------------------------------------------------------
(* The invariant is inductive.                                              *)
LEMMA EngineInvariant == EngineSpec => []EngineInv
<1>1. LatestInv <=> (OrderedReleases => Newest /\ LastIsNewest /\ NewestRestored /\ AppliedIsNewest)
  BY DEF LatestInv, Newest, LastIsNewest, NewestRestored, AppliedIsNewest
<1>2. LatestInv' <=> (OrderedReleases =>
                      Newest' /\ LastIsNewest' /\ NewestRestored' /\ AppliedIsNewest')
  BY DEF LatestInv, Newest, LastIsNewest, NewestRestored, AppliedIsNewest
<1>3. EngineInv /\ [EngineNext]_engineVars => LatestInv'
  BY <1>1, <1>2, NewestKept, LastKept, RestoredKept, AppliedKept DEF EngineInv
<1>4. EngineInv /\ [EngineNext]_engineVars => EngineInv'
  BY <1>3, StoreTypeKept, EngineTypeKept, PhasesKept, SnapshotKept, SavedKept
     DEF EngineInv, TypeInv
<1>5. QED
  BY <1>4, EngineStart, PTL DEF EngineSpec

(* lib.rs:150-420: every variable of the engine, of its self-heal store and *)
(* of its downloader keeps its type.                                        *)
THEOREM EngineType == EngineSpec => []EngineTypeOK
<1>1. EngineInv => EngineTypeOK
  BY DEF EngineInv
<1>2. QED
  BY <1>1, EngineInvariant, PTL

(* lib.rs:290-330: what apply_update leaves in the staging directory when   *)
(* it returns Ok is the build of the version it logged.                     *)
THEOREM AppliedMeansStaged == EngineSpec => []AppliedIsStaged
<1>1. EngineInv => AppliedIsStaged
  BY DEF EngineInv, SavedInv, AppliedIsStaged
<1>2. QED
  BY <1>1, EngineInvariant, PTL

(* The snapshot filed under the applied version is intact and holds what    *)
(* was installed when the update was applied.                               *)
AppliedIsFiled == outcome = "applied" => Filed(lastApply) /\ lastApply = lastSnap

(* lib.rs:271-290: whatever the releases are called and in whatever order   *)
(* they are served, the snapshot of the applied update is filed and intact  *)
(* until the next call: what can go wrong is only which one is picked.      *)
THEOREM AppliedSnapshotIntact == EngineSpec => []AppliedIsFiled
<1>1. EngineInv => AppliedIsFiled
  BY DEF EngineInv, SavedInv, AppliedIsFiled
<1>2. QED
  BY <1>1, EngineInvariant, PTL

(* lib.rs:271, lib.rs:515: when no older release is served after a newer    *)
(* one and the strings v<version> sort as the versions do, a rollback       *)
(* called after an apply_update that returned Ok picks the intact snapshot  *)
(* of what was installed when the update was applied.                       *)
THEOREM AppliedReversible == OrderedReleases => (EngineSpec => []AppliedIsReversible)
<1> SUFFICES ASSUME OrderedReleases PROVE EngineSpec => []AppliedIsReversible
  OBVIOUS
<1>1. EngineInv => AppliedIsReversible
  <2> SUFFICES ASSUME EngineInv, outcome = "applied"
               PROVE  \E v \in Versions : /\ IsMostRecent(v) /\ Restores(v)
                                          /\ seal[v][Exe] = lastApply.before
    BY DEF AppliedIsReversible
  <2>1. Filed(lastApply) /\ lastApply.version \in Versions
    BY DEF EngineInv, SavedInv, Filed, Records
  <2>2. IsMostRecent(lastApply.version)
    BY DEF EngineInv, LatestInv
  <2>3. QED
    BY <2>1, <2>2 DEF Filed
<1>2. QED
  BY <1>1, EngineInvariant, PTL

(* synqro.h:304: under the same conditions a rollback restores the snapshot *)
(* of the most recent apply_update that completed one.                      *)
THEOREM LatestSnapshotRestored == OrderedReleases => (EngineSpec => []RestoresLatestSnapshot)
<1> SUFFICES ASSUME OrderedReleases PROVE EngineSpec => []RestoresLatestSnapshot
  OBVIOUS
<1>1. EngineInv => RestoresLatestSnapshot
  BY DEF EngineInv, LatestInv, RestoresLatestSnapshot, CountPCs
<1>2. QED
  BY <1>1, EngineInvariant, PTL

-----------------------------------------------------------------------------
(* The self-heal store inside the engine                                    *)

(* What the engine does to the store beside the steps of its own calls: at  *)
(* most the installed executable changes and a fault is counted, and no     *)
(* call of the store runs.                                                  *)
BesideStore ==
    /\ pc = "idle" /\ pc' = "idle"
    /\ \E m \in [Files -> Contents \cup {NoFile}] :
          tree' \in {tree, [tree EXCEPT ![AppDir] = m]}
    /\ faults' \in {faults, faults + 1}
    /\ UNCHANGED <<tmp, store, books, trail>>

(* A change of the one file is a change of the directory it is in.          *)
LEMMA PutExe ==
    ASSUME TypeInv, LiveFilesWhole, NEW c \in Contents \cup {NoFile},
           tree' \in {tree, [tree EXCEPT ![AppDir][Exe] = c]}
    PROVE  \E m \in [Files -> Contents \cup {NoFile}] :
              tree' \in {tree, [tree EXCEPT ![AppDir] = m]}
<1>1. tree[AppDir] \in [Files -> Contents \cup {NoFile}]
  BY OneFile DEF TypeInv, TypeOK, LiveFilesWhole
<1>2. CASE tree' = tree
  BY <1>1, <1>2
<1>3. CASE tree' = [tree EXCEPT ![AppDir][Exe] = c]
  <2> DEFINE m == [tree[AppDir] EXCEPT ![Exe] = c]
  <2>1. m \in [Files -> Contents \cup {NoFile}]
    BY <1>1
  <2>2. tree' = [tree EXCEPT ![AppDir] = m]
    BY <1>3
  <2>3. QED
    BY <2>1, <2>2
<1>4. QED
  BY <1>2, <1>3

(* Every step of the engine is, for the store, a step of one of its calls   *)
(* or of its environment, or lies beside it.                                *)
LEMMA StoreStep ==
    EngineInv /\ LiveFilesWhole /\ [EngineNext]_engineVars => [Next]_vars \/ BesideStore
<1> SUFFICES ASSUME EngineInv, LiveFilesWhole, [EngineNext]_engineVars
             PROVE  [Next]_vars \/ BesideStore
  OBVIOUS
<1>1. TypeInv /\ D!TypeOK /\ PhaseInv
  BY DEF EngineInv, EngineTypeOK, TypeInv
<1>2. ASSUME pc = "idle", pc' = "idle", NEW c \in Contents \cup {NoFile},
             tree' \in {tree, [tree EXCEPT ![AppDir][Exe] = c]},
             faults' \in {faults, faults + 1},
             UNCHANGED <<tmp, store, books, trail>>
      PROVE  BesideStore
  BY <1>1, <1>2, PutExe DEF BesideStore
<1>3. CASE \/ SynqroInit \/ CheckUpdate \/ CheckEnd \/ ApplyUpdate \/ FetchStep
           \/ FetchFailed \/ DownloadStep \/ DownloadFailed \/ UpdateApplied
           \/ (\E v \in Versions : Publish(v)) \/ UNCHANGED engineVars
  BY <1>3 DEF SynqroInit, CheckUpdate, CheckEnd, ApplyUpdate, FetchStep, FetchFailed,
              DownloadStep, DownloadFailed, UpdateApplied, Publish, engineVars,
              selfHealVars, vars
<1>4. CASE \/ ApplySnapshot \/ SnapshotStep \/ SnapshotDone \/ SnapshotFailed
           \/ SynqroRollback \/ RollbackStep \/ RollbackOk \/ RollbackErr
  BY <1>4, CallsOfStore DEF StoreCall, Next, Environment
<1>5. CASE PrepareFailed \/ UpdateUnlogged \/ RollbackNotStarted
  <2>1. pc = "idle"
    BY <1>1, <1>5 DEF PrepareFailed, UpdateUnlogged, RollbackNotStarted, Idle, PhaseInv
  <2>2. /\ tree' = tree /\ pc' = pc /\ UNCHANGED <<tmp, store, books, trail>>
        /\ faults' \in {faults, faults + 1}
    BY <1>5 DEF PrepareFailed, UpdateUnlogged, RollbackNotStarted, Fault, live, call
  <2>3. QED
    BY <1>2, <2>1, <2>2
<1>6. CASE HostInstall
  <2>1. final \in Contents
    BY <1>6, ManifestFacts DEF HostInstall, EngineInv, SavedInv, Filed, Records
  <2>2. QED
    BY <1>1, <1>2, <1>6, <2>1 DEF HostInstall, PhaseInv, call
<1>7. CASE HostUnlink
  BY <1>1, <1>2, <1>7 DEF HostUnlink, PhaseInv, Fault, call
<1>8. CASE ProcessCrash
  <2>1. CASE pc = "idle"
    BY <1>2, <1>8, <2>1 DEF ProcessCrash, Return, Fault, live
  <2>2. CASE pc # "idle"
    BY <1>8, <2>2 DEF ProcessCrash, Crash, Next, Environment
  <2>3. QED
    BY <2>1, <2>2
<1>9. QED
  BY <1>3, <1>4, <1>5, <1>6, <1>7, <1>8 DEF EngineNext, EngineSteps

(* What the properties of the store rest on, in the engine around it.       *)
StoreInv == RefinementInv /\ OkRollbacksBlacklist /\ HiddenInv /\ SnapshotsInv

(* Beside the store nothing changes that its properties speak of.           *)
LEMMA BesideKeeps ==
    ASSUME StoreInv, TypeInv', BesideStore
    PROVE  StoreInv'
<1> USE DEF StoreInv, RefinementInv, BesideStore, store, books, trail
<1>1. RestoreInv' /\ ReadInv'
  BY DEF RestoreInv, ReadInv, CopiedPCs, CountPCs
<1>2. BooksInv' /\ OkRollbacksBlacklist'
  BY DEF BooksInv, OkRollbacksBlacklist, CountPCs
<1>3. LiveFilesWhole'
  <2>1. PICK m \in [Files -> Contents \cup {NoFile}] :
           tree' \in {tree, [tree EXCEPT ![AppDir] = m]}
    OBVIOUS
  <2>2. \A f \in Files : m[f] # Torn
    BY DistinctMarkers
  <2>3. QED
    BY <2>1, <2>2, SelfHealConstants DEF TypeInv, TypeOK, LiveFilesWhole
<1>4. HiddenInv'
  <2>1. faults \in Nat /\ \A v \in Versions : successes[v] \in Nat /\ counters[v] \in Nat
    BY DEF TypeInv, TypeOK
  <2>2. QED
    BY <2>1 DEF HiddenInv, BelowThreshold, BlacklistThreshold
<1>5. SnapshotsInv'
  BY DEF SnapshotsInv, CopyInv, SealedSnapshotKept, CopiedPCs
<1>6. QED
  BY <1>1, <1>2, <1>3, <1>4, <1>5

(* The properties of the store hold in the engine.                          *)
LEMMA StoreInvariant == EngineSpec => []StoreInv
<1>1. EngineInit => StoreInv
  BY InitType, RestoreStart, BooksStart, ReadStart, FilesStart, OksStart, HiddenStart,
     SnapshotsStart
     DEF EngineInit, StoreInv, RefinementInv
<1>2. EngineInv /\ StoreInv /\ [EngineNext]_engineVars => StoreInv'
  <2> SUFFICES ASSUME EngineInv, StoreInv, [EngineNext]_engineVars PROVE StoreInv'
    OBVIOUS
  <2>1. TypeInv'
    BY StoreTypeKept
  <2>2. [Next]_vars \/ BesideStore
    BY StoreStep DEF StoreInv, RefinementInv
  <2>3. CASE [Next]_vars
    BY <2>1, <2>3, RestoreKept, BooksKept, ReadKept, FilesKept, OksKept, HiddenKept,
       SnapshotsKept
       DEF StoreInv, RefinementInv
  <2>4. QED
    BY <2>1, <2>2, <2>3, BesideKeeps
<1>3. QED
  BY <1>1, <1>2, EngineInvariant, PTL DEF EngineSpec

(* rollback.rs:278-463 as synqro_apply_update and synqro_rollback use it:   *)
(* between the calls of the API, whatever the host, the publisher and the   *)
(* downloader do, the store keeps what it promises of one call at a time.   *)
THEOREM StoreStaysSafe ==
    EngineSpec => [](/\ SuccessMeansRestored /\ LiveFilesWhole /\ SealedSnapshotKept
                     /\ OkRollbacksBlacklist /\ BlacklistJustified
                     /\ FaultsHideOneRollbackEach)
<1>1. StoreInv => /\ SuccessMeansRestored /\ LiveFilesWhole /\ SealedSnapshotKept
                  /\ OkRollbacksBlacklist /\ BlacklistJustified
                  /\ FaultsHideOneRollbackEach
  BY RestoredFromInv, JustifiedFromInv, HiddenFromInv DEF StoreInv, RefinementInv, SnapshotsInv
<1>2. QED
  BY <1>1, StoreInvariant, PTL

(* lib.rs:290 and rollback.rs:341: in the engine, where applying the same   *)
(* manifest again snapshots a sealed version again, a rollback raises       *)
(* BACKUP_TAMPERED of an undamaged backup only if that was interrupted.     *)
THEOREM EngineAlarmsAreReal == EngineSpec => AlarmsAreReal
<1>1. StoreInv /\ EngineInv /\ [EngineNext]_engineVars
         => [ "rot" \notin Faults => alarms' \subseteq alarms \cup rewritten ]_vars
  <2>1. BesideStore => alarms' = alarms
    BY DEF BesideStore, trail
  <2>2. QED
    BY <2>1, StoreStep, AlarmsKept DEF StoreInv, RefinementInv
<1>2. QED
  BY <1>1, StoreInvariant, EngineInvariant, PTL DEF EngineSpec, AlarmsAreReal

Builds == {Build[v] : v \in Versions}

(* Genuine bytes are what the host installs, what snapshots read from the   *)
(* installation, and so what rollbacks load and put back.                   *)
GenuineInv ==
    /\ InstalledIsGenuine
    /\ \A v \in Versions : seal[v] \in Manifests => seal[v][Exe] \in Builds
    /\ pc \in CopiedPCs => man[Exe] \in Builds

(* A step of a call of the store moves genuine bytes only.                  *)
LEMMA StoreMovesGenuine ==
    ASSUME TypeInv, SnapshotInv, RestoreInv, GenuineInv, StoreCall
    PROVE  GenuineInv'
<1> USE OneFile DEF GenuineInv, InstalledIsGenuine, TypeInv, TypeOK, CallInv, CopiedPCs, Builds,
                    live, store, call
<1>1. CASE TakeSnapshot
  <2>1. UNCHANGED tree /\ pc' \notin CopiedPCs
    BY <1>1 DEF TakeSnapshot, BeginSnapshot, CopyOpen, CopyRefuse, CopyClose, SealOpen, SealClose,
                Goto, Return
  <2>2. CASE SealOpen
    <3>1. \A v \in Versions : seal'[v] \in Manifests => seal'[v] = seal[v]
      BY <2>2, NoManifestMarker DEF SealOpen
    <3>2. QED
      BY <2>1, <3>1
  <2>3. CASE SealClose
    <3>1. man[Exe] = tree[AppDir][Exe] /\ man \in Manifests /\ ver \in Versions
      BY <2>3 DEF SealClose, SnapshotInv, SnapshotPCs
    <3>2. man[Exe] \in Builds
      <4>1. man[Exe] \in Contents
        BY <3>1 DEF Manifests
      <4>2. QED
        BY <3>1, <4>1, DistinctMarkers
    <3>3. \A v \in Versions : seal'[v] = IF v = ver THEN man ELSE seal[v]
      BY <2>3, <3>1 DEF SealClose
    <3>4. QED
      BY <2>1, <3>2, <3>3
  <2>4. CASE ~SealOpen /\ ~SealClose
    BY <1>1, <2>1, <2>4 DEF TakeSnapshot, BeginSnapshot, CopyOpen, CopyRefuse, CopyClose
  <2>5. QED
    BY <2>2, <2>3, <2>4
<1>2. CASE Rollback
  <2>1. UNCHANGED seal
    BY <1>2 DEF Rollback, BeginRollback, Load, LoadRefuse, Verify, VerifyRefuse, Stage, Swap,
                LogSuccess, Count, BlacklistVersion, AddToBlacklist, BlacklistLog, ReturnOk
  <2>2. CASE Swap
    <3>1. cur = Exe /\ tmp[cur] \in Builds /\ man' = man
      BY <2>2 DEF Swap, RestoreInv
    <3>2. \A d \in Dirs : tree'[d][Exe] \in {tree[d][Exe], tmp[cur]}
      BY <2>2, <3>1, SelfHealConstants DEF Swap
    <3>3. QED
      BY <2>1, <2>2, <3>1, <3>2 DEF Swap
  <2>3. CASE Load
    BY <2>1, <2>3 DEF Load
  <2>4. CASE ~Swap /\ ~Load
    BY <1>2, <2>1, <2>4
       DEF Rollback, BeginRollback, LoadRefuse, Verify, VerifyRefuse, Stage, LogSuccess, Count,
           BlacklistVersion, AddToBlacklist, BlacklistLog, ReturnOk, Goto, Return
  <2>5. QED
    BY <2>2, <2>3, <2>4
<1>3. CASE IoError \/ BlacklistReadError
  BY <1>3 DEF IoError, BlacklistReadError, AddToBlacklist, Goto, Return
<1>4. QED
  BY <1>1, <1>2, <1>3 DEF StoreCall

(* lib.rs:240-420: from the server over the staging directory, the host,    *)
(* the snapshots and back by a rollback, only builds of releases ever get   *)
(* to the path of the executable or to where a rollback restores it.        *)
THEOREM InstalledStaysGenuine == EngineSpec => []InstalledIsGenuine
<1>1. EngineInit => GenuineInv
  <2> SUFFICES ASSUME EngineInit PROVE GenuineInv
    OBVIOUS
  <2>1. tree[AppDir][Exe] = Build[FirstVersion] /\ FirstVersion \in Versions
        /\ \A d \in Dirs \ {AppDir} : tree[d][Exe] = NoFile
    BY EngineConstants, OneFile DEF EngineInit, Init, NoManifest
  <2>2. pc = "idle" /\ seal = [v \in Versions |-> NoFile]
    BY DEF EngineInit, Init
  <2>3. QED
    BY <2>1, <2>2, NoManifestMarker DEF GenuineInv, InstalledIsGenuine, CopiedPCs
<1>2. EngineInv /\ StoreInv /\ GenuineInv /\ [EngineNext]_engineVars => GenuineInv'
  <2> SUFFICES ASSUME EngineInv, StoreInv, GenuineInv, [EngineNext]_engineVars PROVE GenuineInv'
    OBVIOUS
  <2>1. TypeInv /\ SnapshotInv /\ RestoreInv /\ PhaseInv
    BY DEF EngineInv, StoreInv, RefinementInv
  <2>2. CASE HostInstall
    <3>1. final \in Builds
      BY <2>2 DEF HostInstall, EngineInv, SavedInv, Filed, Records, Builds
    <3>2. \A d \in Dirs : tree'[d][Exe] \in {tree[d][Exe], final}
      BY <2>1, <2>2, OneFile DEF HostInstall, TypeInv, TypeOK
    <3>3. UNCHANGED <<seal, pc, man>>
      BY <2>2 DEF HostInstall, store, call
    <3>4. QED
      BY <3>1, <3>2, <3>3 DEF GenuineInv, InstalledIsGenuine, Builds
  <2>3. CASE HostUnlink
    <3>1. \A d \in Dirs : tree'[d][Exe] \in {tree[d][Exe], NoFile}
      BY <2>1, <2>3, OneFile DEF HostUnlink, TypeInv, TypeOK
    <3>2. UNCHANGED <<seal, pc, man>>
      BY <2>3 DEF HostUnlink, store, call
    <3>3. QED
      BY <3>1, <3>2 DEF GenuineInv, InstalledIsGenuine
  <2>4. CASE \/ ApplySnapshot \/ SnapshotStep \/ SnapshotDone \/ SnapshotFailed
             \/ SynqroRollback \/ RollbackStep \/ RollbackOk \/ RollbackErr
    BY <2>1, <2>4, CallsOfStore, StoreMovesGenuine
  <2>5. CASE ProcessCrash
    BY <2>5 DEF ProcessCrash, Return, GenuineInv, InstalledIsGenuine, CopiedPCs, live, store
  <2>6. CASE \/ SynqroInit \/ CheckUpdate \/ CheckEnd \/ ApplyUpdate \/ FetchStep
             \/ FetchFailed \/ PrepareFailed \/ DownloadStep \/ DownloadFailed
             \/ UpdateApplied \/ UpdateUnlogged \/ RollbackNotStarted
             \/ (\E v \in Versions : Publish(v)) \/ UNCHANGED engineVars
    <3>1. UNCHANGED <<tree, seal, pc, man>>
      BY <2>6 DEF SynqroInit, CheckUpdate, CheckEnd, ApplyUpdate, FetchStep, FetchFailed,
         PrepareFailed, DownloadStep, DownloadFailed, UpdateApplied, UpdateUnlogged,
         RollbackNotStarted, Publish, engineVars, selfHealVars, live, store, call
    <3>2. QED
      BY <3>1 DEF GenuineInv, InstalledIsGenuine
  <2>7. QED
    BY <2>2, <2>3, <2>4, <2>5, <2>6 DEF EngineNext, EngineSteps
<1>3. GenuineInv => InstalledIsGenuine
  BY DEF GenuineInv
<1>4. QED
  BY <1>1, <1>2, <1>3, StoreInvariant, EngineInvariant, PTL DEF EngineSpec

(* rollback.rs:278: seen from the host, the whole engine is a RestorePoint: *)
(* the executable only ever becomes what the host installs between calls,   *)
(* and the file of its name in the working directory, the same one or not,  *)
(* in one step the image a rollback has loaded.                             *)
THEOREM ApiKeepsPromise == EngineSpec => KeepsPromise
<1>1. EngineInit => Promise!Init
  BY PromiseStart DEF EngineInit
<1>2. EngineInv /\ StoreInv /\ [EngineNext]_engineVars => [Promise!Next]_(Promise!vars)
  <2> SUFFICES ASSUME EngineInv, StoreInv, [EngineNext]_engineVars
               PROVE  [Promise!Next]_(Promise!vars)
    OBVIOUS
  <2>1. [Next]_vars \/ BesideStore
    BY StoreStep DEF StoreInv, RefinementInv
  <2>2. CASE [Next]_vars
    BY <2>2, PromiseStep DEF StoreInv
  <2>3. CASE BesideStore
    <3>1. ~Settled /\ ~Settled' /\ UNCHANGED <<seal, successes, blacklist>>
      BY <2>3 DEF BesideStore, Settled, CountPCs, store, books, trail
    <3>2. CASE tree' = tree
      <4>1. UNCHANGED Promise!vars
        BY <3>1, <3>2 DEF Promise!vars
      <4>2. QED
        BY <4>1
    <3>3. CASE tree' # tree
      <4>1. Promise!Install
        BY <2>3, <3>1, <3>3 DEF Promise!Install, BesideStore
      <4>2. QED
        BY <4>1 DEF Promise!Next
    <3>4. QED
      BY <3>2, <3>3
  <2>4. QED
    BY <2>1, <2>2, <2>3
<1>3. QED
  BY <1>1, <1>2, StoreInvariant, EngineInvariant, PTL
     DEF EngineSpec, KeepsPromise, Promise!Spec
=============================================================================

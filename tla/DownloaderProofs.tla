-------------------------- MODULE DownloaderProofs --------------------------
(***************************************************************************)
(* Proofs about Downloader, for whatever a server may send and whatever    *)
(* number of retries, failures and faults.                                 *)
(***************************************************************************)
EXTENDS Downloader, TLAPS

StagingSteps == {"create", "fill", "check", "rename"}
DownloadSteps == StagingSteps \cup {"stream"}

(* What the locals of a running download mean: the manifest passed its      *)
(* checks, the bytes are within the cap, and the staged file holds them.    *)
DownloadInv ==
    /\ offer # NoOffer => offer.signed
    /\ step \in DownloadSteps => offer # NoOffer /\ offer.artifact # NoFile /\ ~degraded
    /\ step \in StagingSteps => body \in Payloads /\ SizeOf[body] <= MaxPayload
    /\ step \in {"check", "rename"} => temp = body
    /\ step = "rename" => HashesMatch /\ body = offer.artifact.sig

DownloaderInv == TypeOK /\ DownloadInv

(* A manifest that was accepted is signed by the release key.               *)
LEMMA AcceptedIsSigned ==
    ASSUME NEW r \in Replies, Accepts(r)
    PROVE  r.signed /\ r \in Replies /\ r # NoOffer
BY DownloaderConstants DEF Accepts

LEMMA FetchKeeps == DownloaderInv /\ Fetch => DownloaderInv'
<1> SUFFICES ASSUME DownloaderInv, Fetch PROVE DownloaderInv'
  OBVIOUS
<1> USE DownloaderConstants
    DEF DownloaderInv, TypeOK, DownloadInv, Steps, Results, StagingSteps,
        DownloadSteps, files, health
<1>1. CASE BeginFetch
  BY <1>1 DEF BeginFetch
<1>2. CASE FetchRefused
  BY <1>2 DEF FetchRefused, End
<1>3. CASE FetchNotStarted
  BY <1>3 DEF FetchNotStarted, End, Fault
<1>4. ASSUME NEW r \in Replies, AttemptAccepted(r) PROVE DownloaderInv'
  <2>1. r.signed /\ r \in Replies
    BY <1>4, AcceptedIsSigned DEF AttemptAccepted
  <2>2. QED
    BY <1>4, <2>1 DEF AttemptAccepted, End, RecordSuccess
<1>5. ASSUME AttemptFailed, upsets' \in 0..MaxFaults PROVE DownloaderInv'
  <2>1. degraded' \in BOOLEAN /\ failures' \in Nat
    BY <1>5 DEF AttemptFailed, RecordFailure
  <2>2. /\ step' \in {"attempt", "ready"} /\ retry' \in 0..MaxRetries
        /\ body' \in {body, NoFile} /\ result' \in Results
    BY <1>5 DEF AttemptFailed, End
  <2>3. QED
    BY <1>5, <2>1, <2>2 DEF AttemptFailed
<1>6. CASE AttemptUnanswered
  BY <1>5, <1>6 DEF AttemptUnanswered
<1>7. ASSUME NEW r \in Replies, AttemptRejected(r) PROVE DownloaderInv'
  BY <1>5, <1>7 DEF AttemptRejected
<1>8. CASE AttemptWithoutToken
  <2>1. upsets' \in 0..MaxFaults
    BY <1>8 DEF AttemptWithoutToken, Fault
  <2>2. QED
    BY <1>5, <1>8, <2>1 DEF AttemptWithoutToken
<1>9. QED
  BY <1>1, <1>2, <1>3, <1>4, <1>6, <1>7, <1>8 DEF Fetch

LEMMA DownloadKeeps == DownloaderInv /\ Download => DownloaderInv'
<1> SUFFICES ASSUME DownloaderInv, Download PROVE DownloaderInv'
  OBVIOUS
<1> USE DownloaderConstants
    DEF DownloaderInv, TypeOK, DownloadInv, Steps, Results, StagingSteps,
        DownloadSteps, files, health
<1>1. CASE BeginDownload
  BY <1>1 DEF BeginDownload, HasManifest, End, Goto
<1>2. CASE DownloadRefused
  BY <1>2 DEF DownloadRefused, End
<1>3. CASE DownloadWithoutToken
  BY <1>3 DEF DownloadWithoutToken, End, Fault
<1>4. ASSUME NEW q \in Payloads, Stream(q) PROVE DownloaderInv'
  BY <1>4 DEF Stream, Goto
<1>5. CASE StreamFailed \/ CheckFailed
  <2>1. degraded' \in BOOLEAN /\ failures' \in Nat
    <3>1. failures' = failures + 1
      BY <1>5 DEF StreamFailed, CheckFailed, RecordFailure
    <3>2. degraded' = (degraded \/ failures + 1 >= DEGRADED_THRESHOLD)
      BY <1>5, Zenon DEF StreamFailed, CheckFailed, RecordFailure
    <3>3. QED
      BY <3>1, <3>2
  <2>2. /\ step' = "ready" /\ retry' = 0 /\ body' = NoFile /\ temp' = NoFile
        /\ result' = "error" /\ UNCHANGED <<offer, final, upsets>>
    BY <1>5 DEF StreamFailed, CheckFailed, End
  <2>3. TypeOK'
    BY <2>1, <2>2
  <2>4. DownloadInv'
    BY <2>2
  <2>5. QED
    BY <2>3, <2>4
<1>6. CASE Create
  BY <1>6 DEF Create, Goto
<1>7. CASE Fill
  BY <1>7 DEF Fill, Goto
<1>8. CASE CheckPassed
  BY <1>8 DEF CheckPassed, HashesMatch, Goto
<1>9. CASE CheckUndecodable
  BY <1>9 DEF CheckUndecodable, End
<1>10. CASE Rename
  BY <1>10 DEF Rename, RecordSuccess, End
<1>11. CASE StagingError
  BY <1>11 DEF StagingError, End, Fault
<1>12. QED
  BY <1>1, <1>2, <1>3, <1>4, <1>5, <1>6, <1>7, <1>8, <1>9, <1>10, <1>11 DEF Download

LEMMA RestartKeeps == DownloaderInv /\ (NewDownloader \/ Crash) => DownloaderInv'
<1> SUFFICES ASSUME DownloaderInv, NewDownloader \/ Crash PROVE DownloaderInv'
  OBVIOUS
<1>1. /\ step' = "ready" /\ retry' \in 0..MaxRetries
      /\ body' \in Payloads \cup {NoFile}
      /\ offer' = NoOffer /\ failures' = 0 /\ degraded' = FALSE
      /\ result' = "none" /\ UNCHANGED files
  BY DownloaderConstants DEF NewDownloader, Crash, End, DownloaderInv, TypeOK
<1>2. upsets' \in 0..MaxFaults
  BY DownloaderConstants DEF NewDownloader, Crash, Fault, DownloaderInv, TypeOK
<1>3. TypeOK'
  BY <1>1, <1>2 DEF DownloaderInv, TypeOK, files, Steps, Results
<1>4. DownloadInv'
  BY <1>1 DEF DownloadInv, StagingSteps, DownloadSteps
<1>5. QED
  BY <1>3, <1>4 DEF DownloaderInv

LEMMA DownloaderInvariant == Spec => []DownloaderInv
<1>1. Init => DownloaderInv
  <2>1. Init => TypeOK
    <3>1. Init => retry \in 0..MaxRetries /\ upsets \in 0..MaxFaults /\ failures \in Nat
      BY DownloaderConstants DEF Init
    <3>2. Init => degraded \in BOOLEAN
      BY DEF Init
    <3>3. Init => step \in Steps /\ result \in Results
      BY DEF Init, Steps, Results
    <3>4. QED
      BY <3>1, <3>2, <3>3, Zenon DEF Init, TypeOK
  <2>2. Init => DownloadInv
    BY DEF Init, DownloadInv, StagingSteps, DownloadSteps
  <2>3. QED
    BY <2>1, <2>2 DEF DownloaderInv
<1>2. DownloaderInv /\ [Next]_vars => DownloaderInv'
  <2>1. CASE UNCHANGED vars
    BY <2>1 DEF vars, files, health, DownloaderInv, TypeOK, DownloadInv, HashesMatch
  <2>2. QED
    BY <2>1, FetchKeeps, DownloadKeeps, RestartKeeps DEF Next
<1>3. QED
  BY <1>1, <1>2, PTL DEF Spec

(* downloader.rs:260-315: every variable of the downloader keeps its type,  *)
(* and with it the retry loop stays within max_retries.                     *)
THEOREM DownloaderType == Spec => []TypeOK
<1>1. DownloaderInv => TypeOK
  BY DEF DownloaderInv
<1>2. QED
  BY <1>1, DownloaderInvariant, PTL

(* What one step may do to the final file: nothing, or rename the staged    *)
(* file, while the object is not degraded.                                  *)
LEMMA OnlyRenameStages ==
    ASSUME DownloaderInv, [Next]_vars, final' # final
    PROVE  Rename /\ step = "rename" /\ ~degraded
<1>1. Rename
  BY DEF Next, Fetch, Download, vars, files, health, BeginFetch, FetchRefused,
         FetchNotStarted, AttemptAccepted, AttemptFailed, AttemptUnanswered,
         AttemptRejected, AttemptWithoutToken, BeginDownload, DownloadRefused,
         DownloadWithoutToken, Stream, StreamFailed, Create, Fill, CheckPassed,
         CheckFailed, CheckUndecodable, StagingError, NewDownloader, Crash
<1>2. QED
  BY <1>1 DEF Rename, DownloaderInv, DownloadInv, DownloadSteps, StagingSteps

(* downloader.rs:720-797: whatever the server sends and wherever a call is  *)
(* interrupted, the file under its final name is vouched for.               *)
THEOREM StagedIsVouched == Spec => []StagedIsVerified
<1>1. Init => StagedIsVerified
  BY DEF Init, StagedIsVerified
<1>2. DownloaderInv /\ StagedIsVerified /\ [Next]_vars => StagedIsVerified'
  <2> SUFFICES ASSUME DownloaderInv, StagedIsVerified, [Next]_vars, final' # final
               PROVE  final' \in Vouched \cap Payloads
    BY DEF StagedIsVerified
  <2>1. Rename /\ step = "rename"
    BY OnlyRenameStages
  <2>2. /\ final' = body /\ body \in Payloads /\ body = offer.artifact.sig
        /\ offer \in Replies /\ offer.signed /\ offer.artifact # NoFile
    BY <2>1 DEF Rename, DownloaderInv, DownloadInv, DownloadSteps, StagingSteps, TypeOK
  <2>3. QED
    BY <2>2 DEF Vouched
<1>3. QED
  BY <1>1, <1>2, DownloaderInvariant, PTL DEF Spec

(* A call of download_and_verify_artifact that returned Ok staged the       *)
(* artifact of its own manifest, within the size cap.                       *)
THEOREM OkIsThisArtifact == Spec => []OkMeansThisArtifact
<1>1. Init => OkMeansThisArtifact
  BY DEF Init, OkMeansThisArtifact
<1>2. DownloaderInv /\ OkMeansThisArtifact /\ [Next]_vars => OkMeansThisArtifact'
  <2> SUFFICES ASSUME DownloaderInv, OkMeansThisArtifact, [Next]_vars,
                      step' = "ready", result' = "staged"
               PROVE  /\ final' = offer'.artifact.sha256 /\ final' = offer'.artifact.sig
                      /\ SizeOf[final'] <= MaxPayload
    BY DEF OkMeansThisArtifact
  <2>1. CASE Rename
    BY <2>1 DEF Rename, HashesMatch, DownloaderInv, DownloadInv, StagingSteps
  <2>2. CASE UNCHANGED vars
    BY <2>2 DEF vars, files, OkMeansThisArtifact
  <2>3. ASSUME Next, ~Rename PROVE FALSE
    <3>1. CASE Fetch
      BY <3>1 DEF Fetch, BeginFetch, FetchRefused, FetchNotStarted, AttemptAccepted,
                  AttemptFailed, AttemptUnanswered, AttemptRejected,
                  AttemptWithoutToken, End
    <3>2. CASE Download
      BY <2>3, <3>2 DEF Download, BeginDownload, DownloadRefused, DownloadWithoutToken,
                  Stream, StreamFailed, Create, Fill, CheckPassed, CheckFailed,
                  CheckUndecodable, StagingError, Goto, End
    <3>3. CASE NewDownloader \/ Crash
      BY <3>3 DEF NewDownloader, Crash, End
    <3>4. QED
      BY <2>3, <3>1, <3>2, <3>3 DEF Next
  <2>4. QED
    BY <2>1, <2>2, <2>3
<1>3. QED
  BY <1>1, <1>2, DownloaderInvariant, PTL DEF Spec

(* downloader.rs:419 and 629: once the threshold is reached the object      *)
(* stages nothing more.                                                     *)
THEOREM DegradedIsQuiet == Spec => DegradedStagesNothing
<1>1. DownloaderInv /\ [Next]_vars => (degraded => final' = final)
  BY OnlyRenameStages
<1>2. DownloaderInv /\ [Next]_vars => [degraded => final' = final]_vars
  BY <1>1
<1>3. QED
  BY <1>2, DownloaderInvariant, PTL DEF Spec, DegradedStagesNothing
=============================================================================

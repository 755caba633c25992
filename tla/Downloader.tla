----------------------------- MODULE Downloader -----------------------------
(***************************************************************************)
(* SynqroDownloader of src/src/downloader.rs: the manifest fetch with its  *)
(* retries, the artifact download through the staging directory, and the   *)
(* failure counter that leads to degraded mode.                            *)
(*                                                                         *)
(* One caller at a time uses the object (synqro.h:289 asks callers to      *)
(* serialise).  Payloads are abstract: a hash or a valid signature over a  *)
(* payload is written as the payload itself, so a check of either is an    *)
(* equality.  What the server sends is any member of Replies or Payloads.  *)
(***************************************************************************)
EXTENDS Integers

CONSTANTS
    Payloads,     \* what the artifact server may send
    SizeOf,       \* [Payloads -> Nat]: in bytes
    MaxPayload,   \* max_payload_size_bytes
    Replies,      \* the manifests the server may send, see ReplyOK
    MaxRetries,   \* max_retries
    Reuse,        \* whether a caller keeps the object after a failed call
    NotASig,      \* sig_ed25519 is not base64 or not 64 bytes
    NoFile,
    Torn,
    NoOffer,      \* no manifest has been accepted
    Faults,       \* the kinds of fault the environment may produce
    MaxFaults,    \* bound: faults in one behaviour
    MaxFailures   \* bound: consecutive failures (the code's u32)

DEGRADED_THRESHOLD == 5
Hour == 3600
FaultKinds == {"crash", "io", "token"}

(* age: seconds since issued_at; signed: the manifest signature verifies;   *)
(* iid: its installation_id against the local one; artifact: the entry for  *)
(* this platform, or NoFile.                                                *)
ReplyOK(r) ==
    /\ r.age \in Int
    /\ r.signed \in BOOLEAN
    /\ r.iid \in {"absent", "blank", "ours", "other"}
    /\ \/ r.artifact = NoFile
       \/ /\ r.artifact.sha256 \in Payloads
          /\ r.artifact.sha512 \in Payloads
          /\ r.artifact.sig \in Payloads \cup {NotASig}

ASSUME DownloaderConstants ==
    /\ SizeOf \in [Payloads -> Nat]
    /\ MaxPayload \in Nat /\ MaxRetries \in Nat
    /\ MaxFaults \in Nat /\ MaxFailures \in Nat
    /\ Reuse \in BOOLEAN
    /\ Faults \subseteq FaultKinds
    /\ \A r \in Replies : ReplyOK(r)
    /\ NoOffer \notin Replies
    /\ {NoFile, Torn, NotASig} \cap Payloads = {}
    /\ NoFile # Torn

VARIABLES
    step,       \* where the running call stands; "ready" between calls
    retry,      \* the retry the manifest loop is at
    offer,      \* the manifest the last fetch returned
    body,       \* the downloaded bytes, in memory
    temp,       \* staging/synqro_staging_<platform>.tmp
    final,      \* staging/synqro_<platform>.bin
    failures,   \* consecutive_failures
    degraded,   \* degraded_mode
    result,     \* how the last call ended
    upsets      \* faults so far

files == <<temp, final>>
health == <<failures, degraded>>
vars == <<step, retry, offer, body, temp, final, failures, degraded, result, upsets>>

Steps == {"ready", "attempt", "stream", "create", "fill", "check", "rename"}
Results == {"none", "fetched", "staged", "error", "degraded"}

TypeOK ==
    /\ step \in Steps
    /\ retry \in 0..MaxRetries
    /\ offer \in Replies \cup {NoOffer}
    /\ body \in Payloads \cup {NoFile}
    /\ temp \in Payloads \cup {NoFile, Torn}
    /\ final \in Payloads \cup {NoFile, Torn}
    /\ failures \in Nat
    /\ degraded \in BOOLEAN
    /\ result \in Results
    /\ upsets \in 0..MaxFaults

Init ==
    /\ step = "ready" /\ retry = 0
    /\ offer = NoOffer /\ body = NoFile
    /\ temp = NoFile /\ final = NoFile
    /\ failures = 0 /\ degraded = FALSE
    /\ result = "none" /\ upsets = 0

End(how) ==
    /\ step' = "ready" /\ retry' = 0 /\ body' = NoFile
    /\ result' = how

Goto(s) == step' = s /\ UNCHANGED <<retry, result>>

Fault(kind) ==
    /\ kind \in Faults
    /\ upsets < MaxFaults
    /\ upsets' = upsets + 1

RecordFailure ==
    /\ failures' = failures + 1
    /\ degraded' = (degraded \/ failures + 1 >= DEGRADED_THRESHOLD)

(* The flag is left as it is.                                               *)
RecordSuccess == failures' = 0 /\ UNCHANGED degraded

-----------------------------------------------------------------------------
(* fetch_and_verify_manifest(keychain)                                      *)

(* The chain of checks of fetch_manifest_once_async, in its order: age in   *)
(* whole hours, signature, installation_id.                                 *)
NotReplayed(r) == r.age >= 0 /\ r.age \div Hour <= 24
ForUs(r) == r.iid \in {"absent", "ours"}

Accepts(r) == NotReplayed(r) /\ r.signed /\ ForUs(r)

BeginFetch ==
    /\ step = "ready"
    /\ failures + MaxRetries < MaxFailures
    /\ ~degraded
    /\ step' = "attempt" /\ retry' = 0
    /\ offer' = NoOffer
    /\ UNCHANGED <<body, files, health, result, upsets>>

FetchRefused ==
    /\ step = "ready" /\ degraded
    /\ offer' = NoOffer
    /\ End("degraded")
    /\ UNCHANGED <<files, health, upsets>>

(* The tokio runtime of the call cannot be built.                           *)
FetchNotStarted ==
    /\ Fault("io")
    /\ step = "ready"
    /\ offer' = NoOffer
    /\ End("error")
    /\ UNCHANGED <<files, health>>

AttemptAccepted(r) ==
    /\ step = "attempt"
    /\ Accepts(r)
    /\ offer' = r
    /\ RecordSuccess
    /\ End("fetched")
    /\ UNCHANGED <<files, upsets>>

(* Mutation of AttemptFailed: one retry too many.                           *)
AttemptFailedOnceMore ==
    /\ step = "attempt"
    /\ RecordFailure
    /\ \/ /\ retry <= MaxRetries
          /\ retry' = retry + 1
          /\ UNCHANGED <<step, body, result>>
       \/ retry > MaxRetries /\ End("error")
    /\ UNCHANGED <<offer, files>>

(* The failure is counted; after the backoff sleep the loop goes on, with   *)
(* no further look at degraded_mode, until the retries are used up.         *)
AttemptFailed ==
    /\ step = "attempt"
    /\ RecordFailure
    /\ \/ /\ retry < MaxRetries
          /\ retry' = retry + 1
          /\ UNCHANGED <<step, body, result>>
       \/ retry = MaxRetries /\ End("error")
    /\ UNCHANGED <<offer, files>>

(* No answer, an error status, or a body that is no manifest.               *)
AttemptUnanswered ==
    /\ AttemptFailed
    /\ UNCHANGED upsets

AttemptRejected(r) ==
    /\ ~Accepts(r)
    /\ AttemptFailed
    /\ UNCHANGED upsets

(* The keychain has no usable token: nothing is sent.                       *)
AttemptWithoutToken ==
    /\ Fault("token")
    /\ AttemptFailed

-----------------------------------------------------------------------------
(* download_and_verify_artifact(manifest, staging_dir, keychain)            *)

(* The caller passes the manifest of its last fetch; one that keeps the     *)
(* object may try the same manifest again.                                  *)
HasManifest == offer # NoOffer /\ (Reuse \/ result = "fetched")

(* Mutation of BeginDownload: check_degraded is not called.                 *)
BeginDownloadAnyway ==
    /\ step = "ready" /\ HasManifest
    /\ failures < MaxFailures
    /\ \/ offer.artifact = NoFile /\ End("error")
       \/ offer.artifact # NoFile /\ Goto("stream") /\ UNCHANGED body
    /\ UNCHANGED <<offer, files, health, upsets>>

BeginDownload ==
    /\ step = "ready" /\ HasManifest
    /\ failures < MaxFailures
    /\ ~degraded
    /\ \/ offer.artifact = NoFile /\ End("error")
       \/ offer.artifact # NoFile /\ Goto("stream") /\ UNCHANGED body
    /\ UNCHANGED <<offer, files, health, upsets>>

DownloadRefused ==
    /\ step = "ready" /\ HasManifest
    /\ degraded
    /\ End("degraded")
    /\ UNCHANGED <<offer, files, health, upsets>>

(* The keychain has no usable token, or the runtime cannot be built.        *)
DownloadWithoutToken ==
    /\ Fault("token")
    /\ step = "stream"
    /\ End("error")
    /\ UNCHANGED <<offer, files, health>>

Stream(q) ==
    /\ step = "stream"
    /\ SizeOf[q] <= MaxPayload
    /\ body' = q
    /\ Goto("create")
    /\ UNCHANGED <<offer, files, health, upsets>>

(* The stream breaks, or grows past the cap.                                *)
StreamFailed ==
    /\ step = "stream"
    /\ temp' = NoFile
    /\ RecordFailure
    /\ End("error")
    /\ UNCHANGED <<offer, final, upsets>>

(* File::create truncates whatever an earlier call left there.              *)
Create ==
    /\ step = "create"
    /\ temp' = Torn
    /\ Goto("fill")
    /\ UNCHANGED <<offer, body, final, health, upsets>>

(* Mutation of Fill: the bytes go to the final name before the checks.      *)
FillFinal ==
    /\ step = "fill"
    /\ final' = body
    /\ Goto("check")
    /\ UNCHANGED <<offer, body, temp, health, upsets>>

Fill ==
    /\ step = "fill"
    /\ temp' = body
    /\ Goto("check")
    /\ UNCHANGED <<offer, body, final, health, upsets>>

HashesMatch == body = offer.artifact.sha256 /\ body = offer.artifact.sha512

(* Mutation of CheckPassed: the signature is checked over the hashes the    *)
(* manifest names, not over the bytes that were downloaded.                 *)
SignatureOnlyPassed ==
    /\ step = "check"
    /\ offer.artifact.sha256 = offer.artifact.sig
    /\ Goto("rename")
    /\ UNCHANGED <<offer, body, files, health, upsets>>

CheckPassed ==
    /\ step = "check"
    /\ HashesMatch
    /\ body = offer.artifact.sig
    /\ Goto("rename")
    /\ UNCHANGED <<offer, body, files, health, upsets>>

CheckFailed ==
    /\ step = "check"
    /\ ~HashesMatch \/ body # offer.artifact.sig
    /\ ~HashesMatch \/ offer.artifact.sig # NotASig
    /\ temp' = NoFile
    /\ RecordFailure
    /\ End("error")
    /\ UNCHANGED <<offer, final, upsets>>

(* A signature that cannot even be decoded returns early: the staged file   *)
(* stays and the failure is not counted.                                    *)
CheckUndecodable ==
    /\ step = "check"
    /\ HashesMatch
    /\ offer.artifact.sig = NotASig
    /\ End("error")
    /\ UNCHANGED <<offer, files, health, upsets>>

(* Mutation of Rename: an existing file is kept.                            *)
RenameIfAbsent ==
    /\ step = "rename"
    /\ final' = IF final = NoFile THEN temp ELSE final
    /\ temp' = NoFile
    /\ RecordSuccess
    /\ End("staged")
    /\ UNCHANGED <<offer, upsets>>

Rename ==
    /\ step = "rename"
    /\ final' = temp
    /\ temp' = NoFile
    /\ RecordSuccess
    /\ End("staged")
    /\ UNCHANGED <<offer, upsets>>

(* An I/O call on the staging files fails; only a failed rename cleans up.  *)
StagingError ==
    /\ Fault("io")
    /\ step \in {"create", "fill", "rename"}
    /\ temp' = IF step = "rename" THEN NoFile ELSE temp
    /\ End("error")
    /\ UNCHANGED <<offer, final, health>>

-----------------------------------------------------------------------------
(* lib.rs builds a new object for every synqro_* call.                      *)
NewDownloader ==
    /\ step = "ready"
    /\ result # "none"
    /\ failures' = 0 /\ degraded' = FALSE
    /\ offer' = NoOffer /\ result' = "none"
    /\ UNCHANGED <<step, retry, body, files, upsets>>

(* The process stops and is started again: only the files remain.           *)
Crash ==
    /\ Fault("crash")
    /\ step # "ready"
    /\ failures' = 0 /\ degraded' = FALSE
    /\ offer' = NoOffer
    /\ End("none")
    /\ UNCHANGED files

MayCall == Reuse \/ result = "none"

Fetch ==
    \/ MayCall /\ (BeginFetch \/ FetchRefused \/ FetchNotStarted)
    \/ \E r \in Replies : AttemptAccepted(r) \/ AttemptRejected(r)
    \/ AttemptUnanswered \/ AttemptWithoutToken

Download ==
    \/ BeginDownload \/ DownloadRefused \/ DownloadWithoutToken
    \/ \E q \in Payloads : Stream(q)
    \/ StreamFailed \/ Create \/ Fill
    \/ CheckPassed \/ CheckFailed \/ CheckUndecodable
    \/ Rename \/ StagingError

Next == Fetch \/ Download \/ NewDownloader \/ Crash

Spec == Init /\ [][Next]_vars

-----------------------------------------------------------------------------
(* Properties                                                               *)

(* Payloads the release key signed for a manifest it also signed.           *)
Vouched == {r.artifact.sig : r \in {x \in Replies : x.signed /\ x.artifact # NoFile}}

(* Whatever the server sends and wherever a call is interrupted, the file   *)
(* under its final name is a payload the release key vouches for.           *)
StagedIsVerified == final = NoFile \/ final \in Vouched \cap Payloads

(* A download that returned Ok staged the artifact of this very manifest,   *)
(* within the size cap, and not one an earlier call left behind.            *)
OkMeansThisArtifact ==
    step = "ready" /\ result = "staged" =>
        /\ final = offer.artifact.sha256 /\ final = offer.artifact.sig
        /\ SizeOf[final] <= MaxPayload

(* Once the threshold is reached the object stages nothing more, even if a  *)
(* retry that was already running brings a good manifest.                   *)
DegradedStagesNothing == [][ degraded => final' = final ]_vars
=============================================================================

# TLA+ models of Synqro

Synqro is an over-the-air update engine: a Rust core with a C API, thin bindings, an installer and
a Python client around it. These modules model the part of it that keeps state across failures and
callers (the self-heal engine, the audit log, the downloader, the keychain backends, start-up, and
the calls that compose them), check it with TLC and prove the central invariants with TLAPS. Paths
below are relative to the repository; `rollback.rs` means `src/rollback.rs` and so on.

## 1. The system

| Component | State | Operations | What makes it correct |
|---|---|---|---|
| Self-heal engine, `rollback.rs` | backup directories `v<version>/` with copies and `snapshot.json`, `rollback_counters.json`, `blacklist.json`, `*.synqro_restore.tmp` | `take_snapshot`, `rollback`, `blacklist_version`, `is_blacklisted`, `start_watchdog` | a crash leaves every live file whole; success means restored; a finished snapshot stays usable; counts and blacklist agree with what happened |
| Audit logger, `audit.rs` | the JSONL file, a mutex per process, a file lock between processes | `log`, `verify_log` | lines of concurrent writers never mix; `Ok` means the line is in the file; damage stays local; writers are not blocked for good |
| Downloader, `downloader.rs` | staging temp file and final file, `consecutive_failures`, `degraded_mode` | `fetch_and_verify_manifest`, `download_and_verify_artifact`, `connectivity_check` | only verified bytes get the final name; degraded mode stops traffic; failures clean up |
| C API, `lib.rs` | `ENGINE` | `synqro_init`, `_check_update`, `_apply_update`, `_rollback`, audit and health calls | an applied update can be taken back; rollback picks the right snapshot; calls return |
| Configuration, `config.rs` | none | `load_config`, `validate_config` | only a valid configuration is used, and the installer's file can become one |
| Errors, `error.rs` | error-id counter | result conversion, input limits | each message is freed once |
| Keychain, `keychain/*.rs` | the platform's store; the Android callbacks and their mutex | load, store, delete a secret | callers see one secret, replaced atomically; calls end in time; Java callbacks never overlap |
| Python client, `synqro/core.py` (= `ffi/python/synqro.py`) | library handle | wraps the C API | results are freed once, errors translated |
| Crash reporter, `synqro/reporter/telegram_bot.py` | send times | verify, scrub, truncate, send | rate limit, size limit |
| Installer, `scripts/post_install.py` | `synqro_ota.yaml`, `.gitignore` | `main` | racing and repeated runs leave one identity |
| Dart, header, scripts, CI | none | | |

Interactions. The installer writes the configuration, the operator completes it, `synqro_init`
loads it, opens the keychain and the audit log (whose key is derived from the installation id in the
file) and stores the engine. The host then calls the C API. `synqro_apply_update` builds a downloader
of its own, fetches a manifest, snapshots the running executable **under the version of the
manifest**, downloads the artifact into the staging directory and logs `UPDATE_APPLIED`; putting the
artifact in place is left to the host. `synqro_rollback` picks a backup directory by name and calls
`rollback`. All of them append to the audit log. A second process, such as a watchdog or another
application, may share the log, the backup directory and the staging directory; only the log is
locked. The downloader asks the keychain for a token before every request.

Hard behaviour: a crash between any two writes; `fs::write` that is not atomic; several files
restored one by one; audit entry, counter and blacklist written separately, and by several processes
without a lock; fixed names in the staging directory; lock order and early returns in `log`; readers
beside writers; retries that run past the degraded threshold; early returns in the check chain of the
download; choice of the backup by string order; helper processes that outlive their deadline; a
two-step search and use of kernel keys; threads that race to initialise; installers that race to
create one file; helpers that do not read their input. `PROJECT.json` lists these under `hazards` with
the properties that watch them.

## 2. Modules

| Module | Role |
|---|---|
| `SelfHeal` | `rollback.rs`, one durable effect per step |
| `RestorePoint`, `SelfHealRefinement` | what the engine promises, and the mapping onto it |
| `SelfHealProofs`, `SelfHealSafetyProofs` | TLAPS proofs about `SelfHeal` |
| `AuditLog`, `AuditLogProofs` | `audit.rs`, and proofs about it |
| `AtomicLog`, `AuditLogRefinement` | the log as its callers see it, and the mapping onto it |
| `Downloader`, `DownloaderProofs` | `downloader.rs`, and proofs about it |
| `Engine`, `EngineProofs` | update, rollback and check of `lib.rs`, and proofs about them; extends `SelfHeal`, instantiates `Downloader` |
| `SharedDirs`, `SharedDirsProofs` | several processes over one backup and one staging directory, and proofs |
| `Keychain`, `KeychainProofs` | the five backends of `keychain/`, and proofs about them |
| `SecretStore`, `KeychainRefinement` | what the `KeychainProvider` trait promises, and the mapping onto it |
| `Config` | the installer's document and `config.rs`, as operators |
| `Startup`, `StartupProofs` | installer, operator, `synqro_init` and the calls that need an engine, through the Python client; extends `Config` |
| `MC...` | values and symmetry for TLC |

### SelfHeal

State: the live files (`tree`, one function per directory), the restore temp files, the backup
directories, copies and seals (`snapshot.json`), `counters`, `blacklist`, and of the audit log what
the properties need: `successes` and `alarms`. `take_snapshot` reads the targets where they are
(`AppDir`), `rollback` writes to the working directory (`RestoreDir`); nothing in the code makes these
the same directory, so both constants are free. Two variables are history: `okCount`, what callers
were told, and `rewritten`, the versions with a completed snapshot that a later `take_snapshot` has
begun to overwrite and not yet completed. `pc`, `ver`, `man`, `todo`, `cur` are the locals of the one
running call.

`take_snapshot` is `BeginSnapshot`, then `CopyOpen`/`CopyClose` per file (truncate, complete), then
`SealOpen`/`SealClose`. `rollback` is `BeginRollback`, `Load`, then `Verify`, `Stage`, `Swap` per
file, then `LogSuccess`, `Count`, from the third time on `BlacklistVersion` and `BlacklistLog`, and
`ReturnOk`, with the refusals `LoadRefuse` and `VerifyRefuse`. JSON files written by
`write_json_atomic` (synced temp file, rename) change in one step. The environment may end the process
(`Crash`), fail a call (`IoError`), damage a backup (`Rot`), make the blacklist unreadable
(`BlacklistReadError`), or install other files (`Deploy`). A crash is that of a process: what it wrote
stays. Loss of power is not modelled, since restored files and the directories of all renamed files
are not synced, and what is left of them is then up to the file system. Which of these may happen is
the constant `Faults`; properties that need an assumption name it.

`RestorePoint` is what is left when the disk is taken away: an installation that is saved as a whole
from one place, and put back part by part into another or the same. Each part changes in one step, and
only to what it is in the image the rollback settled on; success is confirmed, and a version banned,
only with the whole image in place. It promises nothing of the place that was saved, nor that a
rollback which fails has changed nothing.

Contents are abstract values and SHA-256 is collision free, so a recorded hash is the content. The
HMAC is abstract too: a `snapshot.json` is absent, torn, of a wrong MAC, or a manifest.

### AuditLog

A line is two fragments, head and tail; `write_all` writes both at once or one after the other. `Flock` is
skipped where the code does not lock (`UseFlock`). `WriteError` is the early return that keeps the
file lock. `VerifyLog` is `verify_log` on a file at one moment; since the log only grows, a reader
beside the writers sees the file as it was when it reached the end.

### Downloader

A hash or a signature that fits a payload is written as that payload. `Replies` holds the manifests
the server may send, with age, signature, `installation_id` and artifact; the order of the checks is
that of `fetch_manifest_once_async`. An attempt is one step because nothing else happens in the object
meanwhile. The staging part is one step per file operation, with every error path's own clean-up.
`Reuse` says whether a caller may keep the object, as the Rust API allows, or always drops it after a
pair of calls like `lib.rs`.

### Engine

`phase` is where the running API call stands, `outcome` how the last apply or rollback ended.
`HostInstall`, `HostUnlink`, `Publish` and `ProcessCrash` are the environment. Two orders of the
releases are constants: `ReleaseRank` (semantic) and `LexRank` (of the directory names). Its audit
log is not composed: `log` can only fail, and `IoError`, `UpdateUnlogged`, `PrepareFailed` and
`RollbackNotStarted` stand for that. Manifests served here are all genuine, the bytes of an
artifact need not be; `Downloader` treats the other manifests.

### SharedDirs

Each process runs one call at a time, either the end of a rollback (audit line, then counters, then
blacklist, then its audit line) or a download into the staging directory. Reading and writing of a
file are separate steps, and a process writes back what it read. Audit lines are one step: the log
is locked. `handle` is the file an open descriptor refers to, so that one process may write into a
file another has renamed or removed. `alone` and `crossed` are history: who ran beside whom.

### Keychain

A call is `Call`, then the steps of its backend: it hands a `request` to the platform, gets a `reply`,
and ends with an `answer`. `PlatformActs` and `PlatformFails` are the platform; `LateHelperActs` is a
helper whose call has given up (`Expire`). On Linux a secret goes to the standard input of the helper
before the deadline starts, so a call that stores one is "feeding" until `WriteSecret`; `LargeSecrets`
do not fit into the pipe and are written only if the helper reads. Requests name the pair or, for
`keyctl`, the serial number a search returned. A secret has a form: raw, hexadecimal (the macOS
command) or cut at 4096 bytes (Android). On Android, `mutex` is the lock on the callbacks. One
service/account pair is modelled; backends keep no state that would link two of them.

### Config and Startup

A document is the template of one installer run with the operator's edits; a value is good, bad,
empty or the placeholder. `ipc` is where an installer run stands, `tpc` where a thread's call does.
`synqro_init` is `InitLoad`, `InitKeychain`, `InitAudit`, `InitSet`, `InitLog`, each with its own
refusal; only the file, `ENGINE` and the log are shared, so the success of the keychain and of the
logger's construction, which is the call's own, belongs to `InitSet`. The audit and health calls
look at `ENGINE` once and are one step each; the call for the installation id has the step of the
health check, since it differs from it only in the answer. The operator keeps the id that was generated and
deletes the file only when it is torn. `signed` is history: under which installation ids lines were
signed.

Operators introduced by a comment "Mutation of ..." are not part of a specification. Each is the
neighbouring definition with a plausible mistake; with it in place TLC refutes the property named
in `PROJECT.json`, which shows that the property can fail.

## 3. Runs

Passing:

| Run | Question | Bounds |
|---|---|---|
| `SelfHeal_data` | are live files whole, snapshots kept until they are taken again, alarms real, and is `RestorePoint` implemented? | 1 version snapshotted any number of times, 2 files restored into another directory than they are read from, 2 contents, 3 rollbacks, 3 faults among crash, I/O, unreadable blacklist |
| `SelfHeal_rollbacks` | does success mean restored, do counters, blacklist and log agree up to one rollback per fault? | 2 versions, 1 file restored in place, 4 rollbacks each, 3 faults among crash, I/O, damage |
| `AuditLog_locks` | do the locks keep lines apart, also for a reader beside them; do callers see atomic appends; do calls return? | `FairSpec`, 2 processes, 3 threads, 2 lines each, 2 faults |
| `Downloader_staging` | is only verified data staged, and the right one, and nothing in degraded mode? | object kept over calls or renewed, 11 replies, 4 payloads, 3 retries, 3 faults, 9 failures |
| `Engine_reversible` | can an applied update be taken back, and is only what was released ever installed? | 3 releases, 4 payloads, 1 fault, 2 rollbacks each, no retries, a host that runs in the directory of its executable |
| `Keychain_calls` | do the backends act as one secret store, one Java call at a time, and return unless they wait for a helper to read a large secret? | `FairSpec`, all 5 platforms, 2 callers, a short secret and one that is larger than the pipe, 2 faults |
| `Startup_identity` | does one identity sign the log, do the answers of `synqro_init` fit the engine, is a placeholder key ever used? | 2 installer runs, 2 threads, 3 calls, 2 faults |
| `SharedDirs_turns` | what survives processes that share the directories without a lock? | 2 processes, 2 versions, a good and a bad payload, 4 rollbacks each, 1 fault |

Why the bounds are enough: two versions show one interfering with another in the counters and the
blacklist, while copies and seals of a version are touched by calls for that version only, so that one
with two files is enough to see a snapshot overwritten and a set restored in part; three rollbacks
reach the threshold and four pass it; two faults let a crash during the repair of a crash happen, and
three a failed call on top of that; two lines per thread let a torn line be followed by another of the
same and of another thread; replies lie on both sides of each check, so that each is passed and failed
with the others passed; three retries of a call that starts below the degraded threshold pass it;
three releases are the least for which string order and release order can differ with both having a
middle. Two callers of the keychain show every pairwise overlap, and calls left of a caller let the
next one meet a helper that was left behind. Two installer runs are the race for one file, two threads
the race for one engine, and three calls let the loser of it be followed by a use of the engine. Two
processes in shared directories already lose updates and stage each other's bytes; the theorems of
section 4 cover any number. `MaxFaults`, `MaxCount`, `MaxLines`, `MaxFailures`, `MaxNetFaults`,
`MaxCalls` and `MaxRollbacks` are the only bounds; they stand in the guards.

Three things lie outside these instances and inside the theorems of section 4: `RestorePoint` with a
damaged backup, and with an unreadable list that loses another version (`EngineKeepsPromise`), and the
engine of a host that runs elsewhere (`EngineProofs`, for any `RestoreDir`).

`Keychain_calls` leaves out one fault, a `keyctl search` that fails for another reason than a missing
key: with it a delete answers Ok and the key stays (see the table below).

Deadlock is not checked where the system may stop: the audit log (calls are bounded, and after a
failed write a process may really block, see `AuditLog_leak`; `CallsReturn` excepts exactly that
case), the keychain and start-up (calls are bounded).

Fairness. `AuditLog!FairSpec` assumes that a thread inside `log` is scheduled and that the mutex and
`flock` are granted to a waiting thread at some time (weak fairness suffices since calls are bounded).
`Keychain!FairSpec` assumes that a thread inside a call is scheduled, that its deadline passes
(`recv_timeout`), that a secret which fits into the pipe gets written to it, and that an operating
system call or a Java callback returns. It assumes nothing of helper processes, not even that they
read their input: the deadline covers what comes after that write, and `CallsReturn` excepts a call
that waits for a helper to read. A thread waits there for `std::sync::Mutex`, which promises no order;
with a bounded number of calls it is granted in the end. Whether the calls of the engine return is not
checked: their retries are bounded and the rest is straight-line code, so what can hold them up is the
audit log's lock, which `AuditLog_locks` and `AuditLog_leak` are about. No fairness is assumed of
hosts, publishers, operators or faults.

Violations. Each of these runs states what a document or comment of the repository says, and finds
the behaviour that contradicts it; `findings` in `PROJECT.json` quotes the sentence.

| Run | The code |
|---|---|
| `AuditLog_leak` | a failed write keeps the file lock |
| `Engine_lexical` | rollback takes v1.9.0 for newer than v1.10.0 |
| `Engine_previous` | a second apply of a version replaces the snapshot rollback needs |
| `Startup_installer` | the installer's file, completed by its own checklist, is refused: it has another top key than the engine reads, and two fields are empty that no placeholder marks |

Other statements of the repository that the models show not to hold, which no run is spent on. The
formula is written over the variables of the module (some are definitions of it); adding it to a run
of that module, with the faults named, gives the counterexample.

| Statement | Module, formula, what it takes |
|---|---|
| rollback.rs:17, three rollbacks blacklist a version | `SelfHeal`: `pc = "idle" => \A v \in Versions : successes[v] >= 3 => v \in blacklist`; one `"io"` fault between audit entry (403) and counter (415) |
| rollback.rs:278 and synqro.h:305, copies are verified before files are replaced | `SelfHeal`: `RefusedBeforeRestoring`; two files and one `"rot"` (the loop at 329 verifies and restores file by file) |
| audit.rs:70, BACKUP_TAMPERED means possible tampering | `SelfHeal`: `AlarmMeansDamage`; one `"crash"` while a sealed version is snapshotted again (186) |
| downloader.rs:14, degraded mode refuses all requests | `Downloader`: `[][AttemptUnanswered => ~degraded]_vars`; retries enough to cross the threshold (419 is outside the loop) |
| downloader.rs:399, manifests are at most 24 hours old | `Downloader`: `offer # NoOffer => offer.age <= 24 * Hour`; a reply of age 25 * Hour - 1 (533 truncates) |
| README.md:259, a blank `installation_id` is universal | `Downloader`: `ForUs` rejects `"blank"` (599) |
| synqro.h:271, a failed download leaves no partial file | `Downloader`: `result = "error" => temp = NoFile`; an undecodable signature (759) |
| synqro.h:312, after an Ok rollback the previous version is active | `Engine`: `RollbackRestoresExecutable`; `RestoreDir # AppDir`, no fault: a host that runs in another directory than its executable's gets the file there (358-360; lib.rs:286-293 never changes directory) |
| synqro.h:309, rollback works if a valid backup exists | `Engine`: `ValidBackupSuffices`; one `"crash"` (361 picks an unfinished directory) |
| README.md:74, no downgrades | `Engine`: `UpdateApplied` with a lower `ReleaseRank`; `PublishDown` (269) |
| rollback.rs:17, a blacklisted version is not installed | `Engine`: `[][UpdateApplied => offer.version \notin blacklist]_engineVars`; three rollbacks (no caller of `is_blacklisted`) |
| synqro.h:268, apply swaps the new version into place | `Engine`: `outcome = "applied" => tree[AppDir][Exe] = Build[lastApply.version]`; no fault (298 stages only) |
| rollback.rs:17, a version stays on the blacklist | `SelfHeal`: `BlacklistPermanent`; one `"blacklist_read"` fault: a list that cannot be read is replaced by one with the new version only (443) |
| rollback.rs:17, for processes that share the directory | `SharedDirs`: `\A v \in Versions : logged[v] >= 3 /\ (\A p \in Procs : pc[p] = "idle") => v \in blacklist`; two processes, no fault (515 reads without a lock) |
| rollback.rs:456, VERSION_BLACKLISTED means listed | `SharedDirs`: `AnnouncedIsListed`; two processes write back the lists they read |
| downloader.rs:720, only checked bytes get the final name | `SharedDirs`: `StagedIsVerified`; two processes stage at once under one name (645) |
| linux.rs:35, every helper has a hard timeout | `Keychain`: `HelpersHaveDeadline`, under `FairSpec`; a large secret and a helper that does not read it (195 and 318 write before the ten seconds begin) |
| linux.rs:399, helpers are killed at the deadline | `Keychain`: `QuietEntryStays`; a helper overruns its deadline (436-439 leave it running) |
| mod.rs:50, a load returns the raw bytes | `Keychain`: `LoadsReturnRawBytes`; a `"service"` fault on macOS (245 stores hexadecimal), or a long secret on Android (229) |
| linux.rs:337, a delete that answers Ok has deleted | `KeychainRefinement`: `ActsAsStore` with the fault `"search"` (352-356) |
| post_install.py:320, exit code 0 means installed | `Startup`: `ExitZeroMeansPrepared`; two runs, or one that crashed before (363) |

Found while reading, outside what the models distinguish: rollback.rs:374 says files are replaced
atomically, but the temp file is not synced before the rename (376), so a loss of power can leave an
empty one. `validate_config` accepts `REPLACE_ME` for owner, repository and chat id. The names in
`SYNQRO_EVENT_*` of synqro.h (170-182) and those that core.py:715 and synqro.dart:609 suggest are all
rejected by `AuditEvent::from_str`. android.rs:58 names a registration function that does not exist,
and `platform_keychain` builds an `AndroidKeychain` without a JNIEnv, so as shipped every call on
Android ends in `NoJniEnv`. synqro.h calls the message of a result static; it is allocated and freed by
`synqro_free_result`. core.py:675 calls the installation id a UUID; it is a SHA-256 in hexadecimal.
core.py:754 says the health check looks at the audit log and the cache; lib.rs:530-543 sends one
request. The result of logging a pin mismatch is dropped (downloader.rs:166), against the comment above it.

## 4. Proofs

The theorems hold for every value of the constants that satisfies the named assumptions of the module
(`SelfHealConstants` and `DistinctMarkers`, `AuditLogConstants`, `DownloaderConstants`,
`EngineConstants`, `SharedDirsConstants`, `KeychainConstants`, `ConfigConstants` and
`StartupConstants`): types of the parameters, that markers such as `Torn` are not contents, and for
the engine what `lib.rs` fixes: one file, and one build per release. TLC evaluates them on each run.
Every invariant, action property and refinement that a passing run checks is stated by a theorem.
Three theorems need more than these assumptions; each names it as a hypothesis:

| Hypothesis | Theorems | Why |
|---|---|---|
| `OrderedReleases` | `AppliedReversible`, `LatestSnapshotRestored` | releases are published upwards and their names sort that way; `Engine_lexical` shows what happens otherwise |
| `NoSearchFault` | `KeychainImplementsStore` | a `keyctl search` fails only for a missing key; section 3 shows what happens otherwise |

`SelfHealProofs` proves `TypeInv`: the types together with `CallInv`, what the locals of a running
call mean (its version is known, the manifest is complete up to `todo`). The types alone are not
inductive: `SealClose` stores `man`, which is a manifest only because no file is left to copy.

`SelfHealSafetyProofs` strengthens each property to an inductive invariant:

- `RollbackRestores`: `RestoreInv` says that files already swapped equal the manifest, and that a
  staged temp file does; the backup does not occur in it, so damage to it does not matter.
- `ThreeOksBlacklist`, `BlacklistIsJustified`: `BooksInv` orders the books, okCount <= counters <=
  successes, with the inequality strict for the version whose rollback is being counted.
- `FaultsHideLittle`: `HiddenInv` bounds the logged rollbacks of a version that is not listed by the
  faults so far, plus what its counter says below the threshold, plus the one being counted or listed.
  Three logged rollbacks need not blacklist a version (section 3), but three more than there were
  faults do.
- `SnapshotsSurvive`, `NoFalseAlarm`: `CopyInv` says that the copies made so far are the recorded
  ones, that a sealed version whose copies are being overwritten is in `rewritten`, and that a rollback
  works from the manifest that is sealed; so outside `rewritten` a seal fits its copies and no check
  can fail. Both assume that nothing damages a backup (`"rot" \notin Faults`, part of the property), and
  say nothing of a version in `rewritten`: the code does spoil that one's snapshot (section 3).
- `FilesStayWhole`: follows from `RestoreInv`, since what is renamed into place is complete.
- `EngineKeepsPromise`, the refinement of `RestorePoint`: `ReadInv` adds that a manifest in the making
  describes the installation as it still is. `SealOpen` is then a Lose, `SealClose` a Save, `Load` a
  Begin, `Swap` a Restore, the audit entry a Confirm, `BlacklistVersion` a Ban (by `BooksInv`), and
  what ends a call an End; everything else stutters. It needs no hypothesis: any number of files, any two
  directories, every fault. Where the blacklist may be unreadable, Ban may lose the others.

`EngineProofs` is about the composition. `PhaseInv` says which part of which component runs in which
phase, `StagingInv` what the downloader has established, `SnapshotInv` that the executable stays as it
was read, since hosts install between calls only, and `SavedInv` that from the end of the snapshot to
the next call the record `lastSnap` is what is filed under its version. From these follow
`AppliedMeansStaged` and, without any assumption on names or order, `AppliedSnapshotIntact`.
`LatestInv` is the part that needs `OrderedReleases`: no directory names a later version than the
offer, and the newest directory, once sealed, holds the last snapshot; a crash in the middle leaves
the newest directory unsealed, which is why it says "once sealed". It gives `AppliedReversible` and
`LatestSnapshotRestored`. Finally `StoreStep` shows that every step of the engine is a step of the
self-heal store, or lies beside it (`BesideStore`: no call of the store runs and at most the installed
file changes), so that the lemmas of `SelfHealSafetyProofs` carry over: `StoreStaysSafe`,
`EngineAlarmsAreReal` and `ApiKeepsPromise`. `InstalledStaysGenuine` follows genuine bytes through the
whole loop (`GenuineInv`): what the host installs, what sealed snapshots hold, what a rollback loads.

`AuditLogProofs` proves the types (`AuditLogType`) and mutual exclusion (`WritersExclude`) from
`LockInv`: who is past a lock holds it. The failed write that leaks the file lock keeps `LockInv`,
since it says nothing of a process with no writer. `LogStaysReadable` rests on mutual exclusion and
on `LineInv`: without faults the file is whole lines, then at most the head of the line of the one
thread between its two writes. `DamageContained` counts instead (`TornInv`): a tail always follows
its own head, and every head without a tail was paid for by a fault, so a fault costs at most the line
it tore and the one that follows it. `AuditLogImplementsAtomicLog` needs `EntryInv`: the line of a call
is in the log exactly from its second write on.

`DownloaderProofs` has one invariant, `DownloadInv`: what each step of a download has established (an
accepted manifest, bytes within the cap, a staged file that holds them, hashes and signature that
fit, an object that is not degraded). `OnlyRenameStages` shows that one action alone changes the final
file; `StagedIsVouched`, `OkIsThisArtifact` and `DegradedIsQuiet` follow.

`SharedDirsProofs`, for any number of processes: `CountsStayReal` needs that a process which has read
the counters and is about to write them counts itself only once (`CountInv`: what it read plus the
processes still counting stays within the log); `BlacklistStaysJustified` adds what is in the lists
about to be written; `TurnsAreSafe` and `AloneIsSafe` say what holds along the way of a call that ran
alone, namely that what it read is still what is in the file, or that nobody else has a descriptor
on the file it will rename.

`KeychainProofs`: `MutexMeansCallback` is inductive over all five backends (a call that feeds a helper
is in no callback, and a backend other than Android's leaves the mutex alone, which the lemmas show
backend by backend); `JniIsSerial` follows, and with the fact that a caller inside a call has counted
it, `KeychainType`. `KeychainImplementsStore` rests on `WorkInv`: a request serves the operation of
its call, bytes come with a read that succeeded, a helper left behind belongs to a call that is over.
The lemma `BackendServes` reduces the steps of all backends to three kinds (another request, an error,
an answer to a request that acted), and each kind is mapped once. A platform that acts is where the
secret store changes, which may be after the call that asked has given up.

`StartupProofs`: `LogKeepsOneKey` from `KeyInv`: once an
engine exists the file is complete and nobody can replace its id, because the one run that created it
has written it and only a torn file is ever deleted; `InitSpeaks` from what each answer says about the
call that set the engine; `PlaceholderRefused` from `FilledInv`: a file that was loaded had its checklist
done, and no operator undoes that.

The invariants were evaluated by TLC on the instances above before they were proved.

Only model-checked: `CallsReturn` of the audit log and of the keychain (fairness and ENABLED are
outside the prover's reach), and the absence of deadlock where a run checks it.

## 5. Not modelled, and the plan

Not modelled: loss of power, TLS and certificate pinning, JSON canonicalisation and formatting, file
permissions, path checks, the ownership of the results and strings that cross the C boundary
(`synqro_free_result` and its kin), key derivation, numbers of error codes and error ids, the length of the
backoff sleep, panic catching, the watchdog (nothing handles the arguments it is started with),
`is_blacklisted` (no caller), the crash reporter (one process that scrubs, truncates and sends one
text at a time), the Dart and Objective-C bindings, the shell scripts and the packaging.

Next, in this order:

1. Proofs: the remaining properties of `Downloader` for the object inside `Engine`.
2. `channel` and `schema_version` of a manifest in `Downloader`; `backoff_duration` and the width of
   the size cap as operators over bounded inputs.
3. The audit log composed with `Engine`, so that a leaked file lock is seen to hold up API calls.
4. The crash reporter's rate limit and retries.

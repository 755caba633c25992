----------------------------- MODULE SharedDirs -----------------------------
(***************************************************************************)
(* Several processes with one backup directory and one staging directory.  *)
(* No lock guards either.  The books of rollback.rs (rollback_counters,    *)
(* blacklist) are read, changed and replaced by rename; the artifact of    *)
(* downloader.rs is written under a fixed temporary name, checked in       *)
(* memory, and renamed to a fixed final name.                              *)
(*                                                                         *)
(* A process does one call at a time.  A call of rollback begins here when *)
(* its files are restored; what comes before is the subject of SelfHeal.   *)
(***************************************************************************)
EXTENDS Naturals, FiniteSets

CONSTANTS
    Procs,
    Versions,
    Payloads,      \* what the server may send
    Genuine,       \* the payloads that pass hashes and signature
    NoFile,
    Torn,          \* an empty, partial or mixed file
    NoVersion,
    Faults,        \* the kinds of fault the environment may produce
    MaxFaults,     \* bound: faults in one behaviour
    MaxRollbacks   \* bound: rollbacks of one version

BlacklistThreshold == 3
FaultKinds == {"crash", "io", "blacklist_read"}

ASSUME SharedDirsConstants ==
    /\ IsFiniteSet(Procs)
    /\ Genuine \subseteq Payloads
    /\ {NoFile, Torn} \cap Payloads = {} /\ NoFile # Torn
    /\ NoVersion \notin Versions
    /\ Faults \subseteq FaultKinds
    /\ MaxFaults \in Nat /\ MaxRollbacks \in Nat

VARIABLES
    logged,      \* [Versions -> Nat]: ROLLBACK_SUCCESS lines
    announced,   \* versions a VERSION_BLACKLISTED line names
    counters,    \* [Versions -> Nat]: rollback_counters.json
    blacklist,   \* blacklist.json
    temp,        \* synqro_staging_<platform>.tmp
    final,       \* synqro_<platform>.bin
    pc,          \* [Procs -> where the call of the process stands]
    ver,         \* [Procs -> the version it rolls back]
    book,        \* [Procs -> the counters it has read]
    list,        \* [Procs -> the blacklist it is about to write]
    body,        \* [Procs -> the bytes it has downloaded]
    handle,      \* [Procs -> the file its open descriptor refers to]
    alone,       \* history: [Procs -> no other call touched the same directory
                 \* while this one ran]
    crossed,     \* history: some rollback did not run alone
    staged,      \* history: the call that put the final file there
    faults

trail == <<logged, announced>>
books == <<counters, blacklist>>
staging == <<temp, final, body, handle, staged>>
reading == <<ver, book, list>>
vars == <<trail, books, staging, reading, pc, alone, crossed, faults>>

RollbackPCs == {"logged", "counted", "listing", "listed", "announce"}
StagePCs == {"stream", "create", "fill", "check", "rename"}
NoCounts == [v \in Versions |-> 0]
Contents == Payloads \cup {NoFile, Torn}
NotStaged == [body |-> NoFile, alone |-> FALSE]

TypeOK ==
    /\ logged \in [Versions -> Nat]
    /\ announced \subseteq Versions
    /\ counters \in [Versions -> Nat]
    /\ blacklist \subseteq Versions
    /\ temp \in Contents /\ final \in Contents
    /\ pc \in [Procs -> {"idle"} \cup RollbackPCs \cup StagePCs]
    /\ ver \in [Procs -> Versions \cup {NoVersion}]
    /\ \A p \in Procs : ver[p] = NoVersion <=> pc[p] \notin RollbackPCs
    /\ book \in [Procs -> [Versions -> Nat]]
    /\ list \in [Procs -> SUBSET Versions]
    /\ body \in [Procs -> Payloads \cup {NoFile}]
    /\ handle \in [Procs -> {"none", "temp", "final", "gone"}]
    /\ alone \in [Procs -> BOOLEAN]
    /\ crossed \in BOOLEAN
    /\ staged \in [body : Payloads \cup {NoFile}, alone : BOOLEAN]
    /\ faults \in 0..MaxFaults

Init ==
    /\ logged = NoCounts /\ announced = {}
    /\ counters = NoCounts /\ blacklist = {}
    /\ temp = NoFile /\ final = NoFile
    /\ pc = [p \in Procs |-> "idle"]
    /\ ver = [p \in Procs |-> NoVersion]
    /\ book = [p \in Procs |-> NoCounts]
    /\ list = [p \in Procs |-> {}]
    /\ body = [p \in Procs |-> NoFile]
    /\ handle = [p \in Procs |-> "none"]
    /\ alone = [p \in Procs |-> TRUE]
    /\ crossed = FALSE
    /\ staged = NotStaged
    /\ faults = 0

Fault(kind) ==
    /\ kind \in Faults
    /\ faults < MaxFaults
    /\ faults' = faults + 1

Step(p, from, to) == pc[p] = from /\ pc' = [pc EXCEPT ![p] = to]

(* The call is over, whatever its result: its locals are gone and its       *)
(* descriptor is closed.                                                    *)
Forget(p) ==
    /\ ver' = [ver EXCEPT ![p] = NoVersion]
    /\ book' = [book EXCEPT ![p] = NoCounts]
    /\ list' = [list EXCEPT ![p] = {}]

Leave(p, from) ==
    /\ Step(p, from, "idle")
    /\ body' = [body EXCEPT ![p] = NoFile]
    /\ handle' = [handle EXCEPT ![p] = "none"]
    /\ UNCHANGED <<trail, books, reading, alone, crossed>>

(* A call starts; who else is in the same directory is noted.               *)
Enter(p, steps) ==
    LET others == {q \in Procs \ {p} : pc[q] \in steps} IN
    /\ alone' = [q \in Procs |->
                    CASE q = p         -> others = {}
                      [] q \in others  -> FALSE
                      [] OTHER         -> alone[q]]
    /\ crossed' = (crossed \/ (steps = RollbackPCs /\ others # {}))

-----------------------------------------------------------------------------
(* The end of rollback: audit line, counter, blacklist                      *)

(* Mutation of LogSuccess: the result of audit.log is not looked at, as in  *)
(* the downloader.                                                          *)
LogSuccessIgnored(p) ==
    /\ Step(p, "idle", "logged")
    /\ \E v \in Versions :
          /\ logged[v] < MaxRollbacks
          /\ logged' \in {logged, [logged EXCEPT ![v] = @ + 1]}
          /\ ver' = [ver EXCEPT ![p] = v]
    /\ Enter(p, RollbackPCs)
    /\ UNCHANGED <<announced, books, staging, book, list, faults>>

LogSuccess(p) ==
    /\ Step(p, "idle", "logged")
    /\ \E v \in Versions :
          /\ logged[v] < MaxRollbacks
          /\ logged' = [logged EXCEPT ![v] = @ + 1]
          /\ ver' = [ver EXCEPT ![p] = v]
    /\ Enter(p, RollbackPCs)
    /\ UNCHANGED <<announced, books, staging, book, list, faults>>

ReadCounters(p) ==
    /\ Step(p, "logged", "counted")
    /\ book' = [book EXCEPT ![p] = counters]
    /\ UNCHANGED <<trail, books, staging, ver, list, alone, crossed, faults>>

NewCount(p) == book[p][ver[p]] + 1

(* Mutation of WriteCounters: a count below the threshold goes on too.      *)
WriteCountersEarly(p) ==
    /\ Step(p, "counted", IF NewCount(p) >= BlacklistThreshold - 1 THEN "listing" ELSE "idle")
    /\ counters' = [book[p] EXCEPT ![ver[p]] = NewCount(p)]
    /\ IF NewCount(p) >= BlacklistThreshold - 1 THEN UNCHANGED reading ELSE Forget(p)
    /\ UNCHANGED <<trail, blacklist, staging, alone, crossed, faults>>

(* The whole file is replaced, with the counters of the other versions as   *)
(* they were read.                                                          *)
WriteCounters(p) ==
    /\ pc[p] = "counted"
    /\ counters' = [book[p] EXCEPT ![ver[p]] = NewCount(p)]
    /\ \/ NewCount(p) >= BlacklistThreshold
          /\ Step(p, "counted", "listing") /\ UNCHANGED reading
       \/ NewCount(p) < BlacklistThreshold
          /\ Step(p, "counted", "idle") /\ Forget(p)
    /\ UNCHANGED <<trail, blacklist, staging, alone, crossed, faults>>

(* Mutation of ReadBlacklist: the list that was read is thrown away.        *)
ReadBlacklistFresh(p) ==
    /\ Step(p, "listing", "listed")
    /\ list' = [list EXCEPT ![p] = {ver[p]}]
    /\ UNCHANGED <<trail, books, staging, ver, book, alone, crossed, faults>>

(* A list that cannot be read counts as an empty one.                       *)
ReadBlacklist(p) ==
    /\ Step(p, "listing", "listed")
    /\ \/ list' = [list EXCEPT ![p] = blacklist \cup {ver[p]}] /\ UNCHANGED faults
       \/ list' = [list EXCEPT ![p] = {ver[p]}] /\ Fault("blacklist_read")
    /\ UNCHANGED <<trail, books, staging, ver, book, alone, crossed>>

WriteBlacklist(p) ==
    /\ Step(p, "listed", "announce")
    /\ blacklist' = list[p]
    /\ UNCHANGED <<trail, counters, staging, reading, alone, crossed, faults>>

(* Mutation of LogBlacklisted: the call returns and its locals live on.     *)
LogBlacklistedKeeping(p) ==
    /\ Step(p, "announce", "idle")
    /\ announced' = announced \cup {ver[p]}
    /\ UNCHANGED <<logged, books, staging, reading, alone, crossed, faults>>

LogBlacklisted(p) ==
    /\ Step(p, "announce", "idle")
    /\ announced' = announced \cup {ver[p]}
    /\ Forget(p)
    /\ UNCHANGED <<logged, books, staging, alone, crossed, faults>>

(* One of the steps fails, or the process dies: what was done stays done.   *)
RollbackStops(p) ==
    /\ Fault("io") \/ Fault("crash")
    /\ \E from \in RollbackPCs : Step(p, from, "idle")
    /\ Forget(p)
    /\ UNCHANGED <<trail, books, staging, alone, crossed>>

-----------------------------------------------------------------------------
(* download_and_verify_artifact                                             *)

BeginStage(p) ==
    /\ Step(p, "idle", "stream")
    /\ Enter(p, StagePCs)
    /\ UNCHANGED <<trail, books, staging, reading, faults>>

(* The file loses its name; descriptors that are open on it stay usable.    *)
RemoveTemp(p) ==
    /\ temp' = NoFile
    /\ handle' = [q \in Procs |-> IF q = p THEN "none"
                                   ELSE IF handle[q] = "temp" THEN "gone"
                                   ELSE handle[q]]

Stream(p) ==
    /\ Step(p, "stream", "create")
    /\ \E b \in Payloads : body' = [body EXCEPT ![p] = b]
    /\ UNCHANGED <<trail, books, reading, temp, final, handle, staged, alone, crossed, faults>>

(* A failed download removes the temporary file, whoever wrote it.          *)
StreamFailed(p) ==
    /\ Step(p, "stream", "idle")
    /\ RemoveTemp(p)
    /\ UNCHANGED <<trail, books, reading, final, body, staged, alone, crossed, faults>>

(* Mutation of Create: a file that is there is taken for complete.          *)
CreateReusing(p) ==
    /\ Step(p, "create", IF temp = NoFile THEN "fill" ELSE "check")
    /\ temp' = IF temp = NoFile THEN Torn ELSE temp
    /\ handle' = [handle EXCEPT ![p] = IF temp = NoFile THEN "temp" ELSE "none"]
    /\ UNCHANGED <<trail, books, reading, final, body, staged, alone, crossed, faults>>

(* File::create truncates a file that is there.                             *)
Create(p) ==
    /\ Step(p, "create", "fill")
    /\ temp' = Torn
    /\ handle' = [handle EXCEPT ![p] = "temp"]
    /\ UNCHANGED <<trail, books, reading, final, body, staged, alone, crossed, faults>>

(* Two writers of one file, or one that writes over the longer bytes of     *)
(* another, may leave a mixture.                                            *)
Written(p, old) ==
    {body[p]} \cup (IF \/ \E q \in Procs \ {p} : handle[q] = handle[p]
                       \/ old \notin {Torn, body[p]}
                    THEN {Torn} ELSE {})

(* write_all, flush, and the descriptor is closed.                          *)
Fill(p) ==
    /\ Step(p, "fill", "check")
    /\ \/ handle[p] = "temp" /\ temp' \in Written(p, temp) /\ UNCHANGED final
       \/ handle[p] = "final" /\ final' \in Written(p, final) /\ UNCHANGED temp
       \/ handle[p] = "gone" /\ UNCHANGED <<temp, final>>
    /\ handle' = [handle EXCEPT ![p] = "none"]
    /\ UNCHANGED <<trail, books, reading, body, staged, alone, crossed, faults>>

(* Hashes and signature, of the bytes in memory.                            *)
CheckPassed(p) ==
    /\ Step(p, "check", "rename")
    /\ body[p] \in Genuine
    /\ UNCHANGED <<trail, books, reading, staging, alone, crossed, faults>>

CheckFailed(p) ==
    /\ Step(p, "check", "idle")
    /\ body[p] \notin Genuine
    /\ RemoveTemp(p)
    /\ body' = [body EXCEPT ![p] = NoFile]
    /\ UNCHANGED <<trail, books, reading, final, staged, alone, crossed, faults>>

(* The manifest's signature cannot be decoded: no clean-up.                 *)
CheckUndecodable(p) ==
    /\ Leave(p, "check")
    /\ UNCHANGED <<temp, final, staged, faults>>

Rename(p) ==
    /\ temp # NoFile
    /\ Step(p, "rename", "idle")
    /\ final' = temp /\ temp' = NoFile
    /\ handle' = [q \in Procs |-> CASE handle[q] = "temp"  -> "final"
                                    [] handle[q] = "final" -> "gone"
                                    [] OTHER               -> handle[q]]
    /\ staged' = [body |-> body[p], alone |-> alone[p]]
    /\ body' = [body EXCEPT ![p] = NoFile]
    /\ UNCHANGED <<trail, books, reading, alone, crossed, faults>>

(* The temporary file was removed or renamed by somebody else.              *)
RenameMissing(p) ==
    /\ temp = NoFile
    /\ Leave(p, "rename")
    /\ UNCHANGED <<temp, final, staged, faults>>

(* A file operation fails, or the process dies.  A rename that fails        *)
(* removes the temporary file.                                              *)
StagingStops(p) ==
    /\ \/ Fault("io") /\ \E from \in {"create", "fill"} : Leave(p, from) /\ UNCHANGED temp
       \/ /\ Fault("io") /\ Step(p, "rename", "idle")
          /\ RemoveTemp(p)
          /\ body' = [body EXCEPT ![p] = NoFile]
          /\ UNCHANGED <<trail, books, reading, alone, crossed>>
       \/ Fault("crash") /\ \E from \in StagePCs : Leave(p, from) /\ UNCHANGED temp
    /\ UNCHANGED <<final, staged>>

-----------------------------------------------------------------------------
RollbackStep(p) ==
    \/ LogSuccess(p) \/ ReadCounters(p) \/ WriteCounters(p)
    \/ ReadBlacklist(p) \/ WriteBlacklist(p) \/ LogBlacklisted(p) \/ RollbackStops(p)

StageStep(p) ==
    \/ BeginStage(p) \/ Stream(p) \/ StreamFailed(p) \/ Create(p) \/ Fill(p)
    \/ CheckPassed(p) \/ CheckFailed(p) \/ CheckUndecodable(p)
    \/ Rename(p) \/ RenameMissing(p) \/ StagingStops(p)

Next == \E p \in Procs : RollbackStep(p) \/ StageStep(p)

Spec == Init /\ [][Next]_vars

-----------------------------------------------------------------------------
(* Properties                                                               *)

Counting(v) == {p \in Procs : ver[p] = v /\ pc[p] \in {"logged", "counted"}}

(* rollback.rs:515, no lock around read and write.  Counts may be lost but  *)
(* none is made up: what the file counts and what is about to be counted    *)
(* never exceeds the successes in the log.                                  *)
CountsAreReal ==
    \A v \in Versions : counters[v] + Cardinality(Counting(v)) <= logged[v]

(* rollback.rs:17.  Nobody blacklists or announces a version that was not   *)
(* rolled back three times, however many processes share the books.         *)
BlacklistJustified ==
    \A v \in blacklist \cup announced : logged[v] >= BlacklistThreshold

(* rollback.rs:415-425.  Processes that take turns lose nothing: counter    *)
(* and blacklist agree with the log whenever nobody is rolling back.        *)
TurnsKeepBooks ==
    /\ ~crossed /\ faults = 0
    /\ \A p \in Procs : pc[p] \notin RollbackPCs
    => \A v \in Versions :
          /\ counters[v] = logged[v]
          /\ v \in blacklist <=> logged[v] >= BlacklistThreshold

(* downloader.rs:645, fixed names.  What a call that ran alone staged is,   *)
(* and stays, the bytes it checked, whatever crashed calls left behind and  *)
(* whatever later calls do.                                                 *)
StagedAloneIsVerified ==
    staged.alone => final = staged.body /\ staged.body \in Genuine

(* Every staged file is what its call checked, with no call running alone.  *)
StagedIsVerified == staged.body # NoFile => final = staged.body

(* Every announcement is backed by the list.                                *)
AnnouncedIsListed == announced \subseteq blacklist
=============================================================================

------------------------------ MODULE Startup ------------------------------
(***************************************************************************)
(* From an empty directory to a running engine: runs of the installer      *)
(* (src/scripts/post_install.py) that may race, fail and crash, an         *)
(* operator who edits what they wrote, and one application process whose   *)
(* threads call synqro_init and the functions that need an engine          *)
(* (src/src/lib.rs) through the Python client (src/synqro/core.py).        *)
(***************************************************************************)
EXTENDS Config, FiniteSets, Functions

CONSTANTS
    Threads,
    NoRun,       \* no installer run
    NoEngine,    \* ENGINE is not set
    Faults,      \* the kinds of fault the environment may produce
    MaxFaults,   \* bound: faults in one behaviour
    MaxCalls     \* bound: calls in one behaviour

FaultKinds == {"crash", "install_crash", "disk", "keychain", "log_open", "log_write"}

ASSUME StartupConstants ==
    /\ NoRun \notin Runs
    /\ NoEngine \notin [by : Threads \X Nat, id : Runs]
    /\ Faults \subseteq FaultKinds
    /\ MaxFaults \in Nat
    /\ MaxCalls \in Nat

VARIABLES
    file,       \* synqro_ota.yaml
    author,     \* the run that created the file now at that path
    ipc,        \* [Runs -> where the installer run stands]
    prepared,   \* the directories and .gitignore lines exist
    engine,     \* ENGINE: the call that set it and the id it holds
    tpc,        \* [Threads -> where the thread's call stands]
    loaded,     \* [Threads -> the id in the configuration it has loaded]
    calls,      \* [Threads -> calls made]
    inits,      \* the synqro_init calls answered in this process
    signed,     \* history: the ids whose key has signed lines of the audit log
    faults

installer == <<file, author, ipc, prepared>>
library == <<engine, inits, signed>>
client == <<tpc, loaded, calls>>
vars == <<installer, library, client, faults>>

CallIds == Threads \X Nat
Errors == {"InvalidInput", "Permission", "Internal", "Io", "Yaml", "Config", "Network"}
InitPCs == {"init", "loaded", "set"}

TypeOK ==
    /\ file \in {Absent, Torn} \cup Documents
    /\ author \in Runs \cup {NoRun}
    /\ (file = Absent) <=> (author = NoRun)
    /\ ipc \in [Runs -> {"new", "absent", "created", "written", "saved",
                         "exit 0", "failed"}]
    /\ prepared \in BOOLEAN
    /\ engine \in {NoEngine} \cup [by : CallIds, id : Runs]
    /\ tpc \in [Threads -> {"idle", "answered"} \cup InitPCs]
    /\ loaded \in [Threads -> Runs \cup {NoRun}]
    /\ calls \in [Threads -> Nat]
    /\ inits \subseteq [call : CallIds, result : {"Ok"} \cup Errors]
    /\ signed \subseteq Runs
    /\ faults \in 0..MaxFaults

Init ==
    /\ file = Absent /\ author = NoRun
    /\ ipc = [r \in Runs |-> "new"]
    /\ prepared = FALSE
    /\ engine = NoEngine
    /\ tpc = [t \in Threads |-> "idle"]
    /\ loaded = [t \in Threads |-> NoRun]
    /\ calls = [t \in Threads |-> 0]
    /\ inits = {} /\ signed = {}
    /\ faults = 0

Fault(kind) ==
    /\ kind \in Faults
    /\ faults < MaxFaults
    /\ faults' = faults + 1

-----------------------------------------------------------------------------
(* post_install.py: main()                                                  *)

Install(r, from, to) ==
    /\ ipc[r] = from
    /\ ipc' = [ipc EXCEPT ![r] = to]
    /\ UNCHANGED <<library, client>>

(* The idempotency check; a run that finds no id draws one.                 *)
CheckExisting(r) ==
    /\ Install(r, "new", IF HasInstallationId(file) THEN "exit 0" ELSE "absent")
    /\ UNCHANGED <<file, author, prepared, faults>>

(* Mutation of CreateConfig: the file is opened without O_EXCL, and         *)
(* truncated.                                                               *)
CreateTruncating(r) ==
    /\ Install(r, "absent", "created")
    /\ file' = Torn /\ author' = r
    /\ UNCHANGED <<prepared, faults>>

(* os.open with O_EXCL: a file that is there ends the run as a success.     *)
CreateConfig(r) ==
    /\ \/ file = Absent /\ Install(r, "absent", "created")
          /\ file' = Torn /\ author' = r
       \/ file # Absent /\ Install(r, "absent", "exit 0")
          /\ UNCHANGED <<file, author>>
    /\ UNCHANGED <<prepared, faults>>

(* Mutation of WriteConfig: the file is opened again, by its path.          *)
WriteConfigByPath(r) ==
    /\ Install(r, "created", "written")
    /\ file' = BuildConfig(r)
    /\ UNCHANGED <<author, prepared, faults>>

(* One os.write through the descriptor: it reaches the path only while the  *)
(* file this run created is still there.  It may write less than it is      *)
(* given, which nobody checks.                                              *)
WriteConfig(r) ==
    /\ Install(r, "created", "written")
    /\ \/ file' = (IF author = r THEN BuildConfig(r) ELSE file) /\ UNCHANGED faults
       \/ Fault("disk") /\ UNCHANGED file
    /\ UNCHANGED <<author, prepared>>

(* os.chmod, by path.                                                       *)
ChmodConfig(r) ==
    /\ Install(r, "written", IF file = Absent THEN "failed" ELSE "saved")
    /\ UNCHANGED <<file, author, prepared, faults>>

(* The directories and .gitignore.                                          *)
Prepare(r) ==
    /\ \/ Install(r, "saved", "exit 0") /\ prepared' = TRUE /\ UNCHANGED faults
       \/ Fault("disk") /\ Install(r, "saved", "failed") /\ UNCHANGED prepared
    /\ UNCHANGED <<file, author>>

(* os.open or os.write refuses, or the run is killed.                       *)
InstallerStops(r) ==
    /\ \/ Fault("disk") /\ \E at \in {"absent", "created"} : Install(r, at, "failed")
       \/ /\ Fault("install_crash")
          /\ \E at \in {"absent", "created", "written", "saved"} : Install(r, at, "failed")
    /\ UNCHANGED <<file, author, prepared>>

(* The operator saves a complete document with any number of changes, and   *)
(* deletes a torn one.                                                      *)
Edit ==
    /\ file \in Documents
    /\ \E edits \in SUBSET Edits, typos \in SUBSET Typos :
          /\ file.edits \subseteq edits
          /\ file' = [file EXCEPT !.edits = edits, !.typos = typos]
    /\ UNCHANGED <<author, ipc, prepared, library, client, faults>>

DeleteTorn ==
    /\ file = Torn
    /\ file' = Absent /\ author' = NoRun
    /\ UNCHANGED <<ipc, prepared, library, client, faults>>

-----------------------------------------------------------------------------
(* Calls of the library and their results                                   *)

Step(t, from, to) ==
    /\ tpc[t] = from
    /\ tpc' = [tpc EXCEPT ![t] = to]
    /\ UNCHANGED <<installer, calls>>

ThisCall(t) == <<t, calls[t]>>

Refuse(t, from, error) ==
    /\ Step(t, from, "answered")
    /\ inits' = inits \cup {[call |-> ThisCall(t), result |-> error]}
    /\ loaded' = [loaded EXCEPT ![t] = NoRun]

Accept(t, from) ==
    /\ Step(t, from, "answered")
    /\ inits' = inits \cup {[call |-> ThisCall(t), result |-> "Ok"]}
    /\ loaded' = [loaded EXCEPT ![t] = NoRun]

(* core.py: the result is translated and what it owns is freed.             *)
Translate(t) ==
    /\ Step(t, "answered", "idle")
    /\ UNCHANGED <<library, loaded, faults>>

-----------------------------------------------------------------------------
(* synqro_init                                                              *)

Call(t, to) ==
    /\ SumFunction(calls) < MaxCalls
    /\ tpc[t] = "idle"
    /\ tpc' = [tpc EXCEPT ![t] = to]
    /\ calls' = [calls EXCEPT ![t] = @ + 1]
    /\ UNCHANGED <<installer, engine, inits, loaded>>

SynqroInit(t) ==
    Call(t, "init") /\ UNCHANGED <<signed, faults>>

(* decode_cstr: a null, too long or ill-formed argument.                    *)
BadArgument(t) ==
    Refuse(t, "init", "InvalidInput") /\ UNCHANGED <<engine, signed, faults>>

InitLoad(t) ==
    \/ BadArgument(t)
    \/ /\ LoadConfig(file) = "Ok"
       /\ Step(t, "init", "loaded")
       /\ loaded' = [loaded EXCEPT ![t] = file.id]
       /\ UNCHANGED <<library, faults>>
    \/ /\ LoadConfig(file) # "Ok"
       /\ Refuse(t, "init", LoadConfig(file))
       /\ UNCHANGED <<engine, signed, faults>>

(* The keychain, then AuditLogger::new: what each of them refuses.  What    *)
(* they open when they succeed is the call's own: that is part of InitSet.  *)
InitKeychain(t) ==
    /\ Fault("keychain") /\ Refuse(t, "loaded", "Permission")
    /\ UNCHANGED <<engine, signed>>

InitAudit(t) ==
    /\ Fault("log_open") /\ Refuse(t, "loaded", "Permission")
    /\ UNCHANGED <<engine, signed>>

(* Mutation of InitSet: the engine is replaced.                             *)
InitReplace(t) ==
    /\ Step(t, "loaded", "set")
    /\ engine' = [by |-> ThisCall(t), id |-> loaded[t]]
    /\ UNCHANGED <<inits, signed, loaded, faults>>

(* OnceLock::set: one call wins.                                            *)
InitSet(t) ==
    \/ /\ engine = NoEngine
       /\ Step(t, "loaded", "set")
       /\ engine' = [by |-> ThisCall(t), id |-> loaded[t]]
       /\ UNCHANGED <<inits, signed, loaded, faults>>
    \/ /\ engine # NoEngine
       /\ Refuse(t, "loaded", "Config")
       /\ UNCHANGED <<engine, signed, faults>>

(* The first line of the log.  If it cannot be written the call fails, and  *)
(* the engine stays.                                                        *)
InitLog(t) ==
    \/ /\ Accept(t, "set")
       /\ signed' = signed \cup {loaded[t]}
       /\ UNCHANGED <<engine, faults>>
    \/ /\ Fault("log_write")
       /\ \E error \in {"Permission", "Internal"} : Refuse(t, "set", error)
       /\ UNCHANGED <<engine, signed>>

-----------------------------------------------------------------------------
(* The calls that need an engine.  They look for it once, and no step of    *)
(* theirs depends on what other threads have done since: each is one step.  *)

(* The arguments are decoded first, then the engine is looked for, then the *)
(* name is looked up, then the line is written: each of these may refuse.   *)
SynqroAuditEvent(t) ==
    /\ Call(t, "answered")
    /\ \/ UNCHANGED <<signed, faults>>
       \/ engine # NoEngine /\ signed' = signed \cup {engine.id} /\ UNCHANGED faults
       \/ engine # NoEngine /\ Fault("log_write") /\ UNCHANGED signed

(* synqro_health_check and synqro_installation_id change nothing.           *)
SynqroHealthCheck(t) == Call(t, "answered") /\ UNCHANGED <<signed, faults>>

(* The application dies and is started again.                               *)
Crash ==
    /\ Fault("crash")
    /\ engine # NoEngine \/ \E t \in Threads : tpc[t] # "idle"
    /\ engine' = NoEngine
    /\ inits' = {}
    /\ tpc' = [t \in Threads |-> "idle"]
    /\ loaded' = [t \in Threads |-> NoRun]
    /\ UNCHANGED <<installer, signed, calls>>

-----------------------------------------------------------------------------
Next ==
    \/ \E r \in Runs :
          \/ CheckExisting(r) \/ CreateConfig(r) \/ WriteConfig(r)
          \/ ChmodConfig(r) \/ Prepare(r) \/ InstallerStops(r)
    \/ Edit \/ DeleteTorn \/ Crash
    \/ \E t \in Threads :
          \/ SynqroInit(t) \/ InitLoad(t) \/ InitKeychain(t) \/ InitAudit(t)
          \/ InitSet(t) \/ InitLog(t)
          \/ SynqroAuditEvent(t) \/ SynqroHealthCheck(t) \/ Translate(t)

Spec == Init /\ [][Next]_vars

-----------------------------------------------------------------------------
(* Properties                                                               *)

(* audit.rs:252: the key of the log is derived from the installation id.    *)
(* Whatever the installers, the operator and restarts do, one key has       *)
(* signed all of the log, so verify_log can still read it.                  *)
LogHasOneKey == Cardinality(signed) <= 1

(* lib.rs:155: a second synqro_init is refused.  A call that answered Ok is *)
(* the one whose engine runs, and a call that answered an error left no     *)
(* engine behind, except when the first line of the log was refused.        *)
InitSpeaksForEngine ==
    \A i \in inits :
        /\ i.result = "Ok" => engine # NoEngine /\ engine.by = i.call
        /\ engine # NoEngine /\ engine.by = i.call
              => i.result \in {"Ok", "Permission", "Internal"}

(* config.rs:211: "remove the REPLACE_ME placeholder before deployment".    *)
(* No engine runs, and nothing was ever signed, under a file whose release  *)
(* key was still a placeholder, whenever it was read, whatever is edited    *)
(* since and however often the application is started again.                *)
NoPlaceholderKey ==
    engine # NoEngine \/ signed # {} =>
        file \in Documents /\ ValueOf(file, "release_signing_pubkey") # "REPLACE_ME"

(* post_install.py:302, "Fill in all remaining REPLACE_ME fields": then the *)
(* engine accepts the file.                                                 *)
ChecklistSuffices ==
    file \in Documents /\ "checklist" \in file.edits /\ file.typos = {}
        => LoadConfig(file) = "Ok"

(* post_install.py:320: exit code 0 means the installation is complete.     *)
ExitZeroMeansPrepared == (\E r \in Runs : ipc[r] = "exit 0") => prepared
=============================================================================

---------------------------- MODULE StartupProofs ----------------------------
(***************************************************************************)
(* Proofs about Startup for any installer runs, threads, edits, mistakes   *)
(* and faults, and for any number of calls.                                *)
(***************************************************************************)
EXTENDS Startup, FiniteSetTheorems, TLAPS

-----------------------------------------------------------------------------
(* A file that is a document has the id of the run that created it and      *)
(* keeps it; a run that has created the file and not yet written it finds   *)
(* it torn.  Everybody who has read an id has read that one.                *)
KeyInv ==
    /\ ipc = [r \in Runs |-> ipc[r]]
    /\ loaded = [t \in Threads |-> loaded[t]] /\ tpc = [t \in Threads |-> tpc[t]]
    /\ author \in Runs \cup {NoRun}
    /\ file \in {Absent, Torn} \cup Documents
    /\ file \in Documents => file.id = author
    /\ \A r \in Runs : ipc[r] = "created" /\ author = r => file = Torn
    /\ \A t \in Threads :
          loaded[t] # NoRun => file \in Documents /\ file.id = loaded[t]
    /\ \A t \in Threads :
          tpc[t] \in InitPCs \ {"init"} => loaded[t] # NoRun
    /\ engine # NoEngine => file \in Documents /\ file.id = engine.id
    /\ \A id \in signed : file \in Documents /\ file.id = id

(* Installer runs and the operator never change the id of a document.       *)
LEMMA InstallersKeepKey ==
  ASSUME KeyInv, NEW r \in Runs,
         \/ CheckExisting(r) \/ CreateConfig(r) \/ WriteConfig(r)
         \/ ChmodConfig(r) \/ Prepare(r) \/ InstallerStops(r)
  PROVE  KeyInv'
<1>1. UNCHANGED <<engine, signed, loaded, tpc>>
  BY DEF CheckExisting, CreateConfig, WriteConfig, ChmodConfig, Prepare,
         InstallerStops, Install, library, client
<1>2. \A s \in Runs : BuildConfig(s) \in Documents /\ BuildConfig(s).id = s
  BY DEF BuildConfig, Documents
<1>3. Absent \notin Documents /\ Torn \notin Documents /\ Absent # Torn
  BY ConfigConstants
<1>4. CASE CreateConfig(r) /\ file = Absent
  BY <1>1, <1>3, <1>4 DEF CreateConfig, Install, KeyInv
<1>5. CASE WriteConfig(r) /\ author = r
  BY <1>1, <1>2, <1>3, <1>5 DEF WriteConfig, Install, KeyInv
<1>6. CASE UNCHANGED <<file, author>> /\ \A s \in Runs : ipc'[s] = "created" => ipc[s] = "created"
  <2>1. ipc' = [s \in Runs |-> ipc'[s]]
    BY DEF CheckExisting, CreateConfig, WriteConfig, ChmodConfig, Prepare,
           InstallerStops, Install, KeyInv
  <2>2. QED
    BY <1>1, <1>6, <2>1 DEF KeyInv
<1>7. \/ CreateConfig(r) /\ file = Absent
      \/ WriteConfig(r) /\ author = r
      \/ UNCHANGED <<file, author>> /\ \A s \in Runs : ipc'[s] = "created" => ipc[s] = "created"
  BY DEF CheckExisting, CreateConfig, WriteConfig, ChmodConfig, Prepare,
         InstallerStops, Install, KeyInv
<1>8. QED
  BY <1>4, <1>5, <1>6, <1>7

(* Nor does the operator: a torn file was read by nobody.                   *)
LEMMA EditsKeepKey == KeyInv /\ (Edit \/ DeleteTorn) => KeyInv'
<1> SUFFICES ASSUME KeyInv, Edit \/ DeleteTorn PROVE KeyInv'
  OBVIOUS
<1>1. UNCHANGED <<ipc, engine, signed, loaded, tpc>>
  BY DEF Edit, DeleteTorn, library, client
<1>2. CASE Edit
  <2>1. file \in Documents /\ author' = author
    BY <1>2 DEF Edit
  <2>2. file' \in Documents /\ file'.id = file.id
    BY <1>2 DEF Edit, Documents
  <2>3. file # Torn
    BY <2>1, ConfigConstants
  <2>4. QED
    BY <1>1, <2>1, <2>2, <2>3 DEF KeyInv
<1>3. CASE DeleteTorn
  BY <1>1, <1>3, ConfigConstants, StartupConstants DEF DeleteTorn, KeyInv
<1>4. QED
  BY <1>2, <1>3

(* A call passes on the id it has read.                                     *)
LEMMA CallsKeepKey ==
  ASSUME KeyInv, NEW t \in Threads,
         \/ SynqroInit(t) \/ InitLoad(t) \/ InitKeychain(t) \/ InitAudit(t)
         \/ InitSet(t) \/ InitLog(t)
         \/ SynqroAuditEvent(t) \/ SynqroHealthCheck(t) \/ Translate(t)
  PROVE  KeyInv'
<1> USE DEF KeyInv, InitPCs, BadArgument, installer, library
<1>1. UNCHANGED <<file, author, ipc>>
  BY DEF SynqroInit, SynqroAuditEvent, SynqroHealthCheck, Call,
         InitLoad, InitKeychain, InitAudit, InitSet, InitLog, Translate, Refuse, Accept, Step
<1>2. CASE SynqroInit(t) \/ SynqroAuditEvent(t) \/ SynqroHealthCheck(t)
  BY <1>1, <1>2 DEF SynqroInit, SynqroAuditEvent, SynqroHealthCheck, Call
<1>3. CASE InitLoad(t)
  <2>1. LoadConfig(file) = "Ok" => file \in Documents /\ file.id # NoRun
    BY StartupConstants DEF LoadConfig, Documents
  <2>2. QED
    BY <1>1, <1>3, <2>1 DEF InitLoad, Refuse, Step
<1>4. CASE InitKeychain(t) \/ InitAudit(t)
  BY <1>1, <1>4 DEF InitKeychain, InitAudit, Refuse, Step
<1>5. CASE InitSet(t)
  BY <1>1, <1>5 DEF InitSet, Refuse, Step
<1>6. CASE InitLog(t)
  BY <1>1, <1>6 DEF InitLog, Accept, Refuse, Step
<1>7. CASE Translate(t)
  BY <1>1, <1>7 DEF Translate, Step
<1>8. QED
  BY <1>2, <1>3, <1>4, <1>5, <1>6, <1>7

(* audit.rs:252: racing and crashing installers, an operator who edits, and *)
(* restarts of the application never put two keys into one audit log.       *)
THEOREM LogKeepsOneKey == Spec => []LogHasOneKey
<1>1. Init => KeyInv
  BY ConfigConstants DEF Init, KeyInv, InitPCs
<1>2. KeyInv /\ Crash => KeyInv'
  BY DEF Crash, KeyInv, installer, InitPCs
<1>3. KeyInv /\ UNCHANGED vars => KeyInv'
  BY DEF KeyInv, vars, installer, library, client
<1>4. KeyInv /\ [Next]_vars => KeyInv'
  BY <1>2, <1>3, InstallersKeepKey, EditsKeepKey, CallsKeepKey DEF Next
<1>5. KeyInv => LogHasOneKey
  <2> SUFFICES ASSUME KeyInv PROVE Cardinality(signed) <= 1
    BY DEF LogHasOneKey
  <2>1. signed = {} \/ signed = {file.id}
    BY DEF KeyInv
  <2>2. Cardinality({}) = 0 /\ Cardinality({file.id}) = 1
    BY FS_EmptySet, FS_Singleton
  <2>3. Cardinality(signed) = 0 \/ Cardinality(signed) = 1
    BY <2>1, <2>2
  <2>4. QED
    BY <2>3
<1>6. QED
  BY <1>1, <1>4, <1>5, PTL DEF Spec

-----------------------------------------------------------------------------
(* A call of synqro_init that is under way has no answer yet, and the       *)
(* engine is its own exactly when it has passed OnceLock::set.              *)
CallInv ==
    /\ calls \in [Threads -> Nat]
    /\ tpc = [t \in Threads |-> tpc[t]]
    /\ engine # NoEngine =>
          \E t \in Threads, n \in Nat : engine.by = <<t, n>> /\ n <= calls[t]
    /\ \A i \in inits : \E t \in Threads, n \in Nat :
          /\ i.call = <<t, n>> /\ n <= calls[t]
          /\ tpc[t] \in InitPCs => n < calls[t]
    /\ \A t \in Threads :
          /\ tpc[t] = "set" => engine # NoEngine /\ engine.by = ThisCall(t)
          /\ tpc[t] \in InitPCs \ {"set"} /\ engine # NoEngine => engine.by # ThisCall(t)
    /\ InitSpeaksForEngine

(* A thread that begins a call has not answered it.                         *)
LEMMA BeginningCalls ==
  ASSUME CallInv, NEW t \in Threads,
         \/ SynqroInit(t) \/ SynqroAuditEvent(t)
         \/ SynqroHealthCheck(t)
  PROVE  CallInv'
<1>1. /\ calls' = [calls EXCEPT ![t] = @ + 1]
      /\ UNCHANGED <<engine, inits>>
      /\ \E to \in {"init", "answered"} : tpc' = [tpc EXCEPT ![t] = to]
  BY DEF SynqroInit, SynqroAuditEvent, SynqroHealthCheck, Call
<1>2. /\ calls' \in [Threads -> Nat] /\ tpc' = [s \in Threads |-> tpc'[s]]
      /\ calls'[t] = calls[t] + 1 /\ tpc'[t] # "set"
      /\ \A s \in Threads \ {t} : calls'[s] = calls[s] /\ tpc'[s] = tpc[s]
  BY <1>1 DEF CallInv
<1>3. \A s \in Threads, n \in Nat : n <= calls[s] =>
          /\ n <= calls'[s]
          /\ s = t => n < calls'[s]
  BY <1>2 DEF CallInv
<1>4. engine' # NoEngine =>
          \E s \in Threads, n \in Nat : engine'.by = <<s, n>> /\ n <= calls'[s]
  BY <1>1, <1>3 DEF CallInv
<1>5. \A i \in inits' : \E s \in Threads, n \in Nat :
          /\ i.call = <<s, n>> /\ n <= calls'[s]
          /\ tpc'[s] \in InitPCs => n < calls'[s]
  <2>1. TAKE i \in inits'
  <2>2. PICK s \in Threads, n \in Nat : /\ i.call = <<s, n>> /\ n <= calls[s]
                                        /\ tpc[s] \in InitPCs => n < calls[s]
    BY <1>1 DEF CallInv
  <2>3. QED
    BY <2>2, <1>2, <1>3
<1>6. engine # NoEngine => engine.by # <<t, calls'[t]>>
  BY <1>2 DEF CallInv
<1>7. \A s \in Threads :
          /\ tpc'[s] = "set" => engine' # NoEngine /\ engine'.by = <<s, calls'[s]>>
          /\ tpc'[s] \in InitPCs \ {"set"} /\ engine' # NoEngine => engine'.by # <<s, calls'[s]>>
  BY <1>1, <1>2, <1>6 DEF CallInv, ThisCall
<1>8. InitSpeaksForEngine'
  BY <1>1 DEF CallInv, InitSpeaksForEngine
<1>9. QED
  BY <1>2, <1>4, <1>5, <1>7, <1>8 DEF CallInv, ThisCall

(* A thread that goes on inside a call, and not into or out of "set".       *)
LEMMA GoingOn ==
  ASSUME CallInv, NEW t \in Threads, UNCHANGED <<calls, engine, inits>>,
         NEW to, tpc' = [tpc EXCEPT ![t] = to], to # "set",
         to \in InitPCs => tpc[t] \in InitPCs \ {"set"}
  PROVE  CallInv'
<1>1. /\ tpc' = [s \in Threads |-> tpc'[s]]
      /\ \A s \in Threads : /\ tpc'[s] \in InitPCs => tpc[s] \in InitPCs
                            /\ tpc'[s] = "set" => tpc[s] = "set"
                            /\ tpc'[s] \in InitPCs \ {"set"} => tpc[s] \in InitPCs \ {"set"}
  BY DEF CallInv
<1>2. \A i \in inits' : \E s \in Threads, n \in Nat :
          /\ i.call = <<s, n>> /\ n <= calls'[s]
          /\ tpc'[s] \in InitPCs => n < calls'[s]
  BY <1>1 DEF CallInv
<1>3. QED
  BY <1>1, <1>2 DEF CallInv, ThisCall, InitSpeaksForEngine

(* A call of synqro_init is answered.                                       *)
LEMMA Answering ==
  ASSUME CallInv, NEW t \in Threads, tpc[t] \in InitPCs, NEW result,
         tpc' = [tpc EXCEPT ![t] = "answered"], UNCHANGED <<calls, engine>>,
         inits' = inits \cup {[call |-> ThisCall(t), result |-> result]},
         result = "Ok" => tpc[t] = "set",
         tpc[t] = "set" => result \in {"Ok", "Permission", "Internal"}
  PROVE  CallInv'
<1> DEFINE new == [call |-> ThisCall(t), result |-> result]
<1>1. /\ tpc' = [s \in Threads |-> tpc'[s]] /\ tpc'[t] = "answered"
      /\ \A s \in Threads \ {t} : tpc'[s] = tpc[s]
  BY DEF CallInv
<1>2. calls[t] \in Nat /\ new.call = <<t, calls[t]>> /\ new.result = result
  BY DEF CallInv, ThisCall
<1>3. \A i \in inits' : \E s \in Threads, n \in Nat :
          /\ i.call = <<s, n>> /\ n <= calls'[s]
          /\ tpc'[s] \in InitPCs => n < calls'[s]
  <2>1. TAKE i \in inits'
  <2>2. CASE i = new
    BY <2>2, <1>1, <1>2 DEF InitPCs
  <2>3. CASE i \in inits
    <3>1. PICK s \in Threads, n \in Nat : /\ i.call = <<s, n>> /\ n <= calls[s]
                                          /\ tpc[s] \in InitPCs => n < calls[s]
      BY <2>3 DEF CallInv
    <3>2. tpc'[s] \in InitPCs => tpc[s] \in InitPCs
      BY <1>1 DEF InitPCs
    <3>3. QED
      BY <3>1, <3>2
  <2>4. QED
    BY <2>2, <2>3
<1>4. /\ new.result = "Ok" => engine # NoEngine /\ engine.by = new.call
      /\ engine # NoEngine /\ engine.by = new.call
            => new.result \in {"Ok", "Permission", "Internal"}
  BY <1>2 DEF CallInv, ThisCall
<1>5. InitSpeaksForEngine'
  BY <1>4 DEF CallInv, InitSpeaksForEngine
<1>6. \A s \in Threads :
          /\ tpc'[s] = "set" => engine # NoEngine /\ engine.by = ThisCall(s)
          /\ tpc'[s] \in InitPCs \ {"set"} /\ engine # NoEngine => engine.by # ThisCall(s)
  BY <1>1 DEF CallInv, InitPCs
<1>7. QED
  BY <1>1, <1>3, <1>5, <1>6 DEF CallInv, ThisCall

(* The call that wins OnceLock::set.                                        *)
LEMMA Winning ==
  ASSUME CallInv, NEW t \in Threads, tpc[t] = "loaded", engine = NoEngine,
         tpc' = [tpc EXCEPT ![t] = "set"], UNCHANGED <<calls, inits>>,
         engine' # NoEngine, engine'.by = ThisCall(t)
  PROVE  CallInv'
<1>1. /\ tpc' = [s \in Threads |-> tpc'[s]] /\ tpc'[t] = "set"
      /\ \A s \in Threads \ {t} : tpc'[s] = tpc[s] /\ tpc'[s] # "set"
  BY DEF CallInv
<1>2. calls[t] \in Nat /\ engine'.by = <<t, calls[t]>>
  BY DEF CallInv, ThisCall
<1>3. \A i \in inits : /\ i.result # "Ok" /\ i.call # <<t, calls[t]>>
                       /\ \E s \in Threads, n \in Nat :
                             /\ i.call = <<s, n>> /\ n <= calls[s]
                             /\ tpc'[s] \in InitPCs => n < calls[s]
  <2>1. TAKE i \in inits
  <2>2. PICK s \in Threads, n \in Nat : /\ i.call = <<s, n>> /\ n <= calls[s]
                                        /\ tpc[s] \in InitPCs => n < calls[s]
    BY DEF CallInv
  <2>3. s = t => n < calls[t]
    BY <2>2 DEF InitPCs
  <2>4. i.call # <<t, calls[t]>>
    BY <2>2, <2>3, <1>2
  <2>5. tpc'[s] \in InitPCs => n < calls[s]
    BY <2>2, <2>3, <1>1
  <2>6. i.result # "Ok"
    BY DEF CallInv, InitSpeaksForEngine
  <2>7. QED
    BY <2>2, <2>4, <2>5, <2>6
<1>4. InitSpeaksForEngine'
  BY <1>2, <1>3 DEF InitSpeaksForEngine
<1>5. \E s \in Threads, n \in Nat : engine'.by = <<s, n>> /\ n <= calls'[s]
  <2>1. calls[t] <= calls'[t]
    BY <1>2
  <2>2. QED
    BY <1>2, <2>1
<1>6. \A s \in Threads :
          /\ tpc'[s] = "set" => engine'.by = <<s, calls'[s]>>
          /\ tpc'[s] \in InitPCs \ {"set"} => engine'.by # <<s, calls'[s]>>
  <2>1. TAKE s \in Threads
  <2>2. CASE s = t
    BY <2>2, <1>1, <1>2
  <2>3. CASE s # t
    BY <2>3, <1>1, <1>2
  <2>4. QED
    BY <2>2, <2>3
<1>7. \A i \in inits' : \E s \in Threads, n \in Nat :
          /\ i.call = <<s, n>> /\ n <= calls'[s]
          /\ tpc'[s] \in InitPCs => n < calls'[s]
  BY <1>3
<1>8. calls' \in [Threads -> Nat]
  BY DEF CallInv
<1>9. QED
  BY <1>1, <1>4, <1>5, <1>6, <1>7, <1>8 DEF CallInv, ThisCall

(* What the calls do, as the three lemmas above see it.                     *)
LEMMA CallsSpeak ==
  ASSUME KeyInv, CallInv, NEW t \in Threads,
         \/ InitLoad(t) \/ InitKeychain(t) \/ InitAudit(t) \/ InitSet(t)
         \/ InitLog(t) \/ Translate(t)
  PROVE  CallInv'
<1> USE DEF InitPCs, BadArgument
<1>1. ASSUME NEW from \in InitPCs, NEW error, Refuse(t, from, error), engine' = engine,
             error # "Ok", from = "set" => error \in {"Permission", "Internal"}
      PROVE  CallInv'
  <2>1. /\ tpc[t] = from /\ tpc' = [tpc EXCEPT ![t] = "answered"] /\ calls' = calls
        /\ inits' = inits \cup {[call |-> ThisCall(t), result |-> error]}
    BY <1>1 DEF Refuse, Step
  <2>2. tpc[t] \in InitPCs /\ UNCHANGED <<calls, engine>>
    BY <1>1, <2>1
  <2>3. /\ error = "Ok" => tpc[t] = "set"
        /\ tpc[t] = "set" => error \in {"Ok", "Permission", "Internal"}
    BY <1>1, <2>1
  <2>4. QED
    BY <2>1, <2>2, <2>3, Answering, Zenon
<1>2. ASSUME NEW from \in InitPCs \ {"set"}, NEW to \in InitPCs \ {"set"}, Step(t, from, to),
             UNCHANGED <<engine, inits>>
      PROVE  CallInv'
  BY <1>2, GoingOn DEF Step
<1>3. CASE InitLoad(t)
  BY <1>1, <1>2, <1>3 DEF InitLoad, library, LoadConfig
<1>4. CASE InitKeychain(t) \/ InitAudit(t)
  BY <1>1, <1>2, <1>4 DEF InitKeychain, InitAudit, library
<1>5. CASE InitSet(t)
  <2>1. CASE engine # NoEngine
    BY <1>1, <1>5, <2>1 DEF InitSet
  <2>2. CASE engine = NoEngine
    <3>1. /\ tpc[t] = "loaded" /\ tpc' = [tpc EXCEPT ![t] = "set"]
          /\ UNCHANGED <<calls, inits>>
          /\ engine' = [by |-> ThisCall(t), id |-> loaded[t]]
      BY <1>5, <2>2 DEF InitSet, Step
    <3>2. loaded[t] \in Runs
      BY <3>1 DEF KeyInv, Documents
    <3>3. ThisCall(t) \in Threads \X Nat
      BY DEF CallInv, ThisCall
    <3>4. engine' # NoEngine /\ engine'.by = ThisCall(t)
      BY <3>1, <3>2, <3>3, StartupConstants
    <3>5. QED
      BY <2>2, <3>1, <3>4, Winning
  <2>3. QED
    BY <2>1, <2>2
<1>6. CASE InitLog(t)
  <2>1. CASE Accept(t, "set") /\ engine' = engine
    BY <2>1, Answering DEF Accept, Step
  <2>2. QED
    BY <1>1, <1>6, <2>1 DEF InitLog
<1>7. CASE Translate(t)
  BY <1>7, GoingOn DEF Translate, Step, library
<1>8. QED
  BY <1>3, <1>4, <1>5, <1>6, <1>7

(* The invariants about the file and about calls, together.                 *)
LEMMA CallsInvariant == Spec => [](KeyInv /\ CallInv)
<1>1. Init => KeyInv /\ CallInv
  BY ConfigConstants
     DEF Init, KeyInv, CallInv, InitPCs, InitSpeaksForEngine
<1>2. KeyInv /\ [Next]_vars => KeyInv'
  <2>1. KeyInv /\ Crash => KeyInv'
    BY DEF Crash, KeyInv, installer, InitPCs
  <2>2. KeyInv /\ UNCHANGED vars => KeyInv'
    BY DEF KeyInv, vars, installer, library, client
  <2>3. QED
    BY <2>1, <2>2, InstallersKeepKey, EditsKeepKey, CallsKeepKey DEF Next
<1>3. KeyInv /\ CallInv /\ [Next]_vars => CallInv'
  <2> SUFFICES ASSUME KeyInv, CallInv, [Next]_vars PROVE CallInv'
    OBVIOUS
  <2>1. CASE UNCHANGED <<calls, tpc, engine, inits>>
    BY <2>1 DEF CallInv, ThisCall, InitSpeaksForEngine
  <2>2. ASSUME NEW r \in Runs,
               \/ CheckExisting(r) \/ CreateConfig(r) \/ WriteConfig(r)
               \/ ChmodConfig(r) \/ Prepare(r) \/ InstallerStops(r)
        PROVE  UNCHANGED <<calls, tpc, engine, inits>>
    BY <2>2 DEF CheckExisting, CreateConfig, WriteConfig, ChmodConfig, Prepare,
                InstallerStops, Install, library, client
  <2>3. Edit \/ DeleteTorn \/ UNCHANGED vars => UNCHANGED <<calls, tpc, engine, inits>>
    BY DEF Edit, DeleteTorn, vars, library, client
  <2>4. CASE Crash
    BY <2>4 DEF Crash, CallInv, InitPCs, InitSpeaksForEngine
  <2>5. QED
    BY <2>1, <2>2, <2>3, <2>4, BeginningCalls, CallsSpeak DEF Next
<1>4. QED
  BY <1>1, <1>2, <1>3, PTL DEF Spec

(* lib.rs:155-206: whoever calls synqro_init, how often and through which   *)
(* restarts, an Ok names the engine that runs and an error left none        *)
(* behind, except when the first line of the log was refused.               *)
THEOREM InitSpeaks == Spec => []InitSpeaksForEngine
<1>1. CallInv => InitSpeaksForEngine
  BY DEF CallInv
<1>2. QED
  BY <1>1, CallsInvariant, PTL

-----------------------------------------------------------------------------
(* The file that was read, and the one that is there by now, had its        *)
(* placeholders filled in: the operator never puts one back.                *)
FilledInv ==
    (\E t \in Threads : loaded[t] # NoRun) \/ engine # NoEngine \/ signed # {} =>
        "checklist" \in file.edits

(* A document that load_config takes is one whose checklist was done.       *)
LEMMA LoadedIsFilled ==
  ASSUME file \in Documents, LoadConfig(file) = "Ok"
  PROVE  "checklist" \in file.edits
<1>1. ValidateConfig(file)
  BY ConfigConstants DEF LoadConfig
<1>2. ValueOf(file, "release_signing_pubkey") \notin {"empty", "REPLACE_ME"}
  BY <1>1 DEF ValidateConfig, Placeholders
<1>3. Template("release_signing_pubkey") = "REPLACE_ME"
  BY DEF Template
<1>4. QED
  BY <1>2, <1>3 DEF ValueOf, Numbers

(* A document whose checklist was done has no placeholder for its key.      *)
LEMMA FilledHasKey ==
  ASSUME file \in Documents, "checklist" \in file.edits
  PROVE  ValueOf(file, "release_signing_pubkey") # "REPLACE_ME"
<1>1. Template("release_signing_pubkey") = "REPLACE_ME"
  BY DEF Template
<1>2. QED
  BY <1>1 DEF ValueOf, Numbers

LEMMA FilledKept == KeyInv /\ FilledInv /\ [Next]_vars => FilledInv'
<1> SUFFICES ASSUME KeyInv, FilledInv, [Next]_vars PROVE FilledInv'
  OBVIOUS
<1> USE DEF FilledInv
<1>1. Torn \notin Documents /\ Absent \notin Documents
  BY ConfigConstants
<1>2. (\E t \in Threads : loaded[t] # NoRun) \/ engine # NoEngine \/ signed # {}
         => file \in Documents
  BY DEF KeyInv
<1>3. ASSUME NEW r \in Runs,
             \/ CheckExisting(r) \/ CreateConfig(r) \/ WriteConfig(r)
             \/ ChmodConfig(r) \/ Prepare(r) \/ InstallerStops(r)
      PROVE  FilledInv'
  <2>1. UNCHANGED <<loaded, engine, signed>>
    BY <1>3 DEF CheckExisting, CreateConfig, WriteConfig, ChmodConfig, Prepare,
                InstallerStops, Install, library, client
  <2>2. file' = file \/ file \notin Documents
    BY <1>1, <1>3 DEF CheckExisting, CreateConfig, WriteConfig, ChmodConfig, Prepare,
                      InstallerStops, Install, KeyInv
  <2>3. QED
    BY <1>2, <2>1, <2>2
<1>4. CASE Edit \/ DeleteTorn
  <2>1. UNCHANGED <<loaded, engine, signed>>
    BY <1>4 DEF Edit, DeleteTorn, library, client
  <2>2. file \in Documents => file.edits \subseteq file'.edits
    BY <1>1, <1>4 DEF Edit, DeleteTorn, Documents
  <2>3. QED
    BY <1>2, <2>1, <2>2
<1>5. CASE Crash
  BY <1>5 DEF Crash, installer
<1>6. ASSUME NEW t \in Threads, InitLoad(t) PROVE FilledInv'
  <2>1. LoadConfig(file) = "Ok" => file \in Documents
    BY DEF LoadConfig, KeyInv
  <2>2. LoadConfig(file) = "Ok" => "checklist" \in file.edits
    BY <2>1, LoadedIsFilled
  <2>3. UNCHANGED <<file, engine, signed>>
    BY <1>6 DEF InitLoad, BadArgument, Refuse, Step, installer, library
  <2>4. loaded' = loaded \/ LoadConfig(file) = "Ok" \/ loaded' = [loaded EXCEPT ![t] = NoRun]
    BY <1>6 DEF InitLoad, BadArgument, Refuse, library
  <2>5. QED
    BY <2>2, <2>3, <2>4 DEF KeyInv
<1>7. ASSUME NEW t \in Threads,
             InitKeychain(t) \/ InitAudit(t) \/ InitSet(t) \/ InitLog(t)
      PROVE  FilledInv'
  <2>1. file' = file /\ (loaded' = loaded \/ loaded' = [loaded EXCEPT ![t] = NoRun])
    BY <1>7 DEF InitKeychain, InitAudit, InitSet, InitLog, Refuse, Accept, Step, installer
  <2>2. UNCHANGED <<engine, signed>> \/ loaded[t] # NoRun
    BY <1>7 DEF InitKeychain, InitAudit, InitSet, InitLog, Refuse, Accept, Step, KeyInv, InitPCs
  <2>3. QED
    BY <2>1, <2>2 DEF KeyInv
<1>8. ASSUME NEW t \in Threads,
             \/ SynqroInit(t) \/ SynqroAuditEvent(t) \/ SynqroHealthCheck(t) \/ Translate(t)
      PROVE  FilledInv'
  <2>1. UNCHANGED <<file, loaded, engine>> /\ (signed' = signed \/ engine # NoEngine)
    BY <1>8 DEF SynqroInit, SynqroAuditEvent, SynqroHealthCheck,
                Translate, Call, Step, installer, library
  <2>2. QED
    BY <2>1
<1>9. CASE UNCHANGED vars
  BY <1>9 DEF vars, installer, library, client
<1>10. QED
  BY <1>3, <1>4, <1>5, <1>6, <1>7, <1>8, <1>9 DEF Next

(* config.rs:205-215: no engine runs, and nothing was ever signed, under a  *)
(* file whose release key is still a placeholder.                           *)
THEOREM PlaceholderRefused == Spec => []NoPlaceholderKey
<1>1. Init => FilledInv
  BY DEF Init, FilledInv
<1>2. KeyInv /\ FilledInv => NoPlaceholderKey
  BY FilledHasKey DEF KeyInv, FilledInv, NoPlaceholderKey
<1>3. QED
  BY <1>1, <1>2, FilledKept, CallsInvariant, PTL DEF Spec

-----------------------------------------------------------------------------
(* The initial state has the types.                                         *)
LEMMA StartupInitType == Init => TypeOK
<1> SUFFICES ASSUME Init PROVE TypeOK
  OBVIOUS
<1>1. faults \in 0..MaxFaults
  BY StartupConstants DEF Init
<1>2. calls \in [Threads -> Nat]
  BY DEF Init
<1>3. /\ file \in {Absent, Torn} \cup Documents /\ author \in Runs \cup {NoRun}
      /\ (file = Absent) <=> (author = NoRun)
      /\ engine \in {NoEngine} \cup [by : CallIds, id : Runs]
  BY DEF Init
<1>4. /\ inits \subseteq [call : CallIds, result : {"Ok"} \cup Errors]
      /\ signed \subseteq Runs /\ prepared \in BOOLEAN
  BY DEF Init
<1>5. /\ ipc \in [Runs -> {"new", "absent", "created", "written", "saved", "exit 0", "failed"}]
      /\ tpc \in [Threads -> {"idle", "answered"} \cup InitPCs]
      /\ loaded \in [Threads -> Runs \cup {NoRun}]
  BY DEF Init
<1>6. QED
  BY <1>1, <1>2, <1>3, <1>4, <1>5 DEF TypeOK

(* The number of faults stays within its bound.                             *)
LEMMA FaultCounted ==
  ASSUME faults \in 0..MaxFaults, NEW kind, Fault(kind)
  PROVE  faults' \in 0..MaxFaults
BY StartupConstants DEF Fault

(* A run of the installer keeps the types: the file it creates is its own.  *)
LEMMA InstallersType ==
  ASSUME TypeOK, NEW r \in Runs,
         \/ CheckExisting(r) \/ CreateConfig(r) \/ WriteConfig(r)
         \/ ChmodConfig(r) \/ Prepare(r) \/ InstallerStops(r)
  PROVE  TypeOK'
<1>1. UNCHANGED <<engine, inits, signed, tpc, loaded, calls>>
  BY DEF CheckExisting, CreateConfig, WriteConfig, ChmodConfig, Prepare,
         InstallerStops, Install, library, client
<1>2. ipc' \in [Runs -> {"new", "absent", "created", "written", "saved", "exit 0", "failed"}]
  BY DEF CheckExisting, CreateConfig, WriteConfig, ChmodConfig, Prepare,
         InstallerStops, Install, TypeOK
<1>3. faults' \in 0..MaxFaults
  <2>1. UNCHANGED faults \/ Fault("disk") \/ Fault("install_crash")
    BY DEF CheckExisting, CreateConfig, WriteConfig, ChmodConfig, Prepare, InstallerStops
  <2>2. faults \in 0..MaxFaults
    BY DEF TypeOK
  <2>3. QED
    BY <2>1, <2>2, FaultCounted
<1>4. prepared' \in BOOLEAN
  BY DEF CheckExisting, CreateConfig, WriteConfig, ChmodConfig, Prepare, InstallerStops, TypeOK
<1>5. BuildConfig(r) \in Documents
  BY DEF BuildConfig, Documents
<1>6. Absent \notin Documents /\ Torn \notin Documents /\ Absent # Torn /\ r # NoRun
  BY ConfigConstants, StartupConstants
<1>7. /\ file' \in {Absent, Torn} \cup Documents
      /\ author' \in Runs \cup {NoRun}
      /\ (file' = Absent) <=> (author' = NoRun)
  BY <1>5, <1>6 DEF CheckExisting, CreateConfig, WriteConfig, ChmodConfig, Prepare,
                    InstallerStops, TypeOK
<1>8. QED
  BY <1>1, <1>2, <1>3, <1>4, <1>7 DEF TypeOK

(* So do the operator and a crash of the application.                       *)
LEMMA SurroundingsType ==
  ASSUME TypeOK, Edit \/ DeleteTorn \/ Crash
  PROVE  TypeOK'
<1>1. CASE Edit
  <2>1. file \in Documents /\ file' \in Documents
    BY <1>1 DEF Edit, Documents
  <2>2. file # Absent /\ file' # Absent
    BY <2>1, ConfigConstants
  <2>3. QED
    BY <1>1, <2>1, <2>2 DEF Edit, TypeOK, library, client
<1>2. CASE DeleteTorn
  BY <1>2 DEF DeleteTorn, TypeOK, library, client
<1>3. CASE Crash
  <2>1. faults' \in 0..MaxFaults
    BY <1>3, FaultCounted DEF Crash, TypeOK
  <2>2. QED
    BY <1>3, <2>1 DEF Crash, TypeOK, installer
<1>4. QED
  BY <1>1, <1>2, <1>3

(* An error answers the call.                                               *)
LEMMA RefuseType ==
  ASSUME TypeOK, NEW t \in Threads, NEW from, NEW error \in Errors, Refuse(t, from, error),
         UNCHANGED engine, UNCHANGED signed, faults' \in 0..MaxFaults
  PROVE  TypeOK'
<1>1. /\ UNCHANGED <<installer, calls>>
      /\ tpc' \in [Threads -> {"idle", "answered"} \cup InitPCs]
  BY DEF Refuse, Step, TypeOK
<1>2. inits' \subseteq [call : CallIds, result : {"Ok"} \cup Errors]
  <2>1. ThisCall(t) \in CallIds
    BY DEF ThisCall, CallIds, TypeOK
  <2>2. [call |-> ThisCall(t), result |-> error] \in [call : CallIds, result : {"Ok"} \cup Errors]
    BY <2>1
  <2>3. QED
    BY <2>2, Zenon DEF Refuse, TypeOK
<1>3. loaded' \in [Threads -> Runs \cup {NoRun}]
  BY DEF Refuse, TypeOK
<1>4. QED
  BY <1>1, <1>2, <1>3, Zenon DEF TypeOK, installer

(* A step inside synqro_init that touches neither the engine nor the answers.*)
LEMMA InitType ==
  ASSUME TypeOK, KeyInv, NEW t \in Threads,
         InitLoad(t) \/ InitKeychain(t) \/ InitAudit(t) \/ InitSet(t) \/ InitLog(t)
  PROVE  TypeOK'
<1>1. faults \in 0..MaxFaults
  BY DEF TypeOK
<1>2. CASE InitLoad(t)
  <2>1. CASE BadArgument(t)
    BY <1>1, <2>1, RefuseType DEF BadArgument, Errors
  <2>2. CASE LoadConfig(file) # "Ok" /\ ~BadArgument(t)
    <3>1. LoadConfig(file) \in Errors
      BY <2>2 DEF LoadConfig, Errors
    <3>2. QED
      BY <1>1, <1>2, <2>2, <3>1, RefuseType DEF InitLoad
  <2>3. CASE LoadConfig(file) = "Ok" /\ ~BadArgument(t)
    <3>1. /\ Step(t, "init", "loaded")
          /\ loaded' = [loaded EXCEPT ![t] = file.id]
          /\ UNCHANGED <<library, faults>>
      BY <1>2, <2>3 DEF InitLoad
    <3>2. file.id \in Runs
      BY <2>3 DEF LoadConfig, TypeOK, Documents
    <3>3. tpc' \in [Threads -> {"idle", "answered"} \cup InitPCs]
      BY <3>1 DEF Step, TypeOK, InitPCs
    <3>4. loaded' \in [Threads -> Runs \cup {NoRun}]
      BY <3>1, <3>2 DEF TypeOK
    <3>5. QED
      BY <3>1, <3>3, <3>4, Zenon DEF Step, TypeOK, installer, library
  <2>4. QED
    BY <2>1, <2>2, <2>3
<1>3. CASE InitKeychain(t)
  BY <1>1, <1>3, FaultCounted, RefuseType DEF InitKeychain, Errors
<1>4. CASE InitAudit(t)
  BY <1>1, <1>4, FaultCounted, RefuseType DEF InitAudit, Errors
<1>5. CASE InitSet(t)
  <2>1. CASE engine = NoEngine
    <3>1. /\ Step(t, "loaded", "set")
          /\ engine' = [by |-> ThisCall(t), id |-> loaded[t]]
          /\ UNCHANGED <<inits, signed, loaded, faults>>
      BY <1>5, <2>1 DEF InitSet
    <3>2. loaded[t] \in Runs
      BY <3>1 DEF Step, KeyInv, TypeOK, InitPCs
    <3>3. ThisCall(t) \in CallIds
      BY DEF ThisCall, CallIds, TypeOK
    <3>4. engine' \in [by : CallIds, id : Runs]
      BY <3>1, <3>2, <3>3
    <3>5. tpc' \in [Threads -> {"idle", "answered"} \cup InitPCs]
      BY <3>1 DEF Step, TypeOK, InitPCs
    <3>6. QED
      BY <3>1, <3>4, <3>5, Zenon DEF Step, TypeOK, installer
  <2>2. CASE engine # NoEngine
    BY <1>1, <1>5, <2>2, RefuseType DEF InitSet, Errors
  <2>3. QED
    BY <2>1, <2>2
<1>6. CASE InitLog(t)
  <2>1. CASE Accept(t, "set")
    <3>1. loaded[t] \in Runs
      BY <2>1 DEF Accept, Step, KeyInv, TypeOK, InitPCs
    <3>2. signed' \subseteq Runs
      BY <1>6, <3>1 DEF InitLog, TypeOK
    <3>3. [call |-> ThisCall(t), result |-> "Ok"] \in [call : CallIds, result : {"Ok"} \cup Errors]
      BY DEF ThisCall, CallIds, TypeOK
    <3>4. inits' \subseteq [call : CallIds, result : {"Ok"} \cup Errors]
      BY <2>1, <3>3, Zenon DEF Accept, TypeOK
    <3>5. tpc' \in [Threads -> {"idle", "answered"} \cup InitPCs]
      BY <2>1 DEF Accept, Step, TypeOK, InitPCs
    <3>6. loaded' \in [Threads -> Runs \cup {NoRun}]
      BY <2>1 DEF Accept, TypeOK
    <3>7. faults' \in 0..MaxFaults
      BY <1>1, <1>6, FaultCounted DEF InitLog
    <3>8. UNCHANGED <<engine, installer, calls>>
      BY <1>6, <2>1 DEF InitLog, Accept, Step
    <3>9. QED
      BY <3>2, <3>4, <3>5, <3>6, <3>7, <3>8, Zenon DEF TypeOK, installer
  <2>2. CASE ~Accept(t, "set")
    BY <1>1, <1>6, <2>2, FaultCounted, RefuseType DEF InitLog, Errors
  <2>3. QED
    BY <2>1, <2>2
<1>7. QED
  BY <1>2, <1>3, <1>4, <1>5, <1>6

(* The other calls answer at once, and the client translates the result.    *)
LEMMA CallsType ==
  ASSUME TypeOK, KeyInv, NEW t \in Threads,
         \/ SynqroInit(t) \/ SynqroAuditEvent(t) \/ SynqroHealthCheck(t) \/ Translate(t)
  PROVE  TypeOK'
<1>1. faults' \in 0..MaxFaults
  <2>1. UNCHANGED faults \/ Fault("log_write")
    BY DEF SynqroInit, SynqroAuditEvent, SynqroHealthCheck, Translate
  <2>2. faults \in 0..MaxFaults
    BY DEF TypeOK
  <2>3. QED
    BY <2>1, <2>2, FaultCounted
<1>2. UNCHANGED <<installer, engine, inits, loaded>>
  BY DEF SynqroInit, SynqroAuditEvent, SynqroHealthCheck, Translate, Call, Step,
         library
<1>3. tpc' \in [Threads -> {"idle", "answered"} \cup InitPCs]
  BY DEF SynqroInit, SynqroAuditEvent, SynqroHealthCheck, Translate,
         Call, Step, TypeOK, InitPCs
<1>4. calls' \in [Threads -> Nat]
  <2>1. calls' = calls \/ calls' = [calls EXCEPT ![t] = @ + 1]
    BY DEF SynqroInit, SynqroAuditEvent, SynqroHealthCheck, Translate,
           Call, Step
  <2>2. calls \in [Threads -> Nat]
    BY DEF TypeOK
  <2>3. QED
    BY <2>1, <2>2
<1>5. signed' \subseteq Runs
  BY DEF SynqroInit, SynqroAuditEvent, SynqroHealthCheck, Translate,
         library, TypeOK
<1>6. QED
  BY <1>1, <1>2, <1>3, <1>4, <1>5, Zenon DEF TypeOK, installer

(* post_install.py:206-260, lib.rs:130-470: every variable keeps its type,  *)
(* and there is a file exactly while some run of the installer created it.  *)
THEOREM StartupType == Spec => []TypeOK
<1>1. TypeOK /\ KeyInv /\ [Next]_vars => TypeOK'
  <2>1. TypeOK /\ UNCHANGED vars => TypeOK'
    BY DEF TypeOK, vars, installer, library, client
  <2>2. QED
    BY <2>1, InstallersType, SurroundingsType, InitType, CallsType DEF Next
<1>2. QED
  BY <1>1, StartupInitType, CallsInvariant, PTL DEF Spec
=============================================================================

----------------------------- MODULE Keychain -----------------------------
(***************************************************************************)
(* The keychain backends of src/src/keychain/: callers on several threads  *)
(* load, store and delete the secret of one service/account pair.          *)
(*                                                                         *)
(* A call hands requests to the platform and turns its replies into an     *)
(* answer.  A request goes to a direct service (Windows, iOS, the macOS    *)
(* framework), to a Java callback under a mutex (Android), or to a helper  *)
(* process (Linux, the macOS fallback) that is given ten seconds to exit.  *)
(* After that the call answers with an error, and the helper, which nobody *)
(* kills, is left behind with its request.  A Linux helper that stores a   *)
(* secret is first fed it through a pipe, before the ten seconds begin.    *)
(***************************************************************************)
EXTENDS Naturals, FiniteSets

CONSTANTS
    Callers,
    Nobody,        \* no holder of the callbacks mutex
    Secrets,
    LongSecrets,   \* those longer than the 4096 bytes Android reads
    LargeSecrets,  \* those that do not fit into a pipe: writing one waits
                   \* until the helper reads
    NoSecret,
    Platforms,     \* the operating systems the library is built for
    Faults,        \* the kinds of fault the environment may produce
    MaxFaults,     \* bound: faults in one behaviour
    MaxCalls       \* bound: [Callers -> calls of the caller]

Helpers == {"secret-tool", "keyctl"}
FaultKinds == {"spawn", "stdin", "wait", "helper", "search", "service"}

ASSUME KeychainConstants ==
    /\ Nobody \notin Callers
    /\ NoSecret \notin Secrets
    /\ LongSecrets \subseteq Secrets /\ LargeSecrets \subseteq LongSecrets
    /\ Platforms \subseteq {"linux", "macos", "windows", "android", "ios"}
    /\ Faults \subseteq FaultKinds
    /\ MaxFaults \in Nat
    /\ MaxCalls \in [Callers -> Nat]

VARIABLES
    platform,
    installed,    \* the helper programs present on a Linux machine
    provider,     \* what platform_keychain returned
    jni,          \* Android: what the Java layer has set up
    mutex,        \* Android: holder of the callbacks mutex
    entry,        \* the platform's entry for the pair
    serial,       \* the serial number of the last kernel key added
    pc, op,       \* [Callers -> where the call stands, its operation]
    request,      \* [Callers -> what the call last handed to the platform]
    reply,        \* [Callers -> what the platform replied to it]
    answer,       \* [Callers -> what the last call returned]
    calls,        \* [Callers -> calls made]
    late,         \* the requests of helpers their calls no longer wait for
    faults

setup == <<platform, installed, provider, jni>>
store == <<entry, serial>>
vars == <<setup, mutex, store, pc, op, request, reply, answer, calls, late, faults>>

Operations ==
    [op : {"store"}, secret : Secrets] \cup
    [op : {"load", "delete"}, secret : {NoSecret}]

Forms == {"raw", "hex", "cut"}
Bytes == [form : Forms, secret : Secrets]
NoBytes == [form |-> "raw", secret |-> NoSecret]
Present == entry # NoBytes

Serials == Nat
ByName == 0        \* a request that names the pair and not a kernel key

Requests ==
    [do : {"read", "write", "remove", "search"},
     via : {"helper", "service", "callback"},
     bytes : Bytes \cup {NoBytes},
     key : Serials]

Exits == {"success", "absent", "failed"}
Replies == [exit : Exits, bytes : Bytes \cup {NoBytes}, key : Serials]

Errors == {"Keychain", "Permission", "Io"}
Answers == [result : {"Ok", "none"} \cup Errors, bytes : Bytes \cup {NoBytes}]

Read(via) == [do |-> "read", via |-> via, bytes |-> NoBytes, key |-> ByName]
Remove(via) == [Read(via) EXCEPT !.do = "remove"]
Write(via, form, secret) ==
    [Read(via) EXCEPT !.do = "write", !.bytes = [form |-> form, secret |-> secret]]
Search == [Read("helper") EXCEPT !.do = "search"]
Pipe(key) == [Read("helper") EXCEPT !.key = key]
Unlink(key) == [Remove("helper") EXCEPT !.key = key]

Ok(bytes) == [result |-> "Ok", bytes |-> bytes]
Err(error) == [result |-> error, bytes |-> NoBytes]

(* What the locals of a caller hold outside a call.                         *)
NoOperation == [op |-> "none", secret |-> NoSecret]
NoRequest == Read("none")
NoReply == [exit |-> "failed", bytes |-> NoBytes, key |-> ByName]

Types ==
    /\ platform \in Platforms
    /\ installed \subseteq Helpers
    /\ provider \in Helpers \cup {"closed", "unavailable", "security",
                                  "wincred", "java", "ios"}
    /\ jni \in [env : BOOLEAN, registered : BOOLEAN]
    /\ entry \in Bytes \cup {NoBytes}
    /\ serial \in Serials
    /\ pc \in [Callers -> {"idle", "start", "feeding", "asked", "told"}]
    /\ op \in [Callers -> Operations \cup {NoOperation}]
    /\ request \in [Callers -> Requests \cup {NoRequest}]
    /\ reply \in [Callers -> Replies]
    /\ answer \in [Callers -> Answers]
    /\ calls \in [Callers -> Nat]
    /\ \A c \in Callers : calls[c] <= MaxCalls[c]
    /\ late \subseteq [caller : Callers, call : Nat \ {0}, request : Requests]
    /\ faults \in 0..MaxFaults

(* A caller that holds the callbacks mutex is inside a callback.            *)
TypeOK ==
    /\ Types
    /\ mutex \in {Nobody} \cup
           {c \in Callers : pc[c] \in {"asked", "told"} /\ request[c].via = "callback"}

Init ==
    /\ platform \in Platforms
    /\ installed \in SUBSET (IF platform = "linux" THEN Helpers ELSE {})
    /\ provider = "closed"
    /\ jni = [env |-> FALSE, registered |-> FALSE]
    /\ mutex = Nobody
    /\ entry \in {NoBytes} \cup [form : {"raw"}, secret : Secrets]
    /\ serial = IF Present THEN 1 ELSE 0
    /\ pc = [c \in Callers |-> "idle"]
    /\ op = [c \in Callers |-> NoOperation]
    /\ request = [c \in Callers |-> NoRequest]
    /\ reply = [c \in Callers |-> NoReply]
    /\ answer = [c \in Callers |-> Err("none")]
    /\ calls = [c \in Callers |-> 0]
    /\ late = {}
    /\ faults = 0

Fault(kind) ==
    /\ kind \in Faults
    /\ faults < MaxFaults
    /\ faults' = faults + 1

-----------------------------------------------------------------------------
(* Opening the keychain                                                     *)

(* LinuxKeychain::new probes for the helpers, in this order.                *)
LinuxNew ==
    IF "secret-tool" \in installed THEN "secret-tool"
    ELSE IF "keyctl" \in installed THEN "keyctl"
    ELSE "unavailable"

PlatformKeychain ==
    CASE platform = "linux"   -> LinuxNew
      [] platform = "macos"   -> "security"
      [] platform = "windows" -> "wincred"
      [] platform = "android" -> "java"
      [] platform = "ios"     -> "ios"

Open ==
    /\ provider = "closed"
    /\ provider' = PlatformKeychain
    /\ UNCHANGED <<platform, installed, jni, mutex, store>>
    /\ UNCHANGED <<pc, op, request, reply, answer, calls, late, faults>>

(* The Java layer builds a keychain with its JNIEnv: the callbacks of the   *)
(* new object are empty.  Nobody uses the object yet.                       *)
WithJniEnv ==
    /\ provider = "java" /\ ~jni.env
    /\ \A c \in Callers : pc[c] = "idle"
    /\ jni' = [env |-> TRUE, registered |-> FALSE]
    /\ UNCHANGED <<platform, installed, provider, mutex, store>>
    /\ UNCHANGED <<pc, op, request, reply, answer, calls, late, faults>>

RegisterCallbacks ==
    /\ provider = "java" /\ ~jni.registered
    /\ mutex = Nobody
    /\ jni' = [jni EXCEPT !.registered = TRUE]
    /\ UNCHANGED <<platform, installed, provider, mutex, store>>
    /\ UNCHANGED <<pc, op, request, reply, answer, calls, late, faults>>

-----------------------------------------------------------------------------
(* The steps calls are made of                                              *)

Call(c) ==
    /\ provider \notin {"closed", "unavailable"}
    /\ pc[c] = "idle"
    /\ calls[c] < MaxCalls[c]
    /\ calls' = [calls EXCEPT ![c] = @ + 1]
    /\ pc' = [pc EXCEPT ![c] = "start"]
    /\ \E o \in Operations : op' = [op EXCEPT ![c] = o]
    /\ answer' = [answer EXCEPT ![c] = Err("none")]
    /\ UNCHANGED <<setup, mutex, store, request, reply, late, faults>>

Starting(c, p, o) == provider = p /\ pc[c] = "start" /\ op[c].op = o

Told(c, p, o, via) ==
    provider = p /\ pc[c] = "told" /\ op[c].op = o /\ request[c].via = via

(* What every step of a call leaves alone.                                  *)
CallFrame == UNCHANGED <<setup, store, calls>>

Hand(c, r, at) ==
    /\ pc' = [pc EXCEPT ![c] = at]
    /\ request' = [request EXCEPT ![c] = r]
    /\ reply' = [reply EXCEPT ![c] = NoReply]
    /\ UNCHANGED <<op, answer, late>>
    /\ CallFrame

Ask(c, r) == Hand(c, r, "asked")

Leave(c, a) ==
    /\ pc' = [pc EXCEPT ![c] = "idle"]
    /\ op' = [op EXCEPT ![c] = NoOperation]
    /\ request' = [request EXCEPT ![c] = NoRequest]
    /\ reply' = [reply EXCEPT ![c] = NoReply]
    /\ answer' = [answer EXCEPT ![c] = a]
    /\ CallFrame

Finish(c, a) == Leave(c, a) /\ UNCHANGED late

Return(c, a) == Finish(c, a) /\ UNCHANGED <<mutex, faults>>

AskService(c, r) == Ask(c, r) /\ UNCHANGED <<mutex, faults>>

(* A helper is spawned, or cannot be.                                       *)
RunHelper(c, r) ==
    /\ \/ Ask(c, r) /\ UNCHANGED faults
       \/ Fault("spawn") /\ Finish(c, Err("Permission"))
    /\ UNCHANGED mutex

(* A helper that reads the secret from its standard input is spawned.       *)
FeedHelper(c, r) ==
    /\ \/ Hand(c, r, "feeding") /\ UNCHANGED faults
       \/ Fault("spawn") /\ Finish(c, Err("Permission"))
    /\ UNCHANGED mutex

(* write_all has written the secret, or has failed: without all of it the   *)
(* helper does nothing.  No deadline runs while it waits for the helper to  *)
(* read.                                                                    *)
WriteSecret(c) ==
    /\ pc[c] = "feeding"
    /\ \/ /\ pc' = [pc EXCEPT ![c] = "asked"]
          /\ UNCHANGED <<op, request, reply, answer, late, faults>>
          /\ CallFrame
       \/ Fault("stdin") /\ Finish(c, Err("Keychain"))
    /\ UNCHANGED mutex

Success(c) == reply[c].exit = "success"
Absent(c) == reply[c].exit = "absent"

OkIf(c, good, bytes) == Return(c, IF good THEN Ok(bytes) ELSE Err("Keychain"))

-----------------------------------------------------------------------------
(* linux.rs: secret-tool                                                    *)

SecretToolLookup(c) ==
    \/ Starting(c, "secret-tool", "load") /\ RunHelper(c, Read("helper"))
    \/ Told(c, "secret-tool", "load", "helper") /\ OkIf(c, Success(c), reply[c].bytes)

SecretToolStore(c) ==
    \/ /\ Starting(c, "secret-tool", "store")
       /\ FeedHelper(c, Write("helper", "raw", op[c].secret))
    \/ Told(c, "secret-tool", "store", "helper") /\ OkIf(c, Success(c), NoBytes)

SecretToolClear(c) ==
    \/ Starting(c, "secret-tool", "delete") /\ RunHelper(c, Remove("helper"))
    \/ Told(c, "secret-tool", "delete", "helper") /\ OkIf(c, Success(c), NoBytes)

(* linux.rs: keyctl.  Loads and deletes search for the key first and then   *)
(* use the serial number they were told.                                    *)
Searched(c, o) == Told(c, "keyctl", o, "helper") /\ request[c].do = "search"
FollowedUp(c, o) == Told(c, "keyctl", o, "helper") /\ request[c].do # "search"

(* Mutation of KeyctlRead: the status of keyctl pipe is not looked at.      *)
KeyctlReadUnchecked(c) ==
    \/ Starting(c, "keyctl", "load") /\ RunHelper(c, Search)
    \/ Searched(c, "load") /\ Success(c) /\ RunHelper(c, Pipe(reply[c].key))
    \/ Searched(c, "load") /\ ~Success(c) /\ Return(c, Err("Keychain"))
    \/ FollowedUp(c, "load") /\ Return(c, Ok(reply[c].bytes))

KeyctlRead(c) ==
    \/ Starting(c, "keyctl", "load") /\ RunHelper(c, Search)
    \/ Searched(c, "load") /\ Success(c) /\ RunHelper(c, Pipe(reply[c].key))
    \/ Searched(c, "load") /\ ~Success(c) /\ Return(c, Err("Keychain"))
    \/ FollowedUp(c, "load") /\ OkIf(c, Success(c), reply[c].bytes)

KeyctlStore(c) ==
    \/ /\ Starting(c, "keyctl", "store")
       /\ FeedHelper(c, Write("helper", "raw", op[c].secret))
    \/ FollowedUp(c, "store") /\ OkIf(c, Success(c), NoBytes)

(* A search that fails, for whatever reason, counts as "no such key".       *)
KeyctlUnlink(c) ==
    \/ Starting(c, "keyctl", "delete") /\ RunHelper(c, Search)
    \/ Searched(c, "delete") /\ Success(c) /\ RunHelper(c, Unlink(reply[c].key))
    \/ Searched(c, "delete") /\ ~Success(c) /\ Return(c, Ok(NoBytes))
    \/ FollowedUp(c, "delete") /\ OkIf(c, Success(c), NoBytes)

(* macos.rs: the framework first; when it fails for any reason but a        *)
(* missing item, the `security` command.                                    *)
Framework(c, o) == Told(c, "security", o, "service")
FallsBack(c, o) == Framework(c, o) /\ ~Success(c) /\ ~(Absent(c) /\ o # "store")

MacosLoad(c) ==
    \/ Starting(c, "security", "load") /\ AskService(c, Read("service"))
    \/ /\ Framework(c, "load") /\ (Success(c) \/ Absent(c))
       /\ OkIf(c, Success(c), reply[c].bytes)

MacosCliLoad(c) ==
    \/ FallsBack(c, "load") /\ RunHelper(c, Read("helper"))
    \/ Told(c, "security", "load", "helper") /\ OkIf(c, Success(c), reply[c].bytes)

MacosStore(c) ==
    \/ /\ Starting(c, "security", "store")
       /\ AskService(c, Write("service", "raw", op[c].secret))
    \/ Framework(c, "store") /\ Success(c) /\ Return(c, Ok(NoBytes))

(* The command stores the hexadecimal form as the password.                 *)
MacosCliStore(c) ==
    \/ FallsBack(c, "store") /\ RunHelper(c, Write("helper", "hex", op[c].secret))
    \/ Told(c, "security", "store", "helper") /\ OkIf(c, Success(c), NoBytes)

MacosDelete(c) ==
    \/ Starting(c, "security", "delete") /\ AskService(c, Remove("service"))
    \/ /\ Framework(c, "delete") /\ (Success(c) \/ Absent(c))
       /\ Return(c, Ok(NoBytes))

MacosCliDelete(c) ==
    \/ FallsBack(c, "delete") /\ RunHelper(c, Remove("helper"))
    \/ /\ Told(c, "security", "delete", "helper")
       /\ OkIf(c, Success(c) \/ Absent(c), NoBytes)

(* windows.rs: the Credential Manager.                                      *)
WindowsLoad(c) ==
    \/ Starting(c, "wincred", "load") /\ AskService(c, Read("service"))
    \/ /\ Told(c, "wincred", "load", "service")
       /\ Return(c, IF Success(c) THEN Ok(reply[c].bytes)
                    ELSE Err(IF Absent(c) THEN "Keychain" ELSE "Permission"))

WindowsStore(c) ==
    \/ /\ Starting(c, "wincred", "store")
       /\ AskService(c, Write("service", "raw", op[c].secret))
    \/ Told(c, "wincred", "store", "service") /\ OkIf(c, Success(c), NoBytes)

WindowsDelete(c) ==
    \/ Starting(c, "wincred", "delete") /\ AskService(c, Remove("service"))
    \/ /\ Told(c, "wincred", "delete", "service")
       /\ OkIf(c, Success(c) \/ Absent(c), NoBytes)

(* ios.rs: Keychain Services; a locked device is one of its failures.       *)
IosLoad(c) ==
    \/ Starting(c, "ios", "load") /\ AskService(c, Read("service"))
    \/ Told(c, "ios", "load", "service") /\ OkIf(c, Success(c), reply[c].bytes)

IosStore(c) ==
    \/ /\ Starting(c, "ios", "store")
       /\ AskService(c, Write("service", "raw", op[c].secret))
    \/ Told(c, "ios", "store", "service") /\ OkIf(c, Success(c), NoBytes)

IosDelete(c) ==
    \/ Starting(c, "ios", "delete") /\ AskService(c, Remove("service"))
    \/ Told(c, "ios", "delete", "service") /\ OkIf(c, Success(c) \/ Absent(c), NoBytes)

-----------------------------------------------------------------------------
(* android.rs: the callbacks registered by the Java layer.  The lock on     *)
(* jni_env is dropped when its pointer has been copied; the lock on the     *)
(* callbacks is kept until the call returns.                                *)

NoJniEnv(c, o) ==
    Starting(c, "java", o) /\ ~jni.env /\ Return(c, Err("Keychain"))

NotRegistered(c, o) ==
    /\ Starting(c, "java", o) /\ jni.env /\ ~jni.registered
    /\ mutex = Nobody
    /\ Return(c, Err("Keychain"))

(* Mutation of Callback: the function pointer is copied and the mutex       *)
(* dropped before the call, as jni_env_or_err does with its pointer.        *)
CallbackUnlocked(c, o, r) ==
    /\ Starting(c, "java", o) /\ jni.env /\ jni.registered
    /\ mutex = Nobody
    /\ Ask(c, r)
    /\ UNCHANGED <<mutex, faults>>

Callback(c, o, r) ==
    /\ Starting(c, "java", o) /\ jni.env /\ jni.registered
    /\ mutex = Nobody
    /\ mutex' = c
    /\ Ask(c, r)
    /\ UNCHANGED faults

(* Mutation of CalledBack: the guard outlives the call.                     *)
CalledBackHolding(c, o, bytes) ==
    /\ Told(c, "java", o, "callback")
    /\ OkIf(c, Success(c), bytes)

CalledBack(c, o, bytes) ==
    /\ Told(c, "java", o, "callback")
    /\ mutex' = Nobody
    /\ Finish(c, IF Success(c) THEN Ok(bytes) ELSE Err("Keychain"))
    /\ UNCHANGED faults

(* What fits into the 4096 bytes of the output buffer.                      *)
Cut(bytes) == IF bytes.secret \in LongSecrets THEN [bytes EXCEPT !.form = "cut"] ELSE bytes

AndroidLoad(c) ==
    \/ NoJniEnv(c, "load") \/ NotRegistered(c, "load")
    \/ Callback(c, "load", Read("callback"))
    \/ CalledBack(c, "load", Cut(reply[c].bytes))

AndroidStore(c) ==
    \/ NoJniEnv(c, "store") \/ NotRegistered(c, "store")
    \/ Callback(c, "store", Write("callback", "raw", op[c].secret))
    \/ CalledBack(c, "store", NoBytes)

AndroidDelete(c) ==
    \/ NoJniEnv(c, "delete") \/ NotRegistered(c, "delete")
    \/ Callback(c, "delete", Remove("callback"))
    \/ CalledBack(c, "delete", NoBytes)

-----------------------------------------------------------------------------
(* Waiting for a helper (wait_with_timeout, macOS run_with_timeout)         *)

Waiting(c) == pc[c] \in {"asked", "told"} /\ request[c].via = "helper"

(* A helper whose request has not acted yet stays behind with it.           *)
Abandon(c, error) ==
    /\ Waiting(c)
    /\ Leave(c, Err(error))
    /\ late' = IF pc[c] = "told" THEN late
               ELSE late \cup {[caller |-> c, call |-> calls[c], request |-> request[c]]}
    /\ UNCHANGED mutex

(* Mutation of Expire: the deadline only applies once the helper replied.   *)
ExpireAfterReply(c) == pc[c] = "told" /\ Abandon(c, "Keychain") /\ UNCHANGED faults

(* Nothing orders the deadline and the helper's exit: either can be first.  *)
Expire(c) == Abandon(c, "Keychain") /\ UNCHANGED faults

WaitError(c) == Fault("wait") /\ Abandon(c, "Io")

-----------------------------------------------------------------------------
(* The platform                                                             *)

ForgivesAbsence == provider \in {"secret-tool", "java"}

Matches(r) == r.key \in {ByName, serial}

(* What the platform does with request r, and its reply.                    *)
Effect(r) ==
    entry' = CASE r.do = "write"                -> r.bytes
               [] r.do = "remove" /\ Matches(r) -> NoBytes
               [] OTHER                         -> entry

NewSerial(r) ==
    serial' = IF provider = "keyctl" /\ r.do = "write" /\ ~Present
              THEN serial + 1 ELSE serial

ReplyTo(r) ==
    IF r.do = "write" THEN [NoReply EXCEPT !.exit = "success"]
    ELSE IF r.key # ByName /\ ~(Present /\ Matches(r)) THEN NoReply
    ELSE IF Present
    THEN [exit |-> "success",
          bytes |-> IF r.do = "read" THEN entry ELSE NoBytes,
          key |-> IF r.do = "search" THEN serial ELSE ByName]
    ELSE [NoReply EXCEPT !.exit =
             IF r.do = "remove" /\ ForgivesAbsence THEN "success" ELSE "absent"]

PlatformFrame == UNCHANGED <<setup, mutex, op, request, answer, calls>>

PlatformActs(c) ==
    /\ pc[c] = "asked"
    /\ pc' = [pc EXCEPT ![c] = "told"]
    /\ reply' = [reply EXCEPT ![c] = ReplyTo(request[c])]
    /\ Effect(request[c]) /\ NewSerial(request[c])
    /\ PlatformFrame /\ UNCHANGED <<late, faults>>

(* A locked keyring, a daemon that is not there: no effect.                 *)
FaultOf(r) ==
    IF r.via # "helper" THEN "service"
    ELSE IF r.do = "search" THEN "search"
    ELSE "helper"

PlatformFails(c) ==
    /\ pc[c] = "asked"
    /\ Fault(FaultOf(request[c]))
    /\ pc' = [pc EXCEPT ![c] = "told"]
    /\ reply' = [reply EXCEPT ![c] = NoReply]
    /\ PlatformFrame /\ UNCHANGED <<store, late>>

LateHelperActs ==
    /\ \E l \in late :
          /\ late' = late \ {l}
          /\ Effect(l.request) /\ NewSerial(l.request)
    /\ PlatformFrame /\ UNCHANGED <<pc, reply, faults>>

-----------------------------------------------------------------------------
Backend(c) ==
    \/ SecretToolLookup(c) \/ SecretToolStore(c) \/ SecretToolClear(c)
    \/ KeyctlRead(c) \/ KeyctlStore(c) \/ KeyctlUnlink(c)
    \/ MacosLoad(c) \/ MacosStore(c) \/ MacosDelete(c)
    \/ MacosCliLoad(c) \/ MacosCliStore(c) \/ MacosCliDelete(c)
    \/ WindowsLoad(c) \/ WindowsStore(c) \/ WindowsDelete(c)
    \/ IosLoad(c) \/ IosStore(c) \/ IosDelete(c)
    \/ AndroidLoad(c) \/ AndroidStore(c) \/ AndroidDelete(c)

Next ==
    \/ Open \/ WithJniEnv \/ RegisterCallbacks \/ LateHelperActs
    \/ \E c \in Callers :
          \/ Call(c) \/ Backend(c) \/ WriteSecret(c) \/ Expire(c) \/ WaitError(c)
          \/ PlatformActs(c) \/ PlatformFails(c)

Spec == Init /\ [][Next]_vars

(* A thread inside a call keeps running, a secret that fits into the pipe   *)
(* is written, the deadline of a helper passes, and a direct service or a   *)
(* callback replies.  Nothing is assumed of a helper, not even that it      *)
(* reads its standard input.                                                *)
FairSpec ==
    /\ Spec
    /\ \A c \in Callers :
          /\ WF_vars(Backend(c))
          /\ WF_vars(op[c].secret \notin LargeSecrets /\ WriteSecret(c))
          /\ WF_vars(Expire(c))
          /\ WF_vars(request[c].via # "helper" /\ PlatformActs(c))

-----------------------------------------------------------------------------
(* Properties                                                               *)

(* android.rs:91: "the JNIEnv is NOT thread-safe".  No two calls are inside *)
(* Java callbacks at once, although the lock on jni_env is dropped before   *)
(* the callback runs.                                                       *)
JniCallsAreSerial ==
    \A c, d \in Callers :
        /\ pc[c] \in {"asked", "told"} /\ request[c].via = "callback"
        /\ pc[d] \in {"asked", "told"} /\ request[d].via = "callback"
        => c = d

(* linux.rs:195, 318: write_all waits for the helper to read a large secret *)
(* before the ten seconds of wait_with_timeout begin.                       *)
AwaitsReader(c) == pc[c] = "feeding" /\ op[c].secret \in LargeSecrets

(* Every call of every backend returns, whatever the mutex, the deadline    *)
(* and its helpers do, unless it waits for a helper to read a secret that   *)
(* does not fit into the pipe.                                              *)
CallsReturn ==
    \A c \in Callers : pc[c] # "idle" ~> (pc[c] = "idle" \/ AwaitsReader(c))

(* linux.rs:11, 35: every helper has a hard ten seconds, so that every call *)
(* returns.  Not kept by the code: see AwaitsReader.                        *)
HelpersHaveDeadline == \A c \in Callers : pc[c] # "idle" ~> pc[c] = "idle"

(* linux.rs:399: a helper is killed at the deadline.  When no call is under *)
(* way nothing changes the entry.                                           *)
QuietEntryStays ==
    [][(\A c \in Callers : pc[c] = "idle") => UNCHANGED entry]_vars

(* mod.rs:55: load_secret "returns the raw secret bytes on success".        *)
LoadsReturnRawBytes ==
    \A c \in Callers :
        pc[c] = "idle" /\ answer[c].result = "Ok" => answer[c].bytes.form = "raw"
=============================================================================

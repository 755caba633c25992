--------------------------- MODULE KeychainProofs ---------------------------
(***************************************************************************)
(* Proofs about Keychain for any callers, secrets, platforms and faults.   *)
(***************************************************************************)
EXTENDS KeychainRefinement, FiniteSetTheorems, TLAPS

InCallback(c) == pc[c] \in {"asked", "told"} /\ request[c].via = "callback"

(* The mutex is held by the one caller that is inside a Java callback.      *)
MutexInv ==
    /\ pc \in [Callers -> {"idle", "start", "feeding", "asked", "told"}]
    /\ request = [c \in Callers |-> request[c]]
    /\ mutex \in Callers \cup {Nobody}
    /\ \A c \in Callers : InCallback(c) <=> mutex = c
    /\ \A c \in Callers : pc[c] = "feeding" => request[c].via # "callback"

(* A step of c that stays clear of callbacks.                               *)
Clear(c) ==
    /\ ~InCallback(c)
    /\ \E to \in {"idle", "start", "feeding", "asked", "told"} : pc' = [pc EXCEPT ![c] = to]
    /\ \E r : request' = [request EXCEPT ![c] = r] /\ r.via # "callback"
    /\ UNCHANGED mutex

(* Such a step keeps the mutex with whoever has it.                         *)
LEMMA ClearKeeps ==
  ASSUME MutexInv, NEW c \in Callers, Clear(c)
  PROVE  MutexInv'
<1>1. PICK to \in {"idle", "start", "feeding", "asked", "told"} : pc' = [pc EXCEPT ![c] = to]
  BY DEF Clear
<1>2. PICK r : request' = [request EXCEPT ![c] = r] /\ r.via # "callback"
  BY DEF Clear
<1>3. \A d \in Callers \ {c} : pc'[d] = pc[d] /\ request'[d] = request[d]
  BY <1>1, <1>2 DEF MutexInv
<1>4. request'[c] = r /\ request' = [d \in Callers |-> request'[d]]
  BY <1>2 DEF MutexInv
<1>5. ~InCallback(c)' /\ mutex # c /\ mutex' = mutex
  BY <1>2, <1>4 DEF MutexInv, Clear, InCallback
<1>6. pc' \in [Callers -> {"idle", "start", "feeding", "asked", "told"}]
  BY <1>1 DEF MutexInv
<1>7. \A d \in Callers : InCallback(d)' <=> mutex' = d
  <2>1. \A d \in Callers \ {c} : InCallback(d)' <=> InCallback(d)
    BY <1>3 DEF InCallback
  <2>2. QED
    BY <2>1, <1>5 DEF MutexInv
<1>8. \A d \in Callers : pc'[d] = "feeding" => request'[d].via # "callback"
  BY <1>2, <1>3, <1>4 DEF MutexInv
<1>9. QED
  BY <1>4, <1>5, <1>6, <1>7, <1>8 DEF MutexInv

(* What the requests of the backends are addressed to.                      *)
LEMMA Addressed ==
  ASSUME NEW via, NEW form, NEW secret, NEW key
  PROVE  /\ Read(via).via = via /\ Remove(via).via = via
         /\ Write(via, form, secret).via = via
         /\ Search.via = "helper" /\ Pipe(key).via = "helper"
         /\ Unlink(key).via = "helper" /\ NoRequest.via = "none"
BY DEF Read, Remove, Write, Search, Pipe, Unlink, NoRequest

(* Asking a helper or a direct service, and answering, is clear.            *)
LEMMA AskIsClear ==
  ASSUME MutexInv, NEW c \in Callers, ~InCallback(c), NEW r, r.via # "callback",
         AskService(c, r) \/ RunHelper(c, r) \/ FeedHelper(c, r)
  PROVE  Clear(c)
<1>1. NoRequest.via # "callback"
  BY Addressed
<1>2. QED
  BY <1>1 DEF AskService, RunHelper, FeedHelper, Ask, Hand, Finish, Leave, Clear

(* So is a return that was not given by a callback.                        *)
LEMMA ReturnIsClear ==
  ASSUME MutexInv, NEW c \in Callers, ~InCallback(c), NEW a, Return(c, a)
  PROVE  Clear(c)
<1>1. NoRequest.via # "callback"
  BY Addressed
<1>2. QED
  BY <1>1 DEF Return, Finish, Leave, Clear

(* The helpers of Linux.                                                    *)
LEMMA LinuxIsClear ==
  ASSUME MutexInv, NEW c \in Callers,
         \/ SecretToolLookup(c) \/ SecretToolStore(c) \/ SecretToolClear(c)
         \/ KeyctlRead(c) \/ KeyctlStore(c) \/ KeyctlUnlink(c)
  PROVE  Clear(c)
<1>1. ~InCallback(c)
  BY DEF SecretToolLookup, SecretToolStore, SecretToolClear, KeyctlRead, KeyctlStore,
         KeyctlUnlink, Searched, FollowedUp, Starting, Told, InCallback
<1>2. \/ \E r : r.via # "callback" /\ (RunHelper(c, r) \/ FeedHelper(c, r))
      \/ \E a : Return(c, a)
  BY Addressed DEF SecretToolLookup, SecretToolStore, SecretToolClear, KeyctlRead,
         KeyctlStore, KeyctlUnlink, OkIf
<1>3. QED
  BY <1>1, <1>2, AskIsClear, ReturnIsClear

(* The framework and the command of macOS.                                  *)
LEMMA MacosIsClear ==
  ASSUME MutexInv, NEW c \in Callers,
         \/ MacosLoad(c) \/ MacosStore(c) \/ MacosDelete(c)
         \/ MacosCliLoad(c) \/ MacosCliStore(c) \/ MacosCliDelete(c)
  PROVE  Clear(c)
<1>1. ~InCallback(c)
  BY DEF MacosLoad, MacosStore, MacosDelete, MacosCliLoad, MacosCliStore, MacosCliDelete,
         FallsBack, Framework, Starting, Told, InCallback
<1>2. \/ \E r : r.via # "callback" /\ (RunHelper(c, r) \/ AskService(c, r))
      \/ \E a : Return(c, a)
  BY Addressed DEF MacosLoad, MacosStore, MacosDelete, MacosCliLoad, MacosCliStore,
         MacosCliDelete, OkIf
<1>3. QED
  BY <1>1, <1>2, AskIsClear, ReturnIsClear

(* The services of Windows and iOS.                                         *)
LEMMA ServiceIsClear ==
  ASSUME MutexInv, NEW c \in Callers,
         \/ WindowsLoad(c) \/ WindowsStore(c) \/ WindowsDelete(c)
         \/ IosLoad(c) \/ IosStore(c) \/ IosDelete(c)
  PROVE  Clear(c)
<1>1. ~InCallback(c)
  BY DEF WindowsLoad, WindowsStore, WindowsDelete, IosLoad, IosStore, IosDelete,
         Starting, Told, InCallback
<1>2. \/ \E r : r.via # "callback" /\ AskService(c, r)
      \/ \E a : Return(c, a)
  BY Addressed DEF WindowsLoad, WindowsStore, WindowsDelete, IosLoad, IosStore,
         IosDelete, OkIf
<1>3. QED
  BY <1>1, <1>2, AskIsClear, ReturnIsClear

(* A callback starts with the mutex free and ends by freeing it.            *)
LEMMA AndroidKeeps ==
  ASSUME MutexInv, NEW c \in Callers,
         AndroidLoad(c) \/ AndroidStore(c) \/ AndroidDelete(c)
  PROVE  MutexInv'
<1>1. ASSUME NEW o, NoJniEnv(c, o) \/ NotRegistered(c, o) PROVE MutexInv'
  <2>1. ~InCallback(c)
    BY <1>1 DEF NoJniEnv, NotRegistered, Starting, InCallback
  <2>2. Clear(c)
    BY <1>1, <2>1, ReturnIsClear DEF NoJniEnv, NotRegistered
  <2>3. QED
    BY <2>2, ClearKeeps
<1>2. ASSUME NEW o, NEW r, r.via = "callback", Callback(c, o, r) PROVE MutexInv'
  <2>1. /\ mutex = Nobody /\ mutex' = c
        /\ pc' = [pc EXCEPT ![c] = "asked"] /\ request' = [request EXCEPT ![c] = r]
    BY <1>2 DEF Callback, Ask, Hand
  <2>2. \A d \in Callers : ~InCallback(d)
    BY <2>1, KeychainConstants DEF MutexInv
  <2>3. request' = [d \in Callers |-> request'[d]] /\ request'[c] = r
    BY <2>1 DEF MutexInv
  <2>4. \A d \in Callers \ {c} : ~InCallback(d)'
    BY <2>1, <2>2 DEF MutexInv, InCallback
  <2>5. InCallback(c)'
    BY <1>2, <2>1, <2>3 DEF MutexInv, InCallback
  <2>6. \A d \in Callers : pc'[d] = "feeding" => request'[d].via # "callback"
    BY <2>1 DEF MutexInv
  <2>7. QED
    BY <2>1, <2>3, <2>4, <2>5, <2>6 DEF MutexInv
<1>3. ASSUME NEW o, NEW bytes, CalledBack(c, o, bytes) PROVE MutexInv'
  <2>1. /\ mutex' = Nobody /\ InCallback(c)
        /\ pc' = [pc EXCEPT ![c] = "idle"] /\ request' = [request EXCEPT ![c] = NoRequest]
    BY <1>3 DEF CalledBack, Finish, Leave, Told, InCallback
  <2>2. \A d \in Callers \ {c} : ~InCallback(d)
    BY <2>1 DEF MutexInv
  <2>3. request' = [d \in Callers |-> request'[d]]
    BY <2>1 DEF MutexInv
  <2>4. \A d \in Callers : ~InCallback(d)'
    BY <2>1, <2>2 DEF MutexInv, InCallback
  <2>5. \A d \in Callers : pc'[d] = "feeding" => request'[d].via # "callback"
    BY <2>1 DEF MutexInv
  <2>6. QED
    BY <2>1, <2>3, <2>4, <2>5, KeychainConstants DEF MutexInv
<1>4. ASSUME NEW secret PROVE /\ Read("callback").via = "callback"
                              /\ Write("callback", "raw", secret).via = "callback"
                              /\ Remove("callback").via = "callback"
  BY Addressed
<1>5. QED
  BY <1>1, <1>2, <1>3, <1>4 DEF AndroidLoad, AndroidStore, AndroidDelete

(* A deadline only ends the wait for a helper.                              *)
LEMMA AbandonIsClear ==
  ASSUME MutexInv, NEW c \in Callers, Expire(c) \/ WaitError(c)
  PROVE  Clear(c)
<1>1. NoRequest.via # "callback"
  BY Addressed
<1>2. QED
  BY <1>1 DEF Expire, WaitError, Abandon, Waiting, Leave, InCallback, Clear

(* A helper that is being fed is no callback.                               *)
LEMMA WriteIsClear ==
  ASSUME MutexInv, NEW c \in Callers, WriteSecret(c)
  PROVE  Clear(c)
<1>1. NoRequest.via # "callback" /\ request[c].via # "callback" /\ ~InCallback(c)
  BY Addressed DEF WriteSecret, MutexInv, InCallback
<1>2. request = [request EXCEPT ![c] = request[c]]
  BY DEF MutexInv
<1>3. QED
  BY <1>1, <1>2 DEF WriteSecret, Finish, Leave, Clear

(* No step of the system breaks the invariant.                              *)
LEMMA MutexKept == MutexInv /\ [Next]_vars => MutexInv'
<1> SUFFICES ASSUME MutexInv, [Next]_vars PROVE MutexInv'
  OBVIOUS
<1>1. CASE Open \/ WithJniEnv \/ RegisterCallbacks
  BY <1>1 DEF Open, WithJniEnv, RegisterCallbacks, MutexInv, InCallback
<1>2. CASE LateHelperActs
  BY <1>2 DEF LateHelperActs, PlatformFrame, MutexInv, InCallback
<1>3. ASSUME NEW c \in Callers, Call(c) PROVE MutexInv'
  BY <1>3 DEF Call, MutexInv, InCallback
<1>4. ASSUME NEW c \in Callers, Backend(c) PROVE MutexInv'
  BY <1>4, LinuxIsClear, MacosIsClear, ServiceIsClear, ClearKeeps, AndroidKeeps DEF Backend
<1>5. ASSUME NEW c \in Callers, WriteSecret(c) \/ Expire(c) \/ WaitError(c) PROVE MutexInv'
  BY <1>5, WriteIsClear, AbandonIsClear, ClearKeeps
<1>6. ASSUME NEW c \in Callers, PlatformActs(c) \/ PlatformFails(c) PROVE MutexInv'
  BY <1>6 DEF PlatformActs, PlatformFails, PlatformFrame, MutexInv, InCallback
<1>7. CASE UNCHANGED vars
  BY <1>7 DEF vars, MutexInv, InCallback
<1>8. QED
  BY <1>1, <1>2, <1>3, <1>4, <1>5, <1>6, <1>7 DEF Next

(* android.rs:225-246: a caller is inside a Java callback exactly while it  *)
(* holds the callbacks mutex, whatever fails and whatever order calls come  *)
(* in.                                                                      *)
THEOREM MutexMeansCallback == Spec => []MutexInv
<1>1. Init => MutexInv
  BY KeychainConstants, Addressed DEF Init, MutexInv, InCallback
<1>2. QED
  BY <1>1, MutexKept, PTL DEF Spec

(* Hence no two callers use the JNIEnv at once.                             *)
THEOREM JniIsSerial == Spec => []JniCallsAreSerial
<1>1. MutexInv => JniCallsAreSerial
  BY DEF MutexInv, InCallback, JniCallsAreSerial
<1>2. QED
  BY <1>1, MutexMeansCallback, PTL
-----------------------------------------------------------------------------
(* A caller inside a call has counted it.                                   *)
CallInv == Types /\ \A c \in Callers : pc[c] # "idle" => calls[c] # 0

(* What a backend asks of the platform is a request.                        *)
LEMMA RequestTypes ==
  ASSUME NEW via \in {"helper", "service", "callback"}
  PROVE  /\ Read(via) \in Requests /\ Remove(via) \in Requests /\ Search \in Requests
         /\ \A form \in Forms, secret \in Secrets : Write(via, form, secret) \in Requests
         /\ \A key \in Nat : Pipe(key) \in Requests /\ Unlink(key) \in Requests
<1>1. Read(via) \in Requests /\ Read("helper") \in Requests
  BY DEF Read, Requests, ByName, Serials
<1>2. Remove(via) \in Requests /\ Remove("helper") \in Requests
  BY <1>1 DEF Remove, Requests
<1>3. Search \in Requests
  BY <1>1 DEF Search, Requests
<1>4. ASSUME NEW form \in Forms, NEW secret \in Secrets PROVE Write(via, form, secret) \in Requests
  BY <1>1 DEF Write, Requests, Bytes
<1>5. ASSUME NEW key \in Nat PROVE Pipe(key) \in Requests /\ Unlink(key) \in Requests
  BY <1>1, <1>2 DEF Pipe, Unlink, Requests, Serials
<1>6. QED
  BY <1>1, <1>2, <1>3, <1>4, <1>5

(* What a backend returns is an answer; cutting it short keeps its type.    *)
LEMMA AnswerTypes ==
  /\ \A bytes \in Bytes \cup {NoBytes} : Ok(bytes) \in Answers /\ Cut(bytes) \in Bytes \cup {NoBytes}
  /\ \A error \in Errors \cup {"none"} : Err(error) \in Answers
<1>1. \A bytes \in Bytes \cup {NoBytes} : Ok(bytes) \in Answers
  BY DEF Ok, Answers
<1>2. \A error \in Errors \cup {"none"} : Err(error) \in Answers
  BY DEF Err, Answers
<1>3. ASSUME NEW bytes \in Bytes PROVE Cut(bytes) \in Bytes
  BY <1>3 DEF Cut, Bytes, Forms
<1>4. Cut(NoBytes) = NoBytes
  BY KeychainConstants DEF Cut, NoBytes
<1>5. QED
  BY <1>1, <1>2, <1>3, <1>4

(* A fault is counted within its bound.                                     *)
LEMMA KeychainFaultCounted ==
  ASSUME faults \in 0..MaxFaults, NEW kind, Fault(kind)
  PROVE  faults' \in 0..MaxFaults
BY KeychainConstants DEF Fault

(* Asking keeps the types.                                                  *)
LEMMA AskType ==
  ASSUME CallInv, NEW c \in Callers, pc[c] # "idle", NEW r \in Requests,
         NEW at \in {"feeding", "asked"}, Hand(c, r, at), faults' \in 0..MaxFaults
  PROVE  CallInv'
<1>1. /\ UNCHANGED <<platform, installed, provider, jni, entry, serial, calls, op, answer, late>>
      /\ pc' = [pc EXCEPT ![c] = at]
      /\ request' = [request EXCEPT ![c] = r] /\ reply' = [reply EXCEPT ![c] = NoReply]
  BY DEF Hand, CallFrame, setup, store
<1>2. NoReply \in Replies
  BY DEF NoReply, Replies, Exits, ByName, Serials
<1>3. pc' \in [Callers -> {"idle", "start", "feeding", "asked", "told"}]
  BY <1>1 DEF CallInv, Types
<1>4. request' \in [Callers -> Requests \cup {NoRequest}] /\ reply' \in [Callers -> Replies]
  BY <1>1, <1>2 DEF CallInv, Types
<1>5. \A d \in Callers : pc'[d] # "idle" => calls'[d] # 0
  BY <1>1 DEF CallInv, Types
<1>6. QED
  BY <1>1, <1>3, <1>4, <1>5, Zenon DEF CallInv, Types

(* So does answering.                                                       *)
LEMMA LeaveType ==
  ASSUME CallInv, NEW c \in Callers, NEW a \in Answers, Leave(c, a),
         late' \subseteq [caller : Callers, call : Nat \ {0}, request : Requests],
         faults' \in 0..MaxFaults
  PROVE  CallInv'
<1>1. /\ UNCHANGED <<platform, installed, provider, jni, entry, serial, calls>>
      /\ pc' = [pc EXCEPT ![c] = "idle"] /\ op' = [op EXCEPT ![c] = NoOperation]
      /\ request' = [request EXCEPT ![c] = NoRequest] /\ reply' = [reply EXCEPT ![c] = NoReply]
      /\ answer' = [answer EXCEPT ![c] = a]
  BY DEF Leave, CallFrame, setup, store
<1>2. NoReply \in Replies
  BY DEF NoReply, Replies, Exits, ByName, Serials
<1>3. pc' \in [Callers -> {"idle", "start", "feeding", "asked", "told"}]
  BY <1>1 DEF CallInv, Types
<1>4. request' \in [Callers -> Requests \cup {NoRequest}] /\ reply' \in [Callers -> Replies]
  BY <1>1, <1>2 DEF CallInv, Types
<1>5. op' \in [Callers -> Operations \cup {NoOperation}] /\ answer' \in [Callers -> Answers]
  BY <1>1 DEF CallInv, Types
<1>6. \A d \in Callers : pc'[d] # "idle" => calls'[d] # 0
  BY <1>1 DEF CallInv, Types
<1>7. QED
  BY <1>1, <1>3, <1>4, <1>5, <1>6, Zenon DEF CallInv, Types

(* Returning, with or without a fault.                                      *)
LEMMA FinishType ==
  ASSUME CallInv, NEW c \in Callers, NEW a \in Answers, Finish(c, a), faults' \in 0..MaxFaults
  PROVE  CallInv'
BY LeaveType DEF Finish, CallInv, Types

LEMMA ReturnType ==
  ASSUME CallInv, NEW c \in Callers, NEW a \in Answers, Return(c, a)
  PROVE  CallInv'
BY FinishType DEF Return, CallInv, Types

(* Asking in one of the three ways, one of which may fail at once.          *)
LEMMA RequestType ==
  ASSUME CallInv, NEW c \in Callers, pc[c] # "idle", NEW r \in Requests,
         AskService(c, r) \/ RunHelper(c, r) \/ FeedHelper(c, r)
  PROVE  CallInv'
<1>1. faults \in 0..MaxFaults /\ (UNCHANGED faults => faults' \in 0..MaxFaults)
  BY DEF CallInv, Types
<1>2. Err("Permission") \in Answers /\ Err("Keychain") \in Answers
  BY AnswerTypes DEF Errors
<1>3. \/ \E at \in {"feeding", "asked"} : Hand(c, r, at) /\ UNCHANGED faults
      \/ \E kind : Fault(kind) /\ \E a \in Answers : Finish(c, a)
  BY <1>2 DEF AskService, RunHelper, FeedHelper, Ask
<1>4. QED
  BY <1>1, <1>3, AskType, FinishType, KeychainFaultCounted

(* So does writing the secret to a helper, or failing to.                   *)
LEMMA WriteSecretType ==
  ASSUME CallInv, NEW c \in Callers, WriteSecret(c)
  PROVE  CallInv'
<1>1. Err("Keychain") \in Answers
  BY AnswerTypes DEF Errors
<1>2. CASE Fault("stdin") /\ Finish(c, Err("Keychain"))
  <2>1. faults' \in 0..MaxFaults
    BY <1>2, KeychainFaultCounted DEF CallInv, Types
  <2>2. QED
    BY <1>1, <1>2, <2>1, FinishType
<1>3. CASE /\ pc' = [pc EXCEPT ![c] = "asked"]
           /\ UNCHANGED <<op, request, reply, answer, late, faults>> /\ CallFrame
  <2>1. /\ pc' \in [Callers -> {"idle", "start", "feeding", "asked", "told"}]
        /\ \A d \in Callers : pc'[d] # "idle" => pc[d] # "idle"
    BY <1>3 DEF WriteSecret, CallInv, Types
  <2>2. UNCHANGED <<platform, installed, provider, jni, entry, serial, calls>>
    BY <1>3 DEF CallFrame, setup, store
  <2>3. QED
    BY <1>3, <2>1, <2>2, Zenon DEF CallInv, Types
<1>4. QED
  BY <1>2, <1>3 DEF WriteSecret

(* The operation of a call is the one its backend was chosen for, so a      *)
(* store has a secret.                                                      *)
LEMMA CalledWith ==
  ASSUME Types, NEW c \in Callers
  PROVE  /\ op[c].op = "store" => op[c].secret \in Secrets
         /\ reply[c].bytes \in Bytes \cup {NoBytes} /\ reply[c].key \in Nat
<1>1. op[c] \in Operations \cup {NoOperation} /\ reply[c] \in Replies
  BY DEF Types
<1>2. op[c].op = "store" => op[c].secret \in Secrets
  BY <1>1 DEF Operations, NoOperation
<1>3. QED
  BY <1>1, <1>2 DEF Replies, Serials

(* The helpers of Linux.                                                    *)
LEMMA LinuxType ==
  ASSUME CallInv, NEW c \in Callers,
         \/ SecretToolLookup(c) \/ SecretToolStore(c) \/ SecretToolClear(c)
         \/ KeyctlRead(c) \/ KeyctlStore(c) \/ KeyctlUnlink(c)
  PROVE  CallInv'
<1>1. pc[c] # "idle"
  BY DEF SecretToolLookup, SecretToolStore, SecretToolClear, KeyctlRead, KeyctlStore,
         KeyctlUnlink, Searched, FollowedUp, Starting, Told
<1>2. \/ \E r \in Requests : RunHelper(c, r) \/ FeedHelper(c, r)
      \/ \E a \in Answers : Return(c, a)
  <2>1. /\ op[c].op = "store" => Write("helper", "raw", op[c].secret) \in Requests
        /\ Pipe(reply[c].key) \in Requests /\ Unlink(reply[c].key) \in Requests
        /\ Read("helper") \in Requests /\ Remove("helper") \in Requests /\ Search \in Requests
    BY CalledWith, RequestTypes DEF CallInv, Forms
  <2>2. Ok(reply[c].bytes) \in Answers /\ Ok(NoBytes) \in Answers /\ Err("Keychain") \in Answers
    BY CalledWith, AnswerTypes DEF CallInv, Errors
  <2>3. QED
    BY <2>1, <2>2 DEF SecretToolLookup, SecretToolStore, SecretToolClear, KeyctlRead,
       KeyctlStore, KeyctlUnlink, Searched, FollowedUp, Starting, Told, OkIf
<1>3. QED
  BY <1>1, <1>2, RequestType, ReturnType

(* The framework and the command of macOS.                                  *)
LEMMA MacosType ==
  ASSUME CallInv, NEW c \in Callers,
         \/ MacosLoad(c) \/ MacosStore(c) \/ MacosDelete(c)
         \/ MacosCliLoad(c) \/ MacosCliStore(c) \/ MacosCliDelete(c)
  PROVE  CallInv'
<1>1. pc[c] # "idle"
  BY DEF MacosLoad, MacosStore, MacosDelete, MacosCliLoad, MacosCliStore, MacosCliDelete,
         FallsBack, Framework, Starting, Told
<1>2. \/ \E r \in Requests : RunHelper(c, r) \/ AskService(c, r)
      \/ \E a \in Answers : Return(c, a)
  <2>1. /\ op[c].op = "store" => /\ Write("service", "raw", op[c].secret) \in Requests
                                 /\ Write("helper", "hex", op[c].secret) \in Requests
        /\ Read("helper") \in Requests /\ Remove("helper") \in Requests
        /\ Read("service") \in Requests /\ Remove("service") \in Requests
    BY CalledWith, RequestTypes DEF CallInv, Forms
  <2>2. Ok(reply[c].bytes) \in Answers /\ Ok(NoBytes) \in Answers /\ Err("Keychain") \in Answers
    BY CalledWith, AnswerTypes DEF CallInv, Errors
  <2>3. QED
    BY <2>1, <2>2 DEF MacosLoad, MacosStore, MacosDelete, MacosCliLoad, MacosCliStore,
       MacosCliDelete, FallsBack, Framework, Starting, Told, OkIf
<1>3. QED
  BY <1>1, <1>2, RequestType, ReturnType

(* The services of Windows and iOS.                                         *)
LEMMA ServiceType ==
  ASSUME CallInv, NEW c \in Callers,
         \/ WindowsLoad(c) \/ WindowsStore(c) \/ WindowsDelete(c)
         \/ IosLoad(c) \/ IosStore(c) \/ IosDelete(c)
  PROVE  CallInv'
<1>1. pc[c] # "idle"
  BY DEF WindowsLoad, WindowsStore, WindowsDelete, IosLoad, IosStore, IosDelete,
         Starting, Told
<1>2. \/ \E r \in Requests : AskService(c, r)
      \/ \E a \in Answers : Return(c, a)
  <2>1. /\ op[c].op = "store" => Write("service", "raw", op[c].secret) \in Requests
        /\ Read("service") \in Requests /\ Remove("service") \in Requests
    BY CalledWith, RequestTypes DEF CallInv, Forms
  <2>2. /\ Ok(reply[c].bytes) \in Answers /\ Ok(NoBytes) \in Answers
        /\ Err("Keychain") \in Answers /\ Err("Permission") \in Answers
    BY CalledWith, AnswerTypes DEF CallInv, Errors
  <2>3. QED
    BY <2>1, <2>2 DEF WindowsLoad, WindowsStore, WindowsDelete, IosLoad, IosStore, IosDelete,
       Starting, Told, OkIf
<1>3. QED
  BY <1>1, <1>2, RequestType, ReturnType

(* The callbacks of Android.                                                *)
LEMMA AndroidType ==
  ASSUME CallInv, NEW c \in Callers, AndroidLoad(c) \/ AndroidStore(c) \/ AndroidDelete(c)
  PROVE  CallInv'
<1>1. /\ op[c].op = "store" => Write("callback", "raw", op[c].secret) \in Requests
      /\ Read("callback") \in Requests /\ Remove("callback") \in Requests
  BY CalledWith, RequestTypes DEF CallInv, Forms
<1>2. /\ Ok(Cut(reply[c].bytes)) \in Answers /\ Ok(NoBytes) \in Answers
      /\ Err("Keychain") \in Answers
  BY CalledWith, AnswerTypes DEF CallInv, Errors
<1>3. pc[c] # "idle" /\ (UNCHANGED faults => faults' \in 0..MaxFaults)
  BY DEF AndroidLoad, AndroidStore, AndroidDelete, NoJniEnv, NotRegistered, Callback,
         CalledBack, Starting, Told, CallInv, Types
<1>4. \/ \E r \in Requests : Ask(c, r) /\ UNCHANGED faults
      \/ \E a \in Answers : Finish(c, a) /\ UNCHANGED faults
  BY <1>1, <1>2 DEF AndroidLoad, AndroidStore, AndroidDelete, NoJniEnv, NotRegistered,
     Callback, CalledBack, Starting, Return
<1>5. QED
  BY <1>3, <1>4, AskType, FinishType DEF Ask

(* A helper that is left behind keeps the request it was given.             *)
LEMMA AbandonType ==
  ASSUME CallInv, NEW c \in Callers, Expire(c) \/ WaitError(c)
  PROVE  CallInv'
<1>1. PICK error \in Errors : Abandon(c, error)
  BY DEF Expire, WaitError, Errors
<1>2. Err(error) \in Answers
  BY AnswerTypes
<1>3. faults' \in 0..MaxFaults
  BY KeychainFaultCounted DEF Expire, WaitError, CallInv, Types
<1>4. request[c] \in Requests
  <2>1. request[c] \in Requests \cup {NoRequest} /\ request[c].via = "helper"
    BY <1>1 DEF Abandon, Waiting, CallInv, Types
  <2>2. QED
    BY <2>1, Addressed
<1>5. calls[c] \in Nat \ {0}
  BY <1>1 DEF Abandon, Waiting, CallInv, Types
<1>6. late' \subseteq [caller : Callers, call : Nat \ {0}, request : Requests]
  <2>1. [caller |-> c, call |-> calls[c], request |-> request[c]]
           \in [caller : Callers, call : Nat \ {0}, request : Requests]
    BY <1>4, <1>5
  <2>2. QED
    BY <1>1, <2>1, Zenon DEF Abandon, CallInv, Types
<1>7. QED
  BY <1>1, <1>2, <1>3, <1>6, LeaveType DEF Abandon

(* What a request of that type does to the entry, and what is replied.      *)
LEMMA EffectType ==
  ASSUME Types, NEW r \in Requests \cup {NoRequest}
  PROVE  /\ Effect(r) => entry' \in Bytes \cup {NoBytes}
         /\ NewSerial(r) => serial' \in Nat
         /\ ReplyTo(r) \in Replies
<1>1. r.bytes \in Bytes \cup {NoBytes}
  BY DEF Requests, NoRequest, Read
<1>2. /\ entry \in Bytes \cup {NoBytes} /\ serial \in Nat
      /\ NoBytes \in Bytes \cup {NoBytes}
  BY DEF Types, Serials
<1>3. Effect(r) => entry' \in Bytes \cup {NoBytes}
  BY <1>1, <1>2, Zenon DEF Effect
<1>4. NewSerial(r) => serial' \in Nat
  BY <1>2 DEF NewSerial
<1>5. ReplyTo(r) \in Replies
  <2>1. NoReply \in Replies /\ \A exit \in Exits : [NoReply EXCEPT !.exit = exit] \in Replies
    BY DEF NoReply, Replies, Exits, ByName, Serials
  <2>2. [exit |-> "success", bytes |-> IF r.do = "read" THEN entry ELSE NoBytes,
         key |-> IF r.do = "search" THEN serial ELSE ByName] \in Replies
    BY <1>2 DEF Replies, Exits, ByName, Serials
  <2>3. "success" \in Exits /\ "absent" \in Exits
    BY DEF Exits
  <2>4. QED
    BY <2>1, <2>2, <2>3, Zenon DEF ReplyTo
<1>6. QED
  BY <1>3, <1>4, <1>5

(* The platform keeps the types, in time and late.                          *)
LEMMA PlatformType ==
  ASSUME CallInv,
         LateHelperActs \/ \E c \in Callers : PlatformActs(c) \/ PlatformFails(c)
  PROVE  CallInv'
<1>1. CASE LateHelperActs
  <2>1. PICK l \in late : late' = late \ {l} /\ Effect(l.request) /\ NewSerial(l.request)
    BY <1>1 DEF LateHelperActs
  <2>2. l.request \in Requests
    BY <2>1 DEF CallInv, Types
  <2>3. entry' \in Bytes \cup {NoBytes} /\ serial' \in Serials
    BY <2>1, <2>2, EffectType DEF CallInv, Serials
  <2>4. late' \subseteq [caller : Callers, call : Nat \ {0}, request : Requests]
    BY <2>1, Zenon DEF CallInv, Types
  <2>5. UNCHANGED <<setup, mutex, op, request, answer, calls, pc, reply, faults>>
    BY <1>1 DEF LateHelperActs, PlatformFrame
  <2>6. QED
    BY <2>3, <2>4, <2>5, Zenon DEF CallInv, Types, setup
<1>2. ASSUME NEW c \in Callers, PlatformActs(c) \/ PlatformFails(c) PROVE CallInv'
  <2>1. pc[c] = "asked" /\ pc' = [pc EXCEPT ![c] = "told"]
    BY <1>2 DEF PlatformActs, PlatformFails
  <2>2. /\ pc' \in [Callers -> {"idle", "start", "feeding", "asked", "told"}]
        /\ \A d \in Callers : pc'[d] # "idle" => pc[d] # "idle"
    BY <2>1 DEF CallInv, Types
  <2>3. UNCHANGED <<setup, op, request, answer, calls, late>>
    BY <1>2 DEF PlatformActs, PlatformFails, PlatformFrame
  <2>4. faults' \in 0..MaxFaults
    BY <1>2, KeychainFaultCounted DEF PlatformActs, PlatformFails, CallInv, Types
  <2>5. request[c] \in Requests \cup {NoRequest}
    BY DEF CallInv, Types
  <2>6. entry' \in Bytes \cup {NoBytes} /\ serial' \in Serials
    BY <1>2, <2>5, EffectType DEF PlatformActs, PlatformFails, store, CallInv, Types, Serials
  <2>7. NoReply \in Replies
    BY DEF NoReply, Replies, Exits, ByName, Serials
  <2>8. reply' \in [Callers -> Replies]
    BY <1>2, <2>5, <2>7, EffectType DEF PlatformActs, PlatformFails, CallInv, Types
  <2>9. QED
    BY <2>2, <2>3, <2>4, <2>6, <2>8, Zenon DEF CallInv, Types, setup
<1>3. QED
  BY <1>1, <1>2

(* Opening the keychain, and starting a call.                               *)
LEMMA OpenType ==
  ASSUME CallInv,
         Open \/ WithJniEnv \/ RegisterCallbacks \/ \E c \in Callers : Call(c)
  PROVE  CallInv'
<1>1. CASE Open
  <2>1. provider' \in Helpers \cup {"closed", "unavailable", "security", "wincred", "java", "ios"}
    BY <1>1, KeychainConstants DEF Open, PlatformKeychain, LinuxNew, Helpers, CallInv, Types
  <2>2. UNCHANGED <<platform, installed, jni, store, pc, op, request, reply, answer, calls, late, faults>>
    BY <1>1 DEF Open
  <2>3. QED
    BY <2>1, <2>2, Zenon DEF CallInv, Types, store
<1>2. CASE WithJniEnv \/ RegisterCallbacks
  <2>1. jni' \in [env : BOOLEAN, registered : BOOLEAN]
    <3>1. jni \in [env : BOOLEAN, registered : BOOLEAN]
      BY DEF CallInv, Types
    <3>2. jni' = [env |-> TRUE, registered |-> FALSE] \/ jni' = [jni EXCEPT !.registered = TRUE]
      BY <1>2 DEF WithJniEnv, RegisterCallbacks
    <3>3. [env |-> TRUE, registered |-> FALSE] \in [env : BOOLEAN, registered : BOOLEAN]
      OBVIOUS
    <3>4. [jni EXCEPT !.registered = TRUE] \in [env : BOOLEAN, registered : BOOLEAN]
      BY <3>1
    <3>5. QED
      BY <3>2, <3>3, <3>4
  <2>2. UNCHANGED <<platform, installed, provider, store, pc, op, request, reply, answer, calls, late, faults>>
    BY <1>2 DEF WithJniEnv, RegisterCallbacks
  <2>3. QED
    BY <2>1, <2>2, Zenon DEF CallInv, Types, store
<1>3. ASSUME NEW c \in Callers, Call(c) PROVE CallInv'
  <2>1. calls \in [Callers -> Nat] /\ MaxCalls \in [Callers -> Nat]
    BY KeychainConstants DEF CallInv, Types
  <2>2. calls[c] < MaxCalls[c] /\ calls' = [calls EXCEPT ![c] = @ + 1]
    BY <1>3 DEF Call
  <2>3. /\ calls' \in [Callers -> Nat] /\ calls'[c] # 0
        /\ \A d \in Callers \ {c} : calls'[d] = calls[d]
    BY <2>1, <2>2
  <2>4. \A d \in Callers : calls'[d] <= MaxCalls[d]
    BY <2>1, <2>2 DEF CallInv, Types
  <2>5. Err("none") \in Answers
    BY AnswerTypes
  <2>6. /\ pc' \in [Callers -> {"idle", "start", "feeding", "asked", "told"}]
        /\ \A d \in Callers \ {c} : pc'[d] = pc[d]
    BY <1>3 DEF Call, CallInv, Types
  <2>7. op' \in [Callers -> Operations \cup {NoOperation}] /\ answer' \in [Callers -> Answers]
    BY <1>3, <2>5 DEF Call, CallInv, Types
  <2>8. UNCHANGED <<setup, store, request, reply, late, faults>>
    BY <1>3 DEF Call
  <2>9. \A d \in Callers : pc'[d] # "idle" => calls'[d] # 0
    BY <2>3, <2>6 DEF CallInv
  <2>10. QED
    BY <2>3, <2>4, <2>6, <2>7, <2>8, <2>9, Zenon DEF CallInv, Types, setup, store
<1>4. QED
  BY <1>1, <1>2, <1>3

(* The initial state.                                                       *)
LEMMA KeychainInitType == Init => CallInv
<1> SUFFICES ASSUME Init PROVE CallInv
  OBVIOUS
<1>1. /\ platform \in Platforms /\ installed \subseteq Helpers
      /\ provider \in Helpers \cup {"closed", "unavailable", "security", "wincred", "java", "ios"}
      /\ jni \in [env : BOOLEAN, registered : BOOLEAN]
  BY DEF Init
<1>2. entry \in Bytes \cup {NoBytes} /\ serial \in Serials
  BY DEF Init, Bytes, Forms, Serials
<1>3. /\ pc \in [Callers -> {"idle", "start", "feeding", "asked", "told"}]
      /\ op \in [Callers -> Operations \cup {NoOperation}]
      /\ request \in [Callers -> Requests \cup {NoRequest}]
  BY DEF Init
<1>4. NoReply \in Replies /\ Err("none") \in Answers
  BY AnswerTypes DEF NoReply, Replies, Exits, ByName, Serials
<1>5. reply \in [Callers -> Replies] /\ answer \in [Callers -> Answers]
  BY <1>4 DEF Init
<1>6. /\ calls \in [Callers -> Nat] /\ \A c \in Callers : calls[c] <= MaxCalls[c]
      /\ late \subseteq [caller : Callers, call : Nat \ {0}, request : Requests]
      /\ faults \in 0..MaxFaults /\ \A c \in Callers : pc[c] = "idle"
  BY KeychainConstants DEF Init
<1>7. QED
  BY <1>1, <1>2, <1>3, <1>5, <1>6, Zenon DEF CallInv, Types

LEMMA CallKept == CallInv /\ [Next]_vars => CallInv'
<1> SUFFICES ASSUME CallInv, [Next]_vars PROVE CallInv'
  OBVIOUS
<1>1. ASSUME NEW c \in Callers, Backend(c) PROVE CallInv'
  BY <1>1, LinuxType, MacosType, ServiceType, AndroidType DEF Backend
<1>2. CASE UNCHANGED vars
  BY <1>2, Zenon DEF CallInv, Types, vars, setup, store
<1>3. QED
  BY <1>1, <1>2, OpenType, PlatformType, WriteSecretType, AbandonType DEF Next

(* mod.rs:40-120 and the backends: every variable keeps its type, so a      *)
(* helper that outlives its call holds a request some call really made, and *)
(* the holder of the callbacks mutex is inside a callback.                  *)
THEOREM KeychainType == Spec => []TypeOK
<1>1. CallInv /\ MutexInv => TypeOK
  BY DEF CallInv, MutexInv, InCallback, TypeOK
<1>2. QED
  BY <1>1, CallKept, KeychainInitType, MutexMeansCallback, PTL DEF Spec
-----------------------------------------------------------------------------
(* A request serves the operation of its call; only keyctl searches.        *)
Fits(c, r) ==
    /\ r.do = "write" => op[c] = [op |-> "store", secret |-> r.bytes.secret]
    /\ r.do = "remove" => op[c].op = "delete"
    /\ r.do = "read" => op[c].op = "load"
    /\ r.do = "search" => provider = "keyctl" /\ r = Search

(* What a reply says: bytes come with a read that succeeded, and with no    *)
(* other; a search finds the key or its absence.                            *)
Answered(c) ==
    /\ reply[c].exit = "success" /\ request[c].do = "read" => reply[c].bytes \in Bytes
    /\ ~(reply[c].exit = "success" /\ request[c].do = "read") => reply[c].bytes = NoBytes
    /\ request[c].do = "search" => reply[c].exit # "failed"

(* A call under way works on its own operation.                             *)
Works(c) ==
    /\ pc[c] # "idle" => op[c] \in Operations
    /\ pc[c] \in {"feeding", "asked", "told"} => Fits(c, request[c])
    /\ pc[c] = "told" => Answered(c)

(* A helper left behind belongs to a call that is over.                     *)
LeftBehind(l) ==
    /\ l.call <= calls[l.caller]
    /\ pc[l.caller] # "idle" => l.call # calls[l.caller]
    /\ l.request.do = "write" => l.request.bytes \in Bytes

WorkInv ==
    /\ \A c \in Callers : Works(c)
    /\ IsFiniteSet(late)
    /\ \A l \in late : LeftBehind(l)

(* What a step of a backend comes to: another request, an error, or the     *)
(* answer to a request that acted.                                          *)
Asks(c) ==
    /\ ~HasActed(c)
    /\ \E r \in Requests, at \in {"feeding", "asked"} : Fits(c, r) /\ Hand(c, r, at)
Fails(c) == \E error \in Errors : Finish(c, Err(error))
Succeeds(c) ==
    /\ HasActed(c)
    /\ \E bytes \in Bytes \cup {NoBytes} :
          bytes.secret = reply[c].bytes.secret /\ Finish(c, Ok(bytes))

(* The requests of the backends serve the operation they are made for.      *)
LEMMA RequestFits ==
  ASSUME CallInv, WorkInv, NEW c \in Callers, pc[c] # "idle",
         NEW via \in {"helper", "service", "callback"}, NEW form \in Forms, NEW key \in Nat
  PROVE  /\ op[c].op = "load" => /\ Read(via) \in Requests /\ Fits(c, Read(via))
                                 /\ Pipe(key) \in Requests /\ Fits(c, Pipe(key))
         /\ op[c].op = "delete" => /\ Remove(via) \in Requests /\ Fits(c, Remove(via))
                                   /\ Unlink(key) \in Requests /\ Fits(c, Unlink(key))
         /\ op[c].op = "store" => /\ Write(via, form, op[c].secret) \in Requests
                                  /\ Fits(c, Write(via, form, op[c].secret))
         /\ provider = "keyctl" => Search \in Requests /\ Fits(c, Search)
<1>1. op[c] \in Operations
  BY DEF WorkInv, Works
<1>2. op[c].op = "store" => op[c].secret \in Secrets /\ op[c] = [op |-> "store", secret |-> op[c].secret]
  BY <1>1 DEF Operations
<1>3. /\ Read(via) \in Requests /\ Pipe(key) \in Requests /\ Search \in Requests
      /\ Remove(via) \in Requests /\ Unlink(key) \in Requests
      /\ op[c].op = "store" => Write(via, form, op[c].secret) \in Requests
  BY <1>2, RequestTypes
<1>4. /\ Read(via).do = "read" /\ Pipe(key).do = "read"
      /\ Remove(via).do = "remove" /\ Unlink(key).do = "remove"
      /\ Search.do = "search"
  BY DEF Read, Pipe, Remove, Unlink, Search
<1>5. /\ Write(via, form, op[c].secret).do = "write"
      /\ Write(via, form, op[c].secret).bytes.secret = op[c].secret
  BY DEF Write, Read
<1>6. op[c].op = "load" => Fits(c, Read(via)) /\ Fits(c, Pipe(key))
  BY <1>4 DEF Fits
<1>7. op[c].op = "delete" => Fits(c, Remove(via)) /\ Fits(c, Unlink(key))
  BY <1>4 DEF Fits
<1>8. op[c].op = "store" => Fits(c, Write(via, form, op[c].secret))
  BY <1>2, <1>5 DEF Fits
<1>9. provider = "keyctl" => Fits(c, Search)
  BY <1>4 DEF Fits
<1>10. QED
  BY <1>3, <1>6, <1>7, <1>8, <1>9

(* What a caller that was told knows.                                       *)
LEMMA ToldKnows ==
  ASSUME CallInv, WorkInv, NEW c \in Callers, pc[c] = "told"
  PROVE  /\ Success(c) /\ request[c].do # "search" => HasActed(c)
         /\ Absent(c) /\ op[c].op = "delete" => HasActed(c)
         /\ HasActed(c) => \/ Success(c) /\ request[c].do # "search"
                           \/ Absent(c) /\ op[c].op = "delete"
         /\ op[c].op # "load" => reply[c].bytes = NoBytes
         /\ provider # "keyctl" => request[c].do # "search"
         /\ request[c].do = "search" => Success(c) \/ Absent(c)
         /\ ~(Success(c) /\ Absent(c))
         /\ reply[c].bytes \in Bytes \cup {NoBytes} /\ reply[c].key \in Nat
<1>1. Fits(c, request[c]) /\ Answered(c) /\ reply[c] \in Replies
  BY DEF WorkInv, Works, CallInv, Types
<1>2. request[c].do = "search" => Success(c) \/ Absent(c)
  BY <1>1 DEF Answered, Success, Absent, Replies, Exits
<1>3. op[c].op # "load" => reply[c].bytes = NoBytes
  BY <1>1 DEF Fits, Answered
<1>4. provider # "keyctl" => request[c].do # "search"
  BY <1>1 DEF Fits
<1>5. reply[c].bytes \in Bytes \cup {NoBytes} /\ reply[c].key \in Nat
  BY <1>1 DEF Replies, Serials
<1>6. QED
  BY <1>2, <1>3, <1>4, <1>5 DEF HasActed, Success, Absent

(* The ways of asking and returning, in these terms.                        *)
LEMMA WaysOut ==
  ASSUME NEW c \in Callers
  PROVE  /\ \A r : RunHelper(c, r) \/ FeedHelper(c, r) \/ AskService(c, r)
                      => (\E at \in {"feeding", "asked"} : Hand(c, r, at)) \/ Fails(c)
         /\ \A good \in BOOLEAN : \A bytes : OkIf(c, good, bytes)
                      => (good /\ Finish(c, Ok(bytes))) \/ (~good /\ Fails(c))
         /\ \A error \in Errors : Return(c, Err(error)) => Fails(c)
<1>1. "Permission" \in Errors /\ "Keychain" \in Errors
  BY DEF Errors
<1>2. ASSUME NEW r, RunHelper(c, r) \/ FeedHelper(c, r) \/ AskService(c, r)
      PROVE  (\E at \in {"feeding", "asked"} : Hand(c, r, at)) \/ Fails(c)
  BY <1>1, <1>2 DEF RunHelper, FeedHelper, AskService, Ask, Fails
<1>3. ASSUME NEW good \in BOOLEAN, NEW bytes, OkIf(c, good, bytes)
      PROVE  (good /\ Finish(c, Ok(bytes))) \/ (~good /\ Fails(c))
  <2>1. CASE good
    BY <1>3, <2>1 DEF OkIf, Return
  <2>2. CASE ~good
    BY <1>1, <1>3, <2>2 DEF OkIf, Return, Fails
  <2>3. QED
    BY <2>1, <2>2
<1>4. QED
  BY <1>2, <1>3 DEF Return, Fails

(* What a step of a backend may come to.                                    *)
Serves(c) == pc[c] # "idle" /\ (Asks(c) \/ Fails(c) \/ Succeeds(c))

(* A caller that has just started has not acted.                            *)
LEMMA StartServes ==
  ASSUME CallInv, WorkInv, NEW c \in Callers, pc[c] # "idle", ~HasActed(c),
         NEW r \in Requests, Fits(c, r),
         RunHelper(c, r) \/ FeedHelper(c, r) \/ AskService(c, r)
  PROVE  Serves(c)
BY WaysOut DEF Serves, Asks

(* An answer that is Ok exactly when the request acted.                     *)
LEMMA AnswerServes ==
  ASSUME CallInv, WorkInv, NEW c \in Callers, pc[c] = "told", NEW good \in BOOLEAN,
         good => HasActed(c), NEW bytes \in Bytes \cup {NoBytes},
         bytes.secret = reply[c].bytes.secret, OkIf(c, good, bytes)
  PROVE  Serves(c)
BY WaysOut DEF Serves, Succeeds

LEMMA SecretToolServes ==
  ASSUME CallInv, WorkInv, NEW c \in Callers,
         SecretToolLookup(c) \/ SecretToolStore(c) \/ SecretToolClear(c)
  PROVE  Serves(c)
<1>1. CASE pc[c] = "start"
  <2>1. ~HasActed(c) /\ "raw" \in Forms /\ 0 \in Nat
    BY <1>1 DEF HasActed, Forms
  <2>2. PICK r \in Requests : Fits(c, r) /\ (RunHelper(c, r) \/ FeedHelper(c, r))
    BY <1>1, <2>1, RequestFits
       DEF SecretToolLookup, SecretToolStore, SecretToolClear, Starting, Told
  <2>3. QED
    BY <1>1, <2>1, <2>2, StartServes
<1>2. CASE pc[c] = "told"
  <2>1. Success(c) \in BOOLEAN /\ (Success(c) => HasActed(c))
    BY <1>2, ToldKnows DEF Success, SecretToolLookup, SecretToolStore, SecretToolClear, Starting, Told
  <2>2. \E bytes \in Bytes \cup {NoBytes} :
           bytes.secret = reply[c].bytes.secret /\ OkIf(c, Success(c), bytes)
    BY <1>2, ToldKnows DEF SecretToolLookup, SecretToolStore, SecretToolClear, Starting, Told
  <2>3. QED
    BY <1>2, <2>1, <2>2, AnswerServes
<1>3. QED
  BY <1>1, <1>2 DEF SecretToolLookup, SecretToolStore, SecretToolClear, Starting, Told

(* A search asks and answers nothing; what follows it acts.                 *)
LEMMA KeyctlServes ==
  ASSUME CallInv, WorkInv, NEW c \in Callers, KeyctlRead(c) \/ KeyctlStore(c) \/ KeyctlUnlink(c)
  PROVE  Serves(c)
<1> USE DEF KeyctlRead, KeyctlStore, KeyctlUnlink, Searched, FollowedUp, Starting, Told
<1>1. CASE pc[c] = "start"
  <2>1. ~HasActed(c) /\ "raw" \in Forms /\ 0 \in Nat
    BY <1>1 DEF HasActed, Forms
  <2>2. PICK r \in Requests : Fits(c, r) /\ (RunHelper(c, r) \/ FeedHelper(c, r))
    BY <1>1, <2>1, RequestFits
  <2>3. QED
    BY <1>1, <2>1, <2>2, StartServes
<1>2. CASE pc[c] = "told" /\ request[c].do = "search"
  <2>1. CASE Success(c)
    <3>1. ~HasActed(c) /\ "raw" \in Forms /\ reply[c].key \in Nat
      BY <1>2, <2>1, ToldKnows DEF Forms
    <3>2. PICK r \in Requests : Fits(c, r) /\ RunHelper(c, r)
      BY <1>2, <2>1, <3>1, RequestFits
    <3>3. QED
      BY <1>2, <3>1, <3>2, StartServes
  <2>2. CASE ~Success(c) /\ op[c].op = "delete"
    <3>1. HasActed(c) /\ reply[c].bytes = NoBytes
      BY <1>2, <2>2, ToldKnows
    <3>2. Finish(c, Ok(NoBytes))
      BY <1>2, <2>2 DEF Return
    <3>3. QED
      BY <1>2, <3>1, <3>2 DEF Serves, Succeeds
  <2>3. CASE ~Success(c) /\ op[c].op # "delete"
    BY <1>2, <2>3, WaysOut DEF Serves, Errors
  <2>4. QED
    BY <2>1, <2>2, <2>3
<1>3. CASE pc[c] = "told" /\ request[c].do # "search"
  <2>1. Success(c) \in BOOLEAN /\ (Success(c) => HasActed(c))
    BY <1>3, ToldKnows DEF Success
  <2>2. \E bytes \in Bytes \cup {NoBytes} :
           bytes.secret = reply[c].bytes.secret /\ OkIf(c, Success(c), bytes)
    BY <1>3, ToldKnows
  <2>3. QED
    BY <1>3, <2>1, <2>2, AnswerServes
<1>4. QED
  BY <1>1, <1>2, <1>3

(* The framework is asked first, the command when it failed; only what      *)
(* acted is answered Ok.                                                    *)
LEMMA MacosServes ==
  ASSUME CallInv, WorkInv, NEW c \in Callers,
         \/ MacosLoad(c) \/ MacosStore(c) \/ MacosDelete(c)
         \/ MacosCliLoad(c) \/ MacosCliStore(c) \/ MacosCliDelete(c)
  PROVE  Serves(c)
<1> USE DEF MacosLoad, MacosStore, MacosDelete, MacosCliLoad, MacosCliStore, MacosCliDelete,
            FallsBack, Framework, Starting, Told
<1>1. provider = "security" /\ (pc[c] = "start" \/ pc[c] = "told")
  OBVIOUS
<1>2. /\ {"raw", "hex"} \subseteq Forms /\ 0 \in Nat
      /\ Success(c) \in BOOLEAN /\ (Success(c) \/ Absent(c)) \in BOOLEAN
  BY DEF Forms, Success, Absent
<1>3. pc[c] = "told" => /\ Success(c) => HasActed(c)
                        /\ Absent(c) /\ op[c].op = "delete" => HasActed(c)
                        /\ op[c].op # "load" => reply[c].bytes = NoBytes
                        /\ reply[c].bytes \in Bytes \cup {NoBytes}
                        /\ HasActed(c) => Success(c) \/ (Absent(c) /\ op[c].op = "delete")
  BY <1>1, ToldKnows
<1>4. CASE \/ pc[c] = "start"
           \/ FallsBack(c, "load") \/ FallsBack(c, "store") \/ FallsBack(c, "delete")
  <2>1. ~HasActed(c) /\ pc[c] # "idle"
    BY <1>1, <1>3, <1>4 DEF HasActed
  <2>2. PICK r \in Requests : Fits(c, r) /\ (RunHelper(c, r) \/ AskService(c, r))
    BY <1>2, <1>4, <2>1, RequestFits
  <2>3. QED
    BY <2>1, <2>2, StartServes
<1>5. CASE /\ pc[c] = "told"
           /\ ~FallsBack(c, "load") /\ ~FallsBack(c, "store") /\ ~FallsBack(c, "delete")
  <2>1. \/ \E bytes \in Bytes \cup {NoBytes} :
              bytes.secret = reply[c].bytes.secret /\ OkIf(c, Success(c), bytes)
        \/ Success(c) /\ op[c].op = "store" /\ Return(c, Ok(NoBytes))
        \/ /\ (Success(c) \/ Absent(c)) /\ op[c].op = "delete" /\ Return(c, Ok(NoBytes))
        \/ op[c].op = "delete" /\ OkIf(c, Success(c) \/ Absent(c), NoBytes)
    BY <1>3, <1>5
  <2>2. CASE Return(c, Ok(NoBytes)) /\ HasActed(c) /\ op[c].op # "load"
    BY <1>3, <1>5, <2>2 DEF Serves, Succeeds, Return
  <2>3. CASE op[c].op = "delete" /\ OkIf(c, Success(c) \/ Absent(c), NoBytes)
    BY <1>2, <1>3, <1>5, <2>3, AnswerServes
  <2>4. QED
    BY <1>2, <1>3, <1>5, <2>1, <2>2, <2>3, AnswerServes
<1>6. QED
  BY <1>1, <1>4, <1>5

LEMMA ServiceServes ==
  ASSUME CallInv, WorkInv, NEW c \in Callers,
         \/ WindowsLoad(c) \/ WindowsStore(c) \/ WindowsDelete(c)
         \/ IosLoad(c) \/ IosStore(c) \/ IosDelete(c)
  PROVE  Serves(c)
<1> USE DEF WindowsLoad, WindowsStore, WindowsDelete, IosLoad, IosStore, IosDelete,
            Starting, Told
<1>1. provider \in {"wincred", "ios"} /\ (pc[c] = "start" \/ pc[c] = "told")
  OBVIOUS
<1>2. /\ "raw" \in Forms /\ 0 \in Nat
      /\ Success(c) \in BOOLEAN /\ (Success(c) \/ Absent(c)) \in BOOLEAN
  BY DEF Forms, Success, Absent
<1>3. pc[c] = "told" => /\ Success(c) => HasActed(c)
                        /\ Absent(c) /\ op[c].op = "delete" => HasActed(c)
                        /\ op[c].op # "load" => reply[c].bytes = NoBytes
                        /\ reply[c].bytes \in Bytes \cup {NoBytes}
  BY <1>1, ToldKnows
<1>4. CASE pc[c] = "start"
  <2>1. ~HasActed(c)
    BY <1>4 DEF HasActed
  <2>2. PICK r \in Requests : Fits(c, r) /\ AskService(c, r)
    BY <1>2, <1>4, RequestFits
  <2>3. QED
    BY <1>4, <2>1, <2>2, StartServes
<1>5. CASE pc[c] = "told"
  <2>1. \/ \E bytes \in Bytes \cup {NoBytes} :
              bytes.secret = reply[c].bytes.secret /\ OkIf(c, Success(c), bytes)
        \/ op[c].op = "delete" /\ OkIf(c, Success(c) \/ Absent(c), NoBytes)
        \/ Return(c, IF Success(c) THEN Ok(reply[c].bytes)
                     ELSE Err(IF Absent(c) THEN "Keychain" ELSE "Permission"))
    BY <1>3, <1>5
  <2>2. CASE op[c].op = "delete" /\ OkIf(c, Success(c) \/ Absent(c), NoBytes)
    BY <1>2, <1>3, <1>5, <2>2, AnswerServes
  <2>3. CASE Return(c, IF Success(c) THEN Ok(reply[c].bytes)
                      ELSE Err(IF Absent(c) THEN "Keychain" ELSE "Permission"))
    <3>1. CASE Success(c)
      <4>1. Finish(c, Ok(reply[c].bytes))
        BY <2>3, <3>1, Zenon DEF Return
      <4>2. QED
        BY <1>3, <1>5, <3>1, <4>1 DEF Serves, Succeeds
    <3>2. CASE ~Success(c)
      <4>1. PICK error \in Errors : Return(c, Err(error))
        <5>1. (IF Absent(c) THEN "Keychain" ELSE "Permission") \in Errors
          BY DEF Errors
        <5>2. QED
          BY <2>3, <3>2, <5>1, Zenon
      <4>2. QED
        BY <1>5, <4>1, WaysOut DEF Serves
    <3>3. QED
      BY <3>1, <3>2
  <2>4. QED
    BY <1>2, <1>3, <1>5, <2>1, <2>2, <2>3, AnswerServes
<1>6. QED
  BY <1>1, <1>4, <1>5

(* What is cut short still names its secret.                                *)
LEMMA AndroidServes ==
  ASSUME CallInv, WorkInv, NEW c \in Callers,
         AndroidLoad(c) \/ AndroidStore(c) \/ AndroidDelete(c)
  PROVE  Serves(c)
<1> USE DEF AndroidLoad, AndroidStore, AndroidDelete
<1>1. ASSUME NEW o, NoJniEnv(c, o) \/ NotRegistered(c, o) PROVE Serves(c)
  <2>1. Return(c, Err("Keychain")) /\ pc[c] = "start"
    BY <1>1 DEF NoJniEnv, NotRegistered, Starting
  <2>2. QED
    BY <2>1, WaysOut DEF Serves, Errors
<1>2. ASSUME NEW o, NEW r \in Requests, Fits(c, r), Callback(c, o, r) PROVE Serves(c)
  BY <1>2 DEF Callback, Ask, Starting, Serves, Asks, HasActed
<1>3. ASSUME NEW o, NEW bytes \in Bytes \cup {NoBytes}, bytes.secret = reply[c].bytes.secret,
             CalledBack(c, o, bytes)
      PROVE  Serves(c)
  <2>1. /\ pc[c] = "told" /\ provider = "java"
        /\ Finish(c, IF Success(c) THEN Ok(bytes) ELSE Err("Keychain"))
    BY <1>3 DEF CalledBack, Told
  <2>2. CASE Success(c)
    <3>1. Finish(c, Ok(bytes)) /\ HasActed(c)
      BY <2>1, <2>2, ToldKnows, Zenon
    <3>2. QED
      BY <1>3, <2>1, <3>1 DEF Serves, Succeeds
  <2>3. CASE ~Success(c)
    <3>1. Finish(c, Err("Keychain"))
      BY <2>1, <2>3, Zenon
    <3>2. QED
      BY <2>1, <3>1 DEF Serves, Fails, Errors
  <2>4. QED
    BY <2>2, <2>3
<1>4. ASSUME NEW o, NEW bytes, CalledBack(c, o, bytes)
      PROVE  /\ pc[c] = "told" /\ op[c].op = o
             /\ reply[c].bytes \in Bytes \cup {NoBytes}
             /\ o # "load" => reply[c].bytes = NoBytes
  BY <1>4, ToldKnows DEF CalledBack, Told
<1>5. \A bytes \in Bytes \cup {NoBytes} :
         Cut(bytes) \in Bytes \cup {NoBytes} /\ Cut(bytes).secret = bytes.secret
  <2>1. \A bytes \in Bytes \cup {NoBytes} : Cut(bytes).secret = bytes.secret
    BY DEF Cut, Bytes, NoBytes
  <2>2. QED
    BY <2>1, AnswerTypes
<1>6. ASSUME NEW o, NEW r, Callback(c, o, r) PROVE op[c].op = o /\ pc[c] # "idle"
  BY <1>6 DEF Callback, Starting
<1>7. "raw" \in Forms /\ 0 \in Nat
  BY DEF Forms
<1>8. CASE AndroidLoad(c)
  BY <1>1, <1>2, <1>3, <1>4, <1>5, <1>6, <1>7, <1>8, RequestFits
<1>9. CASE AndroidStore(c)
  BY <1>1, <1>2, <1>3, <1>4, <1>6, <1>7, <1>9, RequestFits
<1>10. CASE AndroidDelete(c)
  BY <1>1, <1>2, <1>3, <1>4, <1>6, <1>7, <1>10, RequestFits
<1>11. QED
  BY <1>8, <1>9, <1>10

LEMMA BackendServes ==
  ASSUME CallInv, WorkInv, NEW c \in Callers, Backend(c)
  PROVE  Serves(c)
BY SecretToolServes, KeyctlServes, MacosServes, ServiceServes, AndroidServes DEF Backend
-----------------------------------------------------------------------------
(* Callers whose call does not move keep working, and helpers stay behind   *)
(* calls that are over.                                                     *)
Untouched(c) ==
    \A d \in Callers \ {c} :
        /\ pc'[d] = pc[d] /\ op'[d] = op[d] /\ request'[d] = request[d]
        /\ reply'[d] = reply[d] /\ calls'[d] = calls[d]

LEMMA OthersWork ==
  ASSUME WorkInv, NEW c \in Callers, Untouched(c), UNCHANGED provider
  PROVE  \A d \in Callers \ {c} : Works(d)'
BY DEF WorkInv, Works, Untouched, Fits, Answered

LEMMA OthersStay ==
  ASSUME CallInv, WorkInv, NEW c \in Callers, Untouched(c),
         \/ pc'[c] = "idle" /\ calls'[c] = calls[c]
         \/ pc[c] # "idle" /\ calls'[c] = calls[c]
         \/ calls'[c] = calls[c] + 1
  PROVE  \A l \in late : LeftBehind(l)'
<1> SUFFICES ASSUME NEW l \in late PROVE LeftBehind(l)'
  OBVIOUS
<1>1. LeftBehind(l) /\ l.caller \in Callers /\ l.call \in Nat /\ calls[l.caller] \in Nat
  BY DEF WorkInv, CallInv, Types
<1>2. CASE l.caller = c
  BY <1>1, <1>2 DEF LeftBehind
<1>3. CASE l.caller # c
  BY <1>1, <1>3 DEF LeftBehind, Untouched
<1>4. QED
  BY <1>2, <1>3

(* Asking and leaving.                                                      *)
LEMMA AskWorks ==
  ASSUME CallInv, WorkInv, NEW c \in Callers, pc[c] # "idle", Asks(c)
  PROVE  WorkInv'
<1>1. PICK r \in Requests, at \in {"feeding", "asked"} : Fits(c, r) /\ Hand(c, r, at)
  BY DEF Asks
<1>2. /\ Untouched(c) /\ pc'[c] = at /\ request'[c] = r /\ op'[c] = op[c]
      /\ UNCHANGED <<provider, calls, late>>
  BY <1>1 DEF Hand, CallFrame, setup, Untouched, CallInv, Types
<1>3. Works(c)'
  BY <1>1, <1>2 DEF Works, WorkInv, Fits
<1>4. QED
  BY <1>2, <1>3, OthersWork, OthersStay DEF WorkInv

LEMMA LeaveWorks ==
  ASSUME CallInv, WorkInv, NEW c \in Callers, NEW a, Leave(c, a)
  PROVE  /\ Untouched(c) /\ pc'[c] = "idle" /\ UNCHANGED <<provider, calls>>
         /\ \A d \in Callers : Works(d)'
         /\ \A l \in late : LeftBehind(l)'
<1>1. Untouched(c) /\ pc'[c] = "idle" /\ UNCHANGED <<provider, calls>>
  BY DEF Leave, CallFrame, setup, Untouched, CallInv, Types
<1>2. Works(c)'
  BY <1>1 DEF Works
<1>3. QED
  BY <1>1, <1>2, OthersWork, OthersStay

LEMMA BackendWorks ==
  ASSUME CallInv, WorkInv, NEW c \in Callers, Backend(c)
  PROVE  WorkInv'
<1>1. pc[c] # "idle" /\ (Asks(c) \/ Fails(c) \/ Succeeds(c))
  BY BackendServes DEF Serves
<1>2. ASSUME NEW a, Finish(c, a) PROVE WorkInv'
  BY <1>2, LeaveWorks DEF Finish, WorkInv
<1>3. QED
  BY <1>1, <1>2, AskWorks DEF Fails, Succeeds

(* A helper that was fed still serves its call.                             *)
LEMMA FedWorks ==
  ASSUME CallInv, WorkInv, NEW c \in Callers, WriteSecret(c)
  PROVE  WorkInv'
<1>1. CASE Finish(c, Err("Keychain"))
  BY <1>1, LeaveWorks DEF Finish, WorkInv
<1>2. CASE /\ pc' = [pc EXCEPT ![c] = "asked"]
           /\ UNCHANGED <<op, request, reply, answer, late, faults>> /\ CallFrame
  <2>1. /\ Untouched(c) /\ pc[c] = "feeding" /\ pc'[c] = "asked"
        /\ UNCHANGED <<provider, calls, late, op, request>>
    BY <1>2 DEF WriteSecret, CallFrame, setup, Untouched, CallInv, Types
  <2>2. Works(c)'
    BY <2>1 DEF WorkInv, Works, Fits
  <2>3. QED
    BY <2>1, <2>2, OthersWork, OthersStay DEF WorkInv
<1>3. QED
  BY <1>1, <1>2 DEF WriteSecret

(* The record of a helper left behind is new, and serves the operation of   *)
(* its call.                                                                *)
LEMMA AbandonWorks ==
  ASSUME CallInv, WorkInv, NEW c \in Callers, NEW error, Abandon(c, error)
  PROVE  WorkInv'
<1>0. PICK l : l = [caller |-> c, call |-> calls[c], request |-> request[c]]
  OBVIOUS
<1>1. Leave(c, Err(error)) /\ pc[c] \in {"asked", "told"}
  BY DEF Abandon, Waiting
<1>2. /\ Untouched(c) /\ pc'[c] = "idle" /\ UNCHANGED <<provider, calls>>
      /\ \A d \in Callers : Works(d)'
      /\ \A m \in late : LeftBehind(m)'
  BY <1>1, LeaveWorks
<1>3. LeftBehind(l)'
  <2>1. calls[c] \in Nat /\ l.call = calls[c] /\ l.caller = c /\ l.request = request[c]
    BY <1>0 DEF CallInv, Types
  <2>2. request[c].do = "write" => request[c].bytes \in Bytes
    <3>1. Fits(c, request[c]) /\ op[c] \in Operations /\ request[c] \in Requests \cup {NoRequest}
      BY <1>1 DEF WorkInv, Works, CallInv, Types
    <3>2. request[c].do = "write" => request[c].bytes.secret \in Secrets
      BY <3>1 DEF Fits, Operations
    <3>3. request[c].bytes \in Bytes \cup {NoBytes}
      BY <3>1 DEF Requests, NoRequest, Read
    <3>4. NoBytes.secret \notin Secrets
      BY KeychainConstants DEF NoBytes
    <3>5. QED
      BY <3>2, <3>3, <3>4
  <2>3. QED
    BY <1>2, <2>1, <2>2 DEF LeftBehind
<1>4. late' = late \/ late' = late \cup {l}
  BY <1>0 DEF Abandon
<1>5. IsFiniteSet(late')
  BY <1>4, FS_AddElement DEF WorkInv
<1>6. QED
  BY <1>2, <1>3, <1>4, <1>5 DEF WorkInv

(* The environment makes no search fail: a failed search looks like an      *)
(* absent key to keyctl delete.                                             *)
NoSearchFault == "search" \notin Faults

(* What the platform replies suits the request.                             *)
LEMMA ReplySuits ==
  ASSUME CallInv, NEW r \in Requests \cup {NoRequest}, r.do = "search" => r.key = ByName
  PROVE  /\ ReplyTo(r).exit = "success" /\ r.do = "read"
                  => (ReplyTo(r).bytes = entry /\ entry \in Bytes)
         /\ ~(ReplyTo(r).exit = "success" /\ r.do = "read") => ReplyTo(r).bytes = NoBytes
         /\ r.do = "search" => ReplyTo(r).exit = IF Present THEN "success" ELSE "absent"
         /\ r.do = "write" => ReplyTo(r).exit = "success"
         /\ r.do = "remove" =>
              \/ ReplyTo(r).exit \in {"success", "absent"} /\ (Present => Matches(r))
              \/ ReplyTo(r).exit = "failed" /\ ~(Present /\ Matches(r))
<1> DEFINE found == [exit |-> "success",
                     bytes |-> IF r.do = "read" THEN entry ELSE NoBytes,
                     key |-> IF r.do = "search" THEN serial ELSE ByName]
<1>1. /\ NoReply.exit = "failed" /\ NoReply.bytes = NoBytes
      /\ \A exit : /\ [NoReply EXCEPT !.exit = exit].exit = exit
                   /\ [NoReply EXCEPT !.exit = exit].bytes = NoBytes
  BY DEF NoReply
<1>2. /\ found.exit = "success" /\ (r.do = "read" => found.bytes = entry)
      /\ r.do # "read" => found.bytes = NoBytes
  OBVIOUS
<1>3. entry \in Bytes \cup {NoBytes} /\ (Present => entry \in Bytes)
  BY DEF CallInv, Types, Present
<1>4. r.do \in {"read", "write", "remove", "search"}
  BY DEF Requests, NoRequest, Read
<1>5. r.key = ByName => Matches(r)
  BY DEF Matches
<1> HIDE DEF found
<1>6. CASE r.do = "write"
  <2>1. ReplyTo(r) = [NoReply EXCEPT !.exit = "success"]
    BY <1>6, Zenon DEF ReplyTo
  <2>2. QED
    BY <1>1, <1>6, <2>1
<1>7. CASE r.do # "write" /\ r.key # ByName /\ ~(Present /\ Matches(r))
  <2>1. ReplyTo(r) = NoReply
    BY <1>7, Zenon DEF ReplyTo
  <2>2. QED
    BY <1>1, <1>7, <2>1
<1>8. CASE r.do # "write" /\ ~(r.key # ByName /\ ~(Present /\ Matches(r))) /\ Present
  <2>1. ReplyTo(r) = found
    BY <1>8, Zenon DEF ReplyTo, found
  <2>2. ReplyTo(r).exit = "success" /\ (Present => Matches(r))
    BY <1>2, <1>5, <1>8, <2>1
  <2>3. QED
    BY <1>2, <1>3, <1>8, <2>1, <2>2
<1>9. CASE r.do # "write" /\ r.key = ByName /\ ~Present
  <2>1. ReplyTo(r) = [NoReply EXCEPT !.exit =
                        IF r.do = "remove" /\ ForgivesAbsence THEN "success" ELSE "absent"]
    BY <1>9, Zenon DEF ReplyTo
  <2>2. QED
    BY <1>1, <1>9, <2>1
<1>10. QED
  BY <1>6, <1>7, <1>8, <1>9

(* A reply, or a failure that is not one of a search.                       *)
LEMMA PlatformWorks ==
  ASSUME NoSearchFault, CallInv, WorkInv, NEW c \in Callers, PlatformActs(c) \/ PlatformFails(c)
  PROVE  WorkInv'
<1>1. /\ pc[c] = "asked" /\ pc'[c] = "told" /\ Untouched(c)
      /\ UNCHANGED <<provider, calls, late, op, request>>
      /\ op'[c] = op[c] /\ request'[c] = request[c]
  BY DEF PlatformActs, PlatformFails, PlatformFrame, setup, Untouched, CallInv, Types
<1>2. Fits(c, request[c]) /\ op[c] \in Operations /\ request[c] \in Requests \cup {NoRequest}
  BY <1>1 DEF WorkInv, Works, CallInv, Types
<1>3. request[c].do = "search" => request[c].key = ByName
  BY <1>2 DEF Fits, Search, Read
<1>4. Answered(c)'
  <2>1. CASE PlatformActs(c)
    <3>1. reply'[c] = ReplyTo(request[c])
      BY <2>1 DEF PlatformActs, CallInv, Types
    <3>2. QED
      BY <1>1, <1>2, <1>3, <3>1, ReplySuits DEF Answered
  <2>2. CASE PlatformFails(c)
    <3>1. reply'[c] = NoReply
      BY <2>2 DEF PlatformFails, CallInv, Types
    <3>2. request[c].do # "search"
      <4>1. FaultOf(request[c]) # "search"
        BY <2>2 DEF PlatformFails, Fault, NoSearchFault
      <4>2. request[c].do = "search" => request[c].via = "helper"
        BY <1>2, Addressed DEF Fits
      <4>3. QED
        BY <4>1, <4>2 DEF FaultOf
    <3>3. QED
      BY <1>1, <3>1, <3>2 DEF Answered, NoReply
  <2>3. QED
    BY <2>1, <2>2
<1>5. Works(c)'
  BY <1>1, <1>2, <1>4 DEF Works, Fits
<1>6. QED
  BY <1>1, <1>5, OthersWork, OthersStay DEF WorkInv

(* Opening changes what a search belongs to, and there is none yet.         *)
LEMMA OpenWorks ==
  ASSUME CallInv, WorkInv,
         Open \/ WithJniEnv \/ RegisterCallbacks \/ LateHelperActs \/ UNCHANGED vars
  PROVE  WorkInv'
<1>1. /\ UNCHANGED <<pc, op, request, reply, calls>>
      /\ provider # "closed" => UNCHANGED provider
      /\ late' \subseteq late
  BY DEF Open, WithJniEnv, RegisterCallbacks, LateHelperActs, PlatformFrame, vars, setup
<1>2. IsFiniteSet(late')
  BY <1>1, FS_Subset DEF WorkInv
<1>3. \A l \in late' : LeftBehind(l)'
  BY <1>1 DEF WorkInv, LeftBehind
<1>4. \A c \in Callers : Works(c)'
  BY <1>1 DEF WorkInv, Works, Fits, Answered
<1>5. QED
  BY <1>2, <1>3, <1>4 DEF WorkInv

(* A new call has a number no helper left behind has.                       *)
LEMMA CallWorks ==
  ASSUME CallInv, WorkInv, NEW c \in Callers, Call(c)
  PROVE  WorkInv'
<1>1. /\ Untouched(c) /\ pc'[c] = "start" /\ op'[c] \in Operations
      /\ calls'[c] = calls[c] + 1 /\ UNCHANGED <<provider, late>>
  BY DEF Call, setup, Untouched, CallInv, Types
<1>2. Works(c)'
  BY <1>1 DEF Works
<1>3. QED
  BY <1>1, <1>2, OthersWork, OthersStay DEF WorkInv

LEMMA WorkKept == NoSearchFault /\ CallInv /\ WorkInv /\ [Next]_vars => WorkInv'
<1> SUFFICES ASSUME NoSearchFault, CallInv, WorkInv, [Next]_vars PROVE WorkInv'
  OBVIOUS
<1>1. ASSUME NEW c \in Callers, Expire(c) \/ WaitError(c) PROVE WorkInv'
  BY <1>1, AbandonWorks DEF Expire, WaitError
<1>2. QED
  BY <1>1, OpenWorks, CallWorks, BackendWorks, FedWorks, PlatformWorks DEF Next

LEMMA WorkInit == Init => WorkInv
BY FS_EmptySet DEF Init, WorkInv, Works
-----------------------------------------------------------------------------
(* The rest of the callers look the same in the abstract store.             *)
LEMMA OnlyOne ==
  ASSUME CallInv, NEW c \in Callers, Untouched(c)
  PROVE  /\ [d \in Callers |-> StatusOf(d)]'
              = [[d \in Callers |-> StatusOf(d)] EXCEPT ![c] = StatusOf(c)']
         /\ [d \in Callers |-> SeenBy(d)]'
              = [[d \in Callers |-> SeenBy(d)] EXCEPT ![c] = SeenBy(c)']
<1>1. \A d \in Callers \ {c} : StatusOf(d)' = StatusOf(d) /\ SeenBy(d)' = SeenBy(d)
  BY DEF Untouched, StatusOf, SeenBy, HasActed
<1>2. QED
  BY <1>1

(* Leaving, as the abstract store sees it.                                  *)
LEMMA LeaveMaps ==
  ASSUME CallInv, WorkInv, NEW c \in Callers, pc[c] # "idle", NEW a, Leave(c, a)
  PROVE  /\ Promise!Leave(c)
         /\ [d \in Callers |-> AnswerOf(d)]' =
               [[d \in Callers |-> AnswerOf(d)] EXCEPT
                   ![c] = [result |-> a.result, secret |-> a.bytes.secret]]
         /\ entry' = entry
<1>1. Untouched(c) /\ pc'[c] = "idle" /\ entry' = entry
  BY LeaveWorks DEF Leave, CallFrame, store
<1>2. StatusOf(c)' = "out" /\ SeenBy(c)' = NoSecret
  BY <1>1 DEF StatusOf, SeenBy, HasActed
<1>3. op' = [op EXCEPT ![c] = NoOperation] /\ answer' = [answer EXCEPT ![c] = a]
  BY DEF Leave
<1>4. [d \in Callers |-> AnswerOf(d)]' =
         [[d \in Callers |-> AnswerOf(d)] EXCEPT
             ![c] = [result |-> a.result, secret |-> a.bytes.secret]]
  BY <1>3 DEF AnswerOf, CallInv, Types
<1>5. QED
  BY <1>1, <1>2, <1>3, <1>4, OnlyOne DEF Promise!Leave

(* The work owed changes with the helpers left behind, and only then.       *)
LEMMA SameOwed ==
  ASSUME UNCHANGED late
  PROVE  [o \in Operations |-> Owed(o)]' = [o \in Operations |-> Owed(o)]
BY DEF Owed, IsFor

(* Another request of the same call is no step of the store.                *)
LEMMA AskStutters ==
  ASSUME CallInv, WorkInv, NEW c \in Callers, pc[c] # "idle", Asks(c)
  PROVE  UNCHANGED Promise!vars
<1>1. /\ Untouched(c) /\ pc'[c] \in {"feeding", "asked"} /\ ~HasActed(c)
      /\ UNCHANGED <<entry, op, answer, late>>
  BY DEF Asks, Hand, CallFrame, setup, store, Untouched, CallInv, Types
<1>2. StatusOf(c)' = StatusOf(c) /\ SeenBy(c)' = SeenBy(c)
  BY <1>1 DEF StatusOf, SeenBy, HasActed
<1>3. /\ [d \in Callers |-> StatusOf(d)]' = [d \in Callers |-> StatusOf(d)]
      /\ [d \in Callers |-> SeenBy(d)]' = [d \in Callers |-> SeenBy(d)]
  BY <1>1, <1>2, OnlyOne
<1>4. [d \in Callers |-> AnswerOf(d)]' = [d \in Callers |-> AnswerOf(d)]
  BY <1>1 DEF AnswerOf
<1>5. QED
  BY <1>1, <1>3, <1>4, SameOwed DEF Promise!vars

(* An error, and an Ok answer to what has acted.                            *)
LEMMA FailMaps ==
  ASSUME CallInv, WorkInv, NEW c \in Callers, pc[c] # "idle", Fails(c)
  PROVE  Promise!Fail(c)
<1>1. PICK error \in Errors : Leave(c, Err(error)) /\ UNCHANGED late
  BY DEF Fails, Finish
<1>2. Err(error).result = error /\ Err(error).bytes.secret = NoSecret
  BY DEF Err, NoBytes
<1>3. StatusOf(c) # "out"
  BY DEF StatusOf
<1>4. Promise!Err(error) = [result |-> error, secret |-> NoSecret] /\ error \in Promise!Errors
  BY DEF Promise!Err, Promise!Errors, Errors
<1>5. [d \in Callers |-> AnswerOf(d)]' =
         [[d \in Callers |-> AnswerOf(d)] EXCEPT ![c] = Promise!Err(error)]
  BY <1>1, <1>2, <1>4, LeaveMaps
<1>6. /\ Promise!Leave(c) /\ entry' = entry
      /\ [o \in Operations |-> Owed(o)]' = [o \in Operations |-> Owed(o)]
  BY <1>1, LeaveMaps, SameOwed
<1>7. [d \in Callers |-> StatusOf(d)][c] # "out"
  BY <1>3
<1>8. QED
  BY <1>4, <1>5, <1>6, <1>7 DEF Promise!Fail

(* Feeding a helper is no step of the store, or an error.                   *)
LEMMA FeedMaps ==
  ASSUME CallInv, WorkInv, NEW c \in Callers, WriteSecret(c)
  PROVE  Promise!Fail(c) \/ UNCHANGED Promise!vars
<1>1. pc[c] = "feeding"
  BY DEF WriteSecret
<1>2. CASE Finish(c, Err("Keychain"))
  BY <1>1, <1>2, FailMaps DEF Fails, Errors
<1>3. CASE /\ pc' = [pc EXCEPT ![c] = "asked"]
           /\ UNCHANGED <<op, request, reply, answer, late, faults>> /\ CallFrame
  <2>1. Untouched(c) /\ pc'[c] = "asked" /\ UNCHANGED <<entry, op, answer, late>>
    BY <1>3 DEF CallFrame, store, Untouched, CallInv, Types
  <2>2. StatusOf(c)' = StatusOf(c) /\ SeenBy(c)' = SeenBy(c)
    BY <1>1, <2>1 DEF StatusOf, SeenBy, HasActed
  <2>3. /\ [d \in Callers |-> StatusOf(d)]' = [d \in Callers |-> StatusOf(d)]
        /\ [d \in Callers |-> SeenBy(d)]' = [d \in Callers |-> SeenBy(d)]
    BY <2>1, <2>2, OnlyOne
  <2>4. [d \in Callers |-> AnswerOf(d)]' = [d \in Callers |-> AnswerOf(d)]
    BY <2>1 DEF AnswerOf
  <2>5. QED
    BY <2>1, <2>3, <2>4, SameOwed DEF Promise!vars
<1>4. QED
  BY <1>2, <1>3 DEF WriteSecret

LEMMA SucceedMaps ==
  ASSUME CallInv, WorkInv, NEW c \in Callers, pc[c] # "idle", Succeeds(c)
  PROVE  Promise!Return(c)
<1>1. PICK bytes \in Bytes \cup {NoBytes} :
         /\ bytes.secret = reply[c].bytes.secret
         /\ Leave(c, Ok(bytes)) /\ UNCHANGED late
  BY DEF Succeeds, Finish
<1>2. HasActed(c) /\ pc[c] = "told"
  BY DEF Succeeds, HasActed
<1>3. StatusOf(c) = "done" /\ SeenBy(c) = reply[c].bytes.secret
  BY <1>2 DEF StatusOf, SeenBy
<1>4. op[c].op = "load" => SeenBy(c) # NoSecret
  <2>1. CASE op[c].op = "load"
    <3>1. /\ Success(c) /\ request[c].do # "search"
          /\ Fits(c, request[c]) /\ Answered(c)
          /\ request[c] \in Requests \cup {NoRequest}
      BY <1>2, <2>1, ToldKnows DEF WorkInv, Works, CallInv, Types
    <3>2. request[c].do = "read"
      BY <2>1, <3>1 DEF Fits, Requests, NoRequest, Read
    <3>3. reply[c].bytes \in Bytes
      BY <3>1, <3>2 DEF Answered, Success
    <3>4. QED
      BY <1>3, <3>3, KeychainConstants DEF Bytes
  <2>2. QED
    BY <2>1
<1>5. /\ Ok(bytes).result = "Ok" /\ Ok(bytes).bytes.secret = SeenBy(c)
      /\ Promise!Ok(SeenBy(c)) = [result |-> "Ok", secret |-> SeenBy(c)]
  BY <1>1, <1>3 DEF Ok, Promise!Ok
<1>6. QED
  BY <1>1, <1>3, <1>4, <1>5, LeaveMaps, SameOwed DEF Promise!Return

(* A call starts.                                                           *)
LEMMA CallMaps ==
  ASSUME CallInv, NEW c \in Callers, Call(c)
  PROVE  Promise!Invoke(c)
<1>1. /\ Untouched(c) /\ pc[c] = "idle" /\ pc'[c] = "start"
      /\ UNCHANGED <<entry, late>>
      /\ \E o \in Operations : op' = [op EXCEPT ![c] = o]
      /\ answer' = [answer EXCEPT ![c] = Err("none")]
  BY DEF Call, store, Untouched, CallInv, Types
<1>2. StatusOf(c) = "out" /\ StatusOf(c)' = "called" /\ SeenBy(c) = NoSecret /\ SeenBy(c)' = NoSecret
  BY <1>1 DEF StatusOf, SeenBy, HasActed
<1>3. [d \in Callers |-> AnswerOf(d)]' =
         [[d \in Callers |-> AnswerOf(d)] EXCEPT ![c] = Promise!NoAnswer]
  BY <1>1 DEF AnswerOf, Err, NoBytes, Promise!NoAnswer, Promise!Err, CallInv, Types
<1>4. [d \in Callers |-> SeenBy(d)]' = [d \in Callers |-> SeenBy(d)]
  BY <1>1, <1>2, OnlyOne
<1>5. QED
  BY <1>1, <1>2, <1>3, <1>4, OnlyOne, SameOwed DEF Promise!Invoke

(* What a request does to the secret.                                       *)
LEMMA EntryAfter ==
  ASSUME NEW r, Effect(r)
  PROVE  /\ r.do = "write" => entry' = r.bytes
         /\ r.do = "remove" /\ (Present => Matches(r)) => entry' = NoBytes
         /\ r.do = "remove" /\ ~(Present /\ Matches(r)) => entry' = entry
         /\ r.do \notin {"write", "remove"} => entry' = entry
<1>1. r.do = "write" => entry' = r.bytes
  BY Zenon DEF Effect
<1>2. r.do = "remove" /\ Matches(r) => entry' = NoBytes
  BY DEF Effect
<1>3. r.do = "remove" /\ ~Matches(r) => entry' = entry
  BY DEF Effect
<1>4. r.do \notin {"write", "remove"} => entry' = entry
  BY DEF Effect
<1>5. QED
  BY <1>1, <1>2, <1>3, <1>4 DEF Present

(* The platform acts on the request that counts, or on one that does not.   *)
LEMMA ActMaps ==
  ASSUME CallInv, WorkInv, NEW c \in Callers, PlatformActs(c)
  PROVE  Promise!Perform(c) \/ UNCHANGED Promise!vars
<1>1. /\ pc[c] = "asked" /\ pc'[c] = "told" /\ Untouched(c)
      /\ UNCHANGED <<late, op, request, answer>>
      /\ op'[c] = op[c] /\ request'[c] = request[c]
      /\ reply'[c] = ReplyTo(request[c]) /\ Effect(request[c])
  BY DEF PlatformActs, PlatformFrame, setup, Untouched, CallInv, Types
<1>2. /\ Fits(c, request[c]) /\ op[c] \in Operations
      /\ request[c] \in Requests \cup {NoRequest}
      /\ request[c].do \in {"read", "write", "remove", "search"}
  BY <1>1 DEF WorkInv, Works, CallInv, Types, Requests, NoRequest, Read
<1>3. request[c].do = "search" => request[c].key = ByName
  BY <1>2 DEF Fits, Search, Read
<1>4. ~HasActed(c) /\ StatusOf(c) = "called" /\ SeenBy(c) = NoSecret
  BY <1>1 DEF StatusOf, SeenBy, HasActed
<1>5. [d \in Callers |-> AnswerOf(d)]' = [d \in Callers |-> AnswerOf(d)]
  BY <1>1 DEF AnswerOf
<1>6. NoBytes.secret = NoSecret /\ (~Present => entry = NoBytes)
  BY DEF NoBytes, Present
<1>7. CASE HasActed(c)'
  <2>1. \/ reply'[c].exit = "success" /\ request[c].do # "search"
        \/ reply'[c].exit = "absent" /\ op[c].op = "delete"
    BY <1>1, <1>7 DEF HasActed
  <2>2. SeenBy(c)' = IF op[c].op = "load" THEN entry.secret ELSE NoSecret
    <3>1. SeenBy(c)' = reply'[c].bytes.secret
      BY <1>7 DEF SeenBy
    <3>2. CASE op[c].op = "load"
      <4>1. request[c].do = "read" /\ reply'[c].exit = "success"
        BY <1>2, <2>1, <3>2 DEF Fits
      <4>2. QED
        BY <1>1, <1>2, <1>3, <3>1, <3>2, <4>1, ReplySuits
    <3>3. CASE op[c].op # "load"
      <4>1. request[c].do # "read"
        BY <1>2, <3>3 DEF Fits
      <4>2. reply'[c].bytes = NoBytes
        BY <1>1, <1>2, <1>3, <4>1, ReplySuits
      <4>3. QED
        BY <1>6, <3>1, <3>3, <4>2
    <3>4. QED
      BY <3>2, <3>3
  <2>3. entry'.secret = Promise!After(op[c])
    <3>1. CASE op[c].op = "load"
      <4>1. request[c].do = "read"
        BY <1>2, <2>1, <3>1 DEF Fits
      <4>2. QED
        BY <1>1, <3>1, <4>1, EntryAfter DEF Promise!After
    <3>2. CASE op[c].op = "store"
      <4>1. request[c].do = "write" /\ request[c].bytes.secret = op[c].secret
        <5>1. request[c].do = "write"
          BY <1>2, <2>1, <3>2 DEF Fits
        <5>2. op[c] = [op |-> "store", secret |-> request[c].bytes.secret]
          BY <1>2, <5>1 DEF Fits
        <5>3. QED
          BY <5>1, <5>2
      <4>2. QED
        BY <1>1, <3>2, <4>1, EntryAfter DEF Promise!After
    <3>3. CASE op[c].op = "delete"
      <4>1. request[c].do \in {"remove", "search"}
        <5>1. request[c].do # "read"
          BY <1>2, <3>3 DEF Fits
        <5>2. request[c].do # "write"
          BY <1>2, <3>3 DEF Fits
        <5>3. QED
          BY <1>2, <5>1, <5>2
      <4>2. CASE request[c].do = "remove"
        <5>1. Present => Matches(request[c])
          BY <1>1, <1>2, <1>3, <2>1, <4>2, ReplySuits
        <5>2. entry' = NoBytes
          BY <1>1, <4>2, <5>1, EntryAfter
        <5>3. QED
          BY <1>6, <3>3, <5>2 DEF Promise!After
      <4>3. CASE request[c].do = "search"
        <5>1. ~Present
          BY <1>1, <1>2, <1>3, <2>1, <4>3, ReplySuits
        <5>2. entry' = NoBytes
          BY <1>1, <1>6, <4>3, <5>1, EntryAfter
        <5>3. QED
          BY <1>6, <3>3, <5>2 DEF Promise!After
      <4>4. QED
        BY <4>1, <4>2, <4>3
    <3>4. QED
      BY <1>2, <3>1, <3>2, <3>3 DEF Operations
  <2>4. StatusOf(c)' = "done"
    BY <1>1, <1>7 DEF StatusOf
  <2>5. QED
    BY <1>1, <1>4, <1>5, <2>2, <2>3, <2>4, OnlyOne, SameOwed DEF Promise!Perform
<1>8. CASE ~HasActed(c)'
  <2>1. StatusOf(c)' = "called" /\ SeenBy(c)' = NoSecret
    BY <1>1, <1>8 DEF StatusOf, SeenBy
  <2>2. entry' = entry
    <3>1. request[c].do # "write"
      BY <1>1, <1>2, <1>3, <1>8, ReplySuits DEF HasActed
    <3>2. request[c].do = "remove" => ~(Present /\ Matches(request[c]))
      <4>1. request[c].do = "remove" => reply'[c].exit \notin {"success", "absent"}
        BY <1>1, <1>2, <1>8 DEF HasActed, Fits
      <4>2. QED
        BY <1>1, <1>2, <1>3, <4>1, ReplySuits
    <3>3. QED
      BY <1>1, <1>2, <3>1, <3>2, EntryAfter
  <2>3. /\ [d \in Callers |-> StatusOf(d)]' = [d \in Callers |-> StatusOf(d)]
        /\ [d \in Callers |-> SeenBy(d)]' = [d \in Callers |-> SeenBy(d)]
    BY <1>1, <1>4, <2>1, OnlyOne
  <2>4. QED
    BY <1>1, <1>5, <2>2, <2>3, SameOwed DEF Promise!vars
<1>9. QED
  BY <1>7, <1>8

(* A platform that fails does nothing.                                      *)
LEMMA PlatformFailMaps ==
  ASSUME CallInv, NEW c \in Callers, PlatformFails(c)
  PROVE  UNCHANGED Promise!vars
<1>1. /\ pc[c] = "asked" /\ pc'[c] = "told" /\ Untouched(c)
      /\ UNCHANGED <<entry, late, op, answer>>
      /\ reply'[c] = NoReply
  BY DEF PlatformFails, PlatformFrame, setup, store, Untouched, CallInv, Types
<1>2. ~HasActed(c) /\ ~HasActed(c)'
  BY <1>1 DEF HasActed, NoReply
<1>3. StatusOf(c)' = StatusOf(c) /\ SeenBy(c)' = SeenBy(c)
  BY <1>1, <1>2 DEF StatusOf, SeenBy
<1>4. /\ [d \in Callers |-> StatusOf(d)]' = [d \in Callers |-> StatusOf(d)]
      /\ [d \in Callers |-> SeenBy(d)]' = [d \in Callers |-> SeenBy(d)]
  BY <1>1, <1>3, OnlyOne
<1>5. [d \in Callers |-> AnswerOf(d)]' = [d \in Callers |-> AnswerOf(d)]
  BY <1>1 DEF AnswerOf
<1>6. QED
  BY <1>1, <1>4, <1>5, SameOwed DEF Promise!vars

(* One helper more that owes o, or one less.                                *)
LEMMA OwedTypes ==
  ASSUME IsFiniteSet(late), NEW o
  PROVE  IsFiniteSet({l \in late : IsFor(l, o)}) /\ Owed(o) \in Nat
<1>1. IsFiniteSet({l \in late : IsFor(l, o)})
  BY FS_Subset
<1>2. QED
  BY <1>1, FS_CardinalityType DEF Owed

LEMMA OwedMore ==
  ASSUME IsFiniteSet(late), NEW m, m \notin late, late' = late \cup {m}, NEW o
  PROVE  Owed(o)' = IF IsFor(m, o) THEN Owed(o) + 1 ELSE Owed(o)
<1> DEFINE S == {l \in late : IsFor(l, o)}
<1>1. IsFiniteSet(S)
  BY OwedTypes
<1>2. Owed(o)' = Cardinality({l \in late' : IsFor(l, o)})
  BY DEF Owed, IsFor
<1>3. CASE IsFor(m, o)
  <2>1. {l \in late' : IsFor(l, o)} = S \cup {m} /\ m \notin S
    BY <1>3
  <2>2. QED
    BY <1>1, <1>2, <1>3, <2>1, FS_AddElement DEF Owed
<1>4. CASE ~IsFor(m, o)
  <2>1. {l \in late' : IsFor(l, o)} = S
    BY <1>4
  <2>2. QED
    BY <1>2, <1>4, <2>1 DEF Owed
<1>5. QED
  BY <1>3, <1>4

LEMMA OwedLess ==
  ASSUME IsFiniteSet(late), NEW m \in late, late' = late \ {m}, NEW o
  PROVE  /\ IsFor(m, o) => Owed(o) > 0 /\ Owed(o)' = Owed(o) - 1
         /\ ~IsFor(m, o) => Owed(o)' = Owed(o)
<1> DEFINE S == {l \in late : IsFor(l, o)}
<1>1. IsFiniteSet(S) /\ Owed(o) \in Nat
  BY OwedTypes
<1>2. Owed(o)' = Cardinality({l \in late' : IsFor(l, o)})
  BY DEF Owed, IsFor
<1>3. CASE IsFor(m, o)
  <2>1. {l \in late' : IsFor(l, o)} = S \ {m} /\ m \in S
    BY <1>3
  <2>2. Cardinality(S \ {m}) = Cardinality(S) - 1 /\ Cardinality(S \ {m}) \in Nat
    BY <1>1, <2>1, FS_RemoveElement, FS_CardinalityType, FS_Subset
  <2>3. QED
    BY <1>1, <1>2, <1>3, <2>1, <2>2 DEF Owed
<1>4. CASE ~IsFor(m, o)
  <2>1. {l \in late' : IsFor(l, o)} = S
    BY <1>4
  <2>2. QED
    BY <1>2, <1>4, <2>1 DEF Owed
<1>5. QED
  BY <1>3, <1>4

(* A helper given up before it acted leaves its work behind; one whose      *)
(* request acted, or only reads, leaves none.                               *)
LEMMA AbandonMaps ==
  ASSUME CallInv, WorkInv, NEW c \in Callers, NEW error \in Errors, Abandon(c, error)
  PROVE  Promise!Fail(c)
<1>0. PICK m : m = [caller |-> c, call |-> calls[c], request |-> request[c]]
  OBVIOUS
<1>1. Leave(c, Err(error)) /\ pc[c] \in {"asked", "told"}
  BY DEF Abandon, Waiting
<1>2. /\ Promise!Leave(c) /\ entry' = entry
      /\ [d \in Callers |-> AnswerOf(d)]' =
            [[d \in Callers |-> AnswerOf(d)] EXCEPT ![c] = Promise!Err(error)]
  <2>1. Err(error).result = error /\ Err(error).bytes.secret = NoSecret
    BY DEF Err, NoBytes
  <2>2. QED
    BY <1>1, <2>1, LeaveMaps DEF Promise!Err
<1>3. [d \in Callers |-> StatusOf(d)][c] # "out" /\ error \in Promise!Errors
  BY <1>1 DEF StatusOf, Errors, Promise!Errors
<1>4. \/ UNCHANGED [o \in Operations |-> Owed(o)]
      \/ /\ [d \in Callers |-> StatusOf(d)][c] = "called"
         /\ [o \in Operations |-> Owed(o)]' =
               [[o \in Operations |-> Owed(o)] EXCEPT ![op[c]] = @ + 1]
  <2>1. CASE pc[c] = "told"
    BY <2>1, SameOwed DEF Abandon
  <2>2. CASE pc[c] = "asked"
    <3>1. late' = late \cup {m} /\ IsFiniteSet(late)
      BY <1>0, <2>2 DEF Abandon, WorkInv
    <3>2. m \notin late
      BY <1>0, <2>2 DEF WorkInv, LeftBehind
    <3>3. /\ Fits(c, request[c]) /\ op[c] \in Operations
          /\ request[c].do \in {"read", "write", "remove", "search"}
      BY <2>2 DEF WorkInv, Works, CallInv, Types, Requests, NoRequest, Read
    <3>4. [d \in Callers |-> StatusOf(d)][c] = "called"
      BY <2>2 DEF StatusOf, HasActed
    <3>5. CASE request[c].do \in {"write", "remove"}
      <4>1. \A o \in Operations : IsFor(m, o) <=> o = op[c]
        BY <1>0, <3>3, <3>5 DEF IsFor, Fits, Operations
      <4>2. \A o \in Operations : Owed(o)' = IF o = op[c] THEN Owed(o) + 1 ELSE Owed(o)
        BY <3>1, <3>2, <4>1, OwedMore
      <4>3. QED
        BY <3>3, <3>4, <4>2
    <3>6. CASE request[c].do \notin {"write", "remove"}
      <4>1. \A o \in Operations : ~IsFor(m, o)
        BY <1>0, <3>6 DEF IsFor
      <4>2. \A o \in Operations : Owed(o)' = Owed(o)
        BY <3>1, <3>2, <4>1, OwedMore
      <4>3. QED
        BY <4>2
    <3>7. QED
      BY <3>5, <3>6
  <2>3. QED
    BY <1>1, <2>1, <2>2
<1>5. QED
  BY <1>2, <1>3, <1>4 DEF Promise!Fail

(* A helper left behind that acts pays what it owes.                        *)
LEMMA LateMaps ==
  ASSUME CallInv, WorkInv, LateHelperActs
  PROVE  Promise!StrayActs \/ UNCHANGED Promise!vars
<1>1. PICK m \in late : late' = late \ {m} /\ Effect(m.request)
  BY DEF LateHelperActs
<1>2. /\ UNCHANGED <<op, request, answer, pc, reply>> /\ IsFiniteSet(late)
      /\ m.request \in Requests /\ LeftBehind(m)
  BY DEF LateHelperActs, PlatformFrame, WorkInv, CallInv, Types
<1>3. /\ [d \in Callers |-> StatusOf(d)]' = [d \in Callers |-> StatusOf(d)]
      /\ [d \in Callers |-> SeenBy(d)]' = [d \in Callers |-> SeenBy(d)]
      /\ [d \in Callers |-> AnswerOf(d)]' = [d \in Callers |-> AnswerOf(d)]
  BY <1>2 DEF StatusOf, SeenBy, HasActed, AnswerOf
<1>4. ASSUME NEW o \in Operations, IsFor(m, o), entry'.secret \in {entry.secret, Promise!After(o)}
      PROVE  Promise!StrayActs
  <2>1. \A p \in Operations : IsFor(m, p) <=> p = o
    BY <1>4 DEF IsFor
  <2>2. \A p \in Operations : Owed(p)' = IF p = o THEN Owed(p) - 1 ELSE Owed(p)
    BY <1>1, <1>2, <2>1, OwedLess
  <2>3. Owed(o) > 0
    BY <1>1, <1>2, <1>4, OwedLess
  <2>4. [p \in Operations |-> Owed(p)]' = [[p \in Operations |-> Owed(p)] EXCEPT ![o] = @ - 1]
    BY <2>2
  <2>5. QED
    BY <1>2, <1>3, <1>4, <2>3, <2>4 DEF Promise!StrayActs
<1>5. CASE m.request.do = "write"
  <2>1. entry' = m.request.bytes /\ m.request.bytes \in Bytes
    BY <1>1, <1>2, <1>5, EntryAfter DEF LeftBehind
  <2>2. PICK o \in Operations : o = [op |-> "store", secret |-> m.request.bytes.secret]
    BY <2>1 DEF Operations, Bytes
  <2>3. IsFor(m, o) /\ Promise!After(o) = m.request.bytes.secret
    BY <1>5, <2>2 DEF IsFor, Promise!After
  <2>4. QED
    BY <1>4, <2>1, <2>3
<1>6. CASE m.request.do = "remove"
  <2>1. entry' = entry \/ entry' = NoBytes
    BY <1>1, <1>6, EntryAfter
  <2>2. PICK o \in Operations : o = [op |-> "delete", secret |-> NoSecret]
    BY DEF Operations
  <2>3. IsFor(m, o) /\ Promise!After(o) = NoSecret
    BY <1>6, <2>2 DEF IsFor, Promise!After
  <2>4. QED
    BY <1>4, <2>1, <2>3 DEF NoBytes
<1>7. CASE m.request.do \notin {"write", "remove"}
  <2>1. entry' = entry
    BY <1>1, <1>7, EntryAfter
  <2>2. \A o \in Operations : ~IsFor(m, o)
    BY <1>7 DEF IsFor
  <2>3. \A o \in Operations : Owed(o)' = Owed(o)
    BY <1>1, <1>2, <2>2, OwedLess
  <2>4. QED
    BY <1>2, <1>3, <2>1, <2>3 DEF Promise!vars
<1>8. QED
  BY <1>5, <1>6, <1>7

(* Opening the keychain is invisible.                                       *)
LEMMA OpenStutters ==
  ASSUME Open \/ WithJniEnv \/ RegisterCallbacks \/ UNCHANGED vars
  PROVE  UNCHANGED Promise!vars
<1>1. UNCHANGED <<pc, op, request, reply, answer, entry, late>>
  BY DEF Open, WithJniEnv, RegisterCallbacks, vars, store
<1>2. /\ [d \in Callers |-> StatusOf(d)]' = [d \in Callers |-> StatusOf(d)]
      /\ [d \in Callers |-> SeenBy(d)]' = [d \in Callers |-> SeenBy(d)]
      /\ [d \in Callers |-> AnswerOf(d)]' = [d \in Callers |-> AnswerOf(d)]
  BY <1>1 DEF StatusOf, SeenBy, HasActed, AnswerOf
<1>3. QED
  BY <1>1, <1>2, SameOwed DEF Promise!vars

(* An untouched keychain is an untouched store.                             *)
LEMMA KeychainInitMaps == Init => Promise!Init
<1> SUFFICES ASSUME Init PROVE Promise!Init
  OBVIOUS
<1>1. entry.secret \in Secrets \cup {NoSecret}
  BY DEF Init, NoBytes
<1>2. \A d \in Callers : /\ StatusOf(d) = "out" /\ SeenBy(d) = NoSecret
                         /\ AnswerOf(d) = Promise!NoAnswer
  BY DEF Init, StatusOf, SeenBy, HasActed, AnswerOf, Err, NoBytes, Promise!NoAnswer, Promise!Err
<1>3. \A o \in Operations : Owed(o) = 0
  <2>1. late = {}
    BY DEF Init
  <2>2. QED
    BY <2>1, FS_EmptySet DEF Owed
<1>4. op = [d \in Callers |-> NoOperation]
  BY DEF Init
<1>5. QED
  BY <1>1, <1>2, <1>3, <1>4 DEF Promise!Init

(* mod.rs:40-120: every backend is one atomic secret to its callers, up to  *)
(* the form of the bytes, when no keyctl search fails: helpers that outlive *)
(* their calls, the two steps of keyctl and the fallback of macOS included. *)
THEOREM KeychainImplementsStore == NoSearchFault => (Spec => ActsAsStore)
<1> SUFFICES ASSUME NoSearchFault PROVE Spec => ActsAsStore
  OBVIOUS
<1>1. CallInv /\ WorkInv /\ [Next]_vars => [Promise!Next]_(Promise!vars)
  <2> SUFFICES ASSUME CallInv, WorkInv, [Next]_vars PROVE [Promise!Next]_(Promise!vars)
    OBVIOUS
  <2>1. ASSUME NEW c \in Callers, Backend(c) PROVE [Promise!Next]_(Promise!vars)
    <3>1. pc[c] # "idle" /\ (Asks(c) \/ Fails(c) \/ Succeeds(c))
      BY <2>1, BackendServes DEF Serves
    <3>2. QED
      BY <3>1, AskStutters, FailMaps, SucceedMaps DEF Promise!Next
  <2>2. ASSUME NEW c \in Callers, Expire(c) \/ WaitError(c) PROVE [Promise!Next]_(Promise!vars)
    <3>1. PICK error \in Errors : Abandon(c, error)
      BY <2>2 DEF Expire, WaitError, Errors
    <3>2. QED
      BY <3>1, AbandonMaps DEF Promise!Next
  <2>3. ASSUME NEW c \in Callers, Call(c) \/ PlatformActs(c) \/ PlatformFails(c)
        PROVE  [Promise!Next]_(Promise!vars)
    BY <2>3, CallMaps, ActMaps, PlatformFailMaps DEF Promise!Next
  <2>4. CASE LateHelperActs
    BY <2>4, LateMaps DEF Promise!Next
  <2>5. CASE Open \/ WithJniEnv \/ RegisterCallbacks \/ UNCHANGED vars
    BY <2>5, OpenStutters
  <2>6. ASSUME NEW c \in Callers, WriteSecret(c) PROVE [Promise!Next]_(Promise!vars)
    BY <2>6, FeedMaps DEF Promise!Next
  <2>7. QED
    BY <2>1, <2>2, <2>3, <2>4, <2>5, <2>6 DEF Next
<1>2. WorkInv /\ CallInv /\ [Next]_vars => WorkInv'
  BY WorkKept
<1>3. QED
  BY <1>1, <1>2, KeychainInitType, CallKept, WorkInit, KeychainInitMaps, PTL
     DEF Spec, ActsAsStore, Promise!Spec
=============================================================================

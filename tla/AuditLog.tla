------------------------------ MODULE AuditLog ------------------------------
(***************************************************************************)
(* AuditLogger of src/src/audit.rs: threads of several processes append    *)
(* signed lines to one shared file.  Inside a process a Mutex<File>        *)
(* orders the writers; on Linux an advisory flock, which belongs to the    *)
(* process's one open file, orders the processes.                          *)
(*                                                                         *)
(* A line is written by write_all, which may need more than one write(2):  *)
(* the file is a sequence of fragments, and a line is sound when its two   *)
(* fragments follow each other and nothing is glued to them.  The HMAC of  *)
(* a line covers all of it, so verify_log accepts exactly the sound lines. *)
(***************************************************************************)
EXTENDS Naturals, Sequences, FiniteSets

CONSTANTS
    Threads,
    Processes,
    ProcessOf,   \* [Threads -> Processes]
    Nobody,      \* no holder of a lock
    UseFlock,    \* TRUE on Linux; elsewhere the code takes no file lock
    Faults,      \* the kinds of fault the environment may produce
    MaxFaults,   \* bound: faults in one behaviour
    MaxLines     \* bound: log() calls of one thread

FaultKinds == {"crash", "flock", "write"}

ASSUME AuditLogConstants ==
    /\ ProcessOf \in [Threads -> Processes]
    /\ Nobody \notin Threads \cup Processes
    /\ UseFlock \in BOOLEAN
    /\ Faults \subseteq FaultKinds
    /\ MaxFaults \in Nat
    /\ MaxLines \in Nat

VARIABLES
    file,     \* the log: a sequence of fragments
    mutex,    \* [Processes -> holder of the process's Mutex<File>]
    flock,    \* the process holding the file lock
    pc,       \* [Threads -> where the thread stands in log()]
    calls,    \* [Threads -> number of log() calls it has made]
    acked,    \* the lines for which log() returned Ok
    faults

vars == <<file, mutex, flock, pc, calls, acked, faults>>

Lines == Threads \X (1..MaxLines)
Fragments == [line : Lines, part : {"head", "tail"}]

WritePCs == {"write", "rest", "unlock"}
MutexPCs == WritePCs \cup {"flock", "return"}
PCs == MutexPCs \cup {"idle", "mutex"}

TypeOK ==
    /\ file \in Seq(Fragments)
    /\ mutex \in [Processes -> Threads \cup {Nobody}]
    /\ flock \in Processes \cup {Nobody}
    /\ pc \in [Threads -> PCs]
    /\ calls \in [Threads -> 0..MaxLines]
    /\ acked \subseteq Lines
    /\ faults \in 0..MaxFaults

Init ==
    /\ file = <<>>
    /\ mutex = [p \in Processes |-> Nobody]
    /\ flock = Nobody
    /\ pc = [t \in Threads |-> "idle"]
    /\ calls = [t \in Threads |-> 0]
    /\ acked = {}
    /\ faults = 0

(* Mutation of LineOf: the line is numbered before the call is counted.     *)
LineBefore(t) == <<t, calls[t] - 1>>

LineOf(t) == <<t, calls[t]>>
Head1(t) == [line |-> LineOf(t), part |-> "head"]
Tail1(t) == [line |-> LineOf(t), part |-> "tail"]

Move(t, from, to) ==
    /\ pc[t] = from
    /\ pc' = [pc EXCEPT ![t] = to]

(* The MutexGuard is dropped when log() returns, whatever it returns.       *)
ReleaseMutex(t) == mutex' = [mutex EXCEPT ![ProcessOf[t]] = Nobody]

Fault(kind) ==
    /\ kind \in Faults
    /\ faults < MaxFaults
    /\ faults' = faults + 1

-----------------------------------------------------------------------------
(* log(event, data)                                                         *)

(* Steps 1 to 4: the line is built and signed before any lock is taken.     *)
Call(t) ==
    /\ calls[t] < MaxLines
    /\ Move(t, "idle", "mutex")
    /\ calls' = [calls EXCEPT ![t] = @ + 1]
    /\ UNCHANGED <<file, mutex, flock, acked, faults>>

(* Mutation of LockMutex: the mutex is not waited for.                      *)
TakeMutex(t) ==
    /\ Move(t, "mutex", "flock")
    /\ mutex' = [mutex EXCEPT ![ProcessOf[t]] = t]
    /\ UNCHANGED <<file, flock, calls, acked, faults>>

LockMutex(t) ==
    /\ mutex[ProcessOf[t]] = Nobody
    /\ Move(t, "mutex", "flock")
    /\ mutex' = [mutex EXCEPT ![ProcessOf[t]] = t]
    /\ UNCHANGED <<file, flock, calls, acked, faults>>

(* Mutation of Flock: a shared lock instead of an exclusive one.            *)
FlockShared(t) ==
    /\ Move(t, "flock", "write")
    /\ flock' = IF UseFlock THEN ProcessOf[t] ELSE flock
    /\ UNCHANGED <<file, mutex, calls, acked, faults>>

(* LOCK_EX blocks while another process holds the lock; taking a lock the   *)
(* process already holds succeeds.                                          *)
Flock(t) ==
    /\ Move(t, "flock", "write")
    /\ \/ UseFlock /\ flock \in {Nobody, ProcessOf[t]} /\ flock' = ProcessOf[t]
       \/ ~UseFlock /\ UNCHANGED flock
    /\ UNCHANGED <<file, mutex, calls, acked, faults>>

(* Mutation of FlockError: the mutex stays locked.                          *)
FlockErrorHolding(t) ==
    /\ Fault("flock")
    /\ UseFlock
    /\ Move(t, "flock", "idle")
    /\ UNCHANGED <<file, mutex, flock, calls, acked>>

FlockError(t) ==
    /\ Fault("flock")
    /\ UseFlock
    /\ Move(t, "flock", "idle")
    /\ ReleaseMutex(t)
    /\ UNCHANGED <<file, flock, calls, acked>>

WriteWhole(t) ==
    /\ Move(t, "write", "unlock")
    /\ file' = file \o <<Head1(t), Tail1(t)>>
    /\ UNCHANGED <<mutex, flock, calls, acked, faults>>

WriteHead(t) ==
    /\ Move(t, "write", "rest")
    /\ file' = Append(file, Head1(t))
    /\ UNCHANGED <<mutex, flock, calls, acked, faults>>

WriteRest(t) ==
    /\ Move(t, "rest", "unlock")
    /\ file' = Append(file, Tail1(t))
    /\ UNCHANGED <<mutex, flock, calls, acked, faults>>

(* Mutation of WriteError: the error is swallowed and log() returns Ok.     *)
WriteErrorSwallowed(t) ==
    /\ Fault("write")
    /\ Move(t, "write", "idle") \/ Move(t, "rest", "idle")
    /\ ReleaseMutex(t)
    /\ acked' = acked \cup {LineOf(t)}
    /\ UNCHANGED <<file, flock, calls>>

(* write_all fails: log() returns Err before the line that unlocks, so the  *)
(* process keeps the file lock.                                             *)
WriteError(t) ==
    /\ Fault("write")
    /\ Move(t, "write", "idle") \/ Move(t, "rest", "idle")
    /\ ReleaseMutex(t)
    /\ UNCHANGED <<file, flock, calls, acked>>

Unlock(t) ==
    /\ Move(t, "unlock", "return")
    /\ flock' = IF UseFlock THEN Nobody ELSE flock
    /\ UNCHANGED <<file, mutex, calls, acked, faults>>

ReturnOk(t) ==
    /\ Move(t, "return", "idle")
    /\ ReleaseMutex(t)
    /\ acked' = acked \cup {LineOf(t)}
    /\ UNCHANGED <<file, flock, calls, faults>>

(* A process dies and is started again: the kernel drops its file lock.     *)
Crash(p) ==
    /\ Fault("crash")
    /\ \E t \in Threads : ProcessOf[t] = p /\ pc[t] # "idle"
    /\ pc' = [t \in Threads |-> IF ProcessOf[t] = p THEN "idle" ELSE pc[t]]
    /\ mutex' = [mutex EXCEPT ![p] = Nobody]
    /\ flock' = IF flock = p THEN Nobody ELSE flock
    /\ UNCHANGED <<file, calls, acked>>

-----------------------------------------------------------------------------
Step(t) ==
    \/ LockMutex(t) \/ Flock(t)
    \/ WriteWhole(t) \/ WriteHead(t) \/ WriteRest(t)
    \/ Unlock(t) \/ ReturnOk(t)

Next ==
    \/ \E t \in Threads : Call(t) \/ Step(t) \/ FlockError(t) \/ WriteError(t)
    \/ \E p \in Processes : Crash(p)

Spec == Init /\ [][Next]_vars

(* The scheduler keeps running a thread that is inside log(); no thread has *)
(* to call log() again, and no fault has to happen.                         *)
FairSpec == Spec /\ \A t \in Threads : WF_vars(Step(t))

-----------------------------------------------------------------------------
(* verify_log(path)                                                         *)

(* The fragment at i ends a line; the line is sound when it is made of the  *)
(* two fragments of one call and starts where the line before it ended.     *)
EndsLine(i) == file[i].part = "tail"
Sound(i) ==
    /\ i > 1
    /\ file[i - 1] = [file[i] EXCEPT !.part = "head"]
    /\ i = 2 \/ EndsLine(i - 2)

VerifyLog ==
    /\ \A i \in DOMAIN file : EndsLine(i) => Sound(i)
    /\ file # <<>> => EndsLine(Len(file))

ReadableAt(i, line) == EndsLine(i) /\ file[i].line = line /\ Sound(i)
Readable(line) == \E i \in DOMAIN file : ReadableAt(i, line)

-----------------------------------------------------------------------------
(* Properties                                                               *)

(* Where the code takes no file lock, one process writes the log.           *)
Serialised == UseFlock \/ \A s, t \in Threads : ProcessOf[s] = ProcessOf[t]

(* audit.rs:4: the locks serialise the writers.  No two threads of any      *)
(* process are between taking the file lock and releasing it.               *)
OneWriter ==
    Serialised =>
        \A s, t \in Threads :
            pc[s] \in WritePCs /\ pc[t] \in WritePCs => s = t

(* audit.rs:390: verify_log takes no lock and may run beside the writers.   *)
(* The log only grows, so what it reads is the file at the moment it        *)
(* reaches the end.  Without a fault every finished line is sound then, and *)
(* if it still refuses the log, that is for the one line somebody is        *)
(* writing at that moment.                                                  *)
ReadersBlameOnlyTheOpenLine ==
    Serialised /\ faults = 0 =>
        /\ \A i \in DOMAIN file : EndsLine(i) => Sound(i)
        /\ VerifyLog \/ \E t \in Threads : pc[t] = "rest" /\ file[Len(file)] = Head1(t)

(* A torn line spoils the one line written after it and no more: each fault *)
(* costs at most one line that log() reported as written.                   *)
DamageIsContained ==
    Serialised => Cardinality({l \in acked : ~Readable(l)}) <= faults

(* audit.rs:4: the flock is taken for each write.  A process holds it only  *)
(* while one of its threads is inside log().                                *)
FlockOnlyWhileLogging ==
    \A p \in Processes :
        flock = p => \E t \in Threads : ProcessOf[t] = p /\ pc[t] \in WritePCs

(* Every call of log() returns, through crashes and refused locks, unless a *)
(* failed write left the file lock with a process that is not logging.      *)
CallsReturn ==
    \A t \in Threads :
        pc[t] # "idle" ~> pc[t] = "idle" \/ ~FlockOnlyWhileLogging
=============================================================================

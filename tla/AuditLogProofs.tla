--------------------------- MODULE AuditLogProofs ---------------------------
(***************************************************************************)
(* Proofs about AuditLog for any number of threads and processes.          *)
(***************************************************************************)
EXTENDS AuditLogRefinement, FiniteSetTheorems, TLAPS

(* A thread inside log() is working on one of its lines.                    *)
CallInv == \A t \in Threads : pc[t] # "idle" => calls[t] \in 1..MaxLines

(* Who is past a lock holds it: the mutex of its process and, where the     *)
(* code takes it, the file lock for its process.                            *)
LockInv ==
    \A t \in Threads :
        /\ pc[t] \in MutexPCs => mutex[ProcessOf[t]] = t
        /\ UseFlock /\ pc[t] \in WritePCs => flock = ProcessOf[t]

(* The two fragments of a thread's current line are fragments of the log.   *)
LEMMA FragmentType ==
    ASSUME TypeOK, CallInv, NEW t \in Threads, pc[t] # "idle"
    PROVE  LineOf(t) \in Lines /\ Head1(t) \in Fragments /\ Tail1(t) \in Fragments
<1>1. LineOf(t) \in Lines
  BY DEF CallInv, LineOf, Lines
<1>2. QED
  BY <1>1 DEF Head1, Tail1, Fragments

(* Every variable keeps its type and every running call has a line, for any *)
(* threads, processes and bounds.                                           *)
THEOREM AuditLogType == Spec => [](TypeOK /\ CallInv)
<1>1. Init => TypeOK /\ CallInv
  BY AuditLogConstants DEF Init, TypeOK, CallInv, PCs
<1>2. TypeOK /\ CallInv /\ [Next]_vars => (TypeOK /\ CallInv)'
  <2> SUFFICES ASSUME TypeOK, CallInv, [Next]_vars
               PROVE  TypeOK' /\ CallInv'
    OBVIOUS
  <2> USE AuditLogConstants DEF TypeOK, CallInv, PCs, MutexPCs, WritePCs
  <2>1. ASSUME NEW t \in Threads, Call(t) PROVE TypeOK' /\ CallInv'
    BY <2>1 DEF Call, Move
  <2>2. ASSUME NEW t \in Threads, LockMutex(t) PROVE TypeOK' /\ CallInv'
    BY <2>2 DEF LockMutex, Move
  <2>3. ASSUME NEW t \in Threads, Flock(t) PROVE TypeOK' /\ CallInv'
    BY <2>3 DEF Flock, Move
  <2>4. ASSUME NEW t \in Threads, FlockError(t) PROVE TypeOK' /\ CallInv'
    BY <2>4 DEF FlockError, Move, ReleaseMutex, Fault
  <2>5. ASSUME NEW t \in Threads, WriteWhole(t) PROVE TypeOK' /\ CallInv'
    <3>1. pc[t] # "idle"
      BY <2>5 DEF WriteWhole, Move
    <3>2. <<Head1(t), Tail1(t)>> \in Seq(Fragments)
      BY <3>1, FragmentType
    <3>3. file' \in Seq(Fragments)
      BY <3>2, <2>5 DEF WriteWhole
    <3>4. QED
      BY <2>5, <3>3 DEF WriteWhole, Move
  <2>6. ASSUME NEW t \in Threads, WriteHead(t) PROVE TypeOK' /\ CallInv'
    <3>1. pc[t] # "idle"
      BY <2>6 DEF WriteHead, Move
    <3>2. file' \in Seq(Fragments)
      BY <3>1, FragmentType, <2>6 DEF WriteHead
    <3>3. QED
      BY <2>6, <3>2 DEF WriteHead, Move
  <2>7. ASSUME NEW t \in Threads, WriteRest(t) PROVE TypeOK' /\ CallInv'
    <3>1. pc[t] # "idle"
      BY <2>7 DEF WriteRest, Move
    <3>2. file' \in Seq(Fragments)
      BY <3>1, FragmentType, <2>7 DEF WriteRest
    <3>3. QED
      BY <2>7, <3>2 DEF WriteRest, Move
  <2>8. ASSUME NEW t \in Threads, WriteError(t) PROVE TypeOK' /\ CallInv'
    <3>1. pc' = [pc EXCEPT ![t] = "idle"]
      BY <2>8 DEF WriteError, Move
    <3>2. /\ mutex' = [mutex EXCEPT ![ProcessOf[t]] = Nobody]
          /\ faults' \in 0..MaxFaults
          /\ UNCHANGED <<file, flock, calls, acked>>
      BY <2>8 DEF WriteError, ReleaseMutex, Fault
    <3>3. QED
      BY <3>1, <3>2
  <2>9. ASSUME NEW t \in Threads, Unlock(t) PROVE TypeOK' /\ CallInv'
    BY <2>9 DEF Unlock, Move
  <2>10. ASSUME NEW t \in Threads, ReturnOk(t) PROVE TypeOK' /\ CallInv'
    <3>1. LineOf(t) \in Lines
      BY <2>10, FragmentType DEF ReturnOk, Move
    <3>2. QED
      BY <2>10, <3>1 DEF ReturnOk, Move, ReleaseMutex
  <2>11. ASSUME NEW p \in Processes, Crash(p) PROVE TypeOK' /\ CallInv'
    BY <2>11 DEF Crash, Fault
  <2>12. CASE UNCHANGED vars
    BY <2>12 DEF vars
  <2>13. QED
    BY <2>1, <2>2, <2>3, <2>4, <2>5, <2>6, <2>7, <2>8, <2>9, <2>10, <2>11, <2>12
       DEF Next, Step
<1>3. QED
  BY <1>1, <1>2, PTL DEF Spec

(* Holding the locks leaves room for one writer.                            *)
LEMMA LocksExclude == TypeOK /\ LockInv => OneWriter
<1> SUFFICES ASSUME TypeOK, LockInv, Serialised,
                    NEW s \in Threads, NEW t \in Threads,
                    pc[s] \in WritePCs, pc[t] \in WritePCs
             PROVE  s = t
  BY DEF OneWriter
<1>1. mutex[ProcessOf[s]] = s /\ mutex[ProcessOf[t]] = t
  BY DEF LockInv, MutexPCs
<1>2. ProcessOf[s] = ProcessOf[t]
  BY DEF LockInv, Serialised
<1>3. QED
  BY <1>1, <1>2

(* Two threads of a process are never both past its mutex.                  *)
LEMMA MutexExcludes ==
    ASSUME TypeOK, LockInv, NEW s \in Threads, NEW t \in Threads,
           pc[s] \in MutexPCs, pc[t] \in MutexPCs, ProcessOf[s] = ProcessOf[t]
    PROVE  s = t
BY DEF LockInv

(* audit.rs:4: the locks serialise the writers of all processes, whatever   *)
(* fails or crashes in between.                                             *)
THEOREM WritersExclude == Spec => []OneWriter
<1>1. Init => LockInv
  BY DEF Init, LockInv, MutexPCs, WritePCs
<1>2. TypeOK /\ LockInv /\ [Next]_vars => LockInv'
  <2> SUFFICES ASSUME TypeOK, LockInv, [Next]_vars PROVE LockInv'
    OBVIOUS
  <2> USE AuditLogConstants DEF TypeOK, LockInv, MutexPCs, WritePCs
  <2>1. ASSUME NEW t \in Threads, Call(t) PROVE LockInv'
    BY <2>1 DEF Call, Move
  <2>2. ASSUME NEW t \in Threads, LockMutex(t) PROVE LockInv'
    BY <2>2 DEF LockMutex, Move
  <2>3. ASSUME NEW t \in Threads, Flock(t) PROVE LockInv'
    BY <2>3 DEF Flock, Move
  <2>4. ASSUME NEW t \in Threads, FlockError(t) PROVE LockInv'
    BY <2>4, MutexExcludes DEF FlockError, Move, ReleaseMutex
  <2>5. ASSUME NEW t \in Threads, WriteWhole(t) \/ WriteHead(t) \/ WriteRest(t)
        PROVE LockInv'
    BY <2>5 DEF WriteWhole, WriteHead, WriteRest, Move
  <2>6. ASSUME NEW t \in Threads, WriteError(t) PROVE LockInv'
    BY <2>6, MutexExcludes DEF WriteError, Move, ReleaseMutex
  <2>7. ASSUME NEW t \in Threads, Unlock(t) PROVE LockInv'
    BY <2>7, MutexExcludes DEF Unlock, Move
  <2>8. ASSUME NEW t \in Threads, ReturnOk(t) PROVE LockInv'
    BY <2>8, MutexExcludes DEF ReturnOk, Move, ReleaseMutex
  <2>9. ASSUME NEW p \in Processes, Crash(p) PROVE LockInv'
    BY <2>9 DEF Crash
  <2>10. CASE UNCHANGED vars
    BY <2>10 DEF vars
  <2>11. QED
    BY <2>1, <2>2, <2>3, <2>4, <2>5, <2>6, <2>7, <2>8, <2>9, <2>10 DEF Next, Step
<1>3. QED
  BY <1>1, <1>2, AuditLogType, LocksExclude, PTL DEF Spec

-----------------------------------------------------------------------------
(* While nothing fails, the log consists of whole lines, followed by the    *)
(* first part of the line of the one thread that is between its two writes. *)
OpenFor(t) ==
    /\ file # <<>>
    /\ file[Len(file)] = Head1(t)
    /\ Len(file) = 1 \/ EndsLine(Len(file) - 1)

WholeLines == \A i \in DOMAIN file : EndsLine(i) => Sound(i)

LineInv ==
    Serialised /\ faults = 0 =>
        /\ WholeLines
        /\ \A t \in Threads : pc[t] = "rest" => OpenFor(t)
        /\ \/ file = <<>> \/ EndsLine(Len(file))
           \/ \E t \in Threads : pc[t] = "rest"

(* A line that is sound stays sound when something is appended.             *)
LEMMA AppendKeeps ==
    ASSUME TypeOK, NEW frag \in Fragments, file' = Append(file, frag),
           NEW n \in Nat, n = Len(file)
    PROVE  /\ Len(file') = n + 1 /\ file'[n + 1] = frag
           /\ DOMAIN file' = 1..(n + 1)
           /\ \A i \in 1..n : file'[i] = file[i]
           /\ WholeLines => \A i \in 1..n : EndsLine(i)' => Sound(i)'
<1>1. file \in Seq(Fragments) /\ DOMAIN file = 1..n
  BY DEF TypeOK
<1>2. \A i \in 1..n : file'[i] = file[i]
  BY <1>1
<1>3. ASSUME WholeLines, NEW i \in 1..n, EndsLine(i)' PROVE Sound(i)'
  <2>1. Sound(i)
    BY <1>1, <1>2, <1>3 DEF WholeLines, EndsLine
  <2>2. i - 1 \in 1..n /\ (i # 2 => i - 2 \in 1..n)
    BY <1>1, <2>1 DEF Sound
  <2>3. QED
    BY <1>2, <2>1, <2>2 DEF Sound, EndsLine
<1>4. QED
  BY <1>1, <1>2, <1>3

(* What one write adds to whole lines.                                      *)
LEMMA HeadAppended ==
    ASSUME TypeOK, WholeLines, NEW t \in Threads, Head1(t) \in Fragments,
           file = <<>> \/ EndsLine(Len(file)), file' = Append(file, Head1(t)),
           calls' = calls
    PROVE  WholeLines' /\ OpenFor(t)'
<1>1. PICK n \in Nat : n = Len(file)
  BY DEF TypeOK
<1>2. /\ Len(file') = n + 1 /\ file'[n + 1] = Head1(t)
      /\ DOMAIN file' = 1..(n + 1)
      /\ \A i \in 1..n : file'[i] = file[i]
      /\ \A i \in 1..n : EndsLine(i)' => Sound(i)'
  BY <1>1, AppendKeeps
<1>3. Head1(t).part = "head" /\ Head1(t)' = Head1(t)
  BY DEF Head1, LineOf
<1>4. ~EndsLine(n + 1)'
  BY <1>2, <1>3 DEF EndsLine
<1>5. WholeLines'
  BY <1>2, <1>4 DEF WholeLines
<1>6. n = 0 \/ (n \in 1..n /\ file[n].part = "tail")
  BY <1>1 DEF TypeOK, EndsLine
<1>7. OpenFor(t)'
  <2>1. file' # <<>> /\ file'[Len(file')] = Head1(t)'
    BY <1>2, <1>3
  <2>2. Len(file') = 1 \/ file'[Len(file') - 1].part = "tail"
    BY <1>2, <1>6
  <2>3. QED
    BY <2>1, <2>2 DEF OpenFor, EndsLine
<1>8. QED
  BY <1>5, <1>7

(* The second write of a line finishes it.                                  *)
LEMMA TailAppended ==
    ASSUME TypeOK, WholeLines, NEW t \in Threads, Tail1(t) \in Fragments,
           OpenFor(t), file' = Append(file, Tail1(t))
    PROVE  WholeLines' /\ EndsLine(Len(file))'
<1>1. PICK n \in Nat : n = Len(file)
  BY DEF TypeOK
<1>2. /\ Len(file') = n + 1 /\ file'[n + 1] = Tail1(t)
      /\ DOMAIN file' = 1..(n + 1)
      /\ \A i \in 1..n : file'[i] = file[i]
      /\ \A i \in 1..n : EndsLine(i)' => Sound(i)'
  BY <1>1, AppendKeeps
<1>3. Head1(t) = [Tail1(t) EXCEPT !.part = "head"] /\ Tail1(t).part = "tail"
  BY DEF Head1, Tail1
<1>4. /\ n \in 1..n /\ file[n] = Head1(t)
      /\ n = 1 \/ (n - 1 \in 1..n /\ file[n - 1].part = "tail")
  BY <1>1 DEF OpenFor, TypeOK, EndsLine
<1>5. Sound(n + 1)'
  <2>1. file'[(n + 1) - 1] = [file'[n + 1] EXCEPT !.part = "head"]
    BY <1>2, <1>3, <1>4
  <2>2. n + 1 = 2 \/ file'[(n + 1) - 2].part = "tail"
    BY <1>2, <1>4
  <2>3. n + 1 > 1
    BY <1>4
  <2>4. QED
    BY <2>1, <2>2, <2>3 DEF Sound, EndsLine
<1>6. WholeLines'
  BY <1>2, <1>5 DEF WholeLines
<1>7. EndsLine(Len(file))'
  BY <1>2, <1>3 DEF EndsLine
<1>8. QED
  BY <1>6, <1>7

(* A line written at once is whole.                                         *)
LEMMA WholeAppended ==
    ASSUME TypeOK, WholeLines, NEW t \in Threads,
           Head1(t) \in Fragments, Tail1(t) \in Fragments,
           file = <<>> \/ EndsLine(Len(file)),
           file' = file \o <<Head1(t), Tail1(t)>>
    PROVE  WholeLines' /\ EndsLine(Len(file))'
<1>1. PICK n \in Nat : n = Len(file)
  BY DEF TypeOK
<1>2. /\ file \in Seq(Fragments) /\ DOMAIN file = 1..n
      /\ Len(file') = n + 2 /\ DOMAIN file' = 1..(n + 2)
      /\ file'[n + 1] = Head1(t) /\ file'[n + 2] = Tail1(t)
      /\ \A i \in 1..n : file'[i] = file[i]
  BY <1>1 DEF TypeOK
<1>3. /\ Head1(t) = [Tail1(t) EXCEPT !.part = "head"]
      /\ Head1(t).part = "head" /\ Tail1(t).part = "tail"
  BY DEF Head1, Tail1
<1>4. n = 0 \/ (n \in 1..n /\ file[n].part = "tail")
  BY <1>1, <1>2 DEF EndsLine
<1>5. ASSUME NEW i \in 1..n, EndsLine(i)' PROVE Sound(i)'
  <2>1. Sound(i)
    BY <1>2, <1>5 DEF WholeLines, EndsLine
  <2>2. i - 1 \in 1..n /\ (i # 2 => i - 2 \in 1..n)
    BY <2>1 DEF Sound
  <2>3. QED
    BY <1>2, <2>1, <2>2 DEF Sound, EndsLine
<1>6. ~EndsLine(n + 1)'
  BY <1>2, <1>3 DEF EndsLine
<1>7. Sound(n + 2)'
  <2>1. (n + 2) - 1 = n + 1 /\ (n + 2) - 2 = n /\ n + 2 > 1
    OBVIOUS
  <2>2. file'[n + 1] = [file'[n + 2] EXCEPT !.part = "head"]
    BY <1>2, <1>3
  <2>3. n + 2 = 2 \/ file'[n].part = "tail"
    BY <1>2, <1>4
  <2>4. QED
    BY <2>1, <2>2, <2>3 DEF Sound, EndsLine
<1>8. WholeLines'
  <2>1. ASSUME NEW i \in 1..(n + 2), EndsLine(i)' PROVE Sound(i)'
    <3>1. i \in 1..n \/ i = n + 1 \/ i = n + 2
      OBVIOUS
    <3>2. QED
      BY <1>5, <1>6, <1>7, <2>1, <3>1
  <2>2. QED
    BY <1>2, <2>1 DEF WholeLines
<1>9. EndsLine(Len(file))'
  BY <1>2, <1>3 DEF EndsLine
<1>10. QED
  BY <1>8, <1>9

(* audit.rs:390: a reader that runs beside the writers of all processes     *)
(* finds every finished line sound, and can blame only the line somebody is *)
(* writing, as long as nothing fails.                                       *)
THEOREM LogStaysReadable == Spec => []ReadersBlameOnlyTheOpenLine
<1>1. Init => LineInv
  BY DEF Init, LineInv, WholeLines
<1>2. TypeOK /\ CallInv /\ OneWriter /\ LineInv /\ [Next]_vars => LineInv'
  <2> SUFFICES ASSUME TypeOK, CallInv, OneWriter, LineInv, [Next]_vars,
                      Serialised, faults' = 0
               PROVE  /\ WholeLines'
                      /\ \A s \in Threads : pc'[s] = "rest" => OpenFor(s)'
                      /\ \/ file' = <<>> \/ EndsLine(Len(file))'
                         \/ \E s \in Threads : pc'[s] = "rest"
    BY DEF LineInv, Serialised
  <2> DEFINE Shape == /\ WholeLines
                      /\ \A s \in Threads : pc[s] = "rest" => OpenFor(s)
                      /\ \/ file = <<>> \/ EndsLine(Len(file))
                         \/ \E s \in Threads : pc[s] = "rest"
  <2>1. ASSUME faults = 0 PROVE Shape
    BY <2>1 DEF LineInv
  <2>2. ASSUME NEW t \in Threads,
               Call(t) \/ LockMutex(t) \/ Flock(t) \/ Unlock(t) \/ ReturnOk(t)
        PROVE  Shape'
    <3>1. /\ faults = 0 /\ file' = file
          /\ pc[t] # "rest" /\ pc'[t] # "rest"
          /\ \A s \in Threads \ {t} : pc'[s] = pc[s] /\ calls'[s] = calls[s]
      BY <2>2 DEF Call, LockMutex, Flock, Unlock, ReturnOk, Move, TypeOK
    <3>2. Shape
      BY <2>1, <3>1
    <3>3. ASSUME NEW s \in Threads, pc'[s] = "rest" PROVE OpenFor(s)'
      BY <3>1, <3>2, <3>3 DEF OpenFor, EndsLine, Head1, LineOf
    <3>4. WholeLines' /\ (EndsLine(Len(file)) => EndsLine(Len(file))')
      BY <3>1, <3>2 DEF WholeLines, Sound, EndsLine
    <3>5. QED
      BY <3>1, <3>2, <3>3, <3>4
  <2>3. ASSUME NEW t \in Threads, pc[t] \in WritePCs, faults = 0
        PROVE  /\ WholeLines /\ \A s \in Threads \ {t} : pc[s] # "rest"
               /\ pc[t] = "rest" => OpenFor(t)
               /\ pc[t] # "rest" => file = <<>> \/ EndsLine(Len(file))
               /\ Head1(t) \in Fragments /\ Tail1(t) \in Fragments
    <3>1. \A s \in Threads \ {t} : pc[s] # "rest"
      BY <2>3 DEF OneWriter, WritePCs
    <3>2. QED
      BY <2>1, <2>3, <3>1, FragmentType DEF WritePCs
  <2>4. ASSUME NEW t \in Threads, WriteWhole(t) PROVE Shape'
    <3>1. /\ faults = 0 /\ pc[t] = "write" /\ pc' = [pc EXCEPT ![t] = "unlock"]
          /\ file' = file \o <<Head1(t), Tail1(t)>>
      BY <2>4 DEF WriteWhole, Move
    <3>2. WholeLines' /\ EndsLine(Len(file))'
      BY <2>3, <3>1, WholeAppended DEF WritePCs
    <3>3. \A s \in Threads : pc'[s] # "rest"
      BY <2>3, <3>1 DEF TypeOK, WritePCs
    <3>4. QED
      BY <3>2, <3>3
  <2>5. ASSUME NEW t \in Threads, WriteHead(t) PROVE Shape'
    <3>1. /\ faults = 0 /\ pc[t] = "write" /\ pc' = [pc EXCEPT ![t] = "rest"]
          /\ file' = Append(file, Head1(t)) /\ calls' = calls
      BY <2>5 DEF WriteHead, Move
    <3>2. WholeLines' /\ OpenFor(t)'
      BY <2>3, <3>1, HeadAppended DEF WritePCs
    <3>3. pc'[t] = "rest" /\ \A s \in Threads \ {t} : pc'[s] # "rest"
      BY <2>3, <3>1 DEF TypeOK, WritePCs
    <3>4. QED
      BY <3>2, <3>3
  <2>6. ASSUME NEW t \in Threads, WriteRest(t) PROVE Shape'
    <3>1. /\ faults = 0 /\ pc[t] = "rest" /\ pc' = [pc EXCEPT ![t] = "unlock"]
          /\ file' = Append(file, Tail1(t))
      BY <2>6 DEF WriteRest, Move
    <3>2. WholeLines' /\ EndsLine(Len(file))'
      BY <2>3, <3>1, TailAppended DEF WritePCs
    <3>3. \A s \in Threads : pc'[s] # "rest"
      BY <2>3, <3>1 DEF TypeOK, WritePCs
    <3>4. QED
      BY <3>2, <3>3
  <2>7. ASSUME NEW t \in Threads, FlockError(t) \/ WriteError(t) PROVE FALSE
    BY <2>7 DEF FlockError, WriteError, Fault, TypeOK
  <2>8. ASSUME NEW p \in Processes, Crash(p) PROVE FALSE
    BY <2>8 DEF Crash, Fault, TypeOK
  <2>9. CASE UNCHANGED vars
    <3>1. faults = 0 /\ file' = file /\ pc' = pc /\ calls' = calls
      BY <2>9 DEF vars
    <3>2. Shape
      BY <2>1, <3>1
    <3>3. QED
      BY <3>1, <3>2 DEF WholeLines, Sound, OpenFor, EndsLine, Head1, LineOf
  <2>10. QED
    BY <2>2, <2>4, <2>5, <2>6, <2>7, <2>8, <2>9 DEF Next, Step
<1>3. TypeOK /\ LineInv => ReadersBlameOnlyTheOpenLine
  BY DEF LineInv, WholeLines, OpenFor, ReadersBlameOnlyTheOpenLine, VerifyLog
<1>4. QED
  BY <1>1, <1>2, <1>3, AuditLogType, WritersExclude, PTL DEF Spec
-----------------------------------------------------------------------------
(* A line whose second fragment never came: its head is followed by another *)
(* head, or ends the log although nobody is between two writes.             *)
Torn ==
    {j \in DOMAIN file :
        /\ ~EndsLine(j)
        /\ IF j = Len(file) THEN \A t \in Threads : pc[t] # "rest" ELSE ~EndsLine(j + 1)}

(* A second fragment follows the first one of its own line.                 *)
Paired ==
    \A i \in DOMAIN file :
        EndsLine(i) => i > 1 /\ file[i - 1] = [file[i] EXCEPT !.part = "head"]

(* Every torn line was paid for by a fault.                                 *)
TornInv ==
    /\ Paired
    /\ \A t \in Threads : pc[t] = "rest" => file # <<>> /\ file[Len(file)] = Head1(t)
    /\ Cardinality(Torn) <= faults

(* What is in the log: the line of a call once its second fragment is       *)
(* written, and before log() says so.                                       *)
EntryInv ==
    /\ \A l \in Completed : l[2] <= calls[l[1]]
    /\ \A t \in Threads :
          /\ pc[t] \in {"mutex", "flock", "write", "rest"} => LineOf(t) \notin Completed
          /\ pc[t] \in {"unlock", "return"} => LineOf(t) \in Completed
    /\ acked \subseteq Completed

(* Fragments that end no line add nothing to the log.                       *)
LEMMA FragmentAppended ==
    ASSUME file \in Seq(Fragments), NEW t \in Threads, Head1(t) \in Fragments,
           file' = Append(file, Head1(t))
    PROVE  Ends' = Ends /\ Completed' = Completed /\ Order' = Order
<1>1. PICK n \in Nat : n = Len(file) /\ DOMAIN file = 1..n
  OBVIOUS
<1>2. /\ DOMAIN file' = 1..(n + 1) /\ file'[n + 1] = Head1(t)
      /\ \A i \in 1..n : file'[i] = file[i]
  BY <1>1
<1>3. Head1(t).part = "head"
  BY DEF Head1
<1>4. Ends' = Ends
  BY <1>1, <1>2, <1>3 DEF Ends, EndsLine
<1>5. \A i \in Ends : file'[i] = file[i]
  BY <1>1, <1>2 DEF Ends
<1>6. Completed' = Completed
  BY <1>4, <1>5 DEF Completed
<1>7. ASSUME NEW pair \in Order' PROVE pair \in Order
  <2>1. PICK i \in Ends', j \in Ends' : i < j /\ pair = <<file'[i].line, file'[j].line>>
    BY <1>7 DEF Order
  <2>2. i \in Ends /\ j \in Ends /\ pair = <<file[i].line, file[j].line>>
    BY <1>4, <1>5, <2>1
  <2>3. QED
    BY <1>6, <1>7, <2>1, <2>2 DEF Order
<1>8. ASSUME NEW pair \in Order PROVE pair \in Order'
  <2>1. PICK i \in Ends, j \in Ends : i < j /\ pair = <<file[i].line, file[j].line>>
    BY <1>8 DEF Order
  <2>2. i \in Ends' /\ j \in Ends' /\ pair = <<file'[i].line, file'[j].line>>
    BY <1>4, <1>5, <2>1
  <2>3. QED
    BY <1>6, <1>8, <2>1, <2>2 DEF Order
<1>9. QED
  BY <1>4, <1>6, <1>7, <1>8

(* One that ends a line adds the line, after all the others.                *)
LEMMA EntryAppended ==
    ASSUME file \in Seq(Fragments), file' \in Seq(Fragments),
           NEW n \in Nat, n = Len(file), NEW m \in Nat, m = Len(file'), n < m,
           \A i \in 1..n : file'[i] = file[i],
           \A i \in (n + 1)..(m - 1) : ~EndsLine(i)', EndsLine(m)',
           NEW line, file'[m].line = line
    PROVE  Completed' = Completed \cup {line} /\ Order' = Order \cup (Completed \X {line})
<1>1. DOMAIN file = 1..n /\ DOMAIN file' = 1..m
  OBVIOUS
<1>2. Ends \subseteq 1..n /\ m \notin Ends
  BY <1>1 DEF Ends
<1>3. Ends' = Ends \cup {m}
  <2>1. ASSUME NEW i \in 1..m PROVE i \in Ends' <=> i \in Ends \/ i = m
    <3>1. i \in 1..n \/ i \in (n + 1)..(m - 1) \/ i = m
      OBVIOUS
    <3>2. i \in 1..n => (EndsLine(i)' <=> EndsLine(i))
      BY DEF EndsLine
    <3>3. QED
      BY <1>1, <1>2, <3>1, <3>2 DEF Ends
  <2>2. QED
    BY <1>1, <1>2, <2>1 DEF Ends
<1>4. ASSUME NEW i \in Ends PROVE file'[i] = file[i] /\ i < m
  <2>1. i \in 1..n
    BY <1>2
  <2>2. QED
    BY <2>1
<1>5. Completed' = Completed \cup {line}
  <2>1. ASSUME NEW l \in Completed' PROVE l \in Completed \cup {line}
    <3>1. PICK i \in Ends' : l = file'[i].line
      BY DEF Completed
    <3>2. QED
      BY <1>3, <1>4, <3>1 DEF Completed
  <2>2. ASSUME NEW l \in Completed PROVE l \in Completed'
    <3>1. PICK i \in Ends : l = file[i].line
      BY DEF Completed
    <3>2. i \in Ends' /\ l = file'[i].line
      BY <1>3, <1>4, <3>1
    <3>3. QED
      BY <3>2 DEF Completed
  <2>3. line \in Completed'
    BY <1>3 DEF Completed
  <2>4. QED
    BY <2>1, <2>2, <2>3
<1>6. ASSUME NEW pair \in Order' PROVE pair \in Order \cup (Completed \X {line})
  <2>1. PICK i \in Ends', j \in Ends' : i < j /\ pair = <<file'[i].line, file'[j].line>>
    BY <1>6 DEF Order
  <2>2. i \in Ends /\ file'[i].line = file[i].line /\ file[i].line \in Completed
    BY <1>2, <1>3, <1>4, <2>1 DEF Completed
  <2>3. CASE j \in Ends
    <3>1. file'[j].line = file[j].line /\ file[j].line \in Completed
      BY <1>4, <2>3 DEF Completed
    <3>2. QED
      BY <2>1, <2>2, <2>3, <3>1 DEF Order
  <2>4. CASE j = m
    BY <2>1, <2>2, <2>4
  <2>5. QED
    BY <1>3, <2>3, <2>4
<1>7. ASSUME NEW pair \in Order PROVE pair \in Order'
  <2>1. PICK i \in Ends, j \in Ends : i < j /\ pair = <<file[i].line, file[j].line>>
    BY <1>7 DEF Order
  <2>2. /\ i \in Ends' /\ j \in Ends'
        /\ file'[i].line = file[i].line /\ file'[j].line = file[j].line
    BY <1>3, <1>4
  <2>3. pair \in Completed' \X Completed'
    BY <1>5, <1>7 DEF Order
  <2>4. QED
    BY <2>1, <2>2, <2>3 DEF Order
<1>8. ASSUME NEW pair \in Completed \X {line} PROVE pair \in Order'
  <2>1. PICK i \in Ends : pair = <<file[i].line, line>>
    BY <1>8 DEF Completed
  <2>2. i \in Ends' /\ m \in Ends' /\ i < m /\ pair = <<file'[i].line, file'[m].line>>
    BY <1>3, <1>4, <2>1
  <2>3. pair \in Completed' \X Completed'
    BY <1>5, <1>8
  <2>4. QED
    BY <2>2, <2>3 DEF Order
<1>9. QED
  BY <1>5, <1>6, <1>7, <1>8

(* The write that ends a line, alone or together with its first part.       *)
LEMMA LineAppended ==
    ASSUME TypeOK, CallInv, NEW t \in Threads, WriteWhole(t) \/ WriteRest(t)
    PROVE  /\ Completed' = Completed \cup {LineOf(t)}
           /\ Order' = Order \cup (Completed \X {LineOf(t)})
<1>1. pc[t] # "idle" /\ Head1(t) \in Fragments /\ Tail1(t) \in Fragments
  BY FragmentType DEF WriteWhole, WriteRest, Move
<1>2. /\ Head1(t).part = "head" /\ Tail1(t).part = "tail" /\ Tail1(t).line = LineOf(t)
  BY DEF Head1, Tail1
<1>3. PICK n \in Nat : n = Len(file) /\ file \in Seq(Fragments)
  BY DEF TypeOK
<1>4. CASE WriteWhole(t)
  <2>1. file' = file \o <<Head1(t), Tail1(t)>> /\ <<Head1(t), Tail1(t)>> \in Seq(Fragments)
    BY <1>1, <1>4 DEF WriteWhole
  <2>2. /\ file' \in Seq(Fragments) /\ Len(file') = n + 2
        /\ \A i \in 1..n : file'[i] = file[i]
        /\ file'[n + 1] = Head1(t) /\ file'[n + 2] = Tail1(t)
    BY <1>3, <2>1
  <2>3. /\ \A i \in (n + 1)..((n + 2) - 1) : ~EndsLine(i)'
        /\ EndsLine(n + 2)' /\ file'[n + 2].line = LineOf(t)
    BY <1>2, <2>2 DEF EndsLine
  <2>4. n + 2 \in Nat /\ n < n + 2
    OBVIOUS
  <2>5. QED
    BY <1>3, <2>2, <2>3, <2>4, EntryAppended
<1>5. CASE WriteRest(t)
  <2>1. file' = Append(file, Tail1(t))
    BY <1>5 DEF WriteRest
  <2>2. /\ file' \in Seq(Fragments) /\ Len(file') = n + 1
        /\ \A i \in 1..n : file'[i] = file[i] /\ file'[n + 1] = Tail1(t)
    BY <1>1, <1>3, <2>1
  <2>3. /\ \A i \in (n + 1)..((n + 1) - 1) : ~EndsLine(i)'
        /\ file'[n + 1] = Tail1(t) /\ EndsLine(n + 1)' /\ file'[n + 1].line = LineOf(t)
    BY <1>1, <1>2, <1>3, <2>1 DEF EndsLine
  <2>4. n + 1 \in Nat /\ n < n + 1
    OBVIOUS
  <2>5. QED
    BY <1>3, <2>2, <2>3, <2>4, EntryAppended
<1>6. QED
  BY <1>4, <1>5

(* The lines in the log are lines of calls.                                 *)
LEMMA CompletedType ==
    ASSUME TypeOK
    PROVE  Completed \subseteq Lines
<1>1. \A i \in DOMAIN file : file[i] \in Fragments
  BY DEF TypeOK
<1>2. QED
  BY <1>1 DEF Completed, Ends, Fragments

(* Steps that leave the file and the count of calls alone.                  *)
LEMMA FileKept ==
    ASSUME UNCHANGED <<file, calls>>
    PROVE  /\ Completed' = Completed /\ Order' = Order
           /\ \A t \in Threads : LineOf(t)' = LineOf(t)
<1>1. Ends' = Ends
  BY DEF Ends, EndsLine
<1>2. QED
  BY <1>1 DEF Completed, Order, LineOf

(* No step of the system breaks EntryInv.                                   *)
LEMMA EntryKept == TypeOK /\ CallInv /\ EntryInv /\ [Next]_vars => EntryInv'
<1> SUFFICES ASSUME TypeOK, CallInv, EntryInv, [Next]_vars PROVE EntryInv'
  OBVIOUS
<1>1. CASE UNCHANGED <<file, calls, acked>> /\ \A t \in Threads :
              \/ pc'[t] = pc[t] \/ pc'[t] = "idle"
              \/ pc[t] = "mutex" /\ pc'[t] = "flock"
              \/ pc[t] = "flock" /\ pc'[t] = "write"
              \/ pc[t] = "unlock" /\ pc'[t] = "return"
  BY <1>1, FileKept DEF EntryInv
<1>2. ASSUME NEW t \in Threads, LockMutex(t) \/ Flock(t) \/ Unlock(t) \/ FlockError(t) \/ WriteError(t)
      PROVE  EntryInv'
  <2>1. \/ \E from \in {"flock", "write", "rest"} : Move(t, from, "idle")
        \/ Move(t, "mutex", "flock") \/ Move(t, "flock", "write") \/ Move(t, "unlock", "return")
    BY <1>2 DEF LockMutex, Flock, Unlock, FlockError, WriteError
  <2>2. \A s \in Threads \ {t} : pc'[s] = pc[s]
    BY <2>1 DEF Move, TypeOK
  <2>3. UNCHANGED <<file, calls, acked>>
    BY <1>2 DEF LockMutex, Flock, Unlock, FlockError, WriteError
  <2>4. \/ pc'[t] = "idle"
        \/ pc[t] = "mutex" /\ pc'[t] = "flock"
        \/ pc[t] = "flock" /\ pc'[t] = "write"
        \/ pc[t] = "unlock" /\ pc'[t] = "return"
    BY <2>1 DEF Move, TypeOK
  <2>5. QED
    BY <1>1, <2>2, <2>3, <2>4
<1>3. ASSUME NEW p \in Processes, Crash(p) PROVE EntryInv'
  BY <1>1, <1>3 DEF Crash
<1>4. CASE UNCHANGED vars
  BY <1>1, <1>4 DEF vars
<1>5. ASSUME NEW t \in Threads, Call(t) PROVE EntryInv'
  <2>1. /\ calls' = [calls EXCEPT ![t] = @ + 1] /\ pc' = [pc EXCEPT ![t] = "mutex"]
        /\ pc[t] = "idle" /\ UNCHANGED <<file, acked>>
    BY <1>5 DEF Call, Move
  <2>2. calls[t] \in Nat /\ calls'[t] = calls[t] + 1 /\ \A s \in Threads \ {t} : calls'[s] = calls[s]
    BY <2>1 DEF TypeOK
  <2>3. Completed' = Completed
    BY <2>1 DEF Completed, Ends, EndsLine
  <2>4. \A l \in Completed : l[2] \in Nat /\ l[1] \in Threads /\ calls[l[1]] \in Nat
    BY CompletedType DEF Lines, TypeOK
  <2>5. \A l \in Completed' : l[2] <= calls'[l[1]]
    BY <2>2, <2>3, <2>4 DEF EntryInv
  <2>6. LineOf(t)' \notin Completed'
    <3>1. ASSUME LineOf(t)' \in Completed PROVE FALSE
      <4>1. calls'[t] <= calls[t]
        BY <3>1 DEF EntryInv, LineOf
      <4>2. QED
        BY <2>2, <4>1
    <3>2. QED
      BY <2>3, <3>1
  <2>7. \A s \in Threads \ {t} : LineOf(s)' = LineOf(s) /\ pc'[s] = pc[s]
    BY <2>1, <2>2 DEF LineOf, TypeOK
  <2>8. pc'[t] = "mutex"
    BY <2>1 DEF TypeOK
  <2>9. QED
    BY <2>1, <2>3, <2>5, <2>6, <2>7, <2>8 DEF EntryInv
<1>6. ASSUME NEW t \in Threads, WriteHead(t) PROVE EntryInv'
  <2>1. Head1(t) \in Fragments /\ file' = Append(file, Head1(t)) /\ UNCHANGED <<calls, acked>>
        /\ pc' = [pc EXCEPT ![t] = "rest"] /\ pc[t] = "write"
    BY <1>6, FragmentType DEF WriteHead, Move
  <2>2. Completed' = Completed
    BY <2>1, FragmentAppended DEF TypeOK
  <2>3. QED
    BY <2>1, <2>2 DEF EntryInv, LineOf, TypeOK
<1>7. ASSUME NEW t \in Threads, WriteWhole(t) \/ WriteRest(t) PROVE EntryInv'
  <2>1. Completed' = Completed \cup {LineOf(t)}
    BY <1>7, LineAppended
  <2>2. UNCHANGED <<calls, acked>> /\ pc' = [pc EXCEPT ![t] = "unlock"]
    BY <1>7 DEF WriteWhole, WriteRest, Move
  <2>3. \A s \in Threads : LineOf(s)' = LineOf(s) /\ (LineOf(s) = LineOf(t) => s = t)
    BY <2>2 DEF LineOf
  <2>4. LineOf(t)[2] <= calls[LineOf(t)[1]]
    BY DEF LineOf, TypeOK
  <2>5. \A l \in Completed' : l[2] <= calls'[l[1]]
    BY <2>1, <2>2, <2>4 DEF EntryInv
  <2>6. pc'[t] = "unlock" /\ \A s \in Threads \ {t} : pc'[s] = pc[s]
    BY <2>2 DEF TypeOK
  <2>7. QED
    BY <2>1, <2>2, <2>3, <2>5, <2>6 DEF EntryInv
<1>8. ASSUME NEW t \in Threads, ReturnOk(t) PROVE EntryInv'
  <2>1. /\ UNCHANGED <<file, calls>> /\ acked' = acked \cup {LineOf(t)}
        /\ pc[t] = "return" /\ pc' = [pc EXCEPT ![t] = "idle"]
    BY <1>8 DEF ReturnOk, Move
  <2>2. LineOf(t) \in Completed
    BY <2>1 DEF EntryInv
  <2>3. QED
    BY <2>1, <2>2, FileKept DEF EntryInv, TypeOK
<1>9. QED
  BY <1>2, <1>3, <1>4, <1>5, <1>6, <1>7, <1>8 DEF Next, Step

(* What is in the log stays consistent with the calls.                      *)
LEMMA EntryInvariant == Spec => [](TypeOK /\ CallInv /\ EntryInv)
<1>1. Init => EntryInv
  BY DEF Init, EntryInv, Completed, Ends
<1>2. QED
  BY <1>1, EntryKept, AuditLogType, PTL DEF Spec

(* The entries whose calls have not returned, when one call moves.          *)
LEMMA OpenMoves ==
    ASSUME TypeOK, NEW t \in Threads, NEW from, NEW to, from # "idle", Move(t, from, to),
           calls' = calls
    PROVE  Open' = IF to = "idle" THEN Open \ {LineOf(t)} ELSE Open
<1>1. \A s \in Threads : LineOf(s)' = LineOf(s) /\ (LineOf(s) = LineOf(t) => s = t)
  BY DEF LineOf
<1>2. pc[t] # "idle" /\ pc'[t] = to /\ \A s \in Threads \ {t} : pc'[s] = pc[s]
  BY DEF TypeOK, Move
<1>3. QED
  BY <1>1, <1>2 DEF Open

(* audit.rs:288-380: the locked, fragment-by-fragment writes implement      *)
(* atomic appends, for any threads and processes, whatever fails.           *)
THEOREM AuditLogImplementsAtomicLog == Spec => AppendsLookAtomic
<1>1. Init => Promise!Init
  BY DEF Init, Promise!Init, Completed, Order, Ends, Open
<1>2. TypeOK /\ CallInv /\ EntryInv /\ [Next]_vars => [Promise!Next]_(Promise!vars)
  <2> SUFFICES ASSUME TypeOK, CallInv, EntryInv, [Next]_vars
               PROVE  Promise!Next \/ UNCHANGED Promise!vars
    OBVIOUS
  <2>1. ASSUME NEW t \in Threads, Call(t) PROVE Promise!Next
    <3>1. /\ calls' = [calls EXCEPT ![t] = @ + 1] /\ pc' = [pc EXCEPT ![t] = "mutex"]
          /\ pc[t] = "idle" /\ calls[t] < MaxLines /\ UNCHANGED <<file, acked>>
      BY <2>1 DEF Call, Move
    <3>2. calls[t] \in Nat /\ calls'[t] = calls[t] + 1 /\ \A s \in Threads \ {t} : calls'[s] = calls[s]
      BY <3>1 DEF TypeOK
    <3>3. Completed' = Completed /\ Order' = Order
      <4>1. Ends' = Ends
        BY <3>1 DEF Ends, EndsLine
      <4>2. QED
        BY <3>1, <4>1 DEF Completed, Order
    <3>4. pc'[t] = "mutex" /\ \A s \in Threads \ {t} : LineOf(s)' = LineOf(s) /\ pc'[s] = pc[s]
      BY <3>1, <3>2 DEF LineOf, TypeOK
    <3>5. Open' = Open \cup {LineOf(t)'}
      BY <3>1, <3>4 DEF Open
    <3>6. LineOf(t)' \in Lines
      BY <3>1, <3>2, AuditLogConstants DEF LineOf, Lines
    <3>7. LineOf(t)' \notin Open
      BY <3>1 DEF Open, LineOf
    <3>8. LineOf(t)' \notin Completed
      <4>1. ASSUME LineOf(t)' \in Completed PROVE FALSE
        <5>1. calls'[t] <= calls[t]
          BY <4>1 DEF EntryInv, LineOf
        <5>2. QED
          BY <3>2, <5>1
      <4>2. QED
        BY <4>1
    <3>9. Promise!Invoke(LineOf(t)')
      BY <3>1, <3>3, <3>5, <3>7, <3>8 DEF Promise!Invoke, EntryInv
    <3>10. QED
      BY <3>6, <3>9 DEF Promise!Next
  <2>2. ASSUME NEW t \in Threads, LockMutex(t) \/ Flock(t) \/ Unlock(t) PROVE UNCHANGED Promise!vars
    <3>1. PICK from \in {"mutex", "flock", "unlock"}, to \in {"flock", "write", "return"} :
             Move(t, from, to) /\ UNCHANGED <<file, calls, acked>>
      BY <2>2 DEF LockMutex, Flock, Unlock
    <3>2. Open' = Open
      BY <3>1, OpenMoves
    <3>3. QED
      BY <3>1, <3>2, FileKept DEF Promise!vars
  <2>3. ASSUME NEW t \in Threads, WriteHead(t) PROVE UNCHANGED Promise!vars
    <3>1. /\ Head1(t) \in Fragments /\ file' = Append(file, Head1(t)) /\ UNCHANGED <<calls, acked>>
          /\ Move(t, "write", "rest")
      BY <2>3, FragmentType DEF WriteHead, Move
    <3>2. Open' = Open
      BY <3>1, OpenMoves
    <3>3. QED
      BY <3>1, <3>2, FragmentAppended DEF Promise!vars, TypeOK
  <2>4. ASSUME NEW t \in Threads, WriteWhole(t) \/ WriteRest(t) PROVE Promise!Next
    <3>1. PICK from \in {"write", "rest"} :
             Move(t, from, "unlock") /\ UNCHANGED <<calls, acked>>
      BY <2>4 DEF WriteWhole, WriteRest
    <3>2. Open' = Open
      BY <3>1, OpenMoves
    <3>3. LineOf(t) \in Lines /\ LineOf(t) \in Open /\ LineOf(t) \notin Completed
      BY <3>1, FragmentType DEF Open, EntryInv, Move
    <3>4. Promise!Put(LineOf(t))
      BY <2>4, <3>1, <3>2, <3>3, LineAppended DEF Promise!Put
    <3>5. QED
      BY <3>3, <3>4 DEF Promise!Next
  <2>5. ASSUME NEW t \in Threads, ReturnOk(t) PROVE Promise!Next
    <3>1. /\ Move(t, "return", "idle")
          /\ UNCHANGED <<file, calls>> /\ acked' = acked \cup {LineOf(t)}
      BY <2>5 DEF ReturnOk
    <3>2. Open' = Open \ {LineOf(t)}
      BY <3>1, OpenMoves
    <3>3. LineOf(t) \in Lines /\ LineOf(t) \in Open /\ LineOf(t) \in Completed
      BY <3>1, FragmentType DEF Open, EntryInv, Move
    <3>4. Promise!Acknowledge(LineOf(t))
      BY <3>1, <3>2, <3>3, FileKept DEF Promise!Acknowledge
    <3>5. QED
      BY <3>3, <3>4 DEF Promise!Next
  <2>6. ASSUME NEW t \in Threads, FlockError(t) \/ WriteError(t) PROVE Promise!Next
    <3>1. PICK from \in {"flock", "write", "rest"} :
             Move(t, from, "idle") /\ UNCHANGED <<file, calls, acked>>
      BY <2>6 DEF FlockError, WriteError
    <3>2. Open' = Open \ {LineOf(t)}
      BY <3>1, OpenMoves
    <3>3. {LineOf(t)} \in SUBSET Open
      BY <3>1 DEF Open, Move
    <3>4. Promise!Abandon({LineOf(t)})
      BY <3>1, <3>2, <3>3, FileKept DEF Promise!Abandon
    <3>5. QED
      BY <3>3, <3>4 DEF Promise!Next
  <2>7. ASSUME NEW p \in Processes, Crash(p) PROVE Promise!Next
    <3> DEFINE lost == {LineOf(t) : t \in {s \in Threads : ProcessOf[s] = p /\ pc[s] # "idle"}}
    <3>1. /\ pc' = [t \in Threads |-> IF ProcessOf[t] = p THEN "idle" ELSE pc[t]]
          /\ UNCHANGED <<file, calls, acked>>
      BY <2>7 DEF Crash
    <3>2. \A s \in Threads : LineOf(s)' = LineOf(s)
      BY <3>1 DEF LineOf
    <3>3. \A s, t \in Threads : LineOf(s) = LineOf(t) => s = t
      BY DEF LineOf
    <3>4. Open' = Open \ lost /\ lost \in SUBSET Open
      BY <3>1, <3>2, <3>3 DEF Open
    <3>5. Promise!Abandon(lost)
      BY <3>1, <3>4, FileKept DEF Promise!Abandon
    <3>6. QED
      BY <3>4, <3>5 DEF Promise!Next
  <2>8. CASE UNCHANGED vars
    BY <2>8, FileKept DEF vars, Promise!vars, Open
  <2>9. QED
    BY <2>1, <2>2, <2>3, <2>4, <2>5, <2>6, <2>7, <2>8 DEF Next, Step
<1>3. QED
  BY <1>1, <1>2, EntryInvariant, PTL DEF Spec, AppendsLookAtomic, Promise!Spec

-----------------------------------------------------------------------------
(* There are finitely many torn lines, all of them in the file.             *)
LEMMA TornFinite ==
    ASSUME TypeOK
    PROVE  IsFiniteSet(Torn) /\ Cardinality(Torn) \in Nat
<1>1. DOMAIN file = 1..Len(file) /\ Len(file) \in Int /\ 1 \in Int
  BY DEF TypeOK
<1>2. IsFiniteSet(DOMAIN file)
  BY <1>1, FS_Interval
<1>3. Torn \in SUBSET (DOMAIN file)
  BY DEF Torn
<1>4. QED
  BY <1>2, <1>3, FS_Subset, FS_CardinalityType

(* A step that writes nothing tears a line only when it costs a fault, and  *)
(* then no more than the line at the end.                                   *)
LEMMA TornGrows ==
    ASSUME TypeOK, TornInv, file' = file, faults' \in Nat,
           \A t \in Threads : pc'[t] = "rest" => pc[t] = "rest" /\ calls'[t] = calls[t],
           \/ faults' = faults + 1
           \/ faults' = faults /\ \A t \in Threads : pc[t] = "rest" => pc'[t] = "rest"
    PROVE  TornInv'
<1>1. Paired'
  BY DEF TornInv, Paired, EndsLine
<1>2. \A t \in Threads : pc'[t] = "rest" => file' # <<>> /\ file'[Len(file')] = Head1(t)'
  BY DEF TornInv, Head1, LineOf
<1>3. Torn' \subseteq Torn \cup {Len(file)}
  BY DEF Torn, EndsLine
<1>4. CASE faults' = faults + 1
  <2>1. /\ IsFiniteSet(Torn \cup {Len(file)})
        /\ Cardinality(Torn \cup {Len(file)}) <= Cardinality(Torn) + 1
    <3>1. /\ IsFiniteSet(Torn \cup {Len(file)})
          /\ \/ Cardinality(Torn \cup {Len(file)}) = Cardinality(Torn)
             \/ Cardinality(Torn \cup {Len(file)}) = Cardinality(Torn) + 1
      BY TornFinite, FS_AddElement, Zenon
    <3>2. QED
      BY <3>1, TornFinite
  <2>2. Cardinality(Torn') <= Cardinality(Torn \cup {Len(file)}) /\ Cardinality(Torn') \in Nat
    BY <1>3, <2>1, FS_Subset, FS_CardinalityType
  <2>3. Cardinality(Torn \cup {Len(file)}) \in Nat
    BY <2>1, FS_CardinalityType
  <2>4. Cardinality(Torn)' <= faults'
    BY <1>4, <2>1, <2>2, <2>3, TornFinite DEF TornInv, TypeOK
  <2>5. QED
    BY <1>1, <1>2, <2>4 DEF TornInv
<1>5. CASE faults' = faults /\ \A t \in Threads : pc[t] = "rest" => pc'[t] = "rest"
  <2>1. Torn' = Torn
    BY <1>5 DEF Torn, EndsLine
  <2>2. QED
    BY <1>1, <1>2, <1>5, <2>1 DEF TornInv
<1>6. QED
  BY <1>4, <1>5

(* Writing tears nothing: the writer is alone.                              *)
LEMMA WriteTearsNothing ==
    ASSUME TypeOK, CallInv, TornInv, NEW t \in Threads,
           \A s \in Threads : pc[s] \in WritePCs => s = t,
           WriteWhole(t) \/ WriteHead(t) \/ WriteRest(t)
    PROVE  TornInv'
<1>1. PICK n \in Nat : n = Len(file) /\ DOMAIN file = 1..n
  BY DEF TypeOK
<1>2. /\ file \in Seq(Fragments) /\ Head1(t) \in Fragments /\ Tail1(t) \in Fragments
      /\ Head1(t).part = "head" /\ Tail1(t).part = "tail"
      /\ Head1(t) = [Tail1(t) EXCEPT !.part = "head"] /\ Head1(t)' = Head1(t)
  <2>1. pc[t] # "idle" /\ calls' = calls
    BY DEF WriteWhole, WriteHead, WriteRest, Move
  <2>2. Head1(t)' = Head1(t)
    BY <2>1 DEF Head1, LineOf
  <2>3. /\ Head1(t).part = "head" /\ Tail1(t).part = "tail"
        /\ Head1(t) = [Tail1(t) EXCEPT !.part = "head"]
    BY DEF Head1, Tail1
  <2>4. QED
    BY <2>1, <2>2, <2>3, FragmentType DEF TypeOK
<1>3. faults' = faults
  BY DEF WriteWhole, WriteHead, WriteRest
<1>4. ASSUME NEW i \in 1..n, file'[i] = file[i], \A j \in 1..n : file'[j] = file[j], EndsLine(i)'
      PROVE  i > 1 /\ file'[i - 1] = [file'[i] EXCEPT !.part = "head"]
  <2>1. EndsLine(i)
    BY <1>4 DEF EndsLine
  <2>2. i > 1 /\ file[i - 1] = [file[i] EXCEPT !.part = "head"]
    BY <1>1, <2>1 DEF TornInv, Paired
  <2>3. i - 1 \in 1..n
    BY <2>2
  <2>4. QED
    BY <1>4, <2>2, <2>3
<1>5. CASE WriteHead(t)
  <2>1. /\ file' = Append(file, Head1(t)) /\ pc[t] = "write"
        /\ pc' = [pc EXCEPT ![t] = "rest"]
    BY <1>5 DEF WriteHead, Move
  <2>2. /\ Len(file') = n + 1 /\ DOMAIN file' = 1..(n + 1) /\ file'[n + 1] = Head1(t)
        /\ \A i \in 1..n : file'[i] = file[i]
    BY <1>1, <1>2, <2>1
  <2>3. (\A s \in Threads : pc[s] # "rest") /\ pc'[t] = "rest"
        /\ \A s \in Threads \ {t} : pc'[s] # "rest"
    BY <2>1 DEF TypeOK, WritePCs
  <2>4. Paired'
    <3>1. ~EndsLine(n + 1)'
      BY <1>2, <2>2 DEF EndsLine
    <3>2. \A i \in 1..(n + 1) : i \in 1..n \/ i = n + 1
      OBVIOUS
    <3>3. QED
      BY <1>4, <2>2, <3>1, <3>2 DEF Paired
  <2>5. ASSUME NEW j \in 1..(n + 1) PROVE j \in Torn' <=> j \in Torn
    <3>1. CASE j = n + 1
      BY <1>1, <2>2, <2>3, <3>1 DEF Torn
    <3>2. CASE j = n
      <4>1. n \in 1..n /\ n # n + 1 /\ file'[n] = file[n] /\ file'[n + 1].part = "head"
        BY <1>2, <2>2, <3>2
      <4>2. QED
        BY <1>1, <2>2, <2>3, <3>2, <4>1 DEF Torn, EndsLine
    <3>3. CASE j \in 1..(n - 1)
      <4>1. j \in 1..n /\ j + 1 \in 1..n /\ j # n /\ j # n + 1
        BY <3>3
      <4>2. QED
        BY <1>1, <2>2, <4>1 DEF Torn, EndsLine
    <3>4. QED
      BY <3>1, <3>2, <3>3
  <2>6. Torn' = Torn
    <3>1. Torn \subseteq 1..(n + 1) /\ Torn' \subseteq 1..(n + 1)
      BY <1>1, <2>2 DEF Torn
    <3>2. QED
      BY <2>5, <3>1
  <2>7. QED
    BY <1>2, <1>3, <2>2, <2>3, <2>4, <2>6 DEF TornInv
<1>6. CASE WriteRest(t)
  <2>1. /\ file' = Append(file, Tail1(t)) /\ pc[t] = "rest"
        /\ pc' = [pc EXCEPT ![t] = "unlock"]
    BY <1>6 DEF WriteRest, Move
  <2>2. n \in 1..n /\ file[n] = Head1(t)
    BY <1>1, <2>1 DEF TornInv
  <2>3. /\ Len(file') = n + 1 /\ DOMAIN file' = 1..(n + 1) /\ file'[n + 1] = Tail1(t)
        /\ \A i \in 1..n : file'[i] = file[i]
    BY <1>1, <1>2, <2>1
  <2>4. \A s \in Threads : pc'[s] # "rest"
    BY <2>1 DEF TypeOK, WritePCs
  <2>5. Paired'
    <3>1. n + 1 > 1 /\ file'[(n + 1) - 1] = [file'[n + 1] EXCEPT !.part = "head"]
      BY <1>2, <2>2, <2>3
    <3>2. QED
      BY <1>4, <2>3, <3>1 DEF Paired
  <2>6. ASSUME NEW j \in 1..(n + 1) PROVE j \in Torn' <=> j \in Torn
    <3>1. CASE j = n + 1
      BY <1>1, <1>2, <2>3, <3>1 DEF Torn, EndsLine
    <3>2. CASE j = n
      BY <1>1, <1>2, <2>1, <2>3, <3>2 DEF Torn, EndsLine
    <3>3. CASE j \in 1..(n - 1)
      <4>1. j \in 1..n /\ j + 1 \in 1..n /\ j # n /\ j # n + 1
        BY <3>3
      <4>2. QED
        BY <1>1, <2>3, <4>1 DEF Torn, EndsLine
    <3>4. QED
      BY <3>1, <3>2, <3>3
  <2>7. Torn' = Torn
    <3>1. Torn \subseteq 1..(n + 1) /\ Torn' \subseteq 1..(n + 1)
      BY <1>1, <2>3 DEF Torn
    <3>2. QED
      BY <2>6, <3>1
  <2>8. QED
    BY <1>3, <2>4, <2>5, <2>7 DEF TornInv
<1>7. CASE WriteWhole(t)
  <2>1. /\ file' = file \o <<Head1(t), Tail1(t)>> /\ pc[t] = "write"
        /\ pc' = [pc EXCEPT ![t] = "unlock"]
    BY <1>7 DEF WriteWhole, Move
  <2>2. /\ Len(file') = n + 2 /\ DOMAIN file' = 1..(n + 2)
        /\ file'[n + 1] = Head1(t) /\ file'[n + 2] = Tail1(t)
        /\ \A i \in 1..n : file'[i] = file[i]
    BY <1>1, <1>2, <2>1
  <2>3. (\A s \in Threads : pc[s] # "rest") /\ (\A s \in Threads : pc'[s] # "rest")
    BY <2>1 DEF TypeOK, WritePCs
  <2>4. Paired'
    <3>1. n + 2 > 1 /\ file'[(n + 2) - 1] = [file'[n + 2] EXCEPT !.part = "head"]
      BY <1>2, <2>2
    <3>2. ~EndsLine(n + 1)'
      BY <1>2, <2>2 DEF EndsLine
    <3>3. \A i \in 1..(n + 2) : i \in 1..n \/ i = n + 1 \/ i = n + 2
      OBVIOUS
    <3>4. QED
      BY <1>4, <2>2, <3>1, <3>2, <3>3 DEF Paired
  <2>5. ASSUME NEW j \in 1..(n + 2) PROVE j \in Torn' <=> j \in Torn
    <3>1. CASE j = n + 2
      BY <1>1, <1>2, <2>2, <3>1 DEF Torn, EndsLine
    <3>2. CASE j = n + 1
      BY <1>1, <1>2, <2>2, <3>2 DEF Torn, EndsLine
    <3>3. CASE j = n
      <4>1. n \in 1..n /\ n # n + 2 /\ file'[n] = file[n] /\ file'[n + 1].part = "head"
        BY <1>2, <2>2, <3>3
      <4>2. QED
        BY <1>1, <2>2, <2>3, <3>3, <4>1 DEF Torn, EndsLine
    <3>4. CASE j \in 1..(n - 1)
      <4>1. j \in 1..n /\ j + 1 \in 1..n /\ j # n /\ j # n + 2
        BY <3>4
      <4>2. QED
        BY <1>1, <2>2, <4>1 DEF Torn, EndsLine
    <3>5. QED
      BY <3>1, <3>2, <3>3, <3>4
  <2>6. Torn' = Torn
    <3>1. Torn \subseteq 1..(n + 2) /\ Torn' \subseteq 1..(n + 2)
      BY <1>1, <2>2 DEF Torn
    <3>2. QED
      BY <2>5, <3>1
  <2>7. QED
    BY <1>3, <2>3, <2>4, <2>6 DEF TornInv
<1>8. QED
  BY <1>5, <1>6, <1>7

(* No step of the system leaves more torn lines than faults.                *)
LEMMA TornKept ==
    TypeOK /\ CallInv /\ OneWriter /\ Serialised /\ TornInv /\ [Next]_vars => TornInv'
<1> SUFFICES ASSUME TypeOK, CallInv, OneWriter, Serialised, TornInv, [Next]_vars
             PROVE  TornInv'
  OBVIOUS
<1>1. faults \in Nat
  BY DEF TypeOK
<1>2. ASSUME NEW t \in Threads,
             Call(t) \/ LockMutex(t) \/ Flock(t) \/ Unlock(t) \/ ReturnOk(t)
      PROVE  TornInv'
  <2>1. /\ file' = file /\ faults' = faults /\ pc[t] # "rest" /\ pc'[t] # "rest"
        /\ \A s \in Threads \ {t} : pc'[s] = pc[s] /\ calls'[s] = calls[s]
    BY <1>2 DEF Call, LockMutex, Flock, Unlock, ReturnOk, Move, TypeOK
  <2>2. QED
    BY <1>1, <2>1, TornGrows
<1>3. ASSUME NEW t \in Threads, FlockError(t) \/ WriteError(t) PROVE TornInv'
  <2>1. /\ file' = file /\ faults' = faults + 1 /\ pc'[t] # "rest" /\ calls' = calls
        /\ \A s \in Threads \ {t} : pc'[s] = pc[s]
    BY <1>3 DEF FlockError, WriteError, Fault, Move, TypeOK
  <2>2. QED
    BY <1>1, <2>1, TornGrows
<1>4. ASSUME NEW p \in Processes, Crash(p) PROVE TornInv'
  <2>1. /\ file' = file /\ faults' = faults + 1 /\ calls' = calls
        /\ \A s \in Threads : pc'[s] = "rest" => pc[s] = "rest"
    BY <1>4 DEF Crash, Fault
  <2>2. QED
    BY <1>1, <2>1, TornGrows
<1>5. ASSUME NEW t \in Threads, WriteWhole(t) \/ WriteHead(t) \/ WriteRest(t) PROVE TornInv'
  <2>1. \A s \in Threads : pc[s] \in WritePCs => s = t
    BY <1>5 DEF OneWriter, WriteWhole, WriteHead, WriteRest, Move, WritePCs
  <2>2. QED
    BY <1>5, <2>1, WriteTearsNothing
<1>6. CASE UNCHANGED vars
  BY <1>1, <1>6, TornGrows DEF vars
<1>7. QED
  BY <1>2, <1>3, <1>4, <1>5, <1>6 DEF Next, Step

(* Each line that log() reported and verify_log refuses follows a torn one, *)
(* and no two follow the same.                                              *)
LEMMA DamageCounted ==
    ASSUME TypeOK, EntryInv, Serialised => TornInv
    PROVE  DamageIsContained
<1> SUFFICES ASSUME Serialised PROVE Cardinality({l \in acked : ~Readable(l)}) <= faults
  BY DEF DamageIsContained
<1> DEFINE Lost == {l \in acked : ~Readable(l)}
           EndOf(l) == CHOOSE i \in Ends : file[i].line = l
           Before == [l \in Lost |-> EndOf(l) - 2]
<1>1. ASSUME NEW l \in Lost
      PROVE  EndOf(l) \in Nat /\ file[EndOf(l)].line = l /\ EndOf(l) - 2 \in Torn
  <2>1. EndOf(l) \in Ends /\ file[EndOf(l)].line = l
    <3>1. \E i \in Ends : file[i].line = l
      BY DEF EntryInv, Completed
    <3>2. QED
      BY <3>1
  <2>2. PICK i \in Nat : i = EndOf(l) /\ i \in DOMAIN file /\ EndsLine(i)
    BY <2>1 DEF Ends, TypeOK
  <2>3. i > 1 /\ file[i - 1] = [file[i] EXCEPT !.part = "head"] /\ file[i] \in Fragments
    BY <2>2 DEF TornInv, Paired, TypeOK
  <2>4. ~Sound(i)
    BY <2>1, <2>2 DEF Readable, ReadableAt
  <2>5. i # 2 /\ ~EndsLine(i - 2)
    BY <2>3, <2>4 DEF Sound
  <2>6. file[i - 1].part = "head"
    BY <2>3 DEF Fragments
  <2>7. DOMAIN file = 1..Len(file) /\ Len(file) \in Nat /\ i <= Len(file)
    BY <2>2 DEF TypeOK
  <2>8. i - 2 \in DOMAIN file /\ i - 2 # Len(file) /\ (i - 2) + 1 = i - 1
    BY <2>3, <2>5, <2>7
  <2>9. ~EndsLine((i - 2) + 1)
    BY <2>6, <2>8 DEF EndsLine
  <2>10. QED
    BY <2>1, <2>2, <2>5, <2>8, <2>9 DEF Torn
<1> HIDE DEF Lost, EndOf
<1>2. Before \in [Lost -> Torn]
  BY <1>1
<1>3. ASSUME NEW k \in Lost, NEW l \in Lost, Before[k] = Before[l] PROVE k = l
  <2>1. EndOf(k) = EndOf(l)
    BY <1>1, <1>3
  <2>2. QED
    BY <1>1, <2>1
<1>4. Before \in Injection(Lost, Torn)
  BY <1>2, <1>3 DEF Injection, IsInjective
<1>5. Cardinality(Lost) <= Cardinality(Torn) /\ Cardinality(Lost) \in Nat
  BY <1>4, TornFinite, FS_Injection, FS_CardinalityType
<1>6. Cardinality(Lost) <= faults
  BY <1>5, TornFinite DEF TornInv, TypeOK
<1>7. QED
  BY <1>6 DEF Lost

(* audit.rs:390-441: a line torn by a failed write or a crash spoils the    *)
(* one line after it and no more, for any number of writers and faults.     *)
THEOREM DamageContained == Spec => []DamageIsContained
<1>1. Init => (Serialised => TornInv)
  <2>1. Init => Torn = {} /\ Paired /\ faults = 0 /\ \A t \in Threads : pc[t] # "rest"
    BY DEF Init, Torn, Paired
  <2>2. QED
    BY <2>1, FS_EmptySet DEF TornInv
<1>2. TypeOK /\ CallInv /\ OneWriter /\ (Serialised => TornInv) /\ [Next]_vars
         => (Serialised => TornInv)'
  BY TornKept DEF Serialised
<1>3. TypeOK /\ EntryInv /\ (Serialised => TornInv) => DamageIsContained
  BY DamageCounted
<1>4. QED
  BY <1>1, <1>2, <1>3, EntryInvariant, WritersExclude, PTL DEF Spec
=============================================================================

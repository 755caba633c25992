-------------------------- MODULE SharedDirsProofs --------------------------
(***************************************************************************)
(* Proofs about SharedDirs for any finite number of processes, any         *)
(* versions and any payloads.                                              *)
(***************************************************************************)
EXTENDS SharedDirs, FiniteSetTheorems, TLAPS

(* The initial state has the types.                                         *)
LEMMA InitType == Init => TypeOK
<1> SUFFICES ASSUME Init PROVE TypeOK
  OBVIOUS
<1> USE SharedDirsConstants DEF Init
<1>1. NoCounts \in [Versions -> Nat] /\ temp \in Contents /\ final \in Contents
  BY DEF NoCounts, Contents
<1>2. staged \in [body : Payloads \cup {NoFile}, alone : BOOLEAN]
  BY DEF NotStaged
<1>3. \A p \in Procs : ver[p] = NoVersion <=> pc[p] \notin RollbackPCs
  BY DEF RollbackPCs
<1>4. /\ pc \in [Procs -> {"idle"} \cup RollbackPCs \cup StagePCs]
      /\ ver \in [Procs -> Versions \cup {NoVersion}]
      /\ book \in [Procs -> [Versions -> Nat]]
      /\ list \in [Procs -> SUBSET Versions]
  BY <1>1
<1>5. /\ body \in [Procs -> Payloads \cup {NoFile}]
      /\ handle \in [Procs -> {"none", "temp", "final", "gone"}]
      /\ alone \in [Procs -> BOOLEAN]
      /\ faults \in 0..MaxFaults
  OBVIOUS
<1>6. /\ logged \in [Versions -> Nat] /\ counters \in [Versions -> Nat]
      /\ announced \subseteq Versions /\ blacklist \subseteq Versions
      /\ crossed \in BOOLEAN
  BY <1>1
<1>7. QED
  BY ONLY <1>1, <1>2, <1>3, <1>4, <1>5, <1>6 DEF TypeOK

(* The steps of rollback keep the types.                                    *)
LEMMA RollbackType ==
  ASSUME TypeOK, NEW p \in Procs, RollbackStep(p)
  PROVE  TypeOK'
<1> USE DEF TypeOK, RollbackPCs, StagePCs, trail, books, staging, reading
<1>1. CASE LogSuccess(p)
  <2>1. alone' \in [Procs -> BOOLEAN] /\ crossed' \in BOOLEAN
    BY <1>1 DEF LogSuccess, Enter
  <2>2. PICK v \in Versions : /\ logged' = [logged EXCEPT ![v] = @ + 1]
                              /\ ver' = [ver EXCEPT ![p] = v]
    BY <1>1 DEF LogSuccess
  <2>3. \A q \in Procs : ver'[q] = NoVersion <=> pc'[q] \notin RollbackPCs
    BY <1>1, <2>2, SharedDirsConstants DEF LogSuccess, Step
  <2>4. logged' \in [Versions -> Nat] /\ ver' \in [Procs -> Versions \cup {NoVersion}]
    BY <2>2
  <2>5. pc' \in [Procs -> {"idle"} \cup RollbackPCs \cup StagePCs]
    BY <1>1 DEF LogSuccess, Step
  <2>6. QED
    BY <1>1, <2>1, <2>3, <2>4, <2>5 DEF LogSuccess
<1>2. CASE ReadCounters(p)
  BY <1>2 DEF ReadCounters, Step
<1>3. CASE WriteCounters(p)
  <2>1. ver[p] \in Versions /\ NewCount(p) \in Nat
    BY <1>3 DEF WriteCounters, NewCount
  <2>2. counters' \in [Versions -> Nat]
    BY <1>3, <2>1 DEF WriteCounters
  <2>3. CASE Step(p, "counted", "listing") /\ UNCHANGED reading
    BY <1>3, <2>2, <2>3 DEF WriteCounters, Step
  <2>4. CASE Step(p, "counted", "idle") /\ Forget(p)
    BY <1>3, <2>2, <2>4 DEF WriteCounters, Step, Forget, NoCounts
  <2>5. QED
    BY <1>3, <2>3, <2>4 DEF WriteCounters
<1>4. CASE ReadBlacklist(p)
  <2>1. ver[p] \in Versions
    BY <1>4 DEF ReadBlacklist, Step
  <2>2. faults' \in 0..MaxFaults
    BY <1>4, SharedDirsConstants DEF ReadBlacklist, Fault
  <2>3. list' \in [Procs -> SUBSET Versions]
    BY <1>4, <2>1 DEF ReadBlacklist
  <2>4. QED
    BY <1>4, <2>2, <2>3 DEF ReadBlacklist, Step
<1>5. CASE WriteBlacklist(p)
  BY <1>5 DEF WriteBlacklist, Step
<1>6. CASE LogBlacklisted(p)
  BY <1>6 DEF LogBlacklisted, Step, Forget, NoCounts
<1>7. CASE RollbackStops(p)
  <2>1. faults' \in 0..MaxFaults
    BY <1>7, SharedDirsConstants DEF RollbackStops, Fault
  <2>2. QED
    BY <1>7, <2>1 DEF RollbackStops, Step, Forget, NoCounts
<1>8. QED
  BY <1>1, <1>2, <1>3, <1>4, <1>5, <1>6, <1>7 DEF RollbackStep

(* The steps of the download keep the types.                                *)
LEMMA StageType ==
  ASSUME TypeOK, NEW p \in Procs, StageStep(p)
  PROVE  TypeOK'
<1> USE DEF TypeOK, RollbackPCs, StagePCs, trail, books, staging, reading, Contents
<1>1. CASE BeginStage(p)
  BY <1>1 DEF BeginStage, Step, Enter
<1>2. CASE Stream(p)
  BY <1>2 DEF Stream, Step
<1>3. CASE StreamFailed(p) \/ CheckFailed(p)
  <2>1. handle' \in [Procs -> {"none", "temp", "final", "gone"}] /\ temp' \in Contents
    BY <1>3 DEF StreamFailed, CheckFailed, RemoveTemp
  <2>2. QED
    BY <1>3, <2>1 DEF StreamFailed, CheckFailed, Step
<1>4. CASE Create(p)
  BY <1>4 DEF Create, Step
<1>5. CASE Fill(p)
  <2>1. temp' \in Contents /\ final' \in Contents
    BY <1>5 DEF Fill, Written
  <2>2. QED
    BY <1>5, <2>1 DEF Fill, Step
<1>6. CASE CheckPassed(p)
  BY <1>6 DEF CheckPassed, Step
<1>7. CASE CheckUndecodable(p) \/ RenameMissing(p)
  BY <1>7 DEF CheckUndecodable, RenameMissing, Leave, Step
<1>8. CASE Rename(p)
  <2>1. staged' \in [body : Payloads \cup {NoFile}, alone : BOOLEAN]
    BY <1>8 DEF Rename
  <2>2. QED
    BY <1>8, <2>1 DEF Rename, Step
<1>9. CASE StagingStops(p)
  <2>1. faults' \in 0..MaxFaults
    BY <1>9, SharedDirsConstants DEF StagingStops, Fault
  <2>2. handle' \in [Procs -> {"none", "temp", "final", "gone"}] /\ temp' \in Contents
    BY <1>9 DEF StagingStops, Leave, RemoveTemp
  <2>3. body' \in [Procs -> Payloads \cup {NoFile}]
    BY <1>9 DEF StagingStops, Leave
  <2>4. PICK from \in StagePCs : Step(p, from, "idle")
    BY <1>9 DEF StagingStops, Leave
  <2>5. UNCHANGED <<logged, announced, counters, blacklist, final, ver, book, list,
                    alone, crossed, staged>>
    BY <1>9 DEF StagingStops, Leave
  <2>6. QED
    BY <2>1, <2>2, <2>3, <2>4, <2>5 DEF Step
<1>10. QED
  BY <1>1, <1>2, <1>3, <1>4, <1>5, <1>6, <1>7, <1>8, <1>9 DEF StageStep

(* Every variable keeps its type: calls of several processes never leave a  *)
(* process with the locals of another step.                                 *)
THEOREM SharedDirsType == Spec => []TypeOK
<1>1. TypeOK /\ UNCHANGED vars => TypeOK'
  BY DEF TypeOK, vars, trail, books, staging, reading
<1>2. TypeOK /\ [Next]_vars => TypeOK'
  BY <1>1, RollbackType, StageType DEF Next
<1>3. QED
  BY InitType, <1>2, PTL DEF Spec

-----------------------------------------------------------------------------
(* Nothing is counted twice: the file, and each copy of it that a process   *)
(* is about to write back, leaves room for all rollbacks that are logged    *)
(* and not yet counted.  What goes on the list has passed the threshold.    *)
CountInv ==
    /\ CountsAreReal
    /\ \A p \in Procs, v \in Versions :
          pc[p] = "counted" => book[p][v] + Cardinality(Counting(v)) <= logged[v]

ListInv ==
    /\ BlacklistJustified
    /\ \A p \in Procs :
          /\ pc[p] \in {"listing", "listed", "announce"}
                => logged[ver[p]] >= BlacklistThreshold
          /\ \A v \in list[p] : logged[v] >= BlacklistThreshold

(* The rollbacks between audit line and counter are finitely many.          *)
LEMMA CountingFinite ==
  ASSUME NEW v \in Versions
  PROVE  IsFiniteSet(Counting(v)) /\ Cardinality(Counting(v)) \in Nat
BY SharedDirsConstants, FS_Subset, FS_CardinalityType DEF Counting

(* A logged rollback adds itself.                                           *)
LEMMA CountingGrows ==
  ASSUME TypeOK, NEW p \in Procs, LogSuccess(p), NEW v \in Versions
  PROVE  Cardinality(Counting(v)') - Cardinality(Counting(v)) = logged'[v] - logged[v]
<1>1. PICK w \in Versions : /\ logged' = [logged EXCEPT ![w] = @ + 1]
                            /\ ver' = [ver EXCEPT ![p] = w]
  BY DEF LogSuccess
<1>2. pc' = [pc EXCEPT ![p] = "logged"] /\ pc[p] = "idle"
  BY DEF LogSuccess, Step
<1>3. Cardinality(Counting(v)) \in Nat /\ IsFiniteSet(Counting(v))
  BY CountingFinite
<1>4. CASE v = w
  <2>1. Counting(v)' = Counting(v) \cup {p} /\ p \notin Counting(v)
    BY <1>1, <1>2, <1>4 DEF Counting, TypeOK
  <2>2. Cardinality(Counting(v)') = Cardinality(Counting(v)) + 1
    BY <2>1, <1>3, FS_AddElement
  <2>3. logged'[v] = logged[v] + 1 /\ logged[v] \in Nat
    BY <1>1, <1>4 DEF TypeOK
  <2>4. QED
    BY <2>2, <2>3, <1>3
<1>5. CASE v # w
  <2>0. /\ pc'[p] = "logged" /\ ver'[p] = w
        /\ \A q \in Procs \ {p} : pc'[q] = pc[q] /\ ver'[q] = ver[q]
    BY <1>1, <1>2 DEF TypeOK
  <2>1. Counting(v)' = Counting(v)
    BY <2>0, <1>2, <1>5 DEF Counting
  <2>2. logged'[v] = logged[v] /\ logged[v] \in Nat
    BY <1>1, <1>5 DEF TypeOK
  <2>3. QED
    BY <2>1, <2>2, <1>3
<1>6. QED
  BY <1>4, <1>5

(* A process that stops counting takes itself out, and only itself.         *)
LEMMA CountingShrinks ==
  ASSUME TypeOK, NEW p \in Procs, NEW v \in Versions,
         pc' = [pc EXCEPT ![p] = "idle"] \/ pc' = [pc EXCEPT ![p] = "listing"],
         ver' = ver \/ ver' = [ver EXCEPT ![p] = NoVersion]
  PROVE  /\ Cardinality(Counting(v)') <= Cardinality(Counting(v))
         /\ p \in Counting(v)
               => Cardinality(Counting(v)') = Cardinality(Counting(v)) - 1
<1>1. Counting(v)' = Counting(v) \ {p}
  BY SharedDirsConstants DEF Counting, TypeOK
<1>2. Cardinality(Counting(v)) \in Nat /\ IsFiniteSet(Counting(v))
  BY CountingFinite
<1>3. CASE p \in Counting(v)
  <2>1. Cardinality(Counting(v) \ {p}) = Cardinality(Counting(v)) - 1
    BY <1>2, <1>3, FS_RemoveElement
  <2>2. Cardinality(Counting(v)') = Cardinality(Counting(v)) - 1
    BY <1>1, <2>1
  <2>3. QED
    BY <2>2, <1>2
<1>4. CASE p \notin Counting(v)
  <2>1. Counting(v)' = Counting(v)
    BY <1>1, <1>4
  <2>2. Cardinality(Counting(v)') = Cardinality(Counting(v))
    BY <2>1
  <2>3. QED
    BY <2>2, <1>2, <1>4
<1>5. QED
  BY <1>3, <1>4

(* No step of a rollback breaks the count.                                  *)
LEMMA CountKept ==
  ASSUME TypeOK, CountInv, NEW p \in Procs, RollbackStep(p)
  PROVE  CountInv'
<1> USE DEF CountInv, CountsAreReal
<1>0. \A v \in Versions :
         /\ Cardinality(Counting(v)) \in Nat
         /\ counters[v] \in Nat /\ logged[v] \in Nat
         /\ \A q \in Procs : book[q][v] \in Nat
  BY CountingFinite DEF TypeOK
<1>1. CASE LogSuccess(p)
  <2>1. \A v \in Versions :
           Cardinality(Counting(v)') = Cardinality(Counting(v)) + (logged'[v] - logged[v])
    <3>1. TAKE v \in Versions
    <3>2. Cardinality(Counting(v)') - Cardinality(Counting(v)) = logged'[v] - logged[v]
      BY <1>1, CountingGrows
    <3>3. Counting(v)' \subseteq Procs
      BY DEF Counting
    <3>4. Cardinality(Counting(v)') \in Nat /\ logged'[v] \in Nat
      BY <3>3, <1>0, <1>1, SharedDirsConstants, FS_Subset, FS_CardinalityType
         DEF LogSuccess, TypeOK
    <3>5. QED
      BY <3>2, <3>4, <1>0
  <2>2. counters' = counters /\ book' = book
    BY <1>1 DEF LogSuccess, books
  <2>3. \A q \in Procs : pc'[q] = "counted" => pc[q] = "counted"
    BY <1>1 DEF LogSuccess, Step, TypeOK
  <2>4. \A v \in Versions : logged'[v] \in Nat
    BY <1>1 DEF LogSuccess, TypeOK
  <2>5. CountsAreReal'
    BY <2>1, <2>2, <2>4, <1>0
  <2>6. QED
    BY <2>1, <2>2, <2>3, <2>4, <2>5, <1>0
<1>2. CASE ReadCounters(p)
  <2>1. /\ pc' = [pc EXCEPT ![p] = "counted"] /\ pc[p] = "logged"
        /\ book' = [book EXCEPT ![p] = counters]
        /\ UNCHANGED <<counters, logged, ver>>
    BY <1>2 DEF ReadCounters, Step, trail, books
  <2>2. \A v \in Versions : Counting(v)' = Counting(v)
    BY <2>1 DEF Counting, TypeOK
  <2>3. \A v \in Versions : Cardinality(Counting(v)') = Cardinality(Counting(v))
    BY <2>2
  <2>4. \A q \in Procs : \/ q = p /\ book'[q] = counters
                         \/ book'[q] = book[q] /\ pc'[q] = pc[q]
    BY <2>1 DEF TypeOK
  <2>5. QED
    BY <2>1, <2>3, <2>4
<1>3. CASE WriteCounters(p)
  <2>1. /\ pc[p] = "counted" /\ logged' = logged
        /\ counters' = [book[p] EXCEPT ![ver[p]] = NewCount(p)]
        /\ pc' = [pc EXCEPT ![p] = "idle"] \/ pc' = [pc EXCEPT ![p] = "listing"]
        /\ ver' = ver \/ ver' = [ver EXCEPT ![p] = NoVersion]
    BY <1>3 DEF WriteCounters, Step, Forget, trail, reading
  <2>2. ver[p] \in Versions /\ p \in Counting(ver[p])
    BY <2>1 DEF TypeOK, Counting, RollbackPCs
  <2>3. \A v \in Versions :
           /\ Cardinality(Counting(v)') <= Cardinality(Counting(v))
           /\ v = ver[p] => Cardinality(Counting(v)') = Cardinality(Counting(v)) - 1
    BY <2>1, <2>2, CountingShrinks
  <2>4. \A v \in Versions : Cardinality(Counting(v)') \in Nat
    BY SharedDirsConstants, FS_Subset, FS_CardinalityType DEF Counting
  <2>5. \A v \in Versions : counters'[v] =
           IF v = ver[p] THEN book[p][v] + 1 ELSE book[p][v]
    BY <2>1, <2>2 DEF TypeOK, NewCount
  <2>6. CountsAreReal'
    BY <2>1, <2>3, <2>4, <2>5, <1>0
  <2>7. \A q \in Procs : pc'[q] = "counted" => pc[q] = "counted" /\ book'[q] = book[q]
    BY <1>3 DEF WriteCounters, Step, Forget, reading, TypeOK
  <2>8. QED
    BY <2>1, <2>3, <2>4, <2>6, <2>7, <1>0
<1>4. CASE ReadBlacklist(p) \/ WriteBlacklist(p) \/ LogBlacklisted(p) \/ RollbackStops(p)
  <2>1. /\ \A q \in Procs : pc'[q] = "counted" => pc[q] = "counted" /\ book'[q] = book[q]
        /\ counters' = counters /\ logged' = logged
    BY <1>4 DEF ReadBlacklist, WriteBlacklist, LogBlacklisted, RollbackStops,
                Step, Forget, trail, books, reading, TypeOK
  <2>2. \A v \in Versions : Counting(v)' \subseteq Counting(v)
    BY <1>4, SharedDirsConstants
       DEF ReadBlacklist, WriteBlacklist, LogBlacklisted, RollbackStops,
           Step, Forget, reading, Counting, TypeOK
  <2>3. \A v \in Versions : /\ Cardinality(Counting(v)') <= Cardinality(Counting(v))
                            /\ Cardinality(Counting(v)') \in Nat
    BY <2>2, CountingFinite, FS_Subset, FS_CardinalityType
  <2>4. QED
    BY <2>1, <2>3, <1>0
<1>5. QED
  BY <1>1, <1>2, <1>3, <1>4 DEF RollbackStep

(* No step of a rollback lists a version too early.                         *)
LEMMA ListKept ==
  ASSUME TypeOK, CountInv, ListInv, NEW p \in Procs, RollbackStep(p)
  PROVE  ListInv'
<1> USE DEF ListInv, BlacklistJustified, BlacklistThreshold, trail, books, reading
<1>0. \A v \in Versions : logged[v] \in Nat
  BY DEF TypeOK
<1>1. CASE LogSuccess(p)
  <2>1. \A v \in Versions : logged'[v] >= logged[v] /\ logged'[v] \in Nat
    BY <1>1 DEF LogSuccess, TypeOK
  <2>2. \A q \in Procs : /\ pc'[q] \in {"listing", "listed", "announce"}
                               => pc[q] = pc'[q] /\ ver'[q] = ver[q]
                         /\ pc'[q] \in {"listing", "listed", "announce"}
                               => ver[q] \in Versions
    BY <1>1 DEF LogSuccess, Step, TypeOK, RollbackPCs
  <2>3. UNCHANGED <<blacklist, announced, list>>
    BY <1>1 DEF LogSuccess
  <2>4. blacklist \cup announced \subseteq Versions /\ \A q \in Procs : list[q] \subseteq Versions
    BY DEF TypeOK
  <2>5. QED
    BY <2>1, <2>2, <2>3, <2>4, <1>0
<1>2. CASE ReadCounters(p)
  BY <1>2 DEF ReadCounters, Step, TypeOK
<1>3. CASE WriteCounters(p)
  <2>1. pc[p] = "counted" /\ ver[p] \in Versions
    BY <1>3 DEF WriteCounters, TypeOK, RollbackPCs
  <2>2. NewCount(p) <= logged[ver[p]]
    <3>1. p \in Counting(ver[p])
      BY <2>1 DEF Counting
    <3>2. Cardinality(Counting(ver[p])) >= 1
      <4>1. Cardinality(Counting(ver[p]) \ {p}) = Cardinality(Counting(ver[p])) - 1
        BY <3>1, <2>1, CountingFinite, FS_RemoveElement
      <4>2. Cardinality(Counting(ver[p]) \ {p}) \in Nat
        BY <2>1, CountingFinite, FS_Subset, FS_CardinalityType
      <4>3. QED
        BY <4>1, <4>2, <2>1, CountingFinite
    <3>3. book[p][ver[p]] + Cardinality(Counting(ver[p])) <= logged[ver[p]]
      BY <2>1 DEF CountInv
    <3>4. book[p][ver[p]] \in Nat /\ Cardinality(Counting(ver[p])) \in Nat
      BY <2>1, CountingFinite DEF TypeOK
    <3>5. QED
      BY <3>2, <3>3, <3>4, <2>1, <1>0 DEF NewCount
  <2>3. NewCount(p) \in Nat
    BY <2>1 DEF NewCount, TypeOK
  <2>4. CASE NewCount(p) >= BlacklistThreshold /\ Step(p, "counted", "listing") /\ UNCHANGED reading
    BY <1>3, <2>1, <2>2, <2>3, <2>4, <1>0 DEF WriteCounters, Step, TypeOK
  <2>5. CASE Step(p, "counted", "idle") /\ Forget(p)
    BY <1>3, <2>1, <2>5, <1>0 DEF WriteCounters, Step, Forget, TypeOK
  <2>6. QED
    BY <1>3, <2>4, <2>5 DEF WriteCounters
<1>4. CASE ReadBlacklist(p)
  BY <1>4 DEF ReadBlacklist, Step, TypeOK
<1>5. CASE WriteBlacklist(p)
  BY <1>5 DEF WriteBlacklist, Step, TypeOK
<1>6. CASE LogBlacklisted(p) \/ RollbackStops(p)
  BY <1>6 DEF LogBlacklisted, RollbackStops, Step, Forget, TypeOK
<1>7. QED
  BY <1>1, <1>2, <1>3, <1>4, <1>5, <1>6 DEF RollbackStep

(* A download leaves the books and everybody's place in them alone.         *)
LEMMA StageLeavesBooks ==
  ASSUME TypeOK, NEW p \in Procs, StageStep(p)
  PROVE  /\ UNCHANGED <<trail, books, reading>>
         /\ \A q \in Procs : pc[q] \in RollbackPCs \/ pc'[q] \in RollbackPCs => pc'[q] = pc[q]
<1> USE DEF StageStep, BeginStage, Stream, StreamFailed, Create, Fill, CheckPassed,
            CheckFailed, CheckUndecodable, Rename, RenameMissing, StagingStops, Leave
<1>1. UNCHANGED <<trail, books, reading>>
  OBVIOUS
<1>2. \E from \in StagePCs \cup {"idle"}, to \in StagePCs \cup {"idle"} : Step(p, from, to)
  BY DEF StagePCs
<1>3. QED
  BY <1>1, <1>2 DEF Step, RollbackPCs, StagePCs, TypeOK

(* Hence it keeps what is true of them.                                     *)
LEMMA StageKeepsCounts ==
  ASSUME TypeOK, CountInv, ListInv, NEW p \in Procs, StageStep(p)
  PROVE  CountInv' /\ ListInv'
<1>1. UNCHANGED <<logged, announced, counters, blacklist, ver, book, list>>
  BY StageLeavesBooks DEF trail, books, reading
<1>2. \A q \in Procs : pc[q] \in RollbackPCs \/ pc'[q] \in RollbackPCs => pc'[q] = pc[q]
  BY StageLeavesBooks
<1>3. \A v \in Versions : Counting(v)' = Counting(v)
  BY <1>1, <1>2 DEF Counting, RollbackPCs
<1>4. \A v \in Versions : Cardinality(Counting(v)') = Cardinality(Counting(v))
  BY <1>3
<1>5. \A q \in Procs : pc'[q] = "counted" => pc[q] = "counted"
  BY <1>2 DEF RollbackPCs
<1>6. CountInv'
  BY <1>1, <1>4, <1>5 DEF CountInv, CountsAreReal
<1>7. \A q \in Procs : pc'[q] \in {"listing", "listed", "announce"} => pc'[q] = pc[q]
  BY <1>2 DEF RollbackPCs
<1>8. ListInv'
  BY <1>1, <1>7 DEF ListInv, BlacklistJustified
<1>9. QED
  BY <1>6, <1>8

(* Together: an inductive invariant of the books.                           *)
LEMMA BooksInvariant == Spec => [](CountInv /\ ListInv)
<1>1. Init => CountInv /\ ListInv
  <2> SUFFICES ASSUME Init PROVE CountInv /\ ListInv
    OBVIOUS
  <2>1. \A v \in Versions : Counting(v) = {}
    BY DEF Init, Counting
  <2>2. \A v \in Versions : Cardinality(Counting(v)) = 0
    BY <2>1, FS_EmptySet
  <2>3. \A v \in Versions : counters[v] = 0 /\ logged[v] = 0
    BY DEF Init, NoCounts
  <2>4. QED
    BY <2>2, <2>3 DEF Init, CountInv, CountsAreReal, ListInv, BlacklistJustified
<1>2. TypeOK /\ CountInv /\ ListInv /\ UNCHANGED vars => CountInv' /\ ListInv'
  <2> SUFFICES ASSUME CountInv, ListInv, UNCHANGED vars PROVE CountInv' /\ ListInv'
    OBVIOUS
  <2>1. UNCHANGED <<logged, announced, counters, blacklist, pc, ver, book, list>>
    BY DEF vars, trail, books, reading
  <2>2. \A v \in Versions : Cardinality(Counting(v)') = Cardinality(Counting(v))
    BY <2>1 DEF Counting
  <2>3. QED
    BY <2>1, <2>2 DEF CountInv, CountsAreReal, ListInv, BlacklistJustified
<1>3. TypeOK /\ CountInv /\ ListInv /\ [Next]_vars => CountInv' /\ ListInv'
  BY <1>2, CountKept, ListKept, StageKeepsCounts DEF Next
<1>4. QED
  BY <1>1, <1>3, SharedDirsType, PTL DEF Spec

(* rollback.rs:515-531: however many processes share the file, it never     *)
(* counts a rollback that is not in the log.                                *)
THEOREM CountsStayReal == Spec => []CountsAreReal
BY BooksInvariant, PTL DEF CountInv

(* rollback.rs:415-462: however many processes share the books, only what   *)
(* was rolled back three times is blacklisted or announced.                 *)
THEOREM BlacklistStaysJustified == Spec => []BlacklistJustified
BY BooksInvariant, PTL DEF ListInv

-----------------------------------------------------------------------------
(* While a download runs alone nobody else has a file open: what it writes  *)
(* is complete, keeps its name until it is renamed, and is not changed      *)
(* afterwards through a descriptor that is still open.                      *)
StageInv ==
    /\ StagedAloneIsVerified
    /\ \A p \in Procs :
          /\ handle[p] # "none" => pc[p] = "fill"
          /\ handle[p] = "final" => ~staged.alone
          /\ pc[p] = "rename" => body[p] \in Genuine
          /\ alone[p] /\ pc[p] \in StagePCs => \A q \in Procs \ {p} : pc[q] \notin StagePCs
          /\ alone[p] /\ pc[p] = "fill" => handle[p] = "temp" /\ temp = Torn
          /\ alone[p] /\ pc[p] \in {"check", "rename"} => temp = body[p]

(* No step of a download breaks it.                                         *)
LEMMA StageKept ==
  ASSUME TypeOK, StageInv, NEW p \in Procs, StageStep(p)
  PROVE  StageInv'
<1> USE DEF StageInv, StagedAloneIsVerified, TypeOK, StagePCs, staging
<1>1. CASE BeginStage(p)
  <2>1. pc[p] = "idle" /\ pc' = [pc EXCEPT ![p] = "stream"] /\ UNCHANGED staging
    BY <1>1 DEF BeginStage, Step
  <2>2. \A q \in Procs \ {p} : pc[q] \in StagePCs => ~alone'[q]
    BY ONLY <1>1 DEF BeginStage, Enter
  <2>3. alone'[p] => \A q \in Procs \ {p} : pc[q] \notin StagePCs
    BY ONLY <1>1 DEF BeginStage, Enter
  <2>4. handle[p] = "none"
    BY <2>1
  <2>5. QED
    BY <2>1, <2>2, <2>3, <2>4
<1>2. CASE Stream(p)
  BY <1>2 DEF Stream, Step
<1>3. CASE StreamFailed(p)
  BY <1>3 DEF StreamFailed, RemoveTemp, Step
<1>4. CASE Create(p)
  BY <1>4 DEF Create, Step
<1>5. CASE Fill(p)
  <2>1. /\ pc[p] = "fill" /\ pc' = [pc EXCEPT ![p] = "check"]
        /\ handle' = [handle EXCEPT ![p] = "none"]
        /\ UNCHANGED <<body, staged, alone>>
    BY <1>5 DEF Fill, Step
  <2>2. \A q \in Procs \ {p} : alone[q] => pc[q] \notin StagePCs
    BY <2>1
  <2>3. alone[p] => temp' = body[p]
    <3>1. SUFFICES ASSUME alone[p] PROVE temp' = body[p]
      OBVIOUS
    <3>2. handle[p] = "temp" /\ temp = Torn
      BY <3>1, <2>1
    <3>3. \A q \in Procs \ {p} : handle[q] = "none"
      BY <3>1, <2>1
    <3>4. Written(p, temp) = {body[p]}
      BY <3>2, <3>3 DEF Written
    <3>5. QED
      BY <1>5, <3>2, <3>4 DEF Fill
  <2>4. handle[p] # "final" => final' = final
    BY <1>5 DEF Fill
  <2>5. StagedAloneIsVerified'
    BY <2>1, <2>4
  <2>6. QED
    BY <2>1, <2>2, <2>3, <2>5
<1>6. CASE CheckPassed(p)
  BY <1>6 DEF CheckPassed, Step
<1>7. CASE CheckFailed(p)
  BY <1>7 DEF CheckFailed, RemoveTemp, Step
<1>8. CASE CheckUndecodable(p) \/ RenameMissing(p)
  BY <1>8 DEF CheckUndecodable, RenameMissing, Leave, Step
<1>9. CASE Rename(p)
  BY <1>9 DEF Rename, Step
<1>10. CASE StagingStops(p)
  <2>1. CASE (\E from \in StagePCs : Leave(p, from)) /\ UNCHANGED <<temp, final, staged>>
    BY <2>1 DEF Leave, Step
  <2>2. CASE /\ Step(p, "rename", "idle") /\ RemoveTemp(p)
             /\ body' = [body EXCEPT ![p] = NoFile] /\ UNCHANGED <<alone, final, staged>>
    BY <2>2 DEF RemoveTemp, Step
  <2>3. QED
    BY <1>10, <2>1, <2>2 DEF StagingStops
<1>11. QED
  BY <1>1, <1>2, <1>3, <1>4, <1>5, <1>6, <1>7, <1>8, <1>9, <1>10 DEF StageStep

(* Nor does a step of a rollback, which only touches other files.           *)
LEMMA RollbackLeavesStage ==
  ASSUME TypeOK, StageInv, NEW p \in Procs, RollbackStep(p)
  PROVE  StageInv'
<1>1. UNCHANGED staging
  BY DEF RollbackStep, LogSuccess, ReadCounters, WriteCounters, ReadBlacklist,
         WriteBlacklist, LogBlacklisted, RollbackStops
<1>2. \E from, to \in RollbackPCs \cup {"idle"} : Step(p, from, to)
  BY DEF RollbackStep, LogSuccess, ReadCounters, WriteCounters, ReadBlacklist,
         WriteBlacklist, LogBlacklisted, RollbackStops, RollbackPCs
<1>3. \A q \in Procs : pc[q] \in StagePCs \/ pc'[q] \in StagePCs
                          => pc'[q] = pc[q] /\ alone'[q] = alone[q]
  <2>1. \A q \in Procs : pc[q] \in StagePCs \/ pc'[q] \in StagePCs => pc'[q] = pc[q] /\ q # p
    BY <1>2 DEF Step, RollbackPCs, StagePCs, TypeOK
  <2>2. \A q \in Procs : pc[q] \in StagePCs /\ q # p => alone'[q] = alone[q]
    BY DEF RollbackStep, LogSuccess, ReadCounters, WriteCounters, ReadBlacklist,
           WriteBlacklist, LogBlacklisted, RollbackStops, Enter, RollbackPCs, StagePCs, TypeOK
  <2>3. QED
    BY <2>1, <2>2
<1>4. QED
  BY <1>1, <1>3 DEF StageInv, StagedAloneIsVerified, staging, StagePCs

(* downloader.rs:705-797: a call that no other call overlaps stages the     *)
(* bytes it checked, for any number of processes, crashes and left-over     *)
(* files.                                                                   *)
THEOREM AloneIsSafe == Spec => []StagedAloneIsVerified
<1>1. Init => StageInv
  BY DEF Init, StageInv, StagedAloneIsVerified, NotStaged, StagePCs
<1>2. StageInv /\ UNCHANGED vars => StageInv'
  BY DEF vars, staging, StageInv, StagedAloneIsVerified
<1>3. TypeOK /\ StageInv /\ [Next]_vars => StageInv'
  BY <1>2, StageKept, RollbackLeavesStage DEF Next
<1>4. StageInv => StagedAloneIsVerified
  BY DEF StageInv
<1>5. QED
  BY <1>1, <1>3, <1>4, SharedDirsType, PTL DEF Spec

-----------------------------------------------------------------------------
(* As long as rollbacks take turns and nothing fails, the books lag behind  *)
(* the log by exactly what the one running rollback has still to write.     *)
Agree(v) == v \in blacklist <=> counters[v] >= BlacklistThreshold

Turn(p) ==
    /\ pc[p] \in {"logged", "counted"} =>
          \A v \in Versions :
              /\ logged[v] = IF v = ver[p] THEN counters[v] + 1 ELSE counters[v]
              /\ Agree(v)
    /\ pc[p] = "counted" => book[p] = counters
    /\ pc[p] \in {"listing", "listed", "announce"} => counters = logged
    /\ pc[p] \in {"listing", "listed"} =>
          /\ logged[ver[p]] >= BlacklistThreshold
          /\ \A v \in Versions \ {ver[p]} : Agree(v)
    /\ pc[p] = "listed" => list[p] = blacklist \cup {ver[p]}
    /\ pc[p] = "announce" => \A v \in Versions : Agree(v)

Quiet == \A p \in Procs : pc[p] \notin RollbackPCs

TurnInv ==
    ~crossed /\ faults = 0 =>
        /\ \A p, q \in Procs : pc[p] \in RollbackPCs /\ pc[q] \in RollbackPCs => p = q
        /\ Quiet => counters = logged /\ \A v \in Versions : Agree(v)
        /\ \A p \in Procs : Turn(p)

(* A step of a rollback moves the lag on.                                   *)
LEMMA TurnKept ==
  ASSUME TypeOK, TurnInv, NEW p \in Procs, RollbackStep(p)
  PROVE  TurnInv'
<1> SUFFICES ASSUME ~crossed', faults' = 0
             PROVE  /\ \A q, r \in Procs : pc'[q] \in RollbackPCs /\ pc'[r] \in RollbackPCs => q = r
                    /\ Quiet' => counters' = logged' /\ \A v \in Versions : Agree(v)'
                    /\ \A q \in Procs : Turn(q)'
  BY DEF TurnInv
<1>1. ~crossed /\ faults = 0
  <2>1. faults \in Nat /\ (faults' = faults \/ faults' = faults + 1)
    BY SharedDirsConstants
       DEF RollbackStep, LogSuccess, ReadCounters, WriteCounters, ReadBlacklist,
           WriteBlacklist, LogBlacklisted, RollbackStops, Fault, TypeOK
  <2>2. crossed' = crossed \/ (crossed => crossed')
    BY DEF RollbackStep, LogSuccess, ReadCounters, WriteCounters, ReadBlacklist,
           WriteBlacklist, LogBlacklisted, RollbackStops, Enter
  <2>3. QED
    BY <2>1, <2>2
<1>2. /\ \A q, r \in Procs : pc[q] \in RollbackPCs /\ pc[r] \in RollbackPCs => q = r
      /\ Quiet => counters = logged /\ \A v \in Versions : Agree(v)
      /\ Turn(p)
  BY <1>1 DEF TurnInv
<1>3. \A q \in Procs \ {p} : pc'[q] = pc[q]
  BY DEF RollbackStep, LogSuccess, ReadCounters, WriteCounters, ReadBlacklist,
         WriteBlacklist, LogBlacklisted, RollbackStops, Step, TypeOK
<1>4. \A q \in Procs \ {p} : pc[q] \notin RollbackPCs
  <2>1. CASE LogSuccess(p)
    BY <2>1 DEF LogSuccess, Enter
  <2>2. CASE pc[p] \in RollbackPCs
    BY <2>2, <1>2
  <2>3. QED
    BY <2>1, <2>2 DEF RollbackStep, ReadCounters, WriteCounters, ReadBlacklist,
       WriteBlacklist, LogBlacklisted, RollbackStops, Step, RollbackPCs
<1>5. \A q \in Procs \ {p} : Turn(q)'
  BY <1>3, <1>4 DEF Turn, RollbackPCs
<1>6. \A v \in Versions : counters[v] \in Nat /\ logged[v] \in Nat
  BY DEF TypeOK
<1>7. Turn(p)' /\ (pc'[p] = "idle" => counters' = logged' /\ \A v \in Versions : Agree(v)')
  <2> USE <1>2, <1>6 DEF Turn, Agree, BlacklistThreshold, trail, books, reading
  <2>1. CASE LogSuccess(p)
    <3>1. Quiet
      BY <2>1, <1>4 DEF Quiet, LogSuccess, Step, RollbackPCs
    <3>2. pc'[p] = "logged"
      BY <2>1 DEF LogSuccess, Step, TypeOK
    <3>3. PICK w \in Versions : /\ logged' = [logged EXCEPT ![w] = @ + 1]
                                /\ ver' = [ver EXCEPT ![p] = w]
      BY <2>1 DEF LogSuccess
    <3>4. ver'[p] = w /\ \A v \in Versions :
             logged'[v] = IF v = w THEN logged[v] + 1 ELSE logged[v]
      BY <3>3 DEF TypeOK
    <3>5. UNCHANGED <<counters, blacklist>>
      BY <2>1 DEF LogSuccess
    <3>6. QED
      BY <3>1, <3>2, <3>4, <3>5
  <2>2. CASE ReadCounters(p)
    BY <2>2 DEF ReadCounters, Step, TypeOK
  <2>3. CASE WriteCounters(p)
    <3>1. pc[p] = "counted" /\ ver[p] \in Versions /\ UNCHANGED <<blacklist, logged>>
      BY <2>3 DEF WriteCounters, TypeOK, RollbackPCs
    <3>2. counters' = [counters EXCEPT ![ver[p]] = @ + 1] /\ NewCount(p) = counters[ver[p]] + 1
      BY <2>3, <3>1 DEF WriteCounters, NewCount
    <3>3. counters' = logged
      BY <3>1, <3>2 DEF TypeOK
    <3>4. \A v \in Versions \ {ver[p]} : counters'[v] = counters[v]
      BY <3>2 DEF TypeOK
    <3>5. CASE NewCount(p) >= BlacklistThreshold /\ Step(p, "counted", "listing") /\ UNCHANGED reading
      BY <3>1, <3>2, <3>3, <3>4, <3>5 DEF Step, TypeOK
    <3>6. CASE NewCount(p) < BlacklistThreshold /\ Step(p, "counted", "idle") /\ Forget(p)
      BY <3>1, <3>2, <3>3, <3>4, <3>6 DEF Step, TypeOK
    <3>7. QED
      BY <2>3, <3>5, <3>6 DEF WriteCounters
  <2>4. CASE ReadBlacklist(p)
    <3>1. ~Fault("blacklist_read")
      BY <1>1 DEF Fault
    <3>2. /\ pc[p] = "listing" /\ pc'[p] = "listed" /\ list'[p] = blacklist \cup {ver[p]}
          /\ UNCHANGED <<logged, counters, blacklist, ver, book>>
      BY <2>4, <3>1 DEF ReadBlacklist, Step, TypeOK
    <3>3. QED
      BY <3>2
  <2>5. CASE WriteBlacklist(p)
    <3>1. /\ pc[p] = "listed" /\ pc'[p] = "announce" /\ blacklist' = blacklist \cup {ver[p]}
          /\ UNCHANGED <<logged, counters, ver>> /\ ver[p] \in Versions
      BY <2>5 DEF WriteBlacklist, Step, TypeOK, RollbackPCs
    <3>2. QED
      BY <3>1
  <2>6. CASE LogBlacklisted(p)
    BY <2>6 DEF LogBlacklisted, Step, TypeOK
  <2>7. CASE RollbackStops(p)
    BY <2>7, <1>1 DEF RollbackStops, Fault
  <2>8. QED
    BY <2>1, <2>2, <2>3, <2>4, <2>5, <2>6, <2>7 DEF RollbackStep
<1>8. \A q, r \in Procs : pc'[q] \in RollbackPCs /\ pc'[r] \in RollbackPCs => q = r
  BY <1>3, <1>4
<1>9. Quiet' => pc'[p] = "idle"
  BY DEF Quiet, RollbackStep, LogSuccess, ReadCounters, WriteCounters, ReadBlacklist,
         WriteBlacklist, LogBlacklisted, RollbackStops, Step, RollbackPCs, TypeOK
<1>10. QED
  BY <1>5, <1>7, <1>8, <1>9

(* rollback.rs:415-425: processes that take turns lose no count and no      *)
(* entry of the list.                                                       *)
THEOREM TurnsAreSafe == Spec => []TurnsKeepBooks
<1>1. Init => TurnInv
  BY DEF Init, TurnInv, Turn, Agree, NoCounts, RollbackPCs, BlacklistThreshold
<1>2. ASSUME TypeOK, TurnInv, NEW p \in Procs, StageStep(p) PROVE TurnInv'
  <2>1. faults \in Nat /\ (faults' = faults \/ faults' = faults + 1)
    BY <1>2, SharedDirsConstants
       DEF StageStep, BeginStage, Stream, StreamFailed, Create, Fill, CheckPassed,
           CheckFailed, CheckUndecodable, Rename, RenameMissing, StagingStops, Fault, TypeOK
  <2>2. UNCHANGED <<logged, counters, blacklist, ver, book, list>>
    BY <1>2, StageLeavesBooks DEF trail, books, reading
  <2>3. \A q \in Procs : pc[q] \in RollbackPCs \/ pc'[q] \in RollbackPCs => pc'[q] = pc[q]
    BY <1>2, StageLeavesBooks
  <2>4. crossed => crossed'
    BY <1>2
       DEF StageStep, BeginStage, Stream, StreamFailed, Create, Fill, CheckPassed,
           CheckFailed, CheckUndecodable, Rename, RenameMissing, StagingStops, Leave, Enter
  <2>5. ~crossed' /\ faults' = 0 => ~crossed /\ faults = 0
    BY <2>1, <2>4
  <2>6. \A q \in Procs : Turn(q) => Turn(q)'
    BY <2>2, <2>3 DEF Turn, Agree, RollbackPCs
  <2>7. QED
    BY <1>2, <2>2, <2>3, <2>5, <2>6 DEF TurnInv, Quiet, Agree
<1>3. TurnInv /\ UNCHANGED vars => TurnInv'
  BY DEF vars, trail, books, reading, TurnInv, Turn, Agree, Quiet
<1>4. TypeOK /\ TurnInv /\ [Next]_vars => TurnInv'
  BY <1>2, <1>3, TurnKept DEF Next
<1>5. TypeOK /\ TurnInv => TurnsKeepBooks
  BY DEF TurnInv, Quiet, Agree, TurnsKeepBooks, TypeOK
<1>6. QED
  BY <1>1, <1>4, <1>5, SharedDirsType, PTL DEF Spec
=============================================================================

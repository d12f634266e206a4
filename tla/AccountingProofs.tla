---------------- MODULE AccountingProofs ----------------
(* Proofs about the two modules that hand out what a node has a limited
   amount of.  JobScheduler: runs exclude each other by their keys, every
   run that is over is closed, permits are never waited for in a circle,
   and a shutdown that returns leaves no job at work.  Quota: its counters
   are what a recount of the live reservations would give, whatever was
   admitted can be settled, and it admits what QuotaLedger admits. *)
EXTENDS JobScheduler, Quota, Integers, FiniteSetTheorems, SequenceTheorems, WellFoundedInduction, TLAPS

--------------------------------
(* The inductive invariant. *)

TaskPlaces == {"free", "worker", "kind", "repository", "check", "start", "run", "finish", "done", "panicked"}
AtWork == {"start", "run", "finish"}
WithRecord == {"run", "finish", "panicked"}
WithRepository == {"check", "start", "run", "finish"}

TaskStates == [pc : TaskPlaces, job : Jobs \cup {NoJob}, run : 0..Len(runs)]

(* A task that keeps its job's key in the set of conflict keys; a panicked one never gives it back. *)
Owns(t) == task[t].pc \notin {"free", "done"}
Inserted(c) == caller[c].pc = "slot"

(* Each key belongs to one task or to one caller. *)
KeysHaveOwners ==
    /\ \A k : k \in inflight <=> \/ \E t \in Tasks : Owns(t) /\ task[t].job = k
                                 \/ \E c \in Callers : Inserted(c) /\ caller[c].job = k
    /\ \A t, u \in Tasks : Owns(t) /\ Owns(u) /\ task[t].job = task[u].job => t = u
    /\ \A c, d \in Callers : Inserted(c) /\ Inserted(d) /\ caller[c].job = caller[d].job => c = d
    /\ \A t \in Tasks, c \in Callers : Owns(t) /\ Inserted(c) => task[t].job # caller[c].job
    /\ \A t \in Tasks : Owns(t) => task[t].job \in Jobs
    /\ \A c \in Callers : caller[c].pc # "idle" => caller[c].job \in Jobs

Hired == {t \in Tasks : task[t].pc # "free"}
AtRepository(s) == {t \in HoldsRepository : Scope(task[t].job) = s}
PermitsAreBounded ==
    /\ IsFiniteSet(Hired)
    /\ \A s \in JobScopes : Cardinality(AtRepository(s)) <= PerRepository

ShutdownIsFinal ==
    /\ shutdown # "up" => cancelled
    /\ shutdown = "drained" => \A t \in Tasks : task[t].pc \notin AtWork

(* The records this process opened and did not close, those of them a task has, and the rest. *)
Open == {r \in (faults.found + 1)..Len(runs) : runs[r] = "running"}
Recorded == {t \in Tasks : task[t].pc \in WithRecord}
Owned == {task[t].run : t \in Recorded}
Lost == Open \ Owned
RecordsAreCounted ==
    /\ \A t \in Recorded : task[t].run \in 1..Len(runs)
    /\ Cardinality(Lost) <= faults.store

JobInv == JobTypeOK /\ KeysHaveOwners /\ PermitsAreBounded /\ ShutdownIsFinal /\ RecordsAreCounted

LEMMA Places ==
    ASSUME JobTypeOK
    PROVE  /\ Live = {t \in Tasks : task[t].pc \notin {"free", "done", "panicked"}}
           /\ Panicked = {t \in Tasks : task[t].pc = "panicked"}
           /\ HoldsRepository = {t \in Tasks : task[t].pc \in WithRepository}
           /\ \A pcs \in SUBSET AtWork : Holding(pcs) = {t \in Tasks : task[t].pc \in pcs}
           /\ task \in [Tasks -> TaskStates]
BY DEF Live, Panicked, HoldsRepository, Holding, WithRepository, AtWork, JobTypeOK, TaskStates, TaskPlaces

LEMMA LostIsFinite ==
    ASSUME JobTypeOK
    PROVE  IsFiniteSet(Open) /\ IsFiniteSet(Lost) /\ Cardinality(Lost) \in Nat /\ Cardinality(Open) \in Nat
           /\ faults.found \in Nat /\ faults.store \in Nat /\ Len(runs) \in Nat
<1>1. faults.found \in Nat /\ Len(runs) \in Nat /\ faults.store \in Nat BY FaultAssumption DEF JobTypeOK
<1>2. IsFiniteSet((faults.found + 1)..Len(runs))
  <2> PICK first : first = faults.found + 1 OBVIOUS
  <2>1. first \in Int /\ Len(runs) \in Int BY <1>1
  <2> QED BY <2>1, FS_Interval
<1>3. Open \in SUBSET ((faults.found + 1)..Len(runs)) /\ Lost \in SUBSET Open BY DEF Open, Lost
<1>4. IsFiniteSet(Open) BY <1>2, <1>3, FS_Subset
<1>5. IsFiniteSet(Lost) BY <1>3, <1>4, FS_Subset
<1> QED BY <1>1, <1>4, <1>5, FS_CardinalityType

LEMMA JobInvInit == JobInit => JobInv
<1> SUFFICES ASSUME JobInit PROVE JobInv OBVIOUS
<1> USE DEF JobInit
<1>1. runs \in Seq({"running", "succeeded", "failed"}) /\ Len(runs) = 0 OBVIOUS
<1>2. JobTypeOK
  <2>1. faults \in [store : 0..MaxStoreErrors, crashes : 0..MaxCrashes, found : 0..Len(runs)] BY <1>1, FaultAssumption
  <2>2. task \in [Tasks -> TaskStates] BY <1>1 DEF NoTask, TaskStates, TaskPlaces
  <2> QED BY <1>1, <2>1, <2>2 DEF JobTypeOK, TaskStates, TaskPlaces
<1>3. \A t \in Tasks : task[t].pc = "free" BY DEF NoTask
<1>4. KeysHaveOwners BY <1>3 DEF KeysHaveOwners, Owns, Inserted
<1>5. PermitsAreBounded
  <2>1. Hired = {} /\ \A s \in JobScopes : AtRepository(s) = {}
    BY <1>2, <1>3, Places DEF Hired, AtRepository, WithRepository
  <2>2. Cardinality({}) <= PerRepository /\ IsFiniteSet({}) BY FS_EmptySet, JobLimitAssumption
  <2> QED BY <2>1, <2>2 DEF PermitsAreBounded
<1>6. ShutdownIsFinal BY DEF ShutdownIsFinal
<1>7. RecordsAreCounted
  <2>1. Recorded = {} BY <1>3 DEF Recorded, WithRecord
  <2>2. Lost = {} /\ faults.store = 0 BY <1>1 DEF Lost, Open
  <2> QED BY <2>1, <2>2, FS_EmptySet DEF RecordsAreCounted
<1> QED BY <1>2, <1>4, <1>5, <1>6, <1>7 DEF JobInv

--------------------------------
(* What the invariant says. *)

LEMMA KeysFromInv == JobInv => NoOverlap /\ KeysAreExact
<1> SUFFICES ASSUME JobInv PROVE NoOverlap /\ KeysAreExact OBVIOUS
<1>1. JobTypeOK /\ KeysHaveOwners /\ PermitsAreBounded BY DEF JobInv
<1>2. ASSUME NEW t \in Live, NEW u \in Live, t # u PROVE task[t].job # task[u].job
  BY <1>1, <1>2, Places DEF KeysHaveOwners, Owns
<1>3. ASSUME NEW s \in JobScopes
      PROVE  Cardinality({t \in Holding({"run"}) : Scope(task[t].job) = s}) <= PerRepository
  <2> DEFINE R == {t \in Holding({"run"}) : Scope(task[t].job) = s}
  <2>1. R \in SUBSET AtRepository(s) BY <1>1, Places DEF AtRepository, WithRepository, AtWork
  <2>2. AtRepository(s) \in SUBSET Hired BY <1>1, Places DEF AtRepository, Hired, WithRepository
  <2>3. IsFiniteSet(AtRepository(s)) BY <1>1, <2>2, FS_Subset DEF PermitsAreBounded
  <2>4. IsFiniteSet(R) /\ Cardinality(R) <= Cardinality(AtRepository(s)) BY <2>1, <2>3, FS_Subset
  <2>5. Cardinality(R) \in Nat /\ Cardinality(AtRepository(s)) \in Nat /\ PerRepository \in Nat
    BY <2>3, <2>4, FS_CardinalityType, JobLimitAssumption
  <2>6. Cardinality(AtRepository(s)) <= PerRepository BY <1>1 DEF PermitsAreBounded
  <2> HIDE DEF R
  <2>7. Cardinality(R) <= PerRepository BY <2>4, <2>5, <2>6
  <2> QED BY <2>7 DEF R
<1>4. inflight = {task[t].job : t \in Live \cup Panicked}
                    \cup {caller[c].job : c \in {x \in Callers : caller[x].pc = "slot"}}
  <2>1. Live \cup Panicked = {t \in Tasks : Owns(t)} BY <1>1, Places DEF Owns
  <2>2. {x \in Callers : caller[x].pc = "slot"} = {c \in Callers : Inserted(c)} BY DEF Inserted
  <2>3. \A k : k \in inflight <=> \/ \E t \in Tasks : Owns(t) /\ task[t].job = k
                                  \/ \E c \in Callers : Inserted(c) /\ caller[c].job = k
    BY <1>1 DEF KeysHaveOwners
  <2> QED BY <2>1, <2>2, <2>3
<1> QED BY <1>1, <1>2, <1>3, <1>4 DEF NoOverlap, KeysAreExact

LEMMA RecordsFromInv == JobInv => RunsAreClosed
<1> SUFFICES ASSUME JobInv PROVE RunsAreClosed OBVIOUS
<1>1. JobTypeOK /\ RecordsAreCounted /\ IsFiniteSet(Hired) BY DEF JobInv, PermitsAreBounded
<1>2. Holding({"run", "finish"}) \cup Panicked = Recorded BY <1>1, Places DEF Recorded, WithRecord, AtWork
<1>3. IsFiniteSet(Recorded)
  <2>1. Recorded \in SUBSET Hired BY DEF Recorded, Hired, WithRecord
  <2> QED BY <1>1, <2>1, FS_Subset
<1>4. IsFiniteSet(Owned) /\ Cardinality(Owned) <= Cardinality(Recorded)
  <2> PICK f : f = [t \in Recorded |-> task[t].run] OBVIOUS
  <2>1. f \in Surjection(Recorded, Owned) BY DEF Owned, Surjection
  <2> QED BY <1>3, <2>1, FS_Surjection
<1>5. /\ IsFiniteSet(Lost) /\ IsFiniteSet(Open) /\ Cardinality(Lost) \in Nat /\ Cardinality(Open) \in Nat
      /\ faults.store \in Nat
  BY <1>1, LostIsFinite
<1>6. Open \in SUBSET (Owned \cup Lost) BY DEF Lost
<1>7. IsFiniteSet(Owned \cup Lost) /\ Cardinality(Owned \cup Lost) <= Cardinality(Owned) + Cardinality(Lost)
  <2>1. /\ IsFiniteSet(Owned \cup Lost)
        /\ Cardinality(Owned \cup Lost) = Cardinality(Owned) + Cardinality(Lost) - Cardinality(Owned \cap Lost)
    BY <1>4, <1>5, FS_Union
  <2>2. Owned \cap Lost = {} BY DEF Lost
  <2>3. Cardinality(Owned) \in Nat /\ Cardinality(Owned \cap Lost) = 0 BY <1>4, <2>2, FS_EmptySet, FS_CardinalityType
  <2> QED BY <1>5, <2>1, <2>3
<1>8. Cardinality(Open) <= Cardinality(Owned \cup Lost) BY <1>6, <1>7, FS_Subset
<1>9. Cardinality(Owned) \in Nat /\ Cardinality(Recorded) \in Nat /\ Cardinality(Owned \cup Lost) \in Nat
  BY <1>3, <1>4, <1>7, FS_CardinalityType
<1>10. Cardinality(Lost) <= faults.store BY <1>1 DEF RecordsAreCounted
<1>11. Cardinality(Open) <= Cardinality(Recorded) + faults.store BY <1>4, <1>5, <1>7, <1>8, <1>9, <1>10
<1> QED BY <1>2, <1>11 DEF RunsAreClosed, Open

(* Whoever is furthest along the order worker, kind, repository goes on. *)
LEMMA StuckFromInv == JobInv => NeverStuck
<1> SUFFICES ASSUME JobInv, Live # {} PROVE \E t \in Live : CanGoOn(t) BY DEF NeverStuck
<1>1. JobTypeOK BY DEF JobInv
<1>2. /\ HoldsWorker = {t \in Tasks : task[t].pc \in {"kind", "repository"} \cup WithRepository}
      /\ HoldsKind = {t \in Tasks : task[t].pc \in {"repository"} \cup WithRepository}
      /\ HoldsRepository = {t \in Tasks : task[t].pc \in WithRepository}
  BY <1>1, Places DEF HoldsWorker, HoldsKind, Holding, WithRepository
<1>3. \A t \in Live : task[t].pc \in {"worker", "kind", "repository"} \cup WithRepository
  BY <1>1, Places DEF TaskStates, TaskPlaces, WithRepository
<1>4. CASE HoldsRepository # {}
  <2> PICK t \in HoldsRepository : TRUE BY <1>4
  <2>1. t \in Live /\ CanGoOn(t) BY <1>1, <1>2, Places DEF CanGoOn, WithRepository
  <2> QED BY <2>1
<1>5. CASE HoldsRepository = {} /\ HoldsKind # {}
  <2> PICK t \in HoldsKind : TRUE BY <1>5
  <2>1. t \in Live /\ task[t].pc = "repository" BY <1>1, <1>2, <1>5, Places DEF WithRepository
  <2>2. {u \in HoldsRepository : Scope(task[u].job) = Scope(task[t].job)} = {} BY <1>5
  <2>3. RepositoryFree(Scope(task[t].job)) BY <2>2, FS_EmptySet, JobLimitAssumption DEF RepositoryFree
  <2> QED BY <2>1, <2>3 DEF CanGoOn
<1>6. CASE HoldsKind = {} /\ HoldsWorker # {}
  <2> PICK t \in HoldsWorker : TRUE BY <1>6
  <2>1. t \in Live /\ task[t].pc = "kind" BY <1>1, <1>2, <1>6, Places DEF WithRepository
  <2>2. {u \in HoldsKind : Kind(task[u].job) = Kind(task[t].job)} = {} BY <1>6
  <2>3. KindFree(Kind(task[t].job)) BY <2>2, FS_EmptySet, JobLimitAssumption DEF KindFree
  <2> QED BY <2>1, <2>3 DEF CanGoOn
<1>7. CASE HoldsWorker = {}
  <2> PICK t \in Live : TRUE OBVIOUS
  <2>1. task[t].pc = "worker" BY <1>1, <1>2, <1>3, <1>7, Places DEF WithRepository
  <2>2. WorkerFree BY <1>7, FS_EmptySet, JobLimitAssumption DEF WorkerFree
  <2> QED BY <2>1, <2>2 DEF CanGoOn
<1> QED BY <1>4, <1>5, <1>6, <1>7

LEMMA JobInvSound == JobInv => JobsAreSound
<1> SUFFICES ASSUME JobInv PROVE JobsAreSound OBVIOUS
<1>1. DrainedIsIdle BY Places DEF JobInv, ShutdownIsFinal, DrainedIsIdle, AtWork
<1> QED BY <1>1, KeysFromInv, RecordsFromInv, StuckFromInv DEF JobsAreSound

--------------------------------
(* Steps of a task. *)

LEMMA OneMore ==
    ASSUME NEW S, IsFiniteSet(S), NEW x
    PROVE  IsFiniteSet(S \cup {x}) /\ Cardinality(S \cup {x}) <= Cardinality(S) + 1
<1> PICK n \in Nat : n = Cardinality(S) BY FS_CardinalityType
<1>1. IsFiniteSet(S \cup {x}) /\ Cardinality(S \cup {x}) = IF x \in S THEN n ELSE n + 1 BY FS_AddElement
<1> QED BY <1>1

(* What a step that moves one task leaves true of the permits. *)
LEMMA PermitsStep ==
    ASSUME JobInv, NEW t \in Tasks, NEW new \in TaskStates', task' = [task EXCEPT ![t] = new], JobTypeOK',
           new.pc \in WithRepository =>
              /\ new.job = task[t].job
              /\ task[t].pc \in WithRepository \/ RepositoryFree(Scope(task[t].job))
    PROVE  PermitsAreBounded'
<1>1. JobTypeOK /\ IsFiniteSet(Hired) /\ \A s \in JobScopes : Cardinality(AtRepository(s)) <= PerRepository
  BY DEF JobInv, PermitsAreBounded
<1>2. \A u \in Tasks : task'[u] = IF u = t THEN new ELSE task[u] BY <1>1 DEF JobTypeOK
<1>3. IsFiniteSet(Hired')
  <2>1. Hired' \in SUBSET (Hired \cup {t}) BY <1>2 DEF Hired
  <2>2. IsFiniteSet(Hired \cup {t}) BY <1>1, FS_AddElement
  <2> QED BY <2>1, <2>2, FS_Subset
<1>4. ASSUME NEW s \in JobScopes PROVE Cardinality(AtRepository(s))' <= PerRepository
  <2> PICK S : S = AtRepository(s) OBVIOUS
  <2> PICK T : T = AtRepository(s)' OBVIOUS
  <2>1. S = {u \in Tasks : task[u].pc \in WithRepository /\ Scope(task[u].job) = s} BY <1>1, Places DEF AtRepository
  <2>2. T = {u \in Tasks : task'[u].pc \in WithRepository /\ Scope(task'[u].job) = s}
    <3>1. HoldsRepository' = {u \in Tasks : task'[u].pc \in WithRepository}
      BY DEF HoldsRepository, Holding, Live, WithRepository
    <3> QED BY <3>1 DEF AtRepository
  <2>3. IsFiniteSet(S) /\ Cardinality(S) \in Nat /\ Cardinality(S) <= PerRepository /\ PerRepository \in Nat
    <3>1. S \in SUBSET Hired BY <2>1 DEF Hired, WithRepository
    <3> QED BY <1>1, <3>1, FS_Subset, FS_CardinalityType, JobLimitAssumption
  <2>4. CASE T \in SUBSET S
    <3>1. Cardinality(T) <= Cardinality(S) /\ Cardinality(T) \in Nat BY <2>3, <2>4, FS_Subset, FS_CardinalityType
    <3> QED BY <2>3, <3>1
  <2>5. CASE T \notin SUBSET S
    <3>1. /\ T \in SUBSET (S \cup {t}) /\ new.pc \in WithRepository /\ Scope(new.job) = s
          /\ task[t].pc \notin WithRepository
      BY <1>2, <2>1, <2>2, <2>5
    <3>2. S = {u \in HoldsRepository : Scope(task[u].job) = Scope(task[t].job)} BY <3>1 DEF AtRepository
    <3>3. Cardinality(S) < PerRepository BY <3>1, <3>2 DEF RepositoryFree
    <3>4. IsFiniteSet(S \cup {t}) /\ Cardinality(S \cup {t}) <= Cardinality(S) + 1 BY <2>3, OneMore
    <3>5. Cardinality(T) <= Cardinality(S \cup {t}) /\ Cardinality(T) \in Nat /\ Cardinality(S \cup {t}) \in Nat
      BY <3>1, <3>4, FS_Subset, FS_CardinalityType
    <3> QED BY <2>3, <3>3, <3>4, <3>5
  <2> QED BY <2>4, <2>5
<1> QED BY <1>3, <1>4 DEF PermitsAreBounded

(* An admitted task goes on with its key, or ends and gives it back. *)
LEMMA KeysStep ==
    ASSUME JobInv, NEW t \in Tasks, NEW new \in TaskStates', task' = [task EXCEPT ![t] = new],
           Owns(t), new.job = task[t].job, UNCHANGED caller,
           \/ new.pc \notin {"free", "done"} /\ UNCHANGED inflight
           \/ new.pc = "done" /\ inflight' = inflight \ {task[t].job}
    PROVE  KeysHaveOwners'
<1>1. JobTypeOK /\ KeysHaveOwners BY DEF JobInv
<1>2. \A u \in Tasks : task'[u] = IF u = t THEN new ELSE task[u] BY <1>1 DEF JobTypeOK
<1>3. \A c \in Callers : Inserted(c)' <=> Inserted(c) BY DEF Inserted
<1>4. CASE new.pc \notin {"free", "done"} /\ UNCHANGED inflight
  <2>1. \A u \in Tasks : (Owns(u)' <=> Owns(u)) /\ task'[u].job = task[u].job BY <1>2, <1>4 DEF Owns
  <2> QED BY <1>1, <1>3, <1>4, <2>1 DEF KeysHaveOwners
<1>5. CASE new.pc = "done" /\ inflight' = inflight \ {task[t].job}
  <2>1. \A u \in Tasks : (Owns(u)' <=> Owns(u) /\ u # t) /\ task'[u].job = task[u].job BY <1>2, <1>5 DEF Owns
  <2> QED BY <1>1, <1>3, <1>5, <2>1 DEF KeysHaveOwners
<1> QED BY <1>4, <1>5

LEMMA ShutdownStep ==
    ASSUME JobInv, NEW t \in Tasks, NEW new \in TaskStates', task' = [task EXCEPT ![t] = new],
           UNCHANGED <<cancelled, shutdown>>, new.pc \in AtWork => task[t].pc \in AtWork \/ ~cancelled
    PROVE  ShutdownIsFinal'
<1>1. \A u \in Tasks : task'[u] = IF u = t THEN new ELSE task[u] BY DEF JobInv, JobTypeOK
<1> QED BY <1>1 DEF JobInv, ShutdownIsFinal

(* Records stay as they are, and no task gives up an open one. *)
LEMMA RecordsStay ==
    ASSUME JobInv, JobTypeOK', NEW t \in Tasks, NEW new \in TaskStates', task' = [task EXCEPT ![t] = new],
           UNCHANGED runs, faults'.found = faults.found, faults.store <= faults'.store,
           task[t].pc \in WithRecord => new.pc \in WithRecord, new.pc \in WithRecord => task[t].pc \in WithRecord,
           new.run = task[t].run
    PROVE  RecordsAreCounted'
<1>1. JobTypeOK /\ RecordsAreCounted BY DEF JobInv
<1>2. \A u \in Tasks : task'[u] = IF u = t THEN new ELSE task[u] BY <1>1 DEF JobTypeOK
<1>3. Recorded' = Recorded /\ \A u \in Tasks : task'[u].run = task[u].run BY <1>2 DEF Recorded
<1>4. Lost' = Lost BY <1>3 DEF Lost, Open, Owned, Recorded
<1> QED BY <1>1, <1>3, <1>4, LostIsFinite DEF RecordsAreCounted, JobTypeOK, Recorded

(* The new state of a task of the same record type. *)
LEMMA TaskTypes ==
    ASSUME JobTypeOK, NEW t \in Tasks, NEW pc \in TaskPlaces
    PROVE  /\ [task[t] EXCEPT !.pc = pc] \in TaskStates /\ [task[t] EXCEPT !.pc = pc].pc = pc
           /\ [task[t] EXCEPT !.pc = pc].job = task[t].job /\ [task[t] EXCEPT !.pc = pc].run = task[t].run
<1>1. task[t] \in TaskStates BY Places
<1> PICK new : new = [task[t] EXCEPT !.pc = pc] OBVIOUS
<1>2. new \in TaskStates /\ new.pc = pc /\ new.job = task[t].job /\ new.run = task[t].run BY <1>1 DEF TaskStates
<1> QED BY <1>2

(* A task moves on to another place, with nothing but permits taken or given back. *)
LEMMA MovesOn ==
    ASSUME JobInv, NEW t \in Tasks, NEW pc \in TaskPlaces \ {"free", "done"}, TaskStep(t, pc), Owns(t),
           UNCHANGED <<caller, inflight, cancelled, shutdown, runs, faults>>,
           pc \in WithRepository => task[t].pc \in WithRepository \/ RepositoryFree(Scope(task[t].job)),
           pc \in AtWork => task[t].pc \in AtWork \/ ~cancelled,
           pc \in WithRecord <=> task[t].pc \in WithRecord
    PROVE  JobInv'
<1> PICK new : new = [task[t] EXCEPT !.pc = pc] OBVIOUS
<1>1. JobTypeOK BY DEF JobInv
<1>2. new \in TaskStates /\ new.pc = pc /\ new.job = task[t].job /\ new.run = task[t].run BY <1>1, TaskTypes
<1>3. task' = [task EXCEPT ![t] = new] BY DEF TaskStep
<1>4. TaskStates' = TaskStates BY DEF TaskStates
<1>5. JobTypeOK'
  <2>1. task' \in [Tasks -> TaskStates] BY <1>1, <1>2, <1>3, Places
  <2> QED BY <1>1, <2>1 DEF JobTypeOK, TaskStates, TaskPlaces
<1>6. new \in TaskStates' BY <1>2, <1>4
<1>7. PermitsAreBounded' BY <1>2, <1>3, <1>5, <1>6, PermitsStep
<1>8. KeysHaveOwners' BY <1>2, <1>3, <1>6, KeysStep
<1>9. ShutdownIsFinal' BY <1>2, <1>3, <1>6, ShutdownStep
<1>10. RecordsAreCounted'
  <2>1. faults'.found = faults.found /\ faults.store <= faults'.store BY <1>1, LostIsFinite
  <2> QED BY <1>2, <1>3, <1>5, <1>6, <2>1, RecordsStay
<1> QED BY <1>5, <1>7, <1>8, <1>9, <1>10 DEF JobInv

LEMMA AcquireSteps ==
    ASSUME JobInv, NEW t \in Tasks, AcquireWorker(t) \/ AcquireKind(t) \/ AcquireRepository(t)
    PROVE  JobInv'
<1> USE DEF TaskPlaces, WithRepository, AtWork, WithRecord, Owns
<1>1. CASE AcquireWorker(t) BY <1>1, MovesOn DEF AcquireWorker
<1>2. CASE AcquireKind(t) BY <1>2, MovesOn DEF AcquireKind
<1>3. CASE AcquireRepository(t) BY <1>3, MovesOn DEF AcquireRepository
<1> QED BY <1>1, <1>2, <1>3

LEMMA RunSteps ==
    ASSUME JobInv, NEW t \in Tasks, Run(t) \/ Panic(t)
    PROVE  JobInv'
<1> USE DEF TaskPlaces, WithRepository, AtWork, WithRecord, Owns
<1>1. CASE Run(t) BY <1>1, MovesOn DEF Run
<1>2. CASE Panic(t) BY <1>2, MovesOn DEF Panic
<1> QED BY <1>1, <1>2

(* A task ends: its key, its permits and its slot are free again. *)
LEMMA Ends ==
    ASSUME JobInv, JobTypeOK', NEW t \in Tasks, End(t), Owns(t), UNCHANGED <<caller, cancelled, shutdown>>
    PROVE  KeysHaveOwners' /\ PermitsAreBounded' /\ ShutdownIsFinal'
<1> PICK new : new = [task[t] EXCEPT !.pc = "done"] OBVIOUS
<1>1. new.pc = "done" /\ new.job = task[t].job BY TaskTypes DEF JobInv, TaskPlaces
<1>2. task' = [task EXCEPT ![t] = new] /\ inflight' = inflight \ {task[t].job} BY DEF End
<1>3. new \in TaskStates'
  <2>1. task' \in [Tasks -> TaskStates'] /\ task'[t] = new BY <1>2 DEF JobInv, JobTypeOK, TaskStates, TaskPlaces
  <2> QED BY <2>1
<1>4. new.pc \notin WithRepository /\ new.pc \notin AtWork BY <1>1 DEF WithRepository, AtWork
<1> QED BY <1>1, <1>2, <1>3, <1>4, PermitsStep, KeysStep, ShutdownStep

(* A step that ends a task keeps the types of everything but the records. *)
LEMMA EndTypes ==
    ASSUME JobInv, NEW t \in Tasks, End(t), UNCHANGED <<caller, cancelled, shutdown>>,
           runs' \in Seq({"running", "succeeded", "failed"}), Len(runs') = Len(runs),
           faults' \in [store : 0..MaxStoreErrors, crashes : 0..MaxCrashes, found : 0..Len(runs)]
    PROVE  JobTypeOK'
<1>1. JobTypeOK BY DEF JobInv
<1> PICK new : new = [task[t] EXCEPT !.pc = "done"] OBVIOUS
<1>2. new \in TaskStates BY <1>1, TaskTypes DEF TaskPlaces
<1>3. task' = [task EXCEPT ![t] = new] /\ inflight' = inflight \ {task[t].job} BY DEF End
<1>4. task' \in [Tasks -> TaskStates] BY <1>1, <1>2, <1>3, Places
<1>5. inflight' \subseteq Jobs BY <1>1, <1>3 DEF JobTypeOK
<1> QED BY <1>1, <1>4, <1>5 DEF JobTypeOK, TaskStates, TaskPlaces

LEMMA CheckTokenStep ==
    ASSUME JobInv, NEW t \in Tasks, CheckToken(t)
    PROVE  JobInv'
<1>1. task[t].pc = "check" /\ UNCHANGED <<caller, cancelled, shutdown, runs, faults>> BY DEF CheckToken
<1>2. CASE ~cancelled
  <2>1. TaskStep(t, "start") /\ UNCHANGED inflight BY <1>2 DEF CheckToken
  <2> QED BY <1>1, <1>2, <2>1, MovesOn DEF TaskPlaces, WithRepository, AtWork, WithRecord, Owns
<1>3. CASE cancelled
  <2>1. End(t) /\ Owns(t) BY <1>1, <1>3 DEF CheckToken, Owns
  <2>2. JobTypeOK' BY <1>1, <2>1, EndTypes DEF JobInv, JobTypeOK
  <2>3. KeysHaveOwners' /\ PermitsAreBounded' /\ ShutdownIsFinal' BY <1>1, <2>1, <2>2, Ends
  <2>4. RecordsAreCounted'
    <3> PICK new : new = [task[t] EXCEPT !.pc = "done"] OBVIOUS
    <3>1. new \in TaskStates' /\ new.pc = "done" /\ new.run = task[t].run
      BY <1>1, TaskTypes DEF JobInv, TaskPlaces, TaskStates
    <3>2. task' = [task EXCEPT ![t] = new] /\ faults'.found = faults.found /\ faults.store <= faults'.store
      BY <1>1, <2>1, LostIsFinite DEF End, JobInv
    <3> QED BY <1>1, <2>2, <3>1, <3>2, RecordsStay DEF WithRecord
  <2> QED BY <2>2, <2>3, <2>4 DEF JobInv
<1> QED BY <1>2, <1>3

LEMMA FaultTypes ==
    ASSUME JobTypeOK, faults.store < MaxStoreErrors, faults' = [faults EXCEPT !.store = @ + 1]
    PROVE  /\ faults' \in [store : 0..MaxStoreErrors, crashes : 0..MaxCrashes, found : 0..Len(runs)]
           /\ faults'.found = faults.found /\ faults'.store = faults.store + 1
<1> PICK more : more = faults.store + 1 OBVIOUS
<1>1. more \in 0..MaxStoreErrors BY FaultAssumption DEF JobTypeOK
<1> QED BY <1>1 DEF JobTypeOK

LEMMA StartStep ==
    ASSUME JobInv, NEW t \in Tasks, Start(t)
    PROVE  JobInv'
<1>1. task[t].pc = "start" /\ UNCHANGED <<caller, cancelled, shutdown>> /\ JobTypeOK /\ Owns(t)
  BY DEF Start, JobInv, Owns
<1>2. ASSUME runs' = Append(runs, "running"), task' = [task EXCEPT ![t].pc = "run", ![t].run = Len(runs) + 1],
             UNCHANGED <<inflight, faults>>
      PROVE  JobInv'
  <2> PICK n \in Nat : n = Len(runs) + 1 BY <1>1, LostIsFinite
  <2>1. /\ runs' \in Seq({"running", "succeeded", "failed"}) /\ Len(runs') = n
        /\ \A r \in 1..Len(runs) : runs'[r] = runs[r]
    BY <1>1, <1>2, AppendProperties DEF JobTypeOK
  <2>2. Len(runs) \in Nat /\ 0..Len(runs) \in SUBSET (0..n) BY <1>1, LostIsFinite
  <2> PICK new : new = [task[t] EXCEPT !.pc = "run", !.run = n] OBVIOUS
  <2>3. task[t] \in [pc : TaskPlaces, job : Jobs \cup {NoJob}, run : 0..n] BY <1>1, <2>2, Places DEF TaskStates
  <2>4. n \in 0..n OBVIOUS
  <2>5. task' = [task EXCEPT ![t] = new] BY <1>2
  <2>6. TaskStates' = [pc : TaskPlaces, job : Jobs \cup {NoJob}, run : 0..n] BY <2>1 DEF TaskStates
  <2>7. new \in TaskStates' /\ new.pc = "run" /\ new.job = task[t].job /\ new.run = n
    <3>1. /\ new \in [pc : TaskPlaces, job : Jobs \cup {NoJob}, run : 0..n]
          /\ new.pc = "run" /\ new.job = task[t].job /\ new.run = n
      BY <2>3, <2>4 DEF TaskPlaces
    <3> QED BY <2>6, <3>1
  <2>8. JobTypeOK'
    <3>1. \A u \in Tasks : task[u] \in TaskStates' BY <1>1, <2>2, <2>6, Places DEF TaskStates
    <3>2. task' \in [Tasks -> TaskStates'] BY <1>1, <2>5, <2>7, <3>1 DEF JobTypeOK
    <3>3. faults' \in [store : 0..MaxStoreErrors, crashes : 0..MaxCrashes, found : 0..n]
      BY <1>1, <1>2, <2>2 DEF JobTypeOK
    <3> QED BY <1>1, <1>2, <2>1, <3>2, <3>3 DEF JobTypeOK, TaskStates, TaskPlaces
  <2>9. PermitsAreBounded' BY <1>1, <2>5, <2>7, <2>8, PermitsStep DEF WithRepository
  <2>10. KeysHaveOwners' BY <1>1, <1>2, <2>5, <2>7, KeysStep
  <2>11. ShutdownIsFinal' BY <1>1, <2>5, <2>7, ShutdownStep DEF AtWork
  <2>12. RecordsAreCounted'
    <3>1. \A u \in Tasks : task'[u] = IF u = t THEN new ELSE task[u] BY <1>1, <2>5 DEF JobTypeOK
    <3>2. Recorded' = Recorded \cup {t} /\ t \notin Recorded
      <4>1. \A u \in Tasks : task'[u].pc \in WithRecord <=> u = t \/ task[u].pc \in WithRecord
        BY <2>7, <3>1 DEF WithRecord
      <4>2. task[t].pc \notin WithRecord BY <1>1 DEF WithRecord
      <4> QED BY <4>1, <4>2 DEF Recorded
    <3>3. Owned' = Owned \cup {n}
      <4>1. \A u \in Recorded : u \in Tasks /\ task'[u].run = task[u].run BY <3>1, <3>2 DEF Recorded
      <4>2. task'[t].run = n BY <2>7, <3>1
      <4>3. Owned' = {task'[u].run : u \in Recorded \cup {t}} BY <3>2 DEF Owned
      <4> QED BY <4>1, <4>2, <4>3 DEF Owned
    <3>4. Lost' \in SUBSET Lost
      <4>1. ASSUME NEW r \in Open', r # n PROVE r \in Open BY <1>1, <1>2, <2>1, <2>2, <4>1, LostIsFinite DEF Open
      <4> QED BY <3>3, <4>1 DEF Lost
    <3>5. Cardinality(Lost') <= Cardinality(Lost) /\ Cardinality(Lost') \in Nat
      BY <1>1, <3>4, LostIsFinite, FS_Subset, FS_CardinalityType
    <3>6. \A u \in Recorded' : task'[u].run \in 1..Len(runs')
      <4>1. \A u \in Recorded : task'[u].run = task[u].run /\ task[u].run \in 1..Len(runs)
        BY <3>1, <3>2 DEF JobInv, RecordsAreCounted, Recorded
      <4>2. task'[t].run = n BY <2>7, <3>1
      <4>4. n \in 1..n BY <2>2
      <4>3. \A r \in 1..Len(runs) : r \in 1..n BY <2>2
      <4> QED BY <2>1, <3>2, <4>1, <4>2, <4>3, <4>4
    <3>7. Cardinality(Lost) <= faults.store /\ faults' = faults BY <1>2 DEF JobInv, RecordsAreCounted
    <3> QED BY <1>1, <3>5, <3>6, <3>7, LostIsFinite DEF RecordsAreCounted
  <2> QED BY <2>8, <2>9, <2>10, <2>11, <2>12 DEF JobInv
<1>3. ASSUME faults.store < MaxStoreErrors, faults' = [faults EXCEPT !.store = @ + 1], End(t), UNCHANGED runs
      PROVE  JobInv'
  <2>1. JobTypeOK' BY <1>1, <1>3, FaultTypes, EndTypes DEF JobTypeOK
  <2>2. KeysHaveOwners' /\ PermitsAreBounded' /\ ShutdownIsFinal' BY <1>1, <1>3, <2>1, Ends
  <2>3. RecordsAreCounted'
    <3> PICK new : new = [task[t] EXCEPT !.pc = "done"] OBVIOUS
    <3>1. new \in TaskStates' /\ new.pc = "done" /\ new.run = task[t].run
      BY <1>1, <1>3, TaskTypes DEF TaskPlaces, TaskStates
    <3>2. task' = [task EXCEPT ![t] = new] /\ faults'.found = faults.found /\ faults.store <= faults'.store
      BY <1>1, <1>3, FaultTypes, LostIsFinite DEF End
    <3> QED BY <1>1, <1>3, <2>1, <3>1, <3>2, RecordsStay DEF WithRecord
  <2> QED BY <2>1, <2>2, <2>3 DEF JobInv
<1> QED BY <1>2, <1>3 DEF Start

(* What the end of a run writes: its own record is closed, or the write fails and is counted. *)
Recording(run) ==
    /\ runs' \in Seq({"running", "succeeded", "failed"}) /\ Len(runs') = Len(runs)
    /\ \A r \in 1..Len(runs) : runs'[r] = runs[r] \/ (r = run /\ runs'[r] # "running")
    /\ faults' \in [store : 0..MaxStoreErrors, crashes : 0..MaxCrashes, found : 0..Len(runs)]
    /\ faults'.found = faults.found
    /\ \/ runs'[run] # "running" /\ faults'.store = faults.store
       \/ faults'.store = faults.store + 1

LEMMA FinishRunStep ==
    ASSUME JobInv, NEW t \in Tasks, FinishRun(t)
    PROVE  JobInv'
<1>1. /\ task[t].pc = "finish" /\ UNCHANGED <<caller, cancelled, shutdown>> /\ End(t) /\ JobTypeOK /\ Owns(t)
      /\ Len(runs) \in Nat
  BY LostIsFinite DEF FinishRun, JobInv, Owns
<1> PICK run : run = task[t].run OBVIOUS
<1>2. t \in Recorded /\ run \in 1..Len(runs) BY <1>1 DEF JobInv, RecordsAreCounted, Recorded, WithRecord
<1>3. Recording(run)
  <2>1. ASSUME NEW s \in {"succeeded", "failed"}, runs' = [runs EXCEPT ![run] = s], UNCHANGED faults
        PROVE  Recording(run)
    <3>1. runs' \in Seq({"running", "succeeded", "failed"}) /\ Len(runs') = Len(runs)
      BY <1>1, <1>2, <2>1, ExceptSeq DEF JobTypeOK
    <3>2. \A r \in 1..Len(runs) : runs'[r] = IF r = run THEN s ELSE runs[r] BY <1>1, <1>2, <2>1 DEF JobTypeOK
    <3> QED BY <1>1, <1>2, <2>1, <3>1, <3>2 DEF JobTypeOK, Recording
  <2>2. ASSUME faults.store < MaxStoreErrors, faults' = [faults EXCEPT !.store = @ + 1], UNCHANGED runs
        PROVE  Recording(run)
    BY <1>1, <2>2, FaultTypes DEF JobTypeOK, Recording
  <2> QED BY <2>1, <2>2 DEF FinishRun
<1>4. JobTypeOK' BY <1>1, <1>3, EndTypes DEF Recording
<1>5. KeysHaveOwners' /\ PermitsAreBounded' /\ ShutdownIsFinal' BY <1>1, <1>4, Ends
<1>6. RecordsAreCounted'
  <2> PICK new : new = [task[t] EXCEPT !.pc = "done"] OBVIOUS
  <2>1. \A u \in Tasks : task'[u] = IF u = t THEN new ELSE task[u] BY <1>1 DEF End, JobTypeOK
  <2>2. Recorded' = Recorded \ {t}
    <3>1. new.pc = "done" BY <1>1, TaskTypes DEF TaskPlaces
    <3> QED BY <2>1, <3>1 DEF Recorded, WithRecord
  <2>3. \A u \in Recorded' : task'[u].run = task[u].run BY <2>1, <2>2 DEF Recorded
  <2>4. Owned \in SUBSET (Owned' \cup {run}) BY <2>2, <2>3 DEF Owned
  <2>5. \A u \in Recorded' : task'[u].run \in 1..Len(runs') BY <1>3, <2>2, <2>3 DEF JobInv, RecordsAreCounted, Recording
  <2>6. /\ Cardinality(Lost) <= faults.store /\ IsFiniteSet(Lost) /\ faults.store \in Nat
        /\ Cardinality(Lost) \in Nat /\ faults.found \in Nat
    BY <1>1, LostIsFinite DEF JobInv, RecordsAreCounted
  <2>7. Open' \in SUBSET Open BY <1>1, <1>3, <2>6 DEF Open, Recording
  <2>8. CASE runs'[run] # "running" /\ faults'.store = faults.store
    <3>1. run \notin Open' BY <2>8 DEF Open
    <3>2. Lost' \in SUBSET Lost BY <2>4, <2>7, <3>1 DEF Lost
    <3>3. Cardinality(Lost') <= Cardinality(Lost) /\ Cardinality(Lost') \in Nat
      BY <2>6, <3>2, FS_Subset, FS_CardinalityType
    <3> QED BY <2>5, <2>6, <2>8, <3>3 DEF RecordsAreCounted
  <2>9. CASE faults'.store = faults.store + 1
    <3>1. Lost' \in SUBSET (Lost \cup {run}) BY <2>4, <2>7 DEF Lost
    <3>2. IsFiniteSet(Lost \cup {run}) /\ Cardinality(Lost \cup {run}) <= Cardinality(Lost) + 1 BY <2>6, OneMore
    <3>3. /\ Cardinality(Lost') <= Cardinality(Lost \cup {run}) /\ Cardinality(Lost') \in Nat
          /\ Cardinality(Lost \cup {run}) \in Nat
      BY <3>1, <3>2, FS_Subset, FS_CardinalityType
    <3> QED BY <2>5, <2>6, <2>9, <3>2, <3>3 DEF RecordsAreCounted
  <2> QED BY <1>3, <2>8, <2>9 DEF Recording
<1> QED BY <1>4, <1>5, <1>6 DEF JobInv

--------------------------------
(* Steps of a caller. *)

(* Nothing but the callers and the keys changes. *)
LEMMA CallerMoves ==
    ASSUME JobInv, NEW c \in Callers, NEW new \in [pc : {"idle", "insert", "slot"}, job : Jobs \cup {NoJob}],
           caller' = [caller EXCEPT ![c] = new], UNCHANGED <<task, cancelled, shutdown, runs, faults>>,
           inflight' \subseteq Jobs, KeysHaveOwners'
    PROVE  JobInv'
<1>1. JobTypeOK' BY DEF JobInv, JobTypeOK
<1>2. PermitsAreBounded' BY DEF JobInv, PermitsAreBounded, Hired, AtRepository, HoldsRepository, Holding, Live
<1>3. ShutdownIsFinal' BY DEF JobInv, ShutdownIsFinal
<1>4. RecordsAreCounted' BY DEF JobInv, RecordsAreCounted, Recorded, Lost, Open, Owned
<1> QED BY <1>1, <1>2, <1>3, <1>4 DEF JobInv

LEMMA CheckCancelledStep ==
    ASSUME JobInv, NEW c \in Callers, NEW job \in Jobs, CheckCancelled(c, job)
    PROVE  JobInv'
<1> PICK new : new = [pc |-> "insert", job |-> job] OBVIOUS
<1>1. caller' = [caller EXCEPT ![c] = new] /\ UNCHANGED <<task, inflight, cancelled, shutdown, runs, faults>>
      /\ caller[c].pc = "idle"
  BY DEF CheckCancelled
<1>2. \A d \in Callers : caller'[d] = IF d = c THEN new ELSE caller[d] BY <1>1 DEF JobInv, JobTypeOK
<1>3. \A d \in Callers : Inserted(d)' <=> Inserted(d) BY <1>1, <1>2 DEF Inserted
<1>4. \A d \in Callers : Inserted(d) => caller'[d] = caller[d] BY <1>1, <1>2 DEF Inserted
<1>5. \A t \in Tasks : Owns(t)' <=> Owns(t) BY <1>1 DEF Owns
<1>6. KeysHaveOwners' BY <1>1, <1>2, <1>3, <1>4, <1>5 DEF JobInv, KeysHaveOwners
<1> QED BY <1>1, <1>6, CallerMoves DEF JobInv, JobTypeOK

LEMMA InsertKeyStep ==
    ASSUME JobInv, NEW c \in Callers, InsertKey(c)
    PROVE  JobInv'
<1>1. caller[c].pc = "insert" /\ UNCHANGED <<task, cancelled, shutdown, runs, faults>> /\ JobTypeOK /\ KeysHaveOwners
  BY DEF InsertKey, JobInv
<1>2. caller[c].job \in Jobs BY <1>1 DEF KeysHaveOwners
<1>3. \A t \in Tasks : Owns(t)' <=> Owns(t) BY <1>1 DEF Owns
<1>4. CASE caller[c].job \in inflight
  <2> PICK new : new = [pc |-> "idle", job |-> NoJob] OBVIOUS
  <2>1. caller' = [caller EXCEPT ![c] = new] /\ UNCHANGED inflight BY <1>4 DEF InsertKey
  <2>2. \A d \in Callers : caller'[d] = IF d = c THEN new ELSE caller[d] BY <1>1, <2>1 DEF JobTypeOK
  <2>3. \A d \in Callers : (Inserted(d)' <=> Inserted(d)) /\ (Inserted(d) => caller'[d] = caller[d])
    BY <1>1, <2>2 DEF Inserted
  <2>4. KeysHaveOwners' BY <1>1, <1>3, <2>1, <2>2, <2>3 DEF KeysHaveOwners
  <2> QED BY <1>1, <2>1, <2>4, CallerMoves DEF JobTypeOK
<1>5. CASE caller[c].job \notin inflight
  <2> PICK new : new = [caller[c] EXCEPT !.pc = "slot"] OBVIOUS
  <2>1. caller' = [caller EXCEPT ![c] = new] /\ inflight' = inflight \cup {caller[c].job} BY <1>5 DEF InsertKey
  <2>2. \A d \in Callers : caller'[d] = IF d = c THEN new ELSE caller[d] BY <1>1, <2>1 DEF JobTypeOK
  <2>3. /\ new \in [pc : {"idle", "insert", "slot"}, job : Jobs \cup {NoJob}]
        /\ new.pc = "slot" /\ new.job = caller[c].job
    BY <1>1 DEF JobTypeOK
  <2>4. \A d \in Callers : (Inserted(d)' <=> Inserted(d) \/ d = c) /\ caller'[d].job = caller[d].job
    BY <2>2, <2>3 DEF Inserted
  <2>5. /\ \A t \in Tasks : Owns(t) => task[t].job # caller[c].job
        /\ \A d \in Callers : Inserted(d) => caller[d].job # caller[c].job
    BY <1>1, <1>5 DEF KeysHaveOwners
  <2>6. KeysHaveOwners' BY <1>1, <1>2, <1>3, <2>1, <2>2, <2>4, <2>5 DEF KeysHaveOwners
  <2>7. inflight' \subseteq Jobs BY <1>1, <1>2, <2>1 DEF JobTypeOK
  <2> QED BY <1>1, <2>1, <2>3, <2>6, <2>7, CallerMoves
<1> QED BY <1>4, <1>5

LEMMA TakeSlotStep ==
    ASSUME JobInv, NEW c \in Callers, TakeSlot(c)
    PROVE  JobInv'
<1> PICK idle : idle = [pc |-> "idle", job |-> NoJob] OBVIOUS
<1> PICK job : job = caller[c].job OBVIOUS
<1>1. /\ caller[c].pc = "slot" /\ caller' = [caller EXCEPT ![c] = idle] /\ UNCHANGED <<cancelled, shutdown, runs, faults>>
      /\ JobTypeOK /\ KeysHaveOwners
  BY DEF TakeSlot, JobInv
<1>2. \A d \in Callers : caller'[d] = IF d = c THEN idle ELSE caller[d] BY <1>1 DEF JobTypeOK
<1>3. job \in Jobs /\ Inserted(c) BY <1>1 DEF KeysHaveOwners, Inserted
<1>4. \A d \in Callers : (Inserted(d)' <=> Inserted(d) /\ d # c) /\ (d # c => caller'[d] = caller[d])
  BY <1>2 DEF Inserted
<1>5. ASSUME inflight' = inflight \ {job}, UNCHANGED task
      PROVE  JobInv'
  <2>1. \A t \in Tasks : Owns(t)' <=> Owns(t) BY <1>5 DEF Owns
  <2>2. KeysHaveOwners' BY <1>1, <1>2, <1>3, <1>4, <1>5, <2>1 DEF KeysHaveOwners
  <2>3. inflight' \subseteq Jobs BY <1>1, <1>5 DEF JobTypeOK
  <2> QED BY <1>1, <1>5, <2>2, <2>3, CallerMoves
<1>6. ASSUME NEW t \in Tasks, task[t].pc = "free", task' = [task EXCEPT ![t] = [pc |-> "worker", job |-> job, run |-> 0]],
             UNCHANGED inflight
      PROVE  JobInv'
  <2> PICK new : new = [pc |-> "worker", job |-> job, run |-> 0] OBVIOUS
  <2>1. task' = [task EXCEPT ![t] = new] BY <1>6
  <2>2. \A u \in Tasks : task'[u] = IF u = t THEN new ELSE task[u] BY <1>1, <2>1 DEF JobTypeOK
  <2>3. new \in TaskStates' /\ TaskStates' = TaskStates BY <1>1, <1>3, LostIsFinite DEF TaskStates, TaskPlaces
  <2>4. JobTypeOK'
    <3>1. task' \in [Tasks -> TaskStates] BY <1>1, <2>1, <2>3, Places
    <3>2. caller' \in [Callers -> [pc : {"idle", "insert", "slot"}, job : Jobs \cup {NoJob}]] BY <1>1 DEF JobTypeOK
    <3> QED BY <1>1, <1>6, <3>1, <3>2 DEF JobTypeOK, TaskStates, TaskPlaces
  <2>5. PermitsAreBounded' BY <2>1, <2>3, <2>4, PermitsStep DEF WithRepository
  <2>6. KeysHaveOwners'
    <3>1. \A u \in Tasks : (Owns(u)' <=> Owns(u) \/ u = t) /\ (u # t => task'[u] = task[u]) BY <1>6, <2>2 DEF Owns
    <3>2. ~Owns(t) /\ task'[t].job = job BY <1>6, <2>2 DEF Owns
    <3>3. \A k : k \in inflight' <=> \/ \E u \in Tasks : Owns(u)' /\ task'[u].job = k
                                     \/ \E d \in Callers : Inserted(d)' /\ caller'[d].job = k
      <4>1. \A k : (\E u \in Tasks : Owns(u)' /\ task'[u].job = k)
                     <=> k = job \/ \E u \in Tasks : Owns(u) /\ task[u].job = k
        BY <3>1, <3>2
      <4>2. \A k : (\E d \in Callers : Inserted(d) /\ caller[d].job = k)
                     <=> k = job \/ \E d \in Callers : Inserted(d)' /\ caller'[d].job = k
        BY <1>3, <1>4
      <4> QED BY <1>1, <1>6, <4>1, <4>2 DEF KeysHaveOwners
    <3> QED BY <1>1, <1>2, <1>3, <1>4, <3>1, <3>2, <3>3 DEF KeysHaveOwners
  <2>7. ShutdownIsFinal' BY <1>1, <2>1, <2>3, ShutdownStep DEF AtWork
  <2>8. RecordsAreCounted'
    <3>1. Recorded' = Recorded /\ \A u \in Recorded : task'[u] = task[u] BY <1>6, <2>2 DEF Recorded, WithRecord
    <3>2. Lost' = Lost BY <1>1, <3>1 DEF Lost, Open, Owned
    <3> QED BY <1>1, <3>1, <3>2 DEF JobInv, RecordsAreCounted
  <2> QED BY <2>4, <2>5, <2>6, <2>7, <2>8 DEF JobInv
<1> QED BY <1>5, <1>6 DEF TakeSlot

--------------------------------
(* The scheduler as a whole. *)

LEMMA ShutdownSteps ==
    ASSUME JobInv, Shutdown \/ Drained
    PROVE  JobInv'
<1>1. /\ UNCHANGED <<caller, task, inflight, runs, faults>>
      /\ cancelled' \in BOOLEAN /\ shutdown' \in {"draining", "drained", "gave_up"}
  BY DEF Shutdown, Drained, JobInv, JobTypeOK
<1>2. JobTypeOK' BY <1>1 DEF JobInv, JobTypeOK
<1>3. KeysHaveOwners' BY <1>1 DEF JobInv, KeysHaveOwners, Owns, Inserted
<1>4. PermitsAreBounded' BY <1>1 DEF JobInv, PermitsAreBounded, Hired, AtRepository, HoldsRepository, Holding, Live
<1>5. RecordsAreCounted' BY <1>1 DEF JobInv, RecordsAreCounted, Recorded, Lost, Open, Owned
<1>6. ShutdownIsFinal'
  <2>1. CASE Shutdown BY <2>1 DEF Shutdown, ShutdownIsFinal
  <2>2. CASE Drained
    <3>1. shutdown' = "drained" => Live = {} BY <2>2 DEF Drained
    <3>2. Live = {} => \A t \in Tasks : task[t].pc \notin AtWork BY Places DEF JobInv, AtWork
    <3> QED BY <2>2, <3>1, <3>2 DEF Drained, JobInv, ShutdownIsFinal
  <2> QED BY <2>1, <2>2
<1> QED BY <1>2, <1>3, <1>4, <1>5, <1>6 DEF JobInv

LEMMA CrashStep ==
    ASSUME JobInv, Crash
    PROVE  JobInv'
<1>1. JobTypeOK /\ Len(runs) \in Nat BY LostIsFinite DEF JobInv
<1>2. \A c \in Callers : caller'[c] = [pc |-> "idle", job |-> NoJob] BY DEF Crash
<1>3. /\ task' = [t \in Tasks |-> IF t \in Live \cup Panicked THEN [task[t] EXCEPT !.pc = "done"] ELSE task[t]]
      /\ inflight' = {} /\ cancelled' = FALSE /\ shutdown' = "up" /\ runs' = runs
  BY DEF Crash
<1>4. ASSUME NEW t \in Tasks
      PROVE  /\ task'[t] \in TaskStates /\ task'[t].pc \in {"free", "done"}
             /\ task'[t].pc = "free" <=> task[t].pc = "free"
  <2>1. CASE t \in Live \cup Panicked
    <3> PICK new : new = [task[t] EXCEPT !.pc = "done"] OBVIOUS
    <3>1. new \in TaskStates /\ new.pc = "done" BY <1>1, TaskTypes DEF TaskPlaces
    <3>2. task'[t] = new BY <1>3, <2>1
    <3>3. task[t].pc # "free" BY <1>1, <2>1, Places
    <3> QED BY <3>1, <3>2, <3>3
  <2>2. CASE t \notin Live \cup Panicked
    <3>1. task'[t] = task[t] /\ task[t] \in TaskStates BY <1>1, <1>3, <2>2, Places
    <3>2. task[t].pc \in {"free", "done"} BY <1>1, <2>2, Places DEF TaskStates, TaskPlaces
    <3> QED BY <3>1, <3>2
  <2> QED BY <2>1, <2>2
<1>5. faults' \in [store : 0..MaxStoreErrors, crashes : 0..MaxCrashes, found : 0..Len(runs)] /\ faults'.found = Len(runs)
      /\ faults'.store = faults.store
  <2> PICK more : more = faults.crashes + 1 OBVIOUS
  <2>1. more \in 0..MaxCrashes BY <1>1, FaultAssumption DEF Crash, JobTypeOK
  <2>2. faults' = [faults EXCEPT !.crashes = more, !.found = Len(runs)] BY DEF Crash
  <2> QED
    <3>1. /\ faults \in [store : 0..MaxStoreErrors, crashes : 0..MaxCrashes, found : 0..Len(runs)]
          /\ Len(runs) \in 0..Len(runs)
      BY <1>1 DEF JobTypeOK
    <3> PICK len : len = Len(runs) OBVIOUS
    <3>2. faults' = [faults EXCEPT !.crashes = more, !.found = len] BY <2>2
    <3>3. /\ faults' \in [store : 0..MaxStoreErrors, crashes : 0..MaxCrashes, found : 0..len]
          /\ faults'.found = len /\ faults'.store = faults.store
      BY <2>1, <3>1, <3>2
    <3> QED BY <3>3
<1>6. JobTypeOK'
  <2>1. task' \in [Tasks -> TaskStates] BY <1>3, <1>4
  <2>2. caller' \in [Callers -> [pc : {"idle", "insert", "slot"}, job : Jobs \cup {NoJob}]] BY DEF Crash
  <2> QED BY <1>1, <1>3, <1>5, <2>1, <2>2 DEF JobTypeOK, TaskStates, TaskPlaces
<1>7. KeysHaveOwners'
  <2>1. \A t \in Tasks : ~Owns(t)' BY <1>4 DEF Owns
  <2>2. \A c \in Callers : ~Inserted(c)' /\ caller'[c].pc = "idle" BY <1>2 DEF Inserted
  <2> QED BY <1>3, <2>1, <2>2 DEF KeysHaveOwners
<1>8. PermitsAreBounded'
  <2>1. Hired' = Hired BY <1>4 DEF Hired
  <2>2. \A s \in JobScopes : AtRepository(s)' = {} BY <1>4, <1>6 DEF AtRepository, HoldsRepository, Holding, Live
  <2>3. Cardinality({}) <= PerRepository BY FS_EmptySet, JobLimitAssumption
  <2> QED BY <2>1, <2>2, <2>3 DEF JobInv, PermitsAreBounded
<1>9. ShutdownIsFinal' BY <1>3 DEF ShutdownIsFinal
<1>10. RecordsAreCounted'
  <2>1. Recorded' = {} BY <1>4 DEF Recorded, WithRecord
  <2>2. Open' = {} BY <1>1, <1>3, <1>5 DEF Open
  <2>3. Lost' = {} BY <2>2 DEF Lost
  <2>4. Cardinality({}) <= faults'.store BY <1>1, <1>5, LostIsFinite, FS_EmptySet
  <2> QED BY <2>1, <2>3, <2>4 DEF RecordsAreCounted
<1> QED BY <1>6, <1>7, <1>8, <1>9, <1>10 DEF JobInv

--------------------------------
(* The theorem. *)

LEMMA JobInvStep == JobInv /\ [JobNext]_jobVars => JobInv'
<1> SUFFICES ASSUME JobInv, [JobNext]_jobVars PROVE JobInv' OBVIOUS
<1>1. CASE UNCHANGED jobVars
  BY <1>1 DEF jobVars, JobInv, JobTypeOK, KeysHaveOwners, Owns, Inserted, PermitsAreBounded, Hired, AtRepository,
              HoldsRepository, Holding, Live, ShutdownIsFinal, RecordsAreCounted, Recorded, Lost, Open, Owned
<1>2. ASSUME NEW c \in Callers, Submit(c) \/ \E job \in Jobs : CheckCancelled(c, job)
      PROVE  JobInv'
  BY <1>2, CheckCancelledStep, InsertKeyStep, TakeSlotStep DEF Submit
<1>3. ASSUME NEW t \in Tasks, AdvanceTask(t) \/ Panic(t)
      PROVE  JobInv'
  BY <1>3, AcquireSteps, CheckTokenStep, StartStep, RunSteps, FinishRunStep DEF AdvanceTask
<1>4. CASE Shutdown \/ Drained \/ Crash BY <1>4, ShutdownSteps, CrashStep
<1> QED BY <1>1, <1>2, <1>3, <1>4 DEF JobNext

(* scheduler.rs: however submissions, tasks, panics, failing writes, a shutdown and process stops interleave,  *)
(* runs of one key exclude each other and a repository is worked on within its bound, the set of keys is the   *)
(* set of runs, every run that is over is closed, a job can always go on while one is admitted, and a shutdown *)
(* that returns leaves none at work.                                                                           *)
THEOREM JobsStaySound == JobSpec => []JobsAreSound
<1>1. JobInit => JobInv BY JobInvInit
<1>2. JobInv /\ [JobNext]_jobVars => JobInv' BY JobInvStep
<1>3. JobInv => JobsAreSound BY JobInvSound
<1> QED BY <1>1, <1>2, <1>3, PTL DEF JobSpec

--------------------------------
(* Sums over finite sets.  SumOver takes the elements in the order of CHOOSE;  *)
(* that it is defined, and that the order does not matter, is shown from the   *)
(* least-number principle on the size of the set.                              *)

SumOver(f, S) == MapThenSumSet(LAMBDA i : f[i], S)

(* A non-empty set of naturals has a least element. *)
LEMMA LeastNatural ==
    ASSUME NEW T \in SUBSET Nat, T # {}
    PROVE  \E m \in T : \A n \in T : m <= n
<1> DEFINE R == {ss \in Nat \X Nat : ss[1] < ss[2]}
<1>1. IsWellFoundedOn(R, Nat) BY NatLessThanWellFounded, Zenon DEF OpToRel
<1>2. \E x \in T : \A y \in T : ~(<<y, x>> \in R)
  <2> HIDE DEF R
  <2> QED BY <1>1, WFMin
<1>3. PICK x \in T : \A y \in T : ~(<<y, x>> \in R) BY <1>2
<1>4. \A y \in T : ~(y < x) BY <1>3
<1> QED BY <1>4

Pick(s) == CHOOSE x \in s : TRUE
Without(s) == s \ {Pick(s)}

UpTo(S, n) == {s \in SUBSET S : Cardinality(s) <= n}

LEMMA PickOne ==
    ASSUME NEW S, IsFiniteSet(S), NEW s \in SUBSET S, s # {}
    PROVE  /\ Pick(s) \in s /\ Pick(s) \in S /\ Without(s) \in SUBSET S
           /\ IsFiniteSet(s) /\ Cardinality(s) \in Nat /\ Cardinality(Without(s)) = Cardinality(s) - 1
           /\ Cardinality(s) # 0 /\ Cardinality(Without(s)) \in Nat
<1>1. Pick(s) \in s BY DEF Pick
<1>2. IsFiniteSet(s) BY FS_Subset
<1>3. Cardinality(Without(s)) = Cardinality(s) - 1 /\ IsFiniteSet(Without(s))
  BY <1>1, <1>2, FS_RemoveElement DEF Without
<1>4. Cardinality(s) \in Nat /\ Cardinality(Without(s)) \in Nat BY <1>2, <1>3, FS_CardinalityType
<1> QED BY <1>1, <1>2, <1>3, <1>4 DEF Without

(* The sum, for all subsets at once. *)
Sums(g, f, D) == \A s \in D : g[s] = IF s = {} THEN 0 ELSE f[Pick(s)] + g[Without(s)]

LEMMA SumsUpTo ==
    ASSUME NEW S, IsFiniteSet(S), NEW f, NEW n \in Nat
    PROVE  \E g : DOMAIN g = UpTo(S, n) /\ Sums(g, f, UpTo(S, n))
<1> DEFINE T == {k \in Nat : ~\E g : DOMAIN g = UpTo(S, k) /\ Sums(g, f, UpTo(S, k))}
<1> SUFFICES ASSUME T # {} PROVE FALSE OBVIOUS
<1>1. PICK k \in T : \A j \in T : k <= j BY LeastNatural
<1>2. \A g : ~(DOMAIN g = UpTo(S, k) /\ Sums(g, f, UpTo(S, k))) BY <1>1
<1>3. k # 0
  <2> SUFFICES ASSUME k = 0 PROVE FALSE OBVIOUS
  <2> DEFINE g == [s \in UpTo(S, 0) |-> 0]
  <2>1. \A s \in UpTo(S, 0) : s = {} BY PickOne DEF UpTo
  <2>2. DOMAIN g = UpTo(S, 0) /\ Sums(g, f, UpTo(S, 0)) BY <2>1 DEF Sums
  <2> HIDE DEF g
  <2> QED BY <1>2, <2>2
<1>4. PICK p \in Nat : p = k - 1 BY <1>3
<1>5. p \notin T BY <1>1, <1>4
<1>6. PICK g : DOMAIN g = UpTo(S, p) /\ Sums(g, f, UpTo(S, p)) BY <1>5
<1> DEFINE h == [s \in UpTo(S, k) |-> IF s = {} THEN 0 ELSE f[Pick(s)] + g[Without(s)]]
<1>7. ASSUME NEW s \in UpTo(S, k), s # {} PROVE Without(s) \in UpTo(S, p) /\ Without(s) \in UpTo(S, k)
  BY <1>4, <1>7, PickOne DEF UpTo
<1>8. ASSUME NEW s \in UpTo(S, p) PROVE s \in UpTo(S, k) /\ h[s] = g[s]
  <2>1. s \in UpTo(S, k) BY <1>4, FS_Subset, FS_CardinalityType DEF UpTo
  <2>2. g[s] = IF s = {} THEN 0 ELSE f[Pick(s)] + g[Without(s)] BY <1>6 DEF Sums
  <2> QED BY <2>1, <2>2
<1>9. ASSUME NEW s \in UpTo(S, k) PROVE h[s] = IF s = {} THEN 0 ELSE f[Pick(s)] + h[Without(s)]
  <2>1. h[s] = IF s = {} THEN 0 ELSE f[Pick(s)] + g[Without(s)] OBVIOUS
  <2>2. s # {} => h[Without(s)] = g[Without(s)] BY <1>7, <1>8
  <2> HIDE DEF h
  <2> QED BY <2>1, <2>2
<1>10. DOMAIN h = UpTo(S, k) OBVIOUS
<1> HIDE DEF h
<1>11. Sums(h, f, UpTo(S, k)) BY <1>9 DEF Sums
<1> QED BY <1>2, <1>10, <1>11

LEMMA SumIsDefined ==
    ASSUME NEW S, IsFiniteSet(S), NEW f
    PROVE  \E g : Sums(g, f, SUBSET S) /\ SumOver(f, S) = g[S]
<1> DEFINE all == CHOOSE g : g = [s \in SUBSET S |-> IF s = {} THEN 0 ELSE f[CHOOSE x \in s : TRUE] + g[s \ {CHOOSE x \in s : TRUE}]]
<1>1. SumOver(f, S) = all[S] BY DEF SumOver, MapThenSumSet, MapThenFoldSet
<1>2. UpTo(S, Cardinality(S)) = SUBSET S BY FS_Subset DEF UpTo
<1>3. PICK g : DOMAIN g = SUBSET S /\ Sums(g, f, SUBSET S)
  <2> DEFINE n == Cardinality(S)
  <2>1. n \in Nat BY FS_CardinalityType
  <2>2. UpTo(S, n) = SUBSET S BY <1>2
  <2> HIDE DEF n
  <2>3. \E g : DOMAIN g = UpTo(S, n) /\ Sums(g, f, UpTo(S, n)) BY <2>1, SumsUpTo
  <2> QED BY <2>2, <2>3
<1> DEFINE g0 == [s \in SUBSET S |-> g[s]]
<1>4. ASSUME NEW s \in SUBSET S
      PROVE  g0[s] = IF s = {} THEN 0 ELSE f[CHOOSE x \in s : TRUE] + g0[s \ {CHOOSE x \in s : TRUE}]
  BY <1>3 DEF Sums, Pick, Without
<1>5. g0 = [s \in SUBSET S |-> IF s = {} THEN 0 ELSE f[CHOOSE x \in s : TRUE] + g0[s \ {CHOOSE x \in s : TRUE}]]
  <2>1. g0 = [s \in SUBSET S |-> g0[s]] OBVIOUS
  <2> HIDE DEF g0
  <2> QED BY <1>4, <2>1
<1> HIDE DEF g0
<1>6. all = [s \in SUBSET S |-> IF s = {} THEN 0 ELSE f[CHOOSE x \in s : TRUE] + all[s \ {CHOOSE x \in s : TRUE}]]
  BY <1>5
<1> HIDE DEF all
<1>7. Sums(all, f, SUBSET S) BY <1>6 DEF Sums, Pick, Without
<1> QED BY <1>1, <1>7

(* The sum of a part does not depend on the whole it is a part of. *)
LEMMA SumsAgree ==
    ASSUME NEW S, IsFiniteSet(S), NEW D, NEW E, SUBSET S \subseteq D, SUBSET S \subseteq E,
           NEW f, NEW e, \A x \in S : f[x] = e[x],
           NEW g, NEW h, Sums(g, f, D), Sums(h, e, E)
    PROVE  g[S] = h[S]
<1> DEFINE T == {k \in Nat : \E s \in SUBSET S : Cardinality(s) = k /\ g[s] # h[s]}
<1> SUFFICES ASSUME T # {} PROVE FALSE
  <2>1. S \in SUBSET S /\ Cardinality(S) \in Nat BY FS_CardinalityType
  <2> QED BY <2>1
<1>1. PICK k \in T : \A j \in T : k <= j BY LeastNatural
<1>2. PICK s \in SUBSET S : Cardinality(s) = k /\ g[s] # h[s] BY <1>1
<1>3. /\ g[s] = IF s = {} THEN 0 ELSE f[Pick(s)] + g[Without(s)]
      /\ h[s] = IF s = {} THEN 0 ELSE e[Pick(s)] + h[Without(s)]
  BY DEF Sums
<1>4. s # {} BY <1>2, <1>3
<1>5. Without(s) \in SUBSET S /\ Cardinality(Without(s)) = k - 1 /\ k - 1 \in Nat /\ Pick(s) \in S
  BY <1>2, <1>4, PickOne
<1>6. g[Without(s)] = h[Without(s)]
  <2>1. k - 1 \notin T BY <1>1, <1>5
  <2> QED BY <1>5, <2>1
<1> QED BY <1>2, <1>3, <1>4, <1>5, <1>6

LEMMA SumStep ==
    ASSUME NEW S, IsFiniteSet(S), NEW f
    PROVE  SumOver(f, S) = IF S = {} THEN 0 ELSE f[Pick(S)] + SumOver(f, Without(S))
<1>1. PICK g : Sums(g, f, SUBSET S) /\ SumOver(f, S) = g[S] BY SumIsDefined
<1>2. g[S] = IF S = {} THEN 0 ELSE f[Pick(S)] + g[Without(S)] BY <1>1 DEF Sums
<1>3. ASSUME S # {} PROVE g[Without(S)] = SumOver(f, Without(S))
  <2> DEFINE R == Without(S)
  <2>1. IsFiniteSet(R) /\ R \subseteq S BY FS_RemoveElement DEF Without
  <2> HIDE DEF R
  <2>2. PICK h : Sums(h, f, SUBSET R) /\ SumOver(f, R) = h[R] BY <2>1, SumIsDefined
  <2>3. g[R] = h[R] BY <1>1, <2>1, <2>2, SumsAgree
  <2> QED BY <2>2, <2>3 DEF R
<1> QED BY <1>1, <1>2, <1>3

(* Only the summands count. *)
LEMMA SumSame ==
    ASSUME NEW S, IsFiniteSet(S), NEW f, NEW e, \A x \in S : f[x] = e[x]
    PROVE  SumOver(f, S) = SumOver(e, S)
<1>1. PICK g : Sums(g, f, SUBSET S) /\ SumOver(f, S) = g[S] BY SumIsDefined
<1>2. PICK h : Sums(h, e, SUBSET S) /\ SumOver(e, S) = h[S] BY SumIsDefined
<1> QED BY <1>1, <1>2, SumsAgree

Summable(f, S) == IsFiniteSet(S) /\ \A x \in S : f[x] \in Nat

LEMMA SumIsNatural ==
    ASSUME NEW S, NEW f, Summable(f, S)
    PROVE  SumOver(f, S) \in Nat
<1> DEFINE T == {k \in Nat : \E s \in SUBSET S : Cardinality(s) = k /\ SumOver(f, s) \notin Nat}
<1> SUFFICES ASSUME T # {} PROVE FALSE
  <2>1. S \in SUBSET S /\ Cardinality(S) \in Nat BY FS_CardinalityType DEF Summable
  <2> QED BY <2>1
<1>1. PICK k \in T : \A j \in T : k <= j BY LeastNatural
<1>2. PICK s \in SUBSET S : Cardinality(s) = k /\ SumOver(f, s) \notin Nat BY <1>1
<1>3. SumOver(f, s) = IF s = {} THEN 0 ELSE f[Pick(s)] + SumOver(f, Without(s)) BY SumStep, FS_Subset DEF Summable
<1>4. s # {} BY <1>2, <1>3
<1>5. Without(s) \in SUBSET S /\ Cardinality(Without(s)) = k - 1 /\ k - 1 \in Nat /\ Pick(s) \in S
  BY <1>2, <1>4, PickOne DEF Summable
<1>6. SumOver(f, Without(s)) \in Nat
  <2>1. k - 1 \notin T BY <1>1, <1>5
  <2> QED BY <1>5, <2>1
<1>7. f[Pick(s)] \in Nat BY <1>5 DEF Summable
<1> QED BY <1>2, <1>3, <1>4, <1>6, <1>7

(* Any element may be taken first. *)
LEMMA SumRemove ==
    ASSUME NEW S, NEW f, Summable(f, S), NEW x \in S
    PROVE  SumOver(f, S) = f[x] + SumOver(f, S \ {x})
<1> DEFINE T == {k \in Nat : \E s \in SUBSET S : /\ Cardinality(s) = k
                                                 /\ \E z \in s : SumOver(f, s) # f[z] + SumOver(f, s \ {z})}
<1> SUFFICES ASSUME T # {} PROVE FALSE
  <2>1. S \in SUBSET S /\ Cardinality(S) \in Nat BY FS_CardinalityType DEF Summable
  <2> QED BY <2>1
<1>1. PICK k \in T : \A j \in T : k <= j BY LeastNatural
<1>s. PICK s \in SUBSET S : Cardinality(s) = k /\ \E z \in s : SumOver(f, s) # f[z] + SumOver(f, s \ {z}) BY <1>1
<1>2. PICK z \in s : Cardinality(s) = k /\ SumOver(f, s) # f[z] + SumOver(f, s \ {z}) BY <1>s
<1>i. ASSUME NEW t \in SUBSET S, NEW w \in t, Cardinality(t) = k - 1, k - 1 \in Nat
      PROVE  SumOver(f, t) = f[w] + SumOver(f, t \ {w})
  <2>1. k \in Nat OBVIOUS
  <2>2. k - 1 \notin T
    <3> HIDE DEF T
    <3> QED BY <1>1, <1>i, <2>1
  <2> QED BY <1>i, <2>2
<1>3. ASSUME NEW t \in SUBSET S PROVE Summable(f, t) /\ SumOver(f, t) \in Nat BY FS_Subset, SumIsNatural DEF Summable
<1>4. SumOver(f, s) = f[Pick(s)] + SumOver(f, Without(s)) BY <1>2, <1>3, SumStep DEF Summable
<1>5. Without(s) \in SUBSET S /\ Cardinality(Without(s)) = k - 1 /\ k - 1 \in Nat /\ Pick(s) \in S /\ Pick(s) \in s
  BY <1>2, PickOne DEF Summable
<1>6. Pick(s) # z BY <1>2, <1>4 DEF Without
<1>7. SumOver(f, Without(s)) = f[z] + SumOver(f, Without(s) \ {z})
  <2>1. z \in Without(s) BY <1>2, <1>6 DEF Without
  <2> QED BY <1>5, <1>i, <2>1
<1> DEFINE r == s \ {z}
           y == Pick(s)
(* What is left once z is gone begins with another element, but holds Pick(s). *)
<1>8. r \in SUBSET S /\ y \in r /\ r \ {y} = Without(s) \ {z} /\ Cardinality(r) = k - 1
  <2>1. IsFiniteSet(s) BY <1>3 DEF Summable
  <2> QED BY <1>2, <1>5, <1>6, <2>1, FS_RemoveElement DEF Without
<1>9. SumOver(f, r) = f[y] + SumOver(f, r \ {y}) BY <1>5, <1>8, <1>i
<1>10. f[z] \in Nat /\ f[y] \in Nat /\ SumOver(f, r \ {y}) \in Nat
  <2>1. r \ {y} \in SUBSET S BY <1>8
  <2>2. SumOver(f, r \ {y}) \in Nat BY <1>3, <2>1
  <2>3. f[z] \in Nat /\ f[y] \in Nat BY <1>2, <1>5 DEF Summable
  <2> QED BY <2>2, <2>3
<1>11. /\ SumOver(f, s) = f[y] + (f[z] + SumOver(f, r \ {y}))
       /\ SumOver(f, s) # f[z] + SumOver(f, r)
  BY <1>2, <1>4, <1>7, <1>8
<1> HIDE DEF r, y
<1> QED BY <1>9, <1>10, <1>11

LEMMA SumEmpty == ASSUME NEW f PROVE SumOver(f, {}) = 0
  BY SumStep, FS_EmptySet

LEMMA SumAdd ==
    ASSUME NEW S, NEW x, x \notin S, NEW f, Summable(f, S), f[x] \in Nat
    PROVE  Summable(f, S \cup {x}) /\ SumOver(f, S \cup {x}) = f[x] + SumOver(f, S)
<1> DEFINE Q == S \cup {x}
<1>1. Summable(f, Q) /\ x \in Q /\ Q \ {x} = S BY FS_AddElement DEF Summable
<1> HIDE DEF Q
<1>2. SumOver(f, Q) = f[x] + SumOver(f, Q \ {x}) BY <1>1, SumRemove
<1> QED BY <1>1, <1>2 DEF Q

(* Sums of disjoint sets add up. *)
LEMMA SumDisjoint ==
    ASSUME NEW S, NEW R, S \cap R = {}, NEW f, Summable(f, S), Summable(f, R)
    PROVE  Summable(f, S \cup R) /\ SumOver(f, S \cup R) = SumOver(f, S) + SumOver(f, R)
<1>0. \A s \in SUBSET S : Summable(f, s \cup R) /\ Summable(f, s) /\ SumOver(f, s \cup R) \in Nat /\ SumOver(f, s) \in Nat
  <2> TAKE s \in SUBSET S
  <2>1. IsFiniteSet(s) /\ IsFiniteSet(s \cup R) BY FS_Subset, FS_Union DEF Summable
  <2>2. Summable(f, s \cup R) /\ Summable(f, s) BY <2>1 DEF Summable
  <2> QED BY <2>2, SumIsNatural
<1> DEFINE T == {k \in Nat : \E s \in SUBSET S : Cardinality(s) = k /\ SumOver(f, s \cup R) # SumOver(f, s) + SumOver(f, R)}
<1> SUFFICES ASSUME T # {} PROVE FALSE
  <2>1. S \in SUBSET S /\ Cardinality(S) \in Nat /\ Summable(f, S \cup R) BY <1>0, FS_CardinalityType DEF Summable
  <2> QED BY <2>1
<1>1. PICK k \in T : \A j \in T : k <= j BY LeastNatural
<1>2. PICK s \in SUBSET S : Cardinality(s) = k /\ SumOver(f, s \cup R) # SumOver(f, s) + SumOver(f, R) BY <1>1
<1>3. SumOver(f, R) \in Nat BY SumIsNatural
<1>4. s # {}
  <2> SUFFICES ASSUME s = {} PROVE FALSE OBVIOUS
  <2>1. s \cup R = R /\ SumOver(f, s) = 0 BY SumEmpty
  <2> QED BY <1>2, <1>3, <2>1
<1>5. PICK x \in s : TRUE BY <1>4
<1> DEFINE q == s \ {x}
<1>6. q \in SUBSET S /\ Cardinality(q) = k - 1 /\ k - 1 \in Nat /\ k \in Nat
  <2>1. IsFiniteSet(s) /\ IsFiniteSet(q) BY <1>0, FS_RemoveElement DEF Summable
  <2>2. Cardinality(q) \in Nat /\ Cardinality(s) \in Nat BY <2>1, FS_CardinalityType
  <2> QED BY <1>2, <1>5, <2>1, <2>2, FS_RemoveElement
<1>7. SumOver(f, q \cup R) = SumOver(f, q) + SumOver(f, R)
  <2>1. k - 1 \notin T
    <3> HIDE DEF T, q
    <3> QED BY <1>1, <1>6
  <2> HIDE DEF q
  <2> QED BY <1>6, <2>1
<1>8. SumOver(f, s) = f[x] + SumOver(f, q) BY <1>0, <1>5, SumRemove
<1>9. SumOver(f, s \cup R) = f[x] + SumOver(f, q \cup R)
  <2> DEFINE U == s \cup R
  <2>1. Summable(f, U) /\ x \in U /\ U \ {x} = q \cup R BY <1>0, <1>5
  <2> HIDE DEF U, q
  <2>2. SumOver(f, U) = f[x] + SumOver(f, U \ {x}) BY <2>1, SumRemove
  <2> QED BY <2>1, <2>2 DEF U
<1>10. f[x] \in Nat /\ SumOver(f, q) \in Nat
  <2>1. f[x] \in Nat BY <1>5 DEF Summable
  <2> HIDE DEF q
  <2> QED BY <1>0, <1>6, <2>1
<1> HIDE DEF q
<1>11. SumOver(f, s \cup R) = SumOver(f, s) + SumOver(f, R) BY <1>3, <1>7, <1>8, <1>9, <1>10
<1>12. Summable(f, S \cup R) BY <1>0
<1> QED BY <1>2, <1>11

(* Counting is summing ones. *)
LEMMA SumOfOnes ==
    ASSUME NEW S, IsFiniteSet(S), NEW f, \A x \in S : f[x] = 1
    PROVE  SumOver(f, S) = Cardinality(S)
<1>0. \A s \in SUBSET S : Summable(f, s) /\ Cardinality(s) \in Nat BY FS_Subset, FS_CardinalityType DEF Summable
<1> DEFINE T == {k \in Nat : \E s \in SUBSET S : Cardinality(s) = k /\ SumOver(f, s) # k}
<1> SUFFICES ASSUME T # {} PROVE FALSE
  <2>1. S \in SUBSET S /\ Cardinality(S) \in Nat BY FS_CardinalityType
  <2> QED BY <2>1
<1>1. PICK k \in T : \A j \in T : k <= j BY LeastNatural
<1>2. PICK s \in SUBSET S : Cardinality(s) = k /\ SumOver(f, s) # k BY <1>1
<1>4. s # {} BY <1>2, SumEmpty, FS_EmptySet
<1>5. PICK x \in s : TRUE BY <1>4
<1> DEFINE q == s \ {x}
<1>6. q \in SUBSET S /\ Cardinality(q) = k - 1 /\ k - 1 \in Nat /\ k \in Nat
  <2>1. IsFiniteSet(s) /\ IsFiniteSet(q) BY <1>0, FS_RemoveElement DEF Summable
  <2>2. Cardinality(q) \in Nat /\ Cardinality(s) \in Nat BY <2>1, FS_CardinalityType
  <2> QED BY <1>2, <1>5, <2>1, <2>2, FS_RemoveElement
<1>7. SumOver(f, q) = k - 1
  <2>1. k - 1 \notin T
    <3> HIDE DEF T, q
    <3> QED BY <1>1, <1>6
  <2> HIDE DEF q
  <2> QED BY <1>6, <2>1
<1>8. SumOver(f, s) = f[x] + SumOver(f, q) BY <1>0, <1>5, SumRemove
<1> HIDE DEF q
<1> QED BY <1>2, <1>5, <1>6, <1>7, <1>8

--------------------------------
(* A counter is what its rows are charged: the committed part and the reserved part of a sum. *)

LEMMA ValueForms ==
    ASSUME NEW v \in Values, NEW n \in Nat
    PROVE  /\ v = [committed |-> v.committed, reserved |-> v.reserved]
           /\ v.committed \in Nat /\ v.reserved \in Nat
           /\ Total(v) = v.committed + v.reserved
           /\ Plus(v, "reserved", n) = [committed |-> v.committed, reserved |-> v.reserved + n]
           /\ Minus(v, "reserved", n) = [committed |-> v.committed, reserved |-> v.reserved - n]
           /\ Minus(v, "committed", n) = [committed |-> v.committed - n, reserved |-> v.reserved]
           /\ Moved(v, n) = [committed |-> v.committed + n, reserved |-> v.reserved - n]
<1>1. v = [committed |-> v.committed, reserved |-> v.reserved] /\ v.committed \in Nat /\ v.reserved \in Nat
  BY DEF Values
<1> DEFINE c == v.committed
           s == v.reserved
<1>2. v = [committed |-> c, reserved |-> s] /\ c \in Nat /\ s \in Nat BY <1>1
<1> HIDE DEF c, s
<1>3. Plus(v, "reserved", n) = [committed |-> c, reserved |-> s + n] BY <1>2 DEF Plus
<1>4. Minus(v, "reserved", n) = [committed |-> c, reserved |-> s - n] BY <1>2 DEF Minus
<1>5. Minus(v, "committed", n) = [committed |-> c - n, reserved |-> s] BY <1>2 DEF Minus
<1>6. Moved(v, n) = [committed |-> c + n, reserved |-> s - n] /\ Total(v) = c + s BY <1>2 DEF Moved, Total
<1> QED BY <1>1, <1>3, <1>4, <1>5, <1>6 DEF c, s

(* The keys whose charge is committed, and those whose charge is reserved. *)
Firm(refs, K) == {k \in K : refs[k].committed > 0}
Held(refs, K) == {k \in K : refs[k].committed = 0 /\ refs[k].reserved > 0}

(* Each key that has references is charged once, by its weight. *)
Charged(v, w, refs, K) ==
    /\ Summable(w, Firm(refs, K)) /\ v.committed = SumOver(w, Firm(refs, K))
    /\ Summable(w, Held(refs, K)) /\ v.reserved = SumOver(w, Held(refs, K))

(* What the other keys are charged. *)
Others(c, s, w, refs, K, k) ==
    /\ c \in Nat /\ Summable(w, Firm(refs, K) \ {k}) /\ c = SumOver(w, Firm(refs, K) \ {k})
    /\ s \in Nat /\ Summable(w, Held(refs, K) \ {k}) /\ s = SumOver(w, Held(refs, K) \ {k})

LEMMA SumWithout ==
    ASSUME NEW S, NEW f, Summable(f, S), NEW x
    PROVE  /\ Summable(f, S \ {x}) /\ SumOver(f, S \ {x}) \in Nat
           /\ x \in S => f[x] \in Nat
           /\ SumOver(f, S) = (IF x \in S THEN f[x] ELSE 0) + SumOver(f, S \ {x})
<1> DEFINE R == S \ {x}
<1>1. Summable(f, R) BY FS_RemoveElement DEF Summable
<1> HIDE DEF R
<1>2. SumOver(f, R) \in Nat BY <1>1, SumIsNatural
<1>3. CASE x \in S BY <1>1, <1>2, <1>3, SumRemove DEF Summable, R
<1>4. CASE x \notin S BY <1>1, <1>2, <1>4 DEF R
<1> QED BY <1>3, <1>4

LEMMA ChargeSplit ==
    ASSUME NEW K, NEW k \in K, NEW v, NEW w, NEW refs, refs[k] \in Values, Charged(v, w, refs, K)
    PROVE  \E c \in Nat : \E s \in Nat :
             /\ Others(c, s, w, refs, K, k)
             /\ refs[k].committed > 0 => v.committed = c + w[k] /\ v.reserved = s /\ w[k] \in Nat
             /\ refs[k].committed = 0 /\ refs[k].reserved > 0 => v.committed = c /\ v.reserved = s + w[k] /\ w[k] \in Nat
             /\ refs[k].committed = 0 /\ refs[k].reserved = 0 => v.committed = c /\ v.reserved = s
<1> DEFINE F == Firm(refs, K)
           H == Held(refs, K)
           c == SumOver(w, F \ {k})
           s == SumOver(w, H \ {k})
<1>1. k \in F <=> refs[k].committed > 0 BY DEF Firm
<1>2. k \in H <=> refs[k].committed = 0 /\ refs[k].reserved > 0 BY DEF Held
<1>3. Summable(w, F) /\ v.committed = SumOver(w, F) /\ Summable(w, H) /\ v.reserved = SumOver(w, H) BY DEF Charged
<1>4. /\ Summable(w, F \ {k}) /\ c \in Nat /\ (k \in F => w[k] \in Nat)
      /\ v.committed = (IF k \in F THEN w[k] ELSE 0) + c
  BY <1>3, SumWithout
<1>5. /\ Summable(w, H \ {k}) /\ s \in Nat /\ (k \in H => w[k] \in Nat)
      /\ v.reserved = (IF k \in H THEN w[k] ELSE 0) + s
  BY <1>3, SumWithout
<1>6. Others(c, s, w, refs, K, k) BY <1>4, <1>5 DEF Others
<1>7. refs[k].committed \in Nat /\ refs[k].reserved \in Nat BY ValueForms
<1> HIDE DEF F, H, c, s
<1>8. /\ refs[k].committed > 0 => v.committed = c + w[k] /\ v.reserved = s /\ w[k] \in Nat
      /\ refs[k].committed = 0 /\ refs[k].reserved > 0 => v.committed = c /\ v.reserved = s + w[k] /\ w[k] \in Nat
      /\ refs[k].committed = 0 /\ refs[k].reserved = 0 => v.committed = c /\ v.reserved = s
  BY <1>1, <1>2, <1>4, <1>5, <1>7
<1> QED BY <1>4, <1>5, <1>6, <1>8

LEMMA ChargeJoin ==
    ASSUME NEW K, NEW k \in K, NEW v, NEW w, NEW refs, NEW w0, NEW refs0, NEW c, NEW s,
           Others(c, s, w0, refs0, K, k), refs[k] \in Values,
           \A j \in K : j # k => refs[j] = refs0[j] /\ w[j] = w0[j],
           refs[k].committed > 0 => v.committed = c + w[k] /\ v.reserved = s /\ w[k] \in Nat,
           refs[k].committed = 0 /\ refs[k].reserved > 0 => v.committed = c /\ v.reserved = s + w[k] /\ w[k] \in Nat,
           refs[k].committed = 0 /\ refs[k].reserved = 0 => v.committed = c /\ v.reserved = s
    PROVE  Charged(v, w, refs, K)
<1> DEFINE F == Firm(refs, K)
           H == Held(refs, K)
           F0 == Firm(refs, K) \ {k}
           H0 == Held(refs, K) \ {k}
<1>1. F0 = Firm(refs0, K) \ {k} /\ H0 = Held(refs0, K) \ {k} BY DEF Firm, Held
<1>2. /\ c \in Nat /\ Summable(w0, F0) /\ c = SumOver(w0, F0)
      /\ s \in Nat /\ Summable(w0, H0) /\ s = SumOver(w0, H0)
  BY <1>1 DEF Others
<1>3. \A j \in F0 : w[j] = w0[j] BY DEF Firm
<1>4. \A j \in H0 : w[j] = w0[j] BY DEF Held
<1>5. k \in F <=> refs[k].committed > 0 BY DEF Firm
<1>6. k \in H <=> refs[k].committed = 0 /\ refs[k].reserved > 0 BY DEF Held
<1>7. k \notin F0 /\ k \notin H0 /\ F0 \cup {k} = F \cup {k} /\ H0 \cup {k} = H \cup {k}
      /\ (k \notin F => F = F0) /\ (k \notin H => H = H0)
      /\ (k \in F => F = F0 \cup {k}) /\ (k \in H => H = H0 \cup {k})
  BY DEF Firm, Held
<1>8. refs[k].committed \in Nat /\ refs[k].reserved \in Nat BY ValueForms
<1> HIDE DEF F, H, F0, H0
<1>9. Summable(w, F0) /\ SumOver(w, F0) = c BY <1>2, <1>3, SumSame DEF Summable
<1>10. Summable(w, H0) /\ SumOver(w, H0) = s BY <1>2, <1>4, SumSame DEF Summable
<1>11. Summable(w, F) /\ v.committed = SumOver(w, F)
  <2>1. CASE k \in F
    <3>1. w[k] \in Nat /\ v.committed = c + w[k] BY <1>5, <2>1
    <3>2. Summable(w, F) /\ SumOver(w, F) = w[k] + c BY <1>7, <1>9, <2>1, <3>1, SumAdd
    <3> QED BY <1>2, <3>1, <3>2
  <2>2. CASE k \notin F BY <1>5, <1>7, <1>8, <1>9, <2>2
  <2> QED BY <2>1, <2>2
<1>12. Summable(w, H) /\ v.reserved = SumOver(w, H)
  <2>1. CASE k \in H
    <3>1. w[k] \in Nat /\ v.reserved = s + w[k] BY <1>6, <2>1
    <3>2. Summable(w, H) /\ SumOver(w, H) = w[k] + s BY <1>7, <1>10, <2>1, <3>1, SumAdd
    <3> QED BY <1>2, <3>1, <3>2
  <2>2. CASE k \notin H BY <1>6, <1>7, <1>8, <1>10, <2>2
  <2> QED BY <2>1, <2>2
<1> QED BY <1>11, <1>12 DEF Charged, F, H

(* The three ways in which a charge follows the references of one key. *)
LEMMA ChargeReserve ==
    ASSUME NEW K, NEW k \in K, NEW v \in Values, NEW w, NEW refs, NEW w2, NEW refs2, NEW n \in Nat,
           refs[k] \in Values, Charged(v, w, refs, K),
           \A j \in K : j # k => refs2[j] = refs[j] /\ w2[j] = w[j],
           refs2[k] = Plus(refs[k], "reserved", 1), w2[k] = n,
           Total(refs[k]) # 0 => w[k] = n
    PROVE  LET v2 == IF Total(refs[k]) = 0 THEN Plus(v, "reserved", n) ELSE v
           IN  v2 \in Values /\ Charged(v2, w2, refs2, K)
<1> DEFINE v2 == IF Total(refs[k]) = 0 THEN Plus(v, "reserved", n) ELSE v
<1>1. PICK c \in Nat : \E s \in Nat :
             /\ Others(c, s, w, refs, K, k)
             /\ refs[k].committed > 0 => v.committed = c + w[k] /\ v.reserved = s /\ w[k] \in Nat
             /\ refs[k].committed = 0 /\ refs[k].reserved > 0 => v.committed = c /\ v.reserved = s + w[k] /\ w[k] \in Nat
             /\ refs[k].committed = 0 /\ refs[k].reserved = 0 => v.committed = c /\ v.reserved = s
  BY ChargeSplit
<1>2. PICK s \in Nat :
             /\ Others(c, s, w, refs, K, k)
             /\ refs[k].committed > 0 => v.committed = c + w[k] /\ v.reserved = s /\ w[k] \in Nat
             /\ refs[k].committed = 0 /\ refs[k].reserved > 0 => v.committed = c /\ v.reserved = s + w[k] /\ w[k] \in Nat
             /\ refs[k].committed = 0 /\ refs[k].reserved = 0 => v.committed = c /\ v.reserved = s
  BY <1>1
<1>3. /\ refs[k].committed \in Nat /\ refs[k].reserved \in Nat /\ Total(refs[k]) = refs[k].committed + refs[k].reserved
      /\ refs2[k] = [committed |-> refs[k].committed, reserved |-> refs[k].reserved + 1]
  BY ValueForms
<1>4. /\ v.committed \in Nat /\ v.reserved \in Nat
      /\ Plus(v, "reserved", n) = [committed |-> v.committed, reserved |-> v.reserved + n]
  BY ValueForms
<1>5. /\ refs2[k] \in Values /\ refs2[k].committed = refs[k].committed
      /\ refs2[k].reserved = refs[k].reserved + 1
  BY <1>3 DEF Values
<1>6. v2 \in Values BY <1>4 DEF Values
<1>7. /\ v2.committed = v.committed
      /\ v2.reserved = IF Total(refs[k]) = 0 THEN v.reserved + n ELSE v.reserved
  BY <1>4
<1> HIDE DEF v2
<1>8. /\ refs2[k].committed > 0 => v2.committed = c + w2[k] /\ v2.reserved = s /\ w2[k] \in Nat
      /\ refs2[k].committed = 0 /\ refs2[k].reserved > 0 => v2.committed = c /\ v2.reserved = s + w2[k] /\ w2[k] \in Nat
      /\ refs2[k].committed = 0 /\ refs2[k].reserved = 0 => v2.committed = c /\ v2.reserved = s
  BY <1>2, <1>3, <1>4, <1>5, <1>7
<1>9. Charged(v2, w2, refs2, K) BY <1>2, <1>5, <1>8, ChargeJoin
<1> QED BY <1>6, <1>9 DEF v2

LEMMA ChargeCommit ==
    ASSUME NEW K, NEW k \in K, NEW v \in Values, NEW w, NEW refs, NEW w2, NEW refs2, NEW n \in Nat,
           refs[k] \in Values, refs[k].reserved > 0, Charged(v, w, refs, K),
           \A j \in K : j # k => refs2[j] = refs[j] /\ w2[j] = w[j],
           refs2[k] = Moved(refs[k], 1), w2[k] = n, w[k] = n
    PROVE  LET v2 == IF refs[k].committed = 0 THEN Moved(v, n) ELSE v
           IN  v2 \in Values /\ Charged(v2, w2, refs2, K) /\ Total(v2) = Total(v)
<1> DEFINE v2 == IF refs[k].committed = 0 THEN Moved(v, n) ELSE v
<1>1. PICK c \in Nat : \E s \in Nat :
             /\ Others(c, s, w, refs, K, k)
             /\ refs[k].committed > 0 => v.committed = c + w[k] /\ v.reserved = s /\ w[k] \in Nat
             /\ refs[k].committed = 0 /\ refs[k].reserved > 0 => v.committed = c /\ v.reserved = s + w[k] /\ w[k] \in Nat
             /\ refs[k].committed = 0 /\ refs[k].reserved = 0 => v.committed = c /\ v.reserved = s
  BY ChargeSplit
<1>2. PICK s \in Nat :
             /\ Others(c, s, w, refs, K, k)
             /\ refs[k].committed > 0 => v.committed = c + w[k] /\ v.reserved = s /\ w[k] \in Nat
             /\ refs[k].committed = 0 /\ refs[k].reserved > 0 => v.committed = c /\ v.reserved = s + w[k] /\ w[k] \in Nat
             /\ refs[k].committed = 0 /\ refs[k].reserved = 0 => v.committed = c /\ v.reserved = s
  BY <1>1
<1>3. /\ refs[k].committed \in Nat /\ refs[k].reserved \in Nat
      /\ refs2[k] = [committed |-> refs[k].committed + 1, reserved |-> refs[k].reserved - 1]
  BY ValueForms
<1>4. /\ v.committed \in Nat /\ v.reserved \in Nat
      /\ Moved(v, n) = [committed |-> v.committed + n, reserved |-> v.reserved - n]
  BY ValueForms
<1>5. /\ refs2[k] \in Values /\ refs2[k].committed = refs[k].committed + 1
      /\ refs2[k].reserved = refs[k].reserved - 1
  BY <1>3 DEF Values
<1>6. refs[k].committed = 0 => v.committed = c /\ v.reserved = s + n BY <1>2
<1>7. v2 \in Values BY <1>2, <1>4, <1>6 DEF Values
<1>8. IF refs[k].committed = 0 THEN v2.committed = v.committed + n /\ v2.reserved = v.reserved - n
      ELSE v2.committed = v.committed /\ v2.reserved = v.reserved
  BY <1>4
<1> HIDE DEF v2
<1>9. /\ refs2[k].committed > 0 => v2.committed = c + w2[k] /\ v2.reserved = s /\ w2[k] \in Nat
      /\ refs2[k].committed = 0 /\ refs2[k].reserved > 0 => v2.committed = c /\ v2.reserved = s + w2[k] /\ w2[k] \in Nat
      /\ refs2[k].committed = 0 /\ refs2[k].reserved = 0 => v2.committed = c /\ v2.reserved = s
  BY <1>2, <1>3, <1>4, <1>5, <1>8
<1>10. Charged(v2, w2, refs2, K) BY <1>2, <1>5, <1>9, ChargeJoin
<1>11. Total(v2) = Total(v) BY <1>4, <1>8 DEF Total
<1> QED BY <1>7, <1>10, <1>11 DEF v2

LEMMA ChargeRelease ==
    ASSUME NEW K, NEW k \in K, NEW v \in Values, NEW w, NEW refs, NEW w2, NEW refs2, NEW n \in Nat,
           NEW state \in {"committed", "reserved"},
           refs[k] \in Values, refs[k][state] > 0, Charged(v, w, refs, K),
           \A j \in K : j # k => refs2[j] = refs[j] /\ w2[j] = w[j],
           refs2[k] = Minus(refs[k], state, 1), Total(refs2[k]) # 0 => w2[k] = n, w[k] = n
    PROVE  LET v2 == Rebalanced(v, refs2[k], state, n)
           IN  v2 \in Values /\ Charged(v2, w2, refs2, K) /\ Total(v2) <= Total(v)
<1> DEFINE v2 == Rebalanced(v, refs2[k], state, n)
<1>1. PICK c \in Nat : \E s \in Nat :
             /\ Others(c, s, w, refs, K, k)
             /\ refs[k].committed > 0 => v.committed = c + w[k] /\ v.reserved = s /\ w[k] \in Nat
             /\ refs[k].committed = 0 /\ refs[k].reserved > 0 => v.committed = c /\ v.reserved = s + w[k] /\ w[k] \in Nat
             /\ refs[k].committed = 0 /\ refs[k].reserved = 0 => v.committed = c /\ v.reserved = s
  BY ChargeSplit
<1>2. PICK s \in Nat :
             /\ Others(c, s, w, refs, K, k)
             /\ refs[k].committed > 0 => v.committed = c + w[k] /\ v.reserved = s /\ w[k] \in Nat
             /\ refs[k].committed = 0 /\ refs[k].reserved > 0 => v.committed = c /\ v.reserved = s + w[k] /\ w[k] \in Nat
             /\ refs[k].committed = 0 /\ refs[k].reserved = 0 => v.committed = c /\ v.reserved = s
  BY <1>1
<1>4. /\ v.committed \in Nat /\ v.reserved \in Nat
      /\ v = [committed |-> v.committed, reserved |-> v.reserved]
      /\ Minus(v, "reserved", n) = [committed |-> v.committed, reserved |-> v.reserved - n]
      /\ Minus(v, "committed", n) = [committed |-> v.committed - n, reserved |-> v.reserved]
  BY ValueForms
<1>5. CASE state = "reserved"
  <2>1. /\ refs[k].committed \in Nat /\ refs[k].reserved \in Nat /\ refs[k].reserved > 0
        /\ refs2[k] = [committed |-> refs[k].committed, reserved |-> refs[k].reserved - 1]
    BY <1>5, ValueForms
  <2>2. /\ refs2[k] \in Values /\ refs2[k].committed = refs[k].committed
        /\ refs2[k].reserved = refs[k].reserved - 1
    BY <2>1 DEF Values
  <2>3. Total(refs2[k]) = refs2[k].committed + refs2[k].reserved BY DEF Total
  <2>4. v2 = IF Total(refs2[k]) = 0 THEN [committed |-> v.committed, reserved |-> v.reserved - n] ELSE v
    BY <1>4, <1>5 DEF Rebalanced
  <2>5. Total(refs2[k]) = 0 => v.committed = c /\ v.reserved = s + n /\ refs[k].committed = 0 /\ refs[k].reserved = 1
    BY <1>2, <2>1, <2>2, <2>3
  <2>6. v2 \in Values BY <1>2, <2>4, <2>5 DEF Values
  <2>7. IF Total(refs2[k]) = 0 THEN v2.committed = v.committed /\ v2.reserved = v.reserved - n ELSE v2 = v BY <2>4
  <2> HIDE DEF v2
  <2>8. /\ refs2[k].committed > 0 => v2.committed = c + w2[k] /\ v2.reserved = s /\ w2[k] \in Nat
        /\ refs2[k].committed = 0 /\ refs2[k].reserved > 0 => v2.committed = c /\ v2.reserved = s + w2[k] /\ w2[k] \in Nat
        /\ refs2[k].committed = 0 /\ refs2[k].reserved = 0 => v2.committed = c /\ v2.reserved = s
    <3>1. refs2[k].committed > 0 => v2.committed = c + w2[k] /\ v2.reserved = s /\ w2[k] \in Nat
      <4> SUFFICES ASSUME refs2[k].committed > 0 PROVE v2.committed = c + w2[k] /\ v2.reserved = s /\ w2[k] \in Nat
        OBVIOUS
      <4>1. Total(refs2[k]) # 0 /\ refs[k].committed > 0 BY <2>1, <2>2, <2>3
      <4>2. v2 = v /\ w2[k] = n /\ w[k] = n BY <2>7, <4>1
      <4> QED BY <1>2, <4>1, <4>2
    <3>2. refs2[k].committed = 0 /\ refs2[k].reserved > 0 => v2.committed = c /\ v2.reserved = s + w2[k] /\ w2[k] \in Nat
      <4> SUFFICES ASSUME refs2[k].committed = 0, refs2[k].reserved > 0
                   PROVE  v2.committed = c /\ v2.reserved = s + w2[k] /\ w2[k] \in Nat
        OBVIOUS
      <4>1. Total(refs2[k]) # 0 /\ refs[k].committed = 0 /\ refs[k].reserved > 0 BY <2>1, <2>2, <2>3
      <4>2. v2 = v /\ w2[k] = n /\ w[k] = n BY <2>7, <4>1
      <4> QED BY <1>2, <4>1, <4>2
    <3>3. refs2[k].committed = 0 /\ refs2[k].reserved = 0 => v2.committed = c /\ v2.reserved = s
      BY <1>2, <1>4, <2>3, <2>5, <2>7
    <3> QED BY <3>1, <3>2, <3>3
  <2>9. Charged(v2, w2, refs2, K) BY <1>2, <2>2, <2>8, ChargeJoin
  <2>10. Total(v2) <= Total(v) BY <1>4, <2>7 DEF Total
  <2> QED BY <2>6, <2>9, <2>10 DEF v2
<1>6. CASE state = "committed"
  <2>1. /\ refs[k].committed \in Nat /\ refs[k].reserved \in Nat /\ refs[k].committed > 0
        /\ refs2[k] = [committed |-> refs[k].committed - 1, reserved |-> refs[k].reserved]
    BY <1>6, ValueForms
  <2>2. /\ refs2[k] \in Values /\ refs2[k].committed = refs[k].committed - 1
        /\ refs2[k].reserved = refs[k].reserved
    BY <2>1 DEF Values
  <2>3. Total(refs2[k]) = refs2[k].committed + refs2[k].reserved BY DEF Total
  <2>4. v2 = IF Total(refs2[k]) = 0 THEN [committed |-> v.committed - n, reserved |-> v.reserved]
             ELSE IF refs2[k].committed = 0 THEN [committed |-> v.committed - n, reserved |-> v.reserved + n]
             ELSE v
    BY <1>4, <1>6 DEF Rebalanced
  <2>5. v.committed = c + n /\ v.reserved = s BY <1>2, <2>1
  <2>6. v2 \in Values BY <1>2, <2>4, <2>5 DEF Values
  <2>7. IF Total(refs2[k]) = 0 THEN v2.committed = v.committed - n /\ v2.reserved = v.reserved
        ELSE IF refs2[k].committed = 0 THEN v2.committed = v.committed - n /\ v2.reserved = v.reserved + n
        ELSE v2 = v
    BY <2>4
  <2> HIDE DEF v2
  <2>8. /\ refs2[k].committed > 0 => v2.committed = c + w2[k] /\ v2.reserved = s /\ w2[k] \in Nat
        /\ refs2[k].committed = 0 /\ refs2[k].reserved > 0 => v2.committed = c /\ v2.reserved = s + w2[k] /\ w2[k] \in Nat
        /\ refs2[k].committed = 0 /\ refs2[k].reserved = 0 => v2.committed = c /\ v2.reserved = s
    BY <1>2, <1>4, <2>1, <2>2, <2>3, <2>5, <2>7
  <2>9. Charged(v2, w2, refs2, K) BY <1>2, <2>2, <2>8, ChargeJoin
  <2>10. Total(v2) <= Total(v) BY <1>4, <2>7 DEF Total
  <2> QED BY <2>6, <2>9, <2>10 DEF v2
<1> QED BY <1>5, <1>6

(* The charge of a table that does not change. *)
LEMMA ChargeSame ==
    ASSUME NEW K, NEW v, NEW w, NEW refs, NEW w2, NEW refs2, Charged(v, w, refs, K),
           \A j \in K : refs2[j] = refs[j],
           \A j \in K : refs[j].committed > 0 \/ refs[j].reserved > 0 => w2[j] = w[j]
    PROVE  Charged(v, w2, refs2, K)
<1>1. Firm(refs2, K) = Firm(refs, K) /\ Held(refs2, K) = Held(refs, K) BY DEF Firm, Held
<1>2. \A j \in Firm(refs, K) \cup Held(refs, K) : w2[j] = w[j] BY DEF Firm, Held
<1> QED BY <1>1, <1>2, SumSame DEF Charged, Summable

--------------------------------
(* One operation, as it moves a count of references and the charge made for them. *)

Ops == {"reserve", "commit", "committed", "reserved"}

(* What one operation does to a count of references, ... *)
CountAfter(op, a) ==
    IF op = "reserve" THEN Plus(a, "reserved", 1)
    ELSE IF op = "commit" THEN Moved(a, 1) ELSE Minus(a, op, 1)

(* ... when it is possible, ... *)
Able(op, a) ==
    IF op = "reserve" THEN TRUE
    ELSE IF op = "commit" THEN a.reserved > 0 ELSE a[op] > 0

(* ... and to the charge made for them. *)
ChargeAfter(op, v, a, n) ==
    IF op = "reserve" THEN (IF Total(a) = 0 THEN Plus(v, "reserved", n) ELSE v)
    ELSE IF op = "commit" THEN (IF a.committed = 0 THEN Moved(v, n) ELSE v)
    ELSE Rebalanced(v, Minus(a, op, 1), op, n)

LEMMA CountMoves ==
    ASSUME NEW op \in Ops, NEW a \in Values, Able(op, a)
    PROVE  /\ CountAfter(op, a) \in Values
           /\ op # "reserve" => Total(CountAfter(op, a)) <= Total(a) /\ Total(a) # 0
<1>1. /\ a.committed \in Nat /\ a.reserved \in Nat
      /\ Total(a) = a.committed + a.reserved
      /\ Plus(a, "reserved", 1) = [committed |-> a.committed, reserved |-> a.reserved + 1]
      /\ Minus(a, "reserved", 1) = [committed |-> a.committed, reserved |-> a.reserved - 1]
      /\ Minus(a, "committed", 1) = [committed |-> a.committed - 1, reserved |-> a.reserved]
      /\ Moved(a, 1) = [committed |-> a.committed + 1, reserved |-> a.reserved - 1]
  BY ValueForms
<1>2. CASE op = "reserve"
  <2>1. CountAfter(op, a) = [committed |-> a.committed, reserved |-> a.reserved + 1] BY <1>1, <1>2 DEF CountAfter
  <2> QED BY <1>1, <1>2, <2>1 DEF Values
<1>3. CASE op = "commit"
  <2>1. CountAfter(op, a) = [committed |-> a.committed + 1, reserved |-> a.reserved - 1] /\ a.reserved > 0
    BY <1>1, <1>3 DEF CountAfter, Able
  <2>2. Total(CountAfter(op, a)) = a.committed + 1 + (a.reserved - 1) BY <2>1 DEF Total
  <2> QED BY <1>1, <1>3, <2>1, <2>2 DEF Values
<1>4. CASE op = "committed"
  <2>1. CountAfter(op, a) = [committed |-> a.committed - 1, reserved |-> a.reserved] /\ a.committed > 0
    BY <1>1, <1>4 DEF CountAfter, Able
  <2>2. Total(CountAfter(op, a)) = a.committed - 1 + a.reserved BY <2>1 DEF Total
  <2> QED BY <1>1, <1>4, <2>1, <2>2 DEF Values
<1>5. CASE op = "reserved"
  <2>1. CountAfter(op, a) = [committed |-> a.committed, reserved |-> a.reserved - 1] /\ a.reserved > 0
    BY <1>1, <1>5 DEF CountAfter, Able
  <2>2. Total(CountAfter(op, a)) = a.committed + (a.reserved - 1) BY <2>1 DEF Total
  <2> QED BY <1>1, <1>5, <2>1, <2>2 DEF Values
<1> QED BY <1>2, <1>3, <1>4, <1>5 DEF Ops

LEMMA ChargeMoves ==
    ASSUME NEW op \in Ops, NEW K, NEW k \in K, NEW v \in Values, NEW w, NEW refs, NEW w2, NEW refs2, NEW n \in Nat,
           refs[k] \in Values, Able(op, refs[k]), Charged(v, w, refs, K),
           \A j \in K : j # k => refs2[j] = refs[j] /\ w2[j] = w[j],
           refs2[k] = CountAfter(op, refs[k]),
           Total(refs[k]) # 0 => w[k] = n, Total(refs2[k]) # 0 => w2[k] = n
    PROVE  /\ ChargeAfter(op, v, refs[k], n) \in Values
           /\ Charged(ChargeAfter(op, v, refs[k], n), w2, refs2, K)
           /\ op # "reserve" => Total(ChargeAfter(op, v, refs[k], n)) <= Total(v)
<1> DEFINE u == ChargeAfter(op, v, refs[k], n)
<1>0. /\ refs[k].committed \in Nat /\ refs[k].reserved \in Nat
      /\ Total(refs[k]) = refs[k].committed + refs[k].reserved
  BY ValueForms
<1>2. CASE op = "reserve"
  <2>1. refs2[k] = Plus(refs[k], "reserved", 1) /\ u = IF Total(refs[k]) = 0 THEN Plus(v, "reserved", n) ELSE v
    BY <1>2 DEF CountAfter, ChargeAfter
  <2>2. w2[k] = n
    <3>1. refs2[k] = [committed |-> refs[k].committed, reserved |-> refs[k].reserved + 1] BY <2>1, ValueForms
    <3>2. Total(refs2[k]) = refs[k].committed + (refs[k].reserved + 1) BY <3>1 DEF Total
    <3> QED BY <1>0, <3>2
  <2> HIDE DEF u
  <2>3. u \in Values /\ Charged(u, w2, refs2, K) BY <2>1, <2>2, ChargeReserve
  <2> QED BY <1>2, <2>3 DEF u
<1>3. CASE op = "commit"
  <2>1. /\ refs2[k] = Moved(refs[k], 1) /\ u = (IF refs[k].committed = 0 THEN Moved(v, n) ELSE v)
        /\ refs[k].reserved > 0
    BY <1>3 DEF CountAfter, ChargeAfter, Able
  <2>2. w2[k] = n /\ w[k] = n
    <3>1. refs2[k] = [committed |-> refs[k].committed + 1, reserved |-> refs[k].reserved - 1] BY <2>1, ValueForms
    <3>2. Total(refs2[k]) = refs[k].committed + 1 + (refs[k].reserved - 1) BY <3>1 DEF Total
    <3> QED BY <1>0, <2>1, <3>2
  <2> HIDE DEF u
  <2>3. u \in Values /\ Charged(u, w2, refs2, K) /\ Total(u) = Total(v) BY <2>1, <2>2, ChargeCommit
  <2>4. Total(v) \in Nat BY DEF Total, Values
  <2> QED BY <2>3, <2>4 DEF u
<1>4. CASE op \in {"committed", "reserved"}
  <2>1. /\ refs2[k] = Minus(refs[k], op, 1) /\ u = Rebalanced(v, refs2[k], op, n)
        /\ refs[k][op] > 0
    BY <1>4 DEF CountAfter, ChargeAfter, Able
  <2>2. w[k] = n BY <1>0, <1>4, <2>1
  <2> HIDE DEF u
  <2>3. u \in Values /\ Charged(u, w2, refs2, K) /\ Total(u) <= Total(v) BY <1>4, <2>1, <2>2, ChargeRelease
  <2> QED BY <2>3 DEF u
<1> QED BY <1>2, <1>3, <1>4 DEF Ops

--------------------------------
(* The records. *)

LiveStates == {"reserved", "committed"}

(* The reservations in a state that ask for one of a set of requests. *)
Asking(rec, Q, state) == {i \in Ids : rec[i].state = state /\ rec[i].request \in Q}
Count(rec, Q) ==
    [committed |-> Cardinality(Asking(rec, Q, "committed")), reserved |-> Cardinality(Asking(rec, Q, "reserved"))]

LimitNames == {"file_bytes", "accounted_bytes", "projects", "versions_per_project"}
LiveRecords == [state : LiveStates, request : Requests, violations : SUBSET LimitNames]

RecordIsSound(rec) == \A i \in Ids : rec[i] \in {Ledger!Unused, Ledger!Gone} \/ rec[i] \in LiveRecords

(* One operation changes one record. *)
Records(op, rec, rec2, i, q) ==
    /\ i \in Ids /\ q \in Requests
    /\ \A j \in Ids : j # i => rec2[j] = rec[j]
    /\ IF op = "reserve" THEN rec[i].state \notin LiveStates
       ELSE /\ rec[i].request = q
            /\ rec[i].state = IF op = "commit" THEN "reserved" ELSE op
    /\ IF op \in LiveStates THEN rec2[i].state \notin LiveStates
       ELSE /\ rec2[i].request = q
            /\ rec2[i].state = IF op = "commit" THEN "committed" ELSE "reserved"

LEMMA WithIsFinite ==
    ASSUME NEW rec, NEW Q, NEW state
    PROVE  IsFiniteSet(Asking(rec, Q, state)) /\ Cardinality(Asking(rec, Q, state)) \in Nat
  BY IdAssumption, FS_Subset, FS_CardinalityType DEF Asking

LEMMA CountIsValue ==
    ASSUME NEW rec, NEW Q
    PROVE  /\ Count(rec, Q) \in Values
           /\ Count(rec, Q).committed = Cardinality(Asking(rec, Q, "committed"))
           /\ Count(rec, Q).reserved = Cardinality(Asking(rec, Q, "reserved"))
  BY WithIsFinite DEF Count, Values

LEMMA SizeAdd ==
    ASSUME NEW S, IsFiniteSet(S), NEW i, i \notin S, NEW R, R = S \cup {i}
    PROVE  Cardinality(R) = Cardinality(S) + 1
  BY FS_AddElement

LEMMA SizeDrop ==
    ASSUME NEW S, IsFiniteSet(S), NEW i \in S, NEW R, R = S \ {i}
    PROVE  Cardinality(R) = Cardinality(S) - 1 /\ Cardinality(S) > 0
<1>1. Cardinality(R) = Cardinality(S) - 1 /\ IsFiniteSet(R) BY FS_RemoveElement
<1>2. Cardinality(R) \in Nat /\ Cardinality(S) \in Nat BY <1>1, FS_CardinalityType
<1> QED BY <1>1, <1>2

LEMMA CountsFollow ==
    ASSUME NEW op \in Ops, NEW rec, NEW rec2, NEW i, NEW q, Records(op, rec, rec2, i, q), NEW Q
    PROVE  /\ q \notin Q => Count(rec2, Q) = Count(rec, Q)
           /\ q \in Q => Count(rec2, Q) = CountAfter(op, Count(rec, Q)) /\ Able(op, Count(rec, Q))
<1> DEFINE C == Asking(rec, Q, "committed")
           R == Asking(rec, Q, "reserved")
           C2 == Asking(rec2, Q, "committed")
           R2 == Asking(rec2, Q, "reserved")
           c == Cardinality(C)
           r == Cardinality(R)
<1>1. IsFiniteSet(C) /\ IsFiniteSet(R) /\ c \in Nat /\ r \in Nat BY WithIsFinite
<1>2. Count(rec, Q) = [committed |-> c, reserved |-> r] /\ Count(rec2, Q) = [committed |-> Cardinality(C2), reserved |-> Cardinality(R2)]
  BY DEF Count
<1>3. ASSUME q \notin Q PROVE C2 = C /\ R2 = R BY <1>3 DEF Asking, Records, Ops, LiveStates
<1>v. Count(rec, Q) \in Values BY CountIsValue
<1>4. /\ Plus(Count(rec, Q), "reserved", 1) = [committed |-> c, reserved |-> r + 1]
      /\ Minus(Count(rec, Q), "reserved", 1) = [committed |-> c, reserved |-> r - 1]
      /\ Minus(Count(rec, Q), "committed", 1) = [committed |-> c - 1, reserved |-> r]
      /\ Moved(Count(rec, Q), 1) = [committed |-> c + 1, reserved |-> r - 1]
  BY <1>2, <1>v, ValueForms
<1>5. ASSUME q \in Q, op = "reserve" PROVE Count(rec2, Q) = [committed |-> c, reserved |-> r + 1]
  <2>1. C2 = C /\ R2 = R \cup {i} /\ i \notin R BY <1>5 DEF Asking, Records, Ops, LiveStates
  <2> HIDE DEF C, R, C2, R2
  <2> QED BY <1>1, <1>2, <2>1, SizeAdd
<1>6. ASSUME q \in Q, op = "commit" PROVE Count(rec2, Q) = [committed |-> c + 1, reserved |-> r - 1] /\ r > 0
  <2>1. C2 = C \cup {i} /\ R2 = R \ {i} /\ i \in R /\ i \notin C BY <1>6 DEF Asking, Records, Ops, LiveStates
  <2> HIDE DEF C, R, C2, R2
  <2> QED BY <1>1, <1>2, <2>1, SizeAdd, SizeDrop
<1>7. ASSUME q \in Q, op = "committed" PROVE Count(rec2, Q) = [committed |-> c - 1, reserved |-> r] /\ c > 0
  <2>1. C2 = C \ {i} /\ R2 = R /\ i \in C BY <1>7 DEF Asking, Records, Ops, LiveStates
  <2> HIDE DEF C, R, C2, R2
  <2> QED BY <1>1, <1>2, <2>1, SizeDrop
<1>8. ASSUME q \in Q, op = "reserved" PROVE Count(rec2, Q) = [committed |-> c, reserved |-> r - 1] /\ r > 0
  <2>1. C2 = C /\ R2 = R \ {i} /\ i \in R BY <1>8 DEF Asking, Records, Ops, LiveStates
  <2> HIDE DEF C, R, C2, R2
  <2> QED BY <1>1, <1>2, <2>1, SizeDrop
<1> HIDE DEF C, R, C2, R2, c, r
<1>9. q \notin Q => Count(rec2, Q) = Count(rec, Q) BY <1>2, <1>3 DEF c, r
<1>10. ASSUME q \in Q PROVE Count(rec2, Q) = CountAfter(op, Count(rec, Q)) /\ Able(op, Count(rec, Q))
  <2>1. CASE op = "reserve" BY <1>4, <1>5, <1>10, <2>1 DEF CountAfter, Able
  <2>2. CASE op = "commit" BY <1>2, <1>4, <1>6, <1>10, <2>2 DEF CountAfter, Able
  <2>3. CASE op = "committed" BY <1>2, <1>4, <1>7, <1>10, <2>3 DEF CountAfter, Able
  <2>4. CASE op = "reserved" BY <1>2, <1>4, <1>8, <1>10, <2>4 DEF CountAfter, Able
  <2> QED BY <2>1, <2>2, <2>3, <2>4 DEF Ops
<1> QED BY <1>9, <1>10

--------------------------------
(* What the rows are when they are right. *)

(* The requests that name a row. *)
OfBlob(r, d) == {q \in Requests : q.repository = r /\ q.digest = d}
OfProject(r, p) == {q \in Requests : q.repository = r /\ q.project = p}
OfVersion(r, p, e) == {q \in Requests : q.repository = r /\ q.project = p /\ q.version = e}

BlobRefs(x, r) == [d \in Digests |-> x.blob[<<r, d>>].references]
BlobSizes(x, r) == [d \in Digests |-> x.blob[<<r, d>>].bytes]
ProjectRefs(x, r) == [p \in Projects |-> x.project[<<r, p>>].references]
VersionRefs(x, r, p) == [e \in Versions |-> x.version[<<r, p, e>>]]
Ones(K) == [k \in K |-> 1]

(* A reservation charges its own file. *)
OneFirm == [committed |-> 1, reserved |-> 0]
OneHeld == [committed |-> 0, reserved |-> 1]
FileRefs(rec, r) ==
    [i \in Ids |-> IF rec[i].state \in LiveStates /\ rec[i].request.repository = r
                     THEN (IF rec[i].state = "committed" THEN OneFirm ELSE OneHeld) ELSE Zero]
FileSizes(rec) == [i \in Ids |-> rec[i].request.bytes]

RowTypes ==
    [usage   : [Repositories -> [file_bytes : Values, accounted_bytes : Values, projects : Values]],
     project : [Repositories \X Projects -> [references : Values, versions : Values]],
     version : [Repositories \X Projects \X Versions -> Values],
     blob    : [Repositories \X Digests -> [bytes : Nat, references : Values]]]

(* References count the records that name the row. *)
References(x, rec) ==
    \A r \in Repositories :
        /\ \A d \in Digests : x.blob[<<r, d>>].references = Count(rec, OfBlob(r, d))
        /\ \A p \in Projects :
             /\ x.project[<<r, p>>].references = Count(rec, OfProject(r, p))
             /\ \A e \in Versions : x.version[<<r, p, e>>] = Count(rec, OfVersion(r, p, e))

(* A digest has one size in a repository. *)
SizesAgree(x, rec) ==
    \A i \in Ids : rec[i].state \in LiveStates => x.blob[BlobKey(rec[i].request)].bytes = rec[i].request.bytes

(* Each charge is made once for each row it is for. *)
Charges(x, rec) ==
    \A r \in Repositories :
        /\ Charged(x.usage[r].file_bytes, FileSizes(rec), FileRefs(rec, r), Ids)
        /\ Charged(x.usage[r].accounted_bytes, BlobSizes(x, r), BlobRefs(x, r), Digests)
        /\ Charged(x.usage[r].projects, Ones(Projects), ProjectRefs(x, r), Projects)
        /\ \A p \in Projects :
             Charged(x.project[<<r, p>>].versions, Ones(Versions), VersionRefs(x, r, p), Versions)

(* No total exceeds the largest counter. *)
Bounded(x) ==
    \A r \in Repositories :
        /\ Total(x.usage[r].file_bytes) <= MaxCount
        /\ Total(x.usage[r].accounted_bytes) <= MaxCount
        /\ Total(x.usage[r].projects) <= MaxCount
        /\ \A d \in Digests : Total(x.blob[<<r, d>>].references) <= MaxCount
        /\ \A p \in Projects :
             /\ Total(x.project[<<r, p>>].references) <= MaxCount
             /\ Total(x.project[<<r, p>>].versions) <= MaxCount
             /\ \A e \in Versions : Total(x.version[<<r, p, e>>]) <= MaxCount

RowsSound(x, rec) ==
    x \in RowTypes /\ References(x, rec) /\ SizesAgree(x, rec) /\ Charges(x, rec) /\ Bounded(x)

--------------------------------
(* What one operation does to the rows. *)
OwnCount(op) == IF op = "reserve" THEN Zero ELSE IF op = "committed" THEN OneFirm ELSE OneHeld

UsageStep(op, x, x2, q) ==
    \A r \in Repositories :
        IF r # q.repository THEN x2.usage[r] = x.usage[r]
        ELSE /\ x2.usage[r].file_bytes = ChargeAfter(op, x.usage[r].file_bytes, OwnCount(op), q.bytes)
             /\ x2.usage[r].accounted_bytes
                  = ChargeAfter(op, x.usage[r].accounted_bytes, x.blob[<<r, q.digest>>].references, q.bytes)
             /\ x2.usage[r].projects
                  = IF q.project = None THEN x.usage[r].projects
                    ELSE ChargeAfter(op, x.usage[r].projects, x.project[<<r, q.project>>].references, 1)

BlobStep(op, x, x2, q) ==
    \A r \in Repositories, d \in Digests :
        IF r = q.repository /\ d = q.digest
          THEN /\ x2.blob[<<r, d>>].references = CountAfter(op, x.blob[<<r, d>>].references)
               /\ x2.blob[<<r, d>>].bytes \in Nat
               /\ Total(x2.blob[<<r, d>>].references) # 0 => x2.blob[<<r, d>>].bytes = q.bytes
          ELSE x2.blob[<<r, d>>] = x.blob[<<r, d>>]

ProjectStep(op, x, x2, q) ==
    \A r \in Repositories, p \in Projects :
        IF r = q.repository /\ p = q.project
          THEN /\ x2.project[<<r, p>>].references = CountAfter(op, x.project[<<r, p>>].references)
               /\ \/ x2.project[<<r, p>>].versions
                       = IF q.version = None THEN x.project[<<r, p>>].versions
                         ELSE ChargeAfter(op, x.project[<<r, p>>].versions, x.version[<<r, p, q.version>>], 1)
                  \/ /\ Total(x2.project[<<r, p>>].references) = 0
                     /\ x2.project[<<r, p>>].versions = Zero
          ELSE x2.project[<<r, p>>] = x.project[<<r, p>>]

VersionStep(op, x, x2, q) ==
    \A r \in Repositories, p \in Projects, e \in Versions :
        x2.version[<<r, p, e>>]
          = IF r = q.repository /\ p = q.project /\ e = q.version THEN CountAfter(op, x.version[<<r, p, e>>])
            ELSE x.version[<<r, p, e>>]

(* The tables, whatever they hold. *)
OuterShape(x) ==
    /\ x = [usage |-> x.usage, project |-> x.project, version |-> x.version, blob |-> x.blob]
    /\ x.usage = [r \in Repositories |-> x.usage[r]]
    /\ x.project = [k \in Repositories \X Projects |-> x.project[k]]
    /\ x.version = [k \in Repositories \X Projects \X Versions |-> x.version[k]]
    /\ x.blob = [k \in Repositories \X Digests |-> x.blob[k]]

UsageShape(x) ==
    \A r \in Repositories :
        x.usage[r] = [file_bytes |-> x.usage[r].file_bytes, accounted_bytes |-> x.usage[r].accounted_bytes,
                      projects |-> x.usage[r].projects]

ProjectShape(x) ==
    \A r \in Repositories, p \in Projects :
        x.project[<<r, p>>] = [references |-> x.project[<<r, p>>].references, versions |-> x.project[<<r, p>>].versions]

BlobShape(x) ==
    \A r \in Repositories, d \in Digests :
        x.blob[<<r, d>>] = [bytes |-> x.blob[<<r, d>>].bytes, references |-> x.blob[<<r, d>>].references]

Tables(x) == OuterShape(x) /\ UsageShape(x) /\ ProjectShape(x) /\ BlobShape(x)

Stepped(op, x, x2, q) ==
    /\ Tables(x2)
    /\ UsageStep(op, x, x2, q) /\ BlobStep(op, x, x2, q)
    /\ ProjectStep(op, x, x2, q) /\ VersionStep(op, x, x2, q)

--------------------------------
LEMMA RequestTypes ==
    ASSUME NEW q \in Requests
    PROVE  /\ q.repository \in Repositories /\ q.digest \in Digests /\ q.bytes \in Nat
           /\ q.project \in Projects \cup {None} /\ q.version \in Versions \cup {None}
           /\ q.project = None => q.version = None
           /\ None \notin Projects /\ None \notin Versions
  BY SizeAssumption, NoneAssumption DEF Requests, Ledger!Requests

LEMMA TypesOfRows ==
    ASSUME NEW x \in RowTypes, NEW r \in Repositories
    PROVE  /\ x.usage[r].file_bytes \in Values /\ x.usage[r].accounted_bytes \in Values /\ x.usage[r].projects \in Values
           /\ \A d \in Digests : x.blob[<<r, d>>].references \in Values /\ x.blob[<<r, d>>].bytes \in Nat
           /\ \A p \in Projects : /\ x.project[<<r, p>>].references \in Values /\ x.project[<<r, p>>].versions \in Values
                                  /\ \A e \in Versions : x.version[<<r, p, e>>] \in Values
<1>1. /\ x.usage \in [Repositories -> [file_bytes : Values, accounted_bytes : Values, projects : Values]]
      /\ x.project \in [Repositories \X Projects -> [references : Values, versions : Values]]
      /\ x.version \in [Repositories \X Projects \X Versions -> Values]
      /\ x.blob \in [Repositories \X Digests -> [bytes : Nat, references : Values]]
  BY DEF RowTypes
<1>2. x.usage[r] \in [file_bytes : Values, accounted_bytes : Values, projects : Values] BY <1>1
<1>3. \A d \in Digests : x.blob[<<r, d>>] \in [bytes : Nat, references : Values] BY <1>1
<1>4. \A p \in Projects : x.project[<<r, p>>] \in [references : Values, versions : Values] BY <1>1
<1>5. \A p \in Projects, e \in Versions : x.version[<<r, p, e>>] \in Values BY <1>1
<1> QED BY <1>2, <1>3, <1>4, <1>5

LEMMA TypesFromRows ==
    ASSUME NEW x, Tables(x),
           \A r \in Repositories :
               /\ x.usage[r].file_bytes \in Values /\ x.usage[r].accounted_bytes \in Values /\ x.usage[r].projects \in Values
               /\ \A d \in Digests : x.blob[<<r, d>>].references \in Values /\ x.blob[<<r, d>>].bytes \in Nat
               /\ \A p \in Projects : /\ x.project[<<r, p>>].references \in Values /\ x.project[<<r, p>>].versions \in Values
                                      /\ \A e \in Versions : x.version[<<r, p, e>>] \in Values
    PROVE  x \in RowTypes
<1> DEFINE U == [file_bytes : Values, accounted_bytes : Values, projects : Values]
           P == [references : Values, versions : Values]
           B == [bytes : Nat, references : Values]
<1>1. \A r \in Repositories : x.usage[r] \in U
  <2> TAKE r \in Repositories
  <2> DEFINE a == x.usage[r].file_bytes
             b == x.usage[r].accounted_bytes
             c == x.usage[r].projects
  <2>1. x.usage[r] = [file_bytes |-> a, accounted_bytes |-> b, projects |-> c]
    BY DEF Tables, OuterShape, UsageShape, ProjectShape, BlobShape
  <2>2. a \in Values /\ b \in Values /\ c \in Values OBVIOUS
  <2> HIDE DEF a, b, c
  <2> QED BY <2>1, <2>2
<1>2. \A k \in Repositories \X Projects : x.project[k] \in P
  <2> TAKE k \in Repositories \X Projects
  <2>1. PICK r \in Repositories : \E p \in Projects : k = <<r, p>> OBVIOUS
  <2>2. PICK p \in Projects : k = <<r, p>> BY <2>1
  <2> DEFINE a == x.project[<<r, p>>].references
             b == x.project[<<r, p>>].versions
  <2>a. x.project[<<r, p>>] = [references |-> a, versions |-> b]
    BY DEF Tables, OuterShape, UsageShape, ProjectShape, BlobShape
  <2>b. a \in Values /\ b \in Values OBVIOUS
  <2>3. x.project[<<r, p>>] \in P
    <3> HIDE DEF a, b
    <3> QED BY <2>a, <2>b
  <2> QED BY <2>2, <2>3
<1>3. \A k \in Repositories \X Projects \X Versions : x.version[k] \in Values
  <2> TAKE k \in Repositories \X Projects \X Versions
  <2>1. k = <<k[1], k[2], k[3]>> /\ k[1] \in Repositories /\ k[2] \in Projects /\ k[3] \in Versions OBVIOUS
  <2>2. x.version[<<k[1], k[2], k[3]>>] \in Values BY <2>1
  <2> QED BY <2>1, <2>2
<1>4. \A k \in Repositories \X Digests : x.blob[k] \in B
  <2> TAKE k \in Repositories \X Digests
  <2>1. PICK r \in Repositories : \E d \in Digests : k = <<r, d>> OBVIOUS
  <2>2. PICK d \in Digests : k = <<r, d>> BY <2>1
  <2> DEFINE a == x.blob[<<r, d>>].bytes
             b == x.blob[<<r, d>>].references
  <2>a. x.blob[<<r, d>>] = [bytes |-> a, references |-> b]
    BY DEF Tables, OuterShape, UsageShape, ProjectShape, BlobShape
  <2>b. a \in Nat /\ b \in Values OBVIOUS
  <2>3. x.blob[<<r, d>>] \in B
    <3> HIDE DEF a, b
    <3> QED BY <2>a, <2>b
  <2> QED BY <2>2, <2>3
<1> HIDE DEF U, P, B
<1>5. x.usage \in [Repositories -> U] BY <1>1 DEF Tables, OuterShape, UsageShape, ProjectShape, BlobShape
<1>6. x.project \in [Repositories \X Projects -> P] BY <1>2 DEF Tables, OuterShape, UsageShape, ProjectShape, BlobShape
<1>7. x.version \in [Repositories \X Projects \X Versions -> Values]
  BY <1>3 DEF Tables, OuterShape, UsageShape, ProjectShape, BlobShape
<1>8. x.blob \in [Repositories \X Digests -> B] BY <1>4 DEF Tables, OuterShape, UsageShape, ProjectShape, BlobShape
<1>9. x = [usage |-> x.usage, project |-> x.project, version |-> x.version, blob |-> x.blob]
  BY DEF Tables, OuterShape, UsageShape, ProjectShape, BlobShape
<1> QED BY <1>5, <1>6, <1>7, <1>8, <1>9 DEF RowTypes, U, P, B

--------------------------------
LEMMA ReferencesMove ==
    ASSUME NEW op \in Ops, NEW x, NEW x2, NEW rec, NEW rec2, NEW i, NEW q, Records(op, rec, rec2, i, q),
           References(x, rec),
           BlobStep(op, x, x2, q), ProjectStep(op, x, x2, q), VersionStep(op, x, x2, q)
    PROVE  /\ References(x2, rec2)
           /\ Able(op, x.blob[<<q.repository, q.digest>>].references)
           /\ q.project # None => Able(op, x.project[<<q.repository, q.project>>].references)
           /\ q.version # None => Able(op, x.version[<<q.repository, q.project, q.version>>])
<1>0. q \in Requests BY DEF Records
<1>q. /\ q.repository \in Repositories /\ q.digest \in Digests
      /\ q.project \in Projects \cup {None} /\ q.version \in Versions \cup {None}
      /\ q.project = None => q.version = None
  BY <1>0, RequestTypes
<1>1. ASSUME NEW r \in Repositories, NEW d \in Digests
      PROVE  /\ x2.blob[<<r, d>>].references = Count(rec2, OfBlob(r, d))
             /\ r = q.repository /\ d = q.digest => Able(op, x.blob[<<r, d>>].references)
  <2>1. x.blob[<<r, d>>].references = Count(rec, OfBlob(r, d)) BY DEF References
  <2>2. CASE r = q.repository /\ d = q.digest
    <3>1. q \in OfBlob(r, d) BY <1>0, <2>2 DEF OfBlob
    <3>2. Count(rec2, OfBlob(r, d)) = CountAfter(op, Count(rec, OfBlob(r, d))) /\ Able(op, Count(rec, OfBlob(r, d)))
      BY <3>1, CountsFollow
    <3>3. x2.blob[<<r, d>>].references = CountAfter(op, x.blob[<<r, d>>].references) BY <2>2 DEF BlobStep
    <3> QED BY <2>1, <3>2, <3>3
  <2>3. CASE ~(r = q.repository /\ d = q.digest)
    <3>1. q \notin OfBlob(r, d) BY <2>3 DEF OfBlob
    <3>2. Count(rec2, OfBlob(r, d)) = Count(rec, OfBlob(r, d)) BY <3>1, CountsFollow
    <3>3. x2.blob[<<r, d>>] = x.blob[<<r, d>>] BY <2>3 DEF BlobStep
    <3> QED BY <2>1, <2>3, <3>2, <3>3
  <2> QED BY <2>2, <2>3
<1>2. ASSUME NEW r \in Repositories, NEW p \in Projects
      PROVE  /\ x2.project[<<r, p>>].references = Count(rec2, OfProject(r, p))
             /\ r = q.repository /\ p = q.project => Able(op, x.project[<<r, p>>].references)
  <2>1. x.project[<<r, p>>].references = Count(rec, OfProject(r, p)) BY DEF References
  <2>2. CASE r = q.repository /\ p = q.project
    <3>1. q \in OfProject(r, p) BY <1>0, <2>2 DEF OfProject
    <3>2. Count(rec2, OfProject(r, p)) = CountAfter(op, Count(rec, OfProject(r, p))) /\ Able(op, Count(rec, OfProject(r, p)))
      BY <3>1, CountsFollow
    <3>3. x2.project[<<r, p>>].references = CountAfter(op, x.project[<<r, p>>].references) BY <2>2 DEF ProjectStep
    <3> QED BY <2>1, <3>2, <3>3
  <2>3. CASE ~(r = q.repository /\ p = q.project)
    <3>1. q \notin OfProject(r, p) BY <2>3 DEF OfProject
    <3>2. Count(rec2, OfProject(r, p)) = Count(rec, OfProject(r, p)) BY <3>1, CountsFollow
    <3>3. x2.project[<<r, p>>] = x.project[<<r, p>>] BY <2>3 DEF ProjectStep
    <3> QED BY <2>1, <2>3, <3>2, <3>3
  <2> QED BY <2>2, <2>3
<1>3. ASSUME NEW r \in Repositories, NEW p \in Projects, NEW e \in Versions
      PROVE  /\ x2.version[<<r, p, e>>] = Count(rec2, OfVersion(r, p, e))
             /\ r = q.repository /\ p = q.project /\ e = q.version => Able(op, x.version[<<r, p, e>>])
  <2>1. x.version[<<r, p, e>>] = Count(rec, OfVersion(r, p, e)) BY DEF References
  <2>2. CASE r = q.repository /\ p = q.project /\ e = q.version
    <3>1. q \in OfVersion(r, p, e) BY <1>0, <2>2 DEF OfVersion
    <3>2. Count(rec2, OfVersion(r, p, e)) = CountAfter(op, Count(rec, OfVersion(r, p, e))) /\ Able(op, Count(rec, OfVersion(r, p, e)))
      BY <3>1, CountsFollow
    <3>3. x2.version[<<r, p, e>>] = CountAfter(op, x.version[<<r, p, e>>]) BY <2>2 DEF VersionStep
    <3> QED BY <2>1, <3>2, <3>3
  <2>3. CASE ~(r = q.repository /\ p = q.project /\ e = q.version)
    <3>1. q \notin OfVersion(r, p, e) BY <2>3 DEF OfVersion
    <3>2. Count(rec2, OfVersion(r, p, e)) = Count(rec, OfVersion(r, p, e)) BY <3>1, CountsFollow
    <3>3. x2.version[<<r, p, e>>] = x.version[<<r, p, e>>] BY <2>3 DEF VersionStep
    <3> QED BY <2>1, <2>3, <3>2, <3>3
  <2> QED BY <2>2, <2>3
<1>4. References(x2, rec2) BY <1>1, <1>2, <1>3 DEF References
<1>5. Able(op, x.blob[<<q.repository, q.digest>>].references) BY <1>1, <1>q
<1>6. q.project # None => Able(op, x.project[<<q.repository, q.project>>].references) BY <1>2, <1>q
<1>7. q.version # None => Able(op, x.version[<<q.repository, q.project, q.version>>]) BY <1>3, <1>q
<1> QED BY <1>4, <1>5, <1>6, <1>7

(* A row that a live reservation names has references. *)
LEMMA NamedIsCounted ==
    ASSUME NEW rec, NEW Q, NEW i \in Ids, rec[i].state \in LiveStates, rec[i].request \in Q
    PROVE  Total(Count(rec, Q)) # 0
<1>1. Asking(rec, Q, rec[i].state) # {} BY DEF Asking
<1>2. Cardinality(Asking(rec, Q, rec[i].state)) # 0 BY <1>1, WithIsFinite, FS_EmptySet
<1>3. /\ Cardinality(Asking(rec, Q, "committed")) \in Nat /\ Cardinality(Asking(rec, Q, "reserved")) \in Nat
      /\ Count(rec, Q).committed = Cardinality(Asking(rec, Q, "committed"))
      /\ Count(rec, Q).reserved = Cardinality(Asking(rec, Q, "reserved"))
  BY WithIsFinite, CountIsValue
<1> QED BY <1>2, <1>3 DEF Total, LiveStates

LEMMA SizesMove ==
    ASSUME NEW op \in Ops, NEW x, NEW x2, NEW rec, NEW rec2, NEW i, NEW q, Records(op, rec, rec2, i, q),
           RecordIsSound(rec2), References(x, rec), References(x2, rec2), SizesAgree(x, rec), BlobStep(op, x, x2, q),
           Total(x.blob[<<q.repository, q.digest>>].references) # 0 => x.blob[<<q.repository, q.digest>>].bytes = q.bytes
    PROVE  SizesAgree(x2, rec2)
<1> SUFFICES ASSUME NEW j \in Ids, rec2[j].state \in LiveStates
             PROVE  x2.blob[BlobKey(rec2[j].request)].bytes = rec2[j].request.bytes
  BY DEF SizesAgree
<1> DEFINE s == rec2[j].request
           r == s.repository
           d == s.digest
<1>0. q \in Requests /\ s \in Requests
  BY DEF Records, RecordIsSound, LiveRecords, Ledger!Unused, Ledger!Gone, LiveStates
<1>1. r \in Repositories /\ d \in Digests /\ BlobKey(s) = <<r, d>> /\ s \in OfBlob(r, d)
  BY <1>0, RequestTypes DEF BlobKey, OfBlob
<1>2. Total(x2.blob[<<r, d>>].references) # 0
  <2>1. Total(Count(rec2, OfBlob(r, d))) # 0 BY <1>1, NamedIsCounted
  <2> QED BY <1>1, <2>1 DEF References
<1>3. j # i => rec[j] = rec2[j] BY DEF Records
<1>4. j = i => s = q BY DEF Records, Ops, LiveStates
<1> HIDE DEF s
<1>5. CASE r = q.repository /\ d = q.digest
  <2>1. x2.blob[<<r, d>>].bytes = q.bytes BY <1>1, <1>2, <1>5 DEF BlobStep
  <2>2. j # i => q.bytes = s.bytes
    <3> SUFFICES ASSUME j # i PROVE q.bytes = s.bytes OBVIOUS
    <3>1. rec[j].state \in LiveStates /\ rec[j].request = s BY <1>3 DEF s
    <3>2. x.blob[<<r, d>>].bytes = s.bytes BY <1>1, <3>1 DEF SizesAgree
    <3>3. Total(Count(rec, OfBlob(r, d))) # 0 BY <1>1, <3>1, NamedIsCounted
    <3>4. Total(x.blob[<<r, d>>].references) # 0 BY <1>1, <3>3 DEF References
    <3> QED BY <1>5, <3>2, <3>4
  <2> QED BY <1>1, <1>4, <2>1, <2>2 DEF s
<1>6. CASE ~(r = q.repository /\ d = q.digest)
  <2>1. x2.blob[<<r, d>>] = x.blob[<<r, d>>] BY <1>1, <1>6 DEF BlobStep
  <2>2. rec[j].state \in LiveStates /\ rec[j].request = s BY <1>3, <1>4, <1>6 DEF s
  <2>3. x.blob[<<r, d>>].bytes = s.bytes BY <1>1, <2>2 DEF SizesAgree
  <2> QED BY <1>1, <2>1, <2>3 DEF s
<1> QED BY <1>5, <1>6

--------------------------------
(* How each charge moves with the references it is made for. *)

LEMMA OwnMoves ==
    ASSUME NEW op \in Ops
    PROVE  /\ OwnCount(op) \in Values /\ Zero \in Values /\ Able(op, OwnCount(op))
           /\ CountAfter(op, OwnCount(op)) = IF op = "reserve" THEN OneHeld ELSE IF op = "commit" THEN OneFirm ELSE Zero
           /\ op = "reserve" => Total(OwnCount(op)) = 0
           /\ op \in LiveStates => Total(CountAfter(op, OwnCount(op))) = 0
           /\ Zero.committed = 0 /\ Zero.reserved = 0 /\ Total(Zero) = 0
<1>1. OneFirm \in Values /\ OneHeld \in Values /\ Zero \in Values /\ Total(Zero) = 0 /\ Zero.committed = 0 /\ Zero.reserved = 0
  BY DEF OneFirm, OneHeld, Zero, Values, Total
<1>2. CASE op = "reserve"
  <2>1. OwnCount(op) = Zero /\ CountAfter(op, OwnCount(op)) = Plus(Zero, "reserved", 1) BY <1>2 DEF OwnCount, CountAfter
  <2>2. Plus(Zero, "reserved", 1) = OneHeld BY DEF Plus, Zero, OneHeld
  <2> QED BY <1>1, <1>2, <2>1, <2>2 DEF Able, LiveStates
<1>3. CASE op = "commit"
  <2>1. OwnCount(op) = OneHeld /\ CountAfter(op, OwnCount(op)) = Moved(OneHeld, 1) BY <1>3 DEF OwnCount, CountAfter
  <2>2. Moved(OneHeld, 1) = OneFirm /\ OneHeld.reserved > 0 BY DEF Moved, OneFirm, OneHeld
  <2> QED BY <1>1, <1>3, <2>1, <2>2 DEF Able, LiveStates
<1>4. CASE op = "committed"
  <2>1. OwnCount(op) = OneFirm /\ CountAfter(op, OwnCount(op)) = Minus(OneFirm, "committed", 1)
    BY <1>4 DEF OwnCount, CountAfter
  <2>2. Minus(OneFirm, "committed", 1) = Zero /\ OneFirm.committed > 0 BY DEF Minus, OneFirm, Zero
  <2> QED BY <1>1, <1>4, <2>1, <2>2 DEF Able, LiveStates
<1>5. CASE op = "reserved"
  <2>1. OwnCount(op) = OneHeld /\ CountAfter(op, OwnCount(op)) = Minus(OneHeld, "reserved", 1)
    BY <1>5 DEF OwnCount, CountAfter
  <2>2. Minus(OneHeld, "reserved", 1) = Zero /\ OneHeld.reserved > 0 BY DEF Minus, OneHeld, Zero
  <2> QED BY <1>1, <1>5, <2>1, <2>2 DEF Able, LiveStates
<1> QED BY <1>2, <1>3, <1>4, <1>5 DEF Ops

(* The bytes of the files. *)
LEMMA FileChargeMoves ==
    ASSUME NEW op \in Ops, NEW rec, NEW rec2, NEW i, NEW q, Records(op, rec, rec2, i, q),
           NEW r, NEW v \in Values, Charged(v, FileSizes(rec), FileRefs(rec, r), Ids)
    PROVE  LET v2 == IF r = q.repository THEN ChargeAfter(op, v, OwnCount(op), q.bytes) ELSE v
           IN  /\ v2 \in Values /\ Charged(v2, FileSizes(rec2), FileRefs(rec2, r), Ids)
               /\ op # "reserve" => Total(v2) <= Total(v)
<1>0. i \in Ids /\ q \in Requests /\ \A j \in Ids : j # i => rec2[j] = rec[j] BY DEF Records
<1>1. q.bytes \in Nat BY <1>0, RequestTypes
<1> DEFINE w == FileSizes(rec)
           w2 == FileSizes(rec2)
           f == FileRefs(rec, r)
           f2 == FileRefs(rec2, r)
<1>2. \A j \in Ids : j # i => f2[j] = f[j] /\ w2[j] = w[j] BY <1>0 DEF FileRefs, FileSizes
<1>3. CASE r = q.repository
  <2>1. f[i] = OwnCount(op) BY <1>0, <1>3 DEF FileRefs, Records, OwnCount, Ops, LiveStates
  <2>2. f2[i] = IF op = "reserve" THEN OneHeld ELSE IF op = "commit" THEN OneFirm ELSE Zero
    BY <1>0, <1>3 DEF FileRefs, Records, Ops, LiveStates
  <2>3. f[i] \in Values /\ Able(op, f[i]) /\ f2[i] = CountAfter(op, f[i]) BY <2>1, <2>2, OwnMoves
  <2>4. Total(f[i]) # 0 => w[i] = q.bytes
    <3>1. op # "reserve" => w[i] = q.bytes BY <1>0 DEF FileSizes, Records
    <3> QED BY <2>1, <3>1, OwnMoves
  <2>5. Total(f2[i]) # 0 => w2[i] = q.bytes
    <3>1. op \notin LiveStates => w2[i] = q.bytes BY <1>0 DEF FileSizes, Records
    <3> QED BY <2>1, <2>3, <3>1, OwnMoves
  <2>6. Charged(v, w, f, Ids) OBVIOUS
  <2> HIDE DEF w, w2, f, f2
  <2>7. /\ ChargeAfter(op, v, f[i], q.bytes) \in Values
        /\ Charged(ChargeAfter(op, v, f[i], q.bytes), w2, f2, Ids)
        /\ op # "reserve" => Total(ChargeAfter(op, v, f[i], q.bytes)) <= Total(v)
    BY <1>0, <1>1, <1>2, <2>3, <2>4, <2>5, <2>6, ChargeMoves
  <2> QED BY <1>3, <2>1, <2>7 DEF w2, f2
<1>4. CASE r # q.repository
  <2>1. f[i] = Zero BY <1>0, <1>4 DEF FileRefs, Records, Ops, LiveStates
  <2>2. f2[i] = Zero BY <1>0, <1>4 DEF FileRefs, Records, Ops, LiveStates
  <2>3. \A j \in Ids : f2[j] = f[j] BY <1>2, <2>1, <2>2
  <2>4. \A j \in Ids : f[j].committed > 0 \/ f[j].reserved > 0 => w2[j] = w[j] BY <1>2, <2>1 DEF Zero
  <2>5. Charged(v, w, f, Ids) OBVIOUS
  <2> HIDE DEF w, w2, f, f2
  <2>6. Charged(v, w2, f2, Ids) BY <2>3, <2>4, <2>5, ChargeSame
  <2>7. Total(v) \in Nat BY DEF Total, Values
  <2> QED BY <1>4, <2>6, <2>7 DEF w2, f2
<1> QED BY <1>3, <1>4

(* The bytes of the distinct digests. *)
LEMMA BlobChargeMoves ==
    ASSUME NEW op \in Ops, NEW x \in RowTypes, NEW x2, NEW q \in Requests, NEW r \in Repositories,
           BlobStep(op, x, x2, q), Able(op, x.blob[<<q.repository, q.digest>>].references),
           Total(x.blob[<<q.repository, q.digest>>].references) # 0 => x.blob[<<q.repository, q.digest>>].bytes = q.bytes,
           NEW v \in Values, Charged(v, BlobSizes(x, r), BlobRefs(x, r), Digests)
    PROVE  LET v2 == IF r = q.repository THEN ChargeAfter(op, v, x.blob[<<r, q.digest>>].references, q.bytes) ELSE v
           IN  /\ v2 \in Values /\ Charged(v2, BlobSizes(x2, r), BlobRefs(x2, r), Digests)
               /\ op # "reserve" => Total(v2) <= Total(v)
<1>1. q.repository \in Repositories /\ q.digest \in Digests /\ q.bytes \in Nat BY RequestTypes
<1> DEFINE w == BlobSizes(x, r)
           w2 == BlobSizes(x2, r)
           f == BlobRefs(x, r)
           f2 == BlobRefs(x2, r)
           k == q.digest
<1>2. CASE r = q.repository
  <2>1. \A j \in Digests : j # k => f2[j] = f[j] /\ w2[j] = w[j] BY <1>2 DEF BlobStep, BlobRefs, BlobSizes
  <2>2. f[k] = x.blob[<<r, k>>].references /\ w[k] = x.blob[<<r, k>>].bytes BY <1>1 DEF BlobRefs, BlobSizes
  <2>3. f[k] \in Values /\ Able(op, f[k]) BY <1>1, <1>2, <2>2, TypesOfRows
  <2>4. f2[k] = CountAfter(op, f[k]) /\ (Total(f2[k]) # 0 => w2[k] = q.bytes)
    BY <1>1, <1>2, <2>2 DEF BlobStep, BlobRefs, BlobSizes
  <2>5. Total(f[k]) # 0 => w[k] = q.bytes BY <1>2, <2>2
  <2>6. Charged(v, w, f, Digests) /\ k \in Digests BY <1>1
  <2> HIDE DEF w, w2, f, f2, k
  <2>7. /\ ChargeAfter(op, v, f[k], q.bytes) \in Values
        /\ Charged(ChargeAfter(op, v, f[k], q.bytes), w2, f2, Digests)
        /\ op # "reserve" => Total(ChargeAfter(op, v, f[k], q.bytes)) <= Total(v)
    BY <1>1, <2>1, <2>3, <2>4, <2>5, <2>6, ChargeMoves
  <2> QED BY <1>2, <2>2, <2>7 DEF w2, f2, k
<1>3. CASE r # q.repository
  <2>1. \A j \in Digests : f2[j] = f[j] /\ w2[j] = w[j] BY <1>3 DEF BlobStep, BlobRefs, BlobSizes
  <2>2. Charged(v, w, f, Digests) OBVIOUS
  <2> HIDE DEF w, w2, f, f2
  <2>3. Charged(v, w2, f2, Digests) BY <2>1, <2>2, ChargeSame
  <2>4. Total(v) \in Nat BY DEF Total, Values
  <2> QED BY <1>3, <2>3, <2>4 DEF w2, f2
<1> QED BY <1>2, <1>3

(* The projects of a repository. *)
LEMMA ProjectChargeMoves ==
    ASSUME NEW op \in Ops, NEW x \in RowTypes, NEW x2, NEW q \in Requests, NEW r \in Repositories,
           ProjectStep(op, x, x2, q),
           q.project # None => Able(op, x.project[<<q.repository, q.project>>].references),
           NEW v \in Values, Charged(v, Ones(Projects), ProjectRefs(x, r), Projects)
    PROVE  LET v2 == IF r = q.repository /\ q.project # None
                       THEN ChargeAfter(op, v, x.project[<<r, q.project>>].references, 1) ELSE v
           IN  /\ v2 \in Values /\ Charged(v2, Ones(Projects), ProjectRefs(x2, r), Projects)
               /\ op # "reserve" => Total(v2) <= Total(v)
<1>1. q.repository \in Repositories /\ q.project \in Projects \cup {None} /\ None \notin Projects BY RequestTypes
<1> DEFINE w == Ones(Projects)
           f == ProjectRefs(x, r)
           f2 == ProjectRefs(x2, r)
           k == q.project
<1>w. \A j \in Projects : w[j] = 1 BY DEF Ones
<1>2. CASE r = q.repository /\ k # None
  <2>1. \A j \in Projects : j # k => f2[j] = f[j] BY <1>2 DEF ProjectStep, ProjectRefs
  <2>2. f[k] = x.project[<<r, k>>].references /\ k \in Projects BY <1>1, <1>2 DEF ProjectRefs
  <2>3. f[k] \in Values /\ Able(op, f[k]) BY <1>1, <1>2, <2>2, TypesOfRows
  <2>4. f2[k] = CountAfter(op, f[k]) BY <1>1, <1>2, <2>2 DEF ProjectStep, ProjectRefs
  <2>6. Charged(v, w, f, Projects) OBVIOUS
  <2>n. 1 \in Nat /\ w[k] = 1 BY <1>w, <2>2
  <2> HIDE DEF w, f, f2, k
  <2>7. /\ ChargeAfter(op, v, f[k], 1) \in Values
        /\ Charged(ChargeAfter(op, v, f[k], 1), w, f2, Projects)
        /\ op # "reserve" => Total(ChargeAfter(op, v, f[k], 1)) <= Total(v)
    BY <2>1, <2>2, <2>3, <2>4, <2>6, <2>n, ChargeMoves
  <2> QED BY <1>2, <2>2, <2>7 DEF w, f2, k
<1>3. CASE ~(r = q.repository /\ k # None)
  <2>1. \A j \in Projects : f2[j] = f[j] BY <1>1, <1>3 DEF ProjectStep, ProjectRefs
  <2>2. Charged(v, w, f, Projects) OBVIOUS
  <2> HIDE DEF w, f, f2
  <2>3. Charged(v, w, f2, Projects) BY <2>1, <2>2, ChargeSame
  <2>4. Total(v) \in Nat BY DEF Total, Values
  <2> QED BY <1>3, <2>3, <2>4 DEF w, f2
<1> QED BY <1>2, <1>3

(* A project without references has no versions. *)
LEMMA NoProjectNoVersions ==
    ASSUME NEW x, NEW rec, References(x, rec), NEW r \in Repositories, NEW p \in Projects,
           Total(x.project[<<r, p>>].references) = 0
    PROVE  /\ \A e \in Versions : x.version[<<r, p, e>>].committed = 0 /\ x.version[<<r, p, e>>].reserved = 0
           /\ Charged(Zero, Ones(Versions), VersionRefs(x, r, p), Versions)
<1> DEFINE Q == OfProject(r, p)
<1>1. Total(Count(rec, Q)) = 0 BY DEF References
<1>2. /\ Cardinality(Asking(rec, Q, "committed")) \in Nat /\ Cardinality(Asking(rec, Q, "reserved")) \in Nat
      /\ IsFiniteSet(Asking(rec, Q, "committed")) /\ IsFiniteSet(Asking(rec, Q, "reserved"))
      /\ Count(rec, Q).committed = Cardinality(Asking(rec, Q, "committed"))
      /\ Count(rec, Q).reserved = Cardinality(Asking(rec, Q, "reserved"))
  BY WithIsFinite, CountIsValue
<1>3. Asking(rec, Q, "committed") = {} /\ Asking(rec, Q, "reserved") = {} BY <1>1, <1>2, FS_EmptySet DEF Total
<1>4. ASSUME NEW e \in Versions
      PROVE  x.version[<<r, p, e>>].committed = 0 /\ x.version[<<r, p, e>>].reserved = 0
  <2>1. Asking(rec, OfVersion(r, p, e), "committed") = {} /\ Asking(rec, OfVersion(r, p, e), "reserved") = {}
    BY <1>3 DEF Asking, OfProject, OfVersion
  <2>2. Count(rec, OfVersion(r, p, e)).committed = 0 /\ Count(rec, OfVersion(r, p, e)).reserved = 0
    BY <2>1, CountIsValue, FS_EmptySet
  <2> QED BY <2>2 DEF References
<1>5. Firm(VersionRefs(x, r, p), Versions) = {} /\ Held(VersionRefs(x, r, p), Versions) = {}
  BY <1>4 DEF Firm, Held, VersionRefs
<1>6. Charged(Zero, Ones(Versions), VersionRefs(x, r, p), Versions)
  BY <1>5, SumEmpty, FS_EmptySet DEF Charged, Summable, Zero
<1> QED BY <1>4, <1>6

(* The versions of a project. *)
LEMMA VersionChargeMoves ==
    ASSUME NEW op \in Ops, NEW x \in RowTypes, NEW x2, NEW rec2, NEW q \in Requests,
           NEW r \in Repositories, NEW p \in Projects, References(x2, rec2),
           ProjectStep(op, x, x2, q), VersionStep(op, x, x2, q),
           q.version # None => Able(op, x.version[<<q.repository, q.project, q.version>>]),
           Charged(x.project[<<r, p>>].versions, Ones(Versions), VersionRefs(x, r, p), Versions)
    PROVE  /\ x2.project[<<r, p>>].versions \in Values
           /\ Charged(x2.project[<<r, p>>].versions, Ones(Versions), VersionRefs(x2, r, p), Versions)
           /\ op # "reserve" => Total(x2.project[<<r, p>>].versions) <= Total(x.project[<<r, p>>].versions)
<1>1. /\ q.repository \in Repositories /\ q.project \in Projects \cup {None} /\ None \notin Projects /\ None \notin Versions
      /\ q.version \in Versions \cup {None} /\ (q.project = None => q.version = None)
  BY RequestTypes
<1> DEFINE w == Ones(Versions)
           f == VersionRefs(x, r, p)
           f2 == VersionRefs(x2, r, p)
           k == q.version
           v == x.project[<<r, p>>].versions
           v2 == x2.project[<<r, p>>].versions
           u == ChargeAfter(op, v, x.version[<<r, p, k>>], 1)
<1>w. \A j \in Versions : w[j] = 1 BY DEF Ones
<1>v. v \in Values /\ Charged(v, w, f, Versions) BY TypesOfRows
<1>t. Total(v) \in Nat BY <1>v DEF Total, Values
<1>2. CASE r = q.repository /\ p = q.project /\ k # None
  <2>1. \A j \in Versions : j # k => f2[j] = f[j] BY <1>2 DEF VersionStep, VersionRefs
  <2>2. f[k] = x.version[<<r, p, k>>] /\ k \in Versions BY <1>1, <1>2 DEF VersionRefs
  <2>3. f[k] \in Values /\ Able(op, f[k]) BY <1>1, <1>2, <2>2, TypesOfRows
  <2>4. f2[k] = CountAfter(op, f[k]) BY <1>1, <1>2, <2>2 DEF VersionStep, VersionRefs
  <2>n. 1 \in Nat /\ w[k] = 1 BY <1>w, <2>2
  <2>p. v2 = u \/ (Total(x2.project[<<r, p>>].references) = 0 /\ v2 = Zero) BY <1>2 DEF ProjectStep
  <2>7. u \in Values /\ Charged(u, w, f2, Versions) /\ (op # "reserve" => Total(u) <= Total(v))
    <3>1. u = ChargeAfter(op, v, f[k], 1) BY <2>2
    <3> HIDE DEF w, f, f2, k, v, u
    <3>2. /\ ChargeAfter(op, v, f[k], 1) \in Values
          /\ Charged(ChargeAfter(op, v, f[k], 1), w, f2, Versions)
          /\ op # "reserve" => Total(ChargeAfter(op, v, f[k], 1)) <= Total(v)
      BY <1>v, <2>1, <2>2, <2>3, <2>4, <2>n, ChargeMoves
    <3> QED BY <3>1, <3>2
  <2>8. Total(x2.project[<<r, p>>].references) = 0 => Charged(Zero, w, f2, Versions) BY NoProjectNoVersions
  <2> HIDE DEF w, f2, k, v, v2, u
  <2>9. v2 \in Values /\ Charged(v2, w, f2, Versions) /\ (op # "reserve" => Total(v2) <= Total(v))
    BY <1>t, <2>p, <2>7, <2>8, OwnMoves
  <2> QED BY <2>9 DEF w, f2, v, v2
<1>3. CASE ~(r = q.repository /\ p = q.project /\ k # None)
  <2>1. \A j \in Versions : f2[j] = f[j] BY <1>1, <1>3 DEF VersionStep, VersionRefs
  <2>p. v2 = v \/ (Total(x2.project[<<r, p>>].references) = 0 /\ v2 = Zero) BY <1>3 DEF ProjectStep
  <2>8. Total(x2.project[<<r, p>>].references) = 0 => Charged(Zero, w, f2, Versions) BY NoProjectNoVersions
  <2> HIDE DEF w, f, f2, k, v, v2
  <2>3. Charged(v, w, f2, Versions) BY <1>v, <2>1, ChargeSame
  <2>9. v2 \in Values /\ Charged(v2, w, f2, Versions) /\ (op # "reserve" => Total(v2) <= Total(v))
    BY <1>v, <1>t, <2>p, <2>3, <2>8, OwnMoves
  <2> QED BY <2>9 DEF w, f2, v, v2
<1> QED BY <1>2, <1>3

--------------------------------
(* An operation on rows that are right leaves rows that are right. *)

LEMMA TotalsOfRows ==
    ASSUME NEW x, NEW rec, References(x, rec), NEW op \in Ops, op # "reserve",
           NEW x2, NEW q \in Requests, BlobStep(op, x, x2, q), ProjectStep(op, x, x2, q), VersionStep(op, x, x2, q),
           Able(op, x.blob[<<q.repository, q.digest>>].references),
           q.project # None => Able(op, x.project[<<q.repository, q.project>>].references),
           q.version # None => Able(op, x.version[<<q.repository, q.project, q.version>>]),
           NEW r \in Repositories
    PROVE  /\ \A d \in Digests : Total(x2.blob[<<r, d>>].references) <= Total(x.blob[<<r, d>>].references)
           /\ \A p \in Projects : Total(x2.project[<<r, p>>].references) <= Total(x.project[<<r, p>>].references)
           /\ \A p \in Projects, e \in Versions : Total(x2.version[<<r, p, e>>]) <= Total(x.version[<<r, p, e>>])
<1>0. /\ q.repository \in Repositories /\ q.digest \in Digests
      /\ q.project \in Projects \cup {None} /\ q.version \in Versions \cup {None}
      /\ None \notin Projects /\ None \notin Versions
  BY RequestTypes
<1>1. ASSUME NEW a \in Values PROVE Total(a) <= Total(a) BY DEF Total, Values
<1>2. ASSUME NEW d \in Digests PROVE Total(x2.blob[<<r, d>>].references) <= Total(x.blob[<<r, d>>].references)
  <2>1. x.blob[<<r, d>>].references \in Values
    <3>1. x.blob[<<r, d>>].references = Count(rec, OfBlob(r, d)) BY DEF References
    <3> QED BY <3>1, CountIsValue
  <2>2. CASE r = q.repository /\ d = q.digest
    <3>1. x2.blob[<<r, d>>].references = CountAfter(op, x.blob[<<r, d>>].references) /\ Able(op, x.blob[<<r, d>>].references)
      BY <2>2 DEF BlobStep
    <3> QED BY <2>1, <3>1, CountMoves
  <2>3. CASE ~(r = q.repository /\ d = q.digest) BY <1>1, <2>1, <2>3 DEF BlobStep
  <2> QED BY <2>2, <2>3
<1>3. ASSUME NEW p \in Projects PROVE Total(x2.project[<<r, p>>].references) <= Total(x.project[<<r, p>>].references)
  <2>1. x.project[<<r, p>>].references \in Values
    <3>1. x.project[<<r, p>>].references = Count(rec, OfProject(r, p)) BY DEF References
    <3> QED BY <3>1, CountIsValue
  <2>2. CASE r = q.repository /\ p = q.project
    <3>1. x2.project[<<r, p>>].references = CountAfter(op, x.project[<<r, p>>].references) /\ Able(op, x.project[<<r, p>>].references)
      BY <1>0, <2>2 DEF ProjectStep
    <3> QED BY <2>1, <3>1, CountMoves
  <2>3. CASE ~(r = q.repository /\ p = q.project) BY <1>1, <2>1, <2>3 DEF ProjectStep
  <2> QED BY <2>2, <2>3
<1>4. ASSUME NEW p \in Projects, NEW e \in Versions PROVE Total(x2.version[<<r, p, e>>]) <= Total(x.version[<<r, p, e>>])
  <2>1. x.version[<<r, p, e>>] \in Values
    <3>1. x.version[<<r, p, e>>] = Count(rec, OfVersion(r, p, e)) BY DEF References
    <3> QED BY <3>1, CountIsValue
  <2>2. CASE r = q.repository /\ p = q.project /\ e = q.version
    <3>1. x2.version[<<r, p, e>>] = CountAfter(op, x.version[<<r, p, e>>]) /\ Able(op, x.version[<<r, p, e>>])
      BY <1>0, <2>2 DEF VersionStep
    <3> QED BY <2>1, <3>1, CountMoves
  <2>3. CASE ~(r = q.repository /\ p = q.project /\ e = q.version) BY <1>1, <2>1, <2>3 DEF VersionStep
  <2> QED BY <2>2, <2>3
<1> QED BY <1>2, <1>3, <1>4

(* Transitivity of the bound, for a value that did not grow. *)
LEMMA StaysBounded ==
    ASSUME NEW a \in Values, NEW b \in Values, Total(b) <= Total(a), Total(a) <= MaxCount
    PROVE  Total(b) <= MaxCount
  BY CountAssumption DEF Total, Values

(* One operation, on the rows and on the records, keeps them in agreement. *)
LEMMA StepIsSound ==
    ASSUME NEW op \in Ops, NEW x, NEW x2, NEW rec, NEW rec2, NEW i, NEW q,
           RowsSound(x, rec), RecordIsSound(rec2), Records(op, rec, rec2, i, q), Stepped(op, x, x2, q),
           Total(x.blob[<<q.repository, q.digest>>].references) # 0 => x.blob[<<q.repository, q.digest>>].bytes = q.bytes,
           op = "reserve" => Bounded(x2)
    PROVE  RowsSound(x2, rec2)
<1>0. /\ q \in Requests /\ x \in RowTypes /\ References(x, rec) /\ SizesAgree(x, rec) /\ Charges(x, rec) /\ Bounded(x)
      /\ Tables(x2) /\ UsageStep(op, x, x2, q) /\ BlobStep(op, x, x2, q)
      /\ ProjectStep(op, x, x2, q) /\ VersionStep(op, x, x2, q)
  BY DEF RowsSound, Stepped, Records
<1>1. /\ References(x2, rec2)
      /\ Able(op, x.blob[<<q.repository, q.digest>>].references)
      /\ q.project # None => Able(op, x.project[<<q.repository, q.project>>].references)
      /\ q.version # None => Able(op, x.version[<<q.repository, q.project, q.version>>])
  BY <1>0, ReferencesMove
<1>2. SizesAgree(x2, rec2) BY <1>0, <1>1, SizesMove
<1>3. ASSUME NEW r \in Repositories
      PROVE  /\ x2.usage[r].file_bytes \in Values
             /\ Charged(x2.usage[r].file_bytes, FileSizes(rec2), FileRefs(rec2, r), Ids)
             /\ op # "reserve" => Total(x2.usage[r].file_bytes) <= Total(x.usage[r].file_bytes)
  <2>1. x.usage[r].file_bytes \in Values /\ Charged(x.usage[r].file_bytes, FileSizes(rec), FileRefs(rec, r), Ids)
    BY <1>0, TypesOfRows DEF Charges
  <2>2. x2.usage[r].file_bytes = IF r = q.repository THEN ChargeAfter(op, x.usage[r].file_bytes, OwnCount(op), q.bytes)
                                 ELSE x.usage[r].file_bytes
    BY <1>0 DEF UsageStep
  <2> DEFINE v == x.usage[r].file_bytes
             v2 == x2.usage[r].file_bytes
  <2> HIDE DEF v, v2
  <2>3. v \in Values /\ Charged(v, FileSizes(rec), FileRefs(rec, r), Ids)
        /\ v2 = IF r = q.repository THEN ChargeAfter(op, v, OwnCount(op), q.bytes) ELSE v
    BY <2>1, <2>2 DEF v, v2
  <2>4. v2 \in Values /\ Charged(v2, FileSizes(rec2), FileRefs(rec2, r), Ids) /\ (op # "reserve" => Total(v2) <= Total(v))
    BY <2>3, FileChargeMoves
  <2> QED BY <2>4 DEF v, v2
<1>4. ASSUME NEW r \in Repositories
      PROVE  /\ x2.usage[r].accounted_bytes \in Values
             /\ Charged(x2.usage[r].accounted_bytes, BlobSizes(x2, r), BlobRefs(x2, r), Digests)
             /\ op # "reserve" => Total(x2.usage[r].accounted_bytes) <= Total(x.usage[r].accounted_bytes)
  <2>1. x.usage[r].accounted_bytes \in Values /\ Charged(x.usage[r].accounted_bytes, BlobSizes(x, r), BlobRefs(x, r), Digests)
    BY <1>0, TypesOfRows DEF Charges
  <2>2. x2.usage[r].accounted_bytes
          = IF r = q.repository THEN ChargeAfter(op, x.usage[r].accounted_bytes, x.blob[<<r, q.digest>>].references, q.bytes)
            ELSE x.usage[r].accounted_bytes
    BY <1>0 DEF UsageStep
  <2> DEFINE v == x.usage[r].accounted_bytes
             v2 == x2.usage[r].accounted_bytes
  <2> HIDE DEF v, v2
  <2>3. v \in Values /\ Charged(v, BlobSizes(x, r), BlobRefs(x, r), Digests)
        /\ v2 = IF r = q.repository THEN ChargeAfter(op, v, x.blob[<<r, q.digest>>].references, q.bytes) ELSE v
    BY <2>1, <2>2 DEF v, v2
  <2>4. v2 \in Values /\ Charged(v2, BlobSizes(x2, r), BlobRefs(x2, r), Digests) /\ (op # "reserve" => Total(v2) <= Total(v))
    BY <1>0, <1>1, <2>3, BlobChargeMoves
  <2> QED BY <2>4 DEF v, v2
<1>5. ASSUME NEW r \in Repositories
      PROVE  /\ x2.usage[r].projects \in Values
             /\ Charged(x2.usage[r].projects, Ones(Projects), ProjectRefs(x2, r), Projects)
             /\ op # "reserve" => Total(x2.usage[r].projects) <= Total(x.usage[r].projects)
  <2>1. x.usage[r].projects \in Values /\ Charged(x.usage[r].projects, Ones(Projects), ProjectRefs(x, r), Projects)
    BY <1>0, TypesOfRows DEF Charges
  <2>2. x2.usage[r].projects
          = IF r = q.repository /\ q.project # None
              THEN ChargeAfter(op, x.usage[r].projects, x.project[<<r, q.project>>].references, 1)
            ELSE x.usage[r].projects
    BY <1>0 DEF UsageStep
  <2> DEFINE v == x.usage[r].projects
             v2 == x2.usage[r].projects
  <2> HIDE DEF v, v2
  <2>3. v \in Values /\ Charged(v, Ones(Projects), ProjectRefs(x, r), Projects)
        /\ v2 = IF r = q.repository /\ q.project # None
                  THEN ChargeAfter(op, v, x.project[<<r, q.project>>].references, 1) ELSE v
    BY <2>1, <2>2 DEF v, v2
  <2>4. v2 \in Values /\ Charged(v2, Ones(Projects), ProjectRefs(x2, r), Projects) /\ (op # "reserve" => Total(v2) <= Total(v))
    BY <1>0, <1>1, <2>3, ProjectChargeMoves
  <2> QED BY <2>4 DEF v, v2
<1>6. ASSUME NEW r \in Repositories, NEW p \in Projects
      PROVE  /\ x2.project[<<r, p>>].versions \in Values
             /\ Charged(x2.project[<<r, p>>].versions, Ones(Versions), VersionRefs(x2, r, p), Versions)
             /\ op # "reserve" => Total(x2.project[<<r, p>>].versions) <= Total(x.project[<<r, p>>].versions)
  <2>1. Charged(x.project[<<r, p>>].versions, Ones(Versions), VersionRefs(x, r, p), Versions) BY <1>0 DEF Charges
  <2> QED BY <1>0, <1>1, <2>1, VersionChargeMoves
<1>7. Charges(x2, rec2) BY <1>3, <1>4, <1>5, <1>6 DEF Charges
<1>8. ASSUME NEW r \in Repositories
      PROVE  /\ \A d \in Digests : x2.blob[<<r, d>>].references \in Values
             /\ \A p \in Projects : /\ x2.project[<<r, p>>].references \in Values
                                    /\ \A e \in Versions : x2.version[<<r, p, e>>] \in Values
  BY <1>1, CountIsValue DEF References
<1>9. ASSUME NEW r \in Repositories, NEW d \in Digests PROVE x2.blob[<<r, d>>].bytes \in Nat
  <2>1. x.blob[<<r, d>>].bytes \in Nat BY <1>0, TypesOfRows
  <2> QED BY <1>0, <2>1 DEF BlobStep
<1>10. x2 \in RowTypes BY <1>0, <1>3, <1>4, <1>5, <1>6, <1>8, <1>9, TypesFromRows
<1>11. ASSUME op # "reserve", NEW r \in Repositories
       PROVE  /\ Total(x2.usage[r].file_bytes) <= MaxCount
              /\ Total(x2.usage[r].accounted_bytes) <= MaxCount
              /\ Total(x2.usage[r].projects) <= MaxCount
              /\ \A d \in Digests : Total(x2.blob[<<r, d>>].references) <= MaxCount
              /\ \A p \in Projects :
                   /\ Total(x2.project[<<r, p>>].references) <= MaxCount
                   /\ Total(x2.project[<<r, p>>].versions) <= MaxCount
                   /\ \A e \in Versions : Total(x2.version[<<r, p, e>>]) <= MaxCount
  <2>1. /\ Total(x.usage[r].file_bytes) <= MaxCount
        /\ Total(x.usage[r].accounted_bytes) <= MaxCount
        /\ Total(x.usage[r].projects) <= MaxCount
        /\ \A d \in Digests : Total(x.blob[<<r, d>>].references) <= MaxCount
        /\ \A p \in Projects :
             /\ Total(x.project[<<r, p>>].references) <= MaxCount
             /\ Total(x.project[<<r, p>>].versions) <= MaxCount
             /\ \A e \in Versions : Total(x.version[<<r, p, e>>]) <= MaxCount
    BY <1>0 DEF Bounded
  <2>2. /\ x.usage[r].file_bytes \in Values /\ x.usage[r].accounted_bytes \in Values /\ x.usage[r].projects \in Values
        /\ \A d \in Digests : x.blob[<<r, d>>].references \in Values
        /\ \A p \in Projects : /\ x.project[<<r, p>>].references \in Values /\ x.project[<<r, p>>].versions \in Values
                               /\ \A e \in Versions : x.version[<<r, p, e>>] \in Values
    BY <1>0, TypesOfRows
  <2>3. /\ \A d \in Digests : Total(x2.blob[<<r, d>>].references) <= Total(x.blob[<<r, d>>].references)
        /\ \A p \in Projects : Total(x2.project[<<r, p>>].references) <= Total(x.project[<<r, p>>].references)
        /\ \A p \in Projects, e \in Versions : Total(x2.version[<<r, p, e>>]) <= Total(x.version[<<r, p, e>>])
    BY <1>0, <1>1, <1>11, TotalsOfRows
  <2>4. Total(x2.usage[r].file_bytes) <= MaxCount BY <1>3, <1>11, <2>1, <2>2, StaysBounded
  <2>5. Total(x2.usage[r].accounted_bytes) <= MaxCount BY <1>4, <1>11, <2>1, <2>2, StaysBounded
  <2>6. Total(x2.usage[r].projects) <= MaxCount BY <1>5, <1>11, <2>1, <2>2, StaysBounded
  <2>7. \A d \in Digests : Total(x2.blob[<<r, d>>].references) <= MaxCount BY <1>8, <2>1, <2>2, <2>3, StaysBounded
  <2>8. \A p \in Projects : Total(x2.project[<<r, p>>].references) <= MaxCount BY <1>8, <2>1, <2>2, <2>3, StaysBounded
  <2>9. \A p \in Projects : Total(x2.project[<<r, p>>].versions) <= MaxCount BY <1>6, <1>11, <2>1, <2>2, StaysBounded
  <2>10. ASSUME NEW p \in Projects, NEW e \in Versions PROVE Total(x2.version[<<r, p, e>>]) <= MaxCount
    <3> DEFINE a == x.version[<<r, p, e>>]
               b == x2.version[<<r, p, e>>]
    <3>1. a \in Values /\ b \in Values /\ Total(b) <= Total(a) /\ Total(a) <= MaxCount BY <1>8, <2>1, <2>2, <2>3
    <3> HIDE DEF a, b
    <3>2. Total(b) <= MaxCount BY <3>1, StaysBounded
    <3> QED BY <3>2 DEF b
  <2> QED BY <2>4, <2>5, <2>6, <2>7, <2>8, <2>9, <2>10
<1>12. Bounded(x2) BY <1>11 DEF Bounded
<1> QED BY <1>1, <1>2, <1>7, <1>10, <1>12 DEF RowsSound

--------------------------------
(* The rows that the three operations write are one such step. *)

(* The keys of a request. *)
LEMMA KeysOfRequest ==
    ASSUME NEW q \in Requests, NEW r \in Repositories, NEW p \in Projects
    PROVE  /\ <<r, p>> \in ProjectKeys(q) <=> r = q.repository /\ p = q.project
           /\ \A e \in Versions : <<r, p, e>> \in VersionKeys(q) <=> r = q.repository /\ p = q.project /\ e = q.version
           /\ \A d \in Digests : <<r, d>> = BlobKey(q) <=> r = q.repository /\ d = q.digest
  BY RequestTypes DEF ProjectKeys, VersionKeys, BlobKey

(* A row whose fields are typed is the record of its fields. *)
LEMMA TablesFromTypes == ASSUME NEW x \in RowTypes PROVE Tables(x)
<1>1. /\ x.usage \in [Repositories -> [file_bytes : Values, accounted_bytes : Values, projects : Values]]
      /\ x.project \in [Repositories \X Projects -> [references : Values, versions : Values]]
      /\ x.version \in [Repositories \X Projects \X Versions -> Values]
      /\ x.blob \in [Repositories \X Digests -> [bytes : Nat, references : Values]]
      /\ x = [usage |-> x.usage, project |-> x.project, version |-> x.version, blob |-> x.blob]
  BY DEF RowTypes
<1>2. ASSUME NEW r \in Repositories
      PROVE  x.usage[r] = [file_bytes |-> x.usage[r].file_bytes, accounted_bytes |-> x.usage[r].accounted_bytes,
                           projects |-> x.usage[r].projects]
  <2>1. x.usage[r] \in [file_bytes : Values, accounted_bytes : Values, projects : Values] BY <1>1
  <2> QED BY <2>1
<1>3. ASSUME NEW r \in Repositories, NEW p \in Projects
      PROVE  x.project[<<r, p>>] = [references |-> x.project[<<r, p>>].references, versions |-> x.project[<<r, p>>].versions]
  <2>1. x.project[<<r, p>>] \in [references : Values, versions : Values] BY <1>1
  <2> QED BY <2>1
<1>4. ASSUME NEW r \in Repositories, NEW d \in Digests
      PROVE  x.blob[<<r, d>>] = [bytes |-> x.blob[<<r, d>>].bytes, references |-> x.blob[<<r, d>>].references]
  <2>1. x.blob[<<r, d>>] \in [bytes : Nat, references : Values] BY <1>1
  <2> QED BY <2>1
<1>5. /\ x.usage = [r \in Repositories |-> x.usage[r]]
      /\ x.project = [k \in Repositories \X Projects |-> x.project[k]]
      /\ x.version = [k \in Repositories \X Projects \X Versions |-> x.version[k]]
      /\ x.blob = [k \in Repositories \X Digests |-> x.blob[k]]
  BY <1>1
<1> QED BY <1>1, <1>2, <1>3, <1>4, <1>5 DEF Tables, OuterShape, UsageShape, ProjectShape, BlobShape

LEMMA ProjectFields ==
    ASSUME NEW v, NEW a, NEW b, v = [references |-> a, versions |-> b]
    PROVE  v.references = a /\ v.versions = b /\ v = [references |-> v.references, versions |-> v.versions]
  OBVIOUS

LEMMA BlobFields ==
    ASSUME NEW v, NEW a, NEW b, v = [bytes |-> a, references |-> b]
    PROVE  v.references = b /\ v.bytes = a /\ v = [bytes |-> v.bytes, references |-> v.references]
  OBVIOUS

LEMMA CommittedUsage ==
    ASSUME NEW x \in RowTypes, NEW q \in Requests
    PROVE  UsageStep("commit", x, RowsCommitted(x, q), q) /\ UsageShape(RowsCommitted(x, q))
<1> DEFINE y == RowsCommitted(x, q)
           u == x.usage[q.repository]
           a == Moved(u.file_bytes, q.bytes)
           b == IF x.blob[BlobKey(q)].references.committed = 0 THEN Moved(u.accounted_bytes, q.bytes) ELSE u.accounted_bytes
           c == IF \E k \in ProjectKeys(q) : x.project[k].references.committed = 0 THEN Moved(u.projects, 1) ELSE u.projects
<1>0. q.repository \in Repositories /\ q.project \in Projects \cup {None} /\ None \notin Projects BY RequestTypes
<1>1. x.usage = [r \in Repositories |-> x.usage[r]] BY DEF RowTypes
<1>2. y.usage = [x.usage EXCEPT ![q.repository] = [file_bytes |-> a, accounted_bytes |-> b, projects |-> c]]
  BY DEF RowsCommitted
<1>3. a = ChargeAfter("commit", u.file_bytes, OwnCount("commit"), q.bytes) BY DEF ChargeAfter, OwnCount, OneHeld
<1>4. b = ChargeAfter("commit", u.accounted_bytes, x.blob[<<q.repository, q.digest>>].references, q.bytes)
  BY DEF ChargeAfter, BlobKey
<1>5. c = IF q.project = None THEN u.projects
          ELSE ChargeAfter("commit", u.projects, x.project[<<q.repository, q.project>>].references, 1)
  BY DEF ChargeAfter, ProjectKeys
<1> HIDE DEF a, b, c, y
<1>6. y.usage[q.repository] = [file_bytes |-> a, accounted_bytes |-> b, projects |-> c]
      /\ \A r \in Repositories : r # q.repository => y.usage[r] = x.usage[r]
  BY <1>0, <1>1, <1>2
<1>7. y.usage[q.repository].file_bytes = a /\ y.usage[q.repository].accounted_bytes = b /\ y.usage[q.repository].projects = c
  BY <1>6
<1>8. UsageStep("commit", x, y, q) BY <1>3, <1>4, <1>5, <1>6, <1>7 DEF UsageStep, u
<1>9. \A r \in Repositories : x.usage[r] \in [file_bytes : Values, accounted_bytes : Values, projects : Values]
  BY DEF RowTypes
<1>10. UsageShape(y) BY <1>6, <1>7, <1>9 DEF UsageShape
<1> QED BY <1>8, <1>10 DEF y

LEMMA CommittedRows ==
    ASSUME NEW x \in RowTypes, NEW q \in Requests,
           x.blob[<<q.repository, q.digest>>].bytes = q.bytes
    PROVE  /\ BlobStep("commit", x, RowsCommitted(x, q), q)
           /\ ProjectStep("commit", x, RowsCommitted(x, q), q)
           /\ VersionStep("commit", x, RowsCommitted(x, q), q)
           /\ Tables(RowsCommitted(x, q))
<1> DEFINE y == RowsCommitted(x, q)
<1>0. /\ q.repository \in Repositories /\ q.digest \in Digests /\ q.bytes \in Nat
      /\ q.project \in Projects \cup {None} /\ None \notin Projects
      /\ q.version \in Versions \cup {None} /\ None \notin Versions /\ (q.project = None => q.version = None)
  BY RequestTypes
<1>1. /\ DOMAIN x.project = Repositories \X Projects /\ DOMAIN x.version = Repositories \X Projects \X Versions
      /\ x.blob \in [Repositories \X Digests -> [bytes : Nat, references : Values]]
  BY DEF RowTypes
<1>2. ASSUME NEW r \in Repositories, NEW p \in Projects
      PROVE  y.project[<<r, p>>]
               = IF r = q.repository /\ p = q.project
                   THEN [references |-> Moved(x.project[<<r, p>>].references, 1),
                         versions   |-> IF q.version = None THEN x.project[<<r, p>>].versions
                                        ELSE ChargeAfter("commit", x.project[<<r, p>>].versions,
                                                     x.version[<<r, p, q.version>>], 1)]
                   ELSE x.project[<<r, p>>]
  <2>1. <<r, p>> \in Repositories \X Projects OBVIOUS
  <2>2. y.project[<<r, p>>]
          = IF <<r, p>> \notin ProjectKeys(q) THEN x.project[<<r, p>>]
            ELSE [references |-> Moved(x.project[<<r, p>>].references, 1),
                  versions   |-> IF \E l \in VersionKeys(q) : x.version[l].committed = 0
                                   THEN Moved(x.project[<<r, p>>].versions, 1) ELSE x.project[<<r, p>>].versions]
    BY <1>1, <2>1 DEF RowsCommitted
  <2>3. <<r, p>> \in ProjectKeys(q) =>
          (IF \E l \in VersionKeys(q) : x.version[l].committed = 0
             THEN Moved(x.project[<<r, p>>].versions, 1) ELSE x.project[<<r, p>>].versions)
          = IF q.version = None THEN x.project[<<r, p>>].versions
            ELSE ChargeAfter("commit", x.project[<<r, p>>].versions, x.version[<<r, p, q.version>>], 1)
    <3>1. <<r, p>> \in ProjectKeys(q) => r = q.repository /\ p = q.project BY KeysOfRequest
    <3>2. (\E l \in VersionKeys(q) : x.version[l].committed = 0)
            <=> q.version # None /\ x.version[<<q.repository, q.project, q.version>>].committed = 0
      BY DEF VersionKeys
    <3> QED BY <3>1, <3>2 DEF ChargeAfter
  <2> QED BY <2>2, <2>3, KeysOfRequest
<1>3. ASSUME NEW r \in Repositories, NEW p \in Projects, NEW e \in Versions
      PROVE  y.version[<<r, p, e>>] = IF r = q.repository /\ p = q.project /\ e = q.version
                                        THEN Moved(x.version[<<r, p, e>>], 1) ELSE x.version[<<r, p, e>>]
  <2>1. <<r, p, e>> \in Repositories \X Projects \X Versions OBVIOUS
  <2>2. y.version[<<r, p, e>>] = IF <<r, p, e>> \in VersionKeys(q) THEN Moved(x.version[<<r, p, e>>], 1)
                                 ELSE x.version[<<r, p, e>>]
    BY <1>1, <2>1 DEF RowsCommitted
  <2> QED BY <2>2, KeysOfRequest
<1>4. ASSUME NEW r \in Repositories, NEW d \in Digests
      PROVE  IF r = q.repository /\ d = q.digest
               THEN y.blob[<<r, d>>] = [bytes |-> x.blob[<<r, d>>].bytes, references |-> Moved(x.blob[<<r, d>>].references, 1)]
               ELSE y.blob[<<r, d>>] = x.blob[<<r, d>>]
  <2>1. <<r, d>> \in Repositories \X Digests /\ BlobKey(q) \in Repositories \X Digests BY <1>0 DEF BlobKey
  <2>2. y.blob = [x.blob EXCEPT ![BlobKey(q)].references = Moved(x.blob[BlobKey(q)].references, 1)] BY DEF RowsCommitted
  <2> HIDE DEF y
  <2>3. CASE <<r, d>> = BlobKey(q)
    <3> DEFINE k == BlobKey(q)
    <3> HIDE DEF k
    <3>1. k \in DOMAIN x.blob /\ x.blob[k] \in [bytes : Nat, references : Values] BY <1>1, <2>1 DEF k
    <3> DEFINE b == x.blob[k].bytes
               f == x.blob[k].references
               n == Moved(x.blob[k].references, 1)
    <3>2. x.blob[k] = [bytes |-> b, references |-> f] BY <3>1
    <3>3. y.blob[k] = [x.blob[k] EXCEPT !.references = n] BY <2>2, <3>1 DEF k
    <3> HIDE DEF b, f, n
    <3>4. y.blob[k] = [bytes |-> b, references |-> n] BY <3>2, <3>3
    <3> QED
      <4>1. r = q.repository /\ d = q.digest BY <2>3 DEF BlobKey
      <4> QED BY <2>3, <3>4, <4>1 DEF k, b, n
  <2>4. CASE <<r, d>> # BlobKey(q)
    <3>1. ~(r = q.repository /\ d = q.digest) BY <2>4 DEF BlobKey
    <3>2. y.blob[<<r, d>>] = x.blob[<<r, d>>] BY <1>1, <2>1, <2>2, <2>4
    <3> QED BY <3>1, <3>2
  <2> QED BY <2>3, <2>4
<1>5. \A a : CountAfter("commit", a) = Moved(a, 1) BY DEF CountAfter
<1>6. \A d \in Digests : x.blob[<<q.repository, d>>].bytes \in Nat BY <1>0, TypesOfRows
<1>a. OuterShape(y)
  <2>1. /\ DOMAIN x.usage = Repositories /\ DOMAIN x.blob = Repositories \X Digests BY DEF RowTypes
  <2>2. y = [usage |-> y.usage, project |-> y.project, version |-> y.version, blob |-> y.blob] BY DEF RowsCommitted
  <2>3. /\ y.project = [k \in Repositories \X Projects |-> y.project[k]]
        /\ y.version = [k \in Repositories \X Projects \X Versions |-> y.version[k]]
    BY <1>1 DEF RowsCommitted
  <2>4. y.usage = [r \in Repositories |-> y.usage[r]] BY <2>1 DEF RowsCommitted
  <2>5. y.blob = [k \in Repositories \X Digests |-> y.blob[k]] BY <2>1 DEF RowsCommitted
  <2> HIDE DEF y
  <2> QED BY <2>2, <2>3, <2>4, <2>5 DEF OuterShape
<1>b. UsageShape(y) BY CommittedUsage
<1>t. Tables(x) BY TablesFromTypes
<1> HIDE DEF y
<1>p. ASSUME NEW r \in Repositories, NEW p \in Projects
      PROVE  /\ y.project[<<r, p>>] = [references |-> y.project[<<r, p>>].references, versions |-> y.project[<<r, p>>].versions]
             /\ IF r = q.repository /\ p = q.project
                  THEN /\ y.project[<<r, p>>].references = CountAfter("commit", x.project[<<r, p>>].references)
                       /\ y.project[<<r, p>>].versions
                            = IF q.version = None THEN x.project[<<r, p>>].versions
                              ELSE ChargeAfter("commit", x.project[<<r, p>>].versions, x.version[<<r, p, q.version>>], 1)
                  ELSE y.project[<<r, p>>] = x.project[<<r, p>>]
  <2> DEFINE a == CountAfter("commit", x.project[<<r, p>>].references)
             b == IF q.version = None THEN x.project[<<r, p>>].versions
                  ELSE ChargeAfter("commit", x.project[<<r, p>>].versions, x.version[<<r, p, q.version>>], 1)
             v == y.project[<<r, p>>]
  <2>1. CASE r = q.repository /\ p = q.project
    <3>1. v = [references |-> a, versions |-> b] BY <1>2, <1>5, <2>1
    <3> HIDE DEF a, b, v
    <3>2. v.references = a /\ v.versions = b /\ v = [references |-> v.references, versions |-> v.versions]
      BY <3>1, ProjectFields
    <3> QED BY <2>1, <3>2 DEF a, b, v
  <2>2. CASE ~(r = q.repository /\ p = q.project)
    <3>1. v = x.project[<<r, p>>] BY <1>2, <2>2
    <3>2. x.project[<<r, p>>] = [references |-> x.project[<<r, p>>].references, versions |-> x.project[<<r, p>>].versions]
      BY <1>t DEF Tables, ProjectShape
    <3> QED BY <2>2, <3>1, <3>2
  <2> QED BY <2>1, <2>2
<1>f. ASSUME NEW r \in Repositories, NEW d \in Digests
      PROVE  /\ y.blob[<<r, d>>] = [bytes |-> y.blob[<<r, d>>].bytes, references |-> y.blob[<<r, d>>].references]
             /\ IF r = q.repository /\ d = q.digest
                  THEN /\ y.blob[<<r, d>>].references = CountAfter("commit", x.blob[<<r, d>>].references)
                       /\ y.blob[<<r, d>>].bytes = x.blob[<<r, d>>].bytes
                  ELSE y.blob[<<r, d>>] = x.blob[<<r, d>>]
  <2> DEFINE a == x.blob[<<r, d>>].bytes
             b == CountAfter("commit", x.blob[<<r, d>>].references)
             v == y.blob[<<r, d>>]
  <2>1. CASE r = q.repository /\ d = q.digest
    <3>1. v = [bytes |-> a, references |-> b] BY <1>4, <1>5, <2>1
    <3> HIDE DEF a, b, v
    <3>2. v.references = b /\ v.bytes = a /\ v = [bytes |-> v.bytes, references |-> v.references] BY <3>1, BlobFields
    <3> QED BY <2>1, <3>2 DEF a, b, v
  <2>2. CASE ~(r = q.repository /\ d = q.digest)
    <3>1. v = x.blob[<<r, d>>] BY <1>4, <2>2
    <3>2. x.blob[<<r, d>>] = [bytes |-> x.blob[<<r, d>>].bytes, references |-> x.blob[<<r, d>>].references]
      BY <1>t DEF Tables, BlobShape
    <3> QED BY <2>2, <3>1, <3>2
  <2> QED BY <2>1, <2>2
<1>c. ProjectShape(y) /\ BlobShape(y) BY <1>p, <1>f, Zenon DEF ProjectShape, BlobShape
<1>7. BlobStep("commit", x, y, q) BY <1>0, <1>f, <1>6 DEF BlobStep
<1>8. ProjectStep("commit", x, y, q) BY <1>p DEF ProjectStep
<1>9. VersionStep("commit", x, y, q)
  <2>1. ASSUME NEW r \in Repositories, NEW p \in Projects, NEW e \in Versions
        PROVE  y.version[<<r, p, e>>]
                 = IF r = q.repository /\ p = q.project /\ e = q.version THEN CountAfter("commit", x.version[<<r, p, e>>])
                   ELSE x.version[<<r, p, e>>]
    BY <1>3, <1>5
  <2> QED BY <2>1, Zenon DEF VersionStep
<1> QED BY <1>7, <1>8, <1>9, <1>a, <1>b, <1>c DEF y, Tables

LEMMA EmptyValue ==
    ASSUME NEW a \in Values, Total(a) = 0 PROVE a = Zero
<1>1. a = [committed |-> a.committed, reserved |-> a.reserved] /\ a.committed \in Nat /\ a.reserved \in Nat
  BY DEF Values
<1>2. a.committed = 0 /\ a.reserved = 0 BY <1>1 DEF Total
<1> QED BY <1>1, <1>2 DEF Zero

(* The rows a live reservation names can give up a reference. *)
LEMMA AbleAtKeys ==
    ASSUME NEW op \in Ops, NEW x, NEW rec, NEW rec2, NEW i, NEW q, Records(op, rec, rec2, i, q), References(x, rec)
    PROVE  /\ Able(op, x.blob[<<q.repository, q.digest>>].references)
           /\ q.project # None => Able(op, x.project[<<q.repository, q.project>>].references)
           /\ q.version # None => Able(op, x.version[<<q.repository, q.project, q.version>>])
<1>0. /\ q \in Requests /\ q.repository \in Repositories /\ q.digest \in Digests
      /\ q.project \in Projects \cup {None} /\ q.version \in Versions \cup {None}
      /\ q.project = None => q.version = None
  BY RequestTypes DEF Records
<1>1. Able(op, x.blob[<<q.repository, q.digest>>].references)
  <2>1. q \in OfBlob(q.repository, q.digest) BY <1>0 DEF OfBlob
  <2>2. Able(op, Count(rec, OfBlob(q.repository, q.digest))) BY <2>1, CountsFollow
  <2> QED BY <1>0, <2>2 DEF References
<1>2. ASSUME q.project # None PROVE Able(op, x.project[<<q.repository, q.project>>].references)
  <2>1. q \in OfProject(q.repository, q.project) BY <1>0 DEF OfProject
  <2>2. Able(op, Count(rec, OfProject(q.repository, q.project))) BY <2>1, CountsFollow
  <2> QED BY <1>0, <1>2, <2>2 DEF References
<1>3. ASSUME q.version # None PROVE Able(op, x.version[<<q.repository, q.project, q.version>>])
  <2>1. q \in OfVersion(q.repository, q.project, q.version) BY <1>0 DEF OfVersion
  <2>2. Able(op, Count(rec, OfVersion(q.repository, q.project, q.version))) BY <2>1, CountsFollow
  <2> QED BY <1>0, <1>3, <2>2 DEF References
<1> QED BY <1>1, <1>2, <1>3

LEMMA ReleasedUsage ==
    ASSUME NEW x \in RowTypes, NEW q \in Requests, NEW state \in LiveStates
    PROVE  UsageStep(state, x, RowsReleased(x, q, state), q) /\ UsageShape(RowsReleased(x, q, state))
<1> DEFINE y == RowsReleased(x, q, state)
           u == x.usage[q.repository]
           a == Minus(u.file_bytes, state, q.bytes)
           b == Rebalanced(u.accounted_bytes, Minus(x.blob[BlobKey(q)].references, state, 1), state, q.bytes)
           c == IF q.project = None THEN u.projects
                ELSE Rebalanced(u.projects, Minus(x.project[<<q.repository, q.project>>].references, state, 1), state, 1)
<1>0. q.repository \in Repositories /\ state \in Ops /\ state # "reserve" /\ state # "commit"
  BY RequestTypes DEF LiveStates, Ops
<1>1. x.usage = [r \in Repositories |-> x.usage[r]] BY DEF RowTypes
<1>2. y.usage = [x.usage EXCEPT ![q.repository] = [file_bytes |-> a, accounted_bytes |-> b, projects |-> c]]
  BY DEF RowsReleased
<1>3. a = ChargeAfter(state, u.file_bytes, OwnCount(state), q.bytes)
  <2>1. ChargeAfter(state, u.file_bytes, OwnCount(state), q.bytes) = Rebalanced(u.file_bytes, Minus(OwnCount(state), state, 1), state, q.bytes)
    BY <1>0 DEF ChargeAfter
  <2>2. CountAfter(state, OwnCount(state)) = Minus(OwnCount(state), state, 1) BY <1>0 DEF CountAfter
  <2>3. Total(Minus(OwnCount(state), state, 1)) = 0 BY <1>0, <2>2, OwnMoves
  <2> QED BY <2>1, <2>3 DEF Rebalanced
<1>4. b = ChargeAfter(state, u.accounted_bytes, x.blob[<<q.repository, q.digest>>].references, q.bytes)
  BY <1>0 DEF ChargeAfter, BlobKey
<1>5. c = IF q.project = None THEN u.projects
          ELSE ChargeAfter(state, u.projects, x.project[<<q.repository, q.project>>].references, 1)
  BY <1>0 DEF ChargeAfter
<1> HIDE DEF a, b, c, y
<1>6. y.usage[q.repository] = [file_bytes |-> a, accounted_bytes |-> b, projects |-> c]
      /\ \A r \in Repositories : r # q.repository => y.usage[r] = x.usage[r]
  BY <1>0, <1>1, <1>2
<1>7. y.usage[q.repository].file_bytes = a /\ y.usage[q.repository].accounted_bytes = b /\ y.usage[q.repository].projects = c
  BY <1>6
<1>8. UsageStep(state, x, y, q) BY <1>3, <1>4, <1>5, <1>6, <1>7 DEF UsageStep, u
<1>9. \A r \in Repositories : x.usage[r] \in [file_bytes : Values, accounted_bytes : Values, projects : Values]
  BY DEF RowTypes
<1>10. UsageShape(y) BY <1>6, <1>7, <1>9 DEF UsageShape
<1> QED BY <1>8, <1>10 DEF y

LEMMA ReleasedRows ==
    ASSUME NEW x \in RowTypes, NEW q \in Requests, NEW state \in LiveStates,
           x.blob[<<q.repository, q.digest>>].bytes = q.bytes,
           Able(state, x.blob[<<q.repository, q.digest>>].references),
           q.project # None => Able(state, x.project[<<q.repository, q.project>>].references)
    PROVE  Stepped(state, x, RowsReleased(x, q, state), q)
<1> DEFINE y == RowsReleased(x, q, state)
<1>0. /\ q.repository \in Repositories /\ q.digest \in Digests /\ q.bytes \in Nat
      /\ q.project \in Projects \cup {None} /\ None \notin Projects
      /\ q.version \in Versions \cup {None} /\ None \notin Versions /\ (q.project = None => q.version = None)
      /\ state \in Ops /\ state # "reserve" /\ state # "commit"
  BY RequestTypes DEF LiveStates, Ops
<1>1. /\ DOMAIN x.project = Repositories \X Projects /\ DOMAIN x.version = Repositories \X Projects \X Versions
      /\ x.blob \in [Repositories \X Digests -> [bytes : Nat, references : Values]]
  BY DEF RowTypes
<1>t. Tables(x) BY TablesFromTypes
<1>5. \A a : CountAfter(state, a) = Minus(a, state, 1) BY <1>0 DEF CountAfter
<1>p. ASSUME NEW r \in Repositories, NEW p \in Projects
      PROVE  /\ y.project[<<r, p>>] = [references |-> y.project[<<r, p>>].references, versions |-> y.project[<<r, p>>].versions]
             /\ IF r = q.repository /\ p = q.project
                  THEN /\ y.project[<<r, p>>].references = CountAfter(state, x.project[<<r, p>>].references)
                       /\ \/ y.project[<<r, p>>].versions
                               = IF q.version = None THEN x.project[<<r, p>>].versions
                                 ELSE ChargeAfter(state, x.project[<<r, p>>].versions, x.version[<<r, p, q.version>>], 1)
                          \/ /\ Total(y.project[<<r, p>>].references) = 0
                             /\ y.project[<<r, p>>].versions = Zero
                  ELSE y.project[<<r, p>>] = x.project[<<r, p>>]
  <2> DEFINE a == CountAfter(state, x.project[<<r, p>>].references)
             b == IF q.version = None THEN x.project[<<r, p>>].versions
                  ELSE ChargeAfter(state, x.project[<<r, p>>].versions, x.version[<<r, p, q.version>>], 1)
             v == y.project[<<r, p>>]
  <2>0. <<r, p>> \in DOMAIN x.project BY <1>1
  <2>1. CASE r = q.repository /\ p = q.project
    <3>0. <<r, p>> \in ProjectKeys(q) BY <2>1, KeysOfRequest
    <3>1. v = IF Total(a) = 0 THEN NoProject ELSE [references |-> a, versions |-> b]
      BY <1>0, <1>5, <2>0, <2>1, <3>0 DEF RowsReleased, ChargeAfter
    <3>2. a \in Values
      <4>1. x.project[<<r, p>>].references \in Values /\ Able(state, x.project[<<r, p>>].references)
        BY <1>0, <2>1, TypesOfRows
      <4> QED BY <1>0, <4>1, CountMoves
    <3>3. NoProject = [references |-> Zero, versions |-> Zero] BY DEF NoProject
    <3> HIDE DEF a, b, v
    <3>4. CASE Total(a) = 0
      <4>1. a = Zero BY <3>2, <3>4, EmptyValue
      <4>2. v.references = Zero /\ v.versions = Zero /\ v = [references |-> v.references, versions |-> v.versions]
        BY <3>1, <3>3, <3>4, ProjectFields
      <4>3. v.references = a /\ Total(v.references) = 0 /\ v.versions = Zero BY <3>4, <4>1, <4>2
      <4> QED BY <2>1, <4>2, <4>3 DEF a, v
    <3>5. CASE Total(a) # 0
      <4>1. v.references = a /\ v.versions = b /\ v = [references |-> v.references, versions |-> v.versions]
        BY <3>1, <3>5, ProjectFields
      <4> QED BY <2>1, <4>1 DEF a, b, v
    <3> QED BY <3>4, <3>5
  <2>2. CASE ~(r = q.repository /\ p = q.project)
    <3>0. <<r, p>> \notin ProjectKeys(q) BY <2>2, KeysOfRequest
    <3>1. v = x.project[<<r, p>>] BY <2>0, <3>0 DEF RowsReleased
    <3>2. x.project[<<r, p>>] = [references |-> x.project[<<r, p>>].references, versions |-> x.project[<<r, p>>].versions]
      BY <1>t DEF Tables, ProjectShape
    <3> QED BY <2>2, <3>1, <3>2
  <2> QED BY <2>1, <2>2
<1>3. ASSUME NEW r \in Repositories, NEW p \in Projects, NEW e \in Versions
      PROVE  y.version[<<r, p, e>>]
               = IF r = q.repository /\ p = q.project /\ e = q.version THEN CountAfter(state, x.version[<<r, p, e>>])
                 ELSE x.version[<<r, p, e>>]
  <2>1. <<r, p, e>> \in Repositories \X Projects \X Versions OBVIOUS
  <2>2. y.version[<<r, p, e>>] = IF <<r, p, e>> \in VersionKeys(q) THEN Minus(x.version[<<r, p, e>>], state, 1)
                                 ELSE x.version[<<r, p, e>>]
    BY <1>1, <2>1 DEF RowsReleased
  <2> QED BY <1>5, <2>2, KeysOfRequest
<1>f. ASSUME NEW r \in Repositories, NEW d \in Digests
      PROVE  /\ y.blob[<<r, d>>] = [bytes |-> y.blob[<<r, d>>].bytes, references |-> y.blob[<<r, d>>].references]
             /\ IF r = q.repository /\ d = q.digest
                  THEN /\ y.blob[<<r, d>>].references = CountAfter(state, x.blob[<<r, d>>].references)
                       /\ y.blob[<<r, d>>].bytes \in Nat
                       /\ Total(y.blob[<<r, d>>].references) # 0 => y.blob[<<r, d>>].bytes = q.bytes
                  ELSE y.blob[<<r, d>>] = x.blob[<<r, d>>]
  <2>1. <<r, d>> \in Repositories \X Digests /\ BlobKey(q) \in Repositories \X Digests BY <1>0 DEF BlobKey
  <2> DEFINE k == BlobKey(q)
             b == CountAfter(state, x.blob[k].references)
             new == IF Total(b) = 0 THEN NoBlob ELSE [x.blob[k] EXCEPT !.references = b]
             v == y.blob[<<r, d>>]
  <2>2. y.blob = [x.blob EXCEPT ![k] = new] BY <1>5 DEF RowsReleased
  <2>3. CASE r = q.repository /\ d = q.digest
    <3>0. k = <<r, d>> BY <2>3 DEF BlobKey
    <3>1. x.blob[k].references \in Values /\ x.blob[k].bytes = q.bytes /\ Able(state, x.blob[k].references)
      BY <2>3, <3>0, TypesOfRows
    <3>2. b \in Values BY <1>0, <3>1, CountMoves
    <3>3. v = new
      <4> HIDE DEF new, k, y
      <4> QED BY <1>1, <2>1, <2>2, <3>0 DEF k
    <3>4. x.blob[k] = [bytes |-> q.bytes, references |-> x.blob[k].references]
      <4>1. x.blob[k] = [bytes |-> x.blob[k].bytes, references |-> x.blob[k].references]
        BY <1>t, <3>0 DEF Tables, BlobShape
      <4> QED BY <3>1, <4>1
    <3>5. [x.blob[k] EXCEPT !.references = b] = [bytes |-> q.bytes, references |-> b]
      <4> DEFINE f == x.blob[k].references
      <4>1. x.blob[k] = [bytes |-> q.bytes, references |-> f] BY <3>4
      <4> HIDE DEF f, b, k
      <4> QED BY <4>1
    <3>6. v = IF Total(b) = 0 THEN NoBlob ELSE [bytes |-> q.bytes, references |-> b] BY <3>3, <3>5
    <3>7. NoBlob = [bytes |-> 0, references |-> Zero] BY DEF NoBlob
    <3>b. b = CountAfter(state, x.blob[<<r, d>>].references) BY <3>0
    <3> HIDE DEF b, v, new, k
    <3>8. CASE Total(b) = 0
      <4>1. b = Zero BY <3>2, <3>8, EmptyValue
      <4>2. v.references = Zero /\ v.bytes = 0 /\ v = [bytes |-> v.bytes, references |-> v.references]
        BY <3>6, <3>7, <3>8, BlobFields
      <4> QED BY <2>3, <3>8, <3>b, <4>1, <4>2 DEF v
    <3>9. CASE Total(b) # 0
      <4>1. v.references = b /\ v.bytes = q.bytes /\ v = [bytes |-> v.bytes, references |-> v.references]
        BY <3>6, <3>9, BlobFields
      <4> QED BY <1>0, <2>3, <3>b, <4>1 DEF v
    <3> QED BY <3>8, <3>9
  <2>4. CASE ~(r = q.repository /\ d = q.digest)
    <3>0. k # <<r, d>> BY <2>4 DEF BlobKey
    <3>1. v = x.blob[<<r, d>>]
      <4> HIDE DEF new, k, y
      <4> QED BY <1>1, <2>1, <2>2, <3>0
    <3>2. x.blob[<<r, d>>] = [bytes |-> x.blob[<<r, d>>].bytes, references |-> x.blob[<<r, d>>].references]
      BY <1>t DEF Tables, BlobShape
    <3> QED BY <2>4, <3>1, <3>2
  <2> QED BY <2>3, <2>4
<1>a. OuterShape(y)
  <2>1. /\ DOMAIN x.usage = Repositories /\ DOMAIN x.blob = Repositories \X Digests BY DEF RowTypes
  <2>2. y = [usage |-> y.usage, project |-> y.project, version |-> y.version, blob |-> y.blob] BY DEF RowsReleased
  <2>3. /\ y.project = [k \in Repositories \X Projects |-> y.project[k]]
        /\ y.version = [k \in Repositories \X Projects \X Versions |-> y.version[k]]
    BY <1>1 DEF RowsReleased
  <2>4. y.usage = [r \in Repositories |-> y.usage[r]] BY <2>1 DEF RowsReleased
  <2>5. y.blob = [k \in Repositories \X Digests |-> y.blob[k]] BY <2>1 DEF RowsReleased
  <2> HIDE DEF y
  <2> QED BY <2>2, <2>3, <2>4, <2>5 DEF OuterShape
<1>b. UsageStep(state, x, y, q) /\ UsageShape(y) BY ReleasedUsage
<1> HIDE DEF y
<1>c. ProjectShape(y) /\ BlobShape(y) BY <1>p, <1>f, Zenon DEF ProjectShape, BlobShape
<1>7. BlobStep(state, x, y, q) BY <1>f DEF BlobStep
<1>8. ProjectStep(state, x, y, q) BY <1>p DEF ProjectStep
<1>9. VersionStep(state, x, y, q) BY <1>3, Zenon DEF VersionStep
<1> QED BY <1>7, <1>8, <1>9, <1>a, <1>b, <1>c DEF y, Tables, Stepped

LEMMA ReservedUsage ==
    ASSUME rows \in RowTypes, NEW q \in Requests
    PROVE  UsageStep("reserve", rows, RowsReserved(q), q) /\ UsageShape(RowsReserved(q))
<1> DEFINE y == RowsReserved(q)
           u == rows.usage[q.repository]
           a == Plus(u.file_bytes, "reserved", q.bytes)
           b == IF AddsBytes(q) THEN Plus(u.accounted_bytes, "reserved", q.bytes) ELSE u.accounted_bytes
           c == IF AddsProject(q) THEN Plus(u.projects, "reserved", 1) ELSE u.projects
<1>0. q.repository \in Repositories BY RequestTypes
<1>1. rows.usage = [r \in Repositories |-> rows.usage[r]] BY DEF RowTypes
<1>2. y.usage = [rows.usage EXCEPT ![q.repository] = [file_bytes |-> a, accounted_bytes |-> b, projects |-> c]]
  BY DEF RowsReserved
<1>3. a = ChargeAfter("reserve", u.file_bytes, OwnCount("reserve"), q.bytes) BY OwnMoves DEF ChargeAfter, Ops
<1>4. b = ChargeAfter("reserve", u.accounted_bytes, rows.blob[<<q.repository, q.digest>>].references, q.bytes)
  BY DEF ChargeAfter, BlobKey, AddsBytes
<1>5. c = IF q.project = None THEN u.projects
          ELSE ChargeAfter("reserve", u.projects, rows.project[<<q.repository, q.project>>].references, 1)
  BY DEF ChargeAfter, AddsProject, ProjectKeys
<1> HIDE DEF a, b, c, y
<1>6. y.usage[q.repository] = [file_bytes |-> a, accounted_bytes |-> b, projects |-> c]
      /\ \A r \in Repositories : r # q.repository => y.usage[r] = rows.usage[r]
  BY <1>0, <1>1, <1>2
<1>7. y.usage[q.repository].file_bytes = a /\ y.usage[q.repository].accounted_bytes = b /\ y.usage[q.repository].projects = c
  BY <1>6
<1>8. UsageStep("reserve", rows, y, q) BY <1>3, <1>4, <1>5, <1>6, <1>7 DEF UsageStep, u
<1>9. \A r \in Repositories : rows.usage[r] \in [file_bytes : Values, accounted_bytes : Values, projects : Values]
  BY DEF RowTypes
<1>10. UsageShape(y) BY <1>6, <1>7, <1>9 DEF UsageShape
<1> QED BY <1>8, <1>10 DEF y

LEMMA ReservedRows ==
    ASSUME rows \in RowTypes, NEW q \in Requests
    PROVE  Stepped("reserve", rows, RowsReserved(q), q)
<1> DEFINE y == RowsReserved(q)
<1>0. /\ q.repository \in Repositories /\ q.digest \in Digests /\ q.bytes \in Nat
      /\ q.project \in Projects \cup {None} /\ None \notin Projects
      /\ q.version \in Versions \cup {None} /\ None \notin Versions /\ (q.project = None => q.version = None)
  BY RequestTypes
<1>1. /\ DOMAIN rows.project = Repositories \X Projects /\ DOMAIN rows.version = Repositories \X Projects \X Versions
      /\ rows.blob \in [Repositories \X Digests -> [bytes : Nat, references : Values]]
  BY DEF RowTypes
<1>t. Tables(rows) BY TablesFromTypes
<1>5. \A a : CountAfter("reserve", a) = Plus(a, "reserved", 1) BY DEF CountAfter
<1>p. ASSUME NEW r \in Repositories, NEW p \in Projects
      PROVE  /\ y.project[<<r, p>>] = [references |-> y.project[<<r, p>>].references, versions |-> y.project[<<r, p>>].versions]
             /\ IF r = q.repository /\ p = q.project
                  THEN /\ y.project[<<r, p>>].references = CountAfter("reserve", rows.project[<<r, p>>].references)
                       /\ y.project[<<r, p>>].versions
                            = IF q.version = None THEN rows.project[<<r, p>>].versions
                              ELSE ChargeAfter("reserve", rows.project[<<r, p>>].versions, rows.version[<<r, p, q.version>>], 1)
                  ELSE y.project[<<r, p>>] = rows.project[<<r, p>>]
  <2> DEFINE a == CountAfter("reserve", rows.project[<<r, p>>].references)
             b == IF q.version = None THEN rows.project[<<r, p>>].versions
                  ELSE ChargeAfter("reserve", rows.project[<<r, p>>].versions, rows.version[<<r, p, q.version>>], 1)
             v == y.project[<<r, p>>]
  <2>0. <<r, p>> \in DOMAIN rows.project BY <1>1
  <2>1. CASE r = q.repository /\ p = q.project
    <3>0. <<r, p>> \in ProjectKeys(q) BY <2>1, KeysOfRequest
    <3>v. b = IF AddsVersion(q) THEN Plus(rows.project[<<r, p>>].versions, "reserved", 1) ELSE rows.project[<<r, p>>].versions
      BY <2>1 DEF ChargeAfter, AddsVersion, VersionKeys
    <3>1. v = [references |-> a, versions |-> b]
      <4> HIDE DEF b
      <4>1. v = [references |-> a, versions |-> IF AddsVersion(q) THEN Plus(rows.project[<<r, p>>].versions, "reserved", 1)
                                                ELSE rows.project[<<r, p>>].versions]
        BY <1>5, <2>0, <3>0 DEF RowsReserved
      <4> QED BY <3>v, <4>1
    <3> HIDE DEF a, b, v
    <3>2. v.references = a /\ v.versions = b /\ v = [references |-> v.references, versions |-> v.versions]
      BY <3>1, ProjectFields
    <3> QED BY <2>1, <3>2 DEF a, b, v
  <2>2. CASE ~(r = q.repository /\ p = q.project)
    <3>0. <<r, p>> \notin ProjectKeys(q) BY <2>2, KeysOfRequest
    <3>1. v = rows.project[<<r, p>>] BY <2>0, <3>0 DEF RowsReserved
    <3>2. rows.project[<<r, p>>] = [references |-> rows.project[<<r, p>>].references, versions |-> rows.project[<<r, p>>].versions]
      BY <1>t DEF Tables, ProjectShape
    <3> QED BY <2>2, <3>1, <3>2
  <2> QED BY <2>1, <2>2
<1>3. ASSUME NEW r \in Repositories, NEW p \in Projects, NEW e \in Versions
      PROVE  y.version[<<r, p, e>>]
               = IF r = q.repository /\ p = q.project /\ e = q.version THEN CountAfter("reserve", rows.version[<<r, p, e>>])
                 ELSE rows.version[<<r, p, e>>]
  <2>1. <<r, p, e>> \in Repositories \X Projects \X Versions OBVIOUS
  <2>2. y.version[<<r, p, e>>] = IF <<r, p, e>> \in VersionKeys(q) THEN Plus(rows.version[<<r, p, e>>], "reserved", 1)
                                 ELSE rows.version[<<r, p, e>>]
    BY <1>1, <2>1 DEF RowsReserved
  <2> QED BY <1>5, <2>2, KeysOfRequest
<1>f. ASSUME NEW r \in Repositories, NEW d \in Digests
      PROVE  /\ y.blob[<<r, d>>] = [bytes |-> y.blob[<<r, d>>].bytes, references |-> y.blob[<<r, d>>].references]
             /\ IF r = q.repository /\ d = q.digest
                  THEN /\ y.blob[<<r, d>>].references = CountAfter("reserve", rows.blob[<<r, d>>].references)
                       /\ y.blob[<<r, d>>].bytes = q.bytes
                  ELSE y.blob[<<r, d>>] = rows.blob[<<r, d>>]
  <2>1. <<r, d>> \in Repositories \X Digests /\ BlobKey(q) \in Repositories \X Digests BY <1>0 DEF BlobKey
  <2> DEFINE k == BlobKey(q)
             b == CountAfter("reserve", rows.blob[k].references)
             new == [bytes |-> q.bytes, references |-> b]
             v == y.blob[<<r, d>>]
  <2>2. y.blob = [rows.blob EXCEPT ![k] = new] BY <1>5 DEF RowsReserved
  <2>3. CASE r = q.repository /\ d = q.digest
    <3>0. k = <<r, d>> BY <2>3 DEF BlobKey
    <3>3. v = new
      <4> HIDE DEF new, k, y
      <4> QED BY <1>1, <2>1, <2>2, <3>0 DEF k
    <3>b. b = CountAfter("reserve", rows.blob[<<r, d>>].references) BY <3>0
    <3>4. v = [bytes |-> q.bytes, references |-> b] BY <3>3
    <3> HIDE DEF b, v, new, k
    <3>5. v.references = b /\ v.bytes = q.bytes /\ v = [bytes |-> v.bytes, references |-> v.references]
      BY <3>4, BlobFields
    <3> QED BY <2>3, <3>b, <3>5 DEF v
  <2>4. CASE ~(r = q.repository /\ d = q.digest)
    <3>0. k # <<r, d>> BY <2>4 DEF BlobKey
    <3>1. v = rows.blob[<<r, d>>]
      <4> HIDE DEF new, k, y
      <4> QED BY <1>1, <2>1, <2>2, <3>0
    <3>2. rows.blob[<<r, d>>] = [bytes |-> rows.blob[<<r, d>>].bytes, references |-> rows.blob[<<r, d>>].references]
      BY <1>t DEF Tables, BlobShape
    <3> QED BY <2>4, <3>1, <3>2
  <2> QED BY <2>3, <2>4
<1>a. OuterShape(y)
  <2>1. /\ DOMAIN rows.usage = Repositories /\ DOMAIN rows.blob = Repositories \X Digests BY DEF RowTypes
  <2>2. y = [usage |-> y.usage, project |-> y.project, version |-> y.version, blob |-> y.blob] BY DEF RowsReserved
  <2>3. /\ y.project = [k \in Repositories \X Projects |-> y.project[k]]
        /\ y.version = [k \in Repositories \X Projects \X Versions |-> y.version[k]]
    BY <1>1 DEF RowsReserved
  <2>4. y.usage = [r \in Repositories |-> y.usage[r]] BY <2>1 DEF RowsReserved
  <2>5. y.blob = [k \in Repositories \X Digests |-> y.blob[k]] BY <2>1 DEF RowsReserved
  <2> HIDE DEF y
  <2> QED BY <2>2, <2>3, <2>4, <2>5 DEF OuterShape
<1>b. UsageStep("reserve", rows, y, q) /\ UsageShape(y) BY ReservedUsage
<1> HIDE DEF y
<1>c. ProjectShape(y) /\ BlobShape(y) BY <1>p, <1>f, Zenon DEF ProjectShape, BlobShape
<1>7. BlobStep("reserve", rows, y, q) BY <1>0, <1>f DEF BlobStep
<1>8. ProjectStep("reserve", rows, y, q) BY <1>p DEF ProjectStep
<1>9. VersionStep("reserve", rows, y, q) BY <1>3, Zenon DEF VersionStep
<1> QED BY <1>7, <1>8, <1>9, <1>a, <1>b, <1>c DEF y, Tables, Stepped

LEMMA TotalOfPlus ==
    ASSUME NEW v \in Values, NEW n \in Nat
    PROVE  Total(Plus(v, "reserved", n)) = Total(v) + n
<1>1. Plus(v, "reserved", n) = [committed |-> v.committed, reserved |-> v.reserved + n] /\ v.committed \in Nat /\ v.reserved \in Nat
  BY ValueForms
<1> QED BY <1>1 DEF Total

(* What the admission checked: no total will exceed the largest counter. *)
LEMMA ReservedBounds ==
    ASSUME rows \in RowTypes, Bounded(rows), NEW q \in Requests, TotalsFit(q),
           NEW y, Stepped("reserve", rows, y, q)
    PROVE  Bounded(y)
<1>0. /\ q.repository \in Repositories /\ q.digest \in Digests /\ q.bytes \in Nat /\ 1 \in Nat
      /\ q.project \in Projects \cup {None} /\ None \notin Projects
      /\ q.version \in Versions \cup {None} /\ None \notin Versions /\ (q.project = None => q.version = None)
  BY RequestTypes
<1>5. \A a : CountAfter("reserve", a) = Plus(a, "reserved", 1) BY DEF CountAfter
<1>6. \A v, a, n : ChargeAfter("reserve", v, a, n) = IF Total(a) = 0 THEN Plus(v, "reserved", n) ELSE v
  BY DEF ChargeAfter
<1>7. /\ UsageStep("reserve", rows, y, q) /\ BlobStep("reserve", rows, y, q)
      /\ ProjectStep("reserve", rows, y, q) /\ VersionStep("reserve", rows, y, q)
  BY DEF Stepped
<1>8. ASSUME NEW r \in Repositories
      PROVE  /\ Total(y.usage[r].file_bytes) <= MaxCount
             /\ Total(y.usage[r].accounted_bytes) <= MaxCount
             /\ Total(y.usage[r].projects) <= MaxCount
  <2>1. /\ Total(rows.usage[r].file_bytes) <= MaxCount
        /\ Total(rows.usage[r].accounted_bytes) <= MaxCount
        /\ Total(rows.usage[r].projects) <= MaxCount
    BY DEF Bounded
  <2>2. rows.usage[r].file_bytes \in Values /\ rows.usage[r].accounted_bytes \in Values /\ rows.usage[r].projects \in Values
    BY TypesOfRows
  <2>3. CASE r = q.repository
    <3>1. /\ Total(rows.usage[r].file_bytes) + q.bytes <= MaxCount
          /\ AddsBytes(q) => Total(rows.usage[r].accounted_bytes) + q.bytes <= MaxCount
          /\ AddsProject(q) => Total(rows.usage[r].projects) + 1 <= MaxCount
      BY <2>3 DEF TotalsFit
    <3>u. /\ y.usage[r].file_bytes = ChargeAfter("reserve", rows.usage[r].file_bytes, OwnCount("reserve"), q.bytes)
          /\ y.usage[r].accounted_bytes
               = ChargeAfter("reserve", rows.usage[r].accounted_bytes, rows.blob[<<r, q.digest>>].references, q.bytes)
          /\ y.usage[r].projects
               = IF q.project = None THEN rows.usage[r].projects
                 ELSE ChargeAfter("reserve", rows.usage[r].projects, rows.project[<<r, q.project>>].references, 1)
      BY <1>7, <2>3 DEF UsageStep
    <3>2. y.usage[r].file_bytes = Plus(rows.usage[r].file_bytes, "reserved", q.bytes)
      <4>1. Total(OwnCount("reserve")) = 0 BY OwnMoves DEF Ops
      <4> QED BY <3>u, <4>1 DEF ChargeAfter
    <3>3. y.usage[r].accounted_bytes = IF AddsBytes(q) THEN Plus(rows.usage[r].accounted_bytes, "reserved", q.bytes)
                                       ELSE rows.usage[r].accounted_bytes
      BY <2>3, <3>u DEF ChargeAfter, AddsBytes, BlobKey
    <3>4. y.usage[r].projects = IF AddsProject(q) THEN Plus(rows.usage[r].projects, "reserved", 1) ELSE rows.usage[r].projects
      BY <2>3, <3>u DEF ChargeAfter, AddsProject, ProjectKeys
    <3> QED BY <1>0, <2>1, <2>2, <3>1, <3>2, <3>3, <3>4, TotalOfPlus
  <2>4. CASE r # q.repository BY <1>7, <2>1, <2>4 DEF UsageStep
  <2> QED BY <2>3, <2>4
<1>9. ASSUME NEW r \in Repositories, NEW d \in Digests PROVE Total(y.blob[<<r, d>>].references) <= MaxCount
  <2>1. Total(rows.blob[<<r, d>>].references) <= MaxCount /\ rows.blob[<<r, d>>].references \in Values
    BY TypesOfRows DEF Bounded
  <2>2. CASE r = q.repository /\ d = q.digest
    <3>1. Total(rows.blob[<<r, d>>].references) + 1 <= MaxCount BY <2>2 DEF TotalsFit, BlobKey
    <3>2. y.blob[<<r, d>>].references = Plus(rows.blob[<<r, d>>].references, "reserved", 1)
      BY <1>5, <1>7, <2>2 DEF BlobStep
    <3> QED BY <1>0, <2>1, <3>1, <3>2, TotalOfPlus
  <2>3. CASE ~(r = q.repository /\ d = q.digest) BY <1>7, <2>1, <2>3 DEF BlobStep
  <2> QED BY <2>2, <2>3
<1>10. ASSUME NEW r \in Repositories, NEW p \in Projects
       PROVE  Total(y.project[<<r, p>>].references) <= MaxCount /\ Total(y.project[<<r, p>>].versions) <= MaxCount
  <2>1. /\ Total(rows.project[<<r, p>>].references) <= MaxCount /\ rows.project[<<r, p>>].references \in Values
        /\ Total(rows.project[<<r, p>>].versions) <= MaxCount /\ rows.project[<<r, p>>].versions \in Values
    BY TypesOfRows DEF Bounded
  <2>2. CASE r = q.repository /\ p = q.project
    <3>0. <<r, p>> \in ProjectKeys(q) BY <2>2, KeysOfRequest
    <3>1. /\ Total(rows.project[<<r, p>>].references) + 1 <= MaxCount
          /\ AddsVersion(q) => Total(rows.project[<<r, p>>].versions) + 1 <= MaxCount
      BY <3>0 DEF TotalsFit
    <3>2. y.project[<<r, p>>].references = Plus(rows.project[<<r, p>>].references, "reserved", 1)
      BY <1>5, <1>7, <2>2 DEF ProjectStep
    <3>3. \/ y.project[<<r, p>>].versions
               = IF q.version = None THEN rows.project[<<r, p>>].versions
                 ELSE ChargeAfter("reserve", rows.project[<<r, p>>].versions, rows.version[<<r, p, q.version>>], 1)
          \/ y.project[<<r, p>>].versions = Zero
      BY <1>7, <2>2 DEF ProjectStep
    <3>4. (IF q.version = None THEN rows.project[<<r, p>>].versions
           ELSE ChargeAfter("reserve", rows.project[<<r, p>>].versions, rows.version[<<r, p, q.version>>], 1))
          = IF AddsVersion(q) THEN Plus(rows.project[<<r, p>>].versions, "reserved", 1) ELSE rows.project[<<r, p>>].versions
      BY <1>6, <2>2 DEF AddsVersion, VersionKeys
    <3>5. Total(Zero) = 0 /\ 0 <= MaxCount BY CountAssumption DEF Zero, Total
    <3>6. Total(y.project[<<r, p>>].references) <= MaxCount BY <1>0, <2>1, <3>1, <3>2, TotalOfPlus
    <3>7. Total(y.project[<<r, p>>].versions) <= MaxCount BY <1>0, <2>1, <3>1, <3>3, <3>4, <3>5, TotalOfPlus
    <3> QED BY <3>6, <3>7
  <2>3. CASE ~(r = q.repository /\ p = q.project) BY <1>7, <2>1, <2>3 DEF ProjectStep
  <2> QED BY <2>2, <2>3
<1>11. ASSUME NEW r \in Repositories, NEW p \in Projects, NEW e \in Versions
       PROVE  Total(y.version[<<r, p, e>>]) <= MaxCount
  <2>1. Total(rows.version[<<r, p, e>>]) <= MaxCount /\ rows.version[<<r, p, e>>] \in Values BY TypesOfRows DEF Bounded
  <2>2. CASE r = q.repository /\ p = q.project /\ e = q.version
    <3>1. Total(rows.version[<<r, p, e>>]) + 1 <= MaxCount BY <2>2, KeysOfRequest DEF TotalsFit
    <3>2. y.version[<<r, p, e>>] = Plus(rows.version[<<r, p, e>>], "reserved", 1) BY <1>5, <1>7, <2>2 DEF VersionStep
    <3> QED BY <1>0, <2>1, <3>1, <3>2, TotalOfPlus
  <2>3. CASE ~(r = q.repository /\ p = q.project /\ e = q.version)
    <3>1. y.version[<<r, p, e>>] = rows.version[<<r, p, e>>] BY <1>7, <2>3 DEF VersionStep
    <3> QED BY <2>1, <3>1
  <2> QED BY <2>2, <2>3
<1> QED BY <1>8, <1>9, <1>10, <1>11 DEF Bounded

--------------------------------
(* Each operation, and the chain of releases of a repair. *)

LEMMA DeadRecords ==
    /\ Ledger!Gone.state \notin LiveStates /\ Ledger!Unused.state \notin LiveStates
    /\ \A v \in LiveRecords : v.state \in LiveStates /\ v.request \in Requests
    /\ LiveStates \subseteq Ops
  BY DEF Ledger!Gone, Ledger!Unused, LiveStates, LiveRecords, Ops

(* A row that a live reservation names holds its size. *)
LEMMA ReleaseIsSound ==
    ASSUME NEW x, NEW rec, RowsSound(x, rec), RecordIsSound(rec), NEW rec2, RecordIsSound(rec2),
           NEW state \in LiveStates, NEW i, NEW q, Records(state, rec, rec2, i, q)
    PROVE  RowsSound(RowsReleased(x, q, state), rec2)
<1>0. /\ q \in Requests /\ i \in Ids /\ x \in RowTypes /\ References(x, rec) /\ SizesAgree(x, rec) /\ state \in Ops
      /\ rec[i].request = q /\ rec[i].state = state /\ state # "reserve"
  BY DEF Records, RowsSound, LiveStates, Ops
<1>1. x.blob[<<q.repository, q.digest>>].bytes = q.bytes BY <1>0 DEF SizesAgree, BlobKey
<1>2. /\ Able(state, x.blob[<<q.repository, q.digest>>].references)
      /\ q.project # None => Able(state, x.project[<<q.repository, q.project>>].references)
  BY <1>0, AbleAtKeys
<1>3. Stepped(state, x, RowsReleased(x, q, state), q) BY <1>0, <1>1, <1>2, ReleasedRows
<1> QED BY <1>0, <1>1, <1>3, StepIsSound

LEMMA CommitIsSound ==
    ASSUME NEW x, NEW rec, RowsSound(x, rec), RecordIsSound(rec), NEW rec2, RecordIsSound(rec2),
           NEW i, NEW q, Records("commit", rec, rec2, i, q)
    PROVE  RowsSound(RowsCommitted(x, q), rec2)
<1>0. /\ q \in Requests /\ i \in Ids /\ x \in RowTypes /\ SizesAgree(x, rec)
      /\ rec[i].request = q /\ rec[i].state \in LiveStates /\ "commit" \in Ops /\ "commit" # "reserve"
  BY DEF Records, RowsSound, LiveStates, Ops
<1>1. x.blob[<<q.repository, q.digest>>].bytes = q.bytes BY <1>0 DEF SizesAgree, BlobKey
<1>2. Stepped("commit", x, RowsCommitted(x, q), q) BY <1>0, <1>1, CommittedRows, CommittedUsage DEF Stepped
<1> QED BY <1>0, <1>1, <1>2, StepIsSound

LEMMA ReserveIsSound ==
    ASSUME NEW rec, RowsSound(rows, rec), NEW rec2, RecordIsSound(rec2),
           NEW i, NEW q, Records("reserve", rec, rec2, i, q), SizeAgrees(q), TotalsFit(q)
    PROVE  RowsSound(RowsReserved(q), rec2)
<1>0. q \in Requests /\ i \in Ids /\ rows \in RowTypes /\ Bounded(rows) /\ "reserve" \in Ops
  BY DEF Records, RowsSound, Ops
<1>1. Total(rows.blob[<<q.repository, q.digest>>].references) # 0 => rows.blob[<<q.repository, q.digest>>].bytes = q.bytes
  BY DEF SizeAgrees, AddsBytes, BlobKey
<1>2. Stepped("reserve", rows, RowsReserved(q), q) BY <1>0, ReservedRows
<1>3. Bounded(RowsReserved(q)) BY <1>0, <1>2, ReservedBounds
<1> QED BY <1>0, <1>1, <1>2, <1>3, StepIsSound

(* Rows whose totals are in range have their counters in range. *)
LEMMA SoundRowsFit ==
    ASSUME NEW x, NEW rec, RowsSound(x, rec) PROVE Fits(x)
<1>0. x \in RowTypes /\ Bounded(x) BY DEF RowsSound
<1>1. ASSUME NEW v \in Values, Total(v) <= MaxCount PROVE v.committed <= MaxCount /\ v.reserved <= MaxCount
  BY <1>1, CountAssumption DEF Values, Total
<1>2. DOMAIN x.project = Repositories \X Projects /\ DOMAIN x.version = Repositories \X Projects \X Versions
      /\ DOMAIN x.blob = Repositories \X Digests
  BY <1>0 DEF RowTypes
<1> SUFFICES ASSUME NEW v \in Counters(x) PROVE v \in Values /\ Total(v) <= MaxCount BY <1>1 DEF Fits
<1>3. CASE \E r \in Repositories : v \in {x.usage[r].file_bytes, x.usage[r].accounted_bytes, x.usage[r].projects}
  BY <1>0, <1>3, TypesOfRows DEF Bounded
<1>4. CASE \E k \in DOMAIN x.project : v \in {x.project[k].references, x.project[k].versions}
  <2>1. PICK k \in Repositories \X Projects : v \in {x.project[k].references, x.project[k].versions} BY <1>2, <1>4
  <2>2. k = <<k[1], k[2]>> /\ k[1] \in Repositories /\ k[2] \in Projects OBVIOUS
  <2> DEFINE r == k[1]
             p == k[2]
  <2>3. k = <<r, p>> /\ r \in Repositories /\ p \in Projects BY <2>2
  <2> HIDE DEF r, p
  <2>4. /\ x.project[<<r, p>>].references \in Values /\ x.project[<<r, p>>].versions \in Values
        /\ Total(x.project[<<r, p>>].references) <= MaxCount /\ Total(x.project[<<r, p>>].versions) <= MaxCount
    BY <1>0, <2>3, TypesOfRows DEF Bounded
  <2> QED BY <2>1, <2>3, <2>4
<1>5. CASE \E k \in DOMAIN x.version : v = x.version[k]
  <2>1. PICK k \in Repositories \X Projects \X Versions : v = x.version[k] BY <1>2, <1>5
  <2>2. k = <<k[1], k[2], k[3]>> /\ k[1] \in Repositories /\ k[2] \in Projects /\ k[3] \in Versions OBVIOUS
  <2> DEFINE r == k[1]
             p == k[2]
             e == k[3]
  <2>3. k = <<r, p, e>> /\ r \in Repositories /\ p \in Projects /\ e \in Versions BY <2>2
  <2> HIDE DEF r, p, e
  <2>4. x.version[<<r, p, e>>] \in Values /\ Total(x.version[<<r, p, e>>]) <= MaxCount
    BY <1>0, <2>3, TypesOfRows DEF Bounded
  <2> QED BY <2>1, <2>3, <2>4
<1>6. CASE \E k \in DOMAIN x.blob : v = x.blob[k].references
  <2>1. PICK k \in Repositories \X Digests : v = x.blob[k].references BY <1>2, <1>6
  <2>2. k = <<k[1], k[2]>> /\ k[1] \in Repositories /\ k[2] \in Digests OBVIOUS
  <2> DEFINE r == k[1]
             d == k[2]
  <2>3. k = <<r, d>> /\ r \in Repositories /\ d \in Digests BY <2>2
  <2> HIDE DEF r, d
  <2>4. x.blob[<<r, d>>].references \in Values /\ Total(x.blob[<<r, d>>].references) <= MaxCount
    BY <1>0, <2>3, TypesOfRows DEF Bounded
  <2> QED BY <2>1, <2>3, <2>4
<1> DEFINE U == UNION {{x.usage[r].file_bytes, x.usage[r].accounted_bytes, x.usage[r].projects} : r \in Repositories}
           P == UNION {{x.project[k].references, x.project[k].versions} : k \in DOMAIN x.project}
           V == {x.version[k] : k \in DOMAIN x.version}
           B == {x.blob[k].references : k \in DOMAIN x.blob}
<1>7. Counters(x) = U \cup P \cup V \cup B BY DEF Counters
<1>8. v \in U => \E r \in Repositories : v \in {x.usage[r].file_bytes, x.usage[r].accounted_bytes, x.usage[r].projects}
  OBVIOUS
<1>9. v \in P => \E k \in DOMAIN x.project : v \in {x.project[k].references, x.project[k].versions} OBVIOUS
<1>10. /\ v \in V => \E k \in DOMAIN x.version : v = x.version[k]
       /\ v \in B => \E k \in DOMAIN x.blob : v = x.blob[k].references
  OBVIOUS
<1>11. v \in U \/ v \in P \/ v \in V \/ v \in B BY <1>7
<1> HIDE DEF U, P, V, B
<1> QED BY <1>3, <1>4, <1>5, <1>6, <1>8, <1>9, <1>10, <1>11

--------------------------------
(* A repair releases its reservations one after the other. *)

ReleaseOf(i, x, rec) == RowsReleased(x, rec[i].request, rec[i].state)

Chain(g, x, rec, D) == \A s \in D : g[s] = IF s = {} THEN x ELSE ReleaseOf(Pick(s), g[Without(s)], rec)

LEMMA ChainUpTo ==
    ASSUME NEW S, IsFiniteSet(S), NEW x, NEW rec, NEW n \in Nat
    PROVE  \E g : DOMAIN g = UpTo(S, n) /\ Chain(g, x, rec, UpTo(S, n))
<1> DEFINE T == {k \in Nat : ~\E g : DOMAIN g = UpTo(S, k) /\ Chain(g, x, rec, UpTo(S, k))}
<1> SUFFICES ASSUME T # {} PROVE FALSE OBVIOUS
<1>1. PICK k \in T : \A j \in T : k <= j BY LeastNatural
<1>2. \A g : ~(DOMAIN g = UpTo(S, k) /\ Chain(g, x, rec, UpTo(S, k))) BY <1>1
<1>3. k # 0
  <2> SUFFICES ASSUME k = 0 PROVE FALSE OBVIOUS
  <2> DEFINE g == [s \in UpTo(S, 0) |-> x]
  <2>1. \A s \in UpTo(S, 0) : s = {} BY PickOne DEF UpTo
  <2>2. DOMAIN g = UpTo(S, 0) /\ Chain(g, x, rec, UpTo(S, 0)) BY <2>1 DEF Chain
  <2> HIDE DEF g
  <2> QED BY <1>2, <2>2
<1>4. PICK p \in Nat : p = k - 1 BY <1>3
<1>5. p \notin T BY <1>1, <1>4
<1>6. PICK g : DOMAIN g = UpTo(S, p) /\ Chain(g, x, rec, UpTo(S, p)) BY <1>5
<1> DEFINE h == [s \in UpTo(S, k) |-> IF s = {} THEN x ELSE ReleaseOf(Pick(s), g[Without(s)], rec)]
<1>7. ASSUME NEW s \in UpTo(S, k), s # {} PROVE Without(s) \in UpTo(S, p) /\ Without(s) \in UpTo(S, k)
  BY <1>4, <1>7, PickOne DEF UpTo
<1>8. ASSUME NEW s \in UpTo(S, p) PROVE s \in UpTo(S, k) /\ h[s] = g[s]
  <2>1. s \in UpTo(S, k) BY <1>4, FS_Subset, FS_CardinalityType DEF UpTo
  <2>2. g[s] = IF s = {} THEN x ELSE ReleaseOf(Pick(s), g[Without(s)], rec) BY <1>6 DEF Chain
  <2> QED BY <2>1, <2>2
<1>9. ASSUME NEW s \in UpTo(S, k) PROVE h[s] = IF s = {} THEN x ELSE ReleaseOf(Pick(s), h[Without(s)], rec)
  <2>1. h[s] = IF s = {} THEN x ELSE ReleaseOf(Pick(s), g[Without(s)], rec) OBVIOUS
  <2>2. s # {} => h[Without(s)] = g[Without(s)] BY <1>7, <1>8
  <2> HIDE DEF h
  <2> QED BY <2>1, <2>2
<1>10. DOMAIN h = UpTo(S, k) OBVIOUS
<1> HIDE DEF h
<1>11. Chain(h, x, rec, UpTo(S, k)) BY <1>9 DEF Chain
<1> QED BY <1>2, <1>10, <1>11

LEMMA RepairIsChain ==
    ASSUME NEW S, IsFiniteSet(S)
    PROVE  \E g : /\ Chain(g, rows, record, SUBSET S)
                  /\ FoldSet(LAMBDA i, x : RowsReleased(x, record[i].request, record[i].state), rows, S) = g[S]
<1> DEFINE all == CHOOSE g : g = [s \in SUBSET S |-> IF s = {} THEN rows
                      ELSE RowsReleased(g[s \ {CHOOSE x \in s : TRUE}], record[CHOOSE x \in s : TRUE].request,
                                        record[CHOOSE x \in s : TRUE].state)]
<1>1. FoldSet(LAMBDA i, x : RowsReleased(x, record[i].request, record[i].state), rows, S) = all[S]
  BY DEF FoldSet, MapThenFoldSet
<1>2. UpTo(S, Cardinality(S)) = SUBSET S BY FS_Subset DEF UpTo
<1>3. PICK g : DOMAIN g = SUBSET S /\ Chain(g, rows, record, SUBSET S)
  <2> DEFINE n == Cardinality(S)
  <2>1. n \in Nat BY FS_CardinalityType
  <2>2. UpTo(S, n) = SUBSET S BY <1>2
  <2> HIDE DEF n
  <2>3. \E g : DOMAIN g = UpTo(S, n) /\ Chain(g, rows, record, UpTo(S, n)) BY <2>1, ChainUpTo
  <2> QED BY <2>2, <2>3
<1> DEFINE g0 == [s \in SUBSET S |-> g[s]]
<1>4. ASSUME NEW s \in SUBSET S
      PROVE  g0[s] = IF s = {} THEN rows
                     ELSE RowsReleased(g0[s \ {CHOOSE x \in s : TRUE}], record[CHOOSE x \in s : TRUE].request,
                                       record[CHOOSE x \in s : TRUE].state)
  BY <1>3 DEF Chain, ReleaseOf, Pick, Without
<1>5. g0 = [s \in SUBSET S |-> IF s = {} THEN rows
              ELSE RowsReleased(g0[s \ {CHOOSE x \in s : TRUE}], record[CHOOSE x \in s : TRUE].request,
                                record[CHOOSE x \in s : TRUE].state)]
  <2>1. g0 = [s \in SUBSET S |-> g0[s]] OBVIOUS
  <2> HIDE DEF g0
  <2> QED BY <1>4, <2>1
<1> HIDE DEF g0
<1>6. all = [s \in SUBSET S |-> IF s = {} THEN rows
               ELSE RowsReleased(all[s \ {CHOOSE x \in s : TRUE}], record[CHOOSE x \in s : TRUE].request,
                                 record[CHOOSE x \in s : TRUE].state)]
  BY <1>5
<1> HIDE DEF all
<1>7. Chain(all, rows, record, SUBSET S) BY <1>6 DEF Chain, ReleaseOf, Pick, Without
<1> QED BY <1>1, <1>7

--------------------------------
(* The inductive invariant: each record is one that an operation wrote, the pending index is the reserved *)
(* records, and the rows are right. *)

QuotaInv ==
    /\ record = [i \in Ids |-> record[i]]
    /\ RecordIsSound(record)
    /\ PendingExact
    /\ RowsSound(rows, record)

(* The records once the reservations of s have been released. *)
GoneBut(rec, s) == [i \in Ids |-> IF i \in s THEN Ledger!Gone ELSE rec[i]]

LEMMA ChainIsSound ==
    ASSUME QuotaInv, NEW S, S \subseteq {i \in Ids : record[i].state = "reserved"}, NEW g, Chain(g, rows, record, SUBSET S)
    PROVE  RowsSound(g[S], GoneBut(record, S))
<1>f. IsFiniteSet(S) BY IdAssumption, FS_Subset
<1> DEFINE T == {k \in Nat : \E s \in SUBSET S : Cardinality(s) = k /\ ~RowsSound(g[s], GoneBut(record, s))}
<1> SUFFICES ASSUME T # {} PROVE FALSE
  <2>1. S \in SUBSET S /\ Cardinality(S) \in Nat BY <1>f, FS_CardinalityType
  <2> QED BY <2>1
<1>1. PICK k \in T : \A j \in T : k <= j BY LeastNatural
<1>2. PICK s \in SUBSET S : Cardinality(s) = k /\ ~RowsSound(g[s], GoneBut(record, s)) BY <1>1
<1>3. g[s] = IF s = {} THEN rows ELSE ReleaseOf(Pick(s), g[Without(s)], record) BY DEF Chain
<1>4. s # {}
  <2> SUFFICES ASSUME s = {} PROVE FALSE OBVIOUS
  <2>1. GoneBut(record, s) = record BY DEF GoneBut, QuotaInv
  <2> QED BY <1>2, <1>3, <2>1 DEF QuotaInv
<1> DEFINE i == Pick(s)
           r == Without(s)
<1>5. i \in s /\ i \in S /\ r \in SUBSET S /\ Cardinality(r) = k - 1 /\ k - 1 \in Nat /\ k \in Nat /\ r = s \ {i}
  BY <1>f, <1>2, <1>4, PickOne DEF Without
<1>6. RowsSound(g[r], GoneBut(record, r))
  <2>1. k - 1 \notin T
    <3> HIDE DEF T, i, r
    <3> QED BY <1>1, <1>5
  <2> HIDE DEF i, r
  <2> QED BY <1>5, <2>1
<1>7. g[s] = RowsReleased(g[r], record[i].request, "reserved") BY <1>3, <1>4, <1>5 DEF ReleaseOf
<1> HIDE DEF i, r
<1>8. \A t \in SUBSET Ids : RecordIsSound(GoneBut(record, t)) BY DEF RecordIsSound, GoneBut, QuotaInv
<1>9. i \in Ids /\ record[i].state = "reserved" /\ s \in SUBSET Ids /\ r \in SUBSET Ids BY <1>5
<1>10. record[i].request \in Requests
  <2>1. record[i] \in {Ledger!Unused, Ledger!Gone} \/ record[i] \in LiveRecords BY <1>9 DEF QuotaInv, RecordIsSound
  <2>2. record[i].state \in LiveStates BY <1>9 DEF LiveStates
  <2> QED BY <2>1, <2>2, DeadRecords
<1>11. Records("reserved", GoneBut(record, r), GoneBut(record, s), i, record[i].request)
  BY <1>5, <1>9, <1>10, DeadRecords DEF Records, GoneBut, LiveStates
<1>12. RowsSound(g[s], GoneBut(record, s)) BY <1>6, <1>7, <1>8, <1>9, <1>11, ReleaseIsSound DEF LiveStates
<1> QED BY <1>2, <1>12

LEMMA LiveIsTyped ==
    ASSUME QuotaInv, NEW i \in Ids, record[i].state \in LiveStates
    PROVE  record[i] \in LiveRecords /\ record[i].request \in Requests
<1>1. record[i] \in {Ledger!Unused, Ledger!Gone} \/ record[i] \in LiveRecords BY DEF QuotaInv, RecordIsSound
<1> QED BY <1>1, DeadRecords

(* What the records are after a commit and after a release. *)
LEMMA CommittedRecords ==
    ASSUME QuotaInv, NEW i \in Ids, record[i].state = "reserved"
    PROVE  LET rec2 == [record EXCEPT ![i].state = "committed"]
           IN  /\ rec2 = [j \in Ids |-> rec2[j]] /\ RecordIsSound(rec2)
               /\ rec2[i].state = "committed"
               /\ Records("commit", record, rec2, i, record[i].request)
<1> DEFINE rec2 == [record EXCEPT ![i].state = "committed"]
           w == record[i].violations
           q == record[i].request
<1>1. record = [j \in Ids |-> record[j]] /\ RecordIsSound(record) BY DEF QuotaInv
<1>2. record[i] \in LiveRecords /\ q \in Requests BY LiveIsTyped DEF LiveStates
<1>3. record[i] = [state |-> "reserved", request |-> q, violations |-> w] /\ w \in SUBSET LimitNames
  BY <1>2 DEF LiveRecords
<1>4. \A j \in Ids : j # i => rec2[j] = record[j] BY <1>1
<1>5. rec2[i] = [record[i] EXCEPT !.state = "committed"] BY <1>1
<1>6. rec2 = [j \in Ids |-> rec2[j]] BY <1>1
<1> HIDE DEF rec2, w, q
<1>7. rec2[i] = [state |-> "committed", request |-> q, violations |-> w] BY <1>3, <1>5
<1>8. rec2[i] \in LiveRecords BY <1>2, <1>3, <1>7 DEF LiveRecords, LiveStates
<1>9. RecordIsSound(rec2) BY <1>1, <1>4, <1>8 DEF RecordIsSound
<1>10. rec2[i].state = "committed" /\ rec2[i].request = q BY <1>7
<1>11. Records("commit", record, rec2, i, q) BY <1>2, <1>4, <1>10 DEF Records, LiveStates, q
<1> QED BY <1>6, <1>9, <1>10, <1>11 DEF rec2, q

LEMMA ReleasedRecords ==
    ASSUME QuotaInv, NEW i \in Ids, record[i].state \in LiveStates
    PROVE  LET rec2 == [record EXCEPT ![i] = Ledger!Gone]
           IN  /\ rec2 = [j \in Ids |-> rec2[j]] /\ RecordIsSound(rec2)
               /\ rec2[i].state \notin LiveStates
               /\ Records(record[i].state, record, rec2, i, record[i].request)
<1> DEFINE rec2 == [record EXCEPT ![i] = Ledger!Gone]
<1>1. record = [j \in Ids |-> record[j]] /\ RecordIsSound(record) BY DEF QuotaInv
<1>2. record[i] \in LiveRecords /\ record[i].request \in Requests BY LiveIsTyped
<1>4. /\ \A j \in Ids : j # i => rec2[j] = record[j]
      /\ rec2[i] = Ledger!Gone /\ rec2 = [j \in Ids |-> rec2[j]]
  BY <1>1
<1> HIDE DEF rec2
<1>9. RecordIsSound(rec2) BY <1>1, <1>4 DEF RecordIsSound
<1>10. rec2[i].state \notin LiveStates BY <1>4, DeadRecords
<1>11. Records(record[i].state, record, rec2, i, record[i].request) BY <1>2, <1>4, <1>10 DEF Records, LiveStates
<1> QED BY <1>4, <1>9, <1>10, <1>11 DEF rec2

LEMMA QuotaInvNext == QuotaInv /\ QuotaNext => QuotaInv'
<1> SUFFICES ASSUME QuotaInv, QuotaNext PROVE QuotaInv' OBVIOUS
<1>0. /\ record = [j \in Ids |-> record[j]] /\ RecordIsSound(record) /\ RowsSound(rows, record)
      /\ pending = {j \in Ids : record[j].state = "reserved"}
  BY DEF QuotaInv, PendingExact
<1>1. ASSUME NEW i \in Ids, NEW q \in Requests, NEW audit \in Audits, Reserve(i, q, audit) PROVE QuotaInv'
  <2> DEFINE new == [state |-> "reserved", request |-> q, violations |-> LimitViolations(q)]
  <2>1. record' = [record EXCEPT ![i] = new] /\ pending' = pending \cup {i} /\ record[i] = Ledger!Unused
        /\ rows' = RowsReserved(q) /\ SizeAgrees(q) /\ TotalsFit(q)
    BY <1>1 DEF Reserve
  <2>2. LimitViolations(q) \in SUBSET LimitNames BY DEF LimitViolations, LimitNames
  <2>3. new \in LiveRecords /\ new.state = "reserved" /\ new.request = q BY <2>2 DEF LiveRecords, LiveStates
  <2> HIDE DEF new
  <2>4. /\ \A j \in Ids : j # i => record'[j] = record[j]
        /\ record'[i] = new /\ record' = [j \in Ids |-> record'[j]]
    BY <1>0, <2>1
  <2>5. RecordIsSound(record') BY <1>0, <2>3, <2>4 DEF RecordIsSound
  <2>6. Records("reserve", record, record', i, q) BY <2>1, <2>3, <2>4, DeadRecords DEF Records, LiveStates
  <2>7. RowsSound(rows', record') BY <1>0, <2>1, <2>5, <2>6, ReserveIsSound
  <2>8. PendingExact' BY <1>0, <2>1, <2>3, <2>4 DEF PendingExact
  <2> QED BY <2>4, <2>5, <2>7, <2>8 DEF QuotaInv
<1>2. ASSUME NEW i \in Ids, Commit(i) PROVE QuotaInv'
  <2>1. record' = [record EXCEPT ![i].state = "committed"] /\ pending' = pending \ {i} /\ record[i].state = "reserved"
        /\ rows' = RowsCommitted(rows, record[i].request)
    BY <1>2 DEF Commit
  <2>2. /\ record' = [j \in Ids |-> record'[j]] /\ RecordIsSound(record') /\ record'[i].state = "committed"
        /\ Records("commit", record, record', i, record[i].request)
    BY <2>1, CommittedRecords
  <2>3. RowsSound(rows', record') BY <1>0, <2>1, <2>2, CommitIsSound
  <2>4. PendingExact' BY <1>0, <2>1, <2>2 DEF PendingExact, Records
  <2> QED BY <2>2, <2>3, <2>4 DEF QuotaInv
<1>3. ASSUME NEW i \in Ids, Release(i) PROVE QuotaInv'
  <2>1. record' = [record EXCEPT ![i] = Ledger!Gone] /\ pending' = pending \ {i} /\ record[i].state \in LiveStates
        /\ rows' = RowsReleased(rows, record[i].request, record[i].state)
    BY <1>3 DEF Release, Ledger!Live, LiveStates
  <2>2. /\ record' = [j \in Ids |-> record'[j]] /\ RecordIsSound(record') /\ record'[i].state \notin LiveStates
        /\ Records(record[i].state, record, record', i, record[i].request)
    BY <2>1, ReleasedRecords
  <2>3. RowsSound(rows', record') BY <1>0, <2>1, <2>2, ReleaseIsSound
  <2>4. PendingExact' BY <1>0, <2>1, <2>2 DEF PendingExact, Records, LiveStates
  <2> QED BY <2>2, <2>3, <2>4 DEF QuotaInv
<1>4. ASSUME NEW S \in SUBSET Ids, Repair(S) PROVE QuotaInv'
  <2>1. /\ S \subseteq pending /\ pending' = pending \ S
        /\ record' = [i \in Ids |-> IF i \in S THEN Ledger!Gone ELSE record[i]]
        /\ rows' = FoldSet(LAMBDA i, x : RowsReleased(x, record[i].request, record[i].state), rows, S)
    BY <1>4 DEF Repair
  <2>2. IsFiniteSet(S) BY IdAssumption, FS_Subset
  <2>3. PICK g : /\ Chain(g, rows, record, SUBSET S)
                 /\ FoldSet(LAMBDA i, x : RowsReleased(x, record[i].request, record[i].state), rows, S) = g[S]
    BY <2>2, RepairIsChain
  <2>4. RowsSound(g[S], GoneBut(record, S)) BY <1>0, <2>1, <2>3, ChainIsSound
  <2>5. rows' = g[S] /\ record' = GoneBut(record, S) BY <2>1, <2>3 DEF GoneBut
  <2>6. RowsSound(rows', record') BY <2>4, <2>5
  <2>7. record' = [i \in Ids |-> record'[i]] /\ RecordIsSound(record') BY <1>0, <2>1 DEF RecordIsSound
  <2>8. PendingExact' BY <1>0, <2>1, DeadRecords DEF PendingExact, LiveStates
  <2> QED BY <2>6, <2>7, <2>8 DEF QuotaInv
<1> QED BY <1>1, <1>2, <1>3, <1>4 DEF QuotaNext

LEMMA SettlesAlways == QuotaInv => AlwaysSettles
<1> SUFFICES ASSUME QuotaInv, NEW i \in Ledger!Live
             PROVE  /\ Fits(RowsReleased(rows, record[i].request, record[i].state))
                    /\ record[i].state = "reserved" => Fits(RowsCommitted(rows, record[i].request))
  BY DEF AlwaysSettles
<1>0. i \in Ids /\ record[i].state \in LiveStates /\ RowsSound(rows, record) /\ RecordIsSound(record)
  BY DEF Ledger!Live, LiveStates, QuotaInv
<1>1. Fits(RowsReleased(rows, record[i].request, record[i].state))
  <2> DEFINE rec2 == [record EXCEPT ![i] = Ledger!Gone]
  <2>1. RecordIsSound(rec2) /\ Records(record[i].state, record, rec2, i, record[i].request) BY <1>0, ReleasedRecords
  <2> HIDE DEF rec2
  <2>2. RowsSound(RowsReleased(rows, record[i].request, record[i].state), rec2) BY <1>0, <2>1, ReleaseIsSound
  <2> QED BY <2>2, SoundRowsFit
<1>2. ASSUME record[i].state = "reserved" PROVE Fits(RowsCommitted(rows, record[i].request))
  <2> DEFINE rec2 == [record EXCEPT ![i].state = "committed"]
  <2>1. RecordIsSound(rec2) /\ Records("commit", record, rec2, i, record[i].request) BY <1>0, <1>2, CommittedRecords
  <2> HIDE DEF rec2
  <2>2. RowsSound(RowsCommitted(rows, record[i].request), rec2) BY <1>0, <2>1, CommitIsSound
  <2> QED BY <2>2, SoundRowsFit
<1> QED BY <1>1, <1>2

LEMMA EmptyCharge ==
    ASSUME NEW K, NEW w, NEW refs, \A k \in K : refs[k] = Zero
    PROVE  Charged(Zero, w, refs, K)
<1>1. Firm(refs, K) = {} /\ Held(refs, K) = {} BY DEF Firm, Held, Zero
<1> QED BY <1>1, SumEmpty, FS_EmptySet DEF Charged, Summable, Zero

LEMMA QuotaInvInit == QuotaInit => QuotaInv
<1> SUFFICES ASSUME QuotaInit PROVE QuotaInv OBVIOUS
<1>1. record = [i \in Ids |-> Ledger!Unused] /\ pending = {} /\ rows = NoRows BY DEF QuotaInit
<1>2. record = [i \in Ids |-> record[i]] /\ RecordIsSound(record) BY <1>1 DEF RecordIsSound
<1>3. \A i \in Ids : record[i].state \notin LiveStates BY <1>1, DeadRecords
<1>4. PendingExact BY <1>1, <1>3 DEF PendingExact, LiveStates
<1>5. \A Q : Count(record, Q) = Zero
  <2> TAKE Q
  <2>1. Asking(record, Q, "committed") = {} /\ Asking(record, Q, "reserved") = {} BY <1>3 DEF Asking, LiveStates
  <2> QED BY <2>1, FS_EmptySet DEF Count, Zero
<1>6. ASSUME NEW r \in Repositories
      PROVE  /\ rows.usage[r].file_bytes = Zero /\ rows.usage[r].accounted_bytes = Zero /\ rows.usage[r].projects = Zero
             /\ \A d \in Digests : rows.blob[<<r, d>>].references = Zero /\ rows.blob[<<r, d>>].bytes = 0
             /\ \A p \in Projects : /\ rows.project[<<r, p>>].references = Zero /\ rows.project[<<r, p>>].versions = Zero
                                    /\ \A e \in Versions : rows.version[<<r, p, e>>] = Zero
  BY <1>1 DEF NoRows, NoProject, NoBlob
<1>7. Zero \in Values /\ Total(Zero) = 0 /\ 0 <= MaxCount BY CountAssumption DEF Zero, Values, Total
<1>8. rows \in RowTypes BY <1>1, <1>7 DEF RowTypes, NoRows, NoProject, NoBlob
<1>9. References(rows, record) BY <1>5, <1>6 DEF References
<1>10. SizesAgree(rows, record) BY <1>3 DEF SizesAgree
<1>11. Charges(rows, record)
  <2> SUFFICES ASSUME NEW r \in Repositories
               PROVE  /\ Charged(Zero, FileSizes(record), FileRefs(record, r), Ids)
                      /\ Charged(Zero, BlobSizes(rows, r), BlobRefs(rows, r), Digests)
                      /\ Charged(Zero, Ones(Projects), ProjectRefs(rows, r), Projects)
                      /\ \A p \in Projects : Charged(Zero, Ones(Versions), VersionRefs(rows, r, p), Versions)
    BY <1>6 DEF Charges
  <2>1. \A i \in Ids : FileRefs(record, r)[i] = Zero BY <1>3 DEF FileRefs
  <2>2. \A d \in Digests : BlobRefs(rows, r)[d] = Zero BY <1>6 DEF BlobRefs
  <2>3. \A p \in Projects : ProjectRefs(rows, r)[p] = Zero BY <1>6 DEF ProjectRefs
  <2>4. \A p \in Projects : \A e \in Versions : VersionRefs(rows, r, p)[e] = Zero BY <1>6 DEF VersionRefs
  <2> QED BY <2>1, <2>2, <2>3, <2>4, EmptyCharge
<1>12. Bounded(rows) BY <1>6, <1>7 DEF Bounded
<1> QED BY <1>2, <1>4, <1>8, <1>9, <1>10, <1>11, <1>12 DEF QuotaInv, RowsSound

--------------------------------
(* What the counters are, in the terms of the ledger. *)

LEMMA CountedIsNamed ==
    ASSUME NEW rec, NEW Q
    PROVE  /\ Count(rec, Q).committed > 0 <=> Asking(rec, Q, "committed") # {}
           /\ Count(rec, Q).committed = 0 <=> Asking(rec, Q, "committed") = {}
           /\ Count(rec, Q).reserved > 0 <=> Asking(rec, Q, "reserved") # {}
           /\ Total(Count(rec, Q)) = 0 <=> Asking(rec, Q, "committed") = {} /\ Asking(rec, Q, "reserved") = {}
<1>1. \A state : /\ IsFiniteSet(Asking(rec, Q, state)) /\ Cardinality(Asking(rec, Q, state)) \in Nat
                 /\ Cardinality(Asking(rec, Q, state)) = 0 <=> Asking(rec, Q, state) = {}
  BY WithIsFinite, FS_EmptySet
<1> QED BY <1>1, CountIsValue DEF Total

LEMMA TotalOfCharge ==
    ASSUME NEW K, NEW v, NEW w, NEW refs, Charged(v, w, refs, K)
    PROVE  /\ Summable(w, Firm(refs, K) \cup Held(refs, K))
           /\ Total(v) = SumOver(w, Firm(refs, K) \cup Held(refs, K))
<1>1. Firm(refs, K) \cap Held(refs, K) = {} BY DEF Firm, Held
<1> QED BY <1>1, SumDisjoint DEF Charged, Total

(* The bytes of files, as the ledger sums them. *)
LEMMA FileBytesIsSum ==
    ASSUME NEW S, S \subseteq Ids
    PROVE  IsFiniteSet(S) /\ Ledger!FileBytes(S) = SumOver(FileSizes(record), S)
<1>0. IsFiniteSet(S) BY IdAssumption, FS_Subset
<1> DEFINE f == FileSizes(record)
           all == CHOOSE g : g = [s \in SUBSET S |-> IF s = {} THEN 0
                     ELSE record[CHOOSE x \in s : TRUE].request.bytes + g[s \ {CHOOSE x \in s : TRUE}]]
<1>1. Ledger!FileBytes(S) = all[S] BY DEF Ledger!FileBytes, Ledger!MapThenSumSet, Ledger!MapThenFoldSet
<1>2. PICK g : Sums(g, f, SUBSET S) /\ SumOver(f, S) = g[S] BY <1>0, SumIsDefined
<1> DEFINE g0 == [s \in SUBSET S |-> g[s]]
<1>3. ASSUME NEW s \in SUBSET S, s # {}
      PROVE  f[CHOOSE x \in s : TRUE] = record[CHOOSE x \in s : TRUE].request.bytes
  <2>1. (CHOOSE x \in s : TRUE) \in Ids BY <1>3
  <2> QED BY <2>1 DEF FileSizes
<1>4. ASSUME NEW s \in SUBSET S
      PROVE  g0[s] = IF s = {} THEN 0 ELSE record[CHOOSE x \in s : TRUE].request.bytes + g0[s \ {CHOOSE x \in s : TRUE}]
  BY <1>2, <1>3 DEF Sums, Pick, Without
<1>5. g0 = [s \in SUBSET S |-> IF s = {} THEN 0
              ELSE record[CHOOSE x \in s : TRUE].request.bytes + g0[s \ {CHOOSE x \in s : TRUE}]]
  <2>1. g0 = [s \in SUBSET S |-> g0[s]] OBVIOUS
  <2> HIDE DEF g0
  <2> QED BY <1>4, <2>1
<1> HIDE DEF g0
<1>6. all = [s \in SUBSET S |-> IF s = {} THEN 0
               ELSE record[CHOOSE x \in s : TRUE].request.bytes + all[s \ {CHOOSE x \in s : TRUE}]]
  BY <1>5
<1> HIDE DEF all, f
<1>7. Sums(all, f, SUBSET S) BY <1>3, <1>6 DEF Sums, Pick, Without
<1>8. all[S] = g[S] BY <1>0, <1>2, <1>7, SumsAgree
<1> QED BY <1>0, <1>1, <1>2, <1>8 DEF f

(* The bytes of distinct digests, as the ledger sums them. *)
LEMMA AccountedBytesIsSum ==
    ASSUME NEW S, IsFiniteSet(Ledger!DigestsOf(S)), NEW f, \A d \in Ledger!DigestsOf(S) : f[d] = Ledger!SizeOf(S, d)
    PROVE  Ledger!AccountedBytes(S) = SumOver(f, Ledger!DigestsOf(S))
<1> DEFINE D == Ledger!DigestsOf(S)
           all == CHOOSE g : g = [s \in SUBSET D |-> IF s = {} THEN 0
                     ELSE Ledger!SizeOf(S, CHOOSE x \in s : TRUE) + g[s \ {CHOOSE x \in s : TRUE}]]
<1>1. Ledger!AccountedBytes(S) = all[D] BY DEF Ledger!AccountedBytes, Ledger!MapThenSumSet, Ledger!MapThenFoldSet
<1>0. IsFiniteSet(D) OBVIOUS
<1>2. PICK g : Sums(g, f, SUBSET D) /\ SumOver(f, D) = g[D] BY <1>0, SumIsDefined
<1> DEFINE g0 == [s \in SUBSET D |-> g[s]]
<1>3. ASSUME NEW s \in SUBSET D, s # {}
      PROVE  f[CHOOSE x \in s : TRUE] = Ledger!SizeOf(S, CHOOSE x \in s : TRUE)
  <2>1. (CHOOSE x \in s : TRUE) \in D BY <1>3
  <2> QED BY <2>1
<1> HIDE DEF D
<1>4. ASSUME NEW s \in SUBSET D
      PROVE  g0[s] = IF s = {} THEN 0 ELSE Ledger!SizeOf(S, CHOOSE x \in s : TRUE) + g0[s \ {CHOOSE x \in s : TRUE}]
  BY <1>2, <1>3 DEF Sums, Pick, Without
<1>5. g0 = [s \in SUBSET D |-> IF s = {} THEN 0
              ELSE Ledger!SizeOf(S, CHOOSE x \in s : TRUE) + g0[s \ {CHOOSE x \in s : TRUE}]]
  <2>1. g0 = [s \in SUBSET D |-> g0[s]] OBVIOUS
  <2> HIDE DEF g0
  <2> QED BY <1>4, <2>1
<1> HIDE DEF g0
<1>6. all = [s \in SUBSET D |-> IF s = {} THEN 0
               ELSE Ledger!SizeOf(S, CHOOSE x \in s : TRUE) + all[s \ {CHOOSE x \in s : TRUE}]]
  BY <1>5
<1> HIDE DEF all
<1>7. Sums(all, f, SUBSET D) BY <1>3, <1>6 DEF Sums, Pick, Without
<1>8. all[D] = g[D] BY <1>0, <1>2, <1>7, SumsAgree
<1> QED BY <1>1, <1>2, <1>8 DEF D

--------------------------------
(* What the ledger names is what has references. *)

LEMMA LiveSets ==
    ASSUME NEW r
    PROVE  /\ Ledger!LiveIn(r) = {i \in Ids : record[i].state \in LiveStates /\ record[i].request.repository = r}
           /\ In(Ledger!LiveIn(r), "committed") = {i \in Ids : record[i].state = "committed" /\ record[i].request.repository = r}
           /\ In(Ledger!LiveIn(r), "reserved") = {i \in Ids : record[i].state = "reserved" /\ record[i].request.repository = r}
  BY DEF Ledger!LiveIn, Ledger!Live, LiveStates, In

LEMMA FilesOf ==
    ASSUME NEW r
    PROVE  /\ Firm(FileRefs(record, r), Ids) = In(Ledger!LiveIn(r), "committed")
           /\ Firm(FileRefs(record, r), Ids) \cup Held(FileRefs(record, r), Ids) = Ledger!LiveIn(r)
<1>1. ASSUME NEW i \in Ids
      PROVE  /\ FileRefs(record, r)[i].committed > 0
                  <=> record[i].state = "committed" /\ record[i].request.repository = r
             /\ FileRefs(record, r)[i].committed = 0 /\ FileRefs(record, r)[i].reserved > 0
                  <=> record[i].state = "reserved" /\ record[i].request.repository = r
  BY DEF FileRefs, OneFirm, OneHeld, Zero, LiveStates
<1> QED BY <1>1, LiveSets DEF Firm, Held, LiveStates

LEMMA NamedDigests ==
    ASSUME QuotaInv, NEW r \in Repositories
    PROVE  LET S == Ledger!LiveIn(r)
               C == In(S, "committed")
           IN  /\ Firm(BlobRefs(rows, r), Digests) = Ledger!DigestsOf(C)
               /\ Firm(BlobRefs(rows, r), Digests) \cup Held(BlobRefs(rows, r), Digests) = Ledger!DigestsOf(S)
               /\ \A d \in Digests : Total(rows.blob[<<r, d>>].references) = 0 <=> d \notin Ledger!DigestsOf(S)
<1> DEFINE S == Ledger!LiveIn(r)
           C == In(S, "committed")
<1>1. ASSUME NEW d \in Digests
      PROVE  /\ rows.blob[<<r, d>>].references.committed > 0 <=> \E i \in C : record[i].request.digest = d
             /\ rows.blob[<<r, d>>].references.committed = 0 <=> ~\E i \in C : record[i].request.digest = d
             /\ rows.blob[<<r, d>>].references.reserved > 0 <=> \E i \in In(S, "reserved") : record[i].request.digest = d
             /\ Total(rows.blob[<<r, d>>].references) = 0 <=> ~\E i \in S : record[i].request.digest = d
  <2> DEFINE Q == OfBlob(r, d)
  <2>1. rows.blob[<<r, d>>].references = Count(record, Q) BY DEF QuotaInv, RowsSound, References
  <2>2. ASSUME NEW i \in Ids, record[i].state \in LiveStates
        PROVE  record[i].request \in Q <=> record[i].request.repository = r /\ record[i].request.digest = d
    BY <2>2, LiveIsTyped DEF OfBlob
  <2> HIDE DEF Q
  <2>3. Asking(record, Q, "committed") # {} <=> \E i \in C : record[i].request.digest = d
    BY <2>2, LiveSets DEF Asking, LiveStates
  <2>4. Asking(record, Q, "reserved") # {} <=> \E i \in In(S, "reserved") : record[i].request.digest = d
    BY <2>2, LiveSets DEF Asking, LiveStates
  <2>5. \A i : i \in S <=> i \in C \/ i \in In(S, "reserved") BY LiveSets DEF LiveStates
  <2> HIDE DEF S, C
  <2> QED BY <2>1, <2>3, <2>4, <2>5, CountedIsNamed
<1>2. \A i \in S : record[i].request.digest \in Digests BY LiveSets, LiveIsTyped, RequestTypes
<1>3. \A i : i \in S <=> i \in C \/ i \in In(S, "reserved") BY LiveSets DEF LiveStates
<1>4. \A d \in Digests : BlobRefs(rows, r)[d] = rows.blob[<<r, d>>].references BY DEF BlobRefs
<1>5. Ledger!DigestsOf(S) = {d \in Digests : \E i \in S : record[i].request.digest = d} BY <1>2 DEF Ledger!DigestsOf
<1>6. Ledger!DigestsOf(C) = {d \in Digests : \E i \in C : record[i].request.digest = d}
  BY <1>2, <1>3 DEF Ledger!DigestsOf
<1> HIDE DEF S, C
<1>7. Firm(BlobRefs(rows, r), Digests) = Ledger!DigestsOf(C) BY <1>1, <1>4, <1>6 DEF Firm
<1>8. Firm(BlobRefs(rows, r), Digests) \cup Held(BlobRefs(rows, r), Digests) = Ledger!DigestsOf(S)
  <2>1. \A d \in Digests : (\E i \in S : record[i].request.digest = d)
                         <=> (\E i \in C : record[i].request.digest = d)
                               \/ (\E i \in In(S, "reserved") : record[i].request.digest = d)
    BY <1>3
  <2>2. \A d \in Digests : (\E i \in S : record[i].request.digest = d)
                         <=> \/ rows.blob[<<r, d>>].references.committed > 0
                             \/ rows.blob[<<r, d>>].references.committed = 0
                                  /\ rows.blob[<<r, d>>].references.reserved > 0
    BY <1>1, <2>1
  <2> QED BY <1>4, <1>5, <2>2 DEF Firm, Held
<1>9. \A d \in Digests : Total(rows.blob[<<r, d>>].references) = 0 <=> d \notin Ledger!DigestsOf(S) BY <1>1, <1>5
<1> QED BY <1>7, <1>8, <1>9 DEF S, C

LEMMA NamedProjects ==
    ASSUME QuotaInv, NEW r \in Repositories
    PROVE  LET S == Ledger!LiveIn(r)
               C == In(S, "committed")
           IN  /\ Firm(ProjectRefs(rows, r), Projects) = Ledger!ProjectsOf(C)
               /\ Firm(ProjectRefs(rows, r), Projects) \cup Held(ProjectRefs(rows, r), Projects) = Ledger!ProjectsOf(S)
               /\ \A p \in Projects : Total(rows.project[<<r, p>>].references) = 0 <=> p \notin Ledger!ProjectsOf(S)
<1> DEFINE S == Ledger!LiveIn(r)
           C == In(S, "committed")
<1>1. ASSUME NEW p \in Projects
      PROVE  /\ rows.project[<<r, p>>].references.committed > 0 <=> \E i \in C : record[i].request.project = p
             /\ rows.project[<<r, p>>].references.committed = 0 <=> ~\E i \in C : record[i].request.project = p
             /\ rows.project[<<r, p>>].references.reserved > 0 <=> \E i \in In(S, "reserved") : record[i].request.project = p
             /\ Total(rows.project[<<r, p>>].references) = 0 <=> ~\E i \in S : record[i].request.project = p
  <2> DEFINE Q == OfProject(r, p)
  <2>1. rows.project[<<r, p>>].references = Count(record, Q) BY DEF QuotaInv, RowsSound, References
  <2>2. ASSUME NEW i \in Ids, record[i].state \in LiveStates
        PROVE  record[i].request \in Q <=> record[i].request.repository = r /\ record[i].request.project = p
    BY <2>2, LiveIsTyped DEF OfProject
  <2> HIDE DEF Q
  <2>3. Asking(record, Q, "committed") # {} <=> \E i \in C : record[i].request.project = p
    BY <2>2, LiveSets DEF Asking, LiveStates
  <2>4. Asking(record, Q, "reserved") # {} <=> \E i \in In(S, "reserved") : record[i].request.project = p
    BY <2>2, LiveSets DEF Asking, LiveStates
  <2>5. \A i : i \in S <=> i \in C \/ i \in In(S, "reserved") BY LiveSets DEF LiveStates
  <2> HIDE DEF S, C
  <2> QED BY <2>1, <2>3, <2>4, <2>5, CountedIsNamed
<1>2. \A i \in S : record[i].request.project \in Projects \cup {None} BY LiveSets, LiveIsTyped, RequestTypes
<1>3. \A i : i \in S <=> i \in C \/ i \in In(S, "reserved") BY LiveSets DEF LiveStates
<1>4. \A p \in Projects : ProjectRefs(rows, r)[p] = rows.project[<<r, p>>].references BY DEF ProjectRefs
<1>5. None \notin Projects BY NoneAssumption
<1>6. Ledger!ProjectsOf(S) = {p \in Projects : \E i \in S : record[i].request.project = p}
  BY <1>2, <1>5 DEF Ledger!ProjectsOf
<1>7. Ledger!ProjectsOf(C) = {p \in Projects : \E i \in C : record[i].request.project = p}
  BY <1>2, <1>3, <1>5 DEF Ledger!ProjectsOf
<1> HIDE DEF S, C
<1>8. Firm(ProjectRefs(rows, r), Projects) = Ledger!ProjectsOf(C) BY <1>1, <1>4, <1>7 DEF Firm
<1>9. Firm(ProjectRefs(rows, r), Projects) \cup Held(ProjectRefs(rows, r), Projects) = Ledger!ProjectsOf(S)
  <2>1. \A p \in Projects : (\E i \in S : record[i].request.project = p)
                         <=> (\E i \in C : record[i].request.project = p)
                               \/ (\E i \in In(S, "reserved") : record[i].request.project = p)
    BY <1>3
  <2>2. \A p \in Projects : (\E i \in S : record[i].request.project = p)
                         <=> \/ rows.project[<<r, p>>].references.committed > 0
                             \/ rows.project[<<r, p>>].references.committed = 0
                                  /\ rows.project[<<r, p>>].references.reserved > 0
    BY <1>1, <2>1
  <2> QED BY <1>4, <1>6, <2>2 DEF Firm, Held
<1>10. \A p \in Projects : Total(rows.project[<<r, p>>].references) = 0 <=> p \notin Ledger!ProjectsOf(S) BY <1>1, <1>6
<1> QED BY <1>8, <1>9, <1>10 DEF S, C

LEMMA NamedVersions ==
    ASSUME QuotaInv, NEW r \in Repositories, NEW p \in Projects
    PROVE  LET S == Ledger!LiveIn(r)
               C == In(S, "committed")
           IN  /\ Firm(VersionRefs(rows, r, p), Versions) = Ledger!VersionsOf(C, p)
               /\ Firm(VersionRefs(rows, r, p), Versions) \cup Held(VersionRefs(rows, r, p), Versions) = Ledger!VersionsOf(S, p)
               /\ \A e \in Versions : Total(rows.version[<<r, p, e>>]) = 0 <=> e \notin Ledger!VersionsOf(S, p)
<1> DEFINE S == Ledger!LiveIn(r)
           C == In(S, "committed")
           At(i, e) == record[i].request.project = p /\ record[i].request.version = e
<1>1. ASSUME NEW e \in Versions
      PROVE  /\ rows.version[<<r, p, e>>].committed > 0 <=> \E i \in C : At(i, e)
             /\ rows.version[<<r, p, e>>].committed = 0 <=> ~\E i \in C : At(i, e)
             /\ rows.version[<<r, p, e>>].reserved > 0 <=> \E i \in In(S, "reserved") : At(i, e)
             /\ Total(rows.version[<<r, p, e>>]) = 0 <=> ~\E i \in S : At(i, e)
  <2> DEFINE Q == OfVersion(r, p, e)
  <2>1. rows.version[<<r, p, e>>] = Count(record, Q) BY DEF QuotaInv, RowsSound, References
  <2>2. ASSUME NEW i \in Ids, record[i].state \in LiveStates
        PROVE  record[i].request \in Q <=> record[i].request.repository = r /\ At(i, e)
    BY <2>2, LiveIsTyped DEF OfVersion
  <2> HIDE DEF Q, At
  <2>3. Asking(record, Q, "committed") # {} <=> \E i \in C : At(i, e) BY <2>2, LiveSets DEF Asking, LiveStates
  <2>4. Asking(record, Q, "reserved") # {} <=> \E i \in In(S, "reserved") : At(i, e)
    BY <2>2, LiveSets DEF Asking, LiveStates
  <2>5. \A i : i \in S <=> i \in C \/ i \in In(S, "reserved") BY LiveSets DEF LiveStates
  <2> HIDE DEF S, C
  <2> QED BY <2>1, <2>3, <2>4, <2>5, CountedIsNamed
<1>2. \A i \in S : record[i].request.version \in Versions \cup {None} BY LiveSets, LiveIsTyped, RequestTypes
<1>3. \A i : i \in S <=> i \in C \/ i \in In(S, "reserved") BY LiveSets DEF LiveStates
<1>4. \A e \in Versions : VersionRefs(rows, r, p)[e] = rows.version[<<r, p, e>>] BY DEF VersionRefs
<1>5. None \notin Versions BY NoneAssumption
<1>6. \A R : Ledger!VersionsOf(R, p) = {e \in {record[i].request.version : i \in R} : e # None /\ \E i \in R : At(i, e)}
  BY DEF Ledger!VersionsOf
<1>7. Ledger!VersionsOf(S, p) = {e \in Versions : \E i \in S : At(i, e)} BY <1>2, <1>5, <1>6
<1>8. Ledger!VersionsOf(C, p) = {e \in Versions : \E i \in C : At(i, e)} BY <1>2, <1>3, <1>5, <1>6
<1> HIDE DEF S, C, At
<1>9. Firm(VersionRefs(rows, r, p), Versions) = Ledger!VersionsOf(C, p) BY <1>1, <1>4, <1>8 DEF Firm
<1>10. Firm(VersionRefs(rows, r, p), Versions) \cup Held(VersionRefs(rows, r, p), Versions) = Ledger!VersionsOf(S, p)
  BY <1>1, <1>3, <1>4, <1>7 DEF Firm, Held
<1>11. \A e \in Versions : Total(rows.version[<<r, p, e>>]) = 0 <=> e \notin Ledger!VersionsOf(S, p) BY <1>1, <1>7
<1> QED BY <1>9, <1>10, <1>11 DEF S, C

(* A digest has the size that its row holds. *)
LEMMA SizeOfDigest ==
    ASSUME QuotaInv, NEW r \in Repositories, NEW S, S \subseteq Ledger!LiveIn(r), NEW d \in Ledger!DigestsOf(S)
    PROVE  Ledger!SizeOf(S, d) = BlobSizes(rows, r)[d]
<1> DEFINE i == CHOOSE j \in S : record[j].request.digest = d
<1>1. i \in S /\ record[i].request.digest = d BY DEF Ledger!DigestsOf
<1>2. Ledger!SizeOf(S, d) = record[i].request.bytes BY DEF Ledger!SizeOf
<1> HIDE DEF i
<1>3. i \in Ids /\ record[i].state \in LiveStates /\ record[i].request.repository = r BY <1>1, LiveSets
<1>4. d \in Digests BY <1>1, <1>3, LiveIsTyped, RequestTypes
<1>5. rows.blob[<<r, d>>].bytes = record[i].request.bytes BY <1>1, <1>3 DEF QuotaInv, RowsSound, SizesAgree, BlobKey
<1> QED BY <1>2, <1>4, <1>5 DEF BlobSizes

(* The counters of sound rows are typed. *)
LEMMA SoundRowsAreTyped ==
    ASSUME NEW x, x \in RowTypes
    PROVE  Counters(x) \subseteq Values /\ \A k \in DOMAIN x.blob : x.blob[k].bytes \in Nat
<1>2. DOMAIN x.project = Repositories \X Projects /\ DOMAIN x.version = Repositories \X Projects \X Versions
      /\ DOMAIN x.blob = Repositories \X Digests
  BY DEF RowTypes
<1>3. ASSUME NEW v \in Counters(x) PROVE v \in Values
  <2>1. CASE \E r \in Repositories : v \in {x.usage[r].file_bytes, x.usage[r].accounted_bytes, x.usage[r].projects}
    BY <2>1, TypesOfRows
  <2>2. CASE \E k \in DOMAIN x.project : v \in {x.project[k].references, x.project[k].versions}
    BY <1>2, <2>2 DEF RowTypes
  <2>3. CASE \E k \in DOMAIN x.version : v = x.version[k] BY <1>2, <2>3 DEF RowTypes
  <2>4. CASE \E k \in DOMAIN x.blob : v = x.blob[k].references BY <1>2, <2>4 DEF RowTypes
  <2> QED BY <1>3, <2>1, <2>2, <2>3, <2>4 DEF Counters
<1>4. \A k \in DOMAIN x.blob : x.blob[k].bytes \in Nat BY <1>2 DEF RowTypes
<1> QED BY <1>3, <1>4

LEMMA TypesHold == QuotaInv => QuotaTypeOK
<1> SUFFICES ASSUME QuotaInv PROVE QuotaTypeOK OBVIOUS
<1>1. rows \in RowTypes BY DEF QuotaInv, RowsSound
<1>2. Counters(rows) \subseteq Values /\ \A k \in DOMAIN rows.blob : rows.blob[k].bytes \in Nat
  BY <1>1, SoundRowsAreTyped
<1>3. pending \subseteq Ids BY DEF QuotaInv, PendingExact
<1>4. ASSUME NEW i \in Ids
      PROVE  \/ record[i] \in {Ledger!Unused, Ledger!Gone}
             \/ record[i].state \in {"reserved", "committed"} /\ record[i].request \in Requests
  <2>1. record[i] \in {Ledger!Unused, Ledger!Gone} \/ record[i] \in LiveRecords BY DEF QuotaInv, RecordIsSound
  <2> QED BY <2>1, DeadRecords DEF LiveStates
<1> QED BY <1>2, <1>3, <1>4 DEF QuotaTypeOK

(* References count the live records that name the row. *)
LEMMA CountIsExact ==
    ASSUME NEW Q, NEW T, NEW v, v = Count(record, Q),
           In(T, "committed") = Asking(record, Q, "committed"), In(T, "reserved") = Asking(record, Q, "reserved")
    PROVE  IsCount(v, T)
  BY DEF IsCount, Count

LEMMA ReferencesAreExact ==
    ASSUME QuotaInv, NEW r \in Repositories
    PROVE  LET S == Ledger!LiveIn(r)
           IN  /\ \A p \in Projects :
                    IsCount(rows.project[<<r, p>>].references, {i \in S : record[i].request.project = p})
               /\ \A d \in Digests :
                    IsCount(rows.blob[<<r, d>>].references, {i \in S : record[i].request.digest = d})
<1> DEFINE S == Ledger!LiveIn(r)
<1>1. ASSUME NEW p \in Projects
      PROVE  IsCount(rows.project[<<r, p>>].references, {i \in S : record[i].request.project = p})
  <2> DEFINE T == {i \in S : record[i].request.project = p}
             Q == OfProject(r, p)
  <2>1. rows.project[<<r, p>>].references = Count(record, Q) BY DEF QuotaInv, RowsSound, References
  <2>2. ASSUME NEW i \in Ids, record[i].state \in LiveStates
        PROVE  record[i].request \in Q <=> record[i].request.repository = r /\ record[i].request.project = p
    BY <2>2, LiveIsTyped DEF OfProject
  <2> HIDE DEF Q
  <2>3. In(T, "committed") = Asking(record, Q, "committed") /\ In(T, "reserved") = Asking(record, Q, "reserved")
    BY <2>2, LiveSets DEF Asking, LiveStates, In
  <2> HIDE DEF T
  <2> QED BY <2>1, <2>3, CountIsExact DEF T
<1>2. ASSUME NEW d \in Digests
      PROVE  IsCount(rows.blob[<<r, d>>].references, {i \in S : record[i].request.digest = d})
  <2> DEFINE T == {i \in S : record[i].request.digest = d}
             Q == OfBlob(r, d)
  <2>1. rows.blob[<<r, d>>].references = Count(record, Q) BY DEF QuotaInv, RowsSound, References
  <2>2. ASSUME NEW i \in Ids, record[i].state \in LiveStates
        PROVE  record[i].request \in Q <=> record[i].request.repository = r /\ record[i].request.digest = d
    BY <2>2, LiveIsTyped DEF OfBlob
  <2> HIDE DEF Q
  <2>3. In(T, "committed") = Asking(record, Q, "committed") /\ In(T, "reserved") = Asking(record, Q, "reserved")
    BY <2>2, LiveSets DEF Asking, LiveStates, In
  <2> HIDE DEF T
  <2> QED BY <2>1, <2>3, CountIsExact DEF T
<1> QED BY <1>1, <1>2

LEMMA FilesAreExact ==
    ASSUME QuotaInv, NEW r \in Repositories
    PROVE  LET S == Ledger!LiveIn(r)
           IN  IsCharge(rows.usage[r].file_bytes, Ledger!FileBytes(S), Ledger!FileBytes(In(S, "committed")))
<1> DEFINE S == Ledger!LiveIn(r)
           C == In(S, "committed")
           v == rows.usage[r].file_bytes
<1>1. Charged(v, FileSizes(record), FileRefs(record, r), Ids) BY DEF QuotaInv, RowsSound, Charges
<1>2. Firm(FileRefs(record, r), Ids) = C /\ Firm(FileRefs(record, r), Ids) \cup Held(FileRefs(record, r), Ids) = S
  BY FilesOf
<1>3. S \subseteq Ids /\ C \subseteq Ids BY LiveSets
<1> HIDE DEF S, C, v
<1>4. Ledger!FileBytes(S) = SumOver(FileSizes(record), S) /\ Ledger!FileBytes(C) = SumOver(FileSizes(record), C)
  BY <1>3, FileBytesIsSum
<1>5. Total(v) = SumOver(FileSizes(record), S) BY <1>1, <1>2, TotalOfCharge
<1>6. v.committed = SumOver(FileSizes(record), C) BY <1>1, <1>2 DEF Charged
<1> QED BY <1>4, <1>5, <1>6 DEF IsCharge, S, C, v

LEMMA BytesAreExact ==
    ASSUME QuotaInv, NEW r \in Repositories
    PROVE  LET S == Ledger!LiveIn(r)
           IN  IsCharge(rows.usage[r].accounted_bytes, Ledger!AccountedBytes(S), Ledger!AccountedBytes(In(S, "committed")))
<1> DEFINE S == Ledger!LiveIn(r)
           C == In(S, "committed")
           v == rows.usage[r].accounted_bytes
           f == BlobSizes(rows, r)
           refs == BlobRefs(rows, r)
<1>1. Charged(v, f, refs, Digests) BY DEF QuotaInv, RowsSound, Charges
<1>2. Firm(refs, Digests) = Ledger!DigestsOf(C) /\ Firm(refs, Digests) \cup Held(refs, Digests) = Ledger!DigestsOf(S)
  BY NamedDigests
<1>3. S \subseteq Ledger!LiveIn(r) /\ C \subseteq Ledger!LiveIn(r) BY DEF In
<1>4. /\ \A d \in Ledger!DigestsOf(S) : f[d] = Ledger!SizeOf(S, d)
      /\ \A d \in Ledger!DigestsOf(C) : f[d] = Ledger!SizeOf(C, d)
  BY <1>3, SizeOfDigest
<1> HIDE DEF S, C, v, f, refs
<1>5. Summable(f, Ledger!DigestsOf(S)) /\ Total(v) = SumOver(f, Ledger!DigestsOf(S)) BY <1>1, <1>2, TotalOfCharge
<1>6. Summable(f, Ledger!DigestsOf(C)) /\ v.committed = SumOver(f, Ledger!DigestsOf(C)) BY <1>1, <1>2 DEF Charged
<1>7. IsFiniteSet(Ledger!DigestsOf(S)) /\ IsFiniteSet(Ledger!DigestsOf(C)) BY <1>5, <1>6 DEF Summable
<1>8. Ledger!AccountedBytes(S) = SumOver(f, Ledger!DigestsOf(S)) BY <1>4, <1>7, AccountedBytesIsSum
<1>9. Ledger!AccountedBytes(C) = SumOver(f, Ledger!DigestsOf(C)) BY <1>4, <1>7, AccountedBytesIsSum
<1> QED BY <1>5, <1>6, <1>8, <1>9 DEF IsCharge, S, C, v

(* A charge of one for each key counts the keys. *)
LEMMA OnesAreCounted ==
    ASSUME NEW K, NEW v, NEW refs, Charged(v, Ones(K), refs, K)
    PROVE  IsCharge(v, Cardinality(Firm(refs, K) \cup Held(refs, K)), Cardinality(Firm(refs, K)))
<1> DEFINE F == Firm(refs, K)
           A == Firm(refs, K) \cup Held(refs, K)
<1>1. Summable(Ones(K), A) /\ Total(v) = SumOver(Ones(K), A) BY TotalOfCharge
<1>2. Summable(Ones(K), F) /\ v.committed = SumOver(Ones(K), F) BY DEF Charged
<1>3. (\A x \in A : Ones(K)[x] = 1) /\ (\A x \in F : Ones(K)[x] = 1) BY DEF Firm, Held, Ones
<1>4. IsFiniteSet(A) /\ IsFiniteSet(F) BY <1>1, <1>2 DEF Summable
<1> HIDE DEF A, F
<1>5. SumOver(Ones(K), A) = Cardinality(A) BY <1>3, <1>4, SumOfOnes
<1>6. SumOver(Ones(K), F) = Cardinality(F) BY <1>3, <1>4, SumOfOnes
<1> QED BY <1>1, <1>2, <1>5, <1>6 DEF IsCharge, A, F

LEMMA NamesAreExact ==
    ASSUME QuotaInv, NEW r \in Repositories
    PROVE  LET S == Ledger!LiveIn(r)
               C == In(S, "committed")
           IN  /\ IsCharge(rows.usage[r].projects, Cardinality(Ledger!ProjectsOf(S)), Cardinality(Ledger!ProjectsOf(C)))
               /\ \A p \in Projects :
                    IsCharge(rows.project[<<r, p>>].versions, Cardinality(Ledger!VersionsOf(S, p)),
                             Cardinality(Ledger!VersionsOf(C, p)))
<1> DEFINE S == Ledger!LiveIn(r)
           C == In(S, "committed")
<1>1. /\ Charged(rows.usage[r].projects, Ones(Projects), ProjectRefs(rows, r), Projects)
      /\ \A p \in Projects :
           Charged(rows.project[<<r, p>>].versions, Ones(Versions), VersionRefs(rows, r, p), Versions)
  BY DEF QuotaInv, RowsSound, Charges
<1>2. IsCharge(rows.usage[r].projects, Cardinality(Ledger!ProjectsOf(S)), Cardinality(Ledger!ProjectsOf(C)))
  <2>1. /\ Firm(ProjectRefs(rows, r), Projects) = Ledger!ProjectsOf(C)
        /\ Firm(ProjectRefs(rows, r), Projects) \cup Held(ProjectRefs(rows, r), Projects) = Ledger!ProjectsOf(S)
    BY NamedProjects
  <2> HIDE DEF S, C
  <2>2. IsCharge(rows.usage[r].projects,
                 Cardinality(Firm(ProjectRefs(rows, r), Projects) \cup Held(ProjectRefs(rows, r), Projects)),
                 Cardinality(Firm(ProjectRefs(rows, r), Projects)))
    BY <1>1, OnesAreCounted
  <2> QED BY <2>1, <2>2
<1>3. ASSUME NEW p \in Projects
      PROVE  IsCharge(rows.project[<<r, p>>].versions, Cardinality(Ledger!VersionsOf(S, p)),
                      Cardinality(Ledger!VersionsOf(C, p)))
  <2>1. /\ Firm(VersionRefs(rows, r, p), Versions) = Ledger!VersionsOf(C, p)
        /\ Firm(VersionRefs(rows, r, p), Versions) \cup Held(VersionRefs(rows, r, p), Versions) = Ledger!VersionsOf(S, p)
    BY NamedVersions
  <2> HIDE DEF S, C
  <2>2. IsCharge(rows.project[<<r, p>>].versions,
                 Cardinality(Firm(VersionRefs(rows, r, p), Versions) \cup Held(VersionRefs(rows, r, p), Versions)),
                 Cardinality(Firm(VersionRefs(rows, r, p), Versions)))
    BY <1>1, OnesAreCounted
  <2> QED BY <2>1, <2>2
<1> QED BY <1>2, <1>3

LEMMA CountersAreExact == QuotaInv => CountersExact
<1> SUFFICES ASSUME QuotaInv PROVE CountersExact OBVIOUS
<1>1. QuotaTypeOK /\ PendingExact BY TypesHold DEF QuotaInv
<1>2. ASSUME NEW r \in Repositories
      PROVE  LET S == Ledger!LiveIn(r)
                 C == In(S, "committed")
                 u == rows.usage[r]
             IN  /\ IsCharge(u.file_bytes, Ledger!FileBytes(S), Ledger!FileBytes(C))
                 /\ IsCharge(u.accounted_bytes, Ledger!AccountedBytes(S), Ledger!AccountedBytes(C))
                 /\ IsCharge(u.projects, Cardinality(Ledger!ProjectsOf(S)), Cardinality(Ledger!ProjectsOf(C)))
                 /\ \A p \in Projects :
                      /\ IsCharge(rows.project[<<r, p>>].versions, Cardinality(Ledger!VersionsOf(S, p)),
                                  Cardinality(Ledger!VersionsOf(C, p)))
                      /\ IsCount(rows.project[<<r, p>>].references, {i \in S : record[i].request.project = p})
                 /\ \A d \in Digests :
                      IsCount(rows.blob[<<r, d>>].references, {i \in S : record[i].request.digest = d})
  BY FilesAreExact, BytesAreExact, NamesAreExact, ReferencesAreExact
<1> QED BY <1>1, <1>2 DEF CountersExact

(* meta/quota.rs, reserve_quota, transition, release and repair: after any     *)
(* mixture of reservations, commits, releases and repairs every counter is    *)
(* what a recount of the live reservations gives, the pending index is        *)
(* exactly the reservations a repair must release, and each live reservation  *)
(* can be committed or released without a counter leaving u64.                *)
THEOREM AccountsStayExact == QuotaSpec => []AccountsAreExact
<1>1. QuotaInit => QuotaInv BY QuotaInvInit
<1>2. QuotaInv /\ [QuotaNext]_quotaVars => QuotaInv'
  <2>1. ASSUME QuotaInv, UNCHANGED quotaVars PROVE QuotaInv'
    BY <2>1 DEF quotaVars, QuotaInv, PendingExact, RecordIsSound, RowsSound, References, SizesAgree, Charges, Bounded
  <2> QED BY <2>1, QuotaInvNext
<1>3. QuotaInv => AccountsAreExact BY CountersAreExact, SettlesAlways DEF AccountsAreExact
<1> QED BY <1>1, <1>2, <1>3, PTL DEF QuotaSpec

--------------------------------
(* The counters admit what the ledger admits. *)

(* The same operator, reached through the instance. *)
LEMMA LedgerCardinality == \A S : Ledger!Cardinality(S) = Cardinality(S)
  BY DEF Ledger!Cardinality, Cardinality

(* What a request adds is what no live reservation of its repository names. *)
LEMMA AddsWhatIsNotNamed ==
    ASSUME QuotaInv, NEW q \in Requests
    PROVE  LET S == Ledger!LiveIn(q.repository)
           IN  /\ AddsBytes(q) <=> q.digest \notin Ledger!DigestsOf(S)
               /\ AddsProject(q) <=> q.project \notin Ledger!ProjectsOf(S) \cup {None}
               /\ AddsVersion(q) <=> q.version \notin Ledger!VersionsOf(S, q.project) \cup {None}
<1> DEFINE r == q.repository
           S == Ledger!LiveIn(r)
<1>0. /\ r \in Repositories /\ q.digest \in Digests
      /\ q.project \in Projects \cup {None} /\ q.version \in Versions \cup {None}
      /\ q.project = None => q.version = None
      /\ None \notin Projects /\ None \notin Versions
  BY RequestTypes
<1>1. /\ \A d \in Digests : Total(rows.blob[<<r, d>>].references) = 0 <=> d \notin Ledger!DigestsOf(S)
      /\ \A p \in Projects : Total(rows.project[<<r, p>>].references) = 0 <=> p \notin Ledger!ProjectsOf(S)
      /\ \A p \in Projects, e \in Versions : Total(rows.version[<<r, p, e>>]) = 0 <=> e \notin Ledger!VersionsOf(S, p)
  BY <1>0, NamedDigests, NamedProjects, NamedVersions
<1>2. AddsBytes(q) <=> Total(rows.blob[<<r, q.digest>>].references) = 0 BY DEF AddsBytes, BlobKey
<1>3. AddsProject(q) <=> q.project # None /\ Total(rows.project[<<r, q.project>>].references) = 0
  BY DEF AddsProject, ProjectKeys
<1>4. AddsVersion(q) <=> q.version # None /\ Total(rows.version[<<r, q.project, q.version>>]) = 0
  BY DEF AddsVersion, VersionKeys
<1> HIDE DEF S, r
<1>5. AddsBytes(q) <=> q.digest \notin Ledger!DigestsOf(S) BY <1>0, <1>1, <1>2
<1>6. AddsProject(q) <=> q.project \notin Ledger!ProjectsOf(S) \cup {None} BY <1>0, <1>1, <1>3
<1>7. AddsVersion(q) <=> q.version \notin Ledger!VersionsOf(S, q.project) \cup {None} BY <1>0, <1>1, <1>4
<1> QED BY <1>5, <1>6, <1>7 DEF S, r

LEMMA ViolationsAgree ==
    ASSUME QuotaInv, NEW q \in Requests
    PROVE  LimitViolations(q) = Ledger!Violations(q)
<1> DEFINE r == q.repository
           S == Ledger!LiveIn(r)
           p == q.project
<1>0. /\ r \in Repositories /\ p \in Projects \cup {None} /\ q.version \in Versions \cup {None}
      /\ p = None => q.version = None
  BY RequestTypes
<1>1. /\ Total(rows.usage[r].accounted_bytes) = Ledger!AccountedBytes(S)
      /\ Total(rows.usage[r].projects) = Cardinality(Ledger!ProjectsOf(S))
      /\ \A o \in Projects : Total(rows.project[<<r, o>>].versions) = Cardinality(Ledger!VersionsOf(S, o))
  BY <1>0, BytesAreExact, NamesAreExact DEF IsCharge
<1>2. /\ AddsBytes(q) <=> q.digest \notin Ledger!DigestsOf(S)
      /\ AddsProject(q) <=> q.project \notin Ledger!ProjectsOf(S) \cup {None}
      /\ AddsVersion(q) <=> q.version \notin Ledger!VersionsOf(S, p) \cup {None}
  BY AddsWhatIsNotNamed
<1>3. \A n, l : Exceeds(n, l) <=> Ledger!Exceeds(n, l) BY DEF Exceeds, Ledger!Exceeds
<1>4. AddsVersion(q) => /\ p \in Projects
                        /\ \A Bad : (\E k \in ProjectKeys(q) : k \in Bad) <=> <<r, p>> \in Bad
  <2>1. ProjectKeys(q) = IF p = None THEN {} ELSE {<<r, p>>} BY DEF ProjectKeys
  <2> HIDE DEF r, p, S
  <2> QED BY <1>0, <1>2, <2>1
<1>5. AddsVersion(q) => (\E k \in ProjectKeys(q) : Exceeds(Total(rows.project[k].versions) + 1, MaxVersionsPerProject))
                          <=> Exceeds(Cardinality(Ledger!VersionsOf(S, p)) + 1, MaxVersionsPerProject)
  <2>1. ProjectKeys(q) = IF p = None THEN {} ELSE {<<r, p>>} BY DEF ProjectKeys
  <2> HIDE DEF r, p, S
  <2> QED BY <1>1, <1>4, <2>1, <1>0
<1> DEFINE F == Exceeds(q.bytes, MaxFileBytes)
           A == AddsBytes(q) /\ Exceeds(Total(rows.usage[r].accounted_bytes) + q.bytes, MaxAccountedBytes)
           P == AddsProject(q) /\ Exceeds(Total(rows.usage[r].projects) + 1, MaxProjects)
           V == AddsVersion(q) /\ \E k \in ProjectKeys(q) : Exceeds(Total(rows.project[k].versions) + 1, MaxVersionsPerProject)
<1>6. LimitViolations(q) = {v \in LimitNames : \/ v = "file_bytes" /\ F
                                               \/ v = "accounted_bytes" /\ A
                                               \/ v = "projects" /\ P
                                               \/ v = "versions_per_project" /\ V}
  BY DEF LimitViolations, LimitNames
<1> DEFINE A2 == /\ q.digest \notin Ledger!DigestsOf(S)
                 /\ Ledger!Exceeds(Ledger!AccountedBytes(S) + q.bytes, MaxAccountedBytes)
           P2 == /\ q.project \notin Ledger!ProjectsOf(S) \cup {None}
                 /\ Ledger!Exceeds(Ledger!Cardinality(Ledger!ProjectsOf(S)) + 1, MaxProjects)
           V2 == /\ q.version \notin Ledger!VersionsOf(S, q.project) \cup {None}
                 /\ Ledger!Exceeds(Ledger!Cardinality(Ledger!VersionsOf(S, q.project)) + 1, MaxVersionsPerProject)
<1>7. Ledger!Violations(q) = {v \in LimitNames : \/ v = "file_bytes" /\ Ledger!Exceeds(q.bytes, MaxFileBytes)
                                                 \/ v = "accounted_bytes" /\ A2
                                                 \/ v = "projects" /\ P2
                                                 \/ v = "versions_per_project" /\ V2}
  BY DEF Ledger!Violations, LimitNames
<1>8. (F <=> Ledger!Exceeds(q.bytes, MaxFileBytes)) /\ (A <=> A2) /\ (P <=> P2)
  <2> HIDE DEF S, r
  <2> QED BY <1>1, <1>2, <1>3, LedgerCardinality
<1>9. V <=> V2
  <2> HIDE DEF S, r
  <2> QED BY <1>2, <1>3, <1>5, LedgerCardinality
<1> HIDE DEF F, A, P, V, A2, P2, V2
<1> QED BY <1>6, <1>7, <1>8, <1>9

(* What is admitted by the counters is admitted by a recount. *)
LEMMA ReservesAsTheLedger ==
    ASSUME QuotaInv, NEW i \in Ids, NEW q \in Requests, NEW audit \in Audits, Reserve(i, q, audit)
    PROVE  Ledger!Reserve(i, q, audit)
<1> DEFINE S == Ledger!LiveIn(q.repository)
<1>1. /\ record[i] = Ledger!Unused /\ SizeAgrees(q) /\ TotalsFit(q) /\ (audit \/ LimitViolations(q) = {})
      /\ record' = [record EXCEPT ![i] =
                      [state |-> "reserved", request |-> q, violations |-> LimitViolations(q)]]
  BY DEF Reserve
<1>2. LimitViolations(q) = Ledger!Violations(q) BY ViolationsAgree
<1>3. q.repository \in Repositories /\ q.digest \in Digests BY RequestTypes
<1>4. ASSUME NEW j \in S, record[j].request.digest = q.digest
      PROVE  record[j].request.bytes = q.bytes
  <2>1. j \in Ids /\ record[j].state \in LiveStates /\ record[j].request.repository = q.repository BY LiveSets
  <2>2. q.digest \in Ledger!DigestsOf(S) BY <1>4 DEF Ledger!DigestsOf
  <2>3. ~AddsBytes(q) BY <2>2, AddsWhatIsNotNamed
  <2>4. rows.blob[BlobKey(q)].bytes = q.bytes BY <1>1, <2>3 DEF SizeAgrees
  <2>5. rows.blob[BlobKey(record[j].request)].bytes = record[j].request.bytes
    BY <2>1 DEF QuotaInv, RowsSound, SizesAgree
  <2>6. BlobKey(record[j].request) = BlobKey(q) BY <1>4, <2>1 DEF BlobKey
  <2> QED BY <2>4, <2>5, <2>6
<1>5. Ledger!FileBytes(S) + q.bytes <= MaxCount
  <2>1. Total(rows.usage[q.repository].file_bytes) = Ledger!FileBytes(S) BY <1>3, FilesAreExact DEF IsCharge
  <2>2. Total(rows.usage[q.repository].file_bytes) + q.bytes <= MaxCount BY <1>1 DEF TotalsFit
  <2> QED BY <2>1, <2>2
<1> QED BY <1>1, <1>2, <1>4, <1>5 DEF Ledger!Reserve

LEMMA StepsAsTheLedger == QuotaInv /\ QuotaNext => Ledger!Next
<1> SUFFICES ASSUME QuotaInv, QuotaNext PROVE Ledger!Next OBVIOUS
<1>1. ASSUME NEW i \in Ids, NEW q \in Requests, NEW audit \in Audits, Reserve(i, q, audit) PROVE Ledger!Next
  <2>1. Ledger!Reserve(i, q, audit) /\ q \in Ledger!Requests BY <1>1, ReservesAsTheLedger DEF Requests
  <2> QED BY <2>1 DEF Ledger!Next
<1>2. ASSUME NEW i \in Ids, Commit(i) PROVE Ledger!Next BY <1>2 DEF Commit, Ledger!Commit, Ledger!Next
<1>3. ASSUME NEW i \in Ids, Release(i) PROVE Ledger!Next BY <1>3 DEF Release, Ledger!Release, Ledger!Next
<1>4. ASSUME NEW S \in SUBSET Ids, Repair(S) PROVE Ledger!Next
  <2>1. /\ S \subseteq pending /\ (Cardinality(S) = RepairLimit \/ Cardinality(S) < RepairLimit)
        /\ record' = [i \in Ids |-> IF i \in S THEN Ledger!Gone ELSE record[i]]
    BY <1>4 DEF Repair
  <2>2. S \subseteq {i \in Ledger!Live : record[i].state = "reserved"} BY <2>1 DEF QuotaInv, PendingExact, Ledger!Live
  <2>3. Cardinality(S) \in Nat /\ RepairLimit \in Nat BY IdAssumption, FS_Subset, FS_CardinalityType, CountAssumption
  <2>4. Cardinality(S) <= RepairLimit BY <2>1, <2>3
  <2>5. Ledger!Repair(S) BY <2>1, <2>2, <2>4, LedgerCardinality DEF Ledger!Repair
  <2> QED BY <2>5 DEF Ledger!Next
<1> QED BY <1>1, <1>2, <1>3, <1>4 DEF QuotaNext

(* meta/quota.rs, limit_violations: the counters admit a request only when a  *)
(* recount of the live reservations admits it, and an audited request is      *)
(* recorded with the violations a recount finds: Quota implements QuotaLedger. *)
THEOREM QuotaImplementsLedger == QuotaSpec => RefinesLedger
<1>1. QuotaInit => QuotaInv /\ Ledger!Init BY QuotaInvInit DEF QuotaInit, Ledger!Init
<1>2. QuotaInv /\ [QuotaNext]_quotaVars => QuotaInv' /\ [Ledger!Next]_record
  <2>1. ASSUME QuotaInv, UNCHANGED quotaVars PROVE QuotaInv' /\ record' = record
    BY <2>1 DEF quotaVars, QuotaInv, PendingExact, RecordIsSound, RowsSound, References, SizesAgree, Charges, Bounded
  <2> QED BY <2>1, QuotaInvNext, StepsAsTheLedger
<1> QED BY <1>1, <1>2, PTL DEF QuotaSpec, RefinesLedger, Ledger!Spec

================================

---------------- MODULE JobScheduler ----------------
(* The node-local job scheduler (peryx-driver/src/jobs/scheduler.rs) and
   the durable run records (peryx-storage/src/meta/job.rs).

   submit is synchronous but may run on any thread, so its steps
   interleave with other callers, with shutdown and with the spawned
   tasks.  A task takes a worker permit, a permit of its kind and a permit
   of its repository, in this order, and drops them all when it ends. *)
EXTENDS Naturals, Sequences, FiniteSets

CONSTANTS
    Kinds, JobScopes,   \* a job is a kind and the repository it acts on
    Callers,         \* threads that submit
    Tasks,           \* spawned tasks; bounds the number of admissions
    Workers,         \* JobLimits::workers
    Queue,           \* JobLimits::queue
    PerKind,         \* JobLimits::per_kind
    PerRepository,   \* JobLimits::per_repository
    MaxStoreErrors,  \* bound on failing writes of run records
    Panics,          \* whether a job may panic
    MaxCrashes,      \* bound on process stops
    NoJob

ASSUME JobLimitAssumption == {Workers, Queue, PerKind, PerRepository} \subseteq Nat \ {0}
ASSUME FaultAssumption == MaxStoreErrors \in Nat /\ MaxCrashes \in Nat /\ Panics \in BOOLEAN

VARIABLES
    caller,     \* where each caller is inside submit, and with which job
    task,       \* where each task is, its job and its run record
    inflight,   \* Shared::inflight
    cancelled,  \* Shared::cancel
    shutdown,   \* "up", "draining", "drained" or "gave_up"
    runs,       \* JOB_RUN: the state of each record
    faults      \* failures so far, and how many runs the process found at its start

jobVars == <<caller, task, inflight, cancelled, shutdown, runs, faults>>

Jobs == Kinds \X JobScopes
Kind(job) == job[1]
Scope(job) == job[2]

NoTask == [pc |-> "free", job |-> NoJob, run |-> 0]

Live == {t \in Tasks : task[t].pc \notin {"free", "done", "panicked"}}
Panicked == {t \in Tasks : task[t].pc = "panicked"}

(* Tasks that hold a queue slot, a worker, a kind and a repository permit. *)
Holding(pcs) == {t \in Live : task[t].pc \in pcs}
HoldsSlot == Live
HoldsWorker == Holding({"kind", "repository", "check", "start", "run", "finish"})
HoldsKind == Holding({"repository", "check", "start", "run", "finish"})

HoldsRepository == Holding({"check", "start", "run", "finish"})

JobInit ==
    /\ caller = [c \in Callers |-> [pc |-> "idle", job |-> NoJob]]
    /\ task = [t \in Tasks |-> NoTask]
    /\ inflight = {}
    /\ cancelled = FALSE
    /\ shutdown = "up"
    /\ runs = <<>>
    /\ faults = [store |-> 0, crashes |-> 0, found |-> 0]

--------------------------------
(* submit *)

CheckCancelled(c, job) ==
    /\ caller[c].pc = "idle"
    /\ ~cancelled
    /\ \E t \in Tasks : task[t].pc = "free"
    /\ caller' = [caller EXCEPT ![c] = [pc |-> "insert", job |-> job]]
    /\ UNCHANGED <<task, inflight, cancelled, shutdown, runs, faults>>

(* Mutant of InsertKey: the key of a run in flight is not looked at. *)
InsertKeyAlways(c) ==
    /\ caller[c].pc = "insert"
    /\ inflight' = inflight \cup {caller[c].job}
    /\ caller' = [caller EXCEPT ![c].pc = "slot"]
    /\ UNCHANGED <<task, cancelled, shutdown, runs, faults>>

(* The conflict key, under the lock of the set; taken: Submit::Conflict. *)
InsertKey(c) ==
    /\ caller[c].pc = "insert"
    /\ IF caller[c].job \in inflight
         THEN /\ caller' = [caller EXCEPT ![c] = [pc |-> "idle", job |-> NoJob]]
              /\ UNCHANGED inflight
         ELSE /\ inflight' = inflight \cup {caller[c].job}
              /\ caller' = [caller EXCEPT ![c].pc = "slot"]
    /\ UNCHANGED <<task, cancelled, shutdown, runs, faults>>

(* A queue slot, and the spawn; none left: the key is given back and the    *)
(* answer is Submit::QueueFull.                                             *)
TakeSlot(c) ==
    /\ caller[c].pc = "slot"
    /\ \/ /\ Cardinality(HoldsSlot) < Queue
          /\ \E t \in Tasks :
               /\ task[t].pc = "free"
               /\ task' = [task EXCEPT ![t] = [pc |-> "worker", job |-> caller[c].job, run |-> 0]]
          /\ UNCHANGED inflight
       \/ /\ Cardinality(HoldsSlot) >= Queue
          /\ inflight' = inflight \ {caller[c].job}
          /\ UNCHANGED task
    /\ caller' = [caller EXCEPT ![c] = [pc |-> "idle", job |-> NoJob]]
    /\ UNCHANGED <<cancelled, shutdown, runs, faults>>

--------------------------------
(* run_admitted *)

TaskStep(t, pc) == task' = [task EXCEPT ![t].pc = pc]

WorkerFree == Cardinality(HoldsWorker) < Workers
KindFree(kind) == Cardinality({u \in HoldsKind : Kind(task[u].job) = kind}) < PerKind
RepositoryFree(scope) == Cardinality({u \in HoldsRepository : Scope(task[u].job) = scope}) < PerRepository

AcquireWorker(t) ==
    /\ task[t].pc = "worker" /\ WorkerFree
    /\ TaskStep(t, "kind")
    /\ UNCHANGED <<caller, inflight, cancelled, shutdown, runs, faults>>

AcquireKind(t) ==
    /\ task[t].pc = "kind" /\ KindFree(Kind(task[t].job))
    /\ TaskStep(t, "repository")
    /\ UNCHANGED <<caller, inflight, cancelled, shutdown, runs, faults>>

AcquireRepository(t) ==
    /\ task[t].pc = "repository" /\ RepositoryFree(Scope(task[t].job))
    /\ TaskStep(t, "check")
    /\ UNCHANGED <<caller, inflight, cancelled, shutdown, runs, faults>>

(* The end of run_admitted: the key leaves the set, then the permits drop.  *)
End(t) ==
    /\ task' = [task EXCEPT ![t].pc = "done"]
    /\ inflight' = inflight \ {task[t].job}

(* execute looks at the cancellation signal. *)
CheckToken(t) ==
    /\ task[t].pc = "check"
    /\ IF cancelled
         THEN End(t)
         ELSE TaskStep(t, "start") /\ UNCHANGED inflight
    /\ UNCHANGED <<caller, cancelled, shutdown, runs, faults>>

(* run_persisted: start_job_run; a failing write fails the job unrun. *)
Start(t) ==
    /\ task[t].pc = "start"
    /\ \/ /\ runs' = Append(runs, "running")
          /\ task' = [task EXCEPT ![t].pc = "run", ![t].run = Len(runs) + 1]
          /\ UNCHANGED <<inflight, faults>>
       \/ /\ faults.store < MaxStoreErrors
          /\ faults' = [faults EXCEPT !.store = @ + 1]
          /\ End(t)
          /\ UNCHANGED runs
    /\ UNCHANGED <<caller, cancelled, shutdown>>

(* The job returns, with a report or an error. *)
Run(t) ==
    /\ task[t].pc = "run"
    /\ TaskStep(t, "finish")
    /\ UNCHANGED <<caller, inflight, cancelled, shutdown, runs, faults>>

(* The job panics: the task unwinds, the permits drop, and nothing after    *)
(* the await is executed.                                                   *)
Panic(t) ==
    /\ Panics
    /\ task[t].pc = "run"
    /\ TaskStep(t, "panicked")
    /\ UNCHANGED <<caller, inflight, cancelled, shutdown, runs, faults>>

(* finish_job_run, or its write fails and the record stays as it was. *)
FinishRun(t) ==
    /\ task[t].pc = "finish"
    /\ \/ /\ \E s \in {"succeeded", "failed"} : runs' = [runs EXCEPT ![task[t].run] = s]
          /\ UNCHANGED faults
       \/ /\ faults.store < MaxStoreErrors
          /\ faults' = [faults EXCEPT !.store = @ + 1]
          /\ UNCHANGED runs
    /\ End(t)
    /\ UNCHANGED <<caller, cancelled, shutdown>>

--------------------------------
(* shutdown: cancel and close the tracker ... *)
Shutdown ==
    /\ shutdown = "up"
    /\ cancelled' = TRUE
    /\ shutdown' = "draining"
    /\ UNCHANGED <<caller, task, inflight, runs, faults>>

(* ... and return when no task is left, or when the grace period is over. *)
Drained ==
    /\ shutdown = "draining"
    /\ shutdown' \in (IF Live = {} THEN {"drained"} ELSE {"gave_up"})
    /\ UNCHANGED <<caller, task, inflight, cancelled, runs, faults>>

(* The process stops; a new one starts with nothing in memory. *)
Crash ==
    /\ faults.crashes < MaxCrashes
    /\ faults' = [faults EXCEPT !.crashes = @ + 1, !.found = Len(runs)]
    /\ caller' = [c \in Callers |-> [pc |-> "idle", job |-> NoJob]]
    /\ task' = [t \in Tasks |-> IF t \in Live \cup Panicked THEN [task[t] EXCEPT !.pc = "done"] ELSE task[t]]
    /\ inflight' = {}
    /\ cancelled' = FALSE
    /\ shutdown' = "up"
    /\ UNCHANGED runs

AdvanceTask(t) ==
    \/ AcquireWorker(t) \/ AcquireKind(t) \/ AcquireRepository(t)
    \/ CheckToken(t) \/ Start(t) \/ Run(t) \/ FinishRun(t)

Submit(c) == InsertKey(c) \/ TakeSlot(c)

JobNext ==
    \/ \E c \in Callers : Submit(c) \/ \E job \in Jobs : CheckCancelled(c, job)
    \/ \E t \in Tasks : AdvanceTask(t) \/ Panic(t)
    \/ Shutdown
    \/ Drained
    \/ Crash

JobSpec == JobInit /\ [][JobNext]_jobVars

--------------------------------
(* Types. *)
JobTypeOK ==
    /\ caller \in [Callers -> [pc : {"idle", "insert", "slot"}, job : Jobs \cup {NoJob}]]
    /\ task \in [Tasks -> [pc : {"free", "worker", "kind", "repository", "check", "start",
                                 "run", "finish", "done", "panicked"},
                           job : Jobs \cup {NoJob}, run : 0..Len(runs)]]
    /\ inflight \subseteq Jobs
    /\ cancelled \in BOOLEAN
    /\ shutdown \in {"up", "draining", "drained", "gave_up"}
    /\ runs \in Seq({"running", "succeeded", "failed"})
    /\ faults \in [store : 0..MaxStoreErrors, crashes : 0..MaxCrashes, found : 0..Len(runs)]

(* Two runs of one kind on one repository never overlap, however they were  *)
(* submitted, and no repository is worked on past its bound.                *)
NoOverlap ==
    /\ \A t, u \in Live : t # u => task[t].job # task[u].job
    /\ \A s \in JobScopes :
         Cardinality({t \in Holding({"run"}) : Scope(task[t].job) = s}) <= PerRepository

(* The set of conflict keys is exact: the runs that are admitted or about   *)
(* to be, and besides them only the jobs that panicked in this process.     *)
KeysAreExact ==
    /\ JobTypeOK
    /\ inflight = {task[t].job : t \in Live \cup Panicked}
                    \cup {caller[c].job : c \in {x \in Callers : caller[x].pc = "slot"}}

(* Not met by the code when a job panics.  Submit::Conflict: "A run with    *)
(* the same kind and scope is already in flight".                           *)
ConflictMeansInFlight ==
    inflight = {task[t].job : t \in Live}
                 \cup {caller[c].job : c \in {x \in Callers : caller[x].pc = "slot"}}

(* Once shutdown has returned without giving up no job is at work, not even *)
(* one whose submission had passed the first check and was spawned later.   *)
DrainedIsIdle == shutdown = "drained" => Holding({"start", "run", "finish"}) = {}

(* Every record of a run that is over is closed: of the records this        *)
(* process opened only those of runs in flight, of panicked ones, and those *)
(* whose closing write failed, say running.                                 *)
RunsAreClosed ==
    Cardinality({r \in (faults.found + 1)..Len(runs) : runs[r] = "running"})
        <= Cardinality(Holding({"run", "finish"}) \cup Panicked) + faults.store

(* What ENABLED AdvanceTask(t) comes to: only the permits are waited for.   *)
CanGoOn(t) ==
    /\ task[t].pc = "worker" => WorkerFree
    /\ task[t].pc = "kind" => KindFree(Kind(task[t].job))
    /\ task[t].pc = "repository" => RepositoryFree(Scope(task[t].job))

(* Tasks that wait for a kind or repository permit while they hold others   *)
(* never block everyone: as long as a job is admitted, one of them can go   *)
(* on.                                                                      *)
NeverStuck == Live # {} => \E t \in Live : CanGoOn(t)

\* Runs exclude each other exactly by their keys, every run that is over is closed, no permits are waited for
\* in a circle, and a shutdown that returns leaves no job at work.
JobsAreSound == NoOverlap /\ KeysAreExact /\ RunsAreClosed /\ NeverStuck /\ DrainedIsIdle

================================

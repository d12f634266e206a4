---------------- MODULE Generations ----------------
(* Generation publication for what peryx mirrors from an upstream: the
   root project catalog of an index (sync_catalog with store/projects.rs)
   and, by the same protocol, one project's file metadata
   (sync_project_files with store/index.rs).

   A sync fetches a document, writes its names in bounded transactions
   under a generation number no other sync uses, and swaps one pointer
   when the whole document parsed.  Every transaction is a step of its
   own, so the process may stop between any two of them; rows of a
   displaced or interrupted generation are deleted in batches, before
   their number is forgotten.  A per-index lock serialises syncs in one
   process; readers take no lock and read pointer and rows one after the
   other. *)
EXTENDS Naturals, FiniteSets

CONSTANTS
    Syncers,     \* concurrent callers of the sync in one process
    CatalogReaders,     \* concurrent callers of list_projects
    Names,       \* canonical names
    Versions,    \* versions of the upstream document, each with its own ETag
    Document,    \* the names each version lists
    Batch,       \* CATALOG_BATCH, names per staging transaction
    DeleteBatch, \* CATALOG_DELETE_BATCH, rows per deletion transaction
    MaxGeneration, \* bound on the generations begun
    MaxCrashes,  \* bound on process stops
    NoGen         \* an absent generation

ASSUME BatchAssumption == Batch \in Nat \ {0} /\ DeleteBatch \in Nat \ {0}
ASSUME BoundAssumption == MaxGeneration \in Nat /\ MaxCrashes \in Nat
ASSUME DocumentAssumption ==
    /\ IsFiniteSet(Names)
    /\ Document \in [Versions -> SUBSET Names]
ASSUME NoneAssumption == NoGen \notin Nat /\ NoGen \notin Syncers

Gens == 1..MaxGeneration
ActiveGeneration == [generation : Gens, etag : Versions, count : Nat]

VARIABLES
    state,   \* the CatalogState row
    rows,    \* the name rows under each generation's prefix
    remote,  \* the version the upstream serves
    lock,    \* the holder of the per-index lock
    syncPc,      \* where each syncer is
    job,     \* what each syncer holds in local variables
    reader,  \* what each reader holds
    crashes

genVars == <<state, rows, remote, lock, syncPc, job, reader, crashes>>

States == [active : ActiveGeneration \cup {[generation |-> NoGen]},
           staging : Gens \cup {NoGen}, retired : Gens \cup {NoGen},
           next_generation : 0..MaxGeneration]

Jobs == [seen : [staging : Gens \cup {NoGen}, retired : Gens \cup {NoGen}],
         doc : Versions \cup {NoGen}, gen : Gens \cup {NoGen}, expected : Gens \cup {NoGen},
         left : SUBSET Names, count : Nat, published : BOOLEAN]
Listings == [gen : Gens \cup {NoGen}, doc : Versions \cup {NoGen}, listed : SUBSET Names, done : BOOLEAN]

NoActive == [generation |-> NoGen]
NoJob == [seen |-> [staging |-> NoGen, retired |-> NoGen], doc |-> NoGen, gen |-> NoGen, expected |-> NoGen,
          left |-> {}, count |-> 0, published |-> FALSE]
NoReader == [gen |-> NoGen, doc |-> NoGen, listed |-> {}, done |-> FALSE]

GenInit ==
    /\ state = [active |-> NoActive, staging |-> NoGen, retired |-> NoGen,
                next_generation |-> 0]
    /\ rows = [g \in Gens |-> {}]
    /\ remote \in Versions
    /\ lock = NoGen
    /\ syncPc = [p \in Syncers |-> "idle"]
    /\ job = [p \in Syncers |-> NoJob]
    /\ reader = [r \in CatalogReaders |-> NoReader]
    /\ crashes = 0

--------------------------------
(* The lock. *)

(* Return from the sync: the guard is dropped with every local variable. *)
Return(p) ==
    /\ lock' = NoGen
    /\ syncPc' = [syncPc EXCEPT ![p] = "idle"]
    /\ job' = [job EXCEPT ![p] = NoJob]

(* try_lock: the holder goes on, anyone else waits. *)
Call(p) ==
    /\ syncPc[p] = "idle"
    /\ \/ /\ lock = NoGen
          /\ lock' = p
          /\ syncPc' = [syncPc EXCEPT ![p] = "recover"]
       \/ /\ lock # NoGen
          /\ lock' = lock
          /\ syncPc' = [syncPc EXCEPT ![p] = "wait"]
    /\ UNCHANGED <<state, rows, remote, job, reader, crashes>>

(* A caller that waited takes the active generation for the answer of the   *)
(* sync it waited for.                                                      *)
Acquire(p) ==
    /\ syncPc[p] = "wait"
    /\ lock = NoGen
    /\ IF state.active # NoActive
         THEN Return(p)
         ELSE lock' = p /\ syncPc' = [syncPc EXCEPT ![p] = "recover"] /\ UNCHANGED job
    /\ UNCHANGED <<state, rows, remote, reader, crashes>>

--------------------------------
(* recover_catalog_generations *)

(* The interrupted and the displaced generation, as the recovery read them. *)
Doomed(p) == {job[p].seen.staging, job[p].seen.retired} \ {NoGen}

RecoverRead(p) ==
    /\ syncPc[p] = "recover"
    /\ job' = [job EXCEPT ![p].seen = [staging |-> state.staging, retired |-> state.retired]]
    /\ syncPc' = [syncPc EXCEPT ![p] = "sweep"]
    /\ UNCHANGED <<state, rows, remote, lock, reader, crashes>>

(* One deletion transaction: at most DeleteBatch rows of generation g. *)
DeleteRows(g) ==
    \E D \in SUBSET rows[g] :
        /\ D # {}
        /\ Cardinality(D) = DeleteBatch \/ (D = rows[g] /\ Cardinality(D) < DeleteBatch)
        /\ rows' = [rows EXCEPT ![g] = @ \ D]

SweepBatch(p) ==
    /\ syncPc[p] = "sweep"
    /\ \E g \in Doomed(p) : DeleteRows(g)
    /\ UNCHANGED <<state, remote, lock, syncPc, job, reader, crashes>>

(* The numbers are forgotten only when the rows are gone, and only if they  *)
(* are still the ones that were read.                                       *)
RecoverCommit(p) ==
    /\ syncPc[p] = "sweep"
    /\ \A g \in Doomed(p) : rows[g] = {}
    /\ state' = [state EXCEPT
                   !.staging = IF @ = job[p].seen.staging THEN NoGen ELSE @,
                   !.retired = IF @ = job[p].seen.retired THEN NoGen ELSE @]
    /\ IF job[p].published
         THEN Return(p)
         ELSE syncPc' = [syncPc EXCEPT ![p] = "fetch"] /\ UNCHANGED <<lock, job>>
    /\ UNCHANGED <<rows, remote, reader, crashes>>

--------------------------------
(* The request. *)

(* A 304, possible only for the validator of the active generation: the     *)
(* rows stay and the validators are merged (refresh_catalog_generation).    *)
NotModified(p) ==
    /\ syncPc[p] = "fetch"
    /\ state.active # NoActive
    /\ state.active.etag = remote
    /\ Return(p)
    /\ UNCHANGED <<state, rows, remote, reader, crashes>>

(* A 200 whose body arrived whole in the temporary file. *)
Download(p) ==
    /\ syncPc[p] = "fetch"
    /\ state.next_generation < MaxGeneration
    /\ job' = [job EXCEPT ![p].doc = remote]
    /\ syncPc' = [syncPc EXCEPT ![p] = "begin"]
    /\ UNCHANGED <<state, rows, remote, lock, reader, crashes>>

(* Transport error, another status, a body that is too large or cut off. *)
DownloadFails(p) ==
    /\ syncPc[p] = "fetch"
    /\ Return(p)
    /\ UNCHANGED <<state, rows, remote, reader, crashes>>

--------------------------------
(* publish_response *)

(* begin_catalog_generation *)
Begin(p) ==
    LET g == state.next_generation + 1
    IN  /\ syncPc[p] = "begin"
        /\ state' = [state EXCEPT !.next_generation = g, !.staging = g]
        /\ job' = [job EXCEPT ![p] = [@ EXCEPT !.gen = g,
                                               !.expected = state.active.generation,
                                               !.left = Document[job[p].doc]]]
        /\ syncPc' = [syncPc EXCEPT ![p] = "parse"]
        /\ UNCHANGED <<rows, remote, lock, reader, crashes>>

(* put_catalog_projects: one transaction for the next names of the          *)
(* document, of which some may have been listed before.                     *)
PutBatch(p) ==
    LET g == job[p].gen
    IN  /\ syncPc[p] = "parse"
        /\ state.staging = g
        /\ \E B \in SUBSET Document[job[p].doc] :
             /\ B \cap job[p].left # {}
             /\ Cardinality(B) <= Batch
             /\ rows' = [rows EXCEPT ![g] = @ \cup B]
             /\ job' = [job EXCEPT ![p].left = @ \ B, ![p].count = @ + Cardinality(B \ rows[g])]
        /\ UNCHANGED <<state, remote, lock, syncPc, reader, crashes>>

(* The document turns out malformed, or the reservation is gone. *)
ParseFails(p) ==
    /\ syncPc[p] = "parse"
    /\ syncPc' = [syncPc EXCEPT ![p] = "abort"]
    /\ UNCHANGED <<state, rows, remote, lock, job, reader, crashes>>

(* abort_catalog_generation *)
AbortBatch(p) ==
    /\ syncPc[p] = "abort"
    /\ DeleteRows(job[p].gen)
    /\ UNCHANGED <<state, remote, lock, syncPc, job, reader, crashes>>

(* Mutant of AbortCommit: the guard outlives a failed sync. *)
AbortCommitKeepsLock(p) ==
    /\ syncPc[p] = "abort"
    /\ rows[job[p].gen] = {}
    /\ state' = [state EXCEPT !.staging = IF @ = job[p].gen THEN NoGen ELSE @]
    /\ syncPc' = [syncPc EXCEPT ![p] = "idle"]
    /\ job' = [job EXCEPT ![p] = NoJob]
    /\ UNCHANGED <<rows, remote, lock, reader, crashes>>

AbortCommit(p) ==
    /\ syncPc[p] = "abort"
    /\ rows[job[p].gen] = {}
    /\ state' = [state EXCEPT !.staging = IF @ = job[p].gen THEN NoGen ELSE @]
    /\ Return(p)
    /\ UNCHANGED <<rows, remote, reader, crashes>>

(* Mutant of Publish: the pointer moves while names are still missing. *)
PublishEarly(p) ==
    /\ syncPc[p] = "parse"
    /\ state.staging = job[p].gen
    /\ state' = [state EXCEPT
                   !.active = [generation |-> job[p].gen, etag |-> job[p].doc,
                               count |-> job[p].count],
                   !.staging = NoGen, !.retired = state.active.generation]
    /\ job' = [job EXCEPT ![p].published = TRUE]
    /\ syncPc' = [syncPc EXCEPT ![p] = "recover"]
    /\ UNCHANGED <<rows, remote, lock, reader, crashes>>

(* publish_catalog_generation: the whole document parsed, and neither the   *)
(* reservation nor the active generation changed since Begin; otherwise the *)
(* sync fails and leaves its rows to the next recovery.                     *)
Publish(p) ==
    /\ syncPc[p] = "parse"
    /\ job[p].left = {}
    /\ IF state.staging = job[p].gen /\ state.active.generation = job[p].expected
         THEN /\ state' = [state EXCEPT
                             !.active = [generation |-> job[p].gen, etag |-> job[p].doc,
                                         count |-> job[p].count],
                             !.staging = NoGen, !.retired = state.active.generation]
              /\ job' = [job EXCEPT ![p].published = TRUE]
              /\ syncPc' = [syncPc EXCEPT ![p] = "recover"]
              /\ UNCHANGED lock
         ELSE Return(p) /\ UNCHANGED state
    /\ UNCHANGED <<rows, remote, reader, crashes>>

--------------------------------
(* list_projects: the state row in one read transaction ... *)
ReadPointer(r) ==
    /\ reader[r].gen = NoGen
    /\ state.active # NoActive
    /\ reader' = [reader EXCEPT ![r].gen = state.active.generation,
                                 ![r].doc = state.active.etag]
    /\ UNCHANGED <<state, rows, remote, lock, syncPc, job, crashes>>

(* ... and the rows of that generation in the next. *)
ReadRows(r) ==
    /\ reader[r].gen # NoGen /\ ~reader[r].done
    /\ reader' = [reader EXCEPT ![r].listed = rows[reader[r].gen], ![r].done = TRUE]
    /\ UNCHANGED <<state, rows, remote, lock, syncPc, job, crashes>>

Reply(r) ==
    /\ reader[r].done
    /\ reader' = [reader EXCEPT ![r] = NoReader]
    /\ UNCHANGED <<state, rows, remote, lock, syncPc, job, crashes>>

--------------------------------
(* The upstream moves on. *)
RemoteChanges ==
    /\ remote' \in Versions
    /\ UNCHANGED <<state, rows, lock, syncPc, job, reader, crashes>>

(* The process stops between two transactions and starts again. *)
Crash ==
    /\ crashes < MaxCrashes
    /\ crashes' = crashes + 1
    /\ lock' = NoGen
    /\ syncPc' = [p \in Syncers |-> "idle"]
    /\ job' = [p \in Syncers |-> NoJob]
    /\ reader' = [r \in CatalogReaders |-> NoReader]
    /\ UNCHANGED <<state, rows, remote>>

(* What a sync does once it holds the lock. *)
Proceed(p) ==
    \/ RecoverRead(p) \/ SweepBatch(p) \/ RecoverCommit(p)
    \/ NotModified(p) \/ Download(p) \/ DownloadFails(p)
    \/ Begin(p) \/ PutBatch(p) \/ ParseFails(p) \/ Publish(p)
    \/ AbortBatch(p) \/ AbortCommit(p)

GenNext ==
    \/ \E p \in Syncers :
         Call(p) \/ Acquire(p) \/ Proceed(p)
    \/ \E r \in CatalogReaders : ReadPointer(r) \/ ReadRows(r) \/ Reply(r)
    \/ RemoteChanges
    \/ Crash

GenSpec == GenInit /\ [][GenNext]_genVars

--------------------------------
(* Types. *)
GenTypeOK ==
    /\ state \in States
    /\ rows \in [Gens -> SUBSET Names]
    /\ remote \in Versions
    /\ lock \in Syncers \cup {NoGen}
    /\ syncPc \in [Syncers -> {"idle", "wait", "recover", "sweep", "fetch", "begin",
                          "parse", "abort"}]
    /\ job \in [Syncers -> Jobs]
    /\ reader \in [CatalogReaders -> Listings]
    /\ crashes \in 0..MaxCrashes

(* Whatever failed or stopped, the generation the pointer names holds every *)
(* name of one upstream document, the one whose validator will be sent, and *)
(* the count it reports: nothing is published half parsed and no sweep      *)
(* touches what is published.                                               *)
ActiveIsDocument ==
    state.active # NoActive =>
        /\ rows[state.active.generation] = Document[state.active.etag]
        /\ state.active.count = Cardinality(Document[state.active.etag])

(* No rows are ever orphaned: a generation that has rows is named by the    *)
(* state row, so the next recovery finds it however the last sync ended.    *)
NothingLeaks ==
    /\ GenTypeOK
    /\ \A g \in Gens : rows[g] # {} =>
         g \in {state.active.generation, state.staging, state.retired}

(* A reader never lists a name its generation's document did not have: rows *)
(* may vanish under it, but no staging rows appear under the number it      *)
(* read, because a number is never used again.                              *)
NoForeignNames ==
    \A r \in CatalogReaders : reader[r].done => reader[r].listed \subseteq Document[reader[r].doc]

(* A caller that found the lock taken gets its answer. *)
WaitersAnswered == \A p \in Syncers : (syncPc[p] = "wait") ~> (syncPc[p] = "idle")

(* Not met by the code: readers see only the last complete generation        *)
(* (private-mirror.md).  A sync that publishes and sweeps between the two    *)
(* read transactions leaves a reader with part of a generation.             *)
ReadersSeeComplete ==
    \A r \in CatalogReaders : reader[r].done => reader[r].listed = Document[reader[r].doc]

\* However syncs fail, stop or overlap: what is published is one whole document, no rows are orphaned, and no
\* reader lists a name of another generation.
CatalogIsSound == ActiveIsDocument /\ NothingLeaks /\ NoForeignNames

================================

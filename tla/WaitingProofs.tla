---------------- MODULE WaitingProofs ----------------
(* Proofs about Generations and SingleFlight, for any number of actors,
   names, documents, batch sizes, generations, stops and gates.

   What is published is whole because the holder of the lock is the only
   one that moves the state row: between its transactions the row is as it
   left it (HolderKnows), so that what it sweeps is never what is
   published, and what it publishes is what it staged.  A stop forgets the
   holder and not the row, whose three numbers are distinct (Distinct).

   Two callers that fetch hold the mutex of their gates, so they are one
   if their gates are.  That they are needs Mapped: the gate of a caller
   that has not finished its fetch is the one in the map.  The two steps
   that empty the map look at the user count only, hence UsersExact. *)
EXTENDS Generations, SingleFlight, FiniteSetTheorems, TLAPS

\* Numbers are handed out in order, and rows exist only under a number that was handed out.
Ordered ==
    /\ \A g \in {state.active.generation, state.staging, state.retired} : g # NoGen => g <= state.next_generation
    /\ \A g \in Gens : g > state.next_generation => rows[g] = {}

\* The state row never names one generation twice.
Distinct ==
    /\ state.staging # NoGen => state.staging \notin {state.active.generation, state.retired}
    /\ state.retired # NoGen => state.retired # state.active.generation

\* Whoever is past the lock holds it.
Exclusive == \A p \in Syncers : syncPc[p] \notin {"idle", "wait"} => lock = p

\* What the holder of the lock may rely on between its transactions.
HolderKnows ==
    \A p \in Syncers :
        /\ (syncPc[p] \in {"recover", "sweep"} /\ ~job[p].published) => job[p].count = 0
        /\ syncPc[p] \in {"idle", "wait"} => job[p].count = 0 /\ ~job[p].published
        /\ syncPc[p] = "sweep" => job[p].seen.staging = state.staging /\ job[p].seen.retired = state.retired
        /\ syncPc[p] \in {"fetch", "begin"} =>
             state.staging = NoGen /\ state.retired = NoGen /\ job[p].count = 0
        /\ syncPc[p] = "begin" => job[p].doc \in Versions /\ state.next_generation < MaxGeneration
        /\ syncPc[p] \in {"parse", "abort"} =>
             /\ job[p].gen \in Gens /\ state.staging = job[p].gen /\ state.retired = NoGen
             /\ job[p].expected = state.active.generation
        /\ syncPc[p] = "parse" =>
             /\ job[p].doc \in Versions
             /\ rows[job[p].gen] \subseteq Document[job[p].doc]
             /\ job[p].left = Document[job[p].doc] \ rows[job[p].gen]
             /\ job[p].count = Cardinality(rows[job[p].gen])

\* The generation a reader has in hand is not staged again.
ReadersSafe ==
    \A r \in CatalogReaders :
        /\ reader[r].gen # NoGen =>
             /\ reader[r].doc \in Versions /\ reader[r].gen <= state.next_generation
             /\ reader[r].gen # state.staging
             /\ rows[reader[r].gen] \subseteq Document[reader[r].doc]
        /\ reader[r].done => reader[r].gen # NoGen

GenIInv == Ordered /\ Distinct /\ Exclusive /\ HolderKnows /\ ReadersSafe /\ CatalogIsSound

--------------------------------
\* The state row names no generation exactly when its record says so.
LEMMA ActiveForm ==
  ASSUME GenTypeOK
  PROVE  /\ state.active.generation \in Gens \cup {NoGen}
         /\ state.active = NoActive <=> state.active.generation = NoGen
         /\ state.active # NoActive => state.active \in ActiveGeneration
  BY NoneAssumption DEF GenTypeOK, States, NoActive, ActiveGeneration, Gens

LEMMA RowsFinite ==
  ASSUME GenTypeOK, NEW g \in Gens
  PROVE  IsFiniteSet(rows[g]) /\ Cardinality(rows[g]) \in Nat
  <1>1. rows[g] \subseteq Names BY DEF GenTypeOK
  <1> QED BY <1>1, DocumentAssumption, FS_Subset, FS_CardinalityType

\* What a sync holds when it holds nothing.
LEMMA JobTyped == NoJob \in Jobs
  BY DEF NoJob, Jobs

\* What PutBatch counts is what it adds.
LEMMA CountGrows ==
  ASSUME GenTypeOK, NEW g \in Gens, NEW B \in SUBSET Names
  PROVE  /\ Cardinality(B \ rows[g]) \in Nat
         /\ Cardinality(rows[g] \cup B) = Cardinality(rows[g]) + Cardinality(B \ rows[g])
  <1> DEFINE D == B \ rows[g]
  <1>1. IsFiniteSet(rows[g]) /\ IsFiniteSet(D) /\ Cardinality(D) \in Nat /\ Cardinality(rows[g]) \in Nat
    BY RowsFinite, DocumentAssumption, FS_Subset, FS_CardinalityType
  <1>2. rows[g] \cap D = {} /\ rows[g] \cup D = rows[g] \cup B OBVIOUS
  <1>3. Cardinality(rows[g] \cup D) = Cardinality(rows[g]) + Cardinality(D) - Cardinality(rows[g] \cap D)
    BY <1>1, FS_Union
  <1>4. Cardinality(rows[g] \cap D) = 0 /\ Cardinality(rows[g] \cup D) = Cardinality(rows[g] \cup B)
    BY <1>2, FS_EmptySet
  <1> HIDE DEF D
  <1>5. Cardinality(rows[g] \cup B) = Cardinality(rows[g]) + Cardinality(D) BY <1>1, <1>3, <1>4
  <1> QED BY <1>1, <1>5 DEF D

--------------------------------
THEOREM GenInitIInv == GenInit => GenIInv
  <1> SUFFICES ASSUME GenInit PROVE GenIInv OBVIOUS
  <1>1. GenTypeOK
    BY BoundAssumption, FS_EmptySet DEF GenInit, GenTypeOK, States, Gens, NoActive, NoJob, NoReader, Jobs, Listings
  <1>2. Ordered /\ Distinct /\ Exclusive /\ ReadersSafe /\ HolderKnows
    BY NoneAssumption DEF GenInit, Ordered, Distinct, Exclusive, ReadersSafe, HolderKnows, NoActive, NoJob, NoReader
  <1>3. CatalogIsSound
    BY <1>1 DEF GenInit, CatalogIsSound, ActiveIsDocument, NothingLeaks, NoForeignNames, NoActive, NoReader
  <1> QED BY <1>2, <1>3 DEF GenIInv

--------------------------------
\* What a step that leaves the state row, the rows and the readers alone leaves true.
LEMMA CatalogUntouched ==
  ASSUME GenIInv, UNCHANGED <<state, rows, reader>>
  PROVE  Ordered' /\ Distinct' /\ ReadersSafe' /\ ActiveIsDocument' /\ NoForeignNames'
  BY DEF GenIInv, CatalogIsSound, Ordered, Distinct, ReadersSafe, ActiveIsDocument, NoForeignNames

\* The parts of the invariant, put together again.
LEMMA GenTogether ==
  ASSUME GenTypeOK', Ordered', Distinct', Exclusive', HolderKnows', ReadersSafe', ActiveIsDocument',
         NoForeignNames',
         \A g \in Gens : rows'[g] # {} => g \in {state'.active.generation, state'.staging, state'.retired}
  PROVE  GenIInv'
  BY DEF GenIInv, CatalogIsSound, NothingLeaks

LEMMA GenParts ==
  ASSUME GenIInv
  PROVE  /\ GenTypeOK /\ Ordered /\ Distinct /\ Exclusive /\ HolderKnows /\ ReadersSafe
         /\ ActiveIsDocument /\ NoForeignNames
         /\ \A g \in Gens : rows[g] # {} => g \in {state.active.generation, state.staging, state.retired}
  BY DEF GenIInv, CatalogIsSound, NothingLeaks

LEMMA CallSound ==
  ASSUME GenIInv, NEW p \in Syncers, Call(p)
  PROVE  GenIInv'
  <1>1. GenTypeOK /\ Exclusive /\ HolderKnows BY GenParts
  <1>2. UNCHANGED <<state, rows, reader>> BY DEF Call
  <1>3. GenTypeOK'
    <2>1. job' \in [Syncers -> Jobs] BY <1>1, JobTyped DEF Call, Return, GenTypeOK, Jobs, States
    <2> QED BY <1>1, <2>1 DEF Call, Return, GenTypeOK
  <1>4. Exclusive' BY <1>1, NoneAssumption DEF Call, Return, GenTypeOK, Exclusive
  <1>5. HolderKnows' BY <1>1, NoneAssumption DEF Call, Return, GenTypeOK, Exclusive, HolderKnows, NoJob, States
  <1> QED BY <1>2, <1>3, <1>4, <1>5, CatalogUntouched, GenParts, GenTogether

LEMMA AcquireSound ==
  ASSUME GenIInv, NEW p \in Syncers, Acquire(p)
  PROVE  GenIInv'
  <1>1. GenTypeOK /\ Exclusive /\ HolderKnows BY GenParts
  <1>2. UNCHANGED <<state, rows, reader>> BY DEF Acquire
  <1>3. GenTypeOK'
    <2>1. job' \in [Syncers -> Jobs] BY <1>1, JobTyped DEF Acquire, Return, GenTypeOK, Jobs, States
    <2> QED BY <1>1, <2>1 DEF Acquire, Return, GenTypeOK
  <1>4. Exclusive' BY <1>1, NoneAssumption DEF Acquire, Return, GenTypeOK, Exclusive
  <1>5. HolderKnows' BY <1>1, NoneAssumption DEF Acquire, Return, GenTypeOK, Exclusive, HolderKnows, NoJob, States
  <1> QED BY <1>2, <1>3, <1>4, <1>5, CatalogUntouched, GenParts, GenTogether

LEMMA RecoverReadSound ==
  ASSUME GenIInv, NEW p \in Syncers, RecoverRead(p)
  PROVE  GenIInv'
  <1>1. GenTypeOK /\ Exclusive /\ HolderKnows BY GenParts
  <1>2. UNCHANGED <<state, rows, reader>> BY DEF RecoverRead
  <1>3. GenTypeOK'
    <2>1. job' \in [Syncers -> Jobs] BY <1>1, JobTyped DEF RecoverRead, Return, GenTypeOK, Jobs, States
    <2> QED BY <1>1, <2>1 DEF RecoverRead, Return, GenTypeOK
  <1>4. Exclusive' BY <1>1, NoneAssumption DEF RecoverRead, Return, GenTypeOK, Exclusive
  <1>5. HolderKnows' BY <1>1, NoneAssumption DEF RecoverRead, Return, GenTypeOK, Exclusive, HolderKnows, NoJob, States
  <1> QED BY <1>2, <1>3, <1>4, <1>5, CatalogUntouched, GenParts, GenTogether

LEMMA NotModifiedSound ==
  ASSUME GenIInv, NEW p \in Syncers, NotModified(p)
  PROVE  GenIInv'
  <1>1. GenTypeOK /\ Exclusive /\ HolderKnows BY GenParts
  <1>2. UNCHANGED <<state, rows, reader>> BY DEF NotModified
  <1>3. GenTypeOK'
    <2>1. job' \in [Syncers -> Jobs] BY <1>1, JobTyped DEF NotModified, Return, GenTypeOK, Jobs, States
    <2> QED BY <1>1, <2>1 DEF NotModified, Return, GenTypeOK
  <1>4. Exclusive' BY <1>1, NoneAssumption DEF NotModified, Return, GenTypeOK, Exclusive
  <1>5. HolderKnows' BY <1>1, NoneAssumption DEF NotModified, Return, GenTypeOK, Exclusive, HolderKnows, NoJob, States
  <1> QED BY <1>2, <1>3, <1>4, <1>5, CatalogUntouched, GenParts, GenTogether

LEMMA DownloadSound ==
  ASSUME GenIInv, NEW p \in Syncers, Download(p)
  PROVE  GenIInv'
  <1>1. GenTypeOK /\ Exclusive /\ HolderKnows BY GenParts
  <1>2. UNCHANGED <<state, rows, reader>> BY DEF Download
  <1>3. GenTypeOK'
    <2>1. job' \in [Syncers -> Jobs] BY <1>1, JobTyped DEF Download, Return, GenTypeOK, Jobs, States
    <2> QED BY <1>1, <2>1 DEF Download, Return, GenTypeOK
  <1>4. Exclusive' BY <1>1, NoneAssumption DEF Download, Return, GenTypeOK, Exclusive
  <1>5. HolderKnows' BY <1>1, NoneAssumption DEF Download, Return, GenTypeOK, Exclusive, HolderKnows, NoJob, States
  <1> QED BY <1>2, <1>3, <1>4, <1>5, CatalogUntouched, GenParts, GenTogether

LEMMA DownloadFailsSound ==
  ASSUME GenIInv, NEW p \in Syncers, DownloadFails(p)
  PROVE  GenIInv'
  <1>1. GenTypeOK /\ Exclusive /\ HolderKnows BY GenParts
  <1>2. UNCHANGED <<state, rows, reader>> BY DEF DownloadFails
  <1>3. GenTypeOK'
    <2>1. job' \in [Syncers -> Jobs] BY <1>1, JobTyped DEF DownloadFails, Return, GenTypeOK, Jobs, States
    <2> QED BY <1>1, <2>1 DEF DownloadFails, Return, GenTypeOK
  <1>4. Exclusive' BY <1>1, NoneAssumption DEF DownloadFails, Return, GenTypeOK, Exclusive
  <1>5. HolderKnows' BY <1>1, NoneAssumption DEF DownloadFails, Return, GenTypeOK, Exclusive, HolderKnows, NoJob, States
  <1> QED BY <1>2, <1>3, <1>4, <1>5, CatalogUntouched, GenParts, GenTogether

LEMMA ParseFailsSound ==
  ASSUME GenIInv, NEW p \in Syncers, ParseFails(p)
  PROVE  GenIInv'
  <1>1. GenTypeOK /\ Exclusive /\ HolderKnows BY GenParts
  <1>2. UNCHANGED <<state, rows, reader>> BY DEF ParseFails
  <1>3. GenTypeOK'
    <2>1. job' \in [Syncers -> Jobs] BY <1>1, JobTyped DEF ParseFails, Return, GenTypeOK, Jobs, States
    <2> QED BY <1>1, <2>1 DEF ParseFails, Return, GenTypeOK
  <1>4. Exclusive' BY <1>1, NoneAssumption DEF ParseFails, Return, GenTypeOK, Exclusive
  <1>5. HolderKnows' BY <1>1, NoneAssumption DEF ParseFails, Return, GenTypeOK, Exclusive, HolderKnows, NoJob, States
  <1> QED BY <1>2, <1>3, <1>4, <1>5, CatalogUntouched, GenParts, GenTogether

--------------------------------
\* One deletion transaction removes rows of g and nothing else.
LEMMA DeletedRows ==
  ASSUME GenTypeOK, NEW g \in Gens, DeleteRows(g)
  PROVE  /\ rows' \in [Gens -> SUBSET Names]
         /\ rows'[g] \subseteq rows[g]
         /\ \A h \in Gens : h # g => rows'[h] = rows[h]
  BY DEF GenTypeOK, DeleteRows

\* Deleting rows of a generation that is staged or retired, and not the one the holder parses into.
LEMMA DeletionSound ==
  ASSUME GenIInv, NEW g \in Gens, DeleteRows(g), g \in {state.staging, state.retired},
         UNCHANGED <<state, remote, lock, syncPc, job, reader, crashes>>,
         \A p \in Syncers : syncPc[p] = "parse" => job[p].gen # g
  PROVE  GenIInv'
  <1>1. /\ GenTypeOK /\ Ordered /\ Distinct /\ Exclusive /\ HolderKnows /\ ReadersSafe
        /\ ActiveIsDocument /\ NoForeignNames
        /\ \A h \in Gens : rows[h] # {} => h \in {state.active.generation, state.staging, state.retired}
    BY GenParts
  <1>2. /\ rows' \in [Gens -> SUBSET Names]
        /\ rows'[g] \subseteq rows[g]
        /\ \A h \in Gens : h # g => rows'[h] = rows[h]
    BY <1>1, DeletedRows
  <1>3. g # NoGen /\ g # state.active.generation BY <1>1, NoneAssumption DEF Distinct, Gens
  <1>4. GenTypeOK' BY <1>1, <1>2 DEF GenTypeOK
  <1>5. Ordered' /\ Distinct' /\ Exclusive' /\ NoForeignNames'
    BY <1>1, <1>2 DEF Ordered, Distinct, Exclusive, NoForeignNames
  <1>6. HolderKnows' BY <1>1, <1>2 DEF HolderKnows
  <1>7. ReadersSafe' BY <1>1, <1>2 DEF ReadersSafe, GenTypeOK, Listings
  <1>8. ActiveIsDocument' BY <1>1, <1>2, <1>3, ActiveForm DEF ActiveIsDocument
  <1>9. \A h \in Gens : rows'[h] # {} => h \in {state'.active.generation, state'.staging, state'.retired} BY <1>1, <1>2
  <1> QED BY <1>4, <1>5, <1>6, <1>7, <1>8, <1>9, GenTogether

LEMMA SweepBatchSound ==
  ASSUME GenIInv, NEW p \in Syncers, SweepBatch(p)
  PROVE  GenIInv'
  <1>1. GenTypeOK /\ Exclusive /\ HolderKnows BY GenParts
  <1>2. PICK g \in Doomed(p) : DeleteRows(g) BY DEF SweepBatch
  <1>3. g \in Gens /\ g \in {state.staging, state.retired} BY <1>1 DEF Doomed, SweepBatch, HolderKnows, GenTypeOK, Jobs
  <1>4. \A q \in Syncers : syncPc[q] # "parse" BY <1>1 DEF SweepBatch, Exclusive, GenTypeOK
  <1> QED BY <1>2, <1>3, <1>4, DeletionSound DEF SweepBatch

LEMMA AbortBatchSound ==
  ASSUME GenIInv, NEW p \in Syncers, AbortBatch(p)
  PROVE  GenIInv'
  <1>1. GenTypeOK /\ Exclusive /\ HolderKnows BY GenParts
  <1>2. job[p].gen \in Gens /\ job[p].gen = state.staging BY <1>1 DEF AbortBatch, HolderKnows
  <1>3. \A q \in Syncers : syncPc[q] # "parse" BY <1>1 DEF AbortBatch, Exclusive, GenTypeOK
  <1> QED BY <1>2, <1>3, DeletionSound DEF AbortBatch

\* Forgetting numbers whose rows are gone.
LEMMA ForgettingSound ==
  ASSUME GenIInv, UNCHANGED <<rows, reader>>,
         NEW stg \in {state.staging, NoGen}, NEW ret \in {state.retired, NoGen},
         state' \in States, state'.staging = stg, state'.retired = ret, state'.active = state.active,
         state'.next_generation = state.next_generation,
         \A g \in Gens : g \in {state.staging, state.retired} /\ g \notin {stg, ret} => rows[g] = {}
  PROVE  /\ Ordered' /\ Distinct' /\ ReadersSafe' /\ ActiveIsDocument' /\ NoForeignNames'
         /\ \A g \in Gens : rows'[g] # {} => g \in {state'.active.generation, state'.staging, state'.retired}
  <1>1. /\ GenTypeOK /\ Ordered /\ Distinct /\ Exclusive /\ HolderKnows /\ ReadersSafe
        /\ ActiveIsDocument /\ NoForeignNames
        /\ \A h \in Gens : rows[h] # {} => h \in {state.active.generation, state.staging, state.retired}
    BY GenParts
  <1>2. Ordered' /\ Distinct' /\ NoForeignNames' /\ ActiveIsDocument'
    BY <1>1 DEF Ordered, Distinct, NoForeignNames, ActiveIsDocument
  <1>3. ReadersSafe' BY <1>1 DEF ReadersSafe
  <1>4. \A g \in Gens : rows'[g] # {} => g \in {state'.active.generation, state'.staging, state'.retired} BY <1>1
  <1> QED BY <1>2, <1>3, <1>4

LEMMA RecoverCommitSound ==
  ASSUME GenIInv, NEW p \in Syncers, RecoverCommit(p)
  PROVE  GenIInv'
  <1>1. GenTypeOK /\ Exclusive /\ HolderKnows BY GenParts
  <1>2. job[p].seen.staging = state.staging /\ job[p].seen.retired = state.retired
    BY <1>1 DEF RecoverCommit, HolderKnows
  <1>3. /\ state' \in States /\ state'.staging = NoGen /\ state'.retired = NoGen
        /\ state'.active = state.active /\ state'.next_generation = state.next_generation
        /\ UNCHANGED <<rows, reader>>
        /\ \A g \in Gens : g \in {state.staging, state.retired} => rows[g] = {}
    <2>1. state' = [state EXCEPT !.staging = NoGen, !.retired = NoGen] /\ state \in States
      BY <1>1, <1>2 DEF RecoverCommit, GenTypeOK
    <2>2. \A g \in Gens : g \in {state.staging, state.retired} => rows[g] = {}
      BY <1>2, NoneAssumption DEF RecoverCommit, Doomed, Gens
    <2> QED BY <2>1, <2>2 DEF RecoverCommit, States
  <1>4. /\ Ordered' /\ Distinct' /\ ReadersSafe' /\ ActiveIsDocument' /\ NoForeignNames'
        /\ \A g \in Gens : rows'[g] # {} => g \in {state'.active.generation, state'.staging, state'.retired}
    BY <1>3, ForgettingSound
  <1>5. GenTypeOK'
    <2>1. job' \in [Syncers -> Jobs] BY <1>1, JobTyped DEF RecoverCommit, Return, GenTypeOK
    <2> QED BY <1>1, <1>3, <2>1 DEF RecoverCommit, Return, GenTypeOK
  <1>6. Exclusive' BY <1>1, NoneAssumption DEF RecoverCommit, Return, GenTypeOK, Exclusive
  <1>7. HolderKnows' BY <1>1, <1>3, NoneAssumption DEF RecoverCommit, Return, GenTypeOK, Exclusive, HolderKnows, NoJob
  <1> QED BY <1>4, <1>5, <1>6, <1>7, GenTogether

LEMMA AbortCommitSound ==
  ASSUME GenIInv, NEW p \in Syncers, AbortCommit(p)
  PROVE  GenIInv'
  <1>1. GenTypeOK /\ Exclusive /\ HolderKnows BY GenParts
  <1>2. state.staging = job[p].gen /\ state.retired = NoGen /\ job[p].gen \in Gens BY <1>1 DEF AbortCommit, HolderKnows
  <1>3. /\ state' \in States /\ state'.staging = NoGen /\ state'.retired = NoGen
        /\ state'.active = state.active /\ state'.next_generation = state.next_generation
        /\ UNCHANGED <<rows, reader>>
        /\ \A g \in Gens : g \in {state.staging, state.retired} => rows[g] = {}
    BY <1>1, <1>2, NoneAssumption DEF AbortCommit, GenTypeOK, States, Gens
  <1>4. /\ Ordered' /\ Distinct' /\ ReadersSafe' /\ ActiveIsDocument' /\ NoForeignNames'
        /\ \A g \in Gens : rows'[g] # {} => g \in {state'.active.generation, state'.staging, state'.retired}
    BY <1>3, ForgettingSound
  <1>5. GenTypeOK'
    <2>1. job' \in [Syncers -> Jobs] BY <1>1, JobTyped DEF AbortCommit, Return, GenTypeOK
    <2> QED BY <1>1, <1>3, <2>1 DEF AbortCommit, Return, GenTypeOK
  <1>6. Exclusive' BY <1>1, NoneAssumption DEF AbortCommit, Return, GenTypeOK, Exclusive
  <1>7. HolderKnows' BY <1>1, <1>3, NoneAssumption DEF AbortCommit, Return, GenTypeOK, Exclusive, HolderKnows, NoJob
  <1> QED BY <1>4, <1>5, <1>6, <1>7, GenTogether

--------------------------------
\* A fresh number has no rows, and no reader has it in hand.
LEMMA BeginSound ==
  ASSUME GenIInv, NEW p \in Syncers, Begin(p)
  PROVE  GenIInv'
  <1>1. /\ GenTypeOK /\ Ordered /\ Distinct /\ Exclusive /\ HolderKnows /\ ReadersSafe
        /\ ActiveIsDocument /\ NoForeignNames
        /\ \A h \in Gens : rows[h] # {} => h \in {state.active.generation, state.staging, state.retired}
    BY GenParts
  <1> DEFINE g == state.next_generation + 1
  <1>2. /\ state.staging = NoGen /\ state.retired = NoGen /\ job[p].count = 0 /\ job[p].doc \in Versions
        /\ state.next_generation < MaxGeneration
    BY <1>1 DEF Begin, HolderKnows
  <1>3. state \in States /\ state.next_generation \in Nat BY <1>1 DEF GenTypeOK, States
  <1>4. g \in Gens /\ g \in 0..MaxGeneration /\ g \in Nat /\ g > state.next_generation /\ rows[g] = {} /\ g # NoGen
    BY <1>1, <1>2, <1>3, BoundAssumption, NoneAssumption DEF Gens, Ordered
  <1>5. /\ state' = [state EXCEPT !.next_generation = g, !.staging = g]
        /\ job' = [job EXCEPT ![p] = [@ EXCEPT !.gen = g, !.expected = state.active.generation,
                                               !.left = Document[job[p].doc]]]
        /\ syncPc' = [syncPc EXCEPT ![p] = "parse"]
        /\ UNCHANGED <<rows, remote, lock, reader, crashes>>
    BY DEF Begin
  <1> HIDE DEF g
  <1>6. /\ state' \in States /\ state'.staging = g /\ state'.next_generation = g
        /\ state'.active = state.active /\ state'.retired = NoGen
    BY <1>2, <1>3, <1>4, <1>5 DEF States
  <1>7. state.active.generation \in Gens \cup {NoGen} BY <1>1, ActiveForm
  <1>8. /\ job' \in [Syncers -> Jobs]
        /\ job'[p].gen = g /\ job'[p].expected = state.active.generation
        /\ job'[p].left = Document[job[p].doc] /\ job'[p].doc = job[p].doc /\ job'[p].count = 0
        /\ \A q \in Syncers : q # p => job'[q] = job[q]
    BY <1>1, <1>2, <1>4, <1>5, <1>7, DocumentAssumption DEF GenTypeOK, Jobs
  <1>9. GenTypeOK' BY <1>1, <1>5, <1>6, <1>8 DEF GenTypeOK
  <1>10. \A h \in Gens \cup {NoGen} : h # NoGen /\ h <= state.next_generation => h # g /\ h <= g BY <1>3, <1>4 DEF Gens
  <1>11. Ordered' BY <1>1, <1>3, <1>4, <1>5, <1>6, <1>7, <1>10 DEF Ordered, Gens
  <1>12. Distinct' BY <1>1, <1>6, <1>7, <1>10, NoneAssumption DEF Ordered, Distinct
  <1>13. Exclusive' BY <1>1, <1>5 DEF Begin, GenTypeOK, Exclusive
  <1>14. HolderKnows'
    <2>1. Cardinality(rows[g]) = 0 BY <1>4, FS_EmptySet
    <2>2. \A q \in Syncers : q # p => syncPc'[q] \in {"idle", "wait"} /\ syncPc'[q] = syncPc[q]
      BY <1>1, <1>5 DEF Begin, GenTypeOK, Exclusive
    <2>3. syncPc'[p] = "parse" BY <1>1, <1>5 DEF GenTypeOK
    <2>4. /\ job'[p].count = Cardinality(rows'[g])
          /\ rows'[g] \subseteq Document[job'[p].doc] /\ job'[p].left = Document[job'[p].doc] \ rows'[g]
      BY <1>4, <1>5, <1>8, <2>1
    <2> QED BY <1>1, <1>2, <1>4, <1>6, <1>8, <2>2, <2>3, <2>4 DEF HolderKnows
  <1>15. ReadersSafe' BY <1>1, <1>4, <1>5, <1>6, <1>10 DEF ReadersSafe, GenTypeOK, Listings
  <1>16. ActiveIsDocument' /\ NoForeignNames' BY <1>1, <1>5, <1>6 DEF ActiveIsDocument, NoForeignNames
  <1>17. \A h \in Gens : rows'[h] # {} => h \in {state'.active.generation, state'.staging, state'.retired}
    BY <1>1, <1>2, <1>5, <1>6, NoneAssumption DEF Gens
  <1> QED BY <1>9, <1>11, <1>12, <1>13, <1>14, <1>15, <1>16, <1>17, GenTogether

\* A batch goes to the staged generation, and is counted once.
LEMMA PutBatchSound ==
  ASSUME GenIInv, NEW p \in Syncers, PutBatch(p)
  PROVE  GenIInv'
  <1>1. /\ GenTypeOK /\ Ordered /\ Distinct /\ Exclusive /\ HolderKnows /\ ReadersSafe
        /\ ActiveIsDocument /\ NoForeignNames
        /\ \A h \in Gens : rows[h] # {} => h \in {state.active.generation, state.staging, state.retired}
    BY GenParts
  <1> DEFINE g == job[p].gen
  <1>2. /\ syncPc[p] = "parse" /\ g \in Gens /\ state.staging = g /\ job[p].doc \in Versions
        /\ rows[g] \subseteq Document[job[p].doc]
        /\ job[p].left = Document[job[p].doc] \ rows[g]
        /\ job[p].count = Cardinality(rows[g])
    BY <1>1 DEF PutBatch, HolderKnows
  <1>3. PICK B \in SUBSET Document[job[p].doc] :
          /\ rows' = [rows EXCEPT ![g] = @ \cup B]
          /\ job' = [job EXCEPT ![p].left = @ \ B, ![p].count = @ + Cardinality(B \ rows[g])]
    BY DEF PutBatch
  <1>4. UNCHANGED <<state, remote, lock, syncPc, reader, crashes>> BY DEF PutBatch
  <1>5. B \in SUBSET Names BY <1>2, DocumentAssumption
  <1>6. /\ Cardinality(B \ rows[g]) \in Nat
        /\ Cardinality(rows[g] \cup B) = Cardinality(rows[g]) + Cardinality(B \ rows[g])
    BY <1>1, <1>2, <1>5, CountGrows
  <1>7. /\ rows' \in [Gens -> SUBSET Names] /\ rows'[g] = rows[g] \cup B
        /\ \A h \in Gens : h # g => rows'[h] = rows[h]
    BY <1>1, <1>2, <1>3, <1>5 DEF GenTypeOK
  <1>8. /\ job' \in [Syncers -> Jobs]
        /\ job'[p].gen = g /\ job'[p].expected = job[p].expected /\ job'[p].doc = job[p].doc
        /\ job'[p].left = job[p].left \ B /\ job'[p].count = job[p].count + Cardinality(B \ rows[g])
        /\ \A q \in Syncers : q # p => job'[q] = job[q]
    <2> DEFINE j == [job[p] EXCEPT !.left = @ \ B, !.count = @ + Cardinality(B \ rows[g])]
    <2>1. job[p] \in Jobs /\ job \in [Syncers -> Jobs] BY <1>1 DEF GenTypeOK
    <2>2. job[p].left \ B \in SUBSET Names /\ job[p].count + Cardinality(B \ rows[g]) \in Nat BY <1>6, <2>1 DEF Jobs
    <2>3. /\ j \in Jobs /\ j.gen = g /\ j.expected = job[p].expected /\ j.doc = job[p].doc
          /\ j.left = job[p].left \ B /\ j.count = job[p].count + Cardinality(B \ rows[g])
      BY <2>1, <2>2 DEF Jobs
    <2>4. job' = [job EXCEPT ![p] = j] BY <1>3, <2>1
    <2> HIDE DEF j
    <2> QED BY <2>1, <2>3, <2>4
  <1> HIDE DEF g
  <1>9. GenTypeOK' BY <1>1, <1>4, <1>7, <1>8 DEF GenTypeOK
  <1>10. g # state.active.generation /\ g # NoGen BY <1>1, <1>2, NoneAssumption DEF Distinct, Gens
  <1>11. Ordered' /\ Distinct' /\ Exclusive' /\ NoForeignNames'
    <2>1. g <= state.next_generation /\ state.next_generation \in Nat /\ g \in Nat
      BY <1>1, <1>2, <1>10 DEF Ordered, GenTypeOK, States, Gens
    <2>2. Ordered' BY <1>1, <1>4, <1>7, <2>1 DEF Ordered, Gens
    <2> QED BY <1>1, <1>4, <2>2 DEF Distinct, Exclusive, NoForeignNames
  <1>12. HolderKnows'
    <2>1. \A q \in Syncers : q # p => syncPc'[q] \in {"idle", "wait"} /\ syncPc'[q] = syncPc[q]
      BY <1>1, <1>2, <1>4 DEF GenTypeOK, Exclusive
    <2>2. job'[p].left = Document[job[p].doc] \ rows'[g] /\ rows'[g] \subseteq Document[job[p].doc] BY <1>2, <1>7, <1>8
    <2>3. job'[p].count = Cardinality(rows'[g]) BY <1>2, <1>6, <1>7, <1>8
    <2> QED BY <1>1, <1>2, <1>4, <1>8, <2>1, <2>2, <2>3 DEF HolderKnows
  <1>13. ReadersSafe' BY <1>1, <1>2, <1>4, <1>7 DEF ReadersSafe, GenTypeOK, Listings
  <1>14. ActiveIsDocument' BY <1>1, <1>4, <1>7, <1>10, ActiveForm DEF ActiveIsDocument
  <1>15. \A h \in Gens : rows'[h] # {} => h \in {state'.active.generation, state'.staging, state'.retired}
    BY <1>1, <1>2, <1>4, <1>7
  <1> QED BY <1>9, <1>11, <1>12, <1>13, <1>14, <1>15, GenTogether

\* The pointer moves to a generation that holds the whole document, and away from the one that is retired.
LEMMA PublishSound ==
  ASSUME GenIInv, NEW p \in Syncers, Publish(p)
  PROVE  GenIInv'
  <1>1. /\ GenTypeOK /\ Ordered /\ Distinct /\ Exclusive /\ HolderKnows /\ ReadersSafe
        /\ ActiveIsDocument /\ NoForeignNames
        /\ \A h \in Gens : rows[h] # {} => h \in {state.active.generation, state.staging, state.retired}
    BY GenParts
  <1> DEFINE g == job[p].gen
  <1>2. /\ syncPc[p] = "parse" /\ g \in Gens /\ state.staging = g /\ state.retired = NoGen
        /\ job[p].doc \in Versions /\ job[p].expected = state.active.generation
        /\ rows[g] = Document[job[p].doc]
        /\ job[p].count = Cardinality(Document[job[p].doc])
    <2>1. /\ syncPc[p] = "parse" /\ g \in Gens /\ state.staging = g /\ state.retired = NoGen /\ job[p].left = {}
          /\ job[p].doc \in Versions /\ job[p].expected = state.active.generation
          /\ rows[g] \subseteq Document[job[p].doc] /\ job[p].left = Document[job[p].doc] \ rows[g]
          /\ job[p].count = Cardinality(rows[g])
      BY <1>1 DEF Publish, HolderKnows
    <2>2. rows[g] = Document[job[p].doc] BY <2>1
    <2> QED BY <2>1, <2>2
  <1>3. /\ state' = [state EXCEPT !.active = [generation |-> g, etag |-> job[p].doc, count |-> job[p].count],
                                  !.staging = NoGen, !.retired = state.active.generation]
        /\ job' = [job EXCEPT ![p].published = TRUE]
        /\ syncPc' = [syncPc EXCEPT ![p] = "recover"]
        /\ UNCHANGED <<lock, rows, remote, reader, crashes>>
    BY <1>2 DEF Publish
  <1>4. state.active.generation \in Gens \cup {NoGen} /\ job[p].count \in Nat /\ state \in States
    BY <1>1, ActiveForm DEF GenTypeOK, Jobs
  <1>5. [generation |-> g, etag |-> job[p].doc, count |-> job[p].count] \in ActiveGeneration
    BY <1>2, <1>4 DEF ActiveGeneration
  <1> HIDE DEF g
  <1>6. /\ state' \in States /\ state'.staging = NoGen /\ state'.retired = state.active.generation
        /\ state'.active.generation = g /\ state'.active.etag = job[p].doc /\ state'.active.count = job[p].count
        /\ state'.next_generation = state.next_generation
    BY <1>3, <1>4, <1>5 DEF States
  <1>7. GenTypeOK'
    <2>0. job \in [Syncers -> Jobs] /\ TRUE \in BOOLEAN BY <1>1 DEF GenTypeOK
    <2>1. job' \in [Syncers -> Jobs] BY <1>3, <2>0 DEF Jobs
    <2> QED BY <1>1, <1>3, <1>6, <2>1 DEF GenTypeOK
  <1>8. g # NoGen /\ g # state.active.generation BY <1>1, <1>2, NoneAssumption DEF Distinct, Gens
  <1>9. Ordered' /\ Distinct' /\ NoForeignNames' BY <1>1, <1>2, <1>3, <1>6, <1>8 DEF Ordered, Distinct, NoForeignNames
  <1>10. Exclusive' BY <1>1, <1>2, <1>3 DEF Exclusive, GenTypeOK
  <1>11. HolderKnows'
    <2>1. \A q \in Syncers : q # p => /\ syncPc'[q] \in {"idle", "wait"} /\ syncPc'[q] = syncPc[q]
                                      /\ job'[q] = job[q]
      BY <1>1, <1>2, <1>3 DEF GenTypeOK, Exclusive
    <2>2. syncPc'[p] = "recover" /\ job'[p].published = TRUE BY <1>1, <1>3 DEF GenTypeOK, Jobs
    <2> QED BY <1>1, <2>1, <2>2 DEF HolderKnows
  <1>12. ReadersSafe' BY <1>1, <1>3, <1>6 DEF ReadersSafe
  <1>13. ActiveIsDocument' BY <1>2, <1>3, <1>6 DEF ActiveIsDocument
  <1>14. \A h \in Gens : rows'[h] # {} => h \in {state'.active.generation, state'.staging, state'.retired}
    BY <1>1, <1>2, <1>3, <1>6, NoneAssumption DEF Gens
  <1> QED BY <1>7, <1>9, <1>10, <1>11, <1>12, <1>13, <1>14, GenTogether

--------------------------------
\* A step of a reader changes nothing of the catalog.
LEMMA ReaderStepSound ==
  ASSUME GenIInv, UNCHANGED <<state, rows, remote, lock, syncPc, job, crashes>>,
         reader' \in [CatalogReaders -> Listings], ReadersSafe', NoForeignNames'
  PROVE  GenIInv'
  <1>1. /\ GenTypeOK /\ Ordered /\ Distinct /\ Exclusive /\ HolderKnows /\ ActiveIsDocument
        /\ \A h \in Gens : rows[h] # {} => h \in {state.active.generation, state.staging, state.retired}
    BY GenParts
  <1>2. GenTypeOK' BY <1>1 DEF GenTypeOK
  <1>3. Ordered' /\ Distinct' /\ Exclusive' /\ HolderKnows' /\ ActiveIsDocument'
    BY <1>1 DEF Ordered, Distinct, Exclusive, HolderKnows, ActiveIsDocument
  <1> QED BY <1>1, <1>2, <1>3, GenTogether

LEMMA ReadPointerSound ==
  ASSUME GenIInv, NEW r \in CatalogReaders, ReadPointer(r)
  PROVE  GenIInv'
  <1>1. /\ GenTypeOK /\ Ordered /\ Distinct /\ ReadersSafe /\ ActiveIsDocument /\ NoForeignNames BY GenParts
  <1> DEFINE a == state.active
  <1>2. a.generation \in Gens /\ a.generation # NoGen /\ a.etag \in Versions
    BY <1>1, ActiveForm DEF ReadPointer, ActiveGeneration
  <1>3. a.generation <= state.next_generation /\ a.generation # state.staging /\ rows[a.generation] = Document[a.etag]
    BY <1>1, <1>2 DEF Ordered, Distinct, ActiveIsDocument, ReadPointer
  <1>4. /\ reader' = [reader EXCEPT ![r].gen = a.generation, ![r].doc = a.etag]
        /\ reader[r].gen = NoGen
        /\ UNCHANGED <<state, rows, remote, lock, syncPc, job, crashes>>
    BY DEF ReadPointer
  <1> HIDE DEF a
  <1>5. /\ reader' \in [CatalogReaders -> Listings]
        /\ reader'[r].gen = a.generation /\ reader'[r].doc = a.etag /\ reader'[r].done = reader[r].done
        /\ \A q \in CatalogReaders : q # r => reader'[q] = reader[q]
    BY <1>1, <1>2, <1>4 DEF GenTypeOK, Listings
  <1>6. ~reader[r].done BY <1>1, <1>4 DEF ReadersSafe
  <1>7. ReadersSafe' BY <1>1, <1>2, <1>3, <1>4, <1>5 DEF ReadersSafe
  <1>8. NoForeignNames' BY <1>1, <1>5, <1>6 DEF NoForeignNames
  <1> QED BY <1>4, <1>5, <1>7, <1>8, ReaderStepSound

LEMMA ReadRowsSound ==
  ASSUME GenIInv, NEW r \in CatalogReaders, ReadRows(r)
  PROVE  GenIInv'
  <1>1. /\ GenTypeOK /\ ReadersSafe /\ NoForeignNames BY GenParts
  <1>2. /\ reader' = [reader EXCEPT ![r].listed = rows[reader[r].gen], ![r].done = TRUE]
        /\ reader[r].gen # NoGen
        /\ UNCHANGED <<state, rows, remote, lock, syncPc, job, crashes>>
    BY DEF ReadRows
  <1>3. rows[reader[r].gen] \in SUBSET Names BY <1>1, <1>2 DEF GenTypeOK, Listings
  <1>4. /\ reader' \in [CatalogReaders -> Listings]
        /\ reader'[r].gen = reader[r].gen /\ reader'[r].doc = reader[r].doc
        /\ reader'[r].listed = rows[reader[r].gen]
        /\ \A q \in CatalogReaders : q # r => reader'[q] = reader[q]
    BY <1>1, <1>2, <1>3 DEF GenTypeOK, Listings
  <1>5. ReadersSafe' /\ NoForeignNames' BY <1>1, <1>2, <1>4 DEF ReadersSafe, NoForeignNames
  <1> QED BY <1>2, <1>4, <1>5, ReaderStepSound

LEMMA ReplySound ==
  ASSUME GenIInv, NEW r \in CatalogReaders, Reply(r)
  PROVE  GenIInv'
  <1>1. /\ GenTypeOK /\ ReadersSafe /\ NoForeignNames BY GenParts
  <1>2. reader' = [reader EXCEPT ![r] = NoReader] /\ UNCHANGED <<state, rows, remote, lock, syncPc, job, crashes>>
    BY DEF Reply
  <1>3. NoReader \in Listings /\ NoReader.gen = NoGen /\ NoReader.done = FALSE BY DEF NoReader, Listings
  <1>4. reader' \in [CatalogReaders -> Listings] /\ ReadersSafe' /\ NoForeignNames'
    BY <1>1, <1>2, <1>3 DEF GenTypeOK, ReadersSafe, NoForeignNames
  <1> QED BY <1>2, <1>4, ReaderStepSound

--------------------------------
LEMMA RemoteChangesSound ==
  ASSUME GenIInv, RemoteChanges
  PROVE  GenIInv'
  <1>1. GenTypeOK /\ Exclusive /\ HolderKnows BY GenParts
  <1>2. UNCHANGED <<state, rows, reader, lock, syncPc, job, crashes>> /\ remote' \in Versions BY DEF RemoteChanges
  <1>3. GenTypeOK' /\ Exclusive' /\ HolderKnows' BY <1>1, <1>2 DEF GenTypeOK, Exclusive, HolderKnows
  <1> QED BY <1>2, <1>3, CatalogUntouched, GenParts, GenTogether

\* A stop forgets every holder and every reader; the state row says all that the next recovery needs.
LEMMA CrashSound ==
  ASSUME GenIInv, Crash
  PROVE  GenIInv'
  <1>1. /\ GenTypeOK /\ Ordered /\ Distinct /\ ActiveIsDocument
        /\ \A h \in Gens : rows[h] # {} => h \in {state.active.generation, state.staging, state.retired}
    BY GenParts
  <1>2. NoReader \in Listings /\ NoReader.gen = NoGen /\ NoReader.done = FALSE BY DEF NoReader, Listings
  <1>3. NoJob.count = 0 /\ NoJob.published = FALSE BY DEF NoJob
  <1>4. crashes' \in 0..MaxCrashes BY <1>1, BoundAssumption DEF Crash, GenTypeOK
  <1>5. GenTypeOK' BY <1>1, <1>2, <1>4, JobTyped DEF Crash, GenTypeOK
  <1>6. Ordered' /\ Distinct' /\ ActiveIsDocument' /\ Exclusive'
    BY <1>1 DEF Crash, Ordered, Distinct, ActiveIsDocument, Exclusive
  <1>7. HolderKnows' /\ ReadersSafe' /\ NoForeignNames'
    BY <1>2, <1>3 DEF Crash, HolderKnows, ReadersSafe, NoForeignNames
  <1>8. \A h \in Gens : rows'[h] # {} => h \in {state'.active.generation, state'.staging, state'.retired}
    BY <1>1 DEF Crash
  <1> QED BY <1>5, <1>6, <1>7, <1>8, GenTogether

LEMMA GenStutter ==
  ASSUME GenIInv, UNCHANGED genVars
  PROVE  GenIInv'
  <1>1. GenTypeOK /\ Exclusive /\ HolderKnows BY GenParts
  <1>2. UNCHANGED <<state, rows, reader>> BY DEF genVars
  <1>3. GenTypeOK' /\ Exclusive' /\ HolderKnows' BY <1>1 DEF GenTypeOK, Exclusive, HolderKnows, genVars
  <1> QED BY <1>2, <1>3, CatalogUntouched, GenParts, GenTogether

--------------------------------
\* Every transaction of a sync, every reader, the upstream and a stop keep the invariant.
THEOREM GenStepIInv == GenIInv /\ [GenNext]_genVars => GenIInv'
  <1> SUFFICES ASSUME GenIInv, [GenNext]_genVars PROVE GenIInv' OBVIOUS
  <1>1. ASSUME NEW p \in Syncers, Call(p) \/ Acquire(p) \/ Proceed(p) PROVE GenIInv'
    BY <1>1, CallSound, AcquireSound, RecoverReadSound, SweepBatchSound, RecoverCommitSound, NotModifiedSound,
       DownloadSound, DownloadFailsSound, BeginSound, PutBatchSound, ParseFailsSound, PublishSound,
       AbortBatchSound, AbortCommitSound DEF Proceed
  <1>2. ASSUME NEW r \in CatalogReaders, ReadPointer(r) \/ ReadRows(r) \/ Reply(r) PROVE GenIInv'
    BY <1>2, ReadPointerSound, ReadRowsSound, ReplySound
  <1> QED BY <1>1, <1>2, RemoteChangesSound, CrashSound, GenStutter DEF GenNext

\* However syncs fail, stop or overlap, what the pointer names is one whole document, no rows are orphaned and
\* no reader lists a name of another generation: catalog.rs, store/projects.rs and store/index.rs.
THEOREM CatalogStaysSound == GenSpec => []CatalogIsSound
  <1>1. GenIInv => CatalogIsSound BY DEF GenIInv
  <1> QED BY <1>1, GenInitIInv, GenStepIInv, PTL DEF GenSpec

--------------------------------
(* SingleFlight. *)

\* A caller refers to a gate from its registration to the end of its drop.
RefersWhileIn == \A c \in Callers : ref[c] = NoGate <=> pc[c] \in {"idle", "missed"}

\* The mutex of a gate is held by the caller that is past Lock and before Unlock on it.
MutexExact ==
    \A c \in Callers, g \in Gates : holder[g] = c <=> ref[c] = g /\ pc[c] \in Holding

\* Whoever waits, tries or has not finished its fetch is on the gate of the map.
Mapped == \A c \in Callers : pc[c] \in Attached => slot = ref[c]

IInv == TypeOK /\ RefersWhileIn /\ MutexExact /\ Mapped /\ UsersExact /\ NoGateLeaks

--------------------------------
LEMMA CallersFinite == IsFiniteSet(Callers)
  BY SingleFlightAssumption, FS_Union DEF Callers

LEMMA UsersFinite == \A g : IsFiniteSet(Users(g)) /\ Cardinality(Users(g)) \in Nat
  <1> TAKE g
  <1>1. Users(g) \subseteq Callers BY DEF Users
  <1> QED BY <1>1, CallersFinite, FS_Subset, FS_CardinalityType

\* No user means an empty set, one user means that a member is the only one.
LEMMA CountZero ==
  ASSUME NEW g, Cardinality(Users(g)) = 0
  PROVE  Users(g) = {}
  BY UsersFinite, FS_EmptySet

LEMMA CountOne ==
  ASSUME NEW g, Cardinality(Users(g)) = 1, NEW c \in Users(g), NEW d \in Users(g)
  PROVE  c = d
  <1>1. PICK x : Users(g) = {x} BY UsersFinite, FS_Singleton
  <1> QED BY <1>1

--------------------------------
THEOREM InitIInv == Init => IInv
  <1> SUFFICES ASSUME Init PROVE IInv OBVIOUS
  <1>1. TypeOK BY DEF Init, TypeOK, Labels
  <1>2. RefersWhileIn /\ Mapped /\ NoGateLeaks BY DEF Init, RefersWhileIn, Mapped, NoGateLeaks, Attached
  <1>3. MutexExact BY SingleFlightAssumption DEF Init, MutexExact, Holding, Callers
  <1>4. UsersExact
    <2> SUFFICES ASSUME NEW g \in Gates PROVE users[g] = Cardinality(Users(g)) BY DEF UsersExact
    <2>1. Users(g) = {} BY DEF Init, Users, Counted, Holding
    <2> QED BY <2>1, FS_EmptySet DEF Init
  <1> QED BY <1>1, <1>2, <1>3, <1>4 DEF IInv
--------------------------------
\* A step that leaves counts, registrations and the counted labels alone keeps the counts exact.
LEMMA SameUsers ==
  ASSUME TypeOK, UsersExact, users' = users,
         \A c \in Callers : pc'[c] \in Counted <=> pc[c] \in Counted,
         \A c \in Callers : pc[c] \in Counted => ref'[c] = ref[c]
  PROVE  UsersExact'
  <1> SUFFICES ASSUME NEW g \in Gates PROVE users'[g] = Cardinality(Users(g)') BY DEF UsersExact
  <1>1. Users(g)' = Users(g) BY DEF Users
  <1> QED BY <1>1 DEF UsersExact

\* What each group of the invariant says of one caller that moves, its registration kept.
LEMMA MoveKeeps ==
  ASSUME IInv, NEW c \in Callers, NEW label \in Labels,
         pc' = [pc EXCEPT ![c] = label], UNCHANGED <<users, ref>>,
         fresh' \in BOOLEAN,
         pc[c] \in Counted, label \in Counted
  PROVE  /\ pc' \in [Callers -> Labels] /\ RefersWhileIn' /\ UsersExact'
         /\ \A d \in Callers : d # c => pc'[d] = pc[d]
         /\ pc'[c] = label
  <1>1. TypeOK /\ RefersWhileIn /\ UsersExact BY DEF IInv
  <1>2. /\ pc' \in [Callers -> Labels]
        /\ \A d \in Callers : d # c => pc'[d] = pc[d]
        /\ pc'[c] = label
    BY <1>1 DEF TypeOK
  <1>3. RefersWhileIn' BY <1>1, <1>2 DEF RefersWhileIn, Counted, Holding
  <1>4. UsersExact' BY <1>1, <1>2, SameUsers
  <1> QED BY <1>2, <1>3, <1>4

LEMMA MissKeeps ==
  ASSUME IInv, NEW c \in Callers, Miss(c)
  PROVE  IInv'
  <1>1. TypeOK /\ RefersWhileIn /\ MutexExact /\ Mapped /\ UsersExact /\ NoGateLeaks BY DEF IInv
  <1>2. /\ pc' \in [Callers -> Labels] /\ pc[c] = "idle" /\ pc'[c] = "missed"
        /\ \A d \in Callers : d # c => pc'[d] = pc[d]
    BY <1>1 DEF TypeOK, Miss, Goto, Labels
  <1>3. UNCHANGED <<slot, users, holder, ref, fresh>> BY DEF Miss
  <1>4. TypeOK' /\ NoGateLeaks' BY <1>1, <1>2, <1>3 DEF TypeOK, NoGateLeaks
  <1>5. RefersWhileIn' /\ MutexExact' /\ Mapped'
    BY <1>1, <1>2, <1>3 DEF RefersWhileIn, MutexExact, Mapped, Holding, Attached
  <1>6. UsersExact' BY <1>1, <1>2, <1>3, SameUsers DEF Counted, Holding
  <1> QED BY <1>4, <1>5, <1>6 DEF IInv

\* The user set of the gate that c registers on gains c, the others stay.
LEMMA RegisterCounts ==
  ASSUME IInv, NEW c \in Callers, NEW g \in Gates, NEW label \in {"waiting", "trying"},
         pc[c] = "missed",
         pc' = [pc EXCEPT ![c] = label],
         ref' = [ref EXCEPT ![c] = g],
         users' = [users EXCEPT ![g] = users[g] + 1]
  PROVE  UsersExact'
  <1>1. TypeOK /\ RefersWhileIn /\ UsersExact BY DEF IInv
  <1> SUFFICES ASSUME NEW h \in Gates PROVE users'[h] = Cardinality(Users(h)') BY DEF UsersExact
  <1>2. /\ pc'[c] = label /\ ref'[c] = g
        /\ \A d \in Callers : d # c => pc'[d] = pc[d] /\ ref'[d] = ref[d]
    BY <1>1 DEF TypeOK
  <1>3. c \notin Users(h) BY DEF Users, Counted, Holding
  <1>4. users[h] = Cardinality(Users(h)) /\ users[h] \in Nat BY <1>1 DEF UsersExact, TypeOK
  <1>5. CASE h = g
    <2>1. Users(h)' = Users(h) \cup {c} BY <1>2, <1>5 DEF Users, Counted
    <2>2. Cardinality(Users(h) \cup {c}) = Cardinality(Users(h)) + 1 BY <1>3, UsersFinite, FS_AddElement
    <2>3. users'[h] = users[h] + 1 BY <1>1, <1>5 DEF TypeOK
    <2> QED BY <2>1, <2>2, <2>3, <1>4
  <1>6. CASE h # g
    <2>1. Users(h)' = Users(h) BY <1>2, <1>3, <1>6 DEF Users
    <2>2. users'[h] = users[h] BY <1>1, <1>6 DEF TypeOK
    <2> QED BY <2>1, <2>2, <1>4
  <1> QED BY <1>5, <1>6

LEMMA JoinKeeps ==
  ASSUME IInv, NEW c \in Callers, Join(c)
  PROVE  IInv'
  <1>1. TypeOK /\ RefersWhileIn /\ MutexExact /\ Mapped /\ NoGateLeaks BY DEF IInv
  <1>2. PICK label \in {"waiting", "trying"} : pc' = [pc EXCEPT ![c] = label] BY DEF Join, Goto, Registered
  <1>3. /\ slot \in Gates /\ pc[c] = "missed"
        /\ users' = [users EXCEPT ![slot] = users[slot] + 1]
        /\ ref' = [ref EXCEPT ![c] = slot]
        /\ UNCHANGED <<slot, holder, fresh>>
    BY <1>1 DEF Join, TypeOK
  <1>4. /\ pc'[c] = label /\ ref'[c] = slot
        /\ \A d \in Callers : d # c => pc'[d] = pc[d] /\ ref'[d] = ref[d]
    BY <1>1, <1>2, <1>3 DEF TypeOK
  <1>5. TypeOK' BY <1>1, <1>2, <1>3 DEF TypeOK, Labels
  <1>6. RefersWhileIn' BY <1>1, <1>3, <1>4, SingleFlightAssumption DEF RefersWhileIn
  <1>7. MutexExact' BY <1>1, <1>3, <1>4 DEF MutexExact, Holding
  <1>8. Mapped' /\ NoGateLeaks' BY <1>1, <1>3, <1>4 DEF Mapped, NoGateLeaks
  <1>9. UsersExact' BY <1>2, <1>3, RegisterCounts
  <1> QED BY <1>5, <1>6, <1>7, <1>8, <1>9 DEF IInv

LEMMA CreateKeeps ==
  ASSUME IInv, NEW c \in Callers, Create(c)
  PROVE  IInv'
  <1>1. TypeOK /\ RefersWhileIn /\ MutexExact /\ Mapped /\ UsersExact BY DEF IInv
  <1>2. PICK label \in {"waiting", "trying"} : pc' = [pc EXCEPT ![c] = label] BY DEF Create, Goto, Registered
  <1>3. PICK g \in Gates : /\ \A d \in Callers : ref[d] # g
                           /\ slot' = g
                           /\ users' = [users EXCEPT ![g] = 1]
                           /\ ref' = [ref EXCEPT ![c] = g]
    BY DEF Create
  <1>4. pc[c] = "missed" /\ slot = NoGate /\ UNCHANGED <<holder, fresh>> BY DEF Create
  <1>5. users[g] = 0
    <2>1. Users(g) = {} BY <1>3 DEF Users
    <2> QED BY <1>1, <2>1, FS_EmptySet DEF UsersExact
  <1>6. users' = [users EXCEPT ![g] = users[g] + 1] BY <1>3, <1>5
  <1>7. /\ pc'[c] = label /\ ref'[c] = g
        /\ \A d \in Callers : d # c => pc'[d] = pc[d] /\ ref'[d] = ref[d]
    BY <1>1, <1>2, <1>3 DEF TypeOK
  <1>8. TypeOK' BY <1>1, <1>2, <1>3, <1>4 DEF TypeOK, Labels
  <1>9. RefersWhileIn' BY <1>1, <1>7, SingleFlightAssumption DEF RefersWhileIn
  <1>10. MutexExact' BY <1>1, <1>3, <1>4, <1>7 DEF MutexExact, Holding
  <1>11. Mapped'
    <2>1. \A d \in Callers : pc[d] \notin Attached BY <1>1, <1>4 DEF Mapped, RefersWhileIn, Attached
    <2> QED BY <1>3, <1>7, <2>1 DEF Mapped
  <1>12. NoGateLeaks' BY <1>3, <1>7 DEF NoGateLeaks
  <1>13. UsersExact' BY <1>2, <1>3, <1>4, <1>6, RegisterCounts
  <1> QED BY <1>8, <1>9, <1>10, <1>11, <1>12, <1>13 DEF IInv

\* A caller takes the free mutex of its gate.
LEMMA AcquireKeeps ==
  ASSUME IInv, NEW c \in Callers, NEW label \in {"held", "fetch"},
         pc[c] \in {"waiting", "trying"}, holder[ref[c]] = NoCaller,
         holder' = [holder EXCEPT ![ref[c]] = c], pc' = [pc EXCEPT ![c] = label],
         UNCHANGED <<slot, users, ref, fresh>>
  PROVE  IInv'
  <1>1. TypeOK /\ RefersWhileIn /\ MutexExact /\ Mapped /\ NoGateLeaks BY DEF IInv
  <1>2. /\ pc' \in [Callers -> Labels] /\ RefersWhileIn' /\ UsersExact' /\ pc'[c] = label
        /\ \A d \in Callers : d # c => pc'[d] = pc[d]
    BY <1>1, MoveKeeps DEF Labels, Counted, Holding, TypeOK
  <1>3. ref[c] \in Gates BY <1>1 DEF TypeOK, RefersWhileIn
  <1>4. holder'[ref[c]] = c /\ \A g \in Gates : g # ref[c] => holder'[g] = holder[g] BY <1>1, <1>3 DEF TypeOK
  <1>5. TypeOK' BY <1>1, <1>2 DEF TypeOK
  <1>6. MutexExact'
    <2> SUFFICES ASSUME NEW d \in Callers, NEW g \in Gates
                 PROVE  holder'[g] = d <=> ref[d] = g /\ pc'[d] \in Holding
      BY DEF MutexExact
    <2>1. c # NoCaller /\ d # NoCaller BY SingleFlightAssumption DEF Callers
    <2>2. CASE g = ref[c]
      <3>1. \A e \in Callers : ~(ref[e] = g /\ pc[e] \in Holding)
        BY <1>1, <1>3, <2>2, SingleFlightAssumption DEF MutexExact, Callers
      <3> QED BY <1>2, <1>4, <2>2, <3>1 DEF Holding
    <2>3. CASE g # ref[c] BY <1>1, <1>2, <1>4, <2>3 DEF MutexExact
    <2> QED BY <2>2, <2>3
  <1>7. Mapped' /\ NoGateLeaks' BY <1>1, <1>2 DEF Mapped, NoGateLeaks, Attached
  <1> QED BY <1>2, <1>5, <1>6, <1>7 DEF IInv

\* A caller moves on among the labels of one side of the mutex.
LEMMA StayKeeps ==
  ASSUME IInv, NEW c \in Callers, NEW label \in Labels,
         pc' = [pc EXCEPT ![c] = label], UNCHANGED <<slot, users, holder, ref>>,
         fresh' \in BOOLEAN, pc[c] \in Attached,
         \/ pc[c] \in Holding /\ label \in Holding
         \/ pc[c] \notin Holding /\ label = "leave"
  PROVE  IInv'
  <1>1. TypeOK /\ RefersWhileIn /\ MutexExact /\ Mapped /\ NoGateLeaks BY DEF IInv
  <1>2. /\ pc' \in [Callers -> Labels] /\ RefersWhileIn' /\ UsersExact' /\ pc'[c] = label
        /\ \A d \in Callers : d # c => pc'[d] = pc[d]
    BY <1>1, MoveKeeps DEF Counted, Holding, Attached
  <1>3. TypeOK' BY <1>1, <1>2 DEF TypeOK
  <1>4. MutexExact' BY <1>1, <1>2 DEF MutexExact, Holding
  <1>5. Mapped' /\ NoGateLeaks' BY <1>1, <1>2 DEF Mapped, NoGateLeaks
  <1> QED BY <1>2, <1>3, <1>4, <1>5 DEF IInv

LEMMA ForgetKeeps ==
  ASSUME IInv, NEW c \in Callers, ForgetFlight(c)
  PROVE  IInv'
  <1>1. TypeOK /\ RefersWhileIn /\ MutexExact /\ Mapped /\ UsersExact /\ NoGateLeaks BY DEF IInv
  <1>2. /\ pc[c] = "forget" /\ pc' = [pc EXCEPT ![c] = "unlock"]
        /\ UNCHANGED <<users, holder, ref, fresh>>
    BY DEF ForgetFlight, Goto
  <1>3. /\ pc' \in [Callers -> Labels] /\ RefersWhileIn' /\ UsersExact' /\ pc'[c] = "unlock"
        /\ \A d \in Callers : d # c => pc'[d] = pc[d]
    BY <1>1, <1>2, MoveKeeps DEF Labels, Counted, Holding, TypeOK
  <1>4. slot' \in {slot, NoGate} BY DEF ForgetFlight
  <1>5. TypeOK' /\ NoGateLeaks' BY <1>1, <1>2, <1>3, <1>4 DEF TypeOK, NoGateLeaks
  <1>6. MutexExact' BY <1>1, <1>2, <1>3 DEF MutexExact, Holding
  <1>7. Mapped'
    <2>1. slot = ref[c] /\ slot \in Gates /\ c \in Users(slot)
      BY <1>1, <1>2 DEF Mapped, Attached, TypeOK, RefersWhileIn, Users, Counted, Holding
    <2>2. CASE users[slot] = 1
      <3>1. Cardinality(Users(slot)) = 1 BY <1>1, <2>1, <2>2 DEF UsersExact
      <3>2. \A d \in Callers : pc[d] \in Attached => d \in Users(slot)
        BY <1>1 DEF Mapped, Users, Attached, Counted, Holding
      <3>3. \A d \in Callers : pc[d] \in Attached => d = c BY <2>1, <3>1, <3>2, CountOne
      <3> QED BY <1>3, <3>3 DEF Mapped, Attached
    <2>3. CASE users[slot] # 1
      <3>1. slot' = slot BY <2>3 DEF ForgetFlight
      <3> QED BY <1>1, <1>2, <1>3, <3>1 DEF Mapped, Attached
    <2> QED BY <2>2, <2>3
  <1> QED BY <1>3, <1>5, <1>6, <1>7 DEF IInv

LEMMA UnlockKeeps ==
  ASSUME IInv, NEW c \in Callers, Unlock(c)
  PROVE  IInv'
  <1>1. TypeOK /\ RefersWhileIn /\ MutexExact /\ Mapped /\ NoGateLeaks BY DEF IInv
  <1>2. /\ pc[c] = "unlock" /\ pc' = [pc EXCEPT ![c] = "leave"]
        /\ holder' = [holder EXCEPT ![ref[c]] = NoCaller]
        /\ UNCHANGED <<slot, users, ref, fresh>>
    BY DEF Unlock, Goto
  <1>3. /\ pc' \in [Callers -> Labels] /\ RefersWhileIn' /\ UsersExact' /\ pc'[c] = "leave"
        /\ \A d \in Callers : d # c => pc'[d] = pc[d]
    BY <1>1, <1>2, MoveKeeps DEF Labels, Counted, Holding, TypeOK
  <1>4. ref[c] \in Gates /\ holder[ref[c]] = c BY <1>1, <1>2 DEF TypeOK, RefersWhileIn, MutexExact, Holding
  <1>5. holder'[ref[c]] = NoCaller /\ \A g \in Gates : g # ref[c] => holder'[g] = holder[g]
    BY <1>1, <1>2, <1>4 DEF TypeOK
  <1>6. TypeOK' BY <1>1, <1>2, <1>3 DEF TypeOK
  <1>7. MutexExact'
    <2> SUFFICES ASSUME NEW d \in Callers, NEW g \in Gates
                 PROVE  holder'[g] = d <=> ref[d] = g /\ pc'[d] \in Holding
      BY <1>2 DEF MutexExact
    <2>1. d # NoCaller BY SingleFlightAssumption DEF Callers
    <2>2. CASE d = c BY <1>1, <1>2, <1>3, <1>4, <1>5, <2>1, <2>2 DEF MutexExact, Holding
    <2>3. CASE d # c BY <1>1, <1>3, <1>4, <1>5, <2>1, <2>3 DEF MutexExact
    <2> QED BY <2>2, <2>3
  <1>8. Mapped' /\ NoGateLeaks' BY <1>1, <1>2, <1>3 DEF Mapped, NoGateLeaks, Attached
  <1> QED BY <1>3, <1>6, <1>7, <1>8 DEF IInv

LEMMA LeaveKeeps ==
  ASSUME IInv, NEW c \in Callers, Leave(c)
  PROVE  IInv'
  <1>1. TypeOK /\ RefersWhileIn /\ MutexExact /\ Mapped /\ UsersExact /\ NoGateLeaks BY DEF IInv
  <1> DEFINE h == ref[c]
  <1>2. /\ pc[c] = "leave" /\ users' = [users EXCEPT ![h] = users[h] - 1]
        /\ UNCHANGED <<slot, holder, fresh>>
    BY DEF Leave
  <1>3. /\ h \in Gates /\ c \in Users(h) /\ users[h] = Cardinality(Users(h))
        /\ users[h] \in Nat \ {0}
    <2>1. h \in Gates /\ c \in Users(h) BY <1>1, <1>2 DEF TypeOK, RefersWhileIn, Users, Counted
    <2>2. users[h] = Cardinality(Users(h)) /\ users[h] \in Nat BY <1>1, <2>1 DEF UsersExact, TypeOK
    <2> QED BY <2>1, <2>2, CountZero
  <1>4. PICK label \in {"remove", "idle"}, r \in {h, NoGate} :
            /\ pc' = [pc EXCEPT ![c] = label] /\ ref' = [ref EXCEPT ![c] = r]
            /\ label = "remove" <=> users[h] = 1
            /\ r = h <=> label = "remove"
    <2>1. CASE users[h] = 1
      <3>1. pc' = [pc EXCEPT ![c] = "remove"] /\ ref' = [ref EXCEPT ![c] = h] BY <1>1, <2>1 DEF Leave, Goto, TypeOK
      <3> QED BY <2>1, <3>1
    <2>2. CASE users[h] # 1
      <3>1. pc' = [pc EXCEPT ![c] = "idle"] /\ ref' = [ref EXCEPT ![c] = NoGate] BY <2>2 DEF Leave, Goto
      <3> QED BY <1>3, <2>2, <3>1, SingleFlightAssumption
    <2> QED BY <2>1, <2>2
  <1>5. /\ pc'[c] = label /\ ref'[c] = r
        /\ \A d \in Callers : d # c => pc'[d] = pc[d] /\ ref'[d] = ref[d]
    BY <1>1, <1>4 DEF TypeOK
  <1>6. users'[h] = users[h] - 1 /\ \A g \in Gates : g # h => users'[g] = users[g] BY <1>1, <1>2, <1>3 DEF TypeOK
  <1>7. TypeOK'
    <2>1. users' \in [Gates -> Nat] BY <1>1, <1>2, <1>3 DEF TypeOK
    <2> QED BY <1>1, <1>2, <1>3, <1>4, <2>1 DEF TypeOK, Labels
  <1>8. RefersWhileIn' BY <1>1, <1>3, <1>4, <1>5, SingleFlightAssumption DEF RefersWhileIn
  <1>9. MutexExact' BY <1>1, <1>2, <1>4, <1>5 DEF MutexExact, Holding
  <1>10. Mapped' BY <1>1, <1>2, <1>4, <1>5 DEF Mapped, Attached
  <1>11. UsersExact'
    <2> SUFFICES ASSUME NEW g \in Gates PROVE users'[g] = Cardinality(Users(g)') BY DEF UsersExact
    <2>1. CASE g = h
      <3>1. Users(g)' = Users(g) \ {c} BY <1>4, <1>5, <2>1 DEF Users, Counted, Holding
      <3>2. Cardinality(Users(g) \ {c}) = Cardinality(Users(g)) - 1 BY <1>3, <2>1, UsersFinite, FS_RemoveElement
      <3> QED BY <1>3, <1>6, <2>1, <3>1, <3>2
    <2>2. CASE g # h
      <3>1. Users(g)' = Users(g) BY <1>4, <1>5, <2>2 DEF Users, Counted, Holding
      <3> QED BY <1>1, <1>6, <2>2, <3>1 DEF UsersExact
    <2> QED BY <2>1, <2>2
  <1>12. NoGateLeaks'
    <2> SUFFICES ASSUME slot # NoGate PROVE \E d \in Callers : ref'[d] = slot BY <1>2 DEF NoGateLeaks
    <2>1. CASE slot # h \/ label = "remove" BY <1>1, <1>4, <1>5, <2>1 DEF NoGateLeaks
    <2>2. CASE slot = h /\ label # "remove"
      <3>1. users[h] > 1 /\ Cardinality(Users(h)) # 1 BY <1>3, <1>4, <2>2
      <3>2. Users(h) # {c} BY <3>1, FS_Singleton
      <3>3. PICK d \in Users(h) : d # c BY <1>3, <3>2
      <3> QED BY <1>5, <2>2, <3>3 DEF Users
    <2> QED BY <2>1, <2>2
  <1> QED BY <1>7, <1>8, <1>9, <1>10, <1>11, <1>12 DEF IInv

LEMMA RemoveKeeps ==
  ASSUME IInv, NEW c \in Callers, Remove(c)
  PROVE  IInv'
  <1>1. TypeOK /\ RefersWhileIn /\ MutexExact /\ Mapped /\ UsersExact /\ NoGateLeaks BY DEF IInv
  <1>2. /\ pc[c] = "remove" /\ pc' = [pc EXCEPT ![c] = "idle"]
        /\ ref' = [ref EXCEPT ![c] = NoGate]
        /\ slot' = IF slot = ref[c] /\ users[slot] = 0 THEN NoGate ELSE slot
        /\ UNCHANGED <<users, holder, fresh>>
    BY DEF Remove, Goto
  <1>3. /\ pc'[c] = "idle" /\ ref'[c] = NoGate
        /\ \A d \in Callers : d # c => pc'[d] = pc[d] /\ ref'[d] = ref[d]
    BY <1>1, <1>2 DEF TypeOK
  <1>4. TypeOK' BY <1>1, <1>2 DEF TypeOK, Labels
  <1>5. RefersWhileIn' BY <1>1, <1>3 DEF RefersWhileIn
  <1>6. MutexExact' BY <1>1, <1>2, <1>3, SingleFlightAssumption DEF MutexExact, Holding
  <1>7. UsersExact' BY <1>1, <1>2, <1>3, SameUsers DEF Counted, Holding
  <1>8. Mapped' /\ NoGateLeaks'
    <2>1. CASE slot = ref[c] /\ users[slot] = 0
      <3>1. slot \in Gates BY <1>1, <1>2, <2>1 DEF TypeOK, RefersWhileIn
      <3>2. Users(slot) = {} BY <1>1, <2>1, <3>1, CountZero DEF UsersExact
      <3>3. \A d \in Callers : pc[d] \notin Attached BY <1>1, <3>2 DEF Mapped, Users, Attached, Counted, Holding
      <3> QED BY <1>2, <1>3, <2>1, <3>3 DEF Mapped, NoGateLeaks, Attached
    <2>2. CASE ~(slot = ref[c] /\ users[slot] = 0)
      <3>1. slot' = slot BY <1>2, <2>2
      <3>2. Mapped' BY <1>1, <1>3, <3>1 DEF Mapped, Attached
      <3>3. ASSUME slot # NoGate PROVE \E d \in Callers : ref'[d] = slot
        <4>1. CASE slot # ref[c] BY <1>1, <1>3, <3>3, <4>1 DEF NoGateLeaks
        <4>2. CASE slot = ref[c]
          <5>1. slot \in Gates /\ Cardinality(Users(slot)) # 0 BY <1>1, <2>2, <3>3, <4>2 DEF TypeOK, UsersExact
          <5>2. PICK d \in Users(slot) : TRUE BY <5>1, FS_EmptySet
          <5>3. d # c BY <1>2 DEF Users, Counted, Holding
          <5> QED BY <1>3, <5>2, <5>3 DEF Users
        <4> QED BY <4>1, <4>2
      <3> QED BY <3>1, <3>2, <3>3 DEF NoGateLeaks
    <2> QED BY <2>1, <2>2
  <1> QED BY <1>4, <1>5, <1>6, <1>7, <1>8 DEF IInv

--------------------------------
\* Every step keeps the invariant.
THEOREM NextIInv == IInv /\ [Next]_vars => IInv'
  <1> SUFFICES ASSUME IInv, [Next]_vars PROVE IInv' OBVIOUS
  <1>0. TypeOK BY DEF IInv
  <1>1. CASE UNCHANGED vars
    BY <1>1 DEF IInv, TypeOK, RefersWhileIn, MutexExact, Mapped, UsersExact, Users, NoGateLeaks, vars
  <1>2. CASE Expire
    <2>1. UNCHANGED <<slot, users, holder, ref, pc>> /\ fresh' \in BOOLEAN BY <1>2 DEF Expire
    <2> QED BY <2>1 DEF IInv, TypeOK, RefersWhileIn, MutexExact, Mapped, UsersExact, Users, NoGateLeaks
  <1>3. ASSUME NEW c \in Callers, Miss(c) \/ Lock(c) \/ Step(c) \/ Cancel(c) PROVE IInv'
    <2>1. CASE Lock(c) BY <2>1, AcquireKeeps DEF Lock, Goto
    <2>2. CASE TryLock(c)
      <3>1. CASE holder[ref[c]] = NoCaller BY <2>2, <3>1, AcquireKeeps DEF TryLock, Goto
      <3>2. CASE holder[ref[c]] # NoCaller
        BY <1>0, <2>2, <3>2, StayKeeps DEF TryLock, Goto, Labels, Attached, Holding, TypeOK
      <3> QED BY <3>1, <3>2
    <2>3. CASE Recheck(c) BY <1>0, <2>3, StayKeeps DEF Recheck, Goto, Labels, Attached, Holding, TypeOK
    <2>4. CASE Fetched(c)
      <3>1. PICK label \in {"forget", "unlock"} : pc' = [pc EXCEPT ![c] = label] BY <2>4 DEF Fetched, Goto
      <3>2. pc[c] = "fetch" /\ UNCHANGED <<slot, users, holder, ref>> /\ fresh' \in BOOLEAN
        BY <1>0, <2>4 DEF Fetched, TypeOK
      <3> QED BY <3>1, <3>2, StayKeeps DEF Labels, Attached, Holding
    <2>5. CASE Cancel(c) BY <1>0, <2>5, StayKeeps DEF Cancel, Goto, Labels, Attached, Holding, TypeOK
    <2> QED BY <1>3, <2>1, <2>2, <2>3, <2>4, <2>5, MissKeeps, JoinKeeps, CreateKeeps, ForgetKeeps,
         UnlockKeeps, LeaveKeeps, RemoveKeeps DEF Step
  <1> QED BY <1>1, <1>2, <1>3 DEF Next

\* The inductive invariant holds in every reachable state, for any callers and gates.
THEOREM FlightInvariant == Spec => []IInv
  BY InitIInv, NextIInv, PTL DEF Spec

(* Two callers never fetch at once, although forget_flight and the drop of *)
(* a gate take it out of the map while others hold or join it.             *)
THEOREM FetchIsExclusive == Spec => []OneFetch
  <1>1. IInv => OneFetch
    <2> SUFFICES ASSUME IInv, NEW c \in Callers, NEW d \in Callers, pc[c] = "fetch", pc[d] = "fetch"
                 PROVE  c = d
      BY DEF OneFetch
    <2>1. TypeOK /\ RefersWhileIn /\ MutexExact /\ Mapped BY DEF IInv
    <2>2. ref[c] = ref[d] /\ ref[c] \in Gates BY <2>1 DEF Mapped, Attached, TypeOK, RefersWhileIn
    <2>3. holder[ref[c]] = c /\ holder[ref[d]] = d BY <2>1, <2>2 DEF MutexExact, Holding
    <2> QED BY <2>2, <2>3
  <1> QED BY <1>1, FlightInvariant, PTL

\* The user counts are exact in every reachable state.
THEOREM CountsAreExact == Spec => []UsersExact
  <1>1. IInv => UsersExact BY DEF IInv
  <1> QED BY <1>1, FlightInvariant, PTL

\* No gate stays in the map without a caller that will take it out.
THEOREM GatesAreRetired == Spec => []NoGateLeaks
  <1>1. IInv => NoGateLeaks BY DEF IInv
  <1> QED BY <1>1, FlightInvariant, PTL


\* Only a revalidation tries the gate; a request waits for it.
Roles == \A c \in Callers : pc[c] = "trying" => c \notin Readers

LEMMA RolesKept == Spec => []Roles
  <1>1. Init => Roles BY DEF Init, Roles
  <1>2. IInv /\ Roles /\ [Next]_vars => Roles'
    <2> SUFFICES ASSUME IInv, Roles, [Next]_vars, NEW c \in Callers, pc'[c] = "trying"
                 PROVE  c \notin Readers
      BY DEF Roles
    <2>1. TypeOK BY DEF IInv
    <2>2. CASE pc[c] = "trying" BY <2>2 DEF Roles
    <2>3. CASE pc[c] # "trying"
      <3>1. PICK e \in Callers : Miss(e) \/ Lock(e) \/ Step(e) \/ Cancel(e) BY <2>3 DEF Next, Expire, vars
      <3>2. Join(c) \/ Create(c) BY <2>1, <2>3, <3>1 DEF TypeOK, Goto, Step, Miss, Lock, Join, Create, TryLock, Recheck,
           Fetched, ForgetFlight, Cancel, Unlock, Leave, Remove
      <3>3. pc' = [pc EXCEPT ![c] = Registered(c)] BY <3>2 DEF Join, Create, Goto
      <3> QED BY <2>1, <3>3 DEF TypeOK, Registered
    <2> QED BY <2>2, <2>3
  <1> QED BY <1>1, <1>2, FlightInvariant, PTL DEF Spec

(* A caller that waited for the gate starts a fetch only when the cache    *)
(* has nothing and nobody else is fetching.                                *)
THEOREM MissesAreCoalesced == Spec => FetchesAreDue
  <1> DEFINE Due == \A c \in Readers : pc[c] # "fetch" /\ pc'[c] = "fetch"
                      => ~fresh /\ \A d \in Callers : pc[d] # "fetch"
  <1>1. IInv /\ Roles /\ IInv' /\ [Next]_vars => [Due]_vars
    <2> SUFFICES ASSUME IInv, Roles, IInv', [Next]_vars, NEW c \in Readers,
                        pc[c] # "fetch", pc'[c] = "fetch"
                 PROVE  ~fresh /\ \A d \in Callers : pc[d] # "fetch"
      OBVIOUS
    <2>1. TypeOK /\ RefersWhileIn /\ MutexExact /\ Mapped /\ c \in Callers BY DEF IInv, Callers
    <2>2. PICK e \in Callers : Miss(e) \/ Lock(e) \/ Step(e) \/ Cancel(e) BY <2>1 DEF Next, Expire, vars
    <2>3. TryLock(c) \/ Recheck(c) BY <2>1, <2>2 DEF TypeOK, Goto, Step, Miss, Lock, Join, Create, TryLock, Recheck,
         Fetched, ForgetFlight, Cancel, Unlock, Leave, Remove, Registered
    <2>4. Recheck(c) BY <2>1, <2>3 DEF Roles, TryLock
    <2>5. pc[c] = "held" /\ ~fresh BY <2>1, <2>4 DEF Recheck, Goto, TypeOK
    <2>6. ASSUME NEW d \in Callers, pc[d] = "fetch" PROVE FALSE
      <3>1. ref[c] = ref[d] /\ ref[c] \in Gates BY <2>1, <2>5, <2>6 DEF Mapped, Attached, TypeOK, RefersWhileIn
      <3>2. holder[ref[c]] = c /\ holder[ref[d]] = d BY <2>1, <2>5, <2>6, <3>1 DEF MutexExact, Holding
      <3> QED BY <2>5, <2>6, <3>1, <3>2
    <2> QED BY <2>5, <2>6
  <1> QED BY <1>1, FlightInvariant, RolesKept, PTL DEF Spec, FetchesAreDue
================================

---------------- MODULE Replication ----------------
(* A peryx primary and one read replica that follows its journal.

   The primary commits hosted-file records and one journal entry per file
   in a single redb transaction (peryx-storage/src/meta/index.rs); only
   the last entry of a transaction carries the row changes and the blob
   references.  The replica (peryx-replication/src/replica.rs) repeats
   sync_once: read its durable cursor, ask for the next page, validate it,
   copy every blob the page names, then commit rows, copied journal
   entries and the new cursor in one transaction guarded by the serial.
   The process loop and its health record are peryx/src/replication.rs.

   A serial is a position in the journal: nothing but a journalled commit
   advances it.  A blob's size is a function of its digest, so every size
   check of the transfer is one of the ways a transfer fails. *)
EXTENDS Naturals, Sequences, FiniteSets

CONSTANTS
    Files,      \* hosted file rows (index/project/filename)
    Overrides,  \* override rows, for files served from a read-only layer
    Artifacts,  \* digests of uploaded files; each keys a provenance row
    Provenances, \* digests of provenance documents
    Followers,  \* concurrent callers of sync_once on the replica's store
    PageLimit,  \* the replica's page_size
    MaxSerial,  \* bound on the primary's journal
    MaxFaults,  \* bound on abandoned uploads, transfer failures and stops
    MaxRestores, \* bound on restores of the primary from a backup
    Purging,    \* whether operators run `cache purge orphaned-blobs`
    Hidden,     \* the value of an override row
    Absent,     \* no row under this key
    Untouched   \* a journal entry does not mention this key

ASSUME PageLimitAssumption == PageLimit \in Nat \ {0}
ASSUME MaxSerialAssumption == MaxSerial \in Nat
ASSUME MaxFaultsAssumption == MaxFaults \in Nat
ASSUME MaxRestoresAssumption == MaxRestores \in Nat
ASSUME PurgingAssumption == Purging \in BOOLEAN

VARIABLES
    pRows,      \* primary: the hosted rows
    pJournal,   \* primary: the journal, one entry per serial
    pBlobs,     \* primary: digests in its blob store
    rRows,      \* replica: the hosted rows
    rJournal,   \* replica: the copied journal
    rBlobs,     \* replica: what its blob store holds under each digest
    cursor,     \* replica: the serial in the replication\0state row
    pc,         \* where each follower is inside sync_once
    seen,       \* the cursor each follower read
    page,       \* the page each follower holds
    need,       \* the blobs of that page still to be settled
    monitor,    \* ReplicaMonitor's observation
    faults,     \* failures spent so far
    restores,   \* restores of the primary so far
    lost        \* a restore dropped serials that had been served

pVars == <<pRows, pJournal, pBlobs>>
rVars == <<rRows, rJournal, rBlobs, cursor>>
fVars == <<pc, seen, page, need>>
env == <<faults, restores, lost>>
vars == <<pVars, rVars, fVars, monitor, env>>

Blobs == Artifacts \cup Provenances
Keys == Files \cup Overrides \cup Artifacts

(* A row that names a blob: a hosted file, yanked, trashed or not, or the   *)
(* provenance row of an artifact.                                           *)
Records == [blob : Blobs, marked : BOOLEAN]
Values == Records \cup {Hidden}
Rows ==
    {r \in [Keys -> Values \cup {Absent}] : \A k \in Keys \ Overrides : r[k] # Hidden}
Mutations ==
    {m \in [Keys -> Values \cup {Absent, Untouched}] :
        \A k \in Keys \ Overrides : m[k] # Hidden}

ASSUME SentinelAssumption ==
    /\ Hidden \notin Records
    /\ Absent \notin Values
    /\ Untouched \notin Values \cup {Absent}

ASSUME KeyAssumption ==
    /\ Files \cap (Overrides \cup Artifacts) = {}
    /\ Overrides \cap Artifacts = {}
    /\ IsFiniteSet(Files)

(* A journal record: its serial, the event (the file it names and what      *)
(* became of it), the row changes and blob references stored beside it.     *)
Entries ==
    [serial : Nat, key : Keys, to : Values \cup {Absent},
     mut : Mutations, blobs : SUBSET Blobs]

Pages == [after : Nat, changes : Seq(Entries), current : Nat]

BlobStates == {"absent", "good", "corrupt"}
Statuses == {"starting", "catching_up", "caught_up", "error"}

NoRows == [k \in Keys |-> Absent]
NoChange == [k \in Keys |-> Untouched]
NoPage == [after |-> 0, changes |-> <<>>, current |-> 0]
Starting(serial) == [status |-> "starting", serial |-> serial, primary |-> 0]

(* The last serial of a page. *)
Through(p) == p.after + Len(p.changes)

(* Digests that rows name: the reference scan of the orphan collector. *)
Referenced(rows) == {rows[k].blob : k \in {x \in Keys : rows[x] \in Records}}

(* i is the last of the serials a+1..s whose entry mentions key k. *)
IsLastTouch(journal, a, s, k, i) ==
    /\ i \in (a + 1)..s
    /\ journal[i].mut[k] # Untouched
    /\ \A n \in (i + 1)..s : journal[n].mut[k] = Untouched

HasTouch(journal, a, s, k) == \E i \in (a + 1)..s : IsLastTouch(journal, a, s, k, i)

LastTouch(journal, a, s, k) == CHOOSE i \in (a + 1)..s : IsLastTouch(journal, a, s, k, i)

(* Fold the row changes of serials a+1..s over rows: the last change wins. *)
Replay(journal, a, s, rows) ==
    [k \in Keys |->
        IF HasTouch(journal, a, s, k)
          THEN journal[LastTouch(journal, a, s, k)].mut[k]
          ELSE rows[k]]

(* The rows the primary's journal accounts for at serial s. *)
RowsAt(s) == Replay(pJournal, 0, s, NoRows)

--------------------------------
Init ==
    /\ pRows = NoRows
    /\ pJournal = <<>>
    /\ pBlobs = {}
    /\ rRows = NoRows
    /\ rJournal = <<>>
    /\ rBlobs \in [Blobs -> {"absent", "corrupt"}]
    /\ cursor = 0
    /\ pc = [f \in Followers |-> "idle"]
    /\ seen = [f \in Followers |-> 0]
    /\ page = [f \in Followers |-> NoPage]
    /\ need = [f \in Followers |-> {}]
    /\ monitor = Starting(0)
    /\ faults = 0
    /\ restores = 0
    /\ lost = FALSE

--------------------------------
(* The primary. *)

(* The journal entries, after serial s, of one transaction that changes     *)
(* rows by m and names the files of q in order: the last one alone carries  *)
(* m and the blobs.                                                         *)
TxnEntries(s, q, m, blobs) ==
    [i \in 1..Len(q) |->
        [serial |-> s + i,
         key    |-> q[i],
         to     |-> m[q[i]],
         mut    |-> IF i = Len(q) THEN m ELSE NoChange,
         blobs  |-> IF i = Len(q) THEN blobs ELSE {}]]

(* commit_driver_txn with a non-empty journal. *)
CommitDriverTxn(q, m, blobs) ==
    /\ Len(pJournal) + Len(q) <= MaxSerial
    /\ pJournal' = pJournal \o TxnEntries(Len(pJournal), q, m, blobs)
    /\ pRows' = [k \in Keys |-> IF m[k] = Untouched THEN pRows[k] ELSE m[k]]
    /\ UNCHANGED <<rVars, fVars, monitor, env>>

(* store_prepared: the blobs are committed, then publish_file_if writes the *)
(* file row and, for an upload with attestations (P = {p}), the artifact's  *)
(* provenance row over whatever was there.  A taken filename is either the  *)
(* same bytes (a no-op) or a rejection: see AbandonUpload.                  *)
PublishFile(k, a, P) ==
    /\ pRows[k] = Absent
    /\ pBlobs' = pBlobs \cup {a} \cup P
    /\ CommitDriverTxn(<<k>>,
                       [x \in Keys |->
                          IF x = k THEN [blob |-> a, marked |-> FALSE]
                          ELSE IF x = a /\ P # {}
                               THEN [blob |-> CHOOSE p \in P : TRUE, marked |-> FALSE]
                               ELSE Untouched],
                       {a} \cup P)

(* store_prepared up to the blob commits, with no row to follow: the        *)
(* filename is taken, or the process stops before publish_file_if.          *)
AbandonUpload(a, P) ==
    /\ faults < MaxFaults
    /\ ~({a} \cup P \subseteq pBlobs)
    /\ pBlobs' = pBlobs \cup {a} \cup P
    /\ faults' = faults + 1
    /\ UNCHANGED <<pRows, pJournal, rVars, fVars, monitor, restores, lost>>

(* promote_files_checked, one file of a release: the target takes over the  *)
(* source's record; an identical target is skipped, another one rejected.   *)
PromoteFile(source, target) ==
    /\ pRows[source] # Absent
    /\ pRows[target] = Absent
    /\ CommitDriverTxn(<<target>>, [NoChange EXCEPT ![target] = pRows[source]],
                       {pRows[source].blob})
    /\ UNCHANGED pBlobs

(* The sequences that list each member of S once. *)
Listings(S) ==
    {q \in [1..Cardinality(S) -> S] : \A i, j \in DOMAIN q : q[i] = q[j] => i = j}

(* mutate_uploads with Replace: yank_uploads, trash_uploads and their       *)
(* reversals rewrite every matching file's record and journal one entry     *)
(* for each; a record that already carries the mark is kept.                *)
MarkFiles(q, marked) ==
    /\ \A i \in DOMAIN q : pRows[q[i]] # Absent /\ pRows[q[i]].marked # marked
    /\ CommitDriverTxn(q,
                       [k \in Keys |-> IF \E i \in DOMAIN q : q[i] = k
                                         THEN [pRows[k] EXCEPT !.marked = marked]
                                         ELSE Untouched],
                       {})
    /\ UNCHANGED pBlobs

(* put_override: recording the override that is there is a no-op. *)
PutOverride(k) ==
    /\ pRows[k] = Absent
    /\ CommitDriverTxn(<<k>>, [NoChange EXCEPT ![k] = Hidden], {})
    /\ UNCHANGED pBlobs

(* Mutant of DeleteOverride: the removal is not recorded as touching the row. *)
DeleteOverrideNoTombstone(k) ==
    /\ pRows[k] # Absent
    /\ CommitDriverTxn(<<k>>, NoChange, {})
    /\ UNCHANGED pBlobs

(* delete_override *)
DeleteOverride(k) ==
    /\ pRows[k] # Absent
    /\ CommitDriverTxn(<<k>>, [NoChange EXCEPT ![k] = Absent], {})
    /\ UNCHANGED pBlobs

(* purge_orphaned_blobs on the primary's data directory. *)
PurgePrimary(b) ==
    /\ Purging
    /\ b \in pBlobs \ Referenced(pRows)
    /\ pBlobs' = pBlobs \ {b}
    /\ UNCHANGED <<pRows, pJournal, rVars, fVars, monitor, env>>

(* restore: the primary's data directory is replaced by a backup taken at   *)
(* serial s, the end of a transaction; backup_create copies only the blobs  *)
(* its rows name.  The replication source name does not change.             *)
RestorePrimary(s) ==
    /\ restores < MaxRestores
    /\ s < Len(pJournal)
    /\ s > 0 => pJournal[s].mut # NoChange
    /\ pRows' = RowsAt(s)
    /\ pJournal' = SubSeq(pJournal, 1, s)
    /\ pBlobs' = Referenced(RowsAt(s))
    /\ restores' = restores + 1
    /\ lost' = (lost \/ s < Len(rJournal) \/ \E f \in Followers : s < Through(page[f]))
    /\ UNCHANGED <<rVars, fVars, monitor, faults>>

--------------------------------
(* The replica. *)

(* Leave sync_once; what the caller records is up to the action. *)
Leave(f) ==
    /\ pc' = [pc EXCEPT ![f] = "idle"]
    /\ seen' = [seen EXCEPT ![f] = 0]
    /\ page' = [page EXCEPT ![f] = NoPage]
    /\ need' = [need EXCEPT ![f] = {}]

(* cycle: sync_once returned an error, record_error keeps the last serials. *)
Fail(f) ==
    /\ Leave(f)
    /\ monitor' = [monitor EXCEPT !.status = "error"]

(* state(), first read: the cursor row. *)
ReadCursor(f) ==
    /\ pc[f] = "idle"
    /\ pc' = [pc EXCEPT ![f] = "serial"]
    /\ seen' = [seen EXCEPT ![f] = cursor]
    /\ UNCHANGED <<pVars, rVars, page, need, monitor, env>>

(* state(), second read: the journal serial must equal the cursor. *)
ReadSerial(f) ==
    /\ pc[f] = "serial"
    /\ \/ /\ Len(rJournal) = seen[f]
          /\ pc' = [pc EXCEPT ![f] = "request"]
          /\ UNCHANGED <<seen, page, need, monitor>>
       \/ /\ Len(rJournal) # seen[f]
          /\ Fail(f)
    /\ UNCHANGED <<pVars, rVars, env>>

(* serve_changes: at most limit entries after `after`, with the head serial *)
(* of the same read snapshot (journal_snapshot).                            *)
ServeChanges(after, limit) ==
    [after   |-> after,
     changes |-> SubSeq(pJournal, after + 1,
                        IF after + limit <= Len(pJournal)
                          THEN after + limit ELSE Len(pJournal)),
     current |-> Len(pJournal)]

(* primary.changes: the page the primary answers with. *)
RequestPage(f) ==
    /\ pc[f] = "request"
    /\ page' = [page EXCEPT ![f] = ServeChanges(seen[f], PageLimit)]
    /\ pc' = [pc EXCEPT ![f] = "page"]
    /\ UNCHANGED <<pVars, rVars, seen, need, monitor, env>>

(* Mutant of Validates: a primary behind the replica goes unnoticed. *)
ValidatesBehind(p, after) ==
    /\ p.after = after
    /\ Len(p.changes) <= PageLimit
    /\ \A i \in 1..Len(p.changes) : p.changes[i].serial = after + i
    /\ p.changes = <<>> => p.current <= after

(* Mutant of Validates: only a page that reaches the head is accepted. *)
ValidatesHeadOnly(p, after) ==
    /\ p.after = after
    /\ Len(p.changes) <= PageLimit
    /\ p.current = Through(p)

(* ValidatedPage::new on a decoded page. *)
Validates(p, after) ==
    /\ p.after = after
    /\ Len(p.changes) <= PageLimit
    /\ \A i \in 1..Len(p.changes) : p.changes[i].serial = after + i
    /\ p.current >= Through(p)
    /\ p.changes = <<>> => p.current <= after

PageBlobs(p) == UNION {p.changes[i].blobs : i \in 1..Len(p.changes)}

(* Mutant of ReceivePage: the rows are written as soon as the page is valid. *)
ReceivePageRowsFirst(f) ==
    /\ pc[f] = "page"
    /\ Validates(page[f], seen[f])
    /\ pc' = [pc EXCEPT ![f] = "blobs"]
    /\ need' = [need EXCEPT ![f] = PageBlobs(page[f])]
    /\ rRows' = Replay(page[f].changes, 0, Len(page[f].changes), rRows)
    /\ UNCHANGED <<pVars, rJournal, rBlobs, cursor, seen, page, monitor, env>>

ReceivePage(f) ==
    /\ pc[f] = "page"
    /\ \/ /\ Validates(page[f], seen[f])
          /\ pc' = [pc EXCEPT ![f] = "blobs"]
          /\ need' = [need EXCEPT ![f] = PageBlobs(page[f])]
          /\ UNCHANGED <<seen, page, monitor>>
       \/ /\ ~Validates(page[f], seen[f])
          /\ Fail(f)
    /\ UNCHANGED <<pVars, rVars, env>>

(* Mutant of VerifyBlob: a blob that is there is taken at its word. *)
VerifyBlobHeadOnly(f, b) ==
    /\ pc[f] = "blobs"
    /\ b \in need[f]
    /\ rBlobs[b] # "absent"
    /\ need' = [need EXCEPT ![f] = @ \ {b}]
    /\ UNCHANGED <<pVars, rVars, pc, seen, page, monitor, env>>

(* A blob already stored is verified by content before it is relied on. *)
VerifyBlob(f, b) ==
    /\ pc[f] = "blobs"
    /\ b \in need[f]
    /\ rBlobs[b] # "absent"
    /\ \/ /\ rBlobs[b] = "good"
          /\ need' = [need EXCEPT ![f] = @ \ {b}]
          /\ UNCHANGED <<pc, seen, page, monitor>>
       \/ /\ rBlobs[b] = "corrupt"
          /\ Fail(f)
    /\ UNCHANGED <<pVars, rVars, env>>

(* A missing blob is streamed from the primary; the commit under its digest *)
(* accepts only the right bytes.  The primary answers 404 without it.       *)
FetchBlob(f, b) ==
    /\ pc[f] = "blobs"
    /\ b \in need[f]
    /\ rBlobs[b] = "absent"
    /\ \/ /\ b \in pBlobs
          /\ rBlobs' = [rBlobs EXCEPT ![b] = "good"]
          /\ need' = [need EXCEPT ![f] = @ \ {b}]
          /\ UNCHANGED <<pc, seen, page, monitor>>
       \/ /\ b \notin pBlobs
          /\ Fail(f)
          /\ UNCHANGED rBlobs
    /\ UNCHANGED <<pVars, rRows, rJournal, cursor, env>>

(* The request or a transfer fails: refused, cut off, wrong size or digest. *)
TransferFails(f) ==
    /\ faults < MaxFaults
    /\ pc[f] \in {"request", "blobs"}
    /\ faults' = faults + 1
    /\ UNCHANGED <<restores, lost>>
    /\ Fail(f)
    /\ UNCHANGED <<pVars, rVars>>

(* SyncOutcome handed to ReplicaMonitor::record. *)
Record(serial, primary) ==
    monitor' = [status  |-> IF serial = primary THEN "caught_up" ELSE "catching_up",
                serial  |-> serial,
                primary |-> primary]

(* Mutant of CopiedEntries: the replica's journal forgets removals. *)
CopiedEntriesNoTombstone(p, rows) ==
    LET n == Len(p.changes)
        merged == [k \in Keys |->
                     IF ~HasTouch(p.changes, 0, n, k) THEN Untouched
                     ELSE LET v == p.changes[LastTouch(p.changes, 0, n, k)].mut[k]
                          IN  IF v = Absent THEN Untouched ELSE v]
    IN  [i \in 1..n |->
           [serial |-> p.after + i,
            key    |-> p.changes[i].key,
            to     |-> p.changes[i].to,
            mut    |-> IF i = n THEN merged ELSE NoChange,
            blobs  |-> IF i = n THEN PageBlobs(p) ELSE {}]]

(* What commit_replica_txn journals for the page: the events as they came,  *)
(* the rows it changed and the blobs it referenced on the last serial.      *)
(* Removing a row that is not there touches nothing.                        *)
CopiedEntries(p, rows) ==
    LET n == Len(p.changes)
        merged == [k \in Keys |->
                     IF ~HasTouch(p.changes, 0, n, k) THEN Untouched
                     ELSE LET v == p.changes[LastTouch(p.changes, 0, n, k)].mut[k]
                          IN  IF v = Absent /\ rows[k] = Absent THEN Untouched ELSE v]
    IN  [i \in 1..n |->
           [serial |-> p.after + i,
            key    |-> p.changes[i].key,
            to     |-> p.changes[i].to,
            mut    |-> IF i = n THEN merged ELSE NoChange,
            blobs  |-> IF i = n THEN PageBlobs(p) ELSE {}]]

(* An empty page is an outcome of its own: nothing is written. *)
CaughtUp(f) ==
    /\ pc[f] = "blobs"
    /\ need[f] = {}
    /\ page[f].changes = <<>>
    /\ Record(page[f].after, page[f].current)
    /\ Leave(f)
    /\ UNCHANGED <<pVars, rVars, env>>

(* A commit of the page that skips the check of the serial. *)
UncheckedApply(f, rows, serial) ==
    /\ pc[f] = "blobs"
    /\ need[f] = {}
    /\ page[f].changes # <<>>
    /\ rRows' = rows
    /\ rJournal' = rJournal \o CopiedEntries(page[f], rRows)
    /\ cursor' = serial
    /\ Record(Through(page[f]), page[f].current)
    /\ Leave(f)
    /\ UNCHANGED <<pVars, rBlobs, env>>

(* Mutant of ApplyPage: removals in the page are not applied. *)
ApplyPageNoDeletes(f) ==
    LET rows == Replay(page[f].changes, 0, Len(page[f].changes), rRows)
    IN  UncheckedApply(f, [k \in Keys |-> IF rows[k] = Absent THEN rRows[k] ELSE rows[k]],
                       Through(page[f]))

(* commit_replica_txn: refused unless the serial is still the one read. *)
ApplyPage(f) ==
    /\ pc[f] = "blobs"
    /\ need[f] = {}
    /\ page[f].changes # <<>>
    /\ \/ /\ Len(rJournal) = seen[f]
          /\ rRows' = Replay(page[f].changes, 0, Len(page[f].changes), rRows)
          /\ rJournal' = rJournal \o CopiedEntries(page[f], rRows)
          /\ cursor' = Through(page[f])
          /\ Record(Through(page[f]), page[f].current)
          /\ Leave(f)
       \/ /\ Len(rJournal) # seen[f]
          /\ Fail(f)
          /\ UNCHANGED <<rRows, rJournal, cursor>>
    /\ UNCHANGED <<pVars, rBlobs, env>>

(* The replica process stops and starts: the store survives, the rest not.  *)
Restart ==
    /\ faults < MaxFaults
    /\ faults' = faults + 1
    /\ UNCHANGED <<restores, lost>>
    /\ pc' = [f \in Followers |-> "idle"]
    /\ seen' = [f \in Followers |-> 0]
    /\ page' = [f \in Followers |-> NoPage]
    /\ need' = [f \in Followers |-> {}]
    /\ monitor' = Starting(Len(rJournal))
    /\ UNCHANGED <<pVars, rVars>>

(* purge_orphaned_blobs on the replica's data directory: the command opens  *)
(* the same redb file, so no follower is running.                           *)
PurgeReplica(b) ==
    /\ Purging
    /\ \A f \in Followers : pc[f] = "idle"
    /\ rBlobs[b] # "absent"
    /\ b \notin Referenced(rRows)
    /\ rBlobs' = [rBlobs EXCEPT ![b] = "absent"]
    /\ UNCHANGED <<pVars, rRows, rJournal, cursor, fVars, monitor, env>>

--------------------------------
PrimaryNext ==
    \/ \E k \in Files, a \in Artifacts, P \in {{}} \cup {{p} : p \in Provenances} :
         PublishFile(k, a, P)
    \/ \E a \in Artifacts, P \in {{}} \cup {{p} : p \in Provenances} : AbandonUpload(a, P)
    \/ \E source, target \in Files : PromoteFile(source, target)
    \/ \E S \in (SUBSET Files) \ {{}} : \E q \in Listings(S), marked \in BOOLEAN :
         MarkFiles(q, marked)
    \/ \E k \in Overrides : PutOverride(k) \/ DeleteOverride(k)
    \/ \E b \in Blobs : PurgePrimary(b)
    \/ \E s \in 0..MaxSerial : RestorePrimary(s)

(* One step of sync_once that is not a failure of the transport. *)
Sync(f) ==
    \/ ReadCursor(f)
    \/ ReadSerial(f)
    \/ RequestPage(f)
    \/ ReceivePage(f)
    \/ \E b \in Blobs : VerifyBlob(f, b) \/ FetchBlob(f, b)
    \/ CaughtUp(f)
    \/ ApplyPage(f)

Next ==
    \/ PrimaryNext
    \/ \E f \in Followers : Sync(f) \/ TransferFails(f)
    \/ Restart
    \/ \E b \in Blobs : PurgeReplica(b)

Spec == Init /\ [][Next]_vars

(* ReplicaLoop::run polls for ever: a follower that can step does. *)
FairSpec == Spec /\ \A f \in Followers : WF_vars(Sync(f))

--------------------------------
(* Types. *)
TypeOK ==
    /\ pRows \in Rows
    /\ pJournal \in Seq(Entries)
    /\ pBlobs \in SUBSET Blobs
    /\ rRows \in Rows
    /\ rJournal \in Seq(Entries)
    /\ rBlobs \in [Blobs -> BlobStates]
    /\ cursor \in Nat
    /\ pc \in [Followers -> {"idle", "serial", "request", "page", "blobs"}]
    /\ seen \in [Followers -> Nat]
    /\ page \in [Followers -> Pages]
    /\ need \in [Followers -> SUBSET Blobs]
    /\ monitor \in [status : Statuses, serial : Nat, primary : Nat]
    /\ faults \in 0..MaxFaults
    /\ restores \in 0..MaxRestores
    /\ lost \in BOOLEAN

(* The journal accounts for every hosted row of the primary: a row change   *)
(* that a commit did not attach to its last entry would never reach a       *)
(* replica (publish_file_if: nothing reconciles the journal later).         *)
JournalCoversRows == pRows = RowsAt(Len(pJournal))

(* Whatever pages, conflicts, failures and restarts it went through, the    *)
(* replica serves exactly the rows the primary's journal accounts for at    *)
(* the replica's serial.                                                    *)
SnapshotAtSerial ==
    ~lost => /\ Len(rJournal) <= Len(pJournal)
             /\ rRows = RowsAt(Len(rJournal))

(* Every artifact a served row names is on the replica with its own bytes:  *)
(* blobs are settled before the metadata that needs them, and neither a     *)
(* purge nor a later entry that names no blob opens a gap.                  *)
BlobsBeforeMetadata == ~lost => \A b \in Referenced(rRows) : rBlobs[b] = "good"

(* A promoted replica can itself be followed: its own journal replays to    *)
(* its own rows, though a page's changes were collapsed onto one serial.    *)
PromotableJournal == rRows = Replay(rJournal, 0, Len(rJournal), NoRows)

(* The health endpoint reports a serial only once it is durable,            *)
(* "caught_up" only when every serial the primary had reported is durable,  *)
(* and "catching_up" only when the primary is really ahead: a primary       *)
(* restored to before the replica's serial is an error, not a lag of zero.  *)
HealthSound ==
    /\ monitor.serial <= Len(rJournal)
    /\ monitor.status = "caught_up" => monitor.primary <= Len(rJournal)
    /\ monitor.status = "catching_up" => monitor.serial < monitor.primary

(* A step never takes back a copied entry, and rows move only together with *)
(* the serial that accounts for them.                                       *)
AppliesForward ==
    [][/\ Len(rJournal) <= Len(rJournal')
       /\ SubSeq(rJournal', 1, Len(rJournal)) = rJournal
       /\ rRows' # rRows => Len(rJournal') > Len(rJournal)]_<<rRows, rJournal>>

(* Once the writer is quiet the replica ends up with its rows and serial,   *)
(* provided that the blobs its store holds are not damaged.                 *)
CatchesUp ==
    (\A b \in Blobs : rBlobs[b] # "corrupt")
        => <>[](rRows = pRows /\ Len(rJournal) = Len(pJournal))

(* Not met by the code, whose orphan collector looks at rows only: every    *)
(* blob the journal references is kept for the followers that have not      *)
(* copied that serial yet.                                                  *)
JournalBlobsKept == \A i \in 1..Len(pJournal) : pJournal[i].blobs \subseteq pBlobs

(* Not met by the code when a page ends inside a commit of several serials. *)
(* The availability contract: at its frontier a replica shows every         *)
(* acknowledged mutation at or before that serial.                          *)
FrontierExact ==
    \A s \in 1..Len(rJournal) :
        (\A n \in (s + 1)..Len(rJournal) : rJournal[n].key # rJournal[s].key)
            => rRows[rJournal[s].key] = rJournal[s].to
================================

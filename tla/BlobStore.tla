---------------- MODULE BlobStore ----------------
(* The content-addressed blob store: streamed writes to the filesystem
   backend, the leases that pin a stored blob for archive and backup work,
   and the S3 backend (peryx-storage, blob/).

   The three parts share no state and are specified by an Init and a Next
   of their own.  The hash is collision free, so a digest is the content
   it was computed from, tagged. *)
EXTENDS Integers, Sequences, FiniteSets

CONSTANTS
    BlobWriters,    \* callers streaming a blob
    Chunks,         \* what one write_chunk carries, one unit long
    WriteBatch,     \* WRITE_BATCH_BYTES, in chunks
    WorkerPermits,  \* the worker semaphore
    MaxChunks,      \* bound on the chunks of a blob
    MaxCrashes      \* bound on process or power failures

Contents == UNION {[1..n -> Chunks] : n \in 0..MaxChunks}
DigestOf(bytes) == <<"sha256", bytes>>
StoredDigests == {DigestOf(c) : c \in Contents}
NoFile == [bytes |-> <<>>, synced |-> -1]
NoDigest == <<"none">>

ASSUME BlobAssumption ==
    /\ {WriteBatch, WorkerPermits} \subseteq Nat \ {0}
    /\ {MaxChunks, MaxCrashes} \subseteq Nat

VARIABLES
    blobs,      \* the content tree: digest -> [bytes, synced], NoFile where absent
    stage,      \* per blobWriter the temporary file: [bytes, synced] or NoFile
    blobWriter,     \* per blobWriter [at, task, queued, hashed, expect, attached]
    linked,     \* digests whose directory entry was fsynced
    stored,     \* history: digests whose commit was answered with success
    crashes

writeVars == <<blobs, stage, blobWriter, linked, stored, crashes>>

Idle == [at |-> "idle", task |-> "none", queued |-> <<>>, hashed |-> <<>>, expect |-> NoDigest,
         attached |-> TRUE]

EmptyStage == [bytes |-> <<>>, synced |-> 0]

WriteInit ==
    /\ blobs = [d \in StoredDigests |-> NoFile]
    /\ stage = [w \in BlobWriters |-> NoFile]
    /\ blobWriter = [w \in BlobWriters |-> Idle]
    /\ linked = {}
    /\ stored = {}
    /\ crashes = 0

--------------------------------
(* A streamed write                                                        *)

Running == {w \in BlobWriters : blobWriter[w].task \in {"batch", "finish", "check", "place", "link", "abort"}}

\* worker_permit: every blocking task but the clean-up of a dropped writer holds one until it ends.
Permit == Cardinality(Running) < WorkerPermits

BeginWrite(w) ==
    /\ blobWriter[w] = Idle
    /\ Permit
    /\ blobWriter' = [blobWriter EXCEPT ![w].at = "open"]
    /\ stage' = [stage EXCEPT ![w] = EmptyStage]
    /\ UNCHANGED <<blobs, linked, stored, crashes>>

\* write_chunk after settle: the chunk is queued, and the batch that fills the quota starts a task.
WriteChunk(w, c) ==
    /\ blobWriter[w].at = "open" /\ blobWriter[w].task = "none" /\ blobWriter[w].attached
    /\ Len(blobWriter[w].hashed) + Len(blobWriter[w].queued) < MaxChunks
    /\ LET full == Len(blobWriter[w].queued) + 1 >= WriteBatch
       IN /\ full => Permit
          /\ blobWriter' = [blobWriter EXCEPT ![w].queued = Append(@, c),
                                      ![w].task = IF full THEN "batch" ELSE "none"]
    /\ UNCHANGED <<blobs, stage, linked, stored, crashes>>

\* flush starts the batch however small, so that tail readers see what was written.
FlushWrite(w) ==
    /\ blobWriter[w].at = "open" /\ blobWriter[w].task = "none" /\ blobWriter[w].attached
    /\ blobWriter[w].queued # <<>>
    /\ Permit
    /\ blobWriter' = [blobWriter EXCEPT ![w].task = "batch"]
    /\ UNCHANGED <<blobs, stage, linked, stored, crashes>>

\* PendingBlob::write: the file first, then the hash.
TaskWrites(w) ==
    /\ blobWriter[w].task \in {"batch", "finish"} /\ blobWriter[w].queued # <<>>
    /\ LET c == Head(blobWriter[w].queued)
       IN /\ stage' = [stage EXCEPT ![w].bytes = Append(@, c)]
          /\ blobWriter' = [blobWriter EXCEPT ![w].hashed = Append(@, c), ![w].queued = Tail(@)]
    /\ UNCHANGED <<blobs, linked, stored, crashes>>

\* A write, flush or sync fails: the task drops the pending blob, and its path removes the file.
TaskFails(w) ==
    /\ blobWriter[w].task \in {"batch", "finish"}
    /\ stage' = [stage EXCEPT ![w] = NoFile]
    /\ blobWriter' = [blobWriter EXCEPT ![w] = IF @.at = "open" THEN [@ EXCEPT !.task = "failed"] ELSE Idle]
    /\ UNCHANGED <<blobs, linked, stored, crashes>>

BatchDone(w) ==
    /\ blobWriter[w].task = "batch" /\ blobWriter[w].queued = <<>>
    /\ blobWriter' = [blobWriter EXCEPT ![w].task = "none"]
    /\ UNCHANGED <<blobs, stage, linked, stored, crashes>>

\* settle reports the failed batch; the caller gives the writer up.
SettleFailed(w) ==
    /\ blobWriter[w].at = "open" /\ blobWriter[w].task = "failed"
    /\ blobWriter' = [blobWriter EXCEPT ![w] = Idle]
    /\ UNCHANGED <<blobs, stage, linked, stored, crashes>>

FinishWrite(w) ==
    /\ blobWriter[w].at = "open" /\ blobWriter[w].task = "none" /\ blobWriter[w].attached
    /\ Permit
    /\ blobWriter' = [blobWriter EXCEPT ![w].at = "finishing", ![w].task = "finish"]
    /\ UNCHANGED <<blobs, stage, linked, stored, crashes>>

\* PendingBlob::finish without sync_all.
FinishUnsynced(w) ==
    /\ blobWriter[w].task = "finish" /\ blobWriter[w].queued = <<>>
    /\ blobWriter' = [blobWriter EXCEPT ![w] = IF @.attached THEN [@ EXCEPT !.at = "staged", !.task = "none"] ELSE Idle]
    /\ stage' = [stage EXCEPT ![w] = IF blobWriter[w].attached THEN @ ELSE NoFile]
    /\ UNCHANGED <<blobs, linked, stored, crashes>>

\* PendingBlob::finish: everything is synced before the stage is handed out; the stage of a caller that is
\* gone is dropped with the result of the task.
FinishDone(w) ==
    /\ blobWriter[w].task = "finish" /\ blobWriter[w].queued = <<>>
    /\ blobWriter' = [blobWriter EXCEPT ![w] = IF @.attached THEN [@ EXCEPT !.at = "staged", !.task = "none"] ELSE Idle]
    /\ stage' = [stage EXCEPT ![w] =
                   IF blobWriter[w].attached THEN [@ EXCEPT !.synced = Len(stage[w].bytes)] ELSE NoFile]
    /\ UNCHANGED <<blobs, linked, stored, crashes>>

\* stage_bytes and the blocking stage_reader: the same stage in one go.
StageBytes(w, bytes) ==
    /\ blobWriter[w] = Idle
    /\ Permit
    /\ stage' = [stage EXCEPT ![w] = [bytes |-> bytes, synced |-> Len(bytes)]]
    /\ blobWriter' = [blobWriter EXCEPT ![w].at = "staged", ![w].hashed = bytes]
    /\ UNCHANGED <<blobs, linked, stored, crashes>>

\* commit_as: a digest other than the one computed aborts the stage.
CommitAs(w, expected) ==
    /\ blobWriter[w].at = "staged" /\ blobWriter[w].task = "none" /\ blobWriter[w].attached
    /\ Permit
    /\ blobWriter' = [blobWriter EXCEPT ![w].expect = expected,
                                ![w].task = IF DigestOf(blobWriter[w].hashed) = expected THEN "check" ELSE "abort"]
    /\ UNCHANGED <<blobs, stage, linked, stored, crashes>>

Answered(w, ok) ==
    /\ stored' = IF ok /\ blobWriter[w].attached THEN stored \cup {blobWriter[w].expect} ELSE stored
    /\ blobWriter' = [blobWriter EXCEPT ![w] = Idle]

\* commit_staged: a blob already there is the blob, and the stage is dropped.
CommitCheck(w) ==
    /\ blobWriter[w].task = "check"
    /\ IF blobs[blobWriter[w].expect] # NoFile
       THEN Answered(w, TRUE) /\ stage' = [stage EXCEPT ![w] = NoFile]
       ELSE blobWriter' = [blobWriter EXCEPT ![w].task = "place"] /\ UNCHANGED <<stage, stored>>
    /\ UNCHANGED <<blobs, linked, crashes>>

\* persist_noclobber and commit_placement: a rename that does not overwrite; a lost race is success.
CommitPlace(w) ==
    /\ blobWriter[w].task = "place"
    /\ stage' = [stage EXCEPT ![w] = NoFile]
    /\ IF blobs[blobWriter[w].expect] # NoFile
       THEN Answered(w, TRUE) /\ UNCHANGED blobs
       ELSE \/ /\ blobs' = [blobs EXCEPT ![blobWriter[w].expect] = stage[w]]
               /\ blobWriter' = [blobWriter EXCEPT ![w].task = "link"]
               /\ UNCHANGED stored
            \/ Answered(w, FALSE) /\ UNCHANGED blobs
    /\ UNCHANGED <<linked, crashes>>

\* sync_parent: best effort.
CommitLink(w) ==
    /\ blobWriter[w].task = "link"
    /\ \E synced \in BOOLEAN : linked' = IF synced THEN linked \cup {blobWriter[w].expect} ELSE linked
    /\ Answered(w, TRUE)
    /\ UNCHANGED <<blobs, stage, crashes>>

\* discard_stage by an abort, or by the clean-up that a dropped writer leaves behind: it waits for the
\* batch that still owns the stage.
DiscardStage(w) ==
    /\ blobWriter[w].task = "abort" \/ (blobWriter[w].at = "open" /\ ~blobWriter[w].attached /\ blobWriter[w].task \in {"none", "failed"})
    /\ stage' = [stage EXCEPT ![w] = NoFile]
    /\ blobWriter' = [blobWriter EXCEPT ![w] = Idle]
    /\ UNCHANGED <<blobs, linked, stored, crashes>>

\* abort, or the caller's future is dropped: an accepted task runs to its end, nothing new starts.
DropWrite(w) ==
    /\ blobWriter[w].at \in {"open", "finishing", "staged"} /\ blobWriter[w].attached
    /\ blobWriter' = [blobWriter EXCEPT ![w].attached = FALSE,
                                ![w].task = IF blobWriter[w].at = "staged" /\ @ = "none" THEN "abort" ELSE @]
    /\ UNCHANGED <<blobs, stage, linked, stored, crashes>>

\* The process or the machine stops.  Temporary files stay behind with nobody to own them (the model
\* forgets them); bytes and names that were not synced may be lost.
Crash ==
    /\ crashes < MaxCrashes
    /\ crashes' = crashes + 1
    /\ blobWriter' = [w \in BlobWriters |-> Idle]
    /\ stage' = [w \in BlobWriters |-> NoFile]
    /\ \E lost \in SUBSET {d \in StoredDigests : blobs[d] # NoFile /\ d \notin linked} :
         /\ \E cut \in BOOLEAN :
              blobs' = [d \in StoredDigests |->
                 IF blobs[d] = NoFile \/ d \in lost THEN NoFile
                 ELSE IF cut THEN [blobs[d] EXCEPT !.bytes = SubSeq(@, 1, blobs[d].synced)]
                 ELSE blobs[d]]
         /\ stored' = stored \ lost
    /\ UNCHANGED linked

WriteStep(w) ==
    \/ BeginWrite(w) \/ FlushWrite(w) \/ TaskWrites(w) \/ TaskFails(w) \/ BatchDone(w) \/ SettleFailed(w)
    \/ FinishWrite(w) \/ FinishDone(w) \/ CommitCheck(w) \/ CommitPlace(w) \/ CommitLink(w)
    \/ DiscardStage(w) \/ DropWrite(w)
    \/ \E c \in Chunks : WriteChunk(w, c)
    \/ \E bytes \in Contents : StageBytes(w, bytes)
    \/ \E d \in StoredDigests : CommitAs(w, d)

WriteNext == Crash \/ \E w \in BlobWriters : WriteStep(w)

WriteSpec == WriteInit /\ [][WriteNext]_writeVars

--------------------------------
(* Leases                                                                  *)

CONSTANTS
    Leasers,        \* callers that materialize a blob
    Cleaners        \* health checks that clean the lease directory up

\* A lease file is a second name of the blob's inode (hard link) or an inode of its own (copy).  Locks are
\* held on inodes by open files.
VARIABLES
    blobThere,  \* the leased blob is still in the store
    leaser,     \* per leaser [at, link]; link: the lease shares the inode of the blob
    leaseFile,  \* leasers whose lease file exists
    cleaner     \* per cleaner [at, seen]: the directory entries still to be visited

leaseVars == <<blobThere, leaser, leaseFile, cleaner>>

LeaseInit ==
    /\ blobThere = TRUE
    /\ leaser = [l \in Leasers |-> [at |-> "idle", link |-> FALSE]]
    /\ leaseFile = {}
    /\ cleaner = [c \in Cleaners |-> [at |-> "idle", seen |-> {}]]

\* Who holds the coordination lock, shared or exclusively.
Coordinating == {l \in Leasers : leaser[l].at \in {"opening", "linked", "releasing", "unlocked"}}
Cleaning == {c \in Cleaners : cleaner[c].at = "cleaning"}

\* Who holds a shared lock on the inode that the lease of l names.
LockedBy(l) == {k \in Leasers : /\ leaser[k].at \in {"held", "releasing"}
                                /\ k = l \/ (leaser[k].link /\ leaser[l].link)}

\* pinned: the coordination lock, then the blob is opened; an absent blob ends it and the lock is dropped
\* with its file.
PinStart(l) ==
    /\ leaser[l].at = "idle"
    /\ Cleaning = {}
    /\ leaser' = [leaser EXCEPT ![l].at = IF blobThere THEN "opening" ELSE "idle"]
    /\ UNCHANGED <<blobThere, leaseFile, cleaner>>

\* hard_link, or a copy where the filesystem has none; the blob may be gone, then the open file is copied.
PinLink(l) ==
    /\ leaser[l].at = "opening"
    /\ \E link \in {x \in BOOLEAN : x => blobThere} :
         leaser' = [leaser EXCEPT ![l] = [at |-> "linked", link |-> link]]
    /\ leaseFile' = leaseFile \cup {l}
    /\ UNCHANGED <<blobThere, cleaner>>

\* lock_shared on the lease, and only then the coordination lock is given back.
PinLock(l) ==
    /\ leaser[l].at = "linked"
    /\ leaser' = [leaser EXCEPT ![l].at = "held"]
    /\ UNCHANGED <<blobThere, leaseFile, cleaner>>

\* drop: coordination lock, unlock, remove the file, give the coordination lock back.
ReleaseStart(l) ==
    /\ leaser[l].at = "held"
    /\ Cleaning = {}
    /\ leaser' = [leaser EXCEPT ![l].at = "releasing"]
    /\ UNCHANGED <<blobThere, leaseFile, cleaner>>

ReleaseUnlock(l) ==
    /\ leaser[l].at = "releasing"
    /\ leaser' = [leaser EXCEPT ![l].at = "unlocked"]
    /\ UNCHANGED <<blobThere, leaseFile, cleaner>>

ReleaseRemove(l) ==
    /\ leaser[l].at = "unlocked"
    /\ leaser' = [leaser EXCEPT ![l] = [at |-> "idle", link |-> FALSE]]
    /\ leaseFile' = leaseFile \ {l}
    /\ UNCHANGED <<blobThere, cleaner>>

\* The process that holds the lease dies: its locks go with it, the file stays.
LeaserDies(l) ==
    /\ leaser[l].at \in {"opening", "linked", "held", "releasing", "unlocked"}
    /\ leaser' = [leaser EXCEPT ![l].at = "dead"]
    /\ UNCHANGED <<blobThere, leaseFile, cleaner>>

\* cleanup_leases: exclusive, so no lease is between its creation and its lock.
CleanupStart(c) ==
    /\ cleaner[c].at = "idle"
    /\ Coordinating = {} /\ Cleaning = {}
    /\ cleaner' = [cleaner EXCEPT ![c] = [at |-> "cleaning", seen |-> leaseFile]]
    /\ UNCHANGED <<blobThere, leaser, leaseFile>>

CleanupEntry(c, l) ==
    /\ cleaner[c].at = "cleaning" /\ l \in cleaner[c].seen
    /\ cleaner' = [cleaner EXCEPT ![c].seen = @ \ {l}]
    /\ IF l \in leaseFile /\ LockedBy(l) = {}
       THEN /\ leaseFile' = leaseFile \ {l}
            /\ leaser' = [leaser EXCEPT ![l] = IF @.at = "dead" THEN [at |-> "idle", link |-> FALSE] ELSE @]
       ELSE UNCHANGED <<leaseFile, leaser>>
    /\ UNCHANGED blobThere

CleanupDone(c) ==
    /\ cleaner[c].at = "cleaning" /\ cleaner[c].seen = {}
    /\ cleaner' = [cleaner EXCEPT ![c].at = "idle"]
    /\ UNCHANGED <<blobThere, leaser, leaseFile>>

\* remove, by the purge command: the name goes, an open or linked inode stays.
RemoveBlob ==
    /\ blobThere
    /\ blobThere' = FALSE
    /\ UNCHANGED <<leaser, leaseFile, cleaner>>

LeaseStep(l) ==
    \/ PinStart(l) \/ PinLink(l) \/ PinLock(l) \/ ReleaseStart(l) \/ ReleaseUnlock(l) \/ ReleaseRemove(l)
    \/ LeaserDies(l)
    \/ \E c \in Cleaners : CleanupEntry(c, l)

LeaseNext ==
    \/ RemoveBlob
    \/ \E l \in Leasers : LeaseStep(l)
    \/ \E c \in Cleaners : CleanupStart(c) \/ CleanupDone(c)

LeaseSpec == LeaseInit /\ [][LeaseNext]_leaseVars

--------------------------------
(* Properties                                                              *)

\* What the tree holds under a digest is the content of that digest, whole, whatever failed before or
\* crashed since; a commit that was answered with success left it there (commit_as, finish, commit_placement);
\* and no temporary file is without an owner that will remove or place it (Drop for FilesystemWrite and
\* BlobStaged).
BlobsAreTheirDigest ==
    /\ \A d \in StoredDigests : blobs[d] # NoFile => DigestOf(blobs[d].bytes) = d
    /\ \A d \in stored : blobs[d] # NoFile
    /\ \A w \in BlobWriters : stage[w] # NoFile => blobWriter[w].at # "idle"

\* A lease that was handed out keeps its file until it is dropped, although the store is cleaned up and the
\* blob purged meanwhile (BlobLease::pinned and Drop against cleanup_leases).
LeasesHold == \A l \in Leasers : leaser[l].at = "held" => l \in leaseFile

\* A committed blob is what its digest says, and a collection spares what a lease protects.
StoreIsSound == BlobsAreTheirDigest /\ LeasesHold

================================

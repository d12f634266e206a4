---------------- MODULE Quota ----------------
(* The quota accounting of peryx-storage/src/meta/quota.rs: counters kept
   row by row beside the reservation records, adjusted by each operation
   and never recomputed.  Every operation is one redb write transaction.
   A request that is refused changes nothing and is not an action. *)
EXTENDS Naturals, FiniteSets, FiniteSetsExt

CONSTANTS
    Ids, Repositories, Projects, Versions, Digests, Sizes,
    MaxFileBytes, MaxAccountedBytes, MaxProjects, MaxVersionsPerProject,
    Audits, RepairLimit, MaxCount, None

\* Reservation ids are UUIDs, of 128 bits.
ASSUME IdAssumption == IsFiniteSet(Ids)
ASSUME SizeAssumption == Sizes \subseteq Nat
ASSUME CountAssumption == MaxCount \in Nat /\ RepairLimit \in Nat \ {0}
ASSUME LimitAssumption ==
    {MaxFileBytes, MaxAccountedBytes, MaxProjects, MaxVersionsPerProject}
        \subseteq Nat \cup {None}
ASSUME NoneAssumption == None \notin Nat \cup Projects \cup Versions
ASSUME AuditAssumption == Audits \subseteq BOOLEAN

VARIABLES
    record,  \* QUOTA_RESERVATION
    pending, \* QUOTA_PENDING
    rows     \* QUOTA_USAGE, QUOTA_PROJECT, QUOTA_VERSION and QUOTA_BLOB

quotaVars == <<record, pending, rows>>

\* The reservation records are the allocations of the ledger; the counters and the pending set are hidden.
Ledger == INSTANCE QuotaLedger WITH
    Ids <- Ids, Repositories <- Repositories, Projects <- Projects, Versions <- Versions, Digests <- Digests,
    Sizes <- Sizes, MaxFileBytes <- MaxFileBytes, MaxAccountedBytes <- MaxAccountedBytes,
    MaxProjects <- MaxProjects, MaxVersionsPerProject <- MaxVersionsPerProject, Audits <- Audits,
    RepairLimit <- RepairLimit, MaxCount <- MaxCount, None <- None, record <- record

Requests == Ledger!Requests

--------------------------------
(* QuotaValue and References. *)
Zero == [committed |-> 0, reserved |-> 0]
Total(v) == v.committed + v.reserved
Plus(v, state, n) == [v EXCEPT ![state] = @ + n]
Minus(v, state, n) == [v EXCEPT ![state] = @ - n]

(* move_value *)
Moved(v, n) == [committed |-> v.committed + n, reserved |-> v.reserved - n]

(* Mutant of Rebalanced: the last committed reference leaves its charge. *)
RebalancedNever(v, refs, state, n) ==
    IF Total(refs) = 0 THEN Minus(v, state, n) ELSE v

(* rebalance_or_remove: a charge leaves with its last reference, and is     *)
(* only reserved again when its last committed reference leaves.            *)
Rebalanced(v, refs, state, n) ==
    IF Total(refs) = 0 THEN Minus(v, state, n)
    ELSE IF state = "committed" /\ refs.committed = 0
         THEN [committed |-> v.committed - n, reserved |-> v.reserved + n]
         ELSE v

NoBlob == [bytes |-> 0, references |-> Zero]
NoProject == [references |-> Zero, versions |-> Zero]

NoRows ==
    [usage   |-> [r \in Repositories |->
                    [file_bytes |-> Zero, accounted_bytes |-> Zero, projects |-> Zero]],
     project |-> [k \in Repositories \X Projects |-> NoProject],
     version |-> [k \in Repositories \X Projects \X Versions |-> Zero],
     blob    |-> [k \in Repositories \X Digests |-> NoBlob]]

(* The rows a request names: identity_key of what it states. *)
BlobKey(q) == <<q.repository, q.digest>>
ProjectKeys(q) == IF q.project = None THEN {} ELSE {<<q.repository, q.project>>}
VersionKeys(q) ==
    IF q.version = None THEN {} ELSE {<<q.repository, q.project, q.version>>}

--------------------------------
(* reserve_quota *)

AddsBytes(q) == Total(rows.blob[BlobKey(q)].references) = 0
AddsProject(q) == \E k \in ProjectKeys(q) : Total(rows.project[k].references) = 0
AddsVersion(q) == \E k \in VersionKeys(q) : Total(rows.version[k]) = 0

(* Mutant of SizeAgrees: the stored size is not compared. *)
SizeAgreesAlways(q) == q.bytes \in Nat

(* ReservationRows::read: one size for each digest of a repository. *)
SizeAgrees(q) == AddsBytes(q) \/ rows.blob[BlobKey(q)].bytes = q.bytes

(* ensure_total_add and ensure_references_add: no total leaves u64. *)
TotalsFit(q) ==
    LET u == rows.usage[q.repository]
    IN  /\ Total(u.file_bytes) + q.bytes <= MaxCount
        /\ AddsBytes(q) => Total(u.accounted_bytes) + q.bytes <= MaxCount
        /\ AddsProject(q) => Total(u.projects) + 1 <= MaxCount
        /\ AddsVersion(q) =>
             \A k \in ProjectKeys(q) : Total(rows.project[k].versions) + 1 <= MaxCount
        /\ Total(rows.blob[BlobKey(q)].references) + 1 <= MaxCount
        /\ \A k \in ProjectKeys(q) : Total(rows.project[k].references) + 1 <= MaxCount
        /\ \A k \in VersionKeys(q) : Total(rows.version[k]) + 1 <= MaxCount

Exceeds(n, limit) == limit # None /\ n > limit

(* Mutant of LimitViolations: only committed capacity counts as taken. *)
LimitViolationsCommitted(q) ==
    LET u == rows.usage[q.repository]
    IN  {v \in {"file_bytes", "accounted_bytes", "projects", "versions_per_project"} :
           \/ v = "file_bytes" /\ Exceeds(q.bytes, MaxFileBytes)
           \/ /\ v = "accounted_bytes" /\ AddsBytes(q)
              /\ Exceeds(u.accounted_bytes.committed + q.bytes, MaxAccountedBytes)
           \/ /\ v = "projects" /\ AddsProject(q)
              /\ Exceeds(u.projects.committed + 1, MaxProjects)
           \/ /\ v = "versions_per_project" /\ AddsVersion(q)
              /\ \E k \in ProjectKeys(q) :
                   Exceeds(rows.project[k].versions.committed + 1, MaxVersionsPerProject)}

(* limit_violations *)
LimitViolations(q) ==
    LET u == rows.usage[q.repository]
    IN  {v \in {"file_bytes", "accounted_bytes", "projects", "versions_per_project"} :
           \/ v = "file_bytes" /\ Exceeds(q.bytes, MaxFileBytes)
           \/ /\ v = "accounted_bytes" /\ AddsBytes(q)
              /\ Exceeds(Total(u.accounted_bytes) + q.bytes, MaxAccountedBytes)
           \/ /\ v = "projects" /\ AddsProject(q)
              /\ Exceeds(Total(u.projects) + 1, MaxProjects)
           \/ /\ v = "versions_per_project" /\ AddsVersion(q)
              /\ \E k \in ProjectKeys(q) :
                   Exceeds(Total(rows.project[k].versions) + 1, MaxVersionsPerProject)}

(* ReservationRows::reserve and write. *)
RowsReserved(q) ==
    [usage   |-> [rows.usage EXCEPT ![q.repository] =
                    [file_bytes      |-> Plus(@.file_bytes, "reserved", q.bytes),
                     accounted_bytes |-> IF AddsBytes(q)
                                           THEN Plus(@.accounted_bytes, "reserved", q.bytes)
                                           ELSE @.accounted_bytes,
                     projects        |-> IF AddsProject(q) THEN Plus(@.projects, "reserved", 1)
                                         ELSE @.projects]],
     project |-> [k \in DOMAIN rows.project |->
                    LET x == rows.project[k]
                    IN  IF k \notin ProjectKeys(q) THEN x
                        ELSE [references |-> Plus(x.references, "reserved", 1),
                              versions   |-> IF AddsVersion(q)
                                               THEN Plus(x.versions, "reserved", 1)
                                               ELSE x.versions]],
     version |-> [k \in DOMAIN rows.version |->
                    IF k \in VersionKeys(q) THEN Plus(rows.version[k], "reserved", 1)
                    ELSE rows.version[k]],
     blob    |-> [rows.blob EXCEPT ![BlobKey(q)] =
                    [bytes |-> q.bytes, references |-> Plus(@.references, "reserved", 1)]]]

Reserve(i, q, audit) ==
    /\ record[i] = Ledger!Unused
    /\ SizeAgrees(q)
    /\ TotalsFit(q)
    /\ audit \/ LimitViolations(q) = {}
    /\ rows' = RowsReserved(q)
    /\ record' = [record EXCEPT ![i] =
                    [state |-> "reserved", request |-> q, violations |-> LimitViolations(q)]]
    /\ pending' = pending \cup {i}

--------------------------------
(* transition, transition_project and transition_version with commit set:   *)
(* a charge moves with its first committed reference.                       *)
RowsCommitted(old, q) ==
    LET MovedBy(v, refs, n) == IF refs.committed = 0 THEN Moved(v, n) ELSE v
        u == old.usage[q.repository]
    IN  [usage   |-> [old.usage EXCEPT ![q.repository] =
                        [file_bytes      |-> Moved(u.file_bytes, q.bytes),
                         accounted_bytes |-> MovedBy(u.accounted_bytes,
                                                     old.blob[BlobKey(q)].references, q.bytes),
                         projects        |-> IF \E k \in ProjectKeys(q) :
                                                  old.project[k].references.committed = 0
                                               THEN Moved(u.projects, 1) ELSE u.projects]],
         project |-> [k \in DOMAIN old.project |->
                        LET x == old.project[k]
                        IN  IF k \notin ProjectKeys(q) THEN x
                            ELSE [references |-> Moved(x.references, 1),
                                  versions   |-> IF \E l \in VersionKeys(q) :
                                                      old.version[l].committed = 0
                                                   THEN Moved(x.versions, 1) ELSE x.versions]],
         version |-> [k \in DOMAIN old.version |->
                        IF k \in VersionKeys(q) THEN Moved(old.version[k], 1)
                        ELSE old.version[k]],
         blob    |-> [old.blob EXCEPT ![BlobKey(q)].references = Moved(@, 1)]]

(* ... and without: a release.  A row without references is removed. *)
RowsReleased(old, q, state) ==
    LET u == old.usage[q.repository]
        Dropped(refs) == Minus(refs, state, 1)
        bytes == Dropped(old.blob[BlobKey(q)].references)
    IN  [usage   |-> [old.usage EXCEPT ![q.repository] =
                        [file_bytes      |-> Minus(u.file_bytes, state, q.bytes),
                         accounted_bytes |-> Rebalanced(u.accounted_bytes, bytes, state, q.bytes),
                         projects        |-> IF q.project = None THEN u.projects
                                             ELSE Rebalanced(u.projects,
                                                    Dropped(old.project[<<q.repository, q.project>>].references),
                                                    state, 1)]],
         project |-> [k \in DOMAIN old.project |->
                        LET x == old.project[k]
                            refs == Dropped(x.references)
                        IN  IF k \notin ProjectKeys(q) THEN x
                            ELSE IF Total(refs) = 0 THEN NoProject
                            ELSE [references |-> refs,
                                  versions   |-> IF q.version = None THEN x.versions
                                                 ELSE Rebalanced(x.versions,
                                                        Dropped(old.version[<<q.repository, q.project, q.version>>]),
                                                        state, 1)]],
         version |-> [k \in DOMAIN old.version |->
                        IF k \in VersionKeys(q) THEN Dropped(old.version[k]) ELSE old.version[k]],
         blob    |-> [old.blob EXCEPT ![BlobKey(q)] =
                        IF Total(bytes) = 0 THEN NoBlob ELSE [@ EXCEPT !.references = bytes]]]

(* checked_add: a counter that would leave u64 fails the transaction. *)
Counters(x) ==
    (UNION {{x.usage[r].file_bytes, x.usage[r].accounted_bytes, x.usage[r].projects} :
              r \in Repositories})
    \cup (UNION {{x.project[k].references, x.project[k].versions} : k \in DOMAIN x.project})
    \cup {x.version[k] : k \in DOMAIN x.version}
    \cup {x.blob[k].references : k \in DOMAIN x.blob}

Fits(x) == \A v \in Counters(x) : v.committed <= MaxCount /\ v.reserved <= MaxCount

(* commit_reservation, alone or inside commit_driver_txn_with_quota. *)
Commit(i) ==
    /\ record[i].state = "reserved"
    /\ Fits(RowsCommitted(rows, record[i].request))
    /\ rows' = RowsCommitted(rows, record[i].request)
    /\ record' = [record EXCEPT ![i].state = "committed"]
    /\ pending' = pending \ {i}

(* release_quota_reservation *)
Release(i) ==
    /\ i \in Ledger!Live
    /\ Fits(RowsReleased(rows, record[i].request, record[i].state))
    /\ rows' = RowsReleased(rows, record[i].request, record[i].state)
    /\ record' = [record EXCEPT ![i] = Ledger!Gone]
    /\ pending' = pending \ {i}

(* repair_abandoned_quota_reservations: the first RepairLimit entries of    *)
(* the pending index, in UUID order, in one transaction.                    *)
Repair(S) ==
    /\ S # {} /\ S \subseteq pending
    /\ Cardinality(S) = RepairLimit \/ (S = pending /\ Cardinality(S) < RepairLimit)
    /\ rows' = FoldSet(LAMBDA i, x : RowsReleased(x, record[i].request, record[i].state), rows, S)
    /\ record' = [i \in Ids |-> IF i \in S THEN Ledger!Gone ELSE record[i]]
    /\ pending' = pending \ S

--------------------------------
QuotaInit ==
    /\ record = [i \in Ids |-> Ledger!Unused]
    /\ pending = {}
    /\ rows = NoRows

QuotaNext ==
    \/ \E i \in Ids :
         \/ \E q \in Requests, audit \in Audits : Reserve(i, q, audit)
         \/ Commit(i)
         \/ Release(i)
    \/ \E S \in SUBSET Ids : Repair(S)

QuotaSpec == QuotaInit /\ [][QuotaNext]_quotaVars

--------------------------------
Values == [committed : Nat, reserved : Nat]

(* Types; no counter is ever taken below zero. *)
QuotaTypeOK ==
    /\ pending \subseteq Ids
    /\ \A i \in Ids : \/ record[i] \in {Ledger!Unused, Ledger!Gone}
                      \/ /\ record[i].state \in {"reserved", "committed"}
                         /\ record[i].request \in Requests
    /\ Counters(rows) \subseteq Values
    /\ \A k \in DOMAIN rows.blob : rows.blob[k].bytes \in Nat

(* The live allocations of a state. *)
In(S, state) == {i \in S : record[i].state = state}

(* A charge made once for all of S: committed when any of S is. *)
IsCharge(v, all, committed) == v.committed = committed /\ Total(v) = all

IsCount(v, S) ==
    v.committed = Cardinality(In(S, "committed")) /\ v.reserved = Cardinality(In(S, "reserved"))

(* The pending index is exactly the reservations a repair must release: it  *)
(* finds all of them and nothing that was committed.                        *)
PendingExact == pending = {i \in Ids : record[i].state = "reserved"}

(* The counters are never off: each equals what a recount of the live       *)
(* reservation records would give, whatever mixture of commits, releases    *)
(* and repairs led here.                                                    *)
CountersExact ==
    /\ QuotaTypeOK
    /\ PendingExact
    /\ \A r \in Repositories :
        LET S == Ledger!LiveIn(r)
            C == In(S, "committed")
            u == rows.usage[r]
        IN  /\ IsCharge(u.file_bytes, Ledger!FileBytes(S), Ledger!FileBytes(C))
            /\ IsCharge(u.accounted_bytes, Ledger!AccountedBytes(S), Ledger!AccountedBytes(C))
            /\ IsCharge(u.projects, Cardinality(Ledger!ProjectsOf(S)),
                        Cardinality(Ledger!ProjectsOf(C)))
            /\ \A p \in Projects :
                 /\ IsCharge(rows.project[<<r, p>>].versions, Cardinality(Ledger!VersionsOf(S, p)),
                             Cardinality(Ledger!VersionsOf(C, p)))
                 /\ IsCount(rows.project[<<r, p>>].references,
                            {i \in S : record[i].request.project = p})
            /\ \A d \in Digests :
                 IsCount(rows.blob[<<r, d>>].references, {i \in S : record[i].request.digest = d})

(* An admitted reservation can always be settled: no counter overflows when *)
(* it is committed or released later, in any order with the others.         *)
AlwaysSettles ==
    \A i \in Ledger!Live :
        /\ Fits(RowsReleased(rows, record[i].request, record[i].state))
        /\ record[i].state = "reserved" => Fits(RowsCommitted(rows, record[i].request))

(* The counters admit what a recount would admit, and record the same audit *)
(* violations.                                                              *)
RefinesLedger == Ledger!Spec

\* The counters are what a recount would give, and what was admitted can be settled in any order.
AccountsAreExact == CountersExact /\ AlwaysSettles

================================

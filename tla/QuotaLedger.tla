---------------- MODULE QuotaLedger ----------------
(* What repository quotas promise, without a counter: the allocations that
   are live, and an admission that weighs a request against them.

   Bytes are charged once for each digest, projects and versions once for
   as long as any allocation names them; reserved and committed
   allocations weigh the same. *)
EXTENDS Naturals, FiniteSets, FiniteSetsExt

CONSTANTS
    Ids,           \* reservation UUIDs, each drawn once
    Repositories, Projects, Versions, Digests,
    Sizes,         \* sizes a request may state
    MaxFileBytes, MaxAccountedBytes, MaxProjects, MaxVersionsPerProject,
    Audits,        \* the values of QuotaLimits::audit in use
    RepairLimit,   \* rows released by one repair pass
    MaxCount,      \* the largest counter value (u64::MAX)
    None           \* an absent project, version or limit

VARIABLE record    \* QUOTA_RESERVATION, by id

Unused == [state |-> "unused"]
Gone == [state |-> "gone"]

(* validate_request: a version needs a project. *)
Requests ==
    {q \in [repository : Repositories, project : Projects \cup {None},
            version : Versions \cup {None}, digest : Digests, bytes : Sizes] :
       q.project = None => q.version = None}

Live == {i \in Ids : record[i].state \in {"reserved", "committed"}}
LiveIn(r) == {i \in Live : record[i].request.repository = r}

DigestsOf(S) == {record[i].request.digest : i \in S}
ProjectsOf(S) == {record[i].request.project : i \in S} \ {None}
VersionsOf(S, p) ==
    {record[i].request.version : i \in {j \in S : record[j].request.project = p}} \ {None}

(* The size of a digest among the allocations of S. *)
SizeOf(S, d) ==
    LET i == CHOOSE j \in S : record[j].request.digest = d IN record[i].request.bytes

FileBytes(S) == MapThenSumSet(LAMBDA i : record[i].request.bytes, S)
AccountedBytes(S) == MapThenSumSet(LAMBDA d : SizeOf(S, d), DigestsOf(S))

Exceeds(n, limit) == limit # None /\ n > limit

(* The limits that admitting q would break. *)
Violations(q) ==
    LET S == LiveIn(q.repository)
    IN  {v \in {"file_bytes", "accounted_bytes", "projects", "versions_per_project"} :
           \/ v = "file_bytes" /\ Exceeds(q.bytes, MaxFileBytes)
           \/ /\ v = "accounted_bytes"
              /\ q.digest \notin DigestsOf(S)
              /\ Exceeds(AccountedBytes(S) + q.bytes, MaxAccountedBytes)
           \/ /\ v = "projects"
              /\ q.project \notin ProjectsOf(S) \cup {None}
              /\ Exceeds(Cardinality(ProjectsOf(S)) + 1, MaxProjects)
           \/ /\ v = "versions_per_project"
              /\ q.version \notin VersionsOf(S, q.project) \cup {None}
              /\ Exceeds(Cardinality(VersionsOf(S, q.project)) + 1, MaxVersionsPerProject)}

Init == record = [i \in Ids |-> Unused]

Reserve(i, q, audit) ==
    /\ record[i] = Unused
    /\ \A j \in LiveIn(q.repository) :
         record[j].request.digest = q.digest => record[j].request.bytes = q.bytes
    /\ FileBytes(LiveIn(q.repository)) + q.bytes <= MaxCount
    /\ audit \/ Violations(q) = {}
    /\ record' = [record EXCEPT ![i] =
                    [state |-> "reserved", request |-> q, violations |-> Violations(q)]]

Commit(i) ==
    /\ record[i].state = "reserved"
    /\ record' = [record EXCEPT ![i].state = "committed"]

Release(i) ==
    /\ i \in Live
    /\ record' = [record EXCEPT ![i] = Gone]

Repair(S) ==
    /\ S \subseteq {i \in Live : record[i].state = "reserved"}
    /\ Cardinality(S) <= RepairLimit
    /\ record' = [i \in Ids |-> IF i \in S THEN Gone ELSE record[i]]

Next ==
    \/ \E S \in SUBSET Ids : Repair(S)
    \/ \E i \in Ids :
         \/ \E q \in Requests, audit \in Audits : Reserve(i, q, audit)
         \/ Commit(i)
         \/ Release(i)

Spec == Init /\ [][Next]_record
================================

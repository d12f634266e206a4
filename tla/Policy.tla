---------------- MODULE Policy ----------------
(* The policy of an index and the log of its decisions: peryx-policy, the
   PyPI rules (policy.rs), meta/policy_decision.rs of peryx-storage and
   the recorder that server.rs attaches.

   Checks are pure; every check is recorded in a transaction of its own,
   so a page of n files leaves n + 1 records one after the other, and a
   client that reads the log page by page sees it grow at one end and
   shrink at the other. *)
EXTENDS Integers, Sequences, FiniteSets, FiniteSetsExt, SequencesExt

CONSTANTS
    Policies,       \* the configurations an operator may start with, see IsPolicy
    PolicyFiles,    \* the files pages list, see IsFile
    Projects,       \* normalized project names
    Prefixed,       \* protected prefix -> the projects it reserves
    MaxHistory,     \* MAX_DECISION_HISTORY
    QueryLimit,     \* the limit a client asks for
    MaxRecords,     \* bound on the decisions recorded
    MaxGenerations, \* bound on restarts and changes of the repository together
    MaxPolicyNow    \* bound on the clock

None == -1
Unset == "unset"
Unknown == "<unknown>"
ReadActions == {"cached", "serve"}

\* A compiled policy: an empty allow set allows everything, a limit of None is no limit.
IsPolicy(c) ==
    DOMAIN c = {"allow_projects", "block_projects", "protected", "protected_prefixes", "max_file_size",
                "max_project_size", "versions", "allow_types", "block_types", "allow_pythons", "block_pythons",
                "allow_platforms", "block_platforms", "min_release_age", "attestations", "mode"}

\* A file of a page of project: named, version, type and the parts of the two wheel tags are what its name parses to,
\* Unknown, Unset and none where it does not parse; size is what the page declares, stored the size of the blob.
IsFile(f) == DOMAIN f = {"filename", "project", "named", "version", "type", "pythons", "platforms", "size", "stored",
                         "uploaded"}

ASSUME PolicyAssumption ==
    /\ \A c \in Policies : IsPolicy(c) /\ c.protected_prefixes \subseteq DOMAIN Prefixed
    /\ \A f \in PolicyFiles : IsFile(f) /\ f.filename # Unset
    /\ IsFiniteSet(PolicyFiles)
    /\ \A f, g \in PolicyFiles : f.filename = g.filename => f = g
    /\ {MaxHistory, QueryLimit} \subseteq Nat \ {0}
    /\ {MaxRecords, MaxGenerations, MaxPolicyNow} \subseteq Nat

VARIABLES
    config,     \* the compiled policy of the running process
    applied,    \* what the check that is being recorded answered
    unrecorded, \* its decisions still to be recorded
    history,    \* POLICY_DECISION: id -> record
    current,    \* POLICY_DECISION_CURRENT: subject -> id
    currentIds, \* POLICY_DECISION_CURRENT_ID: id -> subject
    recorded,   \* the decision serial
    generation, \* POLICY_INPUT_GENERATION: [repository, policy]
    reader      \* a client paging through the log

policyVars == <<config, applied, unrecorded, history, current, currentIds, recorded, generation, reader>>

PolicyInit ==
    /\ config = CHOOSE c \in Policies : TRUE
    /\ applied = [kind |-> "none"]
    /\ unrecorded = <<>>
    /\ history = <<>> /\ current = <<>> /\ currentIds = <<>>
    /\ recorded = 0
    /\ generation = [repository |-> 0, policy |-> 1]
    /\ reader = [pc |-> "idle"]

--------------------------------
(* The engine                                                              *)

\* ProtectedNames::matched
Protected(c, project) == project \in c.protected \/ \E p \in c.protected_prefixes : project \in Prefixed[p]

\* evaluate_project: the rule against a project, "none" if it passes.
EvaluateProject(c, action, project) ==
    CASE action = "cached" /\ Protected(c, project) -> "protected-name"
      [] ~(action = "cached" /\ Protected(c, project)) /\ c.allow_projects # {} /\ project \notin c.allow_projects ->
            "project-allow-list"
      [] OTHER -> IF project \in c.block_projects THEN "project-block-list" ELSE "none"

\* check_file_size: a limit refuses a file of unknown size.
FileSizeRule(c, size) == IF c.max_file_size # None /\ (size = None \/ size > c.max_file_size) THEN "max-file-size" ELSE "none"

\* evaluate_size, for the blobs and manifests of OCI: the size is always known.
EvaluateSize(c, action, project, size) ==
    LET named == EvaluateProject(c, action, project) IN IF named # "none" THEN named ELSE FileSizeRule(c, size)

VersionRule(c, f) == IF c.versions # {} /\ f.version \notin c.versions THEN "version-specifier" ELSE "none"

\* PackageTypeRule: an unknown type misses every allow list and no block list catches it.
PackageTypeRule(c, f) ==
    CASE c.allow_types # {} /\ f.type \notin c.allow_types -> "package-type-allow-list"
      [] f.type \in c.block_types -> "package-type-block-list"
      [] OTHER -> "none"

\* WheelTagRule: only wheels have tags; one matching part of a compound tag is enough.
WheelTagRule(f, tag, allow, block, allowRule, blockRule) ==
    CASE f.type # "wheel" -> "none"
      [] f.type = "wheel" /\ allow # {} /\ tag \cap allow = {} -> allowRule
      [] OTHER -> IF tag \cap block # {} THEN blockRule ELSE "none"

\* push_wheel_tag_rule, once for each of the two tags.
PythonTagRule(c, f) ==
    WheelTagRule(f, f.pythons, c.allow_pythons, c.block_pythons, "wheel-python-allow-list", "wheel-python-block-list")

PlatformTagRule(c, f) ==
    WheelTagRule(f, f.platforms, c.allow_platforms, c.block_platforms,
                 "wheel-platform-allow-list", "wheel-platform-block-list")

\* ReleaseDelayRule: without a clock it passes, without an upload time it refuses.
ReleaseDelayRule(c, f, now) ==
    IF c.min_release_age > 0 /\ now # None /\ (f.uploaded = None \/ now - f.uploaded < c.min_release_age)
    THEN "release-delay" ELSE "none"

\* RequiredAttestationRule: only an upload declares predicate types.
AttestationRule(c, action, predicates) ==
    IF action = "upload" /\ ~(c.attestations \subseteq predicates)
    THEN IF c.mode = "enforce" THEN "required-attestation" ELSE "required-attestation-audit"
    ELSE "none"

\* evaluate_facts with the rules in the order of compile_rules: the first refusal is the answer.
EvaluateFacts(c, action, project, f, size, now, predicates) ==
    LET answers == <<EvaluateProject(c, action, project), FileSizeRule(c, size), VersionRule(c, f),
                     PackageTypeRule(c, f), PythonTagRule(c, f), PlatformTagRule(c, f), ReleaseDelayRule(c, f, now),
                     AttestationRule(c, action, predicates)>>
        refusals == {i \in 1..8 : answers[i] # "none"}
    IN  IF refusals = {} THEN "none" ELSE answers[Min(refusals)]

\* facts_from_filename: a download is judged by the project its file name gives, without clock or upload time.
DownloadRule(c, f, size) == EvaluateFacts(c, "serve", f.named, f, size, None, {})

TotalSize(files) == MapThenSumSet(LAMBDA f : f.size, files)

\* project_size_denial: a file of unknown size makes the project's unknown.
ProjectSizeRule(c, files) ==
    IF /\ c.max_project_size # None
       /\ \/ \E f \in files : f.size = None
          \/ TotalSize(files) > c.max_project_size
    THEN "max-project-size" ELSE "none"

--------------------------------
(* Checks and their records                                                *)

Subject(project, filename, action) == <<project, filename, action>>

Decided(project, filename, action, rule) == [subject |-> Subject(project, filename, action), rule |-> rule]

Check(answer, decisions) ==
    /\ unrecorded = <<>> /\ recorded + Len(decisions) <= MaxRecords
    /\ applied' = answer
    /\ unrecorded' = decisions
    /\ UNCHANGED <<config, history, current, currentIds, recorded, generation, reader>>

\* apply_detail at time now, None where the caller has no clock: the project, then every file, then the size of what
\* is left; versions follow the files.
ApplyDetail(action, project, files, now) ==
    LET rule == EvaluateProject(config, action, project)
        judged == [f \in files |-> EvaluateFacts(config, action, project, f, f.size, now, {})]
        kept == {f \in files : judged[f] = "none"}
        size == ProjectSizeRule(config, kept)
        first == Decided(project, Unset, action, rule)
        rest == [i \in 1..Cardinality(files) |->
                    LET f == SetToSeq(files)[i] IN Decided(project, f.filename, action, judged[f])]
    IN  Check([kind |-> "page", action |-> action, project |-> project, files |-> files, now |-> now,
               denied |-> IF rule # "none" THEN rule ELSE size, kept |-> kept, versions |-> {f.version : f \in kept}],
              IF rule # "none" THEN <<first>> ELSE <<first>> \o rest)

\* download_policy_response with check_download: the size is that of the stored blob, or else the one that its page
\* registered, if any.
CheckDownload(f, size) ==
    LET rule == DownloadRule(config, f, size)
    IN  Check([kind |-> "download", rule |-> rule], <<Decided(f.named, f.filename, "serve", rule)>>)

\* check_upload; audit mode refuses nothing in the handler but the record shows it.
CheckUpload(f, predicates) ==
    LET rule == EvaluateFacts(config, "upload", f.project, f, f.size, None, predicates)
    IN  Check([kind |-> "upload", rule |-> rule],
              <<Decided(f.project, f.filename, "upload", rule)>>)

--------------------------------
(* The decision log                                                        *)

PutAt(f, k, v) == [x \in DOMAIN f \cup {k} |-> IF x = k THEN v ELSE f[x]]
DropAt(f, ks) == [x \in DOMAIN f \ ks |-> f[x]]

PruneHistoryOnly(h, c, ids) ==
    LET stale == Min(DOMAIN h)
    IN  IF Cardinality(DOMAIN h) <= MaxHistory THEN <<h, c, ids>> ELSE <<DropAt(h, {stale}), c, DropAt(ids, {stale})>>

\* prune_history: the oldest record goes, and the pointer to it if it is still the current one.
PruneHistory(h, c, ids) ==
    LET stale == Min(DOMAIN h)
    IN  IF Cardinality(DOMAIN h) <= MaxHistory THEN <<h, c, ids>>
        ELSE <<DropAt(h, {stale}), IF stale \in DOMAIN ids THEN DropAt(c, {ids[stale]}) ELSE c, DropAt(ids, {stale})>>

\* record_policy_decision: the record, the pointer to it and the pruning in one transaction.
RecordDecision ==
    LET d == unrecorded[1]
        id == recorded + 1
        previous == IF d.subject \in DOMAIN current THEN {current[d.subject]} ELSE {}
        pruned == PruneHistory(PutAt(history, id, [decision |-> d, generation |-> generation]),
                               PutAt(current, d.subject, id),
                               PutAt(DropAt(currentIds, previous), id, d.subject))
    IN  /\ unrecorded # <<>>
        /\ recorded' = id
        /\ history' = pruned[1] /\ current' = pruned[2] /\ currentIds' = pruned[3]
        /\ unrecorded' = Tail(unrecorded)
        /\ applied' = [kind |-> "none"]
        /\ UNCHANGED <<config, generation, reader>>

\* The recorder logs a failing store and goes on.
LoseDecision ==
    /\ unrecorded # <<>>
    /\ unrecorded' = Tail(unrecorded)
    /\ applied' = [kind |-> "none"]
    /\ UNCHANGED <<config, history, current, currentIds, recorded, generation, reader>>

\* attach_policy_decision_recorders at startup: the generation is advanced before the policy serves.
StartWith(c) ==
    /\ generation.policy + generation.repository < MaxGenerations
    /\ config' = c
    /\ generation' = [generation EXCEPT !.policy = @ + 1]
    /\ unrecorded' = <<>>
    /\ applied' = [kind |-> "none"]
    /\ UNCHANGED <<history, current, currentIds, recorded, reader>>

\* Any journalled change of the repository moves its generation.
RepositoryChanges ==
    /\ generation.policy + generation.repository < MaxGenerations
    /\ generation' = [generation EXCEPT !.repository = @ + 1]
    /\ applied' = [kind |-> "none"]
    /\ UNCHANGED <<config, unrecorded, history, current, currentIds, recorded, reader>>

Fresh(record) == record.generation = generation

\* query_policy_decisions: newest first, strictly before the cursor, one more than the limit to know if there is
\* a next page.  The client starts without a cursor and follows next_cursor to the end.
QueryDecisions(denied) ==
    LET cursor == IF reader.pc = "reading" THEN reader.cursor ELSE recorded + 1
        wanted == IF reader.pc = "reading" THEN reader.denied ELSE denied
        matching == {id \in DOMAIN history : id < cursor /\ (wanted => history[id].decision.rule # "none")}
        page == {id \in matching : Cardinality({j \in matching : j > id}) < QueryLimit}
        start == IF reader.pc = "reading" THEN reader.start ELSE matching
        seen == IF reader.pc = "reading" THEN reader.seen ELSE {}
    IN  /\ reader' = IF matching # page
                     THEN [pc |-> "reading", denied |-> wanted, start |-> start, seen |-> seen \cup page, cursor |-> Min(page)]
                     ELSE [pc |-> "done", missed |-> (start \cap DOMAIN history) \ (seen \cup page), twice |-> seen \cap page]
        /\ applied' = [kind |-> "none"]
        /\ UNCHANGED <<config, unrecorded, history, current, currentIds, recorded, generation>>

PolicyNext ==
    \/ \E a \in ReadActions, p \in Projects, files \in SUBSET PolicyFiles, now \in {None} \cup 0..MaxPolicyNow :
          ApplyDetail(a, p, {f \in files : f.project = p}, now)
    \/ \E f \in PolicyFiles : \E size \in {f.stored, f.size, None} : CheckDownload(f, size)
    \/ \E f \in PolicyFiles, predicates \in SUBSET UNION {c.attestations : c \in Policies} : CheckUpload(f, predicates)
    \/ RecordDecision
    \/ LoseDecision
    \/ \E c \in Policies : StartWith(c)
    \/ RepositoryChanges
    \/ \E denied \in BOOLEAN : QueryDecisions(denied)

PolicySpec == PolicyInit /\ [][PolicyNext]_policyVars

--------------------------------
(* Properties                                                              *)

\* What a page shows is what the other surfaces grant: a file it keeps can be downloaded at the size it declares, if
\* its name gives the page's own project - a file named for another project, or for none, is judged by that name;
\* its versions are those of the files it keeps, a protected project is not answered from upstream whatever the lists
\* say, and a page that outgrew the project limit is refused although every file of it passes.
PolicyIsCoherent ==
    applied.kind = "page" =>
       /\ applied.denied = "none" =>
             /\ \A f \in applied.kept : f.named = f.project => DownloadRule(config, f, f.size) = "none"
             /\ applied.versions = {f.version : f \in applied.kept}
             /\ config.max_project_size # None =>
                   /\ \A f \in applied.kept : f.size # None
                   /\ ~ (TotalSize(applied.kept) > config.max_project_size)
             /\ \A f \in applied.kept : EvaluateSize(config, applied.action, f.project, f.size) = "none"
             /\ applied.action = "cached" => ~Protected(config, applied.project)
       /\ applied.kept \subseteq
             {f \in applied.files : EvaluateFacts(config, applied.action, applied.project, f, f.size, None, {}) = "none"}

\* The log is sound however records, prunings, restarts and lost writes follow one another: a subject points at its
\* newest record that is left and at no other, the two pointer tables mirror each other, the bound holds, a record
\* called fresh was decided by the policy in force; and a client that pages to the end meets no record twice and
\* misses none that was there when it began and still is.
DecisionLogIsSound ==
    /\ Cardinality(DOMAIN history) <= MaxHistory
    /\ \A s \in DOMAIN current :
          /\ current[s] \in DOMAIN history
          /\ current[s] = Max({id \in DOMAIN history : history[id].decision.subject = s})
    /\ \A id \in DOMAIN history : history[id].decision.subject \in DOMAIN current
    /\ currentIds = [id \in {current[s] : s \in DOMAIN current} |-> history[id].decision.subject]
    /\ \A id \in DOMAIN history :
          LET d == history[id].decision
          IN  (Fresh(history[id]) /\ d.subject[2] = Unset) => d.rule = EvaluateProject(config, d.subject[3], d.subject[1])
    /\ reader.pc = "done" => reader.missed = {} /\ reader.twice = {}

\* A listing keeps what a download of it gets, and the log of decisions keeps the last of each subject.
PoliciesAreSound == PolicyIsCoherent /\ DecisionLogIsSound

================================

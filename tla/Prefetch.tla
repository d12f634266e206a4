---------------- MODULE Prefetch ----------------
(* peryx prefetch (crates/peryx/src/prefetch): plan, sync and verify of a     *)
(* selection of projects through a cached index, or through a virtual index    *)
(* with one cached member.  A command resolves its target, merges the index's  *)
(* settings with its options, reads the selectors and the requirement files,   *)
(* and then visits the projects one by one.  sync uses the server's own page   *)
(* and file paths; verify reads what is stored.  Between the steps upstream    *)
(* changes, stored blobs rot and the command may be killed.                    *)
(*                                                                            *)
(* Texts are sequences of tokens.  A selector such as flask[async]>=2;marker   *)
(* is <<"flask", "[", "async", "]", ">=2", ";", "marker">>.                    *)
EXTENDS Integers, Sequences, SequencesExt, FiniteSets

CONSTANTS PrefetchIndexes,          \* index name -> [kind, layers, ecosystem]; one is cached
          Settings,         \* the [index.prefetch] table of the cached index
          Requests,         \* the options a command may be given
          RequirementFiles, \* where a file is, from the root -> its lines; elsewhere nothing can be read
          PathParts,        \* the spelling of a path -> its components, "/" first if absolute
          WorkingDir,       \* where a relative path starts
          MaxPath,          \* the longest path, in components, that the system opens
          Normal,           \* a valid project name -> its normalised form
          SpecVersions,     \* a version specifier -> the versions it contains
          ProjectOrder,     \* every normalised project, in order
          PageFiles,        \* page -> the files it lists
          UpstreamPages,    \* project -> what upstream may answer for it
          LocalProjects,    \* the projects a hosted member has files of
          Unlisted, Down,
          NoDigest,         \* a file lists no SHA-256
          BadDigest,        \* a file lists a SHA-256 that is not one
          MaxCommands, MaxUpstreamChanges, MaxRot

VARIABLE prefetch

--------------------------------
(* Selection (selection.rs). *)

Refused == [ok |-> FALSE]
AnyVersion == "any"

UpToFirst(line, ends) ==
    IF ends = {} THEN line ELSE SubSeq(line, 1, (CHOOSE i \in ends : \A j \in ends : i <= j) - 1)

AfterToken(line, token) ==
    LET at == {i \in DOMAIN line : line[i] = token} IN
    SubSeq(line, (CHOOSE i \in at : \A j \in at : i <= j) + 1, Len(line))

\* parse_selector: the name, then extras that are dropped, then a specifier up
\* to a marker.  A bracket that is never closed stays in the specifier.
ParseSelector(raw) ==
    IF raw = <<>> \/ Contains(raw, "@") \/ raw[1] \notin DOMAIN Normal THEN Refused
    ELSE LET rest == Tail(raw)
             bare == IF rest # <<>> /\ rest[1] = "[" /\ Contains(rest, "]") THEN AfterToken(rest, "]") ELSE rest
             spec == UpToFirst(bare, {i \in DOMAIN bare : bare[i] = ";"})
         IN  IF spec = <<>> THEN [ok |-> TRUE, project |-> Normal[raw[1]], spec |-> AnyVersion]
             ELSE IF Len(spec) = 1 /\ spec[1] \in DOMAIN SpecVersions
             THEN [ok |-> TRUE, project |-> Normal[raw[1]], spec |-> spec[1]]
             ELSE Refused

\* requirement_line: up to a comment, or to an option after the requirement.
RequirementLine(line) == UpToFirst(line, {i \in DOMAIN line : line[i] = "#" \/ (i > 1 /\ line[i] = "--hash")})

Includes == {"-r", "--requirement", "-c", "--constraint"}

\* A path is the sequence of its components, as PathBuf compares them: a "." counts only in front.  parent and join
\* keep every "..".
Parent(path) == Front(path)
JoinPath(path, nested) ==
    IF path = <<>> \/ nested[1] = "/" THEN nested ELSE path \o SelectSeq(nested, LAMBDA part : part # ".")

\* Where the system finds what a path names, from a directory.
Walk(dir, part) ==
    CASE part = "/" -> <<>>
      [] part = "." \/ (part = ".." /\ dir = <<>>) -> dir
      [] part = ".." /\ dir # <<>> -> Front(dir)
      [] OTHER -> Append(dir, part)
Location(dir, path) == FoldLeft(Walk, dir, path)

Directories == UNION {{SubSeq(f, 1, n) : n \in 0..(Len(f) - 1)} : f \in DOMAIN RequirementFiles}

Readable(path) ==
    /\ Len(path) <= MaxPath /\ Location(WorkingDir, path) \in DOMAIN RequirementFiles
    /\ \A n \in 1..(Len(path) - 1) : Location(WorkingDir, SubSeq(path, 1, n)) \in Directories

\* read_requirements: a file is read once for each way its path is spelled; a nested file is read where it is named,
\* beside the one that names it; other options are passed over.  A circle closes only on a path spelled as before:
\* through ".." the paths grow until one cannot be read.
RECURSIVE ReadRequirements(_, _)
RECURSIVE ReadLines(_, _, _)
ReadLines(path, lines, acc) ==
    IF lines = <<>> \/ ~acc.ok THEN acc
    ELSE LET line == RequirementLine(Head(lines)) IN
         ReadLines(path, Tail(lines),
             IF line = <<>> THEN acc
             ELSE IF line[1] \in Includes THEN ReadRequirements(JoinPath(Parent(path), PathParts[line[2]]), acc)
             ELSE IF line[1] = "--index-url" THEN acc
             ELSE [acc EXCEPT !.selectors = Append(@, line)])
ReadRequirements(path, acc) ==
    IF path \in acc.seen THEN acc
    ELSE IF ~Readable(path) THEN [acc EXCEPT !.ok = FALSE]
    ELSE ReadLines(path, RequirementFiles[Location(WorkingDir, path)], [acc EXCEPT !.seen = @ \cup {path}])

RequirementSelectors(paths) ==
    FoldLeft(LAMBDA acc, path : IF acc.ok THEN ReadRequirements(PathParts[path], acc) ELSE acc,
             [ok |-> TRUE, seen |-> {}, selectors |-> <<>>], paths)

TagKinds == {"python", "abi", "platform"}

\* The options added to the index's settings.
MergedFilters(options) ==
    [Settings EXCEPT
        !.mode = IF options.mode = "" THEN @ ELSE options.mode,
        !.packages = @ \o options.packages,
        !.requirements = @ \o options.requirements,
        !.metadata_only = @ \/ options.metadata_only \/ options.mode = "metadata-only",
        !.include_wheels = @ /\ ~options.no_wheels,
        !.include_sdists = @ /\ ~options.no_sdists,
        !.tags = [k \in TagKinds |-> @[k] \cup options.tags[k]],
        !.max_size = IF options.max_size = 0 THEN @ ELSE options.max_size]

\* The rules: project -> the specifiers selected for it, any of which suffices.
SelectorRules(selectors) ==
    LET parsed == {x \in {ParseSelector(selectors[i]) : i \in DOMAIN selectors} : x.ok} IN
    [p \in {x.project : x \in parsed} |-> {x.spec : x \in {y \in parsed : y.project = p}}]

RuleAllows(rule, version) ==
    \E spec \in rule : spec = AnyVersion \/ version \in SpecVersions[spec]

RequiredSelectors == [options \in Requests |-> RequirementSelectors(MergedFilters(options).requirements)]
Rules == [options \in Requests |-> SelectorRules(MergedFilters(options).packages \o RequiredSelectors[options].selectors)]

\* selection: the projects to visit, in order, with their rules and filters.
\* `listed' is the cached or synchronised project list that mode "all" visits.
Selection(options, listed) ==
    LET filters == MergedFilters(options)
        required == RequiredSelectors[options]
        selectors == filters.packages \o required.selectors
        rules == Rules[options]
    IN  IF \/ ~required.ok
           \/ \E i \in DOMAIN selectors : ~ParseSelector(selectors[i]).ok
           \/ filters.mode # "all" /\ selectors = <<>>
        THEN Refused
        ELSE [ok |-> TRUE, filters |-> filters, rules |-> rules,
              projects |-> SelectSeq(ProjectOrder, LAMBDA p :
                               p \in IF filters.mode = "all" THEN listed ELSE DOMAIN rules)]

\* target_upstream: a command fetches through exactly one cached index, which
\* its configuration may have taken offline.
CommandTarget(name, offline) ==
    IF name \notin DOMAIN PrefetchIndexes THEN Refused
    ELSE LET index == PrefetchIndexes[name]
             cached == IF index.kind = "cached" THEN {name}
                       ELSE {l \in index.layers : PrefetchIndexes[l].kind = "cached"}
         IN  IF index.kind = "hosted" \/ Cardinality(cached) # 1 THEN Refused
             ELSE [ok |-> TRUE, virtual |-> index.kind = "virtual", offline |-> offline]

\* A wheel's tag sets, each against the tags asked for; no tags ask for all.
TagsAllowed(tags, asked) ==
    \A k \in TagKinds : asked[k] = {} \/ tags[k] \cap asked[k] # {}

\* decision: why a file is passed over, or "" for one to fetch.
FileDecision(file, rules, project, filters) ==
    CASE file.digest = NoDigest -> "missing sha256"
      [] file.kind = "other" -> "unsupported filename"
      [] file.kind = "wheel" /\ ~filters.include_wheels -> "wheels disabled"
      [] file.kind = "wheel" /\ ~TagsAllowed(file.tags, filters.tags) -> "wheel tag filtered"
      [] file.kind = "sdist" /\ ~filters.include_sdists -> "sdists disabled"
      [] filters.max_size # 0 /\ file.size > filters.max_size -> "size filtered"
      [] project \in DOMAIN rules /\ ~RuleAllows(rules[project], file.version) -> "version filtered"
      [] OTHER -> ""

--------------------------------
(* The commands (pypi.rs, oci.rs, dispatch.rs). *)

NoCommand == [command |-> "none"]
NoCounts == [projects |-> 0, fetched |-> 0, cached |-> 0, skipped |-> 0, failures |-> 0]

Digests == {f.digest : f \in UNION {ToSet(PageFiles[p]) : p \in DOMAIN PageFiles}}
             \cup {f.metadata : f \in UNION {ToSet(PageFiles[p]) : p \in DOMAIN PageFiles}}
KnownDigests == Digests \ {NoDigest, BadDigest}

PrefetchInit ==
    prefetch = [run |-> NoCommand, ended |-> NoCommand, commands |-> 0, changes |-> 0, rot |-> 0, catalog |-> FALSE,
              upstream |-> [p \in DOMAIN UpstreamPages |-> CHOOSE a \in UpstreamPages[p] : a \in DOMAIN PageFiles],
              pages |-> [p \in DOMAIN UpstreamPages |-> Unlisted],
              blobs |-> [d \in KnownDigests |-> "absent"]]

Running == prefetch.run
Project == Running.todo[1]

\* list_projects: the names of the catalog, once one was published, and those of
\* the stored pages.
ListProjects(catalog) ==
    IF catalog THEN DOMAIN UpstreamPages ELSE {p \in DOMAIN prefetch.pages : prefetch.pages[p] # Unlisted}

\* all_projects: mode "all" first synchronises the catalog, plan included, unless
\* the command reads the cache or the index is offline.
SyncsCatalog(command, options, offline) ==
    MergedFilters(options).mode = "all" /\ command # "verify" /\ ~offline

\* run, target and selection: a command starts, or is refused.  A catalog that
\* cannot be read upstream refuses it too.
Starts(options) ==
    /\ Running = NoCommand /\ prefetch.commands < MaxCommands
    /\ options.index \in DOMAIN PrefetchIndexes => PrefetchIndexes[options.index].ecosystem = "pypi"

BeginCommand(command, options, offline) ==
    /\ Starts(options)
    /\ LET target == CommandTarget(options.index, offline)
           catalog == prefetch.catalog \/ SyncsCatalog(command, options, offline)
           selection == Selection(options, ListProjects(catalog))
       IN  /\ target.ok /\ selection.ok
           /\ prefetch' = [prefetch EXCEPT
                  !.commands = @ + 1, !.catalog = catalog,
                  !.run = [command |-> command, options |-> options, target |-> target,
                           rules |-> selection.rules, filters |-> selection.filters,
                           selected |-> ToSet(selection.projects),
                           todo |-> selection.projects, files |-> <<>>, down |-> {}, rot |-> prefetch.rot,
                           counts |-> NoCounts, synced |-> {}, problems |-> {}, status |-> "running"]]

Refuse(command, options, offline) ==
    /\ Starts(options)
    /\ \/ ~CommandTarget(options.index, offline).ok
       \/ ~Selection(options, ListProjects(TRUE)).ok
       \/ SyncsCatalog(command, options, offline)
    /\ prefetch' = [prefetch EXCEPT !.commands = @ + 1,
                                !.ended = [command |-> command, status |-> "refused"]]

\* The OCI mirror: the images of the settings and of the options, at least one.
\* plan lists them; sync and verify report an error when a row has one.
OciImages(options) == Settings.packages \o options.images

OciCommand(command, options, errors) ==
    /\ Running = NoCommand /\ prefetch.commands < MaxCommands
    /\ options.index \in DOMAIN PrefetchIndexes /\ PrefetchIndexes[options.index].ecosystem = "oci"
    /\ errors => command # "plan" /\ OciImages(options) # <<>>
    /\ prefetch' = [prefetch EXCEPT !.commands = @ + 1,
           !.ended = [command |-> command,
                      status |-> IF OciImages(options) = <<>> THEN "refused" ELSE IF errors THEN "error" ELSE "ok"]]

\* The project done with: the next one.
Visited(run, counts) ==
    [run EXCEPT !.todo = Tail(@), !.files = <<>>,
                !.counts = [counts EXCEPT !.projects = @ + 1]]

\* plan_detail, and the rows of its files; nothing is stored.
Plan ==
    /\ Running # NoCommand /\ Running.command = "plan" /\ Running.todo # <<>>
    /\ LET answer == IF Running.target.offline THEN prefetch.pages[Project] ELSE prefetch.upstream[Project]
           Kept(f) == FileDecision(f, Running.rules, Project, Running.filters) = ""
           counts == Running.counts
       IN  prefetch' = [prefetch EXCEPT !.run = Visited(Running,
               CASE answer = Unlisted -> [counts EXCEPT !.skipped = @ + 1]
                 [] answer = Down -> [counts EXCEPT !.failures = @ + 1]
                 [] OTHER -> [counts EXCEPT
                        !.fetched = @ + Len(SelectSeq(PageFiles[answer], Kept)),
                        !.skipped = @ + Len(SelectSeq(PageFiles[answer], LAMBDA f : ~Kept(f)))])]

\* materialize_detail: a page that is fresh, or stale within its allowance, is
\* used as it is, and an older one while upstream is down, up to a limit.
\* Through a virtual index, what the cached member cannot give
\* is passed over: an outage with nothing stored reads as a missing project.
Materialize(fresh, servable) ==
    /\ Running # NoCommand /\ Running.command = "sync" /\ Running.todo # <<>> /\ Running.files = <<>>
    /\ fresh => prefetch.pages[Project] # Unlisted
    /\ ~fresh => ~(Running.target.offline /\ prefetch.pages[Project] # Unlisted)
    /\ LET answer == IF Running.target.offline THEN Unlisted ELSE prefetch.upstream[Project]
           fetched == ~fresh /\ answer \notin {Unlisted, Down}
           page == IF fetched THEN answer ELSE prefetch.pages[Project]
           local == Running.target.virtual /\ Project \in LocalProjects
           outcome == CASE fresh \/ fetched -> "page"
                        [] answer = Down /\ page # Unlisted /\ servable -> "page"
                        [] local -> "local"
                        [] answer = Down /\ ~Running.target.virtual -> "error"
                        [] Running.target.offline -> "error"
                        [] OTHER -> "none"
           tried == [Running EXCEPT !.down = IF ~fresh /\ answer = Down THEN @ \cup {Project} ELSE @]
           counts == Running.counts
       IN  prefetch' = [prefetch EXCEPT
               !.pages[Project] = page,
               !.run = CASE outcome = "none" -> Visited(tried, [counts EXCEPT !.skipped = @ + 1])
                         [] outcome = "error" -> Visited(tried, [counts EXCEPT !.failures = @ + 1])
                         \* cached_detail: no page was stored after all, and the run ends here.
                         [] page = Unlisted -> [tried EXCEPT !.status = "aborted", !.todo = <<>>]
                         [] PageFiles[page] = <<>> ->
                              [Visited(tried, counts) EXCEPT !.synced = @ \cup {Project}]
                         [] OTHER -> [tried EXCEPT !.files = PageFiles[page]]]

\* sync_file, and sync_metadata, which wants the digest of the artifact too: a stored blob is taken as it is; a
\* fetched one is verified as it is stored.
FetchBlob(artifact, digest, fetches) ==
    CASE BadDigest \in {artifact, digest} -> "failures"
      [] prefetch.blobs[digest] # "absent" -> "cached"
      [] fetches -> "fetched"
      [] OTHER -> "failures"

\* A plausible slip: a failed sibling is reported in its row and not counted.
CountedIfArtifact(counts, outcome) ==
    IF outcome = "failures" THEN counts ELSE [counts EXCEPT ![outcome] = @ + 1]

Counted(counts, outcome) == [counts EXCEPT ![outcome] = @ + 1]

StoredNow(blobs, digest, outcome) ==
    IF outcome = "fetched" THEN [blobs EXCEPT ![digest] = "whole"] ELSE blobs

\* sync_files, one file: its metadata sibling, then the artifact.
SyncFile(siblingFetches, artifactFetches) ==
    /\ Running # NoCommand /\ Running.command = "sync" /\ Running.files # <<>>
    /\ LET file == Head(Running.files)
           reason == FileDecision(file, Running.rules, Project, Running.filters)
           sibling == IF file.metadata = NoDigest THEN "none" ELSE FetchBlob(file.digest, file.metadata, siblingFetches)
           withSibling == IF sibling = "none" THEN Running.counts ELSE Counted(Running.counts, sibling)
           blobs == IF sibling = "none" THEN prefetch.blobs ELSE StoredNow(prefetch.blobs, file.metadata, sibling)
           artifact == IF Running.filters.metadata_only THEN "skipped" ELSE FetchBlob(file.digest, file.digest, artifactFetches)
           counts == IF reason # "" THEN [Running.counts EXCEPT !.skipped = @ + 1]
                     ELSE Counted(withSibling, artifact)
           left == [Running EXCEPT !.files = Tail(@), !.counts = counts]
       IN  prefetch' = [prefetch EXCEPT
               !.blobs = IF reason # "" THEN @ ELSE StoredNow(blobs, file.digest, artifact),
               !.run = IF Tail(Running.files) # <<>> THEN left
                       ELSE [Visited(left, counts) EXCEPT !.synced = @ \cup {Project}]]

\* verify_blob over the files of one cached page.
Checked(files) ==
    {f \in ToSet(files) : FileDecision(f, Running.rules, Project, Running.filters) = ""}

Verify ==
    /\ Running # NoCommand /\ Running.command = "verify" /\ Running.todo # <<>>
    /\ LET page == prefetch.pages[Project]
           wanted == IF page = Unlisted THEN {}
                     ELSE {f.digest : f \in Checked(PageFiles[page])}
                            \cup ({f.metadata : f \in Checked(PageFiles[page])} \ {NoDigest})
           bad == {d \in wanted : d = BadDigest \/ prefetch.blobs[d] # "whole"}
       IN  prefetch' = [prefetch EXCEPT !.run =
               [Visited(Running, [Running.counts EXCEPT
                    !.failures = @ + IF page = Unlisted THEN 1 ELSE Cardinality(bad)])
                EXCEPT !.problems = @ \cup {<<Project, d>> : d \in bad}
                           \cup IF page = Unlisted THEN {<<Project, Unlisted>>} ELSE {}]]

\* The summary and the exit status: a failure or a problem is an error.  What
\* the counts were matters no more.
FinishCommand ==
    /\ Running # NoCommand /\ Running.todo = <<>>
    /\ LET failed == Running.status = "aborted" \/ Running.counts.failures > 0 IN
       prefetch' = [prefetch EXCEPT !.run = NoCommand,
           !.ended = [Running EXCEPT !.counts = NoCounts, !.status = IF failed THEN "error" ELSE "ok"]]

\* The command is killed; what it stored stays.
KillCommand ==
    /\ Running # NoCommand
    /\ prefetch' = [prefetch EXCEPT !.run = NoCommand,
                                   !.ended = [command |-> Running.command, status |-> "killed"]]

UpstreamChanges(p, answer) ==
    /\ prefetch.changes < MaxUpstreamChanges
    /\ answer # prefetch.upstream[p]
    /\ prefetch' = [prefetch EXCEPT !.upstream[p] = answer, !.changes = @ + 1]

\* A stored blob rots on disk, or is removed, between two commands.
Rot(d, form) ==
    /\ Running = NoCommand /\ prefetch.rot < MaxRot /\ prefetch.blobs[d] = "whole"
    /\ prefetch' = [prefetch EXCEPT !.blobs[d] = form, !.rot = @ + 1]

PrefetchNext ==
    \/ \E command \in {"plan", "sync", "verify"}, options \in Requests :
           \/ \E offline \in BOOLEAN : BeginCommand(command, options, offline) \/ Refuse(command, options, offline)
           \/ \E errors \in BOOLEAN : OciCommand(command, options, errors)
    \/ Plan
    \/ \E fresh, servable \in BOOLEAN : Materialize(fresh, servable)
    \/ \E s, a \in BOOLEAN : SyncFile(s, a)
    \/ Verify
    \/ FinishCommand
    \/ KillCommand
    \/ \E p \in DOMAIN UpstreamPages : \E answer \in UpstreamPages[p] : UpstreamChanges(p, answer)
    \/ \E d \in KnownDigests, form \in {"damaged", "absent"} : Rot(d, form)

--------------------------------
(* The properties. *)

Ended == prefetch.ended
Synced == Ended.command = "sync" /\ "synced" \in DOMAIN Ended
Verified == Ended.command = "verify" /\ "selected" \in DOMAIN Ended

\* A sync that ends well has stored, for each project it synced, every selected file and sibling of the page it
\* stored: nothing it failed to fetch is passed over in silence, and what had been removed before is there again, if
\* nothing was lost since it began.  Only a blob damaged before, which sync does not read, may not be whole.
SyncedIsStored ==
    Synced /\ Ended.status = "ok" /\ Ended.rot = prefetch.rot /\ Running = NoCommand =>
        \A p \in Ended.synced : \A f \in ToSet(PageFiles[prefetch.pages[p]]) :
            FileDecision(f, Ended.rules, p, Ended.filters) = "" =>
                \A d \in ({f.metadata} \ {NoDigest}) \cup (IF Ended.filters.metadata_only THEN {} ELSE {f.digest}) :
                    prefetch.blobs[d] # "absent" /\ (prefetch.rot = 0 => prefetch.blobs[d] = "whole")

\* A verify that ends well read every selected project: each has a page, and every selected file and sibling of it
\* is there and whole, whatever was damaged, removed or fetched again before it began.
VerifiedIsWhole ==
    Verified /\ Ended.status = "ok" /\ Ended.rot = prefetch.rot =>
        \A p \in Ended.selected :
            /\ prefetch.pages[p] # Unlisted
            /\ Running = NoCommand => \A f \in ToSet(PageFiles[prefetch.pages[p]]) :
                 FileDecision(f, Ended.rules, p, Ended.filters) = "" =>
                     \A d \in {f.digest, f.metadata} \ {NoDigest} : prefetch.blobs[d] = "whole"

\* Requirement files may include each other, in a circle too and under several spellings: when they can all be read,
\* the selectors are those of the files that can be reached from the ones named, wherever they lie, and they are
\* read, and the reading ends, whenever no path goes through "..".
ReachableFiles(paths) ==
    LET Nested(f) == {Location(Front(f), PathParts[l[2]]) :
                        l \in {m \in ToSet(RequirementFiles[f]) : m # <<>> /\ m[1] \in Includes}}
        Close[n \in 0..Cardinality(DOMAIN RequirementFiles)] ==
            IF n = 0 THEN {Location(WorkingDir, PathParts[p]) : p \in ToSet(paths)}
            ELSE Close[n - 1] \cup UNION {Nested(f) : f \in Close[n - 1] \cap DOMAIN RequirementFiles}
    IN  Close[Cardinality(DOMAIN RequirementFiles)]

RequirementsAreRead ==
    \A options \in Requests :
        LET read == RequirementSelectors(options.requirements)
            files == ReachableFiles(options.requirements)
            lines == {RequirementLine(l) : l \in UNION {ToSet(RequirementFiles[f]) :
                                                            f \in files \cap DOMAIN RequirementFiles}} \ {<<>>}
            spelled == ToSet(options.requirements) \cup {l[2] : l \in {m \in lines : m[1] \in Includes}}
        IN  /\ read.ok => /\ files \subseteq DOMAIN RequirementFiles
                         /\ ToSet(read.selectors) = {l \in lines : l[1] \notin Includes \cup {"--index-url"}}
            /\ files \subseteq DOMAIN RequirementFiles /\ (\A p \in spelled : ~Contains(PathParts[p], "..")) => read.ok

\* What a prefetch command reports is so.
MirrorsAreSound ==
    /\ SyncedIsStored
    /\ VerifiedIsWhole
    /\ RequirementsAreRead

\* Not met by the code: a sync that could not reach upstream for a project ends
\* in an error (dispatch.rs: an error when "upstream access fails").
OutagesAreReported ==
    Synced /\ Ended.status = "ok" => Ended.down = {}

\* Not met by the code: what a sync stored with some options, a verify with the
\* same options accepts (cli.md: "`sync` stores it; `verify` checks").
SyncThenVerify ==
    Running # NoCommand /\ Running.command = "verify" /\ prefetch.rot = 0 /\ prefetch.changes = 0
        /\ Synced /\ Ended.status = "ok" /\ Ended.options = Running.options
            => Running.problems = {}

\* Not met by the code: plan writes no cache record (cli.md: "`plan` prints the
\* selection without writing cache records"); in mode "all" it stores a catalog.
PlanWritesNothing ==
    [][prefetch'.run # NoCommand /\ prefetch'.run.command = "plan"
         => <<prefetch.catalog, prefetch.pages, prefetch.blobs>>' = <<prefetch.catalog, prefetch.pages, prefetch.blobs>>]_prefetch
================================

---------------- MODULE Metrics ----------------
(* Usage counters (peryx-events/src/metrics.rs, peryx-http handlers/usage.rs, *)
(* peryx-storage meta/analytics.rs).  Handlers send events down a channel; one *)
(* thread takes them in batches, folds them into a tree index -> project ->    *)
(* file under a write lock, saves the per-file downloads, then folds the       *)
(* batch's downloads into daily buckets, drops the buckets past the retention  *)
(* and saves those.  Saves may fail, and the thread is never joined: a stop    *)
(* loses what is queued or unsaved.  A start restores both documents.          *)
(*                                                                            *)
(* The counters of a node are a bag of counter names.  The last five fields    *)
(* of `usage' are history: which events the tree, the buckets and the two      *)
(* saved documents stand for.                                                  *)
EXTENDS Integers, Sequences, Bags, BagsExt, FiniteSets, FiniteSetsExt

CONSTANTS MetricEvents,    \* what a handler may record
          IndexRows,       \* the configured indexes: route, ecosystem, role
          FamilyRows,      \* the drivers' counter families: ecosystem, key, roles
          RetentionDays,   \* usage_retention_days, or Forever
          Forever,
          FirstDocuments,  \* what the two saved documents may be at the first start
          MaxDownloads, MaxOthers, MaxDay, MaxStops, MaxSaveErrors

VARIABLE usage

--------------------------------
(* The tree. *)

\* An amount of a counter, as a bag; none of it is the empty bag.
Amount(counter, n) == IF n = 0 THEN EmptyBag ELSE [c \in {counter} |-> n]

CountOf(counters, counter) == CopiesIn(counter, counters)

NodeAt(tree, node) == IF node \in DOMAIN tree THEN tree[node] ELSE EmptyBag

\* The nodes an event counts at: its index; its project, unless it is about the
\* whole catalog; its file, when a download or a driver's counter names one.
EventNodes(e) ==
    {<<e.route>>}
        \cup (IF e.kind = "catalog" THEN {} ELSE {<<e.route, e.project>>})
        \cup (IF e.kind \in {"download", "ecosystem"} /\ e.file # ""
              THEN {<<e.route, e.project, e.file>>} ELSE {})

\* What one event adds at each of them.
EventAmounts(e) ==
    CASE e.kind = "page"      -> Amount("pages", 1)
      [] e.kind = "download"  -> Amount("downloads", 1) (+) Amount("bytes", e.bytes)
      [] e.kind = "ecosystem" -> Amount(e.family, 1)
      [] e.kind = "upload"    -> Amount("uploads", 1)
      [] e.kind = "refresh"   -> Amount("refreshes", 1)
                                     (+) Amount("changed", IF e.changed THEN 1 ELSE 0)
      [] e.kind = "stale"     -> Amount("stale_served", 1)
      [] e.kind = "error"     -> Amount("upstream_errors", 1)
      [] e.kind = "rejected"  -> Amount("rejected", 1)
      [] e.kind = "catalog"   -> Amount("catalog_syncs", 1) (+) Amount(e.outcome, 1)

\* A catalog synchronisation also sets the number of projects, when it knows it.
WithProjects(counters, e) ==
    IF e.kind # "catalog" \/ e.projects = Forever THEN counters
    ELSE [c \in DOMAIN counters \ {"catalog_projects"} |-> counters[c]]
             (+) Amount("catalog_projects", e.projects)

Apply(tree, e) ==
    [n \in DOMAIN tree \cup EventNodes(e) |->
        IF n \in EventNodes(e) THEN WithProjects(NodeAt(tree, n) (+) EventAmounts(e), e)
        ELSE tree[n]]

\* The durable slice: a row for each file of the tree.
SnapshotDownloads(tree) ==
    {[node |-> n, downloads |-> CountOf(tree[n], "downloads"),
      bytes |-> CountOf(tree[n], "bytes")] : n \in {m \in DOMAIN tree : Len(m) = 3}}

PathsTo(node) == {SubSeq(node, 1, k) : k \in 1..Len(node)}

\* Every row adds to its file, its project and its index.
RestoreDownloads(rows) ==
    [n \in UNION {PathsTo(r.node) : r \in rows} |->
        LET under == {r \in rows : n \in PathsTo(r.node)} IN
        Amount("downloads", MapThenSumSet(LAMBDA r : r.downloads, under))
            (+) Amount("bytes", MapThenSumSet(LAMBDA r : r.bytes, under))]

--------------------------------
(* The daily buckets. *)

NoBuckets == <<>>

\* A download's bucket, dated when the aggregator takes the event.
CollectDaily(e, day, id) ==
    IF e.kind # "download" THEN <<>>
    ELSE << [key |-> [day |-> day, repository |-> e.route, project |-> e.project,
                      version |-> e.version, source |-> e.source],
             bytes |-> e.bytes, id |-> id] >>

\* The batch's downloads added to their buckets, in one go.
FoldDaily(daily, batch) ==
    LET keys == {batch[i].key : i \in DOMAIN batch}
        Of(k) == {i \in DOMAIN batch : batch[i].key = k}
        Old(k) == IF k \in DOMAIN daily THEN daily[k] ELSE [downloads |-> 0, bytes |-> 0]
    IN  [k \in DOMAIN daily \cup keys |->
            [downloads |-> Old(k).downloads + Cardinality(Of(k)),
             bytes |-> Old(k).bytes + MapThenSumSet(LAMBDA i : batch[i].bytes, Of(k))]]

\* The first day that is kept on a day.
FirstDayKept(today) == today - RetentionDays

\* A plausible slip: the last day that should be kept goes too.
ExpireEarly(daily, today) ==
    IF RetentionDays = Forever THEN daily
    ELSE [k \in {j \in DOMAIN daily : j.day > FirstDayKept(today)} |-> daily[k]]

ExpireDaily(daily, today) ==
    IF RetentionDays = Forever THEN daily
    ELSE [k \in {j \in DOMAIN daily : j.day >= FirstDayKept(today)} |-> daily[k]]

--------------------------------
(* The aggregator thread. *)

RecordedEvents == 1..Len(usage.log)
IsDownload(id) == usage.log[id].kind = "download"

\* A document the start can read; any other (absent, malformed, of another
\* schema) counts as empty.
Readable(document) == document.form = "rows"

SavedRows(rows) == [form |-> "rows", rows |-> rows]

\* spawn: both documents restored, expired daily rows dropped before any reader.
Started(files, buckets, today) ==
    [tree  |-> IF Readable(files) THEN RestoreDownloads(files.rows) ELSE << >>,
     daily |-> ExpireDaily(IF Readable(buckets) THEN buckets.rows ELSE NoBuckets, today)]

MetricsInit ==
    \E files \in FirstDocuments, buckets \in FirstDocuments :
        usage = [log |-> <<>>, queue |-> <<>>, phase |-> "idle",
                 batch |-> <<>>, dirty |-> FALSE, day |-> 0,
                 tree |-> Started(files, buckets, 0).tree,
                 daily |-> Started(files, buckets, 0).daily,
                 files |-> files, buckets |-> buckets, stops |-> 0, errors |-> 0,
                 inTree |-> {}, inFiles |-> {}, inDaily |-> {}, inBuckets |-> {},
                 dated |-> <<>>, swept |-> 0]

\* Metrics::record: one send, never blocked.
Record(e) ==
    /\ LET same == {i \in RecordedEvents : IsDownload(i) = (e.kind = "download")} IN
       Cardinality(same) < IF e.kind = "download" THEN MaxDownloads ELSE MaxOthers
    /\ usage' = [usage EXCEPT !.log = Append(@, e),
                              !.queue = Append(@, Len(usage.log) + 1),
                              !.dated = Append(@, 0)]

\* recv, or try_recv while the tree is locked: the event dated and applied.
Aggregate ==
    /\ usage.phase \in {"idle", "locked"}
    /\ usage.queue # <<>>
    /\ LET id == Head(usage.queue)
           e == usage.log[id]
       IN  usage' = [usage EXCEPT !.queue = Tail(@), !.phase = "locked",
                         !.tree = Apply(@, e),
                         !.batch = @ \o CollectDaily(e, usage.day, id),
                         !.dated[id] = usage.day,
                         !.dirty = @ \/ e.kind = "download",
                         !.inTree = @ \cup {id}]

\* try_recv finds nothing: the lock is released.  A batch without a download is
\* over; otherwise the snapshot taken under the lock is to be saved.
Drained ==
    /\ usage.phase = "locked"
    /\ usage.queue = <<>>
    /\ usage' = [usage EXCEPT !.phase = IF usage.dirty THEN "save" ELSE "idle"]

\* store.save: the whole table row is replaced, or the error is dropped.
Save(ok) ==
    /\ usage.phase = "save"
    /\ ok \/ usage.errors < MaxSaveErrors
    /\ usage' = [usage EXCEPT !.phase = "fold",
                     !.files = IF ok THEN SavedRows(SnapshotDownloads(usage.tree)) ELSE @,
                     !.inFiles = IF ok THEN usage.inTree ELSE @,
                     !.errors = IF ok THEN @ ELSE @ + 1]

\* The daily lock: the batch folded in and the old days dropped.
Fold ==
    /\ usage.phase = "fold"
    /\ usage' = [usage EXCEPT !.phase = "save daily", !.batch = <<>>, !.dirty = FALSE,
                     !.daily = ExpireDaily(FoldDaily(@, usage.batch), usage.day),
                     !.inDaily = @ \cup {usage.batch[i].id : i \in DOMAIN usage.batch},
                     !.swept = usage.day]

SaveDaily(ok) ==
    /\ usage.phase = "save daily"
    /\ ok \/ usage.errors < MaxSaveErrors
    /\ usage' = [usage EXCEPT !.phase = "idle",
                     !.buckets = IF ok THEN SavedRows(usage.daily) ELSE @,
                     !.inBuckets = IF ok THEN usage.inDaily ELSE @,
                     !.errors = IF ok THEN @ ELSE @ + 1]

NextDay ==
    /\ usage.day < MaxDay
    /\ usage' = [usage EXCEPT !.day = @ + 1]

\* The process stops, cleanly or not (nobody waits for the thread), and starts
\* again: what was queued, or in memory and not saved, is gone.
Restart ==
    /\ usage.stops < MaxStops
    /\ LET started == Started(usage.files, usage.buckets, usage.day) IN
       usage' = [usage EXCEPT !.stops = @ + 1, !.queue = <<>>, !.phase = "idle",
                     !.batch = <<>>, !.dirty = FALSE,
                     !.tree = started.tree, !.daily = started.daily,
                     !.inTree = {i \in usage.inFiles : IsDownload(i)},
                     !.inDaily = usage.inBuckets, !.swept = usage.day]

MetricsNext ==
    \/ \E e \in MetricEvents : Record(e)
    \/ Aggregate
    \/ Drained
    \/ \E ok \in BOOLEAN : Save(ok) \/ SaveDaily(ok)
    \/ Fold
    \/ NextDay
    \/ Restart

--------------------------------
(* What readers are shown. *)

TotalsOf(tree, route) == NodeAt(tree, <<route>>)

\* ecosystem_summaries: the indexes of an ecosystem rolled up.
SummaryOf(tree, ecosystem, counter) ==
    MapThenSumSet(LAMBDA row : CountOf(TotalsOf(tree, row.route), counter),
                  {row \in IndexRows : row.ecosystem = ecosystem})

\* prometheus_totals: rolled up by ecosystem and role, with merge_counters.
PrometheusOf(tree, ecosystem, role, counter) ==
    MapThenSumSet(LAMBDA row : CountOf(TotalsOf(tree, row.route), counter),
                  {row \in IndexRows : row.ecosystem = ecosystem /\ row.role = role})

\* The neutral families and the role each is scoped to.
FamilyRole(counter) ==
    CASE counter \in {"pages", "downloads", "bytes", "rejected"} -> "any"
      [] counter = "uploads" -> "hosted"
      [] OTHER -> "cached"

NeutralCounters == {"pages", "downloads", "bytes", "rejected", "refreshes", "changed",
                    "stale_served", "upstream_errors", "catalog_syncs", "published",
                    "not_modified", "sync_error", "catalog_projects", "uploads"}

\* The samples of GET /metrics: ecosystem, role, counter, value.
Samples(tree) ==
    LET groups == {<<row.ecosystem, row.role>> : row \in IndexRows}
        Neutral == {<<g, c>> \in groups \X NeutralCounters : FamilyRole(c) \in {"any", g[2]}}
        Driver == {<<g, f>> \in groups \X FamilyRows : f.ecosystem = g[1] /\ g[2] \in f.roles}
    IN  {[group |-> x[1], counter |-> x[2],
          value |-> PrometheusOf(tree, x[1][1], x[1][2], x[2])] : x \in Neutral}
            \cup {[group |-> x[1], counter |-> x[2].key,
                   value |-> PrometheusOf(tree, x[1][1], x[1][2], x[2].key)] : x \in Driver}

\* drill: the children a reader is shown below a node.
Drill(tree, node) == {n \in DOMAIN tree : Len(n) = Len(node) + 1 /\ node \in PathsTo(n)}

--------------------------------
(* The properties. *)

MetricsTypeOK ==
    /\ usage.phase \in {"idle", "locked", "save", "fold", "save daily"}
    /\ \A n \in DOMAIN usage.tree : IsABag(usage.tree[n]) /\ Len(n) \in 1..3
    /\ usage.inFiles \cup usage.inDaily \cup usage.inBuckets \cup usage.inTree \subseteq RecordedEvents

\* The recorded downloads under a node, out of a set of events.
Under(ids, node) ==
    {i \in ids : IsDownload(i) /\ node \in EventNodes(usage.log[i])}

BytesOf(ids) == MapThenSumSet(LAMBDA i : usage.log[i].bytes, ids)

\* A download is counted at its file, its project and its index exactly once,
\* through any number of stops: each node shows the downloads and bytes the
\* tree stands for, and a project's add up to its index's.
TreeIsExact ==
    \A n \in DOMAIN usage.tree :
        /\ CountOf(usage.tree[n], "downloads") = Cardinality(Under(usage.inTree, n))
        /\ CountOf(usage.tree[n], "bytes") = BytesOf(Under(usage.inTree, n))
        /\ Len(n) = 1 =>
             \A c \in {"downloads", "bytes", "pages", "uploads", "rejected"} :
                 CountOf(usage.tree[n], c) =
                     MapThenSumSet(LAMBDA m : CountOf(usage.tree[m], c), Drill(usage.tree, n))

\* A bucket shows the downloads of its day and labels that were folded in; no
\* bucket outlives the retention at the last sweep, and none goes before it.
DailyIsExact ==
    LET live == {i \in usage.inDaily :
                    RetentionDays = Forever \/ usage.dated[i] >= FirstDayKept(usage.swept)}
        KeyOf(i) == CollectDaily(usage.log[i], usage.dated[i], i)[1].key
    IN  /\ DOMAIN usage.daily = {KeyOf(i) : i \in live}
        /\ \A k \in DOMAIN usage.daily :
             LET ids == {i \in live : KeyOf(i) = k} IN
             usage.daily[k] = [downloads |-> Cardinality(ids), bytes |-> BytesOf(ids)]

\* With no failed save, a stop never leaves a day counting a download that the
\* all-time totals lack: they are saved first.
TotalsCoverDays == usage.errors = 0 => usage.inBuckets \subseteq usage.inFiles

\* A batch whose saves succeeded is durable when the aggregator waits again.
RestIsDurable ==
    usage.phase = "idle" /\ usage.errors = 0
        => /\ {i \in usage.inTree : IsDownload(i)} \subseteq usage.inFiles
           /\ usage.inDaily = usage.inBuckets

\* The roll-ups of /+status and of /metrics agree on what was served: no index
\* is left out of one, or counted in two groups of the other.
ReadersAgree ==
    usage.phase = "idle" /\ usage.inTree # {} =>
        LET samples == Samples(usage.tree) IN
        \A e \in {row.ecosystem : row \in IndexRows}, c \in {"pages", "downloads", "bytes", "rejected"} :
            SummaryOf(usage.tree, e, c) =
                MapThenSumSet(LAMBDA s : s.value,
                    {s \in samples : s.group[1] = e /\ s.counter = c})

\* Usage counters are exact, at every level, for every reader and across stops:
\* a download the process saved is counted once in the totals and once in its
\* day, and one it had not saved is in neither.
MetricsAreExact ==
    MetricsTypeOK /\ TreeIsExact /\ DailyIsExact /\ TotalsCoverDays /\ RestIsDurable /\ ReadersAgree

\* Not met by the code: an upload through a virtual index is counted at the
\* virtual route, which /metrics leaves out of the hosted family.
UploadsAreExported ==
    usage.phase # "locked" =>
        \A row \in IndexRows :
            SummaryOf(usage.tree, row.ecosystem, "uploads") =
                MapThenSumSet(LAMBDA s : s.value,
                    {s \in Samples(usage.tree) : s.group[1] = row.ecosystem /\ s.counter = "uploads"})
================================

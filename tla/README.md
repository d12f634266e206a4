# A TLA+ model of peryx

peryx (repository velodex) is a package registry and read-through cache for PyPI and OCI.  This directory models the
parts of it in which several actors, several transactions or several failures meet, and those in which data passes
through so many rules that a test reaches few of the combinations.  TLC checks the models on small instances; TLAPS
proves the central properties for every instance.

`PROJECT.json` is the machine-readable index: components, runs, the source lines each definition stands for, a mutant
for every checked property, the hazards, the findings and the theorems.

## 1. The system

One process serves HTTP, keeps metadata in a redb file and bodies in a content-addressed blob store (files or S3).

| Component | State | Operations | Talks to |
| --- | --- | --- | --- |
| Metadata store, journal (`peryx-storage/src/meta`) | rows, journal, serial | `commit_driver_txn`, `commit_replica_txn`, `journal_snapshot` | everything |
| Hosted PyPI store (`store/uploads.rs`, `upload.rs`, `cache/mutate.rs`) | upload, override and provenance rows | upload, promote, yank, trash, restore, hide | store, blobs, journal |
| Archives (`archive/`, `peryx-storage/src/archive`) | none | check an sdist or a wheel, list nested archives, page a member | uploads, inspector |
| Journal replication (`peryx-replication`, `peryx/src/replication.rs`) | cursor, copied journal, health record | `sync_once`, polling loop, status | a primary over HTTP |
| Project catalog (`catalog.rs`, `store/projects.rs`) | generation pointer, reservation, name rows | sync, publish, abort, recover, list | upstream, store |
| Project page cache (`cache/*`, `serving/get.rs`, `stream/*`, `simple/*`) | body and freshness rows, hot and negative caches, epochs | stream, transform, resolve, revalidate, sweep | upstream, hosted layers, gates |
| Single flight (`peryx-index/src/serving.rs`) | gates and their user counts | register, lock, retire, drop | page cache, downloads |
| File downloads (`cache/download.rs`, `peryx-driver/src/download.rs`) | registry of transfers, stage files | stream, inspect, pump, tail | upstream, blob store |
| Blob store (`blob/store.rs`, `blob/backend.rs`, `blob/s3`) | blobs, stages, leases | begin, write, commit, abort, materialize, scan, multipart upload | filesystem or S3 |
| Quotas (`meta/quota.rs`) | reservations and counters | reserve, commit, release, repair | store |
| Webhooks (`meta/webhook.rs`, `peryx-events/src/webhook`) | outbox, due index, one loop | emit, deliver, retry, prune | HTTP targets |
| Jobs (`peryx-driver/src/jobs`, `meta/job.rs`) | in-flight keys, permits, run records | submit, run, cancel, shutdown | store, any maintenance |
| Rate limits (`rate_limit.rs`) | windows per actor, upstream permits | classify, check, acquire | every request |
| Identity (`peryx-identity`, `users.rs`, `meta/user.rs`) | accounts, verifiers, grants, key and replay caches | exchange, login, enroll, grant, authorize | every request |
| Policy (`peryx-policy`, `meta/policy_decision.rs`) | decision log | evaluate, preview, record, query | listings, downloads, uploads |
| OCI registry (`peryx-ecosystem-oci/src/registry`) | upload sessions, manifests, tags, membership, mirrored tags | push, pull, mount, delete, list, mirror | blobs, store, upstream |
| Upstream client (`peryx-upstream`) | source health, range support | fetch with retries and failover | the network |
| Configuration, commands (`peryx/src/config`, `server.rs`, `operator/*`, `prefetch`) | snapshot, writer's claim, data directory | resolve, start, backup, verify, restore, plan, sync | everything, at its start |
| Metrics (`peryx-events/src/metrics.rs`) | drill-down tree, daily buckets | record, drain, save, restore, export | every request |

Search, the web interface and the benchmarks are listed in section 6.

What is hard here, and what the properties are for:

- **several transactions for one change**: a catalog is published in batches, a webhook is queued after its change, a
  download is renamed before its verdict, a push writes row by row; a process may stop, or another actor may look,
  between any two;
- **concurrent actors on one key**: requests, background revalidations, the maintenance sweep and uploads work on one
  page; callers of one missing key share one fetch; two callers of `sync_once` share one replica; two writers commit one
  digest;
- **values read early and used late**: hot-cache keys with an epoch, expiry read after rendering, a cursor read before
  a page is fetched, a registry asked after the store, the time of a token exchange, a batch of deliveries;
- **failure of one step of several**: a transfer that breaks off, a store write that fails, a job that panics, a client
  that goes away while it holds a gate, an answer that is lost after it took effect, a command that is killed;
- **order of data**: keys of an upstream page, checks of an upload, layers of a configuration, rules of a policy.

## 2. Modules

A component has a module: its state, one action per operation or atomic step, its properties.  Components that share no
state are put into one instance for TLC by an `MC...` module: a variable `part` is chosen in the first state and never
changes, a behaviour runs the actions of that part, and everything else stays where it starts.  Such a run checks each
part as a run of its own would; its states are the sum of theirs, not the product.  Definitions named after a bug and
marked "Mutant" belong to no specification: each is an altered form of the definition below it, and shows that a
property notices the alteration.

| Module | Models | What is one step |
| --- | --- | --- |
| `Replication` | a primary with every journalled hosted mutation, the orphan purge, restore from a backup; a replica's `sync_once`; the loop's health record | a redb transaction, a page request, its validation, each blob copy, the guarded commit |
| `Generations` | reserve, stage in batches, publish, abort, recover, sweep; the per-index lock; the two-transaction read | every transaction; the process may stop between any two |
| `SingleFlight` | gates of one key, with the three-step drop and early retirement | each atomic operation on the map, the count and the mutex |
| `Webhook` | emit, the due index, the delivery loop with its notify permit, backoff, terminal states, restart, changed configuration | every transaction, every POST, every check of the running flag |
| `Quota`, `QuotaLedger` | the counters row by row; the ledger of live allocations they implement | every operation, one write transaction |
| `JobScheduler` | `submit`, permits in their order, cancellation, shutdown with its timeout, panics, run records | each lock and each record write |
| `PageCache` | one project page: hot cache with epochs, freshness, stale answers, live stream, buffered path, revalidation, sweep, remembered 404s, uploads | each store access, upstream answer, cache write and epoch bump |
| `PageTransform`, `SimpleApi` | the streaming rewriter of a page against the buffered path; files, HTML and legacy JSON forms | a symbol of the upstream's page |
| `FileDownload` | clients of one file, the connect gate, the registry, the pump, the tail of its stage | each await point of clients and pump |
| `BlobStore`, `S3Store` | batched writes, commits, leases, collection, crashes; puts, parts, retries, lost answers, ranged reads | each file operation; each request to the object store |
| `Upstream` | route of a project, permits, retries, statuses, fallbacks; ranged metadata reads | a request |
| `HostedFiles` | racing uploads, promotions, yanks, deletes, restores of a hosted index in front of a cached one, whose layer may be left out of a page | each transaction and each await |
| `PublishForm`, `Archives`, `Checks` | the upload form part by part, its validation; members of sdists and wheels, nested archives, pages of text | a part of the form, a member, a page |
| `OciRegistry` | the hosted OCI repositories: shared manifests and blobs, membership, tag and referrer rows; pushes, mounts, deletes, restart with purge | each row a push writes; each read, scan and write of a delete by digest |
| `OciUploads`, `OciProxy`, `OciDiscovery` | upload sessions; proxied tags, reads by digest, the membership cache; bearer tokens, tag pages and lists, the mirror | each access to the session map or the store, each upstream answer |
| `RateLimit` | classes of requests, the client behind proxies, windows and eviction | reading the clock, taking a bucket's lock |
| `TrustedPublishing`, `UserAccounts`, `Access` | token exchange with key and replay caches; accounts, logins, roles; globs, grants, ACLs of hosted, cached and virtual indexes, tokens of the OCI registry | each wait of an exchange or login, each transaction; an iteration of the glob loop |
| `Policy` | rules in their order, on pages, uploads and downloads (a download is judged by the name of its file), previews, the decision log with generations, pruning, paging | an evaluation, a record, a query |
| `Configuration` | layers, secrets, the snapshot, what a start builds and refuses, the writer's claim | a start |
| `Operator` | backup, verify, restore, media that fail, commands that are killed | each copied file or record |
| `Prefetch` | plan, sync and verify of a mirror, selectors and the requirements files that name each other | each file of a command |
| `Metrics` | the aggregator, its tree, daily buckets, saves, restarts, readers | a drained batch, each save |

`MCReplication`, `MCPageCache` and `MCOciRegistry` add symmetry and small data to one module; `MCWaiting` joins
`Generations` and `SingleFlight`, `MCAccounting` joins `Quota` and `JobScheduler`; `MCContent` and `MCFront` join the
rest.  Names follow the source; comments name the function where they differ.

Abstractions worth knowing:

- `Replication`: a serial is a position in the journal.  The metadata sibling of an artifact is represented by its
  provenance row (both are keyed by the artifact and replaced by a later upload).  Two `Followers` stand for two
  callers of the public `sync_once`; the shipped loop has one.
- `Generations`: the same protocol serves project files (`sync_project_files`); the model is of the catalog.
- `Webhook`: the host's clock never goes backwards; signing and payloads are left out.
- `Quota`: one counter width `MaxCount` stands for u64; `site/content` says uploads do not call the quota functions
  yet, so every order of calls is allowed.
- `JobScheduler`: job metrics are left out; the timer that submits jobs is not modelled, any thread may submit.
- `PageCache`: two variables are history, `unstored` (keys of streamed pages whose commit failed) and `lapses` (whether
  a page was committed without its gate, or a rendering kept until another page expires): they name the exceptions of
  the two properties.  `get_index` (body and freshness row of one read transaction) is one read; eviction by size and process
  restarts only empty caches and are left out; `Background` bounds how many revalidations run at once.
- `SingleFlight`: one key; a gate that nobody refers to may be used again for a new allocation, so callers plus one
  gates are as good as any number.
- `OciRegistry`: each of the three scans for references is one read; the code lists keys and then reads their values.
  A blob's presence and its membership row are one read, because blobs only go while the server is down.  Two
  conflicting requests mark the manifest as `torn`, which no code does: it names the exception of a property.  A digest
  that is stored both as a blob and as a manifest counts as two, because the two stores never ask each other.
- `FileDownload`: a body is a number of chunks and either has the expected digest or not; blobs are not deleted
  meanwhile.  `StartFails` also stands in for a start beyond `MaxTransfers`.
- `HostedFiles`: a cached layer that cannot be reached is left out, which is what the mode `fallback` does; the other
  modes, in which the request fails, are not modelled.
- `Access`: a name is a sequence of characters, so that routes can be prefixes of names and of each other; in the run
  one route lies inside another.  A virtual index has an ACL of its own and an upload member with another.
- `Prefetch`: a path of a requirements file is the sequence of its components, as `PathBuf` compares them, apart from
  the place it leads to; `MaxPath` is the length beyond which the system opens none.
- `TrustedPublishing`: signatures are opaque.  The replay map lives as long as the process, and so does a behaviour:
  what it promises is promised within one process.
- `PublishForm`, `Configuration`, `PageTransform`, `Prefetch`: names, versions, filenames, URLs and requirement lines
  are model values with their parsed form given as data; the grammars are not modelled, the rules applied to them are.
- `Metrics`, `PageCache`, `Policy`, `TrustedPublishing`: some variables are history the code does not keep; their comments say so.

## 3. Runs

| Run | Shows | Bounds and why they are enough |
| --- | --- | --- |
| `replication` | `TypeOK`; `SnapshotAtSerial`: the replica is the primary's snapshot at its serial; `BlobsBeforeMetadata`; `HealthSound`, also after the primary came back from an older backup; `PromotableJournal`; `AppliesForward`: copies only grow | one follower (two are in the next run and in the theorems), two files, one override, four serials and pages of two: a page can end inside a multi-file commit; a purge in every gap; one fault, one restore |
| `replication_followers` | `CatchesUp`: two callers of `sync_once`, an overtaken page is kept out, the replica ends with the primary's rows | three serials, so that pages overlap; a provenance document; one fault |
| `waiting` | `CatalogIsSound`: a published generation is one whole document, no rows are orphaned, no reader lists a foreign name; `OneFetch`, `NoGateLeaks`, `FetchesAreDue`; `NobodyWaitsForever` | batches of one name, three generations, one stop, one reader; two readers, a revalidator and four gates |
| `webhook` | `QueueIsSound`: due index and records agree, attempts are counted honestly; `DeliveriesAreDue`: nothing is sent early or after it settled; `DueIsAttempted`: no wakeup is lost | two changes, two attempts, one failing read, one failing write, one restart with another configuration |
| `accounting` | `AccountsAreExact`: counters and pending index equal a recount, enforced reservations stay within limits, what was admitted can be settled at the width's edge; `RefinesLedger`; `JobsAreSound`: no overlap, exact keys, closed records, no circle of permits, a drained scheduler is idle | three allocations over two projects, versions, digests and sizes, limits of one and two, counters that end at five; three tasks, two workers, one permit per kind and repository, one failing write, one stop |
| `pages` | `PagesAreCurrent`: read your writes; a hot page is the current page | two requests, one revalidation, one sweep, one upload, two page versions, failing writes, disconnects |
| `pages_live` | `BoundedStaleness`: no answer is older than window and `max_stale_secs` while every commit is made under the gate and no rendering was kept until another page expires; `RequestsEnd` | a JSON and an HTML request, a revalidation, two page versions (a page can be replaced between its fetch and its rendering), lifetimes longer than allowed, all faults; no sweep, whose commit would void the promise |
| `downloads` | `TransfersAreSound`: a response that ends normally is the verified file, the stage is never shorter than announced, one transfer at a time, nobody attaches to a failed one; `RequestsEnd` | a streaming and an inspecting client, three chunks with a flush after two, two transfers |
| `registry` | `ImagesAreWhole`: layers that something names are stored; tags, referrers and image indexes name stored manifests; a tag can be pulled to its end | two repositories, an image, an index that names it as child and subject, one layer, one tag, two requests at a time without end, failing writes, restarts, purges; `MaxTorn` = 1 lets one manifest be deleted during its push |
| `content` | `BlobsAreWhole`, `UpstreamIsBounded`, `HostingIsSound`, `ConversationsHold`, `BackupsRestore`, `MetricsAreExact` | two callers of everything; chunks, parts and retries of one; two sources; three hosted writes; one session and one tag, one repository that uploads (a session of another one is met only in the theorem); three commands and two damages; two downloads, a stop and a failing save |
| `front` | `RateBounded`, `TrustIsBounded`, `UsersAreConsistent`, `AccessIsExact`, `PoliciesAreSound`, `DiscoveryIsSound`, `UploadsAreSound`, `ConfigIsSound`, `PagesAreExact`, `MirrorsAreSound` | two callers where callers race; for data, the inputs of `MCFront`: each rule is met alone and with the rules next to it in its order |

`TypeOK` of `Replication` is a property of its run; those of `Generations`, `SingleFlight`, `Webhook`, `Quota`,
`JobScheduler`, `PageCache`, `FileDownload`, `OciRegistry` and `Metrics` are conjuncts of one of theirs or proved.  The constants `Max...` that no
line of the code has bound counters in guards: serials, faults, restores, generations, crashes, time (`...Now`), uploads,
transfers, commands, damages.  `MaxAttempts`, `MaxBackoff`, `MaxFresh`, `MaxStale`, the limits of `Quota` and `Policy`,
`MaxConcurrent`, `MaxRetries`, `MaxContainerDepth`, `MaxMemberChunk` and `MaxBody` are parameters of the code.

One run is expected to fail; it holds a sentence of the repository against the model, and its trace is a finding of
PROJECT.json:

| Run | Sentence | What the model does |
| --- | --- | --- |
| `replication_purge` | "the provenance blob is recorded so a purge keeps it" | the purge reads rows, not the journal; an overwritten provenance row leaves its blob to the collector while a replica still needs it |

Deadlock is checked except where a system that has served all its bounded requests simply stops.

### Fairness

- tasks of the runtime are polled until they end, and calls to upstreams time out: weak fairness of each actor's own
  steps, failure included as an outcome;
- tokio's mutex and semaphore are first-in first-out: strong fairness of taking them;
- clients, operators, uploads, upstream changes, stops and the clock are never assumed to act, except that the clock
  advances in `webhook`, whose promise ends at its horizon `MaxTime`.

### Stronger statements the code does not meet

Sentences of docs and comments that the code does not keep, found while modelling.  Where a definition is named, the
module has it and no run checks it; the properties of the passing runs name the same situation as their exception.  To
see a trace, add the definition to the module's run.

| Statement | Sentence | What the code does |
| --- | --- | --- |
| `FrontierExact` (`Replication`) | a frontier is "the exact prefix of history it reflects" (availability-contracts.md) | the row changes of a transaction sit under its last serial; a page may end before it |
| `ReadersSeeComplete` (`Generations`) | "readers see only the last complete generation" (private-mirror.md) | pointer and rows are read in two transactions; only the separate prefetch process keeps them apart today |
| `EveryChangeQueued` (`Webhook`) | "a crash never drops one" (architecture.md) | deliveries are queued after the change is committed |
| `ConflictMeansInFlight` (`JobScheduler`) | "A run with the same kind and scope is already in flight" (scheduler.rs) | a job that panics skips the removal of its key, which stays until the process restarts |
| `AnsweredIsRegistered` (`PageCache`) | "The hot page goes live only after the persist lands" (page_stream/live.rs) | a failed persist is logged and the page goes live |
| `StreamedIsHot` (`PageCache`) | the transformed body goes into the hot cache (page_stream/mod.rs) | the stream's own commit retires the key it then writes under |
| `RenderedIsCurrent` (`PageCache`, two versions) | "the expiry is that page's, never a new one" (cache/mod.rs) | expiry and epoch are read after the page was resolved |
| `GoneStaysGone` (`PageCache`, `MaxStale` = 4, `MaxTime` = 5, three runs) | the stale page is for an unreachable upstream (configuration.md) | a withdrawn project returns when its remembered 404 expires |
| `StoredIsHonest` (`PageCache`, three versions, three runs) | "a fresh body carries its own fetch time" (store/index.rs) | the sweep takes no gate: a 304 for one body dates another |
| `QuarantineAlwaysHolds` (`PageTransform`) | a quarantined project's files are withheld (page_stream/live.rs) | if 64 KiB pass before `meta`, the stream goes live with the status unknown |
| `FetchedOnce` (`FileDownload`) | "racing clients attach instead of double-fetching" (cache/download.rs) | a transfer may end between the look into the store and the look into the registry |
| `FailedMultipartAborts` (`S3Store`) | a multipart upload that failed is aborted (s3/mod.rs) | only failing parts lead to an abort; a completion that fails leaves the upload open |
| `RangesStayDisabled`, `MissingIsMissing` (`Upstream`) | "Stop trying byte range reads for this index during this process"; a project is missing when no source failed | a read that began before stores its own success; a fallback's 404 hides a primary that was down |
| `YankSetsOrClears`, `ProjectSizeHolds` (`HostedFiles`) | a yank sets or clears what is served; an upload past `max_project_size` is rejected | the override of a file that also has an upload, even one in the trash, is left alone; the size is summed before a racing upload commits |
| `TagsResolve` (`OciRegistry`) | "unlink the global record only when nothing else still references it" (manifests/write.rs) | references are scanned and the record is unlinked in separate transactions, between which a push writes its tag |
| `RestoredIsWhole` (`OciUploads`) | a session put back after a fault can be resumed at its offset | after a fault of the stage itself the session goes back with its offset and without its stage |
| `ManifestsStayInTheirRepository` (`OciProxy`) | what a repository does not record, its upstream answers for (`manifest_authorized`) | under the gate, a manifest that another repository stored meanwhile is answered without asking whose it is |
| `RunsEndWithASummary` (`OciDiscovery`) | "One bad reference never aborts a run" (mirror.rs) | a manifest whose body breaks off ends the run |
| `ClearedStaysCleared` (`UserAccounts`) | a cleared password stays cleared | a login that derives meanwhile stores its rehash afterwards |
| `OutagesAreReported`, `SyncThenVerify`, `PlanWritesNothing` (`Prefetch`) | sync fails when upstream access fails; verify accepts what sync stored; plan writes no records (cli.md, dispatch.rs) | through a virtual index an outage is "project not found" and skipped; verify ignores `metadata_only` and counts skipped projects; `plan --mode all` stores a catalog |
| `UploadsAreExported` (`Metrics`) | uploads are counted per hosted index | an upload through a virtual index is counted at the virtual route, which `/metrics` leaves out of that family |

Others were met while reading and have no definition:

- Replication: a replica populated from a backup of the writer, as high-availability.md describes, has a journal and no
  cursor row, so `Replica::state` answers `LocalSerialMismatch`; the model's replica starts empty.
- Webhooks: a loop that fails to read the next due time waits for a notification although a delivery is pending (the
  exception of `DueIsAttempted`).  Jobs: nothing closes the records of a process that stopped (that of `RunsAreClosed`).
- Blob store: stages of a crash are never collected; a commit of a digest that another writer is committing may answer
  before that writer's directory sync; reading an empty range from S3 is always an error.
- Hosted store: a yank or a deletion whose cached layer could not be reached answers success and leaves that layer's
  files as they were (`served_filenames` takes what the page lists, mutate.rs:333–335, and `virtual_detail` logs and
  skips the layer, resolve.rs:157–159): the exception of `MutationsReachEveryFile`; a yank is lost by delete and restore; "Hidden files are resolved too" (served_filenames) is not so;
  delete is soft although remove.md says it "removes their records outright"; a sha512 pull of an OCI index panics
  (manifests/mod.rs:115); a tag row and its freshness row are written by separate transactions.
- Policy: a download is judged by the project its file is named for, or `<unknown>`, and a page by its own project, so a
  page may list a file whose download is refused (pypi policy.rs:490–493): the exception of `PolicyIsCoherent`.
- Identity: a token is granted "the intersection of the requested scope with what the caller may do" (registry/auth.rs:4)
  by the ACL of the index that is named, also when it is virtual, whereas a write by password through that index asks the
  ACL of its upload member; a requested name with a star also covers names of an index whose route lies inside: the two
  conditions of `TokensNeverWiden`.
- Uploads: a subject without a name is accepted on its digest alone although every attestation names the file
  (attestation.rs:5–8); a tar listing shows duplicate names all, reads return the first; a tar member past the inspect
  budget yields an empty page whose next offset is its own; a chunk limit below a character makes a text member look
  binary; `.or(form_requires_python)` of prepare is dead.
- Configuration and operation: `[jobs] schedule = []` is lost by the snapshot (snapshot.rs:404–407); `backup` of a node
  on S3 reads the filesystem store; the hash of a manifest's metadata is never compared, restored copies are not
  verified again and an interrupted restore that left metadata without blobs is not detected; cycles of virtual indexes
  are not refused; a start that fails late has already claimed the writer's identity; import-dir ignores `read_only`,
  the replica role and that identity; an empty webhook secret from the environment is accepted.
- Pages: an empty JSON body passes `finish`, is served and kept raw, and cannot be parsed again; root-relative URLs
  under `/route/files/` are taken for local on the live path (transformer.rs:484) and not on the other; a page without
  `name` streams cold and fails warm; a page without `files` shows local files warm only; a `.zip` with a metadata
  digest keeps it buffered and loses it streamed; local files of one name in two hosted layers are both emitted;
  elements of `files` that are no objects are dropped; a repeated `files` key emits local files twice.
- Mirror commands: `seen` holds paths as they were spelled (selection.rs:177–196): a requirements file is read once for
  each spelling, and a circle through `..` ends only when a path cannot be opened, which fails the command; a project with only hosted files in a virtual target aborts a sync without a summary (pypi.rs:105);
  a sync does not repair damaged blobs, and may use a stale page and exit before its refresh; `-c` files add projects.
- Metrics: the thread is never joined, so a clean stop loses queued events; expired buckets are seen until the next
  download; if the first save fails and the second succeeds before a stop, daily counts exceed the totals; prefetch
  records a catalog sync under the index's name (selection.rs:114).

## 4. Proofs

Each proof module EXTENDS the module it is about.  The assumptions are the named `ASSUME`s of that module: positive page
sizes and limits, natural bounds, finite sets of callers, markers that are no members.  Nothing else bounds an instance:
the theorems hold for any number of actors, keys, faults and steps.

| Theorem | Property | Inductive invariant |
| --- | --- | --- |
| `ReplicationProofs!TypeCorrect` | `TypeOK` | itself |
| `ReplicationProofs!JournalIsComplete` | the primary's rows are the replay of its journal | with the type invariant |
| `ReplicationProofs!ReplicaIsSnapshot` | `SnapshotAtSerial` | `SnapshotInv` |
| `ReplicationProofs!HealthIsSound` | `HealthSound` | itself, over `SnapshotInv` |
| `ReplicationProofs!CopiesOnlyGrow` | `AppliesForward` (an action property) | follows from `SnapshotInv` |
| `ReplicationProofs!ReplicaIsPromotable` | `PromotableJournal` | itself, over `SnapshotInv` |
| `ReplicationProofs!BlobsComeFirst` | `BlobsBeforeMetadata` | `BlobsInv` |
| `WaitingProofs!CatalogStaysSound` | `CatalogIsSound` | `GenIInv` |
| `WaitingProofs!FetchIsExclusive`, `CountsAreExact`, `GatesAreRetired` | `OneFetch`, exact counts, `NoGateLeaks` | `IInv` |
| `WaitingProofs!MissesAreCoalesced` | `FetchesAreDue` (an action property) | follows from `IInv` |
| `WebhookProofs!QueueStaysSound` | `QueueIsSound` | `HookInv` |
| `WebhookProofs!OnlyDueDeliveries` | `DeliveriesAreDue` (an action property) | follows from `HookInv` |
| `ContentProofs!DownloadsAreSound` | `TransfersAreSound` | `DownloadInv` |
| `ContentProofs!HostingStaysSound` | `HostingIsSound` | `HostedInv` |
| `ContentProofs!UpstreamStaysBounded` | `UpstreamIsBounded` | `UpInv` |
| `ContentProofs!BlobsStayWhole` | `BlobsAreWhole` | `WriteInv`, `LeaseInv`, `S3Inv` |
| `ReplicationProofs!RestoresAreSound` | `BackupsRestore` | `OperatorInv` |
| `OciRegistryProofs!ConversationsStaySound` | `ConversationsHold` | `UploadInv`, `TagInv`, `DigestInv` |
| `OciRegistryProofs!DiscoveryStaysSound` | `DiscoveryIsSound` | `TokenInv`, `WalkInv`, `ListInv`, `MirrorInv` |
| `FrontProofs!RatesStayBounded` | `RateBounded` | `RateInv` |
| `FrontProofs!TrustStaysBounded` | `TrustIsBounded` | `OidcInv` |
| `FrontProofs!UsersStayConsistent` | `UsersAreConsistent` | `UserInv` |
| `FrontProofs!PoliciesStaySound` | `PoliciesAreSound` | `PolicyInv` |
| `FrontProofs!AccessStaysExact` | `AccessIsExact` | `WalkInv`, `HeldInv` |
| `AccountingProofs!JobsStaySound` | `JobsAreSound` | `JobInv` |
| `AccountingProofs!AccountsStayExact` | `AccountsAreExact` | `QuotaInv` |
| `AccountingProofs!QuotaImplementsLedger` | `RefinesLedger` (a refinement) | follows from `QuotaInv` |
| `OciRegistryProofs!ImagesStayWhole` | `ImagesAreWhole` | `RegistryInv` |
| `PageCacheProofs!PagesStayCurrent` | `PagesAreCurrent` | `PageInv` (`PageInvariant`) |
| `PageCacheProofs!StalenessStaysBounded` | `BoundedStaleness` | `PageInv` |

The arguments:

- **Replication.**  `Replay` is defined by the last serial that touches a row, not by recursion; that there is a last
  one is the least-number principle, and the lemmas the proof lives on say that a replay splits at any serial and
  depends only on the entries it reads.  `SnapshotAtSerial` is not inductive: a page in flight was read from a journal
  that a restore may have replaced.  `FollowerInv` adds that the cursor is the length of the copied journal and that
  every page in flight was taken at its follower's cursor; `PageIsSlice`, that it is a contiguous piece of the journal
  it was read from; the serial guard does the rest.  A promoted replica replays its own journal although a page's
  changes are collapsed onto one serial.  For the blobs, `PrimaryInv` says that a row change announces its blob or keeps
  the one it had, and `BlobsSettled` that a follower which may commit has every blob its page announces; a purge only
  takes what neither names.
- **Catalog.**  The holder of the lock is the only one that moves the state row, so between its transactions the row is
  as it left it (`HolderKnows`): what it sweeps is not what is published, and what it publishes is what it staged.  A
  stop forgets the holder and not the row, whose three numbers are distinct (`Distinct`), and numbers are handed out in
  order (`Ordered`), so that the generation a reader has in hand is never staged again (`ReadersSafe`).
- **Single flight.**  Two callers that fetch hold the mutexes of their gates; that the gates are the same needs `Mapped`
  (a caller that has not finished its fetch is on the gate in the map), and the two steps that empty the map look at the
  count only, so `Mapped` needs `UsersExact`.
- **Webhooks.**  One loop works at a time (`OneAtWork`), and nobody else writes records: so the copies it took are still
  the records (`HoldsDue`) when it acts on them, and the attempt under way is the one not yet on record
  (`AttemptIsCounted`).  `Backoff` is a recursive function; that it is defined, and a time, is again proved from the
  least-number principle.
- **Downloads.**  What was announced is flushed, what was flushed is written, the last announcement is the whole body,
  and a verdict is about that body (`AnnouncedIsWritten`).  A client in front of its transfer holds the gate and one that
  follows has sent no more than was announced (`ClientIsSound`): hence the end of a tail is the end of the file.
- **Hosted files.**  What a record names is stored (`RecordsKept`), a publication that was acknowledged is its record's
  (`AcksKept`), and a request holds nothing that these have not (`Prepared`): its bytes are stored before it publishes
  them, and the records it promotes were read whole.  Whether a mutation reaches every file can only be said of one that
  ran alone, and of upstream files only if their layer was on the page it listed (`heard`).  `Reaches` follows it from listing to listing: what it has passed has been changed, what is left is in its
  list, and the others have ended.
- **Upstream.**  What has been asked and what is left are together the candidates of the project, in order (`OnRoute`,
  `InOrder`); so a failure that is told with nothing left has asked them all.  Each round of the body loop has paid for
  a full round of attempts (`Counting`), hence the square.  The permits are those of the requests in progress
  (`Permitted`), whichever way they end.
- **Blob store.**  A stage holds what its writer has hashed, and is synced once the writer has finished (`Staged`), so
  that what a commit renames into the tree is whole and durable (`Whole`), whichever writer of the digest comes first.
  Whoever creates a lease file holds the coordination lock until the file is locked, and cleaning excludes it
  (`LeaseInv`).  In S3 every part that was received is the cut of the content that its number stands for (`CutsSound`),
  whoever sent it and however often; a commit has received, or has in its batch, all numbers below its own, and its
  offset is where they end (`Batched`).  That enough cuts cover the content, and that a batch is cut into as many parts
  as the next number counts, are again shown from the least-number principle.
- **Rate limits.**  `Accounted` gives each request that was let through a place of its own: the window it was counted in,
  the period that window was last opened in, and its number there (`Placed`); a window is opened again only in a later
  period, and the windows made for a sender are at most one more than were evicted (`Owned`).  The bound is the number
  of places.  That the scan of the forwarding headers ends at the nearest entry no proxy wrote (`ScanIsFound`), and that
  there is one, is proved from the least-number principle.
- **Trusted publishing.**  The replay map remembers an identity for as long as a token bought with it is good, across
  pruning and refusal at its capacity (`MintedIsSound`).  A withdrawn key stays in a cache until HARD_CACHE_SECS after
  the withdrawal at most (`CacheIsBounded`), and an exchange relies on a key only at its own time (`InTime`), however
  long it then waits.
- **Accounts.**  The index and the accounts name each other, and the history of an account retells its present name,
  state and revision: what the last naming and the last disabling leave, which `Retold` states without recursion, so
  that one more event can be appended to it.  Verifiers and grants belong to accounts that exist, also when a derivation
  that began under an earlier policy ends late (`LoginsTyped`, `EnrolmentsTyped`); every derivation holds a permit
  (`PermitsHeld`).
- **Policies.**  `Pointed` says that each subject points at the newest record it has left and that the two tables mirror
  each other; pruning takes the oldest record of all, so a pointer goes only with the last record of its subject.  A
  record carries the generation it was decided in, and no generation is used by two policies (`Judged`).  A reader has
  seen each record at or above its cursor that was there when it began and still is (`ReaderIsSound`), because a page
  is an end of what is left to read.
- **Access.**  What a pattern means from a position on obeys three equations: at its end, at a star, at a character
  (`FitsUnfold`).  The rows of `remainders_after` are a recursive function, defined by the least-number principle, and
  they are the positions a cut of the prefix can reach (`ReachableFits`, `MatchesMeans`, `RemaindersComplete`).  The walk
  of `Glob::matches` keeps that the text fits if and only if what follows the last star fits from `resume` or a later
  position (`WalkInv`, `Swallows`), so going back to an earlier star is never needed.  Cuts compose (`MeansComposes`), so a
  requested name that is taken for a pattern opens nothing its grant would not; a token then lets through what its
  credential did when it was issued (`HeldInv`).  The theorem
  assumes what the configuration enforces and nothing else: routes have no stars (`validate_route`) and differ
  (server.rs:298), token names are unique within an index, uploads go to a hosted index.  Routes may lie inside each
  other, and one secret may belong to several tokens: what a requested name covers is
  compared under the index that `Resolve` finds for both (`PatternsStayInIndex`).
- **Page cache.**  A key carries the epoch of its request, and all that a rendering depends on bumps the epoch.  `Sees`
  says so: while that epoch lasts and nothing is between its commit and its bump, the hosted files and the page a request
  has read are the present ones; so what it puts into the hot cache is reached only while it is current
  (`EntryCurrent`), and keys of epochs to come are unused (`KeysAhead`).  `Dates` carries the bound on staleness: as long
  as every commit is made under the gate, the holder of the gate finds the row it started from, a page in hand was
  served when it is dated, and an answer was given soon after.  `Counted` pays for every epoch with a run of a request or
  a sweep or with an upload, which shows that the hot cache of the model has room for every key.  The first attempt
  failed for good reasons, and the two properties now name what the code does: the page whose commit failed is answered
  from the hot cache although the store has an older one; the sweep and the commit of an abandoned stream do not hold
  the gate, so that a page may be replaced between a 304 and its date; a rendering of the HTML route is kept until
  whatever page is stored by then expires; and `max_stale_secs` = 0 is no bound at all.
- **Jobs.**  Every key of the set belongs to one task or to one caller on its way (`KeysHaveOwners`), a panicked task
  keeping its own.  The records this process opened and did not close are those of tasks at work, and at most as many
  more as record writes have failed (`RecordsAreCounted`).  Permits are taken in one order: if the tasks furthest along
  wait for their repository, whoever holds it can go on; else those that wait for their kind, else those that wait for a
  worker.  `CanGoOn` spells out what `ENABLED` of a task's step comes to, because the prover has no rule for `ENABLED`.
- **Quotas.**  The rows are right (`RowsSound`) when the references of each row count the records that name it, each
  charge is a sum over the rows that have references (`Charged`: committed for a row with a committed reference,
  reserved for one that is only reserved), a digest has the size its records state, and no total leaves its range.  One
  operation changes one record, and so one key of each sum (`ChargeMoves`); every operation but a reservation leaves the
  totals or lowers them, which is why an admitted reservation can always be settled.  A repair is a chain of releases,
  one of each in some order.  The counters of the ledger are the same sums, taken over the records: the rows with
  references are what the live records name (`NamedDigests`, `NamedProjects`, `NamedVersions`), so both admit the same
  requests.  That sums over finite sets are defined, and do not depend on the order of `CHOOSE`, is proved from the
  least-number principle on the size of the set.
- **OCI registry.**  The rows alone are not inductive: a push relies on what it checked long before it writes, a delete
  by digest on scans that are over.  `CheckSound` says that what a push has found and does not check again is stored,
  `WriteSound` that each write it has left is prepared by the rows or by an earlier write of its own (the manifest and
  its members come before the tag), `DeleteSound` what each scan of a delete has ruled out, up to the last read before
  the membership row goes.  Other requests take none of this away: whatever a delete removes and whatever a push adds
  concerns digests they share, and sharing one made it torn when the later of the two began (`MeetingsAreTorn`).
- **OCI conversations.**  An upload session is in the map or in the hands of one request, and what holds of it in the
  map holds of it in those hands: its stage is the units up to its offset, the offset is not below what its client was
  told, and the client sends from it (`Uploading`).  What a request for a tag has heard was at the upstream not long ago
  (`HeardLately`), and the record made of it trails the upstream by one transit (`RecordTrails`); the three ways of an
  answer add the ttl and the stale bound to that.  A reader by digest is entitled as soon as its repository has a row,
  also when the row comes while it waits (`Entitled`), and the cache is a sequence of rows without repetition.
- **OCI discovery.**  Token ids grow, so the token a request mints is above the one that was refused it (`SendIsSound`),
  and a key of the cache is the owner of its token (`CacheInv`).  A walk through a tag list has listed everything that
  stayed up to the marker of its next page (`WalkIsSound`); that a finite set of numbers can be put in order is proved
  by ranks.  A cached page names only tags the upstream has listed since the page was fetched (`RowIsSound`), whatever
  was listed later.  While the mirror runs without an error row, some set of manifests contains the references walked so
  far, is stored, and is closed under what its members name except for what is pending or still to be looked at
  (`Reaches`); a summary leaves nothing pending.  The attempt showed two faults of an earlier form: a page never fetched
  was dated by a large negative number, which a longer ttl would have taken for fresh, and the bound on a list did not
  require that its tags had been listed at all.
- **Backups.**  A command knows what it has written (`Creating`) or found good and copied (`Restoring`), until the media
  fail; a command that was killed claims nothing, and the directory it leaves is refused by the next `create`, for it is
  not empty.  What `check_backup` accepts is whole (`GoodIsWhole`), because it compares the references of the metadata
  copy with the index, and the index with the blobs.

What stays with TLC:

- liveness (`CatchesUp`, `NobodyWaitsForever`, `DueIsAttempted`, `RequestsEnd`), which the prover cannot do under
  fairness;
- `UploadsAreSound`, `ConfigIsSound`, `PagesAreExact`, `MirrorsAreSound`: what a pass over a sequence computes for every
  input is an induction too, and `Prefetch` has recursive operators;
- `MetricsAreExact`: not proved yet.

## 5. Plan

Next to prove: metrics.  Next to model: project-file generations and the metadata backfill of
`fetch.rs`, the job timer, virtual indexes of several layers.

## 6. Not modelled

Search is an index derived from other components' rows.  The web interface and OpenAPI documents render what others
keep, `peryx-bench` measures other servers.  Compression and archive decoding, grammars of versions and requirements,
request signing, password derivation and cryptography are sequential and mostly libraries'.  Compiled code, redb, the
filesystem and tokio are taken as documented: a committed transaction is atomic and durable, a rename is atomic, locks
exclude.

---------------- MODULE PageCache ----------------
(* The read-through cache of one PyPI project page.

   A mirror keeps the page in the metadata store: a body row and a small
   freshness row that a 304 rewrites alone.  In front of it stands the hot
   cache of rendered pages, whose keys carry the project's epoch: whatever
   changes the project bumps the epoch, and the old keys are never
   computed again.  Four kinds of actor work on this state:

     Json        requests of a virtual route, which merge the mirror's
                 page with the files uploaded to a hosted layer
                 (cache/page_stream, and cache/resolve as the fallback);
     Html        requests of the mirror's own route (cache/resolve, then
                 remember_rendered of serving/get.rs);
     Background  revalidations spawned by a request that was answered
                 from a stale page;
     Sweepers    the cache maintenance job (refresh_stale_pages).

   The first three take the single-flight gate of the page before they
   fetch; the sweep does not.  A page version is a number, the set of its
   files is the version itself, and the hosted layer is the number of
   uploads it holds.  The gate is the mutex that SingleFlight describes. *)
EXTENDS Integers, FiniteSets

CONSTANTS
    Json, Html, Background, Sweepers,   \* the actors
    TTL,             \* cache_ttl_secs
    MaxStale,        \* max_stale_secs, 0 for no bound
    NegativeTTL,     \* NEGATIVE_TTL_SECS
    Grants,          \* lifetimes an upstream answer may grant
    StoreFails,      \* whether a page commit may fail
    Outages,         \* whether the upstream may be unreachable or answer 5xx
    Disconnects,     \* whether a client may go away before its answer
    MaxTime,         \* bound on the clock
    MaxVersion,      \* bound on the versions the upstream publishes
    MaxUploads,      \* bound on the uploads to the hosted layer
    MaxRuns          \* bound on the requests or sweeps of one actor

Actors == Json \cup Html \cup Background \cup Sweepers
Requests == Json \cup Html
NoGrant == -1
NoTime == -1
NoPage == [body |-> 0, fetched |-> NoTime, fresh |-> NoGrant]
NoOverlay == [fetched |-> NoTime, fresh |-> NoGrant]
NoEntry == [body |-> 0, ctx |-> -1, expires |-> NoTime]
NoAnswer == [page |-> -1, ctx |-> 0, at |-> 0, since |-> 0]
Blank == [key |-> 0, ctx |-> 0, cached |-> NoPage, at |-> 0, body |-> 0, fresh |-> NoGrant, live |-> FALSE]
Free == "free"

ASSUME PageCacheAssumption ==
    /\ IsFiniteSet(Actors) /\ Free \notin Actors
    /\ Json \cap Html = {} /\ Requests \cap (Background \cup Sweepers) = {} /\ Background \cap Sweepers = {}
    /\ TTL \in Nat \ {0} /\ MaxStale \in Nat /\ NegativeTTL \in Nat \ {0}
    /\ Grants \subseteq (Nat \ {0}) \cup {NoGrant}
    /\ {StoreFails, Outages, Disconnects} \subseteq BOOLEAN
    /\ {MaxTime, MaxUploads, MaxRuns} \subseteq Nat /\ MaxVersion \in Nat \ {0}

VARIABLES
    now,        \* the clock of the server
    up,         \* the version the upstream serves, 0 when it answers 404
    latest,     \* the last version the upstream published
    left,       \* when the upstream stopped serving a version
    hosted,     \* uploads in the hosted layer
    acked,      \* uploads whose request has been answered
    uploading,  \* an upload is committed and its invalidation is due
    page,       \* the body row of the mirror
    overlay,    \* the freshness row of the mirror
    files,      \* the versions whose files are registered for download
    negative,   \* expiry of the remembered 404
    gone,       \* when the upstream last answered 404
    epoch,      \* the project's epoch
    hot,        \* the hot cache: variant and epoch to an entry
    gate,       \* holder of the page's single-flight gate
    pc, loc, answer, runs,
    unstored,   \* history: the keys of streamed pages that could not be committed
    lapses      \* history: what has happened of Lapses

upstream == <<up, latest, left>>
layer == <<hosted, acked, uploading>>
store == <<page, overlay, files>>
memory == <<negative, gone, epoch, hot>>
history == <<unstored, lapses>>
vars == <<now, history, upstream, layer, store, memory, gate, pc, loc, answer, runs>>

\* A page is committed by somebody who does not hold its gate; a rendering is kept until another page expires.
Lapses == {"ungated", "borrowed"}

Variants == {"json", "html"}
\* Every run of a request or of the sweep leads to at most one commit.
MaxEpoch == MaxUploads + MaxRuns * Cardinality(Requests \cup Sweepers)

Init ==
    /\ now = 0
    /\ up = 1 /\ latest = 1 /\ left = [v \in 1..MaxVersion |-> NoTime]
    /\ hosted = 0 /\ acked = 0 /\ uploading = FALSE
    /\ page = NoPage /\ overlay = NoOverlay /\ files = {}
    /\ negative = NoTime /\ gone = NoTime /\ epoch = 0
    /\ hot = [v \in Variants |-> [e \in 0..MaxEpoch |-> NoEntry]]
    /\ gate = Free
    /\ pc = [p \in Actors |-> "idle"]
    /\ loc = [p \in Actors |-> Blank]
    /\ answer = [p \in Actors |-> NoAnswer]
    /\ runs = [p \in Actors |-> 0]
    /\ unstored = {} /\ lapses = {}

--------------------------------
(* Reading the store and the caches                                        *)

\* get_index: the body row, with the freshness row folded over its times.
Record == IF page = NoPage \/ overlay = NoOverlay THEN page
          ELSE [body |-> page.body, fetched |-> overlay.fetched, fresh |-> overlay.fresh]

\* Mutant: no ceiling on the granted lifetime.
FreshnessGranted(record) == IF record.fresh # NoGrant THEN record.fresh ELSE TTL

\* freshness_secs: the lifetime the upstream granted, never above the TTL.
Freshness(record) == IF record.fresh # NoGrant /\ record.fresh < TTL THEN record.fresh ELSE TTL

Expiry(record) == record.fetched + Freshness(record)

IsFresh(record) == record # NoPage /\ now < Expiry(record)

\* within_stale_bound.
ServableStale(record) == record # NoPage /\ (MaxStale = 0 \/ now < Expiry(record) + MaxStale)

NegativeFresh == now < negative

\* hot_fresh_versioned under the key the route has right now.
HotFresh(variant) == now < hot[variant][epoch].expires

--------------------------------
(* The world outside                                                       *)

Tick ==
    /\ now < MaxTime
    /\ now' = now + 1
    /\ UNCHANGED <<history, upstream, layer, store, memory, gate, pc, loc, answer, runs>>

Leave == left' = IF up = 0 THEN left ELSE [left EXCEPT ![up] = now]

Publish ==
    /\ latest < MaxVersion
    /\ latest' = latest + 1 /\ up' = latest + 1
    /\ Leave
    /\ UNCHANGED <<now, history, layer, store, memory, gate, pc, loc, answer, runs>>

Withdraw ==
    /\ up # 0
    /\ up' = 0
    /\ Leave
    /\ UNCHANGED <<now, history, latest, layer, store, memory, gate, pc, loc, answer, runs>>

(* store_upload of the hosted layer: the commit, then invalidate_project,  *)
(* then the answer to the client.                                          *)
Upload ==
    /\ ~uploading /\ hosted < MaxUploads
    /\ hosted' = hosted + 1 /\ uploading' = TRUE
    /\ UNCHANGED <<now, history, upstream, acked, store, memory, gate, pc, loc, answer, runs>>

Acknowledge ==
    /\ uploading
    /\ epoch' = epoch + 1
    /\ uploading' = FALSE /\ acked' = hosted
    /\ UNCHANGED <<now, history, upstream, hosted, store, negative, gone, hot, gate, pc, loc, answer, runs>>

--------------------------------
(* Steps that several actors share                                         *)

Goto(p, label) == pc' = [pc EXCEPT ![p] = label]

\* The handler ends, and its locals with it.
End(p) == Goto(p, "idle") /\ loc' = [loc EXCEPT ![p] = Blank]

\* The request is answered: page 0 is a page without the mirror's part or a 404.
Reply(p, body, ctx, at) ==
    /\ answer' = [answer EXCEPT ![p] = [@ EXCEPT !.page = body, !.ctx = ctx, !.at = at]]
    /\ End(p)

Release(p) == gate' = IF gate = p THEN Free ELSE gate

StoreHot(variant, key, body, ctx, expires) ==
    hot' = [hot EXCEPT ![variant][key] = [body |-> body, ctx |-> ctx, expires |-> expires]]

\* put_cached_page: the body row, the registrations, and no freshness row, in one commit.
PutPage(p) ==
    /\ page' = [body |-> loc[p].body, fetched |-> loc[p].at, fresh |-> loc[p].fresh]
    /\ overlay' = NoOverlay
    /\ files' = files \cup {loc[p].body}

\* touch_index_freshness: the freshness row alone, whatever the body row holds by now.
Extended(p, grant) == IF grant # NoGrant THEN grant ELSE loc[p].cached.fresh
Touch(p, grant) == overlay' = [fetched |-> loc[p].at, fresh |-> Extended(p, grant)]

RememberNegative == negative' = now + NegativeTTL /\ gone' = now

\* transform_whole: render the record, keep it under the key taken at the start, answer.
TransformWhole(p, record, at) ==
    /\ StoreHot("json", loc[p].key, record.body, loc[p].ctx, Expiry(record))
    /\ Reply(p, record.body, loc[p].ctx, at)

\* missing_upstream_outcome: 404, or the hosted files through the buffered path.
Missing(p) ==
    IF loc[p].ctx = 0 THEN Reply(p, 0, 0, now) ELSE Goto(p, "resolve") /\ UNCHANGED <<loc, answer>>

--------------------------------
(* stream_detail                                                           *)

Begin(p) ==
    /\ pc[p] = "idle" /\ runs[p] < MaxRuns
    /\ runs' = [runs EXCEPT ![p] = @ + 1]

\* A request begins: from the hot cache, or along the path that starts at label.
Arrive(p, variant, label) ==
    IF HotFresh(variant)
    THEN LET entry == hot[variant][epoch]
         IN /\ answer' = [answer EXCEPT ![p] = [page |-> entry.body, ctx |-> entry.ctx, at |-> now, since |-> acked]]
            /\ UNCHANGED <<pc, loc>>
    ELSE /\ answer' = [answer EXCEPT ![p] = [NoAnswer EXCEPT !.since = acked]]
         /\ loc' = [loc EXCEPT ![p].key = epoch]
         /\ Goto(p, label)

StreamDetail(p) ==
    /\ p \in Json /\ Begin(p)
    /\ Arrive(p, "json", "parts")
    /\ UNCHANGED <<now, history, upstream, layer, store, memory, gate>>

\* streaming_parts reads the hosted layer.
StreamingParts(p) ==
    /\ pc[p] = "parts"
    /\ loc' = [loc EXCEPT ![p].ctx = hosted]
    /\ Goto(p, "check")
    /\ UNCHANGED <<now, history, upstream, layer, store, memory, gate, answer, runs>>

CheckFresh(p) ==
    /\ pc[p] = "check" /\ IsFresh(Record)
    /\ TransformWhole(p, Record, now)
    /\ UNCHANGED <<now, history, upstream, layer, store, negative, gone, epoch, gate, runs>>

CheckNegative(p) ==
    /\ pc[p] = "check" /\ ~IsFresh(Record) /\ NegativeFresh
    /\ Missing(p)
    /\ UNCHANGED <<now, history, upstream, layer, store, memory, gate, runs>>

(* A stale page answers at once; spawn_revalidation starts a task when the *)
(* gate is free.                                                           *)
CheckStale(p) ==
    /\ pc[p] = "check" /\ ~IsFresh(Record) /\ ~NegativeFresh /\ ServableStale(Record)
    /\ StoreHot("json", loc[p].key, Record.body, loc[p].ctx, Expiry(Record))
    /\ answer' = [answer EXCEPT ![p] = [@ EXCEPT !.page = Record.body, !.ctx = loc[p].ctx, !.at = now]]
    /\ loc' = [loc EXCEPT ![p] = Blank]
    /\ IF gate = Free
       THEN \E b \in Background :
              /\ pc[b] = "idle" /\ gate' = b
              /\ pc' = [pc EXCEPT ![p] = "idle", ![b] = "read"]
       ELSE Goto(p, "idle") /\ UNCHANGED gate
    /\ UNCHANGED <<now, history, upstream, layer, store, negative, gone, epoch, runs>>

CheckMiss(p) ==
    /\ pc[p] = "check" /\ ~IsFresh(Record) /\ ~NegativeFresh /\ ~ServableStale(Record)
    /\ Goto(p, "gate")
    /\ UNCHANGED <<now, history, upstream, layer, store, memory, gate, loc, answer, runs>>

Lock(p) ==
    /\ pc[p] \in {"gate", "resolve_gate"} /\ gate = Free
    /\ gate' = p
    /\ Goto(p, IF pc[p] = "gate" THEN "locked" ELSE "resolve_locked")
    /\ UNCHANGED <<now, history, upstream, layer, store, memory, loc, answer, runs>>

\* Under the gate the hot cache is asked again, with the key of this moment.
LockedHot(p) ==
    /\ pc[p] = "locked" /\ HotFresh("json")
    /\ Reply(p, hot["json"][epoch].body, hot["json"][epoch].ctx, now)
    /\ Release(p)
    /\ UNCHANGED <<now, history, upstream, layer, store, memory, runs>>

LockedFresh(p) ==
    /\ pc[p] = "locked" /\ ~HotFresh("json") /\ IsFresh(Record)
    /\ TransformWhole(p, Record, now)
    /\ Release(p)
    /\ UNCHANGED <<now, history, upstream, layer, store, negative, gone, epoch, runs>>

LockedNegative(p) ==
    /\ pc[p] = "locked" /\ ~HotFresh("json") /\ ~IsFresh(Record) /\ NegativeFresh
    /\ Release(p)
    /\ Missing(p)
    /\ UNCHANGED <<now, history, upstream, layer, store, memory, runs>>

LockedMiss(p) ==
    /\ pc[p] = "locked" /\ ~HotFresh("json") /\ ~IsFresh(Record) /\ ~NegativeFresh
    /\ loc' = [loc EXCEPT ![p].at = now, ![p].cached = Record]
    /\ Goto(p, "head")
    /\ UNCHANGED <<now, history, upstream, layer, store, memory, gate, answer, runs>>

\* Mutant: the fallback keeps the gate.
HeadFailsKeeps(p) ==
    /\ pc[p] = "head" /\ Outages
    /\ Goto(p, "resolve")
    /\ UNCHANGED <<now, history, upstream, layer, store, memory, gate, loc, answer, runs>>

\* A transport error or any other status: the buffered path may serve a stale page.
HeadFails(p) ==
    /\ pc[p] = "head" /\ Outages
    /\ Release(p)
    /\ Goto(p, "resolve")
    /\ UNCHANGED <<now, history, upstream, layer, store, memory, loc, answer, runs>>

(* A JSON page streams live, or is completed before the first byte leaves  *)
(* (a short page, files ahead of meta, an HTML page).                      *)
HeadPage(p) ==
    /\ pc[p] = "head" /\ up # 0 /\ loc[p].cached.body # up
    /\ \E grant \in Grants, live \in BOOLEAN :
         loc' = [loc EXCEPT ![p].body = up, ![p].fresh = grant, ![p].live = live]
    /\ Goto(p, "body")
    /\ UNCHANGED <<now, history, upstream, layer, store, memory, gate, answer, runs>>

HeadNotModified(p) ==
    /\ pc[p] = "head" /\ up # 0 /\ loc[p].cached.body = up
    /\ \E grant \in Grants :
         /\ Touch(p, grant)
         /\ LET record == [body |-> loc[p].cached.body, fetched |-> loc[p].at, fresh |-> Extended(p, grant)]
            IN TransformWhole(p, record, loc[p].at)
    /\ Release(p)
    /\ UNCHANGED <<now, history, upstream, layer, page, files, negative, gone, epoch, runs>>

HeadNotFound(p) ==
    /\ pc[p] = "head" /\ up = 0
    /\ RememberNegative
    /\ Release(p)
    /\ Missing(p)
    /\ UNCHANGED <<now, history, upstream, layer, store, epoch, hot, runs>>

(* The body breaks off or does not parse.  A live stream just ends; the    *)
(* other form is answered with the error or falls back to the buffered     *)
(* path.                                                                   *)
BodyFails(p) ==
    /\ pc[p] = "body" /\ Outages
    /\ Release(p)
    /\ \/ End(p)
       \/ ~loc[p].live /\ Goto(p, "resolve") /\ UNCHANGED loc
    /\ UNCHANGED <<now, history, upstream, layer, store, memory, answer, runs>>

\* persist_streamed commits the page before the body closes ...
Persist(p) ==
    /\ pc[p] = "body"
    /\ PutPage(p)
    /\ Goto(p, "persisted")
    /\ UNCHANGED <<now, history, upstream, layer, memory, gate, loc, answer, runs>>

\* ... a live stream only logs that the commit failed, and goes on.
PersistFails(p) ==
    /\ pc[p] = "body" /\ StoreFails
    /\ IF loc[p].live
       THEN Goto(p, "remember") /\ UNCHANGED gate /\ unstored' = unstored \cup {loc[p].key}
       ELSE Goto(p, "resolve") /\ Release(p) /\ UNCHANGED unstored
    /\ UNCHANGED <<now, lapses, upstream, layer, store, memory, loc, answer, runs>>

\* invalidate_project, the end of persist_streamed and of persist_page_from.
Invalidate(p) ==
    /\ pc[p] = "persisted"
    /\ epoch' = epoch + 1
    /\ Goto(p, "remember")
    /\ UNCHANGED <<now, history, upstream, layer, store, negative, gone, hot, gate, loc, answer, runs>>

\* Mutant: the key is taken when the page is complete.
RememberLate(p) ==
    /\ pc[p] = "remember"
    /\ StoreHot("json", epoch, loc[p].body, loc[p].ctx, loc[p].at + TTL)
    /\ Reply(p, loc[p].body, loc[p].ctx, loc[p].at)
    /\ Release(p)
    /\ UNCHANGED <<now, history, upstream, layer, store, negative, gone, epoch, runs>>

\* The page enters the hot cache under the key taken when the request began.
Remember(p) ==
    /\ pc[p] = "remember"
    /\ LET record == [body |-> loc[p].body, fetched |-> loc[p].at, fresh |-> loc[p].fresh]
       IN TransformWhole(p, record, loc[p].at)
    /\ Release(p)
    /\ UNCHANGED <<now, history, upstream, layer, store, negative, gone, epoch, runs>>

--------------------------------
(* resolve_detail_page: HTML requests, and JSON requests that fell back    *)

ResolveHtml(p) ==
    /\ p \in Html /\ Begin(p)
    /\ Arrive(p, "html", "resolve")
    /\ UNCHANGED <<now, history, upstream, layer, store, memory, gate>>

\* The page cached_detail found, 0 for none: HTML is rendered and remembered, JSON is answered.
Resolved(p, body, at, ctx) ==
    IF p \in Html /\ body # 0
    THEN Goto(p, "render") /\ loc' = [loc EXCEPT ![p].body = body, ![p].at = at, ![p].ctx = ctx]
         /\ UNCHANGED answer
    ELSE Reply(p, body, ctx, at)

Context(p) == IF p \in Json THEN hosted ELSE 0

ResolveCached(p) ==
    /\ pc[p] = "resolve" /\ (IsFresh(Record) \/ NegativeFresh)
    /\ Resolved(p, IF IsFresh(Record) THEN Record.body ELSE 0, now, Context(p))
    /\ UNCHANGED <<now, history, upstream, layer, store, memory, gate, runs>>

ResolveMiss(p) ==
    /\ pc[p] = "resolve" /\ ~IsFresh(Record) /\ ~NegativeFresh
    /\ loc' = [loc EXCEPT ![p].ctx = Context(p)]
    /\ Goto(p, "resolve_gate")
    /\ UNCHANGED <<now, history, upstream, layer, store, memory, gate, answer, runs>>

ResolveLocked(p) ==
    /\ pc[p] = "resolve_locked"
    /\ IF IsFresh(Record) \/ NegativeFresh
       THEN /\ Resolved(p, IF IsFresh(Record) THEN Record.body ELSE 0, now, loc[p].ctx)
            /\ Release(p)
       ELSE Goto(p, "read") /\ UNCHANGED <<gate, loc, answer>>
    /\ UNCHANGED <<now, history, upstream, layer, store, memory, runs>>

(* remember_rendered: the expiry of whatever page is stored by now, under  *)
(* the key of this moment.                                                 *)
RememberRendered(p) ==
    /\ pc[p] = "render"
    /\ IF IsFresh(Record)
       THEN /\ StoreHot("html", epoch, loc[p].body, 0, Expiry(Record))
            /\ lapses' = IF Record.body = loc[p].body THEN lapses ELSE lapses \cup {"borrowed"}
       ELSE UNCHANGED <<hot, lapses>>
    /\ Reply(p, loc[p].body, 0, loc[p].at)
    /\ UNCHANGED <<now, unstored, upstream, layer, store, negative, gone, epoch, gate, runs>>

--------------------------------
(* fetch_and_store: by a request, by a revalidation, by the sweep          *)

\* refresh_stale_pages picks the page when it is stale; it takes no gate.
Sweep(p) ==
    /\ p \in Sweepers /\ Begin(p)
    /\ Record # NoPage /\ ~IsFresh(Record)
    /\ Goto(p, "read")
    /\ lapses' = lapses \cup {"ungated"}
    /\ UNCHANGED <<now, unstored, upstream, layer, store, memory, gate, loc, answer>>

FetchRead(p) ==
    /\ pc[p] = "read"
    /\ loc' = [loc EXCEPT ![p].at = now, ![p].cached = Record]
    /\ Goto(p, "fetch")
    /\ UNCHANGED <<now, history, upstream, layer, store, memory, gate, answer, runs>>

\* What the caller does with the page of a finished fetch, 0 for none.
Fetched(p, body, at) ==
    /\ Release(p)
    /\ IF p \in Requests THEN Resolved(p, body, at, loc[p].ctx)
       ELSE End(p) /\ UNCHANGED answer

FetchPage(p) ==
    /\ pc[p] = "fetch" /\ up # 0 /\ loc[p].cached.body # up
    /\ \E grant \in Grants : loc' = [loc EXCEPT ![p].body = up, ![p].fresh = grant]
    /\ Goto(p, "put")
    /\ UNCHANGED <<now, history, upstream, layer, store, memory, gate, answer, runs>>

FetchPut(p) ==
    /\ pc[p] = "put"
    /\ PutPage(p)
    /\ Goto(p, "stored")
    /\ UNCHANGED <<now, history, upstream, layer, memory, gate, loc, answer, runs>>

FetchInvalidate(p) ==
    /\ pc[p] = "stored"
    /\ epoch' = epoch + 1
    /\ Fetched(p, loc[p].body, loc[p].at)
    /\ UNCHANGED <<now, history, upstream, layer, store, negative, gone, hot, runs>>

FetchNotModified(p) ==
    /\ pc[p] = "fetch" /\ up # 0 /\ loc[p].cached.body = up
    /\ \E grant \in Grants : Touch(p, grant)
    /\ Fetched(p, loc[p].cached.body, loc[p].at)
    /\ UNCHANGED <<now, history, upstream, layer, page, files, memory, runs>>

FetchNotFound(p) ==
    /\ pc[p] = "fetch" /\ up = 0
    /\ RememberNegative
    /\ Fetched(p, 0, now)
    /\ UNCHANGED <<now, history, upstream, layer, store, epoch, hot, runs>>

\* Unreachable or a 5xx: the stale page answers, if it still may.
FetchStale(p) ==
    /\ pc[p] = "fetch" /\ Outages /\ ServableStale(loc[p].cached)
    /\ Fetched(p, loc[p].cached.body, now)
    /\ UNCHANGED <<now, history, upstream, layer, store, memory, runs>>

\* No page that may answer, or a page that could not be committed.
FetchFails(p) ==
    /\ \/ pc[p] = "fetch" /\ Outages /\ ~ServableStale(loc[p].cached)
       \/ pc[p] = "put" /\ StoreFails
    /\ Release(p)
    /\ IF p \in Requests THEN Reply(p, 0, loc[p].ctx, now) ELSE End(p) /\ UNCHANGED answer
    /\ UNCHANGED <<now, history, upstream, layer, store, memory, runs>>

--------------------------------
(* The client goes away while its request waits: the handler is dropped,   *)
(* and with it the gate.                                                   *)
Disconnect(p) ==
    /\ Disconnects /\ p \in Requests
    /\ pc[p] \in {"gate", "resolve_gate", "head", "body", "fetch"}
    /\ Release(p)
    /\ End(p)
    /\ UNCHANGED <<now, history, upstream, layer, store, memory, answer, runs>>

(* It goes away during the last commit of a live stream: the handler and   *)
(* the gate are gone, the blocking task finishes the commit by itself.     *)
Detach(p) ==
    /\ Disconnects /\ pc[p] = "body" /\ loc[p].live
    /\ Release(p)
    /\ \E b \in Background :
         /\ pc[b] = "idle"
         /\ pc' = [pc EXCEPT ![p] = "idle", ![b] = "put"]
         /\ loc' = [loc EXCEPT ![b] = loc[p], ![p] = Blank]
    /\ lapses' = lapses \cup {"ungated"}
    /\ UNCHANGED <<now, unstored, upstream, layer, store, memory, answer, runs>>

--------------------------------
Stream(p) ==
    \/ StreamingParts(p)
    \/ CheckFresh(p) \/ CheckNegative(p) \/ CheckStale(p) \/ CheckMiss(p)
    \/ LockedHot(p) \/ LockedFresh(p) \/ LockedNegative(p) \/ LockedMiss(p)
    \/ HeadFails(p) \/ HeadPage(p) \/ HeadNotModified(p) \/ HeadNotFound(p)
    \/ BodyFails(p) \/ Persist(p) \/ PersistFails(p) \/ Invalidate(p) \/ Remember(p)

Resolve(p) ==
    \/ ResolveCached(p) \/ ResolveMiss(p) \/ ResolveLocked(p) \/ RememberRendered(p)

Fetch(p) ==
    \/ FetchRead(p) \/ FetchPage(p) \/ FetchPut(p) \/ FetchInvalidate(p)
    \/ FetchNotModified(p) \/ FetchNotFound(p) \/ FetchStale(p) \/ FetchFails(p)

\* What the client or the scheduler starts, and what then runs by itself.
Start(p) == StreamDetail(p) \/ ResolveHtml(p) \/ Sweep(p)
Step(p) == Stream(p) \/ Resolve(p) \/ Fetch(p)

\* A client goes away; nothing says that it ever does.
HangUp(p) == Disconnect(p) \/ Detach(p)

Next ==
    \/ Tick \/ Publish \/ Withdraw \/ Upload \/ Acknowledge
    \/ \E p \in Actors : Start(p) \/ Lock(p) \/ Step(p) \/ HangUp(p)

Spec == Init /\ [][Next]_vars

(* Every request and task is polled until it ends, every upstream call     *)
(* ends (it has a timeout), and the gate is tokio's first-in first-out     *)
(* mutex.                                                                  *)
FairSpec ==
    /\ Spec
    /\ \A p \in Actors : WF_vars(Step(p)) /\ SF_vars(Lock(p))

--------------------------------
(* Properties                                                              *)

Labels == {"idle", "parts", "check", "gate", "locked", "head", "body", "persisted", "remember",
           "resolve", "resolve_gate", "resolve_locked", "render", "read", "fetch", "put", "stored"}

(* The variables have their types, and the gate is held by an actor that   *)
(* is past it and has not finished.                                        *)
TypeOK ==
    /\ now \in 0..MaxTime /\ up \in 0..latest /\ latest \in 1..MaxVersion
    /\ left \in [1..MaxVersion -> 0..MaxTime \cup {NoTime}]
    /\ hosted \in 0..MaxUploads /\ acked \in 0..hosted /\ uploading \in BOOLEAN
    /\ page.body \in 0..latest /\ files \subseteq 1..latest
    /\ epoch \in 0..MaxEpoch
    /\ gate \in Actors \cup {Free}
    /\ pc \in [Actors -> Labels]
    /\ gate # Free => pc[gate] \notin {"idle", "parts", "check", "gate", "resolve", "resolve_gate", "render"}
    /\ \A p \in Actors : runs[p] \in 0..MaxRuns /\ loc[p].key \in 0..epoch
    /\ unstored \subseteq 0..epoch /\ lapses \subseteq Lapses

(* Read your writes: an answer shows every upload that was acknowledged    *)
(* before the request began, whichever cache it came from.                 *)
ReadYourWrites ==
    \A p \in Json : answer[p].page # -1 => answer[p].ctx >= answer[p].since

Settled == ~uploading /\ \A p \in Actors : pc[p] \notin {"persisted", "stored"}

(* An entry a reader can reach is what a rendering would give now: the     *)
(* stored page and the present hosted files.  A page whose commit failed   *)
(* is the exception, and the subject of AnsweredIsRegistered: it is newer  *)
(* than the stored one, never older.                                       *)
HotIsCurrent ==
    /\ TypeOK
    /\ LET entry == hot["json"][epoch]
       IN Settled /\ now < entry.expires =>
            /\ entry.ctx = hosted
            /\ entry.body >= page.body
            /\ epoch \notin unstored => entry.body = page.body

(* Not met by the code when a commit falls between page and rendering: the *)
(* same for the HTML rendering of the mirror's own route: "A rendered      *)
(* page is only safe to keep while the page it was rendered from is itself *)
(* fresh" (cache/mod.rs).                                                  *)
RenderedIsCurrent ==
    LET entry == hot["html"][epoch]
    IN Settled /\ now < entry.expires => entry.body = page.body

(* Not met by the code when the commit of a streamed page fails: whoever   *)
(* has read a page to its end finds the registrations of its               *)
(* files, so that the downloads it leads to resolve.                       *)
AnsweredIsRegistered ==
    \A p \in Requests : answer[p].page > 0 => answer[p].page \in files

(* Where max_stale_secs is a bound, no answer shows a page that the        *)
(* upstream replaced or withdrew longer ago than the freshness window and  *)
(* max_stale_secs allow, as long as every commit is made under the gate,   *)
(* which the sweep's and those of an abandoned stream are not, and no      *)
(* rendering was kept until another page expires.                          *)
BoundedStaleness ==
    MaxStale # 0 /\ lapses = {} =>
      \A p \in Requests : LET v == answer[p].page IN
        v > 0 /\ left[v] # NoTime => answer[p].at - left[v] < TTL + MaxStale

(* Not met by the code, because the sweep takes no gate:                   *)
(* the stored page is what the upstream served at the time it is dated, or *)
(* later: its date never claims more than it shows.                        *)
StoredIsHonest ==
    page # NoPage /\ left[page.body] # NoTime => Record.fetched <= left[page.body]

(* Not met by the code once the remembered 404 expires:                    *)
(* a page the upstream has been seen to have withdrawn stays withdrawn: the*)
(* stale copy is for an upstream that cannot be reached or answers 5xx     *)
(* (configuration.md).                                                     *)
GoneStaysGone ==
    \A p \in Requests : LET v == answer[p].page IN
        v > 0 /\ left[v] # NoTime /\ left[v] <= gone => answer[p].at <= gone

(* Not met by the code, which uses the key of before its own commit:       *)
(* when a page has been streamed, its rendering is in the hot cache (the   *)
(* comment on PageOutcome::Streaming).                                     *)
StreamedIsHot ==
    [][\A p \in Json : pc[p] = "remember" /\ pc'[p] = "idle"
         => hot'["json"][epoch'].body = loc[p].body]_vars

(* Every request is answered or abandoned: nobody keeps the gate.          *)
RequestsEnd == \A p \in Requests : pc[p] # "idle" ~> pc[p] = "idle"

\* Nobody misses an upload that was acknowledged before they asked, and what the hot cache would answer is what
\* a rendering would give now.
PagesAreCurrent == ReadYourWrites /\ HotIsCurrent

================================

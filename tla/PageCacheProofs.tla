---------------- MODULE PageCacheProofs ----------------
(* What the read-through cache of a project page promises, for every set
   of requests, background tasks and sweeps and every lifetime:

     PagesStayCurrent       read your writes, and a hot entry that can be
                            reached is what a rendering would give now;
     StalenessStaysBounded  how old a page an answer may show.

   Both follow from one inductive invariant, PageInv.  Its heart is Well:
   while the epoch of its key lasts, what a request has read stays as it
   was (Sees), and while every commit is made under the gate, a page in
   hand has its date and its holder finds the row it started from (Dates).
   Counted bounds the epochs: a commit is paid for by a run. *)
EXTENDS PageCache, FiniteSetTheorems, TLAPS

--------------------------------
(* The inductive invariant. *)

Holding == {"locked", "head", "body", "persisted", "remember", "resolve_locked", "read", "fetch", "put", "stored"}
Streaming == {"parts", "check", "gate", "locked", "head", "body", "persisted", "remember"}
Carrying == {"body", "persisted", "remember", "put", "stored"}
Committed == {"persisted", "stored"}
Over == {"idle", "remember", "render"}

PageRow == [body : 0..MaxVersion, fetched : Int, fresh : Int]
OverlayRow == [fetched : Int, fresh : Int]
Local == [key : Nat, ctx : Nat, cached : PageRow, at : Nat, body : 0..MaxVersion, fresh : Int, live : BOOLEAN]
Entry == [body : 0..MaxVersion, ctx : Int, expires : Int]
Answer == [page : {-1} \cup (0..MaxVersion), ctx : Int, at : Nat, since : Nat]

Typed ==
    /\ now \in 0..MaxTime /\ latest \in 1..MaxVersion /\ up \in {0, latest}
    /\ left \in [1..MaxVersion -> Nat \cup {NoTime}]
    /\ hosted \in 0..MaxUploads /\ acked \in 0..hosted /\ uploading \in BOOLEAN /\ (uploading => acked < hosted)
    /\ page \in PageRow /\ overlay \in OverlayRow /\ files \subseteq 1..latest
    /\ epoch \in 0..MaxEpoch
    /\ hot \in [Variants -> [0..MaxEpoch -> Entry]]
    /\ gate \in Actors \cup {Free}
    /\ pc \in [Actors -> Labels] /\ loc \in [Actors -> Local]
    /\ answer \in [Actors -> Answer] /\ runs \in [Actors -> 0..MaxRuns]
    /\ unstored \subseteq 0..epoch /\ lapses \subseteq Lapses

(* A version that is served has not left, and one that has left did so in the past. *)
Departed ==
    /\ \A v \in 1..MaxVersion : left[v] <= now /\ (v > latest => left[v] = NoTime)
    /\ up # 0 => left[up] = NoTime

(* The page that is stored was published. *)
Stored == page.body <= latest /\ (page # NoPage => page.body >= 1)

GateHeld == gate # Free => pc[gate] \in Holding

(* Every commit and every acknowledged upload is paid for by a run or an upload. *)
Pending == {p \in Actors : pc[p] \notin Over}
Spent == {x \in (Requests \cup Sweepers) \X (1..MaxRuns) : x[2] <= runs[x[1]]}
Counted == epoch + Cardinality(Pending) <= acked + Cardinality(Spent)

--------------------------------
Orderly == lapses = {} /\ MaxStale # 0

\* What is dated t shows version v, which was served then or later.
Dated(v, t) == t <= now /\ (v \in 1..MaxVersion => left[v] = NoTime \/ t <= left[v])

\* An answer with version v is given at t, soon enough.
Soon(v, t) == t <= now /\ (v \in 1..MaxVersion => left[v] = NoTime \/ t - left[v] < TTL + MaxStale)

\* An entry with version v may be answered until t.
Kept(v, t) == t <= now + TTL /\ (v \in 1..MaxVersion => left[v] = NoTime \/ t <= left[v] + TTL)

\* What an actor has in hand.
Known(p) ==
    /\ loc[p].key <= epoch /\ loc[p].at <= now /\ loc[p].body <= latest /\ loc[p].cached.body <= latest
    /\ pc[p] \in Streaming => p \in Json
    /\ pc[p] \in {"resolve", "resolve_gate", "resolve_locked"} => p \in Requests
    /\ pc[p] = "render" => p \in Html
    /\ pc[p] \in Carrying => loc[p].body >= 1

\* A request shows the uploads that were acknowledged before it.
Asks(p) ==
    p \in Json =>
      /\ answer[p].since <= acked
      /\ answer[p].page # -1 => answer[p].ctx >= answer[p].since
      /\ pc[p] \notin {"idle", "parts"} => loc[p].ctx >= answer[p].since
      /\ pc[p] \in Streaming \ {"parts"} /\ loc[p].key = epoch => loc[p].ctx >= acked

\* While the epoch of its key lasts, what a request has read stays as it was.
Sees(p) ==
    loc[p].key = epoch =>
      /\ pc[p] = "remember" => epoch \in unstored
      /\ Settled =>
           /\ pc[p] \in Streaming \ {"parts"} => loc[p].ctx = hosted
           /\ pc[p] = "head" => loc[p].cached.body = page.body
           /\ pc[p] \in {"body", "remember"} => page.body <= loc[p].body

\* What an actor fetched has its date; under the gate nobody else changes the page.
Dates(p) ==
    /\ pc[p] \in Carrying => Dated(loc[p].body, loc[p].at)
    /\ Orderly =>
         /\ pc[p] \in Holding => gate = p
         /\ pc[p] \in {"head", "fetch"} => loc[p].cached = Record
         /\ pc[p] = "render" => Soon(loc[p].body, loc[p].at)
         /\ p \in Requests => Soon(answer[p].page, answer[p].at)

Well(p) == Known(p) /\ Asks(p) /\ Sees(p) /\ Dates(p)

(* The hot cache: keys of epochs to come are unused, and the entry of this one is current. *)
KeysAhead == \A v \in Variants, e \in 0..MaxEpoch : e > epoch => hot[v][e] = NoEntry
EntryCurrent ==
    LET entry == hot["json"][epoch]
    IN  entry # NoEntry =>
          /\ entry.ctx >= acked
          /\ Settled => /\ entry.ctx = hosted
                        /\ entry.body >= page.body
                        /\ epoch \notin unstored => entry.body = page.body
EntriesDated == Orderly => \A v \in Variants, e \in 0..MaxEpoch : Kept(hot[v][e].body, hot[v][e].expires)
HotSound == KeysAhead /\ EntryCurrent /\ EntriesDated

RecordDated == Orderly /\ page # NoPage => Dated(page.body, Record.fetched)

PageInv ==
    /\ Typed /\ Departed /\ Stored /\ GateHeld /\ Counted /\ HotSound /\ RecordDated
    /\ \A p \in Actors : Well(p)

--------------------------------
(* Steps and what they leave alone. *)

\* What holds of the shared state between any two states.
Grows ==
    /\ now' >= now /\ latest' >= latest /\ epoch' >= epoch /\ acked' >= acked
    /\ unstored \subseteq unstored' /\ lapses \subseteq lapses'
    /\ epoch' = epoch => acked' = acked
    /\ epoch' = epoch /\ Settled' => Settled /\ page'.body = page.body /\ hosted' = hosted
    /\ \A v \in 1..MaxVersion : left'[v] = left[v] \/ (left[v] = NoTime /\ left'[v] = now')

LEMMA Later ==
    ASSUME NEW a \in Int, NEW b \in Int, a <= b, NEW c \in Nat, NEW t \in Int, t <= a + c
    PROVE  t <= b + c
  OBVIOUS

LEMMA Dating ==
    ASSUME Typed, Typed', Grows, NEW v, NEW t \in Int
    PROVE  /\ Dated(v, t) => Dated(v, t)'
           /\ Soon(v, t) => Soon(v, t)'
           /\ Kept(v, t) => Kept(v, t)'
<1>1. now \in Int /\ now' \in Int /\ now' >= now /\ TTL \in Nat \ {0} /\ MaxStale \in Nat
  BY PageCacheAssumption DEF Typed, Grows
<1>2. \A w \in 1..MaxVersion :
        /\ left[w] \in Int /\ left'[w] \in Int
        /\ left'[w] = left[w] \/ (left[w] = NoTime /\ left'[w] = now')
  BY DEF Typed, Grows, NoTime
<1>3. Dated(v, t) => Dated(v, t)' BY <1>1, <1>2 DEF Dated
<1>4. Soon(v, t) => Soon(v, t)' BY <1>1, <1>2 DEF Soon
<1>5. ASSUME Kept(v, t) PROVE Kept(v, t)'
  <2>1. TTL \in Nat /\ t <= now + TTL BY <1>1, <1>5 DEF Kept
  <2>2. t <= now' + TTL BY <1>1, <2>1, Later
  <2>3. ASSUME v \in 1..MaxVersion PROVE left'[v] = NoTime \/ t <= left'[v] + TTL BY <1>2, <1>5, <2>2, <2>3 DEF Kept
  <2> QED BY <2>2, <2>3 DEF Kept
<1> QED BY <1>3, <1>4, <1>5

LEMMA Locals ==
    ASSUME Typed, NEW p \in Actors
    PROVE  /\ loc[p].key \in Nat /\ loc[p].ctx \in Nat /\ loc[p].cached \in PageRow /\ loc[p].at \in Nat
           /\ loc[p].body \in 0..MaxVersion /\ loc[p].fresh \in Int /\ loc[p].live \in BOOLEAN
           /\ answer[p].page \in {-1} \cup (0..MaxVersion) /\ answer[p].ctx \in Int
           /\ answer[p].at \in Nat /\ answer[p].since \in Nat
           /\ pc[p] \in Labels /\ runs[p] \in 0..MaxRuns
<1>1. loc[p] \in Local /\ answer[p] \in Answer /\ pc[p] \in Labels /\ runs[p] \in 0..MaxRuns BY DEF Typed
<1> QED BY <1>1 DEF Local, Answer

LEMMA Numbers ==
    ASSUME Typed
    PROVE  /\ now \in Nat /\ latest \in 1..MaxVersion /\ up \in 0..MaxVersion /\ hosted \in Nat /\ acked \in Nat
           /\ epoch \in Nat /\ TTL \in Nat \ {0} /\ MaxStale \in Nat /\ MaxVersion \in Nat \ {0} /\ MaxTime \in Nat
           /\ page.body \in 0..MaxVersion /\ page.fetched \in Int /\ page.fresh \in Int
           /\ overlay.fetched \in Int /\ overlay.fresh \in Int
           /\ MaxUploads \in Nat /\ MaxRuns \in Nat
<1>1. TTL \in Nat \ {0} /\ MaxStale \in Nat /\ MaxVersion \in Nat \ {0} /\ MaxTime \in Nat
      /\ MaxUploads \in Nat /\ MaxRuns \in Nat
  BY PageCacheAssumption
<1>2. page \in PageRow /\ overlay \in OverlayRow BY DEF Typed
<1> QED BY <1>1, <1>2 DEF Typed, PageRow, OverlayRow

LEMMA OthersKeep ==
    ASSUME Typed, Typed', Grows, NEW q \in Actors, Well(q),
           pc'[q] = pc[q], loc'[q] = loc[q], answer'[q] = answer[q],
           Orderly' /\ gate = q => gate' = q /\ Record' = Record
    PROVE  Well(q)'
<1>1. /\ loc[q].key \in Nat /\ loc[q].ctx \in Nat /\ loc[q].at \in Nat /\ loc[q].body \in 0..MaxVersion
      /\ answer[q].at \in Nat /\ answer[q].since \in Nat /\ loc[q].cached.body \in 0..MaxVersion
  BY Locals DEF PageRow
<1>2. /\ now \in Nat /\ now' \in Nat /\ latest \in Nat /\ latest' \in Nat /\ epoch \in Nat /\ epoch' \in Nat
      /\ acked \in Nat /\ acked' \in Nat
  BY DEF Typed
<1>3. Known(q)' BY <1>1, <1>2 DEF Well, Known, Grows
<1>4. Asks(q)' BY <1>1, <1>2 DEF Well, Known, Asks, Grows
<1>5. Sees(q)'
  <2>1. epoch' # epoch => loc[q].key # epoch' BY <1>1, <1>2 DEF Well, Known, Grows
  <2> QED BY <2>1 DEF Well, Sees, Grows
<1>6. Dates(q)'
  <2>1. Orderly' => Orderly BY DEF Orderly, Grows
  <2>2. pc'[q] \in Carrying => Dated(loc[q].body, loc[q].at)' BY <1>1, Dating DEF Well, Dates
  <2>3. Orderly' => (pc'[q] = "render" => Soon(loc[q].body, loc[q].at)') BY <1>1, <2>1, Dating DEF Well, Dates
  <2>4. Orderly' => (q \in Requests => Soon(answer[q].page, answer[q].at)') BY <1>1, <2>1, Dating DEF Well, Dates
  <2>5. Orderly' => (pc'[q] \in Holding => gate' = q) BY <2>1 DEF Well, Dates
  <2>6. Orderly' => (pc'[q] \in {"head", "fetch"} => loc'[q].cached = Record')
    <3>1. {"head", "fetch"} \subseteq Holding BY DEF Holding
    <3> QED BY <2>1, <3>1 DEF Well, Dates
  <2> QED BY <2>2, <2>3, <2>4, <2>5, <2>6 DEF Dates, Dated, Soon
<1> QED BY <1>3, <1>4, <1>5, <1>6 DEF Well

--------------------------------
(* The hot cache. *)

LEMMA HotKept ==
    ASSUME PageInv, Typed', Grows, hot' = hot
    PROVE  HotSound'
<1>1. epoch \in Nat /\ epoch' \in Nat /\ epoch' \in 0..MaxEpoch /\ epoch \in 0..MaxEpoch /\ Typed BY DEF PageInv, Typed
<1>2. KeysAhead' BY <1>1 DEF PageInv, HotSound, KeysAhead, Grows
<1>3. EntryCurrent'
  <2>1. CASE epoch' = epoch BY <2>1 DEF PageInv, HotSound, EntryCurrent, Grows
  <2>2. CASE epoch' # epoch
    <3>1. hot["json"][epoch'] = NoEntry BY <1>1, <2>2 DEF PageInv, HotSound, KeysAhead, Grows, Variants
    <3> QED BY <3>1 DEF EntryCurrent
  <2> QED BY <2>1, <2>2
<1>4. EntriesDated'
  <2> SUFFICES ASSUME Orderly', NEW v \in Variants, NEW e \in 0..MaxEpoch
               PROVE  Kept(hot[v][e].body, hot[v][e].expires)'
    BY DEF EntriesDated, Kept
  <2>1. Orderly BY DEF Orderly, Grows
  <2>2. hot[v][e] \in Entry
    <3>1. hot[v] \in [0..MaxEpoch -> Entry] BY <1>1 DEF Typed
    <3> QED BY <3>1
  <2>3. hot[v][e].expires \in Int /\ Kept(hot[v][e].body, hot[v][e].expires)
    BY <2>1, <2>2 DEF PageInv, HotSound, EntriesDated, Entry
  <2> QED BY <1>1, <2>3, Dating
<1> QED BY <1>2, <1>3, <1>4 DEF HotSound

--------------------------------
(* Steps of one actor. *)

\* A step of p leaves the other actors alone, and the gate unless p takes or releases it.
Turn(p) ==
    /\ pc' \in [Actors -> Labels] /\ loc' \in [Actors -> Local] /\ answer' \in [Actors -> Answer]
    /\ \A q \in Actors \ {p} : pc'[q] = pc[q] /\ loc'[q] = loc[q] /\ answer'[q] = answer[q]

GateTurn(p) ==
    /\ gate' = gate \/ (gate = Free /\ gate' = p) \/ (gate = p /\ gate' = Free)
    /\ gate' = p => pc'[p] \in Holding

Alone(p) == Turn(p) /\ GateTurn(p)

\* What a step that neither commits nor remembers anything leaves alone.
Quiet == UNCHANGED <<now, history, upstream, layer, store, epoch, hot, runs>>

\* A step of p that does not begin or end a commit, nor a run.
Plain(p) ==
    /\ pc[p] \notin Committed /\ pc'[p] \notin Committed
    /\ pc'[p] \notin Over => pc[p] \notin Over

LEMMA PendingFinite ==
    ASSUME Typed
    PROVE  IsFiniteSet(Pending) /\ Cardinality(Pending) \in Nat
<1>1. IsFiniteSet(Actors) BY PageCacheAssumption
<1>2. Pending \subseteq Actors BY DEF Pending
<1> QED BY <1>1, <1>2, FS_Subset, FS_CardinalityType

LEMMA SpentFinite ==
    IsFiniteSet(Spent) /\ Cardinality(Spent) \in Nat
<1> DEFINE All == (Requests \cup Sweepers) \X (1..MaxRuns)
<1>1. IsFiniteSet(Requests \cup Sweepers) BY PageCacheAssumption, FS_Subset DEF Actors, Requests
<1>2. IsFiniteSet(1..MaxRuns) BY PageCacheAssumption, FS_Interval
<1>3. IsFiniteSet(All) BY <1>1, <1>2, FS_Product
<1>4. Spent \subseteq All BY DEF Spent
<1> QED BY <1>3, <1>4, FS_Subset, FS_CardinalityType

LEMMA Products ==
    ASSUME NEW a \in Nat, NEW b \in Nat
    PROVE  a * b \in Nat
  OBVIOUS

LEMMA EpochsBounded ==
    MaxEpoch \in Nat
<1>1. IsFiniteSet(Requests \cup Sweepers) BY PageCacheAssumption, FS_Subset DEF Actors, Requests
<1>2. Cardinality(Requests \cup Sweepers) \in Nat BY <1>1, FS_CardinalityType
<1>3. MaxRuns \in Nat /\ MaxUploads \in Nat BY PageCacheAssumption
<1>4. PICK n \in Nat : n = MaxRuns * Cardinality(Requests \cup Sweepers) BY <1>2, <1>3, Products
<1> QED BY <1>3, <1>4 DEF MaxEpoch

\* Fewer or as many commits are due, with as many runs.
LEMMA CountedKept ==
    ASSUME Typed, Typed', Counted, Pending' \subseteq Pending, UNCHANGED <<epoch, acked, runs>>
    PROVE  Counted'
<1>1. Spent' = Spent BY DEF Spent
<1>2. IsFiniteSet(Pending) /\ Cardinality(Pending) \in Nat /\ Cardinality(Spent) \in Nat BY PendingFinite, SpentFinite
<1>3. Cardinality(Pending') <= Cardinality(Pending) /\ Cardinality(Pending') \in Nat
  BY <1>2, FS_Subset, FS_CardinalityType
<1> QED BY <1>1, <1>2, <1>3 DEF Counted, Typed

LEMMA QuietGrows ==
    ASSUME PageInv, NEW p \in Actors, Alone(p), Quiet, Plain(p)
    PROVE  Typed' /\ Grows
<1>1. Typed BY DEF PageInv
<1>2. Typed'
  <2>1. gate' \in Actors \cup {Free} BY <1>1 DEF Typed, Alone, GateTurn
  <2> QED BY <1>1, <2>1 DEF Typed, Alone, Turn, Quiet, history, upstream, layer, store
<1>3. Settled' => Settled BY DEF Settled, Quiet, layer, Alone, Turn, Plain, Committed
<1>4. Grows BY <1>1, <1>3 DEF Grows, Quiet, history, upstream, layer, store, Typed
<1> QED BY <1>2, <1>4

LEMMA QuietKeeps ==
    ASSUME PageInv, NEW p \in Actors, Alone(p), Quiet, Plain(p), Well(p)'
    PROVE  PageInv'
<1>1. Typed /\ Departed /\ Stored /\ GateHeld /\ Counted /\ HotSound /\ RecordDated /\ \A q \in Actors : Well(q)
  BY DEF PageInv
<1>2. Typed' /\ Grows BY QuietGrows
<1>3. Departed' /\ Stored' BY <1>1 DEF Departed, Stored, Quiet, upstream, store
<1>4. GateHeld' BY <1>1 DEF GateHeld, Alone, Turn, GateTurn, Typed
<1>5. Record' = Record BY DEF Record, Quiet, store
<1>6. Counted'
  <2>1. Pending' \subseteq Pending BY DEF Pending, Plain, Alone, Turn
  <2> QED BY <1>1, <1>2, <2>1, CountedKept DEF Quiet, layer
<1>7. HotSound' BY <1>2, HotKept DEF Quiet
<1>8. RecordDated' BY <1>1, <1>5 DEF RecordDated, Dated, Orderly, Quiet, history, upstream, store
<1>9. ASSUME NEW q \in Actors PROVE Well(q)'
  <2>1. CASE q = p BY <2>1
  <2>2. CASE q # p
    <3>1. pc'[q] = pc[q] /\ loc'[q] = loc[q] /\ answer'[q] = answer[q] BY <2>2 DEF Alone, Turn
    <3>2. Orderly' /\ gate = q => gate' = q /\ Record' = Record
      <4>1. q # Free BY PageCacheAssumption
      <4> QED BY <1>5, <2>2, <4>1 DEF Alone, GateTurn
    <3> QED BY <1>1, <1>2, <3>1, <3>2, OthersKeep
  <2> QED BY <2>1, <2>2
<1> QED BY <1>2, <1>3, <1>4, <1>6, <1>7, <1>8, <1>9 DEF PageInv

--------------------------------
(* How an actor goes on. *)

LEMMA Goes ==
    ASSUME Typed, NEW p \in Actors, NEW label \in Labels, Goto(p, label)
    PROVE  /\ pc' \in [Actors -> Labels] /\ pc'[p] = label
           /\ \A q \in Actors \ {p} : pc'[q] = pc[q]
  BY DEF Typed, Goto

LEMMA Ends ==
    ASSUME Typed, NEW p \in Actors, End(p)
    PROVE  /\ pc' \in [Actors -> Labels] /\ pc'[p] = "idle" /\ loc' \in [Actors -> Local] /\ loc'[p] = Blank
           /\ \A q \in Actors \ {p} : pc'[q] = pc[q] /\ loc'[q] = loc[q]
<1>1. "idle" \in Labels /\ Goto(p, "idle") BY DEF Labels, End
<1>2. Blank \in Local
  <2>1. NoPage \in PageRow BY PageCacheAssumption DEF NoPage, PageRow, NoTime, NoGrant
  <2> QED BY <2>1, PageCacheAssumption DEF Blank, Local, NoGrant
<1>3. loc \in [Actors -> Local] /\ loc' = [loc EXCEPT ![p] = Blank] BY DEF Typed, End
<1> QED BY <1>1, <1>2, <1>3, Goes

LEMMA Answers ==
    ASSUME Typed, NEW p \in Actors, NEW b \in 0..MaxVersion, NEW c \in Int, NEW t \in Nat,
           answer' = [answer EXCEPT ![p] = [@ EXCEPT !.page = b, !.ctx = c, !.at = t]]
    PROVE  /\ answer' \in [Actors -> Answer] /\ \A q \in Actors \ {p} : answer'[q] = answer[q]
           /\ answer'[p].page = b /\ answer'[p].ctx = c /\ answer'[p].at = t /\ answer'[p].since = answer[p].since
<1>1. answer \in [Actors -> Answer] BY DEF Typed
<1>2. answer' \in [Actors -> Answer] BY <1>1 DEF Answer
<1>3. \A q \in Actors \ {p} : answer'[q] = answer[q] BY <1>1
<1>4. answer'[p].page = b /\ answer'[p].ctx = c /\ answer'[p].at = t /\ answer'[p].since = answer[p].since
  BY <1>1 DEF Answer
<1> QED BY <1>2, <1>3, <1>4

LEMMA Replies ==
    ASSUME Typed, NEW p \in Actors, NEW b \in 0..MaxVersion, NEW c \in Int, NEW t \in Nat, Reply(p, b, c, t)
    PROVE  /\ Turn(p) /\ pc'[p] = "idle" /\ loc'[p] = Blank
           /\ answer'[p].page = b /\ answer'[p].ctx = c /\ answer'[p].at = t /\ answer'[p].since = answer[p].since
<1>1. End(p) /\ answer' = [answer EXCEPT ![p] = [@ EXCEPT !.page = b, !.ctx = c, !.at = t]] BY DEF Reply
<1>2. /\ answer' \in [Actors -> Answer] /\ \A q \in Actors \ {p} : answer'[q] = answer[q]
      /\ answer'[p].page = b /\ answer'[p].ctx = c /\ answer'[p].at = t /\ answer'[p].since = answer[p].since
  BY <1>1, Answers
<1>3. /\ pc' \in [Actors -> Labels] /\ pc'[p] = "idle" /\ loc' \in [Actors -> Local] /\ loc'[p] = Blank
      /\ \A q \in Actors \ {p} : pc'[q] = pc[q] /\ loc'[q] = loc[q]
  BY <1>1, Ends
<1> QED BY <1>2, <1>3 DEF Turn

LEMMA Releases ==
    ASSUME Typed, NEW p \in Actors, Release(p)
    PROVE  GateTurn(p) /\ gate' # p
  BY PageCacheAssumption DEF Typed, Release, GateTurn

LEMMA KeepsGate ==
    ASSUME PageInv, NEW p \in Actors, UNCHANGED gate, pc[p] \in Holding => pc'[p] \in Holding
    PROVE  GateTurn(p)
<1>1. p # Free BY PageCacheAssumption
<1> QED BY <1>1 DEF PageInv, GateHeld, GateTurn

\* A request that has been answered.
LEMMA AnsweredWell ==
    ASSUME PageInv, Typed', Grows, NEW p \in Actors, NEW b \in 0..MaxVersion, NEW c \in Int, NEW t \in Nat,
           pc'[p] = "idle", loc'[p] = Blank, answer'[p].page = b, answer'[p].ctx = c, answer'[p].at = t,
           answer'[p].since = answer[p].since,
           p \in Json => c >= answer[p].since, Orderly /\ p \in Requests => Soon(b, t)
    PROVE  Well(p)'
<1>1. /\ pc'[p] = "idle" /\ loc'[p] = Blank
      /\ answer'[p].page = b /\ answer'[p].ctx = c /\ answer'[p].at = t /\ answer'[p].since = answer[p].since
  OBVIOUS
<1>2. Well(p) /\ Typed BY DEF PageInv
<1>3. Orderly' => Orderly BY DEF Orderly, Grows
<1>4. Known(p)' BY <1>1, <1>2 DEF Known, Blank, NoPage, Typed, Streaming, Carrying
<1>5. Asks(p)'
  <2>1. answer[p].since \in Nat /\ acked \in Nat /\ acked' \in Int /\ acked' >= acked
    <3>1. answer[p].since \in Nat BY <1>2, Locals
    <3>2. acked \in Nat BY <1>2, Numbers
    <3> QED BY <3>1, <3>2 DEF Grows, Typed
  <2>2. pc'[p] \in {"idle", "parts"} /\ pc'[p] \notin Streaming \ {"parts"} BY <1>1 DEF Streaming
  <2>3. p \in Json => answer[p].since <= acked /\ (answer[p].page # -1 => answer[p].ctx >= answer[p].since)
    BY <1>2 DEF Well, Asks
  <2> QED BY <1>1, <2>1, <2>2, <2>3 DEF Asks
<1>6. Sees(p)' BY <1>1 DEF Sees, Streaming
<1>7. Dates(p)'
  <2>1. Orderly /\ p \in Requests => Soon(b, t)' BY <1>2, Dating
  <2> QED BY <1>1, <1>3, <2>1 DEF Dates, Soon, Carrying, Holding
<1> QED BY <1>4, <1>5, <1>6, <1>7 DEF Well

LEMMA RepliedWell ==
    ASSUME PageInv, Typed', Grows, NEW p \in Actors, NEW b \in 0..MaxVersion, NEW c \in Int, NEW t \in Nat,
           Reply(p, b, c, t), p \in Json => c >= answer[p].since, Orderly /\ p \in Requests => Soon(b, t)
    PROVE  Well(p)'
  BY Replies, AnsweredWell DEF PageInv

\* An earlier answer stays as good as it was.
LEMMA AnswerStays ==
    ASSUME PageInv, Typed', Grows, NEW p \in Actors, answer'[p] = answer[p]
    PROVE  Orderly' /\ p \in Requests => Soon(answer[p].page, answer[p].at)'
<1>1. Orderly' => Orderly BY DEF Orderly, Grows
<1>2. Well(p) /\ Typed BY DEF PageInv
<1>3. Orderly /\ p \in Requests => Soon(answer[p].page, answer[p].at)' BY <1>2, Dating, Locals DEF Well, Dates
<1> QED BY <1>1, <1>3

\* A task that has ended, or a request that was abandoned.
LEMMA LeftWell ==
    ASSUME PageInv, Typed', Grows, NEW p \in Actors, pc'[p] = "idle", loc'[p] = Blank, answer'[p] = answer[p]
    PROVE  Well(p)'
<1>1. pc'[p] = "idle" /\ loc'[p] = Blank OBVIOUS
<1>2. Well(p) /\ Typed BY DEF PageInv
<1>3. Orderly' => Orderly BY DEF Orderly, Grows
<1>4. Known(p)' BY <1>1, <1>2 DEF Known, Blank, NoPage, Typed, Streaming, Carrying
<1>5. Asks(p)'
  <2>1. answer[p].since \in Nat /\ acked \in Nat /\ acked' \in Int /\ acked' >= acked
    <3>1. answer[p].since \in Nat BY <1>2, Locals
    <3>2. acked \in Nat BY <1>2, Numbers
    <3> QED BY <3>1, <3>2 DEF Grows, Typed
  <2>2. pc'[p] \in {"idle", "parts"} /\ pc'[p] \notin Streaming \ {"parts"} BY <1>1 DEF Streaming
  <2>3. p \in Json => answer[p].since <= acked /\ (answer[p].page # -1 => answer[p].ctx >= answer[p].since)
    BY <1>2 DEF Well, Asks
  <2> QED BY <1>1, <2>1, <2>2, <2>3 DEF Asks
<1>6. Sees(p)' BY <1>1 DEF Sees, Streaming
<1>7. Dates(p)'
  <2>1. Orderly' /\ p \in Requests => Soon(answer[p].page, answer[p].at)' BY AnswerStays
  <2> QED BY <1>1, <2>1 DEF Dates, Soon, Carrying, Holding
<1> QED BY <1>4, <1>5, <1>6, <1>7 DEF Well

LEMMA EndedWell ==
    ASSUME PageInv, Typed', Grows, NEW p \in Actors, End(p), answer'[p] = answer[p]
    PROVE  Well(p)'
  BY Ends, LeftWell DEF PageInv

\* An actor that goes on with what it has in hand.
Onward(p) ==
    /\ loc'[p] = loc[p] /\ answer'[p] = answer[p]
    /\ pc'[p] \notin {"idle", "head", "body", "remember", "persisted", "render", "fetch", "put", "stored"}
    /\ pc[p] \notin {"idle", "parts"} /\ pc'[p] # "parts"
    /\ pc'[p] \in Streaming => pc[p] \in Streaming
    /\ pc'[p] \in {"resolve", "resolve_gate", "resolve_locked"} => p \in Requests
    /\ Orderly' /\ pc'[p] \in Holding => gate' = p

LEMMA OnwardWell ==
    ASSUME PageInv, Typed', Grows, NEW p \in Actors, Onward(p)
    PROVE  Well(p)'
<1>1. Well(p) /\ Typed /\ Typed' BY DEF PageInv
<1>2. /\ loc[p].key \in Nat /\ loc[p].ctx \in Nat /\ loc[p].at \in Nat /\ loc[p].body \in 0..MaxVersion
      /\ answer[p].at \in Nat /\ answer[p].since \in Nat /\ loc[p].cached.body \in 0..MaxVersion
  BY <1>1, Locals DEF PageRow
<1>3. /\ now \in Nat /\ now' \in Nat /\ latest \in Nat /\ latest' \in Nat /\ epoch \in Nat /\ epoch' \in Nat
      /\ acked \in Nat /\ acked' \in Nat
  BY <1>1 DEF Typed
<1>4. Known(p)' BY <1>1, <1>2, <1>3 DEF Well, Known, Grows, Onward, Carrying
<1>5. Asks(p)' BY <1>1, <1>2, <1>3 DEF Well, Known, Asks, Grows, Onward
<1>6. Sees(p)' BY <1>1, <1>2, <1>3 DEF Well, Known, Sees, Grows, Onward
<1>7. Dates(p)'
  <2>1. Orderly' /\ p \in Requests => Soon(answer[p].page, answer[p].at)' BY AnswerStays DEF Onward
  <2> QED BY <2>1 DEF Dates, Onward, Carrying
<1> QED BY <1>4, <1>5, <1>6, <1>7 DEF Well

\* The page a request resolved, 0 for none.
LEMMA Resolves ==
    ASSUME Typed, NEW p \in Actors, NEW b \in 0..MaxVersion, NEW t \in Nat, NEW c \in Nat, Resolved(p, b, t, c)
    PROVE  /\ Turn(p)
           /\ \/ Reply(p, b, c, t) /\ pc'[p] = "idle"
              \/ /\ p \in Html /\ pc'[p] = "render" /\ answer'[p] = answer[p]
                 /\ loc'[p].key = loc[p].key /\ loc'[p].body = b /\ loc'[p].at = t
                 /\ loc'[p].cached = loc[p].cached
<1>1. CASE p \in Html /\ b # 0
  <2>1. /\ Goto(p, "render") /\ loc' = [loc EXCEPT ![p].body = b, ![p].at = t, ![p].ctx = c]
        /\ UNCHANGED answer
    BY <1>1 DEF Resolved
  <2>2. "render" \in Labels BY DEF Labels
  <2>3. loc \in [Actors -> Local] /\ answer \in [Actors -> Answer] BY DEF Typed
  <2>4. /\ loc' \in [Actors -> Local] /\ loc'[p].key = loc[p].key /\ loc'[p].body = b /\ loc'[p].at = t
        /\ loc'[p].cached = loc[p].cached
        /\ \A q \in Actors \ {p} : loc'[q] = loc[q]
    BY <2>1, <2>3 DEF Local
  <2> QED BY <1>1, <2>1, <2>2, <2>3, <2>4, Goes DEF Turn
<1>2. CASE ~(p \in Html /\ b # 0)
  <2>1. Reply(p, b, c, t) BY <1>2 DEF Resolved
  <2> QED BY <2>1, Replies
<1> QED BY <1>1, <1>2

LEMMA ResolvedWell ==
    ASSUME PageInv, Typed', Grows, NEW p \in Actors, NEW b \in 0..MaxVersion, NEW t \in Nat, NEW c \in Nat,
           Resolved(p, b, t, c), b <= latest, t <= now,
           p \in Json => c >= answer[p].since, Orderly /\ p \in Requests => Soon(b, t)
    PROVE  Well(p)'
<1>1. Well(p) /\ Typed BY DEF PageInv
<1>2. CASE Reply(p, b, c, t) BY <1>2, RepliedWell
<1>3. CASE /\ p \in Html /\ pc'[p] = "render" /\ answer'[p] = answer[p]
           /\ loc'[p].key = loc[p].key /\ loc'[p].body = b /\ loc'[p].at = t /\ loc'[p].cached = loc[p].cached
  <2>1. p \in Requests /\ p \notin Json BY <1>3, PageCacheAssumption DEF Requests
  <2>2. /\ loc[p].key \in Nat /\ loc[p].key <= epoch /\ answer[p].at \in Nat
        /\ loc[p].cached.body \in Int /\ loc[p].cached.body <= latest
    BY <1>1, Locals DEF Well, Known, PageRow
  <2>3. Known(p)'
    <3>1. /\ now \in Nat /\ now' \in Nat /\ latest \in Nat /\ latest' \in Nat /\ epoch \in Nat /\ epoch' \in Nat
          /\ now' >= now /\ latest' >= latest /\ epoch' >= epoch
      BY <1>1 DEF Typed, Grows
    <3>2. loc[p].key <= epoch' BY <2>2, <3>1
    <3>3. t <= now' /\ b <= latest' /\ loc[p].cached.body <= latest' BY <2>2, <3>1
    <3> QED BY <1>3, <3>2, <3>3 DEF Known, Streaming, Carrying
  <2>4. Asks(p)' /\ Sees(p)' BY <1>3, <2>1 DEF Asks, Sees, Streaming
  <2>5. Dates(p)'
    <3>1. Orderly' => Orderly BY DEF Orderly, Grows
    <3>2. Orderly' => Soon(answer[p].page, answer[p].at)' BY <1>3, <2>1, AnswerStays
    <3>3. Orderly => Soon(b, t)' BY <1>1, <2>1, Dating
    <3> QED BY <1>3, <3>1, <3>2, <3>3 DEF Dates, Soon, Carrying, Holding
  <2> QED BY <2>3, <2>4, <2>5 DEF Well
<1> QED BY <1>1, <1>2, <1>3, Resolves

--------------------------------
(* Dates and lifetimes. *)

LEMMA RecordIs ==
    ASSUME Typed, Stored
    PROVE  /\ Record \in PageRow /\ Record.body = page.body
           /\ page.body <= latest /\ Record.body \in 0..MaxVersion
           /\ Record # NoPage => page # NoPage /\ page.body >= 1
<1>1. page \in PageRow /\ overlay \in OverlayRow BY DEF Typed
<1>2. Record \in PageRow /\ Record.body = page.body BY <1>1 DEF Record, PageRow, OverlayRow
<1>3. Record # NoPage => page # NoPage BY DEF Record
<1> QED BY <1>2, <1>3 DEF Stored, PageRow

LEMMA Lifetime ==
    ASSUME Typed, NEW record \in PageRow
    PROVE  Freshness(record) \in Int /\ Freshness(record) <= TTL /\ Expiry(record) \in Int
<1>1. TTL \in Int /\ record.fresh \in Int /\ record.fetched \in Int BY PageCacheAssumption DEF PageRow
<1> QED BY <1>1 DEF Freshness, Expiry

\* A page that may be answered is not too old, and its rendering will not be.
LEMMA RecordSoon ==
    ASSUME Typed, Departed, NEW record \in PageRow, Dated(record.body, record.fetched)
    PROVE  /\ MaxStale # 0 /\ (IsFresh(record) \/ ServableStale(record)) => Soon(record.body, now)
           /\ Kept(record.body, Expiry(record))
<1>1. PICK ttl \in Int : ttl = TTL BY PageCacheAssumption
<1>2. PICK stale \in Nat : stale = MaxStale BY PageCacheAssumption
<1>3. PICK n \in Int : n = now BY DEF Typed
<1>4. PICK f \in Int : f = record.fetched /\ f <= n BY <1>3 DEF PageRow, Dated
<1>5. PICK l \in Int : l = Freshness(record) /\ l <= ttl BY <1>1, Lifetime
<1>6. Expiry(record) = f + l BY <1>4, <1>5 DEF Expiry
<1>7. Kept(record.body, Expiry(record))
  <2>1. f + l <= n + ttl BY <1>4, <1>5
  <2>2. ASSUME record.body \in 1..MaxVersion, left[record.body] # NoTime PROVE f + l <= left[record.body] + ttl
    <3>1. PICK d \in Int : d = left[record.body] BY <2>2 DEF Typed, NoTime
    <3>2. f <= d BY <1>4, <2>2, <3>1 DEF Dated
    <3> QED BY <1>5, <3>1, <3>2
  <2> QED BY <1>1, <1>3, <1>6, <2>1, <2>2 DEF Kept
<1>8. ASSUME MaxStale # 0, IsFresh(record) \/ ServableStale(record) PROVE Soon(record.body, now)
  <2>1. n < f + l + stale BY <1>2, <1>3, <1>4, <1>5, <1>6, <1>8 DEF IsFresh, ServableStale
  <2>2. ASSUME record.body \in 1..MaxVersion, left[record.body] # NoTime PROVE n - left[record.body] < ttl + stale
    <3>1. PICK d \in Int : d = left[record.body] BY <2>2 DEF Typed, NoTime
    <3>2. f <= d BY <1>4, <2>2, <3>1 DEF Dated
    <3> QED BY <1>5, <2>1, <3>1, <3>2
  <2> QED BY <1>1, <1>2, <1>3, <2>2 DEF Soon
<1> QED BY <1>7, <1>8

--------------------------------
(* Steps that neither commit nor remember anything. *)

LEMMA OnwardKeeps ==
    ASSUME PageInv, NEW p \in Actors, NEW label \in Labels, Quiet, Goto(p, label), UNCHANGED <<loc, answer>>,
           GateTurn(p), Plain(p), Onward(p)
    PROVE  PageInv'
<1>1. Turn(p) BY Goes DEF PageInv, Turn, Typed
<1>2. Typed' /\ Grows BY <1>1, QuietGrows DEF Alone
<1> QED BY <1>1, <1>2, OnwardWell, QuietKeeps DEF Alone

LEMMA ReplyKeeps ==
    ASSUME PageInv, NEW p \in Actors, NEW b \in 0..MaxVersion, NEW c \in Int, NEW t \in Nat, Quiet, Reply(p, b, c, t),
           GateTurn(p), pc[p] \notin Committed,
           p \in Json => c >= answer[p].since, Orderly /\ p \in Requests => Soon(b, t)
    PROVE  PageInv'
<1>1. Turn(p) /\ pc'[p] = "idle" BY Replies DEF PageInv
<1>2. Plain(p) BY <1>1 DEF Plain, Committed, Over
<1>3. Typed' /\ Grows BY <1>1, <1>2, QuietGrows DEF Alone
<1> QED BY <1>1, <1>2, <1>3, RepliedWell, QuietKeeps DEF Alone

LEMMA ResolvedKeeps ==
    ASSUME PageInv, NEW p \in Actors, NEW b \in 0..MaxVersion, NEW t \in Nat, NEW c \in Nat, Quiet, Resolved(p, b, t, c),
           GateTurn(p), pc[p] \notin Committed, b <= latest, t <= now,
           p \in Json => c >= answer[p].since, Orderly /\ p \in Requests => Soon(b, t)
    PROVE  PageInv'
<1>1. Turn(p) /\ pc'[p] \in {"idle", "render"} BY Resolves DEF PageInv
<1>2. Plain(p) BY <1>1 DEF Plain, Committed, Over
<1>3. Typed' /\ Grows BY <1>1, <1>2, QuietGrows DEF Alone
<1>4. Well(p)' BY <1>3, ResolvedWell
<1> QED BY <1>1, <1>2, <1>4, QuietKeeps DEF Alone

LEMMA EndKeeps ==
    ASSUME PageInv, NEW p \in Actors, Quiet, End(p), UNCHANGED answer, GateTurn(p), pc[p] \notin Committed
    PROVE  PageInv'
<1>1. Turn(p) /\ pc'[p] = "idle" BY Ends DEF PageInv, Turn, Typed
<1>2. Plain(p) BY <1>1 DEF Plain, Committed, Over
<1>3. Typed' /\ Grows BY <1>1, <1>2, QuietGrows DEF Alone
<1> QED BY <1>1, <1>2, <1>3, EndedWell, QuietKeeps DEF Alone

\* A request of a virtual route that is past its first step is in good time for the uploads before it.
LEMMA InTime ==
    ASSUME PageInv, NEW p \in Actors
    PROVE  /\ Typed /\ Well(p) /\ Departed /\ Stored
           /\ p \in Json => hosted >= answer[p].since /\ acked >= answer[p].since
           /\ p \in Json /\ pc[p] \notin {"idle", "parts"} => loc[p].ctx >= answer[p].since
<1>1. Typed /\ Well(p) /\ Departed /\ Stored BY DEF PageInv
<1>2. answer[p].since \in Nat /\ loc[p].ctx \in Nat /\ hosted \in Nat /\ acked \in 0..hosted
  BY <1>1, Locals, Numbers DEF Typed
<1> QED BY <1>1, <1>2 DEF Well, Asks

\* No page is never too old.
LEMMA NothingSoon ==
    ASSUME Typed
    PROVE  Soon(0, now) /\ 0 \in 0..MaxVersion /\ now \in Nat /\ 0 <= latest /\ now <= now
  BY Numbers DEF Soon, Typed

LEMMA MissingKeeps ==
    ASSUME PageInv, NEW p \in Actors, Quiet, Missing(p), GateTurn(p), gate' # p, pc[p] \in {"check", "locked", "head"}
    PROVE  PageInv'
<1>1. Typed /\ Well(p) BY DEF PageInv
<1>2. p \in Json /\ p \in Requests BY <1>1 DEF Well, Known, Streaming, Requests
<1>3. CASE loc[p].ctx = 0
  <2>1. Reply(p, 0, 0, now) BY <1>3 DEF Missing
  <2>2. 0 >= answer[p].since BY <1>2, <1>3, InTime
  <2>3. pc[p] \notin Committed BY DEF Committed
  <2> QED BY <1>1, <2>1, <2>2, <2>3, NothingSoon, ReplyKeeps
<1>4. CASE loc[p].ctx # 0
  <2>1. Goto(p, "resolve") /\ UNCHANGED <<loc, answer>> BY <1>4 DEF Missing
  <2>2. "resolve" \in Labels BY DEF Labels
  <2>3. pc'[p] = "resolve" BY <1>1, <2>1, <2>2, Goes
  <2>4. Plain(p) /\ Onward(p) BY <1>2, <2>1, <2>3 DEF Plain, Onward, Committed, Over, Streaming, Holding
  <2> QED BY <2>1, <2>2, <2>4, OnwardKeeps
<1> QED BY <1>3, <1>4

LEMMA NotHolding ==
    ASSUME PageInv, NEW p \in Actors, pc[p] \notin Holding
    PROVE  gate # p
  BY PageCacheAssumption DEF PageInv, GateHeld

\* What the stored page and the hot cache may answer.
LEMMA RecordAnswers ==
    ASSUME PageInv
    PROVE  /\ Record \in PageRow /\ Record.body \in 0..MaxVersion /\ Record.body <= latest
           /\ Orderly /\ (IsFresh(Record) \/ ServableStale(Record)) => Soon(Record.body, now)
<1>1. Typed /\ Stored /\ Departed /\ RecordDated BY DEF PageInv
<1>2. Record \in PageRow /\ Record.body \in 0..MaxVersion /\ Record.body = page.body /\ page.body <= latest
      /\ (Record # NoPage => page # NoPage)
  BY <1>1, RecordIs
<1>3. ASSUME Orderly, IsFresh(Record) \/ ServableStale(Record) PROVE Soon(Record.body, now)
  <2>1. Record # NoPage BY <1>3 DEF IsFresh, ServableStale
  <2>2. Dated(Record.body, Record.fetched) BY <1>1, <1>2, <1>3, <2>1 DEF RecordDated
  <2> QED BY <1>1, <1>2, <1>3, <2>2, RecordSoon DEF Orderly
<1> QED BY <1>2, <1>3

LEMMA HotAnswers ==
    ASSUME PageInv, NEW variant \in Variants, HotFresh(variant)
    PROVE  LET entry == hot[variant][epoch]
           IN  /\ entry \in Entry /\ entry.body \in 0..MaxVersion /\ entry.ctx \in Int
               /\ Orderly => Soon(entry.body, now)
               /\ variant = "json" => entry.ctx >= acked
<1>1. Typed /\ HotSound /\ epoch \in 0..MaxEpoch BY DEF PageInv, Typed
<1>2. PICK entry \in Entry : entry = hot[variant][epoch]
  <2>1. hot[variant] \in [0..MaxEpoch -> Entry] BY <1>1 DEF Typed
  <2> QED BY <1>1, <2>1
<1>3. now < entry.expires /\ entry.expires \in Int /\ entry.body \in 0..MaxVersion /\ entry.ctx \in Int
  BY <1>2 DEF HotFresh, Entry
<1>4. variant = "json" => entry.ctx >= acked
  <2>1. entry # NoEntry BY <1>1, <1>3, Numbers DEF NoEntry, NoTime
  <2> QED BY <1>1, <1>2, <2>1 DEF HotSound, EntryCurrent
<1>5. ASSUME Orderly PROVE Soon(entry.body, now)
  <2>1. Kept(entry.body, entry.expires) BY <1>1, <1>2, <1>5 DEF HotSound, EntriesDated
  <2>2. ASSUME entry.body \in 1..MaxVersion, left[entry.body] # NoTime
        PROVE  now - left[entry.body] < TTL + MaxStale
    <3>1. PICK d \in Int : d = left[entry.body] BY <1>1, <2>2 DEF Typed, NoTime
    <3>2. PICK ttl \in Int : ttl = TTL BY <1>1, Numbers
    <3>3. entry.expires <= d + ttl BY <2>1, <2>2, <3>1, <3>2 DEF Kept
    <3>4. MaxStale \in Nat /\ now \in Nat BY <1>1, Numbers
    <3>5. now - d < ttl + MaxStale BY <1>3, <3>3, <3>4
    <3> QED BY <3>1, <3>2, <3>5
  <2> QED BY <1>1, <2>2, Numbers DEF Soon
<1> QED BY <1>2, <1>3, <1>4, <1>5

--------------------------------
(* stream_detail: the steps of this kind. *)

LEMMA CheckNegativeKeeps ==
    ASSUME PageInv, NEW p \in Actors, CheckNegative(p)
    PROVE  PageInv'
<1>1. pc[p] = "check" /\ Missing(p) /\ UNCHANGED gate /\ Quiet BY DEF CheckNegative, Quiet, memory
<1>2. gate # p BY <1>1, NotHolding DEF Holding
<1>3. GateTurn(p) BY <1>1, <1>2, KeepsGate DEF Holding
<1> QED BY <1>1, <1>2, <1>3, MissingKeeps

LEMMA CheckMissKeeps ==
    ASSUME PageInv, NEW p \in Actors, CheckMiss(p)
    PROVE  PageInv'
<1>1. pc[p] = "check" /\ Goto(p, "gate") /\ UNCHANGED <<loc, answer>> /\ UNCHANGED gate /\ Quiet
  BY DEF CheckMiss, Quiet, memory
<1>2. pc'[p] = "gate" /\ "gate" \in Labels BY <1>1, Goes DEF PageInv, Labels
<1>3. Plain(p) /\ Onward(p) BY <1>1, <1>2 DEF Plain, Onward, Committed, Over, Streaming, Holding
<1>4. GateTurn(p) BY <1>1, KeepsGate DEF Holding
<1> QED BY <1>1, <1>2, <1>3, <1>4, OnwardKeeps

LEMMA LockKeeps ==
    ASSUME PageInv, NEW p \in Actors, Lock(p)
    PROVE  PageInv'
<1>1. /\ pc[p] \in {"gate", "resolve_gate"} /\ gate = Free /\ gate' = p
      /\ UNCHANGED <<loc, answer>> /\ Quiet
  BY DEF Lock, Quiet, memory
<1>2. Typed /\ Well(p) BY DEF PageInv
<1>3. PICK label \in {"locked", "resolve_locked"} : Goto(p, label) /\ (label = "locked" <=> pc[p] = "gate") BY DEF Lock
<1>4. pc'[p] = label /\ label \in Labels
  <2>1. label \in Labels BY DEF Labels
  <2> QED BY <1>2, <1>3, <2>1, Goes
<1>5. p \in Requests BY <1>1, <1>2 DEF Well, Known, Requests, Streaming
<1>6. Plain(p) /\ Onward(p) BY <1>1, <1>3, <1>4, <1>5 DEF Plain, Onward, Committed, Over, Streaming, Holding
<1>7. GateTurn(p) BY <1>1, <1>4 DEF GateTurn, Holding
<1> QED BY <1>1, <1>3, <1>4, <1>6, <1>7, OnwardKeeps

LEMMA LockedHotKeeps ==
    ASSUME PageInv, NEW p \in Actors, LockedHot(p)
    PROVE  PageInv'
<1>1. pc[p] = "locked" /\ HotFresh("json") /\ Release(p) /\ Quiet BY DEF LockedHot, Quiet, memory
<1>2. PICK entry \in Entry : entry = hot["json"][epoch] BY <1>1, HotAnswers DEF Variants
<1>3. Reply(p, entry.body, entry.ctx, now) BY <1>2 DEF LockedHot
<1>4. /\ entry.body \in 0..MaxVersion /\ entry.ctx \in Int /\ (Orderly => Soon(entry.body, now)) /\ entry.ctx >= acked
  BY <1>1, <1>2, HotAnswers DEF Variants
<1>5. p \in Json => entry.ctx >= answer[p].since BY <1>4, InTime, Locals, Numbers
<1>6. GateTurn(p) /\ pc[p] \notin Committed /\ now \in Nat BY <1>1, Releases, Numbers DEF PageInv, Committed
<1> QED BY <1>1, <1>3, <1>4, <1>5, <1>6, ReplyKeeps

LEMMA LockedNegativeKeeps ==
    ASSUME PageInv, NEW p \in Actors, LockedNegative(p)
    PROVE  PageInv'
<1>1. pc[p] = "locked" /\ Missing(p) /\ Release(p) /\ Quiet BY DEF LockedNegative, Quiet, memory
<1> QED BY <1>1, Releases, MissingKeeps DEF PageInv

LEMMA HeadNotFoundKeeps ==
    ASSUME PageInv, NEW p \in Actors, HeadNotFound(p)
    PROVE  PageInv'
<1>1. pc[p] = "head" /\ Missing(p) /\ Release(p) /\ Quiet BY DEF HeadNotFound, Quiet
<1> QED BY <1>1, Releases, MissingKeeps DEF PageInv

LEMMA StreamingPartsKeeps ==
    ASSUME PageInv, NEW p \in Actors, StreamingParts(p)
    PROVE  PageInv'
<1>1. /\ pc[p] = "parts" /\ loc' = [loc EXCEPT ![p].ctx = hosted] /\ Goto(p, "check")
      /\ UNCHANGED <<gate, answer>> /\ Quiet
  BY DEF StreamingParts, Quiet, memory
<1>2. Typed /\ Well(p) /\ hosted \in Nat /\ acked \in 0..hosted /\ answer[p].since \in Nat
  BY Numbers, Locals DEF PageInv, Typed
<1>3. "check" \in Labels BY DEF Labels
<1>4. /\ loc' \in [Actors -> Local] /\ loc'[p].key = loc[p].key /\ loc'[p].body = loc[p].body
      /\ loc'[p].at = loc[p].at /\ loc'[p].ctx = hosted /\ loc'[p].cached = loc[p].cached
      /\ \A q \in Actors \ {p} : loc'[q] = loc[q]
  BY <1>1, <1>2 DEF Typed, Local
<1>5. Turn(p) /\ pc'[p] = "check" BY <1>1, <1>2, <1>3, <1>4, Goes DEF Turn, Typed
<1>6. GateTurn(p) /\ Plain(p) BY <1>1, <1>5, KeepsGate DEF Holding, Plain, Committed, Over
<1>7. Typed' /\ Grows BY <1>1, <1>5, <1>6, QuietGrows DEF Alone
<1>8. Well(p)'
  <2>1. Known(p)' BY <1>1, <1>2, <1>4, <1>5 DEF Well, Known, Quiet, upstream, Streaming, Carrying
  <2>2. Asks(p)' BY <1>1, <1>2, <1>4, <1>5 DEF Well, Asks, Quiet, layer
  <2>3. Sees(p)' BY <1>1, <1>4, <1>5 DEF Sees, Quiet, layer
  <2>4. Dates(p)'
    <3>1. Orderly' /\ p \in Requests => Soon(answer[p].page, answer[p].at)' BY <1>1, <1>7, AnswerStays
    <3> QED BY <1>5, <3>1 DEF Dates, Carrying, Holding
  <2> QED BY <2>1, <2>2, <2>3, <2>4 DEF Well
<1> QED BY <1>1, <1>5, <1>6, <1>8, QuietKeeps DEF Alone

LEMMA LockedMissKeeps ==
    ASSUME PageInv, NEW p \in Actors, LockedMiss(p)
    PROVE  PageInv'
<1>1. /\ pc[p] = "locked" /\ loc' = [loc EXCEPT ![p].at = now, ![p].cached = Record] /\ Goto(p, "head")
      /\ UNCHANGED <<gate, answer>> /\ Quiet
  BY DEF LockedMiss, Quiet, memory
<1>2. Typed /\ Well(p) /\ now \in Nat /\ Record \in PageRow /\ Record.body = page.body /\ Record.body <= latest
  BY Numbers, RecordIs DEF PageInv
<1>3. "head" \in Labels BY DEF Labels
<1>4. /\ loc' \in [Actors -> Local] /\ loc'[p].key = loc[p].key /\ loc'[p].body = loc[p].body
      /\ loc'[p].at = now /\ loc'[p].ctx = loc[p].ctx /\ loc'[p].cached = Record
      /\ \A q \in Actors \ {p} : loc'[q] = loc[q]
  BY <1>1, <1>2 DEF Typed, Local
<1>5. Turn(p) /\ pc'[p] = "head" BY <1>1, <1>2, <1>3, <1>4, Goes DEF Turn, Typed
<1>6. GateTurn(p) /\ Plain(p) BY <1>1, <1>5, KeepsGate DEF Holding, Plain, Committed, Over
<1>7. Typed' /\ Grows BY <1>1, <1>5, <1>6, QuietGrows DEF Alone
<1>8. Well(p)'
  <2>1. Known(p)' BY <1>1, <1>2, <1>4, <1>5 DEF Well, Known, Quiet, upstream, Streaming, Carrying
  <2>2. Asks(p)' BY <1>1, <1>2, <1>4, <1>5 DEF Well, Asks, Quiet, layer, Streaming
  <2>3. Sees(p)' BY <1>1, <1>2, <1>4, <1>5, <1>7 DEF Well, Sees, Quiet, layer, store, Streaming, Grows
  <2>4. Dates(p)'
    <3>1. Orderly' /\ p \in Requests => Soon(answer[p].page, answer[p].at)' BY <1>1, <1>7, AnswerStays
    <3>2. Record' = Record /\ (Orderly' => Orderly) BY <1>1 DEF Record, Quiet, store, history, Orderly
    <3>3. Orderly => gate = p BY <1>1, <1>2 DEF Well, Dates, Holding
    <3> QED BY <1>1, <1>4, <1>5, <3>1, <3>2, <3>3 DEF Dates, Carrying
  <2> QED BY <2>1, <2>2, <2>3, <2>4 DEF Well
<1> QED BY <1>1, <1>5, <1>6, <1>8, QuietKeeps DEF Alone

\* The upstream serves the last version it published, and has not left it.
LEMMA Served ==
    ASSUME PageInv, up # 0, NEW t \in Nat, t <= now
    PROVE  up \in 0..MaxVersion /\ up = latest /\ up >= 1 /\ up <= latest /\ page.body <= up /\ Dated(up, t)
<1>1. Typed /\ Departed /\ Stored BY DEF PageInv
<1>2. up = latest /\ latest \in 1..MaxVersion BY <1>1 DEF Typed
<1>3. up \in 0..MaxVersion /\ up >= 1 BY <1>1, <1>2, Numbers
<1> QED BY <1>1, <1>2, <1>3 DEF Departed, Stored, Dated

LEMMA HeadPageKeeps ==
    ASSUME PageInv, NEW p \in Actors, HeadPage(p)
    PROVE  PageInv'
<1>1. PICK grant \in Grants, live \in BOOLEAN :
        loc' = [loc EXCEPT ![p].body = up, ![p].fresh = grant, ![p].live = live]
  BY DEF HeadPage
<1>2. pc[p] = "head" /\ up # 0 /\ Goto(p, "body") /\ UNCHANGED <<gate, answer>> /\ Quiet BY DEF HeadPage, Quiet, memory
<1>3. Typed /\ Well(p) /\ loc[p].at \in Nat /\ loc[p].at <= now BY Locals DEF PageInv, Well, Known
<1>4. up \in 0..MaxVersion /\ up = latest /\ up >= 1 /\ page.body <= up /\ Dated(up, loc[p].at) BY <1>2, <1>3, Served
<1>5. grant \in Int BY PageCacheAssumption DEF NoGrant
<1>6. /\ loc' \in [Actors -> Local] /\ loc'[p].key = loc[p].key /\ loc'[p].body = up
      /\ loc'[p].at = loc[p].at /\ loc'[p].ctx = loc[p].ctx /\ loc'[p].cached = loc[p].cached
      /\ \A q \in Actors \ {p} : loc'[q] = loc[q]
  <2>1. loc \in [Actors -> Local] /\ up \in 0..MaxVersion BY <1>3, <1>4 DEF Typed
  <2>2. loc' \in [Actors -> Local] BY <1>1, <1>5, <2>1 DEF Local
  <2>3. loc[p] \in Local BY <2>1
  <2>4. /\ loc'[p].key = loc[p].key /\ loc'[p].body = up /\ loc'[p].at = loc[p].at /\ loc'[p].ctx = loc[p].ctx
        /\ loc'[p].cached = loc[p].cached
    BY <1>1, <2>1, <2>3 DEF Local
  <2>5. \A q \in Actors \ {p} : loc'[q] = loc[q] BY <1>1, <2>1
  <2> QED BY <2>2, <2>4, <2>5
<1>7. "body" \in Labels BY DEF Labels
<1>8. Turn(p) /\ pc'[p] = "body" BY <1>2, <1>3, <1>6, <1>7, Goes DEF Turn, Typed
<1>9. GateTurn(p) /\ Plain(p) BY <1>2, <1>8, KeepsGate DEF Holding, Plain, Committed, Over
<1>10. Typed' /\ Grows BY <1>2, <1>8, <1>9, QuietGrows DEF Alone
<1>11. Well(p)'
  <2>1. Known(p)' BY <1>2, <1>3, <1>4, <1>6, <1>8 DEF Well, Known, Quiet, upstream, Streaming, Carrying
  <2>2. Asks(p)' BY <1>2, <1>3, <1>6, <1>8 DEF Well, Asks, Quiet, layer, Streaming
  <2>3. Sees(p)' BY <1>2, <1>3, <1>4, <1>6, <1>8, <1>10 DEF Well, Sees, Quiet, layer, store, Streaming, Grows
  <2>4. Dates(p)'
    <3>1. Orderly' /\ p \in Requests => Soon(answer[p].page, answer[p].at)' BY <1>2, <1>10, AnswerStays
    <3>2. Orderly' => gate' = p BY <1>2, <1>3 DEF Well, Dates, Holding, Orderly, Quiet, history
    <3>3. Dated(loc[p].body, loc[p].at)' BY <1>2, <1>4, <1>6 DEF Dated, Quiet, upstream
    <3> QED BY <1>8, <3>1, <3>2, <3>3 DEF Dates
  <2> QED BY <2>1, <2>2, <2>3, <2>4 DEF Well
<1> QED BY <1>2, <1>8, <1>9, <1>11, QuietKeeps DEF Alone

\* A request of a virtual route gives up the gate and falls back to the buffered path.
LEMMA FallsBack ==
    ASSUME PageInv, NEW p \in Actors, pc[p] \in {"head", "body"}, Release(p), Goto(p, "resolve"),
           UNCHANGED <<loc, answer>>, Quiet
    PROVE  PageInv'
<1>1. Typed /\ Well(p) BY DEF PageInv
<1>2. p \in Requests BY <1>1 DEF Well, Known, Streaming, Requests
<1>3. pc'[p] = "resolve" /\ "resolve" \in Labels BY <1>1, Goes DEF Labels
<1>4. GateTurn(p) BY <1>1, Releases
<1>5. Plain(p) /\ Onward(p) BY <1>2, <1>3 DEF Plain, Onward, Committed, Over, Streaming, Holding
<1> QED BY <1>3, <1>4, <1>5, OnwardKeeps

LEMMA HeadFallsBack ==
    ASSUME PageInv, NEW p \in Actors, HeadFails(p)
    PROVE  PageInv'
  BY FallsBack DEF HeadFails, Quiet, memory

LEMMA BodyFailsKeeps ==
    ASSUME PageInv, NEW p \in Actors, BodyFails(p)
    PROVE  PageInv'
<1>1. pc[p] = "body" /\ Release(p) /\ UNCHANGED answer /\ Quiet BY DEF BodyFails, Quiet, memory
<1>2. GateTurn(p) /\ pc[p] \notin Committed BY <1>1, Releases DEF PageInv, Committed
<1>3. CASE End(p) BY <1>1, <1>2, <1>3, EndKeeps
<1>4. CASE Goto(p, "resolve") /\ UNCHANGED loc BY <1>1, <1>4, FallsBack
<1> QED BY <1>3, <1>4 DEF BodyFails

--------------------------------
(* resolve_detail_page and fetch_and_store: the steps of this kind. *)

\* What cached_detail found may be answered.
LEMMA CachedAnswers ==
    ASSUME PageInv
    PROVE  LET b == IF IsFresh(Record) THEN Record.body ELSE 0
           IN  b \in 0..MaxVersion /\ b <= latest /\ (Orderly => Soon(b, now))
<1>1. Typed BY DEF PageInv
<1> QED BY <1>1, RecordAnswers, NothingSoon

LEMMA ResolveCachedKeeps ==
    ASSUME PageInv, NEW p \in Actors, ResolveCached(p)
    PROVE  PageInv'
<1>1. pc[p] = "resolve" /\ UNCHANGED gate /\ Quiet BY DEF ResolveCached, Quiet, memory
<1>2. Typed /\ now \in Nat /\ hosted \in Nat /\ now <= now BY Numbers DEF PageInv
<1>3. PICK b \in 0..MaxVersion : /\ b <= latest /\ (Orderly => Soon(b, now))
                                 /\ Resolved(p, b, now, Context(p))
  BY CachedAnswers DEF ResolveCached
<1>4. Context(p) \in Nat /\ (p \in Json => Context(p) >= answer[p].since) BY <1>2, InTime DEF Context
<1>5. GateTurn(p) /\ pc[p] \notin Committed BY <1>1, KeepsGate DEF Holding, Committed
<1> QED BY <1>1, <1>2, <1>3, <1>4, <1>5, ResolvedKeeps

LEMMA ResolveMissKeeps ==
    ASSUME PageInv, NEW p \in Actors, ResolveMiss(p)
    PROVE  PageInv'
<1>1. /\ pc[p] = "resolve" /\ loc' = [loc EXCEPT ![p].ctx = Context(p)] /\ Goto(p, "resolve_gate")
      /\ UNCHANGED <<gate, answer>> /\ Quiet
  BY DEF ResolveMiss, Quiet, memory
<1>2. Typed /\ Well(p) /\ hosted \in Nat BY Numbers DEF PageInv
<1>3. Context(p) \in Nat /\ (p \in Json => Context(p) >= answer[p].since) BY <1>2, InTime DEF Context
<1>4. /\ loc' \in [Actors -> Local] /\ loc'[p].key = loc[p].key /\ loc'[p].body = loc[p].body
      /\ loc'[p].at = loc[p].at /\ loc'[p].ctx = Context(p) /\ loc'[p].cached = loc[p].cached
      /\ \A q \in Actors \ {p} : loc'[q] = loc[q]
  BY <1>1, <1>2, <1>3 DEF Typed, Local
<1>5. "resolve_gate" \in Labels BY DEF Labels
<1>6. Turn(p) /\ pc'[p] = "resolve_gate" BY <1>1, <1>2, <1>4, <1>5, Goes DEF Turn, Typed
<1>7. GateTurn(p) /\ Plain(p) BY <1>1, <1>6, KeepsGate DEF Holding, Plain, Committed, Over
<1>8. Typed' /\ Grows BY <1>1, <1>6, <1>7, QuietGrows DEF Alone
<1>9. Well(p)'
  <2>1. Known(p)' BY <1>1, <1>2, <1>4, <1>6 DEF Well, Known, Quiet, upstream, Streaming, Carrying
  <2>2. Asks(p)' BY <1>1, <1>2, <1>3, <1>4, <1>6 DEF Well, Asks, Quiet, layer, Streaming
  <2>3. Sees(p)' BY <1>6 DEF Sees, Streaming
  <2>4. Dates(p)'
    <3>1. Orderly' /\ p \in Requests => Soon(answer[p].page, answer[p].at)' BY <1>1, <1>8, AnswerStays
    <3> QED BY <1>6, <3>1 DEF Dates, Carrying, Holding
  <2> QED BY <2>1, <2>2, <2>3, <2>4 DEF Well
<1> QED BY <1>1, <1>6, <1>7, <1>9, QuietKeeps DEF Alone

\* The context a request under the gate answers with.
LEMMA ContextInTime ==
    ASSUME PageInv, NEW p \in Actors, pc[p] \notin {"idle", "parts"}
    PROVE  loc[p].ctx \in Nat /\ (p \in Json => loc[p].ctx >= answer[p].since)
<1>1. Typed BY DEF PageInv
<1> QED BY <1>1, InTime, Locals

LEMMA ResolveLockedKeeps ==
    ASSUME PageInv, NEW p \in Actors, ResolveLocked(p)
    PROVE  PageInv'
<1>1. pc[p] = "resolve_locked" /\ Quiet BY DEF ResolveLocked, Quiet, memory
<1>2. Typed /\ Well(p) /\ now \in Nat /\ now <= now /\ pc[p] \notin Committed BY <1>1, Numbers DEF PageInv, Committed
<1>3. CASE IsFresh(Record) \/ NegativeFresh
  <2>1. PICK b \in 0..MaxVersion : /\ b <= latest /\ (Orderly => Soon(b, now))
                                   /\ Resolved(p, b, now, loc[p].ctx)
    BY <1>3, CachedAnswers DEF ResolveLocked
  <2>2. Release(p) BY <1>3 DEF ResolveLocked
  <2>3. GateTurn(p) BY <1>2, <2>2, Releases
  <2>4. loc[p].ctx \in Nat /\ (p \in Json => loc[p].ctx >= answer[p].since) BY <1>1, ContextInTime
  <2> QED BY <1>1, <1>2, <2>1, <2>3, <2>4, ResolvedKeeps
<1>4. CASE ~(IsFresh(Record) \/ NegativeFresh)
  <2>1. Goto(p, "read") /\ UNCHANGED <<loc, answer>> /\ UNCHANGED gate BY <1>4 DEF ResolveLocked
  <2>2. pc'[p] = "read" /\ "read" \in Labels BY <1>2, <2>1, Goes DEF Labels
  <2>3. GateTurn(p) BY <1>1, <2>1, <2>2, KeepsGate DEF Holding
  <2>4. Orderly' => gate' = p BY <1>1, <1>2, <2>1 DEF Well, Dates, Holding, Orderly, Quiet, history
  <2>5. Plain(p) /\ Onward(p) BY <1>1, <2>1, <2>2, <2>4 DEF Plain, Onward, Committed, Over, Streaming
  <2> QED BY <1>1, <2>1, <2>2, <2>3, <2>5, OnwardKeeps
<1> QED BY <1>3, <1>4

LEMMA FetchReadKeeps ==
    ASSUME PageInv, NEW p \in Actors, FetchRead(p)
    PROVE  PageInv'
<1>1. /\ pc[p] = "read" /\ loc' = [loc EXCEPT ![p].at = now, ![p].cached = Record] /\ Goto(p, "fetch")
      /\ UNCHANGED <<gate, answer>> /\ Quiet
  BY DEF FetchRead, Quiet, memory
<1>2. Typed /\ Well(p) /\ now \in Nat /\ Record \in PageRow /\ Record.body <= latest BY Numbers, RecordIs DEF PageInv
<1>3. "fetch" \in Labels BY DEF Labels
<1>4. /\ loc' \in [Actors -> Local] /\ loc'[p].key = loc[p].key /\ loc'[p].body = loc[p].body
      /\ loc'[p].at = now /\ loc'[p].ctx = loc[p].ctx /\ loc'[p].cached = Record
      /\ \A q \in Actors \ {p} : loc'[q] = loc[q]
  BY <1>1, <1>2 DEF Typed, Local
<1>5. Turn(p) /\ pc'[p] = "fetch" BY <1>1, <1>2, <1>3, <1>4, Goes DEF Turn, Typed
<1>6. GateTurn(p) /\ Plain(p) BY <1>1, <1>5, KeepsGate DEF Holding, Plain, Committed, Over
<1>7. Typed' /\ Grows BY <1>1, <1>5, <1>6, QuietGrows DEF Alone
<1>8. Well(p)'
  <2>1. Known(p)' BY <1>1, <1>2, <1>4, <1>5 DEF Well, Known, Quiet, upstream, Streaming, Carrying
  <2>2. Asks(p)' BY <1>1, <1>2, <1>4, <1>5 DEF Well, Asks, Quiet, layer, Streaming
  <2>3. Sees(p)' BY <1>5 DEF Sees, Streaming
  <2>4. Dates(p)'
    <3>1. Orderly' /\ p \in Requests => Soon(answer[p].page, answer[p].at)' BY <1>1, <1>7, AnswerStays
    <3>2. Record' = Record /\ (Orderly' => Orderly) BY <1>1 DEF Record, Quiet, store, history, Orderly
    <3>3. Orderly => gate = p BY <1>1, <1>2 DEF Well, Dates, Holding
    <3> QED BY <1>1, <1>4, <1>5, <3>1, <3>2, <3>3 DEF Dates, Carrying
  <2> QED BY <2>1, <2>2, <2>3, <2>4 DEF Well
<1> QED BY <1>1, <1>5, <1>6, <1>8, QuietKeeps DEF Alone

LEMMA FetchPageKeeps ==
    ASSUME PageInv, NEW p \in Actors, FetchPage(p)
    PROVE  PageInv'
<1>1. PICK grant \in Grants : loc' = [loc EXCEPT ![p].body = up, ![p].fresh = grant] BY DEF FetchPage
<1>2. pc[p] = "fetch" /\ up # 0 /\ Goto(p, "put") /\ UNCHANGED <<gate, answer>> /\ Quiet BY DEF FetchPage, Quiet, memory
<1>3. Typed /\ Well(p) /\ loc[p].at \in Nat /\ loc[p].at <= now BY Locals DEF PageInv, Well, Known
<1>4. up \in 0..MaxVersion /\ up = latest /\ up >= 1 /\ Dated(up, loc[p].at) BY <1>2, <1>3, Served
<1>5. grant \in Int BY PageCacheAssumption DEF NoGrant
<1>6. /\ loc' \in [Actors -> Local] /\ loc'[p].key = loc[p].key /\ loc'[p].body = up
      /\ loc'[p].at = loc[p].at /\ loc'[p].ctx = loc[p].ctx /\ loc'[p].cached = loc[p].cached
      /\ \A q \in Actors \ {p} : loc'[q] = loc[q]
  <2>1. loc \in [Actors -> Local] /\ up \in 0..MaxVersion BY <1>3, <1>4 DEF Typed
  <2>2. loc' \in [Actors -> Local] BY <1>1, <1>5, <2>1 DEF Local
  <2>3. loc[p] \in Local BY <2>1
  <2>4. /\ loc'[p].key = loc[p].key /\ loc'[p].body = up /\ loc'[p].at = loc[p].at /\ loc'[p].ctx = loc[p].ctx
        /\ loc'[p].cached = loc[p].cached
    BY <1>1, <2>1, <2>3 DEF Local
  <2>5. \A q \in Actors \ {p} : loc'[q] = loc[q] BY <1>1, <2>1
  <2> QED BY <2>2, <2>4, <2>5
<1>7. "put" \in Labels BY DEF Labels
<1>8. Turn(p) /\ pc'[p] = "put" BY <1>2, <1>3, <1>6, <1>7, Goes DEF Turn, Typed
<1>9. GateTurn(p) /\ Plain(p) BY <1>2, <1>8, KeepsGate DEF Holding, Plain, Committed, Over
<1>10. Typed' /\ Grows BY <1>2, <1>8, <1>9, QuietGrows DEF Alone
<1>11. Well(p)'
  <2>1. Known(p)' BY <1>2, <1>3, <1>4, <1>6, <1>8 DEF Well, Known, Quiet, upstream, Streaming, Carrying
  <2>2. Asks(p)' BY <1>2, <1>3, <1>6, <1>8 DEF Well, Asks, Quiet, layer, Streaming
  <2>3. Sees(p)' BY <1>8 DEF Sees, Streaming
  <2>4. Dates(p)'
    <3>1. Orderly' /\ p \in Requests => Soon(answer[p].page, answer[p].at)' BY <1>2, <1>10, AnswerStays
    <3>2. Orderly' => gate' = p BY <1>2, <1>3 DEF Well, Dates, Holding, Orderly, Quiet, history
    <3>3. Dated(loc[p].body, loc[p].at)' BY <1>2, <1>4, <1>6 DEF Dated, Quiet, upstream
    <3> QED BY <1>8, <3>1, <3>2, <3>3 DEF Dates
  <2> QED BY <2>1, <2>2, <2>3, <2>4 DEF Well
<1> QED BY <1>2, <1>8, <1>9, <1>11, QuietKeeps DEF Alone

\* The caller of a finished fetch goes on with a page that may be answered.
LEMMA FetchedKeeps ==
    ASSUME PageInv, NEW p \in Actors, NEW b \in 0..MaxVersion, NEW t \in Nat, Quiet, Fetched(p, b, t),
           pc[p] \notin Committed, pc[p] \notin {"idle", "parts"}, b <= latest, t <= now,
           Orderly /\ p \in Requests => Soon(b, t)
    PROVE  PageInv'
<1>1. GateTurn(p) BY Releases DEF Fetched, PageInv
<1>2. CASE p \in Requests
  <2>1. Resolved(p, b, t, loc[p].ctx) BY <1>2 DEF Fetched
  <2>2. loc[p].ctx \in Nat /\ (p \in Json => loc[p].ctx >= answer[p].since) BY ContextInTime
  <2> QED BY <1>1, <2>1, <2>2, ResolvedKeeps
<1>3. CASE p \notin Requests BY <1>1, <1>3, EndKeeps DEF Fetched
<1> QED BY <1>2, <1>3

LEMMA FetchNotFoundKeeps ==
    ASSUME PageInv, NEW p \in Actors, FetchNotFound(p)
    PROVE  PageInv'
<1>1. pc[p] = "fetch" /\ Fetched(p, 0, now) /\ Quiet BY DEF FetchNotFound, Quiet
<1>2. pc[p] \notin Committed /\ pc[p] \notin {"idle", "parts"} /\ Typed BY <1>1 DEF Committed, PageInv
<1> QED BY <1>1, <1>2, NothingSoon, FetchedKeeps

\* The page a fetch started from, which is still the stored one as long as the gate is kept.
LEMMA CachedSoon ==
    ASSUME PageInv, NEW p \in Actors, pc[p] \in {"head", "fetch"}
    PROVE  /\ loc[p].cached \in PageRow
           /\ Orderly /\ ServableStale(loc[p].cached) => Soon(loc[p].cached.body, now)
<1>1. Typed /\ Well(p) BY DEF PageInv
<1> QED BY <1>1, Locals, RecordAnswers DEF Well, Dates

LEMMA FetchStaleKeeps ==
    ASSUME PageInv, NEW p \in Actors, FetchStale(p)
    PROVE  PageInv'
<1>1. pc[p] = "fetch" /\ ServableStale(loc[p].cached) /\ Fetched(p, loc[p].cached.body, now) /\ Quiet
  BY DEF FetchStale, Quiet, memory
<1>2. pc[p] \notin Committed /\ pc[p] \notin {"idle", "parts"} /\ Typed /\ now \in Nat /\ now <= now
  BY <1>1, Numbers DEF Committed, PageInv
<1>3. /\ loc[p].cached.body \in 0..MaxVersion
      /\ Orderly /\ p \in Requests => Soon(loc[p].cached.body, now)
  BY <1>1, CachedSoon DEF PageRow
<1>4. loc[p].cached.body <= latest BY DEF PageInv, Well, Known
<1> QED BY <1>1, <1>2, <1>3, <1>4, FetchedKeeps

LEMMA FetchFailsKeeps ==
    ASSUME PageInv, NEW p \in Actors, FetchFails(p)
    PROVE  PageInv'
<1>1. pc[p] \in {"fetch", "put"} /\ Release(p) /\ Quiet BY DEF FetchFails, Quiet, memory
<1>2. GateTurn(p) /\ Typed /\ now \in Nat /\ pc[p] \notin Committed /\ pc[p] \notin {"idle", "parts"}
  BY <1>1, Releases, Numbers DEF PageInv, Committed
<1>3. CASE p \in Requests
  <2>1. Reply(p, 0, loc[p].ctx, now) BY <1>3 DEF FetchFails
  <2>2. loc[p].ctx \in Int /\ (p \in Json => loc[p].ctx >= answer[p].since) BY <1>2, ContextInTime
  <2> QED BY <1>1, <1>2, <2>1, <2>2, NothingSoon, ReplyKeeps
<1>4. CASE p \notin Requests BY <1>1, <1>2, <1>4, EndKeeps DEF FetchFails
<1> QED BY <1>3, <1>4

LEMMA DisconnectKeeps ==
    ASSUME PageInv, NEW p \in Actors, Disconnect(p)
    PROVE  PageInv'
<1>1. /\ pc[p] \in {"gate", "resolve_gate", "head", "body", "fetch"} /\ Release(p) /\ End(p) /\ UNCHANGED answer
      /\ Quiet
  BY DEF Disconnect, Quiet, memory
<1>2. GateTurn(p) /\ pc[p] \notin Committed BY <1>1, Releases DEF PageInv, Committed
<1> QED BY <1>1, <1>2, EndKeeps

--------------------------------
(* Steps that leave the clock, the world, the body row and the epoch alone. *)

\* The actors outside P stay as they are, and what one of them relies on under the gate.
StepOf(P) ==
    \A q \in Actors \ P :
       /\ pc'[q] = pc[q] /\ loc'[q] = loc[q] /\ answer'[q] = answer[q]
       /\ Orderly' /\ gate = q => gate' = q /\ Record' = Record

LEMMA StepKeeps ==
    ASSUME PageInv, NEW P \in SUBSET Actors, StepOf(P), Grows, Typed', Departed', Stored', GateHeld', Counted',
           HotSound', RecordDated', \A q \in P : Well(q)'
    PROVE  PageInv'
<1>1. ASSUME NEW q \in Actors PROVE Well(q)'
  <2>1. CASE q \in P BY <2>1
  <2>2. CASE q \notin P
    <3>1. /\ pc'[q] = pc[q] /\ loc'[q] = loc[q] /\ answer'[q] = answer[q]
          /\ Orderly' /\ gate = q => gate' = q /\ Record' = Record
      BY <2>2 DEF StepOf
    <3>2. Typed /\ Well(q) BY DEF PageInv
    <3> QED BY <3>1, <3>2, OthersKeep
  <2> QED BY <2>1, <2>2
<1> QED BY <1>1 DEF PageInv

Calm ==
    /\ UNCHANGED <<now, upstream, layer, page, files, epoch, runs>>
    /\ unstored \subseteq unstored' /\ unstored' \subseteq 0..epoch
    /\ lapses \subseteq lapses' /\ lapses' \subseteq Lapses
    /\ hot' \in [Variants -> [0..MaxEpoch -> Entry]] /\ overlay' \in OverlayRow

LEMMA CalmGrows ==
    ASSUME PageInv, NEW p \in Actors, Alone(p), Calm, Plain(p)
    PROVE  Typed' /\ Grows
<1>1. Typed BY DEF PageInv
<1>2. Typed'
  <2>1. gate' \in Actors \cup {Free} BY <1>1 DEF Typed, Alone, GateTurn
  <2> QED BY <1>1, <2>1 DEF Typed, Alone, Turn, Calm, upstream, layer
<1>3. Settled' => Settled BY DEF Settled, Calm, layer, Alone, Turn, Plain, Committed
<1>4. Grows BY <1>1, <1>3 DEF Grows, Calm, upstream, layer, Typed
<1> QED BY <1>2, <1>4

LEMMA CalmKeeps ==
    ASSUME PageInv, NEW p \in Actors, Alone(p), Calm, Plain(p), HotSound', RecordDated', Well(p)',
           Record' = Record \/ pc[p] \in Holding
    PROVE  PageInv'
<1>1. Typed /\ Departed /\ Stored /\ GateHeld /\ Counted /\ Well(p) BY DEF PageInv
<1>2. Typed' /\ Grows BY CalmGrows
<1>3. Departed' /\ Stored' BY <1>1 DEF Departed, Stored, Calm, upstream
<1>4. GateHeld' BY <1>1 DEF GateHeld, Alone, Turn, GateTurn, Typed
<1>5. Counted'
  <2>1. Pending' \subseteq Pending BY DEF Pending, Plain, Alone, Turn
  <2> QED BY <1>1, <1>2, <2>1, CountedKept DEF Calm, layer
<1>6. StepOf({p})
  <2> SUFFICES ASSUME NEW q \in Actors, q # p, Orderly', gate = q PROVE gate' = q /\ Record' = Record
    BY DEF StepOf, Alone, Turn
  <2>1. Orderly BY <1>2 DEF Orderly, Grows
  <2>2. q # Free BY PageCacheAssumption
  <2>3. pc[p] \notin Holding BY <1>1, <2>1 DEF Well, Dates
  <2> QED BY <2>2, <2>3 DEF Alone, GateTurn
<1> QED BY <1>2, <1>3, <1>4, <1>5, <1>6, StepKeeps

--------------------------------
(* Steps that fill the hot cache. *)

\* A request of a virtual route keeps its rendering under the key it took when it began.
LEMMA RenderingKept ==
    ASSUME PageInv, NEW p \in Actors, NEW b \in 0..MaxVersion, NEW x \in Int,
           StoreHot("json", loc[p].key, b, loc[p].ctx, x),
           pc[p] \in Streaming \ {"parts"}, Typed', Grows, UNCHANGED <<epoch, acked, hosted, page, unstored>>,
           loc[p].key = epoch /\ Settled => b >= page.body /\ (epoch \notin unstored => b = page.body),
           Orderly => Kept(b, x)
    PROVE  HotSound'
<1>1. Typed /\ Well(p) /\ HotSound BY DEF PageInv
<1>2. p \in Json /\ loc[p].key \in Nat /\ loc[p].key <= epoch /\ epoch \in 0..MaxEpoch
  BY <1>1, Locals DEF Well, Known, Typed
<1>3. loc[p].key \in 0..MaxEpoch BY <1>2, EpochsBounded
<1>4. PICK new \in Entry : new.body = b /\ new.ctx = loc[p].ctx /\ new.expires = x
                           /\ hot' = [hot EXCEPT !["json"][loc[p].key] = new]
  <2>1. [body |-> b, ctx |-> loc[p].ctx, expires |-> x] \in Entry BY <1>1, Locals DEF Entry
  <2> QED BY <2>1 DEF StoreHot
<1>5. hot \in [Variants -> [0..MaxEpoch -> Entry]] /\ "json" \in Variants BY <1>1 DEF Typed, Variants
<1>6. /\ hot'["json"][loc[p].key] = new
      /\ \A v \in Variants, e \in 0..MaxEpoch : (v # "json" \/ e # loc[p].key) => hot'[v][e] = hot[v][e]
  BY <1>3, <1>4, <1>5
<1>7. KeysAhead' BY <1>1, <1>2, <1>6 DEF HotSound, KeysAhead
<1>8. EntryCurrent'
  <2>1. Settled' => Settled BY DEF Grows
  <2>2. CASE loc[p].key = epoch
    <3>1. loc[p].ctx >= acked /\ (Settled => loc[p].ctx = hosted) BY <1>1, <1>2, <2>2 DEF Well, Asks, Sees
    <3> QED BY <1>4, <1>6, <2>1, <2>2, <3>1 DEF EntryCurrent
  <2>3. CASE loc[p].key # epoch
    <3>1. hot'["json"][epoch] = hot["json"][epoch] BY <1>2, <1>5, <1>6, <2>3
    <3> QED BY <1>1, <2>1, <3>1 DEF HotSound, EntryCurrent
  <2> QED BY <2>2, <2>3
<1>9. EntriesDated'
  <2> SUFFICES ASSUME Orderly', NEW v \in Variants, NEW e \in 0..MaxEpoch
               PROVE  Kept(hot[v][e].body, hot[v][e].expires)'
    BY DEF EntriesDated, Kept
  <2>1. Orderly BY DEF Orderly, Grows
  <2>2. CASE v = "json" /\ e = loc[p].key
    <3>1. Kept(b, x)' BY <1>1, <2>1, Dating
    <3> QED BY <1>4, <1>6, <2>2, <3>1 DEF Kept
  <2>3. CASE v # "json" \/ e # loc[p].key
    <3>1. hot[v] \in [0..MaxEpoch -> Entry] BY <1>5
    <3>2. hot[v][e] \in Entry BY <3>1
    <3>3. PICK old \in Entry : old = hot[v][e] BY <3>2
    <3>4. old.expires \in Int /\ Kept(old.body, old.expires) BY <1>1, <2>1, <3>3 DEF HotSound, EntriesDated, Entry
    <3>5. Kept(old.body, old.expires)' BY <1>1, <3>4, Dating
    <3>6. hot'[v][e] = old BY <1>6, <2>3, <3>3
    <3> QED BY <3>5, <3>6 DEF Kept
  <2> QED BY <2>2, <2>3
<1> QED BY <1>7, <1>8, <1>9 DEF HotSound

\* What was served at t may be answered as a page of that time.
LEMMA DatedSoon ==
    ASSUME Typed, NEW v, NEW t \in Int, Dated(v, t)
    PROVE  Soon(v, t)
<1>1. PICK window \in Nat : window = TTL + MaxStale /\ window > 0
  <2>1. TTL \in Nat /\ TTL > 0 /\ MaxStale \in Nat BY PageCacheAssumption
  <2> QED BY <2>1
<1>2. ASSUME v \in 1..MaxVersion, left[v] # NoTime PROVE t - left[v] < window
  <2>1. PICK d \in Int : d = left[v] BY <1>2 DEF Typed, NoTime
  <2>2. t <= d BY <1>2, <2>1 DEF Dated
  <2> QED BY <1>1, <2>1, <2>2
<1> QED BY <1>1, <1>2 DEF Dated, Soon

\* transform_whole, at the end of a request whose stored page is as it was or under its gate.
LEMMA TransformKeeps ==
    ASSUME PageInv, NEW p \in Actors, NEW record \in PageRow, NEW t \in Nat, TransformWhole(p, record, t), GateTurn(p),
           UNCHANGED <<now, history, upstream, layer, page, files, epoch, runs>>, overlay' \in OverlayRow,
           pc[p] \in Streaming \ {"parts"}, pc[p] \notin Committed,
           RecordDated', Record' = Record \/ pc[p] \in Holding,
           loc[p].key = epoch /\ Settled =>
              record.body >= page.body /\ (epoch \notin unstored => record.body = page.body),
           Orderly => Dated(record.body, record.fetched) /\ Soon(record.body, t)
    PROVE  PageInv'
<1>1. Typed /\ Departed /\ Well(p) /\ loc[p].ctx \in Nat /\ record.body \in 0..MaxVersion /\ Expiry(record) \in Int
  BY Locals, Lifetime DEF PageInv, PageRow
<1>2. Reply(p, record.body, loc[p].ctx, t) /\ StoreHot("json", loc[p].key, record.body, loc[p].ctx, Expiry(record))
  BY DEF TransformWhole
<1>3. Turn(p) /\ pc'[p] = "idle" BY <1>1, <1>2, Replies
<1>4. p \in Json => loc[p].ctx >= answer[p].since BY ContextInTime DEF Streaming
<1>5. Orderly => Kept(record.body, Expiry(record)) BY <1>1, RecordSoon
<1>6. hot' \in [Variants -> [0..MaxEpoch -> Entry]]
  <2>1. [body |-> record.body, ctx |-> loc[p].ctx, expires |-> Expiry(record)] \in Entry BY <1>1 DEF Entry
  <2>2. hot \in [Variants -> [0..MaxEpoch -> Entry]] BY <1>1 DEF Typed
  <2> QED BY <1>2, <2>1, <2>2 DEF StoreHot
<1>7. Calm BY <1>1, <1>6 DEF Calm, history, Typed
<1>8. Plain(p) BY <1>3 DEF Plain, Committed, Over
<1>9. Typed' /\ Grows BY <1>3, <1>7, <1>8, CalmGrows DEF Alone
<1>10. HotSound' BY <1>1, <1>2, <1>5, <1>9, RenderingKept DEF history, layer
<1>11. Well(p)' BY <1>1, <1>2, <1>4, <1>9, RepliedWell
<1> QED BY <1>3, <1>7, <1>8, <1>10, <1>11, CalmKeeps DEF Alone

\* While store, clock and world stay as they are, so does the date of the stored page.
LEMMA RecordStays ==
    ASSUME PageInv, UNCHANGED <<now, upstream, store>>, lapses \subseteq lapses'
    PROVE  RecordDated' /\ Record' = Record
<1>1. Record' = Record BY DEF Record, store
<1> QED BY <1>1 DEF PageInv, RecordDated, Dated, Orderly, upstream, store

LEMMA CheckFreshKeeps ==
    ASSUME PageInv, NEW p \in Actors, CheckFresh(p)
    PROVE  PageInv'
<1>1. /\ pc[p] = "check" /\ IsFresh(Record) /\ TransformWhole(p, Record, now) /\ UNCHANGED gate
      /\ UNCHANGED <<now, history, upstream, layer, store, epoch, runs>>
  BY DEF CheckFresh
<1>2. Typed /\ Stored /\ now \in Nat /\ Record \in PageRow /\ Record.body = page.body /\ overlay' \in OverlayRow
      /\ page.body \in Nat
  <2>1. Typed /\ Stored BY DEF PageInv
  <2>2. overlay' \in OverlayRow BY <1>1, <2>1 DEF Typed, store
  <2> QED BY <2>1, <2>2, Numbers, RecordIs
<1>3. Orderly => Dated(Record.body, Record.fetched) /\ Soon(Record.body, now)
  BY <1>1, <1>2, RecordAnswers, RecordIs DEF PageInv, RecordDated, IsFresh
<1>4. GateTurn(p) /\ pc[p] \in Streaming \ {"parts"} /\ pc[p] \notin Committed
  BY <1>1, KeepsGate DEF Holding, Streaming, Committed
<1>5. RecordDated' /\ Record' = Record BY <1>1, RecordStays DEF history
<1> QED BY <1>1, <1>2, <1>3, <1>4, <1>5, TransformKeeps DEF store

LEMMA LockedFreshKeeps ==
    ASSUME PageInv, NEW p \in Actors, LockedFresh(p)
    PROVE  PageInv'
<1>1. /\ pc[p] = "locked" /\ IsFresh(Record) /\ TransformWhole(p, Record, now) /\ Release(p)
      /\ UNCHANGED <<now, history, upstream, layer, store, epoch, runs>>
  BY DEF LockedFresh
<1>2. Typed /\ Stored /\ now \in Nat /\ Record \in PageRow /\ Record.body = page.body /\ overlay' \in OverlayRow
      /\ page.body \in Nat
  <2>1. Typed /\ Stored BY DEF PageInv
  <2>2. overlay' \in OverlayRow BY <1>1, <2>1 DEF Typed, store
  <2> QED BY <2>1, <2>2, Numbers, RecordIs
<1>3. Orderly => Dated(Record.body, Record.fetched) /\ Soon(Record.body, now)
  BY <1>1, <1>2, RecordAnswers, RecordIs DEF PageInv, RecordDated, IsFresh
<1>4. GateTurn(p) /\ pc[p] \in Streaming \ {"parts"} /\ pc[p] \notin Committed
  BY <1>1, <1>2, Releases DEF Streaming, Committed
<1>5. RecordDated' /\ Record' = Record BY <1>1, RecordStays DEF history
<1> QED BY <1>1, <1>2, <1>3, <1>4, <1>5, TransformKeeps DEF store

LEMMA RememberKeeps ==
    ASSUME PageInv, NEW p \in Actors, Remember(p)
    PROVE  PageInv'
<1>1. /\ pc[p] = "remember" /\ Release(p) /\ UNCHANGED <<now, history, upstream, layer, store, epoch, runs>>
  BY DEF Remember
<1>2. /\ Typed /\ Well(p) /\ loc[p].at \in Nat /\ loc[p].body \in 0..MaxVersion /\ loc[p].fresh \in Int
      /\ page.body \in Nat /\ overlay' \in OverlayRow
  <2>1. Typed /\ Well(p) BY DEF PageInv
  <2>2. overlay' \in OverlayRow BY <1>1, <2>1 DEF Typed, store
  <2> QED BY <2>1, <2>2, Locals, Numbers
<1>3. PICK record \in PageRow :
        /\ TransformWhole(p, record, loc[p].at) /\ record.body = loc[p].body /\ record.fetched = loc[p].at
  <2>1. [body |-> loc[p].body, fetched |-> loc[p].at, fresh |-> loc[p].fresh] \in PageRow BY <1>2 DEF PageRow
  <2> QED BY <2>1 DEF Remember
<1>4. Dated(record.body, record.fetched) /\ Soon(record.body, loc[p].at)
  BY <1>1, <1>2, <1>3, DatedSoon DEF Well, Dates, Carrying
<1>5. loc[p].key = epoch /\ Settled =>
         record.body >= page.body /\ (epoch \notin unstored => record.body = page.body)
  BY <1>1, <1>2, <1>3 DEF Well, Sees
<1>6. GateTurn(p) /\ pc[p] \in Streaming \ {"parts"} /\ pc[p] \notin Committed
  BY <1>1, <1>2, Releases DEF Streaming, Committed
<1>7. RecordDated' /\ Record' = Record BY <1>1, RecordStays DEF history
<1> QED BY <1>1, <1>2, <1>3, <1>4, <1>5, <1>6, <1>7, TransformKeeps DEF store

\* A 304 dates the row that its request was compared with.
LEMMA TouchDates ==
    ASSUME PageInv, NEW p \in Actors, pc[p] \in {"head", "fetch"}, up # 0, loc[p].cached.body = up,
           NEW grant \in Grants, Touch(p, grant), UNCHANGED <<now, history, upstream, page>>
    PROVE  overlay' \in OverlayRow /\ RecordDated' /\ Extended(p, grant) \in Int
<1>1. Typed /\ Well(p) /\ loc[p].at \in Nat /\ loc[p].at <= now /\ loc[p].cached \in PageRow
  BY Locals DEF PageInv, Well, Known
<1>2. grant \in Int BY PageCacheAssumption DEF NoGrant
<1>3. Extended(p, grant) \in Int BY <1>1, <1>2 DEF Extended, PageRow
<1>4. overlay' \in OverlayRow /\ overlay'.fetched = loc[p].at /\ overlay' # NoOverlay
  BY <1>1, <1>3 DEF Touch, OverlayRow, NoOverlay, NoTime
<1>5. RecordDated'
  <2> SUFFICES ASSUME Orderly', page' # NoPage PROVE Dated(page.body, Record.fetched)' BY DEF RecordDated
  <2>1. Record'.fetched = loc[p].at BY <1>4 DEF Record
  <2>2. Orderly BY DEF Orderly, history
  <2>3. page.body = up
    <3>1. loc[p].cached = Record BY <1>1, <2>2 DEF Well, Dates
    <3> QED BY <1>1, <3>1, RecordIs DEF PageInv
  <2>4. Dated(up, loc[p].at) BY <1>1, Served
  <2> QED BY <2>1, <2>3, <2>4 DEF Dated, upstream
<1> QED BY <1>3, <1>4, <1>5

LEMMA HeadNotModifiedKeeps ==
    ASSUME PageInv, NEW p \in Actors, HeadNotModified(p)
    PROVE  PageInv'
<1>1. /\ pc[p] = "head" /\ up # 0 /\ loc[p].cached.body = up /\ Release(p)
      /\ UNCHANGED <<now, history, upstream, layer, page, files, epoch, runs>>
  BY DEF HeadNotModified
<1>2. PICK grant \in Grants :
        /\ Touch(p, grant)
        /\ LET record == [body |-> loc[p].cached.body, fetched |-> loc[p].at, fresh |-> Extended(p, grant)]
           IN TransformWhole(p, record, loc[p].at)
  BY DEF HeadNotModified
<1>3. Typed /\ Well(p) /\ loc[p].at \in Nat /\ loc[p].at <= now /\ page.body \in Nat
  BY Locals, Numbers DEF PageInv, Well, Known
<1>4. overlay' \in OverlayRow /\ RecordDated' /\ Extended(p, grant) \in Int BY <1>1, <1>2, TouchDates
<1>5. up \in 0..MaxVersion /\ Dated(up, loc[p].at) /\ Soon(up, loc[p].at) BY <1>1, <1>3, Served, DatedSoon
<1>6. PICK record \in PageRow :
        TransformWhole(p, record, loc[p].at) /\ record.body = up /\ record.fetched = loc[p].at
  <2>1. [body |-> loc[p].cached.body, fetched |-> loc[p].at, fresh |-> Extended(p, grant)] \in PageRow
    BY <1>1, <1>3, <1>4, <1>5 DEF PageRow
  <2> QED BY <1>1, <1>2, <2>1
<1>7. loc[p].key = epoch /\ Settled =>
         record.body >= page.body /\ (epoch \notin unstored => record.body = page.body)
  BY <1>1, <1>3, <1>6 DEF Well, Sees
<1>8. GateTurn(p) /\ pc[p] \in Streaming \ {"parts"} /\ pc[p] \notin Committed /\ pc[p] \in Holding
  BY <1>1, <1>3, Releases DEF Streaming, Committed, Holding
<1> QED BY <1>1, <1>3, <1>4, <1>5, <1>6, <1>7, <1>8, TransformKeeps

LEMMA FetchNotModifiedKeeps ==
    ASSUME PageInv, NEW p \in Actors, FetchNotModified(p)
    PROVE  PageInv'
<1>1. /\ pc[p] = "fetch" /\ up # 0 /\ loc[p].cached.body = up /\ Fetched(p, loc[p].cached.body, loc[p].at)
      /\ UNCHANGED <<now, history, upstream, layer, page, files, epoch, hot, runs>>
  BY DEF FetchNotModified, memory
<1>2. PICK grant \in Grants : Touch(p, grant) BY DEF FetchNotModified
<1>3. Typed /\ Well(p) /\ loc[p].at \in Nat /\ loc[p].at <= now BY Locals DEF PageInv, Well, Known
<1>4. overlay' \in OverlayRow /\ RecordDated' BY <1>1, <1>2, TouchDates
<1>5. up \in 0..MaxVersion /\ up <= latest /\ Soon(up, loc[p].at) BY <1>1, <1>3, Served, DatedSoon
<1>6. loc[p].ctx \in Nat /\ (p \in Json => loc[p].ctx >= answer[p].since) BY <1>1, ContextInTime
<1>7. Turn(p) /\ pc'[p] \in {"idle", "render"}
  <2>1. CASE p \in Requests BY <1>1, <1>3, <1>5, <1>6, <2>1, Resolves DEF Fetched
  <2>2. CASE p \notin Requests BY <1>1, <1>3, <2>2, Ends DEF Fetched, Turn, Typed
  <2> QED BY <2>1, <2>2
<1>8. GateTurn(p) /\ Plain(p) BY <1>1, <1>3, <1>7, Releases DEF Fetched, Plain, Committed, Over
<1>9. Calm
  <2>1. hot' \in [Variants -> [0..MaxEpoch -> Entry]] BY <1>1, <1>3 DEF Typed
  <2> QED BY <1>1, <1>3, <1>4, <2>1 DEF Calm, history, Typed
<1>10. Typed' /\ Grows BY <1>7, <1>8, <1>9, CalmGrows DEF Alone
<1>11. Well(p)'
  <2>1. CASE p \in Requests
    <3>1. Resolved(p, up, loc[p].at, loc[p].ctx) BY <1>1, <2>1 DEF Fetched
    <3> QED BY <1>3, <1>5, <1>6, <1>10, <3>1, ResolvedWell
  <2>2. CASE p \notin Requests BY <1>1, <1>10, <2>2, EndedWell DEF Fetched
  <2> QED BY <2>1, <2>2
<1>12. HotSound' BY <1>1, <1>10, HotKept
<1> QED BY <1>1, <1>4, <1>7, <1>8, <1>9, <1>11, <1>12, CalmKeeps DEF Alone, Holding

\* A commit that fails under a live stream: its key is marked, and the stream goes on.
LEMMA StreamsUnstored ==
    ASSUME PageInv, NEW p \in Actors, PersistFails(p), loc[p].live
    PROVE  PageInv'
<1>1. /\ pc[p] = "body" /\ Goto(p, "remember") /\ UNCHANGED gate /\ unstored' = unstored \cup {loc[p].key}
      /\ UNCHANGED <<now, lapses, upstream, layer, store, epoch, hot, loc, answer, runs>>
  BY DEF PersistFails, memory
<1>2. Typed /\ Well(p) /\ loc[p].key \in Nat /\ loc[p].key <= epoch BY Locals DEF PageInv, Well, Known
<1>3. Turn(p) /\ pc'[p] = "remember"
  <2>1. "remember" \in Labels BY DEF Labels
  <2> QED BY <1>1, <1>2, <2>1, Goes DEF Turn, Typed
<1>4. GateTurn(p) /\ Plain(p) BY <1>1, <1>3, KeepsGate DEF Holding, Plain, Committed, Over
<1>5. Calm
  <2>1. unstored' \subseteq 0..epoch
    <3>1. loc[p].key \in 0..epoch BY <1>2, Numbers
    <3>2. unstored \subseteq 0..epoch BY <1>2 DEF Typed
    <3> QED BY <1>1, <3>1, <3>2
  <2> QED BY <1>1, <1>2, <2>1 DEF Calm, store, Typed
<1>6. Typed' /\ Grows BY <1>3, <1>4, <1>5, CalmGrows DEF Alone
<1>7. HotSound' BY <1>1, <1>6, HotKept
<1>8. RecordDated' /\ Record' = Record BY <1>1, RecordStays
<1>9. Well(p)'
  <2>1. Known(p)' BY <1>1, <1>2, <1>3 DEF Well, Known, upstream, Streaming, Carrying
  <2>2. Asks(p)' BY <1>1, <1>2, <1>3 DEF Well, Asks, layer, Streaming
  <2>3. Sees(p)' BY <1>1, <1>2, <1>3, <1>6 DEF Well, Sees, layer, store, Streaming, Grows
  <2>4. Dates(p)'
    <3>1. Orderly' /\ p \in Requests => Soon(answer[p].page, answer[p].at)' BY <1>1, <1>6, AnswerStays
    <3>2. Orderly' => gate' = p BY <1>1, <1>2 DEF Well, Dates, Holding, Orderly
    <3>3. Dated(loc[p].body, loc[p].at)' BY <1>1, <1>2 DEF Well, Dates, Carrying, Dated, upstream
    <3> QED BY <1>3, <3>1, <3>2, <3>3 DEF Dates
  <2> QED BY <2>1, <2>2, <2>3, <2>4 DEF Well
<1> QED BY <1>3, <1>4, <1>5, <1>7, <1>8, <1>9, CalmKeeps DEF Alone

LEMMA PersistFailsKeeps ==
    ASSUME PageInv, NEW p \in Actors, PersistFails(p)
    PROVE  PageInv'
<1>1. CASE loc[p].live BY <1>1, StreamsUnstored
<1>2. CASE ~loc[p].live
  <2>1. /\ pc[p] = "body" /\ Goto(p, "resolve") /\ Release(p)
        /\ UNCHANGED <<unstored, now, lapses, upstream, layer, store, epoch, hot, loc, answer, runs>>
    BY <1>2 DEF PersistFails, memory
  <2> QED BY <2>1, FallsBack DEF Quiet, history
<1> QED BY <1>1, <1>2

\* The HTML rendering is kept under the key of this moment; other entries stay as they are.
LEMMA HtmlKept ==
    ASSUME PageInv, Typed', Grows, NEW b \in 0..MaxVersion, NEW x \in Int, StoreHot("html", epoch, b, 0, x),
           UNCHANGED <<epoch, acked, hosted, page, unstored>>, Orderly' => Kept(b, x)
    PROVE  HotSound'
<1>1. Typed /\ HotSound /\ epoch \in 0..MaxEpoch BY DEF PageInv, Typed
<1>2. PICK new \in Entry : new.body = b /\ new.expires = x /\ hot' = [hot EXCEPT !["html"][epoch] = new]
  <2>1. [body |-> b, ctx |-> 0, expires |-> x] \in Entry BY DEF Entry
  <2> QED BY <2>1 DEF StoreHot
<1>3. hot \in [Variants -> [0..MaxEpoch -> Entry]] /\ "html" \in Variants /\ "json" \in Variants
  BY <1>1 DEF Typed, Variants
<1>4. /\ hot'["html"][epoch] = new
      /\ \A v \in Variants, e \in 0..MaxEpoch : (v # "html" \/ e # epoch) => hot'[v][e] = hot[v][e]
  BY <1>1, <1>2, <1>3
<1>5. KeysAhead' BY <1>1, <1>4 DEF HotSound, KeysAhead
<1>6. EntryCurrent'
  <2>1. Settled' => Settled BY DEF Grows
  <2>2. hot'["json"][epoch] = hot["json"][epoch] BY <1>1, <1>3, <1>4
  <2> QED BY <1>1, <2>1, <2>2 DEF HotSound, EntryCurrent
<1>7. EntriesDated'
  <2> SUFFICES ASSUME Orderly', NEW v \in Variants, NEW e \in 0..MaxEpoch
               PROVE  Kept(hot[v][e].body, hot[v][e].expires)'
    BY DEF EntriesDated, Kept
  <2>1. Orderly BY DEF Orderly, Grows
  <2>2. CASE v = "html" /\ e = epoch
    <3>1. Kept(b, x)' BY <1>1, Dating
    <3> QED BY <1>2, <1>4, <2>2, <3>1 DEF Kept
  <2>3. CASE v # "html" \/ e # epoch
    <3>1. hot[v] \in [0..MaxEpoch -> Entry] BY <1>3
    <3>2. PICK old \in Entry : old = hot[v][e] BY <3>1
    <3>3. old.expires \in Int /\ Kept(old.body, old.expires) BY <1>1, <2>1, <3>2 DEF HotSound, EntriesDated, Entry
    <3>4. Kept(old.body, old.expires)' BY <1>1, <3>3, Dating
    <3>5. hot'[v][e] = old BY <1>4, <2>3, <3>2
    <3> QED BY <3>4, <3>5 DEF Kept
  <2> QED BY <2>2, <2>3
<1> QED BY <1>5, <1>6, <1>7 DEF HotSound

LEMMA RememberRenderedKeeps ==
    ASSUME PageInv, NEW p \in Actors, RememberRendered(p)
    PROVE  PageInv'
<1>1. /\ pc[p] = "render" /\ Reply(p, loc[p].body, 0, loc[p].at)
      /\ UNCHANGED <<now, unstored, upstream, layer, store, epoch, gate, runs>>
      /\ lapses' \in {lapses, lapses \cup {"borrowed"}}
  BY DEF RememberRendered
<1>2. Typed /\ Stored /\ Departed /\ Well(p) /\ loc[p].body \in 0..MaxVersion /\ loc[p].at \in Nat BY Locals DEF PageInv
<1>3. p \in Html /\ p \notin Json BY <1>1, <1>2, PageCacheAssumption DEF Well, Known
<1>4. Turn(p) /\ pc'[p] = "idle" BY <1>1, <1>2, Replies
<1>5. GateTurn(p) /\ Plain(p) BY <1>1, <1>4, KeepsGate DEF Holding, Plain, Committed, Over
<1>6. Record \in PageRow /\ Expiry(Record) \in Int BY <1>2, RecordIs, Lifetime
<1>7. hot' \in [Variants -> [0..MaxEpoch -> Entry]]
  <2>1. [body |-> loc[p].body, ctx |-> 0, expires |-> Expiry(Record)] \in Entry BY <1>2, <1>6 DEF Entry
  <2>2. hot \in [Variants -> [0..MaxEpoch -> Entry]] BY <1>2 DEF Typed
  <2>3. CASE IsFresh(Record)
    <3>1. StoreHot("html", epoch, loc[p].body, 0, Expiry(Record)) BY <2>3 DEF RememberRendered
    <3> QED BY <2>1, <2>2, <3>1 DEF StoreHot
  <2>4. CASE ~IsFresh(Record) BY <2>2, <2>4 DEF RememberRendered
  <2> QED BY <2>3, <2>4
<1>8. Calm
  <2>1. lapses \subseteq lapses' /\ lapses' \subseteq Lapses BY <1>1, <1>2 DEF Typed, Lapses
  <2>2. overlay' \in OverlayRow /\ unstored' \subseteq 0..epoch BY <1>1, <1>2 DEF Typed, store
  <2> QED BY <1>1, <1>7, <2>1, <2>2 DEF Calm, store
<1>9. Typed' /\ Grows BY <1>4, <1>5, <1>8, CalmGrows DEF Alone
<1>10. HotSound'
  <2>1. CASE IsFresh(Record)
    <3>1. Orderly' => Kept(loc[p].body, Expiry(Record))
      <4> SUFFICES ASSUME Orderly' PROVE Kept(loc[p].body, Expiry(Record)) OBVIOUS
      <4>1. Record.body = loc[p].body BY <2>1 DEF Orderly, RememberRendered
      <4>2. Orderly BY <1>9 DEF Orderly, Grows
      <4>3. Dated(Record.body, Record.fetched) BY <1>2, <2>1, <4>2, RecordIs DEF PageInv, RecordDated, IsFresh
      <4> QED BY <1>2, <1>6, <4>1, <4>3, RecordSoon
    <3>2. StoreHot("html", epoch, loc[p].body, 0, Expiry(Record)) BY <2>1 DEF RememberRendered
    <3> QED BY <1>1, <1>2, <1>6, <1>9, <3>1, <3>2, HtmlKept DEF layer, store
  <2>2. CASE ~IsFresh(Record)
    <3>1. hot' = hot BY <2>2 DEF RememberRendered
    <3> QED BY <1>9, <3>1, HotKept
  <2> QED BY <2>1, <2>2
<1>11. RecordDated' /\ Record' = Record BY <1>1, RecordStays
<1>12. Well(p)'
  <2>1. Orderly => Soon(loc[p].body, loc[p].at) BY <1>1, <1>2 DEF Well, Dates
  <2> QED BY <1>1, <1>2, <1>3, <1>9, <2>1, RepliedWell
<1> QED BY <1>4, <1>5, <1>8, <1>10, <1>11, <1>12, CalmKeeps DEF Alone

--------------------------------
(* Commits of a page. *)

LEMMA PutKeeps ==
    ASSUME PageInv, NEW p \in Actors, NEW label \in Committed,
           (pc[p] = "body" /\ label = "persisted") \/ (pc[p] = "put" /\ label = "stored"),
           PutPage(p), Goto(p, label),
           UNCHANGED <<now, history, upstream, layer, epoch, hot, gate, loc, answer, runs>>
    PROVE  PageInv'
<1>1. /\ Typed /\ Departed /\ Stored /\ GateHeld /\ Counted /\ Well(p)
      /\ loc[p].body \in 0..MaxVersion /\ loc[p].at \in Nat /\ loc[p].fresh \in Int
      /\ latest \in 1..MaxVersion /\ loc[p].body >= 1 /\ loc[p].body <= latest
  BY Locals, Numbers DEF PageInv, Well, Known, Carrying
<1>2. /\ page' = [body |-> loc[p].body, fetched |-> loc[p].at, fresh |-> loc[p].fresh]
      /\ overlay' = NoOverlay /\ files' = files \cup {loc[p].body}
  BY DEF PutPage
<1>3. pc' \in [Actors -> Labels] /\ pc'[p] = label /\ \A q \in Actors \ {p} : pc'[q] = pc[q]
  <2>1. label \in Labels BY DEF Labels, Committed
  <2> QED BY <1>1, <2>1, Goes
<1>4. Typed'
  <2>1. page' \in PageRow /\ overlay' \in OverlayRow
    BY <1>1, <1>2, PageCacheAssumption DEF PageRow, OverlayRow, NoOverlay, NoTime, NoGrant
  <2>2. files' \subseteq 1..latest
    <3>1. loc[p].body \in 1..latest /\ files \subseteq 1..latest BY <1>1 DEF Typed
    <3> QED BY <1>2, <3>1
  <2> QED BY <1>1, <1>3, <2>1, <2>2 DEF Typed, history, upstream, layer
<1>5. ~Settled' BY <1>3 DEF Settled, Committed
<1>6. Grows BY <1>1, <1>5 DEF Grows, Typed, history, upstream, layer
<1>7. Departed' /\ Stored' BY <1>1, <1>2 DEF Departed, Stored, upstream
<1>8. GateHeld' BY <1>1, <1>3 DEF GateHeld, Typed, Holding, Committed
<1>9. Counted'
  <2>1. Pending' \subseteq Pending BY <1>3 DEF Pending, Over
  <2> QED BY <1>1, <1>4, <2>1, CountedKept DEF layer
<1>10. HotSound' BY <1>4, <1>6, HotKept
<1>11. Dated(loc[p].body, loc[p].at)' BY <1>1 DEF Well, Dates, Carrying, Dated, upstream
<1>12. RecordDated'
  <2>1. Record' = page' BY <1>2 DEF Record
  <2>2. page'.body = loc[p].body /\ page'.fetched = loc[p].at BY <1>2
  <2> QED BY <1>11, <2>1, <2>2 DEF RecordDated, Dated
<1>13. StepOf({p})
  <2> SUFFICES ASSUME NEW q \in Actors, q # p, Orderly', gate = q PROVE gate' = q /\ Record' = Record BY <1>3 DEF StepOf
  <2>1. Orderly BY <1>6 DEF Orderly, Grows
  <2> QED BY <1>1, <2>1 DEF Well, Dates, Holding
<1>14. Well(p)'
  <2>1. Known(p)' BY <1>1, <1>3 DEF Well, Known, upstream, Streaming, Carrying, Committed
  <2>2. Asks(p)' BY <1>1, <1>3 DEF Well, Asks, layer, Streaming, Committed
  <2>3. Sees(p)' BY <1>3, <1>5 DEF Sees, Committed
  <2>4. Dates(p)'
    <3>1. Orderly' /\ p \in Requests => Soon(answer[p].page, answer[p].at)' BY <1>4, <1>6, AnswerStays
    <3>2. Orderly' => gate' = p BY <1>1 DEF Well, Dates, Holding, Orderly, history
    <3> QED BY <1>3, <1>11, <3>1, <3>2 DEF Dates, Committed
  <2> QED BY <2>1, <2>2, <2>3, <2>4 DEF Well
<1> QED BY <1>4, <1>6, <1>7, <1>8, <1>9, <1>10, <1>12, <1>13, <1>14, StepKeeps

LEMMA PersistKeeps ==
    ASSUME PageInv, NEW p \in Actors, Persist(p)
    PROVE  PageInv'
  BY PutKeeps DEF Persist, memory, Committed

LEMMA FetchPutKeeps ==
    ASSUME PageInv, NEW p \in Actors, FetchPut(p)
    PROVE  PageInv'
  BY PutKeeps DEF FetchPut, memory, Committed

--------------------------------
(* Epochs. *)

\* All the runs there can be.
LEMMA SpentBounded ==
    Cardinality(Spent) <= MaxRuns * Cardinality(Requests \cup Sweepers)
<1> DEFINE All == (Requests \cup Sweepers) \X (1..MaxRuns)
<1>1. IsFiniteSet(Requests \cup Sweepers) BY PageCacheAssumption, FS_Subset DEF Actors, Requests
<1>2. IsFiniteSet(1..MaxRuns) /\ Cardinality(1..MaxRuns) = MaxRuns
  <2>1. MaxRuns \in Nat BY PageCacheAssumption
  <2>2. Cardinality(1..MaxRuns) = IF 1 > MaxRuns THEN 0 ELSE MaxRuns - 1 + 1 BY <2>1, FS_Interval
  <2> QED BY <2>1, <2>2, FS_Interval
<1>3. IsFiniteSet(All) /\ Cardinality(All) = Cardinality(Requests \cup Sweepers) * Cardinality(1..MaxRuns)
  BY <1>1, <1>2, FS_Product
<1>4. Spent \subseteq All BY DEF Spent
<1>5. Cardinality(Spent) <= Cardinality(All) BY <1>3, <1>4, FS_Subset
<1>6. PICK a \in Nat, b \in Nat : a = Cardinality(Requests \cup Sweepers) /\ b = MaxRuns
  BY <1>1, PageCacheAssumption, FS_CardinalityType
<1>7. a * b = b * a BY <1>6
<1> QED BY <1>2, <1>3, <1>5, <1>6, <1>7

\* A commit in progress pays for the epoch it begins.
LEMMA EpochPaid ==
    ASSUME Typed, Counted, NEW p \in Pending
    PROVE  /\ epoch + 1 \in 0..MaxEpoch
           /\ epoch' = epoch + 1 /\ acked' = acked /\ runs' = runs /\ Pending' \subseteq Pending \ {p} => Counted'
<1>1. IsFiniteSet(Pending) BY PendingFinite
<1>2. Cardinality(Pending \ {p}) = Cardinality(Pending) - 1 /\ IsFiniteSet(Pending \ {p}) BY <1>1, FS_RemoveElement
<1>3. PICK n \in Nat, m \in Nat : n = Cardinality(Pending) /\ m = Cardinality(Spent) BY PendingFinite, SpentFinite
<1>4. Cardinality(Pending \ {p}) \in Nat BY <1>2, FS_CardinalityType
<1>5. n >= 1 /\ epoch \in Nat /\ acked \in Nat /\ epoch + n <= acked + m BY <1>2, <1>3, <1>4, Numbers DEF Counted
<1>6. epoch + 1 \in 0..MaxEpoch
  <2>1. PICK all \in Nat : all = MaxRuns * Cardinality(Requests \cup Sweepers)
    <3>1. IsFiniteSet(Requests \cup Sweepers) BY PageCacheAssumption, FS_Subset DEF Actors, Requests
    <3> QED BY <3>1, FS_CardinalityType, PageCacheAssumption, Products
  <2>2. m <= all BY <1>3, <2>1, SpentBounded
  <2>3. acked <= MaxUploads /\ MaxUploads \in Nat BY Numbers DEF Typed
  <2>4. MaxEpoch = MaxUploads + all BY <2>1 DEF MaxEpoch
  <2> QED BY <1>5, <2>2, <2>3, <2>4
<1>7. ASSUME epoch' = epoch + 1, acked' = acked, runs' = runs, Pending' \subseteq Pending \ {p} PROVE Counted'
  <2>1. Spent' = Spent BY <1>7 DEF Spent
  <2>2. Cardinality(Pending') <= n - 1 /\ Cardinality(Pending') \in Nat
    BY <1>2, <1>3, <1>7, FS_Subset, FS_CardinalityType
  <2> QED BY <1>3, <1>5, <1>7, <2>1, <2>2 DEF Counted
<1> QED BY <1>6, <1>7

\* The end of a commit: the epoch moves on.
NewEpoch == epoch' = epoch + 1 /\ UNCHANGED <<now, history, upstream, layer, store, hot, runs>>

LEMMA InvalidateGrows ==
    ASSUME PageInv, NEW p \in Actors, pc[p] \in Committed, pc'[p] \in Over, Alone(p), NewEpoch
    PROVE  Typed' /\ Grows /\ Counted'
<1>1. Typed /\ Counted /\ p \in Pending BY DEF PageInv, Pending, Over, Committed
<1>2. epoch + 1 \in 0..MaxEpoch /\ epoch \in Nat BY <1>1, EpochPaid, Numbers
<1>3. Typed'
  <2>1. gate' \in Actors \cup {Free} BY <1>1 DEF Typed, Alone, GateTurn
  <2>2. unstored' \subseteq 0..epoch'
    <3>1. unstored \subseteq 0..epoch BY <1>1 DEF Typed
    <3> QED BY <1>2, <3>1 DEF NewEpoch, history
  <2> QED BY <1>1, <1>2, <2>1, <2>2 DEF Typed, Alone, Turn, NewEpoch, history, upstream, layer, store
<1>4. Grows BY <1>1, <1>2 DEF Grows, NewEpoch, history, upstream, layer, store, Typed
<1>5. Counted'
  <2>1. Pending' \subseteq Pending \ {p} BY DEF Pending, Alone, Turn
  <2> QED BY <1>1, <2>1, EpochPaid DEF NewEpoch, layer
<1> QED BY <1>3, <1>4, <1>5

LEMMA InvalidateStep ==
    ASSUME PageInv, NEW p \in Actors, pc[p] \in Committed, pc'[p] \in Over, Alone(p), NewEpoch, Well(p)'
    PROVE  PageInv'
<1>1. Typed /\ Departed /\ Stored /\ GateHeld /\ Well(p) BY DEF PageInv
<1>2. Typed' /\ Grows /\ Counted' BY InvalidateGrows
<1>3. Departed' /\ Stored' BY <1>1 DEF Departed, Stored, NewEpoch, upstream, store
<1>4. GateHeld' BY <1>1 DEF GateHeld, Alone, Turn, GateTurn, Typed
<1>5. HotSound' BY <1>2, HotKept DEF NewEpoch
<1>6. RecordDated' /\ Record' = Record BY RecordStays DEF NewEpoch, history
<1>7. StepOf({p})
  <2> SUFFICES ASSUME NEW q \in Actors, q # p, Orderly', gate = q PROVE gate' = q BY <1>6 DEF StepOf, Alone, Turn
  <2>1. q # Free BY PageCacheAssumption
  <2> QED BY <2>1 DEF Alone, GateTurn
<1> QED BY <1>2, <1>3, <1>4, <1>5, <1>6, <1>7, StepKeeps

LEMMA InvalidateKeeps ==
    ASSUME PageInv, NEW p \in Actors, Invalidate(p)
    PROVE  PageInv'
<1>1. pc[p] = "persisted" /\ Goto(p, "remember") /\ UNCHANGED <<gate, loc, answer>> /\ NewEpoch
  BY DEF Invalidate, NewEpoch
<1>2. Typed /\ Well(p) /\ loc[p].key \in Nat /\ epoch \in Nat BY Locals, Numbers DEF PageInv
<1>3. "remember" \in Labels BY DEF Labels
<1>4. Turn(p) /\ pc'[p] = "remember" BY <1>1, <1>2, <1>3, Goes DEF Turn, Typed
<1>5. GateTurn(p) /\ pc[p] \in Committed /\ pc'[p] \in Over BY <1>1, <1>4, KeepsGate DEF Holding, Committed, Over
<1>6. Typed' /\ Grows BY <1>1, <1>4, <1>5, InvalidateGrows DEF Alone
<1>7. Well(p)'
  <2>1. loc'[p].key # epoch' BY <1>1, <1>2 DEF NewEpoch, Well, Known
  <2>2. Known(p)' BY <1>1, <1>2, <1>4 DEF Well, Known, NewEpoch, upstream, Streaming, Carrying
  <2>3. Asks(p)' BY <1>1, <1>2, <1>4, <2>1 DEF Well, Asks, NewEpoch, layer
  <2>4. Sees(p)' BY <2>1 DEF Sees
  <2>5. Dates(p)'
    <3>1. Orderly' /\ p \in Requests => Soon(answer[p].page, answer[p].at)' BY <1>1, <1>6, AnswerStays
    <3>2. Orderly' => gate' = p BY <1>1, <1>2 DEF Well, Dates, Holding, Orderly, NewEpoch, history
    <3>3. Dated(loc[p].body, loc[p].at)' BY <1>1, <1>2 DEF Well, Dates, Carrying, Dated, NewEpoch, upstream
    <3> QED BY <1>4, <3>1, <3>2, <3>3 DEF Dates
  <2> QED BY <2>2, <2>3, <2>4, <2>5 DEF Well
<1> QED BY <1>1, <1>4, <1>5, <1>7, InvalidateStep DEF Alone

LEMMA FetchInvalidateKeeps ==
    ASSUME PageInv, NEW p \in Actors, FetchInvalidate(p)
    PROVE  PageInv'
<1>1. pc[p] = "stored" /\ Fetched(p, loc[p].body, loc[p].at) /\ NewEpoch BY DEF FetchInvalidate, NewEpoch
<1>2. /\ Typed /\ Well(p) /\ loc[p].body \in 0..MaxVersion /\ loc[p].at \in Nat /\ loc[p].at <= now
      /\ loc[p].body <= latest
  BY Locals DEF PageInv, Well, Known
<1>3. Soon(loc[p].body, loc[p].at) BY <1>1, <1>2, DatedSoon DEF Well, Dates, Carrying
<1>4. loc[p].ctx \in Nat /\ (p \in Json => loc[p].ctx >= answer[p].since) BY <1>1, ContextInTime
<1>5. Turn(p) /\ pc'[p] \in Over
  <2>1. CASE p \in Requests BY <1>1, <1>2, <1>4, <2>1, Resolves DEF Fetched, Over
  <2>2. CASE p \notin Requests BY <1>1, <1>2, <2>2, Ends DEF Fetched, Turn, Typed, Over
  <2> QED BY <2>1, <2>2
<1>6. GateTurn(p) /\ pc[p] \in Committed BY <1>1, <1>2, Releases DEF Fetched, Committed
<1>7. Typed' /\ Grows BY <1>1, <1>5, <1>6, InvalidateGrows DEF Alone
<1>8. Well(p)'
  <2>1. CASE p \in Requests
    <3>1. Resolved(p, loc[p].body, loc[p].at, loc[p].ctx) BY <1>1, <2>1 DEF Fetched
    <3> QED BY <1>2, <1>3, <1>4, <1>7, <3>1, ResolvedWell
  <2>2. CASE p \notin Requests BY <1>1, <1>7, <2>2, EndedWell DEF Fetched
  <2> QED BY <2>1, <2>2
<1> QED BY <1>1, <1>5, <1>6, <1>8, InvalidateStep DEF Alone

--------------------------------
(* The beginning of a run. *)

\* A run pays for the commit it may lead to.
LEMMA RunCounted ==
    ASSUME Typed, Counted, NEW p \in Requests \cup Sweepers, runs[p] < MaxRuns, runs' = [runs EXCEPT ![p] = @ + 1],
           UNCHANGED <<epoch, acked>>, Pending' \subseteq Pending \cup {p}
    PROVE  Counted'
<1>1. p \in Actors /\ runs \in [Actors -> 0..MaxRuns] /\ MaxRuns \in Nat BY Numbers DEF Typed, Actors, Requests
<1>2. PICK r \in Nat : r = runs[p] /\ r < MaxRuns BY <1>1
<1>3. /\ runs'[p] = r + 1 /\ \A q \in Requests \cup Sweepers : q # p => runs'[q] = runs[q]
  BY <1>1, <1>2 DEF Actors, Requests
<1> DEFINE new == <<p, r + 1>>
<1>4. Spent \cup {new} \subseteq Spent'
  <2>1. new \in Spent' BY <1>1, <1>2, <1>3 DEF Spent
  <2>2. ASSUME NEW q \in Requests \cup Sweepers, NEW i \in 1..MaxRuns, i <= runs[q] PROVE i <= runs'[q]
    BY <1>1, <1>2, <1>3, <2>2
  <2>3. Spent \subseteq Spent' BY <2>2 DEF Spent
  <2> QED BY <2>1, <2>3
<1>5. new \notin Spent BY <1>2 DEF Spent
<1>6. Cardinality(Spent \cup {new}) = Cardinality(Spent) + 1 BY <1>5, SpentFinite, FS_AddElement
<1>7. IsFiniteSet(Spent') /\ Cardinality(Spent') \in Nat
  <2>1. IsFiniteSet((Requests \cup Sweepers) \X (1..MaxRuns))
    <3>1. IsFiniteSet(Requests \cup Sweepers) /\ IsFiniteSet(1..MaxRuns)
      BY PageCacheAssumption, FS_Subset, FS_Interval DEF Actors, Requests
    <3> QED BY <3>1, FS_Product
  <2>2. Spent' \subseteq (Requests \cup Sweepers) \X (1..MaxRuns) BY DEF Spent
  <2> QED BY <2>1, <2>2, FS_Subset, FS_CardinalityType
<1>8. Cardinality(Spent') >= Cardinality(Spent) + 1 BY <1>4, <1>6, <1>7, FS_Subset, SpentFinite
<1>9. Cardinality(Pending') <= Cardinality(Pending) + 1 /\ Cardinality(Pending') \in Nat
  <2>1. IsFiniteSet(Pending) /\ Cardinality(Pending) \in Nat BY PendingFinite
  <2> DEFINE more == Pending \cup {p}
  <2>2. IsFiniteSet(more) /\ Cardinality(more) = (IF p \in Pending THEN Cardinality(Pending) ELSE Cardinality(Pending) + 1)
    BY <2>1, FS_AddElement
  <2>3. Pending' \subseteq more OBVIOUS
  <2>4. Cardinality(Pending') <= Cardinality(more) /\ IsFiniteSet(Pending') BY <2>2, <2>3, FS_Subset
  <2>5. Cardinality(Pending') \in Nat BY <2>4, FS_CardinalityType
  <2> HIDE DEF more
  <2> QED BY <2>1, <2>2, <2>4, <2>5
<1>10. epoch \in Nat /\ acked \in Nat /\ Cardinality(Pending) \in Nat /\ Cardinality(Spent) \in Nat
  BY PendingFinite, SpentFinite, Numbers
<1> QED BY <1>7, <1>8, <1>9, <1>10 DEF Counted

\* What starting a run leaves alone.
Begun(p) ==
    /\ p \in Requests \cup Sweepers /\ Begin(p) /\ Turn(p)
    /\ pc'[p] \notin Committed /\ (pc'[p] \in Holding => lapses' # {})
    /\ lapses \subseteq lapses' /\ lapses' \subseteq Lapses
    /\ UNCHANGED <<now, unstored, upstream, layer, store, epoch, hot, gate>>

LEMMA StartGrows ==
    ASSUME PageInv, NEW p \in Actors, Begun(p)
    PROVE  Typed' /\ Grows
<1>1. Typed /\ pc[p] = "idle" /\ MaxRuns \in Nat BY Numbers DEF PageInv, Begun, Begin
<1>2. runs' \in [Actors -> 0..MaxRuns]
  <2>1. runs \in [Actors -> 0..MaxRuns] /\ runs[p] \in 0..MaxRuns BY <1>1 DEF Typed
  <2>2. runs[p] + 1 \in 0..MaxRuns BY <1>1, <2>1 DEF Begun, Begin
  <2> QED BY <2>1, <2>2 DEF Begun, Begin
<1>3. Typed' BY <1>1, <1>2 DEF Typed, Turn, Begun, upstream, layer, store
<1>4. Settled' => Settled BY <1>1 DEF Settled, Begun, layer, Turn, Committed
<1>5. Grows BY <1>1, <1>4 DEF Grows, Begun, upstream, layer, store, Typed
<1> QED BY <1>3, <1>5

LEMMA StartKeeps ==
    ASSUME PageInv, NEW p \in Actors, Begun(p), Well(p)'
    PROVE  PageInv'
<1>1. Typed /\ Departed /\ Stored /\ GateHeld /\ Counted /\ pc[p] = "idle" BY DEF PageInv, Begun, Begin
<1>2. Typed' /\ Grows BY StartGrows
<1>3. Departed' /\ Stored' BY <1>1 DEF Departed, Stored, Begun, upstream, store
<1>4. GateHeld'
  <2>1. gate # p BY <1>1, NotHolding DEF Holding
  <2> QED BY <1>1, <2>1 DEF GateHeld, Begun, Turn, Typed
<1>5. Counted'
  <2>1. Pending' \subseteq Pending \cup {p} BY DEF Pending, Begun, Turn
  <2> QED BY <1>1, <2>1, RunCounted DEF Begun, Begin, layer
<1>6. HotSound' BY <1>2, HotKept DEF Begun
<1>7. RecordDated' /\ Record' = Record BY RecordStays DEF Begun
<1>8. StepOf({p}) BY <1>7 DEF StepOf, Begun, Turn
<1> QED BY <1>2, <1>3, <1>4, <1>5, <1>6, <1>7, <1>8, StepKeeps

LEMMA SweepKeeps ==
    ASSUME PageInv, NEW p \in Actors, Sweep(p)
    PROVE  PageInv'
<1>1. /\ p \in Sweepers /\ Begin(p) /\ Goto(p, "read") /\ lapses' = lapses \cup {"ungated"}
      /\ UNCHANGED <<now, unstored, upstream, layer, store, epoch, hot, gate, loc, answer>>
  BY DEF Sweep, memory
<1>2. Typed /\ Well(p) /\ p \notin Requests /\ p \notin Json BY <1>1, PageCacheAssumption DEF PageInv, Requests
<1>3. "read" \in Labels BY DEF Labels
<1>4. Turn(p) /\ pc'[p] = "read" BY <1>1, <1>2, <1>3, Goes DEF Turn, Typed
<1>5. Begun(p)
  <2>1. lapses' \subseteq Lapses /\ lapses' # {} BY <1>1, <1>2 DEF Typed, Lapses
  <2> QED BY <1>1, <1>4, <2>1 DEF Begun, Committed
<1>6. Well(p)'
  <2>1. Known(p)' BY <1>1, <1>2, <1>4 DEF Well, Known, upstream, Streaming, Carrying
  <2>2. Asks(p)' /\ Sees(p)' BY <1>2, <1>4 DEF Asks, Sees, Streaming
  <2>3. Dates(p)' BY <1>1, <1>4 DEF Dates, Orderly, Carrying
  <2> QED BY <2>1, <2>2, <2>3 DEF Well
<1> QED BY <1>5, <1>6, StartKeeps

\* A request is answered from the hot cache, or begins its path.
LEMMA ArrivesWell ==
    ASSUME PageInv, NEW p \in Requests, NEW variant \in Variants, NEW label \in {"parts", "resolve"},
           Begin(p), Arrive(p, variant, label), p \in Json <=> variant = "json", p \in Json <=> label = "parts",
           UNCHANGED <<now, history, upstream, layer, store, memory, gate>>
    PROVE  PageInv'
<1>1. /\ Typed /\ Well(p) /\ p \in Actors /\ pc[p] = "idle" /\ acked \in Nat /\ now \in Nat /\ epoch \in Nat
      /\ loc[p] \in Local /\ answer[p] \in Answer
  <2>1. Typed /\ p \in Actors /\ pc[p] = "idle" BY DEF PageInv, Actors, Requests, Begin
  <2>2. Well(p) BY <2>1 DEF PageInv
  <2>3. loc[p] \in Local /\ answer[p] \in Answer BY <2>1 DEF Typed
  <2> QED BY <2>1, <2>2, <2>3, Numbers
<1>2. CASE HotFresh(variant)
  <2>1. PICK entry \in Entry : /\ entry = hot[variant][epoch] /\ (Orderly => Soon(entry.body, now))
                               /\ (variant = "json" => entry.ctx >= acked)
    BY <1>2, HotAnswers
  <2> DEFINE new == [page |-> entry.body, ctx |-> entry.ctx, at |-> now, since |-> acked]
  <2>2. new \in Answer BY <1>1 DEF Answer, Entry
  <2>3. answer' = [answer EXCEPT ![p] = new] /\ UNCHANGED <<pc, loc>> BY <1>2, <2>1 DEF Arrive
  <2>4. Turn(p) /\ answer'[p] = new BY <1>1, <2>2, <2>3 DEF Turn, Typed
  <2>5. Begun(p) BY <1>1, <2>3, <2>4 DEF Begun, Committed, Holding, Typed, history, memory
  <2>6. Typed' /\ Grows BY <1>1, <2>5, StartGrows
  <2>7. Well(p)'
    <3>1. Known(p)' BY <1>1, <2>3 DEF Well, Known, upstream, memory, Streaming, Carrying
    <3>2. Asks(p)' BY <1>1, <2>1, <2>3, <2>4 DEF Asks, layer, Streaming
    <3>3. Sees(p)' BY <1>1, <2>3 DEF Sees, Streaming
    <3>4. Dates(p)'
      <4>1. Orderly' => Orderly BY <2>6 DEF Orderly, Grows
      <4>2. Orderly => Soon(entry.body, now)' BY <1>1, <2>1, <2>6, Dating
      <4> QED BY <1>1, <2>3, <2>4, <4>1, <4>2 DEF Dates, Soon, Carrying, Holding
    <3> QED BY <3>1, <3>2, <3>3, <3>4 DEF Well
  <2> QED BY <1>1, <2>5, <2>7, StartKeeps
<1>3. CASE ~HotFresh(variant)
  <2> DEFINE new == [NoAnswer EXCEPT !.since = acked]
  <2>1. /\ answer' = [answer EXCEPT ![p] = new] /\ loc' = [loc EXCEPT ![p].key = epoch]
        /\ Goto(p, label)
    BY <1>3 DEF Arrive
  <2>2. new \in Answer /\ new.page = -1 /\ new.at = 0 /\ new.since = acked BY <1>1 DEF Answer, NoAnswer
  <2>3. label \in Labels BY DEF Labels
  <2>4. pc' \in [Actors -> Labels] /\ pc'[p] = label /\ \A q \in Actors \ {p} : pc'[q] = pc[q] BY <1>1, <2>1, <2>3, Goes
  <2>5. /\ loc' \in [Actors -> Local] /\ loc'[p].key = epoch /\ loc'[p].body = loc[p].body
        /\ loc'[p].at = loc[p].at /\ loc'[p].cached = loc[p].cached /\ \A q \in Actors \ {p} : loc'[q] = loc[q]
    BY <1>1, <2>1 DEF Typed, Local
  <2>6. Turn(p) /\ answer'[p] = new BY <1>1, <2>1, <2>2, <2>4, <2>5 DEF Turn, Typed
  <2>7. Begun(p) BY <1>1, <2>4, <2>6 DEF Begun, Committed, Holding, Typed, history, memory
  <2>8. Well(p)'
    <3>1. Known(p)'
      <4>1. epoch' = epoch /\ epoch' <= epoch' BY <1>1 DEF memory
      <4> QED BY <1>1, <2>4, <2>5, <4>1 DEF Well, Known, upstream, memory, Streaming, Carrying
    <3>2. Asks(p)' BY <1>1, <2>2, <2>4, <2>6 DEF Asks, layer, Streaming
    <3>3. Sees(p)' BY <2>4 DEF Sees, Streaming
    <3>4. Dates(p)'
      <4>1. Soon(-1, 0)' BY <1>1 DEF Soon
      <4> QED BY <2>2, <2>4, <2>6, <4>1 DEF Dates, Soon, Carrying, Holding
    <3> QED BY <3>1, <3>2, <3>3, <3>4 DEF Well
  <2> QED BY <1>1, <2>7, <2>8, StartKeeps
<1> QED BY <1>2, <1>3

LEMMA StreamDetailKeeps ==
    ASSUME PageInv, NEW p \in Actors, StreamDetail(p)
    PROVE  PageInv'
<1>1. p \in Json /\ p \in Requests /\ "json" \in Variants BY DEF StreamDetail, Requests, Variants
<1> QED BY <1>1, ArrivesWell DEF StreamDetail

LEMMA ResolveHtmlKeeps ==
    ASSUME PageInv, NEW p \in Actors, ResolveHtml(p)
    PROVE  PageInv'
<1>1. p \in Html /\ p \in Requests /\ p \notin Json /\ "html" \in Variants
  BY PageCacheAssumption DEF ResolveHtml, Requests, Variants
<1> QED BY <1>1, ArrivesWell DEF ResolveHtml

--------------------------------
(* Steps of a request and the background task it leaves behind. *)

\* The request ends, and an idle task goes on.
Hands(p, b) ==
    /\ b \in Background /\ b # p /\ pc[b] = "idle" /\ pc[p] \notin Over \cup Committed
    /\ pc'[p] = "idle" /\ pc'[b] \in {"read", "put"}
    /\ pc' \in [Actors -> Labels] /\ loc' \in [Actors -> Local] /\ answer' \in [Actors -> Answer]
    /\ \A q \in Actors \ {p, b} : pc'[q] = pc[q] /\ loc'[q] = loc[q] /\ answer'[q] = answer[q]
    /\ gate' \in {gate, Free, b} /\ gate' # p /\ (gate' # gate => gate \in {p, Free})
    /\ UNCHANGED <<now, unstored, upstream, layer, store, epoch, runs>>
    /\ lapses \subseteq lapses' /\ lapses' \subseteq Lapses
    /\ hot' \in [Variants -> [0..MaxEpoch -> Entry]]

LEMMA HandsGrows ==
    ASSUME PageInv, NEW p \in Actors, NEW b \in Actors, Hands(p, b)
    PROVE  Typed' /\ Grows
<1>1. Typed BY DEF PageInv
<1>2. Typed'
  <2>1. gate' \in Actors \cup {Free} BY <1>1 DEF Typed, Hands
  <2> QED BY <1>1, <2>1 DEF Typed, Hands, upstream, layer, store
<1>3. Settled' => Settled BY DEF Settled, Hands, layer, Committed, Over
<1>4. Grows BY <1>1, <1>3 DEF Grows, Hands, upstream, layer, store, Typed
<1> QED BY <1>2, <1>4

LEMMA HandsKeeps ==
    ASSUME PageInv, NEW p \in Actors, NEW b \in Actors, Hands(p, b), HotSound', Well(p)', Well(b)'
    PROVE  PageInv'
<1>1. Typed /\ Departed /\ Stored /\ GateHeld /\ Counted BY DEF PageInv
<1>2. Typed' /\ Grows BY HandsGrows
<1>3. Departed' /\ Stored' BY <1>1 DEF Departed, Stored, Hands, upstream, store
<1>4. GateHeld' BY <1>1 DEF GateHeld, Hands, Typed, Holding
<1>5. Counted'
  <2> DEFINE rest == Pending \ {p}
             more == rest \cup {b}
  <2>1. IsFiniteSet(Pending) /\ Cardinality(Pending) \in Nat BY <1>1, PendingFinite
  <2>2. p \in Pending BY DEF Pending, Hands
  <2>3. IsFiniteSet(rest) /\ Cardinality(rest) = Cardinality(Pending) - 1 BY <2>1, <2>2, FS_RemoveElement
  <2>4. IsFiniteSet(more) /\ Cardinality(more) = (IF b \in rest THEN Cardinality(rest) ELSE Cardinality(rest) + 1)
    BY <2>3, FS_AddElement
  <2>5. Pending' \subseteq more BY DEF Pending, Hands, Over
  <2>6. Cardinality(Pending') <= Cardinality(more) /\ IsFiniteSet(Pending') BY <2>4, <2>5, FS_Subset
  <2>7. Cardinality(Pending') \in Nat BY <2>6, FS_CardinalityType
  <2>8. Cardinality(Pending') <= Cardinality(Pending)
    <3> HIDE DEF rest, more
    <3> QED BY <2>1, <2>3, <2>4, <2>6, <2>7
  <2>9. Spent' = Spent BY DEF Spent, Hands
  <2> QED BY <1>1, <2>1, <2>7, <2>8, <2>9, SpentFinite, Numbers DEF Counted, Hands, layer
<1>6. RecordDated' /\ Record' = Record BY RecordStays DEF Hands
<1>7. StepOf({p, b})
  <2> SUFFICES ASSUME NEW q \in Actors, q # p, q # b, Orderly', gate = q PROVE gate' = q BY <1>6 DEF StepOf, Hands
  <2>1. q # Free BY PageCacheAssumption
  <2> QED BY <2>1 DEF Hands
<1>8. \A q \in {p, b} : Well(q)' OBVIOUS
<1> QED BY <1>2, <1>3, <1>4, <1>5, <1>6, <1>7, <1>8, StepKeeps

LEMMA CheckStaleKeeps ==
    ASSUME PageInv, NEW p \in Actors, CheckStale(p)
    PROVE  PageInv'
<1>1. /\ pc[p] = "check" /\ ServableStale(Record)
      /\ StoreHot("json", loc[p].key, Record.body, loc[p].ctx, Expiry(Record))
      /\ answer' = [answer EXCEPT ![p] = [@ EXCEPT !.page = Record.body, !.ctx = loc[p].ctx, !.at = now]]
      /\ loc' = [loc EXCEPT ![p] = Blank]
      /\ UNCHANGED <<now, history, upstream, layer, store, epoch, runs>>
  BY DEF CheckStale
<1>2. /\ Typed /\ Stored /\ Departed /\ Well(p) /\ now \in Nat /\ Record \in PageRow /\ Record.body = page.body
      /\ Record.body \in 0..MaxVersion /\ page.body \in Nat /\ loc[p].ctx \in Nat
  <2>1. Typed /\ Stored /\ Departed /\ Well(p) BY DEF PageInv
  <2> QED BY <2>1, Numbers, RecordIs, Locals
<1>3. overlay' \in OverlayRow BY <1>1, <1>2 DEF Typed, store
<1>4. Orderly => Dated(Record.body, Record.fetched) /\ Soon(Record.body, now)
  BY <1>1, <1>2, RecordAnswers, RecordIs DEF PageInv, RecordDated, ServableStale
<1>5. pc[p] \in Streaming \ {"parts"} /\ pc[p] \notin Committed /\ p \in Json
  BY <1>1, <1>2 DEF Streaming, Committed, Well, Known
<1>6. CASE gate # Free
  <2>1. Goto(p, "idle") /\ UNCHANGED gate BY <1>6 DEF CheckStale
  <2>2. TransformWhole(p, Record, now) BY <1>1, <2>1 DEF TransformWhole, Reply, End
  <2>3. GateTurn(p) BY <1>1, <2>1, KeepsGate DEF Holding
  <2>4. RecordDated' /\ Record' = Record BY <1>1, RecordStays DEF history
  <2> QED BY <1>1, <1>2, <1>3, <1>4, <1>5, <2>2, <2>3, <2>4, TransformKeeps DEF store
<1>7. CASE gate = Free
  <2>1. PICK b \in Background : pc[b] = "idle" /\ gate' = b /\ pc' = [pc EXCEPT ![p] = "idle", ![b] = "read"]
    BY <1>7 DEF CheckStale
  <2>2. b \in Actors /\ b # p /\ b \notin Requests /\ b \notin Json
    BY <1>5, <2>1, PageCacheAssumption DEF Actors, Requests
  <2>3. Blank \in Local BY PageCacheAssumption DEF Blank, Local, NoPage, PageRow, NoTime, NoGrant
  <2>4. /\ loc' \in [Actors -> Local] /\ loc'[p] = Blank /\ \A q \in Actors \ {p} : loc'[q] = loc[q]
    BY <1>1, <1>2, <2>3 DEF Typed
  <2>5. /\ pc' \in [Actors -> Labels] /\ pc'[p] = "idle" /\ pc'[b] = "read"
        /\ \A q \in Actors \ {p, b} : pc'[q] = pc[q]
    <3>1. {"idle", "read"} \subseteq Labels BY DEF Labels
    <3> QED BY <1>2, <2>1, <2>2, <3>1 DEF Typed
  <2>6. /\ answer' \in [Actors -> Answer] /\ \A q \in Actors \ {p} : answer'[q] = answer[q]
        /\ answer'[p].page = Record.body /\ answer'[p].ctx = loc[p].ctx /\ answer'[p].at = now
        /\ answer'[p].since = answer[p].since
    <3>1. loc[p].ctx \in Int BY <1>2
    <3> QED BY <1>1, <1>2, <3>1, Answers
  <2>7. hot' \in [Variants -> [0..MaxEpoch -> Entry]] /\ Expiry(Record) \in Int
    <3>1. Expiry(Record) \in Int BY <1>2, Lifetime
    <3>2. [body |-> Record.body, ctx |-> loc[p].ctx, expires |-> Expiry(Record)] \in Entry BY <1>2, <3>1 DEF Entry
    <3>3. hot \in [Variants -> [0..MaxEpoch -> Entry]] BY <1>2 DEF Typed
    <3> QED BY <1>1, <3>1, <3>2, <3>3 DEF StoreHot
  <2>8. Hands(p, b)
    <3>1. gate' \in {gate, Free, b} /\ gate' # p /\ gate \in {p, Free} BY <1>7, <2>1, <2>2
    <3>2. pc[p] \notin Over \cup Committed BY <1>1 DEF Over, Committed
    <3>3. lapses \subseteq lapses' /\ lapses' \subseteq Lapses BY <1>1, <1>2 DEF history, Typed
    <3> QED BY <1>1, <2>1, <2>2, <2>4, <2>5, <2>6, <2>7, <3>1, <3>2, <3>3 DEF Hands, history
  <2>9. Typed' /\ Grows BY <2>2, <2>8, HandsGrows
  <2>10. HotSound'
    <3>1. Orderly => Kept(Record.body, Expiry(Record)) BY <1>2, <1>4, RecordSoon
    <3> QED BY <1>1, <1>2, <1>5, <2>7, <2>9, <3>1, RenderingKept DEF history, layer, store
  <2>11. Well(p)'
    <3>1. p \in Json => loc[p].ctx >= answer[p].since BY <1>1, ContextInTime
    <3> QED BY <1>2, <1>4, <2>4, <2>5, <2>6, <2>9, <3>1, AnsweredWell
  <2>12. Well(b)'
    <3>1. Well(b) BY <2>2 DEF PageInv
    <3>2. Known(b)' BY <1>1, <2>2, <2>4, <2>5, <3>1 DEF Well, Known, upstream, Streaming, Carrying
    <3>3. Asks(b)' /\ Sees(b)' BY <2>2, <2>5 DEF Asks, Sees, Streaming
    <3>4. Dates(b)' BY <2>1, <2>2, <2>5 DEF Dates, Carrying
    <3> QED BY <3>2, <3>3, <3>4 DEF Well
  <2> QED BY <2>2, <2>8, <2>10, <2>11, <2>12, HandsKeeps
<1> QED BY <1>6, <1>7

LEMMA DetachKeeps ==
    ASSUME PageInv, NEW p \in Actors, Detach(p)
    PROVE  PageInv'
<1>1. /\ pc[p] = "body" /\ Release(p) /\ lapses' = lapses \cup {"ungated"} /\ UNCHANGED answer
      /\ UNCHANGED <<now, unstored, upstream, layer, store, epoch, hot, runs>>
  BY DEF Detach, memory
<1>2. PICK b \in Background : /\ pc[b] = "idle" /\ pc' = [pc EXCEPT ![p] = "idle", ![b] = "put"]
                              /\ loc' = [loc EXCEPT ![b] = loc[p], ![p] = Blank]
  BY DEF Detach
<1>3. Typed /\ Well(p) /\ p \in Json BY <1>1 DEF PageInv, Well, Known, Streaming
<1>4. b \in Actors /\ b # p /\ b \notin Requests /\ b \notin Json
  BY <1>2, <1>3, PageCacheAssumption DEF Actors, Requests
<1>5. /\ loc' \in [Actors -> Local] /\ loc'[p] = Blank /\ loc'[b] = loc[p]
      /\ \A q \in Actors \ {p, b} : loc'[q] = loc[q]
  <2>1. Blank \in Local BY PageCacheAssumption DEF Blank, Local, NoPage, PageRow, NoTime, NoGrant
  <2>2. loc \in [Actors -> Local] /\ loc[p] \in Local BY <1>3 DEF Typed
  <2> QED BY <1>2, <1>4, <2>1, <2>2
<1>6. /\ pc' \in [Actors -> Labels] /\ pc'[p] = "idle" /\ pc'[b] = "put"
      /\ \A q \in Actors \ {p, b} : pc'[q] = pc[q]
  <2>1. {"idle", "put"} \subseteq Labels BY DEF Labels
  <2> QED BY <1>2, <1>3, <1>4, <2>1 DEF Typed
<1>7. Hands(p, b)
  <2>1. gate' \in {gate, Free, b} /\ gate' # p /\ (gate' # gate => gate \in {p, Free})
    BY <1>1, PageCacheAssumption DEF Release
  <2>2. pc[p] \notin Over \cup Committed BY <1>1 DEF Over, Committed
  <2>3. lapses \subseteq lapses' /\ lapses' \subseteq Lapses BY <1>1, <1>3 DEF Typed, Lapses
  <2>4. answer' \in [Actors -> Answer] /\ hot' \in [Variants -> [0..MaxEpoch -> Entry]] BY <1>1, <1>3 DEF Typed
  <2> QED BY <1>1, <1>2, <1>4, <1>5, <1>6, <2>1, <2>2, <2>3, <2>4 DEF Hands
<1>8. Typed' /\ Grows BY <1>4, <1>7, HandsGrows
<1>9. HotSound' BY <1>1, <1>8, HotKept
<1>10. Well(p)' BY <1>1, <1>5, <1>6, <1>8, LeftWell
<1>11. Well(b)'
  <2>1. Known(b)' BY <1>1, <1>3, <1>4, <1>5, <1>6 DEF Well, Known, upstream, Streaming, Carrying
  <2>2. Asks(b)' /\ Sees(b)' BY <1>4, <1>6 DEF Asks, Sees, Streaming
  <2>3. Dates(b)'
    <3>1. Dated(loc[p].body, loc[p].at) BY <1>1, <1>3 DEF Well, Dates, Carrying
    <3> QED BY <1>1, <1>5, <3>1 DEF Dates, Dated, upstream, Orderly
  <2> QED BY <2>1, <2>2, <2>3 DEF Well
<1> QED BY <1>4, <1>7, <1>9, <1>10, <1>11, HandsKeeps

--------------------------------
(* The world outside. *)

\* No actor moves.
Still == UNCHANGED <<gate, pc, loc, answer, runs>>

LEMMA WorldKeeps ==
    ASSUME PageInv, Still, UNCHANGED <<history, store, hot>>, Typed', Grows, Departed', Stored', Counted'
    PROVE  PageInv'
<1>1. Typed /\ GateHeld /\ RecordDated BY DEF PageInv
<1>2. GateHeld' BY <1>1 DEF GateHeld, Still
<1>3. HotSound' BY HotKept
<1>4. Record' = Record BY DEF Record, store
<1>5. RecordDated'
  <2> SUFFICES ASSUME Orderly', page' # NoPage PROVE Dated(page.body, Record.fetched)' BY DEF RecordDated
  <2>1. Orderly /\ page # NoPage BY DEF Orderly, history, store
  <2>2. Dated(page.body, Record.fetched) /\ Record.fetched \in Int
    BY <1>1, <2>1, RecordIs DEF RecordDated, PageInv, PageRow
  <2>3. PICK v \in 0..MaxVersion, t \in Int : v = page.body /\ t = Record.fetched BY <1>1, <2>2, Numbers
  <2>4. Dated(v, t)' BY <1>1, <2>2, <2>3, Dating
  <2> QED BY <1>4, <2>3, <2>4 DEF Dated, store
<1>6. StepOf({}) BY <1>4 DEF StepOf, Still
<1> QED BY <1>2, <1>3, <1>5, <1>6, StepKeeps

LEMMA TickKeeps ==
    ASSUME PageInv, Tick
    PROVE  PageInv'
<1>1. /\ Typed /\ Departed /\ Stored /\ Counted /\ now \in Nat /\ MaxTime \in Nat
      /\ now < MaxTime /\ now' = now + 1
      /\ UNCHANGED <<history, upstream, layer, store, hot, epoch>> /\ Still
  BY Numbers DEF PageInv, Tick, memory, Still
<1>2. Typed' BY <1>1 DEF Typed, history, upstream, layer, store, Still
<1>3. Grows BY <1>1 DEF Grows, history, upstream, layer, store, Settled, Still, Typed
<1>4. Departed'
  <2>1. ASSUME NEW v \in 1..MaxVersion PROVE left[v] <= now + 1
    <3>1. left[v] \in Nat \cup {NoTime} BY <1>1 DEF Typed
    <3>2. PICK d \in Int : d = left[v] BY <3>1 DEF NoTime
    <3>3. d <= now BY <1>1, <3>2 DEF Departed
    <3> QED BY <1>1, <3>2, <3>3
  <2> QED BY <1>1, <2>1 DEF Departed, upstream
<1>5. Stored' /\ Counted' BY <1>1 DEF Stored, Counted, Pending, Spent, upstream, layer, store, Still
<1> QED BY <1>1, <1>2, <1>3, <1>4, <1>5, WorldKeeps

\* What the upstream serves, it served until now.
LEMMA Leaves ==
    ASSUME Typed, Departed, Leave
    PROVE  /\ left' \in [1..MaxVersion -> Nat \cup {NoTime}]
           /\ \A v \in 1..MaxVersion :
                /\ left'[v] = left[v] \/ (left[v] = NoTime /\ left'[v] = now)
                /\ left'[v] <= now
                /\ v > latest => left'[v] = NoTime
<1>1. left \in [1..MaxVersion -> Nat \cup {NoTime}] /\ now \in Nat /\ latest \in 1..MaxVersion BY Numbers DEF Typed
<1>2. CASE up = 0 BY <1>1, <1>2 DEF Leave, Departed
<1>3. CASE up # 0
  <2>1. left' = [left EXCEPT ![up] = now] /\ up = latest /\ left[up] = NoTime /\ up \in 1..MaxVersion
    BY <1>1, <1>3 DEF Leave, Departed, Typed
  <2>2. left' \in [1..MaxVersion -> Nat \cup {NoTime}] BY <1>1, <2>1
  <2>3. left'[up] = now /\ \A v \in 1..MaxVersion : v # up => left'[v] = left[v] BY <1>1, <2>1
  <2>4. now <= now /\ ~(latest > latest) BY <1>1
  <2>5. ASSUME NEW v \in 1..MaxVersion
        PROVE  /\ left'[v] = left[v] \/ (left[v] = NoTime /\ left'[v] = now)
               /\ left'[v] <= now
               /\ v > latest => left'[v] = NoTime
    BY <2>1, <2>3, <2>4 DEF Departed
  <2> QED BY <2>2, <2>5
<1> QED BY <1>2, <1>3

LEMMA PublishKeeps ==
    ASSUME PageInv, Publish
    PROVE  PageInv'
<1>1. /\ Typed /\ Departed /\ Stored /\ Counted /\ now \in Nat /\ MaxVersion \in Nat /\ latest \in 1..MaxVersion
      /\ latest < MaxVersion /\ latest' = latest + 1 /\ up' = latest + 1 /\ Leave
      /\ UNCHANGED <<now, history, layer, store, hot, epoch>> /\ Still
  BY Numbers DEF PageInv, Publish, memory, Still
<1>2. /\ left' \in [1..MaxVersion -> Nat \cup {NoTime}]
      /\ \A v \in 1..MaxVersion :
           /\ left'[v] = left[v] \/ (left[v] = NoTime /\ left'[v] = now)
           /\ left'[v] <= now
           /\ v > latest => left'[v] = NoTime
  BY <1>1, Leaves
<1>3. latest' \in 1..MaxVersion /\ up' \in {0, latest'} BY <1>1
<1>4. Typed'
  <2>1. files' \subseteq 1..latest'
    <3>1. files \subseteq 1..latest BY <1>1 DEF Typed
    <3> QED BY <1>1, <3>1 DEF store
  <2> QED BY <1>1, <1>2, <1>3, <2>1 DEF Typed, history, layer, store, Still
<1>5. Grows BY <1>1, <1>2 DEF Grows, history, layer, store, Settled, Still, Typed
<1>6. Departed'
  <2>1. ASSUME NEW v \in 1..MaxVersion PROVE left'[v] <= now' /\ (v > latest' => left'[v] = NoTime) BY <1>1, <1>2
  <2>2. left'[up'] = NoTime BY <1>1, <1>2, <1>3
  <2> QED BY <2>1, <2>2 DEF Departed
<1>7. Stored'
  <2>1. page.body \in Int BY <1>1, Numbers
  <2> QED BY <1>1, <2>1 DEF Stored, store
<1>8. Counted' BY <1>1 DEF Counted, Pending, Spent, layer, Still
<1> QED BY <1>1, <1>4, <1>5, <1>6, <1>7, <1>8, WorldKeeps

LEMMA WithdrawKeeps ==
    ASSUME PageInv, Withdraw
    PROVE  PageInv'
<1>1. /\ Typed /\ Departed /\ Stored /\ Counted
      /\ up' = 0 /\ Leave /\ UNCHANGED <<now, history, latest, layer, store, hot, epoch>> /\ Still
  BY DEF PageInv, Withdraw, memory, Still
<1>2. /\ left' \in [1..MaxVersion -> Nat \cup {NoTime}]
      /\ \A v \in 1..MaxVersion :
           /\ left'[v] = left[v] \/ (left[v] = NoTime /\ left'[v] = now)
           /\ left'[v] <= now
           /\ v > latest => left'[v] = NoTime
  BY <1>1, Leaves
<1>3. Typed' BY <1>1, <1>2 DEF Typed, history, layer, store, Still
<1>4. Grows BY <1>1, <1>2 DEF Grows, history, layer, store, Settled, Still, Typed
<1>5. Departed' /\ Stored' BY <1>1, <1>2 DEF Departed, Stored, store
<1>6. Counted' BY <1>1 DEF Counted, Pending, Spent, layer, Still
<1> QED BY <1>1, <1>3, <1>4, <1>5, <1>6, WorldKeeps

LEMMA UploadKeeps ==
    ASSUME PageInv, Upload
    PROVE  PageInv'
<1>1. /\ Typed /\ Departed /\ Stored /\ Counted /\ hosted \in Nat /\ acked \in 0..hosted /\ MaxUploads \in Nat
      /\ hosted < MaxUploads /\ hosted' = hosted + 1 /\ uploading' = TRUE
      /\ UNCHANGED <<now, history, upstream, acked, store, hot, epoch>> /\ Still
  BY Numbers DEF PageInv, Upload, memory, Still, Typed
<1>2. Typed' BY <1>1 DEF Typed, history, upstream, store, Still
<1>3. Grows BY <1>1 DEF Grows, history, upstream, store, Settled, Still, Typed
<1>4. Departed' /\ Stored' /\ Counted' BY <1>1 DEF Departed, Stored, Counted, Pending, Spent, upstream, store, Still
<1> QED BY <1>1, <1>2, <1>3, <1>4, WorldKeeps

LEMMA AcknowledgeKeeps ==
    ASSUME PageInv, Acknowledge
    PROVE  PageInv'
<1>1. /\ Typed /\ Departed /\ Stored /\ Counted /\ hosted \in 0..MaxUploads /\ acked \in Nat /\ MaxUploads \in Nat
      /\ epoch \in Nat /\ acked < hosted
      /\ epoch' = epoch + 1 /\ uploading' = FALSE /\ acked' = hosted
      /\ UNCHANGED <<now, history, upstream, hosted, store, hot>> /\ Still
  BY Numbers DEF PageInv, Acknowledge, Still, Typed
<1>2. PICK n \in Nat, m \in Nat : n = Cardinality(Pending) /\ m = Cardinality(Spent) BY <1>1, PendingFinite, SpentFinite
<1>3. epoch + n <= acked + m BY <1>1, <1>2 DEF Counted
<1>4. Counted'
  <2>1. Pending' = Pending /\ Spent' = Spent BY <1>1 DEF Pending, Spent, Still
  <2>2. epoch + 1 + n <= hosted + m BY <1>1, <1>2, <1>3
  <2> QED BY <1>1, <1>2, <2>1, <2>2 DEF Counted
<1>5. epoch' \in 0..MaxEpoch
  <2>1. PICK all \in Nat : all = MaxRuns * Cardinality(Requests \cup Sweepers)
    <3>1. IsFiniteSet(Requests \cup Sweepers) BY PageCacheAssumption, FS_Subset DEF Actors, Requests
    <3> QED BY <3>1, FS_CardinalityType, PageCacheAssumption, Products
  <2>2. m <= all BY <1>2, <2>1, SpentBounded
  <2>3. MaxEpoch = MaxUploads + all BY <2>1 DEF MaxEpoch
  <2>4. epoch + 1 <= MaxUploads + all BY <1>1, <1>2, <1>3, <2>2
  <2> QED BY <1>1, <2>3, <2>4
<1>6. Typed'
  <2>1. unstored' \subseteq 0..epoch'
    <3>1. unstored \subseteq 0..epoch BY <1>1 DEF Typed
    <3> QED BY <1>1, <3>1 DEF history
  <2>2. acked' \in 0..hosted'
    <3>1. hosted \in 0..hosted BY <1>1
    <3> QED BY <1>1, <3>1
  <2>3. (uploading' => acked' < hosted') /\ hosted' \in 0..MaxUploads /\ uploading' \in BOOLEAN BY <1>1
  <2> QED BY <1>1, <1>5, <2>1, <2>2, <2>3 DEF Typed, history, upstream, store, Still
<1>7. Grows BY <1>1 DEF Grows, history, upstream, store, Still, Typed
<1>8. Departed' /\ Stored' BY <1>1 DEF Departed, Stored, upstream, store
<1> QED BY <1>1, <1>4, <1>6, <1>7, <1>8, WorldKeeps

--------------------------------
(* The invariant holds in every state. *)

LEMMA InitWell ==
    ASSUME Init
    PROVE  PageInv
<1>1. /\ TTL \in Nat \ {0} /\ MaxStale \in Nat /\ MaxVersion \in Nat \ {0} /\ MaxTime \in Nat
      /\ MaxUploads \in Nat /\ MaxRuns \in Nat /\ MaxEpoch \in Nat /\ 1 \in 1..MaxVersion
  BY PageCacheAssumption, EpochsBounded
<1>2. NoPage \in PageRow /\ NoOverlay \in OverlayRow BY <1>1 DEF NoPage, NoOverlay, PageRow, OverlayRow, NoTime, NoGrant
<1>3. Blank \in Local /\ NoAnswer \in Answer /\ NoEntry \in Entry /\ "idle" \in Labels
  BY <1>1, <1>2 DEF Blank, Local, NoAnswer, Answer, NoEntry, Entry, NoGrant, NoTime, Labels
<1>4. Typed
  <2>1. left \in [1..MaxVersion -> Nat \cup {NoTime}] BY DEF Init
  <2>2. hot \in [Variants -> [0..MaxEpoch -> Entry]] BY <1>3 DEF Init
  <2>3. pc \in [Actors -> Labels] /\ loc \in [Actors -> Local] /\ answer \in [Actors -> Answer] BY <1>3 DEF Init
  <2>4. runs \in [Actors -> 0..MaxRuns] BY <1>1 DEF Init
  <2>5. now \in 0..MaxTime /\ latest \in 1..MaxVersion /\ up \in {0, latest} /\ epoch \in 0..MaxEpoch BY <1>1 DEF Init
  <2>6. hosted \in 0..MaxUploads /\ acked \in 0..hosted /\ uploading \in BOOLEAN /\ (uploading => acked < hosted)
    <3>1. hosted = 0 /\ acked = 0 /\ uploading = FALSE BY DEF Init
    <3>2. 0 \in 0..MaxUploads /\ 0 \in 0..0 BY <1>1
    <3> QED BY <3>1, <3>2
  <2>7. page \in PageRow /\ overlay \in OverlayRow /\ files \subseteq 1..latest BY <1>2 DEF Init
  <2>8. gate \in Actors \cup {Free} /\ unstored \subseteq 0..epoch /\ lapses \subseteq Lapses BY DEF Init
  <2> QED BY <2>1, <2>2, <2>3, <2>4, <2>5, <2>6, <2>7, <2>8 DEF Typed
<1>5. Departed /\ Stored /\ GateHeld BY <1>1 DEF Init, Departed, Stored, GateHeld, NoTime, NoPage
<1>6. Counted
  <2>1. Pending = {} BY DEF Pending, Init, Over
  <2>2. Cardinality(Pending) = 0 BY <2>1, FS_EmptySet
  <2> QED BY <2>2, SpentFinite DEF Counted, Init
<1>7. HotSound
  <2>1. \A v \in Variants, e \in 0..MaxEpoch : hot[v][e] = NoEntry BY DEF Init
  <2>2. KeysAhead BY <2>1 DEF KeysAhead
  <2>3. EntryCurrent
    <3>1. "json" \in Variants /\ epoch \in 0..MaxEpoch BY <1>1 DEF Init, Variants
    <3> QED BY <2>1, <3>1 DEF EntryCurrent
  <2>4. EntriesDated
    <3>1. Kept(NoEntry.body, NoEntry.expires) BY <1>1 DEF Init, Kept, NoEntry, NoTime
    <3> QED BY <2>1, <3>1 DEF EntriesDated
  <2> QED BY <2>2, <2>3, <2>4 DEF HotSound
<1>8. RecordDated BY DEF RecordDated, Init
<1>9. ASSUME NEW p \in Actors PROVE Well(p)
  <2>1. pc[p] = "idle" /\ loc[p] = Blank /\ answer[p] = NoAnswer BY DEF Init
  <2>2. Known(p) BY <2>1 DEF Known, Init, Blank, NoPage, Streaming, Carrying
  <2>3. Asks(p) /\ Sees(p) BY <2>1 DEF Asks, Sees, Init, NoAnswer, Streaming
  <2>4. Dates(p) BY <2>1 DEF Dates, Soon, Init, NoAnswer, Carrying, Holding
  <2> QED BY <2>2, <2>3, <2>4 DEF Well
<1> QED BY <1>4, <1>5, <1>6, <1>7, <1>8, <1>9 DEF PageInv

LEMMA StreamKeeps ==
    ASSUME PageInv, NEW p \in Actors, Stream(p)
    PROVE  PageInv'
  BY StreamingPartsKeeps, CheckFreshKeeps, CheckNegativeKeeps, CheckStaleKeeps, CheckMissKeeps, LockedHotKeeps,
     LockedFreshKeeps, LockedNegativeKeeps, LockedMissKeeps, HeadFallsBack, HeadPageKeeps, HeadNotModifiedKeeps,
     HeadNotFoundKeeps, BodyFailsKeeps, PersistKeeps, PersistFailsKeeps, InvalidateKeeps, RememberKeeps DEF Stream

LEMMA FetchKeeps ==
    ASSUME PageInv, NEW p \in Actors, Resolve(p) \/ Fetch(p)
    PROVE  PageInv'
  BY ResolveCachedKeeps, ResolveMissKeeps, ResolveLockedKeeps, RememberRenderedKeeps, FetchReadKeeps, FetchPageKeeps,
     FetchPutKeeps, FetchInvalidateKeeps, FetchNotModifiedKeeps, FetchNotFoundKeeps, FetchStaleKeeps,
     FetchFailsKeeps DEF Resolve, Fetch

LEMMA IdleKeeps ==
    ASSUME PageInv, UNCHANGED vars
    PROVE  PageInv'
  BY DEF PageInv, Typed, Departed, Stored, GateHeld, Counted, Pending, Spent, HotSound, KeysAhead, EntryCurrent,
         EntriesDated, RecordDated, Record, Orderly, Dated, Soon, Kept, Settled, Well, Known, Asks, Sees, Dates,
         vars, history, upstream, layer, store, memory

(* The inductive invariant holds in every state: each step of a request, a task, a sweep or the world       *)
(* keeps it.                                                                                                *)
THEOREM PageInvariant == Spec => []PageInv
<1>1. Init => PageInv BY InitWell
<1>2. PageInv /\ [Next]_vars => PageInv'
  <2> SUFFICES ASSUME PageInv, [Next]_vars PROVE PageInv' OBVIOUS
  <2>1. CASE Tick \/ Publish \/ Withdraw \/ Upload \/ Acknowledge
    BY <2>1, TickKeeps, PublishKeeps, WithdrawKeeps, UploadKeeps, AcknowledgeKeeps
  <2>2. ASSUME NEW p \in Actors, Start(p) PROVE PageInv'
    BY <2>2, StreamDetailKeeps, ResolveHtmlKeeps, SweepKeeps DEF Start
  <2>3. ASSUME NEW p \in Actors, Lock(p) PROVE PageInv' BY <2>3, LockKeeps
  <2>4. ASSUME NEW p \in Actors, Step(p) PROVE PageInv' BY <2>4, StreamKeeps, FetchKeeps DEF Step
  <2>5. ASSUME NEW p \in Actors, HangUp(p) PROVE PageInv' BY <2>5, DisconnectKeeps, DetachKeeps DEF HangUp
  <2>6. CASE UNCHANGED vars BY <2>6, IdleKeeps
  <2> QED BY <2>1, <2>2, <2>3, <2>4, <2>5, <2>6 DEF Next
<1> QED BY <1>1, <1>2, PTL DEF Spec

(* The type invariant and what the hot cache promises follow. *)
LEMMA TypeFollows ==
    ASSUME PageInv
    PROVE  TypeOK
<1>1. Typed /\ GateHeld /\ Departed /\ Stored /\ \A p \in Actors : Well(p) BY DEF PageInv
<1>2. /\ now \in 0..MaxTime /\ up \in 0..latest /\ latest \in 1..MaxVersion
      /\ hosted \in 0..MaxUploads /\ acked \in 0..hosted /\ uploading \in BOOLEAN
      /\ files \subseteq 1..latest /\ epoch \in 0..MaxEpoch /\ gate \in Actors \cup {Free}
      /\ pc \in [Actors -> Labels] /\ unstored \subseteq 0..epoch /\ lapses \subseteq Lapses
  BY <1>1 DEF Typed
<1>3. left \in [1..MaxVersion -> 0..MaxTime \cup {NoTime}]
  <2>1. left \in [1..MaxVersion -> Nat \cup {NoTime}] BY <1>1 DEF Typed
  <2>2. ASSUME NEW v \in 1..MaxVersion PROVE left[v] \in 0..MaxTime \cup {NoTime}
    <3>1. left[v] <= now /\ now <= MaxTime /\ now \in Int /\ MaxTime \in Int BY <1>1, <1>2, Numbers DEF Departed
    <3> QED BY <2>1, <3>1
  <2> QED BY <2>1, <2>2
<1>4. page.body \in 0..latest BY <1>1, <1>2, Numbers DEF Stored
<1>5. gate # Free => pc[gate] \notin {"idle", "parts", "check", "gate", "resolve", "resolve_gate", "render"}
  BY <1>1 DEF GateHeld, Holding
<1>6. \A p \in Actors : runs[p] \in 0..MaxRuns /\ loc[p].key \in 0..epoch BY <1>1, <1>2, Locals DEF Well, Known
<1> QED BY <1>2, <1>3, <1>4, <1>5, <1>6 DEF TypeOK

(* Read your writes, and the hot cache answers what a rendering would give now: stream_detail and           *)
(* cached_detail never lose an acknowledged upload, for every set of requests, tasks and sweeps, every      *)
(* lifetime and every number of runs.                                                                       *)
THEOREM PagesStayCurrent == Spec => []PagesAreCurrent
<1>1. PageInv => PagesAreCurrent
  <2> SUFFICES ASSUME PageInv PROVE PagesAreCurrent OBVIOUS
  <2>1. ReadYourWrites
    <3> SUFFICES ASSUME NEW p \in Json, answer[p].page # -1 PROVE answer[p].ctx >= answer[p].since BY DEF ReadYourWrites
    <3>1. p \in Actors BY DEF Actors
    <3> QED BY <3>1 DEF PageInv, Well, Asks
  <2>2. HotIsCurrent
    <3>1. TypeOK BY TypeFollows
    <3>2. ASSUME Settled, now < hot["json"][epoch].expires
          PROVE  LET entry == hot["json"][epoch]
                 IN  /\ entry.ctx = hosted
                     /\ entry.body >= page.body
                     /\ epoch \notin unstored => entry.body = page.body
      <4>1. hot["json"][epoch] # NoEntry BY <3>2, Numbers DEF PageInv, NoEntry, NoTime
      <4> QED BY <3>2, <4>1 DEF PageInv, HotSound, EntryCurrent
    <3> QED BY <3>1, <3>2 DEF HotIsCurrent
  <2> QED BY <2>1, <2>2 DEF PagesAreCurrent
<1> QED BY <1>1, PageInvariant, PTL

(* Where max_stale_secs is a bound, every page commit is made under the gate and no rendering was kept      *)
(* until another page expires, no answer shows what the upstream replaced longer ago than the freshness     *)
(* window and max_stale_secs allow.                                                                         *)
THEOREM StalenessStaysBounded == Spec => []BoundedStaleness
<1>1. PageInv => BoundedStaleness
  <2> SUFFICES ASSUME PageInv, MaxStale # 0, lapses = {}, NEW p \in Requests, answer[p].page > 0,
                      left[answer[p].page] # NoTime
               PROVE  answer[p].at - left[answer[p].page] < TTL + MaxStale
    BY DEF BoundedStaleness
  <2>1. p \in Actors /\ Orderly BY DEF Actors, Requests, Orderly
  <2>2. Soon(answer[p].page, answer[p].at) BY <2>1 DEF PageInv, Well, Dates
  <2>3. answer[p].page \in 1..MaxVersion BY <2>1, Locals, Numbers DEF PageInv
  <2> QED BY <2>2, <2>3 DEF Soon
<1> QED BY <1>1, PageInvariant, PTL

================================

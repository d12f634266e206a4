---------------- MODULE WebhookProofs ----------------
(* Proofs about Webhook: the queue stays sound and a target is called only
   for what is due.  The argument is that one loop works at a time, so the
   copies it took of the records it works through are still the records:
   nobody else writes them. *)
EXTENDS Webhook, SequenceTheorems, WellFoundedInduction, TLAPS

--------------------------------
(* The recursive function Backoff is well defined.  Recursion over the      *)
(* naturals is reduced to the least-number principle.                       *)

(* A non-empty set of naturals has a least element. *)
LEMMA LeastNatural ==
    ASSUME NEW T \in SUBSET Nat, T # {}
    PROVE  \E m \in T : \A n \in T : m <= n
<1> DEFINE R == {ss \in Nat \X Nat : ss[1] < ss[2]}
<1>1. IsWellFoundedOn(R, Nat) BY NatLessThanWellFounded, Zenon DEF OpToRel
<1>2. \E x \in T : \A y \in T : ~(<<y, x>> \in R)
  <2> HIDE DEF R
  <2> QED BY <1>1, WFMin
<1>3. PICK x \in T : \A y \in T : ~(<<y, x>> \in R) BY <1>2
<1>4. \A y \in T : ~(y < x) BY <1>3
<1> QED BY <1>4

Tripled(x) == IF 3 * x <= MaxBackoff THEN 3 * x ELSE MaxBackoff
BackoffTo(g, m) ==
    /\ g \in [0..m -> Nat]
    /\ \A n \in 0..m : g[n] = IF n <= 1 THEN InitialBackoff ELSE Tripled(g[n - 1])

LEMMA TripledType == ASSUME NEW x \in Nat PROVE Tripled(x) \in Nat
BY BackoffAssumption DEF Tripled

LEMMA BackoffToExists ==
    ASSUME NEW m \in Nat
    PROVE  \E g : BackoffTo(g, m)
<1> DEFINE T == {n \in Nat : ~\E g : BackoffTo(g, n)}
<1> SUFFICES ASSUME T # {} PROVE FALSE OBVIOUS
<1>1. PICK n \in T : \A k \in T : n <= k BY LeastNatural
<1>2. CASE n = 0
  <2>1. BackoffTo([k \in 0..n |-> InitialBackoff], n) BY <1>2, BackoffAssumption DEF BackoffTo
  <2> QED BY <2>1
<1>3. CASE n # 0
  <2>1. n \in Nat /\ n - 1 \in Nat /\ n - 1 < n BY <1>3
  <2>2. n - 1 \notin T BY <1>1, <2>1
  <2> PICK p \in Nat : p = n - 1 BY <2>1
  <2>3. PICK g : BackoffTo(g, p) BY <2>2
  <2> DEFINE last == IF n <= 1 THEN InitialBackoff ELSE Tripled(g[p])
             h == [k \in 0..n |-> IF k = n THEN last ELSE g[k]]
  <2>4. g \in [0..p -> Nat] /\ p \in 0..p BY <2>3 DEF BackoffTo
  <2>5. last \in Nat BY <2>4, TripledType, BackoffAssumption
  <2> HIDE DEF last
  <2>6. h \in [0..n -> Nat] BY <2>4, <2>5
  <2>7. ASSUME NEW k \in 0..n PROVE h[k] = IF k <= 1 THEN InitialBackoff ELSE Tripled(h[k - 1])
    <3>1. CASE k = n
      <4>1. n > 1 => n - 1 \in 0..n /\ h[n - 1] = g[p] BY <2>1
      <4> QED BY <3>1, <4>1 DEF last
    <3>2. CASE k # n
      <4>1. k \in 0..p /\ h[k] = g[k] /\ (k > 1 => k - 1 \in 0..n /\ h[k - 1] = g[k - 1]) BY <2>1, <3>2
      <4> QED BY <2>3, <4>1 DEF BackoffTo
    <3> QED BY <3>1, <3>2
  <2> HIDE DEF h
  <2>8. BackoffTo(h, n) BY <2>6, <2>7 DEF BackoffTo
  <2> QED BY <2>8
<1> QED BY <1>2, <1>3

LEMMA BackoffToAgrees ==
    ASSUME NEW m \in Nat, NEW k \in Nat, NEW g, NEW h, BackoffTo(g, m), BackoffTo(h, k),
           NEW n \in Nat, n <= m, n <= k
    PROVE  g[n] = h[n]
<1> DEFINE T == {x \in Nat : x <= m /\ x <= k /\ g[x] # h[x]}
<1> SUFFICES ASSUME T # {} PROVE FALSE OBVIOUS
<1>1. PICK x \in T : \A y \in T : x <= y BY LeastNatural
<1>2. /\ g[x] = IF x <= 1 THEN InitialBackoff ELSE Tripled(g[x - 1])
      /\ h[x] = IF x <= 1 THEN InitialBackoff ELSE Tripled(h[x - 1])
  BY DEF BackoffTo
<1>3. x > 1 => x - 1 \in Nat /\ x - 1 <= m /\ x - 1 <= k /\ x - 1 < x OBVIOUS
<1>4. x > 1 => g[x - 1] = h[x - 1] BY <1>1, <1>3
<1> QED BY <1>2, <1>4

(* What Backoff computes, and that it is a time. *)
LEMMA BackoffUnfolds ==
    /\ Backoff \in [Nat -> Nat]
    /\ \A n \in Nat : Backoff[n] = IF n <= 1 THEN InitialBackoff ELSE Tripled(Backoff[n - 1])
<1> DEFINE upTo(n) == CHOOSE g : BackoffTo(g, n)
           f == [n \in Nat |-> upTo(n)[n]]
<1>1. ASSUME NEW n \in Nat PROVE BackoffTo(upTo(n), n) BY BackoffToExists
<1> HIDE DEF upTo
<1>2. ASSUME NEW n \in Nat PROVE f[n] \in Nat
  <2>1. upTo(n) \in [0..n -> Nat] /\ n \in 0..n BY <1>1 DEF BackoffTo
  <2> QED BY <2>1
<1>3. ASSUME NEW n \in Nat PROVE f[n] = IF n <= 1 THEN InitialBackoff ELSE Tripled(f[n - 1])
  <2>1. upTo(n)[n] = IF n <= 1 THEN InitialBackoff ELSE Tripled(upTo(n)[n - 1]) BY <1>1 DEF BackoffTo
  <2>2. CASE n <= 1 BY <2>1, <2>2
  <2>3. CASE n > 1
    <3> PICK p \in Nat : p = n - 1 BY <2>3
    <3>1. upTo(n)[p] = upTo(p)[p] BY <1>1, BackoffToAgrees
    <3> QED BY <2>1, <2>3, <3>1
  <2> QED BY <2>2, <2>3
<1>4. f = [n \in Nat |-> IF n <= 1 THEN InitialBackoff
                         ELSE LET tripled == 3 * f[n - 1]
                              IN  IF tripled <= MaxBackoff THEN tripled ELSE MaxBackoff]
  BY <1>3, Zenon DEF Tripled
<1> HIDE DEF f
<1>5. Backoff = [n \in Nat |-> IF n <= 1 THEN InitialBackoff
                               ELSE LET tripled == 3 * Backoff[n - 1]
                                    IN  IF tripled <= MaxBackoff THEN tripled ELSE MaxBackoff]
  BY <1>4, Zenon DEF Backoff
<1>6. ASSUME NEW n \in Nat PROVE Backoff[n] = IF n <= 1 THEN InitialBackoff ELSE Tripled(Backoff[n - 1])
  BY <1>5, Zenon DEF Tripled
<1>7. ASSUME NEW n \in Nat PROVE Backoff[n] \in Nat
  <2> DEFINE T == {k \in Nat : Backoff[k] \notin Nat}
  <2> SUFFICES ASSUME T # {} PROVE FALSE OBVIOUS
  <2>1. PICK k \in T : \A y \in T : k <= y BY LeastNatural
  <2>2. CASE k <= 1 BY <1>6, <2>2, BackoffAssumption
  <2>3. CASE k > 1
    <3>1. k - 1 \in Nat /\ k - 1 < k BY <2>3
    <3>2. Backoff[k - 1] \in Nat BY <2>1, <3>1
    <3> QED BY <1>6, <2>3, <3>2, TripledType
  <2> QED BY <2>2, <2>3
<1>8. Backoff = [n \in Nat |-> Backoff[n]] BY <1>5
<1> QED BY <1>6, <1>7, <1>8

--------------------------------
(* The inductive invariant. *)

States == {"pending", "delivered", "failed"}
Deliveries == [target : Targets, status : States, attempts : Nat, next : Nat \cup {Never}]
Copies == UNION {[D -> Deliveries] : D \in SUBSET Nat}
Loops == [pc : {"off", "scan", "deliver", "post", "next", "park", "sleep"}, batch : Copies, at : Nat, wake : Nat]
Asks == [pc : {"idle", "emit", "answered", "cut"}, left : SUBSET Targets, queued : Nat]

HookTyped ==
    /\ delivery \in Seq(Deliveries)
    /\ due \in SUBSET (Nat \X Ids)
    /\ configured \in SUBSET Targets
    /\ running \in BOOLEAN /\ permit \in BOOLEAN
    /\ worker \in [Workers -> Loops]
    /\ request \in [Changes -> Asks]
    /\ now \in 0..MaxTime
    /\ tries \in Seq(Nat) /\ Len(tries) = Len(delivery)
    /\ received \in SUBSET Ids
    /\ faults \in [restarts : Nat, writes : Nat, reads : Nat]

Pending(d) == delivery[d].status = "pending"

(* One loop at a time, and none unless `running` says so. *)
OneAtWork ==
    /\ \A v, w \in Workers : worker[v].pc # "off" /\ worker[w].pc # "off" => v = w
    /\ ~running => \A w \in Workers : worker[w].pc = "off"

(* What the loop holds is what is stored, pending and due; between two scans it holds nothing. *)
HoldsDue(w) ==
    /\ worker[w].pc \notin {"deliver", "post"} => DOMAIN worker[w].batch = {}
    /\ \A d \in DOMAIN worker[w].batch :
         /\ d \in Ids /\ worker[w].batch[d] = delivery[d]
         /\ Pending(d) /\ delivery[d].next \in Nat /\ delivery[d].next <= now

(* The attempt under way has been counted and is not on record yet. *)
AttemptIsCounted(w) ==
    worker[w].pc = "post" => \A d \in DOMAIN worker[w].batch : IsHead(w, d) => delivery[d].attempts < tries[d]

DueIsPending == due = {<<delivery[d].next, d>> : d \in {x \in Ids : Pending(x)}}

RecordIsSound(d) ==
    /\ Pending(d) => delivery[d].next \in Nat /\ delivery[d].attempts < MaxAttempts
    /\ delivery[d].status = "delivered" => d \in received
    /\ delivery[d].status = "failed" => delivery[d].attempts = MaxAttempts
    /\ delivery[d].attempts <= tries[d] /\ delivery[d].attempts <= MaxAttempts

HookInv ==
    /\ HookTyped /\ OneAtWork /\ DueIsPending
    /\ \A w \in Workers : HoldsDue(w) /\ AttemptIsCounted(w)
    /\ \A d \in Ids : RecordIsSound(d)

LEMMA HookInvInit == HookInit => HookInv
<1> SUFFICES ASSUME HookInit PROVE HookInv OBVIOUS
<1> USE DEF HookInit
<1>1. Ids = {} BY DEF Ids
<1>2. /\ Off \in Loops /\ [Off EXCEPT !.pc = "scan"] \in Loops /\ DOMAIN Off.batch = {}
  <2>1. <<>> \in [{} -> Deliveries] /\ DOMAIN <<>> = {} OBVIOUS
  <2>2. <<>> \in Copies BY <2>1 DEF Copies
  <2> QED BY <2>1, <2>2 DEF Off, Loops
<1>3. HookTyped
  <2>1. worker \in [Workers -> Loops] BY <1>2 DEF OneLoop
  <2>2. request \in [Changes -> Asks] BY DEF Idle, Asks
  <2>3. now \in 0..MaxTime BY TimeAssumption
  <2>4. delivery \in Seq(Deliveries) /\ tries \in Seq(Nat) /\ Len(tries) = Len(delivery) OBVIOUS
  <2>5. /\ due \in SUBSET (Nat \X Ids) /\ configured \in SUBSET Targets /\ received \in SUBSET Ids
        /\ running \in BOOLEAN /\ permit \in BOOLEAN
    OBVIOUS
  <2>6. faults \in [restarts : Nat, writes : Nat, reads : Nat] OBVIOUS
  <2> HIDE DEF HookInit
  <2> QED BY <2>1, <2>2, <2>3, <2>4, <2>5, <2>6 DEF HookTyped
<1>4. OneAtWork BY DEF OneAtWork, OneLoop, Off
<1>5. \A w \in Workers : DOMAIN worker[w].batch = {} /\ worker[w].pc # "post" BY DEF OneLoop, Off
<1>6. DueIsPending BY <1>1 DEF DueIsPending
<1> QED BY <1>1, <1>3, <1>4, <1>5, <1>6 DEF HookInv, HoldsDue, AttemptIsCounted

(* The queue properties of the runs follow. *)
LEMMA HookInvSound == HookInv => QueueIsSound
<1> SUFFICES ASSUME HookInv PROVE QueueIsSound OBVIOUS
<1>1. HookTyped /\ DueIsPending BY DEF HookInv
<1>2. HookTypeOK
  <2>1. /\ delivery \in Seq(Deliveries) /\ due \subseteq Nat \X Ids /\ configured \subseteq Targets
        /\ running \in BOOLEAN /\ permit \in BOOLEAN /\ now \in 0..MaxTime /\ received \subseteq Ids
    BY <1>1 DEF HookTyped
  <2>2. DOMAIN tries = Ids BY <1>1 DEF HookTyped, Ids
  <2>3. \A w \in Workers :
         /\ worker[w].pc \in {"off", "scan", "deliver", "post", "next", "park", "sleep"}
         /\ worker[w].at \in Nat /\ worker[w].wake \in Nat
    BY <1>1 DEF HookTyped, Loops
  <2>4. \A w \in Workers : DOMAIN worker[w].batch \subseteq Ids BY DEF HookInv, HoldsDue
  <2>5. \A c \in Changes : /\ request[c].pc \in {"idle", "emit", "answered", "cut"}
                           /\ request[c].left \subseteq Targets /\ request[c].queued \in Nat
    BY <1>1 DEF HookTyped, Asks
  <2> QED BY <2>1, <2>2, <2>3, <2>4, <2>5 DEF HookTypeOK, Deliveries, States
<1> QED BY <1>1, <1>2 DEF QueueIsSound, DueIsPending, HookInv, RecordIsSound, Pending

--------------------------------
(* Steps that leave the store alone. *)

StoreStays == UNCHANGED <<delivery, due, tries, received>>

LEMMA StoreStaysSound ==
    ASSUME HookInv, StoreStays
    PROVE  /\ DueIsPending' /\ \A d \in Ids' : RecordIsSound(d)'
           /\ Ids' = Ids /\ delivery' = delivery
BY DEF HookInv, StoreStays, DueIsPending, RecordIsSound, Pending, Ids

(* A loop that does not move keeps what it may rely on. *)
LEMMA LoopStays ==
    ASSUME HookInv, HookTyped', StoreStays, now <= now', NEW w \in Workers, worker'[w] = worker[w]
    PROVE  (HoldsDue(w) /\ AttemptIsCounted(w))'
<1>1. HoldsDue(w) /\ AttemptIsCounted(w) BY DEF HookInv
<1>2. now \in Nat /\ now' \in Nat BY DEF HookInv, HookTyped
<1>3. HoldsDue(w)' BY <1>1, <1>2 DEF HoldsDue, StoreStays, Pending, Ids
<1>4. AttemptIsCounted(w)' BY <1>1 DEF AttemptIsCounted, IsHead, StoreStays
<1> QED BY <1>3, <1>4

(* A loop between two scans holds nothing. *)
LEMMA EmptyHanded ==
    ASSUME NEW w, worker'[w].pc # "post", DOMAIN worker'[w].batch = {}
    PROVE  (HoldsDue(w) /\ AttemptIsCounted(w))'
BY DEF HoldsDue, AttemptIsCounted

(* One loop is replaced by another. *)
LEMMA LoopReplaced ==
    ASSUME NEW w \in Workers, NEW loop \in Loops, worker \in [Workers -> Loops], worker' = [worker EXCEPT ![w] = loop]
    PROVE  /\ worker' \in [Workers -> Loops] /\ worker'[w] = loop
           /\ \A v \in Workers : v # w => worker'[v] = worker[v]
OBVIOUS

(* One loop moves, the others stay, none starts. *)
LEMMA OneMoves ==
    ASSUME HookInv, NEW w \in Workers, worker[w].pc # "off",
           \A v \in Workers : v # w => worker'[v] = worker[v], UNCHANGED running
    PROVE  OneAtWork'
BY DEF HookInv, OneAtWork

LEMMA CommitChangeStep ==
    ASSUME HookInv, NEW c \in Changes, CommitChange(c)
    PROVE  HookInv'
<1>1. UNCHANGED <<delivery, due, configured, running, permit, worker, now, tries, received, faults>> BY DEF CommitChange
<1>2. request' \in [Changes -> Asks] BY DEF CommitChange, HookInv, HookTyped, Asks
<1>3. HookTyped' BY <1>1, <1>2 DEF HookInv, HookTyped, Ids
<1>4. now \in Nat BY DEF HookInv, HookTyped
<1>5. OneAtWork' BY <1>1 DEF HookInv, OneAtWork
<1> QED BY <1>1, <1>3, <1>4, <1>5, StoreStaysSound, LoopStays DEF HookInv, StoreStays

LEMMA EnqueueFailsStep ==
    ASSUME HookInv, NEW c \in Changes, NEW t \in Targets, EnqueueFails(c, t)
    PROVE  HookInv'
<1>1. UNCHANGED <<delivery, due, configured, running, permit, worker, now, tries, received>> BY DEF EnqueueFails
<1>2. request' \in [Changes -> Asks] BY DEF EnqueueFails, HookInv, HookTyped, Asks
<1>3. faults' \in [restarts : Nat, writes : Nat, reads : Nat] BY DEF EnqueueFails, HookInv, HookTyped
<1>4. HookTyped' BY <1>1, <1>2, <1>3 DEF HookInv, HookTyped, Ids
<1>5. now \in Nat BY DEF HookInv, HookTyped
<1>6. OneAtWork' BY <1>1 DEF HookInv, OneAtWork
<1> QED BY <1>1, <1>4, <1>5, <1>6, StoreStaysSound, LoopStays DEF HookInv, StoreStays

LEMMA TickStep ==
    ASSUME HookInv, Tick
    PROVE  HookInv'
<1>1. UNCHANGED <<delivery, due, configured, running, permit, worker, request, tries, received, faults>> BY DEF Tick
<1>2. now \in Nat /\ now' \in 0..MaxTime /\ now <= now' BY TimeAssumption DEF Tick, HookInv, HookTyped
<1>3. HookTyped' BY <1>1, <1>2 DEF HookInv, HookTyped, Ids
<1>4. OneAtWork' BY <1>1 DEF HookInv, OneAtWork
<1> QED BY <1>1, <1>2, <1>3, <1>4, StoreStaysSound, LoopStays DEF HookInv, StoreStays

(* kick starts a loop only when none works. *)
LEMMA EmittedStep ==
    ASSUME HookInv, NEW c \in Changes, Emitted(c)
    PROVE  HookInv'
<1>1. UNCHANGED <<delivery, due, configured, now, tries, received, faults>> BY DEF Emitted
<1>2. request' \in [Changes -> Asks] BY DEF Emitted, HookInv, HookTyped, Asks
<1>3. worker \in [Workers -> Loops] /\ running \in BOOLEAN /\ permit \in BOOLEAN /\ now \in Nat
  BY DEF HookInv, HookTyped
<1>4. CASE UNCHANGED <<running, worker>> /\ permit' \in BOOLEAN
  <2>1. HookTyped' BY <1>1, <1>2, <1>3, <1>4 DEF HookInv, HookTyped, Ids
  <2>2. OneAtWork' BY <1>4 DEF HookInv, OneAtWork
  <2> QED BY <1>1, <1>3, <1>4, <2>1, <2>2, StoreStaysSound, LoopStays DEF HookInv, StoreStays
<1>5. CASE ~running /\ running' = TRUE /\ permit' = permit /\ worker' = [worker EXCEPT ![FreeTask].pc = "scan"]
  <2> PICK f : f = FreeTask OBVIOUS
  <2>1. \A w \in Workers : worker[w].pc = "off" BY <1>5 DEF HookInv, OneAtWork
  <2>2. \A w \in Workers : DOMAIN worker[w].batch = {} BY <2>1 DEF HookInv, HoldsDue
  <2>3. worker' \in [Workers -> Loops] BY <1>3, <1>5 DEF Loops
  <2>4. \A w \in Workers : /\ worker'[w].batch = worker[w].batch
                           /\ worker'[w].pc = IF w = f THEN "scan" ELSE "off"
    BY <1>3, <1>5, <2>1 DEF Loops
  <2>5. HookTyped' BY <1>1, <1>2, <1>3, <1>5, <2>3 DEF HookInv, HookTyped, Ids
  <2>6. OneAtWork' BY <1>5, <2>4 DEF OneAtWork
  <2>7. \A w \in Workers : (HoldsDue(w) /\ AttemptIsCounted(w))' BY <2>2, <2>4, EmptyHanded
  <2> QED BY <1>1, <2>5, <2>6, <2>7, StoreStaysSound DEF HookInv, StoreStays
<1> QED BY <1>3, <1>4, <1>5 DEF Emitted, Kick

LEMMA RestartStep ==
    ASSUME HookInv, NEW T \in SUBSET Targets, Restart(T)
    PROVE  HookInv'
<1>1. UNCHANGED <<delivery, due, now, tries, received>> BY DEF Restart
<1>2. request' \in [Changes -> Asks] BY DEF Restart, HookInv, HookTyped, Asks
<1>3. faults' \in [restarts : Nat, writes : Nat, reads : Nat] BY DEF Restart, HookInv, HookTyped
<1>4. configured' \in SUBSET Targets /\ permit' \in BOOLEAN /\ running' \in BOOLEAN BY DEF Restart
<1>5. Off \in Loops /\ [Off EXCEPT !.pc = "scan"] \in Loops /\ DOMAIN Off.batch = {}
  <2>1. <<>> \in [{} -> Deliveries] /\ DOMAIN <<>> = {} OBVIOUS
  <2>2. <<>> \in Copies BY <2>1 DEF Copies
  <2> QED BY <2>1, <2>2 DEF Off, Loops
<1>6. worker' = [w \in Workers |-> Off] \/ worker' = OneLoop BY DEF Restart
<1>7. worker' \in [Workers -> Loops] BY <1>5, <1>6 DEF OneLoop
<1>8. \A w \in Workers : DOMAIN worker'[w].batch = {} /\ worker'[w].pc # "post" BY <1>6 DEF OneLoop, Off
<1>9. OneAtWork'
  <2>1. CASE T = {} BY <2>1 DEF Restart, OneAtWork, Off
  <2>2. CASE T # {} BY <2>2 DEF Restart, OneAtWork, OneLoop, Off
  <2> QED BY <2>1, <2>2
<1>10. HookTyped' BY <1>1, <1>2, <1>3, <1>4, <1>7 DEF HookInv, HookTyped, Ids
<1> QED BY <1>1, <1>8, <1>9, <1>10, EmptyHanded, StoreStaysSound DEF HookInv, StoreStays

--------------------------------
(* The store grows: a delivery is queued. *)

LEMMA EnqueueStep ==
    ASSUME HookInv, NEW c \in Changes, NEW t \in Targets, Enqueue(c, t)
    PROVE  HookInv'
<1>1. UNCHANGED <<configured, running, permit, worker, now, received, faults>> BY DEF Enqueue
<1>2. request' \in [Changes -> Asks]
  <2> PICK left, queued : left = request[c].left \ {t} /\ queued = request[c].queued + 1 OBVIOUS
  <2> PICK ask : ask = [request[c] EXCEPT !.left = left, !.queued = queued] OBVIOUS
  <2>1. request \in [Changes -> Asks] BY DEF HookInv, HookTyped
  <2>2. request[c] \in Asks BY <2>1
  <2>3. ask \in Asks
    <3>1. left \in SUBSET Targets /\ queued \in Nat BY <2>2 DEF Asks
    <3> QED BY <2>2, <3>1 DEF Asks
  <2>4. request' = [request EXCEPT ![c] = ask] BY <2>1 DEF Enqueue
  <2> QED BY <2>1, <2>3, <2>4
<1>3. /\ delivery \in Seq(Deliveries) /\ tries \in Seq(Nat) /\ Len(tries) = Len(delivery) /\ now \in Nat
      /\ due \in SUBSET (Nat \X Ids) /\ received \in SUBSET Ids
  BY DEF HookInv, HookTyped
<1> PICK n \in Nat : n = Len(delivery) + 1 BY <1>3
<1> PICK new : new = NewDelivery(t) OBVIOUS
<1>4. new \in Deliveries /\ new.next = now /\ new.status = "pending" /\ new.attempts = 0
  BY <1>3 DEF NewDelivery, Deliveries, States
<1>5. delivery' = Append(delivery, new) /\ tries' = Append(tries, 0) /\ due' = due \cup {<<now, n>>} BY DEF Enqueue
<1>6. /\ delivery' \in Seq(Deliveries) /\ Len(delivery') = n /\ delivery'[n] = new
      /\ tries' \in Seq(Nat) /\ Len(tries') = n /\ tries'[n] = 0
  BY <1>3, <1>4, <1>5
<1>7. Ids' = Ids \cup {n} /\ n \notin Ids BY <1>3, <1>6 DEF Ids
<1>8. \A d \in Ids : delivery'[d] = delivery[d] /\ tries'[d] = tries[d] BY <1>3, <1>4, <1>5 DEF Ids
<1>9. HookTyped'
  <2>1. due' \in SUBSET (Nat \X Ids') BY <1>3, <1>5, <1>7
  <2>2. received' \in SUBSET Ids' BY <1>1, <1>3, <1>7
  <2> QED BY <1>1, <1>2, <1>6, <2>1, <2>2 DEF HookInv, HookTyped
<1>10. OneAtWork' BY <1>1 DEF HookInv, OneAtWork
<1>11. DueIsPending'
  <2>1. \A x \in Ids : Pending(x)' <=> Pending(x) BY <1>8 DEF Pending
  <2>2. Pending(n)' BY <1>4, <1>6 DEF Pending
  <2>3. {x \in Ids' : Pending(x)'} = {x \in Ids : Pending(x)} \cup {n} BY <1>7, <2>1, <2>2
  <2>4. due = {<<delivery[x].next, x>> : x \in {y \in Ids : Pending(y)}} BY DEF HookInv, DueIsPending
  <2>5. due' = {<<delivery'[x].next, x>> : x \in {y \in Ids : Pending(y)} \cup {n}} BY <1>4, <1>5, <1>6, <1>8, <2>4
  <2> QED BY <2>3, <2>5 DEF DueIsPending
<1>12. ASSUME NEW w \in Workers PROVE (HoldsDue(w) /\ AttemptIsCounted(w))'
  <2>1. HoldsDue(w) /\ AttemptIsCounted(w) BY DEF HookInv
  <2>2. HoldsDue(w)' BY <1>1, <1>7, <1>8, <2>1 DEF HoldsDue, Pending
  <2>3. AttemptIsCounted(w)' BY <1>1, <1>8, <2>1 DEF AttemptIsCounted, IsHead, HoldsDue
  <2> QED BY <2>2, <2>3
<1>13. ASSUME NEW d \in Ids' PROVE RecordIsSound(d)'
  <2>1. CASE d \in Ids BY <1>1, <1>8, <2>1 DEF HookInv, RecordIsSound, Pending
  <2>2. CASE d = n BY <1>3, <1>4, <1>6, <2>2, AttemptsAssumption DEF RecordIsSound, Pending
  <2> QED BY <1>7, <2>1, <2>2
<1> QED BY <1>9, <1>10, <1>11, <1>12, <1>13 DEF HookInv

--------------------------------
(* The loop between two deliveries. *)

(* A loop that only changes its place. *)
LEMMA LoopTyped ==
    ASSUME HookInv, NEW w \in Workers, worker[w].pc # "off",
           UNCHANGED <<delivery, due, configured, running, request, now, tries, received>>,
           permit' \in BOOLEAN, faults' \in [restarts : Nat, writes : Nat, reads : Nat],
           worker' \in [Workers -> Loops], \A v \in Workers : v # w => worker'[v] = worker[v],
           (HoldsDue(w) /\ AttemptIsCounted(w))'
    PROVE  HookInv'
<1>1. HookTyped' BY DEF HookInv, HookTyped, Ids
<1>2. OneAtWork' BY OneMoves
<1>3. now \in Nat BY DEF HookInv, HookTyped
<1>4. \A v \in Workers : (HoldsDue(v) /\ AttemptIsCounted(v))' BY <1>1, <1>3, LoopStays DEF StoreStays
<1> QED BY <1>1, <1>2, <1>4, StoreStaysSound DEF HookInv, StoreStays

(* The loop takes copies of what is due. *)
LEMMA ScanStep ==
    ASSUME HookInv, NEW w \in Workers, Scan(w)
    PROVE  HookInv'
<1>1. UNCHANGED <<delivery, due, configured, running, permit, request, now, tries, received, faults>> BY DEF Scan
<1>2. /\ worker \in [Workers -> Loops] /\ permit \in BOOLEAN /\ now \in Nat
      /\ faults \in [restarts : Nat, writes : Nat, reads : Nat] /\ due \in SUBSET (Nat \X Ids)
      /\ delivery \in Seq(Deliveries)
  BY DEF HookInv, HookTyped
<1> PICK L \in SUBSET due :
         /\ IsDueList(now, L)
         /\ worker' = [worker EXCEPT ![w].pc = IF L = {} THEN "next" ELSE "deliver",
                                     ![w].batch = [d \in {e[2] : e \in L} |-> delivery[d]]]
  BY DEF Scan
<1> DEFINE D == {e[2] : e \in L}
           copies == [d \in D |-> delivery[d]]
<1>3. \A e \in L : e = <<delivery[e[2]].next, e[2]>> /\ e[2] \in Ids /\ Pending(e[2]) /\ e[1] <= now /\ e[1] \in Nat
  <2>1. due = {<<delivery[d].next, d>> : d \in {x \in Ids : Pending(x)}} BY DEF HookInv, DueIsPending
  <2>2. \A e \in L : e \in due /\ e[1] <= now BY DEF IsDueList
  <2> QED BY <1>2, <2>1, <2>2
<1>4. \A d \in D : d \in Ids /\ Pending(d) /\ delivery[d].next \in Nat /\ delivery[d].next <= now /\ delivery[d] \in Deliveries
  <2>1. \A d \in Ids : delivery[d] \in Deliveries BY <1>2 DEF Ids
  <2> QED BY <1>3, <2>1
<1>5. copies \in Copies /\ DOMAIN copies = D
  <2>1. copies \in [D -> Deliveries] /\ D \in SUBSET Nat BY <1>2, <1>4 DEF Ids
  <2> QED BY <2>1 DEF Copies
<1>6. \A d \in D : copies[d] = delivery[d] OBVIOUS
<1>7. worker[w].pc = "scan" BY DEF Scan
<1>8. L = {} => D = {} OBVIOUS
<1> PICK b : b = copies OBVIOUS
<1> HIDE DEF copies, D
<1>9. /\ worker' \in [Workers -> Loops] /\ worker'[w].batch = b
      /\ worker'[w].pc = (IF L = {} THEN "next" ELSE "deliver")
      /\ \A v \in Workers : v # w => worker'[v] = worker[v]
  <2> PICK p : p = IF L = {} THEN "next" ELSE "deliver" OBVIOUS
  <2> PICK loop : loop = [worker[w] EXCEPT !.pc = p, !.batch = b] OBVIOUS
  <2>1. worker[w] \in Loops /\ b \in Copies /\ p \in {"next", "deliver"} BY <1>2, <1>5
  <2>2. loop \in Loops /\ loop.pc = p /\ loop.batch = b BY <2>1 DEF Loops
  <2>3. worker' = [worker EXCEPT ![w] = loop] BY <1>2 DEF copies, D
  <2> QED BY <1>2, <2>2, <2>3, LoopReplaced
<1>10. HoldsDue(w)' BY <1>1, <1>4, <1>5, <1>6, <1>8, <1>9 DEF HoldsDue, Pending, Ids
<1>11. AttemptIsCounted(w)' BY <1>9 DEF AttemptIsCounted
<1> QED BY <1>1, <1>2, <1>7, <1>9, <1>10, <1>11, LoopTyped

(* The steps between two scans, when the loop holds nothing. *)
LEMMA RestingStep ==
    ASSUME HookInv, NEW w \in Workers, ScanFails(w) \/ ReadNext(w) \/ Notified(w) \/ Wake(w)
    PROVE  HookInv'
<1>1. UNCHANGED <<delivery, due, configured, running, request, now, tries, received>>
  BY DEF ScanFails, ReadNext, Notified, Wake
<1>2. /\ worker \in [Workers -> Loops] /\ permit \in BOOLEAN
      /\ faults \in [restarts : Nat, writes : Nat, reads : Nat] /\ due \in SUBSET (Nat \X Ids)
  BY DEF HookInv, HookTyped
<1>3. permit' \in BOOLEAN BY <1>2 DEF ScanFails, ReadNext, Notified, Wake
<1>4. faults' \in [restarts : Nat, writes : Nat, reads : Nat] BY <1>2 DEF ScanFails, ReadNext, Notified, Wake
<1>5. worker[w].pc \in {"scan", "next", "park", "sleep"} BY DEF ScanFails, ReadNext, Notified, Wake
<1>6. DOMAIN worker[w].batch = {} BY <1>5 DEF HookInv, HoldsDue
<1>7. /\ worker' \in [Workers -> Loops] /\ worker'[w].batch = worker[w].batch /\ worker'[w].pc # "post"
      /\ \A v \in Workers : v # w => worker'[v] = worker[v]
  <2>1. CASE \E p \in {"next", "park", "scan"} : worker' = [worker EXCEPT ![w].pc = p] BY <1>2, <2>1 DEF Loops
  <2>2. CASE \E e \in due : worker' = [worker EXCEPT ![w].pc = "sleep", ![w].wake = e[1]]
    <3> PICK e \in due : worker' = [worker EXCEPT ![w].pc = "sleep", ![w].wake = e[1]] BY <2>2
    <3> PICK at \in Nat : at = e[1] BY <1>2
    <3>1. worker' = [worker EXCEPT ![w] = [[@ EXCEPT !.pc = "sleep"] EXCEPT !.wake = at]] BY <1>2 DEF Loops
    <3> PICK loop : loop = [[worker[w] EXCEPT !.pc = "sleep"] EXCEPT !.wake = at] OBVIOUS
    <3>2. loop \in Loops /\ loop.batch = worker[w].batch /\ loop.pc = "sleep" BY <1>2 DEF Loops
    <3>3. worker' = [worker EXCEPT ![w] = loop] BY <1>2, <3>1
    <3> QED BY <1>2, <3>2, <3>3, LoopReplaced
  <2> QED BY <2>1, <2>2 DEF ScanFails, ReadNext, Notified, Wake
<1>8. (HoldsDue(w) /\ AttemptIsCounted(w))' BY <1>6, <1>7, EmptyHanded
<1> QED BY <1>1, <1>3, <1>4, <1>5, <1>7, <1>8, LoopTyped

--------------------------------
(* The loop at work on a delivery. *)

(* The loop works on one delivery: the order of the due index is strict. *)
LEMMA OneHead ==
    ASSUME HookInv, NEW w \in Workers, NEW d, NEW e, IsHead(w, d), IsHead(w, e)
    PROVE  d = e
<1> SUFFICES ASSUME d # e PROVE FALSE OBVIOUS
<1>1. /\ d \in DOMAIN worker[w].batch /\ e \in DOMAIN worker[w].batch
      /\ Before(<<worker[w].batch[d].next, d>>, <<worker[w].batch[e].next, e>>)
      /\ Before(<<worker[w].batch[e].next, e>>, <<worker[w].batch[d].next, d>>)
  BY DEF IsHead
<1>2. HoldsDue(w) /\ delivery \in Seq(Deliveries) BY DEF HookInv, HookTyped
<1>3. /\ d \in Nat /\ e \in Nat
      /\ worker[w].batch[d].next \in Nat /\ worker[w].batch[e].next \in Nat
  BY <1>1, <1>2 DEF HoldsDue, Ids
<1> PICK m \in Nat, n \in Nat : m = worker[w].batch[d].next /\ n = worker[w].batch[e].next BY <1>3
<1> QED BY <1>1, <1>3 DEF Before

(* Replacing one element of a sequence. *)
LEMMA SeqExcept ==
    ASSUME NEW T, NEW s \in Seq(T), NEW i \in 1..Len(s), NEW e \in T, NEW t, t = [s EXCEPT ![i] = e]
    PROVE  /\ t \in Seq(T) /\ Len(t) = Len(s)
           /\ \A j \in 1..Len(s) : t[j] = IF j = i THEN e ELSE s[j]
<1>1. t \in Seq(T) /\ Len(t) = Len(s) BY ExceptSeq
<1> QED BY <1>1

LEMMA StoredTypes ==
    ASSUME HookInv, NEW d \in Ids
    PROVE  delivery[d] \in Deliveries /\ delivery[d].attempts \in Nat /\ tries[d] \in Nat
<1>1. delivery[d] \in Deliveries /\ tries[d] \in Nat BY DEF HookInv, HookTyped, Ids
<1> QED BY <1>1 DEF Deliveries

(* The request leaves: the attempt is counted and not on record. *)
LEMMA SendStep ==
    ASSUME HookInv, NEW w \in Workers, NEW d \in Ids, Send(w, d)
    PROVE  HookInv'
<1>1. /\ UNCHANGED <<delivery, due, configured, running, permit, request, now, received, faults>>
      /\ worker[w].pc = "deliver" /\ IsHead(w, d)
  BY DEF Send
<1>2. /\ worker \in [Workers -> Loops] /\ now \in Nat /\ tries \in Seq(Nat) /\ Len(tries) = Len(delivery)
      /\ delivery \in Seq(Deliveries)
  BY DEF HookInv, HookTyped
<1>3. /\ tries' \in Seq(Nat) /\ Len(tries') = Len(tries)
      /\ \A x \in Ids : tries'[x] = IF x = d THEN tries[x] + 1 ELSE tries[x]
  <2>1. tries' = [tries EXCEPT ![d] = @ + 1] /\ d \in 1..Len(tries) /\ tries[d] + 1 \in Nat BY <1>2 DEF Send, Ids
  <2>2. tries' \in Seq(Nat) /\ Len(tries') = Len(tries) BY <1>2, <2>1, ExceptSeq
  <2> QED BY <1>2, <2>1, <2>2 DEF Ids
<1>4. /\ worker' \in [Workers -> Loops] /\ worker'[w].batch = worker[w].batch /\ worker'[w].pc = "post"
      /\ \A v \in Workers : v # w => worker'[v] = worker[v]
  <2> PICK loop : loop = [worker[w] EXCEPT !.pc = "post", !.at = now] OBVIOUS
  <2>1. loop \in Loops /\ loop.batch = worker[w].batch /\ loop.pc = "post" BY <1>2 DEF Loops
  <2>2. worker' = [worker EXCEPT ![w] = loop] BY <1>2 DEF Send
  <2> QED BY <1>2, <2>1, <2>2, LoopReplaced
<1>5. HookTyped' BY <1>1, <1>3, <1>4 DEF HookInv, HookTyped, Ids
<1>6. OneAtWork' BY <1>1, <1>4, OneMoves
<1>7. DueIsPending' BY <1>1 DEF HookInv, DueIsPending, Pending, Ids
<1>8. ASSUME NEW v \in Workers PROVE HoldsDue(v)'
  <2>1. HoldsDue(v) BY DEF HookInv
  <2>2. worker'[v].batch = worker[v].batch /\ (worker'[v].pc = worker[v].pc \/ worker'[v].pc = "post") BY <1>4
  <2> QED BY <1>1, <2>1, <2>2 DEF HoldsDue, Pending, Ids
<1>9. ASSUME NEW v \in Workers PROVE AttemptIsCounted(v)'
  <2>1. CASE v = w
    <3> SUFFICES ASSUME NEW x \in DOMAIN worker[w].batch, IsHead(w, x)
                 PROVE  delivery[x].attempts < tries'[x]
      BY <1>1, <1>4, <2>1 DEF AttemptIsCounted, IsHead
    <3>1. x = d BY <1>1, OneHead
    <3>2. delivery[d].attempts <= tries[d] BY DEF HookInv, RecordIsSound
    <3>3. delivery[d].attempts \in Nat /\ tries[d] \in Nat BY <1>2, StoredTypes
    <3> QED BY <1>3, <3>1, <3>2, <3>3
  <2>2. CASE v # w
    <3>1. worker[v].pc = "off" BY <1>1, <2>2 DEF HookInv, OneAtWork
    <3> QED BY <1>4, <2>2, <3>1 DEF AttemptIsCounted
  <2> QED BY <2>1, <2>2
<1>10. ASSUME NEW x \in Ids' PROVE RecordIsSound(x)'
  <2>1. x \in Ids /\ RecordIsSound(x) /\ tries[x] \in Nat /\ delivery[x].attempts \in Nat
    BY <1>1, StoredTypes DEF HookInv, Ids
  <2>2. tries[x] <= tries'[x] BY <1>3, <2>1
  <2>3. delivery[x].attempts <= tries'[x] BY <1>3, <2>1 DEF RecordIsSound
  <2> QED BY <1>1, <2>1, <2>3 DEF RecordIsSound, Pending
<1> QED BY <1>5, <1>6, <1>7, <1>8, <1>9, <1>10 DEF HookInv

(* The outcome of an attempt: recorded, or lost with a failing write. *)
LEMMA OutcomeStep ==
    ASSUME HookInv, NEW w \in Workers, NEW d \in Ids, worker[w].pc # "off", IsHead(w, d),
           NEW status \in States, NEW next \in Nat \cup {Never}, Update(d, status, next),
           worker' = [worker EXCEPT ![w] = Advanced(w, d)],
           UNCHANGED <<configured, running, permit, request, now>>,
           received \subseteq received', received' \subseteq Ids,
           tries' \in Seq(Nat), Len(tries') = Len(tries), \A x \in Ids : tries[x] <= tries'[x],
           delivery[d].attempts < tries'[d],
           status = "pending" => next \in Nat /\ delivery[d].attempts + 1 < MaxAttempts,
           status = "delivered" => d \in received',
           status = "failed" => delivery[d].attempts + 1 = MaxAttempts
    PROVE  HookInv'
<1>1. /\ worker \in [Workers -> Loops] /\ now \in Nat /\ tries \in Seq(Nat) /\ Len(tries) = Len(delivery)
      /\ delivery \in Seq(Deliveries) /\ due \in SUBSET (Nat \X Ids)
      /\ faults \in [restarts : Nat, writes : Nat, reads : Nat]
  BY DEF HookInv, HookTyped
<1>2. d \in DOMAIN worker[w].batch /\ HoldsDue(w) BY DEF IsHead, HookInv
<1>3. Pending(d) /\ delivery[d].next \in Nat /\ delivery[d] \in Deliveries /\ delivery[d].attempts < MaxAttempts
  <2>1. Pending(d) /\ delivery[d].next \in Nat BY <1>2 DEF HoldsDue
  <2>2. RecordIsSound(d) BY DEF HookInv
  <2>3. delivery[d] \in Deliveries BY <1>1 DEF Ids
  <2> QED BY <2>1, <2>2, <2>3 DEF RecordIsSound
<1> PICK outcome : outcome = [delivery[d] EXCEPT !.status = status, !.next = next, !.attempts = @ + 1] OBVIOUS
<1>4. /\ outcome \in Deliveries /\ outcome.status = status /\ outcome.next = next
      /\ outcome.attempts = delivery[d].attempts + 1
  <2>1. delivery[d].attempts + 1 \in Nat BY <1>3 DEF Deliveries
  <2> QED BY <1>3, <2>1 DEF Deliveries
<1> DEFINE kept == UNCHANGED <<delivery, due>> /\ faults.writes < MaxWriteErrors /\ faults' = [faults EXCEPT !.writes = @ + 1]
           written ==
             /\ delivery' = [delivery EXCEPT ![d] = outcome]
             /\ due' = (due \ {<<delivery[d].next, d>>}) \cup (IF status = "pending" THEN {<<next, d>>} ELSE {})
             /\ UNCHANGED faults
<1>5. kept \/ written BY <1>1, <1>3 DEF Update
<1> HIDE DEF kept, written
<1>6. faults' \in [restarts : Nat, writes : Nat, reads : Nat]
  <2>1. CASE kept
    <3> PICK n \in Nat : n = faults.writes + 1 BY <1>1
    <3>1. faults' = [faults EXCEPT !.writes = n] BY <2>1 DEF kept
    <3> QED BY <1>1, <3>1
  <2>2. CASE written BY <1>1, <2>2 DEF written
  <2> QED BY <1>5, <2>1, <2>2
<1>7. /\ delivery' \in Seq(Deliveries) /\ Len(delivery') = Len(delivery) /\ Ids' = Ids
      /\ \A x \in Ids : x # d => delivery'[x] = delivery[x]
      /\ delivery'[d] = delivery[d] \/ delivery'[d] = outcome
  <2>1. CASE kept BY <1>1, <2>1 DEF Ids, kept
  <2>2. CASE written
    <3>1. delivery' = [delivery EXCEPT ![d] = outcome] /\ d \in 1..Len(delivery) BY <2>2 DEF Ids, written
    <3>2. /\ delivery' \in Seq(Deliveries) /\ Len(delivery') = Len(delivery)
          /\ \A x \in 1..Len(delivery) : delivery'[x] = IF x = d THEN outcome ELSE delivery[x]
      BY <1>1, <1>4, <3>1, SeqExcept
    <3> QED BY <3>1, <3>2 DEF Ids
  <2> QED BY <1>5, <2>1, <2>2
<1>8. DueIsPending' /\ due' \in SUBSET (Nat \X Ids)
  <2>1. due = {<<delivery[x].next, x>> : x \in {y \in Ids : Pending(y)}} BY DEF HookInv, DueIsPending
  <2>2. CASE kept BY <1>1, <1>7, <2>1, <2>2 DEF DueIsPending, Pending, kept
  <2>3. CASE written
    <3>1. delivery'[d] = outcome
      <4>1. delivery' = [delivery EXCEPT ![d] = outcome] /\ d \in 1..Len(delivery) BY <2>3 DEF Ids, written
      <4>2. \A x \in 1..Len(delivery) : delivery'[x] = IF x = d THEN outcome ELSE delivery[x]
        BY <1>1, <1>4, <4>1, SeqExcept
      <4> QED BY <4>1, <4>2
    <3>2. \A x \in Ids : Pending(x)' <=> IF x = d THEN status = "pending" ELSE Pending(x)
      BY <1>4, <1>7, <3>1 DEF Pending
    <3>3. due' = (due \ {<<delivery[d].next, d>>}) \cup (IF status = "pending" THEN {<<next, d>>} ELSE {})
      BY <2>3 DEF written
    <3>4. due \ {<<delivery[d].next, d>>} = {<<delivery[x].next, x>> : x \in {y \in Ids : Pending(y)} \ {d}} BY <2>1
    <3>5. due' = {<<delivery'[x].next, x>> : x \in {y \in Ids : Pending(y)'}}
      <4>1. CASE status = "pending"
        <5>1. {y \in Ids : Pending(y)'} = ({y \in Ids : Pending(y)} \ {d}) \cup {d} BY <3>2, <4>1
        <5>2. due' = {<<delivery[x].next, x>> : x \in {y \in Ids : Pending(y)} \ {d}} \cup {<<delivery'[d].next, d>>}
          BY <1>4, <3>1, <3>3, <3>4, <4>1
        <5>3. \A x \in {y \in Ids : Pending(y)} \ {d} : delivery'[x] = delivery[x] BY <1>7
        <5> QED BY <5>1, <5>2, <5>3
      <4>2. CASE status # "pending" BY <1>7, <3>2, <3>3, <3>4, <4>2
      <4> QED BY <4>1, <4>2
    <3>6. due' \in SUBSET (Nat \X Ids) BY <1>1, <3>3
    <3> QED BY <1>7, <3>5, <3>6 DEF DueIsPending
  <2> QED BY <1>5, <2>2, <2>3
<1> PICK rest : rest = [x \in DOMAIN worker[w].batch \ {d} |-> worker[w].batch[x]] OBVIOUS
<1>9. /\ rest \in Copies /\ DOMAIN rest = DOMAIN worker[w].batch \ {d}
      /\ \A x \in DOMAIN rest : rest[x] = worker[w].batch[x]
  <2>1. worker[w].batch \in Copies BY <1>1 DEF Loops
  <2>2. PICK D \in SUBSET Nat : worker[w].batch \in [D -> Deliveries] BY <2>1 DEF Copies
  <2>3. rest \in [D \ {d} -> Deliveries] /\ D \ {d} \in SUBSET Nat BY <2>2
  <2> QED BY <2>2, <2>3 DEF Copies
<1>10. /\ worker' \in [Workers -> Loops] /\ worker'[w].batch = rest
       /\ worker'[w].pc = (IF DOMAIN rest = {} THEN "scan" ELSE "deliver")
       /\ \A v \in Workers : v # w => worker'[v] = worker[v]
  <2> PICK p : p = IF DOMAIN rest = {} THEN "scan" ELSE "deliver" OBVIOUS
  <2> PICK loop : loop = [worker[w] EXCEPT !.pc = p, !.batch = rest] OBVIOUS
  <2>1. worker[w] \in Loops /\ p \in {"scan", "deliver"} BY <1>1
  <2>2. loop \in Loops /\ loop.pc = p /\ loop.batch = rest BY <1>9, <2>1 DEF Loops
  <2>3. worker' = [worker EXCEPT ![w] = loop] BY DEF Advanced
  <2> QED BY <1>1, <2>2, <2>3, LoopReplaced
<1>11. HookTyped' BY <1>1, <1>6, <1>7, <1>8, <1>10 DEF HookInv, HookTyped
<1>12. OneAtWork' BY <1>10, OneMoves
<1>13. ASSUME NEW v \in Workers PROVE (HoldsDue(v) /\ AttemptIsCounted(v))'
  <2>1. CASE v = w
    <3>1. worker'[w].pc # "post" /\ (worker'[w].pc # "deliver" => DOMAIN worker'[w].batch = {}) BY <1>10
    <3>2. ASSUME NEW x \in DOMAIN worker'[w].batch
          PROVE  /\ x \in Ids' /\ worker'[w].batch[x] = delivery'[x]
                 /\ Pending(x)' /\ delivery'[x].next \in Nat /\ delivery'[x].next <= now'
      <4>1. x \in DOMAIN worker[w].batch /\ x # d /\ worker'[w].batch[x] = worker[w].batch[x] BY <1>9, <1>10
      <4>2. /\ x \in Ids /\ worker[w].batch[x] = delivery[x]
            /\ Pending(x) /\ delivery[x].next \in Nat /\ delivery[x].next <= now
        BY <1>2, <4>1 DEF HoldsDue
      <4> QED BY <1>7, <4>1, <4>2 DEF Pending
    <3>3. HoldsDue(w)' BY <3>1, <3>2 DEF HoldsDue
    <3> QED BY <2>1, <3>1, <3>3 DEF AttemptIsCounted
  <2>2. CASE v # w
    <3>1. worker[v].pc = "off" /\ HoldsDue(v) BY <2>2 DEF HookInv, OneAtWork
    <3>2. worker'[v].pc = "off" /\ DOMAIN worker'[v].batch = {} BY <1>10, <2>2, <3>1 DEF HoldsDue
    <3> QED BY <3>2, EmptyHanded
  <2> QED BY <2>1, <2>2
<1>14. ASSUME NEW x \in Ids' PROVE RecordIsSound(x)'
  <2>1. x \in Ids /\ RecordIsSound(x) /\ tries[x] \in Nat /\ tries'[x] \in Nat /\ delivery[x] \in Deliveries
    BY <1>1, <1>7 DEF HookInv, Ids
  <2>2. delivery[x].attempts \in Nat /\ delivery[x].attempts <= tries'[x] BY <2>1 DEF RecordIsSound, Deliveries
  <2>3. CASE delivery'[x] = delivery[x] BY <2>1, <2>2, <2>3 DEF RecordIsSound, Pending
  <2>4. CASE x = d /\ delivery'[x] = outcome
    <3>1. outcome.attempts <= MaxAttempts /\ outcome.attempts <= tries'[d]
      BY <1>3, <1>4, <2>1, <2>2, <2>4, AttemptsAssumption
    <3> QED BY <1>4, <2>4, <3>1 DEF RecordIsSound, Pending
  <2> QED BY <1>7, <2>1, <2>3, <2>4
<1> QED BY <1>8, <1>11, <1>12, <1>13, <1>14 DEF HookInv

(* record_failure: a retry after the backoff, or the limit of attempts. *)
LEMMA FailureOutcome ==
    ASSUME HookInv, NEW w \in Workers, NEW d \in Ids, worker[w].pc # "off", IsHead(w, d), NEW at \in Nat,
           RecordFailure(d, worker[w].batch[d], at)
    PROVE  \E status \in States, next \in Nat \cup {Never} :
             /\ Update(d, status, next)
             /\ status \in {"pending", "failed"}
             /\ status = "pending" => /\ next = at + Backoff[delivery[d].attempts + 1] /\ next \in Nat
                                      /\ delivery[d].attempts + 1 < MaxAttempts
             /\ status = "failed" => delivery[d].attempts + 1 = MaxAttempts
<1>1. worker[w].batch[d] = delivery[d] /\ Pending(d) BY DEF IsHead, HookInv, HoldsDue
<1> PICK n \in Nat : n = delivery[d].attempts + 1 BY StoredTypes
<1>2. n <= MaxAttempts BY <1>1, StoredTypes, AttemptsAssumption DEF HookInv, RecordIsSound
<1>3. CASE n >= MaxAttempts
  <2>1. Update(d, "failed", Never) /\ n = MaxAttempts BY <1>1, <1>2, <1>3, AttemptsAssumption DEF RecordFailure
  <2> QED BY <2>1 DEF States
<1>4. CASE n < MaxAttempts
  <2>1. Update(d, "pending", at + Backoff[n]) BY <1>1, <1>4, AttemptsAssumption DEF RecordFailure
  <2>2. at + Backoff[n] \in Nat BY BackoffUnfolds
  <2> QED BY <1>4, <2>1, <2>2 DEF States
<1> QED BY <1>3, <1>4, AttemptsAssumption

LEMMA UnconfiguredStep ==
    ASSUME HookInv, NEW w \in Workers, NEW d \in Ids, Unconfigured(w, d)
    PROVE  HookInv'
<1>1. /\ worker[w].pc # "off" /\ IsHead(w, d)
      /\ RecordFailure(d, worker[w].batch[d], now)
      /\ worker' = [worker EXCEPT ![w] = Advanced(w, d)]
      /\ UNCHANGED <<configured, running, permit, request, now, received>>
  BY DEF Unconfigured
<1>2. /\ now \in Nat /\ tries \in Seq(Nat) /\ Len(tries) = Len(delivery) /\ received \in SUBSET Ids
  BY DEF HookInv, HookTyped
<1> PICK n \in Nat : n = tries[d] + 1 BY StoredTypes
<1>3. tries' = [tries EXCEPT ![d] = n] /\ d \in 1..Len(tries) BY <1>2 DEF Unconfigured, Ids
<1>4. /\ tries' \in Seq(Nat) /\ Len(tries') = Len(tries)
      /\ \A x \in 1..Len(tries) : tries'[x] = IF x = d THEN n ELSE tries[x]
  BY <1>2, <1>3, SeqExcept
<1>5. \A x \in Ids : tries[x] <= tries'[x]
  <2>1. \A x \in Ids : tries'[x] = (IF x = d THEN n ELSE tries[x]) /\ tries[x] \in Nat
    BY <1>2, <1>4, StoredTypes DEF Ids
  <2> QED BY <2>1
<1>6. delivery[d].attempts < tries'[d]
  <2>1. delivery[d].attempts <= tries[d] BY DEF HookInv, RecordIsSound
  <2> QED BY <1>3, <1>4, <2>1, StoredTypes
<1>7. PICK status \in States, next \in Nat \cup {Never} :
        /\ Update(d, status, next)
        /\ status \in {"pending", "failed"}
        /\ status = "pending" => next \in Nat /\ delivery[d].attempts + 1 < MaxAttempts
        /\ status = "failed" => delivery[d].attempts + 1 = MaxAttempts
  BY <1>1, <1>2, FailureOutcome
<1> QED BY <1>1, <1>2, <1>4, <1>5, <1>6, <1>7, OutcomeStep

(* An answer arrives for the attempt that was counted when it left. *)
LEMMA AnsweredStep ==
    ASSUME HookInv, NEW w \in Workers, NEW d \in Ids, Succeed(w, d) \/ Refused(w, d)
    PROVE  HookInv'
<1>1. /\ worker[w].pc = "post" /\ IsHead(w, d)
      /\ worker' = [worker EXCEPT ![w] = Advanced(w, d)]
      /\ UNCHANGED <<configured, running, permit, request, now, tries>>
      /\ received \subseteq received' /\ received' \subseteq received \cup {d}
  BY DEF Succeed, Refused
<1>2. /\ tries \in Seq(Nat) /\ received \in SUBSET Ids /\ worker[w].at \in Nat BY DEF HookInv, HookTyped, Loops
<1>3. tries' \in Seq(Nat) /\ Len(tries') = Len(tries) /\ received' \subseteq Ids BY <1>1, <1>2
<1>4. \A x \in Ids : tries[x] <= tries'[x]
  <2>1. \A x \in Ids : tries'[x] = tries[x] /\ tries[x] \in Nat BY <1>1, StoredTypes
  <2> QED BY <2>1
<1>5. delivery[d].attempts < tries'[d] BY <1>1 DEF HookInv, AttemptIsCounted, IsHead
<1>6. CASE Succeed(w, d)
  <2>1. Update(d, "delivered", Never) /\ d \in received' BY <1>6 DEF Succeed
  <2>2. "delivered" \in States /\ Never \in Nat \cup {Never} BY DEF States
  <2> QED BY <1>1, <1>3, <1>4, <1>5, <2>1, <2>2, OutcomeStep
<1>7. CASE Refused(w, d)
  <2>1. RecordFailure(d, worker[w].batch[d], worker[w].at) BY <1>7 DEF Refused
  <2>2. PICK status \in States, next \in Nat \cup {Never} :
          /\ Update(d, status, next)
          /\ status \in {"pending", "failed"}
          /\ status = "pending" => next \in Nat /\ delivery[d].attempts + 1 < MaxAttempts
          /\ status = "failed" => delivery[d].attempts + 1 = MaxAttempts
    BY <1>1, <1>2, <2>1, FailureOutcome
  <2> QED BY <1>1, <1>3, <1>4, <1>5, <2>2, OutcomeStep
<1> QED BY <1>6, <1>7

--------------------------------
(* The theorems. *)

LEMMA HookInvStep == HookInv /\ [HookNext]_hookVars => HookInv'
<1> SUFFICES ASSUME HookInv, [HookNext]_hookVars PROVE HookInv' OBVIOUS
<1>1. CASE UNCHANGED hookVars
  BY <1>1 DEF HookInv, HookTyped, Ids, OneAtWork, DueIsPending, HoldsDue, AttemptIsCounted, IsHead,
              RecordIsSound, Pending, hookVars
<1>2. ASSUME NEW c \in Changes, CommitChange(c) \/ Emit(c) PROVE HookInv'
  <2>1. CASE CommitChange(c) BY <2>1, CommitChangeStep
  <2>2. CASE Emitted(c) BY <2>2, EmittedStep
  <2>3. ASSUME NEW t \in Targets, Enqueue(c, t) \/ EnqueueFails(c, t) PROVE HookInv'
    BY <2>3, EnqueueStep, EnqueueFailsStep
  <2> QED BY <1>2, <2>1, <2>2, <2>3 DEF Emit
<1>3. ASSUME NEW w \in Workers, Loop(w) PROVE HookInv'
  <2>1. CASE Scan(w) BY <2>1, ScanStep
  <2>2. CASE ScanFails(w) \/ ReadNext(w) \/ Notified(w) \/ Wake(w) BY <2>2, RestingStep
  <2>3. ASSUME NEW d \in Ids, Send(w, d) \/ Unconfigured(w, d) \/ Succeed(w, d) \/ Refused(w, d)
        PROVE  HookInv'
    BY <2>3, SendStep, UnconfiguredStep, AnsweredStep
  <2> QED BY <1>3, <2>1, <2>2, <2>3 DEF Loop
<1>4. CASE Tick BY <1>4, TickStep
<1>5. ASSUME NEW T \in SUBSET Targets, Restart(T) PROVE HookInv' BY <1>5, RestartStep
<1> QED BY <1>1, <1>2, <1>3, <1>4, <1>5 DEF HookNext

(* What a step may do to one delivery. *)
Unwritten == \A d \in Ids : delivery'[d] = delivery[d]
Untried == \A d \in Ids : tries'[d] = tries[d]
OnlyThat(s, t, d) == \A x \in Ids : x # d => t[x] = s[x]

LEMMA UpdateEffect ==
    ASSUME HookInv, NEW d \in Ids, NEW status \in States, NEW next \in Nat \cup {Never}, Update(d, status, next)
    PROVE  /\ OnlyThat(delivery, delivery', d)
           /\ \/ delivery'[d] = delivery[d]
              \/ /\ delivery'[d].status = status /\ delivery'[d].next = next
                 /\ delivery'[d].attempts = delivery[d].attempts + 1
<1>1. CASE UNCHANGED <<delivery, due>> BY <1>1 DEF OnlyThat
<1>2. CASE delivery' = [delivery EXCEPT ![d].status = status, ![d].next = next, ![d].attempts = @ + 1]
  <2>1. delivery \in Seq(Deliveries) /\ d \in 1..Len(delivery) /\ delivery[d] \in Deliveries
    BY StoredTypes DEF HookInv, HookTyped, Ids
  <2> PICK outcome : outcome = [delivery[d] EXCEPT !.status = status, !.next = next, !.attempts = @ + 1] OBVIOUS
  <2>2. delivery[d].attempts + 1 \in Nat BY StoredTypes
  <2>3. /\ outcome \in Deliveries /\ outcome.status = status /\ outcome.next = next
        /\ outcome.attempts = delivery[d].attempts + 1
    BY <2>1, <2>2 DEF Deliveries
  <2>4. delivery' = [delivery EXCEPT ![d] = outcome] BY <1>2, <2>1
  <2>5. \A x \in 1..Len(delivery) : delivery'[x] = IF x = d THEN outcome ELSE delivery[x] BY <2>1, <2>3, <2>4, SeqExcept
  <2> QED BY <2>1, <2>3, <2>5 DEF OnlyThat, Ids
<1> QED BY <1>1, <1>2 DEF Update

(* A request only adds to the store. *)
LEMMA RequestSteps ==
    ASSUME HookInv, NEW c \in Changes, CommitChange(c) \/ Emit(c)
    PROVE  Unwritten /\ Untried
<1>1. CASE UNCHANGED <<delivery, tries>> BY <1>1 DEF Unwritten, Untried
<1>2. ASSUME NEW t \in Targets, Enqueue(c, t) PROVE Unwritten /\ Untried
  <2>1. delivery \in Seq(Deliveries) /\ tries \in Seq(Nat) /\ Len(tries) = Len(delivery) BY DEF HookInv, HookTyped
  <2>2. now \in Nat BY DEF HookInv, HookTyped
  <2>3. NewDelivery(t) \in Deliveries BY <2>2 DEF NewDelivery, Deliveries, States
  <2>4. delivery' = Append(delivery, NewDelivery(t)) /\ tries' = Append(tries, 0) BY <1>2 DEF Enqueue
  <2> QED BY <2>1, <2>3, <2>4 DEF Unwritten, Untried, Ids
<1>3. CASE \E t \in Targets : EnqueueFails(c, t) BY <1>1, <1>3 DEF EnqueueFails
<1> QED BY <1>1, <1>2, <1>3 DEF CommitChange, Emit, Emitted

SentIsDue == \A d \in Ids : tries'[d] # tries[d] => delivery[d].status = "pending" /\ delivery[d].next <= now
RetryWaits ==
    \A d \in Ids :
       /\ delivery[d].status # "pending" => delivery'[d] = delivery[d]
       /\ delivery'[d].attempts # delivery[d].attempts /\ delivery'[d].status = "pending" =>
            \E w \in Workers :
              /\ d \in DOMAIN worker[w].batch
              /\ delivery'[d].next >= Backoff[delivery'[d].attempts] +
                   (IF worker[w].pc = "post" THEN worker[w].at ELSE now)

(* An attempt is made for a delivery the loop holds, and its record waits out the backoff. *)
LEMMA AttemptStep ==
    ASSUME HookInv, NEW w \in Workers, NEW d \in Ids,
           Send(w, d) \/ Unconfigured(w, d) \/ Succeed(w, d) \/ Refused(w, d)
    PROVE  SentIsDue /\ RetryWaits
<1>1. IsHead(w, d) /\ worker[w].pc \in {"deliver", "post"} BY DEF Send, Unconfigured, Succeed, Refused
<1>2. d \in DOMAIN worker[w].batch /\ Pending(d) /\ delivery[d].next <= now BY <1>1 DEF IsHead, HookInv, HoldsDue
<1>3. /\ now \in Nat /\ worker[w].at \in Nat /\ tries \in Seq(Nat) /\ Len(tries) = Len(delivery)
  BY DEF HookInv, HookTyped, Loops
<1>4. OnlyThat(tries, tries', d)
  <2>1. CASE tries' = [tries EXCEPT ![d] = @ + 1] BY <1>3, <2>1 DEF OnlyThat, Ids
  <2>2. CASE UNCHANGED tries BY <2>2 DEF OnlyThat
  <2> QED BY <2>1, <2>2 DEF Send, Unconfigured, Succeed, Refused
<1>5. SentIsDue BY <1>2, <1>4 DEF SentIsDue, OnlyThat, Pending
<1> DEFINE since == IF worker[w].pc = "post" THEN worker[w].at ELSE now
           Waits == delivery'[d].attempts # delivery[d].attempts /\ delivery'[d].status = "pending" =>
                      delivery'[d].next >= Backoff[delivery'[d].attempts] + since
<1>6. OnlyThat(delivery, delivery', d) /\ Waits
  <2>1. CASE Send(w, d) BY <2>1 DEF Send, OnlyThat
  <2>2. CASE Succeed(w, d)
    <3>1. Update(d, "delivered", Never) /\ "delivered" \in States BY <2>2 DEF Succeed, States
    <3>2. /\ OnlyThat(delivery, delivery', d)
          /\ delivery'[d] = delivery[d] \/ delivery'[d].status = "delivered"
      BY <3>1, UpdateEffect
    <3> QED BY <3>2
  <2>3. CASE Unconfigured(w, d) \/ Refused(w, d)
    <3> PICK at : at = since OBVIOUS
    <3>1. RecordFailure(d, worker[w].batch[d], at) /\ at \in Nat BY <1>3, <2>3 DEF Unconfigured, Refused
    <3>2. PICK status \in States, next \in Nat \cup {Never} :
            /\ Update(d, status, next)
            /\ status = "pending" => next = at + Backoff[delivery[d].attempts + 1]
      BY <1>1, <3>1, FailureOutcome
    <3>3. /\ OnlyThat(delivery, delivery', d)
          /\ \/ delivery'[d] = delivery[d]
             \/ /\ delivery'[d].status = status /\ delivery'[d].next = next
                /\ delivery'[d].attempts = delivery[d].attempts + 1
      BY <3>2, UpdateEffect
    <3>4. delivery[d].attempts + 1 \in Nat BY StoredTypes
    <3> PICK n \in Nat : n = delivery[d].attempts + 1 BY <3>4
    <3>5. Backoff[n] \in Nat BY BackoffUnfolds
    <3> QED BY <3>1, <3>2, <3>3, <3>5
  <2> QED BY <2>1, <2>2, <2>3
<1>7. RetryWaits
  <2> SUFFICES ASSUME NEW x \in Ids
               PROVE  /\ delivery[x].status # "pending" => delivery'[x] = delivery[x]
                      /\ delivery'[x].attempts # delivery[x].attempts /\ delivery'[x].status = "pending" =>
                           \E v \in Workers :
                             /\ x \in DOMAIN worker[v].batch
                             /\ delivery'[x].next >= Backoff[delivery'[x].attempts] +
                                  (IF worker[v].pc = "post" THEN worker[v].at ELSE now)
    BY DEF RetryWaits
  <2>1. CASE x = d BY <1>2, <1>6, <2>1 DEF Pending
  <2>2. CASE x # d BY <1>6, <2>2 DEF OnlyThat
  <2> QED BY <2>1, <2>2
<1> QED BY <1>5, <1>7

LEMMA EveryStep == HookInv /\ [HookNext]_hookVars => SentIsDue /\ RetryWaits
<1> SUFFICES ASSUME HookInv, [HookNext]_hookVars PROVE SentIsDue /\ RetryWaits OBVIOUS
<1>1. CASE Unwritten /\ Untried BY <1>1 DEF Unwritten, Untried, SentIsDue, RetryWaits
<1>2. CASE UNCHANGED hookVars \/ Tick BY <1>1, <1>2 DEF Unwritten, Untried, Tick, hookVars
<1>3. ASSUME NEW T \in SUBSET Targets, Restart(T) PROVE SentIsDue /\ RetryWaits
  BY <1>1, <1>3 DEF Unwritten, Untried, Restart
<1>4. ASSUME NEW c \in Changes, CommitChange(c) \/ Emit(c) PROVE SentIsDue /\ RetryWaits BY <1>1, <1>4, RequestSteps
<1>5. ASSUME NEW w \in Workers, Loop(w) PROVE SentIsDue /\ RetryWaits
  <2>1. CASE Scan(w) \/ ScanFails(w) \/ ReadNext(w) \/ Notified(w) \/ Wake(w)
    BY <1>1, <2>1 DEF Unwritten, Untried, Scan, ScanFails, ReadNext, Notified, Wake
  <2> QED BY <1>5, <2>1, AttemptStep DEF Loop
<1> QED BY <1>2, <1>3, <1>4, <1>5 DEF HookNext

(* The outbox of architecture.md: what is stored is never lost track of, a *)
(* settled delivery was accepted or used up its attempts, and the attempt  *)
(* counts are those of attempts made, whatever crashes and failing writes  *)
(* happen in between.                                                      *)
THEOREM QueueStaysSound == HookSpec => []QueueIsSound
<1>1. HookInit => HookInv BY HookInvInit
<1>2. HookInv /\ [HookNext]_hookVars => HookInv' BY HookInvStep
<1>3. HookInv => QueueIsSound BY HookInvSound
<1> QED BY <1>1, <1>2, <1>3, PTL DEF HookSpec

(* The delivery loop works through copies of records, and yet it calls a    *)
(* target only for a delivery that is pending and due in the store, dates   *)
(* the next attempt after the backoff, and never touches a settled one.     *)
THEOREM OnlyDueDeliveries == HookSpec => DeliveriesAreDue
<1>1. HookInit => HookInv BY HookInvInit
<1>2. HookInv /\ [HookNext]_hookVars => HookInv' BY HookInvStep
<1>3. HookInv /\ [HookNext]_hookVars => [SentIsDue]_hookVars /\ [RetryWaits]_hookVars BY EveryStep
<1>4. HookSpec => [][SentIsDue]_hookVars /\ [][RetryWaits]_hookVars BY <1>1, <1>2, <1>3, PTL DEF HookSpec
<1> QED BY <1>4, Zenon DEF DeliveriesAreDue, OnlyDueIsSent, RetriesWait, SentIsDue, RetryWaits
================================

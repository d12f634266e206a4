---------------- MODULE Webhook ----------------
(* The webhook outbox (peryx-storage/src/meta/webhook.rs) and its delivery
   loop (peryx-events/src/webhook/delivery.rs).

   A request handler commits its change, then queues one delivery for each
   subscribed target, each in a transaction of its own, and kicks the one
   background loop.  The loop lists what is due, POSTs each delivery,
   records the outcome, and sleeps until the next delivery is due or it is
   notified.  Loop state is memory: a restart forgets it and kicks a new
   loop when any target is configured.

   Time is the host's clock in abstract ticks, and never goes backwards. *)
EXTENDS Naturals, Sequences, FiniteSets

CONSTANTS
    Changes,         \* mutating requests that emit an event
    Targets,         \* webhook targets of the index
    Workers,         \* tasks that may run delivery_loop
    DeliveryBatch,   \* DELIVERY_BATCH
    MaxAttempts,     \* MAX_ATTEMPTS
    InitialBackoff,  \* INITIAL_BACKOFF_SECS
    MaxBackoff,      \* MAX_BACKOFF_SECS
    MaxTime,         \* bound on the clock
    MaxRestarts,     \* bound on restarts
    MaxWriteErrors,  \* bound on failing store writes
    MaxReadErrors,   \* bound on failing reads of the due index
    Reconfigures,    \* whether a restart may change the configured targets
    Never            \* no next attempt

ASSUME DeliveryBatchAssumption == DeliveryBatch \in Nat \ {0}
ASSUME AttemptsAssumption == MaxAttempts \in Nat \ {0}
ASSUME BackoffAssumption == InitialBackoff \in Nat /\ MaxBackoff \in Nat
ASSUME TimeAssumption == MaxTime \in Nat /\ Never \notin Nat
ASSUME FaultAssumption ==
    /\ MaxRestarts \in Nat /\ MaxWriteErrors \in Nat /\ MaxReadErrors \in Nat
    /\ Reconfigures \in BOOLEAN

VARIABLES
    delivery,   \* WEBHOOK_DELIVERY, by delivery serial
    due,        \* WEBHOOK_DUE: pairs of due time and delivery serial
    configured, \* the targets of the running configuration
    running,    \* WebhookRuntime::running
    permit,     \* the permit stored in WebhookRuntime::notify
    worker,     \* where each loop is
    request,    \* where each mutating request is
    now,        \* WebhookHost::now
    tries,      \* how often deliver_one ran for each delivery
    received,   \* deliveries whose target answered with success
    faults      \* failures spent so far

hookVars == <<delivery, due, configured, running, permit, worker, request, now,
          tries, received, faults>>

Ids == 1..Len(delivery)

NewDelivery(t) ==
    [target |-> t, status |-> "pending", attempts |-> 0, next |-> now]

Off == [pc |-> "off", batch |-> <<>>, at |-> 0, wake |-> 0]
OneLoop == [w \in Workers |-> IF w = CHOOSE v \in Workers : TRUE
                              THEN [Off EXCEPT !.pc = "scan"] ELSE Off]
Idle == [pc |-> "idle", left |-> {}, queued |-> 0]

HookInit ==
    /\ delivery = <<>>
    /\ due = {}
    /\ configured = Targets
    /\ running = TRUE
    /\ permit = FALSE
    /\ worker = OneLoop
    /\ request = [c \in Changes |-> Idle]
    /\ now = 0
    /\ tries = <<>>
    /\ received = {}
    /\ faults = [restarts |-> 0, writes |-> 0, reads |-> 0]

--------------------------------
(* The request path. *)

(* The task a new loop runs on; which one makes no difference. *)
FreeTask == CHOOSE w \in Workers : worker[w].pc = "off"

(* Mutant of Kick: a running loop is left to notice by itself. *)
KickSilent ==
    IF running
      THEN UNCHANGED <<running, worker, permit>>
      ELSE /\ running' = TRUE
           /\ worker' = [worker EXCEPT ![FreeTask].pc = "scan"]
           /\ UNCHANGED permit

(* kick: one loop at a time; a running one is notified. *)
Kick ==
    IF running
      THEN permit' = TRUE /\ UNCHANGED <<running, worker>>
      ELSE /\ running' = TRUE
           /\ worker' = [worker EXCEPT ![FreeTask].pc = "scan"]
           /\ UNCHANGED permit

(* The change is durable; emit picks the subscribed targets of the          *)
(* configuration (none: nothing to queue).                                  *)
CommitChange(c) ==
    /\ request[c].pc = "idle"
    /\ request' = [request EXCEPT ![c] = [pc |-> "emit", left |-> configured, queued |-> 0]]
    /\ UNCHANGED <<delivery, due, configured, running, permit, worker, now,
                   tries, received, faults>>

(* enqueue_webhook_delivery for one target of the event. *)
Enqueue(c, t) ==
    /\ request[c].pc = "emit"
    /\ t \in request[c].left
    /\ delivery' = Append(delivery, NewDelivery(t))
    /\ due' = due \cup {<<now, Len(delivery) + 1>>}
    /\ tries' = Append(tries, 0)
    /\ request' = [request EXCEPT ![c].left = @ \ {t}, ![c].queued = @ + 1]
    /\ UNCHANGED <<configured, running, permit, worker, now, received, faults>>

(* The transaction fails: the error is logged and the target goes without.  *)
EnqueueFails(c, t) ==
    /\ request[c].pc = "emit"
    /\ t \in request[c].left
    /\ faults.writes < MaxWriteErrors
    /\ faults' = [faults EXCEPT !.writes = @ + 1]
    /\ request' = [request EXCEPT ![c].left = @ \ {t}]
    /\ UNCHANGED <<delivery, due, configured, running, permit, worker, now,
                   tries, received>>

(* All targets queued: kick the loop if anything was, and answer. *)
Emitted(c) ==
    /\ request[c].pc = "emit"
    /\ request[c].left = {}
    /\ request' = [request EXCEPT ![c].pc = "answered"]
    /\ IF request[c].queued > 0 THEN Kick ELSE UNCHANGED <<running, permit, worker>>
    /\ UNCHANGED <<delivery, due, configured, now, tries, received, faults>>

--------------------------------
(* The delivery loop. *)

(* The key order of the due index: due time, then delivery serial. *)
Before(e, f) == e[1] < f[1] \/ (e[1] = f[1] /\ e[2] < f[2])

(* The first entries of the due index at or before time t, at most          *)
(* DeliveryBatch of them.                                                   *)
IsDueList(t, L) ==
    LET ripe == {e \in due : e[1] <= t}
    IN  /\ L \subseteq ripe
        /\ \A e \in L, f \in ripe \ L : Before(e, f)
        /\ Cardinality(L) = IF Cardinality(ripe) <= DeliveryBatch
                              THEN Cardinality(ripe) ELSE DeliveryBatch

(* list_due_webhook_deliveries, with a copy of each record. *)
Scan(w) ==
    /\ worker[w].pc = "scan"
    /\ \E L \in SUBSET due :
         /\ IsDueList(now, L)
         /\ worker' = [worker EXCEPT
              ![w].pc = IF L = {} THEN "next" ELSE "deliver",
              ![w].batch = [d \in {e[2] : e \in L} |-> delivery[d]]]
    /\ UNCHANGED <<delivery, due, configured, running, permit, request, now,
                   tries, received, faults>>

(* A failing scan counts as an empty one. *)
ScanFails(w) ==
    /\ worker[w].pc = "scan"
    /\ faults.reads < MaxReadErrors
    /\ faults' = [faults EXCEPT !.reads = @ + 1]
    /\ worker' = [worker EXCEPT ![w].pc = "next"]
    /\ UNCHANGED <<delivery, due, configured, running, permit, request, now,
                   tries, received>>

(* The delivery the loop works on: the first of its batch. *)
IsHead(w, d) ==
    /\ d \in DOMAIN worker[w].batch
    /\ \A x \in DOMAIN worker[w].batch \ {d} :
         Before(<<worker[w].batch[d].next, d>>, <<worker[w].batch[x].next, x>>)

(* The loop moves on: the rest of the batch, then another scan. *)
Advanced(w, d) ==
    LET rest == [x \in DOMAIN worker[w].batch \ {d} |-> worker[w].batch[x]]
    IN  [worker[w] EXCEPT !.pc = IF DOMAIN rest = {} THEN "scan" ELSE "deliver",
                          !.batch = rest]

(* backoff_secs *)
Backoff[n \in Nat] ==
    IF n <= 1 THEN InitialBackoff
    ELSE LET tripled == 3 * Backoff[n - 1]
         IN  IF tripled <= MaxBackoff THEN tripled ELSE MaxBackoff

(* Mutant of Update: the old due entry stays. *)
UpdateKeepsDue(d, status, next) ==
    /\ delivery' = [delivery EXCEPT ![d].status = status, ![d].next = next, ![d].attempts = @ + 1]
    /\ due' = due \cup (IF status = "pending" THEN {<<next, d>>} ELSE {})
    /\ UNCHANGED faults

(* update_webhook_delivery, or the write fails and is only logged. *)
Update(d, status, next) ==
    \/ /\ delivery' = [delivery EXCEPT ![d].status = status, ![d].next = next, ![d].attempts = @ + 1]
       /\ due' = (due \ {<<delivery[d].next, d>>})
                    \cup (IF status = "pending" THEN {<<next, d>>} ELSE {})
       /\ UNCHANGED faults
    \/ /\ faults.writes < MaxWriteErrors
       /\ faults' = [faults EXCEPT !.writes = @ + 1]
       /\ UNCHANGED <<delivery, due>>

(* Mutant of RecordFailure: the retry is not dated. *)
RecordFailureAtOnce(d, copy, at) ==
    LET attempts == copy.attempts + 1
    IN  IF attempts >= MaxAttempts
          THEN Update(d, "failed", Never)
          ELSE Update(d, "pending", at)

(* record_failure, with the attempts of the copy the scan made and the      *)
(* time deliver_one started.                                                *)
RecordFailure(d, copy, at) ==
    LET attempts == copy.attempts + 1
    IN  IF attempts >= MaxAttempts
          THEN Update(d, "failed", Never)
          ELSE Update(d, "pending", at + Backoff[attempts])

(* deliver_one up to the request leaving, for a configured target. *)
Send(w, d) ==
    /\ worker[w].pc = "deliver"
    /\ IsHead(w, d)
    /\ worker[w].batch[d].target \in configured
    /\ tries' = [tries EXCEPT ![d] = @ + 1]
    /\ worker' = [worker EXCEPT ![w].pc = "post", ![w].at = now]
    /\ UNCHANGED <<delivery, due, configured, running, permit, request, now,
                   received, faults>>

(* deliver_one for a target that left the configuration. *)
Unconfigured(w, d) ==
    /\ worker[w].pc = "deliver"
    /\ IsHead(w, d)
    /\ worker[w].batch[d].target \notin configured
    /\ tries' = [tries EXCEPT ![d] = @ + 1]
    /\ RecordFailure(d, worker[w].batch[d], now)
    /\ worker' = [worker EXCEPT ![w] = Advanced(w, d)]
    /\ UNCHANGED <<configured, running, permit, request, now, received>>

(* A success status arrives: record_success. *)
Succeed(w, d) ==
    /\ worker[w].pc = "post"
    /\ IsHead(w, d)
    /\ received' = received \cup {d}
    /\ Update(d, "delivered", Never)
    /\ worker' = [worker EXCEPT ![w] = Advanced(w, d)]
    /\ UNCHANGED <<configured, running, permit, request, now, tries>>

(* Another status, a transport error or the timeout; the target may have    *)
(* taken the request all the same.                                          *)
Refused(w, d) ==
    /\ worker[w].pc = "post"
    /\ IsHead(w, d)
    /\ received' \in {received, received \cup {d}}
    /\ RecordFailure(d, worker[w].batch[d], worker[w].at)
    /\ worker' = [worker EXCEPT ![w] = Advanced(w, d)]
    /\ UNCHANGED <<configured, running, permit, request, now, tries>>

(* next_webhook_delivery_at: sleep until the first due time, or, with an    *)
(* empty due index or a failing read, until notified.                       *)
ReadNext(w) ==
    /\ worker[w].pc = "next"
    /\ \/ /\ due = {}
          /\ worker' = [worker EXCEPT ![w].pc = "park"]
          /\ UNCHANGED faults
       \/ /\ \E e \in due :
               /\ \A f \in due \ {e} : Before(e, f)
               /\ worker' = [worker EXCEPT ![w].pc = "sleep", ![w].wake = e[1]]
          /\ UNCHANGED faults
       \/ /\ faults.reads < MaxReadErrors
          /\ faults' = [faults EXCEPT !.reads = @ + 1]
          /\ worker' = [worker EXCEPT ![w].pc = "park"]
    /\ UNCHANGED <<delivery, due, configured, running, permit, request, now,
                   tries, received>>

(* notified: a stored permit is consumed. *)
Notified(w) ==
    /\ worker[w].pc \in {"park", "sleep"}
    /\ permit
    /\ permit' = FALSE
    /\ worker' = [worker EXCEPT ![w].pc = "scan"]
    /\ UNCHANGED <<delivery, due, configured, running, request, now, tries,
                   received, faults>>

(* The sleep ends. *)
Wake(w) ==
    /\ worker[w].pc = "sleep"
    /\ worker[w].wake <= now
    /\ worker' = [worker EXCEPT ![w].pc = "scan"]
    /\ UNCHANGED <<delivery, due, configured, running, permit, request, now,
                   tries, received, faults>>

Loop(w) ==
    \/ Scan(w) \/ ScanFails(w) \/ ReadNext(w) \/ Notified(w) \/ Wake(w)
    \/ \E d \in Ids : Send(w, d) \/ Unconfigured(w, d) \/ Succeed(w, d) \/ Refused(w, d)

--------------------------------
Tick ==
    /\ now < MaxTime
    /\ now' = now + 1
    /\ UNCHANGED <<delivery, due, configured, running, permit, worker, request,
                   tries, received, faults>>

(* The process stops and starts again with configuration T; build_state     *)
(* kicks the loop when T has any target.  A request in flight is lost.      *)
Restart(T) ==
    /\ faults.restarts < MaxRestarts
    /\ faults' = [faults EXCEPT !.restarts = @ + 1]
    /\ configured' = T
    /\ permit' = FALSE
    /\ running' = (T # {})
    /\ worker' = IF T = {} THEN [w \in Workers |-> Off] ELSE OneLoop
    /\ request' = [c \in Changes |->
                     IF request[c].pc = "emit" THEN [request[c] EXCEPT !.pc = "cut"]
                     ELSE request[c]]
    /\ UNCHANGED <<delivery, due, now, tries, received>>

Emit(c) ==
    \/ Emitted(c)
    \/ \E t \in Targets : Enqueue(c, t) \/ EnqueueFails(c, t)

HookNext ==
    \/ \E c \in Changes : CommitChange(c) \/ Emit(c)
    \/ \E w \in Workers : Loop(w)
    \/ Tick
    \/ \E T \in SUBSET Targets : (Reconfigures \/ T = configured) /\ Restart(T)

HookSpec == HookInit /\ [][HookNext]_hookVars

(* The runtime polls the loop and the handlers, every POST ends within its  *)
(* timeout, and time passes.                                                *)
HookFairSpec ==
    /\ HookSpec
    /\ \A w \in Workers : WF_hookVars(Loop(w))
    /\ \A c \in Changes : WF_hookVars(Emit(c))
    /\ WF_hookVars(Tick)

--------------------------------
(* Types. *)
HookTypeOK ==
    /\ delivery \in Seq([target : Targets, status : {"pending", "delivered", "failed"},
                         attempts : Nat, next : Nat \cup {Never}])
    /\ due \subseteq Nat \X Ids
    /\ configured \subseteq Targets
    /\ running \in BOOLEAN /\ permit \in BOOLEAN
    /\ \A w \in Workers :
         /\ worker[w].pc \in {"off", "scan", "deliver", "post", "next", "park", "sleep"}
         /\ DOMAIN worker[w].batch \subseteq Ids
         /\ worker[w].at \in Nat /\ worker[w].wake \in Nat
    /\ \A c \in Changes : /\ request[c].pc \in {"idle", "emit", "answered", "cut"}
                          /\ request[c].left \subseteq Targets
                          /\ request[c].queued \in Nat
    /\ now \in 0..MaxTime
    /\ DOMAIN tries = Ids
    /\ received \subseteq Ids

(* What is stored is never lost track of: the due index holds exactly the   *)
(* pending deliveries, each under the time its record states; a delivery    *)
(* that left it was accepted by its target or used all its attempts.  The   *)
(* attempt count of a record never claims an attempt that was not made and  *)
(* never passes the limit, restarts and failing writes included.            *)
QueueIsSound ==
    /\ HookTypeOK
    /\ due = {<<delivery[d].next, d>> : d \in {x \in Ids : delivery[x].status = "pending"}}
    /\ \A d \in Ids :
         /\ delivery[d].status = "delivered" => d \in received
         /\ delivery[d].status = "failed" => delivery[d].attempts = MaxAttempts
         /\ delivery[d].attempts <= tries[d] /\ delivery[d].attempts <= MaxAttempts

(* A target is called only for a delivery that is pending and due in the    *)
(* store at that moment, although the loop works from an older copy.        *)
OnlyDueIsSent ==
    [][\A d \in Ids : tries'[d] # tries[d] =>
         delivery[d].status = "pending" /\ delivery[d].next <= now]_hookVars

(* A retry waits at least its backoff after the start of the last attempt   *)
(* the store knows of, and a settled delivery stays settled.                *)
RetriesWait ==
    [][\A d \in Ids :
         /\ delivery[d].status # "pending" => delivery'[d] = delivery[d]
         /\ delivery'[d].attempts # delivery[d].attempts /\ delivery'[d].status = "pending" =>
              \E w \in Workers :
                /\ d \in DOMAIN worker[w].batch
                /\ delivery'[d].next >= Backoff[delivery'[d].attempts] +
                     (IF worker[w].pc = "post" THEN worker[w].at ELSE now)]_hookVars

(* No wakeup is lost: what is due is attempted, settled or put off, unless  *)
(* a read of the due index failed or no target is configured any more.      *)
Overdue == \E d \in Ids : delivery[d].status = "pending" /\ delivery[d].next <= now

DueIsAttempted == Overdue ~> (~Overdue \/ faults.reads > 0 \/ configured = {})

(* Not met by the code when the process stops during emit: a committed      *)
(* change whose request is over has queued a delivery for every target, a   *)
(* crash never drops one (architecture.md).                                 *)
EveryChangeQueued ==
    \A c \in Changes :
        request[c].pc \in {"answered", "cut"} => request[c].queued = Cardinality(Targets)

\* The loop works from an older copy of the queue and yet calls a target only for what is due, and a retry
\* waits out its backoff.
DeliveriesAreDue == OnlyDueIsSent /\ RetriesWait

================================

---------------- MODULE RateLimit ----------------
(* The request limiter of one process: rate_limit.rs of peryx-driver, with
   the route classes of the two drivers.

   A request is given a class and an actor; the pair owns a fixed window.
   Windows live in a bounded cache and are shared by reference, so a
   window may be evicted while a request still holds it.  A request reads
   the clock first, looks its window up next and locks it last: between
   any two of these steps others may run, and its time may be old. *)
EXTENDS Integers, Sequences, FiniteSets

CONSTANTS
    Handlers,       \* requests in progress at the same time
    Shapes,         \* the requests clients send, see Shape
    Trusted,        \* trusted_proxies
    ClassLimit,     \* class -> [requests, window_secs]
    MaxNow,         \* bound on the clock
    MaxChecks,      \* bound on the requests checked
    MaxEvictions    \* bound on evicted windows

Classes == {"listing", "metadata", "artifact", "upload", "admin"}
Malformed == "malformed"
Anonymous == "anonymous"
NoAddress == "none"
Localhost == "localhost"

\* What the limiter can tell of a request: method and kind of path, the principal of its credentials, the
\* peer and the forwarding headers it carries.
IsShape(q) ==
    /\ q.method \in {"GET", "HEAD", "OPTIONS", "POST", "PUT", "PATCH", "DELETE", "TRACE"}
    /\ q.path \in {"health", "changelog", "service", "page", "sibling", "file", "unrouted"}
    /\ DOMAIN q = {"method", "path", "principal", "peer", "forwarded", "real"}

\* An entry of a forwarding header is an address or malformed.
HasAddresses(q) ==
    /\ q.forwarded \in Seq({q.forwarded[i] : i \in DOMAIN q.forwarded})
    /\ \A i \in DOMAIN q.forwarded : q.forwarded[i] # NoAddress

ASSUME RateLimitAssumption ==
    /\ \A q \in Shapes : IsShape(q) /\ HasAddresses(q)
    /\ \A c \in Classes : {ClassLimit[c].requests, ClassLimit[c].window_secs} \subseteq Nat
    /\ {MaxNow, MaxChecks, MaxEvictions} \subseteq Nat
    /\ {Malformed, NoAddress} \cap Trusted = {}

VARIABLES
    now,        \* the monotonic clock
    buckets,    \* the cache: key -> number of a window
    windows,    \* every window ever made: [reset_at, used]
    handler,    \* per request in progress [pc, key, now, window, from]
    counters,   \* class -> [allowed, denied]
    evictions,  \* windows evicted so far
    granted     \* history: sender -> requests let through

rateVars == <<now, buckets, windows, handler, counters, evictions, granted>>

--------------------------------
(* Which class                                                             *)

Reads == {"GET", "HEAD", "OPTIONS"}

\* classify_service_post: XML-RPC reads of the changelog are listings.
ServicePost(q) == q.method = "POST" /\ q.path = "changelog"

\* service_route_class, for what does not depend on an ecosystem: writes and the service endpoints.
ServiceRoute(q) == q.method \notin Reads \/ q.path = "service"

ServiceRouteClass(q) == IF q.method \notin Reads THEN "upload" ELSE "admin"

\* classify_route of the drivers; a path no driver owns is a listing.
ClassifyRoute(q) ==
    CASE q.path = "sibling" -> "metadata"
      [] q.path = "file" -> "artifact"
      [] OTHER -> "listing"

Class(q) ==
    IF ServicePost(q) THEN "listing"
    ELSE IF ServiceRoute(q) THEN ServiceRouteClass(q) ELSE ClassifyRoute(q)

--------------------------------
(* Which actor                                                             *)

\* trusts_proxy
TrustsProxy(address) == address \in Trusted

\* forwarded_client_ip: the entries are read from left to right, each standing for what is known after it.
\* The value is <<client, whether a malformed entry follows it>>.
Scanned(entries) ==
    LET scan[i \in 0..Len(entries)] ==
            IF i = 0 THEN <<NoAddress, FALSE>>
            ELSE IF entries[i] = Malformed THEN <<NoAddress, TRUE>>
            ELSE IF TrustsProxy(entries[i]) THEN scan[i - 1]
            ELSE <<entries[i], FALSE>>
    IN scan[Len(entries)]

ForwardedClientIp(q) ==
    IF q.forwarded = <<>>
    THEN IF Len(q.real) = 1 /\ q.real[1] # Malformed THEN q.real[1] ELSE NoAddress
    ELSE LET s == Scanned(q.forwarded) IN IF s[2] THEN NoAddress ELSE s[1]

\* client_ip
ClientIp(q) ==
    IF q.peer = NoAddress THEN NoAddress
    ELSE IF ~TrustsProxy(q.peer) THEN q.peer
    ELSE LET c == ForwardedClientIp(q) IN IF c = NoAddress THEN q.peer ELSE c

\* The principal is asked of the driver that owns the path, which only index paths have.
Principal(q) == IF q.path \in {"page", "sibling", "file"} THEN q.principal ELSE Anonymous

\* actor_key
ActorKey(q) ==
    IF Principal(q) # Anonymous THEN <<"token", Principal(q)>>
    ELSE <<"ip", IF ClientIp(q) = NoAddress THEN Localhost ELSE ClientIp(q)>>

BucketKey(q) == <<Class(q), ActorKey(q)>>

Keys == {BucketKey(q) : q \in Shapes}
Limit(k) == ClassLimit[k[1]]

\* Who really sent it, by another definition: behind trusted proxies the nearest entry they did not write
\* themselves, and the proxy when that entry cannot be read.
NearestUntrusted(q) ==
    LET e == q.forwarded
        other == {i \in DOMAIN e : ~TrustsProxy(e[i])}
        nearest == CHOOSE i \in other : \A j \in other : j <= i
    IN IF other = {} \/ e[nearest] = Malformed THEN q.peer ELSE e[nearest]

Sender(q) ==
    <<Class(q),
      IF Principal(q) # Anonymous THEN <<"token", Principal(q)>>
      ELSE <<"ip", CASE q.peer = NoAddress -> Localhost
                     [] TrustsProxy(q.peer) /\ q.forwarded # <<>> -> NearestUntrusted(q)
                     [] TrustsProxy(q.peer) /\ q.forwarded = <<>> -> ClientIp(q)
                     [] OTHER -> q.peer>>>>

Senders == {Sender(q) : q \in Shapes}

--------------------------------
(* enforce and check                                                       *)

NoBucket == <<"none", <<"none", "none">>>>
Idle == [pc |-> "idle", key |-> NoBucket, now |-> 0, window |-> 0, from |-> NoBucket]

RateInit ==
    /\ now = 0 /\ evictions = 0
    /\ buckets = <<>> /\ windows = <<>>
    /\ handler = [h \in Handlers |-> Idle]
    /\ counters = [c \in Classes |-> [allowed |-> 0, denied |-> 0]]
    /\ granted = [k \in Senders |-> 0]

Checks == LET total[S \in SUBSET Classes] ==
                  IF S = {} THEN 0
                  ELSE LET c == CHOOSE c \in S : TRUE
                       IN counters[c].allowed + counters[c].denied + total[S \ {c}]
          IN total[Classes] + Cardinality({h \in Handlers : handler[h].pc # "idle"})

Allow(k, from) ==
    /\ counters' = [counters EXCEPT ![k[1]].allowed = @ + 1]
    /\ granted' = [granted EXCEPT ![from] = @ + 1]

\* enforce up to check, and check up to the clock: a class without a limit is let through.  The health
\* endpoints are not counted at all.
Enforce(h, q) ==
    /\ handler[h].pc = "idle" /\ q.path # "health" /\ Checks < MaxChecks
    /\ LET k == BucketKey(q) IN
        IF Limit(k).requests = 0 \/ Limit(k).window_secs = 0
        THEN Allow(k, Sender(q)) /\ UNCHANGED handler
        ELSE /\ handler' = [handler EXCEPT ![h] = [pc |-> "lookup", key |-> k, now |-> now, window |-> 0, from |-> Sender(q)]]
             /\ UNCHANGED <<counters, granted>>
    /\ UNCHANGED <<now, buckets, windows, evictions>>

Holding(h, i) ==
    LET r == handler[h]
    IN [handler EXCEPT ![h] = [pc |-> "lock", key |-> r.key, now |-> r.now, window |-> i, from |-> r.from]]

\* get_with: the window of the key, made with the time the request has read.
GetWindow(h) ==
    /\ handler[h].pc = "lookup"
    /\ LET k == handler[h].key IN
        IF k \in DOMAIN buckets
        THEN handler' = Holding(h, buckets[k]) /\ UNCHANGED <<buckets, windows>>
        ELSE /\ windows' = Append(windows, [reset_at |-> handler[h].now + Limit(k).window_secs, used |-> 0])
             /\ buckets' = [x \in DOMAIN buckets \cup {k} |-> IF x = k THEN Len(windows) + 1 ELSE buckets[x]]
             /\ handler' = Holding(h, Len(windows) + 1)
    /\ UNCHANGED <<now, counters, evictions, granted>>

\* Mutant: a window that has ended is emptied and keeps its end.
OpenedOnce(w, h) == IF handler[h].now >= w.reset_at THEN [w EXCEPT !.used = 0] ELSE w

\* check under the lock: a window that has ended by the request's time starts again ...
Opened(w, h) ==
    IF handler[h].now >= w.reset_at
    THEN [reset_at |-> handler[h].now + Limit(handler[h].key).window_secs, used |-> 0]
    ELSE w

\* ... and the request is let through while the window has room.
Count(h) ==
    /\ handler[h].pc = "lock"
    /\ LET k == handler[h].key
           i == handler[h].window
           w == Opened(windows[i], h)
       IN IF w.used < Limit(k).requests
          THEN windows' = [windows EXCEPT ![i] = [w EXCEPT !.used = @ + 1]] /\ Allow(k, handler[h].from)
          ELSE /\ windows' = [windows EXCEPT ![i] = w]
               /\ counters' = [counters EXCEPT ![k[1]].denied = @ + 1]
               /\ UNCHANGED granted
    /\ handler' = [handler EXCEPT ![h] = Idle]
    /\ UNCHANGED <<now, buckets, evictions>>

\* The cache holds max_clients windows per class and drops others.
Evict(k) ==
    /\ k \in DOMAIN buckets /\ evictions < MaxEvictions
    /\ buckets' = [x \in DOMAIN buckets \ {k} |-> buckets[x]]
    /\ evictions' = evictions + 1
    /\ UNCHANGED <<now, windows, handler, counters, granted>>

Tick ==
    /\ now < MaxNow
    /\ now' = now + 1
    /\ UNCHANGED <<buckets, windows, handler, counters, evictions, granted>>

RateNext ==
    \/ \E h \in Handlers : (\E q \in Shapes : Enforce(h, q)) \/ GetWindow(h) \/ Count(h)
    \/ \E k \in Keys : Evict(k)
    \/ Tick

RateSpec == RateInit /\ [][RateNext]_rateVars

--------------------------------
(* Properties                                                              *)

\* Whatever requests overtake each other, a sender is let through at most `requests` times for each window
\* that has begun, and for each window evicted: a window opened with an old time, or locked long after it
\* was looked up, never makes room twice.  Senders are told apart by what proxies saw, so nobody gains a
\* window by what it writes into a forwarding header.
RateBounded ==
    \A k \in Senders :
        Limit(k).requests * Limit(k).window_secs > 0 =>
            granted[k] <= Limit(k).requests * (now \div Limit(k).window_secs + 1) * (evictions + 1)
================================

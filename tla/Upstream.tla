---------------- MODULE Upstream ----------------
(* Requests of one cached index to its upstream sources: the permit of
   UpstreamLimits, the ordered route with pins, protected projects and
   fallback, the retries of the client, the health of each source; and the
   ranged reads of an artifact from a mirror and its origin.

   Sources: route.rs and client/ of peryx-upstream, simple_client.rs and
   cache/metadata.rs of peryx-ecosystem-pypi, rate_limit.rs of
   peryx-driver.  A response is its status class; a body arrives whole or
   breaks off. *)
EXTENDS Integers, FiniteSets, Sequences, FiniteSetsExt

CONSTANTS
    Fetchers,       \* requests for pages and lists
    Rangers,        \* ranged reads of one artifact
    Sources,        \* number of configured sources, the first is the primary
    MaxRetries,     \* MAX_RETRIES
    MaxConcurrent,  \* permits of the index, 0 for no limit
    RangedReads     \* requests of one ranged read: head, tail, directory, local header, data

Positions == 1..Sources
RoutedProjects == {"pinned", "protected", "open", ""}
List == ""
NoSource == 0

ASSUME UpstreamAssumption ==
    /\ {Sources, MaxRetries, MaxConcurrent, RangedReads} \subseteq Nat /\ Sources > 1 /\ RangedReads > 0
    /\ Fetchers \cap Rangers = {}

VARIABLES
    route,     \* configuration: [pin, fallback, mirrorFallback]
    fetch,     \* per fetcher, see NoFetch
    health,    \* position -> health
    reach,     \* position -> reachability
    holders,   \* requests that hold a permit
    limited,   \* denied counter of the index
    support,   \* range support of "mirror" and "origin"
    ranger     \* per ranged read [pc, step, at]

upVars == <<route, fetch, health, reach, holders, limited, support, ranger>>

Kinds == {"fetch_project", "head_project", "fetch_index", "head_index"}
Body(kind) == kind \in {"fetch_project", "fetch_index"}

NoFetch == [pc |-> "idle", kind |-> "none", project |-> List, left |-> {}, asked |-> <<>>, attempt |-> 0,
            body |-> 0, sends |-> 0, status |-> "none", result |-> "none", source |-> NoSource]

UpInit ==
    /\ route \in [pin : Positions, fallback : BOOLEAN, mirrorFallback : BOOLEAN]
    /\ fetch = [f \in Fetchers |-> NoFetch]
    /\ health = [p \in Positions |-> "configured"]
    /\ reach = [p \in Positions |-> "unknown"]
    /\ holders = {} /\ limited = 0
    /\ support = [c \in {"mirror", "origin"} |-> "unknown"]
    /\ ranger = [r \in Rangers |-> [pc |-> "idle", step |-> 0, at |-> "mirror"]]

--------------------------------
(* Permits                                                                 *)

PermitFree == MaxConcurrent = 0 \/ Cardinality(holders) < MaxConcurrent

\* UpstreamLimits::acquire
Take(r) == PermitFree /\ holders' = IF MaxConcurrent = 0 THEN holders ELSE holders \cup {r}

Drop(r) == holders' = holders \ {r}

--------------------------------
(* The route                                                               *)

\* Mutant: the pin decides and fallback goes past a protected project's primary.
CandidatesUnprotected(project) ==
    {p \in Positions : IF project = "pinned" THEN p = route.pin ELSE route.fallback \/ p = 1}

\* candidates: a pin is strict; a protected project stays with the primary.  They are asked in the order of their
\* positions.
Candidates(project) ==
    {p \in Positions : IF project = "pinned" THEN p = route.pin
                       ELSE (route.fallback /\ project # "protected") \/ p = 1}

\* Status classes: "400" any other client error, "badtype" a 200 that is no Simple API document.
Statuses == {"200", "304", "404", "408", "429", "500", "400", "badtype", "transient", "fatal"}
\* should_retry_status, should_retry_error
Retried == {"408", "429", "500", "transient"}
\* fallback_result: 404, 429, 5xx and transport errors; not a wrong document, not another client error.
FallbackResult(status) == status \in {"404", "429", "500", "transient", "fatal"}
\* record_health
Usable(status) == status \in {"200", "304", "404"}

\* A caller asks for a project's page or the project list; it takes a permit first.
Begin(f, kind, project) ==
    /\ fetch[f].pc = "idle"
    /\ (project = List) <=> kind \in {"fetch_index", "head_index"}
    /\ fetch' = [fetch EXCEPT ![f] = [NoFetch EXCEPT !.pc = "permit", !.kind = kind, !.project = project]]
    /\ UNCHANGED <<route, health, reach, holders, limited, support, ranger>>

UpstreamPermit(f) ==
    /\ fetch[f].pc = "permit" /\ Take(f)
    /\ LET c == Candidates(fetch[f].project)
       IN fetch' = [fetch EXCEPT ![f].pc = "send", ![f].source = Min(c), ![f].left = c \ {Min(c)}, ![f].asked = <<Min(c)>>]
    /\ UNCHANGED <<route, health, reach, limited, support, ranger>>

\* No slot within UPSTREAM_WAIT_TIMEOUT.
PermitTimesOut(f) ==
    /\ fetch[f].pc = "permit" /\ ~PermitFree
    /\ fetch' = [fetch EXCEPT ![f].pc = "done", ![f].result = "limited"]
    /\ limited' = limited + 1
    /\ UNCHANGED <<route, health, reach, holders, support, ranger>>

\* Validators go to the source they came from only (head_index); the stored list came from the primary.
Conditional(f) == fetch[f].kind = "head_index" /\ fetch[f].source = 1

\* send_with_retry: one request and what it answers.
Send(f, status) ==
    /\ fetch[f].pc = "send"
    /\ status = "304" => Conditional(f)
    /\ LET p == fetch[f].source IN
        IF status \in Retried /\ fetch[f].attempt < MaxRetries
        THEN /\ fetch' = [fetch EXCEPT ![f].attempt = @ + 1, ![f].sends = @ + 1]
             /\ UNCHANGED reach
        ELSE /\ fetch' = [fetch EXCEPT ![f].pc = IF Body(fetch[f].kind) /\ status \notin {"transient", "fatal", "badtype"}
                                                 THEN "body" ELSE "settle",
                                       ![f].status = status, ![f].sends = @ + 1]
             /\ reach' = [reach EXCEPT ![p] = IF status \in {"transient", "fatal"} THEN "unreachable" ELSE "reachable"]
    /\ UNCHANGED <<route, health, holders, limited, support, ranger>>

\* fetch_simple: the body is read whatever the status; when it breaks off the request is sent again.
ReadBody(f, how) ==
    /\ fetch[f].pc = "body"
    /\ IF how = "whole" THEN fetch' = [fetch EXCEPT ![f].pc = "settle"]
       ELSE IF how = "transient" /\ fetch[f].body < MaxRetries
       THEN fetch' = [fetch EXCEPT ![f].pc = "send", ![f].body = @ + 1, ![f].attempt = 0]
       ELSE fetch' = [fetch EXCEPT ![f].pc = "settle", ![f].status = how]
    /\ UNCHANGED <<route, health, reach, holders, limited, support, ranger>>

\* record_health, then the next candidate or the answer with its source.
Settle(f) ==
    /\ fetch[f].pc = "settle"
    /\ LET p == fetch[f].source
           s == fetch[f].status
       IN /\ health' = [health EXCEPT ![p] = IF Usable(s) THEN "healthy" ELSE "unhealthy"]
          /\ IF FallbackResult(s) /\ fetch[f].left # {}
             THEN LET n == Min(fetch[f].left) IN
                  /\ fetch' = [fetch EXCEPT ![f].pc = "send", ![f].source = n, ![f].left = @ \ {n},
                                            ![f].asked = Append(@, n), ![f].attempt = 0, ![f].body = 0, ![f].sends = 0]
                  /\ UNCHANGED holders
             ELSE /\ fetch' = [fetch EXCEPT ![f].pc = "done", ![f].result = s]
                  /\ Drop(f)
    /\ UNCHANGED <<route, reach, limited, support, ranger>>

--------------------------------
(* Ranged reads: a head, the tail, the directory, the local header, data   *)

Disabled == [c \in {"mirror", "origin"} |-> "unsupported"]

\* may_support_ranges of the artifact client
MaySupportRanges ==
    \/ support["mirror"] # "unsupported"
    \/ route.mirrorFallback /\ support["origin"] # "unsupported"

\* generated_wheel_metadata_by_range: without ranges the whole file is downloaded.
RangeBegin(r) ==
    /\ ranger[r].pc = "idle"
    /\ ranger' = [ranger EXCEPT ![r].pc = IF MaySupportRanges THEN "permit" ELSE "download"]
    /\ UNCHANGED <<route, fetch, health, reach, holders, limited, support>>

RangePermit(r) ==
    /\ ranger[r].pc = "permit" /\ Take(r)
    /\ ranger' = [ranger EXCEPT ![r].pc = "read"]
    /\ UNCHANGED <<route, fetch, health, reach, limited, support>>

RangePermitTimesOut(r) ==
    /\ ranger[r].pc = "permit" /\ ~PermitFree
    /\ ranger' = [ranger EXCEPT ![r].pc = "failed"]
    /\ limited' = limited + 1
    /\ UNCHANGED <<route, fetch, health, reach, holders, support>>

\* head_file_for_range and fetch_range of one client: "ok", an answer that rules ranges out, or an error.
\* The answer sets the client's flag, whatever another read has found meanwhile.
RequestAnswered(c, answer) ==
    support' = CASE answer = "ok" -> [support EXCEPT ![c] = "supported"]
                 [] answer = "unsupported" -> [support EXCEPT ![c] = "unsupported"]
                 [] OTHER -> support

\* ArtifactClient: each read starts at the mirror, and goes to the origin when the mirror fails and fallback
\* is on.  The last successful read is the end; a failure either turns ranges off for both or is reported.
RangeRead(r, answer) ==
    /\ ranger[r].pc = "read"
    /\ LET c == ranger[r].at IN
       CASE answer = "ok" ->
              /\ RequestAnswered(c, answer)
              /\ IF ranger[r].step + 1 = RangedReads
                 THEN ranger' = [ranger EXCEPT ![r].pc = "found", ![r].step = RangedReads] /\ Drop(r)
                 ELSE ranger' = [ranger EXCEPT ![r].step = @ + 1, ![r].at = "mirror"] /\ UNCHANGED holders
         [] answer # "ok" /\ c = "mirror" /\ route.mirrorFallback ->
              /\ RequestAnswered(c, answer)
              /\ ranger' = [ranger EXCEPT ![r].at = "origin"] /\ UNCHANGED holders
         [] answer = "unsupported" /\ ~(c = "mirror" /\ route.mirrorFallback) ->
              /\ support' = Disabled
              /\ ranger' = [ranger EXCEPT ![r].pc = "download"] /\ Drop(r)
         [] answer = "error" /\ ~(c = "mirror" /\ route.mirrorFallback) ->
              /\ UNCHANGED support
              /\ ranger' = [ranger EXCEPT ![r].pc = "failed"] /\ Drop(r)
    /\ UNCHANGED <<route, fetch, health, reach, limited>>

--------------------------------

FetchStep(f) ==
    \/ UpstreamPermit(f) \/ PermitTimesOut(f)
    \/ \E s \in Statuses : Send(f, s)
    \/ \E how \in {"whole", "transient", "fatal"} : ReadBody(f, how)
    \/ Settle(f)

RangeStep(r) ==
    \/ RangePermit(r) \/ RangePermitTimesOut(r)
    \/ \E a \in {"ok", "unsupported", "error"} : RangeRead(r, a)

UpNext ==
    \/ \E f \in Fetchers : (\E k \in Kinds, p \in RoutedProjects : Begin(f, k, p)) \/ FetchStep(f)
    \/ \E r \in Rangers : RangeBegin(r) \/ RangeStep(r)

UpSpec == UpInit /\ [][UpNext]_upVars

--------------------------------
(* Properties                                                              *)

Ended(f) == fetch[f].pc = "done" /\ fetch[f].result # "limited"

\* A project is only ever asked of sources its configuration allows, in their order and once: a pinned one of its pin, a protected
\* one of the primary, any of the primary alone when fallback is off.  What a caller is told is the answer
\* of the source it is attributed to, and "not found" or "unavailable" is told only when no allowed source
\* is left to ask; "not modified" only ever by the source whose validators were sent.
RoutesHold ==
    \A f \in Fetchers :
        LET asked == {fetch[f].asked[i] : i \in DOMAIN fetch[f].asked} IN
        /\ \A i, j \in DOMAIN fetch[f].asked : i < j => fetch[f].asked[i] < fetch[f].asked[j]
        /\ fetch[f].project = "pinned" => asked \subseteq {route.pin}
        /\ fetch[f].project = "protected" \/ (~route.fallback /\ fetch[f].project # "pinned") => asked \subseteq {1}
        /\ Ended(f) => /\ fetch[f].source = fetch[f].asked[Len(fetch[f].asked)]
                       /\ fetch[f].result = "304" => fetch[f].source = 1
                       /\ FallbackResult(fetch[f].result) =>
                            asked = IF fetch[f].project = "pinned" THEN {route.pin}
                                      ELSE IF fetch[f].project = "protected" \/ ~route.fallback THEN {1}
                                      ELSE Positions

\* Retries of retries stay bounded: a source is sent at most (MAX_RETRIES + 1) squared requests for one
\* page, and permits are exactly those of the requests in progress, never more than configured.
RequestsBounded ==
    /\ \A f \in Fetchers : fetch[f].sends <= (MaxRetries + 1) * (MaxRetries + 1)
    /\ MaxConcurrent > 0 =>
        /\ Cardinality(holders) <= MaxConcurrent
        /\ holders = {f \in Fetchers : fetch[f].pc \in {"send", "body", "settle"}}
                       \cup {r \in Rangers : ranger[r].pc = "read"}

\* Not met by the code.  "Stop trying byte range reads for this index during this process": a read that
\* began before stores its own success over it.
RangesStayDisabled ==
    [][\A c \in {"mirror", "origin"} : support[c] = "unsupported" => support'[c] = "unsupported"]_upVars

\* Not met by the code.  A project is reported missing only when no source failed: the primary may be down
\* and the fallback not have it.
MissingIsMissing ==
    \A f \in Fetchers : Ended(f) /\ fetch[f].result = "404" =>
        \A i \in DOMAIN fetch[f].asked : health[fetch[f].asked[i]] # "unhealthy"

\* A project goes only where its route allows, in order, and no request is repeated past its bound.
UpstreamIsBounded == RoutesHold /\ RequestsBounded

================================

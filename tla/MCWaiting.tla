---------------- MODULE MCWaiting ----------------
(* Two ways in which requests of a node wait for one another: the sync of
   a project catalog and the single flight of a key.  They share no state;
   a behaviour runs one of them.  A caller of a flight refers to one gate
   and the map to one more, so one gate more than callers is every case. *)
EXTENDS Generations, SingleFlight, TLC

CONSTANTS a, b, c, v1, v2

VARIABLE part

waitingVars == <<part, genVars, vars>>

MCDocument == (v1 :> {a, b}) @@ (v2 :> {b, c})

WaitingInit ==
    /\ part \in {"generations", "flight"}
    /\ GenInit /\ Init
    /\ part = "generations" \/ remote = v1

WaitingNext ==
    /\ UNCHANGED part
    /\ \/ part = "generations" /\ GenNext /\ UNCHANGED vars
       \/ part = "flight" /\ Next /\ UNCHANGED genVars

\* The runtime keeps polling the holder of the lock, every request ends in a response or an error, and
\* tokio's mutex is first come, first served.
GenerationsFairness ==
    \A p \in Syncers : WF_genVars(part = "generations" /\ Proceed(p)) /\ SF_genVars(part = "generations" /\ Acquire(p))

\* Every future is polled, every fetch ends, and the mutex is first-in first-out.
FlightFairness ==
    \A f \in Callers : WF_vars(part = "flight" /\ Step(f)) /\ SF_vars(part = "flight" /\ Lock(f))

WaitingSpec ==
    /\ WaitingInit /\ [][WaitingNext]_waitingVars
    /\ GenerationsFairness /\ FlightFairness

\* Nobody waits for ever for somebody else's fetch: a catalog sync that found the lock of its index taken
\* (catalog.rs) and a request behind a gate (serving.rs) are answered, however the one ahead of them ends.
NobodyWaitsForever == WaitersAnswered /\ WaitersServed
================================

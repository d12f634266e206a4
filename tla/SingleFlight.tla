---------------- MODULE SingleFlight ----------------
(* The single-flight gates of peryx-index (serving.rs), for one key.

   A map holds, per key, a gate: a mutex and a count of its users.  A
   caller registers under the map's shard lock, waits for the mutex, looks
   into the cache again, fetches, and drops its guard.  The drop is three
   steps that others may come between: the mutex is released, the count
   goes down, and whoever brought it to zero removes the gate from the map
   if it is still there and still unused.  Some callers retire the gate
   already before they drop the guard (forget_flight).

   The map can therefore lose a gate that somebody still holds, and two
   gates of one key can be in use at once: what must never happen is that
   two callers fetch at once. *)
EXTENDS Integers, FiniteSets

CONSTANTS
    Readers,        \* callers that wait for the gate on a cache miss
    Revalidators,   \* callers that only try it, to refresh a stale page
    Gates           \* the gates that can exist at once

Callers == Readers \cup Revalidators
NoGate == "no gate"
NoCaller == "no caller"

ASSUME SingleFlightAssumption ==
    /\ IsFiniteSet(Readers) /\ IsFiniteSet(Revalidators)
    /\ Readers \cap Revalidators = {}
    /\ NoGate \notin Gates /\ NoCaller \notin Readers \cup Revalidators

VARIABLES
    slot,    \* the gate the map holds for the key
    users,   \* the user count of every gate
    holder,  \* who holds the mutex of every gate
    ref,     \* the gate a caller is registered on, kept alive by its Arc
    pc,
    fresh    \* the cache holds what the key stands for

vars == <<slot, users, holder, ref, pc, fresh>>

Init ==
    /\ slot = NoGate
    /\ users = [g \in Gates |-> 0]
    /\ holder = [g \in Gates |-> NoCaller]
    /\ ref = [c \in Callers |-> NoGate]
    /\ pc = [c \in Callers |-> "idle"]
    /\ fresh = FALSE

Goto(c, label) == pc' = [pc EXCEPT ![c] = label]

\* A caller finds nothing it can serve, and goes for the gate.
Miss(c) ==
    /\ pc[c] = "idle" /\ ~fresh
    /\ Goto(c, "missed")
    /\ UNCHANGED <<slot, users, holder, ref, fresh>>

Registered(c) == IF c \in Readers THEN "waiting" ELSE "trying"

(* flight_gate: one more user of the gate in the map ...                   *)
Join(c) ==
    /\ pc[c] = "missed" /\ slot # NoGate
    /\ users' = [users EXCEPT ![slot] = @ + 1]
    /\ ref' = [ref EXCEPT ![c] = slot]
    /\ Goto(c, Registered(c))
    /\ UNCHANGED <<slot, holder, fresh>>

(* ... or a new gate, which is none that a caller still refers to.         *)
Create(c) ==
    /\ pc[c] = "missed" /\ slot = NoGate
    /\ \E g \in Gates :
         /\ \A d \in Callers : ref[d] # g
         /\ slot' = g
         /\ users' = [users EXCEPT ![g] = 1]
         /\ ref' = [ref EXCEPT ![c] = g]
    /\ Goto(c, Registered(c))
    /\ UNCHANGED <<holder, fresh>>

\* lock_owned.
Lock(c) ==
    /\ pc[c] = "waiting" /\ holder[ref[c]] = NoCaller
    /\ holder' = [holder EXCEPT ![ref[c]] = c]
    /\ Goto(c, "held")
    /\ UNCHANGED <<slot, users, ref, fresh>>

\* try_lock_owned: at once, or not at all.
TryLock(c) ==
    /\ pc[c] = "trying"
    /\ IF holder[ref[c]] = NoCaller
       THEN holder' = [holder EXCEPT ![ref[c]] = c] /\ Goto(c, "fetch")
       ELSE Goto(c, "leave") /\ UNCHANGED holder
    /\ UNCHANGED <<slot, users, ref, fresh>>

\* Mutant: the cache is not asked again under the gate.
RecheckNot(c) ==
    /\ pc[c] = "held"
    /\ Goto(c, "fetch")
    /\ UNCHANGED <<slot, users, holder, ref, fresh>>

\* Under the gate: whoever held it before has stored the page by now.
Recheck(c) ==
    /\ pc[c] = "held"
    /\ Goto(c, IF fresh THEN "unlock" ELSE "fetch")
    /\ UNCHANGED <<slot, users, holder, ref, fresh>>

(* The fetch ends, with the page stored or not.  Some callers then retire  *)
(* the gate (forget_flight), the others drop the guard (release_flight).   *)
Fetched(c) ==
    /\ pc[c] = "fetch"
    /\ fresh' \in {fresh, TRUE}
    /\ \E label \in {"forget", "unlock"} : Goto(c, label)
    /\ UNCHANGED <<slot, users, holder, ref>>

\* forget_flight: take the key's gate out of the map if it has one user.
ForgetFlight(c) ==
    /\ pc[c] = "forget"
    /\ slot' = IF slot # NoGate /\ users[slot] = 1 THEN NoGate ELSE slot
    /\ Goto(c, "unlock")
    /\ UNCHANGED <<users, holder, ref, fresh>>

\* The client goes away while its handler awaits: what it holds is dropped.
Cancel(c) ==
    /\ pc[c] \in {"waiting", "held", "fetch"}
    /\ Goto(c, IF pc[c] = "waiting" THEN "leave" ELSE "unlock")
    /\ UNCHANGED <<slot, users, holder, ref, fresh>>

\* The guard's first field: the mutex.
Unlock(c) ==
    /\ pc[c] = "unlock"
    /\ holder' = [holder EXCEPT ![ref[c]] = NoCaller]
    /\ Goto(c, "leave")
    /\ UNCHANGED <<slot, users, ref, fresh>>

\* Drop of the FlightGate: the last user goes on to remove the gate.
Leave(c) ==
    /\ pc[c] = "leave"
    /\ users' = [users EXCEPT ![ref[c]] = @ - 1]
    /\ IF users[ref[c]] = 1
       THEN Goto(c, "remove") /\ UNCHANGED ref
       ELSE Goto(c, "idle") /\ ref' = [ref EXCEPT ![c] = NoGate]
    /\ UNCHANGED <<slot, holder, fresh>>

\* Mutant: the count is not looked at again.
RemoveUnused(c) ==
    /\ pc[c] = "remove"
    /\ slot' = IF slot = ref[c] THEN NoGate ELSE slot
    /\ ref' = [ref EXCEPT ![c] = NoGate]
    /\ Goto(c, "idle")
    /\ UNCHANGED <<users, holder, fresh>>

\* Mutant: a gate without users stays in the map.
RemoveNot(c) ==
    /\ pc[c] = "remove"
    /\ ref' = [ref EXCEPT ![c] = NoGate]
    /\ Goto(c, "idle")
    /\ UNCHANGED <<slot, users, holder, fresh>>

\* remove_if: this gate, if it is the one in the map and nobody joined it since.
Remove(c) ==
    /\ pc[c] = "remove"
    /\ slot' = IF slot = ref[c] /\ users[slot] = 0 THEN NoGate ELSE slot
    /\ ref' = [ref EXCEPT ![c] = NoGate]
    /\ Goto(c, "idle")
    /\ UNCHANGED <<users, holder, fresh>>

\* The page passes its freshness window.
Expire ==
    /\ fresh
    /\ fresh' = FALSE
    /\ UNCHANGED <<slot, users, holder, ref, pc>>

\* What a caller does by itself once its request has come in.
Step(c) ==
    \/ Join(c) \/ Create(c) \/ TryLock(c) \/ Recheck(c) \/ Fetched(c)
    \/ ForgetFlight(c) \/ Unlock(c) \/ Leave(c) \/ Remove(c)

Next ==
    \/ Expire
    \/ \E c \in Callers : Miss(c) \/ Lock(c) \/ Step(c) \/ Cancel(c)

Spec == Init /\ [][Next]_vars

--------------------------------
(* Properties                                                              *)

Labels == {"idle", "missed", "waiting", "trying", "held", "fetch", "forget", "unlock", "leave", "remove"}
Holding == {"held", "fetch", "forget", "unlock"}
\* Between flight_gate and the decrement of the drop.
Counted == {"waiting", "trying", "leave"} \cup Holding
\* Counted callers whose gate nobody may have retired.
Attached == {"waiting", "trying", "held", "fetch", "forget"}

TypeOK ==
    /\ slot \in Gates \cup {NoGate}
    /\ users \in [Gates -> Nat]
    /\ holder \in [Gates -> Callers \cup {NoCaller}]
    /\ ref \in [Callers -> Gates \cup {NoGate}]
    /\ pc \in [Callers -> Labels]
    /\ fresh \in BOOLEAN

(* "Concurrent misses share the download": two callers never fetch at the  *)
(* same time, whatever gates they got.                                     *)
OneFetch == \A c, d \in Callers : pc[c] = "fetch" /\ pc[d] = "fetch" => c = d

(* The count of a gate is exactly its registered callers, so neither       *)
(* forget_flight nor the drop retires a gate that somebody waits on.       *)
Users(g) == {c \in Callers : ref[c] = g /\ pc[c] \in Counted}
UsersExact == \A g \in Gates : users[g] = Cardinality(Users(g))

(* Gates do not accumulate: a gate stays in the map only while it has a    *)
(* caller that will take it out.                                           *)
NoGateLeaks == slot # NoGate => \E c \in Callers : ref[c] = slot

(* A caller that waited finds the result: it starts a fetch only when the  *)
(* cache has nothing and nobody else is fetching.                          *)
FetchesAreDue ==
    [][\A c \in Readers : pc[c] # "fetch" /\ pc'[c] = "fetch"
         => ~fresh /\ \A d \in Callers : pc[d] # "fetch"]_vars

(* Nobody waits for ever, however its predecessors end.                    *)
WaitersServed == \A c \in Callers : pc[c] = "waiting" ~> pc[c] # "waiting"
================================

---------------------------- MODULE CrawlSession ----------------------------
(***************************************************************************)
(* What a crawl promises its caller, without connections, observation or   *)
(* timers: the addresses it discovers are visited, each once and at most   *)
(* Slots at a time, and the promise is resolved only when every discovered *)
(* address has been visited. A crawl may be rejected at any moment.        *)
(***************************************************************************)
EXTENDS Naturals, FiniteSets

CONSTANTS Addr, Slots

VARIABLES
    waiting,    \* discovered, not visited yet
    visiting,   \* being visited
    visited,    \* visit ended
    result      \* "none" before the crawl, "pending" during it

vars == <<waiting, visiting, visited, result>>

Init ==
    /\ waiting = {} /\ visiting = {} /\ visited = {}
    /\ result = "none"

Start ==
    /\ result = "none"
    /\ result' = "pending"
    /\ UNCHANGED <<waiting, visiting, visited>>

Discover(P) ==
    /\ result # "none"
    /\ P \cap (waiting \cup visiting \cup visited) = {}
    /\ waiting' = waiting \cup P
    /\ UNCHANGED <<visiting, visited, result>>

\* The visits of E end and those of S start.
Visit(E, S) ==
    /\ Cardinality((visiting \ E) \cup S) <= Slots
    /\ waiting' = waiting \ S
    /\ visiting' = (visiting \ E) \cup S
    /\ visited' = visited \cup E
    /\ UNCHANGED result

Resolve ==
    /\ result = "pending"
    /\ waiting = {} /\ visiting = {}
    /\ result' = "resolved"
    /\ UNCHANGED <<waiting, visiting, visited>>

Reject ==
    /\ result = "pending"
    /\ result' = "rejected"
    /\ UNCHANGED <<waiting, visiting, visited>>

Next ==
    \/ Start
    \/ \E P \in SUBSET Addr : Discover(P)
    \/ \E E \in SUBSET visiting, S \in SUBSET waiting : Visit(E, S)
    \/ Resolve
    \/ Reject

Spec == Init /\ [][Next]_vars
=============================================================================

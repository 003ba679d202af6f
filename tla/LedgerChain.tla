---------------------------- MODULE LedgerChain ----------------------------
(***************************************************************************)
(* What an observation promises about closed ledgers, without messages,    *)
(* caches or clocks: nodes vote for the value of a slot, and a slot closes *)
(* with the vote that completes a slice of the trusted quorum set, no      *)
(* sooner and no later. Votes for slots up to the last closed one do not   *)
(* count any more, so that ledgers close in order, each once.              *)
(***************************************************************************)
EXTENDS Integers

CONSTANTS Node, Slot, Value, None, Slices, First

VARIABLES
    votes,    \* counted votes: node, slot and value
    ledger,   \* value each slot closed with, or None
    last      \* the latest ledger, First before one closed

vars == <<votes, ledger, last>>

Init ==
    /\ votes = {}
    /\ ledger = [s \in Slot |-> None]
    /\ last = First

\* The votes vs complete a slice for value v of slot s.
Decided(vs, s, v) == \E q \in Slices : \A n \in q : <<n, s, v>> \in vs

Vote(n, s, v) ==
    /\ s > last
    /\ votes' = votes \cup {<<n, s, v>>}
    /\ IF Decided(votes', s, v)
       THEN ledger' = [ledger EXCEPT ![s] = v] /\ last' = s
       ELSE UNCHANGED <<ledger, last>>

Next == \E n \in Node, s \in Slot, v \in Value : Vote(n, s, v)

Spec == Init /\ [][Next]_vars
=============================================================================

------------------------------- MODULE Slots -------------------------------
(***************************************************************************)
(* slots.ts and slot.ts: which nodes externalized which value for a slot,  *)
(* and the value a slice of the trusted quorum set closed it with.         *)
(*                                                                         *)
(* The trusted quorum set and containsSlice of js-stellarbeat-shared are   *)
(* given by the sets of validators that satisfy it.                        *)
(***************************************************************************)
EXTENDS PeerNodes

CONSTANTS
    Validators,   \* getAllValidators(trustedQuorumSet)
    Slices        \* the sets of validators that satisfy it

ASSUME SlicesAssumption ==
    /\ Validators \subseteq PublicKey
    /\ Slices \subseteq SUBSET Validators /\ {} \notin Slices

VARIABLES
    values,      \* valuesMap of each slot
    firstSeen,   \* localCloseTimeMap of each slot
    closed       \* value of confirmedClosedLedger, None if not confirmed

slotVars == <<values, firstSeen, closed>>

SlotTypeOK ==
    /\ values \in [Slot -> [Value -> SUBSET PublicKey]]
    /\ firstSeen \in [Slot -> [Value -> Time \cup {None}]]
    /\ closed \in [Slot -> Value \cup {None}]

SlotInit ==
    /\ values = [s \in Slot |-> [v \in Value |-> {}]]
    /\ firstSeen = [s \in Slot |-> [v \in Value |-> None]]
    /\ closed = [s \in Slot |-> None]

-----------------------------------------------------------------------------

\* containsSlice(trustedQuorumSet, N)
ContainsSlice(N) == \E q \in Slices : q \subseteq N

\* Variant of ClosesSlot that counts the nodes of every value together.
ClosesSlotTogether(p, s, v) ==
    /\ closed[s] = None
    /\ p \in Validators
    /\ ContainsSlice({p} \cup UNION {values[s][w] : w \in Value})

\* Variant of ClosesSlot that looks for a slice before it adds the node.
ClosesSlotBefore(p, s, v) ==
    /\ closed[s] = None
    /\ p \in Validators \ values[s][v]
    /\ ContainsSlice(values[s][v])

\* The externalize statement of p for v is the one that closes slot s.
ClosesSlot(p, s, v) ==
    /\ closed[s] = None
    /\ p \in Validators \ values[s][v]
    /\ ContainsSlice(values[s][v] \cup {p})

\* Variant of SeenAt that keeps the time of the last node.
SeenLast(s, v, t) == t

\* localCloseTimeMap keeps the time of the first node
SeenAt(s, v, t) == IF firstSeen[s][v] = None THEN t ELSE firstSeen[s][v]

\* addExternalizeValue
AddExternalizeValue(p, s, v, t) ==
    /\ values' = [values EXCEPT ![s][v] = @ \cup {p}]
    /\ firstSeen' = [firstSeen EXCEPT ![s][v] = SeenAt(s, v, t)]
    /\ closed' = [closed EXCEPT ![s] = IF ClosesSlot(p, s, v) THEN v ELSE @]

\* getNodesAgreeingOnExternalizedValue, of the values vals of a slot
Agreeing(vals, v) == vals[v]

\* getNodesDisagreeingOnExternalizedValue
Disagreeing(vals, v) == UNION {vals[w] : w \in Value \ {v}}
=============================================================================

----------------------------- MODULE PeerNodes -----------------------------
(***************************************************************************)
(* peer-node.ts and peer-node-collection.ts: what one observation knows of *)
(* the nodes, by public key, whether it connected to them or only heard of *)
(* them through others.                                                    *)
(*                                                                         *)
(* The addresses of the nodes it connected to are those of joined.         *)
(*                                                                         *)
(* None stands for undefined: no value, no time, no lag, no slot.          *)
(***************************************************************************)
EXTENDS ObservationLife

CONSTANTS
    None,
    Value,      \* values nodes externalize
    LastSlot,   \* bound: the slots are 1 .. LastSlot
    MaxTime     \* bound of the clock

ASSUME PeerNodesAssumption ==
    /\ None \notin Value \cup Int
    /\ LastSlot \in Nat /\ MaxTime \in Nat

Slot == 1 .. LastSlot

Time == 0 .. MaxTime

VARIABLES
    participating,  \* nodes with participatingInSCP
    activeSlot,     \* latestActiveSlotIndex of each node
    supplied,       \* nodes with suppliedPeerList
    overloaded,     \* nodes with overLoaded
    externalized,   \* externalizedValues: value and local time, by node and slot
    validating,     \* nodes with isValidating
    incorrect,      \* nodes with isValidatingIncorrectValues
    lag             \* lagMSMeasurement, by node and slot

\* What the statements of a node say of it, what a closed ledger does, and
\* what its other messages say.
statementVars == <<participating, activeSlot>>
verdictVars == <<validating, incorrect, lag>>
flagVars == <<supplied, overloaded>>

peerVars == <<statementVars, externalized, verdictVars, flagVars>>

Statements == PublicKey \X Slot

Externalization ==
    [value : Value \cup {None}, time : Time \cup {None}]

PeerTypeOK ==
    /\ participating \subseteq PublicKey
    /\ activeSlot \in [PublicKey -> Slot \cup {None}]
    /\ supplied \subseteq PublicKey
    /\ overloaded \subseteq PublicKey
    /\ externalized \in [Statements -> Externalization]
    /\ validating \subseteq PublicKey
    /\ incorrect \subseteq PublicKey
    /\ lag \in [Statements -> (-MaxTime .. MaxTime) \cup {None}]

PeerInit ==
    /\ participating = {}
    /\ activeSlot = [p \in PublicKey |-> None]
    /\ supplied = {}
    /\ overloaded = {}
    /\ externalized = [q \in Statements |-> [value |-> None, time |-> None]]
    /\ validating = {}
    /\ incorrect = {}
    /\ lag = [q \in Statements |-> None]

-----------------------------------------------------------------------------

\* Variant of Participates that takes the sender for the author.
SenderParticipates(sender, p, s) ==
    /\ participating' = participating \cup {sender}
    /\ activeSlot' = [activeSlot EXCEPT ![sender] = s]

\* A statement of p about slot s was received from the node sender, which may
\* have relayed it.
Participates(sender, p, s) ==
    /\ participating' = participating \cup {p}
    /\ activeSlot' = [activeSlot EXCEPT ![p] = s]

\* setPeerSuppliedPeerList
SuppliedPeerList(p) ==
    /\ supplied' = supplied \cup {p}
    /\ UNCHANGED overloaded

\* setPeerOverloaded
Overloaded(p) ==
    /\ overloaded' = overloaded \cup {p}
    /\ UNCHANGED supplied

\* addExternalizedValue: the last one a node sent replaces the others
WithExternalizedValue(p, s, v, t) ==
    [externalized EXCEPT ![<<p, s>>] = [value |-> v, time |-> t]]

\* updateLag, of the nodes of N: the time between the first externalize message
\* for the value, at t, and theirs
Measured(ext, s, t, N) ==
    lag' = [q \in Statements |-> IF q[1] \in N /\ q[2] = s
                                THEN ext[q].time - t ELSE lag[q]]

\* Variant of Judged that takes every value for the one the ledger closed with.
JudgedRight(ext, s, v, t, N, D) ==
    LET Right == {p \in N : ext[<<p, s>>].value # None} IN
    /\ validating' = validating \cup Right
    /\ incorrect' = incorrect \cup D
    /\ Measured(ext, s, t, Right)

\* processConfirmedLedgerClose of the nodes of N, for the ledger that closed
\* slot s with value v, first seen at t; the nodes of D are found to disagree
Judged(ext, s, v, t, N, D) ==
    LET Right == {p \in N : ext[<<p, s>>].value = v}
        Wrong == {p \in N : ext[<<p, s>>].value \notin {v, None}} IN
    /\ validating' = validating \cup Right
    /\ incorrect' = incorrect \cup Wrong \cup D
    /\ Measured(ext, s, t, Right)
=============================================================================

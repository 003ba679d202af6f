--------------------------- MODULE MessageProofs ---------------------------
(***************************************************************************)
(* Theorems about StellarMessages, for every set of nodes, envelopes and   *)
(* quorum slices, every cache size and every drift: the types, and what an *)
(* observation learns of ledgers from externalize statements.              *)
(***************************************************************************)
EXTENDS StellarMessages, SequenceTheorems, TLAPS

-----------------------------------------------------------------------------
(* What a step can change *)

EnvelopeStep(c, e) ==
    \/ EnvelopeTooOld(c, e) \/ EnvelopeRefused(c, e) \/ OtherStatement(c, e)
    \/ ExternalizeClosed(c, e) \/ ExternalizeOld(c, e)
    \/ ExternalizeOnly(c, e) \/ LedgerCloses(c, e)

\* A step that concerns no envelope; the clock may go on.
NoEnvelope ==
    /\ UNCHANGED <<statementVars, externalized, verdictVars, slotVars, cache,
                   latest>>
    /\ now' \in {now, now + 1} \cap Time /\ aged' \in BOOLEAN

\* Only an envelope changes what is known of slots and their nodes.
LEMMA StepKinds ==
    ASSUME MessageTypeOK, [Next]_vars
    PROVE  NoEnvelope \/ \E c \in Conn, e \in Envelope : EnvelopeStep(c, e)
<1>1. now \in Time /\ now \in {now, now + 1} \cap Time /\ aged \in BOOLEAN
  BY DEF MessageTypeOK
<1> USE <1>1 DEF NoEnvelope, EnvelopeStep, messageVars, ledgerVars, peerVars,
        slotVars
<1>2. CASE Tick
  BY <1>2, PeerNodesAssumption DEF Tick, Time
<1>3. CASE LedgerAges
  BY <1>3 DEF LedgerAges
<1>4. CASE ObservationMoves
  BY <1>4 DEF ObservationMoves
<1>5. ASSUME NEW c \in Conn, Connect(c) \/ Close(c)
      PROVE  NoEnvelope
  BY <1>5 DEF Connect, Close
<1>6. ASSUME NEW D, Disconnect(D)
      PROVE  NoEnvelope
  BY <1>6 DEF Disconnect
<1>7. ASSUME NEW c, PeersReceived(c) \/ LoadTooHigh(c) \/ QuorumSetRefused(c)
      PROVE  NoEnvelope
  BY <1>7 DEF PeersReceived, LoadTooHigh, QuorumSetRefused
<1>8. ASSUME NEW c, NEW h, QuorumSetReceived(c, h) \/ DontHave(c, h)
      PROVE  NoEnvelope
  BY <1>8 DEF QuorumSetReceived, DontHave
<1>9. ASSUME NEW to, NEW h, RequestTimeout(to, h)
      PROVE  NoEnvelope
  BY <1>9 DEF RequestTimeout
<1>10. CASE UNCHANGED vars
  BY <1>10 DEF vars
<1> QED
  BY <1>2, <1>3, <1>4, <1>5, <1>6, <1>7, <1>8, <1>9, <1>10 DEF Next

\* What all handled envelopes have in common.
LEMMA EnvelopeParts ==
    ASSUME NEW e \in Envelope
    PROVE  /\ e.id \in Nat /\ e.node \in PublicKey /\ e.slot \in Slot
           /\ e.value \in Value \cup {None} /\ e.hash \in Hash
           /\ e.signed \in BOOLEAN
           /\ <<e.node, e.slot>> \in Statements
BY EnvelopeAssumption DEF EnvelopeType, Statements

\* None is no time, no value and no lag.
LEMMA NoneIsApart ==
    /\ None \notin Time /\ None \notin Value /\ None \notin Slot
    /\ Time \subseteq Int /\ Slot \subseteq Int
BY PeerNodesAssumption DEF Time, Slot

-----------------------------------------------------------------------------
(* The observation and its connections *)

LEMMA ConnType ==
    ASSUME NEW con \in [Conn -> ConnState], NEW C
    PROVE  Destroyed(con, C) \in [Conn -> ConnState]
BY DEF Destroyed, ConnState

LEMMA LifeTypeStep ==
    ASSUME LifeTypeOK, LifeNext
    PROVE  LifeTypeOK'
<1> USE DEF LifeTypeOK, ConnTypeOK
<1>1. ASSUME NEW c \in Conn, Arrives(c)
      PROVE  LifeTypeOK'
  <2>1. c[1] \in Call /\ c[2] \in Addr
    BY DEF Conn
  <2>2. active' \in [Addr -> 0 .. MaxCalls]
    BY <1>1, <2>1, ConnectionAssumption DEF Arrives, Entered, Call
  <2>3. Opened(conn, c) \in [Conn -> ConnState]
    BY DEF Opened, ConnState
  <2>4. conn' \in [Conn -> ConnState] /\ joined' \subseteq Addr
    BY <1>1, <2>1, <2>3, ConnType DEF Arrives
  <2> QED
    BY <1>1, <2>2, <2>4 DEF Arrives
<1>2. ASSUME NEW c \in Conn, Leaves(c)
      PROVE  LifeTypeOK'
  <2>1. active' \in [Addr -> 0 .. MaxCalls]
    <3>1. 0 \in 0 .. MaxCalls
      BY ConnectionAssumption
    <3> QED
      BY <1>2, <3>1 DEF Leaves, Removed
  <2>2. conn' \in [Conn -> ConnState]
    BY <1>2 DEF Leaves, Closed, ConnState
  <2> QED
    BY <1>2, <2>1, <2>2 DEF Leaves, Phase
<1>3. ASSUME NEW D, AreDisconnected(D)
      PROVE  LifeTypeOK'
  BY <1>3, ConnType DEF AreDisconnected
<1>4. CASE PhaseMoves
  BY <1>4 DEF PhaseMoves, Later, Phase, connVars
<1> QED
  BY <1>1, <1>2, <1>3, <1>4 DEF LifeNext

\* A connection that message handlers see is not in progress.
NoAttempt == \A c \in Conn : conn[c] # "connecting"

\* Refusing the message of a sender does to its connection what a disconnect
\* does, or nothing.
LEMMA RefusedLife ==
    ASSUME LifeTypeOK, NoAttempt, NEW a,
           conn' = DisconnectByAddress(conn, active, {a}),
           UNCHANGED <<active, phase, joined>>
    PROVE  [LifeNext]_lifeVars
<1> DEFINE D == {c \in Conn : c \in TrackedConns(active, {a}) /\ conn[c] = "open"}
<1>1. conn' = Destroyed(conn, D)
  BY DEF DisconnectByAddress, Destroyed, NoAttempt
<1>2. CASE D = {}
  <2>1. conn' = conn
    BY <1>1, <1>2 DEF Destroyed, LifeTypeOK, ConnTypeOK
  <2> QED
    BY <2>1 DEF lifeVars, connVars
<1>3. CASE D # {}
  <2>1. D \in SUBSET {c \in Conn : conn[c] = "open"} /\ AreDisconnected(D)
    BY <1>1, <1>3 DEF AreDisconnected
  <2> QED
    BY <2>1 DEF LifeNext
<1> QED
  BY <1>2, <1>3

\* Whatever arrives, the observation and its connections live on as
\* ObservationLife describes.
LEMMA LifeStep ==
    ASSUME LifeTypeOK, NoAttempt, [Next]_vars
    PROVE  [LifeNext]_lifeVars
<1> USE DEF lifeVars, connVars
<1>1. CASE Tick \/ LedgerAges
  BY <1>1 DEF Tick, LedgerAges
<1>2. CASE ObservationMoves
  BY <1>2 DEF ObservationMoves, LifeNext
<1>3. ASSUME NEW c \in Conn, Connect(c) \/ Close(c)
      PROVE  LifeNext
  BY <1>3 DEF Connect, Close, LifeNext
<1>4. ASSUME NEW D \in SUBSET Conn, Disconnect(D)
      PROVE  LifeNext
  <2>1. D \in SUBSET {c \in Conn : conn[c] = "open"} /\ AreDisconnected(D)
    BY <1>4 DEF Disconnect, AreDisconnected
  <2> QED
    BY <2>1 DEF LifeNext
<1>5. ASSUME NEW c, QuorumSetRefused(c)
      PROVE  [LifeNext]_lifeVars
  BY <1>5, RefusedLife DEF QuorumSetRefused
<1>6. ASSUME NEW c, NEW e, EnvelopeRefused(c, e)
      PROVE  [LifeNext]_lifeVars
  BY <1>6, RefusedLife DEF EnvelopeRefused, Received
<1>7. ASSUME NEW c, PeersReceived(c) \/ LoadTooHigh(c)
      PROVE  UNCHANGED lifeVars
  BY <1>7 DEF PeersReceived, LoadTooHigh
<1>8. ASSUME NEW c, NEW h, QuorumSetReceived(c, h) \/ DontHave(c, h)
      PROVE  UNCHANGED lifeVars
  BY <1>8 DEF QuorumSetReceived, DontHave
<1>9. ASSUME NEW to, NEW h, RequestTimeout(to, h)
      PROVE  UNCHANGED lifeVars
  BY <1>9 DEF RequestTimeout
<1>10. ASSUME NEW c, NEW e,
              \/ EnvelopeTooOld(c, e) \/ OtherStatement(c, e)
              \/ ExternalizeClosed(c, e) \/ ExternalizeOld(c, e)
              \/ ExternalizeOnly(c, e) \/ LedgerCloses(c, e)
       PROVE  UNCHANGED lifeVars
  BY <1>10 DEF EnvelopeTooOld, OtherStatement, ExternalizeClosed, ExternalizeOld,
     ExternalizeOnly, LedgerCloses, ExternalizeCounted, Externalize, Statement,
     Received
<1>11. CASE UNCHANGED vars
  BY <1>11 DEF vars
<1> QED
  BY <1>1, <1>2, <1>3, <1>4, <1>5, <1>6, <1>7, <1>8, <1>9, <1>10, <1>11 DEF Next

LEMMA NoAttemptStep ==
    ASSUME LifeTypeOK, NoAttempt, [LifeNext]_lifeVars
    PROVE  NoAttempt'
<1> USE DEF NoAttempt, LifeTypeOK, ConnTypeOK
<1>1. ASSUME NEW con \in [Conn -> ConnState], NEW C,
             \A c \in Conn : con[c] # "connecting"
      PROVE  \A c \in Conn : Destroyed(con, C)[c] # "connecting"
  BY <1>1 DEF Destroyed
<1>2. ASSUME NEW c \in Conn
      PROVE  /\ Opened(conn, c) \in [Conn -> ConnState]
             /\ \A i \in Conn : Opened(conn, c)[i] # "connecting"
  BY DEF Opened, ConnState
<1>3. ASSUME NEW c \in Conn, Arrives(c)
      PROVE  NoAttempt'
  BY <1>1, <1>2, <1>3 DEF Arrives
<1>4. ASSUME NEW c \in Conn, Leaves(c)
      PROVE  NoAttempt'
  BY <1>4 DEF Leaves, Closed
<1>5. ASSUME NEW D, AreDisconnected(D)
      PROVE  NoAttempt'
  BY <1>1, <1>5 DEF AreDisconnected
<1>6. CASE PhaseMoves \/ UNCHANGED lifeVars
  BY <1>6 DEF PhaseMoves, lifeVars, connVars
<1> QED
  BY <1>3, <1>4, <1>5, <1>6 DEF LifeNext

LEMMA LifeTypeKept ==
    LifeTypeOK /\ [LifeNext]_lifeVars => LifeTypeOK'
BY LifeTypeStep DEF LifeTypeOK, ConnTypeOK, lifeVars, connVars

LEMMA LifeInitOK == LifeInit => LifeTypeOK /\ NoAttempt
BY ConnectionAssumption
   DEF LifeInit, ConnInit, LifeTypeOK, ConnTypeOK, NoAttempt, ConnState, Phase

\* The message handlers of an observation do nothing to it and to its
\* connections that ObservationLife, which Crawler implements, does not allow:
\* they disconnect senders, nothing else (stellar-message-handler.ts).
THEOREM HandlersKeepToLife == Spec => LifeSpec
<1> DEFINE Inv == LifeTypeOK /\ NoAttempt
<1>1. Init => LifeInit
  BY DEF Init
<1>2. LifeInit => Inv
  BY LifeInitOK
<1>3. Inv /\ [Next]_vars => [LifeNext]_lifeVars
  BY LifeStep
<1>4. Inv /\ [LifeNext]_lifeVars => Inv'
  BY LifeTypeKept, NoAttemptStep
<1> QED
  BY <1>1, <1>2, <1>3, <1>4, PTL DEF Spec, LifeSpec

-----------------------------------------------------------------------------
(* Types *)

\* The message of a node that externalized a value has its time, and a value
\* that a slot counts votes for or closed with has the time it was first seen.
TimesKnown ==
    /\ \A q \in Statements :
          externalized[q].value # None => externalized[q].time # None
    /\ \A s \in Slot, v \in Value :
          values[s][v] # {} => firstSeen[s][v] # None
    /\ \A s \in Slot : closed[s] # None => firstSeen[s][closed[s]] # None

\* What the clock and the ledger are made of; the rest of the types of what an
\* observation knows.
KnowledgeOK ==
    /\ PeerTypeOK /\ SlotTypeOK /\ MessageTypeOK /\ TimesKnown

LEMMA CacheType ==
    ASSUME NEW e \in Envelope, cache \in Seq(Envelope), Len(cache) <= CacheMax
    PROVE  /\ Remember(e) \in Seq(Envelope) /\ Len(Remember(e)) <= CacheMax
           /\ \A i \in 1 .. Len(Remember(e)) :
                 \/ Remember(e)[i] = e
                 \/ \E j \in 1 .. Len(cache) : Remember(e)[i] = cache[j]
<1> USE EnvelopeAssumption
<1>1. CASE Len(cache) < CacheMax
  BY <1>1 DEF Remember
<1>2. CASE Len(cache) >= CacheMax
  <2>1. cache # <<>>
    BY <1>2
  <2>2. /\ Tail(cache) \in Seq(Envelope) /\ Len(Tail(cache)) = Len(cache) - 1
        /\ \A i \in 1 .. Len(Tail(cache)) : Tail(cache)[i] = cache[i + 1]
    BY <2>1, HeadTailProperties
  <2>3. Remember(e) = Append(Tail(cache), e)
    BY <1>2 DEF Remember
  <2>4. Len(Tail(cache)) \in Nat /\ Len(Tail(cache)) = Len(cache) - 1
    BY <2>2
  <2>5. /\ Remember(e) \in Seq(Envelope)
        /\ Len(Remember(e)) = Len(cache)
        /\ Remember(e)[Len(cache)] = e
        /\ \A i \in 1 .. Len(cache) - 1 : Remember(e)[i] = Tail(cache)[i]
    BY <2>2, <2>3, <2>4, AppendProperties
  <2>6. ASSUME NEW i \in 1 .. Len(cache), i # Len(cache)
        PROVE  Remember(e)[i] = cache[i + 1] /\ i + 1 \in 1 .. Len(cache)
    <3>1. Len(cache) \in Nat
      BY LenProperties
    <3>2. i \in 1 .. Len(cache) - 1 /\ i + 1 \in 1 .. Len(cache)
      BY <2>6, <3>1
    <3> QED
      BY <2>2, <2>4, <2>5, <3>2
  <2> QED
    BY <2>5, <2>6
<1> QED
  BY <1>1, <1>2

\* The externalized values after a new one of p for slot s.
LEMMA ExternalizedValue ==
    ASSUME NEW p \in PublicKey, NEW s \in Slot, NEW v \in Value, PeerTypeOK,
           now \in Time
    PROVE  LET ext == WithExternalizedValue(p, s, v, now) IN
           /\ ext \in [Statements -> Externalization]
           /\ ext[<<p, s>>] = [value |-> v, time |-> now]
           /\ \A q \in Statements : q # <<p, s>> => ext[q] = externalized[q]
BY DEF WithExternalizedValue, PeerTypeOK, Statements, Externalization

\* The slots after a vote of p for value v of slot s.
LEMMA VoteCounted ==
    ASSUME NEW p \in PublicKey, NEW s \in Slot, NEW v \in Value,
           NEW t \in Time, SlotTypeOK, AddExternalizeValue(p, s, v, t)
    PROVE  /\ SlotTypeOK'
           /\ values'[s][v] = values[s][v] \cup {p}
           /\ firstSeen'[s][v] = SeenAt(s, v, t)
           /\ \A r \in Slot, w \in Value : r # s \/ w # v =>
                 /\ values'[r][w] = values[r][w]
                 /\ firstSeen'[r][w] = firstSeen[r][w]
           /\ closed'[s] = IF ClosesSlot(p, s, v) THEN v ELSE closed[s]
           /\ \A r \in Slot : r # s => closed'[r] = closed[r]
<1> USE DEF SlotTypeOK, AddExternalizeValue
<1>1. SeenAt(s, v, t) \in Time
  BY DEF SeenAt
<1>2. values' = [values EXCEPT ![s] = [values[s] EXCEPT ![v] = values[s][v] \cup {p}]]
  OBVIOUS
<1>3. firstSeen' = [firstSeen EXCEPT ![s] = [firstSeen[s] EXCEPT ![v] = SeenAt(s, v, t)]]
  OBVIOUS
<1>4. values' \in [Slot -> [Value -> SUBSET PublicKey]]
  BY <1>2
<1>5. firstSeen' \in [Slot -> [Value -> Time \cup {None}]]
  BY <1>1, <1>3
<1>6. closed' \in [Slot -> Value \cup {None}]
  OBVIOUS
<1>7. values'[s][v] = values[s][v] \cup {p} /\ firstSeen'[s][v] = SeenAt(s, v, t)
  BY <1>2, <1>3
<1>8. ASSUME NEW r \in Slot, NEW w \in Value, r # s \/ w # v
      PROVE  values'[r][w] = values[r][w] /\ firstSeen'[r][w] = firstSeen[r][w]
  BY <1>2, <1>3, <1>8
<1> QED
  BY <1>4, <1>5, <1>6, <1>7, <1>8

\* The verdicts on the nodes of N about slot s, and the nodes of D.
Reported(ext, s, v, t, N, D) ==
    /\ validating' = validating \cup {p \in N : ext[<<p, s>>].value = v}
    /\ incorrect' = incorrect \cup D
                    \cup {p \in N : ext[<<p, s>>].value \notin {v, None}}
    /\ \A q \in Statements :
          lag'[q] = IF q[1] \in N /\ q[2] = s /\ ext[q].value = v
                    THEN ext[q].time - t ELSE lag[q]
    /\ validating' \subseteq PublicKey /\ incorrect' \subseteq PublicKey
    /\ lag' \in [Statements -> (-MaxTime .. MaxTime) \cup {None}]

LEMMA Verdicts ==
    ASSUME PeerTypeOK,
           NEW ext \in [Statements -> Externalization], NEW s \in Slot,
           NEW v \in Value, NEW t \in Time, NEW N \in SUBSET PublicKey,
           NEW D \in SUBSET PublicKey,
           \A q \in Statements : ext[q].value # None => ext[q].time # None,
           Judged(ext, s, v, t, N, D)
    PROVE  Reported(ext, s, v, t, N, D)
<1> DEFINE Right == {p \in N : ext[<<p, s>>].value = v}
<1>1. /\ validating' = validating \cup Right
      /\ incorrect' = incorrect \cup D
                      \cup {p \in N : ext[<<p, s>>].value \notin {v, None}}
      /\ lag' = [q \in Statements |-> IF q[1] \in Right /\ q[2] = s
                                      THEN ext[q].time - t ELSE lag[q]]
  BY DEF Judged, Measured
<1>2. ASSUME NEW q \in Statements
      PROVE  q[1] \in Right /\ q[2] = s <=>
                 q[1] \in N /\ q[2] = s /\ ext[q].value = v
  <2>1. q = <<q[1], q[2]>>
    BY DEF Statements
  <2> QED
    BY <2>1
<1>3. ASSUME NEW q \in Statements, ext[q].value = v
      PROVE  ext[q].time - t \in -MaxTime .. MaxTime
  <2>1. ext[q].time \in Time
    BY <1>3, NoneIsApart DEF Externalization
  <2> QED
    BY <2>1, PeerNodesAssumption DEF Time
<1>4. \A q \in Statements :
         lag'[q] = IF q[1] \in N /\ q[2] = s /\ ext[q].value = v
                   THEN ext[q].time - t ELSE lag[q]
  BY <1>1, <1>2
<1>5. lag' \in [Statements -> (-MaxTime .. MaxTime) \cup {None}]
  <2>1. \A q \in Statements : lag'[q] \in (-MaxTime .. MaxTime) \cup {None}
    BY <1>3, <1>4 DEF PeerTypeOK
  <2> QED
    BY <1>1, <2>1
<1> QED
  BY <1>1, <1>4, <1>5 DEF PeerTypeOK, Reported

\* What a statement leaves in the cache and in the participation of its node.
LEMMA StatementType ==
    ASSUME NEW c \in Conn, NEW e \in Envelope, KnowledgeOK,
           EnvelopeStep(c, e)
    PROVE  /\ cache' \in Seq(Envelope) /\ Len(cache') <= CacheMax
           /\ participating' \subseteq PublicKey
           /\ activeSlot' \in [PublicKey -> Slot \cup {None}]
           /\ UNCHANGED flagVars
<1>1. cache' = Remember(e) /\ UNCHANGED flagVars
  BY DEF EnvelopeStep, EnvelopeTooOld, EnvelopeRefused, OtherStatement,
     ExternalizeClosed, ExternalizeOld, ExternalizeOnly, LedgerCloses,
     ExternalizeCounted, Externalize, Statement, Received
<1>2. UNCHANGED statementVars \/ Participates(PublicKeyOf[c[2]], e.node, e.slot)
  BY DEF EnvelopeStep, EnvelopeTooOld, EnvelopeRefused, OtherStatement,
     ExternalizeClosed, ExternalizeOld, ExternalizeOnly, LedgerCloses,
     ExternalizeCounted, Externalize, Statement
<1>3. cache' \in Seq(Envelope) /\ Len(cache') <= CacheMax
  BY <1>1, CacheType DEF KnowledgeOK, MessageTypeOK
<1>4. /\ participating' \subseteq PublicKey
      /\ activeSlot' \in [PublicKey -> Slot \cup {None}]
  <2> USE DEF KnowledgeOK, PeerTypeOK
  <2>1. CASE UNCHANGED statementVars
    BY <2>1 DEF statementVars
  <2>2. CASE Participates(PublicKeyOf[c[2]], e.node, e.slot)
    <3>1. e.node \in PublicKey /\ e.slot \in Slot
      BY EnvelopeParts
    <3> QED
      BY <2>2, <3>1 DEF Participates
  <2> QED
    BY <1>2, <2>1, <2>2
<1> QED
  BY <1>1, <1>3, <1>4

\* Flags of nodes are set by messages of the nodes themselves.
LEMMA FlagType ==
    ASSUME KnowledgeOK, [Next]_vars
    PROVE  supplied' \subseteq PublicKey /\ overloaded' \subseteq PublicKey
<1> USE DEF KnowledgeOK, PeerTypeOK
<1>1. ASSUME NEW c \in Conn, PeersReceived(c) \/ LoadTooHigh(c)
      PROVE  supplied' \subseteq PublicKey /\ overloaded' \subseteq PublicKey
  <2>1. PublicKeyOf[c[2]] \in PublicKey
    BY ConnectionAssumption DEF Conn
  <2> QED
    BY <1>1, <2>1 DEF PeersReceived, LoadTooHigh, SuppliedPeerList, Overloaded
<1>2. ASSUME NEW c \in Conn, NEW e \in Envelope, EnvelopeStep(c, e)
      PROVE  UNCHANGED flagVars
  BY <1>2, StatementType
<1>3. CASE UNCHANGED flagVars
  BY <1>3 DEF flagVars
<1>4. ASSUME NEW c, Connect(c) \/ Close(c) \/ QuorumSetRefused(c)
      PROVE  UNCHANGED flagVars
  BY <1>4 DEF Connect, Close, QuorumSetRefused, peerVars
<1>5. ASSUME NEW c, NEW h, QuorumSetReceived(c, h) \/ DontHave(c, h) \/ RequestTimeout(c, h)
      PROVE  UNCHANGED flagVars
  BY <1>5 DEF QuorumSetReceived, DontHave, RequestTimeout, peerVars
<1>6. CASE Tick \/ LedgerAges \/ ObservationMoves \/ UNCHANGED vars
  BY <1>6, <1>3 DEF Tick, LedgerAges, ObservationMoves, peerVars, vars
<1>7. ASSUME NEW D, Disconnect(D)
      PROVE  UNCHANGED flagVars
  BY <1>7 DEF Disconnect, peerVars
<1> QED
  BY <1>1, <1>2, <1>3, <1>4, <1>5, <1>6, <1>7 DEF Next, EnvelopeStep

\* An externalize statement that counts a vote reads the clock again.
LEMMA ClockGoesOn ==
    ASSUME now \in Time, now' \in {now, now + 1} \cap Time
    PROVE  now' \in Time /\ now' >= now /\ now' <= now + 1
BY DEF Time

\* What the handler of an externalize statement does before its branches.
LEMMA Externalized ==
    ASSUME NEW c \in Conn, NEW e \in Envelope, KnowledgeOK, Externalize(c, e)
    PROVE  /\ e.value \in Value
           /\ externalized' \in [Statements -> Externalization]
           /\ externalized'[<<e.node, e.slot>>] = [value |-> e.value, time |-> now]
           /\ \A q \in Statements :
                 q # <<e.node, e.slot>> => externalized'[q] = externalized[q]
           /\ \A q \in Statements :
                 externalized'[q].value # None => externalized'[q].time # None
<1>1. e.value \in Value /\ e.node \in PublicKey /\ e.slot \in Slot
  BY EnvelopeParts DEF Externalize
<1>2. externalized' = WithExternalizedValue(e.node, e.slot, e.value, now)
  BY DEF Externalize
<1>3. now \in Time /\ PeerTypeOK
  BY DEF KnowledgeOK, MessageTypeOK
<1>4. /\ externalized' \in [Statements -> Externalization]
      /\ externalized'[<<e.node, e.slot>>] = [value |-> e.value, time |-> now]
      /\ \A q \in Statements :
            q # <<e.node, e.slot>> => externalized'[q] = externalized[q]
  BY <1>1, <1>2, <1>3, ExternalizedValue
<1>5. ASSUME NEW q \in Statements, externalized'[q].value # None
      PROVE  externalized'[q].time # None
  <2>1. CASE q = <<e.node, e.slot>>
    BY <1>3, <1>4, <2>1, NoneIsApart
  <2>2. CASE q # <<e.node, e.slot>>
    BY <1>4, <1>5, <2>2 DEF KnowledgeOK, TimesKnown
  <2> QED
    BY <2>1, <2>2
<1> QED
  BY <1>1, <1>4, <1>5

\* The verdict on a node whose externalize statement is of a closed slot.
LEMMA VerdictOnOne ==
    ASSUME NEW c \in Conn, NEW e \in Envelope, KnowledgeOK,
           ExternalizeClosed(c, e)
    PROVE  LET v == closed[e.slot]
               t == firstSeen[e.slot][v]
               q == <<e.node, e.slot>> IN
           /\ v \in Value /\ t \in Time
           /\ validating' = validating \cup {p \in {e.node} : e.value = v}
           /\ incorrect' = incorrect \cup {p \in {e.node} : e.value # v}
           /\ lag'[q] = IF e.value = v THEN now - t ELSE lag[q]
           /\ \A r \in Statements : r # q => lag'[r] = lag[r]
           /\ validating' \subseteq PublicKey /\ incorrect' \subseteq PublicKey
           /\ lag' \in [Statements -> (-MaxTime .. MaxTime) \cup {None}]
<1> DEFINE v == closed[e.slot]
           t == firstSeen[e.slot][v]
           q == <<e.node, e.slot>>
<1>1. e.slot \in Slot /\ e.node \in PublicKey /\ q \in Statements
  BY EnvelopeParts
<1>2. v \in Value /\ t \in Time
  <2>1. v \in Value
    BY <1>1 DEF ExternalizeClosed, KnowledgeOK, SlotTypeOK
  <2> QED
    BY <1>1, <2>1, NoneIsApart DEF KnowledgeOK, SlotTypeOK, TimesKnown
<1>3. /\ externalized' \in [Statements -> Externalization]
      /\ externalized'[q] = [value |-> e.value, time |-> now]
      /\ e.value \in Value
      /\ \A r \in Statements :
            externalized'[r].value # None => externalized'[r].time # None
  BY Externalized DEF ExternalizeClosed
<1>4. Judged(externalized', e.slot, v, t, {e.node}, {})
  BY DEF ExternalizeClosed
<1>5. Reported(externalized', e.slot, v, t, {e.node}, {})
  <2>1. PeerTypeOK /\ {e.node} \in SUBSET PublicKey /\ {} \in SUBSET PublicKey
    BY <1>1 DEF KnowledgeOK
  <2> HIDE DEF v, t, q
  <2> QED
    BY <1>1, <1>2, <1>3, <1>4, <2>1, Verdicts
<1>6. /\ validating' = validating \cup {p \in {e.node} : e.value = v}
      /\ incorrect' = incorrect \cup {p \in {e.node} : e.value # v}
  BY <1>3, <1>5, NoneIsApart DEF Reported
<1>7. lag'[q] = IF e.value = v THEN now - t ELSE lag[q]
  BY <1>1, <1>3, <1>5 DEF Reported
<1>8. ASSUME NEW r \in Statements, r # q
      PROVE  lag'[r] = lag[r]
  BY <1>5, <1>8 DEF Reported, Statements
<1> QED
  BY <1>2, <1>5, <1>6, <1>7, <1>8 DEF Reported

\* The vote of an externalize statement for a slot that may still close.
LEMMA CountedVote ==
    ASSUME NEW c \in Conn, NEW e \in Envelope, KnowledgeOK,
           ExternalizeCounted(c, e)
    PROVE  /\ e.slot > latest /\ closed[e.slot] = None
           /\ now' \in Time /\ now' >= now /\ now' <= now + 1
           /\ SlotTypeOK'
           /\ values'[e.slot][e.value] = values[e.slot][e.value] \cup {e.node}
           /\ firstSeen'[e.slot][e.value] \in Time
           /\ firstSeen[e.slot][e.value] # None =>
                 firstSeen'[e.slot][e.value] = firstSeen[e.slot][e.value]
           /\ firstSeen[e.slot][e.value] = None =>
                 firstSeen'[e.slot][e.value] = now'
           /\ \A r \in Slot, w \in Value : r # e.slot \/ w # e.value =>
                 /\ values'[r][w] = values[r][w]
                 /\ firstSeen'[r][w] = firstSeen[r][w]
           /\ closed'[e.slot] = IF ClosesSlot(e.node, e.slot, e.value)
                                THEN e.value ELSE None
           /\ \A r \in Slot : r # e.slot => closed'[r] = closed[r]
<1>1. /\ e.node \in PublicKey /\ e.slot \in Slot /\ e.value \in Value
      /\ Confirmable(e.slot)
      /\ AddExternalizeValue(e.node, e.slot, e.value, now')
  BY EnvelopeParts, Externalized DEF ExternalizeCounted
<1>2. now' \in Time /\ now' >= now /\ now' <= now + 1
  BY ClockGoesOn DEF ExternalizeCounted, KnowledgeOK, MessageTypeOK
<1>3. SlotTypeOK
  BY DEF KnowledgeOK
<1>4. /\ SlotTypeOK'
      /\ values'[e.slot][e.value] = values[e.slot][e.value] \cup {e.node}
      /\ firstSeen'[e.slot][e.value] = SeenAt(e.slot, e.value, now')
      /\ \A r \in Slot, w \in Value : r # e.slot \/ w # e.value =>
            /\ values'[r][w] = values[r][w]
            /\ firstSeen'[r][w] = firstSeen[r][w]
      /\ closed'[e.slot] = IF ClosesSlot(e.node, e.slot, e.value) THEN e.value
                           ELSE closed[e.slot]
      /\ \A r \in Slot : r # e.slot => closed'[r] = closed[r]
  BY <1>1, <1>2, <1>3, VoteCounted
<1>5. /\ SeenAt(e.slot, e.value, now') \in Time
      /\ firstSeen[e.slot][e.value] # None =>
            SeenAt(e.slot, e.value, now') = firstSeen[e.slot][e.value]
      /\ firstSeen[e.slot][e.value] = None => SeenAt(e.slot, e.value, now') = now'
  BY <1>1, <1>2, <1>3 DEF SeenAt, SlotTypeOK
<1> QED
  BY <1>1, <1>2, <1>4, <1>5 DEF Confirmable

\* The ledger that closes becomes the latest.
LEMMA CloseIsLatest ==
    ASSUME NEW c \in Conn, NEW e \in Envelope, KnowledgeOK, LedgerCloses(c, e)
    PROVE  latest' = e.slot /\ aged' \in BOOLEAN /\ e.slot > latest
BY CountedVote DEF LedgerCloses, NewLatest

\* The verdicts when a slot closes, on all nodes that externalized a value.
LEMMA VerdictsAtClose ==
    ASSUME NEW c \in Conn, NEW e \in Envelope, KnowledgeOK, LedgerCloses(c, e),
           NEW s, NEW v, s = e.slot, v = e.value
    PROVE  /\ validating' = validating
                  \cup {p \in values'[s][v] : externalized'[<<p, s>>].value = v}
           /\ incorrect' = incorrect
                  \cup (UNION {values'[s][w] : w \in Value \ {v}})
                  \cup {p \in values'[s][v] :
                           externalized'[<<p, s>>].value \notin {v, None}}
           /\ \A q \in Statements :
                 lag'[q] = IF /\ q[1] \in values'[s][v] /\ q[2] = s
                              /\ externalized'[q].value = v
                           THEN externalized'[q].time - firstSeen'[s][v]
                           ELSE lag[q]
           /\ validating' \subseteq PublicKey /\ incorrect' \subseteq PublicKey
           /\ lag' \in [Statements -> (-MaxTime .. MaxTime) \cup {None}]
<1>1. PICK N, D, t, ext :
         /\ N = values'[s][v] /\ D = UNION {values'[s][w] : w \in Value \ {v}}
         /\ t = firstSeen'[s][v] /\ ext = externalized'
  OBVIOUS
<1>2. /\ ext \in [Statements -> Externalization]
      /\ v \in Value /\ s \in Slot
      /\ \A r \in Statements : ext[r].value # None => ext[r].time # None
  BY <1>1, Externalized, EnvelopeParts DEF LedgerCloses, ExternalizeCounted
<1>3. SlotTypeOK' /\ t \in Time
  BY <1>1, CountedVote DEF LedgerCloses
<1>4. N \in SUBSET PublicKey /\ D \in SUBSET PublicKey
  BY <1>1, <1>2, <1>3 DEF SlotTypeOK
<1>5. Judged(ext, s, v, t, N, D)
  BY <1>1 DEF LedgerCloses, Agreeing, Disagreeing
<1>6. PeerTypeOK
  BY DEF KnowledgeOK
<1>7. Reported(ext, s, v, t, N, D)
  BY <1>2, <1>3, <1>4, <1>5, <1>6, Verdicts
<1> QED
  BY <1>1, <1>7 DEF Reported

\* Types and times are kept by what an observation learns.
LEMMA KnowledgeStep ==
    ASSUME KnowledgeOK, [Next]_vars
    PROVE  KnowledgeOK'
<1>1. supplied' \subseteq PublicKey /\ overloaded' \subseteq PublicKey
  BY FlagType
<1>2. CASE NoEnvelope
  BY <1>1, <1>2 DEF NoEnvelope, KnowledgeOK, PeerTypeOK, SlotTypeOK, MessageTypeOK,
     TimesKnown, statementVars, verdictVars, slotVars
<1>3. ASSUME NEW c \in Conn, NEW e \in Envelope, EnvelopeStep(c, e)
      PROVE  KnowledgeOK'
  <2>1. /\ cache' \in Seq(Envelope) /\ Len(cache') <= CacheMax
        /\ participating' \subseteq PublicKey
        /\ activeSlot' \in [PublicKey -> Slot \cup {None}]
    BY <1>3, StatementType
  <2> USE DEF KnowledgeOK, PeerTypeOK, SlotTypeOK, MessageTypeOK, TimesKnown
  <2>2. CASE EnvelopeTooOld(c, e) \/ EnvelopeRefused(c, e) \/ OtherStatement(c, e)
    BY <1>1, <2>1, <2>2 DEF EnvelopeTooOld, EnvelopeRefused, OtherStatement,
       verdictVars, slotVars, ledgerVars
  <2>3. CASE ExternalizeOld(c, e)
    BY <1>1, <2>1, <2>3, Externalized DEF ExternalizeOld, verdictVars, slotVars, ledgerVars
  <2>4. CASE ExternalizeClosed(c, e)
    <3>1. Externalize(c, e) /\ UNCHANGED <<slotVars, ledgerVars>>
      BY <2>4 DEF ExternalizeClosed
    <3>2. /\ validating' \subseteq PublicKey /\ incorrect' \subseteq PublicKey
          /\ lag' \in [Statements -> (-MaxTime .. MaxTime) \cup {None}]
      BY <2>4, VerdictOnOne
    <3> QED
      BY <1>1, <2>1, <3>1, <3>2, Externalized DEF slotVars, ledgerVars
  <2>5. ASSUME ExternalizeCounted(c, e)
        PROVE  /\ SlotTypeOK' /\ now' \in Time /\ TimesKnown'
               /\ externalized' \in [Statements -> Externalization]
    <3>1. /\ externalized' \in [Statements -> Externalization]
          /\ \A r \in Statements :
                externalized'[r].value # None => externalized'[r].time # None
          /\ e.slot \in Slot /\ e.value \in Value
      BY <2>5, Externalized, EnvelopeParts DEF ExternalizeCounted
    <3>2. /\ SlotTypeOK' /\ now' \in Time
          /\ firstSeen'[e.slot][e.value] \in Time
          /\ \A r \in Slot, w \in Value : r # e.slot \/ w # e.value =>
                /\ values'[r][w] = values[r][w]
                /\ firstSeen'[r][w] = firstSeen[r][w]
          /\ closed[e.slot] = None /\ closed'[e.slot] \in {e.value, None}
          /\ \A r \in Slot : r # e.slot => closed'[r] = closed[r]
      BY <2>5, CountedVote
    <3>3. ASSUME NEW s \in Slot, NEW v \in Value, values'[s][v] # {}
          PROVE  firstSeen'[s][v] # None
      <4>1. CASE s = e.slot /\ v = e.value
        BY <3>2, <4>1, NoneIsApart
      <4>2. CASE s # e.slot \/ v # e.value
        BY <3>2, <3>3, <4>2
      <4> QED
        BY <4>1, <4>2
    <3>4. ASSUME NEW s \in Slot, closed'[s] # None
          PROVE  firstSeen'[s][closed'[s]] # None
      <4>1. CASE s = e.slot
        BY <3>2, <3>4, <4>1, NoneIsApart
      <4>2. CASE s # e.slot
        <5>1. closed'[s] = closed[s] /\ closed[s] \in Value
          BY <3>2, <3>4, <4>2
        <5> QED
          BY <3>2, <3>4, <4>2, <5>1
      <4> QED
        BY <4>1, <4>2
    <3> QED
      BY <3>1, <3>2, <3>3, <3>4
  <2>6. CASE ExternalizeOnly(c, e)
    BY <1>1, <2>1, <2>5, <2>6 DEF ExternalizeOnly, verdictVars
  <2>7. CASE LedgerCloses(c, e)
    <3>1. /\ ExternalizeCounted(c, e) /\ latest' = e.slot /\ aged' \in BOOLEAN
          /\ e.slot \in Slot /\ e.slot > latest
      BY <1>1, <2>7, EnvelopeParts, CloseIsLatest DEF LedgerCloses
    <3>2. latest' \in KnownLedger .. LastSlot
      BY <3>1, EnvelopeAssumption, PeerNodesAssumption DEF Slot
    <3>3. /\ validating' \subseteq PublicKey /\ incorrect' \subseteq PublicKey
          /\ lag' \in [Statements -> (-MaxTime .. MaxTime) \cup {None}]
      BY <2>7, VerdictsAtClose
    <3> QED
      BY <1>1, <2>1, <2>5, <3>1, <3>2, <3>3
  <2> QED
    BY <1>3, <2>2, <2>3, <2>4, <2>6, <2>7 DEF EnvelopeStep
<1> QED
  BY <1>2, <1>3, StepKinds DEF KnowledgeOK

\* The operations on quorum sets a step may perform.
QuorumSetStep ==
    \/ \E p \in PublicKey : NodeDisconnected(p)
    \/ \E p \in PublicKey, h \in Hash :
          \/ ProcessQuorumSetHash(p, h) \/ ProcessQuorumSet(h, p)
          \/ DoesNotHaveQuorumSet(p, h)
    \/ \E to \in Addr, h \in Hash : <<to, h>> \in timers /\ RequestTimedOut(to, h)

LEMMA QuorumSetKinds ==
    ASSUME [Next]_vars
    PROVE  QuorumSetStep \/ UNCHANGED quorumSetVars
<1>1. \A c \in Conn : PublicKeyOf[c[2]] \in PublicKey
  BY ConnectionAssumption DEF Conn
<1>2. CASE Tick \/ LedgerAges \/ ObservationMoves
  BY <1>2 DEF Tick, LedgerAges, ObservationMoves
<1>3. ASSUME NEW c \in Conn, Connect(c) \/ Close(c)
      PROVE  QuorumSetStep \/ UNCHANGED quorumSetVars
  BY <1>1, <1>3 DEF Connect, Close, QuorumSetStep
<1>4. ASSUME NEW D, Disconnect(D)
      PROVE  UNCHANGED quorumSetVars
  BY <1>4 DEF Disconnect
<1>5. ASSUME NEW c, PeersReceived(c) \/ LoadTooHigh(c) \/ QuorumSetRefused(c)
      PROVE  UNCHANGED quorumSetVars
  BY <1>5 DEF PeersReceived, LoadTooHigh, QuorumSetRefused
<1>6. ASSUME NEW c \in Conn, NEW h \in Hash, QuorumSetReceived(c, h) \/ DontHave(c, h)
      PROVE  QuorumSetStep
  BY <1>1, <1>6 DEF QuorumSetReceived, DontHave, QuorumSetStep
<1>7. ASSUME NEW to \in Addr, NEW h \in Hash, RequestTimeout(to, h)
      PROVE  QuorumSetStep
  BY <1>7 DEF RequestTimeout, QuorumSetStep
<1>8. ASSUME NEW c, NEW e, EnvelopeTooOld(c, e) \/ EnvelopeRefused(c, e)
      PROVE  UNCHANGED quorumSetVars
  BY <1>8 DEF EnvelopeTooOld, EnvelopeRefused
<1>9. ASSUME NEW c, NEW e \in Envelope, Statement(c, e)
      PROVE  QuorumSetStep
  BY <1>9, EnvelopeParts DEF Statement, QuorumSetStep
<1>10. ASSUME NEW c, NEW e,
              \/ OtherStatement(c, e) \/ ExternalizeClosed(c, e)
              \/ ExternalizeOld(c, e) \/ ExternalizeOnly(c, e) \/ LedgerCloses(c, e)
       PROVE  Statement(c, e)
  BY <1>10 DEF OtherStatement, ExternalizeClosed, ExternalizeOld,
     ExternalizeOnly, LedgerCloses, ExternalizeCounted, Externalize
<1>11. CASE UNCHANGED vars
  BY <1>11 DEF vars
<1> QED
  BY <1>2, <1>3, <1>4, <1>5, <1>6, <1>7, <1>8, <1>9, <1>10, <1>11 DEF Next

RequestsType == [Addr \cup PublicKey -> Hash \cup {None}]

LEMMA RequestType ==
    ASSUME QuorumSetTypeOK, NEW h \in Hash, NEW own, NEW req \in RequestsType,
           NEW prog \in SUBSET Hash, NEW tim \in SUBSET (Addr \X Hash),
           RequestQuorumSet(h, own, req, prog, tim)
    PROVE  /\ requestedTo' \in [Hash -> SUBSET Addr]
           /\ requests' \in RequestsType
           /\ inProgress' \subseteq Hash
           /\ timers' \subseteq Addr \X Hash
<1>1. CASE NoRequest(req, prog, tim)
  BY <1>1 DEF NoRequest, QuorumSetTypeOK
<1>2. ASSUME NEW to \in Candidates(h, own), SendRequest(h, to, req, prog, tim)
      PROVE  /\ requestedTo' \in [Hash -> SUBSET Addr]
             /\ requests' \in RequestsType
             /\ inProgress' \subseteq Hash
             /\ timers' \subseteq Addr \X Hash
  <2>1. to \in Addr
    BY DEF Candidates, Tracked
  <2>2. requestedTo' = [requestedTo EXCEPT ![h] = requestedTo[h] \cup {to}]
    BY <1>2 DEF SendRequest
  <2>3. requestedTo' \in [Hash -> SUBSET Addr]
    BY <2>1, <2>2 DEF QuorumSetTypeOK
  <2> QED
    BY <1>2, <2>1, <2>3 DEF SendRequest, RequestsType
<1> QED
  BY <1>1, <1>2 DEF RequestQuorumSet

\* What remains when a request is cleared has the types it had.
LEMMA ClearedType ==
    ASSUME QuorumSetTypeOK, NEW k
    PROVE  /\ requests \in RequestsType /\ ReqWithout(k) \in RequestsType
           /\ ProgWithout(k) \in SUBSET Hash
           /\ TimersWithout(k) \in SUBSET (Addr \X Hash)
BY DEF QuorumSetTypeOK, RequestsType, ReqWithout, ProgWithout, TimersWithout

LEMMA QuorumSetTypeStep ==
    ASSUME QuorumSetTypeOK, QuorumSetStep
    PROVE  QuorumSetTypeOK'
<1>1. ASSUME NEW p \in PublicKey, NodeDisconnected(p)
      PROVE  QuorumSetTypeOK'
  BY <1>1, ClearedType DEF NodeDisconnected, ClearRequest, NoRequest,
     QuorumSetTypeOK, RequestsType
<1>2. ASSUME NEW p \in PublicKey, NEW h \in Hash, ProcessQuorumSetHash(p, h)
      PROVE  QuorumSetTypeOK'
  <2>1. owners' = [owners EXCEPT ![h] = owners[h] \cup {p}]
    BY <1>2 DEF ProcessQuorumSetHash
  <2>2. owners' \in [Hash -> SUBSET PublicKey]
    BY <2>1 DEF QuorumSetTypeOK
  <2>3. /\ hashOf' \in [PublicKey -> Hash \cup {None}]
        /\ quorumSetOf' \in [PublicKey -> Hash \cup {None}]
        /\ known' \subseteq Hash
    BY <1>2 DEF ProcessQuorumSetHash, QuorumSetTypeOK
  <2>4. PICK own : own = owners'[h]
    OBVIOUS
  <2>5. RequestQuorumSet(h, own, requests, inProgress, timers)
    BY <1>2, <2>4 DEF ProcessQuorumSetHash
  <2>6. /\ requests \in RequestsType /\ inProgress \in SUBSET Hash
        /\ timers \in SUBSET (Addr \X Hash)
    BY DEF QuorumSetTypeOK, RequestsType
  <2>7. /\ requestedTo' \in [Hash -> SUBSET Addr]
        /\ requests' \in RequestsType
        /\ inProgress' \subseteq Hash
        /\ timers' \subseteq Addr \X Hash
    BY <2>5, <2>6, RequestType
  <2> QED
    BY <2>2, <2>3, <2>7 DEF QuorumSetTypeOK, RequestsType
<1>3. ASSUME NEW p \in PublicKey, NEW h \in Hash, ProcessQuorumSet(h, p)
      PROVE  QuorumSetTypeOK'
  BY <1>3, ClearedType DEF ProcessQuorumSet, ClearRequest, NoRequest,
     QuorumSetTypeOK, RequestsType
<1>4. ASSUME NEW p \in PublicKey, NEW h \in Hash, DoesNotHaveQuorumSet(p, h)
      PROVE  QuorumSetTypeOK'
  <2>1. /\ hashOf' \in [PublicKey -> Hash \cup {None}]
        /\ quorumSetOf' \in [PublicKey -> Hash \cup {None}]
        /\ known' \subseteq Hash /\ owners' \in [Hash -> SUBSET PublicKey]
    BY <1>4 DEF DoesNotHaveQuorumSet, QuorumSetTypeOK
  <2>2. CASE requests[p] = h
    <3>1. RequestQuorumSet(h, owners[h], ReqWithout(p), ProgWithout(p),
                           TimersWithout(p))
      BY <1>4, <2>2 DEF DoesNotHaveQuorumSet
    <3>2. /\ requestedTo' \in [Hash -> SUBSET Addr]
          /\ requests' \in RequestsType
          /\ inProgress' \subseteq Hash
          /\ timers' \subseteq Addr \X Hash
      BY <3>1, ClearedType, RequestType
    <3> QED
      BY <2>1, <3>2 DEF QuorumSetTypeOK, RequestsType
  <2>3. CASE requests[p] # h
    BY <1>4, <2>1, <2>3 DEF DoesNotHaveQuorumSet, NoRequest, QuorumSetTypeOK
  <2> QED
    BY <2>2, <2>3
<1>5. ASSUME NEW to \in Addr, NEW h \in Hash, RequestTimedOut(to, h)
      PROVE  QuorumSetTypeOK'
  <2>1. PICK prog, tim : prog = inProgress \ {h} /\ tim = timers \ {<<to, h>>}
    OBVIOUS
  <2>2. /\ RequestQuorumSet(h, owners[h], ReqWithout(to), prog, tim)
        /\ prog \in SUBSET Hash /\ tim \in SUBSET (Addr \X Hash)
    BY <1>5, <2>1 DEF RequestTimedOut, QuorumSetTypeOK
  <2>3. /\ requestedTo' \in [Hash -> SUBSET Addr]
        /\ requests' \in RequestsType
        /\ inProgress' \subseteq Hash
        /\ timers' \subseteq Addr \X Hash
    BY <2>2, ClearedType, RequestType
  <2> QED
    BY <1>5, <2>3 DEF RequestTimedOut, QuorumSetTypeOK, RequestsType
<1> QED
  BY <1>1, <1>2, <1>3, <1>4, <1>5 DEF QuorumSetStep

LEMMA QuorumSetTypeKept ==
    QuorumSetTypeOK /\ [Next]_vars => QuorumSetTypeOK'
BY QuorumSetKinds, QuorumSetTypeStep DEF QuorumSetTypeOK, quorumSetVars

LEMMA KnowledgeInit == Init => KnowledgeOK
<1> SUFFICES ASSUME Init PROVE KnowledgeOK
  OBVIOUS
<1>1. PeerTypeOK
  BY DEF Init, PeerInit, PeerTypeOK, Externalization
<1>2. SlotTypeOK
  BY DEF Init, SlotInit, SlotTypeOK
<1>3. MessageTypeOK
  BY EnvelopeAssumption, PeerNodesAssumption DEF Init, MessageTypeOK, Time
<1>4. TimesKnown
  BY DEF Init, PeerInit, SlotInit, TimesKnown
<1> QED
  BY <1>1, <1>2, <1>3, <1>4 DEF KnowledgeOK

LEMMA KnowledgeCorrect == Spec => []KnowledgeOK
BY KnowledgeInit, KnowledgeStep, PTL DEF Spec

\* Every variable of the observation keeps its type: a lag is a difference of
\* two known times, a hash never names a missing quorum set, and so on.
THEOREM MessageTypeCorrect == Spec => []TypeOK
<1> DEFINE Inv == LifeTypeOK /\ NoAttempt /\ KnowledgeOK /\ QuorumSetTypeOK
<1>1. Init => Inv
  <2>1. Init => QuorumSetTypeOK
    BY QuorumSetAssumption DEF Init, QuorumSetInit, QuorumSetTypeOK
  <2>2. Init => LifeInit
    BY DEF Init
  <2> QED
    BY <2>1, <2>2, LifeInitOK, KnowledgeInit
<1>2. Inv /\ [Next]_vars => Inv'
  BY LifeStep, LifeTypeKept, NoAttemptStep, KnowledgeStep, QuorumSetTypeKept
<1>3. Inv => TypeOK
  BY DEF TypeOK, KnowledgeOK
<1> QED
  BY <1>1, <1>2, <1>3, PTL DEF Spec

=============================================================================

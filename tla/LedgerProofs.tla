---------------------------- MODULE LedgerProofs ----------------------------
(***************************************************************************)
(* Theorems about the ledgers StellarMessages sees close, for every set of *)
(* nodes, envelopes and slices: what the reports on nodes are worth, and   *)
(* that the slots implement LedgerChain.                                   *)
(***************************************************************************)
EXTENDS MessageProofs

-----------------------------------------------------------------------------
(* The inductive invariant, by parts *)

\* A signed envelope of p externalizes value v for slot s.
Signed(p, s, v) ==
    \E e \in Envelope : e.signed /\ e.node = p /\ e.slot = s /\ e.value = v

\* What slots and nodes are known to have externalized was signed.
SaidBySigned ==
    /\ \A p \in PublicKey, s \in Slot, v \in Value :
          p \in values[s][v] => Signed(p, s, v)
    /\ \A p \in PublicKey, s \in Slot :
          externalized[<<p, s>>].value # None =>
              Signed(p, s, externalized[<<p, s>>].value)

\* A slot closed with a value that a whole slice externalized.
ClosedBySlice ==
    \A s \in Slot : closed[s] # None => ContainsSlice(values[s][closed[s]])

\* The latest ledger is closed, unless it is the one the crawl was given, and
\* slots closed only after that one and up to the latest.
LatestIsLast ==
    /\ latest # KnownLedger => closed[latest] # None
    /\ \A s \in Slot : closed[s] # None => s \in KnownLedger + 1 .. latest

\* No slot that may still close has a complete slice.
OpenUndecided ==
    \A s \in Slot, v \in Value : s > latest => ~ContainsSlice(values[s][v])

\* The value a node externalized last, for a slot that may still close, counts.
LastCounts ==
    \A p \in PublicKey, s \in Slot : LET v == externalized[<<p, s>>].value IN
        s > latest /\ v # None => p \in values[s][v]

\* Times of externalize messages are not before the time their value was seen
\* first, up to the two readings of the clock in one handler.
FirstComesFirst ==
    /\ \A s \in Slot, v \in Value : firstSeen[s][v] # None => firstSeen[s][v] <= now
    /\ \A p \in PublicKey, s \in Slot : LET x == externalized[<<p, s>>] IN
          x.value # None /\ firstSeen[s][x.value] # None =>
              x.time >= firstSeen[s][x.value] - 1

\* Whoever externalized a value participates.
VotersParticipate ==
    \A p \in PublicKey, s \in Slot :
        \/ externalized[<<p, s>>].value # None
        \/ \E v \in Value : p \in values[s][v]
        => p \in participating

-----------------------------------------------------------------------------
(* The steps, as the ledgers see them *)

\* No externalize statement is handled.
Unheard ==
    /\ UNCHANGED <<externalized, verdictVars, slotVars, latest>>
    /\ participating \subseteq participating'
    /\ now <= now'

\* An externalize statement is handled that is no vote any more.
TooLate(c, e) == ExternalizeClosed(c, e) \/ ExternalizeOld(c, e)

LEMMA LedgerSteps ==
    ASSUME KnowledgeOK, [Next]_vars
    PROVE  \/ Unheard
           \/ \E c \in Conn, e \in Envelope :
                 TooLate(c, e) \/ ExternalizeOnly(c, e) \/ LedgerCloses(c, e)
<1>1. now \in Int
  BY NoneIsApart DEF KnowledgeOK, MessageTypeOK
<1>2. CASE NoEnvelope
  BY <1>1, <1>2 DEF NoEnvelope, Unheard, statementVars, Time
<1>3. ASSUME NEW c \in Conn, NEW e \in Envelope,
             EnvelopeTooOld(c, e) \/ EnvelopeRefused(c, e) \/ OtherStatement(c, e)
      PROVE  Unheard
  BY <1>1, <1>3 DEF EnvelopeTooOld, EnvelopeRefused, OtherStatement, Statement,
     Participates, Unheard, statementVars, ledgerVars
<1> QED
  BY <1>2, <1>3, StepKinds DEF KnowledgeOK, EnvelopeStep, TooLate

\* What every handled externalize statement has, and leaves behind.
LEMMA Heard ==
    ASSUME NEW c, NEW e \in Envelope, Externalize(c, e)
    PROVE  /\ e.node \in PublicKey /\ e.slot \in Slot /\ e.value \in Value
           /\ Signed(e.node, e.slot, e.value)
           /\ participating' = participating \cup {e.node}
           /\ cache' = Remember(e)
BY EnvelopeParts DEF Externalize, Statement, Received, SignatureOK, Participates,
   Signed

LEMMA LateParts ==
    ASSUME NEW c, NEW e, TooLate(c, e)
    PROVE  /\ Externalize(c, e) /\ UNCHANGED <<slotVars, ledgerVars>>
           /\ \/ closed[e.slot] # None
              \/ UNCHANGED verdictVars /\ ~Confirmable(e.slot)
BY DEF TooLate, ExternalizeClosed, ExternalizeOld

\* A slot closes in the step that takes the vote.
LEMMA ClosesByVote ==
    ASSUME KnowledgeOK, [Next]_vars, NEW s \in Slot, closed[s] = None,
           closed'[s] # None
    PROVE  \E c \in Conn, e \in Envelope : s = e.slot /\ LedgerCloses(c, e)
<1>1. ~Unheard
  BY DEF Unheard, slotVars
<1>2. ASSUME NEW c \in Conn, NEW e \in Envelope, TooLate(c, e)
      PROVE  FALSE
  BY <1>2, LateParts DEF slotVars
<1>3. ASSUME NEW c \in Conn, NEW e \in Envelope,
             ExternalizeOnly(c, e) \/ LedgerCloses(c, e)
      PROVE  s = e.slot /\ LedgerCloses(c, e)
  BY <1>3, CountedVote DEF ExternalizeOnly, LedgerCloses
<1> QED
  BY <1>1, <1>2, <1>3, LedgerSteps

-----------------------------------------------------------------------------
(* What was externalized was signed *)

LEMMA SignedStep ==
    ASSUME KnowledgeOK, SaidBySigned, [Next]_vars
    PROVE  SaidBySigned'
<1> USE DEF SaidBySigned
<1>1. CASE Unheard
  BY <1>1 DEF Unheard, slotVars, Signed
<1>2. ASSUME NEW c \in Conn, NEW e \in Envelope, Externalize(c, e)
      PROVE  \A p \in PublicKey, s \in Slot :
                externalized'[<<p, s>>].value # None =>
                    Signed(p, s, externalized'[<<p, s>>].value)
  <2> TAKE p \in PublicKey, s \in Slot
  <2>1. CASE p = e.node /\ s = e.slot
    <3>1. externalized'[<<p, s>>] = [value |-> e.value, time |-> now]
      BY <1>2, <2>1, Externalized
    <3> QED
      BY <1>2, <2>1, <3>1, Heard
  <2>2. CASE ~(p = e.node /\ s = e.slot)
    <3>1. <<p, s>> \in Statements /\ <<p, s>> # <<e.node, e.slot>>
      BY <2>2 DEF Statements
    <3> QED
      BY <1>2, <3>1, Externalized
  <2> QED
    BY <2>1, <2>2
<1>3. ASSUME NEW c \in Conn, NEW e \in Envelope, TooLate(c, e)
      PROVE  SaidBySigned'
  BY <1>2, <1>3, LateParts DEF slotVars, Signed
<1>4. ASSUME NEW c \in Conn, NEW e \in Envelope, ExternalizeCounted(c, e)
      PROVE  SaidBySigned'
  <2>1. Externalize(c, e)
    BY <1>4 DEF ExternalizeCounted
  <2>2. ASSUME NEW p \in PublicKey, NEW s \in Slot, NEW v \in Value,
               p \in values'[s][v]
        PROVE  Signed(p, s, v)
    <3>1. CASE s = e.slot /\ v = e.value
      BY <1>4, <2>1, <2>2, <3>1, CountedVote, Heard
    <3>2. CASE s # e.slot \/ v # e.value
      BY <1>4, <2>2, <3>2, CountedVote
    <3> QED
      BY <3>1, <3>2
  <2> QED
    BY <1>2, <2>1, <2>2 DEF Signed
<1> QED
  BY <1>1, <1>3, <1>4, LedgerSteps DEF ExternalizeOnly, LedgerCloses

-----------------------------------------------------------------------------
(* Slices *)

\* The vote that is counted completes a slice just when it closes the slot.
LEMMA VoteCompletes ==
    ASSUME NEW c \in Conn, NEW e \in Envelope, KnowledgeOK, OpenUndecided,
           ExternalizeCounted(c, e)
    PROVE  ContainsSlice(values'[e.slot][e.value])
               <=> ClosesSlot(e.node, e.slot, e.value)
<1>1. /\ e.slot \in Slot /\ e.value \in Value
      /\ e.slot > latest /\ closed[e.slot] = None
      /\ values'[e.slot][e.value] = values[e.slot][e.value] \cup {e.node}
  BY CountedVote, Heard DEF ExternalizeCounted
<1>2. ~ContainsSlice(values[e.slot][e.value])
  BY <1>1 DEF OpenUndecided
<1>3. ContainsSlice(values'[e.slot][e.value]) =>
          e.node \in Validators \ values[e.slot][e.value]
  BY <1>1, <1>2, SlicesAssumption DEF ContainsSlice
<1> QED
  BY <1>1, <1>3 DEF ClosesSlot

LEMMA SliceStep ==
    ASSUME KnowledgeOK, ClosedBySlice, OpenUndecided, LatestIsLast, [Next]_vars
    PROVE  ClosedBySlice' /\ OpenUndecided' /\ LatestIsLast'
<1> USE DEF ClosedBySlice, OpenUndecided, LatestIsLast
<1>1. CASE UNCHANGED <<slotVars, latest>>
  BY <1>1 DEF slotVars, ContainsSlice
<1>2. ASSUME NEW c \in Conn, NEW e \in Envelope, ExternalizeCounted(c, e),
             \/ ~ClosesSlot(e.node, e.slot, e.value) /\ UNCHANGED latest
             \/ ClosesSlot(e.node, e.slot, e.value) /\ latest' = e.slot
      PROVE  ClosedBySlice' /\ OpenUndecided' /\ LatestIsLast'
  <2>1. /\ e.slot \in Slot /\ e.value \in Value /\ latest \in Int
        /\ e.slot > latest /\ latest >= KnownLedger /\ KnownLedger \in Int
    BY <1>2, CountedVote, Heard, EnvelopeAssumption
       DEF ExternalizeCounted, KnowledgeOK, MessageTypeOK
  <2>2. /\ closed'[e.slot] = IF ClosesSlot(e.node, e.slot, e.value)
                             THEN e.value ELSE None
        /\ \A r \in Slot : r # e.slot => closed'[r] = closed[r]
        /\ \A r \in Slot, w \in Value : r # e.slot \/ w # e.value =>
              values'[r][w] = values[r][w]
        /\ closed[e.slot] = None
    BY <1>2, CountedVote
  <2>3. ContainsSlice(values'[e.slot][e.value])
            <=> ClosesSlot(e.node, e.slot, e.value)
    BY <1>2, VoteCompletes
  <2>4. \A s \in Slot : closed[s] # None => closed[s] \in Value
    BY DEF KnowledgeOK, SlotTypeOK
  <2>5. ClosedBySlice'
    <3> SUFFICES ASSUME NEW s \in Slot, closed'[s] # None
                 PROVE  ContainsSlice(values'[s][closed'[s]])
      BY DEF ContainsSlice
    <3>1. CASE s = e.slot
      BY <2>2, <2>3, <3>1
    <3>2. CASE s # e.slot
      BY <2>2, <2>4, <3>2
    <3> QED
      BY <3>1, <3>2
  <2>6. OpenUndecided'
    <3> SUFFICES ASSUME NEW s \in Slot, NEW v \in Value, s > latest'
                 PROVE  ~ContainsSlice(values'[s][v])
      BY DEF ContainsSlice
    <3>1. s > latest
      BY <1>2, <2>1, NoneIsApart
    <3>2. CASE s = e.slot /\ v = e.value
      <4>1. latest' # e.slot
        BY <2>1, <3>2, NoneIsApart
      <4> QED
        BY <1>2, <2>3, <3>2, <4>1
    <3>3. CASE s # e.slot \/ v # e.value
      BY <2>2, <3>1, <3>3
    <3> QED
      BY <3>2, <3>3
  <2>7. LatestIsLast'
    <3>1. CASE ~ClosesSlot(e.node, e.slot, e.value)
      <4>1. latest' = latest /\ \A r \in Slot : closed'[r] = closed[r]
        BY <1>2, <2>2, <3>1
      <4>2. latest # KnownLedger => latest \in Slot
        BY <2>1, EnvelopeAssumption, PeerNodesAssumption
           DEF Slot, KnowledgeOK, MessageTypeOK
      <4> QED
        BY <4>1, <4>2
    <3>2. CASE ClosesSlot(e.node, e.slot, e.value)
      <4>1. latest' = e.slot /\ closed'[e.slot] # None
        BY <1>2, <2>1, <2>2, <3>2, NoneIsApart
      <4>2. ASSUME NEW s \in Slot, closed'[s] # None
            PROVE  s \in KnownLedger + 1 .. e.slot
        <5>1. CASE s = e.slot
          BY <2>1, <5>1 DEF Slot
        <5>2. CASE s # e.slot
          <6>1. s \in KnownLedger + 1 .. latest
            BY <2>2, <4>2, <5>2
          <6> QED
            BY <2>1, <6>1 DEF Slot
        <5> QED
          BY <5>1, <5>2
      <4> QED
        BY <4>1, <4>2
    <3> QED
      BY <3>1, <3>2
  <2> QED
    BY <2>5, <2>6, <2>7
<1>3. ASSUME NEW c \in Conn, NEW e \in Envelope, TooLate(c, e)
      PROVE  UNCHANGED <<slotVars, latest>>
  BY <1>3, LateParts DEF ledgerVars
<1>4. Unheard => UNCHANGED <<slotVars, latest>>
  BY DEF Unheard
<1> QED
  BY <1>1, <1>2, <1>3, <1>4, LedgerSteps, CloseIsLatest
  DEF ExternalizeOnly, LedgerCloses

-----------------------------------------------------------------------------
(* Verdicts *)

\* A closed slot has the vote of an honest node, so that an honest node cannot
\* have signed another value for it.
LEMMA HonestAgree ==
    ASSUME NEW s \in Slot, NEW v \in Value, NEW N, ContainsSlice(N),
           \A n \in N : Signed(n, s, v),
           NEW p \in Honest, NEW w \in Value, Signed(p, s, w)
    PROVE  w = v
<1>1. PICK n \in N : n \in Honest
  BY HonestAssumption DEF ContainsSlice
<1>2. PICK e \in Envelope : e.signed /\ e.node = n /\ e.slot = s /\ e.value = v
  BY <1>1 DEF Signed
<1>3. PICK f \in Envelope : f.signed /\ f.node = p /\ f.slot = s /\ f.value = w
  BY DEF Signed
<1> QED
  BY <1>1, <1>2, <1>3, HonestAssumption, NoneIsApart

LEMMA HonestStep ==
    ASSUME KnowledgeOK, SaidBySigned, ClosedBySlice, OpenUndecided,
           HonestNotBlamed, [Next]_vars
    PROVE  HonestNotBlamed'
<1> USE DEF HonestNotBlamed
<1>1. CASE UNCHANGED verdictVars
  BY <1>1 DEF verdictVars
<1>2. ASSUME NEW c \in Conn, NEW e \in Envelope, ExternalizeClosed(c, e)
      PROVE  HonestNotBlamed'
  <2>1. PICK s, v : s = e.slot /\ v = closed[e.slot]
    OBVIOUS
  <2>2. /\ s \in Slot /\ e.value \in Value /\ e.node \in PublicKey
        /\ Signed(e.node, s, e.value)
    BY <1>2, <2>1, Heard DEF ExternalizeClosed
  <2>3. v \in Value /\ incorrect' = incorrect \cup {p \in {e.node} : e.value # v}
    BY <1>2, <2>1, VerdictOnOne
  <2>4. ContainsSlice(values[s][v]) /\ \A n \in values[s][v] : Signed(n, s, v)
    <3>1. values[s][v] \subseteq PublicKey
      BY <2>2, <2>3 DEF KnowledgeOK, SlotTypeOK
    <3> QED
      BY <1>2, <2>1, <2>2, <2>3, <3>1
         DEF ClosedBySlice, SaidBySigned, ExternalizeClosed
  <2>5. e.node \in Honest => e.value = v
    BY <2>2, <2>3, <2>4, HonestAgree
  <2> QED
    BY <2>3, <2>5
<1>3. ASSUME NEW c \in Conn, NEW e \in Envelope, LedgerCloses(c, e)
      PROVE  HonestNotBlamed'
  <2>1. PICK s, v, N : s = e.slot /\ v = e.value /\ N = values'[s][v]
    OBVIOUS
  <2>2. SaidBySigned'
    BY <1>3, SignedStep DEF Next
  <2>3. /\ s \in Slot /\ v \in Value /\ SlotTypeOK' /\ ExternalizeCounted(c, e)
        /\ externalized' \in [Statements -> Externalization]
    BY <1>3, <2>1, Heard, CountedVote, Externalized
       DEF LedgerCloses, ExternalizeCounted
  <2>4. ContainsSlice(N)
    BY <1>3, <2>1, <2>3, VoteCompletes DEF LedgerCloses
  <2>5. \A n \in N : n \in PublicKey /\ Signed(n, s, v)
    <3>1. \A n \in N : n \in PublicKey
      BY <2>1, <2>3 DEF SlotTypeOK
    <3> QED
      BY <2>1, <2>2, <2>3, <3>1 DEF SaidBySigned, Signed
  <2>6. incorrect' = incorrect
            \cup (UNION {values'[s][w] : w \in Value \ {v}})
            \cup {p \in values'[s][v] : externalized'[<<p, s>>].value \notin {v, None}}
    BY <1>3, <2>1, VerdictsAtClose
  <2>7. ASSUME NEW w \in Value \ {v}, NEW p \in values'[s][w]
        PROVE  p \notin Honest
    <3>1. p \in PublicKey
      BY <2>3 DEF SlotTypeOK
    <3>2. Signed(p, s, w)
      BY <2>2, <2>3, <3>1 DEF SaidBySigned, Signed
    <3> QED
      BY <2>3, <2>4, <2>5, <3>2, HonestAgree
  <2>8. ASSUME NEW p \in values'[s][v], externalized'[<<p, s>>].value \notin {v, None}
        PROVE  p \notin Honest
    <3>1. p \in PublicKey /\ <<p, s>> \in Statements
      BY <2>3 DEF SlotTypeOK, Statements
    <3>2. PICK w : w = externalized'[<<p, s>>].value
      OBVIOUS
    <3>3. w \in Value /\ w # v
      BY <2>3, <2>8, <3>1, <3>2 DEF Externalization
    <3>4. Signed(p, s, w)
      BY <2>2, <2>3, <3>1, <3>2, <3>3, NoneIsApart DEF SaidBySigned, Signed
    <3> QED
      BY <2>3, <2>4, <2>5, <3>3, <3>4, HonestAgree
  <2> QED
    BY <2>6, <2>7, <2>8
<1>4. ASSUME NEW c \in Conn, NEW e \in Envelope, ExternalizeOld(c, e) \/ ExternalizeOnly(c, e)
      PROVE  UNCHANGED verdictVars
  BY <1>4 DEF ExternalizeOld, ExternalizeOnly
<1> QED
  BY <1>1, <1>2, <1>3, <1>4, LedgerSteps DEF TooLate, Unheard

-----------------------------------------------------------------------------
(* The externalize statements that still count *)

LEMMA OthersKept ==
    ASSUME NEW c \in Conn, NEW e \in Envelope, KnowledgeOK, Externalize(c, e),
           NEW p \in PublicKey, NEW s \in Slot
    PROVE  /\ p = e.node /\ s = e.slot =>
                 /\ externalized'[<<p, s>>].value = e.value
                 /\ externalized'[<<p, s>>].time = now
           /\ ~(p = e.node /\ s = e.slot) =>
                 externalized'[<<p, s>>] = externalized[<<p, s>>]
<1>1. CASE p = e.node /\ s = e.slot
  <2>1. externalized'[<<e.node, e.slot>>] = [value |-> e.value, time |-> now]
    BY Externalized
  <2> QED
    BY <1>1, <2>1
<1>2. CASE ~(p = e.node /\ s = e.slot)
  <2>1. <<p, s>> \in Statements /\ <<p, s>> # <<e.node, e.slot>>
    BY <1>2 DEF Statements
  <2> QED
    BY <1>2, <2>1, Externalized
<1> QED
  BY <1>1, <1>2

LEMMA LedgerNumbers ==
    ASSUME KnowledgeOK
    PROVE  /\ latest \in Int /\ KnownLedger \in Int /\ latest >= KnownLedger
           /\ now \in Int
           /\ \A s \in Slot : s \in Int
BY EnvelopeAssumption, PeerNodesAssumption
   DEF KnowledgeOK, MessageTypeOK, Slot, Time

\* A slot whose externalize statements are not counted cannot close any more.
LEMMA LateSlot ==
    ASSUME NEW c \in Conn, NEW e \in Envelope, KnowledgeOK, LatestIsLast,
           TooLate(c, e)
    PROVE  ~(e.slot > latest)
<1>1. e.slot \in Slot /\ e.slot \in Int /\ latest \in Int /\ KnownLedger \in Int
  BY EnvelopeParts, LedgerNumbers
<1>2. CASE closed[e.slot] # None
  <2>1. e.slot \in KnownLedger + 1 .. latest
    BY <1>1, <1>2 DEF LatestIsLast
  <2> QED
    BY <1>1, <2>1
<1>3. CASE closed[e.slot] = None
  BY <1>3, LateParts DEF Confirmable
<1> QED
  BY <1>2, <1>3

\* The latest ledger never goes back.
LEMMA LatestGrows ==
    ASSUME NEW c \in Conn, NEW e \in Envelope, KnowledgeOK,
           ExternalizeOnly(c, e) \/ LedgerCloses(c, e),
           NEW s \in Slot, s > latest'
    PROVE  s > latest /\ (s = e.slot => ExternalizeOnly(c, e))
<1>1. e.slot > latest /\ e.slot \in Int /\ latest \in Int /\ s \in Int
  <2>1. ExternalizeCounted(c, e)
    BY DEF ExternalizeOnly, LedgerCloses
  <2>2. e.slot > latest
    BY <2>1, CountedVote
  <2> QED
    BY <2>2, EnvelopeParts, LedgerNumbers
<1>2. CASE ExternalizeOnly(c, e)
  BY <1>1, <1>2 DEF ExternalizeOnly
<1>3. CASE LedgerCloses(c, e)
  <2>1. latest' = e.slot
    BY <1>3, CloseIsLatest
  <2> QED
    BY <1>1, <2>1
<1> QED
  BY <1>2, <1>3

LEMMA LastCountsStep ==
    ASSUME KnowledgeOK, LastCounts, LatestIsLast, [Next]_vars
    PROVE  LastCounts'
<1> USE DEF LastCounts
<1>1. CASE Unheard
  BY <1>1 DEF Unheard, slotVars
<1>2. ASSUME NEW c \in Conn, NEW e \in Envelope, TooLate(c, e)
      PROVE  LastCounts'
  <2>1. Externalize(c, e) /\ UNCHANGED <<slotVars, ledgerVars>>
    BY <1>2, LateParts
  <2>2. ~(e.slot > latest)
    BY <1>2, LateSlot
  <2> SUFFICES ASSUME NEW p \in PublicKey, NEW s \in Slot, s > latest',
                      externalized'[<<p, s>>].value # None
               PROVE  p \in values'[s][externalized'[<<p, s>>].value]
    OBVIOUS
  <2>3. externalized'[<<p, s>>] = externalized[<<p, s>>]
    BY <2>1, <2>2, OthersKept DEF ledgerVars
  <2> QED
    BY <2>1, <2>3 DEF slotVars, ledgerVars
<1>3. ASSUME NEW c \in Conn, NEW e \in Envelope,
             ExternalizeOnly(c, e) \/ LedgerCloses(c, e)
      PROVE  LastCounts'
  <2>1. ExternalizeCounted(c, e) /\ Externalize(c, e)
    BY <1>3 DEF ExternalizeOnly, LedgerCloses, ExternalizeCounted
  <2>2. /\ values'[e.slot][e.value] = values[e.slot][e.value] \cup {e.node}
        /\ \A r \in Slot, w \in Value : r # e.slot \/ w # e.value =>
              values'[r][w] = values[r][w]
    BY <2>1, CountedVote
  <2> SUFFICES ASSUME NEW p \in PublicKey, NEW s \in Slot, s > latest',
                      externalized'[<<p, s>>].value # None
               PROVE  p \in values'[s][externalized'[<<p, s>>].value]
    OBVIOUS
  <2>3. CASE p = e.node /\ s = e.slot
    <3>1. externalized'[<<p, s>>].value = e.value
      BY <2>1, <2>3, OthersKept
    <3> QED
      BY <2>2, <2>3, <3>1
  <2>4. CASE ~(p = e.node /\ s = e.slot)
    <3>1. PICK w : w = externalized[<<p, s>>].value
      OBVIOUS
    <3>2. externalized'[<<p, s>>].value = w
      BY <2>1, <2>4, <3>1, OthersKept
    <3>3. w \in Value
      BY <3>1, <3>2 DEF KnowledgeOK, PeerTypeOK, Statements, Externalization
    <3>4. p \in values[s][w]
      BY <1>3, <3>1, <3>2, LatestGrows
    <3> QED
      BY <2>2, <3>2, <3>3, <3>4
  <2> QED
    BY <2>3, <2>4
<1> QED
  BY <1>1, <1>2, <1>3, LedgerSteps

-----------------------------------------------------------------------------
(* Participation *)

LEMMA ParticipantsStep ==
    ASSUME KnowledgeOK, VotersParticipate, ValidatorsParticipate, [Next]_vars
    PROVE  VotersParticipate' /\ ValidatorsParticipate'
<1> USE DEF VotersParticipate, ValidatorsParticipate
<1>1. CASE Unheard
  BY <1>1 DEF Unheard, slotVars, verdictVars
<1>2. ASSUME NEW c \in Conn, NEW e \in Envelope, TooLate(c, e)
      PROVE  VotersParticipate' /\ ValidatorsParticipate'
  <2>1. /\ Externalize(c, e) /\ UNCHANGED <<slotVars, ledgerVars>>
        /\ participating' = participating \cup {e.node}
    BY <1>2, LateParts, Heard
  <2>2. validating' \cup incorrect' \subseteq validating \cup incorrect \cup {e.node}
    <3>1. CASE ExternalizeClosed(c, e)
      BY <3>1, VerdictOnOne
    <3>2. CASE ExternalizeOld(c, e)
      BY <3>2 DEF ExternalizeOld, verdictVars
    <3> QED
      BY <1>2, <3>1, <3>2 DEF TooLate
  <2>3. VotersParticipate'
    <3>1. \A p \in PublicKey, s \in Slot :
             externalized'[<<p, s>>].value # None => p \in participating'
      BY <2>1, OthersKept
    <3> QED
      BY <2>1, <3>1 DEF slotVars
  <2>4. e.node \in participating'
    BY <2>1
  <2> QED
    BY <2>1, <2>2, <2>3
<1>3. ASSUME NEW c \in Conn, NEW e \in Envelope,
             ExternalizeOnly(c, e) \/ LedgerCloses(c, e)
      PROVE  VotersParticipate' /\ ValidatorsParticipate'
  <2>1. ExternalizeCounted(c, e) /\ Externalize(c, e)
    BY <1>3 DEF ExternalizeOnly, LedgerCloses, ExternalizeCounted
  <2>2. /\ participating' = participating \cup {e.node} /\ SlotTypeOK'
        /\ e.slot \in Slot /\ e.value \in Value
        /\ values'[e.slot][e.value] = values[e.slot][e.value] \cup {e.node}
        /\ \A r \in Slot, w \in Value : r # e.slot \/ w # e.value =>
              values'[r][w] = values[r][w]
    BY <2>1, Heard, CountedVote
  <2>3. \A s \in Slot, w \in Value : values'[s][w] \subseteq participating'
    <3> SUFFICES ASSUME NEW s \in Slot, NEW w \in Value, NEW p \in values'[s][w]
                 PROVE  p \in participating'
      OBVIOUS
    <3>1. p \in PublicKey
      BY <2>2 DEF SlotTypeOK
    <3>2. p = e.node \/ p \in values[s][w]
      BY <2>2
    <3> QED
      BY <2>2, <3>1, <3>2
  <2>4. VotersParticipate'
    <3>1. \A p \in PublicKey, s \in Slot :
             externalized'[<<p, s>>].value # None => p \in participating'
      BY <2>1, <2>2, OthersKept
    <3> QED
      BY <2>3, <3>1
  <2>5. ValidatorsParticipate'
    <3>1. CASE ExternalizeOnly(c, e)
      BY <2>2, <3>1 DEF ExternalizeOnly, verdictVars
    <3>2. CASE LedgerCloses(c, e)
      <4>1. PICK s, v : s = e.slot /\ v = e.value
        OBVIOUS
      <4>2. /\ validating' = validating
                  \cup {p \in values'[s][v] : externalized'[<<p, s>>].value = v}
            /\ incorrect' = incorrect
                  \cup (UNION {values'[s][w] : w \in Value \ {v}})
                  \cup {p \in values'[s][v] :
                           externalized'[<<p, s>>].value \notin {v, None}}
        BY <3>2, <4>1, VerdictsAtClose
      <4>3. validating \cup incorrect \subseteq participating'
        BY <2>2
      <4> QED
        BY <2>2, <2>3, <4>1, <4>2, <4>3
    <3> QED
      BY <1>3, <3>1, <3>2
  <2> QED
    BY <2>4, <2>5
<1> QED
  BY <1>1, <1>2, <1>3, LedgerSteps

-----------------------------------------------------------------------------
(* Lags *)

\* A known time is a number.
LEMMA KnownTimes ==
    ASSUME KnowledgeOK, NEW s \in Slot
    PROVE  /\ \A v \in Value : firstSeen[s][v] # None => firstSeen[s][v] \in Int
           /\ \A p \in PublicKey : externalized[<<p, s>>].value # None =>
                 /\ externalized[<<p, s>>].value \in Value
                 /\ externalized[<<p, s>>].time \in Int
<1>1. \A v \in Value : firstSeen[s][v] # None => firstSeen[s][v] \in Int
  BY DEF KnowledgeOK, SlotTypeOK, Time
<1>2. ASSUME NEW p \in PublicKey, externalized[<<p, s>>].value # None
      PROVE  /\ externalized[<<p, s>>].value \in Value
             /\ externalized[<<p, s>>].time \in Int
  <2>1. <<p, s>> \in Statements
    BY DEF Statements
  <2>2. /\ externalized[<<p, s>>].value \in Value \cup {None}
        /\ externalized[<<p, s>>].time \in Time \cup {None}
    BY <2>1 DEF KnowledgeOK, PeerTypeOK, Externalization
  <2>3. externalized[<<p, s>>].time # None
    BY <1>2, <2>1 DEF KnowledgeOK, TimesKnown
  <2> QED
    BY <1>2, <2>2, <2>3 DEF Time
<1> QED
  BY <1>1, <1>2

LEMMA FirstStep ==
    ASSUME KnowledgeOK, KnowledgeOK', FirstComesFirst, LastCounts, [Next]_vars
    PROVE  FirstComesFirst'
<1> USE DEF FirstComesFirst
<1>1. CASE Unheard
  <2>1. now \in Int /\ now' \in Int /\ now <= now'
    BY <1>1 DEF Unheard, KnowledgeOK, MessageTypeOK, Time
  <2>2. ASSUME NEW s \in Slot, NEW v \in Value, firstSeen[s][v] # None
        PROVE  firstSeen[s][v] <= now'
    <3>1. firstSeen[s][v] \in Int /\ firstSeen[s][v] <= now
      BY <2>2, KnownTimes
    <3> QED
      BY <2>1, <3>1
  <2> QED
    BY <1>1, <2>2 DEF Unheard, slotVars
<1>2. ASSUME NEW c \in Conn, NEW e \in Envelope, TooLate(c, e)
      PROVE  FirstComesFirst'
  <2>1. Externalize(c, e) /\ UNCHANGED <<slotVars, ledgerVars>> /\ e.value \in Value
        /\ e.slot \in Slot
    BY <1>2, LateParts, Heard
  <2> SUFFICES ASSUME NEW p \in PublicKey, NEW s \in Slot,
                      externalized'[<<p, s>>].value # None,
                      firstSeen[s][externalized'[<<p, s>>].value] # None
               PROVE  externalized'[<<p, s>>].time
                          >= firstSeen[s][externalized'[<<p, s>>].value] - 1
    BY <2>1 DEF slotVars, ledgerVars
  <2>2. CASE p = e.node /\ s = e.slot
    <3>1. /\ externalized'[<<p, s>>].value = e.value
          /\ externalized'[<<p, s>>].time = now
      BY <2>1, <2>2, OthersKept
    <3>2. firstSeen[s][e.value] \in Int /\ firstSeen[s][e.value] <= now /\ now \in Int
      BY <2>1, <3>1, KnownTimes, LedgerNumbers
    <3> QED
      BY <3>1, <3>2
  <2>3. CASE ~(p = e.node /\ s = e.slot)
    BY <2>1, <2>3, OthersKept
  <2> QED
    BY <2>2, <2>3
<1>3. ASSUME NEW c \in Conn, NEW e \in Envelope, ExternalizeCounted(c, e)
      PROVE  FirstComesFirst'
  <2>1. /\ Externalize(c, e) /\ e.slot \in Slot /\ e.value \in Value
        /\ now \in Int /\ now' \in Int /\ now' >= now /\ now' <= now + 1
        /\ e.slot > latest
        /\ firstSeen[e.slot][e.value] # None =>
              firstSeen'[e.slot][e.value] = firstSeen[e.slot][e.value]
        /\ firstSeen[e.slot][e.value] = None => firstSeen'[e.slot][e.value] = now'
        /\ \A r \in Slot, w \in Value : r # e.slot \/ w # e.value =>
              firstSeen'[r][w] = firstSeen[r][w]
    BY <1>3, Heard, CountedVote, LedgerNumbers
       DEF ExternalizeCounted, KnowledgeOK, MessageTypeOK, Time
  <2>2. ASSUME NEW s \in Slot, NEW v \in Value, firstSeen'[s][v] # None
        PROVE  firstSeen'[s][v] <= now'
    <3>1. CASE firstSeen[s][v] # None
      <4>1. firstSeen[s][v] \in Int /\ firstSeen[s][v] <= now
        BY <3>1, KnownTimes
      <4> QED
        BY <2>1, <3>1, <4>1
    <3>2. CASE firstSeen[s][v] = None
      BY <2>1, <2>2, <3>2
    <3> QED
      BY <3>1, <3>2
  <2>3. ASSUME NEW p \in PublicKey, NEW s \in Slot,
               externalized'[<<p, s>>].value # None,
               firstSeen'[s][externalized'[<<p, s>>].value] # None
        PROVE  externalized'[<<p, s>>].time
                   >= firstSeen'[s][externalized'[<<p, s>>].value] - 1
    <3>1. CASE p = e.node /\ s = e.slot
      <4>1. /\ externalized'[<<p, s>>].value = e.value
            /\ externalized'[<<p, s>>].time = now
        BY <2>1, <3>1, OthersKept
      <4>2. firstSeen'[s][e.value] <= now' /\ firstSeen'[s][e.value] \in Int
        BY <2>1, <2>2, <2>3, <3>1, <4>1 DEF KnowledgeOK, SlotTypeOK, Time
      <4> QED
        BY <2>1, <4>1, <4>2
    <3>2. CASE ~(p = e.node /\ s = e.slot)
      <4>1. PICK w : w = externalized[<<p, s>>].value
        OBVIOUS
      <4>2. externalized'[<<p, s>>] = externalized[<<p, s>>]
        BY <2>1, <3>2, OthersKept
      <4>3. w # None /\ w \in Value
        BY <2>3, <4>1, <4>2, KnownTimes
      <4>4. firstSeen[s][w] # None
        <5>1. CASE s = e.slot /\ w = e.value
          <6>1. p \in values[s][w]
            BY <2>1, <4>1, <4>3, <5>1 DEF LastCounts
          <6> QED
            BY <4>3, <6>1 DEF KnowledgeOK, TimesKnown
        <5>2. CASE s # e.slot \/ w # e.value
          BY <2>1, <2>3, <4>1, <4>2, <4>3, <5>2
        <5> QED
          BY <5>1, <5>2
      <4>5. firstSeen'[s][w] = firstSeen[s][w]
        BY <2>1, <4>3, <4>4
      <4> QED
        BY <4>1, <4>2, <4>3, <4>4, <4>5
    <3> QED
      BY <3>1, <3>2
  <2> QED
    BY <2>2, <2>3
<1> QED
  BY <1>1, <1>2, <1>3, LedgerSteps DEF ExternalizeOnly, LedgerCloses

LEMMA LagStep ==
    ASSUME KnowledgeOK, KnowledgeOK', FirstComesFirst, FirstComesFirst',
           LagFromTheFirst, [Next]_vars
    PROVE  LagFromTheFirst'
<1> USE DEF LagFromTheFirst
<1>1. CASE UNCHANGED verdictVars
  BY <1>1 DEF verdictVars
<1>2. ASSUME NEW c \in Conn, NEW e \in Envelope, ExternalizeClosed(c, e)
      PROVE  LagFromTheFirst'
  <2>1. PICK v, t, q : /\ v = closed[e.slot] /\ t = firstSeen[e.slot][v]
                       /\ q = <<e.node, e.slot>>
    OBVIOUS
  <2>2. /\ v \in Value /\ t \in Time
        /\ lag'[q] = IF e.value = v THEN now - t ELSE lag[q]
        /\ \A r \in Statements : r # q => lag'[r] = lag[r]
    BY <1>2, <2>1, VerdictOnOne
  <2>3. t \in Int /\ now \in Int /\ t <= now
    <3>1. t \in Int /\ t # None /\ now \in Int
      BY <2>2, NoneIsApart, LedgerNumbers DEF Time
    <3> QED
      BY <2>1, <2>2, <3>1, EnvelopeParts DEF FirstComesFirst
  <2> QED
    BY <2>2, <2>3
<1>3. ASSUME NEW c \in Conn, NEW e \in Envelope, LedgerCloses(c, e)
      PROVE  LagFromTheFirst'
  <2>1. PICK s, v, t : s = e.slot /\ v = e.value /\ t = firstSeen'[s][v]
    OBVIOUS
  <2>2. s \in Slot /\ v \in Value /\ t \in Int /\ t # None
    BY <1>3, <2>1, Heard, CountedVote, NoneIsApart
       DEF LedgerCloses, ExternalizeCounted, Time
  <2>3. \A q \in Statements :
           lag'[q] = IF /\ q[1] \in values'[s][v] /\ q[2] = s
                        /\ externalized'[q].value = v
                     THEN externalized'[q].time - t
                     ELSE lag[q]
    BY <1>3, <2>1, VerdictsAtClose
  <2> SUFFICES ASSUME NEW q \in Statements, q[2] = s, externalized'[q].value = v
               PROVE  externalized'[q].time - t >= -1
    BY <2>3
  <2>4. q = <<q[1], s>> /\ q[1] \in PublicKey
    BY DEF Statements
  <2>5. PICK x : x = externalized'[q].time
    OBVIOUS
  <2>6. x \in Int
    <3>1. x \in Time \cup {None} /\ x # None
      BY <2>2, <2>5, NoneIsApart
         DEF KnowledgeOK, PeerTypeOK, TimesKnown, Externalization
    <3> QED
      BY <3>1 DEF Time
  <2>7. x >= t - 1
    BY <2>1, <2>2, <2>4, <2>5, NoneIsApart DEF FirstComesFirst
  <2> QED
    BY <2>2, <2>5, <2>6, <2>7
<1>4. ASSUME NEW c \in Conn, NEW e \in Envelope, ExternalizeOld(c, e) \/ ExternalizeOnly(c, e)
      PROVE  UNCHANGED verdictVars
  BY <1>4 DEF ExternalizeOld, ExternalizeOnly
<1> QED
  BY <1>1, <1>2, <1>3, <1>4, LedgerSteps DEF TooLate, Unheard

-----------------------------------------------------------------------------
(* Every verdict is given *)

\* The verdict VerdictsComplete asks for.
HasVerdict(p, s) ==
    LET v == externalized[<<p, s>>].value IN
    closed[s] # None /\ v # None =>
        IF v = closed[s] THEN p \in validating /\ lag[<<p, s>>] # None
        ELSE p \in incorrect

\* A verdict stays when its slot and the message it is about do.
LEMMA VerdictStays ==
    ASSUME NEW p \in PublicKey, NEW s \in Slot, HasVerdict(p, s),
           closed'[s] = closed[s],
           externalized'[<<p, s>>] = externalized[<<p, s>>],
           lag'[<<p, s>>] = lag[<<p, s>>],
           validating \subseteq validating', incorrect \subseteq incorrect'
    PROVE  HasVerdict(p, s)'
BY DEF HasVerdict

LEMMA VerdictStep ==
    ASSUME KnowledgeOK, KnowledgeOK', LastCounts, VerdictsComplete, [Next]_vars
    PROVE  VerdictsComplete'
<1> SUFFICES ASSUME NEW p \in PublicKey, NEW s \in Slot
             PROVE  HasVerdict(p, s)'
  BY DEF VerdictsComplete, HasVerdict
<1>1. HasVerdict(p, s) /\ <<p, s>> \in Statements
  BY DEF VerdictsComplete, HasVerdict, Statements
<1>2. CASE Unheard
  BY <1>1, <1>2, VerdictStays DEF Unheard, slotVars, verdictVars
<1>3. ASSUME NEW c \in Conn, NEW e \in Envelope, ExternalizeClosed(c, e)
      PROVE  HasVerdict(p, s)'
  <2>1. PICK v, t, q : /\ v = closed[e.slot] /\ t = firstSeen[e.slot][v]
                       /\ q = <<e.node, e.slot>>
    OBVIOUS
  <2>2. /\ v \in Value /\ t \in Time
        /\ validating' = validating \cup {n \in {e.node} : e.value = v}
        /\ incorrect' = incorrect \cup {n \in {e.node} : e.value # v}
        /\ lag'[q] = IF e.value = v THEN now - t ELSE lag[q]
        /\ \A r \in Statements : r # q => lag'[r] = lag[r]
    BY <1>3, <2>1, VerdictOnOne
  <2>3. Externalize(c, e) /\ closed' = closed
    BY <1>3 DEF ExternalizeClosed, slotVars
  <2>4. CASE p = e.node /\ s = e.slot
    <3>1. externalized'[<<p, s>>].value = e.value
      BY <2>3, <2>4, OthersKept
    <3>2. now - t # None
      BY <2>2, LedgerNumbers, PeerNodesAssumption DEF Time
    <3> QED
      BY <2>1, <2>2, <2>3, <2>4, <3>1, <3>2 DEF HasVerdict
  <2>5. CASE ~(p = e.node /\ s = e.slot)
    <3>1. externalized'[<<p, s>>] = externalized[<<p, s>>]
      BY <2>3, <2>5, OthersKept
    <3>2. lag'[<<p, s>>] = lag[<<p, s>>]
      BY <1>1, <2>1, <2>2, <2>5
    <3> QED
      BY <1>1, <2>2, <2>3, <3>1, <3>2, VerdictStays
  <2> QED
    BY <2>4, <2>5
<1>4. ASSUME NEW c \in Conn, NEW e \in Envelope, ExternalizeOld(c, e)
      PROVE  HasVerdict(p, s)'
  <2>1. Externalize(c, e) /\ UNCHANGED <<verdictVars, slotVars>> /\ closed[e.slot] = None
    BY <1>4 DEF ExternalizeOld
  <2>2. CASE s = e.slot
    BY <2>1, <2>2 DEF HasVerdict, slotVars
  <2>3. CASE s # e.slot
    BY <1>1, <2>1, <2>3, OthersKept, VerdictStays DEF slotVars, verdictVars
  <2> QED
    BY <2>2, <2>3
<1>5. ASSUME NEW c \in Conn, NEW e \in Envelope, ExternalizeOnly(c, e)
      PROVE  HasVerdict(p, s)'
  <2>1. /\ Externalize(c, e) /\ UNCHANGED verdictVars /\ closed'[e.slot] = None
        /\ \A r \in Slot : r # e.slot => closed'[r] = closed[r]
    BY <1>5, CountedVote DEF ExternalizeOnly, ExternalizeCounted
  <2>2. CASE s = e.slot
    BY <2>1, <2>2 DEF HasVerdict
  <2>3. CASE s # e.slot
    BY <1>1, <2>1, <2>3, OthersKept, VerdictStays DEF verdictVars
  <2> QED
    BY <2>2, <2>3
<1>6. ASSUME NEW c \in Conn, NEW e \in Envelope, LedgerCloses(c, e)
      PROVE  HasVerdict(p, s)'
  <2>1. PICK r, v, t, N : /\ r = e.slot /\ v = e.value /\ t = firstSeen'[r][v]
                          /\ N = values'[r][v]
    OBVIOUS
  <2>2. /\ Externalize(c, e) /\ r > latest /\ r \in Slot /\ v \in Value
        /\ closed'[r] = v /\ t \in Time
        /\ \A i \in Slot : i # r => closed'[i] = closed[i]
        /\ values'[r][v] = values[r][v] \cup {e.node}
        /\ \A w \in Value : w # v => values'[r][w] = values[r][w]
    BY <1>6, <2>1, Heard, CountedVote DEF LedgerCloses, ExternalizeCounted
  <2>3. /\ validating' = validating
              \cup {n \in N : externalized'[<<n, r>>].value = v}
        /\ incorrect' = incorrect
              \cup (UNION {values'[r][w] : w \in Value \ {v}})
              \cup {n \in N : externalized'[<<n, r>>].value \notin {v, None}}
        /\ \A q \in Statements :
              lag'[q] = IF q[1] \in N /\ q[2] = r /\ externalized'[q].value = v
                        THEN externalized'[q].time - t ELSE lag[q]
    BY <1>6, <2>1, VerdictsAtClose
  <2>4. CASE s # r
    <3>1. externalized'[<<p, s>>] = externalized[<<p, s>>]
      BY <2>1, <2>2, <2>4, OthersKept
    <3>2. lag'[<<p, s>>] = lag[<<p, s>>]
      BY <1>1, <2>3, <2>4
    <3> QED
      BY <1>1, <2>2, <2>3, <2>4, <3>1, <3>2, VerdictStays
  <2>5. CASE s = r /\ externalized'[<<p, r>>].value # None
    <3>1. PICK x : x = externalized'[<<p, r>>]
      OBVIOUS
    <3>2. x.value \in Value /\ x.time \in Time
      BY <1>1, <2>5, <3>1
         DEF KnowledgeOK, PeerTypeOK, TimesKnown, Externalization
    <3>3. p \in values'[r][x.value]
      <4>1. CASE p = e.node
        BY <2>1, <2>2, <2>5, <3>1, <4>1, OthersKept
      <4>2. CASE p # e.node
        <5>1. x = externalized[<<p, r>>]
          BY <2>1, <2>2, <3>1, <4>2, OthersKept
        <5>2. p \in values[r][x.value]
          BY <2>2, <3>1, <2>5, <5>1 DEF LastCounts
        <5> QED
          BY <2>2, <3>2, <5>2
      <4> QED
        BY <4>1, <4>2
    <3>4. CASE x.value = v
      <4>1. p \in N
        BY <2>1, <3>3, <3>4
      <4>2. p \in validating'
        BY <2>3, <3>1, <3>4, <4>1
      <4>3. lag'[<<p, r>>] = x.time - t
        BY <1>1, <2>3, <2>5, <3>1, <3>4, <4>1
      <4>4. x.time - t # None
        BY <2>2, <3>2, PeerNodesAssumption DEF Time
      <4> QED
        BY <2>2, <2>5, <3>1, <3>4, <4>2, <4>3, <4>4 DEF HasVerdict
    <3>5. CASE x.value # v
      <4>1. p \in incorrect'
        BY <2>3, <3>2, <3>3, <3>5
      <4> QED
        BY <2>2, <2>5, <3>1, <3>5, <4>1 DEF HasVerdict
    <3> QED
      BY <3>4, <3>5
  <2>6. CASE s = r /\ externalized'[<<p, r>>].value = None
    BY <2>6 DEF HasVerdict
  <2> QED
    BY <2>4, <2>5, <2>6
<1> QED
  BY <1>2, <1>3, <1>4, <1>5, <1>6, LedgerSteps DEF TooLate

-----------------------------------------------------------------------------
(* The cache *)

\* A valid vote that could still close its slot was counted.
Counted(e) ==
    e.signed /\ e.value # None /\ Confirmable(e.slot)
        => e.node \in values[e.slot][e.value]

\* What is in the cache was counted if it had to be. That is inductive, and leaves
\* of the duplicates of an entry only those that the entry stole the signature of.
CachedIsCounted == \A i \in 1 .. Len(cache) : Counted(cache[i])

LEMMA CountedStays ==
    ASSUME KnowledgeOK, [Next]_vars, NEW f \in Envelope, Counted(f)
    PROVE  Counted(f)'
<1>1. CASE UNCHANGED <<slotVars, latest>>
  BY <1>1 DEF slotVars, Counted, Confirmable
<1>2. ASSUME NEW c \in Conn, NEW e \in Envelope,
             ExternalizeOnly(c, e) \/ LedgerCloses(c, e)
      PROVE  Counted(f)'
  <2>1. ExternalizeCounted(c, e)
    BY <1>2 DEF ExternalizeOnly, LedgerCloses
  <2>2. /\ closed[e.slot] = None /\ \A r \in Slot : r # e.slot => closed'[r] = closed[r]
        /\ values'[e.slot][e.value] = values[e.slot][e.value] \cup {e.node}
        /\ \A r \in Slot, w \in Value : r # e.slot \/ w # e.value =>
              values'[r][w] = values[r][w]
    BY <2>1, CountedVote
  <2> SUFFICES ASSUME f.signed, f.value # None, closed'[f.slot] = None,
                      f.slot > latest'
               PROVE  f.node \in values'[f.slot][f.value]
    BY DEF Counted, Confirmable
  <2>3. f.slot \in Slot /\ f.value \in Value
    BY EnvelopeParts
  <2>4. Confirmable(f.slot)
    BY <1>2, <2>2, <2>3, LatestGrows DEF Confirmable
  <2>5. f.node \in values[f.slot][f.value]
    BY <2>4 DEF Counted
  <2> QED
    BY <2>2, <2>3, <2>5
<1>3. ASSUME NEW c \in Conn, NEW e \in Envelope, TooLate(c, e)
      PROVE  UNCHANGED <<slotVars, latest>>
  BY <1>3, LateParts DEF ledgerVars
<1>4. Unheard => UNCHANGED <<slotVars, latest>>
  BY DEF Unheard
<1> QED
  BY <1>1, <1>2, <1>3, <1>4, LedgerSteps

\* An envelope that has just been handled is counted if it has to be.
LEMMA HandledIsCounted ==
    ASSUME KnowledgeOK, LatestIsLast, [Next]_vars, NEW c \in Conn,
           NEW e \in Envelope, EnvelopeStep(c, e)
    PROVE  Counted(e)'
<1>1. e.slot \in Slot /\ e.slot \in Int /\ latest \in Int
  BY EnvelopeParts, LedgerNumbers
<1>2. CASE EnvelopeTooOld(c, e)
  <2>1. ~(e.slot > latest)
    BY <1>1, <1>2, EnvelopeAssumption DEF EnvelopeTooOld, LedgerSequenceValid
  <2> QED
    BY <1>2, <2>1 DEF EnvelopeTooOld, Counted, Confirmable, ledgerVars
<1>3. CASE EnvelopeRefused(c, e) \/ OtherStatement(c, e)
  BY <1>3 DEF EnvelopeRefused, OtherStatement, SignatureOK, Counted
<1>4. CASE TooLate(c, e)
  BY <1>4, LateSlot, LateParts DEF Counted, Confirmable, ledgerVars
<1>5. CASE ExternalizeOnly(c, e) \/ LedgerCloses(c, e)
  <2>1. ExternalizeCounted(c, e)
    BY <1>5 DEF ExternalizeOnly, LedgerCloses
  <2>2. values'[e.slot][e.value] = values[e.slot][e.value] \cup {e.node}
    BY <2>1, CountedVote
  <2> QED
    BY <2>2 DEF Counted
<1> QED
  BY <1>2, <1>3, <1>4, <1>5 DEF EnvelopeStep, TooLate

LEMMA CacheStep ==
    ASSUME KnowledgeOK, LatestIsLast, CachedIsCounted, [Next]_vars
    PROVE  CachedIsCounted'
<1>1. ASSUME NEW i \in 1 .. Len(cache), NEW f, f = cache[i]
      PROVE  Counted(f)'
  <2>1. f \in Envelope /\ Counted(f)
    BY <1>1 DEF CachedIsCounted, KnowledgeOK, MessageTypeOK
  <2> QED
    BY <2>1, CountedStays
<1> SUFFICES ASSUME NEW i \in 1 .. Len(cache'), NEW f, f = cache'[i]
             PROVE  Counted(f)'
  BY DEF CachedIsCounted
<1>2. CASE NoEnvelope
  BY <1>1, <1>2 DEF NoEnvelope
<1>3. ASSUME NEW c \in Conn, NEW e \in Envelope, EnvelopeStep(c, e)
      PROVE  Counted(f)'
  <2>1. cache' = Remember(e)
    BY <1>3 DEF EnvelopeStep, EnvelopeTooOld, EnvelopeRefused, OtherStatement,
       ExternalizeClosed, ExternalizeOld, ExternalizeOnly, LedgerCloses,
       ExternalizeCounted, Externalize, Statement, Received
  <2>2. f = e \/ \E j \in 1 .. Len(cache) : f = cache[j]
    BY <2>1, CacheType DEF KnowledgeOK, MessageTypeOK
  <2> QED
    BY <1>1, <1>3, <2>2, HandledIsCounted
<1> QED
  BY <1>2, <1>3, StepKinds DEF KnowledgeOK

-----------------------------------------------------------------------------
(* The theorems *)

LedgerInv ==
    /\ SaidBySigned /\ ClosedBySlice /\ OpenUndecided /\ LatestIsLast
    /\ LastCounts /\ FirstComesFirst /\ VotersParticipate
    /\ HonestNotBlamed /\ ValidatorsParticipate /\ LagFromTheFirst
    /\ VerdictsComplete /\ CachedIsCounted

LEMMA LedgerInvInit == Init => LedgerInv
<1> SUFFICES ASSUME Init PROVE LedgerInv
  OBVIOUS
<1> USE DEF Init, PeerInit, SlotInit
<1>1. SaidBySigned /\ VotersParticipate /\ LastCounts /\ FirstComesFirst
  BY DEF SaidBySigned, VotersParticipate, LastCounts, FirstComesFirst, Statements
<1>2. ClosedBySlice /\ LatestIsLast
  BY DEF ClosedBySlice, LatestIsLast
<1>3. OpenUndecided
  BY SlicesAssumption DEF OpenUndecided, ContainsSlice
<1>4. HonestNotBlamed /\ ValidatorsParticipate
  BY DEF HonestNotBlamed, ValidatorsParticipate
<1>5. LagFromTheFirst /\ VerdictsComplete /\ CachedIsCounted
  BY DEF LagFromTheFirst, VerdictsComplete, CachedIsCounted
<1> QED
  BY <1>1, <1>2, <1>3, <1>4, <1>5 DEF LedgerInv

LEMMA LedgerInvStep ==
    ASSUME KnowledgeOK, KnowledgeOK', LedgerInv, [Next]_vars
    PROVE  LedgerInv'
<1> USE DEF LedgerInv
<1>1. SaidBySigned' /\ HonestNotBlamed'
  BY SignedStep, HonestStep
<1>2. ClosedBySlice' /\ OpenUndecided' /\ LatestIsLast'
  BY SliceStep
<1>3. LastCounts' /\ VotersParticipate' /\ ValidatorsParticipate'
  BY LastCountsStep, ParticipantsStep
<1>4. FirstComesFirst'
  BY FirstStep
<1>5. LagFromTheFirst'
  BY <1>4, LagStep
<1>6. VerdictsComplete' /\ CachedIsCounted'
  BY VerdictStep, CacheStep
<1> QED
  BY <1>1, <1>2, <1>3, <1>4, <1>5, <1>6

LEMMA LedgersCorrect == Spec => [](KnowledgeOK /\ LedgerInv)
<1>1. Init => KnowledgeOK /\ LedgerInv
  BY KnowledgeInit, LedgerInvInit
<1>2. KnowledgeOK /\ LedgerInv /\ [Next]_vars => (KnowledgeOK /\ LedgerInv)'
  BY KnowledgeStep, LedgerInvStep
<1> QED
  BY <1>1, <1>2, PTL DEF Spec

\* No honest node is ever reported as validating incorrect values, whatever the
\* others send, replay or sign, as long as each slice of the trusted quorum set
\* has an honest node (slot.ts, peer-node.ts).
THEOREM HonestNeverBlamed == Spec => []HonestNotBlamed
<1>1. LedgerInv => HonestNotBlamed
  BY DEF LedgerInv
<1> QED
  BY <1>1, LedgersCorrect, PTL

\* Each node whose externalize message of a closed slot was handled has its
\* verdict, in whatever order messages and the close came (peer-node.ts:36).
THEOREM EveryVerdictGiven == Spec => []VerdictsComplete
<1>1. LedgerInv => VerdictsComplete
  BY DEF LedgerInv
<1> QED
  BY <1>1, LedgersCorrect, PTL

\* Ledgers close in order, each as the latest (slots.ts,
\* externalize-statement-handler.ts:46, scp-statement-handler.ts:78).
THEOREM LedgersInOrder == Spec => LedgersCloseInOrder
<1>1. KnowledgeOK /\ LedgerInv /\ [Next]_vars
          => [\A s \in Slot : closed[s] = None /\ closed'[s] # None
                                  => s > latest /\ latest' = s]_vars
  <2> SUFFICES ASSUME KnowledgeOK, [Next]_vars, NEW s \in Slot,
                      closed[s] = None, closed'[s] # None
               PROVE  s > latest /\ latest' = s
    OBVIOUS
  <2>1. PICK c \in Conn, e \in Envelope : s = e.slot /\ LedgerCloses(c, e)
    BY ClosesByVote
  <2> QED
    BY <2>1, CountedVote, CloseIsLatest DEF LedgerCloses
<1> QED
  BY <1>1, LedgersCorrect, PTL DEF Spec, LedgersCloseInOrder

\* Nobody is ahead of the first node that externalized a value by more than the
\* time between two clock readings of one handler (slot.ts:64).
THEOREM LagsFromTheFirst == Spec => []LagFromTheFirst
<1>1. LedgerInv => LagFromTheFirst
  BY DEF LedgerInv
<1> QED
  BY <1>1, LedgersCorrect, PTL

\* An envelope cache of whatever size drops no vote that could still close a
\* ledger and was not counted, unless an entry refused for its signature carries
\* the signature of the vote (scp-envelope-handler.ts:25-36, :74-76).
THEOREM DuplicatesWereCounted == Spec => []DuplicateIsCounted
<1>1. KnowledgeOK /\ CachedIsCounted => DuplicateIsCounted
  <2> SUFFICES ASSUME KnowledgeOK, CachedIsCounted, NEW e \in Envelope,
                      IsCached(e), e.signed, e.value # None, Confirmable(e.slot),
                      \A i \in 1 .. Len(cache) : cache[i].id = e.id => cache[i].signed
               PROVE  e.node \in values[e.slot][e.value]
    BY DEF DuplicateIsCounted
  <2>1. PICK i \in 1 .. Len(cache) : cache[i].id = e.id
    BY DEF IsCached
  <2>2. cache[i] \in Envelope /\ cache[i].signed
    BY <2>1 DEF KnowledgeOK, MessageTypeOK
  <2>3. cache[i] = e
    BY <2>1, <2>2, SignatureAssumption
  <2> QED
    BY <2>3 DEF CachedIsCounted, Counted
<1> QED
  BY <1>1, LedgersCorrect, PTL DEF LedgerInv

\* Whoever is reported as validating, rightly or not, is reported as
\* participating (scp-statement-handler.ts:46).
THEOREM ValidatorsReported == Spec => []ValidatorsParticipate
<1>1. LedgerInv => ValidatorsParticipate
  BY DEF LedgerInv
<1> QED
  BY <1>1, LedgersCorrect, PTL

-----------------------------------------------------------------------------
(* The slots implement the chain of ledgers *)

LEMMA ChainInit == Init => Chain!Init
BY DEF Init, SlotInit, Chain!Init

LEMMA ChainStep ==
    ASSUME KnowledgeOK, OpenUndecided, [Next]_vars
    PROVE  [Chain!Next]_Chain!vars
<1>1. CASE UNCHANGED <<slotVars, latest>>
  BY <1>1 DEF slotVars, Chain!vars
<1>2. ASSUME NEW c \in Conn, NEW e \in Envelope, ExternalizeCounted(c, e),
             \/ ~ClosesSlot(e.node, e.slot, e.value) /\ UNCHANGED latest
             \/ ClosesSlot(e.node, e.slot, e.value) /\ latest' = e.slot
      PROVE  Chain!Vote(e.node, e.slot, e.value)
  <2> DEFINE votes == {w \in PublicKey \X Slot \X Value : w[1] \in values[w[2]][w[3]]}
  <2>1. /\ e.node \in PublicKey /\ e.slot \in Slot /\ e.value \in Value
        /\ e.slot > latest /\ closed[e.slot] = None
        /\ values'[e.slot][e.value] = values[e.slot][e.value] \cup {e.node}
        /\ \A r \in Slot, w \in Value : r # e.slot \/ w # e.value =>
              values'[r][w] = values[r][w]
    BY <1>2, Heard, CountedVote DEF ExternalizeCounted
  <2>2. votes' = votes \cup {<<e.node, e.slot, e.value>>}
    <3>1. ASSUME NEW n \in PublicKey, NEW s \in Slot, NEW v \in Value
          PROVE  n \in values'[s][v] <=>
                     n \in values[s][v] \/ <<n, s, v>> = <<e.node, e.slot, e.value>>
      BY <2>1
    <3>2. ASSUME NEW w \in PublicKey \X Slot \X Value
          PROVE  w \in votes' <=> w \in votes \cup {<<e.node, e.slot, e.value>>}
      BY <3>1
    <3> QED
      BY <2>1, <3>2
  <2>3. Chain!Decided(votes', e.slot, e.value)
            <=> ContainsSlice(values'[e.slot][e.value])
    BY <2>1, SlicesAssumption DEF Chain!Decided, ContainsSlice
  <2>4. ContainsSlice(values'[e.slot][e.value])
            <=> ClosesSlot(e.node, e.slot, e.value)
    BY <1>2, VoteCompletes
  <2>5. closed' = [closed EXCEPT ![e.slot] = IF ClosesSlot(e.node, e.slot, e.value)
                                             THEN e.value ELSE @]
    BY <1>2 DEF ExternalizeCounted, AddExternalizeValue
  <2>6. ~ClosesSlot(e.node, e.slot, e.value) => UNCHANGED closed
    BY <2>5 DEF KnowledgeOK, SlotTypeOK
  <2> QED
    BY <1>2, <2>1, <2>2, <2>3, <2>4, <2>5, <2>6 DEF Chain!Vote
<1>3. ASSUME NEW c \in Conn, NEW e \in Envelope, TooLate(c, e)
      PROVE  UNCHANGED <<slotVars, latest>>
  BY <1>3, LateParts DEF ledgerVars
<1>4. Unheard => UNCHANGED <<slotVars, latest>>
  BY DEF Unheard
<1>5. ASSUME NEW c \in Conn, NEW e \in Envelope,
             ExternalizeOnly(c, e) \/ LedgerCloses(c, e)
      PROVE  Chain!Next
  <2>1. e.node \in PublicKey /\ e.slot \in Slot /\ e.value \in Value
    BY <1>5, Heard DEF ExternalizeOnly, LedgerCloses, ExternalizeCounted
  <2>2. Chain!Vote(e.node, e.slot, e.value)
    BY <1>2, <1>5, CloseIsLatest DEF ExternalizeOnly, LedgerCloses
  <2> QED
    BY <2>1, <2>2 DEF Chain!Next
<1> QED
  BY <1>1, <1>3, <1>4, <1>5, LedgerSteps

\* Slots close as LedgerChain says: with the vote that completes a slice, no
\* sooner and no later, in order and each once (slot.ts, slots.ts).
THEOREM SlotsImplementChain == Spec => ImplementsChain
<1>1. KnowledgeOK /\ LedgerInv /\ [Next]_vars => [Chain!Next]_Chain!vars
  BY ChainStep DEF LedgerInv
<1> QED
  BY <1>1, ChainInit, LedgersCorrect, PTL DEF Spec, ImplementsChain, Chain!Spec

=============================================================================

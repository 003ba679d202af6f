-------------------------- MODULE StellarMessages --------------------------
(***************************************************************************)
(* on-peer-data.ts, stellar-message-handler.ts and the handlers of SCP     *)
(* envelopes: what one observation learns from the messages of the nodes   *)
(* it is connected to: quorum sets, closed ledgers, and which nodes        *)
(* validate how fast.                                                      *)
(*                                                                         *)
(* The observation and its connections are those of ObservationLife: the   *)
(* environment of the message handlers.                                    *)
(***************************************************************************)
EXTENDS QuorumSetManager, Slots, Sequences

CONSTANTS
    Envelope,   \* the SCP envelopes that nodes may send or relay
    CacheMax,   \* size of the LRU cache of envelopes
    MaxDrift,   \* MAX_LEDGER_DRIFT
    Honest,     \* nodes that externalize one and the same value for a slot
    KnownLedger,  \* sequence of the ledger given to CrawlFactory.createCrawl
    KnownIsAged,  \* that ledger is old by now
    Sent        \* bound: the kinds of messages that nodes send

\* An envelope is a signature, which id stands for, and a statement of a node
\* about a slot with the hash of its quorum set; value is None unless the
\* statement is an externalize. signed says whether the signature is valid for
\* the statement: anybody can put a signature under another statement.
EnvelopeType ==
    [id : Nat, node : PublicKey, slot : Slot, value : Value \cup {None},
     hash : Hash, signed : BOOLEAN]

ASSUME EnvelopeAssumption ==
    /\ Envelope \subseteq EnvelopeType
    /\ CacheMax \in Nat \ {0} /\ MaxDrift \in Nat
    /\ KnownLedger \in 0 .. LastSlot /\ KnownIsAged \in BOOLEAN
    /\ Sent \subseteq {"scpMessage", "peers", "scpQuorumset", "dontHave", "errorMsg"}

\* A signature is valid for one statement.
ASSUME SignatureAssumption ==
    \A e, f \in Envelope : e.signed /\ f.signed /\ e.id = f.id => e = f

\* At least one honest node in each slice, and honest nodes agree.
ASSUME HonestAssumption ==
    /\ \A q \in Slices : q \cap Honest # {}
    /\ \A e, f \in Envelope :
          /\ e.signed /\ f.signed
          /\ {e.node, f.node} \subseteq Honest
          /\ e.slot = f.slot
          /\ None \notin {e.value, f.value}
          => e.value = f.value

VARIABLES
    cache,    \* envelopeCache, the oldest first
    latest,   \* sequence of latestConfirmedClosedLedger
    aged,     \* it closed longer than MAX_CLOSED_LEDGER_PROCESSING_TIME ago
    now       \* the clock

ledgerVars == <<latest, aged, now>>

messageVars == <<cache, ledgerVars>>

vars == <<lifeVars, peerVars, quorumSetVars, slotVars, messageVars>>

MessageTypeOK ==
    /\ cache \in Seq(Envelope) /\ Len(cache) <= CacheMax
    /\ latest \in KnownLedger .. LastSlot
    /\ aged \in BOOLEAN
    /\ now \in Time

\* The observation of a new crawl: nothing is known but the latest ledger and
\* the quorum sets of an earlier crawl.
Init ==
    /\ LifeInit /\ PeerInit /\ QuorumSetInit /\ SlotInit
    /\ cache = <<>>
    /\ latest = KnownLedger
    /\ aged = KnownIsAged
    /\ now = 0

-----------------------------------------------------------------------------
(* The observation, its connections and the clock *)

Tick ==
    /\ now < MaxTime
    /\ now' = now + 1
    /\ UNCHANGED <<lifeVars, peerVars, quorumSetVars, slotVars, cache, latest,
                   aged>>

LedgerAges ==
    /\ ~aged
    /\ aged' = TRUE
    /\ UNCHANGED <<lifeVars, peerVars, quorumSetVars, slotVars, cache, latest,
                   now>>

ObservationMoves ==
    /\ PhaseMoves
    /\ UNCHANGED <<peerVars, quorumSetVars, slotVars, messageVars>>

\* addSuccessfullyConnected accepts the node, or refuses it.
Connect(c) ==
    /\ Arrives(c)
    /\ UNCHANGED <<peerVars, quorumSetVars, slotVars, messageVars>>

Disconnect(D) ==
    /\ AreDisconnected(D)
    /\ UNCHANGED <<peerVars, quorumSetVars, slotVars, messageVars>>

\* OnPeerConnectionClosed; without handshake there is no public key
Close(c) ==
    /\ Leaves(c)
    /\ IF conn[c] = "none" THEN UNCHANGED quorumSetVars
       ELSE NodeDisconnected(PublicKeyOf[c[2]])
    /\ UNCHANGED <<peerVars, slotVars, messageVars>>

-----------------------------------------------------------------------------
(* Messages handled in every state of the observation *)

\* A message of this kind arrives from the node behind c.
Receives(c, kind) == conn[c] = "open" /\ kind \in Sent

PeersReceived(c) ==
    /\ Receives(c, "peers")
    /\ SuppliedPeerList(PublicKeyOf[c[2]])
    /\ UNCHANGED <<lifeVars, statementVars, externalized, verdictVars,
                   quorumSetVars, slotVars, messageVars>>

\* An error message with the code errLoad; other codes change nothing
LoadTooHigh(c) ==
    /\ Receives(c, "errorMsg")
    /\ Overloaded(PublicKeyOf[c[2]])
    /\ UNCHANGED <<lifeVars, statementVars, externalized, verdictVars,
                   quorumSetVars, slotVars, messageVars>>

QuorumSetReceived(c, h) ==
    /\ Receives(c, "scpQuorumset")
    /\ ProcessQuorumSet(h, PublicKeyOf[c[2]])
    /\ UNCHANGED <<lifeVars, peerVars, slotVars, messageVars>>

\* A quorum set that cannot be parsed: nothing is processed, the request for
\* it goes on, and the error is answered by disconnecting the sender.
QuorumSetRefused(c) ==
    /\ Receives(c, "scpQuorumset")
    /\ conn' = DisconnectByAddress(conn, active, {c[2]})
    /\ UNCHANGED <<active, phase, joined, peerVars, quorumSetVars, slotVars,
                   messageVars>>

DontHave(c, h) ==
    /\ Receives(c, "dontHave")
    /\ DoesNotHaveQuorumSet(PublicKeyOf[c[2]], h)
    /\ UNCHANGED <<lifeVars, peerVars, slotVars, messageVars>>

RequestTimeout(to, h) ==
    /\ <<to, h>> \in timers
    /\ RequestTimedOut(to, h)
    /\ UNCHANGED <<lifeVars, peerVars, slotVars, messageVars>>

-----------------------------------------------------------------------------
(* SCP envelopes, handled while the observation is synced *)

\* Variant of Remember without limit.
RememberAll(e) == Append(cache, e)

\* The cache forgets its oldest entry when it is full.
Remember(e) ==
    IF Len(cache) < CacheMax THEN Append(cache, e) ELSE Append(Tail(cache), e)

\* The cache looks at nothing but the signature.
IsCached(e) == \E i \in 1 .. Len(cache) : cache[i].id = e.id

\* Variant of LedgerSequenceValid that takes the difference without its sign.
LedgerNear(s) ==
    /\ (IF latest < s THEN s - latest ELSE latest - s) <= MaxDrift
    /\ ~(s <= latest /\ aged)

\* isLedgerSequenceValid
LedgerSequenceValid(s) ==
    /\ latest - s <= MaxDrift
    /\ ~(s <= latest /\ aged)

\* verifySignature
SignatureOK(e) == e.signed

\* A new envelope, from the node behind connection c or relayed by it.
Received(c, e) ==
    /\ Receives(c, "scpMessage") /\ phase = "Synced"
    /\ ~IsCached(e)
    /\ cache' = Remember(e)
    /\ UNCHANGED <<active, phase, joined, flagVars>>

EnvelopeTooOld(c, e) ==
    /\ Received(c, e)
    /\ ~LedgerSequenceValid(e.slot)
    /\ UNCHANGED <<conn, statementVars, externalized, verdictVars,
                   quorumSetVars, slotVars, ledgerVars>>

\* The error is answered by disconnecting the sender.
EnvelopeRefused(c, e) ==
    /\ Received(c, e)
    /\ LedgerSequenceValid(e.slot) /\ ~SignatureOK(e)
    /\ conn' = DisconnectByAddress(conn, active, {c[2]})
    /\ UNCHANGED <<statementVars, externalized, verdictVars, quorumSetVars,
                   slotVars, ledgerVars>>

\* ScpStatementHandler.handle
Statement(c, e) ==
    /\ Received(c, e)
    /\ LedgerSequenceValid(e.slot) /\ SignatureOK(e)
    /\ Participates(PublicKeyOf[c[2]], e.node, e.slot)
    /\ ProcessQuorumSetHash(e.node, e.hash)
    /\ UNCHANGED conn

OtherStatement(c, e) ==
    /\ Statement(c, e)
    /\ e.value = None
    /\ UNCHANGED <<externalized, verdictVars, slotVars, ledgerVars>>

\* ExternalizeStatementHandler.handle, up to its branches
Externalize(c, e) ==
    /\ Statement(c, e)
    /\ e.value # None
    /\ externalized' = WithExternalizedValue(e.node, e.slot, e.value, now)

\* The slot is closed: the node is judged at once.
ExternalizeClosed(c, e) ==
    /\ Externalize(c, e)
    /\ closed[e.slot] # None
    /\ Judged(externalized', e.slot, closed[e.slot],
              firstSeen[e.slot][closed[e.slot]], {e.node}, {})
    /\ UNCHANGED <<slotVars, ledgerVars>>

\* Variant of Confirmable that lets a slot close after a later one.
ConfirmableAlways(s) == closed[s] = None

\* Only a slot after the latest closed ledger can still be closed.
Confirmable(s) == closed[s] = None /\ s > latest

ExternalizeOld(c, e) ==
    /\ Externalize(c, e)
    /\ closed[e.slot] = None /\ ~Confirmable(e.slot)
    /\ UNCHANGED <<verdictVars, slotVars, ledgerVars>>

\* attemptSlotCloseConfirmation; it reads the clock a second time.
ExternalizeCounted(c, e) ==
    /\ Externalize(c, e)
    /\ Confirmable(e.slot)
    /\ now' \in {now, now + 1} \cap Time
    /\ AddExternalizeValue(e.node, e.slot, e.value, now')

ExternalizeOnly(c, e) ==
    /\ ExternalizeCounted(c, e)
    /\ ~ClosesSlot(e.node, e.slot, e.value)
    /\ UNCHANGED <<verdictVars, latest, aged>>

\* ScpStatementHandler reports a ledger that closed if it is after the latest.
NewLatest(s) == IF s > latest THEN s ELSE latest

\* The slot closes: every node that externalized it is judged, and the ledger
\* becomes the latest (Observation.ledgerCloseConfirmed). Its close time is
\* part of the value, so that it can be an old one.
LedgerCloses(c, e) ==
    /\ ExternalizeCounted(c, e)
    /\ ClosesSlot(e.node, e.slot, e.value)
    /\ Judged(externalized', e.slot, e.value, firstSeen'[e.slot][e.value],
              Agreeing(values'[e.slot], e.value),
              Disagreeing(values'[e.slot], e.value))
    /\ latest' = NewLatest(e.slot)
    /\ aged' \in IF e.slot > latest THEN BOOLEAN ELSE {aged}

-----------------------------------------------------------------------------

Next ==
    \/ Tick
    \/ LedgerAges
    \/ ObservationMoves
    \/ \E c \in Conn : Connect(c) \/ Close(c)
    \/ \E D \in SUBSET Conn : Disconnect(D)
    \/ \E c \in Conn : PeersReceived(c) \/ LoadTooHigh(c) \/ QuorumSetRefused(c)
    \/ \E c \in Conn, h \in Hash : QuorumSetReceived(c, h) \/ DontHave(c, h)
    \/ \E to \in Addr, h \in Hash : RequestTimeout(to, h)
    \/ \E c \in Conn, e \in Envelope : EnvelopeTooOld(c, e) \/ EnvelopeRefused(c, e)
    \/ \E c \in Conn, e \in Envelope : OtherStatement(c, e)
    \/ \E c \in Conn, e \in Envelope : ExternalizeClosed(c, e) \/ ExternalizeOld(c, e)
    \/ \E c \in Conn, e \in Envelope : ExternalizeOnly(c, e) \/ LedgerCloses(c, e)

Spec == Init /\ [][Next]_vars

-----------------------------------------------------------------------------
(* Properties *)

\* Every variable keeps to the values its TypeScript counterpart can take.
TypeOK ==
    /\ LifeTypeOK /\ PeerTypeOK /\ QuorumSetTypeOK /\ SlotTypeOK
    /\ MessageTypeOK

\* "Fetches quorumSets in a sequential way" (quorum-set-manager.ts:13): a hash
\* in progress is requested from exactly one node whose timeout is pending, so
\* that it cannot stay in progress for ever, and no other hash from any.
OneRequestAtATime ==
    \A h \in Hash :
        Cardinality({to \in Addr : <<to, h>> \in timers})
            = (IF h \in inProgress THEN 1 ELSE 0)

\* When the quorum set a node announced last is known, the node has one that is
\* known and that it announced itself, whether it did before or after the quorum
\* set arrived. That it is the last one is not true (QuorumSetIsCorrect).
KnownReachesItsNodes ==
    \A p \in PublicKey :
        hashOf[p] \in known => quorumSetOf[p] \in {h \in known : p \in owners[h]}

\* An honest node is never reported as validating incorrect values: a slot
\* closes only with what a whole slice externalized (slot.ts:84), whatever the
\* other nodes send, replay or sign, and no honest node sent another value.
HonestNotBlamed == incorrect \cap Honest = {}

\* Once a slot is closed, each node whose externalize message of that slot was
\* handled, before or after, has its verdict: it validates and its lag is
\* measured, or it validates incorrect values (peer-node.ts:36).
VerdictsComplete ==
    \A p \in PublicKey, s \in Slot :
        LET v == externalized[<<p, s>>].value IN
        closed[s] # None /\ v # None =>
            IF v = closed[s] THEN p \in validating /\ lag[<<p, s>>] # None
            ELSE p \in incorrect

\* Ledgers close in order: a slot that closes is after the latest ledger, and
\* becomes it. If an older one could close, ScpStatementHandler would not report
\* it (scp-statement-handler.ts:78, externalize-statement-handler.ts:46).
LedgersCloseInOrder ==
    [][\A s \in Slot :
          closed[s] = None /\ closed'[s] # None => s > latest /\ latest' = s]_vars

\* A vote that the cache would drop as a duplicate, and that could still close
\* its slot, was counted, although an envelope enters the cache before its ledger
\* and its signature are looked at (scp-envelope-handler.ts:25-36). The exception
\* is real: the cache knows envelopes by their signature alone, and a signature
\* that came with another statement than its own, and was refused, keeps the
\* vote it belongs to out until the cache forgets it.
DuplicateIsCounted ==
    \A e \in Envelope :
        IsCached(e) /\ e.signed /\ e.value # None /\ Confirmable(e.slot) =>
            \/ e.node \in values[e.slot][e.value]
            \/ \E i \in 1 .. Len(cache) : cache[i].id = e.id /\ ~cache[i].signed

\* A node that is reported as validating, rightly or not, is also reported as
\* participating in SCP, even if all that is known of it was relayed by others
\* (scp-statement-handler.ts:46).
ValidatorsParticipate == validating \cup incorrect \subseteq participating

\* A lag is measured from the first node that externalized the value
\* (slot.ts:64): nobody is ahead of it, except by the time between the two
\* clock readings of one handler.
LagFromTheFirst ==
    \A q \in Statements : lag[q] # None => lag[q] >= -1

\* A node that is connected while a quorum set is being requested is asked for
\* it in turn, unless it leaves or the quorum set arrives first.
AskedInTurn ==
    \A h \in Hash, a \in Addr :
        h \in inProgress /\ a \in Tracked(active)
            ~> h \in known \/ a \notin Tracked(active) \/ a \in requestedTo[h]

\* Requests come to an end: no timeout of a request is pending for ever, since
\* a node is asked for a hash once (quorum-set-manager.ts:162-177). Nothing
\* else stops them: they outlive the observation.
RequestsRunOut == <>[](timers = {})

\* Timers fire; no node is obliged to anything.
FairSpec ==
    Spec /\ \A to \in Addr, h \in Hash : WF_vars(RequestTimeout(to, h))

-----------------------------------------------------------------------------
(* The slots implement a chain of ledgers *)

Chain == INSTANCE LedgerChain WITH
    Node <- PublicKey,
    First <- KnownLedger,
    votes <- {w \in PublicKey \X Slot \X Value : w[1] \in values[w[2]][w[3]]},
    ledger <- closed,
    last <- latest

\* A slot closes with the message that completes a slice for a value, after
\* all slots that closed before it, and never again (slot.ts, slots.ts,
\* externalize-statement-handler.ts).
ImplementsChain == Chain!Spec

-----------------------------------------------------------------------------
(* What the documentation says and the code does not keep *)

\* "Makes sure every peerNode that sent a scp message with a hash, gets the
\* correct quorumSet." (quorum-set-manager.ts:14)
QuorumSetIsCorrect ==
    \A p \in PublicKey : hashOf[p] \in known => quorumSetOf[p] = hashOf[p]

\* "don't confirm older slots as this could mess with the lag detection because
\* nodes could relay/replay old externalize messages"
\* (externalize-statement-handler.ts:44): a lag, once measured, stays.
LagIsKept ==
    [][\A q \in Statements : lag[q] # None => lag'[q] = lag[q]]_vars
=============================================================================

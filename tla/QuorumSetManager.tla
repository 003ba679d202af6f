-------------------------- MODULE QuorumSetManager --------------------------
(***************************************************************************)
(* network-observer/quorum-set-manager.ts and quorum-set-state.ts: nodes   *)
(* announce the hash of their quorum set in every statement; an unknown    *)
(* quorum set is requested from one connected node after another, those    *)
(* that announced it first.                                                *)
(*                                                                         *)
(* A quorum set is named by its hash. quorumSetRequests is a map with      *)
(* string keys: it is filled under addresses and looked up under public    *)
(* keys, so both are keys of requests. Replacing an entry leaves the timer *)
(* of the replaced one running: the timers are kept apart.                 *)
(***************************************************************************)
EXTENDS PeerNodes

CONSTANTS
    Hash,            \* hashes of quorum sets
    KnownQuorumSets  \* the ones given to CrawlFactory.createCrawl

ASSUME QuorumSetAssumption ==
    /\ None \notin Hash /\ KnownQuorumSets \subseteq Hash
    /\ Addr \cap PublicKey = {}

VARIABLES
    hashOf,        \* quorumSetHash of each node
    quorumSetOf,   \* quorumSet of each node, by its hash
    known,         \* observation.quorumSets
    owners,        \* quorumSetOwners
    requestedTo,   \* quorumSetRequestedTo
    inProgress,    \* quorumSetHashesInProgress
    requests,      \* quorumSetRequests: the hash requested under a key
    timers         \* pending timeouts: the address asked and the hash

quorumSetVars == <<hashOf, quorumSetOf, known, owners, requestedTo, inProgress,
                   requests, timers>>

QuorumSetTypeOK ==
    /\ hashOf \in [PublicKey -> Hash \cup {None}]
    /\ quorumSetOf \in [PublicKey -> Hash \cup {None}]
    /\ known \subseteq Hash
    /\ owners \in [Hash -> SUBSET PublicKey]
    /\ requestedTo \in [Hash -> SUBSET Addr]
    /\ inProgress \subseteq Hash
    /\ requests \in [Addr \cup PublicKey -> Hash \cup {None}]
    /\ timers \subseteq Addr \X Hash

QuorumSetInit ==
    /\ hashOf = [p \in PublicKey |-> None]
    /\ quorumSetOf = [p \in PublicKey |-> None]
    /\ known = KnownQuorumSets
    /\ owners = [h \in Hash |-> {}]
    /\ requestedTo = [h \in Hash |-> {}]
    /\ inProgress = {}
    /\ requests = [k \in Addr \cup PublicKey |-> None]
    /\ timers = {}

-----------------------------------------------------------------------------

\* The addresses requestQuorumSet can choose from, for hash h announced by the
\* nodes of own: connected owners not asked yet, or else any connected node
\* not asked yet. Which of several comes first is left open.
Candidates(h, own) ==
    LET Unasked == Tracked(active) \ requestedTo[h]
        FromOwners == {a \in joined \cap Unasked : PublicKeyOf[a] \in own} IN
    IF FromOwners # {} THEN FromOwners ELSE Unasked

\* Variant of SendRequest that forgets whom it asked.
SendRequestUnnoted(h, to, req, prog, tim) ==
    /\ requests' = [req EXCEPT ![to] = h]
    /\ inProgress' = prog \cup {h}
    /\ timers' = tim \cup {<<to, h>>}
    /\ UNCHANGED requestedTo

\* sendRequest, with the requests, hashes in progress and timers left by the
\* steps before it
SendRequest(h, to, req, prog, tim) ==
    /\ requestedTo' = [requestedTo EXCEPT ![h] = @ \cup {to}]
    /\ requests' = [req EXCEPT ![to] = h]
    /\ inProgress' = prog \cup {h}
    /\ timers' = tim \cup {<<to, h>>}

\* Nothing is requested.
NoRequest(req, prog, tim) ==
    /\ requests' = req /\ inProgress' = prog /\ timers' = tim
    /\ UNCHANGED requestedTo

\* Variant of Wanted that does not look at the hashes in progress.
WantedUnknown(h, prog) == h \notin known

Wanted(h, prog) == h \notin known \cup prog

\* requestQuorumSet
RequestQuorumSet(h, own, req, prog, tim) ==
    IF Wanted(h, prog) /\ Candidates(h, own) # {}
    THEN \E to \in Candidates(h, own) : SendRequest(h, to, req, prog, tim)
    ELSE NoRequest(req, prog, tim)

\* clearQuorumSetRequest, under the key k: what remains of the requests, the
\* hashes in progress and the timers
ReqWithout(k) == [requests EXCEPT ![k] = None]
ProgWithout(k) == inProgress \ {requests[k]}
TimersWithout(k) == timers \ {<<k, requests[k]>>}

ClearRequest(k) == NoRequest(ReqWithout(k), ProgWithout(k), TimersWithout(k))

-----------------------------------------------------------------------------

\* onNodeDisconnected
NodeDisconnected(p) ==
    /\ ClearRequest(p)
    /\ UNCHANGED <<hashOf, quorumSetOf, known, owners>>

\* processQuorumSetHashFromStatement
ProcessQuorumSetHash(p, h) ==
    /\ hashOf' = [hashOf EXCEPT ![p] = h]
    /\ owners' = [owners EXCEPT ![h] = @ \cup {p}]
    /\ quorumSetOf' = IF h \in known THEN [quorumSetOf EXCEPT ![p] = h]
                      ELSE quorumSetOf
    /\ RequestQuorumSet(h, owners'[h], requests, inProgress, timers)
    /\ UNCHANGED known

\* Variant of ProcessQuorumSet that only tells the sender.
ProcessQuorumSetOfSender(h, sender) ==
    /\ known' = known \cup {h}
    /\ quorumSetOf' = [quorumSetOf EXCEPT ![sender] = h]
    /\ ClearRequest(sender)
    /\ UNCHANGED <<hashOf, owners>>

\* processQuorumSet
ProcessQuorumSet(h, sender) ==
    /\ known' = known \cup {h}
    /\ quorumSetOf' = [p \in PublicKey |->
                          IF p \in owners[h] THEN h ELSE quorumSetOf[p]]
    /\ ClearRequest(sender)
    /\ UNCHANGED <<hashOf, owners>>

\* peerNodeDoesNotHaveQuorumSet
DoesNotHaveQuorumSet(p, h) ==
    /\ IF requests[p] = h
       THEN RequestQuorumSet(h, owners[h], ReqWithout(p), ProgWithout(p),
                             TimersWithout(p))
       ELSE NoRequest(requests, inProgress, timers)
    /\ UNCHANGED <<hashOf, quorumSetOf, known, owners>>

\* Variant of RequestTimedOut that does not ask the next node.
RequestGivenUp(to, h) ==
    /\ NoRequest(ReqWithout(to), inProgress \ {h}, timers \ {<<to, h>>})
    /\ UNCHANGED <<hashOf, quorumSetOf, known, owners>>

\* The timeout of the request for h to the address to: the entry goes,
\* whichever request it is of
RequestTimedOut(to, h) ==
    /\ RequestQuorumSet(h, owners[h], ReqWithout(to), inProgress \ {h},
                        timers \ {<<to, h>>})
    /\ UNCHANGED <<hashOf, quorumSetOf, known, owners>>
=============================================================================

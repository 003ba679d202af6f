--------------------------- MODULE RequestProofs ---------------------------
(***************************************************************************)
(* Theorems about the quorum sets StellarMessages asks for, for every set  *)
(* of addresses, nodes and hashes.                                         *)
(***************************************************************************)
EXTENDS MessageProofs, FiniteSetTheorems

-----------------------------------------------------------------------------
(* The inductive invariant *)

\* Requests are entered under addresses only: what is looked up or cleared under
\* a public key is never there (quorum-set-manager.ts:27, :90, :144, :256).
NoRequestOfKey == \A p \in PublicKey : requests[p] = None

\* A hash is in progress just when a timeout for it is pending, and then there
\* is one only.
OneTimer ==
    /\ \A h \in Hash : h \in inProgress <=> \E to \in Addr : <<to, h>> \in timers
    /\ \A h \in Hash, a, b \in Addr :
          <<a, h>> \in timers /\ <<b, h>> \in timers => a = b

\* A node owns the quorum set whose hash it announced last.
OwnersAnnounced == \A p \in PublicKey : hashOf[p] # None => p \in owners[hashOf[p]]

RequestInv == NoRequestOfKey /\ OneTimer

-----------------------------------------------------------------------------
(* Requests *)

\* Clearing the request under a public key clears nothing.
LEMMA ClearsNothing ==
    ASSUME QuorumSetTypeOK, NoRequestOfKey, NEW p \in PublicKey
    PROVE  /\ ReqWithout(p) = requests /\ ProgWithout(p) = inProgress
           /\ TimersWithout(p) = timers
<1>1. requests[p] = None
  BY DEF NoRequestOfKey
<1>2. ReqWithout(p) = requests
  BY <1>1 DEF ReqWithout, QuorumSetTypeOK
<1>3. None \notin inProgress /\ <<p, None>> \notin timers
  BY QuorumSetAssumption DEF QuorumSetTypeOK
<1> QED
  BY <1>1, <1>2, <1>3 DEF ProgWithout, TimersWithout

\* A request that is sent, or not, when the requests, the hashes in progress
\* and the timers are req, prog and tim.
LEMMA RequestKeeps ==
    ASSUME QuorumSetTypeOK, NEW h \in Hash, NEW own, NEW req \in RequestsType,
           NEW prog \in SUBSET Hash, NEW tim \in SUBSET (Addr \X Hash),
           \A p \in PublicKey : req[p] = None,
           \A g \in Hash : g \in prog <=> \E to \in Addr : <<to, g>> \in tim,
           \A g \in Hash, a, b \in Addr :
              <<a, g>> \in tim /\ <<b, g>> \in tim => a = b,
           RequestQuorumSet(h, own, req, prog, tim)
    PROVE  RequestInv'
<1>1. CASE NoRequest(req, prog, tim)
  BY <1>1 DEF NoRequest, RequestInv, NoRequestOfKey, OneTimer
<1>2. ASSUME NEW to \in Candidates(h, own), SendRequest(h, to, req, prog, tim),
             Wanted(h, prog)
      PROVE  RequestInv'
  <2>1. to \in Addr /\ to \notin PublicKey
    BY QuorumSetAssumption DEF Candidates, Tracked
  <2>2. h \notin prog
    BY <1>2 DEF Wanted
  <2>3. /\ requests' = [req EXCEPT ![to] = h]
        /\ inProgress' = prog \cup {h} /\ timers' = tim \cup {<<to, h>>}
    BY <1>2 DEF SendRequest
  <2>4. NoRequestOfKey'
    BY <2>1, <2>3 DEF NoRequestOfKey, RequestsType
  <2>5. ASSUME NEW g \in Hash
        PROVE  /\ g \in inProgress' <=> \E i \in Addr : <<i, g>> \in timers'
               /\ \A a, b \in Addr :
                     <<a, g>> \in timers' /\ <<b, g>> \in timers' => a = b
    <3>1. CASE g = h
      <4>1. \A i \in Addr : <<i, g>> \in timers' <=> i = to
        BY <2>2, <2>3, <3>1
      <4> QED
        BY <2>1, <2>3, <3>1, <4>1
    <3>2. CASE g # h
      BY <2>3, <3>2
    <3> QED
      BY <3>1, <3>2
  <2> QED
    BY <2>4, <2>5 DEF RequestInv, OneTimer
<1> QED
  BY <1>1, <1>2 DEF RequestQuorumSet

LEMMA RequestStep ==
    ASSUME QuorumSetTypeOK, RequestInv, QuorumSetStep
    PROVE  RequestInv'
<1> USE DEF RequestInv
<1>1. /\ requests \in RequestsType /\ inProgress \in SUBSET Hash
      /\ timers \in SUBSET (Addr \X Hash)
  BY DEF QuorumSetTypeOK, RequestsType
<1>2. /\ \A p \in PublicKey : requests[p] = None
      /\ \A g \in Hash : g \in inProgress <=> \E to \in Addr : <<to, g>> \in timers
      /\ \A g \in Hash, a, b \in Addr :
            <<a, g>> \in timers /\ <<b, g>> \in timers => a = b
  BY DEF NoRequestOfKey, OneTimer
<1>3. ASSUME NEW p \in PublicKey, ClearRequest(p)
      PROVE  RequestInv'
  BY <1>3, ClearsNothing DEF ClearRequest, NoRequest, NoRequestOfKey, OneTimer
<1>4. ASSUME NEW p \in PublicKey, NEW h \in Hash, ProcessQuorumSetHash(p, h)
      PROVE  RequestInv'
  <2>1. PICK own : own = owners'[h]
    OBVIOUS
  <2>2. RequestQuorumSet(h, own, requests, inProgress, timers)
    BY <1>4, <2>1 DEF ProcessQuorumSetHash
  <2> QED
    BY <1>1, <1>2, <2>2, RequestKeeps
<1>5. ASSUME NEW p \in PublicKey, NEW h \in Hash, DoesNotHaveQuorumSet(p, h)
      PROVE  RequestInv'
  <2>1. requests[p] # h
    BY <1>2, QuorumSetAssumption
  <2> QED
    BY <1>5, <2>1 DEF DoesNotHaveQuorumSet, NoRequest, NoRequestOfKey, OneTimer
<1>6. ASSUME NEW to \in Addr, NEW h \in Hash, <<to, h>> \in timers,
             RequestTimedOut(to, h)
      PROVE  RequestInv'
  <2>1. PICK own, req, prog, tim :
           /\ own = owners[h] /\ req = ReqWithout(to)
           /\ prog = inProgress \ {h} /\ tim = timers \ {<<to, h>>}
    OBVIOUS
  <2>2. RequestQuorumSet(h, own, req, prog, tim)
    BY <1>6, <2>1 DEF RequestTimedOut
  <2>3. /\ req \in RequestsType /\ prog \in SUBSET Hash
        /\ tim \in SUBSET (Addr \X Hash)
    BY <1>1, <2>1, ClearedType
  <2>4. \A p \in PublicKey : req[p] = None
    BY <1>1, <1>2, <2>1 DEF ReqWithout, RequestsType
  <2>5. ASSUME NEW g \in Hash
        PROVE  /\ g \in prog <=> \E i \in Addr : <<i, g>> \in tim
               /\ \A a, b \in Addr : <<a, g>> \in tim /\ <<b, g>> \in tim => a = b
    <3>1. CASE g = h
      BY <1>2, <1>6, <2>1, <3>1
    <3>2. CASE g # h
      BY <1>2, <2>1, <3>2
    <3> QED
      BY <3>1, <3>2
  <2> QED
    BY <2>2, <2>3, <2>4, <2>5, RequestKeeps
<1> QED
  BY <1>3, <1>4, <1>5, <1>6
     DEF QuorumSetStep, NodeDisconnected, ProcessQuorumSet

LEMMA OneTimerCounts ==
    ASSUME OneTimer, NEW h \in Hash
    PROVE  Cardinality({to \in Addr : <<to, h>> \in timers})
               = (IF h \in inProgress THEN 1 ELSE 0)
<1>1. CASE h \in inProgress
  <2>1. PICK to \in Addr : <<to, h>> \in timers
    BY <1>1 DEF OneTimer
  <2>2. {a \in Addr : <<a, h>> \in timers} = {to}
    BY <2>1 DEF OneTimer
  <2> QED
    BY <1>1, <2>2, FS_Singleton
<1>2. CASE h \notin inProgress
  <2>1. {a \in Addr : <<a, h>> \in timers} = {}
    BY <1>2 DEF OneTimer
  <2> QED
    BY <1>2, <2>1, FS_EmptySet
<1> QED
  BY <1>1, <1>2

LEMMA QuorumSetTypeCorrect == Spec => []QuorumSetTypeOK
BY MessageTypeCorrect, PTL DEF TypeOK

LEMMA RequestsCorrect == Spec => [](QuorumSetTypeOK /\ RequestInv)
<1>1. Init => RequestInv
  BY DEF Init, QuorumSetInit, RequestInv, NoRequestOfKey, OneTimer
<1>2. QuorumSetTypeOK /\ RequestInv /\ [Next]_vars => RequestInv'
  <2>1. RequestInv /\ UNCHANGED quorumSetVars => RequestInv'
    BY DEF RequestInv, NoRequestOfKey, OneTimer, quorumSetVars
  <2> QED
    BY <2>1, QuorumSetKinds, RequestStep
<1> QED
  BY <1>1, <1>2, QuorumSetTypeCorrect, PTL DEF Spec

\* Quorum sets are fetched "in a sequential way" (quorum-set-manager.ts:13), for
\* any number of nodes that announce, answer, refuse or leave: a hash in
\* progress has exactly one request, whose timeout is pending.
THEOREM RequestsInSequence == Spec => []OneRequestAtATime
<1>1. RequestInv => OneRequestAtATime
  BY OneTimerCounts DEF RequestInv, OneRequestAtATime
<1> QED
  BY <1>1, RequestsCorrect, PTL

\* Only its timeout ends a request: since requests are kept under addresses and
\* cleared under public keys, neither the quorum set itself, nor a node that
\* does not have it, nor one that disconnects ends one sooner
\* (quorum-set-manager.ts:27, :81, :90).
EndsByTimeout ==
    [][\A to \in Addr, h \in Hash :
          <<to, h>> \in timers /\ <<to, h>> \notin timers'
              => RequestTimedOut(to, h)]_vars

THEOREM RequestsEndByTimeout == Spec => EndsByTimeout
<1> DEFINE A == \A to \in Addr, h \in Hash :
                    <<to, h>> \in timers /\ <<to, h>> \notin timers'
                        => RequestTimedOut(to, h)
<1>1. ASSUME QuorumSetTypeOK, RequestInv, QuorumSetStep
      PROVE  A
  <2>1. ASSUME NEW tim, NEW req, NEW prog, NEW g, NEW own,
               RequestQuorumSet(g, own, req, prog, tim)
        PROVE  tim \subseteq timers'
    BY <2>1 DEF RequestQuorumSet, SendRequest, NoRequest
  <2>2. ASSUME NEW p \in PublicKey, ClearRequest(p)
        PROVE  timers' = timers
    BY <1>1, <2>2, ClearsNothing DEF ClearRequest, NoRequest, RequestInv
  <2>3. ASSUME NEW p \in PublicKey, NEW h \in Hash, ProcessQuorumSetHash(p, h)
        PROVE  timers \subseteq timers'
    <3>1. PICK own : own = owners'[h]
      OBVIOUS
    <3> QED
      BY <2>1, <2>3, <3>1 DEF ProcessQuorumSetHash
  <2>4. ASSUME NEW p \in PublicKey, NEW h \in Hash, DoesNotHaveQuorumSet(p, h)
        PROVE  timers' = timers
    <3>1. requests[p] # h
      BY <1>1, QuorumSetAssumption DEF RequestInv, NoRequestOfKey
    <3> QED
      BY <2>4, <3>1 DEF DoesNotHaveQuorumSet, NoRequest
  <2>5. ASSUME NEW to \in Addr, NEW h \in Hash, RequestTimedOut(to, h)
        PROVE  A
    <3>1. timers \ {<<to, h>>} \subseteq timers'
      BY <2>1, <2>5 DEF RequestTimedOut
    <3> QED
      BY <2>5, <3>1
  <2> QED
    BY <1>1, <2>2, <2>3, <2>4, <2>5
       DEF QuorumSetStep, NodeDisconnected, ProcessQuorumSet
<1>2. QuorumSetTypeOK /\ RequestInv /\ [Next]_vars => [A]_vars
  <2>1. UNCHANGED quorumSetVars => A
    BY DEF quorumSetVars
  <2> QED
    BY <1>1, <2>1, QuorumSetKinds
<1> QED
  BY <1>2, RequestsCorrect, PTL DEF Spec, EndsByTimeout

-----------------------------------------------------------------------------
(* Quorum sets reach their nodes *)

LEMMA OwnersStep ==
    ASSUME QuorumSetTypeOK, OwnersAnnounced, KnownReachesItsNodes, QuorumSetStep
    PROVE  OwnersAnnounced' /\ KnownReachesItsNodes'
<1> USE DEF OwnersAnnounced, KnownReachesItsNodes, QuorumSetTypeOK
<1>1. ASSUME NEW p \in PublicKey, NEW h \in Hash, ProcessQuorumSetHash(p, h)
      PROVE  OwnersAnnounced' /\ KnownReachesItsNodes'
  <2>1. /\ hashOf' = [hashOf EXCEPT ![p] = h]
        /\ owners' = [owners EXCEPT ![h] = owners[h] \cup {p}]
        /\ quorumSetOf' = IF h \in known THEN [quorumSetOf EXCEPT ![p] = h]
                          ELSE quorumSetOf
        /\ known' = known
    BY <1>1 DEF ProcessQuorumSetHash
  <2>2. \A g \in Hash : owners[g] \subseteq owners'[g]
    BY <2>1
  <2>3. p \in owners'[h]
    BY <2>1
  <2>4. OwnersAnnounced'
    BY <2>1, <2>2, <2>3
  <2>5. KnownReachesItsNodes'
    BY <2>1, QuorumSetAssumption
  <2> QED
    BY <2>4, <2>5
<1>2. ASSUME NEW p \in PublicKey, NEW h \in Hash, ProcessQuorumSet(h, p)
      PROVE  OwnersAnnounced' /\ KnownReachesItsNodes'
  <2>1. /\ known' = known \cup {h} /\ UNCHANGED <<hashOf, owners>>
        /\ quorumSetOf' = [n \in PublicKey |->
                              IF n \in owners[h] THEN h ELSE quorumSetOf[n]]
    BY <1>2 DEF ProcessQuorumSet
  <2> QED
    BY <2>1, QuorumSetAssumption
<1>3. CASE UNCHANGED <<hashOf, quorumSetOf, known, owners>>
  BY <1>3
<1> QED
  BY <1>1, <1>2, <1>3
     DEF QuorumSetStep, NodeDisconnected, DoesNotHaveQuorumSet, RequestTimedOut

\* A node whose last announced quorum set is known has a known quorum set that
\* it announced itself, before or after the set arrived and whoever sent it
\* (quorum-set-manager.ts:45-85); not always the last one it announced.
THEOREM QuorumSetsReachNodes == Spec => []KnownReachesItsNodes
<1> DEFINE Inv == OwnersAnnounced /\ KnownReachesItsNodes
<1>1. Init => Inv
  BY QuorumSetAssumption
     DEF Init, QuorumSetInit, OwnersAnnounced, KnownReachesItsNodes
<1>2. QuorumSetTypeOK /\ Inv /\ [Next]_vars => Inv'
  <2>1. Inv /\ UNCHANGED quorumSetVars => Inv'
    BY DEF OwnersAnnounced, KnownReachesItsNodes, quorumSetVars
  <2> QED
    BY <2>1, QuorumSetKinds, OwnersStep
<1>3. Inv => KnownReachesItsNodes
  OBVIOUS
<1> QED
  BY <1>1, <1>2, <1>3, QuorumSetTypeCorrect, PTL DEF Spec

=============================================================================

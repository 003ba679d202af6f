----------------------------- MODULE LifeProofs -----------------------------
(***************************************************************************)
(* The first crawl implements ObservationLife: what StellarMessages takes  *)
(* for granted of its connections and of the state of its observation is   *)
(* what the crawler does, as long as no second crawl is started.           *)
(***************************************************************************)
EXTENDS FirstCrawlProofs

USE DEF Call, Conn

-----------------------------------------------------------------------------
(* The connections and the phase as ObservationLife sees them *)

SeenState(c) == IF Seen(c) \/ conn[c] = "closed" THEN conn[c] ELSE "none"

SeenConn == [c \in Conn |-> SeenState(c)]

PhaseOf == CASE obsState[1] \in {"Idle", "Syncing"} -> "Syncing"
             [] obsState[1] = "Synced" -> "Synced"
             [] OTHER -> "Stopping"

\* The substitution of the instance, by name.
LEMMA LifeVars ==
    /\ Life!LifeInit <=> /\ SeenConn = [c \in Conn |-> "none"]
                         /\ active = [a \in Addr |-> 0]
                         /\ PhaseOf = "Syncing" /\ connected[1] = {}
    /\ (UNCHANGED Life!lifeVars) <=>
          UNCHANGED <<SeenConn, active, PhaseOf, connected[1]>>
BY DEF Life!LifeInit, Life!ConnInit, Life!Conn, Life!Call, Life!lifeVars,
       Life!connVars, SeenConn, SeenState, PhaseOf

LifeArrives(c) ==
    /\ SeenConn[c] = "none" /\ ~Blacklisted(c)
    /\ active' = Entered(active, c)
    /\ \/ /\ ReusesKey(1, c)
          /\ SeenConn' = Destroyed(Opened(SeenConn, c), {c})
          /\ connected'[1] = connected[1]
       \/ /\ ~ReusesKey(1, c)
          /\ SeenConn' = Opened(SeenConn, c)
          /\ connected'[1] = connected[1] \cup {c[2]}
    /\ PhaseOf' = PhaseOf

LifeLeaves(c) ==
    /\ SeenConn[c] # "closed"
    /\ SeenConn' = Closed(SeenConn, c)
    /\ active' = Removed(active, c)
    /\ PhaseOf' = PhaseOf \/ (PhaseOf = "Synced" /\ PhaseOf' = "Stopping")
    /\ connected'[1] = connected[1]

LifeDisconnects(D) ==
    /\ D # {} /\ D \subseteq Conn /\ \A c \in D : SeenConn[c] = "open"
    /\ SeenConn' = Destroyed(SeenConn, D)
    /\ active' = active /\ PhaseOf' = PhaseOf /\ connected'[1] = connected[1]

LifeMoves ==
    /\ \/ PhaseOf = "Syncing" /\ PhaseOf' \in {"Synced", "Stopping"}
       \/ PhaseOf = "Synced" /\ PhaseOf' = "Stopping"
    /\ SeenConn' = SeenConn /\ active' = active /\ connected'[1] = connected[1]

LEMMA LifeActions ==
    /\ \A c \in Conn : LifeArrives(c) => Life!LifeNext
    /\ \A c \in Conn : LifeLeaves(c) => Life!LifeNext
    /\ \A D : LifeDisconnects(D) => Life!LifeNext
    /\ LifeMoves => Life!LifeNext
<1> USE DEF Life!Conn, Life!Call
<1>1. ASSUME NEW c \in Conn, LifeArrives(c)
      PROVE  Life!LifeNext
  <2>1. Life!Arrives(c)
    BY <1>1
    DEF LifeArrives, Life!Arrives, Life!AlreadyJoined, Life!Blacklisted,
        Life!Entered, Life!Opened, Life!Destroyed, Blacklisted, Entered, Opened,
        Destroyed, ReusesKey, SeenConn, SeenState, PhaseOf
  <2> QED
    BY <2>1 DEF Life!LifeNext
<1>2. ASSUME NEW c \in Conn, LifeLeaves(c)
      PROVE  Life!LifeNext
  <2>1. Life!Leaves(c)
    BY <1>2
    DEF LifeLeaves, Life!Leaves, Life!Closed, Life!Removed, Closed, Removed,
        SeenConn, SeenState, PhaseOf
  <2> QED
    BY <2>1 DEF Life!LifeNext
<1>3. ASSUME NEW D, LifeDisconnects(D)
      PROVE  Life!LifeNext
  <2>1. Life!AreDisconnected(D)
    BY <1>3
    DEF LifeDisconnects, Life!AreDisconnected, Life!Destroyed, Destroyed,
        SeenConn, SeenState, PhaseOf
  <2>2. D \in SUBSET {c \in Conn : SeenConn[c] = "open"}
    BY <1>3 DEF LifeDisconnects
  <2> QED
    BY <2>1, <2>2 DEF Life!LifeNext, SeenConn, SeenState
<1>4. ASSUME LifeMoves
      PROVE  Life!LifeNext
  <2>1. Life!PhaseMoves
    BY <1>4
    DEF LifeMoves, Life!PhaseMoves, Life!Later, Life!connVars, SeenConn, SeenState,
        PhaseOf
  <2> QED
    BY <2>1 DEF Life!LifeNext
<1> QED
  BY <1>1, <1>2, <1>3, <1>4

-----------------------------------------------------------------------------
(* How the state of the observation and its connected peers change *)

\* The events of no single connection change the state of the observation only
\* when they leave the connections alone, or when it is stopping already.
LEMMA OtherPhase ==
    ASSUME FirstStep, OtherEvent
    PROVE  /\ connected' = connected
           /\ \/ PhaseOf' = PhaseOf
              \/ /\ UNCHANGED connVars
                 /\ \/ PhaseOf = "Syncing" /\ PhaseOf' \in {"Synced", "Stopping"}
                    \/ PhaseOf = "Synced" /\ PhaseOf' = "Stopping"
<1>F. /\ TypeInv /\ Beginning /\ conn \in ConnType /\ ObsTypeOK /\ cur = 1
      /\ obsState[1] \in ObservationState /\ obsState'[1] \in ObservationState
      /\ obsState[1] # "Idle"
  <2>1. TypeInv'
    BY TypeStep DEF FirstStep, BoundInv
  <2>2. obsState'[1] \in ObservationState
    BY <2>1, OneIsCall DEF TypeInv, TypeOK, ObsTypeOK
  <2> QED
    BY <2>2, FirstFacts DEF TypeInv, TypeOK, ObsTypeOK, Beginning
<1> DEFINE Goal == /\ connected' = connected
                   /\ \/ PhaseOf' = PhaseOf
                      \/ /\ UNCHANGED connVars
                         /\ \/ /\ PhaseOf = "Syncing"
                               /\ PhaseOf' \in {"Synced", "Stopping"}
                            \/ PhaseOf = "Synced" /\ PhaseOf' = "Stopping"
<1>1. CASE UNCHANGED <<connected, obsState>>
  BY <1>1 DEF PhaseOf
<1>2. ASSUME NEW k \in Call, SyncFailed(k) \/ StartCrawling(k)
      PROVE  Goal
  <2>1. /\ obsState[1] = "Syncing"
        /\ obsState'[1] \in {"Synced", "Stopping", "Stopped"}
    BY <1>2, SyncEnds, FirstSync
  <2>2. UNCHANGED connVars /\ connected' = connected
    BY <1>2
    DEF SyncFailed, StartCrawling, StartCrawlProcess, SyncTimeout, connVars
  <2> QED
    BY <2>1, <2>2 DEF PhaseOf
<1>3. ASSUME NEW k \in Call, NothingToCrawl(k)
      PROVE  Goal
  <2>1. /\ obsState[1] = "Syncing"
        /\ obsState'[1] \in {"Synced", "Stopping", "Stopped"}
    BY <1>3, SyncEnds, FirstSync
  <2>2. conn' = conn
    BY <1>F, <1>3, StopKeepsConns DEF NothingToCrawl
  <2>3. UNCHANGED connVars /\ connected' = connected
    BY <1>3, <2>2
    DEF NothingToCrawl, StartCrawlProcess, SyncTimeout, StopObservation, connVars
  <2> QED
    BY <2>1, <2>3 DEF PhaseOf
<1>4. CASE MaxCrawlTimeout
  <2>1. conn' = conn
    BY <1>F, <1>4, StopKeepsConns DEF MaxCrawlTimeout
  <2>2. UNCHANGED connVars /\ connected' = connected /\ Ends(1)'
    BY <1>F, <1>4, <2>1, StopEnds DEF MaxCrawlTimeout, StopObservation, connVars
  <2> QED
    BY <1>F, <2>2 DEF PhaseOf, Ends, ObservationState
<1>5. CASE StopTimeout
  <2>1. obsState[1] = "Stopping" /\ obsState'[1] = "Stopped"
    BY <1>5, StopTimerOfFirst
  <2> QED
    BY <1>5, <2>1 DEF StopTimeout, PhaseOf
<1>6. CASE RefuseCrawl \/ Finish \/ StragglerTimeout \/ ConsensusTimeout
  BY <1>1, <1>6
  DEF RefuseCrawl, Finish, StragglerTimeout, ConsensusTimeout, NetworkHalted,
      obsVars
<1>7. ASSUME NEW t \in queue, ProcessQueueThrows(t)
      PROVE  Goal
  BY <1>1, <1>7 DEF ProcessQueueThrows, obsVars
<1>8. ASSUME NEW c \in Conn,
             \/ ConnectBlacklisted(c) \/ Fail(c) \/ LedgerClose(c) \/ InvalidData(c)
             \/ \E P \in SUBSET Addr : PeersReceived(c, P)
      PROVE  Goal
  BY <1>1, <1>8
  DEF ConnectBlacklisted, Fail, LedgerClose, LedgerCloseConfirmed, InvalidData,
      PeersReceived, obsVars
<1>9. CASE UNCHANGED vars
  BY <1>1, <1>9 DEF vars, obsVars
<1> QED
  BY <1>2, <1>3, <1>4, <1>5, <1>6, <1>7, <1>8, <1>9 DEF OtherEvent

\* The 'close' of a connection may end the queue, and so stop the observation,
\* but never before the sync completed: there are no tasks until then.
LEMMA ClosePhase ==
    ASSUME FirstStep, NEW c \in Conn, CloseAny(c)
    PROVE  /\ connected' = connected
           /\ PhaseOf' = PhaseOf \/ (PhaseOf = "Synced" /\ PhaseOf' = "Stopping")
<1>F. /\ TypeInv /\ Beginning /\ ObsTypeOK /\ cur = 1
      /\ obsState[1] \in ObservationState /\ obsState[1] # "Idle"
  BY FirstFacts DEF TypeInv, TypeOK, ObsTypeOK, Beginning
<1>1. CASE UNCHANGED obsVars
  BY <1>1 DEF obsVars, PhaseOf
<1>2. CASE CloseAndDrain(c)
  <2>1. obsState[1] # "Syncing"
    BY <1>F, <1>2 DEF CloseAndDrain, EndsTask, Beginning, NothingYet
  <2>2. Ends(1)' /\ connected' = connected
    BY <1>F, <1>2, StopEnds DEF CloseAndDrain, StopObservation
  <2> QED
    BY <1>F, <2>1, <2>2 DEF Ends, PhaseOf, ObservationState
<1> QED
  BY <1>1, <1>2 DEF CloseAny, CloseOnly, CloseAndProcess, CloseAndThrow

-----------------------------------------------------------------------------
(* Every step is one of ObservationLife, or none *)

LEMMA LifeStart ==
    ASSUME FirstInv, cur = 0, StartCrawl
    PROVE  UNCHANGED <<SeenConn, active, PhaseOf, connected[1]>>
<1>1. /\ \A c \in Conn : conn[c] = "none"
      /\ obsState[1] = "Idle" /\ obsState \in [Call -> ObservationState]
      /\ FirstState'
  BY FirstStart, FirstProps
  DEF FirstInv, FirstState, Beginning, BoundInv, TypeInv, NotStarted, TypeOK,
      ObsTypeOK
<1>2. \A c \in Conn : conn'[c] \in {"none", "connecting"}
  BY <1>1 DEF StartCrawl, StartSync, Connecting
<1>3. obsState'[1] \in {"Idle", "Syncing"}
  BY <1>1 DEF StartCrawl, StartSync
<1>4. active' = active /\ connected' = connected
  BY DEF StartCrawl
<1>5. SeenConn' = SeenConn
  BY <1>1, <1>2 DEF SeenConn, SeenState, Seen
<1> QED
  BY <1>1, <1>3, <1>4, <1>5 DEF PhaseOf

LEMMA LifeStep ==
    ASSUME FirstStep
    PROVE  Life!LifeNext \/ UNCHANGED <<SeenConn, active, PhaseOf, connected[1]>>
<1>F. /\ ConnSteps /\ ~StartCrawl /\ cur = 1 /\ conn \in ConnType
      /\ active \in ActiveType /\ Entries
      /\ \A c \in Conn : conn[c] # "none" => c = <<1, c[2]>>
      /\ \A t \in queue : conn[t] = "none"
      /\ connected \in [Call -> SUBSET Addr] /\ 1 \in Call
  BY FirstFacts DEF FirstStep, FirstState, OneCrawl, TypeInv, TypeOK, ObsTypeOK
<1>1. ASSUME NEW S \in SUBSET queue, ProcessQueue(S), TasksConnect(Conn),
             UNCHANGED active
      PROVE  UNCHANGED <<SeenConn, active, PhaseOf, connected[1]>>
  <2>1. SeenConn' = SeenConn
    BY <1>F, <1>1 DEF TasksConnect, SeenConn, SeenState, Seen
  <2> QED
    BY <1>1, <2>1 DEF ProcessQueue, obsVars, PhaseOf
<1>2. ASSUME NEW c \in Conn, Connect(c), PeerArrives(c)
      PROVE  Life!LifeNext
  <2>1. c = <<1, c[2]>> /\ c[1] = 1 /\ c[2] \in Addr
    BY <1>F, <1>2 DEF PeerArrives
  <2>2. \A a \in Addr : active'[a] = IF a = c[2] THEN 1 ELSE active[a]
    BY <1>F, <1>2, <2>1 DEF PeerArrives, Entered, ActiveType
  <2>3. \A d \in Conn \ {c} : SeenConn'[d] = SeenConn[d]
    <3> SUFFICES ASSUME NEW d \in Conn, d # c
                 PROVE  SeenState(d)' = SeenState(d)
      BY DEF SeenConn
    <3>1. conn'[d] = conn[d]
      BY <1>2 DEF PeerArrives
    <3>2. CASE conn[d] = "none"
      BY <3>1, <3>2 DEF SeenState, Seen
    <3>3. CASE conn[d] # "none"
      <4>1. d[2] # c[2] /\ d[2] \in Addr
        BY <1>F, <2>1, <3>3
      <4> QED
        BY <2>2, <3>1, <4>1 DEF SeenState, Seen
    <3> QED
      BY <3>2, <3>3
  <2>4. SeenConn[c] = "none" /\ SeenConn'[c] = conn'[c]
    BY <1>2, <2>1, <2>2 DEF PeerArrives, SeenConn, SeenState, Seen
  <2>5. PhaseOf' = PhaseOf
    BY <1>2 DEF Connect, PeerConnected, PhaseOf
  <2>6. CASE ReusesKey(1, c)
    <3>1. conn'[c] = "destroyed" /\ connected' = connected
      BY <1>F, <1>2, <2>6 DEF PeerArrives, Connect, PeerConnected
    <3>2. SeenConn' = Destroyed(Opened(SeenConn, c), {c})
      BY <2>3, <2>4, <3>1 DEF SeenConn, Destroyed, Opened
    <3>3. LifeArrives(c)
      BY <1>2, <2>4, <2>5, <2>6, <3>1, <3>2 DEF LifeArrives, PeerArrives
    <3> QED
      BY <3>3, LifeActions
  <2>7. CASE ~ReusesKey(1, c)
    <3>1. conn'[c] = "open" /\ connected'[1] = connected[1] \cup {c[2]}
      BY <1>F, <1>2, <2>7 DEF PeerArrives, Connect, PeerConnected
    <3>2. SeenConn' = Opened(SeenConn, c)
      BY <2>3, <2>4, <3>1 DEF SeenConn, Opened
    <3>3. LifeArrives(c)
      BY <1>2, <2>4, <2>5, <2>7, <3>1, <3>2 DEF LifeArrives, PeerArrives
    <3> QED
      BY <3>3, LifeActions
  <2> QED
    BY <2>6, <2>7
<1>3. ASSUME NEW c \in Conn, CloseAny(c), ConnectionEnds(c)
      PROVE  Life!LifeNext
  <2>1. c = <<1, c[2]>> /\ c[1] = 1 /\ c[2] \in Addr
    BY <1>F, <1>3 DEF ConnectionEnds, Live
  <2>2. \A a \in Addr : active'[a] = IF a = c[2] THEN 0 ELSE active[a]
    BY <1>F, <1>3, <2>1 DEF ConnectionEnds, Removed, ActiveType
  <2>3. \A d \in Conn \ {c} : SeenConn'[d] = SeenConn[d]
    <3> SUFFICES ASSUME NEW d \in Conn, d # c
                 PROVE  SeenState(d)' = SeenState(d)
      BY DEF SeenConn
    <3>1. conn'[d] = conn[d] \/ (conn[d] = "none" /\ conn'[d] = "connecting")
      BY <1>F, <1>3 DEF ConnectionEnds, TasksConnect
    <3>2. CASE conn[d] = "none"
      BY <3>1, <3>2 DEF SeenState, Seen
    <3>3. CASE conn[d] # "none"
      <4>1. d[2] # c[2] /\ d[2] \in Addr
        BY <1>F, <2>1, <3>3
      <4> QED
        BY <2>2, <3>1, <3>3, <4>1 DEF SeenState, Seen
    <3> QED
      BY <3>2, <3>3
  <2>4. SeenConn[c] # "closed" /\ SeenConn'[c] = "closed"
    BY <1>3 DEF ConnectionEnds, Live, SeenConn, SeenState, Seen
  <2>5. SeenConn' = Closed(SeenConn, c)
    BY <2>3, <2>4 DEF SeenConn, Closed
  <2>6. LifeLeaves(c)
    BY <1>3, <2>4, <2>5, ClosePhase DEF LifeLeaves, ConnectionEnds
  <2> QED
    BY <2>6, LifeActions
<1>4. ASSUME OtherEvent, Disconnection, UNCHANGED active
      PROVE  Life!LifeNext \/ UNCHANGED <<SeenConn, active, PhaseOf, connected[1]>>
  <2> DEFINE D == {c \in Conn : conn[c] = "open" /\ conn'[c] = "destroyed"}
  <2>1. \A c \in Conn : SeenState(c)' = IF c \in D THEN "destroyed" ELSE SeenState(c)
    <3> SUFFICES ASSUME NEW c \in Conn
                 PROVE  SeenState(c)' = IF c \in D THEN "destroyed" ELSE SeenState(c)
      OBVIOUS
    <3>1. CASE conn'[c] = conn[c]
      BY <1>4, <3>1 DEF SeenState, Seen
    <3>2. CASE conn'[c] # conn[c]
      <4>1. conn[c] \in {"connecting", "open"} /\ conn'[c] = "destroyed"
        BY <1>4, <3>2 DEF Disconnection
      <4>2. c = <<1, c[2]>> /\ c[2] \in Addr /\ c[1] = 1
        BY <1>F, <4>1
      <4>3. conn[c] = "open" <=> active[c[2]] = 1
        BY <1>F, <4>1, <4>2 DEF Entries
      <4> QED
        BY <1>4, <4>1, <4>2, <4>3 DEF SeenState, Seen
    <3> QED
      BY <3>1, <3>2
  <2>2. \A c \in D : c \in Conn /\ SeenConn[c] = "open"
    BY DEF SeenConn, SeenState, Seen
  <2>3. SeenConn' = Destroyed(SeenConn, D)
    BY <2>1, <2>2 DEF SeenConn, Destroyed
  <2>4. CASE PhaseOf' = PhaseOf /\ D = {}
    <3>1. SeenConn' = SeenConn
      BY <2>1, <2>4 DEF SeenConn
    <3> QED
      BY <1>4, <2>4, <3>1, OtherPhase
  <2>5. CASE PhaseOf' = PhaseOf /\ D # {}
    <3>1. LifeDisconnects(D)
      BY <1>4, <2>2, <2>3, <2>5, OtherPhase DEF LifeDisconnects
    <3> QED
      BY <3>1, LifeActions
  <2>6. CASE PhaseOf' # PhaseOf
    <3>1. UNCHANGED connVars
      BY <1>4, <2>6, OtherPhase
    <3>2. SeenConn' = SeenConn
      BY <3>1 DEF connVars, SeenConn, SeenState, Seen
    <3>3. LifeMoves
      BY <1>4, <2>6, <3>2, OtherPhase DEF LifeMoves
    <3> QED
      BY <3>3, LifeActions
  <2> QED
    BY <2>4, <2>5, <2>6
<1> QED
  BY <1>F, <1>1, <1>2, <1>3, <1>4 DEF ConnSteps

\* What the message handlers rely on of their connections and of the state of
\* their observation (network-observer.ts:55-78, on-peer-data.ts) is what the
\* first crawl does, however many other calls of startCrawl it refuses.
THEOREM CrawlImplementsLife == Spec /\ [](cur <= 1) => ImplementsLife
<1>1. Init => Life!LifeInit
  <2> SUFFICES ASSUME Init PROVE Life!LifeInit
    OBVIOUS
  <2>1. 1 \in Call
    BY OneIsCall
  <2>2. SeenConn = [c \in Conn |-> "none"] /\ active = [a \in Addr |-> 0]
    BY DEF Init, ConnInit, SeenConn, SeenState, Seen
  <2>3. PhaseOf = "Syncing" /\ connected[1] = {}
    BY <2>1 DEF Init, ObsInit, PhaseOf
  <2> QED
    BY <2>2, <2>3, LifeVars
<1>2. FirstInv /\ cur <= 1 /\ (cur <= 1)' /\ [Next]_vars
        => [Life!LifeNext]_Life!lifeVars
  <2> SUFFICES ASSUME FirstInv, cur <= 1, cur' <= 1, [Next]_vars
               PROVE  [Life!LifeNext]_Life!lifeVars
    OBVIOUS
  <2>1. cur \in {0, 1} /\ FirstState /\ BoundInv
    BY FirstProps
  <2>2. CASE UNCHANGED vars
    <3>1. UNCHANGED <<SeenConn, active, PhaseOf, connected[1]>>
      BY <2>2
      DEF vars, connVars, obsVars, SeenConn, SeenState, Seen, PhaseOf
    <3> QED
      BY <3>1, LifeVars
  <2>3. CASE Next /\ cur = 0
    BY <2>1, <2>3, OnlyStart, LifeStart, LifeVars
  <2>4. CASE Next /\ cur = 1
    <3>1. ~StartCrawl
      <4>1. cur <= calls /\ calls \in Nat
        BY ConnectionAssumption
        DEF FirstInv, CallsCount, BoundInv, TypeInv, TypeOK, CrawlTypeOK
      <4> QED
        BY <2>4, <4>1 DEF StartCrawl
    <3>2. UNCHANGED cur
      BY <2>1, <3>1, CallsStep DEF FirstInv, BoundInv
    <3>3. FirstStep
      BY <2>1, <2>4, <3>1, <3>2 DEF FirstStep
    <3> QED
      BY <3>3, LifeStep, LifeVars
  <2> QED
    BY <2>1, <2>2, <2>3, <2>4
<1> QED
  BY <1>1, <1>2, FirstCorrect, PTL DEF Spec, ImplementsLife, Life!LifeSpec
=============================================================================

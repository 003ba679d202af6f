-------------------------- MODULE FirstCrawlProofs --------------------------
(***************************************************************************)
(* Theorems about what a crawl finds, does and leaves behind. The first    *)
(* two hold over any number of crawls. The others are about the first      *)
(* crawl of a crawler, up to the moment another one is started (cur <= 1): *)
(* later crawls share timers, queue and connections with what the crawls   *)
(* before them left behind, and lose these properties.                     *)
(***************************************************************************)
EXTENDS BoundProofs

USE DEF Call, Conn, logVars, ObservationStopped

-----------------------------------------------------------------------------
(* Nothing discovered is lost, over any number of crawls *)

LEMMA CrawlPeerNodesMark ==
    ASSUME TypeInv, cur \in Call, NEW P \in SUBSET Addr, CrawlPeerNodes(P)
    PROVE  /\ crawled[cur] \subseteq crawled'[cur]
           /\ P \ TopTier \subseteq crawled'[cur]
BY DEF CrawlPeerNodes, Crawlable, TypeInv, TypeOK, CrawlTypeOK

LEMMA DiscoveredStep ==
    TypeInv /\ DiscoveredIsCrawled /\ [Next]_vars => DiscoveredIsCrawled'
<1> SUFFICES ASSUME TypeInv, DiscoveredIsCrawled, [Next]_vars,
                    cur' # 0, crawlState'[cur'] = "CRAWLING"
             PROVE  (Seeds \cup peersDuringSync'[cur']) \ TopTier
                        \subseteq crawled'[cur']
  BY DEF DiscoveredIsCrawled
<1>T. /\ cur \in 0 .. MaxCalls /\ calls \in 0 .. MaxCalls
      /\ crawlState \in [Call -> CrawlProcessState]
      /\ peersDuringSync \in [Call -> SUBSET Addr]
  BY DEF TypeInv, TypeOK, CrawlTypeOK
<1>1. CASE StartCrawl
  <2>0. calls < MaxCalls /\ cur' = calls + 1
    BY <1>1 DEF StartCrawl
  <2>1. cur' \in Call
    BY <1>T, <2>0, ConnectionAssumption
  <2> QED
    BY <1>T, <1>1, <2>1 DEF StartCrawl
<1>2. ASSUME NEW k \in Call, StartCrawling(k)
      PROVE  (Seeds \cup peersDuringSync'[cur']) \ TopTier
                 \subseteq crawled'[cur']
  <2> USE <1>2 DEF StartCrawling, StartCrawlProcess, SyncTimeout
  <2>1. cur \in Call
    BY CurIsCall
  <2>2. NodesToCrawl \in SUBSET Addr
    BY <1>T, <2>1, CrawlerAssumption DEF NodesToCrawl
  <2> QED
    BY <2>1, <2>2, CrawlPeerNodesMark DEF NodesToCrawl
<1>3. ASSUME NEW k \in Call, NothingToCrawl(k)
      PROVE  (Seeds \cup peersDuringSync'[cur']) \ TopTier
                 \subseteq crawled'[cur']
  BY <1>3 DEF NothingToCrawl, StartCrawlProcess, SyncTimeout, NodesToCrawl
<1>4. ASSUME NEW c \in Conn, NEW P \in SUBSET Addr, PeersReceived(c, P)
      PROVE  (Seeds \cup peersDuringSync'[cur']) \ TopTier
                 \subseteq crawled'[cur']
  <2> USE <1>4 DEF PeersReceived
  <2>1. cur \in Call
    BY CurIsCall
  <2>2. crawlState[cur] # "TOP_TIER_SYNC"
    OBVIOUS
  <2> QED
    BY <2>1, <2>2, CrawlPeerNodesMark DEF DiscoveredIsCrawled
<1>5. CASE /\ UNCHANGED <<cur, peersDuringSync, crawled>>
           /\ crawlState'[cur] = "CRAWLING" => crawlState[cur] = "CRAWLING"
  BY <1>5 DEF DiscoveredIsCrawled
<1>6. CASE RefuseCrawl
  BY <1>5, <1>6 DEF RefuseCrawl
<1>7. ASSUME NEW k \in Call, SyncFailed(k)
      PROVE  (Seeds \cup peersDuringSync'[cur']) \ TopTier
                 \subseteq crawled'[cur']
  BY <1>5, <1>7 DEF SyncFailed, SyncTimeout
<1>8. ASSUME NEW S \in SUBSET queue, ProcessQueue(S)
      PROVE  (Seeds \cup peersDuringSync'[cur']) \ TopTier
                 \subseteq crawled'[cur']
  BY <1>5, <1>8 DEF ProcessQueue, crawlVars
<1>9. ASSUME NEW t \in queue, ProcessQueueThrows(t)
      PROVE  (Seeds \cup peersDuringSync'[cur']) \ TopTier
                 \subseteq crawled'[cur']
  BY <1>5, <1>9 DEF ProcessQueueThrows
<1>10. ASSUME NEW c \in Conn,
              \/ ConnectBlacklisted(c) \/ Connect(c) \/ Fail(c)
              \/ LedgerClose(c) \/ InvalidData(c)
       PROVE  (Seeds \cup peersDuringSync'[cur']) \ TopTier
                  \subseteq crawled'[cur']
  BY <1>5, <1>10
  DEF ConnectBlacklisted, Connect, Fail, LedgerClose, InvalidData, crawlVars
<1>11. ASSUME NEW c \in Conn,
              \/ CloseOnly(c)
              \/ \E S \in SUBSET queue : CloseAndProcess(c, S)
              \/ \E t \in queue : CloseAndThrow(c, t)
       PROVE  (Seeds \cup peersDuringSync'[cur']) \ TopTier
                  \subseteq crawled'[cur']
  BY <1>5, <1>11 DEF CloseOnly, CloseAndProcess, CloseAndThrow, Close
<1>12. ASSUME NEW c \in Conn, CloseAndDrain(c)
       PROVE  (Seeds \cup peersDuringSync'[cur']) \ TopTier
                  \subseteq crawled'[cur']
  <2>1. cur \in Call
    BY <1>12, CurIsCall DEF CloseAndDrain, Close, Live
  <2> QED
    BY <1>T, <1>12, <2>1 DEF CloseAndDrain, Close
<1>13. CASE ConsensusTimeout \/ StragglerTimeout \/ StopTimeout
  BY <1>5, <1>13 DEF ConsensusTimeout, StragglerTimeout, StopTimeout, crawlVars
<1>14. CASE MaxCrawlTimeout
  BY <1>5, <1>14 DEF MaxCrawlTimeout
<1>15. CASE Finish
  <2>0. cur' = cur
    BY <1>15 DEF Finish
  <2>1. cur \in Call
    BY <1>T, <2>0, ConnectionAssumption
  <2>2. Head(settling).then \in {"IDLE", "STOPPING"}
    <3>1. settling \in Seq(Done) /\ settling # <<>>
      BY <1>15 DEF Finish, TypeInv, TypeOK, ObsTypeOK
    <3>2. Head(settling) \in Done
      BY <3>1
    <3> QED
      BY <3>2 DEF Done
  <2> QED
    BY <1>T, <1>15, <2>1, <2>2 DEF Finish
<1>16. CASE UNCHANGED vars
  BY <1>5, <1>16 DEF vars, crawlVars
<1> QED
  BY <1>1, <1>2, <1>3, <1>4, <1>6, <1>7, <1>8, <1>9, <1>10, <1>11, <1>12, <1>13,
     <1>14, <1>15, <1>16
  DEF Next

\* Every seed, and every address the top tier told of during the sync, has
\* become a task of the crawl once it crawls (crawler.ts:93), in every one of
\* any number of crawls.
THEOREM NothingDiscoveredIsLost == Spec => []DiscoveredIsCrawled
<1>1. Init => DiscoveredIsCrawled
  BY DEF Init, CrawlInit, DiscoveredIsCrawled
<1>2. DiscoveredIsCrawled /\ TypeInv /\ [Next]_vars => DiscoveredIsCrawled'
  BY DiscoveredStep
<1> QED
  BY TypeInit, TypeStep, <1>1, <1>2, PTL DEF Spec

-----------------------------------------------------------------------------
(* The halt of the network is noticed, over any number of crawls *)

\* A call whose sync is pending while a later one is synced would take the one
\* consensus timer for its own observation, and crawl for a crawl it is not. Sync
\* timers fire in the order of the calls: as long as one is pending, so is that
\* of the present crawl.
SyncsInOrder ==
    /\ cur <= calls
    /\ \A k \in syncTimer : k <= cur
    /\ syncTimer # {} => cur \in syncTimer /\ obsState[cur] # "Synced"

WatchInv == SyncsInOrder /\ HaltIsWatched

LEMMA WatchStep == TypeInv /\ WatchInv /\ [Next]_vars => WatchInv'
<1> SUFFICES ASSUME TypeInv, WatchInv, [Next]_vars PROVE WatchInv'
  OBVIOUS
<1>T. /\ cur \in 0 .. MaxCalls /\ calls \in 0 .. MaxCalls /\ MaxCalls \in Nat
      /\ cur # 0 => cur \in Call
      /\ syncTimer \subseteq Call
      /\ consensus \in 0 .. MaxCalls
      /\ obsState \in [Call -> ObservationState]
      /\ halted \in [Call -> BOOLEAN]
      /\ \A k \in Call : k \in Nat /\ k # 0
  BY ConnectionAssumption DEF TypeInv, TypeOK, CrawlTypeOK, ObsTypeOK
<1> USE DEF WatchInv, SyncsInOrder, HaltIsWatched
<1>S. CASE UNCHANGED <<cur, calls, syncTimer, obsState, halted, consensus>>
  BY <1>S
<1>1. CASE StartCrawl
  <2>1. cur' = calls + 1 /\ calls' = cur' /\ cur' \in Call
    BY <1>1, <1>T DEF StartCrawl
  <2>2. obsState'[cur'] = "Syncing"
    BY <1>1, <1>T, <2>1 DEF StartCrawl, StartSync
  <2>3. syncTimer' = syncTimer \cup {cur'}
    BY <1>1 DEF StartCrawl
  <2> QED
    BY <1>T, <2>1, <2>2, <2>3
<1>2. CASE RefuseCrawl
  BY <1>2, <1>T DEF RefuseCrawl, obsVars
<1>3. ASSUME NEW k \in Call, SyncTimeout(k)
      PROVE  /\ cur \in Call /\ cur' = cur /\ calls' = calls
             /\ syncTimer' \subseteq syncTimer
             /\ IF k = cur THEN syncTimer' = {} ELSE cur \in syncTimer'
             /\ obsState[cur] # "Synced"
             /\ halted' = halted
  <2>1. cur \in Call
    BY <1>3, CurIsCall DEF SyncTimeout
  <2>2. k = cur => syncTimer = {k}
    <3>1. \A j \in syncTimer : k <= j /\ j <= cur /\ j \in Nat
      BY <1>3, <1>T DEF SyncTimeout
    <3>2. k \in syncTimer /\ k \in Nat
      BY <1>3, <1>T DEF SyncTimeout
    <3>3. ASSUME k = cur, NEW j \in syncTimer PROVE j = k
      <4>1. j \in Nat /\ k <= j /\ j <= k
        BY <3>1, <3>3
      <4> QED
        BY <3>2, <4>1
    <3> QED
      BY <3>2, <3>3
  <2> QED
    BY <1>3, <1>T, <2>1, <2>2 DEF SyncTimeout
<1>4. ASSUME NEW k \in Call, SyncFailed(k) \/ StartCrawling(k) PROVE WatchInv'
  <2>1. SyncTimeout(k) /\ SyncCompleted(k)
    BY <1>4 DEF SyncFailed, StartCrawling, StartCrawlProcess
  <2>2. k # cur => obsState'[cur] = obsState[cur]
    BY <1>3, <1>T, <2>1 DEF SyncCompleted
  <2>3. consensus' = k
    BY <2>1 DEF SyncCompleted
  <2> QED
    BY <1>3, <1>T, <2>1, <2>2, <2>3
<1>5. ASSUME NEW con, NEW act, NEW d, d.obs = cur, cur \in Call,
             StopObservation(con, act, d)
      PROVE  obsState'[cur] # "Synced"
  BY <1>5, <1>T
  DEF StopObservation, LastNodesDisconnected, AwaitStragglers
<1>6. ASSUME NEW k \in Call, NothingToCrawl(k) PROVE WatchInv'
  <2>1. SyncTimeout(k)
    BY <1>6 DEF NothingToCrawl, StartCrawlProcess
  <2>2. cur \in Call /\ cur' = cur
    BY <1>3, <2>1
  <2>3. obsState'[cur] # "Synced"
    BY <1>5, <1>6, <2>2 DEF NothingToCrawl
  <2> QED
    BY <1>3, <1>T, <2>1, <2>2, <2>3
<1>7. ASSUME NEW S \in SUBSET queue, ProcessQueue(S) PROVE WatchInv'
  BY <1>S, <1>7 DEF ProcessQueue, obsVars, crawlVars
<1>8. ASSUME NEW t \in queue, ProcessQueueThrows(t) PROVE WatchInv'
  BY <1>S, <1>8 DEF ProcessQueueThrows, obsVars
<1>9. ASSUME NEW c \in Conn,
              \/ ConnectBlacklisted(c) \/ Connect(c) \/ Fail(c)
              \/ InvalidData(c)
              \/ \E P \in SUBSET Addr : PeersReceived(c, P)
       PROVE  WatchInv'
  BY <1>S, <1>9
  DEF ConnectBlacklisted, Connect, PeerConnected, Fail, PeersReceived,
      InvalidData, obsVars, crawlVars
<1>10. ASSUME NEW c \in Conn, LedgerClose(c) PROVE WatchInv'
  BY <1>10, <1>T DEF LedgerClose, LedgerCloseConfirmed, crawlVars
<1>11. ASSUME NEW c \in Conn,
              \/ CloseOnly(c)
              \/ \E S \in SUBSET queue : CloseAndProcess(c, S)
              \/ \E t \in queue : CloseAndThrow(c, t)
       PROVE  WatchInv'
  BY <1>S, <1>11 DEF CloseOnly, CloseAndProcess, CloseAndThrow, Close, obsVars
<1>12. ASSUME NEW c \in Conn, CloseAndDrain(c) PROVE WatchInv'
  <2>1. cur \in Call /\ cur' = cur
    BY <1>12, CurIsCall DEF CloseAndDrain, Close, Live
  <2>2. obsState'[cur] # "Synced"
    BY <1>5, <1>12, <2>1 DEF CloseAndDrain
  <2> QED
    BY <1>12, <2>1, <2>2 DEF CloseAndDrain, Close
<1>13. CASE ConsensusTimeout
  BY <1>13, <1>T DEF ConsensusTimeout, NetworkHalted, crawlVars
<1>14. CASE StragglerTimeout
  BY <1>S, <1>14 DEF StragglerTimeout, crawlVars
<1>15. CASE StopTimeout
  <2>1. PICK o : obsState' = [obsState EXCEPT ![o] = "Stopped"]
    BY <1>15 DEF StopTimeout, LastNodesDisconnected
  <2>2. cur \in Call /\ obsState'[cur] = "Synced" => obsState[cur] = "Synced"
    BY <1>T, <2>1
  <2> QED
    BY <1>15, <1>T, <2>2 DEF StopTimeout, crawlVars
<1>16. CASE MaxCrawlTimeout
  <2>1. cur' = cur /\ cur # 0 => obsState'[cur] # "Synced"
    BY <1>5, <1>16, <1>T DEF MaxCrawlTimeout
  <2> QED
    BY <1>16, <1>T, <2>1 DEF MaxCrawlTimeout
<1>17. CASE Finish
  BY <1>S, <1>17 DEF Finish
<1>18. CASE UNCHANGED vars
  BY <1>S, <1>18 DEF vars, obsVars, crawlVars
<1> QED
  BY <1>1, <1>2, <1>4, <1>6, <1>7, <1>8, <1>9, <1>10, <1>11, <1>12, <1>13,
     <1>14, <1>15, <1>16, <1>17, <1>18
  DEF Next

\* While the observation of the present crawl is synced, it knows of the halt of
\* the network or its consensus timer runs (observation-manager.ts:34, :50),
\* whatever syncs, stops and timers earlier crawls left behind.
THEOREM HaltWillBeSeen == Spec => []HaltIsWatched
<1>1. Init => WatchInv
  BY DEF Init, CrawlInit, WatchInv, SyncsInOrder, HaltIsWatched
<1>2. WatchInv => HaltIsWatched
  BY DEF WatchInv
<1> QED
  BY <1>1, <1>2, TypeInit, TypeStep, WatchStep, PTL DEF Spec

-----------------------------------------------------------------------------
(* The steps of the crawler as the connections see them *)

\* Waiting tasks start to connect.
TasksConnect(D) ==
    \A d \in D : conn'[d] = conn[d] \/ (d \in queue /\ conn'[d] = "connecting")

\* Connections that exist are destroyed.
Disconnection ==
    \A d \in Conn : \/ conn'[d] = conn[d]
                    \/ conn[d] \in {"connecting", "open"} /\ conn'[d] = "destroyed"

\* A handshake completes, for a connection that is destroyed at once if its
\* node connected under another address before.
PeerArrives(c) ==
    /\ conn[c] = "connecting" /\ ~Blacklisted(c)
    /\ active' = Entered(active, c)
    /\ conn'[c] = IF ReusesKey(cur, c) THEN "destroyed" ELSE "open"
    /\ \A d \in Conn \ {c} : conn'[d] = conn[d]

\* A connection ends, and waiting tasks may take its place.
ConnectionEnds(c) ==
    /\ c \in Live(conn)
    /\ active' = Removed(active, c)
    /\ conn'[c] = "closed"
    /\ TasksConnect(Conn \ {c})

\* The events that neither start connections nor end one or its handshake.
OtherEvent ==
    \/ RefuseCrawl
    \/ \E k \in Call : SyncFailed(k) \/ StartCrawling(k) \/ NothingToCrawl(k)
    \/ \E t \in queue : ProcessQueueThrows(t)
    \/ \E c \in Conn : ConnectBlacklisted(c) \/ Fail(c)
    \/ \E c \in Conn, P \in SUBSET Addr : PeersReceived(c, P)
    \/ \E c \in Conn : LedgerClose(c) \/ InvalidData(c)
    \/ ConsensusTimeout \/ StragglerTimeout \/ StopTimeout \/ MaxCrawlTimeout
    \/ Finish
    \/ UNCHANGED vars

ConnSteps ==
    \/ StartCrawl
    \/ \E S \in SUBSET queue : ProcessQueue(S) /\ TasksConnect(Conn)
                               /\ UNCHANGED active
    \/ \E c \in Conn : Connect(c) /\ PeerArrives(c)
    \/ \E c \in Conn : CloseAny(c) /\ ConnectionEnds(c)
    \/ OtherEvent /\ Disconnection /\ UNCHANGED active

\* A stop destroys only entries of activeConnections, and ends at once only if
\* there are none: it never changes a connection.
LEMMA StopKeepsConns ==
    ASSUME NEW con \in ConnType, NEW act, NEW d, StopObservation(con, act, d)
    PROVE  conn' = con
<1>1. CASE Tracked(act) = {}
  <2>1. conn' = Destroyed(con, {})
    BY <1>1 DEF StopObservation, LastNodesDisconnected, ShutDown,
                DisconnectByAddress, TrackedConns
  <2> QED
    BY <2>1 DEF Destroyed, ConnType
<1>2. CASE Tracked(act) # {}
  BY <1>2 DEF StopObservation, AwaitStragglers
<1> QED
  BY <1>1, <1>2

\* Disconnecting by address, once or twice.
LEMMA DisconnectKinds ==
    ASSUME NEW con \in ConnType, NEW act, NEW A, NEW d \in Conn
    PROVE  \/ DisconnectByAddress(con, act, A)[d] = con[d]
           \/ /\ con[d] \in {"connecting", "open"}
              /\ DisconnectByAddress(con, act, A)[d] = "destroyed"
BY DEF DisconnectByAddress, Destroyed, ConnType

LEMMA ConnectArrives ==
    ASSUME conn \in ConnType, active \in ActiveType, NEW c \in Conn, Connect(c)
    PROVE  PeerArrives(c)
<1> USE DEF Connect, PeerConnected
<1>1. c[1] \in Call /\ c[2] \in Addr /\ c = <<c[1], c[2]>>
  BY ConnParts
<1>2. active'[c[2]] = c[1] /\ c[1] # 0
  BY <1>1, ConnectionAssumption DEF Entered, ActiveType
<1>3. TrackedConns(active', {c[2]}) = {c}
  BY <1>1, <1>2 DEF TrackedConns, Tracked
<1>4. \A d \in Conn : Opened(conn, c)[d] = IF d = c THEN "open" ELSE conn[d]
  BY DEF Opened, ConnType
<1>5. \A d \in Conn : DisconnectByAddress(Opened(conn, c), active', {c[2]})[d]
                        = IF d = c THEN "destroyed" ELSE conn[d]
  BY <1>3, <1>4 DEF DisconnectByAddress, Destroyed
<1>6. CASE ReusesKey(cur, c)
  BY <1>5, <1>6 DEF PeerArrives
<1>7. CASE ~ReusesKey(cur, c)
  BY <1>4, <1>7 DEF PeerArrives
<1> QED
  BY <1>6, <1>7

\* 'close' of a connection, followed by the tasks that take its place.
LEMMA CloseEnds ==
    ASSUME conn \in ConnType, NEW c \in Conn, NEW S \in SUBSET queue,
           c \in Live(conn), c \notin S, active' = ActiveAfter(c),
           \/ conn' = ConnAfter(c)
           \/ conn' = Connecting(ConnAfter(c), S)
    PROVE  ConnectionEnds(c)
<1>1. \A d \in Conn : ConnAfter(c)[d] = IF d = c THEN "closed" ELSE conn[d]
  BY DEF ConnAfter, Closed, ConnType
<1>2. \A d \in Conn : \/ conn'[d] = ConnAfter(c)[d]
                      \/ d \in S /\ conn'[d] = "connecting"
  BY DEF Connecting
<1>3. conn'[c] = "closed"
  BY <1>1, <1>2
<1>4. TasksConnect(Conn \ {c})
  BY <1>1, <1>2 DEF TasksConnect
<1> QED
  BY <1>3, <1>4 DEF ConnectionEnds, ActiveAfter

LEMMA OtherConns ==
    ASSUME conn \in ConnType, OtherEvent
    PROVE  Disconnection /\ UNCHANGED active
<1>1. ASSUME UNCHANGED connVars
      PROVE  Disconnection /\ UNCHANGED active
  BY <1>1 DEF connVars, Disconnection
<1>2. CASE RefuseCrawl
  BY <1>1, <1>2 DEF RefuseCrawl
<1>3. ASSUME NEW k \in Call, SyncFailed(k) \/ StartCrawling(k)
      PROVE  Disconnection /\ UNCHANGED active
  BY <1>1, <1>3
  DEF SyncFailed, StartCrawling, StartCrawlProcess, SyncTimeout, connVars
<1>4. ASSUME NEW k \in Call, NothingToCrawl(k)
      PROVE  Disconnection /\ UNCHANGED active
  BY <1>1, <1>4, StopKeepsConns
  DEF NothingToCrawl, StartCrawlProcess, SyncTimeout, connVars
<1>5. ASSUME NEW t \in queue, ProcessQueueThrows(t)
      PROVE  Disconnection /\ UNCHANGED active
  BY <1>1, <1>5 DEF ProcessQueueThrows
<1>6. ASSUME NEW c \in Conn, ConnectBlacklisted(c) \/ Fail(c) \/ InvalidData(c)
      PROVE  Disconnection /\ UNCHANGED active
  BY <1>6, DisconnectKinds
  DEF ConnectBlacklisted, Fail, InvalidData, Destroyed, Disconnection
<1>7. ASSUME NEW c \in Conn, NEW P \in SUBSET Addr, PeersReceived(c, P)
      PROVE  Disconnection /\ UNCHANGED active
  BY <1>1, <1>7 DEF PeersReceived
<1>8. ASSUME NEW c \in Conn, LedgerClose(c)
      PROVE  Disconnection /\ UNCHANGED active
  BY <1>1, <1>8 DEF LedgerClose
<1>9. CASE StragglerTimeout
  BY <1>9, DisconnectKinds DEF StragglerTimeout, ConnAfterStragglers, Disconnection
<1>10. CASE StopTimeout
  <2> USE <1>10 DEF StopTimeout, LastNodesDisconnected
  <2>1. ConnAfterStragglers \in ConnType
    BY ConnOpType DEF ConnAfterStragglers
  <2>2. \A d \in Conn :
            \/ ConnAfterStragglers[d] = conn[d]
            \/ /\ conn[d] \in {"connecting", "open"}
               /\ ConnAfterStragglers[d] = "destroyed"
    BY DisconnectKinds DEF ConnAfterStragglers
  <2>3. \A d \in Conn :
            \/ conn'[d] = ConnAfterStragglers[d]
            \/ /\ ConnAfterStragglers[d] \in {"connecting", "open"}
               /\ conn'[d] = "destroyed"
    BY <2>1, DisconnectKinds DEF ShutDown
  <2> QED
    BY <2>2, <2>3 DEF Disconnection
<1>11. CASE MaxCrawlTimeout
  BY <1>1, <1>11, StopKeepsConns DEF MaxCrawlTimeout, connVars
<1>12. CASE ConsensusTimeout \/ Finish \/ UNCHANGED vars
  BY <1>1, <1>12 DEF ConsensusTimeout, Finish, vars
<1> QED
  BY <1>2, <1>3, <1>4, <1>5, <1>6, <1>7, <1>8, <1>9, <1>10, <1>11, <1>12
  DEF OtherEvent

LEMMA ConnStepKinds ==
    ASSUME BoundInv, [Next]_vars
    PROVE  ConnSteps
<1>T. /\ conn \in ConnType /\ active \in ActiveType
      /\ \A t \in queue : conn[t] = "none"
  BY DEF BoundInv, TasksInv, WaitingIsNew, TypeInv, TypeOK, ConnTypeOK, ConnType,
         ActiveType
<1>1. ASSUME NEW S \in SUBSET queue, ProcessQueue(S)
      PROVE  ConnSteps
  <2>1. TasksConnect(Conn)
    BY <1>1 DEF ProcessQueue, StartTasks, Connecting, TasksConnect
  <2> QED
    BY <1>1, <2>1 DEF ConnSteps, ProcessQueue
<1>2. ASSUME NEW c \in Conn, Connect(c)
      PROVE  ConnSteps
  BY <1>T, <1>2, ConnectArrives DEF ConnSteps
<1>3. ASSUME NEW c \in Conn, CloseAny(c)
      PROVE  ConnSteps
  <2>1. ASSUME CloseOnly(c)
        PROVE  ConnectionEnds(c)
    BY <1>T, <2>1, CloseEnds, {} \in SUBSET queue DEF CloseOnly, Close
  <2>2. ASSUME NEW S \in SUBSET queue, CloseAndProcess(c, S)
        PROVE  ConnectionEnds(c)
    <3>1. c \notin S
      BY <1>T, <2>2 DEF CloseAndProcess, Close, Live
    <3> QED
      BY <1>T, <2>2, <3>1, CloseEnds DEF CloseAndProcess, Close, StartTasks
  <2>3. ASSUME NEW t \in queue, CloseAndThrow(c, t)
        PROVE  ConnectionEnds(c)
    BY <1>T, <2>3, CloseEnds, {} \in SUBSET queue DEF CloseAndThrow, Close
  <2>4. ASSUME CloseAndDrain(c)
        PROVE  ConnectionEnds(c)
    <3>1. conn' = ConnAfter(c)
      BY <1>T, <2>4, ConnEventType, StopKeepsConns DEF CloseAndDrain, ConnAfter
    <3> QED
      BY <1>T, <2>4, <3>1, CloseEnds, {} \in SUBSET queue
      DEF CloseAndDrain, Close
  <2>5. ConnectionEnds(c)
    BY <1>3, <2>1, <2>2, <2>3, <2>4 DEF CloseAny
  <2> QED
    BY <1>3, <2>5 DEF ConnSteps
<1>4. ASSUME OtherEvent
      PROVE  ConnSteps
  BY <1>T, <1>4, OtherConns DEF ConnSteps
<1> QED
  BY <1>1, <1>2, <1>3, <1>4 DEF Next, OtherEvent, CloseAny, ConnSteps

-----------------------------------------------------------------------------
(* The first crawl: the inductive invariant *)

\* A call started a crawl, or was refused by a crawl that runs.
CallsCount == cur <= calls /\ (cur = 0 => calls = 0)

\* The pending straggler timers of s, whatever their order.
TimersOf(s) == {s[i] : i \in 1 .. Len(s)}

Ends(k) == obsState[k] \in {"Stopping", "Stopped"}

\* Everything that exists belongs to call 1.
OneCrawl ==
    /\ \A c \in Conn : c[1] # 1 => conn[c] = "none"
    /\ \A t \in queue \cup running : t[1] = 1
    /\ syncTimer \subseteq {1} /\ logging \subseteq {1}
    /\ consensus \in {0, 1} /\ maxTimer \in {0, 1}
    /\ \A k \in Call : k # 1 => outcome[k] \in {"none", "refused"}

\* Nothing but connections to the top tier exists before the sync completed.
NothingYet ==
    /\ queue = {} /\ running = {} /\ ~scheduled
    /\ callbacks[1] = {} /\ crawled[1] = {}
    /\ consensus = 0 /\ maxTimer = 0 /\ logging = {}
    /\ stragglers = <<>> /\ settling = <<>>
    /\ ~halted[1] /\ outcome[1] # "resolved"

Beginning ==
    /\ cur = 0 <=> obsState[1] = "Idle"
    /\ 1 \in syncTimer <=> obsState[1] = "Syncing"
    /\ obsState[1] \in {"Idle", "Syncing"} => NothingYet
    /\ obsState[1] = "Syncing" => crawlState[1] = "TOP_TIER_SYNC"

\* The timers and the promise follow the observation.
Ending ==
    /\ Ends(1) => consensus = 0
    /\ obsState[1] = "Synced" => consensus = 1 \/ halted[1]
    /\ settling # <<>> => Ends(1)
    /\ outcome[1] = "resolved" => Ends(1) /\ maxTimer = 0 /\ logging = {}
    /\ logging # {} => logTimer = 1
    /\ maxTimer # 0 => crawlState[1] # "IDLE"

\* Straggler timers that end a stop are pending exactly while one goes on.
StopTimers ==
    /\ \A r \in TimersOf(stragglers) :
          r.done # NoDone => r.done.obs = 1 /\ obsState[1] = "Stopping"
    /\ obsState[1] = "Stopping" =>
          \E r \in TimersOf(stragglers) : r.done # NoDone

\* activeConnections, when no address has connections of two calls.
Entries ==
    \A a \in Addr :
        /\ conn[<<1, a>>] = "open" => active[a] = 1
        /\ active[a] # 0 =>
              active[a] = 1 /\ conn[<<1, a>>] \in {"open", "destroyed"}

\* A worker waits for the 'close' of a connection that exists.
Busy == ~crashed => \A t \in running : t \in Live(conn) /\ t[2] \in callbacks[1]

\* What waits is taken up: by a worker that gets free, or by process(). A crawl
\* that queued a task has one until the queue drains.
Working ==
    ~crashed =>
        /\ queue # {} => running # {} \/ scheduled
        /\ crawlState[1] = "CRAWLING" /\ crawled[1] # {} => queue \cup running # {}

\* A crawl without tasks has a timer or a stop that ends it.
Timed ==
    crawlState[1] = "CRAWLING" /\ crawled[1] = {} =>
        maxTimer = 1 \/ obsState[1] = "Stopping" \/ settling # <<>>

\* Every peer that must leave is an address of a straggler timer.
Covered ==
    \A c \in Conn :
        /\ conn[c] = "open"
        /\ \/ obsState[1] = "Stopping"
           \/ obsState[1] = "Synced" /\ halted[1] /\ c[2] \notin TopTier
        => \E r \in TimersOf(stragglers) : c[2] \in r.addrs

FirstState ==
    /\ OneCrawl /\ Beginning /\ Ending /\ StopTimers
    /\ Entries /\ Busy /\ Working /\ Timed /\ Covered

FirstInv == BoundInv /\ CallsCount /\ (cur <= 1 => FirstState)

-----------------------------------------------------------------------------
(* Straggler timers *)

LEMMA TimersType ==
    ASSUME TypeInv
    PROVE  /\ stragglers \in Seq(StragglerType)
           /\ \A r \in TimersOf(stragglers) : r \in StragglerType
<1>1. stragglers \in Seq(StragglerType)
  BY DEF TypeInv, TypeOK, ObsTypeOK, StragglerType
<1>2. \A i \in 1 .. Len(stragglers) : stragglers[i] \in StragglerType
  BY <1>1
<1> QED
  BY <1>1, <1>2 DEF TimersOf

LEMMA TimersAfterStart ==
    ASSUME TypeInv, NEW A \in SUBSET Addr, NEW d \in Done
    PROVE  TimersOf(StragglersWith(A, d)) =
              TimersOf(stragglers) \cup
                  (IF A = {} THEN {} ELSE {[addrs |-> A, done |-> d]})
<1> DEFINE r == [addrs |-> A, done |-> d]
<1>1. stragglers \in Seq(StragglerType) /\ r \in StragglerType
  BY TimersType DEF StragglerType
<1>2. CASE A = {}
  BY <1>2 DEF StragglersWith
<1>3. CASE A # {}
  <2>1. StragglersWith(A, d) = Append(stragglers, r)
    BY <1>3 DEF StragglersWith
  <2>2. /\ Len(Append(stragglers, r)) = Len(stragglers) + 1
        /\ Len(stragglers) \in Nat
        /\ \A i \in 1 .. Len(stragglers) : Append(stragglers, r)[i] = stragglers[i]
        /\ Append(stragglers, r)[Len(stragglers) + 1] = r
    BY <1>1
  <2> HIDE DEF r
  <2>3. \A i : i \in 1 .. Len(stragglers) + 1 <=>
                   i \in 1 .. Len(stragglers) \/ i = Len(stragglers) + 1
    BY <2>2
  <2>4. TimersOf(Append(stragglers, r)) = TimersOf(stragglers) \cup {r}
    BY <2>2, <2>3 DEF TimersOf
  <2> QED
    BY <1>3, <2>1, <2>4 DEF r
<1> QED
  BY <1>2, <1>3

LEMMA TimersAfterFire ==
    ASSUME TypeInv, stragglers # <<>>
    PROVE  /\ TimersOf(stragglers) =
                  TimersOf(Tail(stragglers)) \cup {Head(stragglers)}
           /\ Head(stragglers) \in StragglerType
<1>1. stragglers \in Seq(StragglerType)
  BY TimersType
<1>2. /\ Len(stragglers) \in Nat /\ Len(stragglers) >= 1
      /\ Len(Tail(stragglers)) = Len(stragglers) - 1
      /\ Head(stragglers) = stragglers[1] /\ Head(stragglers) \in StragglerType
      /\ \A i \in 1 .. Len(stragglers) - 1 : Tail(stragglers)[i] = stragglers[i + 1]
  BY <1>1
<1>3. ASSUME NEW r \in TimersOf(stragglers), r # Head(stragglers)
      PROVE  r \in TimersOf(Tail(stragglers))
  <2>1. PICK i \in 1 .. Len(stragglers) : r = stragglers[i]
    BY DEF TimersOf
  <2>2. i - 1 \in 1 .. Len(Tail(stragglers)) /\ Tail(stragglers)[i - 1] = r
    BY <1>2, <1>3, <2>1
  <2> QED
    BY <2>2 DEF TimersOf
<1>4. ASSUME NEW r \in TimersOf(Tail(stragglers))
      PROVE  r \in TimersOf(stragglers)
  <2>1. PICK i \in 1 .. Len(Tail(stragglers)) : r = Tail(stragglers)[i]
    BY DEF TimersOf
  <2>2. i + 1 \in 1 .. Len(stragglers) /\ stragglers[i + 1] = r
    BY <1>2, <2>1
  <2> QED
    BY <2>2 DEF TimersOf
<1>5. Head(stragglers) \in TimersOf(stragglers)
  BY <1>2 DEF TimersOf
<1> QED
  BY <1>2, <1>3, <1>4, <1>5

LEMMA NoTimers == TimersOf(<<>>) = {}
  BY DEF TimersOf

-----------------------------------------------------------------------------
(* Calls *)

LEMMA CallsStep ==
    ASSUME TypeInv, CallsCount, [Next]_vars
    PROVE  CallsCount' /\ (StartCrawl \/ UNCHANGED cur)
<1>T. cur \in Nat /\ calls \in Nat
  BY ConnectionAssumption DEF TypeInv, TypeOK, CrawlTypeOK
<1>1. CASE StartCrawl
  BY <1>T, <1>1 DEF StartCrawl, CallsCount
<1>2. CASE RefuseCrawl
  BY <1>T, <1>2 DEF RefuseCrawl, CrawlRunning, CallsCount
<1>3. CASE UNCHANGED <<cur, calls>>
  BY <1>3 DEF CallsCount
<1>4. ASSUME ~StartCrawl, ~RefuseCrawl
      PROVE  UNCHANGED <<cur, calls>>
  BY <1>4
  DEF Next, vars, crawlVars, SyncFailed, StartCrawling, NothingToCrawl,
      StartCrawlProcess, SyncTimeout, ProcessQueue, ProcessQueueThrows,
      ConnectBlacklisted, Connect, Fail, PeersReceived, LedgerClose, InvalidData,
      CloseOnly, CloseAndProcess, CloseAndThrow, CloseAndDrain, Close,
      ConsensusTimeout, StragglerTimeout, StopTimeout, MaxCrawlTimeout, Finish
<1> QED
  BY <1>1, <1>2, <1>3, <1>4

-----------------------------------------------------------------------------
(* A step of the first crawl *)

LEMMA OneIsCall == 1 \in Call /\ 1 \in 1 .. MaxCalls
  BY ConnectionAssumption

FirstStep ==
    /\ BoundInv /\ FirstState /\ Next
    /\ ~StartCrawl /\ cur = 1 /\ UNCHANGED cur

LEMMA FirstFacts ==
    ASSUME FirstStep
    PROVE  /\ TypeInv /\ OneCrawl /\ Beginning /\ ConnSteps
           /\ conn \in ConnType /\ active \in ActiveType
           /\ queue \subseteq Conn /\ running \subseteq Conn
           /\ \A t \in queue : conn[t] = "none"
           /\ 1 \in Call /\ cur = 1 /\ cur' = 1
<1>1. BoundInv /\ [Next]_vars
  BY DEF FirstStep
<1>2. ConnSteps
  BY <1>1, ConnStepKinds
<1>3. /\ conn \in ConnType /\ active \in ActiveType
      /\ queue \subseteq Conn /\ running \subseteq Conn
      /\ \A t \in queue : conn[t] = "none"
  BY <1>1 DEF BoundInv, TasksInv, WaitingIsNew, TypeInv, TypeOK, ConnTypeOK,
              QueueTypeOK, ConnType, ActiveType
<1> QED
  BY <1>1, <1>2, <1>3, OneIsCall DEF FirstStep, FirstState, BoundInv

\* Only the first call ever syncs, so that its timer is the one that fires.
LEMMA FirstSync ==
    ASSUME FirstStep, NEW k \in Call, SyncTimeout(k)
    PROVE  /\ k = 1 /\ obsState[1] = "Syncing" /\ NothingYet
           /\ 1 \notin syncTimer'
BY FirstFacts DEF SyncTimeout, OneCrawl, Beginning

LEMMA OneCrawlStep ==
    ASSUME FirstStep
    PROVE  OneCrawl'
<1>F. /\ TypeInv /\ OneCrawl /\ Beginning /\ 1 \in Call /\ cur = 1 /\ cur' = 1
      /\ conn \in ConnType /\ ConnSteps
  BY FirstFacts
<1>1. \A c \in Conn : c[1] # 1 => conn'[c] = "none"
  <2> SUFFICES ASSUME NEW c \in Conn, c[1] # 1 PROVE conn'[c] = "none"
    OBVIOUS
  <2>1. conn[c] = "none" /\ c \notin queue
    BY <1>F DEF OneCrawl
  <2>2. ~StartCrawl
    BY DEF FirstStep
  <2> QED
    BY <1>F, <2>1, <2>2
    DEF ConnSteps, TasksConnect, Disconnection, PeerArrives, ConnectionEnds, Live,
        connVars
<1>2. CASE UNCHANGED <<queue, running, syncTimer, logging, consensus, maxTimer,
                       outcome>>
  BY <1>F, <1>1, <1>2 DEF OneCrawl
<1>3. CASE RefuseCrawl
  BY <1>F, <1>1, <1>3
  DEF RefuseCrawl, OneCrawl, queueVars, obsVars, TypeInv, TypeOK, CrawlTypeOK
<1>4. ASSUME NEW k \in Call, SyncFailed(k)
      PROVE  OneCrawl'
  <2>1. k = 1 /\ SyncTimeout(k)
    BY <1>4, FirstSync DEF SyncFailed
  <2> QED
    BY <1>F, <1>1, <1>4, <2>1
    DEF SyncFailed, SyncTimeout, SyncCompleted, OneCrawl, queueVars
<1>5. ASSUME NEW k \in Call, StartCrawling(k)
      PROVE  OneCrawl'
  <2>1. k = 1 /\ SyncTimeout(k)
    BY <1>5, FirstSync DEF StartCrawling, StartCrawlProcess
  <2> QED
    BY <1>F, <1>1, <1>5, <2>1
    DEF StartCrawling, StartCrawlProcess, SyncTimeout, SyncCompleted,
        StartLogging, CrawlPeerNodes, Push, OneCrawl
<1>6. ASSUME NEW k \in Call, NothingToCrawl(k)
      PROVE  OneCrawl'
  <2>1. k = 1 /\ SyncTimeout(k)
    BY <1>6, FirstSync DEF NothingToCrawl, StartCrawlProcess
  <2> QED
    BY <1>F, <1>1, <1>6, <2>1
    DEF NothingToCrawl, StartCrawlProcess, SyncTimeout, StopObservation,
        StartLogging, OneCrawl
<1>7. ASSUME NEW S \in SUBSET queue, ProcessQueue(S)
      PROVE  OneCrawl'
  BY <1>F, <1>1, <1>7 DEF ProcessQueue, StartTasks, OneCrawl, obsVars, crawlVars
<1>8. ASSUME NEW t \in queue, ProcessQueueThrows(t)
      PROVE  OneCrawl'
  BY <1>F, <1>1, <1>8 DEF ProcessQueueThrows, ConnectThrows, OneCrawl, obsVars
<1>9. ASSUME NEW c \in Conn,
             ConnectBlacklisted(c) \/ Connect(c) \/ Fail(c) \/ InvalidData(c)
      PROVE  OneCrawl'
  BY <1>2, <1>9
  DEF ConnectBlacklisted, Connect, PeerConnected, Fail, InvalidData, obsVars,
      queueVars, crawlVars
<1>10. ASSUME NEW c \in Conn, NEW P \in SUBSET Addr, PeersReceived(c, P)
       PROVE  OneCrawl'
  BY <1>F, <1>1, <1>10
  DEF PeersReceived, CrawlPeerNodes, Push, OneCrawl, obsVars
<1>11. ASSUME NEW c \in Conn, LedgerClose(c)
       PROVE  OneCrawl'
  BY <1>F, <1>1, <1>11
  DEF LedgerClose, LedgerCloseConfirmed, OneCrawl, queueVars, crawlVars
<1>12. ASSUME NEW c \in Conn, CloseOnly(c)
       PROVE  OneCrawl'
  BY <1>2, <1>12 DEF CloseOnly, Close, obsVars
<1>13. ASSUME NEW c \in Conn, NEW S \in SUBSET queue, CloseAndProcess(c, S)
       PROVE  OneCrawl'
  BY <1>F, <1>1, <1>13
  DEF CloseAndProcess, Close, StartTasks, RunningAfter, OneCrawl, obsVars
<1>14. ASSUME NEW c \in Conn, NEW t \in queue, CloseAndThrow(c, t)
       PROVE  OneCrawl'
  BY <1>F, <1>1, <1>14
  DEF CloseAndThrow, Close, ConnectThrows, RunningAfter, OneCrawl, obsVars
<1>15. ASSUME NEW c \in Conn, CloseAndDrain(c)
       PROVE  OneCrawl'
  BY <1>F, <1>1, <1>15
  DEF CloseAndDrain, Close, StopObservation, RunningAfter, OneCrawl
<1>16. CASE ConsensusTimeout
  BY <1>F, <1>1, <1>16
  DEF ConsensusTimeout, NetworkHalted, OneCrawl, queueVars, crawlVars
<1>17. CASE StragglerTimeout
  BY <1>2, <1>17 DEF StragglerTimeout, queueVars, crawlVars
<1>18. CASE StopTimeout
  BY <1>2, <1>18 DEF StopTimeout, queueVars, crawlVars
<1>19. CASE MaxCrawlTimeout
  BY <1>F, <1>1, <1>19
  DEF MaxCrawlTimeout, StopObservation, OneCrawl, queueVars
<1>20. CASE Finish
  <2>1. \A k \in Call : outcome[k] # "pending" => outcome'[k] = outcome[k]
    BY <1>F, <1>20 DEF Finish, Settled, TypeInv, TypeOK, CrawlTypeOK
  <2>2. \A k \in Call : k # 1 => outcome'[k] \in {"none", "refused"}
    BY <1>F, <2>1 DEF OneCrawl
  <2> QED
    BY <1>F, <1>1, <1>20, <2>2 DEF Finish, StopLogging, OneCrawl, queueVars
<1> QED
  BY <1>3, <1>4, <1>5, <1>6, <1>7, <1>8, <1>9, <1>10, <1>11, <1>12, <1>13,
     <1>14, <1>15, <1>16, <1>17, <1>18, <1>19, <1>20
  DEF FirstStep, Next

\* The state of the observation moves, and never back to the sync.
LEMMA ObservationMoves ==
    ASSUME FirstStep
    PROVE  /\ syncTimer' \subseteq syncTimer
           /\ \/ obsState'[1] = obsState[1]
              \/ obsState'[1] \in {"Synced", "Stopping", "Stopped"}
<1>F. obsState \in [Call -> ObservationState] /\ cur = 1 /\ 1 \in Call
  BY FirstFacts DEF TypeInv, TypeOK, ObsTypeOK
<1> DEFINE Moves == /\ syncTimer' \subseteq syncTimer
                    /\ \/ obsState'[1] = obsState[1]
                       \/ obsState'[1] \in {"Synced", "Stopping", "Stopped"}
<1>1. CASE UNCHANGED <<syncTimer, obsState>>
  BY <1>1
<1>2. CASE RefuseCrawl
  BY <1>1, <1>2 DEF RefuseCrawl, obsVars
<1>3. ASSUME NEW k \in Call, SyncFailed(k) \/ StartCrawling(k)
      PROVE  Moves
  BY <1>F, <1>3
  DEF SyncFailed, StartCrawling, StartCrawlProcess, SyncTimeout, SyncCompleted
<1>4. ASSUME NEW k \in Call, NothingToCrawl(k)
      PROVE  Moves
  BY <1>F, <1>4
  DEF NothingToCrawl, StartCrawlProcess, SyncTimeout, StopObservation,
      LastNodesDisconnected, AwaitStragglers
<1>5. ASSUME NEW S \in SUBSET queue, ProcessQueue(S)
      PROVE  Moves
  BY <1>1, <1>5 DEF ProcessQueue, obsVars, crawlVars
<1>6. ASSUME NEW t \in queue, ProcessQueueThrows(t)
      PROVE  Moves
  BY <1>1, <1>6 DEF ProcessQueueThrows, obsVars
<1>7. ASSUME NEW c \in Conn,
             \/ ConnectBlacklisted(c) \/ Connect(c) \/ Fail(c)
             \/ LedgerClose(c) \/ InvalidData(c)
      PROVE  Moves
  BY <1>1, <1>7
  DEF ConnectBlacklisted, Connect, PeerConnected, Fail, LedgerClose,
      LedgerCloseConfirmed, InvalidData, obsVars, crawlVars
<1>8. ASSUME NEW c \in Conn, NEW P \in SUBSET Addr, PeersReceived(c, P)
      PROVE  Moves
  BY <1>1, <1>8 DEF PeersReceived, obsVars
<1>9. ASSUME NEW c \in Conn,
             \/ CloseOnly(c)
             \/ \E S \in SUBSET queue : CloseAndProcess(c, S)
             \/ \E t \in queue : CloseAndThrow(c, t)
      PROVE  Moves
  BY <1>1, <1>9 DEF CloseOnly, CloseAndProcess, CloseAndThrow, Close, obsVars
<1>10. ASSUME NEW c \in Conn, CloseAndDrain(c)
       PROVE  Moves
  BY <1>F, <1>10
  DEF CloseAndDrain, Close, StopObservation, LastNodesDisconnected,
      AwaitStragglers
<1>11. CASE ConsensusTimeout \/ StragglerTimeout \/ Finish
  BY <1>1, <1>11
  DEF ConsensusTimeout, NetworkHalted, StragglerTimeout, Finish, crawlVars
<1>12. CASE StopTimeout
  BY <1>F, <1>12 DEF StopTimeout, LastNodesDisconnected, crawlVars
<1>13. CASE MaxCrawlTimeout
  BY <1>F, <1>13
  DEF MaxCrawlTimeout, StopObservation, LastNodesDisconnected, AwaitStragglers
<1> QED
  BY <1>2, <1>3, <1>4, <1>5, <1>6, <1>7, <1>8, <1>9, <1>10, <1>11, <1>12, <1>13
  DEF FirstStep, Next

\* A step before the sync completed: only its timer ends it, the queue does
\* not exist for the steps of connections.
LEMMA WhileSyncing ==
    ASSUME FirstStep, obsState[1] = "Syncing"
    PROVE  \/ \E k \in Call : SyncFailed(k) \/ StartCrawling(k) \/ NothingToCrawl(k)
           \/ /\ UNCHANGED <<obsState, syncTimer>>
              /\ NothingYet' /\ crawlState'[1] = crawlState[1]
<1>F. /\ TypeInv /\ NothingYet /\ cur = 1 /\ crawlState[1] = "TOP_TIER_SYNC"
      /\ queue = {} /\ stragglers = <<>> /\ settling = <<>> /\ consensus = 0
      /\ maxTimer = 0 /\ ~scheduled /\ callbacks[1] = {} /\ ~halted[1]
  BY FirstFacts DEF Beginning, NothingYet
<1>1. ASSUME UNCHANGED <<obsVars, queueVars, crawled, maxTimer, syncTimer, logVars,
                         crawlState>>,
             outcome'[1] # "resolved"
      PROVE  /\ UNCHANGED <<obsState, syncTimer>>
             /\ NothingYet' /\ crawlState'[1] = crawlState[1]
  BY <1>F, <1>1 DEF obsVars, queueVars, NothingYet
<1>2. CASE RefuseCrawl
  <2>1. outcome'[1] # "resolved"
    BY <1>F, <1>2 DEF RefuseCrawl, NothingYet, TypeInv, TypeOK, CrawlTypeOK
  <2> QED
    BY <1>1, <1>2, <2>1 DEF RefuseCrawl
<1>3. ASSUME NEW c \in Conn, ConnectBlacklisted(c) \/ Fail(c) \/ InvalidData(c)
      PROVE  /\ UNCHANGED <<obsState, syncTimer>>
             /\ NothingYet' /\ crawlState'[1] = crawlState[1]
  BY <1>F, <1>1, <1>3
  DEF ConnectBlacklisted, Fail, InvalidData, crawlVars, NothingYet
<1>4. ASSUME NEW c \in Conn, Connect(c)
      PROVE  /\ UNCHANGED <<obsState, syncTimer>>
             /\ NothingYet' /\ crawlState'[1] = crawlState[1]
  <2>1. ~LeavesSoon(cur)
    BY <1>F DEF LeavesSoon
  <2>2. UNCHANGED <<obsState, halted, stragglers, consensus, settling>>
    BY <1>4, <2>1 DEF Connect, PeerConnected
  <2> QED
    BY <1>F, <1>4, <2>2 DEF Connect, queueVars, crawlVars, NothingYet
<1>5. ASSUME NEW c \in Conn, NEW P \in SUBSET Addr, PeersReceived(c, P)
      PROVE  /\ UNCHANGED <<obsState, syncTimer>>
             /\ NothingYet' /\ crawlState'[1] = crawlState[1]
  BY <1>F, <1>5 DEF PeersReceived, obsVars, NothingYet
<1>6. ASSUME NEW c \in Conn, LedgerClose(c)
      PROVE  FALSE
  BY <1>F, <1>6 DEF LedgerClose
<1>7. ASSUME NEW c \in Conn, CloseOnly(c)
      PROVE  /\ UNCHANGED <<obsState, syncTimer>>
             /\ NothingYet' /\ crawlState'[1] = crawlState[1]
  BY <1>F, <1>1, <1>7 DEF CloseOnly, Close, queueVars, NothingYet
<1>8. ASSUME NEW c \in Conn,
             \/ CloseAndDrain(c)
             \/ \E S \in SUBSET queue : CloseAndProcess(c, S)
             \/ \E t \in queue : CloseAndThrow(c, t)
      PROVE  FALSE
  <2>1. ~EndsTask(c)
    BY <1>F DEF EndsTask
  <2> QED
    BY <1>8, <2>1 DEF CloseAndDrain, CloseAndProcess, CloseAndThrow
<1>9. CASE ConsensusTimeout \/ StragglerTimeout \/ StopTimeout \/ MaxCrawlTimeout
           \/ Finish \/ (\E S \in SUBSET queue : ProcessQueue(S))
           \/ (\E t \in queue : ProcessQueueThrows(t))
  BY <1>F, <1>9
  DEF ConsensusTimeout, StragglerTimeout, StopTimeout, MaxCrawlTimeout, Finish,
      ProcessQueue
<1> QED
  BY <1>2, <1>3, <1>4, <1>5, <1>6, <1>7, <1>8, <1>9 DEF FirstStep, Next

LEMMA SyncEnds ==
    ASSUME FirstStep, NEW k \in Call,
           SyncFailed(k) \/ StartCrawling(k) \/ NothingToCrawl(k)
    PROVE  /\ SyncTimeout(k) /\ k = 1
           /\ obsState'[1] \in {"Synced", "Stopping", "Stopped"}
<1>1. SyncTimeout(k)
  BY DEF SyncFailed, StartCrawling, NothingToCrawl, StartCrawlProcess
<1>2. k = 1 /\ cur = 1 /\ obsState \in [Call -> ObservationState]
  BY <1>1, FirstSync, FirstFacts DEF TypeInv, TypeOK, ObsTypeOK
<1> QED
  BY <1>1, <1>2
  DEF SyncFailed, StartCrawling, NothingToCrawl, SyncCompleted, StopObservation,
      LastNodesDisconnected, AwaitStragglers

LEMMA BeginningStep ==
    ASSUME FirstStep
    PROVE  Beginning'
<1>F. /\ Beginning /\ cur = 1 /\ cur' = 1 /\ obsState[1] # "Idle"
      /\ obsState[1] = "Syncing" => crawlState[1] = "TOP_TIER_SYNC"
  BY FirstFacts DEF Beginning
<1>1. CASE obsState[1] # "Syncing"
  <2>1. 1 \notin syncTimer' /\ obsState'[1] \notin {"Idle", "Syncing"}
    BY <1>F, <1>1, ObservationMoves DEF Beginning
  <2> QED
    BY <1>F, <2>1 DEF Beginning
<1>2. ASSUME obsState[1] = "Syncing",
             NEW k \in Call,
             SyncFailed(k) \/ StartCrawling(k) \/ NothingToCrawl(k)
      PROVE  Beginning'
  <2>1. 1 \notin syncTimer' /\ obsState'[1] \notin {"Idle", "Syncing"}
    BY <1>2, SyncEnds, FirstSync
  <2> QED
    BY <1>F, <2>1 DEF Beginning
<1>3. CASE /\ obsState[1] = "Syncing" /\ UNCHANGED <<obsState, syncTimer>>
           /\ NothingYet' /\ crawlState'[1] = crawlState[1]
  BY <1>F, <1>3 DEF Beginning
<1> QED
  BY <1>1, <1>2, <1>3, WhileSyncing

\* A stop ends the observation, now or with its stragglers.
LEMMA StopEnds ==
    ASSUME ObsTypeOK, NEW con, NEW act, NEW d, d.obs = 1,
           StopObservation(con, act, d)
    PROVE  consensus' = 0 /\ Ends(1)' /\ UNCHANGED halted
BY OneIsCall
DEF StopObservation, LastNodesDisconnected, AwaitStragglers, Ends, ObsTypeOK

\* The timer that fires at the end of a stop belongs to the observation.
LEMMA StopTimerOfFirst ==
    ASSUME FirstStep, StopTimeout
    PROVE  /\ Head(stragglers) \in TimersOf(stragglers)
           /\ Head(stragglers).done.obs = 1 /\ obsState[1] = "Stopping"
           /\ obsState'[1] = "Stopped" /\ stragglers' = <<>>
<1>1. Head(stragglers) \in TimersOf(stragglers)
  BY FirstFacts, TimersAfterFire DEF StopTimeout
<1>2. Head(stragglers).done.obs = 1 /\ obsState[1] = "Stopping"
  BY <1>1 DEF StopTimeout, FirstStep, FirstState, StopTimers
<1>3. obsState \in [Call -> ObservationState] /\ 1 \in Call
  BY FirstFacts DEF TypeInv, TypeOK, ObsTypeOK
<1> QED
  BY <1>1, <1>2, <1>3 DEF StopTimeout, LastNodesDisconnected

LEMMA EndingStep ==
    ASSUME FirstStep
    PROVE  Ending'
<1>F. /\ OneCrawl /\ Ending /\ cur = 1 /\ 1 \in Call /\ ObsTypeOK
      /\ outcome \in [Call -> Outcome]
      /\ obsState \in [Call -> ObservationState] /\ halted \in [Call -> BOOLEAN]
      /\ crawlState \in [Call -> CrawlProcessState]
      /\ logging \subseteq {1} /\ consensus \in {0, 1}
  BY FirstFacts
  DEF FirstStep, FirstState, OneCrawl, TypeInv, TypeOK, ObsTypeOK, CrawlTypeOK
<1>1. CASE UNCHANGED <<obsState, halted, consensus, settling, crawlState, outcome,
                       maxTimer, logVars>>
  BY <1>F, <1>1 DEF Ending, Ends
<1>2. CASE RefuseCrawl
  <2>1. outcome'[1] = "resolved" => outcome[1] = "resolved"
    BY <1>F, <1>2 DEF RefuseCrawl
  <2> QED
    BY <1>F, <1>2, <2>1 DEF RefuseCrawl, obsVars, Ending, Ends
<1>3. ASSUME NEW k \in Call, SyncFailed(k) \/ StartCrawling(k)
      PROVE  Ending'
  <2>1. k = 1 /\ NothingYet
    BY <1>3, SyncEnds, FirstSync
  <2>2. obsState'[1] = "Synced" /\ consensus' = 1 /\ settling' = <<>>
    BY <1>F, <1>3, <2>1
    DEF SyncFailed, StartCrawling, SyncCompleted, NothingYet
  <2>3. outcome'[1] # "resolved"
    BY <1>F, <1>3, <2>1 DEF SyncFailed, StartCrawling, StartCrawlProcess, NothingYet
  <2>4. /\ logging' # {} => logTimer' = 1
        /\ maxTimer' # 0 => crawlState'[1] # "IDLE"
    BY <1>F, <1>3, <2>1
    DEF SyncFailed, StartCrawling, StartCrawlProcess, StartLogging, NothingYet
  <2> QED
    BY <2>2, <2>3, <2>4 DEF Ending, Ends
<1>4. ASSUME NEW k \in Call, NothingToCrawl(k)
      PROVE  Ending'
  <2> USE <1>4 DEF NothingToCrawl, StartCrawlProcess
  <2>1. k = 1 /\ NothingYet
    BY SyncEnds, FirstSync
  <2>2. consensus' = 0 /\ Ends(1)'
    BY <1>F, StopEnds
  <2>3. /\ logTimer' = 1 /\ outcome'[1] # "resolved"
        /\ crawlState'[1] = "CRAWLING"
    BY <1>F, <2>1 DEF StartLogging, NothingYet
  <2> QED
    BY <2>2, <2>3 DEF Ending, Ends
<1>5. ASSUME NEW S \in SUBSET queue, ProcessQueue(S)
      PROVE  Ending'
  BY <1>1, <1>5 DEF ProcessQueue, obsVars, crawlVars
<1>6. ASSUME NEW t \in queue, ProcessQueueThrows(t)
      PROVE  Ending'
  BY <1>1, <1>6 DEF ProcessQueueThrows, obsVars
<1>7. ASSUME NEW c \in Conn,
             ConnectBlacklisted(c) \/ Connect(c) \/ Fail(c) \/ InvalidData(c)
      PROVE  Ending'
  BY <1>1, <1>7
  DEF ConnectBlacklisted, Connect, PeerConnected, Fail, InvalidData, obsVars,
      crawlVars
<1>8. ASSUME NEW c \in Conn, NEW P \in SUBSET Addr, PeersReceived(c, P)
      PROVE  Ending'
  BY <1>1, <1>8 DEF PeersReceived, obsVars
<1>9. ASSUME NEW c \in Conn, LedgerClose(c)
      PROVE  Ending'
  BY <1>F, <1>9
  DEF LedgerClose, LedgerCloseConfirmed, crawlVars, Ending, Ends
<1>10. ASSUME NEW c \in Conn,
              \/ CloseOnly(c)
              \/ \E S \in SUBSET queue : CloseAndProcess(c, S)
              \/ \E t \in queue : CloseAndThrow(c, t)
       PROVE  Ending'
  BY <1>1, <1>10 DEF CloseOnly, CloseAndProcess, CloseAndThrow, Close, obsVars
<1>11. ASSUME NEW c \in Conn, CloseAndDrain(c)
       PROVE  Ending'
  <2> USE <1>11 DEF CloseAndDrain, Close
  <2>1. consensus' = 0 /\ Ends(1)'
    BY <1>F, StopEnds
  <2>2. crawlState'[1] = "STOPPING"
    BY <1>F
  <2> QED
    BY <1>F, <2>1, <2>2 DEF Ending, Ends
<1>12. CASE ConsensusTimeout
  <2>1. consensus = 1 /\ halted'[1] = TRUE
    BY <1>F, <1>12 DEF ConsensusTimeout, NetworkHalted
  <2> QED
    BY <1>F, <1>12, <2>1
    DEF ConsensusTimeout, NetworkHalted, crawlVars, Ending, Ends
<1>13. CASE StragglerTimeout
  BY <1>1, <1>13 DEF StragglerTimeout, crawlVars
<1>14. CASE StopTimeout
  <2>1. obsState[1] = "Stopping" /\ obsState'[1] = "Stopped"
    BY <1>14, StopTimerOfFirst
  <2> QED
    BY <1>F, <1>14, <2>1 DEF StopTimeout, crawlVars, Ending, Ends
<1>15. CASE MaxCrawlTimeout
  <2>1. consensus' = 0 /\ Ends(1)'
    BY <1>F, <1>15, StopEnds DEF MaxCrawlTimeout
  <2> QED
    BY <1>F, <1>15, <2>1 DEF MaxCrawlTimeout, Ending, Ends
<1>16. CASE Finish
  <2>1. Ends(1) /\ maxTimer' = 0
    BY <1>F, <1>16 DEF Finish, Ending
  <2>2. logging' = {}
    BY <1>F, <1>16 DEF Finish, StopLogging, Ending
  <2>3. UNCHANGED <<obsState, halted, consensus>>
    BY <1>16 DEF Finish
  <2> QED
    BY <1>F, <2>1, <2>2, <2>3 DEF Ending, Ends
<1> QED
  BY <1>2, <1>3, <1>4, <1>5, <1>6, <1>7, <1>8, <1>9, <1>10, <1>11, <1>12, <1>13,
     <1>14, <1>15, <1>16
  DEF FirstStep, Next

-----------------------------------------------------------------------------
(* Connections of the first crawl *)

LEMMA EntriesStep ==
    ASSUME FirstStep
    PROVE  Entries'
<1>F. /\ ConnSteps /\ ~StartCrawl /\ Entries /\ conn \in ConnType
      /\ active \in ActiveType /\ 1 \in Call
      /\ \A c \in Conn : c[1] # 1 => conn[c] = "none"
      /\ \A t \in queue : conn[t] = "none"
  BY FirstFacts DEF FirstStep, FirstState, OneCrawl
<1> SUFFICES ASSUME NEW a \in Addr
             PROVE  /\ conn'[<<1, a>>] = "open" => active'[a] = 1
                    /\ active'[a] # 0 => /\ active'[a] = 1
                                         /\ conn'[<<1, a>>] \in {"open", "destroyed"}
  BY DEF Entries
<1>1. /\ conn[<<1, a>>] = "open" => active[a] = 1
      /\ active[a] # 0 => active[a] = 1 /\ conn[<<1, a>>] \in {"open", "destroyed"}
      /\ <<1, a>> \in Conn
  BY <1>F DEF Entries
<1>2. CASE TasksConnect(Conn) /\ UNCHANGED active
  BY <1>F, <1>1, <1>2 DEF TasksConnect
<1>3. CASE Disconnection /\ UNCHANGED active
  BY <1>1, <1>3 DEF Disconnection
<1>4. ASSUME NEW c \in Conn, PeerArrives(c)
      PROVE  /\ conn'[<<1, a>>] = "open" => active'[a] = 1
             /\ active'[a] # 0 => /\ active'[a] = 1
                                  /\ conn'[<<1, a>>] \in {"open", "destroyed"}
  <2>1. c = <<1, c[2]>> /\ c[2] \in Addr
    BY <1>F, <1>4 DEF PeerArrives
  <2>2. active'[a] = IF a = c[2] THEN 1 ELSE active[a]
    BY <1>F, <1>4, <2>1 DEF PeerArrives, Entered, ActiveType
  <2> QED
    BY <1>1, <1>4, <2>1, <2>2 DEF PeerArrives
<1>5. ASSUME NEW c \in Conn, ConnectionEnds(c)
      PROVE  /\ conn'[<<1, a>>] = "open" => active'[a] = 1
             /\ active'[a] # 0 => /\ active'[a] = 1
                                  /\ conn'[<<1, a>>] \in {"open", "destroyed"}
  <2>1. c = <<1, c[2]>> /\ c[2] \in Addr
    BY <1>F, <1>5 DEF ConnectionEnds, Live
  <2>2. active'[a] = IF a = c[2] THEN 0 ELSE active[a]
    BY <1>F, <1>5, <2>1 DEF ConnectionEnds, Removed, ActiveType
  <2> QED
    BY <1>F, <1>1, <1>5, <2>1, <2>2 DEF ConnectionEnds, TasksConnect
<1> QED
  BY <1>F, <1>2, <1>3, <1>4, <1>5 DEF ConnSteps

\* The events other than the queue's change no task, unless they throw.
LEMMA OtherTasks ==
    ASSUME OtherEvent
    PROVE  UNCHANGED <<running, callbacks>> \/ crashed'
BY DEF OtherEvent, RefuseCrawl, SyncFailed, StartCrawling, NothingToCrawl,
       StartCrawlProcess, ProcessQueueThrows, ConnectThrows, ConnectBlacklisted,
       Fail, PeersReceived, LedgerClose, InvalidData, ConsensusTimeout,
       StragglerTimeout, StopTimeout, MaxCrawlTimeout, Finish, vars, queueVars

LEMMA BusyStep ==
    ASSUME FirstStep
    PROVE  Busy'
<1>F. /\ ConnSteps /\ ~StartCrawl /\ Busy /\ conn \in ConnType
      /\ cur = 1 /\ 1 \in Call /\ callbacks \in [Call -> SUBSET Addr]
      /\ \A t \in running : t \in Conn /\ t[1] = 1
      /\ \A t \in queue : t \in Conn /\ t[1] = 1 /\ conn[t] = "none"
      /\ \A c \in Live(conn) : c[1] = 1
  BY FirstFacts
  DEF FirstStep, FirstState, OneCrawl, TypeInv, TypeOK, QueueTypeOK, Live
<1> SUFFICES ASSUME ~crashed', NEW t \in running'
             PROVE  t \in Live(conn)' /\ t[2] \in callbacks'[1]
  BY DEF Busy
<1>1. ASSUME NEW S \in SUBSET queue, ProcessQueue(S)
      PROVE  t \in Live(conn)' /\ t[2] \in callbacks'[1]
  <2>1. ~crashed
    BY <1>1 DEF ProcessQueue, crawlVars
  <2>2. callbacks'[1] = callbacks[1] \cup {a \in Addr : <<1, a>> \in S}
    BY <1>F, <1>1 DEF ProcessQueue, Registered
  <2>3. \A c \in Conn : conn'[c] = IF c \in S THEN "connecting" ELSE conn[c]
    BY <1>1 DEF ProcessQueue, StartTasks, Connecting
  <2>4. CASE t \in S
    BY <1>F, <2>2, <2>3, <2>4 DEF Live
  <2>5. CASE t \in running /\ t \notin S
    BY <1>F, <2>1, <2>2, <2>3, <2>5 DEF Busy, Live
  <2> QED
    BY <1>1, <2>4, <2>5 DEF ProcessQueue, StartTasks
<1>2. ASSUME OtherEvent, Disconnection
      PROVE  t \in Live(conn)' /\ t[2] \in callbacks'[1]
  <2>1. ~crashed
    BY <1>2
    DEF OtherEvent, RefuseCrawl, SyncFailed, StartCrawling, NothingToCrawl,
        StartCrawlProcess, SyncTimeout, ProcessQueueThrows, ConnectBlacklisted,
        Fail, PeersReceived, LedgerClose, InvalidData, ConsensusTimeout, CanRun,
        StragglerTimeout, StopTimeout, MaxCrawlTimeout, Finish, CanRun,
        vars, crawlVars
  <2>2. t \in running /\ callbacks' = callbacks
    BY <1>2, OtherTasks
  <2> QED
    BY <1>F, <1>2, <2>1, <2>2 DEF Busy, Disconnection, Live
<1>3. ASSUME NEW c \in Conn, Connect(c), PeerArrives(c)
      PROVE  t \in Live(conn)' /\ t[2] \in callbacks'[1]
  <2>1. ~crashed /\ UNCHANGED <<running, callbacks>>
    BY <1>3 DEF Connect, CanRun, queueVars
  <2>2. t \in Live(conn) /\ t[2] \in callbacks[1]
    BY <1>F, <2>1 DEF Busy
  <2> QED
    BY <1>3, <2>1, <2>2 DEF PeerArrives, Live
<1>4. ASSUME NEW c \in Conn, CloseAny(c), ConnectionEnds(c)
      PROVE  t \in Live(conn)' /\ t[2] \in callbacks'[1]
  <2>0. /\ ~crashed /\ c[1] = 1 /\ c = <<1, c[2]>> /\ c \in Live(conn)
        /\ \A r \in running : r \in Live(conn) /\ r[2] \in callbacks[1]
    BY <1>F, <1>4
    DEF Busy, CloseAny, ConnectionEnds, CloseOnly, CloseAndProcess, CloseAndThrow,
        CloseAndDrain, Close
  <2>1. \A r \in running : r # c => r \in Live(conn)' /\ r[2] # c[2]
    <3> SUFFICES ASSUME NEW r \in running, r # c
                 PROVE  r \in Live(conn)' /\ r[2] # c[2]
      OBVIOUS
    <3>1. r \in Conn /\ r[1] = 1 /\ r = <<1, r[2]>> /\ r \in Live(conn)
      BY <1>F, <2>0
    <3>2. conn'[r] = conn[r] \/ conn'[r] = "connecting"
      BY <1>4, <3>1 DEF ConnectionEnds, TasksConnect
    <3> QED
      BY <2>0, <3>1, <3>2 DEF Live
  <2>2. CASE CloseOnly(c)
    <3>1. UNCHANGED <<running, callbacks>> /\ c[2] \notin callbacks[1]
      BY <1>F, <2>2 DEF CloseOnly, EndsTask
    <3>2. t # c
      BY <2>0, <3>1
    <3> QED
      BY <2>0, <2>1, <3>1, <3>2
  <2>3. ASSUME NEW S \in SUBSET queue, CloseAndProcess(c, S)
        PROVE  t \in Live(conn)' /\ t[2] \in callbacks'[1]
    <3> USE <2>3 DEF CloseAndProcess, StartTasks
    <3>1. c \notin S
      BY <1>F, <2>0 DEF Live
    <3>2. callbacks'[1] = (callbacks[1] \cup {a \in Addr : <<1, a>> \in S}) \ {c[2]}
      BY <1>F DEF Forgotten, Registered
    <3>3. running' = (running \ {c}) \cup S
      BY <1>F, <2>0 DEF RunningAfter
    <3>4. CASE t \in S
      <4>1. t \in Conn /\ t = <<1, t[2]>> /\ t[2] # c[2]
        BY <1>F, <2>0, <3>1, <3>4
      <4>2. conn'[t] = "connecting"
        BY <3>4, <4>1 DEF Connecting
      <4> QED
        BY <3>2, <3>4, <4>1, <4>2 DEF Live
    <3>5. CASE t \in running /\ t # c
      BY <2>0, <2>1, <3>2, <3>5
    <3> QED
      BY <3>3, <3>4, <3>5
  <2>4. ASSUME NEW r \in queue, CloseAndThrow(c, r)
        PROVE  FALSE
    BY <2>4 DEF CloseAndThrow, ConnectThrows
  <2>5. CASE CloseAndDrain(c)
    BY <2>5 DEF CloseAndDrain, Idle
  <2> QED
    BY <1>4, <2>2, <2>3, <2>4, <2>5 DEF CloseAny
<1> QED
  BY <1>F, <1>1, <1>2, <1>3, <1>4 DEF ConnSteps

-----------------------------------------------------------------------------
(* The work of the first crawl *)

\* A run of process() leaves no task waiting while all workers are free.
LEMMA WorkersTakeTasks ==
    ASSUME NEW run, NEW S, Startable(run, S), run \cup S = {}
    PROVE  queue = {}
<1>1. Cardinality(run \cup S) = 0
  BY FS_EmptySet
<1>2. Cardinality(run \cup S) # Workers
  BY <1>1, MaxOpenAssumption DEF Workers
<1> QED
  BY <1>2 DEF Startable

\* The events that change neither the queue nor what was crawled.
LEMMA QueueUntouched ==
    ASSUME FirstStep, UNCHANGED <<queueVars, crawled, crashed>>,
           crawlState'[1] = "CRAWLING" => crawlState[1] = "CRAWLING"
    PROVE  Working'
BY DEF FirstStep, FirstState, Working, queueVars

\* No caller of stop() leaves the crawl crawling.
LEMMA FinishEndsCrawling ==
    ASSUME TypeInv, cur = 1, 1 \in Call, Finish
    PROVE  crawlState'[1] # "CRAWLING"
<1>1. settling \in Seq(Done) /\ settling # <<>>
  BY DEF Finish, TypeInv, TypeOK, ObsTypeOK
<1>2. Head(settling) \in Done
  BY <1>1
<1>3. Head(settling).then # "CRAWLING"
  BY <1>2 DEF Done
<1> QED
  BY <1>3 DEF Finish, TypeInv, TypeOK, CrawlTypeOK

LEMMA WorkingStep ==
    ASSUME FirstStep
    PROVE  Working'
<1>F. /\ TypeInv /\ Working /\ 1 \in Call /\ cur = 1 /\ cur' = 1
      /\ crawlState \in [Call -> CrawlProcessState]
      /\ crawled \in [Call -> SUBSET Addr]
  BY FirstFacts DEF FirstStep, FirstState, TypeInv, TypeOK, CrawlTypeOK
<1> SUFFICES ASSUME ~crashed'
             PROVE  /\ queue' # {} => running' # {} \/ scheduled'
                    /\ crawlState'[1] = "CRAWLING" /\ crawled'[1] # {}
                           => queue' \cup running' # {}
  BY DEF Working
<1> DEFINE W == /\ queue' # {} => running' # {} \/ scheduled'
                /\ crawlState'[1] = "CRAWLING" /\ crawled'[1] # {}
                       => queue' \cup running' # {}
<1>U. ASSUME UNCHANGED <<queueVars, crawled, crashed>>,
             crawlState'[1] = "CRAWLING" => crawlState[1] = "CRAWLING"
      PROVE  W
  BY <1>U, QueueUntouched DEF Working
<1>1. CASE RefuseCrawl
  BY <1>1, <1>U DEF RefuseCrawl
<1>2. ASSUME NEW k \in Call, SyncFailed(k)
      PROVE  W
  BY <1>2, <1>U DEF SyncFailed, SyncTimeout, crawlVars
<1>3. ASSUME NEW k \in Call, StartCrawling(k)
      PROVE  W
  <2>1. /\ crawled[1] = {} /\ queue = {} /\ running = {}
        /\ running' = running /\ CrawlPeerNodes(NodesToCrawl)
    BY <1>3, SyncEnds, FirstSync DEF NothingYet, StartCrawling, StartCrawlProcess
  <2>2. crawled'[1] = Crawlable(NodesToCrawl)
    BY <1>F, <2>1 DEF CrawlPeerNodes
  <2>3. /\ queue' = {1} \X Crawlable(NodesToCrawl)
        /\ scheduled' = (scheduled \/ {1} \X Crawlable(NodesToCrawl) # {})
    BY <1>F, <2>1 DEF CrawlPeerNodes, Push
  <2>4. Crawlable(NodesToCrawl) # {} => {1} \X Crawlable(NodesToCrawl) # {}
    BY \A a \in Crawlable(NodesToCrawl) : <<1, a>> \in {1} \X Crawlable(NodesToCrawl)
  <2> QED
    BY <2>2, <2>3, <2>4
<1>4. ASSUME NEW k \in Call, NothingToCrawl(k)
      PROVE  W
  <2>1. crawled[1] = {} /\ queue = {}
    BY <1>4, SyncEnds, FirstSync DEF NothingYet
  <2> QED
    BY <1>4, <2>1 DEF NothingToCrawl, StartCrawlProcess
<1>5. ASSUME NEW S \in SUBSET queue, ProcessQueue(S)
      PROVE  W
  <2>1. /\ queue' = queue \ S /\ running' = running \cup S
        /\ UNCHANGED <<crawlState, crawled, crashed>> /\ Startable(running, S)
    BY <1>5 DEF ProcessQueue, StartTasks, crawlVars
  <2>2. queue # {} => running' # {}
    BY <2>1, WorkersTakeTasks
  <2> QED
    BY <1>F, <2>1, <2>2 DEF Working
<1>6. ASSUME NEW t \in queue, ProcessQueueThrows(t)
      PROVE  W
  BY <1>6 DEF ProcessQueueThrows, ConnectThrows
<1>7. ASSUME NEW c \in Conn,
             \/ ConnectBlacklisted(c) \/ Connect(c) \/ Fail(c)
             \/ LedgerClose(c) \/ InvalidData(c)
      PROVE  W
  BY <1>7, <1>U
  DEF ConnectBlacklisted, Connect, Fail, LedgerClose, InvalidData, crawlVars
<1>8. ASSUME NEW c \in Conn, NEW P \in SUBSET Addr, PeersReceived(c, P)
      PROVE  W
  <2>1. /\ UNCHANGED <<crawlState, running, callbacks, drain, crashed>>
    BY <1>8 DEF PeersReceived
  <2>2. CASE crawlState[1] = "TOP_TIER_SYNC"
    BY <1>F, <1>8, <1>U, <2>1, <2>2 DEF PeersReceived, queueVars
  <2>3. CASE crawlState[1] # "TOP_TIER_SYNC"
    <3> DEFINE T == {1} \X Crawlable(P)
    <3>1. /\ queue' = queue \cup T /\ scheduled' = (scheduled \/ T # {})
          /\ crawled'[1] = crawled[1] \cup Crawlable(P)
      BY <1>F, <1>8, <2>3 DEF PeersReceived, CrawlPeerNodes, Push
    <3>2. Crawlable(P) # {} => T # {}
      BY \A a \in Crawlable(P) : <<1, a>> \in T
    <3> HIDE DEF T
    <3> QED
      BY <1>F, <2>1, <3>1, <3>2 DEF Working
  <2> QED
    BY <2>2, <2>3
<1>9. ASSUME NEW c \in Conn, CloseOnly(c)
      PROVE  W
  BY <1>9, <1>U DEF CloseOnly, Close, queueVars
<1>10. ASSUME NEW c \in Conn, NEW S \in SUBSET queue, CloseAndProcess(c, S)
       PROVE  W
  <2>1. /\ queue' = queue \ S /\ running' = RunningAfter(c) \cup S
        /\ Startable(RunningAfter(c), S) /\ ~Idle(RunningAfter(c))
    BY <1>10 DEF CloseAndProcess, StartTasks
  <2>2. running' # {}
    BY <2>1, WorkersTakeTasks DEF Idle
  <2> QED
    BY <2>2
<1>11. ASSUME NEW c \in Conn, NEW t \in queue, CloseAndThrow(c, t)
       PROVE  W
  BY <1>11 DEF CloseAndThrow, ConnectThrows
<1>12. ASSUME NEW c \in Conn, CloseAndDrain(c)
       PROVE  W
  BY <1>F, <1>12 DEF CloseAndDrain, Idle
<1>13. CASE ConsensusTimeout \/ StragglerTimeout \/ StopTimeout \/ MaxCrawlTimeout
  BY <1>13, <1>U
  DEF ConsensusTimeout, StragglerTimeout, StopTimeout, MaxCrawlTimeout, crawlVars
<1>14. CASE Finish
  BY <1>F, <1>14, <1>U, FinishEndsCrawling DEF Finish
<1> QED
  BY <1>1, <1>2, <1>3, <1>4, <1>5, <1>6, <1>7, <1>8, <1>9, <1>10, <1>11, <1>12,
     <1>13, <1>14
  DEF FirstStep, Next

LEMMA TimedStep ==
    ASSUME FirstStep
    PROVE  Timed'
<1>F. /\ TypeInv /\ Timed /\ 1 \in Call /\ cur = 1 /\ cur' = 1
      /\ crawlState \in [Call -> CrawlProcessState]
      /\ crawled \in [Call -> SUBSET Addr]
      /\ obsState \in [Call -> ObservationState]
      /\ maxTimer \in {0, 1} /\ settling \in Seq(Done)
  BY FirstFacts
  DEF FirstStep, FirstState, OneCrawl, TypeInv, TypeOK, CrawlTypeOK, ObsTypeOK
<1> SUFFICES ASSUME crawlState'[1] = "CRAWLING", crawled'[1] = {}
             PROVE  maxTimer' = 1 \/ obsState'[1] = "Stopping" \/ settling' # <<>>
  BY DEF Timed
<1> DEFINE E == maxTimer' = 1 \/ obsState'[1] = "Stopping" \/ settling' # <<>>
<1>U. ASSUME UNCHANGED <<crawlState, maxTimer, obsState, settling>>,
             crawled[1] \subseteq crawled'[1]
      PROVE  E
  BY <1>U DEF FirstStep, FirstState, Timed
<1>E. ASSUME NEW con, NEW act, NEW d \in Done, d.obs = 1,
             StopObservation(con, act, d) \/ LastNodesDisconnected(con, act, d)
      PROVE  E
  <2>1. \/ LastNodesDisconnected(con, act, d)
        \/ AwaitStragglers(con, act, d)
    BY <1>E DEF StopObservation
  <2>2. CASE LastNodesDisconnected(con, act, d)
    BY <1>F, <1>E, <2>2 DEF LastNodesDisconnected
  <2>3. CASE AwaitStragglers(con, act, d)
    BY <1>F, <1>E, <2>3 DEF AwaitStragglers
  <2> QED
    BY <2>1, <2>2, <2>3
<1>1. CASE RefuseCrawl
  BY <1>1, <1>U DEF RefuseCrawl, obsVars
<1>2. ASSUME NEW k \in Call, SyncFailed(k)
      PROVE  E
  BY <1>2, SyncEnds, FirstSync, FirstFacts DEF SyncFailed, Beginning
<1>3. ASSUME NEW k \in Call, StartCrawling(k) \/ NothingToCrawl(k)
      PROVE  E
  BY <1>3, SyncEnds DEF StartCrawling, NothingToCrawl, StartCrawlProcess
<1>4. ASSUME NEW S \in SUBSET queue, ProcessQueue(S)
      PROVE  E
  BY <1>4, <1>U DEF ProcessQueue, crawlVars, obsVars
<1>5. ASSUME NEW t \in queue, ProcessQueueThrows(t)
      PROVE  E
  BY <1>5, <1>U DEF ProcessQueueThrows, obsVars
<1>6. ASSUME NEW c \in Conn,
             \/ ConnectBlacklisted(c) \/ Connect(c) \/ Fail(c)
             \/ LedgerClose(c) \/ InvalidData(c)
      PROVE  E
  BY <1>6, <1>U
  DEF ConnectBlacklisted, Connect, PeerConnected, Fail, LedgerClose,
      LedgerCloseConfirmed, InvalidData, crawlVars, obsVars
<1>7. ASSUME NEW c \in Conn, NEW P \in SUBSET Addr, PeersReceived(c, P)
      PROVE  E
  <2>1. crawled[1] \subseteq crawled'[1]
    BY <1>F, <1>7 DEF PeersReceived, CrawlPeerNodes
  <2> QED
    BY <1>7, <1>U, <2>1 DEF PeersReceived, obsVars
<1>8. ASSUME NEW c \in Conn,
             \/ CloseOnly(c) \/ (\E S \in SUBSET queue : CloseAndProcess(c, S))
             \/ (\E t \in queue : CloseAndThrow(c, t))
      PROVE  E
  BY <1>8, <1>U DEF CloseOnly, CloseAndProcess, CloseAndThrow, Close, obsVars
<1>9. ASSUME NEW c \in Conn, CloseAndDrain(c)
      PROVE  E
  BY <1>F, <1>9 DEF CloseAndDrain
<1>10. CASE ConsensusTimeout \/ StragglerTimeout
  BY <1>10, <1>U
  DEF ConsensusTimeout, NetworkHalted, StragglerTimeout, crawlVars
<1>11. CASE StopTimeout
  BY <1>11, <1>F DEF StopTimeout, LastNodesDisconnected
<1>12. CASE MaxCrawlTimeout
  <2>1. [obs |-> cur, owner |-> maxTimer, then |-> "IDLE"] \in Done
    BY <1>F, ConnectionAssumption DEF Done
  <2> QED
    BY <1>F, <1>12, <1>E, <2>1 DEF MaxCrawlTimeout
<1>13. CASE Finish
  BY <1>F, <1>13, FinishEndsCrawling
<1> QED
  BY <1>1, <1>2, <1>3, <1>4, <1>5, <1>6, <1>7, <1>8, <1>9, <1>10, <1>11, <1>12,
     <1>13
  DEF FirstStep, Next

-----------------------------------------------------------------------------
(* Straggler timers of the first crawl *)

\* A stop that does not end at once starts a timer that ends it.
LEMMA StopStartsTimer ==
    ASSUME TypeInv, NEW con, NEW act, NEW d \in Done, d.obs = 1,
           StopObservation(con, act, d)
    PROVE  \/ obsState'[1] = "Stopped" /\ stragglers' = <<>>
           \/ /\ obsState'[1] = "Stopping"
              /\ TimersOf(stragglers') = TimersOf(stragglers)
                                   \cup {[addrs |-> Tracked(act), done |-> d]}
<1>1. obsState \in [Call -> ObservationState] /\ 1 \in Call
  BY OneIsCall DEF TypeInv, TypeOK, ObsTypeOK
<1>2. CASE Tracked(act) = {}
  BY <1>1, <1>2 DEF StopObservation, LastNodesDisconnected
<1>3. CASE Tracked(act) # {}
  <2>1. Tracked(act) \in SUBSET Addr
    BY DEF Tracked
  <2>2. stragglers' = StragglersWith(Tracked(act), d) /\ obsState'[1] = "Stopping"
    BY <1>1, <1>3 DEF StopObservation, AwaitStragglers
  <2> QED
    BY <1>3, <2>1, <2>2, TimersAfterStart
<1> QED
  BY <1>2, <1>3

\* The stops of the first crawl, whatever leads to them.
StopBegins ==
    \/ \E k \in Call : NothingToCrawl(k)
    \/ \E c \in Conn : CloseAndDrain(c)
    \/ MaxCrawlTimeout

LEMMA FirstStops ==
    ASSUME FirstStep, StopBegins
    PROVE  \/ obsState'[1] = "Stopped" /\ stragglers' = <<>>
           \/ /\ obsState'[1] = "Stopping"
              /\ \E d \in Done :
                    /\ d.obs = 1
                    /\ TimersOf(stragglers') = TimersOf(stragglers)
                               \cup {[addrs |-> Tracked(active'), done |-> d]}
<1>F. TypeInv /\ cur = 1 /\ 1 \in Call
  BY FirstFacts
<1>D. \A k \in 0 .. MaxCalls : \A s \in {"IDLE", "STOPPING"} :
          [obs |-> 1, owner |-> k, then |-> s] \in Done
  BY <1>F, ConnectionAssumption DEF Done
<1>1. ASSUME NEW k \in Call, NothingToCrawl(k)
      PROVE  \E d \in Done :
                 d.obs = 1 /\ active' = active /\ StopObservation(conn, active, d)
  <2>1. k \in 0 .. MaxCalls
    BY ConnectionAssumption
  <2> QED
    BY <1>F, <1>D, <1>1, <2>1 DEF NothingToCrawl, StartCrawlProcess, SyncTimeout
<1>2. ASSUME NEW c \in Conn, CloseAndDrain(c)
      PROVE  \E d \in Done :
                 d.obs = 1 /\ StopObservation(ConnAfter(c), active', d)
  <2>1. drain \in 0 .. MaxCalls
    BY <1>F DEF TypeInv, TypeOK, QueueTypeOK
  <2> QED
    BY <1>F, <1>D, <1>2, <2>1 DEF CloseAndDrain, Close
<1>3. ASSUME MaxCrawlTimeout
      PROVE  \E d \in Done :
                 d.obs = 1 /\ active' = active /\ StopObservation(conn, active, d)
  <2>1. maxTimer \in 0 .. MaxCalls
    BY <1>F DEF TypeInv, TypeOK, CrawlTypeOK
  <2> QED
    BY <1>F, <1>D, <1>3, <2>1 DEF MaxCrawlTimeout
<1>4. \E con : \E d \in Done : d.obs = 1 /\ StopObservation(con, active', d)
  <2>1. CASE \E k \in Call : NothingToCrawl(k)
    BY <1>1, <2>1
  <2>2. CASE \E c \in Conn : CloseAndDrain(c)
    BY <1>2, <2>2
  <2>3. CASE MaxCrawlTimeout
    BY <1>3, <2>3
  <2> QED
    BY <2>1, <2>2, <2>3 DEF StopBegins
<1>5. PICK con : \E d \in Done : d.obs = 1 /\ StopObservation(con, active', d)
  BY <1>4
<1>6. PICK d \in Done : d.obs = 1 /\ StopObservation(con, active', d)
  BY <1>5
<1> QED
  BY <1>F, <1>6, StopStartsTimer

\* The events that give connected peers a timer of their own.
LEMMA NewStragglers ==
    ASSUME FirstStep,
           (\E c \in Conn : Connect(c) \/ LedgerClose(c)) \/ ConsensusTimeout
    PROVE  /\ obsState' = obsState
           /\ TimersOf(stragglers) \subseteq TimersOf(stragglers')
           /\ \A r \in TimersOf(stragglers') \ TimersOf(stragglers) :
                 r.done = NoDone
<1>F. TypeInv
  BY FirstFacts
<1>1. \A A \in SUBSET Addr :
          TimersOf(StragglersWith(A, NoDone)) =
              TimersOf(stragglers) \cup
                  (IF A = {} THEN {} ELSE {[addrs |-> A, done |-> NoDone]})
  BY <1>F, TimersAfterStart, NoDoneType
<1>2. \A c \in Conn : {c[2]} \in SUBSET Addr
  OBVIOUS
<1>3. ActivePeers(active) \in SUBSET Addr
  BY DEF ActivePeers, Tracked
<1>4. /\ obsState' = obsState
      /\ \/ stragglers' = stragglers
         \/ \E A \in SUBSET Addr : stragglers' = StragglersWith(A, NoDone)
  BY <1>2, <1>3
  DEF Connect, PeerConnected, LedgerClose, LedgerCloseConfirmed,
      ConsensusTimeout, NetworkHalted
<1> QED
  BY <1>1, <1>4

\* The other steps leave the timers of stops alone.
LEMMA SameStragglers ==
    ASSUME FirstStep, ~StopBegins, ~StragglerTimeout, ~StopTimeout,
           ~ConsensusTimeout, ~\E c \in Conn : Connect(c) \/ LedgerClose(c)
    PROVE  /\ UNCHANGED <<stragglers, halted>>
           /\ \/ UNCHANGED obsState
              \/ /\ \E k \in Call : SyncFailed(k) \/ StartCrawling(k)
                 /\ obsState'[1] = "Synced" /\ stragglers = <<>> /\ ~halted[1]
<1>1. CASE UNCHANGED <<stragglers, halted, obsState>>
  BY <1>1
<1>2. ASSUME NEW k \in Call, SyncFailed(k) \/ StartCrawling(k)
      PROVE  /\ UNCHANGED <<stragglers, halted>>
             /\ obsState'[1] = "Synced" /\ stragglers = <<>> /\ ~halted[1]
  <2>1. SyncTimeout(k) /\ k = 1 /\ NothingYet
    BY <1>2, SyncEnds, FirstSync
  <2>2. obsState \in [Call -> ObservationState]
    BY FirstFacts DEF TypeInv, TypeOK, ObsTypeOK
  <2> QED
    BY <1>2, <2>1, <2>2
    DEF SyncFailed, StartCrawling, SyncTimeout, SyncCompleted, NothingYet
<1>3. CASE RefuseCrawl \/ Finish
  BY <1>1, <1>3 DEF RefuseCrawl, Finish, obsVars
<1>4. ASSUME NEW S \in SUBSET queue, ProcessQueue(S)
      PROVE  UNCHANGED <<stragglers, halted, obsState>>
  BY <1>4 DEF ProcessQueue, obsVars
<1>5. ASSUME NEW t \in queue, ProcessQueueThrows(t)
      PROVE  UNCHANGED <<stragglers, halted, obsState>>
  BY <1>5 DEF ProcessQueueThrows, obsVars
<1>6. ASSUME NEW c \in Conn,
             \/ ConnectBlacklisted(c) \/ Fail(c) \/ InvalidData(c)
             \/ \E P \in SUBSET Addr : PeersReceived(c, P)
      PROVE  UNCHANGED <<stragglers, halted, obsState>>
  BY <1>6 DEF ConnectBlacklisted, Fail, InvalidData, PeersReceived, obsVars
<1>7. ASSUME NEW c \in Conn,
             \/ CloseOnly(c)
             \/ \E S \in SUBSET queue : CloseAndProcess(c, S)
             \/ \E t \in queue : CloseAndThrow(c, t)
      PROVE  UNCHANGED <<stragglers, halted, obsState>>
  BY <1>7 DEF CloseOnly, CloseAndProcess, CloseAndThrow, obsVars
<1> QED
  BY <1>1, <1>2, <1>3, <1>4, <1>5, <1>6, <1>7 DEF FirstStep, Next, StopBegins

LEMMA StopTimersStep ==
    ASSUME FirstStep
    PROVE  StopTimers'
<1>F. TypeInv /\ StopTimers /\ 1 \in Call /\ Beginning
  BY FirstFacts DEF FirstStep, FirstState
<1>1. CASE StopBegins
  <2>1. CASE obsState'[1] = "Stopped" /\ stragglers' = <<>>
    BY <2>1, NoTimers DEF StopTimers
  <2>2. ASSUME obsState'[1] = "Stopping",
               NEW d \in Done, d.obs = 1,
               TimersOf(stragglers') = TimersOf(stragglers)
                          \cup {[addrs |-> Tracked(active'), done |-> d]}
        PROVE  StopTimers'
    <3> DEFINE r == [addrs |-> Tracked(active'), done |-> d]
    <3>1. d # NoDone
      BY <2>2 DEF NoDone
    <3>2. r.done = d /\ r \in TimersOf(stragglers')
      BY <2>2
    <3>3. \A s \in TimersOf(stragglers') : s \in TimersOf(stragglers) \/ s = r
      BY <2>2
    <3> HIDE DEF r
    <3> QED
      BY <1>F, <2>2, <3>1, <3>2, <3>3 DEF StopTimers
  <2> QED
    BY <1>1, <2>1, <2>2, FirstStops
<1>2. CASE (\E c \in Conn : Connect(c) \/ LedgerClose(c)) \/ ConsensusTimeout
  <2>1. /\ obsState' = obsState
        /\ TimersOf(stragglers) \subseteq TimersOf(stragglers')
        /\ \A r \in TimersOf(stragglers') \ TimersOf(stragglers) :
              r.done = NoDone
    BY <1>2, NewStragglers
  <2> QED
    BY <1>F, <2>1 DEF StopTimers
<1>3. CASE StragglerTimeout
  <2>1. /\ stragglers # <<>> /\ Head(stragglers).done = NoDone
        /\ stragglers' = Tail(stragglers) /\ obsState' = obsState
    BY <1>3 DEF StragglerTimeout
  <2>2. TimersOf(stragglers) = TimersOf(stragglers') \cup {Head(stragglers)}
    BY <1>F, <2>1, TimersAfterFire
  <2> QED
    BY <1>F, <2>1, <2>2 DEF StopTimers
<1>4. CASE StopTimeout
  BY <1>4, StopTimerOfFirst, NoTimers DEF StopTimers
<1>5. CASE /\ UNCHANGED <<stragglers, halted>>
           /\ \/ UNCHANGED obsState
              \/ obsState'[1] = "Synced" /\ stragglers = <<>>
  BY <1>F, <1>5, NoTimers DEF StopTimers
<1> QED
  BY <1>1, <1>2, <1>3, <1>4, <1>5, SameStragglers

\* Only a handshake opens a connection.
LEMMA OpensByConnect ==
    ASSUME FirstStep, NEW c \in Conn, conn'[c] = "open", conn[c] # "open"
    PROVE  Connect(c) /\ PeerArrives(c)
<1>1. ConnSteps /\ ~StartCrawl
  BY FirstFacts DEF FirstStep
<1> QED
  BY <1>1 DEF ConnSteps, TasksConnect, Disconnection, PeerArrives, ConnectionEnds

LEMMA CoveredStep ==
    ASSUME FirstStep
    PROVE  Covered'
<1>F. /\ TypeInv /\ Covered /\ Ending /\ Entries /\ Entries' /\ 1 \in Call
      /\ cur = 1 /\ \A c \in Conn : conn[c] # "none" => c = <<1, c[2]>>
  BY FirstFacts, EntriesStep DEF FirstStep, FirstState, OneCrawl
<1> SUFFICES ASSUME NEW c \in Conn, conn'[c] = "open",
                    \/ obsState'[1] = "Stopping"
                    \/ /\ obsState'[1] = "Synced" /\ halted'[1]
                       /\ c[2] \notin TopTier
             PROVE  \E r \in TimersOf(stragglers') : c[2] \in r.addrs
  BY DEF Covered
<1>A. c = <<1, c[2]>> /\ c[2] \in Addr
  <2>1. conn[c] # "none"
    BY OpensByConnect DEF PeerArrives
  <2> QED
    BY <1>F, <2>1
<1>B. active'[c[2]] = 1
  BY <1>F, <1>A DEF Entries
<1>1. CASE StopBegins
  <2>1. c[2] \in Tracked(active')
    BY <1>A, <1>B DEF Tracked
  <2>2. obsState'[1] # "Stopped"
    OBVIOUS
  <2>3. PICK d \in Done :
            TimersOf(stragglers') = TimersOf(stragglers)
                               \cup {[addrs |-> Tracked(active'), done |-> d]}
    BY <1>1, <2>2, FirstStops
  <2>4. [addrs |-> Tracked(active'), done |-> d] \in TimersOf(stragglers')
    BY <2>3
  <2> QED
    BY <2>1, <2>4
<1>2. ASSUME NEW e \in Conn, Connect(e)
      PROVE  \E r \in TimersOf(stragglers') : c[2] \in r.addrs
  <2>1. /\ obsState' = obsState /\ halted' = halted
        /\ TimersOf(stragglers) \subseteq TimersOf(stragglers')
    BY <1>2, NewStragglers DEF Connect, PeerConnected
  <2>2. CASE conn[c] = "open"
    BY <1>F, <2>1, <2>2 DEF Covered
  <2>3. CASE conn[c] # "open"
    <3>1. Connect(c) /\ PeerArrives(c)
      BY <2>3, OpensByConnect
    <3>2. ~ReusesKey(cur, c)
      BY <3>1 DEF PeerArrives
    <3>3. LeavesSoon(cur)
      BY <1>F, <2>1 DEF LeavesSoon
    <3>4. stragglers' = StragglersWith({c[2]}, NoDone)
      BY <3>1, <3>2, <3>3 DEF Connect, PeerConnected
    <3>5. PICK A \in SUBSET Addr : A = {c[2]}
      BY <1>A
    <3>6. [addrs |-> A, done |-> NoDone] \in TimersOf(stragglers')
      BY <1>F, <3>4, <3>5, TimersAfterStart, NoDoneType
    <3> QED
      BY <3>5, <3>6
  <2> QED
    BY <2>2, <2>3
<1>3. ASSUME NEW e \in Conn, LedgerClose(e)
      PROVE  FALSE
  <2>1. obsState'[1] = "Synced"
    BY <1>F, <1>3 DEF LedgerClose, LedgerCloseConfirmed
  <2>2. ~halted'[1]
    BY <1>F, <1>3
    DEF LedgerClose, LedgerCloseConfirmed, TypeInv, TypeOK, ObsTypeOK
  <2> QED
    BY <2>1, <2>2
<1>4. CASE ConsensusTimeout
  <2>1. consensus # 0 /\ obsState' = obsState /\ UNCHANGED connVars
        /\ stragglers' = StragglersWith(ActivePeers(active), NoDone)
    BY <1>4 DEF ConsensusTimeout, NetworkHalted
  <2>2. obsState[1] # "Stopping"
    BY <1>F, <2>1 DEF Ending, Ends
  <2>3. c[2] \in ActivePeers(active)
    BY <1>A, <1>B, <2>1, <2>2 DEF ActivePeers, Tracked, connVars
  <2>4. ActivePeers(active) \in SUBSET Addr
    BY DEF ActivePeers, Tracked
  <2>5. [addrs |-> ActivePeers(active), done |-> NoDone] \in TimersOf(stragglers')
    BY <1>F, <2>1, <2>3, <2>4, TimersAfterStart, NoDoneType
  <2> QED
    BY <2>3, <2>5
<1>5. CASE StragglerTimeout
  <2>1. /\ stragglers # <<>> /\ stragglers' = Tail(stragglers)
        /\ obsState' = obsState /\ halted' = halted /\ active' = active
        /\ conn' = Destroyed(conn, TrackedConns(active, Head(stragglers).addrs))
    BY <1>5 DEF StragglerTimeout, ConnAfterStragglers, DisconnectByAddress
  <2>2. TimersOf(stragglers) = TimersOf(stragglers') \cup {Head(stragglers)}
    BY <1>F, <2>1, TimersAfterFire
  <2>3. conn[c] = "open" /\ c \notin TrackedConns(active, Head(stragglers).addrs)
    BY <2>1 DEF Destroyed
  <2>4. c[2] \notin Head(stragglers).addrs
    BY <1>A, <1>B, <2>1, <2>3 DEF TrackedConns, Tracked
  <2>5. PICK r \in TimersOf(stragglers) : c[2] \in r.addrs
    BY <1>F, <2>1, <2>3 DEF Covered
  <2> QED
    BY <2>2, <2>4, <2>5
<1>6. CASE StopTimeout
  BY <1>6, StopTimerOfFirst
<1>7. ASSUME ~StopBegins, ~StragglerTimeout, ~StopTimeout, ~ConsensusTimeout,
             ~\E e \in Conn : Connect(e) \/ LedgerClose(e)
      PROVE  \E r \in TimersOf(stragglers') : c[2] \in r.addrs
  <2>1. conn[c] = "open"
    BY <1>7, OpensByConnect
  <2>2. UNCHANGED <<stragglers, halted, obsState>>
    BY <1>7, SameStragglers
  <2> QED
    BY <1>F, <2>1, <2>2 DEF Covered
<1> QED
  BY <1>1, <1>2, <1>3, <1>4, <1>5, <1>6, <1>7

-----------------------------------------------------------------------------
(* The invariant holds *)

LEMMA FirstInit == Init => FirstInv
<1> SUFFICES ASSUME Init PROVE FirstInv
  OBVIOUS
<1> USE DEF Init
<1>0. 1 \in Call /\ cur = 0
  BY OneIsCall DEF CrawlInit
<1>1. BoundInv /\ CallsCount
  BY BoundInit DEF CrawlInit, CallsCount
<1>2. /\ \A c \in Conn : conn[c] = "none"
      /\ \A a \in Addr : active[a] = 0
      /\ queue = {} /\ running = {} /\ ~scheduled /\ callbacks[1] = {}
  BY <1>0 DEF ConnInit, QueueInit
<1>3. /\ obsState[1] = "Idle" /\ ~halted[1] /\ stragglers = <<>>
      /\ consensus = 0 /\ settling = <<>>
  BY <1>0 DEF ObsInit
<1>4. /\ crawlState[1] = "IDLE" /\ crawled[1] = {} /\ maxTimer = 0
      /\ \A k \in Call : outcome[k] = "none"
      /\ syncTimer = {} /\ logging = {}
  BY <1>0 DEF CrawlInit
<1>5. OneCrawl
  BY <1>2, <1>3, <1>4 DEF OneCrawl
<1>6. Beginning /\ Ending
  BY <1>0, <1>2, <1>3, <1>4 DEF Beginning, NothingYet, Ending, Ends
<1>7. StopTimers
  BY <1>3, NoTimers DEF StopTimers
<1>8. Entries /\ Busy /\ Working /\ Timed /\ Covered
  BY <1>0, <1>2, <1>4 DEF Entries, Busy, Working, Timed, Covered
<1> QED
  BY <1>1, <1>5, <1>6, <1>7, <1>8 DEF FirstInv, FirstState

\* Before the first call, nothing but a call can happen.
LEMMA OnlyStart ==
    ASSUME BoundInv, FirstState, cur = 0, Next
    PROVE  StartCrawl
<1>1. /\ TypeInv /\ ConnSteps /\ \A c \in Conn : conn[c] = "none"
      /\ queue = {} /\ syncTimer = {} /\ consensus = 0 /\ maxTimer = 0
      /\ stragglers = <<>> /\ settling = <<>> /\ ~scheduled
  BY ConnStepKinds
  DEF BoundInv, TypeInv, NotStarted, FirstState, Beginning, NothingYet
<1>2. \A k \in Call : ~SyncTimeout(k)
  BY <1>1 DEF SyncTimeout
<1> QED
  BY <1>1, <1>2
  DEF Next, RefuseCrawl, CrawlRunning, SyncFailed, StartCrawling, NothingToCrawl,
      StartCrawlProcess, ProcessQueue, ConnectBlacklisted, Connect, Fail,
      PeersReceived, LedgerClose, InvalidData, CloseOnly, CloseAndProcess,
      CloseAndThrow, CloseAndDrain, Close, Live, ConsensusTimeout,
      StragglerTimeout, StopTimeout, MaxCrawlTimeout, Finish

LEMMA FirstStart ==
    ASSUME BoundInv, CallsCount, FirstState, cur = 0, StartCrawl
    PROVE  FirstState'
<1>1. /\ \A c \in Conn : conn[c] = "none"
      /\ calls = 0 /\ syncTimer = {} /\ NothingYet /\ 1 \in Call
      /\ obsState \in [Call -> ObservationState]
      /\ crawlState \in [Call -> CrawlProcessState]
      /\ outcome \in [Call -> Outcome]
      /\ callbacks' = callbacks /\ queue' = queue /\ running' = running
      /\ UNCHANGED <<scheduled, logging, logTimer>>
  BY OneIsCall
  DEF BoundInv, TypeInv, TypeOK, ObsTypeOK, CrawlTypeOK, NotStarted, FirstState,
      Beginning, CallsCount, StartCrawl, queueVars
<1>2. cur' = 1
  BY <1>1 DEF StartCrawl
<1>3. \A c \in Conn : conn'[c] = IF c \in {1} \X TopTier THEN "connecting" ELSE "none"
  BY <1>1, <1>2 DEF StartCrawl, StartSync, Connecting
<1>4. obsState'[1] = "Syncing" /\ crawlState'[1] = "TOP_TIER_SYNC" /\ syncTimer' = {1}
      /\ outcome'[1] = "pending"
  BY <1>1, <1>2 DEF StartCrawl, StartSync
<1>5. NothingYet'
  BY <1>1, <1>4 DEF NothingYet, StartCrawl
<1>6. OneCrawl'
  BY <1>1, <1>2, <1>3, <1>4, <1>5
  DEF OneCrawl, FirstState, StartCrawl, NothingYet
<1>7. Beginning' /\ Ending'
  BY <1>2, <1>4, <1>5 DEF Beginning, Ending, Ends, NothingYet
<1>8. StopTimers'
  BY <1>4, <1>5, NoTimers DEF StopTimers, NothingYet
<1>9. Entries'
  BY <1>1, <1>3 DEF Entries, FirstState, StartCrawl
<1>10. Busy' /\ Working' /\ Timed' /\ Covered'
  BY <1>3, <1>4, <1>5 DEF Busy, Working, Timed, Covered, NothingYet
<1> QED
  BY <1>6, <1>7, <1>8, <1>9, <1>10 DEF FirstState

LEMMA FirstInvStep == FirstInv /\ [Next]_vars => FirstInv'
<1> SUFFICES ASSUME FirstInv, [Next]_vars PROVE FirstInv'
  OBVIOUS
<1>1. BoundInv' /\ CallsCount' /\ (StartCrawl \/ UNCHANGED cur)
  BY BoundStep, CallsStep DEF FirstInv, BoundInv
<1>T. cur \in Nat /\ calls \in Nat
  BY ConnectionAssumption DEF FirstInv, BoundInv, TypeInv, TypeOK, CrawlTypeOK
<1> SUFFICES ASSUME cur' <= 1 PROVE FirstState'
  BY <1>1 DEF FirstInv
<1>2. CASE StartCrawl
  <2>1. calls = 0 /\ cur = 0
    BY <1>T, <1>2 DEF StartCrawl, FirstInv, CallsCount
  <2> QED
    BY <1>2, <2>1, FirstStart DEF FirstInv
<1>3. CASE ~StartCrawl /\ Next
  <2>1. FirstState /\ cur' = cur /\ cur = 1
    BY <1>T, <1>1, <1>3, OnlyStart DEF FirstInv
  <2>2. FirstStep
    BY <1>3, <2>1 DEF FirstStep, FirstInv
  <2> QED
    BY <2>2, OneCrawlStep, BeginningStep, EndingStep, StopTimersStep, EntriesStep,
       BusyStep, WorkingStep, TimedStep, CoveredStep
    DEF FirstState
<1>4. CASE UNCHANGED vars
  <2>1. FirstState
    BY <1>T, <1>4 DEF vars, crawlVars, FirstInv
  <2> QED
    BY <1>4, <2>1
    DEF vars, connVars, obsVars, queueVars, crawlVars, FirstState, OneCrawl,
        Beginning, NothingYet, Ending, Ends, StopTimers, Entries, Busy, Live,
        Working, Timed, Covered
<1> QED
  BY <1>2, <1>3, <1>4

LEMMA FirstCorrect == Spec => []FirstInv
  BY FirstInit, FirstInvStep, PTL DEF Spec

-----------------------------------------------------------------------------
(* The theorems *)

LEMMA FirstProps ==
    ASSUME FirstInv, cur <= 1
    PROVE  /\ BoundInv /\ FirstState /\ cur \in {0, 1} /\ 1 \in Call
           /\ \A k \in Call : k \in syncTimer => k = 1
           /\ \A c \in Conn : conn[c] # "none" => c = <<1, c[2]>>
           /\ stragglers \in Seq(StragglerType)
<1>1. cur \in Nat
  BY ConnectionAssumption DEF FirstInv, BoundInv, TypeInv, TypeOK, CrawlTypeOK
<1> QED
  BY <1>1, OneIsCall, TimersType DEF FirstInv, BoundInv, FirstState, OneCrawl

\* In the first crawl a worker is never lost: its task ends with the 'close' of
\* a connection that exists (crawl-queue-manager.ts:32-48).
THEOREM WorkersAreFreed == Spec => [](cur <= 1 => TaskEndsWithItsConnection)
<1>1. FirstInv /\ cur <= 1 => TaskEndsWithItsConnection
  BY FirstProps DEF FirstState, Busy, OneCrawl, TaskEndsWithItsConnection
<1> QED
  BY FirstCorrect, <1>1, PTL

\* A first crawl that is crawling comes to its end: with a task it waits for the
\* drain, which every worker brings nearer, and without one for a timer or a stop
\* (crawler.ts:119, :128-151).
THEOREM CrawlEnds == Spec => [](cur <= 1 => CrawlWillEnd)
<1> SUFFICES ASSUME FirstInv, cur <= 1 PROVE CrawlWillEnd
  BY FirstCorrect, PTL
<1>F. /\ OneCrawl /\ Busy /\ Working /\ Timed /\ cur \in {0, 1}
  BY FirstProps DEF FirstState
<1> SUFFICES ASSUME cur = 1, ~crashed, crawlState[1] = "CRAWLING"
             PROVE  IF crawled[1] # {}
                    THEN /\ \A t \in running : WorkerIsFreed(t)
                         /\ running # {} \/ (queue # {} /\ scheduled)
                    ELSE maxTimer = 1 \/ obsState[1] = "Stopping" \/ settling # <<>>
  BY <1>F DEF CrawlWillEnd
<1>1. \A t \in running : WorkerIsFreed(t)
  BY <1>F DEF OneCrawl, Busy, WorkerIsFreed
<1>2. crawled[1] # {} => running # {} \/ (queue # {} /\ scheduled)
  BY <1>F DEF Working
<1> QED
  BY <1>F, <1>1, <1>2 DEF Timed

\* In the first crawl activeConnections holds every open connection, and none
\* that is closed (connection-manager.ts:66, :88).
THEOREM EntriesExact == Spec => [](cur <= 1 => ActiveConnectionsExact)
<1> SUFFICES ASSUME FirstInv, cur <= 1 PROVE ActiveConnectionsExact
  BY FirstCorrect, PTL
<1>F. /\ Entries /\ 1 \in Call
      /\ \A c \in Conn : conn[c] # "none" => c = <<1, c[2]>>
  BY FirstProps DEF FirstState
<1>1. \A c \in Conn : conn[c] = "open" => active[c[2]] = c[1]
  BY <1>F DEF Entries
<1>2. ASSUME NEW c \in TrackedConns(active, Addr)
      PROVE  conn[c] \in {"open", "destroyed"}
  <2>1. PICK a \in Addr : active[a] # 0 /\ c = <<active[a], a>>
    BY DEF TrackedConns, Tracked
  <2> QED
    BY <1>F, <2>1 DEF Entries
<1> QED
  BY <1>1, <1>2 DEF ActiveConnectionsExact

\* In the first crawl no peer that must leave, because the observation stops or
\* the network is halted, is forgotten (observation-manager.ts:50-88,
\* on-peer-connected.ts).
THEOREM NoStragglerForgotten == Spec => [](cur <= 1 => StragglersCovered)
<1> SUFFICES ASSUME FirstInv, cur <= 1 PROVE StragglersCovered
  BY FirstCorrect, PTL
<1>1. Covered /\ cur \in {0, 1}
  BY FirstProps DEF FirstState
<1>2. \A c \in Conn : cur = 1 /\ MustLeave(c) =>
          \E r \in TimersOf(stragglers) : c[2] \in r.addrs
  BY <1>1 DEF Covered, MustLeave
<1> QED
  BY <1>1, <1>2 DEF StragglersCovered, TimersOf

\* In the first crawl a stop that began has a timer pending that ends it.
THEOREM StopsEnd == Spec => [](cur <= 1 => StopWillEnd)
<1> SUFFICES ASSUME FirstInv, cur <= 1 PROVE StopWillEnd
  BY FirstCorrect, PTL
<1>1. StopTimers /\ cur \in {0, 1}
  BY FirstProps DEF FirstState
<1>2. obsState[1] = "Stopping" =>
          \E r \in TimersOf(stragglers) : r.done.obs = 1
  BY <1>1 DEF StopTimers
<1> QED
  BY <1>1, <1>2 DEF StopWillEnd, TimersOf

\* In the first crawl no timer or continuation leads to an assertion of
\* Observation that fails (observation.ts:38-56).
THEOREM AssertsHold == Spec => [](cur <= 1 => LifecycleAsserts)
<1> SUFFICES ASSUME FirstInv, cur <= 1 PROVE LifecycleAsserts
  BY FirstCorrect, PTL
<1>F. /\ OneCrawl /\ Beginning /\ Ending /\ StopTimers
      /\ syncTimer \subseteq Call /\ maxTimer \in {0, 1}
  BY FirstProps
  DEF FirstState, OneCrawl, BoundInv, TypeInv, TypeOK, CrawlTypeOK
<1>1. \A k \in syncTimer : obsState[k] = "Syncing"
  BY <1>F DEF OneCrawl, Beginning
<1>2. \A i \in 1 .. Len(stragglers) :
          stragglers[i].done # NoDone =>
              obsState[stragglers[i].done.obs] = "Stopping"
  <2>1. \A r \in TimersOf(stragglers) :
            r.done # NoDone => obsState[r.done.obs] = "Stopping"
    BY <1>F DEF StopTimers
  <2> QED
    BY <2>1 DEF TimersOf
<1>3. maxTimer # 0 => crawlState[maxTimer] # "IDLE"
  BY <1>F DEF Ending
<1> QED
  BY <1>1, <1>2, <1>3 DEF LifecycleAsserts

\* The first crawl leaves nothing running once its promise is resolved: no max
\* crawl timer, no log interval, no consensus timer (crawler.ts:158,
\* crawl-logger.ts:47, observation-manager.ts:71).
THEOREM ResolvedIsQuiet == Spec => [](cur <= 1 => SettledIsQuiet)
<1> SUFFICES ASSUME FirstInv, cur <= 1 PROVE SettledIsQuiet
  BY FirstCorrect, PTL
<1>F. OneCrawl /\ Ending
  BY FirstProps DEF FirstState
<1>1. \A k \in Call : outcome[k] = "resolved" => k = 1
  BY <1>F DEF OneCrawl
<1> QED
  BY <1>F, <1>1 DEF Ending, SettledIsQuiet
=============================================================================

--------------------------- MODULE CrawlerProofs ---------------------------
(***************************************************************************)
(* Theorems about Crawler, for every set of addresses, every number of     *)
(* startCrawl calls and every number of workers.                           *)
(***************************************************************************)
EXTENDS Crawler, FiniteSetTheorems, SequenceTheorems, TLAPS

USE DEF Call, Conn, logVars, ObservationStopped

-----------------------------------------------------------------------------
(* The state transformers of the components keep types *)

ConnType == [Conn -> ConnState]
ActiveType == [Addr -> 0 .. MaxCalls]
StragglerType == [addrs : SUBSET Addr, done : Done]

\* Adding to one of the sets a function maps calls to.
LEMMA SetMapType ==
    ASSUME NEW S, NEW f \in [Call -> SUBSET S], NEW k, NEW A \in SUBSET S
    PROVE  [f EXCEPT ![k] = @ \cup A] \in [Call -> SUBSET S]
<1> DEFINE g == [f EXCEPT ![k] = @ \cup A]
<1>1. g = [i \in Call |-> IF i = k THEN f[i] \cup A ELSE f[i]]
  OBVIOUS
<1>2. \A i \in Call : (IF i = k THEN f[i] \cup A ELSE f[i]) \in SUBSET S
  OBVIOUS
<1> QED
  BY <1>1, <1>2

\* A connection is made of a call and an address.
LEMMA ConnParts ==
    ASSUME NEW c \in Conn
    PROVE  c[1] \in Call /\ c[2] \in Addr /\ c = <<c[1], c[2]>>
OBVIOUS

LEMMA ConnEventType ==
    ASSUME NEW con \in ConnType, NEW act \in ActiveType, NEW c \in Conn
    PROVE  /\ Opened(con, c) \in ConnType
           /\ Closed(con, c) \in ConnType
           /\ Entered(act, c) \in ActiveType
           /\ Removed(act, c) \in ActiveType
<1>1. Opened(con, c) \in ConnType /\ Closed(con, c) \in ConnType
  BY DEF Opened, Closed, ConnType, ConnState
<1>2. Entered(act, c) \in ActiveType /\ Removed(act, c) \in ActiveType
  BY ConnectionAssumption DEF Entered, Removed, ActiveType
<1> QED
  BY <1>1, <1>2

LEMMA ConnOpType ==
    ASSUME NEW con \in ConnType, NEW act
    PROVE  /\ \A C : Connecting(con, C) \in ConnType
           /\ \A C : Destroyed(con, C) \in ConnType
           /\ \A A : DisconnectByAddress(con, act, A) \in ConnType
           /\ ShutDown(con, act) \in ConnType
<1>1. \A C : Connecting(con, C) \in ConnType
  BY DEF Connecting, ConnType, ConnState
<1>2. \A C : Destroyed(con, C) \in ConnType
  BY DEF Destroyed, ConnType, ConnState
<1> QED
  BY <1>1, <1>2 DEF DisconnectByAddress, ShutDown

LEMMA StragglersType ==
    ASSUME stragglers \in Seq(StragglerType),
           NEW A \in SUBSET Addr, NEW d \in Done
    PROVE  StragglersWith(A, d) \in Seq(StragglerType)
<1>1. [addrs |-> A, done |-> d] \in StragglerType
  BY DEF StragglerType
<1> QED
  BY <1>1 DEF StragglersWith

LEMMA NoDoneType == NoDone \in Done
  BY ConnectionAssumption DEF NoDone, Done

\* The variables a stop changes, whatever event leads to it.
LEMMA StopType ==
    ASSUME ObsTypeOK, NEW con \in ConnType, NEW act \in ActiveType,
           NEW d \in Done, StopObservation(con, act, d)
    PROVE  conn' \in ConnType /\ ObsTypeOK'
<1> USE DEF ObsTypeOK
<1>1. stragglers \in Seq(StragglerType)
  BY DEF StragglerType
<1>2. consensus' \in 0 .. MaxCalls /\ UNCHANGED <<halted, connected>>
  BY ConnectionAssumption DEF StopObservation
<1>3. CASE LastNodesDisconnected(con, act, d)
  <2>1. conn' \in ConnType
    BY <1>3, ConnOpType DEF LastNodesDisconnected
  <2>2. obsState' \in [Call -> ObservationState]
    BY <1>3 DEF LastNodesDisconnected, ObservationState
  <2>3. stragglers' \in Seq(StragglerType) /\ settling' \in Seq(Done)
    BY <1>3 DEF LastNodesDisconnected
  <2> QED
    BY <1>2, <2>1, <2>2, <2>3 DEF StragglerType
<1>4. CASE AwaitStragglers(con, act, d)
  <2>1. obsState' \in [Call -> ObservationState]
    BY <1>4 DEF AwaitStragglers, ObservationState
  <2>2. stragglers' \in Seq(StragglerType)
    BY <1>1, <1>4, StragglersType DEF AwaitStragglers, Tracked
  <2> QED
    BY <1>2, <1>4, <2>1, <2>2 DEF AwaitStragglers, StragglerType
<1> QED
  BY <1>3, <1>4 DEF StopObservation

-----------------------------------------------------------------------------
(* Type correctness *)

\* TypeOK is not inductive by itself: a task is a pair of this.crawl and an
\* address, so that there must be a crawl whenever an address is queued.
NotStarted ==
    cur = 0 => /\ \A c \in Conn : conn[c] = "none"
               /\ queue = {} /\ syncTimer = {}

TypeInv == TypeOK /\ NotStarted

\* A crawl exists once a connection, a task or a sync timer does.
LEMMA CurIsCall ==
    ASSUME TypeInv,
           \/ \E c \in Conn : conn[c] # "none"
           \/ queue # {}
           \/ syncTimer # {}
    PROVE  cur \in Call
<1>1. cur # 0
  BY DEF TypeInv, NotStarted
<1>2. cur \in 0 .. MaxCalls
  BY DEF TypeInv, TypeOK, CrawlTypeOK
<1> QED
  BY <1>1, <1>2, ConnectionAssumption

LEMMA CrawlPeerNodesType ==
    ASSUME TypeInv, cur \in Call, NEW P \in SUBSET Addr, CrawlPeerNodes(P)
    PROVE  /\ queue' \subseteq Conn /\ scheduled' \in BOOLEAN
           /\ crawled' \in [Call -> SUBSET Addr]
<1> USE DEF TypeInv, TypeOK, QueueTypeOK, CrawlTypeOK, CrawlPeerNodes, Crawlable,
           Push
<1>1. queue' \subseteq Conn
  OBVIOUS
<1>2. crawled' \in [Call -> SUBSET Addr]
  OBVIOUS
<1> QED
  BY <1>1, <1>2

LEMMA RegisteredType ==
    ASSUME TypeInv, NEW S
    PROVE  Registered(S) \in [Call -> SUBSET Addr]
BY DEF TypeInv, TypeOK, QueueTypeOK, Registered

\* Frees a connection of its worker and starts the tasks of S in its place.
LEMMA StartTasksType ==
    ASSUME TypeInv, NEW con \in ConnType, NEW run \in SUBSET Conn,
           NEW S \in SUBSET queue, StartTasks(con, run, S)
    PROVE  conn' \in ConnType /\ queue' \subseteq Conn /\ running' \subseteq Conn
<1>1. conn' \in ConnType
  BY ConnOpType DEF StartTasks
<1> QED
  BY <1>1 DEF TypeInv, TypeOK, QueueTypeOK, StartTasks

LEMMA TypeInit == Init => TypeInv
<1> SUFFICES ASSUME Init PROVE TypeInv
  OBVIOUS
<1> USE ConnectionAssumption DEF Init
<1>1. ConnTypeOK
  BY DEF ConnInit, ConnTypeOK, ConnState
<1>2. ObsTypeOK
  BY DEF ObsInit, ObsTypeOK, ObservationState
<1>0. /\ scheduled \in BOOLEAN /\ crashed \in BOOLEAN
      /\ maxHit \in [Call -> BOOLEAN] /\ halted \in [Call -> BOOLEAN]
  BY Zenon DEF QueueInit, CrawlInit, ObsInit
<1>3. QueueTypeOK
  BY <1>0 DEF QueueInit, QueueTypeOK
<1>4. CrawlTypeOK
  BY <1>0 DEF CrawlInit, CrawlTypeOK, CrawlProcessState, Outcome
<1>5. NotStarted
  BY DEF NotStarted, ConnInit, QueueInit, CrawlInit
<1> QED
  BY <1>1, <1>2, <1>3, <1>4, <1>5 DEF TypeInv, TypeOK

LEMMA TypeStep == TypeInv /\ [Next]_vars => TypeInv'
<1> SUFFICES ASSUME TypeInv, [Next]_vars PROVE TypeInv'
  OBVIOUS
<1> USE ConnectionAssumption DEF TypeInv, TypeOK
<1>T. /\ conn \in ConnType /\ active \in ActiveType
      /\ stragglers \in Seq(StragglerType) /\ settling \in Seq(Done)
  BY DEF ConnTypeOK, ObsTypeOK, ConnType, ActiveType, StragglerType
<1>1. CASE StartCrawl
  <2> USE <1>1 DEF StartCrawl, StartSync
  <2>1. cur' \in Call /\ calls' \in 0 .. MaxCalls
    BY DEF CrawlTypeOK
  <2>2. ConnTypeOK'
    BY <1>T, ConnOpType DEF ConnType, ConnTypeOK
  <2>3. ObsTypeOK'
    BY DEF ObsTypeOK, ObservationState
  <2>4. QueueTypeOK'
    BY DEF QueueTypeOK, queueVars
  <2>5. CrawlTypeOK'
    BY <2>1 DEF CrawlTypeOK, CrawlProcessState, Outcome
  <2>6. NotStarted'
    BY <2>1 DEF NotStarted
  <2> QED
    BY <2>2, <2>3, <2>4, <2>5, <2>6
<1>2. CASE RefuseCrawl
  <2> USE <1>2 DEF RefuseCrawl, connVars, obsVars, queueVars
  <2>1. ConnTypeOK' /\ ObsTypeOK' /\ QueueTypeOK'
    BY DEF ConnTypeOK, ObsTypeOK, QueueTypeOK
  <2>2. CrawlTypeOK'
    BY DEF CrawlTypeOK, Outcome
  <2>3. NotStarted'
    BY DEF NotStarted
  <2> QED
    BY <2>1, <2>2, <2>3
<1>3. ASSUME NEW k \in Call, SyncFailed(k)
      PROVE  TypeInv'
  <2> USE <1>3 DEF SyncFailed, SyncTimeout, SyncCompleted
  <2>1. ConnTypeOK' /\ QueueTypeOK'
    BY DEF ConnTypeOK, QueueTypeOK, queueVars
  <2>2. ObsTypeOK'
    BY DEF ObsTypeOK, ObservationState
  <2>3. CrawlTypeOK'
    BY DEF CrawlTypeOK, Outcome
  <2>4. NotStarted'
    BY DEF NotStarted, queueVars
  <2> QED
    BY <2>1, <2>2, <2>3, <2>4
<1>4. ASSUME NEW k \in Call, StartCrawling(k)
      PROVE  TypeInv'
  <2> USE <1>4 DEF StartCrawling, StartCrawlProcess, StartLogging, SyncTimeout,
                   SyncCompleted
  <2>1. cur \in Call
    BY CurIsCall
  <2>2. NodesToCrawl \in SUBSET Addr
    BY <2>1, CrawlerAssumption DEF NodesToCrawl, CrawlTypeOK
  <2>3. /\ queue' \subseteq Conn /\ scheduled' \in BOOLEAN
        /\ crawled' \in [Call -> SUBSET Addr]
    BY <2>1, <2>2, CrawlPeerNodesType
  <2>4. ConnTypeOK' /\ QueueTypeOK'
    BY <2>3 DEF ConnTypeOK, QueueTypeOK
  <2>5. ObsTypeOK'
    BY DEF ObsTypeOK, ObservationState
  <2>6. CrawlTypeOK'
    <3>1. crawlState' \in [Call -> CrawlProcessState]
      BY DEF CrawlTypeOK, CrawlProcessState
    <3>2. maxTimer' \in 0 .. MaxCalls /\ syncTimer' \subseteq Call
      BY DEF CrawlTypeOK
    <3> QED
      BY <2>3, <3>1, <3>2 DEF CrawlTypeOK
  <2>7. NotStarted'
    BY <2>1 DEF NotStarted
  <2> QED
    BY <2>4, <2>5, <2>6, <2>7
<1>5. ASSUME NEW k \in Call, NothingToCrawl(k)
      PROVE  TypeInv'
  <2> USE <1>5 DEF NothingToCrawl, StartCrawlProcess, StartLogging, SyncTimeout
  <2>1. cur \in Call
    BY CurIsCall
  <2>2. [obs |-> cur, owner |-> k, then |-> "STOPPING"] \in Done
    BY <2>1 DEF Done
  <2>3. conn' \in ConnType /\ ObsTypeOK'
    BY <1>T, <2>2, StopType
  <2>4. ConnTypeOK' /\ QueueTypeOK'
    BY <2>3 DEF ConnTypeOK, QueueTypeOK, ConnType
  <2>5. CrawlTypeOK'
    <3>1. crawlState' \in [Call -> CrawlProcessState]
      BY DEF CrawlTypeOK, CrawlProcessState
    <3>2. maxTimer' \in 0 .. MaxCalls /\ syncTimer' \subseteq Call
      BY DEF CrawlTypeOK
    <3> QED
      BY <3>1, <3>2 DEF CrawlTypeOK
  <2>6. NotStarted'
    BY <2>1 DEF NotStarted
  <2> QED
    BY <2>3, <2>4, <2>5, <2>6
<1>6. ASSUME NEW S \in SUBSET queue, ProcessQueue(S)
      PROVE  TypeInv'
  <2> USE <1>6 DEF ProcessQueue, obsVars, crawlVars
  <2>1. conn' \in ConnType /\ queue' \subseteq Conn /\ running' \subseteq Conn
    BY <1>T, StartTasksType DEF QueueTypeOK
  <2>2. callbacks' \in [Call -> SUBSET Addr]
    BY RegisteredType
  <2>3. ConnTypeOK' /\ QueueTypeOK'
    BY <2>1, <2>2 DEF ConnTypeOK, QueueTypeOK, ConnType
  <2>4. ObsTypeOK' /\ CrawlTypeOK'
    BY DEF ObsTypeOK, CrawlTypeOK
  <2>5. NotStarted'
    BY DEF NotStarted, StartTasks, Connecting
  <2> QED
    BY <2>3, <2>4, <2>5
<1>7. ASSUME NEW t \in queue, ProcessQueueThrows(t)
      PROVE  TypeInv'
  <2> USE <1>7 DEF ProcessQueueThrows, ConnectThrows, connVars, obsVars
  <2>1. callbacks' \in [Call -> SUBSET Addr]
    BY RegisteredType
  <2>2. ConnTypeOK' /\ QueueTypeOK'
    BY <2>1 DEF ConnTypeOK, QueueTypeOK
  <2>3. ObsTypeOK' /\ CrawlTypeOK'
    BY DEF ObsTypeOK, CrawlTypeOK
  <2>4. NotStarted'
    BY DEF NotStarted
  <2> QED
    BY <2>2, <2>3, <2>4
<1>8. ASSUME NEW c \in Conn, ConnectBlacklisted(c) \/ Fail(c) \/ InvalidData(c)
      PROVE  TypeInv'
  <2> USE <1>8 DEF ConnectBlacklisted, Fail, InvalidData, obsVars, queueVars,
                   crawlVars
  <2>1. conn' \in ConnType
    BY <1>T, ConnOpType
  <2>2. ConnTypeOK' /\ QueueTypeOK'
    BY <2>1 DEF ConnTypeOK, QueueTypeOK, ConnType
  <2>3. ObsTypeOK' /\ CrawlTypeOK'
    BY DEF ObsTypeOK, CrawlTypeOK
  <2>4. NotStarted'
    BY DEF NotStarted
  <2> QED
    BY <2>2, <2>3, <2>4
<1>9. ASSUME NEW c \in Conn, Connect(c)
      PROVE  TypeInv'
  <2> USE <1>9 DEF Connect, PeerConnected, queueVars, crawlVars
  <2>1. c[2] \in Addr
    BY ConnParts
  <2>2. active' \in ActiveType /\ Opened(conn, c) \in ConnType
    BY <1>T, ConnEventType
  <2>3. conn' \in ConnType
    BY <2>2, ConnOpType
  <2>4. connected' \in [Call -> SUBSET Addr]
    <3>1. connected \in [Call -> SUBSET Addr]
      BY DEF ObsTypeOK
    <3>2. [connected EXCEPT ![cur] = @ \cup {c[2]}]
             \in [Call -> SUBSET Addr]
      BY <2>1, <3>1, SetMapType
    <3>3. \/ connected' = connected
          \/ connected' = [connected EXCEPT ![cur] = @ \cup {c[2]}]
      OBVIOUS
    <3> QED
      BY <3>1, <3>2, <3>3
  <2>5. StragglersWith({c[2]}, NoDone) \in Seq(StragglerType)
    BY <1>T, <2>1, StragglersType, NoDoneType
  <2>6. stragglers' \in Seq(StragglerType)
    BY <1>T, <2>5
  <2>7. ConnTypeOK' /\ QueueTypeOK'
    BY <2>2, <2>3 DEF ConnTypeOK, QueueTypeOK, ConnType, ActiveType
  <2>8. ObsTypeOK' /\ CrawlTypeOK'
    BY <2>4, <2>6 DEF ObsTypeOK, CrawlTypeOK, StragglerType
  <2>9. NotStarted'
    BY DEF NotStarted
  <2> QED
    BY <2>7, <2>8, <2>9
<1>10. ASSUME NEW c \in Conn, NEW P \in SUBSET Addr, PeersReceived(c, P)
       PROVE  TypeInv'
  <2> USE <1>10 DEF PeersReceived, connVars, obsVars
  <2>1. cur \in Call
    BY CurIsCall
  <2>2. /\ queue' \subseteq Conn /\ scheduled' \in BOOLEAN
        /\ crawled' \in [Call -> SUBSET Addr]
    BY <2>1, CrawlPeerNodesType DEF QueueTypeOK, CrawlTypeOK
  <2>3. peersDuringSync' \in [Call -> SUBSET Addr]
    <3>1. peersDuringSync \in [Call -> SUBSET Addr]
      BY DEF CrawlTypeOK
    <3>2. [peersDuringSync EXCEPT ![cur] = @ \cup P] \in [Call -> SUBSET Addr]
      BY <3>1, SetMapType
    <3>3. \/ peersDuringSync' = peersDuringSync
          \/ peersDuringSync' = [peersDuringSync EXCEPT ![cur] = @ \cup P]
      OBVIOUS
    <3> QED
      BY <3>1, <3>2, <3>3
  <2>4. ConnTypeOK' /\ QueueTypeOK'
    BY <2>2 DEF ConnTypeOK, QueueTypeOK
  <2>5. ObsTypeOK' /\ CrawlTypeOK'
    BY <2>2, <2>3 DEF ObsTypeOK, CrawlTypeOK
  <2>6. NotStarted'
    BY <2>1 DEF NotStarted
  <2> QED
    BY <2>4, <2>5, <2>6
<1>11. ASSUME NEW c \in Conn, LedgerClose(c)
       PROVE  TypeInv'
  <2> USE <1>11 DEF LedgerClose, LedgerCloseConfirmed, connVars, queueVars,
                    crawlVars
  <2>1. ActivePeers(active) \in SUBSET Addr
    BY DEF ActivePeers, Tracked
  <2>2. stragglers' \in Seq(StragglerType)
    BY <1>T, <2>1, StragglersType, NoDoneType
  <2>3. cur \in Call
    BY CurIsCall
  <2>4. ObsTypeOK'
    BY <2>2, <2>3 DEF ObsTypeOK, StragglerType
  <2>5. ConnTypeOK' /\ QueueTypeOK' /\ CrawlTypeOK'
    BY DEF ConnTypeOK, QueueTypeOK, CrawlTypeOK
  <2>6. NotStarted'
    BY DEF NotStarted
  <2> QED
    BY <2>4, <2>5, <2>6
<1>12. ASSUME NEW c \in Conn, CloseOnly(c)
       PROVE  TypeInv'
  <2> USE <1>12 DEF CloseOnly, Close, obsVars
  <2>1. conn' \in ConnType /\ active' \in ActiveType
    BY <1>T, ConnEventType DEF ConnAfter, ActiveAfter
  <2>2. ConnTypeOK'
    BY <2>1 DEF ConnTypeOK, ConnType, ActiveType
  <2>3. ObsTypeOK' /\ QueueTypeOK' /\ CrawlTypeOK'
    BY DEF ObsTypeOK, QueueTypeOK, CrawlTypeOK
  <2>4. NotStarted'
    BY DEF NotStarted, Live
  <2> QED
    BY <2>2, <2>3, <2>4
<1>13. ASSUME NEW c \in Conn, NEW S \in SUBSET queue, CloseAndProcess(c, S)
       PROVE  TypeInv'
  <2> USE <1>13 DEF CloseAndProcess, Close, obsVars
  <2>1. ConnAfter(c) \in ConnType /\ active' \in ActiveType
    BY <1>T, ConnEventType DEF ConnAfter, ActiveAfter
  <2>2. conn' \in ConnType /\ queue' \subseteq Conn /\ running' \subseteq Conn
    BY <2>1, StartTasksType DEF QueueTypeOK, RunningAfter
  <2>3. callbacks' \in [Call -> SUBSET Addr]
    BY RegisteredType DEF Forgotten
  <2>4. ConnTypeOK' /\ QueueTypeOK'
    BY <2>1, <2>2, <2>3 DEF ConnTypeOK, QueueTypeOK, ConnType, ActiveType
  <2>5. ObsTypeOK' /\ CrawlTypeOK'
    BY DEF ObsTypeOK, CrawlTypeOK
  <2>6. NotStarted'
    BY DEF NotStarted, Live
  <2> QED
    BY <2>4, <2>5, <2>6
<1>14. ASSUME NEW c \in Conn, NEW t \in queue, CloseAndThrow(c, t)
       PROVE  TypeInv'
  <2> USE <1>14 DEF CloseAndThrow, ConnectThrows, Close, obsVars
  <2>1. conn' \in ConnType /\ active' \in ActiveType
    BY <1>T, ConnEventType DEF ConnAfter, ActiveAfter
  <2>2. callbacks' \in [Call -> SUBSET Addr]
    BY RegisteredType
  <2>3. ConnTypeOK' /\ QueueTypeOK'
    BY <2>1, <2>2 DEF ConnTypeOK, QueueTypeOK, ConnType, ActiveType, RunningAfter
  <2>4. ObsTypeOK' /\ CrawlTypeOK'
    BY DEF ObsTypeOK, CrawlTypeOK
  <2>5. NotStarted'
    BY DEF NotStarted, Live
  <2> QED
    BY <2>3, <2>4, <2>5
<1>15. ASSUME NEW c \in Conn, CloseAndDrain(c)
       PROVE  TypeInv'
  <2> USE <1>15 DEF CloseAndDrain, Close
  <2>1. cur \in Call
    BY CurIsCall DEF Live
  <2>2. ConnAfter(c) \in ConnType /\ ActiveAfter(c) \in ActiveType
    BY <1>T, ConnEventType DEF ConnAfter, ActiveAfter
  <2>3. [obs |-> cur, owner |-> drain, then |-> "IDLE"] \in Done
    BY <2>1 DEF Done, QueueTypeOK
  <2>4. conn' \in ConnType /\ ObsTypeOK'
    BY <2>2, <2>3, StopType
  <2>5. callbacks' \in [Call -> SUBSET Addr]
    BY DEF Forgotten, QueueTypeOK
  <2>6. ConnTypeOK' /\ QueueTypeOK'
    BY <2>2, <2>4, <2>5
    DEF ConnTypeOK, QueueTypeOK, ConnType, ActiveType, RunningAfter
  <2>7. CrawlTypeOK'
    BY DEF CrawlTypeOK, CrawlProcessState
  <2>8. NotStarted'
    BY <2>1 DEF NotStarted
  <2> QED
    BY <2>4, <2>6, <2>7, <2>8
<1>16. CASE ConsensusTimeout
  <2> USE <1>16 DEF ConsensusTimeout, NetworkHalted, connVars, queueVars,
                    crawlVars
  <2>1. ActivePeers(active) \in SUBSET Addr
    BY DEF ActivePeers, Tracked
  <2>2. stragglers' \in Seq(StragglerType)
    BY <1>T, <2>1, StragglersType, NoDoneType
  <2>3. ObsTypeOK'
    BY <2>2 DEF ObsTypeOK, StragglerType
  <2>4. ConnTypeOK' /\ QueueTypeOK' /\ CrawlTypeOK'
    BY DEF ConnTypeOK, QueueTypeOK, CrawlTypeOK
  <2>5. NotStarted'
    BY DEF NotStarted
  <2> QED
    BY <2>3, <2>4, <2>5
<1>17. CASE StragglerTimeout
  <2> USE <1>17 DEF StragglerTimeout, ConnAfterStragglers, queueVars, crawlVars
  <2>1. conn' \in ConnType
    BY <1>T, ConnOpType
  <2>2. stragglers' \in Seq(StragglerType)
    BY <1>T
  <2>3. ConnTypeOK' /\ QueueTypeOK' /\ CrawlTypeOK'
    BY <2>1 DEF ConnTypeOK, QueueTypeOK, CrawlTypeOK, ConnType
  <2>4. ObsTypeOK'
    BY <2>2 DEF ObsTypeOK, StragglerType
  <2>5. NotStarted'
    BY DEF NotStarted, DisconnectByAddress, Destroyed
  <2> QED
    BY <2>3, <2>4, <2>5
<1>18. CASE StopTimeout
  <2> USE <1>18 DEF StopTimeout, LastNodesDisconnected, queueVars, crawlVars
  <2>1. ConnAfterStragglers \in ConnType
    BY <1>T, ConnOpType DEF ConnAfterStragglers
  <2>2. conn' \in ConnType
    BY <2>1, ConnOpType
  <2>3. Head(stragglers).done \in Done
    <3>1. Head(stragglers) \in StragglerType
      BY <1>T
    <3> QED
      BY <3>1 DEF StragglerType
  <2>4. settling' \in Seq(Done)
    BY <1>T, <2>3
  <2>5. ConnTypeOK' /\ QueueTypeOK' /\ CrawlTypeOK'
    BY <2>2 DEF ConnTypeOK, QueueTypeOK, CrawlTypeOK, ConnType
  <2>6. ObsTypeOK'
    <3>1. obsState' \in [Call -> ObservationState]
      BY DEF ObsTypeOK, ObservationState
    <3>2. stragglers' \in Seq(StragglerType)
      OBVIOUS
    <3> QED
      BY <2>4, <3>1, <3>2 DEF ObsTypeOK, StragglerType
  <2>7. NotStarted'
    BY DEF NotStarted, ShutDown, ConnAfterStragglers, DisconnectByAddress,
           Destroyed
  <2> QED
    BY <2>5, <2>6, <2>7
<1>19. CASE MaxCrawlTimeout
  <2> USE <1>19 DEF MaxCrawlTimeout, queueVars
  <2>1. [obs |-> cur, owner |-> maxTimer, then |-> "IDLE"] \in Done
    BY DEF Done, CrawlTypeOK
  <2>2. conn' \in ConnType /\ ObsTypeOK'
    BY <1>T, <2>1, StopType
  <2>3. ConnTypeOK' /\ QueueTypeOK'
    BY <2>2 DEF ConnTypeOK, QueueTypeOK, ConnType
  <2>4. CrawlTypeOK'
    <3>1. maxHit' \in [Call -> BOOLEAN]
      BY DEF CrawlTypeOK
    <3>2. maxTimer' \in 0 .. MaxCalls
      OBVIOUS
    <3> QED
      BY <3>1, <3>2 DEF CrawlTypeOK
  <2>5. NotStarted'
    BY DEF NotStarted, StopObservation, LastNodesDisconnected, AwaitStragglers,
           ShutDown, DisconnectByAddress, Destroyed
  <2> QED
    BY <2>2, <2>3, <2>4, <2>5
<1>20. CASE Finish
  <2> USE <1>20 DEF Finish, StopLogging, connVars, queueVars
  <2>1. settling' \in Seq(Done) /\ Head(settling) \in Done
    BY <1>T
  <2>2. ConnTypeOK' /\ QueueTypeOK'
    BY DEF ConnTypeOK, QueueTypeOK
  <2>3. ObsTypeOK'
    BY <2>1 DEF ObsTypeOK
  <2>4. crawlState' \in [Call -> CrawlProcessState]
    BY <2>1 DEF CrawlTypeOK, CrawlProcessState, Done
  <2>5. outcome' \in [Call -> Outcome]
    BY DEF CrawlTypeOK, Outcome, Settled
  <2>6. CrawlTypeOK'
    BY <2>4, <2>5 DEF CrawlTypeOK
  <2>7. NotStarted'
    BY DEF NotStarted
  <2> QED
    BY <2>2, <2>3, <2>6, <2>7
<1>21. CASE UNCHANGED vars
  <2> USE <1>21 DEF vars, connVars, obsVars, queueVars, crawlVars
  <2>1. ConnTypeOK' /\ ObsTypeOK' /\ QueueTypeOK' /\ CrawlTypeOK'
    BY DEF ConnTypeOK, ObsTypeOK, QueueTypeOK, CrawlTypeOK
  <2> QED
    BY <2>1 DEF NotStarted
<1> QED
  BY <1>1, <1>2, <1>3, <1>4, <1>5, <1>6, <1>7, <1>8, <1>9, <1>10, <1>11, <1>12,
     <1>13, <1>14, <1>15, <1>16, <1>17, <1>18, <1>19, <1>20, <1>21
  DEF Next

\* Every behaviour of the crawler keeps the types of the code: in particular a
\* crawl task always belongs to a crawl (crawler.ts:190-195, where the getter
\* of this.crawl would throw otherwise).
THEOREM TypeCorrect == Spec => []TypeOK
<1>1. TypeInv => TypeOK
  BY DEF TypeInv
<1> QED
  BY TypeInit, TypeStep, <1>1, PTL DEF Spec
=============================================================================

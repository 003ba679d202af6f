---------------------------- MODULE BoundProofs ----------------------------
(***************************************************************************)
(* The bound on open connections, for every set of addresses, every number *)
(* of startCrawl calls and every number of workers.                        *)
(*                                                                         *)
(* The queue limits the tasks that run, not the connections: the bound     *)
(* holds because every connection outside the top tier exists only while a *)
(* task of its own occupies a worker. Which one need not be known: it is   *)
(* enough that a worker is freed by the end of a connection, one for one.  *)
(***************************************************************************)
EXTENDS CrawlerProofs

-----------------------------------------------------------------------------
(* The inductive invariant *)

\* The connections from connectTo to 'close' that are outside the top tier.
OpenPeers(con) == {c \in Live(con) : c[2] \notin TopTier}

\* A waiting task has no connection yet and does not run: starting it opens a
\* connection that did not exist and occupies a worker that it did not have.
WaitingIsNew == \A t \in queue : conn[t] = "none" /\ t \notin running

\* The queue is for addresses outside the top tier.
TasksOfPeers ==
    /\ \A t \in queue : t[2] \notin TopTier
    /\ \A k \in Call : callbacks[k] \cap TopTier = {}

\* An address becomes a task, and then a connection, once it is marked crawled.
CrawledFirst ==
    \A c \in Conn : c[2] \notin TopTier /\ c[2] \notin crawled[c[1]] =>
        conn[c] = "none" /\ c \notin queue /\ c \notin running

WorkersCount ==
    /\ Cardinality(OpenPeers(conn)) <= Cardinality(running)
    /\ Cardinality(running) <= MaxOpen

TasksInv == WaitingIsNew /\ TasksOfPeers /\ CrawledFirst /\ WorkersCount

BoundInv == TypeInv /\ TasksInv

-----------------------------------------------------------------------------
(* Counting connections and workers *)

LEMMA ConnFinite ==
    ASSUME NEW S \in SUBSET Conn
    PROVE  IsFiniteSet(S) /\ Cardinality(S) \in Nat
<1>1. IsFiniteSet(1 .. MaxCalls)
  BY ConnectionAssumption, FS_Interval
<1>2. IsFiniteSet(Conn)
  BY <1>1, ConnectionAssumption, FS_Product DEF Conn, Call
<1>3. IsFiniteSet(S)
  BY <1>2, FS_Subset
<1> QED
  BY <1>3, FS_CardinalityType

\* The union of disjoint sets.
LEMMA DisjointUnion ==
    ASSUME NEW S \in SUBSET Conn, NEW T \in SUBSET Conn, S \cap T = {}
    PROVE  Cardinality(S \cup T) = Cardinality(S) + Cardinality(T)
<1>1. IsFiniteSet(S) /\ Cardinality(S) \in Nat
  BY ConnFinite
<1>2. IsFiniteSet(T) /\ Cardinality(T) \in Nat
  BY ConnFinite
<1>3. Cardinality(S \cap T) = 0
  BY FS_EmptySet
<1>4. Cardinality(S \cup T)
        = Cardinality(S) + Cardinality(T) - Cardinality(S \cap T)
  BY <1>1, <1>2, FS_Union, Zenon
<1> QED
  BY <1>1, <1>2, <1>3, <1>4

\* Tasks that have neither a connection nor a worker get both.
LEMMA StartCounts ==
    ASSUME NEW L \in SUBSET Conn, NEW R \in SUBSET Conn, NEW S \in SUBSET Conn,
           S \cap L = {}, S \cap R = {}, Cardinality(L) <= Cardinality(R)
    PROVE  Cardinality(L \cup S) <= Cardinality(R \cup S)
<1>1. /\ IsFiniteSet(L) /\ IsFiniteSet(R) /\ IsFiniteSet(S)
      /\ Cardinality(L) \in Nat /\ Cardinality(R) \in Nat /\ Cardinality(S) \in Nat
  BY ConnFinite
<1>2. Cardinality(L \cup S) = Cardinality(L) + Cardinality(S)
  BY DisjointUnion
<1>3. Cardinality(R \cup S) = Cardinality(R) + Cardinality(S)
  BY DisjointUnion
<1> QED
  BY <1>1, <1>2, <1>3

\* A connection ends, and with it at most one task.
LEMMA EndCounts ==
    ASSUME NEW L \in SUBSET Conn, NEW R \in SUBSET Conn, NEW c \in L, NEW t,
           Cardinality(L) <= Cardinality(R)
    PROVE  Cardinality(L \ {c}) <= Cardinality(R \ {t})
<1>1. /\ IsFiniteSet(L) /\ IsFiniteSet(R)
      /\ Cardinality(L) \in Nat /\ Cardinality(R) \in Nat
  BY ConnFinite
<1>2. Cardinality(L \ {c}) = Cardinality(L) - 1
  BY <1>1, FS_RemoveElement
<1>3. CASE t \in R
  <2>1. Cardinality(R \ {t}) = Cardinality(R) - 1
    BY <1>1, <1>3, FS_RemoveElement
  <2> QED
    BY <1>1, <1>2, <2>1
<1>4. CASE t \notin R
  <2>1. R \ {t} = R
    BY <1>4
  <2> QED
    BY <1>1, <1>2, <2>1
<1> QED
  BY <1>3, <1>4

LEMMA SubsetCounts ==
    ASSUME NEW L \in SUBSET Conn, NEW M \in SUBSET L
    PROVE  Cardinality(M) <= Cardinality(L)
BY ConnFinite, FS_Subset

-----------------------------------------------------------------------------
(* Events that start no task *)

\* From con to new, no connection outside the top tier comes into existence
\* and none is forgotten.
NoNewPeer(con, new) ==
    \A c \in Conn : c[2] \notin TopTier =>
        /\ con[c] = "none" <=> new[c] = "none"
        /\ c \in Live(new) => c \in Live(con)

LEMMA DisconnectsQuietly ==
    ASSUME NEW con \in ConnType, NEW act
    PROVE  /\ \A C : NoNewPeer(con, Destroyed(con, C))
           /\ \A A : NoNewPeer(con, DisconnectByAddress(con, act, A))
           /\ NoNewPeer(con, ShutDown(con, act))
<1>1. \A C : NoNewPeer(con, Destroyed(con, C))
  BY DEF NoNewPeer, Destroyed, Live
<1> QED
  BY <1>1 DEF DisconnectByAddress, ShutDown

LEMMA StopsQuietly ==
    ASSUME NEW con \in ConnType, NEW act, NEW d, StopObservation(con, act, d)
    PROVE  NoNewPeer(con, conn')
<1>1. CASE LastNodesDisconnected(con, act, d)
  BY <1>1, DisconnectsQuietly DEF LastNodesDisconnected
<1>2. CASE AwaitStragglers(con, act, d)
  BY <1>2 DEF AwaitStragglers, NoNewPeer
<1> QED
  BY <1>1, <1>2 DEF StopObservation

\* Connections may end in an event that leaves the queue alone.
LEMMA QuietStep ==
    ASSUME BoundInv, UNCHANGED <<queue, running, callbacks, crawled>>,
           NoNewPeer(conn, conn')
    PROVE  TasksInv'
<1> USE DEF BoundInv, TasksInv, NoNewPeer
<1>1. queue \subseteq Conn /\ running \subseteq Conn
  BY DEF TypeInv, TypeOK, QueueTypeOK
<1>2. WaitingIsNew' /\ TasksOfPeers'
  BY <1>1 DEF WaitingIsNew, TasksOfPeers
<1>3. CrawledFirst'
  BY DEF CrawledFirst
<1>4. WorkersCount'
  <2>1. OpenPeers(conn') \subseteq OpenPeers(conn)
    BY DEF OpenPeers, Live
  <2>2. OpenPeers(conn) \subseteq Conn
    BY DEF OpenPeers, Live
  <2>3. Cardinality(OpenPeers(conn')) <= Cardinality(OpenPeers(conn))
    BY <2>1, <2>2, SubsetCounts
  <2>4. /\ Cardinality(OpenPeers(conn')) \in Nat
        /\ Cardinality(OpenPeers(conn)) \in Nat
        /\ Cardinality(running) \in Nat
    BY <1>1, <2>1, <2>2, ConnFinite
  <2> QED
    BY <2>3, <2>4 DEF WorkersCount
<1> QED
  BY <1>2, <1>3, <1>4

\* Discovered addresses become tasks.
LEMMA PushStep ==
    ASSUME BoundInv, cur \in Call, NEW P \in SUBSET Addr, CrawlPeerNodes(P),
           UNCHANGED <<conn, running, callbacks>>
    PROVE  TasksInv'
<1> USE DEF BoundInv, TasksInv, CrawlPeerNodes, Crawlable, Push
<1> DEFINE T == {cur} \X Crawlable(P)
<1>1. crawled \in [Call -> SUBSET Addr]
  BY DEF TypeInv, TypeOK, CrawlTypeOK
<1>2. \A t \in T : /\ t \in Conn /\ t[2] \notin TopTier
                   /\ t[2] \notin crawled[t[1]] /\ t[2] \in crawled'[t[1]]
  BY <1>1 DEF Conn
<1>3. \A t \in T : conn[t] = "none" /\ t \notin running
  BY <1>2 DEF CrawledFirst
<1>4. WaitingIsNew' /\ TasksOfPeers'
  BY <1>2, <1>3 DEF WaitingIsNew, TasksOfPeers
<1>5. \A k \in Call : crawled[k] \subseteq crawled'[k]
  BY <1>1
<1>6. CrawledFirst'
  <2> SUFFICES ASSUME NEW c \in Conn,
                      c[2] \notin TopTier, c[2] \notin crawled'[c[1]]
               PROVE  conn[c] = "none" /\ c \notin queue' /\ c \notin running
    BY DEF CrawledFirst
  <2>1. c[1] \in Call
    BY DEF Conn
  <2>2. c[2] \notin crawled[c[1]]
    BY <1>5, <2>1
  <2> QED
    BY <1>2, <2>2 DEF CrawledFirst
<1>7. WorkersCount'
  BY DEF WorkersCount
<1> QED
  BY <1>4, <1>6, <1>7

-----------------------------------------------------------------------------
(* Events that start tasks *)

\* The tasks of S start when L are the connections outside the top tier and
\* run occupies workers. (The done callbacks are those of the end of a task
\* and of the tasks of S.)
LEMMA StartStep ==
    ASSUME BoundInv, NEW con \in ConnType, NEW run \in SUBSET running,
           NEW S \in SUBSET queue, Startable(run, S), StartTasks(con, run, S),
           NoNewPeer(conn, con),
           Cardinality(OpenPeers(con)) <= Cardinality(run),
           \A k \in Call : callbacks'[k] \subseteq Registered(S)[k],
           UNCHANGED crawled
    PROVE  TasksInv'
<1> USE DEF BoundInv, TasksInv, StartTasks
<1>1. queue \subseteq Conn /\ running \subseteq Conn /\ S \subseteq Conn
  BY DEF TypeInv, TypeOK, QueueTypeOK
<1>2. \A c \in Conn : conn'[c] = IF c \in S THEN "connecting" ELSE con[c]
  BY DEF Connecting
<1>3. \A t \in queue : con[t] = "none" /\ t \notin run
  BY <1>1 DEF WaitingIsNew, TasksOfPeers, NoNewPeer
<1>4. WaitingIsNew'
  BY <1>1, <1>2, <1>3 DEF WaitingIsNew
<1>5. TasksOfPeers'
  <2>1. \A k \in Call : Registered(S)[k] \cap TopTier = {}
    BY DEF TasksOfPeers, Registered
  <2> QED
    BY <2>1 DEF TasksOfPeers
<1>6. CrawledFirst'
  BY <1>1, <1>2 DEF CrawledFirst, NoNewPeer
<1>7. OpenPeers(conn') = OpenPeers(con) \cup S
  BY <1>1, <1>2 DEF OpenPeers, Live, TasksOfPeers
<1>8. OpenPeers(con) \subseteq Conn /\ S \cap OpenPeers(con) = {}
  BY <1>3 DEF OpenPeers, Live
<1>9. Cardinality(OpenPeers(con) \cup S) <= Cardinality(run \cup S)
  BY <1>1, <1>3, <1>8, StartCounts
<1>10. WorkersCount'
  BY <1>7, <1>9 DEF WorkersCount, Startable, Workers
<1> QED
  BY <1>4, <1>5, <1>6, <1>10

\* A task gets a worker and throws instead of connecting.
LEMMA ThrowStep ==
    ASSUME BoundInv, NEW run \in SUBSET running, NEW t \in queue,
           ConnectThrows(run, t), NoNewPeer(conn, conn'),
           Cardinality(OpenPeers(conn')) <= Cardinality(run),
           UNCHANGED crawled
    PROVE  TasksInv'
<1> USE DEF BoundInv, TasksInv, ConnectThrows
<1>1. queue \subseteq Conn /\ running \subseteq Conn /\ run \subseteq Conn
  BY DEF TypeInv, TypeOK, QueueTypeOK
<1>2. WaitingIsNew'
  BY <1>1 DEF WaitingIsNew, TasksOfPeers, NoNewPeer
<1>3. TasksOfPeers'
  BY DEF TasksOfPeers, Registered, Conn, Call
<1>4. CrawledFirst'
  BY DEF CrawledFirst, NoNewPeer
<1>5. Cardinality(run) <= Cardinality(run \cup {t})
  BY <1>1, SubsetCounts
<1>6. Cardinality(run \cup {t}) <= MaxOpen
  <2>1. PICK S \in SUBSET queue : Startable(run, S) /\ t \in S
    OBVIOUS
  <2>2. Cardinality(run \cup {t}) <= Cardinality(run \cup S)
    BY <1>1, <2>1, SubsetCounts
  <2>3. Cardinality(run \cup {t}) \in Nat /\ Cardinality(run \cup S) \in Nat
    BY <1>1, <2>1, ConnFinite
  <2> QED
    BY <2>1, <2>2, <2>3, MaxOpenAssumption DEF Startable, Workers
<1>7. WorkersCount'
  <2>1. OpenPeers(conn') \subseteq Conn
    BY DEF OpenPeers, Live
  <2>2. /\ Cardinality(OpenPeers(conn')) \in Nat /\ Cardinality(run) \in Nat
        /\ Cardinality(run \cup {t}) \in Nat
    BY <1>1, <2>1, ConnFinite
  <2> QED
    BY <1>5, <1>6, <2>2 DEF WorkersCount
<1> QED
  BY <1>2, <1>3, <1>4, <1>7

\* The end of a connection frees a worker for every task it ends.
LEMMA CloseCounts ==
    ASSUME BoundInv, NEW c \in Live(conn)
    PROVE  /\ NoNewPeer(conn, ConnAfter(c))
           /\ EndsTask(c) => Cardinality(OpenPeers(ConnAfter(c)))
                                <= Cardinality(RunningAfter(c))
<1> USE DEF BoundInv, TasksInv
<1>1. conn \in ConnType /\ running \subseteq Conn /\ c \in Conn
  BY DEF TypeInv, TypeOK, ConnTypeOK, QueueTypeOK, ConnType, Live
<1>2. \A d \in Conn : ConnAfter(c)[d] = IF d = c THEN "closed" ELSE conn[d]
  BY <1>1 DEF ConnAfter, Closed, ConnType
<1>3. NoNewPeer(conn, ConnAfter(c))
  BY <1>2 DEF NoNewPeer, Live
<1>4. ASSUME EndsTask(c)
      PROVE  Cardinality(OpenPeers(ConnAfter(c))) <= Cardinality(RunningAfter(c))
  <2>1. cur \in Call
    BY <1>1, CurIsCall DEF Live
  <2>2. c[2] \notin TopTier
    BY <1>4, <2>1 DEF EndsTask, TasksOfPeers
  <2>3. c \in OpenPeers(conn) /\ OpenPeers(conn) \subseteq Conn
    BY <2>2 DEF OpenPeers, Live
  <2>4. OpenPeers(ConnAfter(c)) = OpenPeers(conn) \ {c}
    BY <1>2 DEF OpenPeers, Live
  <2> QED
    BY <1>1, <2>3, <2>4, EndCounts DEF RunningAfter, WorkersCount
<1> QED
  BY <1>3, <1>4

-----------------------------------------------------------------------------
(* The theorem *)

LEMMA BoundInit == Init => BoundInv
<1> SUFFICES ASSUME Init PROVE BoundInv
  OBVIOUS
<1> USE DEF Init
<1>1. TypeInv
  BY TypeInit
<1>2. WaitingIsNew /\ TasksOfPeers /\ CrawledFirst
  BY DEF QueueInit, ConnInit, WaitingIsNew, TasksOfPeers, CrawledFirst
<1>3. OpenPeers(conn) = {} /\ running = {}
  BY DEF ConnInit, QueueInit, OpenPeers, Live
<1>4. WorkersCount
  BY <1>3, FS_EmptySet, MaxOpenAssumption DEF WorkersCount
<1> QED
  BY <1>1, <1>2, <1>4 DEF BoundInv, TasksInv

LEMMA BoundStep == BoundInv /\ [Next]_vars => BoundInv'
<1> SUFFICES ASSUME BoundInv, [Next]_vars PROVE TasksInv'
  BY TypeStep DEF BoundInv
<1>T. /\ TypeInv /\ conn \in ConnType /\ active \in ActiveType
      /\ queue \subseteq Conn /\ running \subseteq Conn
  BY DEF BoundInv, TypeInv, TypeOK, ConnTypeOK, QueueTypeOK, ConnType, ActiveType
<1>S. NoNewPeer(conn, conn)
  BY DEF NoNewPeer
<1>1. CASE StartCrawl
  <2>1. NoNewPeer(conn, conn')
    BY <1>1 DEF StartCrawl, StartSync, Connecting, NoNewPeer, Live
  <2> QED
    BY <1>1, <2>1, QuietStep DEF StartCrawl, queueVars
<1>2. CASE RefuseCrawl
  BY <1>2, <1>S, QuietStep DEF RefuseCrawl, connVars, queueVars
<1>3. ASSUME NEW k \in Call, SyncFailed(k)
      PROVE  TasksInv'
  BY <1>3, <1>S, QuietStep DEF SyncFailed, queueVars
<1>4. ASSUME NEW k \in Call, StartCrawling(k)
      PROVE  TasksInv'
  <2> USE <1>4 DEF StartCrawling, StartCrawlProcess, SyncTimeout
  <2>1. cur \in Call
    BY <1>T, CurIsCall
  <2>2. NodesToCrawl \in SUBSET Addr
    BY <1>T, <2>1, CrawlerAssumption
    DEF NodesToCrawl, TypeInv, TypeOK, CrawlTypeOK
  <2> QED
    BY <2>1, <2>2, PushStep
<1>5. ASSUME NEW k \in Call, NothingToCrawl(k)
      PROVE  TasksInv'
  <2> USE <1>5 DEF NothingToCrawl, StartCrawlProcess
  <2>1. NoNewPeer(conn, conn')
    BY <1>T, StopsQuietly
  <2> QED
    BY <2>1, QuietStep
<1>6. ASSUME NEW S \in SUBSET queue, ProcessQueue(S)
      PROVE  TasksInv'
  <2>1. Cardinality(OpenPeers(conn)) <= Cardinality(running)
    BY DEF BoundInv, TasksInv, WorkersCount
  <2> QED
    BY <1>6, <1>T, <1>S, <2>1, StartStep DEF ProcessQueue, crawlVars
<1>7. ASSUME NEW t \in queue, ProcessQueueThrows(t)
      PROVE  TasksInv'
  <2> USE <1>7 DEF ProcessQueueThrows, connVars
  <2>1. Cardinality(OpenPeers(conn')) <= Cardinality(running)
    BY DEF BoundInv, TasksInv, WorkersCount
  <2> QED
    BY <1>S, <2>1, ThrowStep
<1>8. ASSUME NEW c \in Conn, ConnectBlacklisted(c) \/ Fail(c) \/ InvalidData(c)
      PROVE  TasksInv'
  <2> USE <1>8 DEF ConnectBlacklisted, Fail, InvalidData, queueVars, crawlVars
  <2>1. NoNewPeer(conn, conn')
    BY <1>T, DisconnectsQuietly
  <2> QED
    BY <2>1, QuietStep
<1>9. ASSUME NEW c \in Conn, Connect(c)
      PROVE  TasksInv'
  <2> USE <1>9 DEF Connect, PeerConnected, queueVars, crawlVars
  <2>1. Opened(conn, c) \in ConnType
    BY <1>T, ConnEventType
  <2>2. NoNewPeer(conn, Opened(conn, c))
    BY <1>T DEF NoNewPeer, Opened, Live, ConnType
  <2>3. NoNewPeer(Opened(conn, c), conn')
    BY <2>1, DisconnectsQuietly DEF NoNewPeer
  <2>4. NoNewPeer(conn, conn')
    BY <2>2, <2>3 DEF NoNewPeer
  <2> QED
    BY <2>4, QuietStep
<1>10. ASSUME NEW c \in Conn, NEW P \in SUBSET Addr, PeersReceived(c, P)
       PROVE  TasksInv'
  <2> USE <1>10 DEF PeersReceived, connVars
  <2>1. CASE crawlState[cur] = "TOP_TIER_SYNC"
    BY <1>S, <2>1, QuietStep
  <2>2. CASE crawlState[cur] # "TOP_TIER_SYNC"
    <3>1. cur \in Call
      BY <1>T, CurIsCall
    <3> QED
      BY <2>2, <3>1, PushStep
  <2> QED
    BY <2>1, <2>2
<1>11. ASSUME NEW c \in Conn, LedgerClose(c)
       PROVE  TasksInv'
  BY <1>11, <1>S, QuietStep DEF LedgerClose, connVars, queueVars, crawlVars
<1>12. ASSUME NEW c \in Conn, CloseOnly(c)
       PROVE  TasksInv'
  BY <1>12, CloseCounts, QuietStep DEF CloseOnly, Close
<1>13. ASSUME NEW c \in Conn, NEW S \in SUBSET queue, CloseAndProcess(c, S)
       PROVE  TasksInv'
  <2> USE <1>13 DEF CloseAndProcess, Close
  <2>1. ConnAfter(c) \in ConnType
    BY <1>T, ConnEventType DEF ConnAfter
  <2>2. /\ NoNewPeer(conn, ConnAfter(c))
        /\ Cardinality(OpenPeers(ConnAfter(c))) <= Cardinality(RunningAfter(c))
    BY CloseCounts
  <2>3. RunningAfter(c) \in SUBSET running
    BY DEF RunningAfter
  <2>4. \A k \in Call : callbacks'[k] \subseteq Registered(S)[k]
    BY DEF Forgotten, Registered
  <2> QED
    BY <2>1, <2>2, <2>3, <2>4, StartStep
<1>14. ASSUME NEW c \in Conn, NEW t \in queue, CloseAndThrow(c, t)
       PROVE  TasksInv'
  <2> USE <1>14 DEF CloseAndThrow, Close
  <2>1. /\ NoNewPeer(conn, conn')
        /\ Cardinality(OpenPeers(conn')) <= Cardinality(RunningAfter(c))
    BY CloseCounts
  <2>2. RunningAfter(c) \in SUBSET running
    BY DEF RunningAfter
  <2> QED
    BY <2>1, <2>2, ThrowStep
<1>15. ASSUME NEW c \in Conn, CloseAndDrain(c)
       PROVE  TasksInv'
  <2> USE <1>15 DEF CloseAndDrain, Close
  <2>1. ConnAfter(c) \in ConnType
    BY <1>T, ConnEventType DEF ConnAfter
  <2>2. /\ NoNewPeer(conn, ConnAfter(c))
        /\ Cardinality(OpenPeers(ConnAfter(c))) <= Cardinality(RunningAfter(c))
    BY CloseCounts
  <2>3. NoNewPeer(ConnAfter(c), conn')
    BY <2>1, StopsQuietly
  <2>4. NoNewPeer(conn, conn')
    BY <2>2, <2>3 DEF NoNewPeer
  <2>5. WaitingIsNew' /\ TasksOfPeers' /\ CrawledFirst'
    BY <1>T, <2>4
    DEF BoundInv, TasksInv, WaitingIsNew, TasksOfPeers, CrawledFirst, NoNewPeer,
        RunningAfter, Forgotten, TypeInv, TypeOK, QueueTypeOK
  <2>6. WorkersCount'
    <3>1. /\ OpenPeers(conn') \subseteq OpenPeers(ConnAfter(c))
          /\ OpenPeers(ConnAfter(c)) \subseteq Conn
          /\ RunningAfter(c) \subseteq running
      BY <2>3 DEF NoNewPeer, OpenPeers, Live, RunningAfter
    <3>2. /\ Cardinality(OpenPeers(conn')) <= Cardinality(OpenPeers(ConnAfter(c)))
          /\ Cardinality(RunningAfter(c)) <= Cardinality(running)
      BY <1>T, <3>1, SubsetCounts
    <3>3. /\ Cardinality(OpenPeers(conn')) \in Nat
          /\ Cardinality(OpenPeers(ConnAfter(c))) \in Nat
          /\ Cardinality(RunningAfter(c)) \in Nat
          /\ Cardinality(running) \in Nat
      BY <1>T, <3>1, ConnFinite
    <3> QED
      BY <2>2, <3>2, <3>3, MaxOpenAssumption DEF BoundInv, TasksInv, WorkersCount
  <2> QED
    BY <2>5, <2>6 DEF TasksInv
<1>16. CASE ConsensusTimeout
  BY <1>16, <1>S, QuietStep DEF ConsensusTimeout, connVars, queueVars, crawlVars
<1>17. CASE StragglerTimeout
  <2> USE <1>17 DEF StragglerTimeout, queueVars, crawlVars
  <2>1. NoNewPeer(conn, conn')
    BY <1>T, DisconnectsQuietly DEF ConnAfterStragglers
  <2> QED
    BY <2>1, QuietStep
<1>18. CASE StopTimeout
  <2> USE <1>18 DEF StopTimeout, LastNodesDisconnected, queueVars, crawlVars
  <2>1. ConnAfterStragglers \in ConnType /\ NoNewPeer(conn, ConnAfterStragglers)
    BY <1>T, ConnOpType, DisconnectsQuietly DEF ConnAfterStragglers
  <2>2. NoNewPeer(ConnAfterStragglers, conn')
    BY <2>1, DisconnectsQuietly
  <2>3. NoNewPeer(conn, conn')
    BY <2>1, <2>2 DEF NoNewPeer
  <2> QED
    BY <2>3, QuietStep
<1>19. CASE MaxCrawlTimeout
  <2> USE <1>19 DEF MaxCrawlTimeout, queueVars
  <2>1. NoNewPeer(conn, conn')
    BY <1>T, StopsQuietly
  <2> QED
    BY <2>1, QuietStep
<1>20. CASE Finish
  BY <1>20, <1>S, QuietStep DEF Finish, connVars, queueVars
<1>21. CASE UNCHANGED vars
  BY <1>21, <1>S, QuietStep DEF vars, connVars, queueVars, crawlVars
<1> QED
  BY <1>1, <1>2, <1>3, <1>4, <1>5, <1>6, <1>7, <1>8, <1>9, <1>10, <1>11, <1>12,
     <1>13, <1>14, <1>15, <1>16, <1>17, <1>18, <1>19, <1>20, <1>21
  DEF Next

\* The connections outside the top tier never outnumber the workers of the
\* crawl queue (crawler-configuration.ts:8), over any number of crawls that
\* share the queue and the connection manager.
THEOREM ConnectionsBounded == Spec => []OpenConnectionsBounded
<1>1. BoundInv => OpenConnectionsBounded
  <2> SUFFICES ASSUME BoundInv PROVE OpenConnectionsBounded
    OBVIOUS
  <2>1. OpenPeers(conn) \subseteq Conn /\ running \subseteq Conn
    BY DEF OpenPeers, Live, BoundInv, TypeInv, TypeOK, QueueTypeOK
  <2>2. Cardinality(OpenPeers(conn)) \in Nat /\ Cardinality(running) \in Nat
    BY <2>1, ConnFinite
  <2> QED
    BY <2>2, MaxOpenAssumption
    DEF BoundInv, TasksInv, WorkersCount, OpenConnectionsBounded, OpenPeers
<1> QED
  BY BoundInit, BoundStep, <1>1, PTL DEF Spec
=============================================================================

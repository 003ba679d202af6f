------------------------------ MODULE Crawler ------------------------------
(***************************************************************************)
(* crawler.ts composed with the crawl queue, the max crawl timer and the   *)
(* network observer (NetworkObserver, ObservationManager, PeerEventHandler *)
(* and ConnectionManager): a whole crawl, from startCrawl to the moment    *)
(* its promise settles, and what the application's next startCrawl calls   *)
(* find.                                                                   *)
(*                                                                         *)
(* One action is one event handler of the event loop with everything it    *)
(* calls synchronously: the 'close' of a connection, for instance, frees a *)
(* worker, and then either starts waiting tasks or stops the observation.  *)
(* The order of the event loop that the guards keep:                       *)
(*  - continuations of resolved promises and a scheduled process() are     *)
(*    microtasks, which run before the next event; only 'close' events of  *)
(*    destroyed connections come before them;                              *)
(*  - an exception that no handler catches ends the process (crashed).     *)
(***************************************************************************)
EXTENDS ObservationManager, CrawlQueue

CONSTANTS
    Seeds,          \* nodesToCrawl of every call
    MaxStragglers   \* bound: no ledger closes with this many pending timers

ASSUME CrawlerAssumption == Seeds \subseteq Addr /\ MaxStragglers \in Nat

CrawlProcessState == {"IDLE", "TOP_TIER_SYNC", "CRAWLING", "STOPPING"}

Outcome == {"none", "pending", "resolved", "rejected", "refused"}

VARIABLES
    cur,              \* the call whose Crawl is this.crawl, 0 if none
    calls,            \* number of startCrawl calls so far
    crawlState,       \* Crawl.state
    crawled,          \* Crawl.crawledNodeAddresses
    peersDuringSync,  \* Crawl.peerAddressesReceivedDuringSync
    maxHit,           \* Crawl.maxCrawlTimeHit
    outcome,          \* what the caller's promise came to
    maxTimer,         \* call the max crawl timer is armed for, 0 if none
    syncTimer,        \* calls whose startSync awaits its timeout
    logging,          \* calls whose log interval runs (crawl-logger.ts)
    logTimer,         \* call whose interval is loggingTimer, 0 if none
    crashed           \* an exception was thrown out of an event handler

crawlVars == <<cur, calls, crawlState, crawled, peersDuringSync, maxHit,
               outcome, maxTimer, syncTimer, logging, logTimer, crashed>>

logVars == <<logging, logTimer>>

vars == <<connVars, obsVars, queueVars, crawlVars>>

CrawlTypeOK ==
    /\ cur \in 0 .. MaxCalls
    /\ calls \in 0 .. MaxCalls
    /\ crawlState \in [Call -> CrawlProcessState]
    /\ crawled \in [Call -> SUBSET Addr]
    /\ peersDuringSync \in [Call -> SUBSET Addr]
    /\ maxHit \in [Call -> BOOLEAN]
    /\ outcome \in [Call -> Outcome]
    /\ maxTimer \in 0 .. MaxCalls
    /\ syncTimer \subseteq Call
    /\ logging \subseteq Call
    /\ logTimer \in 0 .. MaxCalls
    /\ crashed \in BOOLEAN

CrawlInit ==
    /\ cur = 0
    /\ calls = 0
    /\ crawlState = [k \in Call |-> "IDLE"]
    /\ crawled = [k \in Call |-> {}]
    /\ peersDuringSync = [k \in Call |-> {}]
    /\ maxHit = [k \in Call |-> FALSE]
    /\ outcome = [k \in Call |-> "none"]
    /\ maxTimer = 0
    /\ syncTimer = {}
    /\ logging = {}
    /\ logTimer = 0
    /\ crashed = FALSE

Init == ConnInit /\ ObsInit /\ QueueInit /\ CrawlInit

-----------------------------------------------------------------------------
(* When an event can be handled *)

CanRun == ~crashed /\ settling = <<>> /\ ~scheduled

-----------------------------------------------------------------------------
(* startCrawl and the top tier sync *)

\* isCrawlRunning
CrawlRunning == cur # 0 /\ crawlState[cur] # "IDLE"

\* startCrawl, startTopTierSync and startSync
StartCrawl ==
    /\ CanRun /\ calls < MaxCalls /\ ~CrawlRunning
    /\ calls' = calls + 1
    /\ cur' = calls'
    /\ crawlState' = [crawlState EXCEPT ![cur'] = "TOP_TIER_SYNC"]
    /\ outcome' = [outcome EXCEPT ![cur'] = "pending"]
    /\ syncTimer' = syncTimer \cup {cur'}
    /\ StartSync(cur')
    /\ UNCHANGED <<active, halted, connected, stragglers, consensus, settling,
                   queueVars, crawled, peersDuringSync, maxHit, maxTimer,
                   logVars, crashed>>

\* startCrawl while a crawl runs: rejected, nothing else happens
RefuseCrawl ==
    /\ CanRun /\ calls < MaxCalls /\ CrawlRunning
    /\ calls' = calls + 1
    /\ outcome' = [outcome EXCEPT ![calls'] = "refused"]
    /\ UNCHANGED <<connVars, obsVars, queueVars, cur, crawlState, crawled,
                   peersDuringSync, maxHit, maxTimer, syncTimer, logVars,
                   crashed>>

\* Variant of Crawlable that forgets what was crawled already.
CrawlableAgain(P) == P \ TopTier

\* canNodeBeCrawled, of the addresses P
Crawlable(P) == P \ (crawled[cur] \cup TopTier)

\* Variant of CrawlPeerNodes that marks addresses before it looks them up.
CrawlPeerNodesMarked(P) ==
    /\ crawled' = [crawled EXCEPT ![cur] = @ \cup P]
    /\ Push({cur} \X (P \ (crawled'[cur] \cup TopTier)))

\* crawlPeerNode, for the addresses of P
CrawlPeerNodes(P) ==
    /\ crawled' = [crawled EXCEPT ![cur] = @ \cup Crawlable(P)]
    /\ Push({cur} \X Crawlable(P))

\* Variant of NodesToCrawl that forgets the peers received during the sync.
SeedsOnly == Seeds

NodesToCrawl == Seeds \cup peersDuringSync[cur]

\* The timer startSync awaits fired; syncCompleted is part of what follows.
\* These timers have one duration: they fire in the order of the calls. That
\* the observation still syncs is asserted (observation.ts:44): LifecycleAsserts
\* says so of every pending timer.
SyncTimeout(k) ==
    /\ CanRun
    /\ k \in syncTimer /\ \A j \in syncTimer : k <= j
    /\ obsState[k] = "Syncing"
    /\ syncTimer' = syncTimer \ {k}
    /\ UNCHANGED <<active, halted, connected, cur, calls, peersDuringSync,
                   maxHit, crashed>>

\* startCrawlProcess without seeds nor top tier connections: rejected
SyncFailed(k) ==
    /\ SyncTimeout(k)
    /\ Seeds = {} /\ Tracked(active) = {}
    /\ SyncCompleted(k)
    /\ outcome' = [outcome EXCEPT ![k] = "rejected"]
    /\ UNCHANGED <<conn, stragglers, settling, queueVars, crawlState, crawled,
                   maxTimer, logVars>>

\* CrawlLogger.start: another interval, whatever loggingTimer was
StartLogging(k) ==
    /\ logging' = logging \cup {k}
    /\ logTimer' = k

\* CrawlLogger.stop: clears the interval of loggingTimer
StopLogging ==
    /\ logging' = logging \ {logTimer}
    /\ UNCHANGED logTimer

\* Variant of StartCrawlProcess that arms no max crawl timer.
StartCrawlProcessUntimed(k) ==
    /\ SyncTimeout(k)
    /\ Seeds # {} \/ Tracked(active) # {}
    /\ StartLogging(k)
    /\ crawlState' = [crawlState EXCEPT ![cur] = "CRAWLING"]
    /\ drain' = k
    /\ UNCHANGED <<maxTimer, running, callbacks, outcome>>

\* startCrawlProcess and setupCrawlCompletionHandlers, up to its last branch
StartCrawlProcess(k) ==
    /\ SyncTimeout(k)
    /\ Seeds # {} \/ Tracked(active) # {}
    /\ StartLogging(k)
    /\ crawlState' = [crawlState EXCEPT ![cur] = "CRAWLING"]
    /\ maxTimer' = k
    /\ drain' = k
    /\ UNCHANGED <<running, callbacks, outcome>>

\* ... with nodes to crawl: they are queued
StartCrawling(k) ==
    /\ StartCrawlProcess(k)
    /\ NodesToCrawl # {}
    /\ SyncCompleted(k)
    /\ CrawlPeerNodes(NodesToCrawl)
    /\ UNCHANGED <<conn, stragglers, settling>>

\* ... with none: the observation of the present crawl is stopped at once. That
\* of k, if it is another one, is not read again.
NothingToCrawl(k) ==
    /\ StartCrawlProcess(k)
    /\ NodesToCrawl = {}
    /\ StopObservation(conn, active,
                       [obs |-> cur, owner |-> k, then |-> "STOPPING"])
    /\ UNCHANGED <<queue, scheduled, crawled>>

-----------------------------------------------------------------------------
(* The crawl queue *)

\* The tasks of S get a worker and connect. Given the connections con, the
\* busy workers run and the callbacks cbs once those of S are registered.
StartTasks(con, run, S) ==
    /\ S # {} => obsState[cur] = "Synced"
    /\ conn' = Connecting(con, S)
    /\ queue' = queue \ S
    /\ running' = run \cup S

\* The first task to start finds the observation not Synced: the assertion
\* in NetworkObserver.connectToNode throws.
ConnectThrows(run, t) ==
    /\ obsState[cur] # "Synced"
    /\ \E S \in SUBSET queue : Startable(run, S) /\ t \in S
    /\ crashed' = TRUE
    /\ queue' = queue \ {t}
    /\ running' = run \cup {t}
    /\ callbacks' = Registered({t})

\* The scheduled run of process()
ProcessQueue(S) ==
    /\ ~crashed /\ settling = <<>> /\ scheduled
    /\ Startable(running, S)
    /\ scheduled' = FALSE
    /\ StartTasks(conn, running, S)
    /\ callbacks' = Registered(S)
    /\ UNCHANGED <<active, obsVars, drain, crawlVars>>

ProcessQueueThrows(t) ==
    /\ ~crashed /\ settling = <<>> /\ scheduled
    /\ scheduled' = FALSE
    /\ ConnectThrows(running, t)
    /\ UNCHANGED <<connVars, obsVars, drain, cur, calls, crawlState, crawled,
                   peersDuringSync, maxHit, outcome, maxTimer, syncTimer,
                   logVars>>

-----------------------------------------------------------------------------
(* Events of a connection *)

\* 'connect' of a blacklisted node
ConnectBlacklisted(c) ==
    /\ CanRun /\ conn[c] = "connecting" /\ Blacklisted(c)
    /\ conn' = Destroyed(conn, {c})
    /\ UNCHANGED <<active, obsVars, queueVars, crawlVars>>

\* 'connect' of another node
Connect(c) ==
    /\ CanRun /\ conn[c] = "connecting" /\ ~Blacklisted(c)
    /\ PeerConnected(cur, c)
    /\ UNCHANGED <<queueVars, crawlVars>>

\* 'error' or 'timeout'
Fail(c) ==
    /\ CanRun /\ conn[c] \in {"connecting", "open"}
    /\ conn' = Destroyed(conn, {c})
    /\ UNCHANGED <<active, obsVars, queueVars, crawlVars>>

\* 'data' with a peers message
PeersReceived(c, P) ==
    /\ CanRun /\ conn[c] = "open" /\ P # {}
    /\ IF crawlState[cur] = "TOP_TIER_SYNC"
       THEN /\ peersDuringSync' = [peersDuringSync EXCEPT ![cur] = @ \cup P]
            /\ UNCHANGED <<queue, scheduled, crawled>>
       ELSE /\ CrawlPeerNodes(P)
            /\ UNCHANGED peersDuringSync
    /\ UNCHANGED <<connVars, obsVars, running, callbacks, drain, cur, calls,
                   crawlState, maxHit, outcome, maxTimer, syncTimer, logVars,
                   crashed>>

\* 'data' with the externalize message that confirms a new ledger
LedgerClose(c) ==
    /\ CanRun /\ conn[c] = "open"
    /\ obsState[cur] = "Synced"
    /\ Len(stragglers) < MaxStragglers
    /\ LedgerCloseConfirmed(cur)
    /\ UNCHANGED <<connVars, queueVars, crawlVars>>

\* 'data' with a message that StellarMessageHandler refuses
InvalidData(c) ==
    /\ CanRun /\ conn[c] = "open"
    /\ conn' = DisconnectByAddress(conn, active, {c[2]})
    /\ UNCHANGED <<active, obsVars, queueVars, crawlVars>>

-----------------------------------------------------------------------------
(* 'close' of a connection: ConnectionManager, NetworkObserver, the crawl  *)
(* queue and, when it drains, the end of the crawl                         *)

ConnAfter(c) == Closed(conn, c)
ActiveAfter(c) == Removed(active, c)
RunningAfter(c) == running \ {<<cur, c[2]>>}

\* Variant of EndsTask: only peers that completed the handshake end a task.
EndsConnectedTask(c) == c[2] \in callbacks[cur] /\ active[c[2]] = c[1]

EndsTask(c) == c[2] \in callbacks[cur]

Close(c) ==
    /\ ~crashed
    /\ c \in Live(conn)
    /\ (settling = <<>> /\ ~scheduled) \/ conn[c] = "destroyed"
    /\ active' = ActiveAfter(c)
    /\ UNCHANGED <<cur, calls, crawled, peersDuringSync, maxHit, outcome,
                   maxTimer, syncTimer, logVars, scheduled, drain>>

\* No done callback for its address: nothing else happens
CloseOnly(c) ==
    /\ Close(c) /\ ~EndsTask(c)
    /\ conn' = ConnAfter(c)
    /\ UNCHANGED <<obsVars, queue, running, callbacks, crawlState, crashed>>

\* The task is done and the queue is not idle
CloseAndProcess(c, S) ==
    /\ Close(c) /\ EndsTask(c) /\ ~Idle(RunningAfter(c))
    /\ Startable(RunningAfter(c), S)
    /\ StartTasks(ConnAfter(c), RunningAfter(c), S)
    /\ callbacks' = Forgotten(Registered(S), cur, c[2])
    /\ UNCHANGED <<obsVars, crawlState, crashed>>

CloseAndThrow(c, t) ==
    /\ Close(c) /\ EndsTask(c)
    /\ ConnectThrows(RunningAfter(c), t)
    /\ conn' = ConnAfter(c)
    /\ UNCHANGED <<obsVars, crawlState>>

\* The task was the last one: the drain handler stops the observation
CloseAndDrain(c) ==
    /\ Close(c) /\ EndsTask(c) /\ Idle(RunningAfter(c))
    /\ running' = RunningAfter(c)
    /\ callbacks' = Forgotten(callbacks, cur, c[2])
    /\ crawlState' = [crawlState EXCEPT ![cur] = "STOPPING"]
    /\ StopObservation(ConnAfter(c), ActiveAfter(c),
                       [obs |-> cur, owner |-> drain, then |-> "IDLE"])
    /\ UNCHANGED <<queue, crashed>>

-----------------------------------------------------------------------------
(* Timers and the end of a crawl *)

ConsensusTimeout ==
    /\ CanRun /\ consensus # 0
    /\ NetworkHalted
    /\ UNCHANGED <<connVars, queueVars, crawlVars>>

\* The connections after the next straggler timer disconnected its addresses
ConnAfterStragglers ==
    DisconnectByAddress(conn, active, Head(stragglers).addrs)

StragglerTimeout ==
    /\ CanRun /\ stragglers # <<>> /\ Head(stragglers).done = NoDone
    /\ conn' = ConnAfterStragglers
    /\ stragglers' = Tail(stragglers)
    /\ UNCHANGED <<active, obsState, halted, connected, consensus, settling,
                   queueVars, crawlVars>>

\* ... of a timer that ends a stop
StopTimeout ==
    /\ CanRun /\ stragglers # <<>> /\ Head(stragglers).done # NoDone
    /\ LastNodesDisconnected(ConnAfterStragglers, active, Head(stragglers).done)
    /\ UNCHANGED <<active, halted, connected, consensus, queueVars, crawlVars>>

MaxCrawlTimeout ==
    /\ CanRun /\ maxTimer # 0
    /\ StopObservation(conn, active,
                       [obs |-> cur, owner |-> maxTimer, then |-> "IDLE"])
    /\ maxHit' = [maxHit EXCEPT ![cur] = TRUE]
    /\ maxTimer' = 0
    /\ UNCHANGED <<active, queueVars, cur, calls, crawlState, crawled,
                   peersDuringSync, outcome, syncTimer, logVars, crashed>>

\* resolve or reject of a promise: only the first call counts
Settled(k, result) ==
    [outcome EXCEPT ![k] = IF @ = "pending" THEN result ELSE @]

\* The continuation of stop(): finish, and what the caller of stop() does then
Finish ==
    LET d == Head(settling) IN
    /\ ~crashed /\ settling # <<>>
    /\ settling' = Tail(settling)
    /\ StopLogging
    /\ maxTimer' = 0
    /\ crawlState' = [crawlState EXCEPT ![cur] = d.then]
    /\ outcome' = Settled(d.owner, IF maxHit[cur] THEN "rejected" ELSE "resolved")
    /\ UNCHANGED <<connVars, obsState, halted, connected, stragglers, consensus,
                   queueVars, cur, calls, crawled, peersDuringSync, maxHit,
                   syncTimer, crashed>>

-----------------------------------------------------------------------------

Next ==
    \/ StartCrawl
    \/ RefuseCrawl
    \/ \E k \in Call : SyncFailed(k) \/ StartCrawling(k) \/ NothingToCrawl(k)
    \/ \E S \in SUBSET queue : ProcessQueue(S)
    \/ \E t \in queue : ProcessQueueThrows(t)
    \/ \E c \in Conn : ConnectBlacklisted(c) \/ Connect(c) \/ Fail(c)
    \/ \E c \in Conn, P \in SUBSET Addr : PeersReceived(c, P)
    \/ \E c \in Conn : LedgerClose(c) \/ InvalidData(c)
    \/ \E c \in Conn : CloseOnly(c) \/ CloseAndDrain(c)
    \/ \E c \in Conn, S \in SUBSET queue : CloseAndProcess(c, S)
    \/ \E c \in Conn, t \in queue : CloseAndThrow(c, t)
    \/ ConsensusTimeout
    \/ StragglerTimeout
    \/ StopTimeout
    \/ MaxCrawlTimeout
    \/ Finish

Spec == Init /\ [][Next]_vars

-----------------------------------------------------------------------------
(* Properties *)

\* Every variable keeps to the values its TypeScript counterpart can take.
TypeOK == ConnTypeOK /\ ObsTypeOK /\ QueueTypeOK /\ CrawlTypeOK

\* "How many (non-top tier) peer connections can be open at the same time"
\* (crawler-configuration.ts:8): connections outside the top tier, from
\* connectTo to 'close', never outnumber the workers of the crawl queue.
OpenConnectionsBounded ==
    Cardinality({c \in Live(conn) : c[2] \notin TopTier}) <= MaxOpen

\* A worker is never lost: the connection of a running task still exists and
\* the done callback that frees the worker is registered under its address
\* (crawl-queue-manager.ts).
TaskEndsWithItsConnection ==
    ~crashed => \A t \in running :
                    t \in Live(conn) /\ t[2] \in callbacks[t[1]]

\* A worker that an event will free: the connection of its task exists and the
\* 'close' of it finds the done callback in the map of the present crawl.
WorkerIsFreed(t) ==
    t[1] = cur /\ t \in Live(conn) /\ t[2] \in callbacks[cur]

\* A crawl that is crawling ends (crawler.ts:119). If it ever queued a task, the
\* drain event is still to come: every worker is freed, and there is one to be
\* freed or a run of process() that starts one. If it queued none there is
\* nothing to drain: the max crawl timer runs, or the observation is stopped.
CrawlWillEnd ==
    cur # 0 /\ ~crashed /\ crawlState[cur] = "CRAWLING" =>
        IF crawled[cur] # {}
        THEN /\ \A t \in running : WorkerIsFreed(t)
             /\ running # {} \/ (queue # {} /\ scheduled)
        ELSE maxTimer = cur \/ obsState[cur] = "Stopping" \/ settling # <<>>

\* A synced observation either knows the network is halted or has the
\* consensus timer running that will find it out (observation-manager.ts).
HaltIsWatched ==
    cur # 0 /\ obsState[cur] = "Synced" => consensus = cur \/ halted[cur]

\* activeConnections holds exactly what it should: an open connection is the
\* entry of its address, and an entry is never a connection that is closed.
ActiveConnectionsExact ==
    /\ \A c \in Conn : conn[c] = "open" => active[c[2]] = c[1]
    /\ \A c \in TrackedConns(active, Addr) : conn[c] \in {"open", "destroyed"}

\* The open connections the observation must get rid of: all of them once it
\* stops, those outside the top tier when the network is halted.
MustLeave(c) ==
    /\ conn[c] = "open"
    /\ \/ obsState[cur] = "Stopping"
       \/ obsState[cur] = "Synced" /\ halted[cur] /\ c[2] \notin TopTier

\* No open connection that must leave is forgotten by the straggler timers.
StragglersCovered ==
    cur # 0 /\ ~crashed => \A c \in Conn : MustLeave(c) =>
        \E i \in 1 .. Len(stragglers) : c[2] \in stragglers[i].addrs

\* A stop that began ends: the observation that is stopping has a straggler
\* timer pending that carries the end of the stop.
StopWillEnd ==
    cur # 0 /\ obsState[cur] = "Stopping" =>
        \E i \in 1 .. Len(stragglers) : stragglers[i].done.obs = cur

\* The assertions of Observation (observation.ts:38-56) hold whenever a timer
\* or a continuation that leads to one can fire: a sync completes only an
\* observation that syncs, a stop only one that is stopping, and no max crawl
\* timer outlives its crawl.
LifecycleAsserts ==
    /\ \A k \in syncTimer : obsState[k] = "Syncing"
    /\ \A i \in 1 .. Len(stragglers) : LET d == stragglers[i].done IN
          d # NoDone => obsState[d.obs] = "Stopping"
    /\ maxTimer # 0 => crawlState[maxTimer] # "IDLE"

\* A crawl whose result the caller has left nothing running: its max crawl
\* timer (crawler.ts:158), its log interval (crawl-logger.ts:47) and the
\* consensus timer of its observation (observation-manager.ts:71) are all off,
\* whatever stop of whatever crawl ended last.
SettledIsQuiet ==
    \A k \in Call : outcome[k] = "resolved" =>
        maxTimer # k /\ consensus # k /\ k \notin logging

\* Nothing a crawl was told of is lost: once it crawls, every seed and every
\* address received during the top tier sync has become a crawl task
\* (crawler.ts:93), unless it is a top tier address.
DiscoveredIsCrawled ==
    cur # 0 /\ crawlState[cur] = "CRAWLING" =>
        (Seeds \cup peersDuringSync[cur]) \ TopTier \subseteq crawled[cur]

-----------------------------------------------------------------------------
(* What the documentation says and the code does not keep *)

\* "assert(this.observation.state === ObservationState.Synced)"
\* (network-observer.ts:37): the crawler connects to nodes only while synced.
ConnectsOnlyWhileSynced == ~crashed

\* "STOPPED: ... No more state changes are allowed" (src/README.md:27).
StoppedIsFinal ==
    [][\A k \in Call : obsState[k] = "Stopped" => obsState'[k] = "Stopped"]_vars

\* "Crawl process already running" (crawler.ts:43): while the promise of a call
\* is pending, no other crawl is started.
OneCrawlAtATime == Cardinality({k \in Call : outcome[k] = "pending"}) <= 1

\* "Crawl process already running" (crawler.ts:43): a call is refused for a crawl
\* that runs, one whose caller still waits for its result.
RefusedOnlyWhileRunning ==
    [][\A k \in Call : outcome[k] # "refused" /\ outcome'[k] = "refused" =>
           \E j \in Call : outcome[j] = "pending"]_vars

\* "When the straggler timer expires, the node is disconnected." (README.md:39 of
\* src/): no connection to one of its addresses is open then.
StragglersAreDisconnected ==
    [][stragglers # <<>> /\ (StragglerTimeout \/ StopTimeout) =>
           \A c \in Conn : c[2] \in Head(stragglers).addrs => conn'[c] # "open"]_vars

-----------------------------------------------------------------------------
(* The crawl of one call implements a crawl session *)

AddressesOf(T) == {a \in Addr : <<1, a>> \in T}

Session == INSTANCE CrawlSession WITH
    Slots <- MaxOpen,
    waiting <- AddressesOf(queue),
    visiting <- AddressesOf(running),
    visited <- crawled[1] \ AddressesOf(queue \cup running),
    result <- outcome[1]

\* Each address at most once, at most MaxOpen at a time, and a result only
\* when everything discovered was visited (crawler.ts, crawl-queue.ts).
ImplementsSession == Session!Spec

-----------------------------------------------------------------------------
(* The observation of one call is the one the message handlers work for *)

\* Message handlers do not see a connection before its handshake, nor one that
\* was destroyed before.
Seen(c) == conn[c] = "open" \/ (conn[c] = "destroyed" /\ active[c[2]] = c[1])

Life == INSTANCE ObservationLife WITH
    conn <- [c \in Conn |-> IF Seen(c) \/ conn[c] = "closed" THEN conn[c] ELSE "none"],
    phase <- CASE obsState[1] \in {"Idle", "Syncing"} -> "Syncing"
               [] obsState[1] = "Synced" -> "Synced"
               [] OTHER -> "Stopping",
    joined <- connected[1]

\* What StellarMessages takes for granted of connections and of the state of
\* the observation holds in the crawl of call 1 (network-observer.ts:55,
\* on-peer-data.ts), the one that the mapping is of.
ImplementsLife == Life!LifeSpec

-----------------------------------------------------------------------------
(* Liveness *)

CloseAny(c) ==
    \/ CloseOnly(c) \/ CloseAndDrain(c)
    \/ \E S \in SUBSET queue : CloseAndProcess(c, S)
    \/ \E t \in queue : CloseAndThrow(c, t)

\* A connection attempt ends: the library connects, fails or times out.
AttemptEnds(c) ==
    conn[c] = "connecting"
    /\ (Connect(c) \/ ConnectBlacklisted(c) \/ Fail(c) \/ CloseAny(c))

DestroyedCloses(c) == conn[c] = "destroyed" /\ CloseAny(c)

\* The consensus timer fires unless it is restarted first.
ConsensusGoesOn ==
    ConsensusTimeout \/ (consensus # 0 /\ \E c \in Conn : LedgerClose(c))

\* What the event loop and the connection library guarantee. Nothing is
\* assumed of open connections, of messages, or of the max crawl timer.
Fairness ==
    /\ \A k \in Call :
          WF_vars(SyncFailed(k) \/ StartCrawling(k) \/ NothingToCrawl(k))
    /\ WF_vars(\/ \E S \in SUBSET queue : ProcessQueue(S)
               \/ \E t \in queue : ProcessQueueThrows(t))
    /\ \A c \in Conn : WF_vars(AttemptEnds(c)) /\ WF_vars(DestroyedCloses(c))
    /\ WF_vars(ConsensusGoesOn)
    /\ WF_vars(StragglerTimeout \/ StopTimeout)
    /\ WF_vars(Finish)

FairSpec == Spec /\ Fairness

\* A crawl ends by itself: the promise of startCrawl settles without the help
\* of the max crawl timer, whatever peers do with their connections
\* ("Safety guard in case crawler is stuck", crawler-configuration.ts:9). Only a
\* crawl that never queues a task may depend on it (crawler.ts:119).
CrawlSettles ==
    \A k \in Call :
        outcome[k] = "pending" ~>
            \/ outcome[k] # "pending" \/ crashed
            \/ [](crawlState[k] = "CRAWLING" /\ crawled[k] = {})

\* No peer outside the top tier is kept: once it is connected, a ledger that
\* closes, the halt of the network or the stop of the observation gets rid of
\* it (observation-manager.ts:39, :55). After the max crawl time the observation
\* may be stopped before the peer connects, and nobody is left to end it.
EveryPeerLeaves ==
    \A c \in Call \X (Addr \ TopTier) :
        conn[c] = "open" ~> conn[c] # "open" \/ crashed \/ maxHit[c[1]]
=============================================================================

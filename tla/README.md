# A formal model of the PiNode crawler

The crawler (`src/src/`) connects to the nodes of a Stellar-like network, asks
them for their peers, connects to those, and meanwhile observes which nodes
validate. It is one Node.js process: everything runs on one event loop, and all
concurrency is the order in which events (connection callbacks, messages,
timers, promise continuations and other microtasks) are handled. That order is what this
project is about. The modules are TLA+; TLC checks them on small instances,
TLAPS proves every invariant and all three refinements for all instances.

## The system

| part | state it keeps | operations |
|---|---|---|
| `Crawler`, `Crawl` (`crawler.ts`, `crawl.ts`) | `this.crawl` with its state (IDLE, TOP_TIER_SYNC, CRAWLING, STOPPING), the crawled addresses, the addresses received during the sync, `maxCrawlTimeHit`, the observation | `startCrawl`, the two listeners (peer addresses received, connection closed), `onDrain`, `onMaxCrawlTime`, `finish` |
| `CrawlQueueManager`, `AsyncCrawlQueue` (`crawl-queue-manager.ts`, `crawl-queue.ts`) | the queue of the `async` library with `maxOpenConnections` workers; per crawl the done callback of each running task, by address | `addCrawlTask`, `performCrawlQueueTask`, `completeCrawlQueueTask`, `onDrain` |
| `MaxCrawlTimeManager` | one timer | `setTimer`, `clearTimer` |
| `NetworkObserver` (`network-observer.ts`) | none of its own | `startObservation`, `connectToNode`, `stop`, the wiring of the events of the connection manager |
| `ObservationManager`, `Observation` | the state of the observation (Idle, Syncing, Synced, Stopping, Stopped), `networkHalted`, the latest closed ledger | `startSync`, `syncCompleted`, `ledgerCloseConfirmed`, `onNetworkHalted`, `stopObservation`, `onLastNodesDisconnected` |
| `StragglerTimer`, `ConsensusTimer` | a set of timers of one duration; one timer | start, stop, fire |
| `ConnectionManager` | `activeConnections`, by address | `connectToNode`, the listeners for connect, data, error, timeout and close, `disconnectByAddress`, `shutdown` |
| `PeerEventHandler` (`on-peer-connected.ts`, `on-peer-data.ts`, `on-peer-connection-closed.ts`) | none | what a connection event means to the observation |
| `QuorumSetManager` | owners of each hash, nodes asked, hashes in progress, requests | ask owners, then anybody, for each unknown quorum set; timeouts |
| `ScpEnvelopeHandler`, `ScpStatementHandler`, `ExternalizeStatementHandler`, `Slots` | the envelope cache, per slot the nodes that externalized each value and the closed ledger | filter envelopes, confirm ledgers |
| `PeerNode`, `PeerNodeCollection` | what is known of each public key | flags, externalized values, lag |
| `StellarMessageHandler` | none | one handler per kind of message |
| `CrawlLogger` | the log interval and its handle | `start`, `stop` |

How they interact: `startCrawl` starts an observation (connections to the top
tier, then a timer), and when the sync is over it queues addresses; the queue
starts tasks, each of which makes a connection and holds a worker until *that
connection's* `close` event comes back through ConnectionManager,
NetworkObserver and Crawler; the same call stack frees the worker, starts other
tasks, or, when the queue drains, stops the observation; stopping waits for a
straggler timer and then closes everything; the promise of `stop()` resolves,
and its continuation finishes the crawl. The max crawl timer starts the same
chain from the other end. All of it reaches the present crawl through
`this.crawl`, whichever crawl the event came from.

Hard behaviours: two independent ends of a crawl (drain and timer) that can
overlap; connections in progress that complete after the observation stopped;
timers that outlive the crawl that armed them; a worker that can only be freed
by an event of a connection; peers that connect after the timer that would
disconnect them was armed; a reused public key; a second `startCrawl` that meets
connections, tasks and timers of the first. `hazards` in `PROJECT.json` lists
them at their lines.


## What makes each part correct

| part | what should hold |
|---|---|
| Crawl queue | the connections outside the top tier never outnumber the workers; a worker is freed exactly by the end of its connection; the end of a crawl that is crawling is still to come |
| Crawler | every address it was told of is crawled once; a crawl settles; one crawl at a time, and none is refused without one; a resolved crawl is idle |
| Observation, its timers | a state never moves against the assertions of `Observation`; a stop that began ends; a halted network is noticed; every peer that must leave has a straggler timer, and is disconnected by it |
| Connections | `activeConnections` holds exactly the open connections |
| Quorum sets | a hash is requested from one node at a time, and from all of them in turn; a known quorum set reaches the nodes that announced it, and a node has that of its last announcement |
| Slots, externalize statements | ledgers close in order; the cache drops nothing that still counts; honest nodes are not reported; every node gets its verdict, and a lag that is measured once |

## The modules

```
ConnectionManager --+-- ObservationManager --+
                    +-- CrawlQueue ----------+-- Crawler -- MCCrawler
                    |                              |  |
                    |          CrawlSession  <-----+  |  (refinement)
                    +-- ObservationLife <-------------+  (refinement)
                          `-- PeerNodes -- QuorumSetManager --+
                                  `------- Slots -------------+-- StellarMessages -- MCMessages
                                                LedgerChain  <------'  (refinement)

proofs:  Crawler -- CrawlerProofs -- BoundProofs -- FirstCrawlProofs --+-- LifeProofs
                                                                       `-- SessionProofs
         StellarMessages -- MessageProofs --+-- LedgerProofs
                                            `-- RequestProofs
```

### The crawl

**`ConnectionManager`**: `conn` is the state of each connection, `active` is
`activeConnections`. A connection is named by (startCrawl call, address): one
call connects to an address at most once. `destroy()` is answered by a later
`close` event, and a remote end may close at any time: those are the
connections of js-stellar-node-connector, marked external in `map`.

**`ObservationManager`**: the observation states, `networkHalted`, the addresses
that connected (a node is refused when the key it presents is that of one of them), and the two timers. All straggler timers have one duration, so they
fire in the order they were started: `stragglers` is a sequence. A timer that
ends a stop carries its done callback as data: the observation it belongs to,
the call whose promise follows, and the crawl state the caller of `stop()`
leaves behind. `settling` holds the stops whose promise is resolved and whose
continuation has yet to run. A variable that the crawler reads through
`this.crawl` is indexed by `cur` in the actions, as in the code, not by the call
the event came from: several of the findings below come from that difference.

**`CrawlQueue`**: the tasks that wait and run, the done callbacks per crawl, and
the scheduling of the `async` library: `push` schedules one run of `process()`
as a microtask (version 3.2.6, `pnpm-lock.yaml:594`), a done callback frees the worker, calls the drain handler when the queue is
idle, and processes. Which waiting task starts first is left open, which covers
the library's order.

**`Crawler`** composes them; one action is one event handler with everything it
calls synchronously. `Close` for instance is the `close` listener of
ConnectionManager, OnPeerConnectionClosed, the crawler's disconnect handler and
`completeCrawlQueueTask`; its four forms are the ways the call stack goes on:
nothing to complete, other tasks start, a started task hits the assertion of
`connectToNode`, the queue drains and the observation is stopped.
The guards keep the order of the event loop: the continuations of resolved
promises (`settling`) and the scheduled run of `process()` (`scheduled`) are
microtasks, which run before the next event (`CanRun`); only the `close` of a
destroyed connection, which is emitted from `process.nextTick`, may come before
them. Timers of one duration fire in the order
they were started (straggler timers, the timeouts of the syncs); timers of
different durations are not ordered. An exception thrown out of an event handler
ends the process: `crashed`.

`logging` and `logTimer` are the intervals of CrawlLogger that run and the one its
handle refers to: `start` overwrites the handle, `stop` clears what it holds.

**`CrawlSession`** is what a crawl promises its caller, without connections,
observation or timers: discovered addresses are visited, each once and at most
`maxOpenConnections` at a time, and the promise is resolved only when all of
them were. `Crawler!ImplementsSession` is the refinement, with the mapping:
waiting is the queue, visiting the running tasks, visited the crawled addresses
that neither wait nor run.

### Where they meet

Message handlers depend on the crawl through two things: which connections
deliver messages and which one is the entry of an address, and the state of the
observation. **`ObservationLife`** says how those change, and nothing of why: a
connection arrives (or is refused for a key that connected before), is
disconnected, leaves; the observation moves on and never back. `StellarMessages` takes its
environment from this module, so that what TLC finds about it holds for every
order of events, whatever queue and timers do. `Crawler!ImplementsLife` is the
refinement: the connections and the observation of a crawl, seen from its message
handlers, are those of `ObservationLife`. The mapping hides a connection until
its handshake, and takes Stopping and Stopped for one state, since handlers only
ask for Synced (`on-peer-data.ts:60`).

### The messages

**`PeerNodes`**: what an observation knows per public key: the flags, the
externalized values, the verdicts and the lag. **`Slots`**: the nodes per
value, the first time a value was seen, and the value a slot closed with; the
trusted quorum set and `containsSlice` (external) are given by the sets of
validators that satisfy it. **`QuorumSetManager`**: owners, nodes asked, hashes
in progress, requests and timeouts; `KnownQuorumSets` are those an earlier crawl
hands over (`createCrawl`). The map `quorumSetRequests` has strings as
keys and is filled under addresses (line 144) but looked up under public keys
(lines 27, 90, 256): `requests` has both kinds of keys and `timers` is kept
apart, since replacing an entry leaves its timer running.

**`StellarMessages`** composes them: one action per kind of message (peers, load
too high, quorum set, a quorum set that cannot be parsed, don't have) and, for SCP
messages, one per way through the envelope path: an envelope is
looked up in the cache and enters it, then its ledger is validated, then its
signature, then its statement is processed (quorum set first, externalize
after). Only SCP messages need a synced observation; the others, and the
timeouts of requests, are handled in every state. The LRU cache of 5000 envelopes
is a sequence of at most `CacheMax`
entries, oldest first: a repeated envelope is not refreshed, since `has` does
not touch it. It knows an envelope by the text of its signature alone
(`scp-envelope-handler.ts:74`), which is the `id` of an envelope: two envelopes
may carry one signature, which belongs to one of them at most. Time is a bounded clock; `ExternalizeCounted` may read it a second
time later than its first reading, as `attemptSlotCloseConfirmation` makes a
`new Date()` of its own. `aged` stands for the comparison of the latest ledger's
close time with the processing limit: it may become true at any time, and a
ledger may already be old when it closes. `KnownLedger` and `KnownIsAged` are the
latest ledger the crawl is given. The error of a refused message is answered by
disconnecting the sender.

**`LedgerChain`** is what the slots promise: nodes vote, a slot gets the value of
the vote that completes a slice, slots get values in order, and none gets two. The
envelopes, the cache, the drift and the peers are not in it.
`StellarMessages!ImplementsChain` is the refinement; a vote is an entry of a
slot's `valuesMap`.

`MCCrawler` and `MCMessages` hold the key assignments, quorum sets and envelopes
of the instances. Operators called a "Variant of" another show what a mistake in
the code would look like, and which property notices it; no specification uses
them.

## What is checked

| run | instance | shows |
|---|---|---|
| `crawl` | one top tier node, three peers (two with one public key, one blacklisted), two workers, one call | the bookkeeping of workers, connections and timers; the end of a crawl is still to come (`CrawlWillEnd`); the refinement of `CrawlSession` |
| `no_seeds` | the same nodes, no seeds, one worker, under `FairSpec` | a crawl that lives off the peers received during the sync, is stopped at once, or is rejected, or crawls without a task because it heard of the top tier only, with the max crawl timer left to end it; `DiscoveredIsCrawled`; the promise of `startCrawl` settles without that timer once a task was queued, and no peer is kept connected; the refinements of `CrawlSession` and of `ObservationLife` |
| `two_crawls` | one top tier node, one peer, two calls | what survives the connections, tasks and timers an earlier crawl left: the connection bound, the consensus watch and the assertions of `Observation`; a resolved crawl left no timer or interval running |
| `ledgers` | three nodes, two of them honest, slices {p} and {q, r}, three slots (the first closed before the crawl), two values, a message with the signature of another | ledgers close in order and the slots implement `LedgerChain`, the envelope cache drops no vote as a duplicate that was not counted unless its signature came with another statement, honest nodes are not reported, verdicts are complete, who validates participates, nobody is ahead of the first |
| `quorum_sets` | two nodes that connect and leave, two hashes, one node announcing both in any order, under `FairSpec` | sequential requests, known quorum sets reach nodes that announced them, all connected nodes are asked in turn, requests run out |

Seven more runs each show one statement of the repository that the code does not
keep (next section).

Bounds. `MaxCalls` is how often the application calls `startCrawl`. In one call
an address is connected to once, so that one or two peers give every order of
two connections and the third a task that waits behind two workers.
`MaxStragglers` only stops further ledgers from closing while that many
straggler timers are pending (each close starts one); no other action is
limited by it, and one or two are enough for a timer that is overtaken by
another. `LastSlot` is three so that a ledger can be refused for drift
(`MaxDrift` 1) and for being older than the latest; `MaxTime` 2 lets a lag be
smaller than the slack of the two clock readings; `CacheMax` 1 makes every
repetition come back after another envelope. `Sent` is the kinds of messages an
instance sends: `ledgers` has those that concern ledgers and flags, `quorum_sets`
those that concern quorum sets, since SCP messages are what they share.
`ledgers` is given a recent ledger and the quorum set its envelopes announce,
`quorum_sets` an old ledger and no quorum set. Deadlock is not checked: the system
ends, when the bounds on calls, slots and connections are reached.

Fairness. A timer that is armed fires, the scheduled run of the queue and a
continuation run, a connection attempt ends (connected, failed or timed out by the library), and a
destroyed connection closes. The consensus timer may be re-armed for ever by
ledgers, hence `ConsensusGoesOn`; since pending straggler timers limit
ledgers, the ledgers that close are as many as peers are being disconnected,
and they too disconnect the active peers. Nothing is assumed of open
connections, of messages, or of the max crawl timer. `CrawlSettles` excepts the
crash of `connect_asserts`. `EveryPeerLeaves` excepts a crawl
whose max crawl time was hit: a connection that opens after the observation
stopped gets a timer only if the network is halted; otherwise nothing ends it. For the messages only the timeouts of
requests are fair; `RequestsRunOut` needs no answer from anyone.

What the runs do not promise. `TaskEndsWithItsConnection` and
`ActiveConnectionsExact` are checked for one call: a connection in progress when
the max crawl time ends the first call breaks them in the second (its callback
is in the map of the earlier crawl; its `close` removes the entry of the address
whichever connection holds it). The connection bound survives this.
`SettledIsQuiet` is checked for two calls. With a third, started as in
`stale_stop` while the second still syncs, the log interval of the second loses
its handle (its promise is still pending then); with a third,
`LifecycleAsserts` fails too: the stop of the first made the second IDLE before the
end of its sync arms its max crawl timer. A reused key does not occur in `ledgers`
and `quorum_sets`, whose nodes have a key of their own; the crawl runs have one.
`DuplicateIsCounted` is about ledgers only: an old message dropped into the cache
can still cost a node its verdict, which nothing promises. It excepts a vote whose
signature came with another statement. Without the exception TLC finds it violated:
such an envelope enters the cache, is refused for its signature, and the genuine
vote, which carries the same signature, is then taken for a duplicate until the
cache forgets it. No line of the repository promises otherwise, so that this is
not among the runs below.
`KnownReachesItsNodes` says that a node has a known quorum set it announced
itself; that it is the last one is `QuorumSetIsCorrect`, which does not hold.
`CrawlSettles` excepts a crawl that never queues a task: it depends on its max crawl
timer, whose firing is not assumed. `CrawlWillEnd` says that this crawl has one.
The sync of an observation is completed only while it syncs, where the code asserts
it (`observation.ts:44`); that no timer can fail this assertion is part of
`LifecycleAsserts`.

## Where the code and its documentation part

| run | property | what happens |
|---|---|---|
| `connect_asserts` | `ConnectsOnlyWhileSynced` | a peers message after the queue drained, or a task left when the max crawl time is hit, makes `connectToNode` throw at its assertion (`network-observer.ts:37`) in a handler nothing guards |
| `stopped_final` | `StoppedIsFinal` | a connection that closes after the max crawl time drains the queue, and the drain handler moves the stopped observation back to stopping (`observation.ts:48`) |
| `stale_stop` | `OneCrawlAtATime` | a straggler timer left by a rejected crawl finishes the next one |
| `refused_idle` | `RefusedOnlyWhileRunning` | a crawl rejected for "No nodes to crawl and top tier connections failed" stays in TOP_TIER_SYNC (`crawler.ts:104`), and all later calls are refused although none runs |
| `straggler_misses` | `StragglersAreDisconnected` | a connection that opens after its crawl ended, with the network halted, has a straggler timer; the next crawl connects to the address and overwrites the entry (`connection-manager.ts:70`), the timer disconnects the newer connection, and the first stays open in no map |
| `stale_quorum_set` | `QuorumSetIsCorrect` | owners of a hash are never removed: a late quorum set overwrites the one of the newer hash (`quorum-set-manager.ts:78`) |
| `lag_replayed` | `LagIsKept` | the branch for closed slots precedes the guard against replays, and the lag is measured again |

Seen while modelling, in the model, and without a run of their own:

- With no nodes to crawl and a connected top tier, the state is set to STOPPING after
  `finish` made it IDLE (`crawler.ts:117`): the crawl has resolved, and later calls
  are refused. `RefusedOnlyWhileRunning` fails here too; the trace of `refused_idle` is
  the shorter one of the rejected crawl, and with that path repaired TLC finds this
  one.
- If all nodes to crawl are top tier nodes, no task is queued and nothing drains
  (`crawler.ts:119`); only the max crawl timer ends the crawl, with an error.
  `CrawlWillEnd` names this case, and `no_seeds` reaches it.
- Connections in progress when the observation stops still open
  (`connection-manager.ts:170`), while `src/README.md:27` says that no more
  connections are made; the code asks the question itself in a comment.
- A top tier node that connects while the network is halted gets a straggler timer
  like any other node (`on-peer-connected.ts:24`) and is disconnected even if
  ledgers close again meanwhile, while `src/README.md:12` says that connections
  to the top tier are maintained.
- A disconnected node, an answer and a "dont have" never clear a request
  (`quorum-set-manager.ts:144` against 27, 90, 256): the timeout does.

## What is proved

Eight modules hold the theorems TLAPS checks. They hold for every set of
addresses, public keys, seeds and top tier, every number of calls, workers,
slots, nodes, values, hashes and envelopes and every size of the cache, under the
assumptions named in the modules. Of these, `ConnectionAssumption` (finitely many
addresses, at least one call, every address presents a key),
`TopTierAssumption`, `MaxOpenAssumption` and `CrawlerAssumption` only say what
the parameters are, as do `PeerNodesAssumption`, `QuorumSetAssumption` (an
address is no public key), `SlicesAssumption` (no slice is empty) and
`EnvelopeAssumption`. Two are about the world: `SignatureAssumption` (a signature
is valid for one statement) and `HonestAssumption` (each slice has an honest node,
and honest nodes sign the same value for a slot).

### Over any number of crawls

- `TypeCorrect`: `TypeOK` alone is not inductive: a handler
  indexes by `this.crawl`, which is 0 before the first call. The invariant
  `TypeInv` adds `NotStarted`: without a crawl there is no connection, task or
  sync timer, so an event always finds a crawl to belong to. The proof has
  one lemma per state transformer of the components and one step per action.
- `ConnectionsBounded`, over any number of
  crawls with everything they leave behind. The bound is not inductive, since
  connections are counted and workers are freed: `BoundInv` adds that a waiting task
  has no connection and no worker (`WaitingIsNew`), that tasks are never for the top
  tier (`TasksOfPeers`), that a task or a connection outside the top tier was
  recorded as crawled first, so that it is never queued again (`CrawledFirst`),
  and that the live connections outside the top tier are at most as many as the
  running tasks, of which there are at most `MaxOpen` (`WorkersCount`). Which
  worker belongs to which connection need not be known, and cannot be: `close`
  frees the worker found under the address in the present crawl, even when
  another crawl opened the connection. It is enough that a close ends one
  connection and frees at most one worker.
- `NothingDiscoveredIsLost`: `DiscoveredIsCrawled`, which is inductive with
  `TypeInv`.
- `HaltWillBeSeen`: `HaltIsWatched`. There is one consensus timer, and the sync
  of an earlier call could take it from the present crawl. `SyncsInOrder` says why
  none does: sync timers fire in the order of the calls, so that as long as one is
  pending, that of the present crawl is too, and its observation is not synced.

### In the first crawl

The other properties of the crawler speak of one crawl, and are theorems of the
form `Spec => [](cur <= 1 => P)`: they hold until a second crawl is really
started, whatever number of calls is refused before. `MaxCalls` is any number,
and with `MaxCalls = 1`, as in `crawl` and `no_seeds`, the condition is always
true. It is needed: TLC finds counterexamples with two calls
(`TaskEndsWithItsConnection`, `CrawlWillEnd`, `ActiveConnectionsExact`,
`StragglersCovered`, `StopWillEnd`) or three (`LifecycleAsserts`), since later
crawls share connections, queue, timers and handles with what the crawls before
them left. For
`SettledIsQuiet` it is the reach of this proof: no counterexample is known.

The inductive invariant is `FirstInv` of `FirstCrawlProofs`: `BoundInv`, and for
`cur <= 1` a conjunction with one part per question, each with its own step lemma:

| part | says | is needed because |
|---|---|---|
| `OneCrawl` | every connection, task, timer and promise belongs to call 1 | the code reads `this.crawl`, whichever crawl an event came from |
| `Beginning` | before the sync is over there are no tasks, timers or stops | so the end of the sync finds a clean slate |
| `Ending` | timers, log interval and promise follow the state of the observation | `SettledIsQuiet` |
| `StopTimers` | timers that end a stop are pending exactly while it goes on | `StopWillEnd`, `LifecycleAsserts`: a second stop only adds such timers, and the first that fires clears all |
| `Entries` | `activeConnections` is the set of open connections, give or take destroyed ones | a straggler timer finds its connections by address |
| `Busy` | a busy worker has a live connection and a callback | `TaskEndsWithItsConnection` |
| `Working` | what waits is taken up by a worker that gets free or by `process()`; a crawl that queued a task has one until the drain | `CrawlWillEnd`: the queue cannot fall asleep between a push and the close of the last connection |
| `Timed` | a crawl that queued no task has its max crawl timer or a stop | `CrawlWillEnd`, where there is nothing to drain |
| `Covered` | a peer that must leave is in a straggler timer | new peers, ledgers, halts and stops each start timers of their own, `NewStragglers` and `SameStragglers` say what they cover |

`CrawlEnds` is the theorem for `CrawlWillEnd`, from `Busy`, `Working` and `Timed`. In a
second crawl it fails: a worker whose callback is in the map of the first crawl is
never freed, and the drain never comes.

Timers fire in the order of a sequence, but the parts only speak of the set of
pending ones (`TimersOf`), whose changes two lemmas give.

- `CrawlImplementsLife` (`LifeProofs`): `Spec /\ [](cur <= 1) => ImplementsLife`,
  from `FirstInv`. `LifeActions` states the actions of `ObservationLife` over the
  mapped state, and `LifeStep` maps every action to one of them or to a stutter; the
  mapping needs `Entries` (a destroyed connection was seen exactly if it is the
  entry of its address).
- `CrawlImplementsSession` (`SessionProofs`): `Spec /\ [](cur <= 1) =>
  ImplementsSession`. That the promise is resolved only when everything was visited
  is not inductive: the promise settles in the continuation of a stop, long after the
  queue drained, and peers may still send addresses. `SessionInv` adds to
  `FirstInv` that an observation that stops before the max crawl time has no
  running task, and either no waiting one or a scheduled run of `process()`
  (`StoppedIsDone`). That run comes before the timer that ends the stop and throws
  if there are tasks (`connect_asserts`), so that a stop which ended has none
  (`SettlingIsDone`). `CallbacksRun` (a callback belongs to a busy worker) makes
  `close` end a visit once.

### The messages

- `HandlersKeepToLife` (`MessageProofs`): `Spec => LifeSpec`: the handlers change the
  connections and the observation only as `ObservationLife` allows. With
  `CrawlImplementsLife` this is the composition: what is proved of the messages
  holds for the connections and the observation of a first crawl.
- `MessageTypeCorrect`: `TypeOK` needs `TimesKnown`: the time a value was first seen is
  known for every value a slot closed or counted, otherwise a lag would be
  computed from a missing one.
- `LedgerProofs`: all ledger properties come from one invariant `LedgerInv`. What
  a slot counted and a node externalized was signed (`SaidBySigned`); a closed slot has
  a slice for its value (`ClosedBySlice`), and an open one that may still close has
  none (`OpenUndecided`), so that ledgers close with the vote that completes a slice;
  what a node said last for such a slot is counted (`LastCounts`); times are not
  before the first time of their value, up to one clock reading
  (`FirstComesFirst`); whoever voted participates (`VotersParticipate`).
  `HonestNeverBlamed` follows because the slice of a closed value has an
  honest node, which signed that value, and all honest nodes sign the same.
  `LedgersInOrder` needs that the latest ledger is the last slot that closed
  (`LatestIsLast`), and `DuplicatesWereCounted` that each well signed vote in the
  cache was counted if its slot may still close (`CachedIsCounted`); by
  `SignatureAssumption` an envelope with the signature of a well signed one in the
  cache is that one, or is badly signed itself.
  `EveryVerdictGiven`, `LagsFromTheFirst` and `ValidatorsReported` are the other
  invariants, and `SlotsImplementChain` the refinement of `LedgerChain`, in which an externalize
  statement that counts is a `Vote` and everything else a stutter.
- `RequestProofs`: `RequestsInSequence` needs `NoRequestOfKey`: nothing is ever entered
  in `quorumSetRequests` under a public key. The same invariant gives
  `RequestsEndByTimeout`: the code that clears a request when the quorum set arrives,
  is refused, or the node disconnects never finds one; only the timeout ends a
  request. This theorem states an action property that no run checks, since the
  finding it generalises is the one above about requests.
  `QuorumSetsReachNodes` needs `OwnersAnnounced`: a node that
  announced a hash is among its owners. It promises a known quorum set that the node
  announced, not the last one.

TLC checked each inductive invariant of the crawler on the instances of `crawl`,
`two_crawls` and `no_seeds` before it was proved.

### Only model-checked

- The liveness properties `CrawlSettles`, `EveryPeerLeaves`, `AskedInTurn` and
  `RequestsRunOut`: fairness and ENABLED are beyond this prover.
- `LifecycleAsserts` and `SettledIsQuiet` in a second crawl (`two_crawls`): two
  calls keep them, but the first of them is lost with three, so an inductive
  invariant would have to describe which leftovers of the first crawl the second
  can meet.
- The seven violations, which are counterexamples.

## What is not modelled

What is written to the log (`crawl-logger.ts`; its interval is modelled),
constructing the objects (`index.ts`, `crawl-factory.ts`; what they start with is
`Init`), JSON files and the truncation of log lines. `failedConnections` of a crawl
is only read by a debug message, `nodeInfo` and `getMinLagMS` of a peer only by the
caller and the log. A statement that cannot be parsed, and a key that cannot, end
like any other refused message; the error of `mapExternalizeStatement` cannot occur,
since it only decodes the node's key, which the same call has decoded before. The
handshake, XDR and signatures belong to the libraries, as do the queue of `async` and `containsSlice`, which are modelled as
they are used and marked external.

## Plan

Done: the crawl (`Crawler` with its components and `CrawlSession`), the messages
(`StellarMessages` with its components and `LedgerChain`), the contract between them
(`ObservationLife`); as theorems all invariants, for the first crawl or for any
number of them, and the three refinements.

Next, proofs, in this order:

1. A second crawl: which leftovers it can meet when the first was resolved, or
   ended by the max crawl timer, and `LifecycleAsserts` and `SettledIsQuiet`
   under that description.
2. Action properties that hold over any number of crawls: a promise that is
   settled is never settled again, a crawled address stays crawled, a closed
   connection stays closed, a verdict stays once given.
3. The safety half of liveness: what bounds the requests for a hash (a node is
   asked once) and the tasks of a crawl.

----------------------------- MODULE CrawlQueue -----------------------------
(***************************************************************************)
(* crawl-queue.ts and crawl-queue-manager.ts: the queue of crawl tasks, a  *)
(* queue of the async library with maxOpenConnections workers. The crawler *)
(* has one queue for all its crawls. A task is the connection it will make *)
(* (call and address).                                                     *)
(*                                                                         *)
(* The library: push schedules one run of process() as a microtask (async  *)
(* 3.2.6, pnpm-lock.yaml:594); process() starts waiting tasks while        *)
(* workers are free; the done callback of a task frees its worker, calls   *)
(* the drain handler if no task waits or runs, and runs process(). Which   *)
(* of the waiting tasks start first is left open.                          *)
(***************************************************************************)
EXTENDS ConnectionManager

CONSTANT MaxOpen   \* CrawlerConfiguration.maxOpenConnections

ASSUME MaxOpenAssumption == MaxOpen \in Nat \ {0}

VARIABLES
    queue,      \* tasks that wait
    running,    \* tasks that occupy a worker
    callbacks,  \* crawlQueueTaskDoneCallbacks of each crawl: its addresses
    scheduled,  \* a run of process() is scheduled
    drain       \* call whose drain handler is installed, 0 if none

queueVars == <<queue, running, callbacks, scheduled, drain>>

QueueTypeOK ==
    /\ queue \subseteq Conn
    /\ running \subseteq Conn
    /\ callbacks \in [Call -> SUBSET Addr]
    /\ scheduled \in BOOLEAN
    /\ drain \in 0 .. MaxCalls

QueueInit ==
    /\ queue = {}
    /\ running = {}
    /\ callbacks = [k \in Call |-> {}]
    /\ scheduled = FALSE
    /\ drain = 0

-----------------------------------------------------------------------------

\* Variant of Workers with one too many.
WorkersOffByOne == MaxOpen + 1

\* the concurrency that initialize gives the queue
Workers == MaxOpen

\* The sets of tasks one run of process() can start when run occupies workers.
Startable(run, S) ==
    /\ S \subseteq queue
    /\ Cardinality(run \cup S) <= Workers
    /\ S = queue \/ Cardinality(run \cup S) = Workers

\* performCrawlQueueTask, for the tasks of S: their done callbacks are kept
\* in the maps of their own crawls
Registered(S) ==
    [k \in Call |-> callbacks[k] \cup {a \in Addr : <<k, a>> \in S}]

\* completeCrawlQueueTask forgets the callback after having called it
Forgotten(cbs, k, a) == [cbs EXCEPT ![k] = @ \ {a}]

\* addCrawlTask, for the tasks of T
Push(T) ==
    /\ queue' = queue \cup T
    /\ scheduled' = (scheduled \/ T # {})

\* idle() of the library, when the tasks of run occupy the workers
Idle(run) == queue = {} /\ run = {}
=============================================================================

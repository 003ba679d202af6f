--------------------------- MODULE SessionProofs ---------------------------
(***************************************************************************)
(* The first crawl implements CrawlSession: what it discovers it visits,   *)
(* each address once and a bounded number at a time, and it resolves its   *)
(* promise only when all of it was visited.                                *)
(*                                                                         *)
(* The promise is settled by the continuation of a stop, which may run     *)
(* long after the queue drained. That nothing is left then, although peers *)
(* may still tell of new addresses, is what SessionState is about.         *)
(***************************************************************************)
EXTENDS FirstCrawlProofs

USE DEF Call, Conn

-----------------------------------------------------------------------------
(* The inductive invariant *)

\* The promise of the call is pending from its start to the end of the sync,
\* and never unknown again.
ResultKnown ==
    /\ obsState[1] = "Idle" => outcome[1] = "none"
    /\ obsState[1] = "Syncing" => outcome[1] = "pending"
    /\ obsState[1] # "Idle" => outcome[1] # "none"

\* A done callback is that of a task that occupies a worker.
CallbacksRun == ~crashed => \A a \in callbacks[1] : <<1, a>> \in running

\* Unless the max crawl time is over, an observation is stopped when the queue
\* is drained; what is pushed later is left to a run of process() that throws.
StoppedIsDone ==
    ~crashed /\ ~maxHit[1] /\ Ends(1) => running = {} /\ (queue = {} \/ scheduled)

\* ... and that run comes before the timer that ends the stop.
SettlingIsDone ==
    ~crashed /\ ~maxHit[1] /\ settling # <<>> => queue = {}

SessionState == ResultKnown /\ CallbacksRun /\ StoppedIsDone /\ SettlingIsDone

SessionInv == FirstInv /\ (cur <= 1 => SessionState)

SessionStep == FirstStep /\ CallsCount /\ SessionState

LEMMA SessionFacts ==
    ASSUME SessionStep
    PROVE  /\ FirstStep /\ TypeInv /\ SessionState /\ Beginning /\ Ending
           /\ OneCrawl /\ StopTimers /\ cur = 1 /\ 1 \in Call /\ ~crashed
           /\ obsState \in [Call -> ObservationState]
           /\ outcome \in [Call -> Outcome]
           /\ maxHit \in [Call -> BOOLEAN]
           /\ callbacks \in [Call -> SUBSET Addr]
           /\ crawled \in [Call -> SUBSET Addr]
           /\ calls \in Nat /\ 1 <= calls
           /\ queue \subseteq Conn /\ running \subseteq Conn
           /\ \A t \in queue \cup running : t[1] = 1
<1>1. ~crashed
  BY DEF SessionStep, FirstStep, Next, StartCrawl, RefuseCrawl, SyncFailed,
         StartCrawling, NothingToCrawl, StartCrawlProcess, SyncTimeout,
         ProcessQueue, ProcessQueueThrows, ConnectBlacklisted, Connect, Fail,
         PeersReceived, LedgerClose, InvalidData, CloseOnly, CloseAndProcess,
         CloseAndThrow, CloseAndDrain, Close, ConsensusTimeout, StragglerTimeout,
         StopTimeout, MaxCrawlTimeout, Finish, CanRun
<1>2. /\ FirstStep /\ TypeInv /\ SessionState /\ Beginning /\ Ending
      /\ OneCrawl /\ StopTimers /\ cur = 1 /\ 1 \in Call
      /\ queue \subseteq Conn /\ running \subseteq Conn
  BY FirstFacts DEF SessionStep, FirstStep, FirstState
<1>3. /\ obsState \in [Call -> ObservationState]
      /\ outcome \in [Call -> Outcome]
      /\ maxHit \in [Call -> BOOLEAN]
      /\ callbacks \in [Call -> SUBSET Addr]
      /\ crawled \in [Call -> SUBSET Addr]
      /\ calls \in 0 .. MaxCalls
  BY <1>2 DEF TypeInv, TypeOK, ObsTypeOK, CrawlTypeOK, QueueTypeOK
<1>4. calls \in Nat /\ 1 <= calls
  BY <1>2, <1>3, ConnectionAssumption DEF SessionStep, CallsCount
<1>5. \A t \in queue \cup running : t[1] = 1
  BY <1>2 DEF OneCrawl
<1> QED
  BY <1>1, <1>2, <1>3, <1>4, <1>5

-----------------------------------------------------------------------------
(* The steps of the invariant *)

\* What settles the promise of the call: a failed sync, or the end of a stop.
LEMMA ResultChanges ==
    ASSUME SessionStep
    PROVE  \/ outcome'[1] = outcome[1]
           \/ /\ \E k \in Call : SyncFailed(k)
              /\ outcome[1] = "pending" /\ outcome'[1] = "rejected"
           \/ /\ Finish /\ outcome[1] = "pending"
              /\ \/ outcome'[1] = "rejected"
                 \/ outcome'[1] = "resolved" /\ ~maxHit[1]
<1>F. /\ cur = 1 /\ 1 \in Call /\ calls \in Nat /\ 1 <= calls /\ ResultKnown
      /\ outcome \in [Call -> Outcome] /\ maxHit \in [Call -> BOOLEAN] /\ FirstStep
  BY SessionFacts DEF SessionState
<1>1. CASE RefuseCrawl
  BY <1>F, <1>1 DEF RefuseCrawl
<1>2. ASSUME NEW k \in Call, SyncFailed(k)
      PROVE  outcome[1] = "pending" /\ outcome'[1] = "rejected"
  <2>1. k = 1 /\ obsState[1] = "Syncing"
    BY <1>F, <1>2, SyncEnds, FirstSync
  <2> QED
    BY <1>F, <1>2, <2>1 DEF SyncFailed, ResultKnown
<1>3. CASE Finish
  BY <1>F, <1>3 DEF Finish, Settled
<1>4. ASSUME ~RefuseCrawl, \A k \in Call : ~SyncFailed(k), ~Finish
      PROVE  outcome' = outcome
  BY <1>4
  DEF SessionStep, FirstStep, Next, crawlVars, StartCrawling, NothingToCrawl,
      StartCrawlProcess, ProcessQueue, ProcessQueueThrows, ConnectBlacklisted,
      Connect, Fail, PeersReceived, LedgerClose, InvalidData, CloseOnly,
      CloseAndProcess, CloseAndThrow, CloseAndDrain, Close, ConsensusTimeout,
      StragglerTimeout, StopTimeout, MaxCrawlTimeout
<1> QED
  BY <1>1, <1>2, <1>3, <1>4

LEMMA ResultStep ==
    ASSUME SessionStep
    PROVE  ResultKnown'
<1>F. FirstStep /\ ResultKnown /\ Beginning /\ Beginning' /\ cur = 1 /\ cur' = 1
  BY SessionFacts, BeginningStep DEF SessionState, FirstStep
<1>1. obsState[1] # "Idle" /\ obsState'[1] # "Idle"
  BY <1>F DEF Beginning
<1>2. outcome[1] # "none" /\ outcome'[1] # "none"
  BY <1>F, <1>1, ResultChanges DEF ResultKnown
<1>3. ASSUME obsState'[1] = "Syncing"
      PROVE  outcome'[1] = "pending"
  <2>1. obsState[1] = "Syncing"
    BY <1>F, <1>3, ObservationMoves
  <2>2. \A k \in Call : ~SyncFailed(k)
    BY <1>F, <1>3, SyncEnds
  <2>3. ~Finish
    BY <1>F, <2>1 DEF Finish, Beginning, NothingYet
  <2> QED
    BY <1>F, <2>1, <2>2, <2>3, ResultChanges DEF ResultKnown
<1> QED
  BY <1>1, <1>2, <1>3 DEF ResultKnown

\* The end of a connection that ends a task ends the task of its address.
LEMMA EndedTask ==
    ASSUME SessionStep, NEW c \in Conn, EndsTask(c)
    PROVE  /\ <<1, c[2]>> \in running /\ c[2] \in Addr
           /\ RunningAfter(c) = running \ {<<1, c[2]>>}
BY SessionFacts, ConnParts
DEF EndsTask, SessionState, CallbacksRun, RunningAfter

LEMMA CallbacksStep ==
    ASSUME SessionStep
    PROVE  CallbacksRun'
<1>F. /\ ConnSteps /\ ~StartCrawl /\ CallbacksRun /\ ~crashed /\ cur = 1
      /\ 1 \in Call /\ callbacks \in [Call -> SUBSET Addr]
      /\ running \subseteq Conn
  BY SessionFacts, FirstFacts DEF SessionState, FirstStep
<1> SUFFICES ASSUME ~crashed', NEW a \in callbacks'[1]
             PROVE  <<1, a>> \in running'
  BY DEF CallbacksRun
<1>1. CASE UNCHANGED <<running, callbacks>>
  BY <1>F, <1>1 DEF CallbacksRun
<1>2. ASSUME NEW S \in SUBSET queue, ProcessQueue(S)
      PROVE  <<1, a>> \in running'
  <2>1. a \in callbacks[1] \/ <<1, a>> \in S
    BY <1>F, <1>2 DEF ProcessQueue, Registered
  <2> QED
    BY <1>F, <1>2, <2>1 DEF ProcessQueue, StartTasks, CallbacksRun
<1>3. ASSUME NEW c \in Conn, Connect(c)
      PROVE  <<1, a>> \in running'
  BY <1>1, <1>3 DEF Connect, queueVars
<1>4. ASSUME NEW c \in Conn, CloseAny(c)
      PROVE  <<1, a>> \in running'
  <2>1. CASE CloseOnly(c)
    BY <1>1, <2>1 DEF CloseOnly
  <2>2. ASSUME NEW S \in SUBSET queue, CloseAndProcess(c, S)
        PROVE  <<1, a>> \in running'
    <3>1. a # c[2] /\ (a \in callbacks[1] \/ <<1, a>> \in S)
      BY <1>F, <2>2 DEF CloseAndProcess, Registered, Forgotten
    <3> QED
      BY <1>F, <2>2, <3>1
      DEF CloseAndProcess, StartTasks, RunningAfter, CallbacksRun
  <2>3. CASE CloseAndDrain(c)
    <3>1. a # c[2] /\ a \in callbacks[1]
      BY <1>F, <2>3 DEF CloseAndDrain, Forgotten
    <3> QED
      BY <1>F, <2>3, <3>1 DEF CloseAndDrain, RunningAfter, CallbacksRun
  <2>4. ASSUME NEW t \in queue, CloseAndThrow(c, t)
        PROVE  FALSE
    BY <2>4 DEF CloseAndThrow, ConnectThrows
  <2> QED
    BY <1>4, <2>1, <2>2, <2>3, <2>4 DEF CloseAny
<1>5. CASE OtherEvent
  BY <1>1, <1>5, OtherTasks
<1> QED
  BY <1>F, <1>2, <1>3, <1>4, <1>5 DEF ConnSteps

\* What is queued, taken or marked in events that do not end a connection.
LEMMA OtherQueue ==
    ASSUME OtherEvent
    PROVE  \/ UNCHANGED <<queue, running, scheduled, crawled>>
           \/ \E k \in Call : StartCrawling(k)
           \/ \E t \in queue : ProcessQueueThrows(t)
           \/ \E c \in Conn, P \in SUBSET Addr : PeersReceived(c, P)
BY DEF OtherEvent, RefuseCrawl, SyncFailed, NothingToCrawl, StartCrawlProcess,
       SyncTimeout, ConnectBlacklisted, Fail, LedgerClose, InvalidData,
       ConsensusTimeout, StragglerTimeout, StopTimeout, MaxCrawlTimeout, Finish,
       vars, queueVars, crawlVars

\* The max crawl time never becomes not over.
LEMMA MaxHitStays ==
    ASSUME SessionStep
    PROVE  maxHit[1] => maxHit'[1]
<1>F. cur = 1 /\ 1 \in Call /\ maxHit \in [Call -> BOOLEAN]
  BY SessionFacts
<1>1. CASE MaxCrawlTimeout
  BY <1>F, <1>1 DEF MaxCrawlTimeout
<1>2. CASE UNCHANGED maxHit
  BY <1>2
<1>3. ASSUME ~MaxCrawlTimeout
      PROVE  UNCHANGED maxHit
  BY <1>3
  DEF SessionStep, FirstStep, Next, crawlVars, RefuseCrawl, SyncFailed,
      StartCrawling, NothingToCrawl, StartCrawlProcess, SyncTimeout, ProcessQueue,
      ProcessQueueThrows, ConnectBlacklisted, Connect, Fail, PeersReceived,
      LedgerClose, InvalidData, CloseOnly, CloseAndProcess, CloseAndThrow,
      CloseAndDrain, Close, ConsensusTimeout, StragglerTimeout, StopTimeout,
      Finish
<1> QED
  BY <1>1, <1>2, <1>3

\* How the observation comes to be stopped, and a stop to be over.
LEMMA StopKinds ==
    ASSUME SessionStep, obsState' # obsState \/ settling' # settling
    PROVE  \/ \E k \in Call : SyncFailed(k) \/ StartCrawling(k) \/ NothingToCrawl(k)
           \/ \E c \in Conn : CloseAndDrain(c)
           \/ StopTimeout \/ MaxCrawlTimeout \/ Finish
BY DEF SessionStep, FirstStep, Next, obsVars, RefuseCrawl, ProcessQueue,
       ProcessQueueThrows, ConnectBlacklisted, Connect, PeerConnected, Fail,
       PeersReceived, LedgerClose, LedgerCloseConfirmed, InvalidData, CloseOnly,
       CloseAndProcess, CloseAndThrow, ConsensusTimeout, NetworkHalted,
       StragglerTimeout

LEMMA StoppedStep ==
    ASSUME SessionStep
    PROVE  StoppedIsDone'
<1>F. /\ FirstStep /\ ConnSteps /\ ~StartCrawl /\ StoppedIsDone /\ ~crashed
      /\ cur = 1 /\ running \subseteq Conn
      /\ obsState \in [Call -> ObservationState] /\ 1 \in Call
      /\ maxHit \in [Call -> BOOLEAN]
  BY SessionFacts, FirstFacts DEF SessionState, FirstStep
<1> SUFFICES ASSUME ~crashed', ~maxHit'[1], Ends(1)'
             PROVE  running' = {} /\ (queue' = {} \/ scheduled')
  BY DEF StoppedIsDone
<1> DEFINE Goal == running' = {} /\ (queue' = {} \/ scheduled')
<1>M. ~maxHit[1] /\ ~MaxCrawlTimeout
  BY <1>F, MaxHitStays DEF MaxCrawlTimeout
<1>1. ASSUME NEW k \in Call, NothingToCrawl(k)
      PROVE  Goal
  <2>1. queue = {} /\ running = {}
    BY <1>F, <1>1, SyncEnds, FirstSync DEF NothingYet
  <2> QED
    BY <1>1, <2>1 DEF NothingToCrawl, StartCrawlProcess
<1>2. ASSUME NEW k \in Call, SyncFailed(k) \/ StartCrawling(k)
      PROVE  FALSE
  <2>1. k = 1
    BY <1>F, <1>2, SyncEnds
  <2> QED
    BY <1>F, <1>2, <2>1 DEF SyncFailed, StartCrawling, SyncCompleted, Ends
<1>3. ASSUME NEW c \in Conn, CloseAndDrain(c)
      PROVE  Goal
  BY <1>3 DEF CloseAndDrain, Idle
<1>4. ASSUME Ends(1), \A c \in Conn : ~CloseAndDrain(c)
      PROVE  Goal
  <2>1. running = {} /\ (queue = {} \/ scheduled) /\ obsState[1] # "Synced"
    BY <1>F, <1>M, <1>4 DEF StoppedIsDone, Ends
  <2>2. CASE UNCHANGED <<queue, running, scheduled>>
    BY <2>1, <2>2
  <2>3. ASSUME NEW S \in SUBSET queue, ProcessQueue(S)
        PROVE  Goal
    <3>1. S = {}
      BY <1>F, <2>1, <2>3 DEF ProcessQueue, StartTasks
    <3>2. Cardinality(running \cup S) = 0
      BY <2>1, <3>1, FS_EmptySet
    <3>3. queue = {}
      BY <2>3, <3>1, <3>2, MaxOpenAssumption DEF ProcessQueue, Startable, Workers
    <3> QED
      BY <2>1, <2>3, <3>1, <3>3 DEF ProcessQueue, StartTasks
  <2>4. ASSUME NEW c \in Conn, Connect(c)
        PROVE  Goal
    BY <2>2, <2>4 DEF Connect, queueVars
  <2>5. ASSUME NEW c \in Conn, CloseAny(c)
        PROVE  Goal
    <3>1. ~EndsTask(c)
      BY <2>1, EndedTask
    <3>2. CloseOnly(c)
      BY <2>5, <3>1 DEF CloseAny, CloseAndDrain, CloseAndProcess, CloseAndThrow
    <3> QED
      BY <2>2, <3>2 DEF CloseOnly, Close
  <2>6. ASSUME NEW c \in Conn, NEW P \in SUBSET Addr, PeersReceived(c, P)
        PROVE  Goal
    BY <2>1, <2>6 DEF PeersReceived, CrawlPeerNodes, Push
  <2>7. CASE OtherEvent
    <3>1. ~\E t \in queue : ProcessQueueThrows(t)
      BY DEF ProcessQueueThrows, ConnectThrows
    <3> QED
      BY <1>2, <2>2, <2>6, <2>7, <3>1, OtherQueue
  <2> QED
    BY <1>F, <2>3, <2>4, <2>5, <2>7 DEF ConnSteps
<1>5. ASSUME ~Ends(1), \A c \in Conn : ~CloseAndDrain(c)
      PROVE  Goal
  <2>1. obsState' # obsState
    BY <1>5 DEF Ends
  <2>2. ~StopTimeout
    BY <1>F, <1>5, StopTimerOfFirst DEF Ends
  <2>3. ~Finish
    BY <2>1 DEF Finish
  <2> QED
    BY <1>1, <1>2, <1>5, <1>M, <2>1, <2>2, <2>3, StopKinds
<1> QED
  BY <1>3, <1>4, <1>5

LEMMA SettlingStep ==
    ASSUME SessionStep
    PROVE  SettlingIsDone'
<1>F. /\ FirstStep /\ StoppedIsDone /\ SettlingIsDone /\ ~crashed /\ cur = 1
      /\ 1 \in Call /\ maxHit \in [Call -> BOOLEAN]
      /\ ConnSteps /\ ~StartCrawl
  BY SessionFacts, FirstFacts DEF SessionState, FirstStep
<1> SUFFICES ASSUME ~crashed', ~maxHit'[1], settling' # <<>>
             PROVE  queue' = {}
  BY DEF SettlingIsDone
<1>M. ~maxHit[1] /\ ~MaxCrawlTimeout
  BY <1>F, MaxHitStays DEF MaxCrawlTimeout
<1>1. ASSUME settling # <<>>
      PROVE  queue' = {}
  <2>1. queue = {} /\ ~CanRun
    BY <1>F, <1>M, <1>1 DEF SettlingIsDone, CanRun
  <2>2. CASE \E c \in Conn : CloseAny(c)
    BY <2>1, <2>2
    DEF CloseAny, CloseOnly, CloseAndDrain, CloseAndProcess, CloseAndThrow,
        StartTasks
  <2>3. CASE Finish
    BY <2>1, <2>3 DEF Finish, queueVars
  <2>4. (\E c \in Conn : CloseAny(c)) \/ Finish
    BY <1>F, <1>1, <2>1
    DEF FirstStep, Next, CloseAny, RefuseCrawl, SyncFailed, StartCrawling,
        NothingToCrawl, StartCrawlProcess, SyncTimeout, ProcessQueue,
        ProcessQueueThrows, ConnectBlacklisted, Connect, Fail, PeersReceived,
        LedgerClose, InvalidData, ConsensusTimeout, StragglerTimeout, StopTimeout,
        MaxCrawlTimeout
  <2> QED
    BY <2>2, <2>3, <2>4
<1>2. ASSUME settling = <<>>
      PROVE  queue' = {}
  <2>1. ~Finish
    BY <1>2 DEF Finish
  <2>2. ASSUME NEW k \in Call, SyncFailed(k) \/ StartCrawling(k)
        PROVE  FALSE
    BY <1>2, <2>2
    DEF SyncFailed, StartCrawling
  <2>3. ASSUME NEW k \in Call, NothingToCrawl(k)
        PROVE  queue' = {}
    <3>1. queue = {}
      BY <1>F, <2>3, SyncEnds, FirstSync DEF NothingYet
    <3> QED
      BY <2>3, <3>1 DEF NothingToCrawl
  <2>4. ASSUME NEW c \in Conn, CloseAndDrain(c)
        PROVE  queue' = {}
    BY <2>4 DEF CloseAndDrain, Idle
  <2>5. CASE StopTimeout
    <3>1. obsState[1] = "Stopping" /\ ~scheduled
      BY <1>F, <2>5, StopTimerOfFirst DEF StopTimeout, CanRun
    <3>2. queue = {}
      BY <1>F, <1>M, <3>1 DEF StoppedIsDone, Ends
    <3> QED
      BY <2>5, <3>2 DEF StopTimeout, queueVars
  <2> QED
    BY <1>2, <1>M, <2>1, <2>2, <2>3, <2>4, <2>5, StopKinds
<1> QED
  BY <1>1, <1>2

-----------------------------------------------------------------------------
(* The invariant holds *)

LEMMA SessionStart ==
    ASSUME FirstInv, cur = 0, StartCrawl
    PROVE  /\ cur' = 1 /\ UNCHANGED <<queue, running, crawled>>
           /\ outcome[1] = "none" => outcome'[1] = "pending"
           /\ SessionState => SessionState'
<1>1. /\ calls = 0 /\ NothingYet /\ 1 \in Call /\ obsState[1] = "Idle"
      /\ obsState \in [Call -> ObservationState]
      /\ outcome \in [Call -> Outcome]
  BY OneIsCall
  DEF FirstInv, FirstState, BoundInv, TypeInv, TypeOK, ObsTypeOK, CrawlTypeOK,
      Beginning, CallsCount
<1>2. cur' = 1
  BY <1>1 DEF StartCrawl
<1>3. /\ obsState'[1] = "Syncing" /\ outcome'[1] = "pending"
      /\ UNCHANGED <<queue, running, callbacks, crawled, settling>>
  BY <1>1, <1>2 DEF StartCrawl, StartSync, queueVars
<1> QED
  BY <1>1, <1>2, <1>3
  DEF SessionState, ResultKnown, CallbacksRun, StoppedIsDone, SettlingIsDone, Ends,
      NothingYet

LEMMA SessionInit == Init => SessionInv
<1> SUFFICES ASSUME Init PROVE SessionInv
  OBVIOUS
<1>1. FirstInv /\ 1 \in Call
  BY FirstInit, OneIsCall
<1>2. obsState[1] = "Idle" /\ settling = <<>> /\ callbacks[1] = {}
      /\ outcome[1] = "none"
  BY <1>1 DEF Init, ObsInit, QueueInit, CrawlInit
<1> QED
  BY <1>1, <1>2
  DEF SessionInv, SessionState, ResultKnown, CallbacksRun, StoppedIsDone,
      SettlingIsDone, Ends

\* A step of the first crawl starts it or is one of it.
LEMMA SessionSteps ==
    ASSUME SessionInv, cur <= 1, cur' <= 1, Next
    PROVE  (StartCrawl /\ cur = 0) \/ SessionStep
<1>1. /\ cur \in {0, 1} /\ FirstState /\ BoundInv /\ SessionState /\ CallsCount
  BY FirstProps DEF SessionInv, FirstInv
<1>2. CASE cur = 0
  BY <1>1, <1>2, OnlyStart
<1>3. CASE cur = 1
  <2>1. calls \in Nat
    BY <1>1, ConnectionAssumption DEF BoundInv, TypeInv, TypeOK, CrawlTypeOK
  <2>2. ~StartCrawl
    BY <1>1, <1>3, <2>1 DEF StartCrawl, CallsCount
  <2>3. UNCHANGED cur
    BY <1>1, <2>2, CallsStep DEF BoundInv
  <2> QED
    BY <1>1, <1>3, <2>2, <2>3 DEF SessionStep, FirstStep
<1> QED
  BY <1>1, <1>2, <1>3

LEMMA SessionInvStep == SessionInv /\ [Next]_vars => SessionInv'
<1> SUFFICES ASSUME SessionInv, [Next]_vars PROVE SessionInv'
  OBVIOUS
<1>1. FirstInv' /\ FirstInv
  BY FirstInvStep DEF SessionInv
<1> SUFFICES ASSUME cur' <= 1 PROVE SessionState'
  BY <1>1 DEF SessionInv
<1>2. cur <= 1
  <2>1. /\ cur \in Nat /\ calls \in Nat /\ cur <= calls
        /\ StartCrawl \/ UNCHANGED cur
    BY <1>1, CallsStep, ConnectionAssumption
    DEF FirstInv, BoundInv, TypeInv, TypeOK, CrawlTypeOK, CallsCount
  <2> QED
    BY <2>1 DEF StartCrawl
<1>3. CASE UNCHANGED vars
  BY <1>2, <1>3
  DEF SessionInv, vars, connVars, obsVars, queueVars, crawlVars, SessionState,
      ResultKnown, CallbacksRun, StoppedIsDone, SettlingIsDone, Ends
<1>4. CASE StartCrawl /\ cur = 0
  BY <1>1, <1>2, <1>4, SessionStart DEF SessionInv
<1>5. CASE SessionStep
  BY <1>5, ResultStep, CallbacksStep, StoppedStep, SettlingStep DEF SessionState
<1> QED
  BY <1>2, <1>3, <1>4, <1>5, SessionSteps

LEMMA SessionCorrect == Spec => []SessionInv
  BY SessionInit, SessionInvStep, PTL DEF Spec

-----------------------------------------------------------------------------
(* The addresses of tasks, as CrawlSession sees them *)

Waiting == AddressesOf(queue)
Visiting == AddressesOf(running)
Visited == crawled[1] \ AddressesOf(queue \cup running)

\* A task of the call is its address.
LEMMA AddressesCount ==
    ASSUME NEW T \in SUBSET Conn
    PROVE  Cardinality(AddressesOf(T)) <= Cardinality(T)
<1> DEFINE A == AddressesOf(T)
           f == [a \in A |-> <<1, a>>]
<1>1. IsFiniteSet(T)
  BY ConnFinite
<1>2. f \in [A -> T]
  BY DEF AddressesOf
<1>3. f \in Injection(A, T)
  BY <1>2 DEF Injection, IsInjective
<1> QED
  BY <1>1, <1>3, FS_Injection

\* The substitution of the instance, by name.
LEMMA SessionVars ==
    /\ Session!Init <=> /\ Waiting = {} /\ Visiting = {} /\ Visited = {}
                        /\ outcome[1] = "none"
    /\ (UNCHANGED Session!vars) <=>
          UNCHANGED <<Waiting, Visiting, Visited, outcome[1]>>
BY DEF Session!Init, Session!vars, Waiting, Visiting, Visited

SessionStarts ==
    /\ outcome[1] = "none" /\ outcome'[1] = "pending"
    /\ UNCHANGED <<Waiting, Visiting, Visited>>

SessionDiscovers(P) ==
    /\ outcome[1] # "none"
    /\ P \cap (Waiting \cup Visiting \cup Visited) = {}
    /\ Waiting' = Waiting \cup P
    /\ Visiting' = Visiting /\ Visited' = Visited /\ outcome'[1] = outcome[1]

SessionVisits(E, S) ==
    /\ E \subseteq Visiting /\ S \subseteq Waiting
    /\ Cardinality((Visiting \ E) \cup S) <= MaxOpen
    /\ Waiting' = Waiting \ S
    /\ Visiting' = (Visiting \ E) \cup S
    /\ Visited' = Visited \cup E
    /\ outcome'[1] = outcome[1]

SessionSettles ==
    /\ outcome[1] = "pending"
    /\ \/ outcome'[1] = "rejected"
       \/ outcome'[1] = "resolved" /\ Waiting = {} /\ Visiting = {}
    /\ Waiting' = Waiting /\ Visiting' = Visiting /\ Visited' = Visited

\* The instance counts as FiniteSets does.
LEMMA SessionCardinality == \A T : Session!Cardinality(T) = Cardinality(T)
BY DEF Session!Cardinality, Cardinality

LEMMA SessionActions ==
    /\ SessionStarts => Session!Next
    /\ \A P \in SUBSET Addr : SessionDiscovers(P) => Session!Next
    /\ \A E, S : SessionVisits(E, S) => Session!Next
    /\ SessionSettles => Session!Next
<1>1. ASSUME SessionStarts
      PROVE  Session!Next
  BY <1>1 DEF SessionStarts, Session!Next, Session!Start, Waiting, Visiting, Visited
<1>2. ASSUME NEW P \in SUBSET Addr, SessionDiscovers(P)
      PROVE  Session!Next
  <2>1. Session!Discover(P)
    BY <1>2 DEF SessionDiscovers, Session!Discover, Waiting, Visiting, Visited
  <2> QED
    BY <2>1 DEF Session!Next
<1>3. ASSUME NEW E, NEW S, SessionVisits(E, S)
      PROVE  Session!Next
  <2>1. Session!Visit(E, S)
    <3>1. Cardinality((Visiting \ E) \cup S) <= MaxOpen
      BY <1>3 DEF SessionVisits
    <3>2. /\ Waiting' = Waiting \ S /\ Visiting' = (Visiting \ E) \cup S
          /\ Visited' = Visited \cup E /\ outcome'[1] = outcome[1]
      BY <1>3 DEF SessionVisits
    <3> QED
      BY <3>1, <3>2, SessionCardinality DEF Session!Visit, Waiting, Visiting, Visited
  <2>2. E \in SUBSET Visiting /\ S \in SUBSET Waiting
    BY <1>3 DEF SessionVisits
  <2> QED
    BY <2>1, <2>2 DEF Session!Next, Waiting, Visiting
<1>4. ASSUME SessionSettles
      PROVE  Session!Next
  BY <1>4
  DEF SessionSettles, Session!Next, Session!Resolve, Session!Reject, Waiting,
      Visiting, Visited
<1> QED
  BY <1>1, <1>2, <1>3, <1>4

-----------------------------------------------------------------------------
(* Every step is one of CrawlSession, or none *)

\* What the tasks of the queue and the crawled addresses have to do.
LEMMA TaskFacts ==
    ASSUME SessionStep
    PROVE  /\ \A t \in queue : t \in Conn /\ t = <<1, t[2]>> /\ t \notin running
           /\ \A a \in callbacks[1] : a \in Addr /\ a \notin TopTier
           /\ \A a \in Addr : a \notin TopTier /\ a \notin crawled[1] =>
                  <<1, a>> \notin queue /\ <<1, a>> \notin running
           /\ Cardinality(running') <= MaxOpen
           /\ running' \subseteq Conn
<1>1. /\ BoundInv /\ TasksInv /\ BoundInv'
      /\ cur = 1 /\ 1 \in Call /\ callbacks \in [Call -> SUBSET Addr]
      /\ queue \subseteq Conn /\ \A t \in queue \cup running : t[1] = 1
  BY SessionFacts, BoundStep DEF FirstStep, BoundInv
<1>2. \A t \in queue : t \in Conn /\ t = <<1, t[2]>> /\ t \notin running
  BY <1>1 DEF TasksInv, WaitingIsNew
<1>3. \A a \in callbacks[1] : a \in Addr /\ a \notin TopTier
  BY <1>1 DEF TasksInv, TasksOfPeers
<1>4. ASSUME NEW a \in Addr, a \notin TopTier, a \notin crawled[1]
      PROVE  <<1, a>> \notin queue /\ <<1, a>> \notin running
  <2>1. <<1, a>> \in Conn /\ <<1, a>>[1] = 1 /\ <<1, a>>[2] = a
    BY <1>1
  <2> QED
    BY <1>1, <1>4, <2>1 DEF TasksInv, CrawledFirst
<1>5. Cardinality(running') <= MaxOpen /\ running' \subseteq Conn
  BY <1>1 DEF BoundInv, TasksInv, WorkersCount, TypeInv, TypeOK, QueueTypeOK
<1> QED
  BY <1>2, <1>3, <1>4, <1>5

\* Tasks end, D, and others take their workers, S.
LEMMA VisitStep ==
    ASSUME SessionStep, NEW D \in SUBSET running, NEW S \in SUBSET queue,
           \A t \in D : t[2] \in callbacks[1],
           running' = (running \ D) \cup S, queue' = queue \ S,
           crawled' = crawled, outcome'[1] = outcome[1]
    PROVE  Session!Next
<1>F. /\ \A t \in queue : t \notin running
      /\ \A t \in running : t \in Conn /\ t[1] = 1
      /\ \A a \in callbacks[1] : a \in Addr /\ a \notin TopTier
      /\ \A a \in Addr : a \notin TopTier /\ a \notin crawled[1] =>
             <<1, a>> \notin queue /\ <<1, a>> \notin running
  BY TaskFacts, SessionFacts
<1> DEFINE E == AddressesOf(D)
           N == AddressesOf(S)
<1>1. E \subseteq Visiting /\ N \subseteq Waiting
  BY DEF AddressesOf, Visiting, Waiting
<1>2. Waiting' = Waiting \ N
  BY DEF AddressesOf, Waiting
<1>3. Visiting' = (Visiting \ E) \cup N
  BY DEF AddressesOf, Visiting
<1>4. Visited' = Visited \cup E
  <2>1. ASSUME NEW a, a \in E
        PROVE  a \in crawled[1] /\ a \notin AddressesOf(queue' \cup running')
    <3>1. a \in Addr /\ <<1, a>> \in D /\ <<1, a>>[2] = a
      BY <2>1 DEF AddressesOf
    <3>2. a \in callbacks[1]
      BY <3>1
    <3>3. a \in crawled[1] /\ <<1, a>> \notin queue
      BY <1>F, <3>1, <3>2
    <3> QED
      BY <3>1, <3>3 DEF AddressesOf
  <2>2. ASSUME NEW a, a \in crawled[1], a \notin E
        PROVE  a \in AddressesOf(queue' \cup running')
                 <=> a \in AddressesOf(queue \cup running)
    BY <2>2 DEF AddressesOf
  <2> QED
    BY <2>1, <2>2 DEF Visited, AddressesOf
<1>5. Cardinality((Visiting \ E) \cup N) <= MaxOpen
  <2>1. Cardinality(Visiting') <= Cardinality(running')
    BY TaskFacts, AddressesCount DEF Visiting, AddressesOf
  <2>2. Cardinality(Visiting') \in Nat /\ Cardinality(running') \in Nat
    <3>1. IsFiniteSet(Addr) /\ Visiting' \subseteq Addr
      BY ConnectionAssumption DEF Visiting, AddressesOf
    <3> QED
      BY <3>1, FS_Subset, FS_CardinalityType, TaskFacts, ConnFinite
  <2> QED
    BY <1>3, <2>1, <2>2, TaskFacts, MaxOpenAssumption
<1>6. SessionVisits(E, N)
  BY <1>1, <1>2, <1>3, <1>4, <1>5 DEF SessionVisits
<1> QED
  BY <1>6, SessionActions

\* Addresses are queued for the first time.
LEMMA DiscoverStep ==
    ASSUME SessionStep, NEW P \in SUBSET Addr, CrawlPeerNodes(P),
           running' = running, outcome'[1] = outcome[1]
    PROVE  Session!Next
<1>F. /\ cur = 1 /\ 1 \in Call /\ crawled \in [Call -> SUBSET Addr]
      /\ \A a \in Addr : a \notin TopTier /\ a \notin crawled[1] =>
             <<1, a>> \notin queue /\ <<1, a>> \notin running
      /\ outcome[1] # "none"
  BY TaskFacts, SessionFacts DEF SessionState, ResultKnown, Beginning
<1> DEFINE D == Crawlable(P)
<1>1. D \in SUBSET Addr /\ \A a \in D : a \notin crawled[1] /\ a \notin TopTier
  BY <1>F DEF Crawlable
<1>2. crawled'[1] = crawled[1] \cup D /\ queue' = queue \cup ({1} \X D)
  BY <1>F DEF CrawlPeerNodes, Push
<1> HIDE DEF D
<1>3. D \cap (Waiting \cup Visiting \cup Visited) = {}
  BY <1>F, <1>1 DEF AddressesOf, Waiting, Visiting, Visited
<1>4. Waiting' = Waiting \cup D
  BY <1>1, <1>2 DEF AddressesOf, Waiting
<1>5. Visiting' = Visiting
  BY DEF Visiting, AddressesOf
<1>6. Visited' = Visited
  <2>1. AddressesOf(queue' \cup running') = AddressesOf(queue \cup running) \cup D
    BY <1>1, <1>2 DEF AddressesOf
  <2>2. Visited' = (crawled[1] \cup D) \ (AddressesOf(queue \cup running) \cup D)
    BY <1>2, <2>1 DEF Visited, AddressesOf
  <2> QED
    BY <1>1, <2>2 DEF Visited
<1>7. SessionDiscovers(D)
  BY <1>F, <1>3, <1>4, <1>5, <1>6 DEF SessionDiscovers
<1> QED
  BY <1>1, <1>7, SessionActions

\* The promise is settled, or was before.
LEMMA SettleStep ==
    ASSUME SessionStep, Finish \/ \E k \in Call : SyncFailed(k)
    PROVE  Session!Next \/ UNCHANGED <<Waiting, Visiting, Visited, outcome[1]>>
<1>1. UNCHANGED <<Waiting, Visiting, Visited>>
  BY DEF Finish, SyncFailed, SyncTimeout, queueVars, Waiting, Visiting, Visited,
         AddressesOf
<1>2. CASE outcome'[1] = outcome[1]
  BY <1>1, <1>2
<1>3. CASE outcome'[1] # outcome[1]
  <2>1. outcome[1] = "pending" /\ outcome'[1] \in {"rejected", "resolved"}
    BY <1>3, ResultChanges
  <2>2. ASSUME outcome'[1] = "resolved"
        PROVE  Waiting = {} /\ Visiting = {}
    <3>1. Finish /\ ~maxHit[1]
      BY <1>3, <2>2, ResultChanges
    <3>2. settling # <<>> /\ ~crashed /\ Ends(1)
      BY <3>1, SessionFacts DEF Finish, Ending
    <3>3. queue = {} /\ running = {}
      BY <3>1, <3>2, SessionFacts DEF SessionState, StoppedIsDone, SettlingIsDone
    <3> QED
      BY <3>3 DEF Waiting, Visiting, AddressesOf
  <2>3. SessionSettles
    BY <1>1, <2>1, <2>2 DEF SessionSettles
  <2> QED
    BY <2>3, SessionActions
<1> QED
  BY <1>2, <1>3

LEMMA StepOfSession ==
    ASSUME SessionStep
    PROVE  Session!Next \/ UNCHANGED <<Waiting, Visiting, Visited, outcome[1]>>
<1> DEFINE Same == UNCHANGED <<Waiting, Visiting, Visited, outcome[1]>>
<1>F. /\ ConnSteps /\ ~StartCrawl /\ cur = 1 /\ SessionState
      /\ \A t \in queue : t \in Conn /\ t = <<1, t[2]>>
  BY SessionFacts, FirstFacts, TaskFacts DEF FirstStep
<1>1. CASE Finish \/ \E k \in Call : SyncFailed(k)
  BY <1>1, SettleStep
<1>2. ASSUME ~Finish, \A k \in Call : ~SyncFailed(k)
      PROVE  Session!Next \/ Same
  <2>R. outcome'[1] = outcome[1]
    BY <1>2, ResultChanges
  <2>1. CASE UNCHANGED <<queue, running, crawled>>
    BY <2>1, <2>R DEF Waiting, Visiting, Visited, AddressesOf
  <2>2. ASSUME NEW S \in SUBSET queue, ProcessQueue(S)
        PROVE  Session!Next
    <3>1. /\ running' = (running \ {}) \cup S /\ queue' = queue \ S
          /\ crawled' = crawled
      BY <2>2 DEF ProcessQueue, StartTasks, crawlVars
    <3> QED
      BY <2>R, <3>1, VisitStep, {} \in SUBSET running
  <2>3. ASSUME NEW t \in queue, ProcessQueueThrows(t)
        PROVE  Session!Next
    <3>1. /\ running' = (running \ {}) \cup {t} /\ queue' = queue \ {t}
          /\ crawled' = crawled /\ {t} \in SUBSET queue
      BY <2>3 DEF ProcessQueueThrows, ConnectThrows
    <3> QED
      BY <2>R, <3>1, VisitStep, {} \in SUBSET running
  <2>4. ASSUME NEW c \in Conn, Connect(c)
        PROVE  Session!Next \/ Same
    <3>1. UNCHANGED <<queue, running, crawled>>
      BY <2>4 DEF Connect, queueVars, crawlVars
    <3> QED
      BY <2>1, <3>1
  <2>5. ASSUME NEW c \in Conn, CloseAny(c)
        PROVE  Session!Next \/ Same
    <3>1. CASE CloseOnly(c)
      BY <2>1, <3>1 DEF CloseOnly, Close
    <3>2. ASSUME EndsTask(c), NEW S \in SUBSET queue,
                 running' = RunningAfter(c) \cup S, queue' = queue \ S,
                 crawled' = crawled
          PROVE  Session!Next
      <4>1. PICK D \in SUBSET running : D = {<<1, c[2]>>}
        BY <3>2, EndedTask
      <4>2. \A t \in D : t[2] \in callbacks[1]
        BY <1>F, <3>2, <4>1 DEF EndsTask
      <4>3. running' = (running \ D) \cup S
        BY <3>2, <4>1, EndedTask
      <4> QED
        BY <2>R, <3>2, <4>2, <4>3, VisitStep
    <3>3. ASSUME NEW S \in SUBSET queue, CloseAndProcess(c, S)
          PROVE  Session!Next
      BY <3>2, <3>3 DEF CloseAndProcess, StartTasks, Close
    <3>4. ASSUME NEW t \in queue, CloseAndThrow(c, t)
          PROVE  Session!Next
      <4>1. {t} \in SUBSET queue /\ running' = RunningAfter(c) \cup {t}
            /\ queue' = queue \ {t} /\ crawled' = crawled /\ EndsTask(c)
        BY <3>4 DEF CloseAndThrow, ConnectThrows, Close
      <4> QED
        BY <3>2, <4>1
    <3>5. CASE CloseAndDrain(c)
      <4>1. {} \in SUBSET queue /\ running' = RunningAfter(c) \cup {}
            /\ queue' = queue \ {} /\ crawled' = crawled /\ EndsTask(c)
        BY <3>5 DEF CloseAndDrain, Close
      <4> QED
        BY <3>2, <4>1
    <3> QED
      BY <2>5, <3>1, <3>3, <3>4, <3>5 DEF CloseAny
  <2>6. ASSUME NEW k \in Call, StartCrawling(k)
        PROVE  Session!Next
    <3>1. NodesToCrawl \in SUBSET Addr
      BY <1>F, SessionFacts, CrawlerAssumption
      DEF NodesToCrawl, TypeInv, TypeOK, CrawlTypeOK
    <3>2. CrawlPeerNodes(NodesToCrawl) /\ running' = running
      BY <2>6 DEF StartCrawling, StartCrawlProcess
    <3> QED
      BY <2>R, <3>1, <3>2, DiscoverStep
  <2>7. ASSUME NEW c \in Conn, NEW P \in SUBSET Addr, PeersReceived(c, P)
        PROVE  Session!Next \/ Same
    BY <2>1, <2>7, <2>R, DiscoverStep DEF PeersReceived
  <2>8. CASE OtherEvent
    BY <2>1, <2>3, <2>6, <2>7, <2>8, OtherQueue
  <2> QED
    BY <1>F, <2>2, <2>4, <2>5, <2>8 DEF ConnSteps
<1> QED
  BY <1>1, <1>2

\* What a crawl promises the caller of startCrawl (crawler.ts, crawl-queue.ts):
\* every address it discovers is visited, once, and at most maxOpenConnections
\* at a time, and its promise is resolved only when all of them were.
THEOREM CrawlImplementsSession == Spec /\ [](cur <= 1) => ImplementsSession
<1>1. Init => Session!Init
  <2> SUFFICES ASSUME Init PROVE Session!Init
    OBVIOUS
  <2>1. /\ queue = {} /\ running = {} /\ crawled[1] = {} /\ outcome[1] = "none"
    BY OneIsCall DEF Init, QueueInit, CrawlInit
  <2> QED
    BY <2>1, SessionVars DEF Waiting, Visiting, Visited, AddressesOf
<1>2. SessionInv /\ cur <= 1 /\ (cur <= 1)' /\ [Next]_vars
        => [Session!Next]_Session!vars
  <2> SUFFICES ASSUME SessionInv, cur <= 1, cur' <= 1, [Next]_vars
               PROVE  [Session!Next]_Session!vars
    OBVIOUS
  <2>1. CASE UNCHANGED vars
    <3>1. UNCHANGED <<Waiting, Visiting, Visited, outcome[1]>>
      BY <2>1
      DEF vars, queueVars, crawlVars, Waiting, Visiting, Visited, AddressesOf
    <3> QED
      BY <3>1, SessionVars
  <2>2. CASE StartCrawl /\ cur = 0
    <3>1. /\ FirstInv /\ outcome[1] = "none"
      BY FirstProps, <2>2
      DEF SessionInv, SessionState, ResultKnown, FirstState, Beginning
    <3>2. UNCHANGED <<queue, running, crawled>> /\ outcome'[1] = "pending"
      BY <2>2, <3>1, SessionStart
    <3>3. SessionStarts
      BY <3>1, <3>2 DEF SessionStarts, Waiting, Visiting, Visited, AddressesOf
    <3> QED
      BY <3>3, SessionActions
  <2>3. CASE SessionStep
    BY <2>3, StepOfSession, SessionVars
  <2> QED
    BY <2>1, <2>2, <2>3, SessionSteps
<1> QED
  BY <1>1, <1>2, SessionCorrect, PTL DEF Spec, ImplementsSession, Session!Spec
=============================================================================

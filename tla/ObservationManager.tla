------------------------- MODULE ObservationManager -------------------------
(***************************************************************************)
(* network-observer/: the life of an Observation (observation.ts, Idle ->  *)
(* Syncing -> Synced -> Stopping -> Stopped) and the ObservationManager    *)
(* with its two timers. startCrawl creates one Observation per call, so    *)
(* observations are named by calls.                                        *)
(*                                                                         *)
(* StragglerTimer keeps a set of timers of one and the same duration       *)
(* (utilities/timers.ts), which the runtime fires in the order they were   *)
(* started: stragglers is the sequence of the pending ones. A timer that   *)
(* ends a stop carries what happens when the last nodes are disconnected:  *)
(* which observation is stopped, whose promise is settled, and the state   *)
(* the crawl is left in.                                                   *)
(***************************************************************************)
EXTENDS ConnectionManager, Sequences

CONSTANT TopTier   \* addresses of the top tier nodes

ASSUME TopTierAssumption == TopTier \subseteq Addr

ObservationState == {"Idle", "Syncing", "Synced", "Stopping", "Stopped"}

\* What follows a completed stop(): obs is the observation, owner the call
\* whose promise settles, then the crawl state finish() is followed by.
Done == [obs : 0 .. MaxCalls, owner : 0 .. MaxCalls,
         then : {"IDLE", "STOPPING"}]

\* A straggler timer without done callback.
NoDone == [obs |-> 0, owner |-> 0, then |-> "IDLE"]

VARIABLES
    obsState,    \* Observation.state
    halted,      \* Observation.networkHalted
    connected,   \* addresses of the peerNodes with successfullyConnected
    stragglers,  \* pending straggler timers, the next to fire first
    consensus,   \* observation the consensus timer is armed for, 0 if none
    settling     \* stopped observations whose stop() promise is resolved
                 \* and whose continuation has not run yet

obsVars == <<obsState, halted, connected, stragglers, consensus, settling>>

ObsTypeOK ==
    /\ obsState \in [Call -> ObservationState]
    /\ halted \in [Call -> BOOLEAN]
    /\ connected \in [Call -> SUBSET Addr]
    /\ stragglers \in Seq([addrs : SUBSET Addr, done : Done])
    /\ consensus \in 0 .. MaxCalls
    /\ settling \in Seq(Done)

ObsInit ==
    /\ obsState = [k \in Call |-> "Idle"]
    /\ halted = [k \in Call |-> FALSE]
    /\ connected = [k \in Call |-> {}]
    /\ stragglers = <<>>
    /\ consensus = 0
    /\ settling = <<>>

-----------------------------------------------------------------------------

\* Variant of StragglersWith that starts no second timer while one is pending.
OneStragglerTimer(A, d) ==
    IF A = {} \/ stragglers # <<>> THEN stragglers
    ELSE Append(stragglers, [addrs |-> A, done |-> d])

\* startStragglerTimeout: no timer for no addresses
StragglersWith(A, d) ==
    IF A = {} THEN stragglers
    ELSE Append(stragglers, [addrs |-> A, done |-> d])

\* The addresses startStragglerTimeoutForActivePeers(false, ...) listens to.
ActivePeers(act) == Tracked(act) \ TopTier

\* startSync, up to the timer it awaits
StartSync(k) ==
    /\ obsState' = [obsState EXCEPT ![k] = "Syncing"]
    /\ conn' = Connecting(conn, {k} \X TopTier)

\* Variant of SyncCompleted that does not start the consensus timer.
SyncCompletedUnwatched(k) ==
    /\ obsState' = [obsState EXCEPT ![k] = "Synced"]
    /\ UNCHANGED consensus

\* syncCompleted
SyncCompleted(k) ==
    /\ obsState' = [obsState EXCEPT ![k] = "Synced"]
    /\ consensus' = k

\* ledgerCloseConfirmed, only reached while Synced (on-peer-data.ts)
LedgerCloseConfirmed(k) ==
    /\ halted' = [halted EXCEPT ![k] = FALSE]
    /\ stragglers' = StragglersWith(ActivePeers(active), NoDone)
    /\ consensus' = k
    /\ UNCHANGED <<obsState, connected, settling>>

\* Variant of NetworkHalted that gives no straggler timeout to active peers.
NetworkHaltedOnly ==
    /\ halted' = [halted EXCEPT ![consensus] = TRUE]
    /\ consensus' = 0
    /\ UNCHANGED <<obsState, connected, settling, stragglers>>

\* onNetworkHalted
NetworkHalted ==
    /\ halted' = [halted EXCEPT ![consensus] = TRUE]
    /\ stragglers' = StragglersWith(ActivePeers(active), NoDone)
    /\ consensus' = 0
    /\ UNCHANGED <<obsState, connected, settling>>

\* onObservationStopped: the promise of stop() resolves with what follows
ObservationStopped(d) == settling' = Append(settling, d)

\* Variant of LastNodesDisconnected that leaves the other straggler timers be.
StragglersNotStopped(con, act, d) ==
    /\ obsState' = [obsState EXCEPT ![d.obs] = "Stopped"]
    /\ stragglers' = IF stragglers = <<>> THEN <<>> ELSE Tail(stragglers)
    /\ conn' = ShutDown(con, act)
    /\ ObservationStopped(d)

\* onLastNodesDisconnected, called with con and act the connections
LastNodesDisconnected(con, act, d) ==
    /\ obsState' = [obsState EXCEPT ![d.obs] = "Stopped"]
    /\ stragglers' = <<>>
    /\ conn' = ShutDown(con, act)
    /\ ObservationStopped(d)

\* stopObservation with active connections left: they become stragglers
AwaitStragglers(con, act, d) ==
    /\ obsState' = [obsState EXCEPT ![d.obs] = "Stopping"]
    /\ stragglers' = StragglersWith(Tracked(act), d)
    /\ conn' = con
    /\ UNCHANGED settling

\* Variant of StopObservation that leaves the consensus timer running.
StopWatched(con, act, d) ==
    /\ IF Tracked(act) = {}
       THEN LastNodesDisconnected(con, act, d)
       ELSE AwaitStragglers(con, act, d)
    /\ UNCHANGED <<consensus, halted, connected>>

\* stopObservation, called with con and act the connections
StopObservation(con, act, d) ==
    /\ consensus' = 0
    /\ IF Tracked(act) = {}
       THEN LastNodesDisconnected(con, act, d)
       ELSE AwaitStragglers(con, act, d)
    /\ UNCHANGED <<halted, connected>>

-----------------------------------------------------------------------------

\* Variant of ReusesKey that looks the node up by its address.
ReusesAddress(k, c) == c[2] \in connected[k]

\* addSuccessfullyConnected refuses a key that already connected
ReusesKey(k, c) == \E a \in connected[k] : PublicKeyOf[a] = PublicKeyOf[c[2]]

\* Variant of LeavesSoon that forgets the peers that connect during a stop.
LeavesWhenHalted(k) == halted[k]

\* Variant of LeavesSoon that forgets the peers of a halted network.
LeavesWhenStopping(k) == obsState[k] = "Stopping"

\* onPeerConnected ends in a straggler timer of its own for the new peer
LeavesSoon(k) == halted[k] \/ obsState[k] = "Stopping"

\* OnPeerConnected.handle for observation k
PeerConnected(k, c) ==
    /\ active' = Entered(active, c)
    /\ IF ReusesKey(k, c)
       THEN /\ conn' = DisconnectByAddress(Opened(conn, c), active', {c[2]})
            /\ UNCHANGED <<connected, stragglers>>
       ELSE /\ conn' = Opened(conn, c)
            /\ connected' = [connected EXCEPT ![k] = @ \cup {c[2]}]
            /\ stragglers' = IF LeavesSoon(k)
                             THEN StragglersWith({c[2]}, NoDone)
                             ELSE stragglers
    /\ UNCHANGED <<obsState, halted, consensus, settling>>
=============================================================================

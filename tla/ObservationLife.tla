-------------------------- MODULE ObservationLife --------------------------
(***************************************************************************)
(* What the message handlers can rely on of the observation they work for  *)
(* and of its connections (network-observer.ts:55-78, on-peer-data.ts,     *)
(* on-peer-connected.ts): when a connection starts and stops to deliver    *)
(* messages, which one is the entry of its address, and how the state of   *)
(* the observation moves. Why a connection ends or a state moves (timers,  *)
(* the crawl queue, other peers) is left open.                             *)
(*                                                                         *)
(* StellarMessages takes its environment from here, and Crawler implements *)
(* it (Crawler!ImplementsLife): the two parts of the project meet in this  *)
(* module.                                                                 *)
(*                                                                         *)
(* conn is as in ConnectionManager, except that a connection that has not  *)
(* completed its handshake is "none": message handlers never see it.       *)
(***************************************************************************)
EXTENDS ConnectionManager

VARIABLES
    phase,    \* state of the observation as message handlers tell it apart
    joined    \* addresses of the peerNodes with successfullyConnected

lifeVars == <<connVars, phase, joined>>

Phase == {"Syncing", "Synced", "Stopping"}

LifeTypeOK ==
    /\ ConnTypeOK
    /\ phase \in Phase
    /\ joined \subseteq Addr

LifeInit ==
    /\ ConnInit
    /\ phase = "Syncing"
    /\ joined = {}

-----------------------------------------------------------------------------

\* The node behind c connected before, under another address.
AlreadyJoined(c) == \E a \in joined : PublicKeyOf[a] = PublicKeyOf[c[2]]

\* A connection completes its handshake and becomes the entry of its address;
\* a node that already connected is disconnected at once.
Arrives(c) ==
    /\ conn[c] = "none" /\ ~Blacklisted(c)
    /\ active' = Entered(active, c)
    /\ IF AlreadyJoined(c)
       THEN /\ conn' = Destroyed(Opened(conn, c), {c})
            /\ UNCHANGED joined
       ELSE /\ conn' = Opened(conn, c)
            /\ joined' = joined \cup {c[2]}
    /\ UNCHANGED phase

\* The 'close' of a connection, of one that never connected included. It may
\* be what stops the observation.
Leaves(c) ==
    /\ conn[c] # "closed"
    /\ conn' = Closed(conn, c)
    /\ active' = Removed(active, c)
    /\ phase' = phase \/ (phase = "Synced" /\ phase' = "Stopping")
    /\ UNCHANGED joined

\* Open connections are destroyed; their 'close' is still to come.
AreDisconnected(D) ==
    /\ D # {} /\ \A c \in D : conn[c] = "open"
    /\ conn' = Destroyed(conn, D)
    /\ UNCHANGED <<active, phase, joined>>

\* The states after a state, none of which is left again.
Later(ph) ==
    CASE ph = "Syncing" -> {"Synced", "Stopping"}
      [] ph = "Synced" -> {"Stopping"}
      [] ph = "Stopping" -> {}

PhaseMoves ==
    /\ phase' \in Later(phase)
    /\ UNCHANGED <<connVars, joined>>

LifeNext ==
    \/ \E c \in Conn : Arrives(c) \/ Leaves(c)
    \/ \E D \in SUBSET {c \in Conn : conn[c] = "open"} : AreDisconnected(D)
    \/ PhaseMoves

LifeSpec == LifeInit /\ [][LifeNext]_lifeVars
=============================================================================

------------------------- MODULE ConnectionManager -------------------------
(***************************************************************************)
(* network-observer/connection-manager.ts: the connections the crawler     *)
(* opens and the map activeConnections in which it keeps, per address, the *)
(* connection that completed its handshake.                                *)
(*                                                                         *)
(* A connection is named by the startCrawl call that asked for it and the  *)
(* address it goes to: a call connects to an address at most once (the top *)
(* tier in startSync, every other address through one crawl task).         *)
(*                                                                         *)
(* The life of a connection is that of the js-stellar-node-connector       *)
(* object: connectTo creates it, 'connect' reports the handshake, destroy()*)
(* is answered by a later 'close' event, and the remote end may close it   *)
(* at any moment.                                                          *)
(*                                                                         *)
(* One handler may change the same connection twice (it is opened and then *)
(* destroyed for reusing a public key), so the operations are state        *)
(* transformers over a value con of conn and a value act of active.        *)
(***************************************************************************)
EXTENDS Integers, FiniteSets

CONSTANTS
    Addr,         \* addresses ip:port
    MaxCalls,     \* how often the application calls startCrawl
    PublicKey,    \* public keys of nodes
    PublicKeyOf,  \* the key the node at an address presents
    BlackList     \* CrawlerConfiguration.blackList

ASSUME ConnectionAssumption ==
    /\ IsFiniteSet(Addr)
    /\ MaxCalls \in Nat \ {0}
    /\ PublicKeyOf \in [Addr -> PublicKey]
    /\ BlackList \subseteq PublicKey

Call == 1 .. MaxCalls

Conn == Call \X Addr

ConnState == {"none", "connecting", "open", "destroyed", "closed"}

VARIABLES
    conn,    \* state of each connection
    active   \* activeConnections: the call whose connection is the entry
             \* of an address, 0 if the address has no entry

connVars == <<conn, active>>

ConnTypeOK ==
    /\ conn \in [Conn -> ConnState]
    /\ active \in [Addr -> 0 .. MaxCalls]

ConnInit ==
    /\ conn = [c \in Conn |-> "none"]
    /\ active = [a \in Addr |-> 0]

-----------------------------------------------------------------------------

\* Connections that exist: created and their 'close' event not yet handled.
Live(con) == {c \in Conn : con[c] \in {"connecting", "open", "destroyed"}}

\* getActiveConnectionAddresses
Tracked(act) == {a \in Addr : act[a] # 0}

\* The entries of activeConnections for the addresses of A.
TrackedConns(act, A) == {<<act[a], a>> : a \in A \cap Tracked(act)}

\* connectToNode, for the connections of C
Connecting(con, C) ==
    [c \in Conn |-> IF c \in C THEN "connecting" ELSE con[c]]

\* connection.destroy(), for the connections of C; the 'close' event follows
Destroyed(con, C) ==
    [c \in Conn |-> IF c \in C /\ con[c] \in {"connecting", "open"}
                    THEN "destroyed" ELSE con[c]]

\* disconnectByAddress, for the addresses of A
DisconnectByAddress(con, act, A) == Destroyed(con, TrackedConns(act, A))

\* shutdown: every entry of activeConnections is destroyed, connections
\* still in progress are not
ShutDown(con, act) == DisconnectByAddress(con, act, Addr)

\* 'connect' of a node that is not blacklisted: its connection becomes the
\* entry of the address, whatever the entry was
Opened(con, c) == [con EXCEPT ![c] = "open"]

\* Variant of Entered that stores the address instead of the connection.
EnteredAddress(act, c) == [act EXCEPT ![c[2]] = c[2]]

Entered(act, c) == [act EXCEPT ![c[2]] = c[1]]

\* 'close': the entry of the address goes, whichever connection it holds
Closed(con, c) == [con EXCEPT ![c] = "closed"]

\* Variant of Removed that forgets to delete the entry.
NotRemoved(act, c) == act

Removed(act, c) == [act EXCEPT ![c[2]] = 0]

Blacklisted(c) == PublicKeyOf[c[2]] \in BlackList
=============================================================================

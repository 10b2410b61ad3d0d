--------------------------- MODULE MetricsGateway ---------------------------
(***************************************************************************)
(* The monitoring feed of the admin pages (metrics.gateway.ts): statistics *)
(* are sent to a client when it connects, and to all every three seconds   *)
(* while a counter of clients says that somebody is watching.              *)
(***************************************************************************)
EXTENDS Integers, FiniteSets

CONSTANTS Watchers,    (* clients; an id is never used again                *)
          MaxPending   (* bound on broadcasts whose statistics are awaited  *)

\* What is assumed of the constants.
ASSUME WatcherAssumption ==
    /\ IsFiniteSet(Watchers)
    /\ MaxPending \in Nat

VARIABLES
    watching,           \* clients connected to the namespace
    left,               \* clients that have come and gone
    connectedClients,   \* the counter
    broadcastInterval,  \* does the interval run?
    greeting,           \* clients whose first statistics are awaited
    pending             \* broadcasts whose statistics are awaited

feedVars == <<watching, left, connectedClients, broadcastInterval, greeting,
              pending>>

FeedTypeOK ==
    /\ watching \subseteq Watchers
    /\ left \subseteq Watchers
    /\ connectedClients \in Int
    /\ broadcastInterval \in BOOLEAN
    /\ greeting \subseteq Watchers
    /\ pending \in 0..MaxPending

FeedInit ==
    /\ watching = {} /\ left = {}
    /\ connectedClients = 0
    /\ broadcastInterval = FALSE
    /\ greeting = {}
    /\ pending = 0

\* Mutant: only a second client starts the interval.
handleConnection_Second(c) ==
    /\ c \notin watching \cup left
    /\ watching' = watching \cup {c}
    /\ connectedClients' = connectedClients + 1
    /\ broadcastInterval' = (broadcastInterval \/ connectedClients = 1)
    /\ greeting' = greeting \cup {c}
    /\ UNCHANGED <<left, pending>>

handleConnection(c) ==
    /\ c \notin watching \cup left
    /\ watching' = watching \cup {c}
    /\ connectedClients' = connectedClients + 1
    /\ broadcastInterval' = (broadcastInterval \/ connectedClients' = 1)
    /\ greeting' = greeting \cup {c}
    /\ UNCHANGED <<left, pending>>

handleDisconnect(c) ==
    /\ c \in watching
    /\ watching' = watching \ {c}
    /\ left' = left \cup {c}
    /\ connectedClients' = connectedClients - 1
    /\ broadcastInterval' = (broadcastInterval /\ connectedClients' # 0)
    /\ UNCHANGED <<greeting, pending>>

\* sendStatsToClient: sent or failed, also to a client that has gone.
Greet(c) ==
    /\ c \in greeting
    /\ greeting' = greeting \ {c}
    /\ UNCHANGED <<watching, left, connectedClients, broadcastInterval, pending>>

\* The interval fires, however long the previous statistics take.
Tick ==
    /\ broadcastInterval /\ pending < MaxPending
    /\ pending' = pending + 1
    /\ UNCHANGED <<watching, left, connectedClients, broadcastInterval, greeting>>

Broadcast ==
    /\ pending > 0
    /\ pending' = pending - 1
    /\ UNCHANGED <<watching, left, connectedClients, broadcastInterval, greeting>>

FeedNext ==
    \/ \E c \in Watchers :
          handleConnection(c) \/ handleDisconnect(c) \/ Greet(c)
    \/ Tick \/ Broadcast

FeedSpec == FeedInit /\ [][FeedNext]_feedVars

-----------------------------------------------------------------------------

\* The counter is the number of connected clients, and statistics are
\* gathered periodically exactly while there is one.
FedWhileWatched ==
    /\ connectedClients = Cardinality(watching)
    /\ broadcastInterval <=> watching # {}
=============================================================================

------------------------- MODULE ContainersGateway -------------------------
(***************************************************************************)
(* Logs of and shells in a user's own container over Socket.IO             *)
(* (containers.gateway.ts).  A stream is closed when its client leaves, by *)
(* the maps of the gateway, which hold one stream per client, kind and     *)
(* container, and by a listener that every stream sets on its client.      *)
(* terminalInput writes into the shell its map names and changes neither.  *)
(***************************************************************************)
EXTENDS FiniteSets

CONSTANTS Sockets,        (* clients; an id is never used again             *)
          Subscriptions,  (* subscribeLogs and startTerminal messages       *)
          Rows,           (* container rows                                 *)
          NoStream        (* no entry in a map                              *)

\* What is assumed of the constants.
ASSUME SubscriptionAssumption ==
    /\ NoStream \notin Subscriptions
    /\ Sockets # {} /\ Rows # {}

Kinds == {"logs", "term"}

Keys == Sockets \X Rows \X Kinds

VARIABLES
    online,   \* clients whose socket is open
    present,  \* rows that exist and have a Docker container
    step,     \* step[q]: the call the handler of q awaits, or how it ended
    key,      \* key[q]: the client, the row and the kind of q
    source,   \* source[q]: the Docker stream of q
    streams   \* logStreams and execStreams

gatewayVars == <<online, present, step, key, source, streams>>

Steps == {"idle", "finding", "attaching", "attached", "late", "refused"}

StreamsTypeOK ==
    /\ online \subseteq Sockets
    /\ present \subseteq Rows
    /\ step \in [Subscriptions -> Steps]
    /\ key \in [Subscriptions -> Keys]
    /\ source \in [Subscriptions -> {"none", "open", "closed"}]
    /\ streams \in [Keys -> Subscriptions \cup {NoStream}]

StreamsInit ==
    /\ online = Sockets
    /\ present = Rows
    /\ step = [q \in Subscriptions |-> "idle"]
    /\ key = [q \in Subscriptions |-> CHOOSE k \in Keys : TRUE]
    /\ source = [q \in Subscriptions |-> "none"]
    /\ streams = [k \in Keys |-> NoStream]

Subscriber(q) == key[q][1]

RowOf(q) == key[q][2]

Continue(q, s) == step' = [step EXCEPT ![q] = s]

-----------------------------------------------------------------------------

\* A message arrives, and its row is looked up.
Subscribe(q) ==
    /\ step[q] = "idle"
    /\ \E k \in Keys : k[1] \in online /\ key' = [key EXCEPT ![q] = k]
    /\ Continue(q, "finding")
    /\ UNCHANGED <<online, present, source, streams>>

Find(q) ==
    /\ step[q] = "finding"
    /\ Continue(q, IF RowOf(q) \in present THEN "attaching" ELSE "refused")
    /\ UNCHANGED <<online, present, key, source, streams>>

\* logs() or exec and start() answer: the stream is entered into the map,
\* over the one that may be there, and listens to the client's disconnect,
\* in vain if the client has gone while the handler waited.
Attach(q) ==
    /\ step[q] = "attaching"
    /\ source' = [source EXCEPT ![q] = "open"]
    /\ streams' = [streams EXCEPT ![key[q]] = q]
    /\ Continue(q, IF Subscriber(q) \in online THEN "attached" ELSE "late")
    /\ UNCHANGED <<online, present, key>>

\* The database or Docker rejects.
Refuse(q) ==
    /\ step[q] \in {"finding", "attaching"}
    /\ Continue(q, "refused")
    /\ UNCHANGED <<online, present, key, source, streams>>

\* The container stops or the shell exits; the entry stays in the map.
SourceEnds(q) ==
    /\ source[q] = "open"
    /\ source' = [source EXCEPT ![q] = "closed"]
    /\ UNCHANGED <<online, present, step, key, streams>>

\* The row is deleted by another component.
RowGoes(r) ==
    /\ r \in present
    /\ present' = present \ {r}
    /\ UNCHANGED <<online, step, key, source, streams>>

\* Mutant: the streams themselves do not listen to the disconnect.
Leave_MapsOnly(c) ==
    /\ c \in online
    /\ online' = online \ {c}
    /\ source' = [q \in Subscriptions |->
                    IF \E k \in Keys : k[1] = c /\ streams[k] = q
                    THEN "closed" ELSE source[q]]
    /\ streams' = [k \in Keys |-> IF k[1] = c THEN NoStream ELSE streams[k]]
    /\ UNCHANGED <<present, step, key>>

\* handleDisconnect closes and forgets what the maps hold of the client, and
\* every attached stream hears of it by its own listener.
Leave(c) ==
    /\ c \in online
    /\ online' = online \ {c}
    /\ source' = [q \in Subscriptions |->
                    IF \/ \E k \in Keys : k[1] = c /\ streams[k] = q
                       \/ Subscriber(q) = c /\ step[q] = "attached"
                    THEN "closed" ELSE source[q]]
    /\ streams' = [k \in Keys |-> IF k[1] = c THEN NoStream ELSE streams[k]]
    /\ UNCHANGED <<present, step, key>>

StreamsNext ==
    \/ \E q \in Subscriptions :
          Subscribe(q) \/ Find(q) \/ Attach(q) \/ Refuse(q) \/ SourceEnds(q)
    \/ \E r \in Rows : RowGoes(r)
    \/ \E c \in Sockets : Leave(c)

StreamsSpec == StreamsInit /\ [][StreamsNext]_gatewayVars

-----------------------------------------------------------------------------

\* A client that has gone leaves no stream open and no entry in a map, also
\* when it subscribed twice to one container and the map lost the first
\* stream.  The exception: what Docker was still asked for when it left.
NothingLeftBehind ==
    /\ \A q \in Subscriptions :
          source[q] = "open" /\ Subscriber(q) \notin online => step[q] = "late"
    /\ \A k \in Keys :
          streams[k] # NoStream /\ k[1] \notin online => step[streams[k]] = "late"
=============================================================================

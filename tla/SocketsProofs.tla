---------------------------- MODULE SocketsProofs ----------------------------
(***************************************************************************)
(* The three Socket.IO gateways, for any clients, requests, rows and       *)
(* subscriptions: the web terminal, the log and exec gateway, the metrics  *)
(* feed, and the server on which they share nothing.                       *)
(***************************************************************************)
EXTENDS MCSockets, FiniteSetTheorems, TLAPS

-----------------------------------------------------------------------------
(***************************************************************************)
(* The web terminal: a client that waits for its answers loses no stream   *)
(* and has no command logged under another container.                      *)
(***************************************************************************)

Awaiting(r) == pc[r] \in {"finding", "opening"}

Shell(r) == r # None /\ KindOf[r] = "terminal"

\* The invariant: what holds between the answer to one request and the next.
OneAnswer ==
    \A r, q \in Requests :
        Awaiting(r) /\ Awaiting(q) /\ ClientOf[r] = ClientOf[q] => r = q

\* The handler that opens a stream has cleaned up the session before it.
OpensAlone ==
    \A r \in Requests : pc[r] = "opening" /\ ClientOf[r] \in connected =>
        /\ session[ClientOf[r]] = None
        /\ KindOf[r] = "terminal" => containerInfo[ClientOf[r]] \in {None, r}
        /\ KindOf[r] # "nginx"

\* The buffer belongs to the session, and so does the note of the container
\* when the session is a shell.
NotesMatch ==
    \A c \in connected :
        /\ buffer[c] \subseteq IF session[c] = None THEN {} ELSE {session[c]}
        /\ Shell(session[c]) => containerInfo[c] \in {None, session[c]}

TurnInv == TypeOK /\ OneAnswer /\ OpensAlone /\ NotesMatch /\ SoleStream

\* What a cleanup does to the session, the streams and the notes of clients.
LEMMA CleanupEffect ==
    ASSUME TypeOK, NEW c \in Clients, cleanupSession(c)
    PROVE  /\ session' \in [Clients -> Requests \cup {None}] /\ session'[c] = None
           /\ containerInfo' \in [Clients -> Requests \cup {None}]
           /\ buffer' \in [Clients -> SUBSET Requests]
           /\ stream' \in [Requests -> {"none", "open", "ended", "killed"}]
           /\ \A d \in Clients \ {c} : /\ session'[d] = session[d]
                                       /\ containerInfo'[d] = containerInfo[d]
                                       /\ buffer'[d] = buffer[d]
           /\ containerInfo'[c] \in {None, containerInfo[c]}
           /\ buffer'[c] = IF session[c] = None THEN buffer[c] ELSE {}
           /\ \A r \in Requests : stream'[r] = "open" =>
                                      stream[r] = "open" /\ r # session[c]
  BY GatewayAssumption DEF TypeOK, cleanupSession, Killed

\* Every step keeps the types, whatever a client sends while it waits.
LEMMA GatewayTypeStep == TypeOK /\ Next => TypeOK'
<1> SUFFICES ASSUME TypeOK, Next PROVE TypeOK'
  OBVIOUS
<1> USE GatewayAssumption DEF mapVars
<1>1. ASSUME NEW r \in Requests, Ask(r) \/ NotFound(r) PROVE TypeOK'
  BY <1>1 DEF Ask, NotFound, Goto, TypeOK
<1>2. ASSUME NEW r \in Requests, FoundTerminal(r) PROVE TypeOK'
  BY <1>2 DEF FoundTerminal, Goto, Killed, TypeOK
<1>3. ASSUME NEW r \in Requests, FoundLogs(r) PROVE TypeOK'
  BY <1>3, CleanupEffect DEF FoundLogs, Goto, TypeOK
<1>4. ASSUME NEW r \in Requests, Opened(r) PROVE TypeOK'
  BY <1>4 DEF Opened, Goto, TypeOK
<1>5. ASSUME NEW r \in Requests, OpenFails(r) PROVE TypeOK'
  BY <1>5, CleanupEffect DEF OpenFails, Goto, TypeOK
<1>6. ASSUME NEW r \in Requests, ConnectNginxLogs(r) PROVE TypeOK'
  BY <1>6 DEF ConnectNginxLogs, Goto, Killed, TypeOK
<1>7. ASSUME NEW r \in Requests, StreamEnds(r) PROVE TypeOK'
  BY <1>7 DEF StreamEnds, TypeOK
<1>8. ASSUME NEW r \in Requests, ShellExits(r) PROVE TypeOK'
  BY <1>8, CleanupEffect DEF ShellExits, TypeOK
<1>9. ASSUME NEW r \in Requests, StreamFails(r) PROVE TypeOK'
  BY <1>9 DEF StreamFails, Killed, TypeOK
<1>10. ASSUME NEW c \in Clients, TypeKey(c) PROVE TypeOK'
  BY <1>10 DEF TypeKey, TypeOK
<1>11. ASSUME NEW c \in Clients, EnterCommand(c) PROVE TypeOK'
  BY <1>11 DEF EnterCommand, TypeOK
<1>12. ASSUME NEW c \in Clients, Disconnect(c) PROVE TypeOK'
  BY <1>12, CleanupEffect DEF Disconnect, TypeOK
<1> QED
  BY <1>1, <1>2, <1>3, <1>4, <1>5, <1>6, <1>7, <1>8, <1>9, <1>10, <1>11, <1>12
     DEF Next

\* The sessions, streams and notes are of their types at every moment.
THEOREM GatewayTypeCorrect == Spec => []TypeOK
<1>1. Init => TypeOK
  BY GatewayAssumption DEF Init, TypeOK
<1>2. TypeOK /\ [Next]_vars => TypeOK'
  BY GatewayTypeStep DEF vars, mapVars, TypeOK
<1> QED
  BY <1>1, <1>2, PTL DEF Spec

\* A step that cleans up the session of c, after which c may be waiting for a
\* stream.
Cleaned(c) ==
    /\ terminalLog' = terminalLog
    /\ connected' \subseteq connected
    /\ OneAnswer'
    /\ session'[c] = None
    /\ buffer'[c] = {} \/ (session[c] = None /\ buffer'[c] = buffer[c])
    /\ \A d \in Clients \ {c} : /\ session'[d] = session[d]
                                /\ containerInfo'[d] = containerInfo[d]
                                /\ buffer'[d] = buffer[d]
    /\ \A q \in Requests : stream'[q] = "open" =>
                              stream[q] = "open" /\ q # session[c]
    /\ \A q \in Requests : pc'[q] = "opening" /\ ClientOf[q] \in connected' =>
          /\ KindOf[q] # "nginx"
          /\ \/ pc[q] = "opening" /\ ClientOf[q] # c
             \/ /\ ClientOf[q] = c
                /\ KindOf[q] = "terminal" => containerInfo'[c] \in {None, q}

\* Every step of clients that wait for their answers keeps the invariant.
LEMMA TurnStep ==
    ASSUME TurnInv, TypeOK', ~Overlap, Next
    PROVE  TurnInv' /\ (LoggedWhereTyped => LoggedWhereTyped')
<1> USE GatewayAssumption DEF Awaiting, Shell
<1> DEFINE Goal == TurnInv' /\ (LoggedWhereTyped => LoggedWhereTyped')
<1>a. TypeOK /\ OneAnswer /\ OpensAlone /\ NotesMatch /\ SoleStream
  BY DEF TurnInv
<1>b. \A r \in Requests : ClientOf[r] \in Clients /\ r # None
  OBVIOUS

\* What remains to show of a step that writes no row of the log.
<1>c. ASSUME UNCHANGED terminalLog, OneAnswer', OpensAlone', NotesMatch', SoleStream'
      PROVE  Goal
  BY <1>c DEF TurnInv, LoggedWhereTyped

\* A request that begins or ends without touching a session.
<1>1. ASSUME NEW r \in Requests, Ask(r) \/ NotFound(r) PROVE Goal
  <2>1. /\ pc' = [pc EXCEPT ![r] = "finding"] /\ ~Waiting(ClientOf[r])
        \/ pc' = [pc EXCEPT ![r] = "failed"]
    BY <1>1 DEF Ask, NotFound, Goto
  <2>2. UNCHANGED <<connected, session, containerInfo, buffer, stream, terminalLog>>
    BY <1>1 DEF Ask, NotFound, mapVars
  <2>3. OneAnswer'
    BY <1>a, <2>1 DEF OneAnswer, Waiting, TypeOK
  <2>4. OpensAlone' /\ NotesMatch' /\ SoleStream'
    BY <1>a, <2>1, <2>2 DEF OpensAlone, NotesMatch, SoleStream, TypeOK
  <2> QED
    BY <1>c, <2>2, <2>3, <2>4
<1>d. ASSUME NEW c \in Clients, Cleaned(c) PROVE Goal
  <2>1. OpensAlone'
    BY <1>a, <1>b, <1>d DEF OpensAlone, Cleaned
  <2>2. NotesMatch'
    BY <1>a, <1>d DEF NotesMatch, TypeOK, Cleaned
  <2>3. SoleStream'
    BY <1>a, <1>b, <1>d DEF SoleStream, Cleaned
  <2> QED
    BY <1>c, <1>d, <2>1, <2>2, <2>3 DEF Cleaned
<1>2. ASSUME NEW r \in Requests, FoundTerminal(r) PROVE Goal
  <2> DEFINE c == ClientOf[r]
  <2>1. /\ pc[r] = "finding" /\ KindOf[r] = "terminal"
        /\ pc' = [pc EXCEPT ![r] = "opening"]
        /\ containerInfo' = [containerInfo EXCEPT ![c] =
                               IF session[c] = None THEN r ELSE None]
        /\ buffer' = [buffer EXCEPT ![c] = {}]
        /\ session' = [session EXCEPT ![c] = None]
        /\ stream' = Killed(c)
        /\ UNCHANGED <<connected, terminalLog>>
    BY <1>2 DEF FoundTerminal, Goto
  <2>2. \A q \in Requests : stream'[q] = "open" =>
                                stream[q] = "open" /\ q # session[c]
    BY <2>1, <1>b DEF Killed, TypeOK, TurnInv
  <2>3. OneAnswer'
    BY <1>a, <2>1 DEF OneAnswer, TypeOK
  <2>4. \A q \in Requests : pc'[q] = "opening" /\ q # r =>
                                pc[q] = "opening" /\ ClientOf[q] # c
    BY <1>a, <2>1 DEF OneAnswer, TypeOK
  <2>5. /\ session'[c] = None /\ buffer'[c] = {} /\ containerInfo'[c] \in {None, r}
        /\ \A d \in Clients \ {c} : /\ session'[d] = session[d]
                                    /\ containerInfo'[d] = containerInfo[d]
                                    /\ buffer'[d] = buffer[d]
    BY <1>a, <1>b, <2>1 DEF TypeOK
  <2>6. c \in Clients
    BY <1>b
  <2>7. \A q \in Requests : pc'[q] = "opening" /\ ClientOf[q] \in connected' =>
                 /\ KindOf[q] # "nginx"
                 /\ \/ pc[q] = "opening" /\ ClientOf[q] # c
                    \/ /\ ClientOf[q] = c
                       /\ KindOf[q] = "terminal" => containerInfo'[c] \in {None, q}
    BY <1>a, <2>1, <2>4, <2>5 DEF OpensAlone
  <2> HIDE DEF c
  <2>8. Cleaned(c)
    BY <2>1, <2>2, <2>3, <2>5, <2>6, <2>7 DEF Cleaned
  <2> QED
    BY <1>d, <2>6, <2>8
<1>3. ASSUME NEW r \in Requests, FoundLogs(r) PROVE Goal
  <2> DEFINE c == ClientOf[r]
  <2>1. /\ pc[r] = "finding" /\ KindOf[r] = "logs" /\ cleanupSession(c)
        /\ pc' = [pc EXCEPT ![r] = "opening"]
        /\ UNCHANGED <<connected, terminalLog>>
    BY <1>3 DEF FoundLogs, Goto
  <2>2. OneAnswer'
    BY <1>a, <2>1 DEF OneAnswer, TypeOK
  <2>3. \A q \in Requests : pc'[q] = "opening" /\ ClientOf[q] \in connected' =>
           /\ KindOf[q] # "nginx"
           /\ q # r => pc[q] = "opening" /\ ClientOf[q] # c
    BY <1>a, <2>1 DEF OneAnswer, OpensAlone, TypeOK
  <2>4. c \in Clients
    BY <1>b
  <2> HIDE DEF c
  <2>5. \A q \in Requests : pc'[q] = "opening" /\ ClientOf[q] \in connected' =>
                 /\ KindOf[q] # "nginx"
                 /\ \/ pc[q] = "opening" /\ ClientOf[q] # c
                    \/ /\ ClientOf[q] = c
                       /\ KindOf[q] = "terminal" => containerInfo'[c] \in {None, q}
    BY <2>1, <2>3 DEF c
  <2>9. Cleaned(c)
    BY <1>a, <2>1, <2>2, <2>4, <2>5, CleanupEffect DEF Cleaned
  <2> QED
    BY <1>d, <2>4, <2>9
<1>4. ASSUME NEW r \in Requests, Opened(r) PROVE Goal
  <2> DEFINE c == ClientOf[r]
  <2>1. /\ pc[r] = "opening" /\ pc' = [pc EXCEPT ![r] = "done"]
        /\ stream' = [stream EXCEPT ![r] = "open"]
        /\ session' = [session EXCEPT ![c] = r]
        /\ UNCHANGED <<connected, containerInfo, buffer, terminalLog>>
    BY <1>4 DEF Opened, Goto
  <2>2. OneAnswer'
    BY <1>a, <2>1 DEF OneAnswer, TypeOK
  <2>3. \A q \in Requests : pc'[q] = "opening" => pc[q] = "opening" /\ ClientOf[q] # c
    BY <1>a, <2>1 DEF OneAnswer, TypeOK
  <2>4. OpensAlone'
    BY <1>a, <1>b, <2>1, <2>3 DEF OpensAlone, TypeOK
  <2>5. NotesMatch'
    BY <1>a, <1>b, <2>1 DEF OpensAlone, NotesMatch, TypeOK
  <2>6. SoleStream'
    BY <1>a, <1>b, <2>1 DEF OpensAlone, SoleStream, TypeOK
  <2> QED
    BY <1>c, <2>1, <2>2, <2>4, <2>5, <2>6
<1>5. ASSUME NEW r \in Requests, OpenFails(r) PROVE Goal
  <2> DEFINE c == ClientOf[r]
  <2>1. /\ pc[r] = "opening" /\ cleanupSession(c)
        /\ pc' = [pc EXCEPT ![r] = "failed"]
        /\ UNCHANGED <<connected, terminalLog>>
    BY <1>5 DEF OpenFails, Goto
  <2>2. OneAnswer'
    BY <1>a, <2>1 DEF OneAnswer, TypeOK
  <2>3. \A q \in Requests : pc'[q] = "opening" /\ ClientOf[q] \in connected' =>
           KindOf[q] # "nginx" /\ pc[q] = "opening" /\ ClientOf[q] # c
    BY <1>a, <2>1 DEF OneAnswer, OpensAlone, TypeOK
  <2>4. c \in Clients
    BY <1>b
  <2> HIDE DEF c
  <2>9. Cleaned(c)
    BY <1>a, <2>1, <2>2, <2>3, <2>4, CleanupEffect DEF Cleaned
  <2> QED
    BY <1>d, <2>4, <2>9
<1>6. ASSUME NEW r \in Requests, ConnectNginxLogs(r) PROVE Goal
  <2> DEFINE c == ClientOf[r]
  <2>1. /\ pc[r] = "idle" /\ KindOf[r] = "nginx" /\ ~Waiting(c)
        /\ pc' = [pc EXCEPT ![r] = "done"]
        /\ stream' = [Killed(c) EXCEPT ![r] = "open"]
        /\ session' = [session EXCEPT ![c] = r]
        /\ IF session[c] = None THEN UNCHANGED <<containerInfo, buffer>>
           ELSE /\ containerInfo' = [containerInfo EXCEPT ![c] = None]
                /\ buffer' = [buffer EXCEPT ![c] = {}]
        /\ UNCHANGED <<connected, terminalLog>>
    BY <1>6 DEF ConnectNginxLogs, Goto
  <2>2. OneAnswer'
    BY <1>a, <2>1 DEF OneAnswer, TypeOK
  <2>3. \A q \in Requests : pc'[q] = "opening" => pc[q] = "opening" /\ ClientOf[q] # c
    BY <2>1, <1>a DEF Waiting, TypeOK
  <2>4. OpensAlone'
    BY <1>a, <1>b, <2>1, <2>3 DEF OpensAlone, TypeOK
  <2>5. NotesMatch'
    BY <1>a, <1>b, <2>1 DEF NotesMatch, TypeOK
  <2>6. \A q \in Requests \ {r} : stream'[q] = "open" => stream[q] = "open" /\ q # session[c]
    BY <1>a, <1>b, <2>1 DEF Killed, TypeOK
  <2>7. SoleStream'
    BY <1>a, <1>b, <2>1, <2>6 DEF SoleStream, TypeOK
  <2> QED
    BY <1>c, <2>1, <2>2, <2>4, <2>5, <2>7
<1>7. ASSUME NEW r \in Requests, StreamEnds(r) PROVE Goal
  <2>1. /\ stream' = [stream EXCEPT ![r] = "ended"]
        /\ UNCHANGED <<connected, session, containerInfo, buffer, pc, terminalLog>>
    BY <1>7 DEF StreamEnds, mapVars
  <2>2. OneAnswer' /\ OpensAlone' /\ NotesMatch'
    BY <1>a, <2>1 DEF OneAnswer, OpensAlone, NotesMatch
  <2>3. SoleStream'
    BY <1>a, <2>1 DEF SoleStream, TypeOK
  <2> QED
    BY <1>c, <2>1, <2>2, <2>3

\* A request of the client may be opening its stream meanwhile.
<1>8. ASSUME NEW r \in Requests, ShellExits(r) PROVE Goal
  <2> DEFINE c == ClientOf[r]
  <2>1. cleanupSession(c) /\ UNCHANGED <<connected, pc, terminalLog>> /\ c \in Clients
    BY <1>8, <1>b DEF ShellExits
  <2> HIDE DEF c
  <2>2. OneAnswer'
    BY <1>a, <2>1 DEF OneAnswer
  <2>3. containerInfo'[c] \in {None, containerInfo[c]}
    BY <1>a, <2>1, CleanupEffect
  <2>4. \A q \in Requests : pc'[q] = "opening" /\ ClientOf[q] \in connected' =>
                 /\ KindOf[q] # "nginx"
                 /\ \/ pc[q] = "opening" /\ ClientOf[q] # c
                    \/ /\ ClientOf[q] = c
                       /\ KindOf[q] = "terminal" => containerInfo'[c] \in {None, q}
    BY <1>a, <2>1, <2>3 DEF OpensAlone
  <2>9. Cleaned(c)
    BY <1>a, <2>1, <2>2, <2>4, CleanupEffect DEF Cleaned
  <2> QED
    BY <1>d, <2>1, <2>9
<1>9. ASSUME NEW r \in Requests, StreamFails(r) PROVE Goal
  <2> DEFINE c == ClientOf[r]
  <2>1. /\ stream' = [Killed(c) EXCEPT ![r] = "killed"]
        /\ session' = [session EXCEPT ![c] = None]
        /\ IF session[c] = None THEN UNCHANGED <<containerInfo, buffer>>
           ELSE /\ containerInfo' = [containerInfo EXCEPT ![c] = None]
                /\ buffer' = [buffer EXCEPT ![c] = {}]
        /\ UNCHANGED <<connected, pc, terminalLog>> /\ c \in Clients
    BY <1>9, <1>b DEF StreamFails
  <2>2. \A q \in Requests : stream'[q] = "open" => stream[q] = "open" /\ q # session[c]
    BY <1>a, <1>b, <2>1 DEF Killed, TypeOK
  <2>3. /\ session'[c] = None /\ containerInfo'[c] \in {None, containerInfo[c]}
        /\ buffer'[c] = {} \/ (session[c] = None /\ buffer'[c] = buffer[c])
        /\ \A d \in Clients \ {c} : /\ session'[d] = session[d]
                                    /\ containerInfo'[d] = containerInfo[d]
                                    /\ buffer'[d] = buffer[d]
    BY <1>a, <2>1 DEF TypeOK
  <2> HIDE DEF c
  <2>4. OneAnswer'
    BY <1>a, <2>1 DEF OneAnswer
  <2>5. \A q \in Requests : pc'[q] = "opening" /\ ClientOf[q] \in connected' =>
                 /\ KindOf[q] # "nginx"
                 /\ \/ pc[q] = "opening" /\ ClientOf[q] # c
                    \/ /\ ClientOf[q] = c
                       /\ KindOf[q] = "terminal" => containerInfo'[c] \in {None, q}
    BY <1>a, <2>1, <2>3 DEF OpensAlone
  <2>6. Cleaned(c)
    BY <2>1, <2>2, <2>3, <2>4, <2>5 DEF Cleaned
  <2> QED
    BY <1>d, <2>1, <2>6
<1>10. ASSUME NEW c \in Clients, TypeKey(c) PROVE Goal
  <2>1. /\ session[c] # None /\ buffer' = [buffer EXCEPT ![c] = @ \cup {session[c]}]
        /\ UNCHANGED <<connected, session, containerInfo, stream, pc, terminalLog>>
    BY <1>10 DEF TypeKey
  <2>2. OneAnswer' /\ OpensAlone' /\ SoleStream'
    BY <1>a, <2>1 DEF OneAnswer, OpensAlone, SoleStream
  <2>3. NotesMatch'
    BY <1>a, <2>1 DEF NotesMatch, TypeOK
  <2> QED
    BY <1>c, <2>1, <2>2, <2>3

\* Everything typed since the last Enter was typed into the session, and the
\* row names its container.
<1>11. ASSUME NEW c \in Clients, EnterCommand(c) PROVE Goal
  <2>1. /\ Shell(session[c]) /\ c \in connected
        /\ buffer' = [buffer EXCEPT ![c] = {}]
        /\ UNCHANGED <<connected, session, containerInfo, stream, pc>>
    BY <1>11 DEF EnterCommand
  <2>2. OneAnswer' /\ OpensAlone' /\ SoleStream'
    BY <1>a, <2>1 DEF OneAnswer, OpensAlone, SoleStream
  <2>3. NotesMatch'
    BY <1>a, <2>1 DEF NotesMatch, TypeOK
  <2>4. \A x \in buffer[c] \cup {session[c]} : x = session[c]
    BY <1>a, <2>1 DEF NotesMatch
  <2>5. containerInfo[c] \in {None, session[c]}
    BY <1>a, <2>1 DEF NotesMatch
  <2>6. ASSUME LoggedWhereTyped, NEW e \in terminalLog', NEW x \in e.typed
        PROVE  ContainerOf[x] = ContainerOf[e.as]
    <3>1. CASE e \in terminalLog
      BY <2>6, <3>1 DEF LoggedWhereTyped
    <3>2. CASE e \notin terminalLog
      <4>1. /\ containerInfo[c] # None
            /\ e = [typed |-> buffer[c] \cup {session[c]}, as |-> containerInfo[c]]
        BY <1>11, <3>2 DEF EnterCommand
      <4> QED
        BY <2>4, <2>5, <2>6, <4>1
    <3> QED
      BY <3>1, <3>2
  <2> QED
    BY <2>2, <2>3, <2>6 DEF TurnInv, LoggedWhereTyped
<1>12. ASSUME NEW c \in Clients, Disconnect(c) PROVE Goal
  <2>1. /\ connected' = connected \ {c} /\ cleanupSession(c)
        /\ UNCHANGED <<pc, terminalLog>>
    BY <1>12 DEF Disconnect
  <2>2. OneAnswer'
    BY <1>a, <2>1 DEF OneAnswer
  <2>3. \A q \in Requests : pc'[q] = "opening" /\ ClientOf[q] \in connected' =>
           KindOf[q] # "nginx" /\ pc[q] = "opening" /\ ClientOf[q] # c
    BY <1>a, <2>1 DEF OpensAlone
  <2>9. Cleaned(c)
    BY <1>a, <2>1, <2>2, <2>3, CleanupEffect DEF Cleaned
  <2> QED
    BY <1>d, <2>9
<1> QED
  BY <1>1, <1>2, <1>3, <1>4, <1>5, <1>6, <1>7, <1>8, <1>9, <1>10, <1>11, <1>12
     DEF Next

TurnsKept == TurnInv /\ LoggedWhereTyped

\* The invariant holds at every moment.
LEMMA TurnsTaken == ASSUME ~Overlap PROVE Spec => []TurnsKept
<1>1. Init => TurnsKept
  BY GatewayAssumption DEF Init, TurnsKept, TurnInv, TypeOK, OneAnswer, OpensAlone,
     NotesMatch, SoleStream, LoggedWhereTyped, Awaiting, Shell
<1>2. TurnsKept /\ [Next]_vars => TurnsKept'
  <2> SUFFICES ASSUME TurnsKept, [Next]_vars PROVE TurnsKept'
    OBVIOUS
  <2>1. CASE UNCHANGED vars
    BY <2>1 DEF vars, mapVars, TurnsKept, TurnInv, TypeOK, OneAnswer, OpensAlone,
       NotesMatch, SoleStream, LoggedWhereTyped, Awaiting, Shell
  <2>2. CASE Next
    <3>1. TypeOK'
      BY <2>2, GatewayTypeStep DEF TurnsKept, TurnInv
    <3> QED
      BY <2>2, <3>1, TurnStep DEF TurnsKept
  <2> QED
    BY <2>1, <2>2
<1> QED
  BY <1>1, <1>2, PTL DEF Spec

\* Replacing, ending and failing sessions, and shells that exit late, leave a
\* client that waits for its answers no stream but the one of its session.
THEOREM NoStreamLost == ASSUME ~Overlap PROVE Spec => []SoleStream
<1>1. TurnsKept => SoleStream
  BY DEF TurnsKept, TurnInv
<1> QED
  BY <1>1, TurnsTaken, PTL

\* The commands of a client that waits for its answers are logged under the
\* container they were typed into, or not at all.
THEOREM CommandsLoggedRight == ASSUME ~Overlap PROVE Spec => []LoggedWhereTyped
<1>1. TurnsKept => LoggedWhereTyped
  BY DEF TurnsKept
<1> QED
  BY <1>1, TurnsTaken, PTL

-----------------------------------------------------------------------------
(***************************************************************************)
(* The log and exec gateway.                                               *)
(***************************************************************************)

\* The invariant that makes NothingLeftBehind inductive: streams are open,
\* and entered into the maps under their own key, only once attached.
AttachedInv ==
    /\ \A q \in Subscriptions : source[q] = "open" => step[q] \in {"attached", "late"}
    /\ \A k \in Keys : streams[k] # NoStream =>
          step[streams[k]] \in {"attached", "late"} /\ key[streams[k]] = k

StreamsInv == StreamsTypeOK /\ AttachedInv /\ NothingLeftBehind

\* What every proof below needs of the types.
LEMMA KeyParts == \A k \in Keys : k[1] \in Sockets /\ k[2] \in Rows
  BY DEF Keys

\* Every message, answer, disconnect and end of a stream keeps the invariant.
LEMMA StreamsStep ==
    ASSUME SubscriptionAssumption, StreamsInv, [StreamsNext]_gatewayVars
    PROVE  StreamsInv'
<1> USE DEF StreamsInv, StreamsTypeOK, AttachedInv, NothingLeftBehind, SubscriptionAssumption,
            Continue, Subscriber, RowOf, Steps
<1>1. ASSUME NEW q \in Subscriptions, Subscribe(q) PROVE StreamsInv'
  <2>1. PICK k \in Keys : key' = [key EXCEPT ![q] = k]
    BY <1>1 DEF Subscribe
  <2>2. /\ step[q] = "idle" /\ step' = [step EXCEPT ![q] = "finding"]
        /\ UNCHANGED <<online, present, source, streams>>
    BY <1>1 DEF Subscribe
  <2>3. QED
    BY <2>1, <2>2
<1>2. ASSUME NEW q \in Subscriptions, Find(q) \/ Refuse(q) PROVE StreamsInv'
  <2>1. PICK s \in {"attaching", "refused"} : step' = [step EXCEPT ![q] = s]
    BY <1>2 DEF Find, Refuse
  <2>2. /\ step[q] \in {"finding", "attaching"}
        /\ UNCHANGED <<online, present, key, source, streams>>
    BY <1>2 DEF Find, Refuse
  <2>3. QED
    BY <2>1, <2>2
<1>3. ASSUME NEW q \in Subscriptions, Attach(q) PROVE StreamsInv'
  BY <1>3 DEF Attach
<1>4. ASSUME NEW q \in Subscriptions, SourceEnds(q) PROVE StreamsInv'
  BY <1>4 DEF SourceEnds
<1>5. ASSUME NEW r \in Rows, RowGoes(r) PROVE StreamsInv'
  BY <1>5 DEF RowGoes
<1>6. ASSUME NEW c \in Sockets, Leave(c) PROVE StreamsInv'
  BY <1>6 DEF Leave
<1>7. CASE UNCHANGED gatewayVars
  BY <1>7 DEF gatewayVars
<1>8. QED
  BY <1>1, <1>2, <1>3, <1>4, <1>5, <1>6, <1>7 DEF StreamsNext

\* Before anybody subscribes, the invariant holds.
LEMMA StreamsStart ==
    ASSUME SubscriptionAssumption PROVE StreamsInit => StreamsInv
<1>1. Keys # {}
  <2>1. PICK c \in Sockets, r \in Rows : TRUE
    BY DEF SubscriptionAssumption
  <2>2. <<c, r, "logs">> \in Keys
    BY DEF Keys, Kinds
  <2>3. QED
    BY <2>2
<1> DEFINE first == CHOOSE k \in Keys : TRUE
<1>2. first \in Keys
  BY <1>1
<1>3. StreamsInit => key = [q \in Subscriptions |-> first]
  BY DEF StreamsInit
<1> HIDE DEF first
<1>4. StreamsInit => StreamsTypeOK
  BY <1>2, <1>3 DEF StreamsInit, StreamsTypeOK, Steps
<1>5. QED
  BY <1>4 DEF StreamsInit, StreamsInv, StreamsTypeOK, AttachedInv, NothingLeftBehind

\* However often a client subscribes, and whenever it leaves, only what
\* Docker was still asked for can outlive it.
THEOREM ClientsLeaveNothing ==
    ASSUME SubscriptionAssumption PROVE StreamsSpec => []NothingLeftBehind
<1>1. StreamsInit => StreamsInv
  BY StreamsStart
<1>2. StreamsInv /\ [StreamsNext]_gatewayVars => StreamsInv'
  BY StreamsStep
<1>3. StreamsInv => NothingLeftBehind
  BY DEF StreamsInv
<1>4. QED
  BY <1>1, <1>2, <1>3, PTL DEF StreamsSpec

-----------------------------------------------------------------------------
(***************************************************************************)
(* The metrics feed.                                                       *)
(***************************************************************************)

\* Connections and disconnections keep the counter equal to the number of
\* clients and the interval running exactly while it is positive: the tests
\* for one and for zero in handleConnection and handleDisconnect suffice.
LEMMA FeedStep ==
    ASSUME WatcherAssumption, FeedTypeOK, FedWhileWatched, [FeedNext]_feedVars
    PROVE  FedWhileWatched'
<1> USE DEF FedWhileWatched
<1>1. watching \subseteq Watchers /\ IsFiniteSet(watching)
  BY FS_Subset DEF FeedTypeOK, WatcherAssumption
<1>2. Cardinality(watching) \in Nat
  BY <1>1, FS_CardinalityType
<1>3. CASE UNCHANGED <<watching, connectedClients, broadcastInterval>>
  BY <1>3
<1>4. ASSUME NEW c \in Watchers, handleConnection(c) PROVE FedWhileWatched'
  <2>1. c \notin watching
    BY <1>4 DEF handleConnection
  <2>2. Cardinality(watching \cup {c}) = Cardinality(watching) + 1
    BY <1>1, <2>1, FS_AddElement
  <2>3. /\ watching' = watching \cup {c}
        /\ connectedClients' = connectedClients + 1
        /\ broadcastInterval' = (broadcastInterval \/ connectedClients' = 1)
    BY <1>4 DEF handleConnection
  <2>4. watching = {} => Cardinality(watching) = 0
    BY FS_EmptySet
  <2>5. broadcastInterval'
    <3>1. CASE watching = {}
      <4>1. connectedClients' = 1
        BY <2>3, <2>4, <3>1
      <4>2. QED
        BY <2>3, <4>1
    <3>2. CASE watching # {}
      BY <2>3, <3>2
    <3>3. QED
      BY <3>1, <3>2
  <2>6. connectedClients' = Cardinality(watching')
    BY <2>2, <2>3
  <2>7. QED
    BY <2>3, <2>5, <2>6
<1>5. ASSUME NEW c \in Watchers, handleDisconnect(c) PROVE FedWhileWatched'
  <2>1. c \in watching
    BY <1>5 DEF handleDisconnect
  <2>2. Cardinality(watching \ {c}) = Cardinality(watching) - 1
    BY <1>1, <2>1, FS_RemoveElement
  <2>3. /\ watching' = watching \ {c}
        /\ connectedClients' = connectedClients - 1
        /\ broadcastInterval' = (broadcastInterval /\ connectedClients' # 0)
    BY <1>5 DEF handleDisconnect
  <2>4. connectedClients' = Cardinality(watching')
    BY <2>2, <2>3
  <2>5. IsFiniteSet(watching')
    BY <1>1, <2>3, FS_Subset
  <2>6. Cardinality(watching') = 0 <=> watching' = {}
    BY <2>5, FS_EmptySet
  <2>7. broadcastInterval
    BY <2>1
  <2>8. broadcastInterval' <=> connectedClients' # 0
    BY <2>3, <2>7
  <2>9. broadcastInterval' <=> watching' # {}
    BY <2>4, <2>6, <2>8
  <2>10. QED
    BY <2>4, <2>9
<1>6. CASE FeedNext
  BY <1>3, <1>4, <1>5, <1>6 DEF FeedNext, Greet, Tick, Broadcast
<1>7. QED
  BY <1>3, <1>6 DEF feedVars

\* Before anybody connects, nobody is counted and the interval is off.
LEMMA FeedStart ==
    ASSUME WatcherAssumption PROVE FeedInit => FeedTypeOK /\ FedWhileWatched
<1>1. Cardinality({}) = 0
  BY FS_EmptySet
<1>2. FeedInit => FeedTypeOK
  <2>1. FeedInit => pending \in 0..MaxPending /\ connectedClients \in Int
    BY DEF FeedInit, WatcherAssumption
  <2>2. FeedInit => broadcastInterval \in BOOLEAN
    BY DEF FeedInit
  <2>3. QED
    BY <2>1, <2>2 DEF FeedInit, FeedTypeOK
<1>3. FeedInit => FedWhileWatched
  <2>1. FeedInit => watching = {} /\ connectedClients = Cardinality(watching)
    BY <1>1 DEF FeedInit
  <2>2. FeedInit => broadcastInterval = FALSE
    BY DEF FeedInit
  <2>3. QED
    BY <2>1, <2>2 DEF FedWhileWatched
<1>4. QED
  BY <1>2, <1>3

\* Connections, answers and ticks keep the types of the feed.
LEMMA FeedTypeStep ==
    ASSUME WatcherAssumption PROVE FeedTypeOK /\ [FeedNext]_feedVars => FeedTypeOK'
<1> SUFFICES ASSUME FeedTypeOK, [FeedNext]_feedVars PROVE FeedTypeOK'
  OBVIOUS
<1>1. pending' \in 0..MaxPending /\ connectedClients' \in Int
  BY DEF FeedTypeOK, FeedNext, feedVars, handleConnection, handleDisconnect, Greet,
         Tick, Broadcast, WatcherAssumption
<1>2. broadcastInterval' \in BOOLEAN
  BY DEF FeedTypeOK, FeedNext, feedVars, handleConnection, handleDisconnect, Greet,
         Tick, Broadcast
<1>3. watching' \subseteq Watchers /\ left' \subseteq Watchers /\ greeting' \subseteq Watchers
  BY DEF FeedTypeOK, FeedNext, feedVars, handleConnection, handleDisconnect, Greet,
         Tick, Broadcast
<1>4. QED
  BY <1>1, <1>2, <1>3 DEF FeedTypeOK

\* The counter never drifts from the number of connected clients, and nobody
\* watches without a feed, nor is statistics gathered for nobody.
THEOREM FeedFollowsClients ==
    ASSUME WatcherAssumption PROVE FeedSpec => [](FeedTypeOK /\ FedWhileWatched)
<1>1. FeedInit => FeedTypeOK /\ FedWhileWatched
  BY FeedStart
<1>2. FeedTypeOK /\ [FeedNext]_feedVars => FeedTypeOK'
  BY FeedTypeStep
<1>3. FeedTypeOK /\ FedWhileWatched /\ [FeedNext]_feedVars => FedWhileWatched'
  BY FeedStep
<1>4. QED
  BY <1>1, <1>2, <1>3, PTL DEF FeedSpec

-----------------------------------------------------------------------------
(***************************************************************************)
(* The three on one server.                                                *)
(***************************************************************************)

\* On the server that has the three gateways, each keeps its types: the maps
\* of sockets to sessions, buffers and streams hold what their handlers expect.
THEOREM SocketsTypeCorrect == SocketsSpec => []AllTypesOK
<1> DEFINE I == TypeOK /\ StreamsInv /\ FeedTypeOK
<1>1. SocketsInit => I
  <2>1. Init => TypeOK
    BY GatewayAssumption DEF Init, TypeOK
  <2> QED
    BY <2>1, StreamsStart, FeedStart, SubscriptionAssumption, WatcherAssumption DEF SocketsInit
<1>2. I /\ [SocketsNext]_allVars => I'
  <2> SUFFICES ASSUME I, [SocketsNext]_allVars PROVE I'
    OBVIOUS
  <2>1. (Next \/ UNCHANGED vars) /\ [StreamsNext]_gatewayVars /\ [FeedNext]_feedVars
    BY DEF SocketsNext, allVars
  <2>2. TypeOK'
    BY <2>1, GatewayTypeStep DEF vars, mapVars, TypeOK
  <2>3. StreamsInv'
    BY <2>1, StreamsStep, SubscriptionAssumption
  <2>4. FeedTypeOK'
    BY <2>1, FeedTypeStep, WatcherAssumption
  <2> QED
    BY <2>2, <2>3, <2>4
<1>3. I => AllTypesOK
  BY DEF AllTypesOK, StreamsInv
<1> QED
  BY <1>1, <1>2, <1>3, PTL DEF SocketsSpec
=============================================================================

-------------------------- MODULE TerminalGateway --------------------------
(***************************************************************************)
(* The web terminal (terminal.gateway.ts, terminal.service.ts): a socket   *)
(* client asks for a shell in a container, for the log of a container or   *)
(* for the nginx log, and has at most one such session at a time.          *)
(*                                                                         *)
(* Socket.IO delivers the next message of a client while the handler of    *)
(* the previous one awaits the database or Docker.  Streams end, fail and  *)
(* report their exit whenever they like.                                   *)
(***************************************************************************)
EXTENDS FiniteSets

CONSTANTS Clients,      (* sockets; an id is never used again               *)
          Requests,     (* connect_* messages                               *)
          ClientOf,     (* the client that sends a request                  *)
          KindOf,       (* "terminal", "logs" or "nginx"                    *)
          ContainerOf,  (* the container a request names                    *)
          Overlap,      (* may a client send before it has its answer?      *)
          Faults,       (* {"docker"} when calls to Docker may fail         *)
          None          (* no request                                       *)

ASSUME GatewayAssumption ==
    /\ ClientOf \in [Requests -> Clients]
    /\ KindOf \in [Requests -> {"terminal", "logs", "nginx"}]
    /\ DOMAIN ContainerOf = Requests
    /\ None \notin Requests
    /\ Overlap \in BOOLEAN
    /\ Faults \subseteq {"docker"}

VARIABLES
    connected,      \* clients whose socket is open
    session,        \* sessions: the request whose stream a client is given
    containerInfo,  \* containerInfo: the request that set it
    buffer,         \* commandBuffers: the streams typed into since Enter
    stream,         \* stream[r]: the stream opened for request r
    exiting,        \* ended shells whose exit code is still being asked for
    pc,             \* pc[r]: the call the handler of r awaits
    terminalLog     \* rows of the terminal log

mapVars == <<session, containerInfo, buffer>>
vars == <<connected, mapVars, stream, exiting, pc, terminalLog>>

TypeOK ==
    /\ connected \subseteq Clients
    /\ session \in [Clients -> Requests \cup {None}]
    /\ containerInfo \in [Clients -> Requests \cup {None}]
    /\ buffer \in [Clients -> SUBSET Requests]
    /\ stream \in [Requests -> {"none", "open", "ended", "killed"}]
    /\ exiting \subseteq Requests
    /\ pc \in [Requests -> {"idle", "finding", "opening", "done", "failed"}]
    /\ terminalLog \subseteq [typed : SUBSET Requests, as : Requests]

Init ==
    /\ connected = Clients
    /\ session = [c \in Clients |-> None]
    /\ containerInfo = [c \in Clients |-> None]
    /\ buffer = [c \in Clients |-> {}]
    /\ stream = [r \in Requests |-> "none"]
    /\ exiting = {}
    /\ pc = [r \in Requests |-> "idle"]
    /\ terminalLog = {}

-----------------------------------------------------------------------------

\* kill() destroys the stream; a destroyed stream does not emit "end".
Killed(c) ==
    IF session[c] = None THEN stream
    ELSE [stream EXCEPT ![session[c]] = IF @ = "open" THEN "killed" ELSE @]

\* cleanupSession forgets everything about the client, if it has a session.
cleanupSession(c) ==
    /\ stream' = Killed(c)
    /\ session' = [session EXCEPT ![c] = None]
    /\ IF session[c] = None THEN UNCHANGED <<containerInfo, buffer>>
       ELSE /\ containerInfo' = [containerInfo EXCEPT ![c] = None]
            /\ buffer' = [buffer EXCEPT ![c] = {}]

Goto(r, label) == pc' = [pc EXCEPT ![r] = label]

Waiting(c) == \E r \in Requests : ClientOf[r] = c /\ pc[r] \in {"finding", "opening"}

\* A message arrives and its row is looked up.
Ask(r) ==
    /\ pc[r] = "idle" /\ ClientOf[r] \in connected
    /\ Overlap \/ ~Waiting(ClientOf[r])
    /\ KindOf[r] # "nginx"
    /\ Goto(r, "finding")
    /\ UNCHANGED <<connected, mapVars, stream, exiting, terminalLog>>

NotFound(r) ==
    /\ pc[r] = "finding"
    /\ Goto(r, "failed")
    /\ UNCHANGED <<connected, mapVars, stream, exiting, terminalLog>>

\* Mutant: the map keeps an entry it has.
FoundTerminal_KeepInfo(r) ==
    LET c == ClientOf[r] IN
    /\ pc[r] = "finding" /\ KindOf[r] = "terminal"
    /\ containerInfo' = [containerInfo EXCEPT ![c] =
                           IF @ # None THEN @ ELSE IF session[c] = None THEN r ELSE None]
    /\ buffer' = [buffer EXCEPT ![c] = {}]
    /\ session' = [session EXCEPT ![c] = None]
    /\ stream' = Killed(c)
    /\ Goto(r, "opening")
    /\ UNCHANGED <<connected, exiting, terminalLog>>

\* handleConnectTerminal notes the container first and cleans up after: the
\* cleanup of an existing session takes the note with it.
FoundTerminal(r) ==
    LET c == ClientOf[r] IN
    /\ pc[r] = "finding" /\ KindOf[r] = "terminal"
    /\ containerInfo' = [containerInfo EXCEPT ![c] =
                           IF session[c] = None THEN r ELSE None]
    /\ buffer' = [buffer EXCEPT ![c] = {}]
    /\ session' = [session EXCEPT ![c] = None]
    /\ stream' = Killed(c)
    /\ Goto(r, "opening")
    /\ UNCHANGED <<connected, exiting, terminalLog>>

\* Mutant: the existing session is not cleaned up.
FoundLogs_NoCleanup(r) ==
    /\ pc[r] = "finding" /\ KindOf[r] = "logs"
    /\ Goto(r, "opening")
    /\ UNCHANGED <<connected, mapVars, stream, exiting, terminalLog>>

FoundLogs(r) ==
    /\ pc[r] = "finding" /\ KindOf[r] = "logs"
    /\ cleanupSession(ClientOf[r])
    /\ Goto(r, "opening")
    /\ UNCHANGED <<connected, exiting, terminalLog>>

\* The stream is open and becomes the session of the client, whatever
\* session it has by now and whether it is still connected or not.
Opened(r) ==
    /\ pc[r] = "opening"
    /\ stream' = [stream EXCEPT ![r] = "open"]
    /\ session' = [session EXCEPT ![ClientOf[r]] = r]
    /\ Goto(r, "done")
    /\ UNCHANGED <<connected, containerInfo, buffer, exiting, terminalLog>>

OpenFails(r) ==
    /\ pc[r] = "opening" /\ "docker" \in Faults
    /\ cleanupSession(ClientOf[r])
    /\ Goto(r, "failed")
    /\ UNCHANGED <<connected, exiting, terminalLog>>

\* handleConnectNginxLogs awaits nothing.
ConnectNginxLogs(r) ==
    LET c == ClientOf[r] IN
    /\ pc[r] = "idle" /\ c \in connected /\ KindOf[r] = "nginx"
    /\ Overlap \/ ~Waiting(c)
    /\ stream' = [Killed(c) EXCEPT ![r] = "open"]
    /\ session' = [session EXCEPT ![c] = r]
    /\ IF session[c] = None THEN UNCHANGED <<containerInfo, buffer>>
       ELSE /\ containerInfo' = [containerInfo EXCEPT ![c] = None]
            /\ buffer' = [buffer EXCEPT ![c] = {}]
    /\ Goto(r, "done")
    /\ UNCHANGED <<connected, exiting, terminalLog>>

\* Mutant: the row is written whether or not the container is known.
EnterCommand_NoInfoCheck(c) ==
    /\ session[c] # None /\ KindOf[session[c]] = "terminal" /\ c \in connected
    /\ terminalLog' = terminalLog \cup
          {[typed |-> buffer[c] \cup {session[c]}, as |-> containerInfo[c]]}
    /\ buffer' = [buffer EXCEPT ![c] = {}]
    /\ UNCHANGED <<connected, session, containerInfo, stream, exiting, pc>>

\* handleTerminalInput: a key, and the Enter that ends a command.
TypeKey(c) ==
    /\ session[c] # None /\ KindOf[session[c]] = "terminal" /\ c \in connected
    /\ buffer' = [buffer EXCEPT ![c] = @ \cup {session[c]}]
    /\ UNCHANGED <<connected, session, containerInfo, stream, exiting, pc,
                   terminalLog>>

EnterCommand(c) ==
    /\ session[c] # None /\ KindOf[session[c]] = "terminal" /\ c \in connected
    /\ terminalLog' = IF containerInfo[c] = None THEN terminalLog
                      ELSE terminalLog \cup {[typed |-> buffer[c] \cup {session[c]},
                                              as |-> containerInfo[c]]}
    /\ buffer' = [buffer EXCEPT ![c] = {}]
    /\ UNCHANGED <<connected, session, containerInfo, stream, exiting, pc>>

\* The shell exits or the log ends; only a shell asks for its exit code.
StreamEnds(r) ==
    /\ stream[r] = "open"
    /\ stream' = [stream EXCEPT ![r] = "ended"]
    /\ exiting' = IF KindOf[r] = "terminal" THEN exiting \cup {r} ELSE exiting
    /\ UNCHANGED <<connected, mapVars, pc, terminalLog>>

\* Mutant: only a known exit code is reported.
ShellExits_NoCatch(r) ==
    /\ r \in exiting
    /\ exiting' = exiting \ {r}
    /\ \/ cleanupSession(ClientOf[r])
       \/ "docker" \in Faults /\ UNCHANGED <<mapVars, stream>>
    /\ UNCHANGED <<connected, pc, terminalLog>>

\* onExit, with the exit code or without: it cleans up the client's session,
\* which need not be the one that ended.
ShellExits(r) ==
    /\ r \in exiting
    /\ exiting' = exiting \ {r}
    /\ cleanupSession(ClientOf[r])
    /\ UNCHANGED <<connected, pc, terminalLog>>

\* onError: the stream is dead, and the client's session is cleaned up.
StreamFails(r) ==
    /\ stream[r] = "open" /\ KindOf[r] # "nginx" /\ "docker" \in Faults
    /\ LET c == ClientOf[r] IN
       /\ stream' = [Killed(c) EXCEPT ![r] = "killed"]
       /\ session' = [session EXCEPT ![c] = None]
       /\ IF session[c] = None THEN UNCHANGED <<containerInfo, buffer>>
          ELSE /\ containerInfo' = [containerInfo EXCEPT ![c] = None]
               /\ buffer' = [buffer EXCEPT ![c] = {}]
    /\ UNCHANGED <<connected, exiting, pc, terminalLog>>

Disconnect(c) ==
    /\ c \in connected
    /\ connected' = connected \ {c}
    /\ cleanupSession(c)
    /\ UNCHANGED <<exiting, pc, terminalLog>>

Next ==
    \/ \E r \in Requests :
          \/ Ask(r) \/ NotFound(r) \/ FoundTerminal(r) \/ FoundLogs(r)
          \/ Opened(r) \/ OpenFails(r) \/ ConnectNginxLogs(r)
          \/ StreamEnds(r) \/ ShellExits(r) \/ StreamFails(r)
    \/ \E c \in Clients : TypeKey(c) \/ EnterCommand(c) \/ Disconnect(c)

Spec == Init /\ [][Next]_vars

\* The exit code of an ended shell is reported, or the inspection fails.
FairSpec == Spec /\ \A r \in Requests : WF_vars(ShellExits(r))

-----------------------------------------------------------------------------

\* A client that waits for its answers has no open stream but the one of its
\* session: replacing, ending and failing sessions lose none.
SoleStream ==
    \A r \in Requests : stream[r] = "open" /\ ClientOf[r] \in connected
                          => session[ClientOf[r]] = r

\* A client that waits for its answers has its commands logged under the
\* container they were typed into, or not at all.
LoggedWhereTyped ==
    \A e \in terminalLog : \A r \in e.typed : ContainerOf[r] = ContainerOf[e.as]

\* The session of a shell that has exited is eventually given up.
ExitedShellGivenUp ==
    \A r \in Requests : stream[r] = "ended" /\ KindOf[r] = "terminal"
                          ~> session[ClientOf[r]] # r

\* "Complete audit trail for all user actions": whoever has a shell has the
\* commands of it logged.
ShellIsLogged ==
    \A c \in Clients : session[c] # None /\ KindOf[session[c]] = "terminal"
                         => containerInfo[c] # None
=============================================================================

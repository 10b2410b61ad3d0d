----------------------------- MODULE Containers -----------------------------
(***************************************************************************)
(* The operations on deployed containers (containers.service.ts, and the   *)
(* admin's own versions in admin-containers.service.ts and                 *)
(* admin-projects.service.ts), and the three stores they keep in step: the *)
(* container rows, the Docker engine and the nginx route of the project.   *)
(*                                                                         *)
(* A handler reads its row once, into seen[h], and works on that copy      *)
(* across every later await.  The Docker container i is the one an initial *)
(* row or a create brought, or the one that handler i created anew.  Apart *)
(* from that id it bears a name, which Docker gives to one container at a  *)
(* time and the rows do not keep distinct.                                 *)
(***************************************************************************)
EXTENDS Integers, FiniteSets

CONSTANTS Containers,     (* container rows                                 *)
          Initial,        (* rows that exist when the model starts          *)
          NameOf,         (* the name column of a row; nothing makes it     *)
                          (* unique                                         *)
          BornAs,         (* the name the first Docker container of a row   *)
                          (* was created with; a deploy takes the time      *)
                          (* twice, so it may differ from the row's         *)
          ProjectOf,      (* the project of a row                           *)
          Routed,         (* projects with a domain                         *)
          Handlers,       (* requests                                       *)
          OpKinds,        (* the operations the requests may ask for        *)
          PoolPorts,      (* 8000..9999 in the code                         *)
          ExternalPorts,  (* 19000..25999 in the code                       *)
          Modes           (* the environments to consider, see Mode         *)

AllKinds == {"create", "start", "stop", "restart", "remove", "update",
             "allocatePort", "removePort", "adminRestart", "adminDelete",
             "suspend", "resume"}

\* An environment: may two handlers be in flight, how many requests come, and
\* which calls may fail: "crash", "db", "docker" or "nginx".
Mode == [overlap : BOOLEAN,
         requests : 0..Cardinality(Handlers),
         faults : SUBSET {"crash", "db", "docker", "nginx"}]

NoPort == 0

Ports == PoolPorts \cup ExternalPorts

Projects == {ProjectOf[c] : c \in Containers}

ASSUME ContainersAssumption ==
    /\ Containers # {}
    /\ Initial \subseteq Containers
    /\ \A c \in Containers \ Initial : BornAs[c] = NameOf[c]
    /\ \A c, d \in Initial : BornAs[c] = BornAs[d] => c = d
    /\ Handlers \cap Containers = {}
    /\ IsFiniteSet(Handlers)
    /\ OpKinds \subseteq AllKinds
    /\ Ports \subseteq Nat \ {0}
    /\ Modes \subseteq Mode

Ids == Containers \cup Handlers

VARIABLES
    mode,      \* the environment, chosen once
    rows,      \* container rows that exist
    dockerId,  \* dockerId[c]: the Docker container the row refers to
    hostPort,  \* hostPort[c]: the port the row asks for
    status,    \* status[c]: the status column
    project,   \* project[p]: the status of the project
    engine,    \* engine[i]: the Docker container i
    bind,      \* bind[i]: the host port Docker container i was created with
    conf,      \* conf[p]: the port nginx proxies the domain of p to
    pc,        \* pc[h]: the call handler h awaits
    kind,      \* kind[h], target[h]: what h was asked to do, and to which row
    target,
    seen,      \* seen[h]: h's copy of dockerId, hostPort and status
    wanted,    \* wanted[h]: the port h allocates, or publishes
    todo       \* todo[h]: containers suspend or resume has still to visit

rowVars == <<rows, dockerId, hostPort, status>>
dockerVars == <<engine, bind>>
requestVars == <<kind, target>>
vars == <<rowVars, project, dockerVars, conf, pc, requestVars, seen, wanted,
          todo>>

Ended == {"done", "failed", "thrown", "lost"}

InFlight(h) == pc[h] \notin Ended \cup {"idle"}

Settled == \A h \in Handlers : ~InFlight(h)

TypeOK ==
    /\ mode \in Modes
    /\ rows \subseteq Containers
    /\ dockerId \in [Containers -> Ids]
    /\ hostPort \in [Containers -> Ports \cup {NoPort}]
    /\ status \in [Containers -> {"RUNNING", "STOPPED"}]
    /\ project \in [Projects -> {"ACTIVE", "INACTIVE"}]
    /\ engine \in [Ids -> {"none", "stopped", "running"}]
    /\ bind \in [Ids -> Ports \cup {NoPort}]
    /\ conf \in [Projects -> Ports \cup {NoPort}]
    /\ kind \in [Handlers -> AllKinds \cup {"none"}]
    /\ target \in [Handlers -> Containers]
    /\ seen \in [Handlers -> [id : Ids, port : Ports \cup {NoPort}, up : BOOLEAN]]
    /\ wanted \in [Handlers -> Ports \cup {NoPort}]
    /\ todo \in [Handlers -> SUBSET Ids]

\* Every initial row is running on a port of its own, as a deploy leaves it,
\* or the allocation of an external port followed by a restart.
Init ==
    /\ mode \in Modes
    /\ rows = Initial
    /\ dockerId = [c \in Containers |-> c]
    /\ \E f \in [Initial -> Ports] :
          /\ \A c, d \in Initial : c # d => f[c] # f[d]
          /\ hostPort = [c \in Containers |-> IF c \in Initial THEN f[c] ELSE NoPort]
          /\ bind = [i \in Ids |-> IF i \in Initial THEN f[i] ELSE NoPort]
          /\ conf \in [Projects -> Ports \cup {NoPort}]
          /\ \A p \in Projects :
                IF p \in Routed
                THEN \E c \in Initial : ProjectOf[c] = p /\ conf[p] = f[c]
                ELSE conf[p] = NoPort
    /\ status = [c \in Containers |-> IF c \in Initial THEN "RUNNING" ELSE "STOPPED"]
    /\ project = [p \in Projects |-> "ACTIVE"]
    /\ engine = [i \in Ids |-> IF i \in Initial THEN "running" ELSE "none"]
    /\ pc = [h \in Handlers |-> "idle"]
    /\ kind = [h \in Handlers |-> "none"]
    /\ target = [h \in Handlers |-> CHOOSE c \in Containers : TRUE]
    /\ seen = [h \in Handlers |-> [id |-> h, port |-> NoPort, up |-> FALSE]]
    /\ wanted = [h \in Handlers |-> NoPort]
    /\ todo = [h \in Handlers |-> {}]

-----------------------------------------------------------------------------
(***************************************************************************)
(* The Docker engine                                                       *)
(***************************************************************************)

\* A port that a running container other than i holds.
PortBound(i) == \E j \in Ids \ {i} : /\ engine[j] = "running"
                                     /\ bind[j] # NoPort /\ bind[j] = bind[i]

\* The row that Docker container i was created for.
RowOf(i) == IF i \in Containers THEN i ELSE target[i]

\* The name Docker container i was created with.
DockerName(i) == IF i \in Containers THEN BornAs[i] ELSE NameOf[target[i]]

\* The Docker containers that bear the name of row c, another row's included.
NameBearers(c) == {i \in Ids : engine[i] # "none" /\ DockerName(i) = NameOf[c]}

\* Docker can bring container i up: it exists, and its port is its own.
Startable(i) == engine[i] = "running" \/ (engine[i] = "stopped" /\ ~PortBound(i))

DockerFault == "docker" \in mode.faults

Goto(h, label) == pc' = [pc EXCEPT ![h] = label]

SetEngine(i, state) == engine' = [engine EXCEPT ![i] = state]

-----------------------------------------------------------------------------
(***************************************************************************)
(* Requests arrive; the row is read once.                                  *)
(***************************************************************************)

\* The first awaited call after the read.  updateResources recreates the
\* container for a new volume or internal port, else it adjusts it in place.
FirstCalls(k) ==
    CASE k = "start" -> {"start"}            [] k = "stop" -> {"stop"}
      [] k = "restart" -> {"inspect"}        [] k = "remove" -> {"teardown"}
      [] k = "allocatePort" -> {"check"}     [] k = "removePort" -> {"release"}
      [] k = "adminRestart" -> {"restart"}   [] k = "adminDelete" -> {"unforced"}
      [] k = "update" -> {"teardown", "resources"}

MayBegin(h) ==
    /\ pc[h] = "idle"
    /\ Cardinality({g \in Handlers : pc[g] # "idle"}) < mode.requests
    /\ mode.overlap \/ Settled

\* Mutant: the range of the port is not checked.
ReadRow_AnyPort(h, c, k) ==
    /\ MayBegin(h) /\ c \in rows
    /\ k \in OpKinds \ {"create", "suspend", "resume"}
    /\ \E call \in FirstCalls(k) : Goto(h, call)
    /\ kind' = [kind EXCEPT ![h] = k]
    /\ target' = [target EXCEPT ![h] = c]
    /\ seen' = [seen EXCEPT ![h] = [id |-> dockerId[c], port |-> hostPort[c],
                                    up |-> status[c] = "RUNNING"]]
    /\ \E port \in Ports \cup {65536} : wanted' = [wanted EXCEPT ![h] = port]
    /\ UNCHANGED <<rowVars, project, dockerVars, conf, todo>>

\* findOne, or the admin's findUnique: start, stop, restart, remove, the two
\* port operations, updateResources with a new volume or internal port, and
\* the admin's restart and delete.
ReadRow(h, c, k) ==
    /\ MayBegin(h) /\ c \in rows
    /\ k \in OpKinds \ {"create", "suspend", "resume"}
    /\ \E call \in FirstCalls(k) : Goto(h, call)
    /\ kind' = [kind EXCEPT ![h] = k]
    /\ target' = [target EXCEPT ![h] = c]
    /\ seen' = [seen EXCEPT ![h] = [id |-> dockerId[c], port |-> hostPort[c],
                                    up |-> status[c] = "RUNNING"]]
    /\ IF k = "allocatePort"
       THEN \E port \in ExternalPorts : wanted' = [wanted EXCEPT ![h] = port]
       ELSE UNCHANGED wanted
    /\ UNCHANGED <<rowVars, project, dockerVars, conf, todo>>

UsedPorts == {hostPort[c] : c \in rows} \ {NoPort}

\* create: the caller names a port, or gets the first free one of the pool.
ReadForCreate(h, c) ==
    /\ MayBegin(h) /\ c \notin rows /\ engine[c] = "none"
    /\ "create" \in OpKinds
    /\ \A g \in Handlers : kind[g] # "none" => target[g] # c
    /\ Goto(h, "createNew")
    /\ kind' = [kind EXCEPT ![h] = "create"]
    /\ target' = [target EXCEPT ![h] = c]
    /\ \/ \E port \in Ports : wanted' = [wanted EXCEPT ![h] = port]
       \/ \E port \in PoolPorts \ UsedPorts :
             /\ \A q \in PoolPorts \ UsedPorts : port <= q
             /\ wanted' = [wanted EXCEPT ![h] = port]
    /\ UNCHANGED <<rowVars, project, dockerVars, conf, seen, todo>>

\* Mutant: suspend stops the containers of every project.
Suspended_AllProjects(p) == {c \in rows : status[c] = "RUNNING"}

\* The rows suspendProject stops.
Suspended(p) == {c \in rows : ProjectOf[c] = p /\ status[c] = "RUNNING"}

\* suspendProject and resumeProject read the project with its rows; c stands
\* for the project.
ReadProject(h, c, k) ==
    /\ MayBegin(h) /\ k \in OpKinds \cap {"suspend", "resume"}
    /\ Goto(h, IF k = "suspend" THEN "stopAll" ELSE "startAll")
    /\ kind' = [kind EXCEPT ![h] = k]
    /\ target' = [target EXCEPT ![h] = c]
    /\ LET read == IF k = "suspend" THEN Suspended(ProjectOf[c])
                   ELSE {d \in rows : ProjectOf[d] = ProjectOf[c]}
       IN todo' = [todo EXCEPT ![h] = {dockerId[d] : d \in read}]
    /\ UNCHANGED <<rowVars, project, dockerVars, conf, seen, wanted>>

-----------------------------------------------------------------------------
(***************************************************************************)
(* Calls to the Docker engine                                              *)
(***************************************************************************)

others == <<rowVars, project, bind, conf, requestVars, seen, wanted>>

\* start, and the start of the new container in updateResources.
DockerStart(h) ==
    /\ pc[h] \in {"start", "startNew"}
    /\ LET i == IF pc[h] = "start" THEN seen[h].id ELSE h IN
       \/ /\ Startable(i)
          /\ SetEngine(i, "running")
          /\ Goto(h, IF pc[h] = "start" THEN "recordRunning" ELSE "recordId")
       \/ /\ ~Startable(i) \/ DockerFault
          /\ Goto(h, "failed")
          /\ UNCHANGED engine
    /\ UNCHANGED <<others, todo>>

\* Stopping a container that is already stopped is an error of the client.
DockerStop(h) ==
    /\ pc[h] = "stop"
    /\ \/ /\ engine[seen[h].id] = "running"
          /\ SetEngine(seen[h].id, "stopped")
          /\ Goto(h, "recordStopped")
       \/ /\ engine[seen[h].id] # "running" \/ DockerFault
          /\ Goto(h, "failed")
          /\ UNCHANGED engine
    /\ UNCHANGED <<others, todo>>

\* The last call of restart, and the only one of the admin's restart.  A
\* restart that fails may leave the container stopped.
DockerRestart(h) ==
    /\ pc[h] = "restart"
    /\ \/ /\ Startable(seen[h].id)
          /\ SetEngine(seen[h].id, "running")
          /\ Goto(h, IF kind[h] = "restart" THEN "recordRestarted"
                                          ELSE "recordRunning")
       \/ /\ ~Startable(seen[h].id) \/ DockerFault
          /\ Goto(h, "failed")
          /\ \/ UNCHANGED engine
             \/ /\ DockerFault /\ engine[seen[h].id] = "running"
                /\ SetEngine(seen[h].id, "stopped")
    /\ UNCHANGED <<others, todo>>

\* restart: the container is created anew when it is gone, or when its port
\* is no longer the one of the row.
Inspect(h) ==
    /\ pc[h] = "inspect"
    /\ \/ engine[seen[h].id] = "none" /\ Goto(h, "create")
       \/ /\ engine[seen[h].id] # "none"
          /\ Goto(h, IF bind[seen[h].id] = seen[h].port THEN "restart"
                                                       ELSE "teardown")
       \/ DockerFault /\ Goto(h, "failed")
    /\ UNCHANGED <<others, engine, todo>>

\* Mutant: the container is stopped and not removed.
Teardown_StopOnly(h) ==
    /\ pc[h] = "teardown"
    /\ IF engine[seen[h].id] = "none" THEN UNCHANGED engine
       ELSE SetEngine(seen[h].id, "stopped")
    /\ Goto(h, CASE kind[h] = "restart" -> "create"
                  [] kind[h] = "update"  -> "evict"
                  [] kind[h] = "remove"  -> "deleteRow")
    /\ UNCHANGED <<others, todo>>

\* Stop and forced removal, each with its error swallowed.
Teardown(h) ==
    /\ pc[h] = "teardown"
    /\ \/ SetEngine(seen[h].id, "none")
       \/ DockerFault /\ UNCHANGED engine
       \/ /\ DockerFault /\ engine[seen[h].id] = "running"
          /\ SetEngine(seen[h].id, "stopped")
    /\ Goto(h, CASE kind[h] = "restart" -> "create"
                  [] kind[h] = "update"  -> "evict"
                  [] kind[h] = "remove"  -> "deleteRow")
    /\ UNCHANGED <<others, todo>>

\* updateResources also removes, by force, whatever bears the name of the row:
\* a leftover of its own, or the container of another row of that name.
Evict(h) ==
    /\ pc[h] = "evict"
    /\ \/ engine' = [i \in Ids |-> IF i \in NameBearers(target[h]) THEN "none"
                                    ELSE engine[i]]
       \/ DockerFault /\ UNCHANGED engine
    /\ Goto(h, "create")
    /\ UNCHANGED <<others, todo>>

\* The admin's delete removes without force: a running container stays.
RemoveUnforced(h) ==
    /\ pc[h] = "unforced"
    /\ \/ engine[seen[h].id] # "running" /\ SetEngine(seen[h].id, "none")
       \/ engine[seen[h].id] = "running" /\ UNCHANGED engine
       \/ DockerFault /\ UNCHANGED engine
    /\ Goto(h, "deleteRow")
    /\ UNCHANGED <<others, todo>>

\* Docker refuses a name that is in use; the image may be gone.
CreateAnew(h) ==
    /\ pc[h] = "create"
    /\ \/ /\ NameBearers(target[h]) = {}
          /\ SetEngine(h, "stopped")
          /\ bind' = [bind EXCEPT ![h] = seen[h].port]
          /\ Goto(h, IF kind[h] = "update" /\ seen[h].up THEN "startNew"
                                                         ELSE "recordId")
       \/ Goto(h, "failed") /\ UNCHANGED dockerVars
    /\ UNCHANGED <<rowVars, project, conf, requestVars, seen, wanted, todo>>

\* create: an unknown image or a name in use is an ordinary failure.
CreateNew(h) ==
    /\ pc[h] = "createNew"
    /\ \/ /\ NameBearers(target[h]) = {}
          /\ SetEngine(target[h], "stopped")
          /\ bind' = [bind EXCEPT ![target[h]] = wanted[h]]
          /\ Goto(h, "insertRow")
       \/ Goto(h, "failed") /\ UNCHANGED dockerVars
    /\ UNCHANGED <<rowVars, project, conf, requestVars, seen, wanted, todo>>

\* The loops of suspendProject and resumeProject swallow errors.
StopOrStartNext(h) ==
    /\ pc[h] \in {"stopAll", "startAll"}
    /\ \E i \in todo[h] :
          /\ todo' = [todo EXCEPT ![h] = @ \ {i}]
          /\ \/ pc[h] = "stopAll" /\ engine[i] = "running" /\ SetEngine(i, "stopped")
             \/ pc[h] = "startAll" /\ Startable(i) /\ SetEngine(i, "running")
             \/ /\ DockerFault \/ engine[i] = "none"
                   \/ IF pc[h] = "stopAll" THEN engine[i] # "running" ELSE ~Startable(i)
                /\ UNCHANGED engine
    /\ UNCHANGED <<others, pc>>

-----------------------------------------------------------------------------
(***************************************************************************)
(* Writes to the database, and the route                                   *)
(***************************************************************************)

\* Labels at which the handler updates or deletes the row it was asked about.
RowWrites == {"recordRunning", "recordStopped", "recordId", "recordRestarted",
              "resources", "deleteRow", "writePort", "release"}

\* Updating or deleting a row that is gone throws.
RowWriteThrows(h) ==
    /\ \/ pc[h] \in RowWrites /\ target[h] \notin rows
       \/ /\ "db" \in mode.faults
          /\ pc[h] \in RowWrites \cup {"insertRow", "writeInactive", "writeActive"}
    /\ Goto(h, "thrown")
    /\ UNCHANGED <<others, engine, todo>>

\* Mutant: start does not update the status.
RecordStatus_StopOnly(h) ==
    /\ pc[h] \in {"recordRunning", "recordStopped"} /\ target[h] \in rows
    /\ status' = [status EXCEPT ![target[h]] =
                     IF pc[h] = "recordRunning" THEN @ ELSE "STOPPED"]
    /\ Goto(h, "done")
    /\ UNCHANGED <<rows, dockerId, hostPort, project, dockerVars, conf,
                   requestVars, seen, wanted, todo>>

\* The status writes of start, stop and the admin's restart.
RecordStatus(h) ==
    /\ pc[h] \in {"recordRunning", "recordStopped"} /\ target[h] \in rows
    /\ status' = [status EXCEPT ![target[h]] =
                     IF pc[h] = "recordRunning" THEN "RUNNING" ELSE "STOPPED"]
    /\ Goto(h, "done")
    /\ UNCHANGED <<rows, dockerId, hostPort, project, dockerVars, conf,
                   requestVars, seen, wanted, todo>>

\* Mutant: the row keeps the id of the removed container.
RecordId_Skip(h) ==
    /\ pc[h] = "recordId"
    /\ seen' = [seen EXCEPT ![h].id = h]
    /\ wanted' = [wanted EXCEPT ![h] = seen[h].port]
    /\ Goto(h, CASE kind[h] = "update" -> "resources"
                  [] kind[h] = "restart" /\ seen[h].port # NoPort -> "routeNew"
                  [] OTHER -> "restart")
    /\ UNCHANGED <<rowVars, project, dockerVars, conf, requestVars, todo>>

\* restart and updateResources: the row is pointed at the new container.
RecordId(h) ==
    /\ pc[h] = "recordId" /\ target[h] \in rows
    /\ dockerId' = [dockerId EXCEPT ![target[h]] = h]
    /\ seen' = [seen EXCEPT ![h].id = h]
    /\ wanted' = [wanted EXCEPT ![h] = seen[h].port]
    /\ Goto(h, CASE kind[h] = "update" -> "resources"
                  [] kind[h] = "restart" /\ seen[h].port # NoPort -> "routeNew"
                  [] OTHER -> "restart")
    /\ UNCHANGED <<rows, hostPort, status, project, dockerVars, conf,
                   requestVars, todo>>

\* restart: the updated row is returned, with the port it has by now.
RecordRestarted(h) ==
    /\ pc[h] = "recordRestarted" /\ target[h] \in rows
    /\ status' = [status EXCEPT ![target[h]] = "RUNNING"]
    /\ wanted' = [wanted EXCEPT ![h] = hostPort[target[h]]]
    /\ Goto(h, IF hostPort[target[h]] = NoPort THEN "done" ELSE "route")
    /\ UNCHANGED <<rows, dockerId, hostPort, project, dockerVars, conf,
                   requestVars, seen, todo>>

\* The limits updateResources writes last are not modelled.
RecordResources(h) ==
    /\ pc[h] = "resources" /\ target[h] \in rows
    /\ Goto(h, "done")
    /\ UNCHANGED <<others, engine, todo>>

\* Mutant: the route is not written again after a restart.
WriteRoute_Skip(h) ==
    /\ pc[h] \in {"route", "routeNew"}
    /\ Goto(h, IF pc[h] = "routeNew" THEN "restart" ELSE "done")
    /\ UNCHANGED <<others, engine, todo>>

\* generateHttpConfig may throw; an error of generateHttpsConfig is swallowed.
WriteRoute(h) ==
    /\ pc[h] \in {"route", "routeNew"}
    /\ LET p == ProjectOf[target[h]] IN
       \/ /\ conf' = IF p \in Routed THEN [conf EXCEPT ![p] = wanted[h]] ELSE conf
          /\ Goto(h, IF pc[h] = "routeNew" THEN "restart" ELSE "done")
       \/ /\ "nginx" \in mode.faults /\ p \in Routed
          /\ Goto(h, "failed")
          /\ UNCHANGED conf
    /\ UNCHANGED <<rowVars, project, dockerVars, requestVars, seen, wanted, todo>>

DeleteRow(h) ==
    /\ pc[h] = "deleteRow" /\ target[h] \in rows
    /\ rows' = rows \ {target[h]}
    /\ Goto(h, "done")
    /\ UNCHANGED <<dockerId, hostPort, status, project, dockerVars, conf,
                   requestVars, seen, wanted, todo>>

InsertRow(h) ==
    /\ pc[h] = "insertRow"
    /\ rows' = rows \cup {target[h]}
    /\ dockerId' = [dockerId EXCEPT ![target[h]] = target[h]]
    /\ hostPort' = [hostPort EXCEPT ![target[h]] = wanted[h]]
    /\ status' = [status EXCEPT ![target[h]] = "STOPPED"]
    /\ Goto(h, "done")
    /\ UNCHANGED <<project, dockerVars, conf, requestVars, seen, wanted, todo>>

\* Mutant: the query does not look at other rows.
CheckPort_Never(h) ==
    /\ pc[h] = "check"
    /\ Goto(h, "writePort")
    /\ UNCHANGED <<others, engine, todo>>

\* allocatePort asks for any one row with that port, and refuses unless it is
\* the row itself.
CheckPort(h) ==
    /\ pc[h] = "check"
    /\ LET users == {c \in rows : hostPort[c] = wanted[h]} IN
       \/ users \subseteq {target[h]} /\ Goto(h, "writePort")
       \/ target[h] \in users /\ Goto(h, "writePort")
       \/ users \ {target[h]} # {} /\ Goto(h, "failed")
    /\ UNCHANGED <<others, engine, todo>>

WritePort(h) ==
    /\ pc[h] = "writePort" /\ target[h] \in rows
    /\ hostPort' = [hostPort EXCEPT ![target[h]] = wanted[h]]
    /\ Goto(h, IF seen[h].port = wanted[h] THEN "done" ELSE "route")
    /\ UNCHANGED <<rows, dockerId, status, project, dockerVars, conf,
                   requestVars, seen, wanted, todo>>

\* removePort leaves the route and the Docker container as they are.
ReleasePort(h) ==
    /\ pc[h] = "release" /\ target[h] \in rows
    /\ hostPort' = [hostPort EXCEPT ![target[h]] = NoPort]
    /\ Goto(h, "done")
    /\ UNCHANGED <<rows, dockerId, status, project, dockerVars, conf,
                   requestVars, seen, wanted, todo>>

\* suspend turns RUNNING rows to STOPPED; resume turns all rows to RUNNING,
\* the ones whose start failed included.
WriteStatuses(h) ==
    /\ pc[h] \in {"stopAll", "startAll"} /\ todo[h] = {}
    /\ \/ /\ status' = [c \in Containers |->
                          IF c \in rows /\ ProjectOf[c] = ProjectOf[target[h]]
                          THEN IF pc[h] = "startAll" THEN "RUNNING" ELSE "STOPPED"
                          ELSE status[c]]
          /\ Goto(h, IF pc[h] = "startAll" THEN "writeActive" ELSE "writeInactive")
       \/ /\ "db" \in mode.faults
          /\ Goto(h, "failed")
          /\ UNCHANGED status
    /\ UNCHANGED <<rows, dockerId, hostPort, project, dockerVars, conf,
                   requestVars, seen, wanted, todo>>

WriteProject(h) ==
    /\ pc[h] \in {"writeActive", "writeInactive"}
    /\ project' = [project EXCEPT ![ProjectOf[target[h]]] =
                      IF pc[h] = "writeActive" THEN "ACTIVE" ELSE "INACTIVE"]
    /\ Goto(h, "done")
    /\ UNCHANGED <<rowVars, dockerVars, conf, requestVars, seen, wanted, todo>>

-----------------------------------------------------------------------------

Crash ==
    /\ "crash" \in mode.faults /\ ~Settled
    /\ pc' = [h \in Handlers |-> IF InFlight(h) THEN "lost" ELSE pc[h]]
    /\ UNCHANGED <<others, engine, todo>>

\* The administrator prunes the Docker system, or clears its cache, while no
\* request is in flight: every container that is not running goes.
Prune ==
    /\ Settled
    /\ engine' = [i \in Ids |-> IF engine[i] = "running" THEN "running" ELSE "none"]
    /\ UNCHANGED <<others, pc, todo>>

DockerCall(h) ==
    \/ DockerStart(h) \/ DockerStop(h) \/ DockerRestart(h) \/ Inspect(h)
    \/ Teardown(h) \/ Evict(h) \/ RemoveUnforced(h)
    \/ CreateAnew(h) \/ CreateNew(h) \/ StopOrStartNext(h)

StoreCall(h) ==
    \/ RowWriteThrows(h) \/ RecordStatus(h) \/ RecordId(h) \/ RecordRestarted(h)
    \/ RecordResources(h) \/ WriteRoute(h) \/ DeleteRow(h) \/ InsertRow(h)
    \/ CheckPort(h) \/ WritePort(h) \/ ReleasePort(h)
    \/ WriteStatuses(h) \/ WriteProject(h)

Step ==
    \/ \E h \in Handlers :
          \/ \E c \in Containers :
                \/ ReadForCreate(h, c)
                \/ \E k \in OpKinds : ReadRow(h, c, k) \/ ReadProject(h, c, k)
          \/ DockerCall(h) \/ StoreCall(h)
    \/ Crash \/ Prune

Next == Step /\ UNCHANGED mode

Spec == Init /\ [][Next]_<<vars, mode>>

-----------------------------------------------------------------------------
(***************************************************************************)
(* Properties                                                              *)
(***************************************************************************)

\* Container i bears the name of the row that updateResources is about to rid
\* of whatever bears its name.
Evicts(h, i) == pc[h] = "evict" /\ i \in NameBearers(target[h])

\* Whatever fails and however requests overlap, a running container stops or
\* disappears only while a request for its own project is in flight, or by
\* the call of updateResources that removes containers by name, on a row of
\* any project that has the name of the container.
StopsOnlyOwnProject ==
    [][\A c \in rows :
          engine[dockerId[c]] = "running" /\ engine'[dockerId[c]] # "running" =>
             \E h \in Handlers :
                \/ InFlight(h) /\ ProjectOf[target[h]] = ProjectOf[c]
                \/ Evicts(h, dockerId[c])]_vars

\* One request at a time: a row shown as STOPPED has no running container.
StoppedIsDown ==
    ~mode.overlap /\ Settled => \A c \in rows : status[c] = "STOPPED" => engine[dockerId[c]] # "running"

\* One request at a time: a restart that succeeds leaves a running container,
\* bound to the port of its row, and the domain of the project routed to it.
RestartSyncs ==
    [][\A h \in Handlers :
          ~mode.overlap /\ kind[h] = "restart" /\ pc[h] # "done" /\ pc'[h] = "done" =>
             LET c == target[h] IN
             /\ engine'[dockerId'[c]] = "running"
             /\ bind'[dockerId'[c]] = hostPort'[c]
             /\ ProjectOf[c] \in Routed /\ hostPort'[c] # NoPort
                   => conf'[ProjectOf[c]] = hostPort'[c]]_vars

\* One request at a time: allocatePort keeps the ports of the rows distinct,
\* whatever sequence of requests it is mixed with.  Two rows share a port only
\* when a create named that port.
PortsDistinct ==
    ~mode.overlap /\ Settled => \A c, d \in rows :
        c # d /\ hostPort[c] # NoPort /\ hostPort[c] = hostPort[d] =>
            \E h \in Handlers : kind[h] = "create" /\ wanted[h] = hostPort[c]

\* A row whose Docker container is missing (the "zombie state" of restart) is
\* never kept from being created anew by a container of its own: its name is
\* free, or another row of that name has taken it.  The exceptions are a
\* request on that row that died or could not write the row, and
\* updateResources of a row of that name, which removes by name and writes the
\* id of the new container last.
ZombieRecreatable ==
    Settled => \A c \in rows : engine[dockerId[c]] = "none" =>
        \/ NameBearers(c) = {}
        \/ \E i \in NameBearers(c) : RowOf(i) # c
        \/ \E h \in Handlers :
              \/ target[h] = c /\ pc[h] \in {"thrown", "lost"}
              \/ kind[h] = "update" /\ NameOf[target[h]] = NameOf[c]

\* One request at a time: every container in the Docker engine is the one its
\* row refers to, unless the row saw an admin's delete, which leaves a running
\* container behind, or updateResources, whose new container may not start.
NoOrphan ==
    ~mode.overlap /\ Settled => \A i \in Ids : engine[i] # "none" =>
        \/ RowOf(i) \in rows /\ dockerId[RowOf(i)] = i
        \/ \E h \in Handlers : /\ kind[h] \in {"adminDelete", "update"}
                               /\ target[h] = RowOf(i)
=============================================================================

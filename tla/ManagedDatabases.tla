-------------------------- MODULE ManagedDatabases --------------------------
(***************************************************************************)
(* Managed databases (databases.service.ts): a row, a Docker container     *)
(* that mounts the volume of the row, and the password, port and limits    *)
(* the two have to agree on.                                               *)
(*                                                                         *)
(* A handler reads its row once, into seen[h], and works on that copy      *)
(* across every later await.  A container is named by the row it was first *)
(* created for, or by the handler that created it; a password and a        *)
(* configuration are named by the handler that made them.  What may go     *)
(* wrong in a behaviour is fixed at its start, in mode.                    *)
(***************************************************************************)
EXTENDS Integers, FiniteSets

CONSTANTS Databases,     (* rows                                            *)
          Initial,       (* rows that exist when the model starts           *)
          NameOf,        (* the container name made of the name of a row    *)
          Supported,     (* rows whose type can be provisioned              *)
          Strict,        (* rows whose server asks for the old password     *)
          Handlers,      (* requests                                        *)
          Ports,         (* 40000 and up in the code                        *)
          Modes,         (* what may go wrong: see ModesAssumption          *)
          None           (* no container, no volume contents                *)

AllFaults == {"crash", "db", "docker"}

Kinds == {"create", "start", "stop", "restart", "remove", "updateConfig",
          "resetPassword"}

NoPort == 0

Ids == Databases \cup Handlers

ASSUME DatabasesAssumption ==
    /\ Databases # {}
    /\ Initial \subseteq Databases /\ Supported \subseteq Databases
    /\ Strict \subseteq Databases
    /\ \A d, e \in Initial : NameOf[d] = NameOf[e] => d = e
    /\ Databases \cap Handlers = {} /\ None \notin Ids
    /\ Ports \subseteq Nat \ {NoPort}

ASSUME ModesAssumption ==
    Modes \subseteq [overlap : BOOLEAN, faults : SUBSET AllFaults]

VARIABLES
    rows,      \* rows that exist
    dockerId,  \* dockerId[d]: the container the row refers to, or None
    hostPort,  \* hostPort[d]: NoPort is the placeholder of a new row
    status,    \* status[d]
    limits,    \* limits[d]: cpuLimit, memoryLimit and maxConnections
    password,  \* password[d]: dbPassword
    engine,    \* engine[i]: the Docker container i
    bind,      \* bind[i]: the host port container i was created with
    runsWith,  \* runsWith[i]: the limits container i was created with
    volume,    \* rows whose Docker volume exists
    secret,    \* secret[d]: the password stored in that volume, if any
    pc,        \* pc[h]: the call handler h awaits
    kind,      \* kind[h], target[h]: what h was asked to do, and to which row
    target,
    seen,      \* seen[h]: h's copy of the row
    wanted,    \* wanted[h]: the port create has chosen
    pruned,    \* rows whose data went with a volume that a prune removed
    mode       \* what may go wrong in this behaviour

rowVars == <<rows, dockerId, hostPort, status, limits, password>>
dockerVars == <<engine, bind, runsWith, volume, secret>>
requestVars == <<kind, target, seen, pruned, mode>>
vars == <<rowVars, dockerVars, pc, requestVars, wanted>>

Ended == {"idle", "done", "failed", "lost"}

InFlight(h) == pc[h] \notin Ended

Settled == \A h \in Handlers : ~InFlight(h)

Copy == [id : Ids \cup {None}, port : Ports \cup {NoPort}, up : BOOLEAN,
         password : Ids \cup {None}]

TypeOK ==
    /\ rows \subseteq Databases
    /\ dockerId \in [Databases -> Ids \cup {None}]
    /\ hostPort \in [Databases -> Ports \cup {NoPort}]
    /\ status \in [Databases -> {"RUNNING", "STOPPED"}]
    /\ limits \in [Databases -> Ids]
    /\ password \in [Databases -> Ids]
    /\ engine \in [Ids -> {"none", "stopped", "running"}]
    /\ bind \in [Ids -> Ports \cup {NoPort}]
    /\ runsWith \in [Ids -> Ids]
    /\ volume \subseteq Databases
    /\ secret \in [Databases -> Ids \cup {None}]
    /\ kind \in [Handlers -> Kinds \cup {"none"}]
    /\ target \in [Handlers -> Databases]
    /\ seen \in [Handlers -> Copy]
    /\ wanted \in [Handlers -> Ports \cup {NoPort}]
    /\ pruned \subseteq Databases
    /\ mode \in Modes

\* The initial rows run on ports of their own, as create leaves them.
Init ==
    /\ rows = Initial
    /\ dockerId = [d \in Databases |-> IF d \in Initial THEN d ELSE None]
    /\ hostPort \in [Databases -> Ports \cup {NoPort}]
    /\ \A d \in Databases : hostPort[d] = NoPort <=> d \notin Initial
    /\ \A d, e \in Initial : d # e => hostPort[d] # hostPort[e]
    /\ status = [d \in Databases |-> IF d \in Initial THEN "RUNNING" ELSE "STOPPED"]
    /\ limits = [d \in Databases |-> d]
    /\ password = [d \in Databases |-> d]
    /\ engine = [i \in Ids |-> IF i \in Initial THEN "running" ELSE "none"]
    /\ bind = [i \in Ids |-> IF i \in Initial THEN hostPort[i] ELSE NoPort]
    /\ runsWith = [i \in Ids |-> i]
    /\ volume = Initial
    /\ secret = [d \in Databases |-> IF d \in Initial THEN d ELSE None]
    /\ pc = [h \in Handlers |-> "idle"]
    /\ kind = [h \in Handlers |-> "none"]
    /\ target = [h \in Handlers |-> CHOOSE d \in Databases : TRUE]
    /\ seen = [h \in Handlers |-> [id |-> None, port |-> NoPort, up |-> FALSE,
                                   password |-> None]]
    /\ wanted = [h \in Handlers |-> NoPort]
    /\ pruned = {}
    /\ mode \in Modes

-----------------------------------------------------------------------------
(***************************************************************************)
(* The Docker engine                                                       *)
(***************************************************************************)

\* The row that container i was created for; it mounts the volume of that row.
RowOf(i) == IF i \in Databases THEN i ELSE target[i]

NameBearers(d) == {i \in Ids : engine[i] # "none" /\ NameOf[RowOf(i)] = NameOf[d]}

PortBound(i) == \E j \in Ids \ {i} : engine[j] = "running" /\ bind[j] = bind[i]

Startable(i) == engine[i] = "running" \/ (engine[i] = "stopped" /\ ~PortBound(i))

VolumeInUse(d) == \E i \in Ids : engine[i] # "none" /\ RowOf(i) = d

MayFail(what) == what \in mode.faults

Goto(h, label) == pc' = [pc EXCEPT ![h] = label]

SetEngine(i, state) == engine' = [engine EXCEPT ![i] = state]

MayBegin(h) == pc[h] = "idle" /\ (mode.overlap \/ Settled)

-----------------------------------------------------------------------------
(***************************************************************************)
(* create: a throw anywhere after the row was inserted deletes the row and *)
(* nothing else.                                                           *)
(***************************************************************************)

InsertRow(h, d) ==
    /\ MayBegin(h)
    /\ d \notin Initial /\ \A g \in Handlers : kind[g] # "none" => target[g] # d
    /\ rows' = rows \cup {d}
    /\ password' = [password EXCEPT ![d] = h]
    /\ kind' = [kind EXCEPT ![h] = "create"]
    /\ target' = [target EXCEPT ![h] = d]
    /\ seen' = [seen EXCEPT ![h] = [id |-> None, port |-> NoPort, up |-> FALSE,
                                    password |-> h]]
    /\ Goto(h, "createVolume")
    /\ UNCHANGED <<dockerId, hostPort, status, limits, dockerVars, wanted, pruned,
                   mode>>

CreateVolume(h) ==
    /\ pc[h] = "createVolume"
    /\ \/ volume' = volume \cup {target[h]} /\ Goto(h, "pickPort")
       \/ MayFail("docker") /\ UNCHANGED volume /\ Goto(h, "undo")
    /\ UNCHANGED <<rowVars, engine, bind, runsWith, secret, requestVars, wanted>>

UsedPorts == {hostPort[d] : d \in rows}

\* Mutant: only running databases keep their port.
getAvailablePort_RunningOnly ==
    CHOOSE port \in Ports \ {hostPort[d] : d \in {e \in rows : status[e] = "RUNNING"}} :
        \A q \in Ports : q < port => q \in {hostPort[d] : d \in {e \in rows : status[e] = "RUNNING"}}

\* Mutant: the port after the highest one in use.
getAvailablePort_Above ==
    1 + CHOOSE port \in UsedPorts : \A q \in UsedPorts : q <= port

getAvailablePort ==
    CHOOSE port \in Ports \ UsedPorts : \A q \in Ports : q < port => q \in UsedPorts

\* The type is looked at after the port was chosen.  There is always a next
\* port in the code; in the model they are bounded by Ports.
PickPort(h) ==
    /\ pc[h] = "pickPort"
    /\ \/ /\ Ports \ UsedPorts # {}
          /\ wanted' = [wanted EXCEPT ![h] = getAvailablePort]
          /\ Goto(h, IF target[h] \in Supported THEN "create" ELSE "undo")
       \/ MayFail("db") /\ UNCHANGED wanted /\ Goto(h, "undo")
    /\ UNCHANGED <<rowVars, dockerVars, requestVars>>

\* updateConfig swallows what create undoes.
GiveUp(h) == Goto(h, IF kind[h] = "create" THEN "undo" ELSE "done")

\* The image is pulled and the container created; Docker refuses a name that
\* is in use, and creates the volume if it is not there.
CreateContainer(h) ==
    /\ pc[h] = "create"
    /\ \/ /\ NameBearers(target[h]) = {}
          /\ SetEngine(h, "stopped")
          /\ bind' = [bind EXCEPT ![h] = IF kind[h] = "create" THEN wanted[h] ELSE seen[h].port]
          /\ runsWith' = [runsWith EXCEPT ![h] = IF kind[h] = "create" THEN target[h] ELSE h]
          /\ volume' = volume \cup {target[h]}
          /\ Goto(h, "startNew")
       \/ /\ NameBearers(target[h]) # {} \/ MayFail("docker")
          /\ GiveUp(h)
          /\ UNCHANGED <<engine, bind, runsWith, volume>>
    /\ UNCHANGED <<rowVars, secret, requestVars, wanted>>

\* The first start on a new volume sets the password.
StartNew(h) ==
    /\ pc[h] = "startNew"
    /\ \/ /\ Startable(h)
          /\ SetEngine(h, "running")
          /\ secret' = [secret EXCEPT ![target[h]] = IF @ = None THEN seen[h].password ELSE @]
          /\ Goto(h, "recordNew")
       \/ /\ ~Startable(h) \/ MayFail("docker")
          /\ GiveUp(h)
          /\ UNCHANGED <<engine, secret>>
    /\ UNCHANGED <<rowVars, bind, runsWith, volume, requestVars, wanted>>

\* create records everything, updateConfig the new id only.
RecordNew(h) ==
    LET d == target[h] IN
    /\ pc[h] = "recordNew"
    /\ \/ /\ d \in rows
          /\ dockerId' = [dockerId EXCEPT ![d] = h]
          /\ IF kind[h] = "create"
             THEN /\ hostPort' = [hostPort EXCEPT ![d] = wanted[h]]
                  /\ status' = [status EXCEPT ![d] = "RUNNING"]
                  /\ Goto(h, "log")
             ELSE Goto(h, "done") /\ UNCHANGED <<hostPort, status>>
       \/ /\ d \notin rows \/ MayFail("db")
          /\ GiveUp(h)
          /\ UNCHANGED <<dockerId, hostPort, status>>
    /\ UNCHANGED <<rows, limits, password, dockerVars, requestVars, wanted>>

\* The activity log is still inside the try block.
Log(h) ==
    /\ pc[h] = "log"
    /\ Goto(h, "done") \/ (MayFail("db") /\ Goto(h, "undo"))
    /\ UNCHANGED <<rowVars, dockerVars, requestVars, wanted>>

\* create's catch block and the end of remove.
DeleteRow(h) ==
    /\ pc[h] \in {"undo", "deleteRow"}
    /\ \/ /\ target[h] \in rows
          /\ rows' = rows \ {target[h]}
          /\ Goto(h, IF pc[h] = "undo" THEN "failed" ELSE "done")
       \/ /\ target[h] \notin rows \/ MayFail("db")
          /\ Goto(h, "failed")
          /\ UNCHANGED rows
    /\ UNCHANGED <<dockerId, hostPort, status, limits, password, dockerVars,
                   requestVars, wanted>>

-----------------------------------------------------------------------------
(***************************************************************************)
(* start, stop, restart and remove                                         *)
(***************************************************************************)

\* The first awaited call after findOne.
FirstCall(k, d) ==
    CASE k = "start" -> "start"     [] k = "stop" -> "stop"
      [] k = "restart" -> "restart" [] k = "updateConfig" -> "writeLimits"
      [] k = "resetPassword" -> "alter"
      [] k = "remove" -> IF dockerId[d] = None THEN "deleteRow" ELSE "teardown"

ReadRow(h, d, k) ==
    /\ MayBegin(h) /\ d \in rows
    /\ k \in {"start", "stop", "restart", "resetPassword"} => dockerId[d] # None
    /\ k = "resetPassword" => status[d] = "RUNNING"
    /\ kind' = [kind EXCEPT ![h] = k]
    /\ target' = [target EXCEPT ![h] = d]
    /\ seen' = [seen EXCEPT ![h] = [id |-> dockerId[d], port |-> hostPort[d],
                    up |-> status[d] = "RUNNING", password |-> password[d]]]
    /\ Goto(h, FirstCall(k, d))
    /\ UNCHANGED <<rowVars, dockerVars, wanted, pruned,
                   mode>>

DockerStart(h) ==
    /\ pc[h] = "start"
    /\ \/ /\ Startable(seen[h].id)
          /\ SetEngine(seen[h].id, "running")
          /\ Goto(h, "recordRunning")
       \/ /\ ~Startable(seen[h].id) \/ MayFail("docker")
          /\ Goto(h, "failed")
          /\ UNCHANGED engine
    /\ UNCHANGED <<rowVars, bind, runsWith, volume, secret, requestVars, wanted>>

\* Stopping a container that does not run is an error of the client.
DockerStop(h) ==
    /\ pc[h] = "stop"
    /\ \/ /\ engine[seen[h].id] = "running"
          /\ SetEngine(seen[h].id, "stopped")
          /\ Goto(h, "recordStopped")
       \/ /\ engine[seen[h].id] # "running" \/ MayFail("docker")
          /\ Goto(h, "failed")
          /\ UNCHANGED engine
    /\ UNCHANGED <<rowVars, bind, runsWith, volume, secret, requestVars, wanted>>

\* A restart that fails may leave the container stopped.
DockerRestart(h) ==
    /\ pc[h] = "restart"
    /\ \/ /\ Startable(seen[h].id)
          /\ SetEngine(seen[h].id, "running")
          /\ Goto(h, "recordRunning")
       \/ /\ ~Startable(seen[h].id) \/ MayFail("docker")
          /\ Goto(h, "failed")
          /\ \/ UNCHANGED engine
             \/ /\ MayFail("docker") /\ engine[seen[h].id] = "running"
                /\ SetEngine(seen[h].id, "stopped")
    /\ UNCHANGED <<rowVars, bind, runsWith, volume, secret, requestVars, wanted>>

\* Mutant: restart and start leave the status.
RecordStatus_StopOnly(h) ==
    /\ pc[h] \in {"recordRunning", "recordStopped"} /\ target[h] \in rows
    /\ status' = IF pc[h] = "recordRunning" THEN status
                 ELSE [status EXCEPT ![target[h]] = "STOPPED"]
    /\ Goto(h, "done")
    /\ UNCHANGED <<rows, dockerId, hostPort, limits, password, dockerVars,
                   requestVars, wanted>>

\* The activity log, then the status.
RecordStatus(h) ==
    /\ pc[h] \in {"recordRunning", "recordStopped"}
    /\ \/ /\ target[h] \in rows
          /\ status' = [status EXCEPT ![target[h]] =
                           IF pc[h] = "recordRunning" THEN "RUNNING" ELSE "STOPPED"]
          /\ Goto(h, "done")
       \/ /\ target[h] \notin rows \/ MayFail("db")
          /\ Goto(h, "failed")
          /\ UNCHANGED status
    /\ UNCHANGED <<rows, dockerId, hostPort, limits, password, dockerVars,
                   requestVars, wanted>>

\* Mutant: the container is removed without force, and not stopped before.
Teardown_NoStop(h) ==
    /\ pc[h] = "teardown"
    /\ IF engine[seen[h].id] = "running" THEN UNCHANGED engine
       ELSE SetEngine(seen[h].id, "none")
    /\ Goto(h, "dropVolume")
    /\ UNCHANGED <<rowVars, bind, runsWith, volume, secret, requestVars, wanted>>

\* Stop and forced removal, each with its error swallowed.
Teardown(h) ==
    /\ pc[h] = "teardown"
    /\ \/ SetEngine(seen[h].id, "none")
       \/ MayFail("docker") /\ UNCHANGED engine
       \/ /\ MayFail("docker") /\ engine[seen[h].id] = "running"
          /\ SetEngine(seen[h].id, "stopped")
    /\ Goto(h, "dropVolume")
    /\ UNCHANGED <<rowVars, bind, runsWith, volume, secret, requestVars, wanted>>

\* Docker refuses to remove a volume that a container mounts; swallowed too.
DropVolume(h) ==
    /\ pc[h] = "dropVolume"
    /\ \/ /\ ~VolumeInUse(target[h])
          /\ volume' = volume \ {target[h]}
          /\ secret' = [secret EXCEPT ![target[h]] = None]
       \/ /\ VolumeInUse(target[h]) \/ MayFail("docker")
          /\ UNCHANGED <<volume, secret>>
    /\ Goto(h, "deleteRow")
    /\ UNCHANGED <<rowVars, engine, bind, runsWith, requestVars, wanted>>

-----------------------------------------------------------------------------
(***************************************************************************)
(* updateConfig and resetPassword                                          *)
(***************************************************************************)

\* Only a database that was RUNNING when the request came is recreated.
WriteLimits(h) ==
    /\ pc[h] = "writeLimits"
    /\ \/ /\ target[h] \in rows
          /\ limits' = [limits EXCEPT ![target[h]] = h]
          /\ Goto(h, IF seen[h].id # None /\ seen[h].up THEN "stopOld" ELSE "done")
       \/ /\ target[h] \notin rows \/ MayFail("db")
          /\ Goto(h, "failed")
          /\ UNCHANGED limits
    /\ UNCHANGED <<rows, dockerId, hostPort, status, password, dockerVars,
                   requestVars, wanted>>

\* Whatever fails from here on, the caller is told the update succeeded.
StopOld(h) ==
    /\ pc[h] = "stopOld"
    /\ \/ /\ engine[seen[h].id] = "running"
          /\ SetEngine(seen[h].id, "stopped")
          /\ Goto(h, "removeOld")
       \/ /\ engine[seen[h].id] # "running" \/ MayFail("docker")
          /\ Goto(h, "done")
          /\ UNCHANGED engine
    /\ UNCHANGED <<rowVars, bind, runsWith, volume, secret, requestVars, wanted>>

\* Mutant: the anonymous and named volumes go with the container.
RemoveOld_WithVolume(h) ==
    /\ pc[h] = "removeOld"
    /\ SetEngine(seen[h].id, "none")
    /\ volume' = volume \ {target[h]}
    /\ secret' = [secret EXCEPT ![target[h]] = None]
    /\ Goto(h, "evict")
    /\ UNCHANGED <<rowVars, bind, runsWith, requestVars, wanted>>

RemoveOld(h) ==
    /\ pc[h] = "removeOld"
    /\ \/ /\ engine[seen[h].id] # "none"
          /\ SetEngine(seen[h].id, "none")
          /\ Goto(h, "evict")
       \/ /\ engine[seen[h].id] = "none" \/ MayFail("docker")
          /\ Goto(h, "done")
          /\ UNCHANGED engine
    /\ UNCHANGED <<rowVars, bind, runsWith, volume, secret, requestVars, wanted>>

\* Whatever bears the name is removed without force, so only if it is not
\* running; an error is swallowed.
Evict(h) ==
    /\ pc[h] = "evict"
    /\ \/ engine' = [i \in Ids |-> IF i \in NameBearers(target[h]) /\ engine[i] = "stopped"
                                   THEN "none" ELSE engine[i]]
       \/ MayFail("docker") /\ UNCHANGED engine
    /\ Goto(h, "create")
    /\ UNCHANGED <<rowVars, bind, runsWith, volume, secret, requestVars, wanted>>

\* ALTER USER inside the container; the exit code may be lost after it took
\* effect.
AlterUser(h) ==
    LET d == target[h] IN
    /\ pc[h] = "alter"
    /\ \/ /\ engine[seen[h].id] = "running"
          /\ d \in Strict => secret[d] = seen[h].password
          /\ secret' = [secret EXCEPT ![d] = h]
          /\ Goto(h, "recordPassword") \/ (MayFail("docker") /\ Goto(h, "failed"))
       \/ /\ \/ engine[seen[h].id] # "running"
             \/ d \in Strict /\ secret[d] # seen[h].password
             \/ MayFail("docker")
          /\ Goto(h, "failed")
          /\ UNCHANGED secret
    /\ UNCHANGED <<rowVars, engine, bind, runsWith, volume, requestVars, wanted>>

\* Mutant: the row keeps the old password.
RecordPassword_Skip(h) ==
    /\ pc[h] = "recordPassword"
    /\ Goto(h, "done")
    /\ UNCHANGED <<rowVars, dockerVars, requestVars, wanted>>

RecordPassword(h) ==
    /\ pc[h] = "recordPassword"
    /\ \/ /\ target[h] \in rows
          /\ password' = [password EXCEPT ![target[h]] = h]
          /\ Goto(h, "done")
       \/ /\ target[h] \notin rows \/ MayFail("db")
          /\ Goto(h, "failed")
          /\ UNCHANGED password
    /\ UNCHANGED <<rows, dockerId, hostPort, status, limits, dockerVars,
                   requestVars, wanted>>

-----------------------------------------------------------------------------
(***************************************************************************)
(* The administrator and the end of the process                            *)
(***************************************************************************)

\* docker system prune: containers that do not run go.  Asked to, it removes
\* volumes that no container mounts then, or spares them, as Docker does with
\* named ones since version 23.  A prune that fails half-way is left out.
Prune ==
    LET unmounted == {d \in volume : \A i \in Ids :
                         engine[i] = "running" => RowOf(i) # d}
    IN
    /\ mode.overlap \/ Settled
    /\ engine' = [i \in Ids |-> IF engine[i] = "stopped" THEN "none" ELSE engine[i]]
    /\ \E gone \in {{}, unmounted} :
          /\ volume' = volume \ gone
          /\ secret' = [d \in Databases |-> IF d \in gone THEN None ELSE secret[d]]
          /\ pruned' = pruned \cup {d \in gone : secret[d] # None}
    /\ UNCHANGED <<rowVars, bind, runsWith, pc, kind, target, seen, mode, wanted>>

Crash ==
    /\ MayFail("crash") /\ ~Settled
    /\ pc' = [h \in Handlers |-> IF InFlight(h) THEN "lost" ELSE pc[h]]
    /\ UNCHANGED <<rowVars, dockerVars, requestVars, wanted>>

create(h) == CreateVolume(h) \/ PickPort(h) \/ Log(h)

startStopRestart(h) ==
    DockerStart(h) \/ DockerStop(h) \/ DockerRestart(h) \/ RecordStatus(h)

remove(h) == Teardown(h) \/ DropVolume(h) \/ DeleteRow(h)

\* Mutant: the new container is created, with a name of its own, before the
\* old one is stopped and removed.
updateConfig_CreateFirst(h) ==
    \/ WriteLimits(h) \/ CreateContainer(h) \/ StartNew(h) \/ RecordNew(h)
    \/ /\ pc[h] = "stopOld"
       /\ SetEngine(h, "stopped")
       /\ bind' = [bind EXCEPT ![h] = seen[h].port]
       /\ Goto(h, "startNew")
       /\ UNCHANGED <<rowVars, runsWith, volume, secret, requestVars, wanted>>

updateConfig(h) ==
    \/ WriteLimits(h) \/ StopOld(h) \/ RemoveOld(h) \/ Evict(h)
    \/ CreateContainer(h) \/ StartNew(h) \/ RecordNew(h)

resetPassword(h) == AlterUser(h) \/ RecordPassword(h)

Next ==
    \/ \E h \in Handlers :
          \/ \E d \in Databases :
                \/ InsertRow(h, d)
                \/ \E k \in Kinds \ {"create"} : ReadRow(h, d, k)
          \/ create(h) \/ startStopRestart(h) \/ remove(h)
          \/ updateConfig(h) \/ resetPassword(h)
    \/ Prune
    \/ Crash

Spec == Init /\ [][Next]_vars

-----------------------------------------------------------------------------
(***************************************************************************)
(* Properties                                                              *)
(***************************************************************************)

\* One request at a time, and nothing fails.
Calm == ~mode.overlap /\ mode.faults = {}

\* Whatever fails and however requests overlap, no two containers mount the
\* volume of one database: the recreations of updateConfig exclude each other.
OneWriter ==
    \A i, j \in {k \in Ids : engine[k] # "none"} : RowOf(i) = RowOf(j) => i = j

\* Whatever fails and however requests overlap, the data of a database lasts
\* until its removal is asked for, or a prune removes volumes while no container
\* of it runs: otherwise its volume is never lost or reinitialised.
DataKept ==
    \A d \in rows \ pruned : dockerId[d] # None =>
        \/ d \in volume /\ secret[d] # None
        \/ \E h \in Handlers : kind[h] = "remove" /\ target[h] = d

\* One request at a time, whatever fails: no two databases hold one port.
PortsDistinct ==
    Settled /\ ~mode.overlap => \A d, e \in rows :
        d # e /\ hostPort[d] = hostPort[e] => hostPort[d] = NoPort

\* One request at a time and without failures: the status is that of the
\* container.
StatusHonest ==
    Settled /\ Calm => \A d \in rows :
        /\ dockerId[d] # None
        /\ status[d] = "RUNNING" <=> engine[dockerId[d]] = "running"

\* One request at a time and without failures: the password shown is the one
\* the server accepts, if a prune has not removed its data.
PasswordWorks ==
    Settled /\ Calm => \A d \in rows \ pruned : secret[d] = password[d]

\* One request at a time and without failures: a running database runs with
\* the limits of its row, unless they were changed while it was stopped.
LimitsApplied ==
    Settled /\ Calm => \A d \in rows : status[d] = "RUNNING" =>
        \/ runsWith[dockerId[d]] = limits[d]
        \/ limits[d] \in Handlers /\ ~seen[limits[d]].up

\* The three together: at rest the row of a database says what the engine and
\* the server inside it do, whatever calls led there.
RowInSync == StatusHonest /\ PasswordWorks /\ LimitsApplied

\* One request at a time and without failures: every container is the one of
\* a row, so that its name and port can be used again after a removal.
NoOrphan ==
    Settled /\ Calm => \A i \in Ids : engine[i] # "none" =>
        RowOf(i) \in rows /\ dockerId[RowOf(i)] = i
=============================================================================

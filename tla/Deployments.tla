---------------------------- MODULE Deployments ----------------------------
(***************************************************************************)
(* The deployment pipeline of the Portdock backend                         *)
(* (deployments.service.ts) together with the stores it keeps in step: the *)
(* database (project, deployment and container rows), the Docker engine,   *)
(* and the nginx configuration that routes a project's domain to a host    *)
(* port.                                                                   *)
(*                                                                         *)
(* The backend is one Node process: a request handler runs without         *)
(* interruption up to its next await, so every action below is the code    *)
(* between two awaited calls that change or read shared state.  A request  *)
(* creates at most one deployment row, one Docker container and one        *)
(* container row; all three are named by the request that creates them.    *)
(***************************************************************************)
EXTENDS Integers, FiniteSets

CONSTANTS Projects,   (* projects that exist when the model starts          *)
          Requests,   (* deploy requests (HTTP calls or GitHub webhooks)    *)
          ProjectOf,  (* the project a request deploys                      *)
          KindOf,     (* which of the three flows a request runs            *)
          Routed,     (* projects whose row has a domain                    *)
          MinPort, MaxPort,  (* host ports 8000..9999 in the code           *)
          Modes       (* the environments to consider, see Mode             *)

Kinds == {"zip", "github", "dockerfile"}

\* "crash": the process dies; "db", "docker", "nginx": an awaited database
\* call, an awaited Docker call, or a write or removal of a configuration
\* file rejects.
AllFaults == {"crash", "db", "docker", "nginx"}

\* An environment: may two deploys of one project be in flight, which calls
\* may fail, and which projects does their owner or an admin remove or reset.
Mode == [overlap : BOOLEAN, faults : SUBSET AllFaults, managed : SUBSET Projects]

Ports == MinPort..MaxPort

ASSUME ConstantsAssumption ==
    /\ ProjectOf \in [Requests -> Projects]
    /\ KindOf \in [Requests -> Kinds]
    /\ Routed \subseteq Projects
    /\ MinPort \in Nat \ {0}
    /\ MaxPort \in Nat
    /\ Modes \subseteq Mode

VARIABLES
    mode,        \* the environment, chosen once
    project,     \* project[p]: the status column, or "deleted"
    deployment,  \* deployment[r]: the status column, or "none"
    rows,        \* requests whose container row exists
    docker,      \* docker[r]: the container in the Docker engine
    conf,        \* conf[p]: port the project's domain is proxied to
    pc,          \* pc[r]: where the handler of request r is
    port,        \* port[r]: hostPort, local to r, then in row and binding
    todo,        \* todo[r]: rows the cleanup loop of r has still to visit
    victim,      \* victim[r]: the row the loop is at, r itself when none
    ssl,         \* ssl[r]: the background certificate request of r
    removing,    \* removing[p]: where ProjectsService.remove is
    rtodo,       \* rtodo[p]: containers remove has still to take down
    resetting    \* projects whose resetProjectStatus has read BUILDING

dbVars == <<project, deployment, rows>>
removeVars == <<removing, rtodo>>
vars == <<project, deployment, rows, docker, conf, pc, port, todo, victim,
          ssl, removing, rtodo, resetting>>

Overlap == mode.overlap
Faults == mode.faults
Managed == mode.managed

NoPort == 0

ProjectStatus == {"ACTIVE", "INACTIVE", "BUILDING", "FAILED"}

\* The handler is before, respectively past, the write of its container row
\* while it is running normally.
PreRecord == {"idle", "verified", "building", "keyed", "prepared", "built",
              "ported", "created", "started"}
PostRecord == {"recorded", "cleaning", "deleting", "cleaned", "active",
               "succeeded"}

\* Ends of a handler: it returned, it threw after recording the failure, it
\* threw before changing anything, it threw with its bookkeeping incomplete,
\* or the process died under it.
Ended == {"done", "failed", "rejected", "aborted", "lost"}

Labels == PreRecord \cup PostRecord \cup {"catch", "failing"} \cup Ended

\* The handler has written BUILDING and not yet replaced it, or it ended in a
\* way that leaves it behind.
StatusOwed == {"building", "keyed", "prepared", "built", "ported", "created",
               "started", "recorded", "cleaning", "deleting", "cleaned",
               "catch", "aborted", "lost"}

InFlight(r) == pc[r] \notin Ended \cup {"idle"}

Siblings(r) == {q \in Requests : q # r /\ ProjectOf[q] = ProjectOf[r]}

Exists(p) == project[p] # "deleted"

TypeOK ==
    /\ mode \in Modes
    /\ project \in [Projects -> ProjectStatus \cup {"deleted"}]
    /\ deployment \in [Requests -> {"none", "In Progress", "Success", "Failed"}]
    /\ rows \subseteq Requests
    /\ docker \in [Requests -> {"none", "created", "running"}]
    /\ conf \in [Projects -> Ports \cup {NoPort}]
    /\ pc \in [Requests -> Labels]
    /\ port \in [Requests -> Ports \cup {NoPort}]
    /\ todo \in [Requests -> SUBSET Requests]
    /\ victim \in [Requests -> Requests]
    /\ ssl \in [Requests -> {"none", "pending"}]
    /\ removing \in [Projects -> {"idle", "stopping", "deleting",
                                  "done", "broken"}]
    /\ rtodo \in [Projects -> SUBSET Requests]
    /\ resetting \subseteq Projects

Init ==
    /\ mode \in Modes
    /\ project = [p \in Projects |-> "INACTIVE"]
    /\ deployment = [r \in Requests |-> "none"]
    /\ rows = {}
    /\ docker = [r \in Requests |-> "none"]
    /\ conf = [p \in Projects |-> NoPort]
    /\ pc = [r \in Requests |-> "idle"]
    /\ port = [r \in Requests |-> NoPort]
    /\ todo = [r \in Requests |-> {}]
    /\ victim = [r \in Requests |-> r]
    /\ ssl = [r \in Requests |-> "none"]
    /\ removing = [p \in Projects |-> "idle"]
    /\ rtodo = [p \in Projects |-> {}]
    /\ resetting = {}

-----------------------------------------------------------------------------
(***************************************************************************)
(* Docker and the port choice                                              *)
(***************************************************************************)

\* Docker refuses to start a container whose host port is taken.
PortBound(h) == \E q \in Requests : docker[q] = "running" /\ port[q] = h

\* The ports of all container rows, whatever project they belong to.
UsedPorts == {port[q] : q \in rows}

\* The first port of the range that no container row uses.
getAvailablePort ==
    CHOOSE h \in Ports \ UsedPorts : \A k \in Ports \ UsedPorts : h <= k

Goto(r, label) == pc' = [pc EXCEPT ![r] = label]

-----------------------------------------------------------------------------
(***************************************************************************)
(* Before the try block: a throw here reaches the caller unhandled.        *)
(***************************************************************************)

\* verifyProject: with Overlap = FALSE the environment waits for the answer
\* of a deploy before it asks for another one of the same project.
verifyProject(r) ==
    /\ pc[r] = "idle"
    /\ Overlap \/ \A q \in Siblings(r) : ~InFlight(q)
    /\ IF Exists(ProjectOf[r]) THEN Goto(r, "verified") ELSE Goto(r, "rejected")
    /\ UNCHANGED <<dbVars, docker, conf, port, todo, victim, ssl, removeVars,
                   resetting>>

\* The activity log entry and the status update both need the project row.
MarkBuilding(r) ==
    /\ pc[r] = "verified"
    /\ \/ /\ Exists(ProjectOf[r])
          /\ project' = [project EXCEPT ![ProjectOf[r]] = "BUILDING"]
          /\ Goto(r, "building")
       \/ /\ ~Exists(ProjectOf[r]) \/ "db" \in Faults
          /\ Goto(r, "rejected")
          /\ UNCHANGED project
    /\ UNCHANGED <<deployment, rows, docker, conf, port, todo, victim, ssl,
                   removeVars, resetting>>

\* Only the GitHub flow has one more awaited read before its try block.
CreateDeployment(r) ==
    /\ pc[r] = "building"
    /\ \/ /\ Exists(ProjectOf[r])
          /\ deployment' = [deployment EXCEPT ![r] = "In Progress"]
          /\ Goto(r, IF KindOf[r] = "github" THEN "keyed" ELSE "prepared")
       \/ /\ ~Exists(ProjectOf[r]) \/ "db" \in Faults
          /\ Goto(r, "aborted")
          /\ UNCHANGED deployment
    /\ UNCHANGED <<project, rows, docker, conf, port, todo, victim, ssl,
                   removeVars, resetting>>

\* deployGithub reads the owner's git credentials outside the try block.
ReadCredentials(r) ==
    /\ pc[r] = "keyed"
    /\ \/ Goto(r, "prepared")
       \/ "db" \in Faults /\ Goto(r, "aborted")
    /\ UNCHANGED <<dbVars, docker, conf, port, todo, victim, ssl, removeVars,
                   resetting>>

-----------------------------------------------------------------------------
(***************************************************************************)
(* Inside the try block: every throw goes to the catch block.              *)
(***************************************************************************)

\* Extract, clone or copy the sources and build the image.  A bad upload or
\* a build error is an ordinary outcome, not a fault.
BuildImage(r) ==
    /\ pc[r] = "prepared"
    /\ Goto(r, "built") \/ Goto(r, "catch")
    /\ UNCHANGED <<dbVars, docker, conf, port, todo, victim, ssl, removeVars,
                   resetting>>

\* Mutant: the pool running empty is not noticed.
PickPort_NoLimit(r) ==
    /\ pc[r] = "built"
    /\ port' = [port EXCEPT ![r] = IF Ports \ UsedPorts = {} THEN MaxPort + 1
                                   ELSE getAvailablePort]
    /\ Goto(r, "ported")
    /\ UNCHANGED <<dbVars, docker, conf, todo, victim, ssl, removeVars,
                   resetting>>

PickPort(r) ==
    /\ pc[r] = "built"
    /\ \/ /\ Ports \ UsedPorts # {}
          /\ port' = [port EXCEPT ![r] = getAvailablePort]
          /\ Goto(r, "ported")
       \/ /\ Ports \ UsedPorts = {} \/ "db" \in Faults
          /\ Goto(r, "catch")
          /\ UNCHANGED port
    /\ UNCHANGED <<dbVars, docker, conf, todo, victim, ssl, removeVars,
                   resetting>>

CreateContainer(r) ==
    /\ pc[r] = "ported"
    /\ \/ /\ docker' = [docker EXCEPT ![r] = "created"]
          /\ Goto(r, "created")
       \/ /\ "docker" \in Faults
          /\ Goto(r, "catch")
          /\ UNCHANGED docker
    /\ UNCHANGED <<dbVars, conf, port, todo, victim, ssl, removeVars,
                   resetting>>

\* Mutant: the error of a failed start is swallowed.
StartContainer_Swallow(r) ==
    /\ pc[r] = "created"
    /\ Goto(r, "started")
    /\ \/ ~PortBound(port[r]) /\ docker' = [docker EXCEPT ![r] = "running"]
       \/ (PortBound(port[r]) \/ "docker" \in Faults) /\ UNCHANGED docker
    /\ UNCHANGED <<dbVars, conf, port, todo, victim, ssl, removeVars,
                   resetting>>

\* A start that fails leaves the created container behind in Docker.
StartContainer(r) ==
    /\ pc[r] = "created"
    /\ \/ /\ ~PortBound(port[r])
          /\ docker' = [docker EXCEPT ![r] = "running"]
          /\ Goto(r, "started")
       \/ /\ PortBound(port[r]) \/ "docker" \in Faults
          /\ Goto(r, "catch")
          /\ UNCHANGED docker
    /\ UNCHANGED <<dbVars, conf, port, todo, victim, ssl, removeVars,
                   resetting>>

\* The row needs its project (foreign key); the port is reserved only here.
RecordContainer(r) ==
    /\ pc[r] = "started"
    /\ \/ /\ Exists(ProjectOf[r])
          /\ rows' = rows \cup {r}
          /\ Goto(r, "recorded")
       \/ /\ ~Exists(ProjectOf[r]) \/ "db" \in Faults
          /\ Goto(r, "catch")
          /\ UNCHANGED rows
    /\ UNCHANGED <<project, deployment, docker, conf, port, todo, victim, ssl,
                   removeVars, resetting>>

-----------------------------------------------------------------------------
(***************************************************************************)
(* cleanupOldContainers: its own try block swallows every error.           *)
(***************************************************************************)

\* Mutants: the query forgets the project, or the container just deployed.
OldContainers_AllProjects(r) == rows \ {r}

OldContainers_Self(r) == {q \in rows : ProjectOf[q] = ProjectOf[r]}

OldContainers(r) == rows \cap Siblings(r)

FindOldContainers(r) ==
    /\ pc[r] = "recorded"
    /\ \/ /\ todo' = [todo EXCEPT ![r] = OldContainers(r)]
          /\ Goto(r, "cleaning")
       \/ /\ "db" \in Faults
          /\ Goto(r, "cleaned")
          /\ UNCHANGED todo
    /\ UNCHANGED <<dbVars, docker, conf, port, victim, ssl, removeVars,
                   resetting>>

\* Mutant: without force, Docker refuses to remove a running container.
RemoveOldContainer_NoForce(r) ==
    /\ pc[r] = "cleaning"
    /\ \E v \in todo[r] : /\ todo' = [todo EXCEPT ![r] = @ \ {v}]
                          /\ victim' = [victim EXCEPT ![r] = v]
    /\ Goto(r, "deleting")
    /\ UNCHANGED <<dbVars, docker, conf, port, ssl, removeVars, resetting>>

\* Forced removal, then the image; an error is logged and the loop goes on to
\* delete the row all the same.
RemoveOldContainer(r) ==
    /\ pc[r] = "cleaning"
    /\ \E v \in todo[r] :
          /\ todo' = [todo EXCEPT ![r] = @ \ {v}]
          /\ victim' = [victim EXCEPT ![r] = v]
          /\ \/ docker' = [docker EXCEPT ![v] = "none"]
             \/ "docker" \in Faults /\ UNCHANGED docker
    /\ Goto(r, "deleting")
    /\ UNCHANGED <<dbVars, conf, port, ssl, removeVars, resetting>>

\* Deleting a row that is already gone throws and abandons the loop.
DeleteOldRow(r) ==
    /\ pc[r] = "deleting"
    /\ \/ /\ victim[r] \in rows
          /\ rows' = rows \ {victim[r]}
          /\ victim' = [victim EXCEPT ![r] = r]
          /\ Goto(r, "cleaning")
          /\ UNCHANGED todo
       \/ /\ victim[r] \notin rows \/ "db" \in Faults
          /\ todo' = [todo EXCEPT ![r] = {}]
          /\ Goto(r, "cleaned")
          /\ UNCHANGED <<rows, victim>>
    /\ UNCHANGED <<project, deployment, docker, conf, port, ssl, removeVars,
                   resetting>>

CleanupReturns(r) ==
    /\ pc[r] = "cleaning" /\ todo[r] = {}
    /\ Goto(r, "cleaned")
    /\ UNCHANGED <<dbVars, docker, conf, port, todo, victim, ssl, removeVars,
                   resetting>>

-----------------------------------------------------------------------------

MarkActive(r) ==
    /\ pc[r] = "cleaned"
    /\ \/ /\ Exists(ProjectOf[r])
          /\ project' = [project EXCEPT ![ProjectOf[r]] = "ACTIVE"]
          /\ Goto(r, "active")
       \/ /\ ~Exists(ProjectOf[r]) \/ "db" \in Faults
          /\ Goto(r, "catch")
          /\ UNCHANGED project
    /\ UNCHANGED <<deployment, rows, docker, conf, port, todo, victim, ssl,
                   removeVars, resetting>>

\* The activity log entry and the deployment row both need the project.
RecordSuccess(r) ==
    /\ pc[r] = "active"
    /\ \/ /\ Exists(ProjectOf[r])
          /\ deployment' = [deployment EXCEPT ![r] = "Success"]
          /\ Goto(r, IF ProjectOf[r] \in Routed THEN "succeeded" ELSE "done")
       \/ /\ ~Exists(ProjectOf[r]) \/ "db" \in Faults
          /\ Goto(r, "catch")
          /\ UNCHANGED deployment
    /\ UNCHANGED <<project, rows, docker, conf, port, todo, victim, ssl,
                   removeVars, resetting>>

\* generateHttpConfig, then requestSsl is started and not awaited.  The write
\* of the file may throw, which sends a successful deploy to the catch block;
\* the Dockerfile flow writes a second file, after the domain's own.
PublishRoute(r) ==
    /\ pc[r] = "succeeded"
    /\ \/ /\ conf' = [conf EXCEPT ![ProjectOf[r]] = port[r]]
          /\ ssl' = [ssl EXCEPT ![r] = "pending"]
          /\ Goto(r, "done")
       \/ /\ "nginx" \in Faults
          /\ \/ UNCHANGED conf
             \/ /\ KindOf[r] = "dockerfile"
                /\ conf' = [conf EXCEPT ![ProjectOf[r]] = port[r]]
          /\ Goto(r, "catch")
          /\ UNCHANGED ssl
    /\ UNCHANGED <<dbVars, docker, port, todo, victim, removeVars, resetting>>

\* The certificate request settles: granted, and the route is written again
\* with the port this deploy remembers, or refused.
SslSettles(r) ==
    /\ ssl[r] = "pending"
    /\ ssl' = [ssl EXCEPT ![r] = "none"]
    /\ \/ conf' = [conf EXCEPT ![ProjectOf[r]] = port[r]]
       \/ UNCHANGED conf
    /\ UNCHANGED <<dbVars, docker, pc, port, todo, victim, removeVars,
                   resetting>>

(***************************************************************************)
(* The catch block.  Its own writes may throw as well.                     *)
(***************************************************************************)

\* Mutant: the catch block forgets the project status.
MarkFailed_KeepStatus(r) ==
    /\ pc[r] = "catch"
    /\ Goto(r, "failing")
    /\ UNCHANGED <<dbVars, docker, conf, port, todo, victim, ssl, removeVars,
                   resetting>>

MarkFailed(r) ==
    /\ pc[r] = "catch"
    /\ \/ /\ Exists(ProjectOf[r])
          /\ project' = [project EXCEPT ![ProjectOf[r]] = "FAILED"]
          /\ Goto(r, "failing")
       \/ /\ ~Exists(ProjectOf[r]) \/ "db" \in Faults
          /\ Goto(r, "aborted")
          /\ UNCHANGED project
    /\ UNCHANGED <<deployment, rows, docker, conf, port, todo, victim, ssl,
                   removeVars, resetting>>

\* Mutant: the catch block forgets the deployment row.
RecordFailure_Skip(r) ==
    /\ pc[r] = "failing"
    /\ Goto(r, "failed")
    /\ UNCHANGED <<dbVars, docker, conf, port, todo, victim, ssl, removeVars,
                   resetting>>

RecordFailure(r) ==
    /\ pc[r] = "failing"
    /\ \/ /\ Exists(ProjectOf[r])
          /\ deployment' = [deployment EXCEPT ![r] = "Failed"]
          /\ Goto(r, "failed")
       \/ /\ ~Exists(ProjectOf[r]) \/ "db" \in Faults
          /\ Goto(r, "aborted")
          /\ UNCHANGED deployment
    /\ UNCHANGED <<project, rows, docker, conf, port, todo, victim, ssl,
                   removeVars, resetting>>

cleanupOldContainers(r) ==
    \/ FindOldContainers(r) \/ RemoveOldContainer(r)
    \/ DeleteOldRow(r)      \/ CleanupReturns(r)

\* What the three flows share, in the order of the code.
DeploySteps(r) ==
    \/ MarkBuilding(r)    \/ CreateDeployment(r)
    \/ BuildImage(r)      \/ PickPort(r)
    \/ CreateContainer(r) \/ StartContainer(r) \/ RecordContainer(r)
    \/ cleanupOldContainers(r)
    \/ MarkActive(r)      \/ RecordSuccess(r)  \/ PublishRoute(r)
    \/ MarkFailed(r)      \/ RecordFailure(r)

deployZip(r) == KindOf[r] = "zip" /\ DeploySteps(r)

deployGithub(r) == KindOf[r] = "github" /\ (DeploySteps(r) \/ ReadCredentials(r))

deployDockerfile(r) == KindOf[r] = "dockerfile" /\ DeploySteps(r)

Deploy(r) == deployZip(r) \/ deployGithub(r) \/ deployDockerfile(r)

-----------------------------------------------------------------------------
(***************************************************************************)
(* Other writers of the same rows, containers and routes                   *)
(***************************************************************************)

\* The database deletes a project's container and deployment rows with it.
CascadeDelete(p) ==
    /\ project' = [project EXCEPT ![p] = "deleted"]
    /\ rows' = {q \in rows : ProjectOf[q] # p}
    /\ deployment' = [q \in Requests |->
                        IF ProjectOf[q] = p THEN "none" ELSE deployment[q]]

\* ProjectsService.remove reads the project with its containers.
RemoveProject(p) ==
    /\ removing[p] \in {"idle", "broken"} /\ Exists(p)
    /\ removing' = [removing EXCEPT ![p] = "stopping"]
    /\ rtodo' = [rtodo EXCEPT ![p] = {q \in rows : ProjectOf[q] = p}]
    /\ UNCHANGED <<dbVars, docker, conf, pc, port, todo, victim, ssl,
                   resetting>>

\* Stop and forced removal, each with its error swallowed.
RemoveProjectContainer(p) ==
    /\ removing[p] = "stopping"
    /\ \E v \in rtodo[p] :
          /\ rtodo' = [rtodo EXCEPT ![p] = @ \ {v}]
          /\ \/ docker' = [docker EXCEPT ![v] = "none"]
             \/ "docker" \in Faults /\ UNCHANGED docker
    /\ UNCHANGED <<dbVars, conf, pc, port, todo, victim, ssl, removing,
                   resetting>>

\* An error of removeConfig is swallowed.
RemoveProjectRoute(p) ==
    /\ removing[p] = "stopping" /\ rtodo[p] = {}
    /\ removing' = [removing EXCEPT ![p] = "deleting"]
    /\ \/ conf' = [conf EXCEPT ![p] = NoPort]
       \/ "nginx" \in Faults /\ UNCHANGED conf
    /\ UNCHANGED <<dbVars, docker, pc, port, todo, victim, ssl, rtodo,
                   resetting>>

RemoveProjectRow(p) ==
    /\ removing[p] = "deleting"
    /\ \/ /\ Exists(p)
          /\ CascadeDelete(p)
          /\ removing' = [removing EXCEPT ![p] = "done"]
       \/ /\ ~Exists(p) \/ "db" \in Faults
          /\ removing' = [removing EXCEPT ![p] = "broken"]
          /\ UNCHANGED dbVars
    /\ UNCHANGED <<docker, conf, pc, port, todo, victim, ssl, rtodo, resetting>>

remove(p) ==
    \/ RemoveProjectContainer(p) \/ RemoveProjectRoute(p) \/ RemoveProjectRow(p)

\* AdminProjectsService.deleteProject only deletes rows.
deleteProject(p) ==
    /\ Exists(p)
    /\ CascadeDelete(p)
    /\ UNCHANGED <<docker, conf, pc, port, todo, victim, ssl, removeVars,
                   resetting>>

\* AdminProjectsService.resetProjectStatus reads the status, then writes.
ResetReads(p) ==
    /\ project[p] = "BUILDING" /\ p \notin resetting
    /\ resetting' = resetting \cup {p}
    /\ UNCHANGED <<dbVars, docker, conf, pc, port, todo, victim, ssl,
                   removeVars>>

ResetWrites(p) ==
    /\ p \in resetting
    /\ resetting' = resetting \ {p}
    /\ project' = IF Exists(p) THEN [project EXCEPT ![p] = "FAILED"] ELSE project
    /\ UNCHANGED <<deployment, rows, docker, conf, pc, port, todo, victim, ssl,
                   removeVars>>

\* The process dies and is restarted.  Everything it had in memory is gone;
\* rows, containers and configuration files stay, and nothing at start-up
\* looks at them.
Crash ==
    /\ "crash" \in Faults
    /\ \/ \E r \in Requests : InFlight(r) \/ ssl[r] = "pending"
       \/ \E p \in Projects : removing[p] \in {"stopping", "deleting"}
    /\ pc' = [r \in Requests |-> IF InFlight(r) THEN "lost" ELSE pc[r]]
    /\ ssl' = [r \in Requests |-> "none"]
    /\ removing' = [p \in Projects |->
                      IF removing[p] \in {"stopping", "deleting"}
                      THEN "broken" ELSE removing[p]]
    /\ resetting' = {}
    /\ UNCHANGED <<dbVars, docker, conf, port, todo, victim, rtodo>>

Step ==
    \/ \E r \in Requests : verifyProject(r) \/ Deploy(r) \/ SslSettles(r)
    \/ \E p \in Managed :
          \/ RemoveProject(p) \/ remove(p)
          \/ deleteProject(p) \/ ResetReads(p) \/ ResetWrites(p)
    \/ Crash

Next == Step /\ UNCHANGED mode

Spec == Init /\ [][Next]_<<vars, mode>>

\* A handler that has been entered runs on: every call it awaits settles.
\* Users owe nothing: no fairness on verifyProject or RemoveProject.
Fairness ==
    /\ \A r \in Requests : WF_vars(Deploy(r)) /\ WF_vars(SslSettles(r))
    /\ \A p \in Projects : WF_vars(remove(p)) /\ WF_vars(ResetWrites(p))

FairSpec == Spec /\ Fairness

-----------------------------------------------------------------------------
(***************************************************************************)
(* Properties                                                              *)
(***************************************************************************)

\* A project is shown as BUILDING only while some deploy of it can still
\* overwrite the status, or after a deploy of it died or threw outside its
\* own error handling: with overlapping deploys, the last handler to write
\* BUILDING is always followed by its own ACTIVE or FAILED.
BuildingHasDeploy ==
    \A p \in Projects : project[p] = "BUILDING" =>
        \E r \in Requests : ProjectOf[r] = p /\ pc[r] \in StatusOwed

\* A container row whose Docker container is not running was taken down by
\* the cleanup loop of another deploy of the same project, or by the removal
\* of that project: no deploy records a container that does not run, and no
\* deploy ever takes down the container of another project.
RowBacked ==
    \A r \in rows : docker[r] # "running" =>
        \/ \E q \in Siblings(r) : victim[q] = r
        \/ removing[ProjectOf[r]] # "idle"

\* A running container without a row belongs to a deploy that is about to
\* write the row, or its project has been deleted.  (Its port counts as free
\* in getAvailablePort, so it would fail every later deploy at start.)
\* Holds when neither the database nor Docker fails and nothing crashes.
NoOrphan ==
    Faults \subseteq {"nginx"} => \A r \in Requests :
        docker[r] = "running" /\ r \notin rows => pc[r] = "started" \/ ~Exists(ProjectOf[r])

\* When no handler is running, no two container rows claim one host port.
\* Holds when neither the database nor Docker fails and nothing crashes.
SettledPortsDistinct ==
    /\ Faults \subseteq {"nginx"}
    /\ \A r \in Requests : ~InFlight(r)
    /\ \A p \in Projects : removing[p] = "idle"
    => \A q, r \in rows : q # r => port[q] # port[r]

\* With one deploy per project at a time: an ACTIVE project whose deploys
\* have all ended has exactly one container row, and that container runs.
ActiveServed ==
    \A p \in Projects :
        /\ project[p] = "ACTIVE" /\ removing[p] = "idle"
        /\ \A r \in Requests : ProjectOf[r] = p => ~InFlight(r)
        => \E r \in rows : /\ {q \in rows : ProjectOf[q] = p} = {r}
                           /\ docker[r] = "running"

\* A handler before the start of its container.
PreStart == PreRecord \ {"started"}

\* What a request is to its project: a release to come, serving, or over.
Phase(r) == IF docker[r] = "running" THEN "live"
            ELSE IF pc[r] \in PreStart THEN "pending" ELSE "over"

Promised == INSTANCE Rollout WITH
    Releases <- Requests,
    phase <- [r \in Requests |-> Phase(r)],
    gone <- {p \in Projects : removing[p] # "idle"},
    shown <- {p \in Projects : project[p] = "ACTIVE"}

\* With one deploy per project at a time, whatever fails, deploys keep the
\* promise of Rollout: no redeploy takes a project down, and ACTIVE is written
\* only for a project that is served.
ImplementsRollout == Promised!Spec

\* Every deployment row eventually leaves "In Progress", and every project
\* eventually leaves BUILDING, when only Docker and nginx calls may fail.
DeploySettles ==
    /\ \A r \in Requests : deployment[r] = "In Progress" ~> deployment[r] # "In Progress"
    /\ \A p \in Projects : project[p] = "BUILDING" ~> project[p] # "BUILDING"

\* "Auto-deploy on push": after all deploys have ended, an ACTIVE project has
\* a running container.
DeployedIsRunning ==
    \A p \in Projects :
        /\ project[p] = "ACTIVE" /\ removing[p] = "idle"
        /\ \A r \in Requests : ProjectOf[r] = p => ~InFlight(r)
        => \E r \in Requests : ProjectOf[r] = p /\ docker[r] = "running"
=============================================================================

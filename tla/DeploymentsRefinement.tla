----------------------- MODULE DeploymentsRefinement -----------------------
(***************************************************************************)
(* Serial deploys, for any set of projects, requests, ports and faults:    *)
(* Deployments implements Rollout, and an ACTIVE project has one row.      *)
(***************************************************************************)
EXTENDS DeploymentsProofs

\* The handler has started its container and has not ended.
PastStart == {"started"} \cup PostRecord

OneDeploy == \A r \in Requests : \A q \in Siblings(r) : ~(InFlight(r) /\ InFlight(q))

StartedServes ==
    \A r \in Requests : pc[r] \in PastStart =>
        docker[r] = "running" \/ removing[ProjectOf[r]] # "idle"

NotYetRunning == \A r \in Requests : pc[r] \in PreStart => docker[r] # "running"

TodoOwn == \A r \in Requests : todo[r] \subseteq Siblings(r)

RemoveTodoOwn ==
    \A p \in Projects : rtodo[p] \subseteq {q \in Requests : ProjectOf[q] = p}

\* The inductive invariant of serial deploys: nobody but the removal of its
\* project takes down the container of a deploy that has not ended.
SerialInv ==
    /\ OneDeploy /\ StartedServes /\ NotYetRunning
    /\ TodoOwn /\ RemoveTodoOwn

Serial == \A m \in Modes : ~m.overlap

-----------------------------------------------------------------------------
(***************************************************************************)
(* What a step of a handler does to the program points, to the containers  *)
(* and to the project, by cases on the code.                               *)
(***************************************************************************)

\* A handler never returns to before its start, it is past its start only
\* through the start of its container, and it leaves idle by verifyProject.
LEMMA HandlerOrder ==
    ASSUME TypeOK, NEW r \in Requests, verifyProject(r) \/ Deploy(r)
    PROVE  /\ \A q \in Requests \ {r} : pc'[q] = pc[q]
           /\ pc'[r] \in PreStart => pc[r] \in PreStart
           /\ pc'[r] \in PastStart => pc[r] \in PastStart \cup {"created"}
           /\ InFlight(r) \/ verifyProject(r)
<1> USE DEF Goto, PreStart, PreRecord, PastStart, PostRecord, InFlight, Ended
<1>0. pc \in [Requests -> Labels]
  BY DEF TypeOK
<1>1. CASE verifyProject(r) \/ MarkBuilding(r) \/ CreateDeployment(r) \/ ReadCredentials(r)
  BY <1>0, <1>1 DEF verifyProject, MarkBuilding, CreateDeployment, ReadCredentials
<1>2. CASE BuildImage(r) \/ PickPort(r) \/ CreateContainer(r) \/ StartContainer(r)
  BY <1>0, <1>2 DEF BuildImage, PickPort, CreateContainer, StartContainer
<1>3. CASE RecordContainer(r) \/ FindOldContainers(r) \/ RemoveOldContainer(r)
  BY <1>0, <1>3 DEF RecordContainer, FindOldContainers, RemoveOldContainer
<1>4. CASE DeleteOldRow(r) \/ CleanupReturns(r) \/ MarkActive(r)
  BY <1>0, <1>4 DEF DeleteOldRow, CleanupReturns, MarkActive
<1>5. CASE RecordSuccess(r) \/ PublishRoute(r) \/ MarkFailed(r) \/ RecordFailure(r)
  BY <1>0, <1>5 DEF RecordSuccess, PublishRoute, MarkFailed, RecordFailure
<1>6. QED
  BY <1>1, <1>2, <1>3, <1>4, <1>5
     DEF Deploy, deployZip, deployGithub, deployDockerfile, DeploySteps,
         cleanupOldContainers

\* The four ways a handler's step treats the Docker engine.
LEMMA HandlerDocker ==
    ASSUME TypeOK, TodoOwn, NEW r \in Requests, verifyProject(r) \/ Deploy(r)
    PROVE  \/ /\ UNCHANGED docker
              /\ pc'[r] \in PastStart => pc[r] \in PastStart
           \/ /\ pc[r] = "created" /\ pc'[r] = "started"
              /\ docker' = [docker EXCEPT ![r] = "running"]
              /\ UNCHANGED project
           \/ /\ pc[r] = "ported" /\ pc'[r] = "created"
              /\ docker' = [docker EXCEPT ![r] = "created"]
              /\ UNCHANGED project
           \/ /\ pc[r] = "cleaning" /\ pc'[r] = "deleting"
              /\ \E v \in Siblings(r) : docker' = [docker EXCEPT ![v] = "none"]
              /\ UNCHANGED project
<1> USE DEF Goto, PastStart, PostRecord, dbVars
<1>0. pc \in [Requests -> Labels] /\ todo[r] \subseteq Siblings(r)
  BY DEF TypeOK, TodoOwn
<1>1. CASE verifyProject(r) \/ MarkBuilding(r) \/ CreateDeployment(r) \/ ReadCredentials(r)
  BY <1>0, <1>1 DEF verifyProject, MarkBuilding, CreateDeployment, ReadCredentials
<1>2. CASE BuildImage(r) \/ PickPort(r) \/ CreateContainer(r) \/ StartContainer(r)
  BY <1>0, <1>2 DEF BuildImage, PickPort, CreateContainer, StartContainer
<1>3. CASE RecordContainer(r) \/ FindOldContainers(r) \/ RemoveOldContainer(r)
  BY <1>0, <1>3 DEF RecordContainer, FindOldContainers, RemoveOldContainer
<1>4. CASE DeleteOldRow(r) \/ CleanupReturns(r) \/ MarkActive(r)
  BY <1>0, <1>4 DEF DeleteOldRow, CleanupReturns, MarkActive
<1>5. CASE RecordSuccess(r) \/ PublishRoute(r) \/ MarkFailed(r) \/ RecordFailure(r)
  BY <1>0, <1>5 DEF RecordSuccess, PublishRoute, MarkFailed, RecordFailure
<1>6. QED
  BY <1>1, <1>2, <1>3, <1>4, <1>5
     DEF Deploy, deployZip, deployGithub, deployDockerfile, DeploySteps,
         cleanupOldContainers

\* A handler writes a status other than ACTIVE, or ACTIVE after its cleanup.
LEMMA HandlerProject ==
    ASSUME TypeOK, NEW r \in Requests, verifyProject(r) \/ Deploy(r)
    PROVE  /\ UNCHANGED removing
           /\ \/ UNCHANGED project
              \/ /\ \E s \in {"BUILDING", "FAILED"} :
                       project' = [project EXCEPT ![ProjectOf[r]] = s]
                 /\ pc[r] \in PreStart <=> pc'[r] \in PreStart
              \/ /\ project' = [project EXCEPT ![ProjectOf[r]] = "ACTIVE"]
                 /\ pc[r] = "cleaned" /\ pc'[r] = "active"
<1> USE DEF Goto, PreStart, PreRecord, dbVars, removeVars
<1>0. pc \in [Requests -> Labels]
  BY DEF TypeOK
<1>1. CASE verifyProject(r) \/ MarkBuilding(r) \/ CreateDeployment(r) \/ ReadCredentials(r)
  BY <1>0, <1>1 DEF verifyProject, MarkBuilding, CreateDeployment, ReadCredentials
<1>2. CASE BuildImage(r) \/ PickPort(r) \/ CreateContainer(r) \/ StartContainer(r)
  BY <1>0, <1>2 DEF BuildImage, PickPort, CreateContainer, StartContainer
<1>3. CASE RecordContainer(r) \/ FindOldContainers(r) \/ RemoveOldContainer(r)
  BY <1>0, <1>3 DEF RecordContainer, FindOldContainers, RemoveOldContainer
<1>4. CASE DeleteOldRow(r) \/ CleanupReturns(r) \/ MarkActive(r)
  BY <1>0, <1>4 DEF DeleteOldRow, CleanupReturns, MarkActive
<1>5. CASE RecordSuccess(r) \/ PublishRoute(r) \/ MarkFailed(r) \/ RecordFailure(r)
  BY <1>0, <1>5 DEF RecordSuccess, PublishRoute, MarkFailed, RecordFailure
<1>6. QED
  BY <1>1, <1>2, <1>3, <1>4, <1>5
     DEF Deploy, deployZip, deployGithub, deployDockerfile, DeploySteps,
         cleanupOldContainers

\* The cleanup loop of a handler only ever holds rows of its own project.
LEMMA HandlerTodo ==
    ASSUME TypeOK, TodoOwn, NEW r \in Requests, verifyProject(r) \/ Deploy(r)
    PROVE  TodoOwn' /\ UNCHANGED rtodo
<1> USE DEF TodoOwn, removeVars, Siblings
<1>0. todo \in [Requests -> SUBSET Requests]
  BY DEF TypeOK
<1>1. CASE verifyProject(r) \/ MarkBuilding(r) \/ CreateDeployment(r) \/ ReadCredentials(r)
  BY <1>0, <1>1 DEF verifyProject, MarkBuilding, CreateDeployment, ReadCredentials
<1>2. CASE BuildImage(r) \/ PickPort(r) \/ CreateContainer(r) \/ StartContainer(r)
  BY <1>0, <1>2 DEF BuildImage, PickPort, CreateContainer, StartContainer
<1>3. CASE RecordContainer(r) \/ FindOldContainers(r) \/ RemoveOldContainer(r)
  BY <1>0, <1>3 DEF RecordContainer, FindOldContainers, RemoveOldContainer,
     OldContainers
<1>4. CASE DeleteOldRow(r) \/ CleanupReturns(r) \/ MarkActive(r)
  BY <1>0, <1>4 DEF DeleteOldRow, CleanupReturns, MarkActive
<1>5. CASE RecordSuccess(r) \/ PublishRoute(r) \/ MarkFailed(r) \/ RecordFailure(r)
  BY <1>0, <1>5 DEF RecordSuccess, PublishRoute, MarkFailed, RecordFailure
<1>6. QED
  BY <1>1, <1>2, <1>3, <1>4, <1>5
     DEF Deploy, deployZip, deployGithub, deployDockerfile, DeploySteps,
         cleanupOldContainers

-----------------------------------------------------------------------------
(***************************************************************************)
(* SerialInv is inductive                                                  *)
(***************************************************************************)

\* A handler is let in only when no other deploy of its project is in
\* flight, and its cleanup loop takes down other containers of the project.
LEMMA HandlerKeepsSerial ==
    ASSUME ConstantsAssumption, Serial, TypeOK, SerialInv, NEW r \in Requests,
           verifyProject(r) \/ Deploy(r)
    PROVE  SerialInv'
<1> USE HandlerOrder DEF SerialInv
<1>0. /\ pc \in [Requests -> Labels]
      /\ docker \in [Requests -> {"none", "created", "running"}]
      /\ ProjectOf \in [Requests -> Projects]
      /\ UNCHANGED removing
  BY HandlerProject DEF TypeOK, ConstantsAssumption
<1>1. OneDeploy'
  <2>1. InFlight(r) \/ \A q \in Siblings(r) : ~InFlight(q)
    BY DEF verifyProject, Overlap, TypeOK, Serial
  <2>2. \A q \in Siblings(r) : ~InFlight(q)
    BY <2>1 DEF OneDeploy
  <2>3. \A q \in Siblings(r) : q # r /\ ~InFlight(q)'
    BY <2>2 DEF InFlight, Siblings
  <2>4. \A q \in Requests \ {r} : InFlight(q)' <=> InFlight(q)
    BY DEF InFlight
  <2>5. ASSUME NEW a \in Requests, NEW b \in Siblings(a),
               InFlight(a)', InFlight(b)'
        PROVE  FALSE
    <3>1. a \in Siblings(b) /\ b \in Requests /\ a # b
      BY <2>5 DEF Siblings
    <3>2. a # r /\ b # r
      BY <2>3, <2>5, <3>1
    <3>3. QED
      BY <2>4, <2>5, <3>1, <3>2 DEF OneDeploy
  <2>6. QED
    BY <2>5 DEF OneDeploy, Siblings
<1>2. StartedServes'
  <2> SUFFICES ASSUME NEW q \in Requests, pc'[q] \in PastStart
               PROVE  docker'[q] = "running" \/ removing[ProjectOf[q]] # "idle"
    BY <1>0 DEF StartedServes
  <2>1. pc[q] \in PastStart => docker[q] = "running" \/ removing[ProjectOf[q]] # "idle"
    BY DEF StartedServes
  <2>2. pc[q] \in PastStart => InFlight(q)
    BY DEF InFlight, PastStart, PostRecord, Ended
  <2>3. CASE q = r
    BY <1>0, <2>1, <2>3, HandlerDocker DEF PastStart, PostRecord, Siblings
  <2>4. CASE q # r
    <3>1. pc'[q] = pc[q]
      BY <2>4
    <3>2. pc[r] = "cleaning" => q \notin Siblings(r)
      BY <2>2, <3>1 DEF OneDeploy, InFlight, Ended
    <3>3. QED
      BY <1>0, <2>1, <2>4, <3>1, <3>2, HandlerDocker
  <2>5. QED
    BY <2>3, <2>4
<1>3. NotYetRunning'
  BY <1>0, HandlerDocker DEF NotYetRunning, PreStart, PreRecord
<1>4. TodoOwn' /\ RemoveTodoOwn'
  BY HandlerTodo DEF RemoveTodoOwn
<1>5. QED
  BY <1>1, <1>2, <1>3, <1>4

\* The removal of a project has begun before it takes down a container, and
\* a restart of the process ends every handler.
LEMMA OthersKeepSerial ==
    ASSUME ConstantsAssumption, TypeOK, SerialInv,
           \/ \E r \in Requests : SslSettles(r)
           \/ \E p \in Managed : \/ RemoveProject(p) \/ remove(p)
                                 \/ deleteProject(p) \/ ResetReads(p)
                                 \/ ResetWrites(p)
           \/ Crash
    PROVE  SerialInv'
<1>0. /\ Managed \subseteq Projects
      /\ \A r \in Requests : ProjectOf[r] \in Projects
      /\ docker \in [Requests -> {"none", "created", "running"}]
      /\ removing \in [Projects -> {"idle", "stopping", "deleting", "done", "broken"}]
      /\ rtodo \in [Projects -> SUBSET Requests]
      /\ rows \subseteq Requests
  BY DEF TypeOK, ConstantsAssumption, Managed, Mode
<1> USE DEF removeVars, dbVars, SerialInv, OneDeploy, StartedServes, InFlight,
            NotYetRunning, TodoOwn, RemoveTodoOwn, Siblings
<1>1. ASSUME NEW r \in Requests, SslSettles(r) PROVE SerialInv'
  BY <1>1 DEF SslSettles
<1>2. ASSUME NEW p \in Managed, RemoveProject(p) PROVE SerialInv'
  BY <1>0, <1>2 DEF RemoveProject
<1>3. ASSUME NEW p \in Managed, RemoveProjectContainer(p) PROVE SerialInv'
  <2>1. PICK v \in rtodo[p] :
          /\ rtodo' = [rtodo EXCEPT ![p] = @ \ {v}]
          /\ \/ docker' = [docker EXCEPT ![v] = "none"]
             \/ "docker" \in Faults /\ UNCHANGED docker
    BY <1>3 DEF RemoveProjectContainer
  <2>2. v \in Requests /\ ProjectOf[v] = p /\ removing[p] # "idle"
    BY <1>0, <1>3, <2>1 DEF RemoveProjectContainer
  <2>3. UNCHANGED <<pc, todo, removing>>
    BY <1>3 DEF RemoveProjectContainer
  <2>4. QED
    BY <1>0, <2>1, <2>2, <2>3
<1>4. ASSUME NEW p \in Managed, RemoveProjectRoute(p) \/ RemoveProjectRow(p)
      PROVE  SerialInv'
  BY <1>0, <1>4 DEF RemoveProjectRoute, RemoveProjectRow
<1>5. ASSUME NEW p \in Managed, deleteProject(p) \/ ResetReads(p) \/ ResetWrites(p)
      PROVE  SerialInv'
  BY <1>5 DEF deleteProject, ResetReads, ResetWrites
<1>6. ASSUME Crash PROVE SerialInv'
  BY <1>0, <1>6 DEF Crash, Ended, PastStart, PostRecord, PreStart, PreRecord
<1>7. QED
  BY <1>1, <1>2, <1>3, <1>4, <1>5, <1>6 DEF remove

\* With one deploy of a project at a time, a deploy that has started its
\* container keeps it until it ends or the project is being removed.
THEOREM SerialDeploys ==
    ASSUME ConstantsAssumption, Serial PROVE Spec => [](TypeOK /\ SerialInv)
<1>1. Init => SerialInv
  BY DEF Init, SerialInv, OneDeploy, StartedServes, NotYetRunning, TodoOwn,
         RemoveTodoOwn, InFlight, PastStart, PostRecord
<1>2. TypeOK /\ SerialInv /\ [Next]_<<vars, mode>> => SerialInv'
  <2> SUFFICES ASSUME TypeOK, SerialInv, [Next]_<<vars, mode>> PROVE SerialInv'
    OBVIOUS
  <2>1. CASE UNCHANGED <<vars, mode>>
    BY <2>1 DEF vars, SerialInv, OneDeploy, StartedServes, NotYetRunning,
                TodoOwn, RemoveTodoOwn, InFlight
  <2>2. CASE Next
    BY <2>2, HandlerKeepsSerial, OthersKeepSerial DEF Next, Step
  <2>3. QED
    BY <2>1, <2>2
<1>3. Spec => []TypeOK
  BY TypeCorrect
<1>4. QED
  BY <1>1, <1>2, <1>3, PTL DEF Spec

-----------------------------------------------------------------------------
(***************************************************************************)
(* The refinement                                                          *)
(***************************************************************************)

phases == [r \in Requests |-> Phase(r)]
gone == {p \in Projects : removing[p] # "idle"}
shown == {p \in Projects : project[p] = "ACTIVE"}

\* A step of a handler is a step of Rollout or changes nothing it shows.
LEMMA HandlerRefines ==
    ASSUME ConstantsAssumption, TypeOK, SerialInv, NEW r \in Requests,
           verifyProject(r) \/ Deploy(r)
    PROVE  Promised!Next \/ UNCHANGED <<phases, gone, shown>>
<1>0. /\ pc \in [Requests -> Labels]
      /\ docker \in [Requests -> {"none", "created", "running"}]
      /\ project \in [Projects -> ProjectStatus \cup {"deleted"}]
      /\ ProjectOf \in [Requests -> Projects]
      /\ OneDeploy /\ StartedServes /\ NotYetRunning /\ TodoOwn
  BY DEF TypeOK, ConstantsAssumption, SerialInv
<1>1. /\ UNCHANGED gone
      /\ \A q \in Requests \ {r} : pc'[q] = pc[q]
  BY HandlerOrder, HandlerProject DEF gone
<1>2. CASE UNCHANGED docker
  <2>1. \A q \in Requests \ {r} : Phase(q)' = Phase(q)
    BY <1>1, <1>2 DEF Phase
  <2>2. CASE Phase(r)' = Phase(r)
    <3>1. UNCHANGED phases
      BY <2>1, <2>2 DEF phases
    <3>2. CASE UNCHANGED project
      BY <1>1, <3>1, <3>2 DEF shown
    <3>3. ASSUME NEW s \in {"BUILDING", "FAILED"},
                 project' = [project EXCEPT ![ProjectOf[r]] = s]
          PROVE  Promised!Withdraw(ProjectOf[r])
      <4>1. shown' = shown \ {ProjectOf[r]}
        BY <1>0, <3>3 DEF shown
      <4>2. QED
        BY <1>1, <3>1, <4>1 DEF Promised!Withdraw, phases, gone, shown
    <3>4. CASE /\ project' = [project EXCEPT ![ProjectOf[r]] = "ACTIVE"]
               /\ pc[r] = "cleaned"
      <4>1. shown' = shown \cup {ProjectOf[r]}
        BY <1>0, <3>4 DEF shown
      <4>2. Phase(r) = "live" \/ ProjectOf[r] \in gone
        BY <1>0, <3>4 DEF StartedServes, PastStart, PostRecord, Phase, gone
      <4>3. Promised!Announce(ProjectOf[r])
        BY <1>0, <1>1, <3>1, <4>1, <4>2
           DEF Promised!Announce, Promised!Serving, phases, gone, shown
      <4>4. QED
        BY <1>0, <4>3 DEF Promised!Next
    <3>5. QED
      BY <1>0, <3>2, <3>3, <3>4, HandlerProject DEF Promised!Next
  <2>3. CASE Phase(r)' # Phase(r)
    <3>1. Phase(r) = "pending" /\ Phase(r)' = "over"
      BY <1>0, <1>2, <2>3, HandlerOrder DEF Phase
    <3>2. UNCHANGED project
      BY <1>2, <3>1, HandlerProject
         DEF Phase, PreStart, PreRecord
    <3>3. phases' = [q \in Requests |-> IF q \in {r} THEN "over" ELSE Phase(q)]
      BY <2>1, <3>1 DEF phases
    <3>4. Promised!GiveUp({r})
      BY <1>1, <3>1, <3>2, <3>3 DEF Promised!GiveUp, phases, gone, shown
    <3>5. QED
      BY <3>4 DEF Promised!Next
  <2>4. QED
    BY <2>2, <2>3
<1>3. CASE /\ pc[r] = "created" /\ pc'[r] = "started"
           /\ docker' = [docker EXCEPT ![r] = "running"]
           /\ UNCHANGED project
  <2>1. Phase(r) = "pending" /\ Phase(r)' = "live"
    BY <1>0, <1>3 DEF Phase, NotYetRunning, PreStart, PreRecord
  <2>2. \A q \in Requests \ {r} : Phase(q)' = Phase(q)
    BY <1>0, <1>1, <1>3 DEF Phase
  <2>3. phases' = [phases EXCEPT ![r] = "live"]
    BY <2>1, <2>2 DEF phases
  <2>4. Promised!Start(r)
    BY <1>1, <1>3, <2>1, <2>3 DEF Promised!Start, phases, gone, shown
  <2>5. QED
    BY <2>4 DEF Promised!Next
<1>4. CASE /\ pc[r] = "ported" /\ pc'[r] = "created"
           /\ docker' = [docker EXCEPT ![r] = "created"]
           /\ UNCHANGED project
  <2>1. \A q \in Requests : Phase(q)' = Phase(q)
    BY <1>0, <1>1, <1>4 DEF Phase, NotYetRunning, PreStart, PreRecord
  <2>2. QED
    BY <1>1, <1>4, <2>1 DEF phases, shown
<1>5. ASSUME NEW v \in Siblings(r), pc[r] = "cleaning", pc'[r] = "deleting",
             docker' = [docker EXCEPT ![v] = "none"], UNCHANGED project
      PROVE  Promised!Next \/ UNCHANGED <<phases, gone, shown>>
  <2>0. v \in Requests /\ v # r /\ ProjectOf[v] = ProjectOf[r]
    BY DEF Siblings
  <2>1. \A q \in Requests \ {v} : Phase(q)' = Phase(q)
    BY <1>0, <1>1, <1>5 DEF Phase, PreStart, PreRecord
  <2>2. CASE docker[v] = "running"
    <3>1. Phase(v) = "live" /\ Phase(v)' = "over"
      BY <1>0, <1>1, <1>5, <2>0, <2>2 DEF Phase, NotYetRunning
    <3>2. Phase(r) = "live" \/ ProjectOf[v] \in gone
      BY <1>0, <1>5, <2>0 DEF StartedServes, PastStart, PostRecord, Phase, gone
    <3>3. phases' = [phases EXCEPT ![v] = "over"]
      BY <2>1, <3>1 DEF phases
    <3>4. Promised!TakeDown(v)
      BY <1>1, <1>5, <2>0, <3>1, <3>2, <3>3
         DEF Promised!TakeDown, Promised!Serving, phases, gone, shown
    <3>5. QED
      BY <2>0, <3>4 DEF Promised!Next
  <2>3. CASE docker[v] # "running"
    <3>1. Phase(v)' = Phase(v)
      BY <1>0, <1>1, <1>5, <2>0, <2>3 DEF Phase
    <3>2. QED
      BY <1>1, <1>5, <2>1, <3>1 DEF phases, shown
  <2>4. QED
    BY <2>2, <2>3
<1>6. QED
  BY <1>0, <1>2, <1>3, <1>4, <1>5, HandlerDocker

\* So are the steps of the removal and the reset of a project, of the
\* certificate callback, and a restart of the process.
LEMMA OthersRefine ==
    ASSUME ConstantsAssumption, TypeOK, SerialInv,
           \/ \E r \in Requests : SslSettles(r)
           \/ \E p \in Managed : \/ RemoveProject(p) \/ remove(p)
                                 \/ deleteProject(p) \/ ResetReads(p)
                                 \/ ResetWrites(p)
           \/ Crash
    PROVE  Promised!Next \/ UNCHANGED <<phases, gone, shown>>
<1>0. /\ Managed \subseteq Projects
      /\ docker \in [Requests -> {"none", "created", "running"}]
      /\ project \in [Projects -> ProjectStatus \cup {"deleted"}]
      /\ removing \in [Projects -> {"idle", "stopping", "deleting", "done", "broken"}]
      /\ NotYetRunning /\ RemoveTodoOwn
  BY DEF TypeOK, SerialInv, ConstantsAssumption, Managed, Mode
<1> USE DEF dbVars, removeVars
<1>1. ASSUME NEW r \in Requests, SslSettles(r)
      PROVE  UNCHANGED <<phases, gone, shown>>
  BY <1>1 DEF SslSettles, phases, gone, shown, Phase
<1>2. ASSUME NEW p \in Managed, RemoveProject(p) PROVE Promised!Remove(p)
  <2>1. gone' = gone \cup {p}
    BY <1>0, <1>2 DEF RemoveProject, gone
  <2>2. UNCHANGED <<phases, shown>>
    BY <1>2 DEF RemoveProject, phases, shown, Phase
  <2>3. QED
    BY <2>1, <2>2 DEF Promised!Remove, phases, gone, shown
<1>3. ASSUME NEW p \in Managed, RemoveProjectContainer(p)
      PROVE  Promised!Next \/ UNCHANGED <<phases, gone, shown>>
  <2>1. PICK v \in rtodo[p] : \/ docker' = [docker EXCEPT ![v] = "none"]
                              \/ UNCHANGED docker
    BY <1>3 DEF RemoveProjectContainer
  <2>2. v \in Requests /\ ProjectOf[v] = p /\ p \in gone
    BY <1>0, <1>3, <2>1 DEF RemoveProjectContainer, RemoveTodoOwn, gone
  <2>3. UNCHANGED <<pc, gone, shown>>
    BY <1>3 DEF RemoveProjectContainer, gone, shown
  <2>4. CASE docker[v] = "running" /\ docker' = [docker EXCEPT ![v] = "none"]
    <3>1. Phase(v) = "live" /\ Phase(v)' = "over"
      BY <1>0, <2>2, <2>3, <2>4 DEF Phase, NotYetRunning
    <3>2. phases' = [phases EXCEPT ![v] = "over"]
      BY <1>0, <2>3, <2>4, <3>1 DEF phases, Phase
    <3>3. Promised!TakeDown(v)
      BY <2>2, <2>3, <3>1, <3>2 DEF Promised!TakeDown, phases, gone, shown
    <3>4. QED
      BY <2>2, <3>3 DEF Promised!Next
  <2>5. CASE docker[v] # "running" \/ UNCHANGED docker
    BY <1>0, <2>1, <2>2, <2>3, <2>5 DEF phases, Phase
  <2>6. QED
    BY <2>1, <2>4, <2>5
<1>4. ASSUME NEW p \in Managed, RemoveProjectRoute(p)
      PROVE  UNCHANGED <<phases, gone, shown>>
  <2>1. gone' = gone
    BY <1>0, <1>4 DEF RemoveProjectRoute, gone
  <2>2. QED
    BY <1>4, <2>1 DEF RemoveProjectRoute, phases, shown, Phase
<1>5. ASSUME NEW p \in Managed, CascadeDelete(p) PROVE shown' = shown \ {p}
  BY <1>0, <1>5 DEF CascadeDelete, shown
<1>6. ASSUME NEW p \in Managed, RemoveProjectRow(p)
      PROVE  Promised!Withdraw(p) \/ UNCHANGED <<phases, gone, shown>>
  <2>1. gone' = gone
    BY <1>0, <1>6 DEF RemoveProjectRow, gone
  <2>2. UNCHANGED phases
    BY <1>6 DEF RemoveProjectRow, phases, Phase
  <2>3. shown' = shown \ {p} \/ UNCHANGED shown
    BY <1>5, <1>6 DEF RemoveProjectRow, shown
  <2>4. QED
    BY <2>1, <2>2, <2>3 DEF Promised!Withdraw, phases, gone, shown
<1>7. ASSUME NEW p \in Managed, deleteProject(p) PROVE Promised!Withdraw(p)
  <2>1. UNCHANGED <<phases, gone>>
    BY <1>7 DEF deleteProject, phases, gone, Phase
  <2>2. QED
    BY <1>5, <1>7, <2>1 DEF deleteProject, Promised!Withdraw, phases, gone, shown
<1>8. ASSUME NEW p \in Managed, ResetReads(p) \/ ResetWrites(p)
      PROVE  Promised!Withdraw(p) \/ UNCHANGED <<phases, gone, shown>>
  <2>1. UNCHANGED <<phases, gone>>
    BY <1>8 DEF ResetReads, ResetWrites, phases, gone, Phase
  <2>2. shown' = shown \ {p} \/ UNCHANGED shown
    BY <1>0, <1>8 DEF ResetReads, ResetWrites, shown
  <2>3. QED
    BY <2>1, <2>2 DEF Promised!Withdraw, phases, gone, shown
<1>9. ASSUME Crash PROVE Promised!Next
  <2> DEFINE V == {r \in Requests : Phase(r) = "pending" /\ pc'[r] \notin PreStart}
  <2>1. UNCHANGED <<gone, shown, docker>>
    <3>1. gone' = gone
      BY <1>0, <1>9 DEF Crash, gone
    <3>2. QED
      BY <1>9, <3>1 DEF Crash, shown
  <2>2. \A r \in Requests : pc'[r] \in PreStart => pc[r] \in PreStart
    BY <1>9 DEF Crash, PreStart, PreRecord
  <2>3. phases' = [r \in Requests |-> IF r \in V THEN "over" ELSE phases[r]]
    BY <2>1, <2>2 DEF phases, Phase
  <2>4. Promised!GiveUp(V)
    BY <2>1, <2>3 DEF Promised!GiveUp, phases, gone, shown
  <2>5. QED
    BY <2>4 DEF Promised!Next
<1>10. QED
  BY <1>0, <1>1, <1>2, <1>3, <1>4, <1>6, <1>7, <1>8, <1>9
     DEF remove, Promised!Next

\* With one deploy of a project at a time, whatever fails, the pipeline
\* implements Rollout (deployZip, deployGithub, deployDockerfile with
\* cleanupOldContainers against ProjectsService.remove and the admin).
THEOREM PipelineImplementsRollout ==
    ASSUME ConstantsAssumption, Serial PROVE Spec => ImplementsRollout
<1>1. Init => Promised!Init
  BY DEF Init, Promised!Init, Phase, PreStart, PreRecord
<1>2. TypeOK /\ SerialInv /\ [Next]_<<vars, mode>> => [Promised!Next]_Promised!vars
  <2> SUFFICES ASSUME TypeOK, SerialInv, [Next]_<<vars, mode>>
               PROVE  Promised!Next \/ UNCHANGED <<phases, gone, shown>>
    BY DEF Promised!vars, phases, gone, shown
  <2>1. CASE UNCHANGED <<vars, mode>>
    BY <2>1 DEF vars, phases, gone, shown, Phase
  <2>2. CASE Next
    BY <2>2, HandlerRefines, OthersRefine DEF Next, Step
  <2>3. QED
    BY <2>1, <2>2
<1>3. Spec => [](TypeOK /\ SerialInv)
  BY SerialDeploys
<1>4. QED
  BY <1>1, <1>2, <1>3, PTL DEF Spec, ImplementsRollout, Promised!Spec

\* Rollout keeps a project that is shown as active served.
LEMMA RolloutServes ==
    ASSUME ConstantsAssumption, Promised!ShownIsServed,
           Promised!Next \/ UNCHANGED <<phases, gone, shown>>
    PROVE  Promised!ShownIsServed'
<1> DEFINE Served == \A p \in shown \ gone :
                        \E r \in Requests : ProjectOf[r] = p /\ phases[r] = "live"
<1>0. /\ phases \in [Requests -> {"live", "pending", "over"}]
      /\ \A p : Promised!Serving(p)
                  = {v \in Requests : ProjectOf[v] = p /\ phases[v] = "live"}
  BY DEF Promised!Serving, phases, Phase
<1>5. \A p : Promised!Serving(p)'
                = {v \in Requests : ProjectOf[v] = p /\ phases'[v] = "live"}
  BY DEF Promised!Serving, phases
<1>1. Served
  BY <1>0 DEF Promised!ShownIsServed, gone, shown
<1>2. Served' => Promised!ShownIsServed'
  BY <1>5 DEF Promised!ShownIsServed, gone, shown
<1>3. Served'
  <2> USE <1>1
  <2>1. CASE UNCHANGED <<phases, gone, shown>>
    BY <2>1
  <2>2. ASSUME NEW v \in Requests, Promised!Start(v) PROVE Served'
    <3>1. phases' = [phases EXCEPT ![v] = "live"] /\ UNCHANGED <<gone, shown>>
      BY <2>2 DEF Promised!Start, phases, gone, shown
    <3>2. QED
      BY <1>0, <3>1
  <2>3. ASSUME NEW v \in Requests, Promised!TakeDown(v) PROVE Served'
    <3>1. /\ phases' = [phases EXCEPT ![v] = "over"] /\ UNCHANGED <<gone, shown>>
          /\ phases[v] = "live"
          /\ ProjectOf[v] \in gone \/ Promised!Serving(ProjectOf[v]) # {v}
      BY <2>3 DEF Promised!TakeDown, phases, gone, shown
    <3>3. \/ ProjectOf[v] \in gone
          \/ \E w \in Requests \ {v} : ProjectOf[w] = ProjectOf[v] /\ phases[w] = "live"
      BY <1>0, <3>1
    <3>2. QED
      BY <1>0, <3>1, <3>3
  <2>4. ASSUME NEW V \in SUBSET Requests, Promised!GiveUp(V) PROVE Served'
    <3>1. /\ \A v \in V : phases[v] = "pending"
          /\ phases' = [v \in Requests |-> IF v \in V THEN "over" ELSE phases[v]]
          /\ UNCHANGED <<gone, shown>>
      BY <2>4 DEF Promised!GiveUp, phases, gone, shown
    <3>2. QED
      BY <3>1
  <2>5. ASSUME NEW p \in Projects, Promised!Announce(p) PROVE Served'
    <3>1. /\ p \in gone \/ Promised!Serving(p) # {}
          /\ shown' = shown \cup {p} /\ UNCHANGED <<phases, gone>>
      BY <2>5 DEF Promised!Announce, phases, gone, shown
    <3>2. QED
      BY <1>0, <3>1
  <2>6. ASSUME NEW p \in Projects, Promised!Withdraw(p) \/ Promised!Remove(p)
        PROVE  Served'
    <3>1. shown' \ gone' \subseteq shown \ gone /\ UNCHANGED phases
      BY <2>6 DEF Promised!Withdraw, Promised!Remove, phases, gone, shown
    <3>2. QED
      BY <3>1
  <2>7. QED
    BY <2>1, <2>2, <2>3, <2>4, <2>5, <2>6 DEF Promised!Next
<1>6. QED
  BY <1>2, <1>3

\* The promise that overlapping deploys break (two pushes, see the run
\* deploy_double_push) is kept when deploys of a project are serial, whatever
\* fails: a project shown as ACTIVE has a running container.
THEOREM SerialDeployedIsRunning ==
    ASSUME ConstantsAssumption, Serial PROVE Spec => []DeployedIsRunning
<1>1. Init => Promised!ShownIsServed
  BY DEF Init, Promised!ShownIsServed
<1>2. /\ TypeOK /\ SerialInv /\ Promised!ShownIsServed /\ [Next]_<<vars, mode>>
      => Promised!ShownIsServed'
  <2> SUFFICES ASSUME TypeOK, SerialInv, Promised!ShownIsServed,
                      [Next]_<<vars, mode>>
               PROVE  Promised!ShownIsServed'
    OBVIOUS
  <2>1. CASE UNCHANGED <<vars, mode>>
    <3>1. UNCHANGED <<phases, gone, shown>>
      BY <2>1 DEF vars, phases, gone, shown, Phase
    <3>2. QED
      BY <3>1, RolloutServes
  <2>2. CASE Next
    BY <2>2, HandlerRefines, OthersRefine, RolloutServes DEF Next, Step
  <2>3. QED
    BY <2>1, <2>2
<1>3. Promised!ShownIsServed => DeployedIsRunning
  <2> SUFFICES ASSUME Promised!ShownIsServed, NEW p \in Projects,
                      project[p] = "ACTIVE", removing[p] = "idle"
               PROVE  \E r \in Requests : ProjectOf[r] = p /\ docker[r] = "running"
    BY DEF DeployedIsRunning
  <2>1. PICK r \in Promised!Serving(p) : TRUE
    BY DEF Promised!ShownIsServed
  <2>2. r \in Requests /\ ProjectOf[r] = p /\ Phase(r) = "live"
    BY <2>1 DEF Promised!Serving
  <2>3. QED
    BY <2>2 DEF Phase
<1>4. Spec => [](TypeOK /\ SerialInv)
  BY SerialDeploys
<1>5. QED
  BY <1>1, <1>2, <1>3, <1>4, PTL DEF Spec
-----------------------------------------------------------------------------
(***************************************************************************)
(* ActiveServed, when deploys of a project are serial and no query fails:  *)
(* a project is not shown as ACTIVE while a deploy works on its rows, and  *)
(* the cleanup loop works through all of the project's other rows.         *)
(***************************************************************************)

QueriesAnswered == \A m \in Modes : "db" \notin m.faults

\* The handler has written BUILDING and not yet ACTIVE.
Deploying == {"building", "keyed", "prepared", "built", "ported", "created",
              "started", "recorded", "cleaning", "deleting", "cleaned"}

NotShownYet ==
    \A r \in Requests : pc[r] \in Deploying => project[ProjectOf[r]] # "ACTIVE"

CleanupExact ==
    \A r \in Requests : Exists(ProjectOf[r]) =>
        /\ pc[r] \in {"recorded", "cleaning", "deleting", "cleaned"} => r \in rows
        /\ pc[r] = "cleaning" => OldContainers(r) = todo[r]
        /\ pc[r] = "deleting" => /\ OldContainers(r) = todo[r] \cup {victim[r]}
                                 /\ victim[r] \notin todo[r]
        /\ pc[r] = "cleaned" => OldContainers(r) = {}

VictimsInProject == \A q \in Requests : ProjectOf[victim[q]] = ProjectOf[q]

SoleRow(p) ==
    \E r \in rows : {q \in rows : ProjectOf[q] = p} = {r} /\ docker[r] = "running"

ShownHasSoleRow ==
    \A p \in Projects : project[p] = "ACTIVE" /\ removing[p] = "idle" => SoleRow(p)

ServedInv == NotShownYet /\ CleanupExact /\ VictimsInProject /\ ShownHasSoleRow

\* What a step of a handler changes outside its own project, and when it
\* changes its project's rows, containers and status.
LEMMA HandlerEffects ==
    ASSUME ConstantsAssumption, TypeOK, SerialInv, VictimsInProject, "db" \notin Faults,
           NEW r \in Requests, verifyProject(r) \/ Deploy(r)
    PROVE  /\ \A v \in Requests : ProjectOf[v] # ProjectOf[r] =>
                 (v \in rows' <=> v \in rows) /\ docker'[v] = docker[v]
           /\ \A p \in Projects : p # ProjectOf[r] => project'[p] = project[p]
           /\ pc'[r] \in Deploying =>
                 \/ project'[ProjectOf[r]] = "BUILDING"
                 \/ pc[r] \in Deploying /\ UNCHANGED project
           /\ project'[ProjectOf[r]] = "ACTIVE" =>
                 pc[r] = "cleaned" \/ project[ProjectOf[r]] = "ACTIVE"
           /\ pc[r] \notin Deploying \ {"cleaned"} => UNCHANGED <<rows, docker>>
           /\ rows' \subseteq Requests
           /\ \A q \in Requests \ {r} : todo'[q] = todo[q] /\ victim'[q] = victim[q]
           /\ ProjectOf[victim'[r]] = ProjectOf[r]
           /\ UNCHANGED removing
<1> USE DEF Goto, Deploying, dbVars, removeVars
<1>0. /\ pc \in [Requests -> Labels]
      /\ docker \in [Requests -> {"none", "created", "running"}]
      /\ project \in [Projects -> ProjectStatus \cup {"deleted"}]
      /\ victim \in [Requests -> Requests]
      /\ todo \in [Requests -> SUBSET Requests]
      /\ rows \subseteq Requests
      /\ ProjectOf[r] \in Projects
      /\ ProjectOf[victim[r]] = ProjectOf[r]
      /\ todo[r] \subseteq Siblings(r)
  BY DEF TypeOK, ConstantsAssumption, SerialInv, TodoOwn, VictimsInProject
<1>1. CASE verifyProject(r) \/ CreateDeployment(r) \/ ReadCredentials(r)
  BY <1>0, <1>1 DEF verifyProject, CreateDeployment, ReadCredentials
<1>2. CASE MarkBuilding(r)
  BY <1>0, <1>2 DEF MarkBuilding
<1>3. CASE BuildImage(r) \/ PickPort(r)
  BY <1>0, <1>3 DEF BuildImage, PickPort
<1>4. CASE CreateContainer(r) \/ StartContainer(r)
  BY <1>0, <1>4 DEF CreateContainer, StartContainer
<1>5. CASE RecordContainer(r) \/ FindOldContainers(r) \/ CleanupReturns(r)
  BY <1>0, <1>5 DEF RecordContainer, FindOldContainers, CleanupReturns
<1>6. CASE RemoveOldContainer(r)
  <2>1. PICK v \in todo[r] :
          /\ todo' = [todo EXCEPT ![r] = @ \ {v}]
          /\ victim' = [victim EXCEPT ![r] = v]
          /\ docker' = [docker EXCEPT ![v] = "none"] \/ UNCHANGED docker
    BY <1>6 DEF RemoveOldContainer
  <2>2. v \in Requests /\ ProjectOf[v] = ProjectOf[r]
    BY <1>0, <2>1 DEF Siblings
  <2>3. /\ UNCHANGED <<project, rows, removing>>
        /\ pc[r] = "cleaning" /\ pc'[r] = "deleting"
    BY <1>0, <1>6 DEF RemoveOldContainer
  <2>4. QED
    BY <1>0, <2>1, <2>2, <2>3
<1>7. CASE DeleteOldRow(r)
  <2>1. /\ rows' = rows \ {victim[r]} \/ UNCHANGED rows
        /\ UNCHANGED <<project, docker, removing>>
        /\ pc[r] = "deleting" /\ pc'[r] \in {"cleaning", "cleaned"}
        /\ \A q \in Requests \ {r} : todo'[q] = todo[q] /\ victim'[q] = victim[q]
    BY <1>0, <1>7 DEF DeleteOldRow
  <2>2. ProjectOf[victim'[r]] = ProjectOf[r]
    BY <1>0, <1>7 DEF DeleteOldRow
  <2>3. QED
    BY <1>0, <2>1, <2>2
<1>8. CASE MarkActive(r)
  BY <1>0, <1>8 DEF MarkActive
<1>9. CASE RecordSuccess(r) \/ PublishRoute(r)
  BY <1>0, <1>9 DEF RecordSuccess, PublishRoute
<1>10. CASE MarkFailed(r) \/ RecordFailure(r)
  BY <1>0, <1>10 DEF MarkFailed, RecordFailure
<1>11. QED
  BY <1>1, <1>2, <1>3, <1>4, <1>5, <1>6, <1>7, <1>8, <1>9, <1>10
     DEF Deploy, deployZip, deployGithub, deployDockerfile, DeploySteps,
         cleanupOldContainers

\* The rows a cleanup loop has left are the project's other rows: it starts
\* with all of them, nobody else writes or deletes one, and no deletion of a
\* row fails.
LEMMA HandlerCleanup ==
    ASSUME ConstantsAssumption, TypeOK, SerialInv, CleanupExact,
           "db" \notin Faults, NEW r \in Requests, verifyProject(r) \/ Deploy(r),
           Exists(ProjectOf[r])'
    PROVE  /\ pc'[r] \in {"recorded", "cleaning", "deleting", "cleaned"} => r \in rows'
           /\ pc'[r] = "cleaning" => OldContainers(r)' = todo'[r]
           /\ pc'[r] = "deleting" => /\ OldContainers(r)' = todo'[r] \cup {victim'[r]}
                                     /\ victim'[r] \notin todo'[r]
           /\ pc'[r] = "cleaned" => OldContainers(r)' = {}
<1> USE DEF Goto, dbVars, OldContainers
<1>0. /\ pc \in [Requests -> Labels]
      /\ victim \in [Requests -> Requests]
      /\ todo \in [Requests -> SUBSET Requests]
      /\ rows \subseteq Requests
      /\ ProjectOf[r] \in Projects
      /\ todo[r] \subseteq Siblings(r)
      /\ r \notin Siblings(r)
  BY DEF TypeOK, ConstantsAssumption, SerialInv, TodoOwn, Siblings
<1>1. Exists(ProjectOf[r])
  BY <1>0, HandlerKeepsDeleted
<1>2. /\ pc[r] \in {"recorded", "cleaning", "deleting", "cleaned"} => r \in rows
      /\ pc[r] = "cleaning" => rows \cap Siblings(r) = todo[r]
      /\ pc[r] = "deleting" => /\ rows \cap Siblings(r) = todo[r] \cup {victim[r]}
                               /\ victim[r] \notin todo[r]
      /\ pc[r] = "cleaned" => rows \cap Siblings(r) = {}
  BY <1>1 DEF CleanupExact
<1>3. Siblings(r)' = Siblings(r)
  BY DEF Siblings
<1>4. CASE \/ verifyProject(r) \/ MarkBuilding(r) \/ CreateDeployment(r)
           \/ ReadCredentials(r) \/ BuildImage(r) \/ PickPort(r)
           \/ CreateContainer(r) \/ StartContainer(r)
           \/ MarkActive(r) \/ RecordSuccess(r) \/ PublishRoute(r)
           \/ MarkFailed(r) \/ RecordFailure(r)
  BY <1>0, <1>4 DEF verifyProject, MarkBuilding, CreateDeployment,
     ReadCredentials, BuildImage, PickPort, CreateContainer, StartContainer,
     MarkActive, RecordSuccess, PublishRoute, MarkFailed, RecordFailure
<1>5. CASE RecordContainer(r)
  BY <1>0, <1>5 DEF RecordContainer
<1>6. CASE FindOldContainers(r)
  <2>1. /\ pc[r] = "recorded" /\ pc'[r] = "cleaning" /\ UNCHANGED rows
        /\ todo'[r] = rows \cap Siblings(r)
    BY <1>0, <1>6 DEF FindOldContainers
  <2>2. QED
    BY <1>2, <1>3, <2>1
<1>7. CASE CleanupReturns(r)
  <2>1. /\ pc[r] = "cleaning" /\ pc'[r] = "cleaned" /\ UNCHANGED rows
        /\ todo[r] = {}
    BY <1>0, <1>7 DEF CleanupReturns
  <2>2. QED
    BY <1>2, <1>3, <2>1
<1>8. CASE RemoveOldContainer(r)
  <2>1. PICK v \in todo[r] :
          /\ todo' = [todo EXCEPT ![r] = @ \ {v}]
          /\ victim' = [victim EXCEPT ![r] = v]
    BY <1>8 DEF RemoveOldContainer
  <2>2. /\ pc[r] = "cleaning" /\ pc'[r] = "deleting" /\ UNCHANGED rows
        /\ todo'[r] = todo[r] \ {v} /\ victim'[r] = v
    BY <1>0, <1>8, <2>1 DEF RemoveOldContainer
  <2>3. QED
    BY <1>2, <1>3, <2>2
<1>9. CASE DeleteOldRow(r)
  <2>1. pc[r] = "deleting"
    BY <1>9 DEF DeleteOldRow
  <2>2. victim[r] \in rows \cap Siblings(r)
    BY <1>2, <2>1
  <2>3. /\ rows' = rows \ {victim[r]} /\ UNCHANGED todo
        /\ pc'[r] = "cleaning"
    BY <1>0, <1>9, <2>2 DEF DeleteOldRow
  <2>4. QED
    BY <1>0, <1>2, <1>3, <2>1, <2>2, <2>3
<1>10. QED
  BY <1>4, <1>5, <1>6, <1>7, <1>8, <1>9
     DEF Deploy, deployZip, deployGithub, deployDockerfile, DeploySteps,
         cleanupOldContainers

\* Every step of a handler keeps ServedInv: its siblings are not in flight,
\* and it writes ACTIVE when its row is the project's only one.
LEMMA HandlerKeepsServed ==
    ASSUME ConstantsAssumption, Serial, TypeOK, SerialInv, ServedInv,
           "db" \notin Faults, NEW r \in Requests, verifyProject(r) \/ Deploy(r)
    PROVE  ServedInv'
<1> DEFINE p == ProjectOf[r]
<1> USE DEF ServedInv
<1>0. /\ \A q \in Requests : ProjectOf[q] \in Projects
      /\ rows \subseteq Requests
      /\ pc \in [Requests -> Labels]
      /\ \A q \in Requests \ {r} : pc'[q] = pc[q]
  BY HandlerPc DEF ConstantsAssumption, TypeOK
<1>1. \A q \in Requests : q # r /\ ProjectOf[q] = p => ~InFlight(q)
  <2>1. InFlight(r) \/ \A q \in Siblings(r) : ~InFlight(q)
    BY HandlerOrder DEF verifyProject, Overlap, TypeOK, Serial
  <2>2. QED
    BY <2>1 DEF SerialInv, OneDeploy, Siblings
<1>2. /\ \A v \in Requests : ProjectOf[v] # p =>
            (v \in rows' <=> v \in rows) /\ docker'[v] = docker[v]
      /\ \A k \in Projects : k # p => project'[k] = project[k]
      /\ pc'[r] \in Deploying =>
            project'[p] = "BUILDING" \/ (pc[r] \in Deploying /\ UNCHANGED project)
      /\ project'[p] = "ACTIVE" => pc[r] = "cleaned" \/ project[p] = "ACTIVE"
      /\ pc[r] \notin Deploying \ {"cleaned"} => UNCHANGED <<rows, docker>>
      /\ rows' \subseteq Requests
      /\ \A q \in Requests \ {r} : todo'[q] = todo[q] /\ victim'[q] = victim[q]
      /\ ProjectOf[victim'[r]] = p
      /\ UNCHANGED removing
  BY HandlerEffects
<1> HIDE DEF p
<1>3. \A q \in Requests : pc[q] \in Deploying => InFlight(q)
  BY DEF Deploying, InFlight, Ended
<1>4. NotShownYet'
  <2> SUFFICES ASSUME NEW q \in Requests, pc'[q] \in Deploying
               PROVE  project'[ProjectOf[q]] # "ACTIVE"
    BY DEF NotShownYet
  <2>1. CASE q = r
    BY <1>0, <1>2, <2>1 DEF NotShownYet, p
  <2>2. CASE q # r
    BY <1>0, <1>1, <1>2, <1>3, <2>2 DEF NotShownYet
  <2>3. QED
    BY <2>1, <2>2
<1>5. CleanupExact'
  <2> SUFFICES ASSUME NEW q \in Requests, Exists(ProjectOf[q])'
               PROVE
        /\ pc'[q] \in {"recorded", "cleaning", "deleting", "cleaned"} => q \in rows'
        /\ pc'[q] = "cleaning" => OldContainers(q)' = todo'[q]
        /\ pc'[q] = "deleting" => /\ OldContainers(q)' = todo'[q] \cup {victim'[q]}
                                  /\ victim'[q] \notin todo'[q]
        /\ pc'[q] = "cleaned" => OldContainers(q)' = {}
    BY DEF CleanupExact
  <2>1. CASE q = r
    BY <2>1, HandlerCleanup
  <2>2. CASE q # r /\ ProjectOf[q] = p
    BY <1>0, <1>1, <1>3, <2>2 DEF Deploying
  <2>3. CASE q # r /\ ProjectOf[q] # p
    <3>1. OldContainers(q)' = OldContainers(q)
      BY <1>0, <1>2, <2>3 DEF OldContainers, Siblings
    <3>2. Exists(ProjectOf[q])
      BY <1>0, <1>2, <2>3 DEF Exists
    <3>3. q \in rows' <=> q \in rows
      BY <1>2, <2>3
    <3>4. QED
      BY <1>0, <1>2, <2>3, <3>1, <3>2, <3>3 DEF CleanupExact
  <2>4. QED
    BY <2>1, <2>2, <2>3
<1>6. VictimsInProject'
  BY <1>2 DEF VictimsInProject, p
<1>7. ShownHasSoleRow'
  <2> SUFFICES ASSUME NEW k \in Projects, project'[k] = "ACTIVE", removing'[k] = "idle"
               PROVE  SoleRow(k)'
    BY DEF ShownHasSoleRow
  <2>1. CASE k # p
    <3>1. PICK s \in rows : {q \in rows : ProjectOf[q] = k} = {s} /\ docker[s] = "running"
      BY <1>2, <2>1 DEF ShownHasSoleRow, SoleRow
    <3>2. s \in Requests /\ ProjectOf[s] = k
      BY <1>0, <3>1
    <3>3. s \in rows' /\ {q \in rows' : ProjectOf[q] = k} = {s} /\ docker'[s] = "running"
      BY <1>0, <1>2, <2>1, <3>1, <3>2
    <3>4. QED
      BY <3>3 DEF SoleRow
  <2>2. CASE k = p /\ pc[r] = "cleaned"
    <3>1. UNCHANGED <<rows, docker>> /\ removing[p] = "idle"
      BY <1>2, <2>2 DEF Deploying
    <3>2. Exists(p)
      BY <1>0, <2>2, HandlerKeepsDeleted DEF Exists, p
    <3>3. r \in rows /\ OldContainers(r) = {}
      BY <2>2, <3>2 DEF CleanupExact, p
    <3>4. {q \in rows : ProjectOf[q] = p} = {r}
      BY <1>0, <3>3 DEF OldContainers, Siblings, p
    <3>5. docker[r] = "running"
      BY <2>2, <3>1 DEF SerialInv, StartedServes, PastStart, PostRecord, p
    <3>6. QED
      BY <2>2, <3>1, <3>3, <3>4, <3>5 DEF SoleRow
  <2>3. CASE k = p /\ pc[r] # "cleaned"
    <3>1. project[p] = "ACTIVE"
      BY <1>2, <2>3
    <3>2. pc[r] \notin Deploying
      BY <3>1 DEF NotShownYet, p
    <3>3. UNCHANGED <<rows, docker>> /\ SoleRow(p)
      BY <1>2, <2>3, <3>1, <3>2 DEF ShownHasSoleRow
    <3>4. QED
      BY <2>3, <3>3 DEF SoleRow
  <2>4. QED
    BY <2>1, <2>2, <2>3
<1>8. QED
  BY <1>4, <1>5, <1>6, <1>7

\* So do the certificate callback, the two deletions, the reset and a restart:
\* a removal takes down containers of a project that is being removed only.
LEMMA OthersKeepServed ==
    ASSUME ConstantsAssumption, TypeOK, SerialInv, ServedInv,
           \/ \E r \in Requests : SslSettles(r)
           \/ \E p \in Managed : \/ RemoveProject(p) \/ remove(p)
                                 \/ deleteProject(p) \/ ResetReads(p)
                                 \/ ResetWrites(p)
           \/ Crash
    PROVE  ServedInv'
<1>0. /\ rows \subseteq Requests /\ Managed \subseteq Projects
      /\ project \in [Projects -> ProjectStatus \cup {"deleted"}]
      /\ docker \in [Requests -> {"none", "created", "running"}]
      /\ removing \in [Projects -> {"idle", "stopping", "deleting", "done", "broken"}]
      /\ rtodo \in [Projects -> SUBSET Requests]
      /\ \A q \in Requests : ProjectOf[q] \in Projects
      /\ RemoveTodoOwn
  BY DEF TypeOK, ConstantsAssumption, Managed, Mode, SerialInv
<1> USE DEF Exists, dbVars, removeVars
\* Steps that keep the cleanup loops, drop only rows of deleted projects, show
\* no project, and take down containers of projects being removed only.
<1>1. ASSUME UNCHANGED <<todo, victim>>, rows' \subseteq rows,
             \A q \in rows \ rows' : ~Exists(ProjectOf[q])',
             \A q \in Requests : pc'[q] = pc[q] \/ pc'[q] = "lost",
             \A p \in Projects : /\ ~Exists(p) => ~Exists(p)'
                                 /\ project'[p] = "ACTIVE" => project[p] = "ACTIVE"
                                 /\ removing'[p] = "idle" => removing[p] = "idle",
             \A q \in Requests : removing'[ProjectOf[q]] = "idle" => docker'[q] = docker[q]
      PROVE  ServedInv'
  <2>1. NotShownYet'
    BY <1>0, <1>1 DEF ServedInv, NotShownYet, Deploying
  <2>2. CleanupExact'
    <3> SUFFICES ASSUME NEW q \in Requests, Exists(ProjectOf[q])', pc'[q] # "lost"
                 PROVE
          /\ pc'[q] \in {"recorded", "cleaning", "deleting", "cleaned"} => q \in rows'
          /\ pc'[q] = "cleaning" => OldContainers(q)' = todo'[q]
          /\ pc'[q] = "deleting" => /\ OldContainers(q)' = todo'[q] \cup {victim'[q]}
                                    /\ victim'[q] \notin todo'[q]
          /\ pc'[q] = "cleaned" => OldContainers(q)' = {}
      BY DEF CleanupExact
    <3>1. Exists(ProjectOf[q]) /\ pc'[q] = pc[q]
      BY <1>0, <1>1
    <3>2. OldContainers(q)' = OldContainers(q) /\ (q \in rows' <=> q \in rows)
      BY <1>0, <1>1 DEF OldContainers, Siblings
    <3>3. QED
      BY <1>1, <3>1, <3>2 DEF ServedInv, CleanupExact
  <2>3. VictimsInProject'
    BY <1>1 DEF ServedInv, VictimsInProject
  <2>4. ShownHasSoleRow'
    <3> SUFFICES ASSUME NEW k \in Projects, project'[k] = "ACTIVE", removing'[k] = "idle"
                 PROVE  SoleRow(k)'
      BY DEF ShownHasSoleRow
    <3>1. PICK s \in rows : {q \in rows : ProjectOf[q] = k} = {s} /\ docker[s] = "running"
      BY <1>1 DEF ServedInv, ShownHasSoleRow, SoleRow
    <3>2. s \in Requests /\ ProjectOf[s] = k
      BY <1>0, <3>1
    <3>3. s \in rows'
      BY <1>1, <3>1, <3>2
    <3>4. {q \in rows' : ProjectOf[q] = k} = {s} /\ docker'[s] = "running"
      BY <1>1, <3>1, <3>2, <3>3
    <3>5. QED
      BY <3>3, <3>4 DEF SoleRow
  <2>5. QED
    BY <2>1, <2>2, <2>3, <2>4 DEF ServedInv
<1>2. CASE \E r \in Requests : SslSettles(r)
  BY <1>1, <1>2 DEF SslSettles
<1>3. ASSUME NEW p \in Managed,
             \/ RemoveProject(p) \/ RemoveProjectRoute(p)
             \/ ResetReads(p) \/ ResetWrites(p)
      PROVE  ServedInv'
  <2>1. UNCHANGED <<todo, victim, rows, docker, pc>>
    BY <1>3 DEF RemoveProject, RemoveProjectRoute, ResetReads, ResetWrites
  <2>2. \A k \in Projects : /\ ~Exists(k) => ~Exists(k)'
                            /\ project'[k] = "ACTIVE" => project[k] = "ACTIVE"
                            /\ removing'[k] = "idle" => removing[k] = "idle"
    BY <1>0, <1>3 DEF RemoveProject, RemoveProjectRoute, ResetReads, ResetWrites
  <2>3. QED
    BY <1>1, <2>1, <2>2
<1>4. ASSUME NEW p \in Managed, RemoveProjectContainer(p) PROVE ServedInv'
  <2>1. PICK v \in rtodo[p] : docker' = [docker EXCEPT ![v] = "none"] \/ UNCHANGED docker
    BY <1>4 DEF RemoveProjectContainer
  <2>2. /\ ProjectOf[v] = p /\ removing[p] = "stopping"
        /\ UNCHANGED <<todo, victim, rows, project, pc, removing>>
    BY <1>0, <1>4, <2>1 DEF RemoveProjectContainer, RemoveTodoOwn
  <2>3. \A q \in Requests : removing[ProjectOf[q]] = "idle" => docker'[q] = docker[q]
    BY <1>0, <2>1, <2>2
  <2>4. QED
    BY <1>1, <2>2, <2>3
<1>5. ASSUME NEW p \in Managed, RemoveProjectRow(p) \/ deleteProject(p)
      PROVE  ServedInv'
  <2>1. UNCHANGED <<todo, victim, docker, pc>>
    BY <1>5 DEF RemoveProjectRow, deleteProject
  <2>2. /\ rows' \subseteq rows
        /\ \A q \in rows \ rows' : ~Exists(ProjectOf[q])'
    BY <1>0, <1>5 DEF RemoveProjectRow, deleteProject, CascadeDelete
  <2>3. \A k \in Projects : /\ ~Exists(k) => ~Exists(k)'
                            /\ project'[k] = "ACTIVE" => project[k] = "ACTIVE"
                            /\ removing'[k] = "idle" => removing[k] = "idle"
    BY <1>0, <1>5 DEF RemoveProjectRow, deleteProject, CascadeDelete
  <2>4. QED
    BY <1>1, <2>1, <2>2, <2>3
<1>6. CASE Crash
  <2>1. /\ UNCHANGED <<todo, victim, rows, docker, project>>
        /\ \A q \in Requests : pc'[q] = pc[q] \/ pc'[q] = "lost"
        /\ \A k \in Projects : removing'[k] = "idle" => removing[k] = "idle"
    BY <1>6 DEF Crash
  <2>2. QED
    BY <1>1, <2>1
<1>7. QED
  BY <1>2, <1>3, <1>4, <1>5, <1>6 DEF remove

\* When deploys of a project are serial and the database answers, a project
\* shown as ACTIVE has one container row, and that container runs: the
\* cleanup of a deploy deletes every older row and never its own, whatever
\* Docker and nginx do and wherever the backend stops.
THEOREM ActiveProjectsServed ==
    ASSUME ConstantsAssumption, Serial, QueriesAnswered
    PROVE  Spec => []ActiveServed
<1>1. Init => ServedInv
  BY DEF Init, ServedInv, NotShownYet, CleanupExact, VictimsInProject,
         ShownHasSoleRow, Deploying
<1>2. TypeOK /\ SerialInv /\ ServedInv /\ [Next]_<<vars, mode>> => ServedInv'
  <2> SUFFICES ASSUME TypeOK, SerialInv, ServedInv, [Next]_<<vars, mode>>
               PROVE  ServedInv'
    OBVIOUS
  <2>1. "db" \notin Faults
    BY DEF TypeOK, Faults, QueriesAnswered
  <2>2. CASE UNCHANGED <<vars, mode>>
    BY <2>2 DEF vars, ServedInv, NotShownYet, CleanupExact, VictimsInProject,
       ShownHasSoleRow, SoleRow, OldContainers, Siblings, Exists
  <2>3. CASE Next
    BY <2>1, <2>3, HandlerKeepsServed, OthersKeepServed DEF Next, Step
  <2>4. QED
    BY <2>2, <2>3
<1>3. ServedInv => ActiveServed
  BY DEF ServedInv, ShownHasSoleRow, SoleRow, ActiveServed
<1>4. QED
  BY <1>1, <1>2, <1>3, SerialDeploys, PTL DEF Spec
=============================================================================

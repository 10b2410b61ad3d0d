------------------------- MODULE DeploymentsProofs -------------------------
(***************************************************************************)
(* Theorems about Deployments for any set of projects and requests, any    *)
(* port range and any set of faults.                                       *)
(***************************************************************************)
EXTENDS Deployments, TLAPS, WellFoundedInduction

\* The chosen port is a free port of the range whenever there is one: the
\* smallest one exists.  About getAvailablePort (deployments.service.ts).
LEMMA FreePort ==
    ASSUME ConstantsAssumption, Ports \ UsedPorts # {}
    PROVE  getAvailablePort \in Ports \ UsedPorts
<1> DEFINE S == Ports \ UsedPorts
<1> DEFINE Less == OpToRel(<, Nat)
<1>1. S \subseteq Nat /\ S # {}
  BY DEF Ports, ConstantsAssumption
<1>2. \E h \in S : \A k \in S : ~ (<<k, h>> \in Less)
  <2>1. IsWellFoundedOn(Less, Nat)
    BY NatLessThanWellFounded
  <2> HIDE DEF Less, S
  <2>2. QED
    BY <1>1, <2>1, WFMin
<1>3. \A k, h \in Nat : k < h => <<k, h>> \in Less
  BY DEF OpToRel
<1>4. \E h \in S : \A k \in S : h <= k
  <2>1. PICK h \in S : \A k \in S : ~ (<<k, h>> \in Less)
    BY <1>2
  <2>2. ASSUME NEW k \in S PROVE h <= k
    <3>1. ~ (k < h)
      BY <1>1, <1>3, <2>1 
    <3>2. h \in Nat /\ k \in Nat
      BY <1>1
    <3>3. QED
      BY <3>1, <3>2
  <2>3. QED
    BY <2>2
<1>5. QED
  BY <1>4 DEF getAvailablePort

-----------------------------------------------------------------------------
(***************************************************************************)
(* Type correctness                                                        *)
(***************************************************************************)

\* The start state is type correct.
LEMMA InitTypeOK == ConstantsAssumption /\ Init => TypeOK
  BY DEF Init, TypeOK, ConstantsAssumption, ProjectStatus, Labels, PreRecord,
         Ports, NoPort

\* Every program point of a handler is a label.
LEMMA LabelsType ==
    /\ "idle" \in Labels /\ "verified" \in Labels /\ "building" \in Labels
    /\ "keyed" \in Labels /\ "prepared" \in Labels /\ "built" \in Labels
    /\ "ported" \in Labels /\ "created" \in Labels /\ "started" \in Labels
    /\ "recorded" \in Labels /\ "cleaning" \in Labels /\ "deleting" \in Labels
    /\ "cleaned" \in Labels /\ "active" \in Labels /\ "succeeded" \in Labels
    /\ "catch" \in Labels /\ "failing" \in Labels /\ "done" \in Labels
    /\ "failed" \in Labels /\ "rejected" \in Labels /\ "aborted" \in Labels
    /\ "lost" \in Labels
  BY DEF Labels, PreRecord, PostRecord, Ended

\* A handler only moves to labels.
LEMMA HandlerLabels ==
    ASSUME NEW r \in Requests, pc \in [Requests -> Labels],
           verifyProject(r) \/ Deploy(r)
    PROVE  pc' \in [Requests -> Labels]
<1>1. \E l \in Labels : Goto(r, l)
  BY LabelsType
     DEF Deploy, deployZip, deployGithub, deployDockerfile, DeploySteps,
         cleanupOldContainers, verifyProject, MarkBuilding, CreateDeployment,
         ReadCredentials, BuildImage, PickPort, CreateContainer,
         StartContainer, RecordContainer, FindOldContainers,
         RemoveOldContainer, DeleteOldRow, CleanupReturns, MarkActive,
         RecordSuccess, PublishRoute, MarkFailed, RecordFailure
<1>2. QED
  BY <1>1 DEF Goto

\* Every step of the three deploy flows (deployZip, deployGithub and
\* deployDockerfile) is type correct.
LEMMA DeployTypeOK ==
    ASSUME ConstantsAssumption, TypeOK, NEW r \in Requests, UNCHANGED mode,
           verifyProject(r) \/ Deploy(r)
    PROVE  TypeOK'
<1> USE DEF TypeOK, dbVars, removeVars
<1>0. /\ ProjectOf[r] \in Projects
      /\ pc' \in [Requests -> Labels]
  BY HandlerLabels DEF ConstantsAssumption
<1>1. CASE verifyProject(r)
  BY <1>1, <1>0 DEF verifyProject
<1>2. CASE MarkBuilding(r)
  <2>1. project' \in [Projects -> ProjectStatus \cup {"deleted"}]
    BY <1>2, <1>0 DEF MarkBuilding, ProjectStatus
  <2>2. UNCHANGED <<deployment, rows, docker, conf, port, todo, victim, ssl, removing,
                   rtodo, resetting>>
    BY <1>2 DEF MarkBuilding
  <2>3. QED
    BY <2>1, <2>2, <1>0
<1>3. CASE CreateDeployment(r)
  <2>1. deployment' \in [Requests -> {"none", "In Progress", "Success", "Failed"}]
    BY <1>3, <1>0 DEF CreateDeployment
  <2>2. UNCHANGED <<project, rows, docker, conf, port, todo, victim, ssl, removing,
                   rtodo, resetting>>
    BY <1>3 DEF CreateDeployment
  <2>3. QED
    BY <2>1, <2>2, <1>0
<1>4. CASE ReadCredentials(r)
  BY <1>4, <1>0 DEF ReadCredentials
<1>5. CASE BuildImage(r)
  BY <1>5, <1>0 DEF BuildImage
<1>6. CASE PickPort(r)
  BY <1>6, <1>0, FreePort DEF PickPort
<1>7. CASE CreateContainer(r)
  <2>1. docker' \in [Requests -> {"none", "created", "running"}]
    BY <1>7, <1>0 DEF CreateContainer
  <2>2. UNCHANGED <<project, deployment, rows, conf, port, todo, victim, ssl, removing,
                   rtodo, resetting>>
    BY <1>7 DEF CreateContainer
  <2>3. QED
    BY <2>1, <2>2, <1>0
<1>8. CASE StartContainer(r)
  BY <1>8, <1>0 DEF StartContainer
<1>9. CASE RecordContainer(r)
  BY <1>9, <1>0 DEF RecordContainer
<1>10. CASE FindOldContainers(r)
  <2>1. todo' \in [Requests -> SUBSET Requests]
    <3>1. OldContainers(r) \in SUBSET Requests
      BY DEF OldContainers, Siblings
    <3>2. CASE UNCHANGED todo
      BY <3>2
    <3>3. CASE todo' = [todo EXCEPT ![r] = OldContainers(r)]
      <4> DEFINE Old == OldContainers(r)
      <4>1. Old \in SUBSET Requests /\ todo' = [todo EXCEPT ![r] = Old]
        BY <3>1, <3>3
      <4> HIDE DEF Old
      <4>2. QED
        BY <4>1
    <3>4. QED
      BY <1>10, <3>2, <3>3 DEF FindOldContainers
  <2>2. UNCHANGED <<project, deployment, rows, docker, conf, port, victim, ssl, removing,
                   rtodo, resetting>>
    BY <1>10 DEF FindOldContainers
  <2>3. QED
    BY <2>1, <2>2, <1>0
<1>11. CASE RemoveOldContainer(r)
  <2>1. PICK v \in todo[r] :
          /\ todo' = [todo EXCEPT ![r] = @ \ {v}]
          /\ victim' = [victim EXCEPT ![r] = v]
          /\ \/ docker' = [docker EXCEPT ![v] = "none"]
             \/ "docker" \in Faults /\ UNCHANGED docker
    BY <1>11 DEF RemoveOldContainer
  <2>2. v \in Requests
    BY <2>1
  <2>3. todo' \in [Requests -> SUBSET Requests]
    BY <2>1
  <2>4. victim' \in [Requests -> Requests]
    BY <2>1, <2>2
  <2>5. docker' \in [Requests -> {"none", "created", "running"}]
    BY <2>1
  <2>6. UNCHANGED <<project, deployment, rows, conf, port, ssl, removing, rtodo,
                   resetting>>
    BY <1>11 DEF RemoveOldContainer
  <2>7. QED
    BY <1>0, <2>3, <2>4, <2>5, <2>6
<1>12. CASE DeleteOldRow(r)
  BY <1>12, <1>0 DEF DeleteOldRow
<1>13. CASE CleanupReturns(r)
  BY <1>13, <1>0 DEF CleanupReturns
<1>14. CASE MarkActive(r)
  <2>1. project' \in [Projects -> ProjectStatus \cup {"deleted"}]
    BY <1>14, <1>0 DEF MarkActive, ProjectStatus
  <2>2. UNCHANGED <<deployment, rows, docker, conf, port, todo, victim, ssl, removing,
                   rtodo, resetting>>
    BY <1>14 DEF MarkActive
  <2>3. QED
    BY <2>1, <2>2, <1>0
<1>15. CASE RecordSuccess(r)
  <2>1. deployment' \in [Requests -> {"none", "In Progress", "Success", "Failed"}]
    BY <1>15, <1>0 DEF RecordSuccess
  <2>2. UNCHANGED <<project, rows, docker, conf, port, todo, victim, ssl, removing,
                   rtodo, resetting>>
    BY <1>15 DEF RecordSuccess
  <2>3. QED
    BY <2>1, <2>2, <1>0
<1>16. CASE PublishRoute(r)
  <2>1. conf' \in [Projects -> Ports \cup {NoPort}]
    BY <1>16, <1>0 DEF PublishRoute
  <2>2. ssl' \in [Requests -> {"none", "pending"}]
    BY <1>16, <1>0 DEF PublishRoute
  <2>3. UNCHANGED <<project, deployment, rows, docker, port, todo, victim, removing,
                   rtodo, resetting>>
    BY <1>16 DEF PublishRoute
  <2>4. QED
    BY <2>1, <2>2, <2>3, <1>0
<1>17. CASE MarkFailed(r)
  <2>1. project' \in [Projects -> ProjectStatus \cup {"deleted"}]
    BY <1>17, <1>0 DEF MarkFailed, ProjectStatus
  <2>2. UNCHANGED <<deployment, rows, docker, conf, port, todo, victim, ssl, removing,
                   rtodo, resetting>>
    BY <1>17 DEF MarkFailed
  <2>3. QED
    BY <2>1, <2>2, <1>0
<1>18. CASE RecordFailure(r)
  BY <1>18, <1>0 DEF RecordFailure
<1>19. QED
  BY <1>1, <1>2, <1>3, <1>4, <1>5, <1>6, <1>7, <1>8, <1>9, <1>10, <1>11,
     <1>12, <1>13, <1>14, <1>15, <1>16, <1>17, <1>18
     DEF Deploy, deployZip, deployGithub, deployDockerfile, DeploySteps,
         cleanupOldContainers

\* Deleting a project with its rows keeps the three tables well typed.
LEMMA CascadeDeleteType ==
    ASSUME TypeOK, NEW p \in Projects, CascadeDelete(p)
    PROVE  /\ project' \in [Projects -> ProjectStatus \cup {"deleted"}]
           /\ deployment' \in [Requests -> {"none", "In Progress", "Success", "Failed"}]
           /\ rows' \subseteq Requests
  BY DEF TypeOK, CascadeDelete

\* So do the certificate callback, the removals, the reset and a restart.
LEMMA OthersTypeOK ==
    ASSUME ConstantsAssumption, TypeOK, UNCHANGED mode,
           \/ \E r \in Requests : SslSettles(r)
           \/ \E p \in Managed : \/ RemoveProject(p) \/ remove(p)
                                 \/ deleteProject(p) \/ ResetReads(p)
                                 \/ ResetWrites(p)
           \/ Crash
    PROVE  TypeOK'
<1> USE DEF dbVars, removeVars
<1>0. Managed \subseteq Projects /\ \A r \in Requests : ProjectOf[r] \in Projects
  BY DEF ConstantsAssumption, TypeOK, Managed, Mode
<1>1. ASSUME NEW r \in Requests, SslSettles(r) PROVE TypeOK'
  BY <1>1, <1>0 DEF SslSettles, TypeOK
<1>2. ASSUME NEW p \in Managed, RemoveProject(p) PROVE TypeOK'
  BY <1>2, <1>0 DEF RemoveProject, TypeOK
<1>3. ASSUME NEW p \in Managed, RemoveProjectContainer(p) PROVE TypeOK'
  <2>1. PICK v \in rtodo[p] :
          /\ rtodo' = [rtodo EXCEPT ![p] = @ \ {v}]
          /\ \/ docker' = [docker EXCEPT ![v] = "none"]
             \/ "docker" \in Faults /\ UNCHANGED docker
    BY <1>3 DEF RemoveProjectContainer
  <2>2. rtodo' \in [Projects -> SUBSET Requests]
    BY <2>1, <1>0 DEF TypeOK
  <2>3. docker' \in [Requests -> {"none", "created", "running"}]
    BY <2>1 DEF TypeOK
  <2>4. UNCHANGED <<project, deployment, rows, conf, pc, port, todo, victim,
                   ssl, removing, resetting>>
    BY <1>3 DEF RemoveProjectContainer
  <2>5. QED
    BY <2>2, <2>3, <2>4 DEF TypeOK
<1>4. ASSUME NEW p \in Managed, RemoveProjectRoute(p) PROVE TypeOK'
  BY <1>4, <1>0 DEF RemoveProjectRoute, TypeOK
<1>5. ASSUME NEW p \in Managed, RemoveProjectRow(p) PROVE TypeOK'
  <2>1. /\ project' \in [Projects -> ProjectStatus \cup {"deleted"}]
        /\ deployment' \in [Requests -> {"none", "In Progress", "Success", "Failed"}]
        /\ rows' \subseteq Requests
    BY <1>5, <1>0, CascadeDeleteType DEF RemoveProjectRow, TypeOK
  <2>2. removing' \in [Projects -> {"idle", "stopping", "deleting", "done", "broken"}]
    <3>1. \E l \in {"done", "broken"} : removing' = [removing EXCEPT ![p] = l]
      BY <1>5 DEF RemoveProjectRow
    <3>2. QED
      BY <3>1 DEF TypeOK
  <2>3. UNCHANGED <<docker, conf, pc, port, todo, victim, ssl, rtodo, resetting>>
    BY <1>5 DEF RemoveProjectRow
  <2>4. QED
    BY <2>1, <2>2, <2>3 DEF TypeOK
<1>6. ASSUME NEW p \in Managed, deleteProject(p) PROVE TypeOK'
  BY <1>6, <1>0, CascadeDeleteType DEF deleteProject, TypeOK
<1>7. ASSUME NEW p \in Managed, ResetReads(p) PROVE TypeOK'
  BY <1>7, <1>0 DEF ResetReads, TypeOK
<1>8. ASSUME NEW p \in Managed, ResetWrites(p) PROVE TypeOK'
  BY <1>8, <1>0 DEF ResetWrites, TypeOK, ProjectStatus
<1>9. ASSUME Crash PROVE TypeOK'
  BY <1>9, LabelsType DEF Crash, TypeOK
<1>10. QED
  BY <1>1, <1>2, <1>3, <1>4, <1>5, <1>6, <1>7, <1>8, <1>9 DEF remove

\* Type correctness of the whole pipeline, in particular: every port a
\* handler, a row or a route ever holds is in the configured range.
THEOREM TypeCorrect == ASSUME ConstantsAssumption PROVE Spec => []TypeOK
<1>1. Init => TypeOK
  BY InitTypeOK
<1>2. TypeOK /\ [Next]_<<vars, mode>> => TypeOK'
  <2> SUFFICES ASSUME TypeOK, [Next]_<<vars, mode>> PROVE TypeOK'
    OBVIOUS
  <2>1. CASE UNCHANGED <<vars, mode>>
    BY <2>1 DEF vars, TypeOK
  <2>2. CASE Next
    BY <2>2, DeployTypeOK, OthersTypeOK DEF Next, Step
  <2>3. QED
    BY <2>1, <2>2
<1>3. QED
  BY <1>1, <1>2, PTL DEF Spec
-----------------------------------------------------------------------------
(***************************************************************************)
(* BuildingHasDeploy is inductive relative to TypeOK: a handler leaves     *)
(* StatusOwed only by writing another status.                              *)
(***************************************************************************)

\* No step of a handler leaves BUILDING behind without a debtor: whoever pays
\* its own debt replaces the status, even one another handler wrote.
LEMMA HandlerKeepsBuilding ==
    ASSUME ConstantsAssumption, TypeOK, BuildingHasDeploy, NEW r \in Requests,
           verifyProject(r) \/ Deploy(r)
    PROVE  BuildingHasDeploy'
<1> SUFFICES ASSUME NEW p \in Projects, project'[p] = "BUILDING"
             PROVE  \E q \in Requests : ProjectOf[q] = p /\ pc'[q] \in StatusOwed
  BY DEF BuildingHasDeploy
<1>0. /\ pc \in [Requests -> Labels]
      /\ project \in [Projects -> ProjectStatus \cup {"deleted"}]
      /\ ProjectOf[r] \in Projects
  BY DEF TypeOK, ConstantsAssumption
\* The step of r either leaves the debt of r as it is, or is the one that
\* writes BUILDING, or replaces the status.
<1>1. \/ MarkBuilding(r) /\ pc'[r] = "building"
      \/ /\ \A q \in Requests : pc[q] \in StatusOwed => pc'[q] \in StatusOwed
         /\ project'[p] = project[p]
      \/ /\ project'[ProjectOf[r]] \in {"ACTIVE", "FAILED"}
         /\ project' = [project EXCEPT ![ProjectOf[r]] = project'[ProjectOf[r]]]
         /\ \A q \in Requests \ {r} : pc'[q] = pc[q]
  <2> USE <1>0 DEF Goto, dbVars, StatusOwed
  <2>1. CASE verifyProject(r)
    BY <2>1 DEF verifyProject
  <2>2. CASE MarkBuilding(r)
    BY <2>2 DEF MarkBuilding
  <2>3. CASE CreateDeployment(r)
    BY <2>3 DEF CreateDeployment
  <2>4. CASE ReadCredentials(r)
    BY <2>4 DEF ReadCredentials
  <2>5. CASE BuildImage(r)
    BY <2>5 DEF BuildImage
  <2>6. CASE PickPort(r)
    BY <2>6 DEF PickPort
  <2>7. CASE CreateContainer(r)
    BY <2>7 DEF CreateContainer
  <2>8. CASE StartContainer(r)
    BY <2>8 DEF StartContainer
  <2>9. CASE RecordContainer(r)
    BY <2>9 DEF RecordContainer
  <2>10. CASE FindOldContainers(r)
    BY <2>10 DEF FindOldContainers
  <2>11. CASE RemoveOldContainer(r)
    BY <2>11 DEF RemoveOldContainer
  <2>12. CASE DeleteOldRow(r)
    BY <2>12 DEF DeleteOldRow
  <2>13. CASE CleanupReturns(r)
    BY <2>13 DEF CleanupReturns
  <2>14. CASE MarkActive(r)
    BY <2>14 DEF MarkActive
  <2>15. CASE RecordSuccess(r)
    BY <2>15 DEF RecordSuccess
  <2>16. CASE PublishRoute(r)
    BY <2>16 DEF PublishRoute
  <2>17. CASE MarkFailed(r)
    BY <2>17 DEF MarkFailed
  <2>18. CASE RecordFailure(r)
    BY <2>18 DEF RecordFailure
  <2>19. QED
    BY <2>1, <2>2, <2>3, <2>4, <2>5, <2>6, <2>7, <2>8, <2>9, <2>10, <2>11,
       <2>12, <2>13, <2>14, <2>15, <2>16, <2>17, <2>18
       DEF Deploy, deployZip, deployGithub, deployDockerfile, DeploySteps,
           cleanupOldContainers
<1>2. QED
  BY <1>0, <1>1 DEF BuildingHasDeploy, MarkBuilding, Goto, StatusOwed

\* The other writers never write BUILDING, and a restart turns a handler in
\* debt into a lost one.
LEMMA OthersKeepBuilding ==
    ASSUME ConstantsAssumption, TypeOK, BuildingHasDeploy,
           \/ \E r \in Requests : SslSettles(r)
           \/ \E p \in Managed : \/ RemoveProject(p) \/ remove(p)
                                 \/ deleteProject(p) \/ ResetReads(p)
                                 \/ ResetWrites(p)
           \/ Crash
    PROVE  BuildingHasDeploy'
<1> SUFFICES ASSUME NEW p \in Projects, project'[p] = "BUILDING"
             PROVE  \E q \in Requests : ProjectOf[q] = p /\ pc'[q] \in StatusOwed
  BY DEF BuildingHasDeploy
<1>1. project[p] = "BUILDING"
  <2> USE DEF dbVars, TypeOK, CascadeDelete, remove
  <2>1. CASE \E r \in Requests : SslSettles(r)
    BY <2>1 DEF SslSettles
  <2>2. CASE \E k \in Managed : RemoveProject(k)
    BY <2>2 DEF RemoveProject
  <2>3. CASE \E k \in Managed : remove(k)
    <3>1. PICK k \in Managed : remove(k)
      BY <2>3
    <3>2. CASE RemoveProjectRow(k)
      BY <3>2 DEF RemoveProjectRow
    <3>3. CASE RemoveProjectContainer(k) \/ RemoveProjectRoute(k)
      BY <3>3 DEF RemoveProjectContainer, RemoveProjectRoute
    <3>4. QED
      BY <3>1, <3>2, <3>3
  <2>4. CASE \E k \in Managed : deleteProject(k)
    BY <2>4 DEF deleteProject
  <2>5. CASE \E k \in Managed : ResetReads(k) \/ ResetWrites(k)
    BY <2>5 DEF ResetReads, ResetWrites
  <2>6. CASE Crash
    BY <2>6 DEF Crash
  <2>7. QED
    BY <2>1, <2>2, <2>3, <2>4, <2>5, <2>6
<1>2. PICK q \in Requests : ProjectOf[q] = p /\ pc[q] \in StatusOwed
  BY <1>1 DEF BuildingHasDeploy
<1>3. pc'[q] \in StatusOwed
  <2>1. CASE Crash
    BY <2>1, <1>2 DEF Crash, StatusOwed
  <2>2. CASE ~Crash
    BY <2>2, <1>2 DEF SslSettles, remove, RemoveProject, RemoveProjectContainer,
       RemoveProjectRoute, RemoveProjectRow, deleteProject, ResetReads,
       ResetWrites
  <2>3. QED
    BY <2>1, <2>2
<1>4. QED
  BY <1>2, <1>3

\* A project is BUILDING only while a deploy of it can still overwrite the
\* status, or after one died or threw outside its error handling.
THEOREM BuildingJustified ==
    ASSUME ConstantsAssumption PROVE Spec => []BuildingHasDeploy
<1>1. Init => BuildingHasDeploy
  BY DEF Init, BuildingHasDeploy
<1>2. TypeOK /\ BuildingHasDeploy /\ [Next]_<<vars, mode>> => BuildingHasDeploy'
  <2> SUFFICES ASSUME TypeOK, BuildingHasDeploy, [Next]_<<vars, mode>>
               PROVE  BuildingHasDeploy'
    OBVIOUS
  <2>1. CASE UNCHANGED <<vars, mode>>
    BY <2>1 DEF vars, BuildingHasDeploy
  <2>2. CASE Next
    BY <2>2, HandlerKeepsBuilding, OthersKeepBuilding DEF Next, Step
  <2>3. QED
    BY <2>1, <2>2
<1>3. QED
  BY <1>1, <1>2, TypeCorrect, PTL DEF Spec
-----------------------------------------------------------------------------
(***************************************************************************)
(* RowBacked needs to know which containers a cleanup loop or a removal    *)
(* may be about to take down: only containers whose row has been written,  *)
(* and only containers of the same project.                                *)
(***************************************************************************)

RowsRecorded == \A r \in rows : pc[r] \notin PreRecord

StartedRuns == \A r \in Requests : pc[r] = "started" => docker[r] = "running"

TodoRecorded ==
    \A q \in Requests : \A v \in todo[q] : v \in Siblings(q) /\ pc[v] \notin PreRecord

RtodoRecorded ==
    \A p \in Projects : \A v \in rtodo[p] : ProjectOf[v] = p /\ pc[v] \notin PreRecord

VictimIdle ==
    \A q \in Requests :
        pc[q] \in PreRecord \cup {"recorded", "cleaning"} => victim[q] = q

RowInv ==
    RowsRecorded /\ StartedRuns /\ TodoRecorded /\ RtodoRecorded /\ VictimIdle
    /\ RowBacked

\* A handler that moves forward never goes back to before its row was written.
LEMMA HandlerPc ==
    ASSUME TypeOK, NEW r \in Requests, verifyProject(r) \/ Deploy(r)
    PROVE  /\ \A q \in Requests \ {r} : pc'[q] = pc[q]
           /\ \A q \in Requests : pc[q] \notin PreRecord => pc'[q] \notin PreRecord
           /\ UNCHANGED <<removing, rtodo>>
<1> USE DEF Goto, PreRecord, removeVars
<1>0. pc \in [Requests -> Labels]
  BY DEF TypeOK
<1>1. CASE verifyProject(r) \/ MarkBuilding(r) \/ CreateDeployment(r) \/ ReadCredentials(r)
  BY <1>0, <1>1 DEF verifyProject, MarkBuilding, CreateDeployment, ReadCredentials
<1>2. CASE BuildImage(r) \/ PickPort(r) \/ CreateContainer(r) \/ StartContainer(r)
  BY <1>0, <1>2 DEF BuildImage, PickPort, CreateContainer, StartContainer
<1>3. CASE RecordContainer(r) \/ cleanupOldContainers(r)
  BY <1>0, <1>3 DEF RecordContainer, cleanupOldContainers, FindOldContainers,
     RemoveOldContainer, DeleteOldRow, CleanupReturns
<1>4. CASE MarkActive(r) \/ RecordSuccess(r) \/ PublishRoute(r)
  BY <1>0, <1>4 DEF MarkActive, RecordSuccess, PublishRoute
<1>5. CASE MarkFailed(r) \/ RecordFailure(r)
  BY <1>0, <1>5 DEF MarkFailed, RecordFailure
<1>6. QED
  BY <1>1, <1>2, <1>3, <1>4, <1>5
     DEF Deploy, deployZip, deployGithub, deployDockerfile, DeploySteps

\* Steps of a handler that touch no row, no container and no cleanup state,
\* and neither reach "started" nor enter the cleanup loop.
LEMMA QuietStep ==
    ASSUME ConstantsAssumption, TypeOK, RowInv, NEW r \in Requests,
           verifyProject(r) \/ Deploy(r),
           UNCHANGED <<rows, docker, todo, victim>>,
           pc'[r] # "started",
           pc'[r] \in PreRecord \cup {"recorded", "cleaning"} =>
               pc[r] \in PreRecord \cup {"recorded", "cleaning"}
    PROVE  RowInv'
<1> USE HandlerPc DEF RowInv
<1>1. RowsRecorded' /\ TodoRecorded' /\ RtodoRecorded'
  BY DEF RowsRecorded, TodoRecorded, RtodoRecorded, TypeOK, Siblings
<1>2. StartedRuns'
  BY DEF StartedRuns
<1>3. VictimIdle'
  BY DEF VictimIdle
<1>4. RowBacked'
  BY DEF RowBacked
<1>5. QED
  BY <1>1, <1>2, <1>3, <1>4

\* Every step of a handler keeps the inductive invariant: a row is written
\* only for a running container, and a cleanup loop names as its victim the
\* row whose container it takes down.
LEMMA HandlerKeepsRowInv ==
    ASSUME ConstantsAssumption, TypeOK, RowInv, NEW r \in Requests,
           verifyProject(r) \/ Deploy(r)
    PROVE  RowInv'
<1>0. /\ pc \in [Requests -> Labels]
      /\ docker \in [Requests -> {"none", "created", "running"}]
      /\ victim \in [Requests -> Requests]
      /\ todo \in [Requests -> SUBSET Requests]
      /\ rows \subseteq Requests
  BY DEF TypeOK
<1>1. CASE \/ verifyProject(r) \/ MarkBuilding(r) \/ CreateDeployment(r)
           \/ ReadCredentials(r) \/ BuildImage(r) \/ PickPort(r)
           \/ MarkActive(r) \/ RecordSuccess(r) \/ PublishRoute(r)
           \/ MarkFailed(r) \/ RecordFailure(r)
  <2>1. /\ UNCHANGED <<rows, docker, todo, victim>>
        /\ pc'[r] \in PreRecord \ {"started"} => pc[r] \in PreRecord
        /\ pc'[r] \notin {"started", "recorded", "cleaning"}
    BY <1>0, <1>1 DEF verifyProject, MarkBuilding, CreateDeployment,
       ReadCredentials, BuildImage, PickPort, MarkActive, RecordSuccess,
       PublishRoute, MarkFailed, RecordFailure, Goto, PreRecord, dbVars
  <2>2. QED
    BY <2>1, QuietStep DEF PreRecord
<1>2. CASE CleanupReturns(r)
  <2>1. /\ UNCHANGED <<rows, docker, todo, victim>>
        /\ pc'[r] = "cleaned"
    BY <1>0, <1>2 DEF CleanupReturns, Goto, dbVars
  <2>2. QED
    BY <2>1, QuietStep DEF PreRecord
<1>3. CASE CreateContainer(r) \/ StartContainer(r)
  <2>1. /\ UNCHANGED <<rows, todo, victim>>
        /\ pc[r] \in PreRecord
        /\ \A q \in Requests \ {r} : docker'[q] = docker[q]
        /\ pc'[r] = "started" => docker'[r] = "running"
        /\ pc'[r] \in PreRecord \cup {"catch"}
    BY <1>0, <1>3 DEF CreateContainer, StartContainer, Goto, dbVars, PreRecord
  <2>2. r \notin rows
    BY <2>1 DEF RowInv, RowsRecorded
  <2>3. RowsRecorded' /\ TodoRecorded' /\ RtodoRecorded'
    BY <2>1, HandlerPc
       DEF RowInv, RowsRecorded, TodoRecorded, RtodoRecorded, Siblings, TypeOK
  <2>4. StartedRuns'
    BY <2>1, HandlerPc DEF RowInv, StartedRuns
  <2>5. VictimIdle'
    BY <2>1, HandlerPc DEF RowInv, VictimIdle
  <2>6. RowBacked'
    BY <2>1, <2>2, <1>0, HandlerPc DEF RowInv, RowBacked
  <2>7. QED
    BY <2>3, <2>4, <2>5, <2>6 DEF RowInv
<1>4. CASE RecordContainer(r)
  <2>1. /\ UNCHANGED <<docker, todo, victim>>
        /\ pc[r] = "started"
        /\ rows' \subseteq rows \cup {r}
        /\ pc'[r] \in {"recorded", "catch"}
    BY <1>0, <1>4 DEF RecordContainer, Goto
  <2>2. docker[r] = "running"
    BY <2>1 DEF RowInv, StartedRuns
  <2>3. RowsRecorded' /\ TodoRecorded' /\ RtodoRecorded'
    BY <2>1, HandlerPc
       DEF RowInv, RowsRecorded, TodoRecorded, RtodoRecorded, Siblings, TypeOK,
           PreRecord
  <2>4. StartedRuns' /\ VictimIdle'
    BY <2>1, HandlerPc DEF RowInv, StartedRuns, VictimIdle, PreRecord
  <2>5. RowBacked'
    BY <2>1, <2>2, HandlerPc DEF RowInv, RowBacked
  <2>6. QED
    BY <2>3, <2>4, <2>5 DEF RowInv
<1>5. CASE FindOldContainers(r)
  <2>1. /\ UNCHANGED <<rows, docker, victim>>
        /\ pc[r] = "recorded" /\ pc'[r] \in {"cleaning", "cleaned"}
        /\ \A q \in Requests \ {r} : todo'[q] = todo[q]
        /\ todo'[r] = todo[r] \/ todo'[r] = OldContainers(r)
    BY <1>0, <1>5 DEF FindOldContainers, Goto, dbVars
  <2>2. TodoRecorded'
    BY <2>1, HandlerPc DEF RowInv, RowsRecorded, TodoRecorded, Siblings, OldContainers
  <2>3. RowsRecorded' /\ RtodoRecorded'
    BY <2>1, <1>0, HandlerPc DEF RowInv, RowsRecorded, RtodoRecorded, TypeOK
  <2>4. StartedRuns' /\ VictimIdle'
    BY <2>1, HandlerPc DEF RowInv, StartedRuns, VictimIdle, PreRecord
  <2>5. RowBacked'
    BY <2>1, HandlerPc DEF RowInv, RowBacked
  <2>6. QED
    BY <2>2, <2>3, <2>4, <2>5 DEF RowInv
<1>6. CASE RemoveOldContainer(r)
  <2>1. PICK v \in todo[r] :
          /\ todo' = [todo EXCEPT ![r] = @ \ {v}]
          /\ victim' = [victim EXCEPT ![r] = v]
          /\ \/ docker' = [docker EXCEPT ![v] = "none"]
             \/ "docker" \in Faults /\ UNCHANGED docker
    BY <1>6 DEF RemoveOldContainer
  <2>2. /\ v \in Requests /\ r \in Siblings(v) /\ pc[v] \notin PreRecord
        /\ victim[r] = r
        /\ UNCHANGED rows /\ pc'[r] = "deleting"
    BY <1>0, <1>6, <2>1
       DEF RowInv, TodoRecorded, VictimIdle, Siblings, RemoveOldContainer, Goto,
           dbVars
  <2>3. /\ \A q \in Requests : todo'[q] \subseteq todo[q]
        /\ \A q \in Requests \ {r} : victim'[q] = victim[q]
        /\ \A q \in Requests \ {v} : docker'[q] = docker[q]
        /\ victim'[r] = v
    BY <1>0, <2>1
  <2>4. TodoRecorded'
    BY <2>3, HandlerPc DEF RowInv, TodoRecorded, Siblings
  <2>5. RowsRecorded' /\ RtodoRecorded'
    BY <2>2, <1>0, HandlerPc DEF RowInv, RowsRecorded, RtodoRecorded, TypeOK
  <2>6. StartedRuns' /\ VictimIdle'
    BY <2>2, <2>3, HandlerPc DEF RowInv, StartedRuns, VictimIdle, PreRecord
  <2>7. RowBacked'
    BY <2>2, <2>3, <1>0, HandlerPc DEF RowInv, RowBacked, Siblings
  <2>8. QED
    BY <2>4, <2>5, <2>6, <2>7 DEF RowInv
<1>7. CASE DeleteOldRow(r)
  <2>1. /\ UNCHANGED docker
        /\ pc[r] = "deleting"
        /\ \/ /\ rows' = rows \ {victim[r]} /\ victim'[r] = r
              /\ pc'[r] = "cleaning"
           \/ UNCHANGED <<rows, victim>> /\ pc'[r] = "cleaned"
        /\ \A q \in Requests \ {r} : victim'[q] = victim[q]
        /\ \A q \in Requests : todo'[q] \subseteq todo[q]
    BY <1>0, <1>7 DEF DeleteOldRow, Goto
  <2>2. TodoRecorded'
    BY <2>1, HandlerPc DEF RowInv, TodoRecorded, Siblings
  <2>3. RowsRecorded' /\ RtodoRecorded'
    BY <2>1, <1>0, HandlerPc DEF RowInv, RowsRecorded, RtodoRecorded, TypeOK
  <2>4. StartedRuns' /\ VictimIdle'
    BY <2>1, HandlerPc DEF RowInv, StartedRuns, VictimIdle, PreRecord
  <2>5. RowBacked'
    BY <2>1, HandlerPc DEF RowInv, RowBacked, Siblings
  <2>6. QED
    BY <2>2, <2>3, <2>4, <2>5 DEF RowInv
<1>8. QED
  BY <1>1, <1>2, <1>3, <1>4, <1>5, <1>6, <1>7
     DEF Deploy, deployZip, deployGithub, deployDockerfile, DeploySteps,
         cleanupOldContainers

\* Removing a project takes down containers of that project only.
LEMMA OthersKeepRowInv ==
    ASSUME ConstantsAssumption, TypeOK, RowInv,
           \/ \E r \in Requests : SslSettles(r)
           \/ \E p \in Managed : \/ RemoveProject(p) \/ remove(p)
                                 \/ deleteProject(p) \/ ResetReads(p)
                                 \/ ResetWrites(p)
           \/ Crash
    PROVE  RowInv'
<1>0. /\ rows \subseteq Requests /\ Managed \subseteq Projects
      /\ docker \in [Requests -> {"none", "created", "running"}]
      /\ removing \in [Projects -> {"idle", "stopping", "deleting", "done", "broken"}]
      /\ rtodo \in [Projects -> SUBSET Requests]
      /\ \A r \in Requests : ProjectOf[r] \in Projects
  BY DEF TypeOK, ConstantsAssumption, Managed, Mode
\* A step that keeps the handlers and the containers, only removes rows and
\* only shrinks or refills rtodo from the rows, and never makes removal idle.
<1>1. ASSUME UNCHANGED <<pc, docker, todo, victim>>, rows' \subseteq rows,
             \A p \in Projects : removing'[p] = "idle" => removing[p] = "idle",
             \A p \in Projects : \A v \in rtodo'[p] :
                 v \in rtodo[p] \/ (v \in rows /\ ProjectOf[v] = p)
      PROVE  RowInv'
  <2>1. RowsRecorded' /\ StartedRuns' /\ TodoRecorded' /\ VictimIdle'
    BY <1>1 DEF RowInv, RowsRecorded, StartedRuns, TodoRecorded, VictimIdle
  <2>2. RtodoRecorded'
    BY <1>1 DEF RowInv, RtodoRecorded, RowsRecorded
  <2>3. RowBacked'
    BY <1>0, <1>1 DEF RowInv, RowBacked, Siblings
  <2>4. QED
    BY <2>1, <2>2, <2>3 DEF RowInv
<1>2. CASE \E r \in Requests : SslSettles(r)
  BY <1>1, <1>2 DEF SslSettles, dbVars, removeVars
<1>3. ASSUME NEW p \in Managed, RemoveProject(p) PROVE RowInv'
  <2>1. /\ UNCHANGED <<pc, docker, todo, victim, rows>>
        /\ removing' = [removing EXCEPT ![p] = "stopping"]
        /\ rtodo' = [rtodo EXCEPT ![p] = {q \in rows : ProjectOf[q] = p}]
    BY <1>3 DEF RemoveProject, dbVars
  <2>2. QED
    BY <1>0, <1>1, <2>1
<1>4. ASSUME NEW p \in Managed, RemoveProjectContainer(p) PROVE RowInv'
  <2>1. PICK v \in rtodo[p] :
          /\ rtodo' = [rtodo EXCEPT ![p] = @ \ {v}]
          /\ \/ docker' = [docker EXCEPT ![v] = "none"]
             \/ "docker" \in Faults /\ UNCHANGED docker
    BY <1>4 DEF RemoveProjectContainer
  <2>2. /\ UNCHANGED <<rows, pc, todo, victim, removing>>
        /\ removing[p] = "stopping"
        /\ v \in Requests /\ ProjectOf[v] = p /\ pc[v] \notin PreRecord
        /\ \A q \in Requests \ {v} : docker'[q] = docker[q]
        /\ \A k \in Projects : rtodo'[k] \subseteq rtodo[k]
    BY <1>0, <1>4, <2>1 DEF RemoveProjectContainer, dbVars, RowInv, RtodoRecorded
  <2>3. RowsRecorded' /\ TodoRecorded' /\ VictimIdle'
    BY <2>2 DEF RowInv, RowsRecorded, TodoRecorded, VictimIdle
  <2>4. RtodoRecorded'
    BY <2>2 DEF RowInv, RtodoRecorded
  <2>5. StartedRuns'
    BY <2>2 DEF RowInv, StartedRuns, PreRecord
  <2>6. RowBacked'
    BY <1>0, <2>2 DEF RowInv, RowBacked
  <2>7. QED
    BY <2>3, <2>4, <2>5, <2>6 DEF RowInv
<1>5. ASSUME NEW p \in Managed, RemoveProjectRoute(p) PROVE RowInv'
  BY <1>0, <1>1, <1>5 DEF RemoveProjectRoute, dbVars
<1>6. ASSUME NEW p \in Managed, RemoveProjectRow(p) PROVE RowInv'
  BY <1>0, <1>1, <1>6 DEF RemoveProjectRow, CascadeDelete, dbVars
<1>7. ASSUME NEW p \in Managed, deleteProject(p) PROVE RowInv'
  BY <1>1, <1>7 DEF deleteProject, CascadeDelete, removeVars
<1>8. ASSUME NEW p \in Managed, ResetReads(p) \/ ResetWrites(p) PROVE RowInv'
  BY <1>1, <1>8 DEF ResetReads, ResetWrites, dbVars, removeVars
<1>9. CASE Crash
  <2>1. /\ UNCHANGED <<rows, docker, todo, victim, rtodo>>
        /\ \A q \in Requests : pc'[q] = "lost" \/ pc'[q] = pc[q]
        /\ \A p \in Projects : removing'[p] = "idle" => removing[p] = "idle"
    BY <1>9 DEF Crash, dbVars
  <2>2. RowsRecorded' /\ RtodoRecorded'
    BY <1>0, <2>1 DEF RowInv, RowsRecorded, RtodoRecorded, PreRecord
  <2>3. StartedRuns' /\ TodoRecorded' /\ VictimIdle'
    BY <2>1 DEF RowInv, StartedRuns, TodoRecorded, VictimIdle, PreRecord, Siblings
  <2>4. RowBacked'
    BY <1>0, <2>1 DEF RowInv, RowBacked
  <2>5. QED
    BY <2>2, <2>3, <2>4 DEF RowInv
<1>10. QED
  BY <1>2, <1>3, <1>4, <1>5, <1>6, <1>7, <1>8, <1>9 DEF remove

\* RowInv holds for any number of overlapping deploys, whatever fails.
THEOREM RowInvariant == ASSUME ConstantsAssumption PROVE Spec => []RowInv
<1>1. Init => RowInv
  BY DEF Init, RowInv, RowsRecorded, StartedRuns, TodoRecorded, RtodoRecorded,
         VictimIdle, RowBacked
<1>2. TypeOK /\ RowInv /\ [Next]_<<vars, mode>> => RowInv'
  <2> SUFFICES ASSUME TypeOK, RowInv, [Next]_<<vars, mode>> PROVE RowInv'
    OBVIOUS
  <2>1. CASE UNCHANGED <<vars, mode>>
    BY <2>1 DEF vars, RowInv, RowsRecorded, StartedRuns, TodoRecorded,
                RtodoRecorded, VictimIdle, RowBacked
  <2>2. CASE Next
    BY <2>2, HandlerKeepsRowInv, OthersKeepRowInv DEF Next, Step
  <2>3. QED
    BY <2>1, <2>2
<1>3. QED
  BY <1>1, <1>2, TypeCorrect, PTL DEF Spec

\* A container row whose Docker container does not run was taken down by the
\* cleanup of another deploy of the same project or by its removal, whatever
\* fails and however the deploys overlap.
THEOREM RowsBacked == ASSUME ConstantsAssumption PROVE Spec => []RowBacked
<1>1. RowInv => RowBacked
  BY DEF RowInv
<1>2. QED
  BY <1>1, RowInvariant, PTL
-----------------------------------------------------------------------------
(***************************************************************************)
(* NoOrphan and SettledPortsDistinct, when neither the database nor Docker *)
(* fails and the process does not die: a cleanup loop has taken down its   *)
(* victim before it deletes the row, and what runs has a port of its own.  *)
(***************************************************************************)

Calm == Faults \subseteq {"nginx"}

VictimsOwn ==
    \A q \in Requests :
        victim[q] = q \/ (victim[q] \in Siblings(q) /\ pc[victim[q]] \notin PreRecord)

VictimsDown ==
    \A q \in Requests : pc[q] = "deleting" => docker[victim[q]] = "none"

VictimsGone ==
    \A q \in Requests : pc[q] # "deleting" => victim[q] = q \/ victim[q] \notin rows

\* A handler before the creation of its container.
PreCreate == PreRecord \ {"created", "started"}

NotCreated == \A r \in Requests : pc[r] \in PreCreate => docker[r] = "none"

PortsApart ==
    \A q, r \in Requests :
        q # r /\ docker[q] = "running" /\ docker[r] = "running" => port[q] # port[r]

RunningRecorded ==
    \A r \in Requests :
        docker[r] = "running" /\ r \notin rows =>
            pc[r] = "started" \/ ~Exists(ProjectOf[r])

CalmFacts ==
    VictimsOwn /\ VictimsDown /\ VictimsGone /\ NotCreated /\ PortsApart
    /\ RunningRecorded

\* A deleted project stays deleted, whatever a handler writes.
LEMMA HandlerKeepsDeleted ==
    ASSUME TypeOK, NEW r \in Requests, verifyProject(r) \/ Deploy(r)
    PROVE  \A p \in Projects : ~Exists(p) => ~Exists(p)'
<1> USE DEF Exists, dbVars
<1>0. project \in [Projects -> ProjectStatus \cup {"deleted"}]
  BY DEF TypeOK
<1>1. CASE verifyProject(r) \/ MarkBuilding(r) \/ CreateDeployment(r) \/ ReadCredentials(r)
  BY <1>0, <1>1 DEF verifyProject, MarkBuilding, CreateDeployment, ReadCredentials
<1>2. CASE BuildImage(r) \/ PickPort(r) \/ CreateContainer(r) \/ StartContainer(r)
  BY <1>2 DEF BuildImage, PickPort, CreateContainer, StartContainer
<1>3. CASE RecordContainer(r) \/ cleanupOldContainers(r)
  BY <1>3 DEF RecordContainer, cleanupOldContainers, FindOldContainers,
     RemoveOldContainer, DeleteOldRow, CleanupReturns
<1>4. CASE MarkActive(r) \/ RecordSuccess(r) \/ PublishRoute(r)
  BY <1>0, <1>4 DEF MarkActive, RecordSuccess, PublishRoute
<1>5. CASE MarkFailed(r) \/ RecordFailure(r)
  BY <1>0, <1>5 DEF MarkFailed, RecordFailure
<1>6. QED
  BY <1>1, <1>2, <1>3, <1>4, <1>5
     DEF Deploy, deployZip, deployGithub, deployDockerfile, DeploySteps

\* Steps that take down containers at most, drop only the rows of deleted
\* projects, and move no handler into or out of the phases CalmFacts names.
LEMMA CalmQuiet ==
    ASSUME ConstantsAssumption, TypeOK, CalmFacts, UNCHANGED <<victim, port>>,
           rows' \subseteq rows,
           \A q \in rows \ rows' : ~Exists(ProjectOf[q])',
           \A p \in Projects : ~Exists(p) => ~Exists(p)',
           \A q \in Requests : docker'[q] = docker[q] \/ docker'[q] = "none",
           \A q \in Requests :
               /\ pc[q] \notin PreRecord => pc'[q] \notin PreRecord
               /\ pc'[q] = "deleting" <=> pc[q] = "deleting"
               /\ pc'[q] \in PreCreate => pc[q] \in PreCreate
               /\ pc[q] = "started" => pc'[q] = "started" \/ ~Exists(ProjectOf[q])'
    PROVE  CalmFacts'
<1>0. /\ victim \in [Requests -> Requests]
      /\ \A r \in Requests : ProjectOf[r] \in Projects
  BY DEF TypeOK, ConstantsAssumption
<1>1. VictimsOwn'
  BY <1>0 DEF CalmFacts, VictimsOwn, Siblings
<1>2. VictimsDown' /\ VictimsGone'
  BY <1>0 DEF CalmFacts, VictimsDown, VictimsGone
<1>3. NotCreated' /\ PortsApart'
  BY DEF CalmFacts, NotCreated, PortsApart
<1>4. RunningRecorded'
  BY <1>0 DEF CalmFacts, RunningRecorded
<1>5. QED
  BY <1>1, <1>2, <1>3, <1>4 DEF CalmFacts

\* Every step of a handler keeps CalmFacts: Docker starts a container only on
\* a port nothing runs on, a row that cannot be written has no project, and a
\* victim is taken down before its row is deleted.
LEMMA HandlerKeepsCalm ==
    ASSUME ConstantsAssumption, TypeOK, Calm, RowInv, CalmFacts,
           NEW r \in Requests, verifyProject(r) \/ Deploy(r)
    PROVE  CalmFacts'
<1> USE DEF CalmFacts, Goto, dbVars
<1>0. /\ pc \in [Requests -> Labels]
      /\ docker \in [Requests -> {"none", "created", "running"}]
      /\ victim \in [Requests -> Requests]
      /\ todo \in [Requests -> SUBSET Requests]
      /\ port \in [Requests -> Ports \cup {NoPort}]
      /\ rows \subseteq Requests
      /\ \A q \in Requests : ProjectOf[q] \in Projects
      /\ "db" \notin Faults /\ "docker" \notin Faults
  BY DEF TypeOK, ConstantsAssumption, Calm
<1>1. /\ \A q \in Requests \ {r} : pc'[q] = pc[q]
      /\ \A q \in Requests : pc[q] \notin PreRecord => pc'[q] \notin PreRecord
      /\ \A p \in Projects : ~Exists(p) => ~Exists(p)'
  BY HandlerPc, HandlerKeepsDeleted
<1>2. CASE \/ verifyProject(r) \/ MarkBuilding(r) \/ CreateDeployment(r)
           \/ ReadCredentials(r) \/ BuildImage(r)
           \/ MarkActive(r) \/ RecordSuccess(r) \/ PublishRoute(r)
           \/ MarkFailed(r) \/ RecordFailure(r)
  <2>1. /\ UNCHANGED <<rows, docker, victim, port>>
        /\ pc[r] \notin {"started", "deleting"}
        /\ pc'[r] # "deleting"
        /\ pc'[r] \in PreCreate => pc[r] \in PreCreate
    BY <1>0, <1>2 DEF verifyProject, MarkBuilding, CreateDeployment,
       ReadCredentials, BuildImage, MarkActive, RecordSuccess,
       PublishRoute, MarkFailed, RecordFailure, PreCreate, PreRecord
  <2>2. QED
    BY <1>1, <2>1, CalmQuiet
<1>3. CASE FindOldContainers(r) \/ CleanupReturns(r)
  <2>1. /\ UNCHANGED <<rows, docker, victim, port>>
        /\ pc[r] \in {"recorded", "cleaning"}
        /\ pc'[r] \in {"cleaning", "cleaned"}
    BY <1>0, <1>3 DEF FindOldContainers, CleanupReturns
  <2>2. QED
    BY <1>1, <2>1, CalmQuiet DEF PreCreate, PreRecord
<1>4. CASE PickPort(r)
  <2>1. /\ UNCHANGED <<rows, docker, victim>>
        /\ pc[r] = "built" /\ pc'[r] \in {"ported", "catch"}
        /\ \A q \in Requests \ {r} : port'[q] = port[q]
    BY <1>0, <1>4 DEF PickPort
  <2>2. docker[r] = "none"
    BY <2>1 DEF NotCreated, PreCreate, PreRecord
  <2>3. VictimsOwn'
    BY <1>0, <1>1, <2>1 DEF VictimsOwn, Siblings
  <2>4. VictimsDown' /\ VictimsGone'
    BY <1>0, <1>1, <2>1 DEF VictimsDown, VictimsGone
  <2>5. NotCreated' /\ PortsApart'
    BY <1>1, <2>1, <2>2 DEF NotCreated, PortsApart
  <2>6. RunningRecorded'
    BY <1>0, <1>1, <2>1 DEF RunningRecorded
  <2>7. QED
    BY <2>3, <2>4, <2>5, <2>6
<1>5. CASE CreateContainer(r) \/ StartContainer(r)
  <2>1. /\ UNCHANGED <<rows, victim, port>>
        /\ pc[r] \in {"ported", "created"}
        /\ pc'[r] \in {"created", "started", "catch"}
        /\ \A q \in Requests \ {r} : docker'[q] = docker[q]
        /\ docker'[r] = "running" /\ docker[r] # "running" =>
               pc'[r] = "started" /\ ~PortBound(port[r])
        /\ docker'[r] = "running" /\ docker[r] = "running" =>
               UNCHANGED docker /\ pc'[r] = "catch"
    BY <1>0, <1>5 DEF CreateContainer, StartContainer, PortBound
  <2>2. \A q \in Requests : victim[q] = r => pc[q] # "deleting"
    BY <1>0, <2>1 DEF VictimsOwn, PreRecord
  <2>3. VictimsOwn'
    BY <1>0, <1>1, <2>1 DEF VictimsOwn, Siblings
  <2>4. VictimsDown' /\ VictimsGone'
    BY <1>0, <1>1, <2>1, <2>2 DEF VictimsDown, VictimsGone
  <2>5. NotCreated'
    BY <1>1, <2>1 DEF NotCreated, PreCreate, PreRecord
  <2>6. PortsApart'
    BY <1>1, <2>1 DEF PortsApart, PortBound
  <2>7. RunningRecorded'
    BY <1>0, <1>1, <2>1 DEF RunningRecorded
  <2>8. QED
    BY <2>3, <2>4, <2>5, <2>6, <2>7
<1>6. CASE RecordContainer(r)
  <2>1. /\ UNCHANGED <<docker, victim, port, project>>
        /\ pc[r] = "started"
        /\ pc'[r] \in {"recorded", "catch"}
        /\ rows' = rows \cup {r} \/ (rows' = rows /\ ~Exists(ProjectOf[r]))
    BY <1>0, <1>6 DEF RecordContainer
  <2>2. \A q \in Requests : victim[q] = r => q = r
    BY <2>1 DEF VictimsOwn, PreRecord
  <2>3. VictimsOwn'
    BY <1>0, <1>1, <2>1 DEF VictimsOwn, Siblings
  <2>4. VictimsDown' /\ VictimsGone'
    BY <1>0, <1>1, <2>1, <2>2 DEF VictimsDown, VictimsGone
  <2>5. NotCreated' /\ PortsApart'
    BY <1>1, <2>1 DEF NotCreated, PortsApart, PreCreate, PreRecord
  <2>6. RunningRecorded'
    BY <1>0, <1>1, <2>1 DEF RunningRecorded
  <2>7. QED
    BY <2>3, <2>4, <2>5, <2>6
<1>7. CASE RemoveOldContainer(r)
  <2>1. PICK v \in todo[r] :
          /\ victim' = [victim EXCEPT ![r] = v]
          /\ docker' = [docker EXCEPT ![v] = "none"]
    BY <1>0, <1>7 DEF RemoveOldContainer
  <2>2. /\ v \in Siblings(r) /\ v \in Requests /\ pc[v] \notin PreRecord
        /\ UNCHANGED <<rows, port, project>>
        /\ pc[r] = "cleaning" /\ pc'[r] = "deleting"
        /\ victim[r] = r
    BY <1>0, <1>7, <2>1
       DEF RemoveOldContainer, RowInv, TodoRecorded, VictimIdle
  <2>3. VictimsOwn'
    BY <1>0, <1>1, <2>1, <2>2 DEF VictimsOwn, Siblings
  <2>4. VictimsDown' /\ VictimsGone'
    BY <1>0, <1>1, <2>1, <2>2 DEF VictimsDown, VictimsGone
  <2>5. NotCreated' /\ PortsApart'
    BY <1>0, <1>1, <2>1, <2>2 DEF NotCreated, PortsApart, PreCreate, PreRecord
  <2>6. RunningRecorded'
    BY <1>0, <1>1, <2>1, <2>2 DEF RunningRecorded
  <2>7. QED
    BY <2>3, <2>4, <2>5, <2>6
<1>8. CASE DeleteOldRow(r)
  <2>1. /\ UNCHANGED <<docker, port, project>>
        /\ pc[r] = "deleting"
        /\ \/ /\ rows' = rows \ {victim[r]} /\ victim' = [victim EXCEPT ![r] = r]
              /\ pc'[r] = "cleaning"
           \/ UNCHANGED <<rows, victim>> /\ pc'[r] = "cleaned" /\ victim[r] \notin rows
    BY <1>0, <1>8 DEF DeleteOldRow
  <2>2. docker[victim[r]] = "none"
    BY <2>1 DEF VictimsDown
  <2>3. VictimsOwn'
    BY <1>0, <1>1, <2>1 DEF VictimsOwn, Siblings
  <2>4. VictimsDown' /\ VictimsGone'
    BY <1>0, <1>1, <2>1 DEF VictimsDown, VictimsGone
  <2>5. NotCreated' /\ PortsApart'
    BY <1>1, <2>1 DEF NotCreated, PortsApart, PreCreate, PreRecord
  <2>6. RunningRecorded'
    BY <1>0, <1>1, <2>1, <2>2 DEF RunningRecorded
  <2>7. QED
    BY <2>3, <2>4, <2>5, <2>6
<1>9. QED
  BY <1>2, <1>3, <1>4, <1>5, <1>6, <1>7, <1>8
     DEF Deploy, deployZip, deployGithub, deployDockerfile, DeploySteps,
         cleanupOldContainers

\* So do the certificate callback, the removals and the reset.
LEMMA OthersKeepCalm ==
    ASSUME ConstantsAssumption, TypeOK, Calm, CalmFacts,
           \/ \E r \in Requests : SslSettles(r)
           \/ \E p \in Managed : \/ RemoveProject(p) \/ remove(p)
                                 \/ deleteProject(p) \/ ResetReads(p)
                                 \/ ResetWrites(p)
           \/ Crash
    PROVE  CalmFacts'
<1>0. /\ rows \subseteq Requests /\ Managed \subseteq Projects
      /\ project \in [Projects -> ProjectStatus \cup {"deleted"}]
      /\ docker \in [Requests -> {"none", "created", "running"}]
      /\ rtodo \in [Projects -> SUBSET Requests]
  BY DEF TypeOK, ConstantsAssumption, Managed, Mode
<1> USE DEF Exists, dbVars, removeVars
<1>1. CASE \E r \in Requests : SslSettles(r)
  BY <1>0, <1>1, CalmQuiet DEF SslSettles
<1>2. ASSUME NEW p \in Managed,
             \/ RemoveProject(p) \/ RemoveProjectRoute(p)
             \/ ResetReads(p) \/ ResetWrites(p)
      PROVE  CalmFacts'
  <2>1. /\ UNCHANGED <<victim, port, rows, docker, pc>>
        /\ \A k \in Projects : ~Exists(k) => ~Exists(k)'
    BY <1>0, <1>2 DEF RemoveProject, RemoveProjectRoute, ResetReads, ResetWrites
  <2>2. QED
    BY <2>1, CalmQuiet
<1>3. ASSUME NEW p \in Managed, RemoveProjectContainer(p) PROVE CalmFacts'
  <2>1. /\ UNCHANGED <<victim, port, rows, project, pc>>
        /\ \A q \in Requests : docker'[q] = docker[q] \/ docker'[q] = "none"
    BY <1>0, <1>3 DEF RemoveProjectContainer
  <2>2. QED
    BY <2>1, CalmQuiet
<1>4. ASSUME NEW p \in Managed, RemoveProjectRow(p) \/ deleteProject(p)
      PROVE  CalmFacts'
  <2>1. UNCHANGED <<victim, port, docker, pc>>
    BY <1>4 DEF RemoveProjectRow, deleteProject
  <2>2. /\ rows' \subseteq rows
        /\ \A q \in rows \ rows' : ~Exists(ProjectOf[q])'
        /\ \A k \in Projects : ~Exists(k) => ~Exists(k)'
    BY <1>0, <1>4 DEF RemoveProjectRow, deleteProject, CascadeDelete
  <2>3. QED
    BY <2>1, <2>2, CalmQuiet
<1>5. ~Crash
  BY DEF Crash, Calm
<1>6. QED
  BY <1>1, <1>2, <1>3, <1>4, <1>5 DEF remove

\* The row invariant with CalmFacts, inductive for every environment.
THEOREM CalmInvariant ==
    ASSUME ConstantsAssumption PROVE Spec => [](TypeOK /\ RowInv /\ (Calm => CalmFacts))
<1>1. Init => CalmFacts
  BY DEF Init, CalmFacts, VictimsOwn, VictimsDown, VictimsGone, NotCreated,
         PortsApart, RunningRecorded
<1>2. TypeOK /\ RowInv /\ (Calm => CalmFacts) /\ [Next]_<<vars, mode>>
      => (Calm => CalmFacts)'
  <2> SUFFICES ASSUME TypeOK, RowInv, Calm => CalmFacts, [Next]_<<vars, mode>>, Calm'
               PROVE  CalmFacts'
    OBVIOUS
  <2>1. Calm /\ CalmFacts
    BY DEF Calm, Faults, Next
  <2>2. CASE UNCHANGED <<vars, mode>>
    BY <2>1, <2>2 DEF vars, CalmFacts, VictimsOwn, VictimsDown, VictimsGone,
       NotCreated, PortsApart, RunningRecorded, Exists
  <2>3. CASE Next
    BY <2>1, <2>3, HandlerKeepsCalm, OthersKeepCalm DEF Next, Step
  <2>4. QED
    BY <2>2, <2>3
<1>3. Spec => [](TypeOK /\ RowInv)
  BY TypeCorrect, RowInvariant, PTL
<1>4. QED
  BY <1>1, <1>2, <1>3, PTL DEF Spec

\* When only nginx fails, a running container without a row belongs to a
\* deploy that is about to write the row, or its project has been deleted
\* (RecordContainer and cleanupOldContainers against the two deletions), for
\* any number of overlapping deploys.
THEOREM NothingOrphaned == ASSUME ConstantsAssumption PROVE Spec => []NoOrphan
<1>1. (Calm => CalmFacts) => NoOrphan
  BY DEF Calm, CalmFacts, RunningRecorded, NoOrphan
<1>2. QED
  BY <1>1, CalmInvariant, PTL

\* When only nginx fails, rows never claim one host port once all handlers
\* have ended: getAvailablePort may give a port away twice, but Docker starts
\* one container on it and the other deploy writes no row.
THEOREM SettledPorts == ASSUME ConstantsAssumption PROVE Spec => []SettledPortsDistinct
<1>1. TypeOK /\ RowInv /\ (Calm => CalmFacts) => SettledPortsDistinct
  <2> SUFFICES ASSUME TypeOK, RowInv, CalmFacts, Calm,
                      \A r \in Requests : ~InFlight(r),
                      \A p \in Projects : removing[p] = "idle",
                      NEW q \in rows, NEW r \in rows, q # r
               PROVE  port[q] # port[r]
    BY DEF SettledPortsDistinct, Calm
  <2>1. \A v \in rows : docker[v] = "running"
    <3> SUFFICES ASSUME NEW v \in rows, docker[v] # "running" PROVE FALSE
      OBVIOUS
    <3>1. v \in Requests /\ removing[ProjectOf[v]] = "idle"
      BY DEF TypeOK, ConstantsAssumption
    <3>2. PICK s \in Siblings(v) : victim[s] = v
      BY <3>1 DEF RowInv, RowBacked
    <3>3. s \in Requests /\ s # v /\ pc[s] # "deleting"
      BY <3>2 DEF Siblings, InFlight, Ended
    <3>4. QED
      BY <3>2, <3>3 DEF CalmFacts, VictimsGone
  <2>2. QED
    BY <2>1 DEF TypeOK, CalmFacts, PortsApart
<1>2. QED
  BY <1>1, CalmInvariant, PTL
=============================================================================

-------------------------- MODULE ContainersProofs --------------------------
(***************************************************************************)
(* The container operations, for any rows, projects, ports, requests and   *)
(* environments.  Three invariants, each resting on the one before:        *)
(*   OverlapInv  requests may overlap and any call may fail: a request     *)
(*               holds ids of its own row or project only, and a container *)
(*               created anew is known to its creator alone until recorded *)
(*   SerialFacts one request at a time: what it has read still holds       *)
(*   CalmFacts   one at a time, and nothing but nginx fails: statuses and  *)
(*               rows account for every container                          *)
(***************************************************************************)
EXTENDS Containers, FiniteSetTheorems, TLAPS

Labels == {"idle", "createNew", "insertRow", "start", "recordRunning", "stop",
           "recordStopped", "inspect", "restart", "teardown", "create", "recordId",
           "routeNew", "recordRestarted", "route", "deleteRow", "resources", "evict",
           "startNew", "check", "writePort", "release", "unforced", "stopAll",
           "writeInactive", "startAll", "writeActive"}

\* A request of kind k may await the call l.
Awaits(k, l) ==
    /\ l = "idle" <=> k = "none"
    /\ l \in {"createNew", "insertRow"} => k = "create"
    /\ l = "start" => k = "start"
    /\ l = "recordRunning" => k \in {"start", "adminRestart"}
    /\ l \in {"stop", "recordStopped"} => k = "stop"
    /\ l \in {"inspect", "routeNew", "recordRestarted"} => k = "restart"
    /\ l = "restart" => k \in {"restart", "adminRestart"}
    /\ l = "teardown" => k \in {"restart", "remove", "update"}
    /\ l \in {"create", "recordId"} => k \in {"restart", "update"}
    /\ l = "route" => k \in {"restart", "allocatePort"}
    /\ l = "deleteRow" => k \in {"remove", "adminDelete"}
    /\ l \in {"resources", "evict", "startNew"} => k = "update"
    /\ l \in {"check", "writePort"} => k = "allocatePort"
    /\ l = "release" => k = "removePort"
    /\ l = "unforced" => k = "adminDelete"
    /\ l \in {"stopAll", "writeInactive"} => k = "suspend"
    /\ l \in {"startAll", "writeActive"} => k = "resume"

Shaped ==
    /\ pc \in [Handlers -> Labels \cup Ended]
    /\ \A h \in Handlers : Awaits(kind[h], pc[h])

Typed == TypeOK /\ Shaped

\* Requests on a row.
RowKinds == AllKinds \ {"create", "suspend", "resume"}

\* The calls a request may begin with.
Firsts == {"createNew", "start", "stop", "inspect", "teardown", "check", "release",
           "restart", "unforced", "resources", "stopAll", "startAll"}

\* The call a request on a row begins with.
LEMMA FirstCallOf ==
    ASSUME NEW k \in RowKinds, NEW l \in FirstCalls(k)
    PROVE  l \in Labels /\ Awaits(k, l) /\ l \in Firsts
<1>1. ASSUME k = "start" PROVE FirstCalls(k) = {"start"}
  BY <1>1 DEF FirstCalls
<1>2. ASSUME k = "stop" PROVE FirstCalls(k) = {"stop"}
  BY <1>2 DEF FirstCalls
<1>3. ASSUME k = "restart" PROVE FirstCalls(k) = {"inspect"}
  BY <1>3 DEF FirstCalls
<1>4. ASSUME k = "remove" PROVE FirstCalls(k) = {"teardown"}
  BY <1>4 DEF FirstCalls
<1>5. ASSUME k = "allocatePort" PROVE FirstCalls(k) = {"check"}
  BY <1>5 DEF FirstCalls
<1>6. ASSUME k = "removePort" PROVE FirstCalls(k) = {"release"}
  BY <1>6 DEF FirstCalls
<1>7. ASSUME k = "adminRestart" PROVE FirstCalls(k) = {"restart"}
  BY <1>7 DEF FirstCalls
<1>8. ASSUME k = "adminDelete" PROVE FirstCalls(k) = {"unforced"}
  BY <1>8 DEF FirstCalls
<1>9. ASSUME k = "update" PROVE FirstCalls(k) = {"teardown", "resources"}
  BY <1>9 DEF FirstCalls
<1> QED
  BY <1>1, <1>2, <1>3, <1>4, <1>5, <1>6, <1>7, <1>8, <1>9 DEF RowKinds, AllKinds, Labels, Awaits, Firsts

\* A request that goes on to a call of its kind, or ends.
LEMMA GoesOn ==
    ASSUME Shaped, NEW h \in Handlers, NEW l \in Labels \cup Ended, Goto(h, l),
           UNCHANGED kind, Awaits(kind[h], l)
    PROVE  Shaped'
  BY DEF Shaped, Goto

\* A request that ends: ok, with an error answer, or by a throw.
LEMMA EndsNow ==
    ASSUME Shaped, NEW h \in Handlers, pc[h] # "idle", NEW l \in Ended, Goto(h, l),
           UNCHANGED kind
    PROVE  Shaped'
<1>1. l # "idle" /\ kind[h] # "none"
  BY DEF Shaped, Awaits, Ended
<1>2. Awaits(kind[h], l)
  BY <1>1 DEF Awaits, Ended
<1> QED
  BY <1>2, GoesOn

\* Where each call leads.
LEMMA CallShape ==
    ASSUME Typed, NEW h \in Handlers, DockerCall(h) \/ StoreCall(h)
    PROVE  Shaped'
<1> USE DEF Typed
<1>a. pc[h] \in Labels \cup Ended /\ Awaits(kind[h], pc[h]) /\ kind[h] \in AllKinds \cup {"none"}
  BY DEF Shaped, TypeOK
<1>b. ASSUME pc[h] # "idle", UNCHANGED kind, Goto(h, "done") \/ Goto(h, "failed") \/ Goto(h, "thrown")
      PROVE  Shaped'
  BY <1>b, EndsNow DEF Ended
<1>1. ASSUME DockerStart(h) PROVE Shaped'
  <2>1. pc[h] # "idle" /\ UNCHANGED kind
    BY <1>1, <1>a DEF DockerStart, others, requestVars, RowWrites
  <2>2. \/ (pc[h] = "start" /\ Goto(h, "recordRunning"))
        \/ (pc[h] = "startNew" /\ Goto(h, "recordId"))
        \/ Goto(h, "failed")
    BY <1>1, <1>a DEF DockerStart, RowWrites, Awaits
  <2>3. pc[h] = "start" => Awaits(kind[h], "recordRunning") /\ "recordRunning" \in Labels
    BY <1>a DEF Awaits, Labels
  <2>4. pc[h] = "startNew" => Awaits(kind[h], "recordId") /\ "recordId" \in Labels
    BY <1>a DEF Awaits, Labels
  <2> QED
    BY <1>b, <2>1, <2>2, <2>3, <2>4, GoesOn
<1>2. ASSUME DockerStop(h) PROVE Shaped'
  <2>1. pc[h] # "idle" /\ UNCHANGED kind
    BY <1>2, <1>a DEF DockerStop, others, requestVars, RowWrites
  <2>2. \/ (pc[h] = "stop" /\ Goto(h, "recordStopped"))
        \/ Goto(h, "failed")
    BY <1>2, <1>a DEF DockerStop, RowWrites, Awaits
  <2>3. pc[h] = "stop" => Awaits(kind[h], "recordStopped") /\ "recordStopped" \in Labels
    BY <1>a DEF Awaits, Labels
  <2> QED
    BY <1>b, <2>1, <2>2, <2>3, GoesOn
<1>3. ASSUME DockerRestart(h) PROVE Shaped'
  <2>1. pc[h] # "idle" /\ UNCHANGED kind
    BY <1>3, <1>a DEF DockerRestart, others, requestVars, RowWrites
  <2>2. \/ (pc[h] = "restart" /\ kind[h] = "restart" /\ Goto(h, "recordRestarted"))
        \/ (pc[h] = "restart" /\ kind[h] # "restart" /\ Goto(h, "recordRunning"))
        \/ Goto(h, "failed")
    BY <1>3, <1>a DEF DockerRestart, RowWrites, Awaits
  <2>3. pc[h] = "restart" /\ kind[h] = "restart" => Awaits(kind[h], "recordRestarted") /\ "recordRestarted" \in Labels
    BY <1>a DEF Awaits, Labels
  <2>4. pc[h] = "restart" /\ kind[h] # "restart" => Awaits(kind[h], "recordRunning") /\ "recordRunning" \in Labels
    BY <1>a DEF Awaits, Labels
  <2> QED
    BY <1>b, <2>1, <2>2, <2>3, <2>4, GoesOn
<1>4. ASSUME Inspect(h) PROVE Shaped'
  <2>1. pc[h] # "idle" /\ UNCHANGED kind
    BY <1>4, <1>a DEF Inspect, others, requestVars, RowWrites
  <2>2. \/ (pc[h] = "inspect" /\ Goto(h, "create"))
        \/ (pc[h] = "inspect" /\ Goto(h, "restart"))
        \/ (pc[h] = "inspect" /\ Goto(h, "teardown"))
        \/ Goto(h, "failed")
    BY <1>4, <1>a DEF Inspect, RowWrites, Awaits
  <2>3. pc[h] = "inspect" => Awaits(kind[h], "create") /\ "create" \in Labels
    BY <1>a DEF Awaits, Labels
  <2>4. pc[h] = "inspect" => Awaits(kind[h], "restart") /\ "restart" \in Labels
    BY <1>a DEF Awaits, Labels
  <2>5. pc[h] = "inspect" => Awaits(kind[h], "teardown") /\ "teardown" \in Labels
    BY <1>a DEF Awaits, Labels
  <2> QED
    BY <1>b, <2>1, <2>2, <2>3, <2>4, <2>5, GoesOn
<1>5. ASSUME Teardown(h) PROVE Shaped'
  <2>1. pc[h] # "idle" /\ UNCHANGED kind
    BY <1>5, <1>a DEF Teardown, others, requestVars, RowWrites
  <2>2. \/ (pc[h] = "teardown" /\ kind[h] = "restart" /\ Goto(h, "create"))
        \/ (pc[h] = "teardown" /\ kind[h] = "update" /\ Goto(h, "evict"))
        \/ (pc[h] = "teardown" /\ kind[h] = "remove" /\ Goto(h, "deleteRow"))
    BY <1>5, <1>a DEF Teardown, RowWrites, Awaits
  <2>3. pc[h] = "teardown" /\ kind[h] = "restart" => Awaits(kind[h], "create") /\ "create" \in Labels
    BY <1>a DEF Awaits, Labels
  <2>4. pc[h] = "teardown" /\ kind[h] = "update" => Awaits(kind[h], "evict") /\ "evict" \in Labels
    BY <1>a DEF Awaits, Labels
  <2>5. pc[h] = "teardown" /\ kind[h] = "remove" => Awaits(kind[h], "deleteRow") /\ "deleteRow" \in Labels
    BY <1>a DEF Awaits, Labels
  <2> QED
    BY <1>b, <2>1, <2>2, <2>3, <2>4, <2>5, GoesOn
<1>6. ASSUME Evict(h) PROVE Shaped'
  <2>1. pc[h] # "idle" /\ UNCHANGED kind
    BY <1>6, <1>a DEF Evict, others, requestVars, RowWrites
  <2>2. \/ (pc[h] = "evict" /\ Goto(h, "create"))
    BY <1>6, <1>a DEF Evict, RowWrites, Awaits
  <2>3. pc[h] = "evict" => Awaits(kind[h], "create") /\ "create" \in Labels
    BY <1>a DEF Awaits, Labels
  <2> QED
    BY <1>b, <2>1, <2>2, <2>3, GoesOn
<1>7. ASSUME RemoveUnforced(h) PROVE Shaped'
  <2>1. pc[h] # "idle" /\ UNCHANGED kind
    BY <1>7, <1>a DEF RemoveUnforced, others, requestVars, RowWrites
  <2>2. \/ (pc[h] = "unforced" /\ Goto(h, "deleteRow"))
    BY <1>7, <1>a DEF RemoveUnforced, RowWrites, Awaits
  <2>3. pc[h] = "unforced" => Awaits(kind[h], "deleteRow") /\ "deleteRow" \in Labels
    BY <1>a DEF Awaits, Labels
  <2> QED
    BY <1>b, <2>1, <2>2, <2>3, GoesOn
<1>8. ASSUME CreateAnew(h) PROVE Shaped'
  <2>1. pc[h] # "idle" /\ UNCHANGED kind
    BY <1>8, <1>a DEF CreateAnew, others, requestVars, RowWrites
  <2>2. \/ (pc[h] = "create" /\ kind[h] = "update" /\ Goto(h, "startNew"))
        \/ (pc[h] = "create" /\ Goto(h, "recordId"))
        \/ Goto(h, "failed")
    BY <1>8, <1>a DEF CreateAnew, RowWrites, Awaits
  <2>3. pc[h] = "create" /\ kind[h] = "update" => Awaits(kind[h], "startNew") /\ "startNew" \in Labels
    BY <1>a DEF Awaits, Labels
  <2>4. pc[h] = "create" => Awaits(kind[h], "recordId") /\ "recordId" \in Labels
    BY <1>a DEF Awaits, Labels
  <2> QED
    BY <1>b, <2>1, <2>2, <2>3, <2>4, GoesOn
<1>9. ASSUME CreateNew(h) PROVE Shaped'
  <2>1. pc[h] # "idle" /\ UNCHANGED kind
    BY <1>9, <1>a DEF CreateNew, others, requestVars, RowWrites
  <2>2. \/ (pc[h] = "createNew" /\ Goto(h, "insertRow"))
        \/ Goto(h, "failed")
    BY <1>9, <1>a DEF CreateNew, RowWrites, Awaits
  <2>3. pc[h] = "createNew" => Awaits(kind[h], "insertRow") /\ "insertRow" \in Labels
    BY <1>a DEF Awaits, Labels
  <2> QED
    BY <1>b, <2>1, <2>2, <2>3, GoesOn
<1>10. ASSUME RowWriteThrows(h) PROVE Shaped'
  <2>1. pc[h] # "idle" /\ UNCHANGED kind
    BY <1>10, <1>a DEF RowWriteThrows, others, requestVars, RowWrites
  <2>2. \/ Goto(h, "thrown")
    BY <1>10, <1>a DEF RowWriteThrows, RowWrites, Awaits
  <2> QED
    BY <1>b, <2>1, <2>2, GoesOn
<1>11. ASSUME RecordStatus(h) PROVE Shaped'
  <2>1. pc[h] # "idle" /\ UNCHANGED kind
    BY <1>11, <1>a DEF RecordStatus, others, requestVars, RowWrites
  <2>2. \/ Goto(h, "done")
    BY <1>11, <1>a DEF RecordStatus, RowWrites, Awaits
  <2> QED
    BY <1>b, <2>1, <2>2, GoesOn
<1>12. ASSUME RecordId(h) PROVE Shaped'
  <2>1. pc[h] # "idle" /\ UNCHANGED kind
    BY <1>12, <1>a DEF RecordId, others, requestVars, RowWrites
  <2>2. \/ (pc[h] = "recordId" /\ kind[h] = "update" /\ Goto(h, "resources"))
        \/ (pc[h] = "recordId" /\ kind[h] = "restart" /\ Goto(h, "routeNew"))
        \/ (pc[h] = "recordId" /\ kind[h] = "restart" /\ Goto(h, "restart"))
    BY <1>12, <1>a DEF RecordId, RowWrites, Awaits
  <2>3. pc[h] = "recordId" /\ kind[h] = "update" => Awaits(kind[h], "resources") /\ "resources" \in Labels
    BY <1>a DEF Awaits, Labels
  <2>4. pc[h] = "recordId" /\ kind[h] = "restart" => Awaits(kind[h], "routeNew") /\ "routeNew" \in Labels
    BY <1>a DEF Awaits, Labels
  <2>5. pc[h] = "recordId" /\ kind[h] = "restart" => Awaits(kind[h], "restart") /\ "restart" \in Labels
    BY <1>a DEF Awaits, Labels
  <2> QED
    BY <1>b, <2>1, <2>2, <2>3, <2>4, <2>5, GoesOn
<1>13. ASSUME RecordRestarted(h) PROVE Shaped'
  <2>1. pc[h] # "idle" /\ UNCHANGED kind
    BY <1>13, <1>a DEF RecordRestarted, others, requestVars, RowWrites
  <2>2. \/ Goto(h, "done")
        \/ (pc[h] = "recordRestarted" /\ Goto(h, "route"))
    BY <1>13, <1>a DEF RecordRestarted, RowWrites, Awaits
  <2>3. pc[h] = "recordRestarted" => Awaits(kind[h], "route") /\ "route" \in Labels
    BY <1>a DEF Awaits, Labels
  <2> QED
    BY <1>b, <2>1, <2>2, <2>3, GoesOn
<1>14. ASSUME RecordResources(h) PROVE Shaped'
  <2>1. pc[h] # "idle" /\ UNCHANGED kind
    BY <1>14, <1>a DEF RecordResources, others, requestVars, RowWrites
  <2>2. \/ Goto(h, "done")
    BY <1>14, <1>a DEF RecordResources, RowWrites, Awaits
  <2> QED
    BY <1>b, <2>1, <2>2, GoesOn
<1>15. ASSUME WriteRoute(h) PROVE Shaped'
  <2>1. pc[h] # "idle" /\ UNCHANGED kind
    BY <1>15, <1>a DEF WriteRoute, others, requestVars, RowWrites
  <2>2. \/ (pc[h] = "routeNew" /\ Goto(h, "restart"))
        \/ Goto(h, "done")
        \/ Goto(h, "failed")
    BY <1>15, <1>a DEF WriteRoute, RowWrites, Awaits
  <2>3. pc[h] = "routeNew" => Awaits(kind[h], "restart") /\ "restart" \in Labels
    BY <1>a DEF Awaits, Labels
  <2> QED
    BY <1>b, <2>1, <2>2, <2>3, GoesOn
<1>16. ASSUME DeleteRow(h) PROVE Shaped'
  <2>1. pc[h] # "idle" /\ UNCHANGED kind
    BY <1>16, <1>a DEF DeleteRow, others, requestVars, RowWrites
  <2>2. \/ Goto(h, "done")
    BY <1>16, <1>a DEF DeleteRow, RowWrites, Awaits
  <2> QED
    BY <1>b, <2>1, <2>2, GoesOn
<1>17. ASSUME InsertRow(h) PROVE Shaped'
  <2>1. pc[h] # "idle" /\ UNCHANGED kind
    BY <1>17, <1>a DEF InsertRow, others, requestVars, RowWrites
  <2>2. \/ Goto(h, "done")
    BY <1>17, <1>a DEF InsertRow, RowWrites, Awaits
  <2> QED
    BY <1>b, <2>1, <2>2, GoesOn
<1>18. ASSUME CheckPort(h) PROVE Shaped'
  <2>1. pc[h] # "idle" /\ UNCHANGED kind
    BY <1>18, <1>a DEF CheckPort, others, requestVars, RowWrites
  <2>2. \/ (pc[h] = "check" /\ Goto(h, "writePort"))
        \/ Goto(h, "failed")
    BY <1>18, <1>a DEF CheckPort, RowWrites, Awaits
  <2>3. pc[h] = "check" => Awaits(kind[h], "writePort") /\ "writePort" \in Labels
    BY <1>a DEF Awaits, Labels
  <2> QED
    BY <1>b, <2>1, <2>2, <2>3, GoesOn
<1>19. ASSUME WritePort(h) PROVE Shaped'
  <2>1. pc[h] # "idle" /\ UNCHANGED kind
    BY <1>19, <1>a DEF WritePort, others, requestVars, RowWrites
  <2>2. \/ Goto(h, "done")
        \/ (pc[h] = "writePort" /\ Goto(h, "route"))
    BY <1>19, <1>a DEF WritePort, RowWrites, Awaits
  <2>3. pc[h] = "writePort" => Awaits(kind[h], "route") /\ "route" \in Labels
    BY <1>a DEF Awaits, Labels
  <2> QED
    BY <1>b, <2>1, <2>2, <2>3, GoesOn
<1>20. ASSUME ReleasePort(h) PROVE Shaped'
  <2>1. pc[h] # "idle" /\ UNCHANGED kind
    BY <1>20, <1>a DEF ReleasePort, others, requestVars, RowWrites
  <2>2. \/ Goto(h, "done")
    BY <1>20, <1>a DEF ReleasePort, RowWrites, Awaits
  <2> QED
    BY <1>b, <2>1, <2>2, GoesOn
<1>21. ASSUME WriteStatuses(h) PROVE Shaped'
  <2>1. pc[h] # "idle" /\ UNCHANGED kind
    BY <1>21, <1>a DEF WriteStatuses, others, requestVars, RowWrites
  <2>2. \/ (pc[h] = "startAll" /\ Goto(h, "writeActive"))
        \/ (pc[h] = "stopAll" /\ Goto(h, "writeInactive"))
        \/ Goto(h, "failed")
    BY <1>21, <1>a DEF WriteStatuses, RowWrites, Awaits
  <2>3. pc[h] = "startAll" => Awaits(kind[h], "writeActive") /\ "writeActive" \in Labels
    BY <1>a DEF Awaits, Labels
  <2>4. pc[h] = "stopAll" => Awaits(kind[h], "writeInactive") /\ "writeInactive" \in Labels
    BY <1>a DEF Awaits, Labels
  <2> QED
    BY <1>b, <2>1, <2>2, <2>3, <2>4, GoesOn
<1>22. ASSUME WriteProject(h) PROVE Shaped'
  <2>1. pc[h] # "idle" /\ UNCHANGED kind
    BY <1>22, <1>a DEF WriteProject, others, requestVars, RowWrites
  <2>2. \/ Goto(h, "done")
    BY <1>22, <1>a DEF WriteProject, RowWrites, Awaits
  <2> QED
    BY <1>b, <2>1, <2>2, GoesOn
<1>23. ASSUME StopOrStartNext(h) PROVE Shaped'
  BY <1>23 DEF StopOrStartNext, others, requestVars, Shaped
<1> QED
  BY <1>1, <1>2, <1>3, <1>4, <1>5, <1>6, <1>7, <1>8, <1>9, <1>10, <1>11, <1>12, <1>13, <1>14, <1>15, <1>16, <1>17, <1>18, <1>19, <1>20, <1>21, <1>22, <1>23 DEF DockerCall, StoreCall

\* Calls keep the types.
LEMMA CallType ==
    ASSUME Typed, NEW h \in Handlers, DockerCall(h) \/ StoreCall(h), UNCHANGED mode
    PROVE  TypeOK'
<1> USE DEF Typed, TypeOK, others, rowVars, dockerVars, requestVars, SetEngine
<1>a. h \in Ids /\ Containers \subseteq Ids /\ NoPort \in Ports \cup {NoPort}
  BY DEF Ids
<1>b. \A g \in Handlers : /\ seen[g].id \in Ids /\ seen[g].port \in Ports \cup {NoPort}
                          /\ target[g] \in Ids /\ ProjectOf[target[g]] \in Projects
                          /\ \A i \in Ids : [seen[g] EXCEPT !.id = i] \in
                                 [id : Ids, port : Ports \cup {NoPort}, up : BOOLEAN]
  <2> SUFFICES ASSUME NEW g \in Handlers
               PROVE  /\ seen[g].id \in Ids /\ seen[g].port \in Ports \cup {NoPort}
                      /\ target[g] \in Ids /\ ProjectOf[target[g]] \in Projects
                      /\ \A i \in Ids : [seen[g] EXCEPT !.id = i] \in
                             [id : Ids, port : Ports \cup {NoPort}, up : BOOLEAN]
    OBVIOUS
  <2>1. /\ target \in [Handlers -> Containers]
        /\ seen \in [Handlers -> [id : Ids, port : Ports \cup {NoPort}, up : BOOLEAN]]
    OBVIOUS
  <2>2. target[g] \in Ids /\ ProjectOf[target[g]] \in Projects
    BY <1>a, <2>1 DEF Projects
  <2>3. seen[g] \in [id : Ids, port : Ports \cup {NoPort}, up : BOOLEAN]
    BY <2>1
  <2> QED
    BY <2>2, <2>3
<1>1. ASSUME DockerStart(h) PROVE TypeOK'
  <2>1. engine' \in [Ids -> {"none", "stopped", "running"}]
    BY <1>1, <1>a, <1>b DEF DockerStart
  <2>2. UNCHANGED <<others, todo>>
    BY <1>1 DEF DockerStart
  <2> QED
    BY <2>1, <2>2
<1>2. ASSUME DockerStop(h) PROVE TypeOK'
  <2>0. engine' = engine \/ engine' = [engine EXCEPT ![seen[h].id] = "stopped"]
    BY <1>2 DEF DockerStop
  <2>1. engine' \in [Ids -> {"none", "stopped", "running"}]
    BY <2>0, <1>b
  <2>2. UNCHANGED <<others, todo>>
    BY <1>2 DEF DockerStop
  <2> QED
    BY <2>1, <2>2
<1>3. ASSUME DockerRestart(h) PROVE TypeOK'
  <2>0. engine' = engine \/ engine' = [engine EXCEPT ![seen[h].id] = "running"] \/ engine' = [engine EXCEPT ![seen[h].id] = "stopped"]
    BY <1>3 DEF DockerRestart
  <2>1. engine' \in [Ids -> {"none", "stopped", "running"}]
    BY <2>0, <1>b
  <2>2. UNCHANGED <<others, todo>>
    BY <1>3 DEF DockerRestart
  <2> QED
    BY <2>1, <2>2
<1>4. ASSUME Inspect(h) PROVE TypeOK'
  BY <1>4, <1>a, <1>b DEF Inspect
<1>5. ASSUME Teardown(h) PROVE TypeOK'
  BY <1>5, <1>a, <1>b DEF Teardown
<1>6. ASSUME Evict(h) PROVE TypeOK'
  BY <1>6, <1>a, <1>b DEF Evict
<1>7. ASSUME RemoveUnforced(h) PROVE TypeOK'
  <2>1. engine' \in [Ids -> {"none", "stopped", "running"}]
    BY <1>7, <1>a, <1>b DEF RemoveUnforced
  <2>2. UNCHANGED <<others, todo>>
    BY <1>7 DEF RemoveUnforced
  <2> QED
    BY <2>1, <2>2
<1>8. ASSUME CreateAnew(h) PROVE TypeOK'
  BY <1>8, <1>a, <1>b DEF CreateAnew
<1>9. ASSUME CreateNew(h) PROVE TypeOK'
  BY <1>9, <1>a, <1>b DEF CreateNew
<1>10. ASSUME RowWriteThrows(h) PROVE TypeOK'
  BY <1>10, <1>a, <1>b DEF RowWriteThrows
<1>11. ASSUME RecordStatus(h) PROVE TypeOK'
  BY <1>11, <1>a, <1>b DEF RecordStatus
<1>12. ASSUME RecordId(h) PROVE TypeOK'
  BY <1>12, <1>a, <1>b DEF RecordId
<1>13. ASSUME RecordRestarted(h) PROVE TypeOK'
  BY <1>13, <1>a, <1>b DEF RecordRestarted
<1>14. ASSUME RecordResources(h) PROVE TypeOK'
  BY <1>14, <1>a, <1>b DEF RecordResources
<1>15. ASSUME WriteRoute(h) PROVE TypeOK'
  BY <1>15, <1>a, <1>b DEF WriteRoute
<1>16. ASSUME DeleteRow(h) PROVE TypeOK'
  BY <1>16, <1>a, <1>b DEF DeleteRow
<1>17. ASSUME InsertRow(h) PROVE TypeOK'
  BY <1>17, <1>a, <1>b DEF InsertRow
<1>18. ASSUME CheckPort(h) PROVE TypeOK'
  BY <1>18, <1>a, <1>b DEF CheckPort
<1>19. ASSUME WritePort(h) PROVE TypeOK'
  BY <1>19, <1>a, <1>b DEF WritePort
<1>20. ASSUME ReleasePort(h) PROVE TypeOK'
  BY <1>20, <1>a, <1>b DEF ReleasePort
<1>21. ASSUME WriteStatuses(h) PROVE TypeOK'
  BY <1>21, <1>a, <1>b DEF WriteStatuses
<1>22. ASSUME WriteProject(h) PROVE TypeOK'
  BY <1>22, <1>a, <1>b DEF WriteProject
<1>23. ASSUME StopOrStartNext(h) PROVE TypeOK'
  BY <1>23, <1>a, <1>b DEF StopOrStartNext
<1> QED
  BY <1>1, <1>2, <1>3, <1>4, <1>5, <1>6, <1>7, <1>8, <1>9, <1>10, <1>11, <1>12, <1>13, <1>14, <1>15, <1>16, <1>17, <1>18, <1>19, <1>20, <1>21, <1>22, <1>23 DEF DockerCall, StoreCall

\* A request begins.
LEMMA ReadType ==
    ASSUME Typed, NEW h \in Handlers, NEW c \in Containers, NEW k \in OpKinds,
           ReadRow(h, c, k) \/ ReadForCreate(h, c) \/ ReadProject(h, c, k), UNCHANGED mode
    PROVE  TypeOK' /\ Shaped'
<1> USE ContainersAssumption DEF Typed, TypeOK, rowVars, dockerVars, requestVars, MayBegin
<1>1. CASE ReadRow(h, c, k)
  <2>1. k \in RowKinds /\ k # "none"
    BY <1>1 DEF ReadRow, RowKinds, AllKinds
  <2>2. PICK l \in FirstCalls(k) : Goto(h, l)
    BY <1>1 DEF ReadRow
  <2>3. l \in Labels /\ Awaits(k, l)
    BY <2>1, <2>2, FirstCallOf
  <2>4. kind' = [kind EXCEPT ![h] = k]
    BY <1>1 DEF ReadRow
  <2>5. Shaped'
    BY <2>2, <2>3, <2>4 DEF Shaped, Goto
  <2>6. kind' \in [Handlers -> AllKinds \cup {"none"}]
    BY <2>1, <2>4 DEF RowKinds
  <2>7. [id |-> dockerId[c], port |-> hostPort[c], up |-> status[c] = "RUNNING"]
          \in [id : Ids, port : Ports \cup {NoPort}, up : BOOLEAN]
    OBVIOUS
  <2>8. seen' \in [Handlers -> [id : Ids, port : Ports \cup {NoPort}, up : BOOLEAN]]
    BY <1>1, <2>7 DEF ReadRow
  <2>9. wanted' \in [Handlers -> Ports \cup {NoPort}]
    BY <1>1 DEF ReadRow, Ports
  <2> QED
    BY <1>1, <2>5, <2>6, <2>8, <2>9 DEF ReadRow
<1>2. CASE ReadForCreate(h, c)
  <2>1. Shaped'
    BY <1>2 DEF ReadForCreate, Shaped, Goto, Awaits, Labels
  <2>2. wanted' \in [Handlers -> Ports \cup {NoPort}]
    BY <1>2 DEF ReadForCreate, Ports
  <2> QED
    BY <1>2, <2>1, <2>2 DEF ReadForCreate, AllKinds
<1>3. CASE ReadProject(h, c, k)
  <2>1. Shaped'
    BY <1>3 DEF ReadProject, Shaped, Goto, Awaits, Labels
  <2>2. todo' \in [Handlers -> SUBSET Ids]
    BY <1>3 DEF ReadProject, Suspended
  <2> QED
    BY <1>3, <2>1, <2>2 DEF ReadProject, AllKinds
<1> QED
  BY <1>1, <1>2, <1>3

\* Every step keeps the types, and the kind of call that a request awaits.
LEMMA TypeStep == Typed /\ [Next]_<<vars, mode>> => Typed'
<1> SUFFICES ASSUME Typed, [Next]_<<vars, mode>> PROVE Typed'
  OBVIOUS
<1>1. CASE UNCHANGED <<vars, mode>>
  BY <1>1 DEF Typed, TypeOK, Shaped, vars, rowVars, dockerVars, requestVars
<1>2. CASE Crash /\ UNCHANGED mode
  <2>1. TypeOK'
    BY <1>2 DEF Crash, Typed, TypeOK, others, rowVars, requestVars
  <2>2. \A g \in Handlers : InFlight(g) => Awaits(kind[g], "lost")
    BY DEF InFlight, Ended, Typed, Shaped, Awaits
  <2>3. Shaped'
    BY <1>2, <2>2 DEF Crash, Typed, Shaped, others, requestVars, Ended
  <2> QED
    BY <2>1, <2>3 DEF Typed
<1>p. CASE Prune /\ UNCHANGED mode
  BY <1>p DEF Prune, Typed, TypeOK, Shaped, others, rowVars, requestVars
<1>3. ASSUME NEW h \in Handlers, NEW c \in Containers, UNCHANGED mode,
             ReadForCreate(h, c) \/ \E k \in OpKinds : ReadRow(h, c, k) \/ ReadProject(h, c, k)
      PROVE  Typed'
  <2>1. PICK k \in OpKinds : ReadForCreate(h, c) \/ ReadRow(h, c, k) \/ ReadProject(h, c, k)
    BY <1>3 DEF ReadForCreate
  <2> QED
    BY <1>3, <2>1, ReadType DEF Typed
<1>4. ASSUME NEW h \in Handlers, UNCHANGED mode, DockerCall(h) \/ StoreCall(h)
      PROVE  Typed'
  BY <1>4, CallType, CallShape DEF Typed
<1> QED
  BY <1>1, <1>2, <1>p, <1>3, <1>4 DEF Next, Step

\* The initial state is well typed.
LEMMA InitTyped == Init => Typed
<1> SUFFICES ASSUME Init PROVE Typed
  OBVIOUS
<1> USE ContainersAssumption DEF Init
<1>1. TypeOK
  BY DEF TypeOK, Ids
<1>2. Shaped
  BY DEF Shaped, Labels, Awaits
<1> QED
  BY <1>1, <1>2 DEF Typed

\* However requests overlap and whatever fails, the rows, the copies that
\* requests hold and the Docker engine stay within their types: every id is a
\* container's, every port one of the two ranges or none.
THEOREM ContainersTypeCorrect == Spec => []TypeOK
<1>1. Typed => TypeOK
  BY DEF Typed
<1> QED
  BY <1>1, InitTyped, TypeStep, PTL DEF Spec

-----------------------------------------------------------------------------
(***************************************************************************)
(* What a call changes.                                                    *)
(***************************************************************************)

\* A call to the Docker engine changes neither the rows nor what the request
\* has read, and makes no other request go on.
LEMMA DockerKeeps ==
    ASSUME Typed, NEW h \in Handlers, DockerCall(h)
    PROVE  /\ UNCHANGED <<rowVars, project, conf, requestVars, seen, wanted>>
           /\ pc[h] \notin Ended \cup {"idle"}
           /\ \A g \in Handlers \ {h} : pc'[g] = pc[g] /\ todo'[g] = todo[g]
<1> USE DEF others, Goto, Ended
<1>0. pc \in [Handlers -> Labels \cup Ended] /\ todo \in [Handlers -> SUBSET Ids]
  BY DEF Typed, Shaped, TypeOK
<1>1. CASE DockerStart(h) \/ DockerStop(h) \/ DockerRestart(h) \/ Inspect(h)
  BY <1>0, <1>1 DEF DockerStart, DockerStop, DockerRestart, Inspect
<1>2. CASE Teardown(h) \/ Evict(h) \/ RemoveUnforced(h)
  BY <1>0, <1>2 DEF Teardown, Evict, RemoveUnforced
<1>3. CASE CreateAnew(h) \/ CreateNew(h) \/ StopOrStartNext(h)
  BY <1>0, <1>3 DEF CreateAnew, CreateNew, StopOrStartNext
<1> QED
  BY <1>1, <1>2, <1>3 DEF DockerCall

\* A call to the database or to nginx leaves the Docker engine alone.
LEMMA StoreKeeps ==
    ASSUME Typed, NEW h \in Handlers, StoreCall(h)
    PROVE  /\ UNCHANGED <<dockerVars, requestVars, todo>>
           /\ pc[h] \notin Ended \cup {"idle"}
           /\ \A g \in Handlers \ {h} : /\ pc'[g] = pc[g] /\ seen'[g] = seen[g]
                                        /\ wanted'[g] = wanted[g]
<1> USE DEF others, Goto, Ended, RowWrites, dockerVars, requestVars
<1>0. /\ pc \in [Handlers -> Labels \cup Ended]
      /\ seen \in [Handlers -> [id : Ids, port : Ports \cup {NoPort}, up : BOOLEAN]]
      /\ wanted \in [Handlers -> Ports \cup {NoPort}]
  BY DEF Typed, Shaped, TypeOK
<1>1. CASE RowWriteThrows(h) \/ RecordStatus(h) \/ RecordResources(h)
  BY <1>0, <1>1 DEF RowWriteThrows, RecordStatus, RecordResources
<1>2. CASE RecordId(h)
  BY <1>0, <1>2 DEF RecordId
<1>3. CASE RecordRestarted(h) \/ WriteRoute(h)
  BY <1>0, <1>3 DEF RecordRestarted, WriteRoute
<1>4. CASE DeleteRow(h) \/ InsertRow(h) \/ CheckPort(h) \/ WritePort(h)
  BY <1>0, <1>4 DEF DeleteRow, InsertRow, CheckPort, WritePort
<1>5. CASE ReleasePort(h) \/ WriteStatuses(h) \/ WriteProject(h)
  BY <1>0, <1>5 DEF ReleasePort, WriteStatuses, WriteProject
<1> QED
  BY <1>1, <1>2, <1>3, <1>4, <1>5 DEF StoreCall

\* A request that begins, asked for k, with the row c or the project of c.
Begins(h, c, k) ==
    /\ MayBegin(h)
    /\ k \in OpKinds /\ k \in AllKinds
    /\ kind' = [kind EXCEPT ![h] = k]
    /\ target' = [target EXCEPT ![h] = c]
    /\ pc'[h] \in Firsts
    /\ \A g \in Handlers \ {h} : /\ pc'[g] = pc[g] /\ seen'[g] = seen[g]
                                 /\ wanted'[g] = wanted[g] /\ todo'[g] = todo[g]
    /\ UNCHANGED <<rowVars, project, dockerVars, conf>>

\* The three ways a request begins.
BeginsOnRow(h, c, k) ==
    /\ Begins(h, c, k)
    /\ k \in RowKinds /\ c \in rows
    /\ pc'[h] \in FirstCalls(k)
    /\ seen'[h] = [id |-> dockerId[c], port |-> hostPort[c], up |-> status[c] = "RUNNING"]
    /\ k = "allocatePort" => wanted'[h] \in Ports

BeginsCreate(h, c) ==
    /\ Begins(h, c, "create")
    /\ c \notin rows /\ engine[c] = "none" /\ pc'[h] = "createNew"
    /\ \A g \in Handlers : kind[g] # "none" => target[g] # c

BeginsOnProject(h, c, k) ==
    /\ Begins(h, c, k)
    /\ \/ /\ k = "suspend" /\ pc'[h] = "stopAll"
          /\ todo'[h] = {dockerId[d] : d \in Suspended(ProjectOf[c])}
       \/ /\ k = "resume" /\ pc'[h] = "startAll"
          /\ todo'[h] = {dockerId[d] : d \in {d \in rows : ProjectOf[d] = ProjectOf[c]}}

\* The reads that begin a request do nothing else: in particular they leave
\* the stores, and what other requests hold, alone.
LEMMA Beginnings ==
    ASSUME Typed, NEW h \in Handlers, NEW c \in Containers
    PROVE  /\ ReadForCreate(h, c) => BeginsCreate(h, c)
           /\ \A k \in OpKinds : /\ ReadRow(h, c, k) => BeginsOnRow(h, c, k)
                                 /\ ReadProject(h, c, k) => BeginsOnProject(h, c, k)
<1> USE ContainersAssumption DEF Begins, Goto
<1>0. /\ pc \in [Handlers -> Labels \cup Ended]
      /\ seen \in [Handlers -> [id : Ids, port : Ports \cup {NoPort}, up : BOOLEAN]]
      /\ wanted \in [Handlers -> Ports \cup {NoPort}]
      /\ todo \in [Handlers -> SUBSET Ids]
  BY DEF Typed, Shaped, TypeOK
<1>1. ReadForCreate(h, c) => BeginsCreate(h, c)
  BY <1>0 DEF ReadForCreate, BeginsCreate, AllKinds, Firsts
<1>2. ASSUME NEW k \in OpKinds, ReadRow(h, c, k) PROVE BeginsOnRow(h, c, k)
  <2>1. k \in RowKinds /\ k \in AllKinds
    BY <1>2 DEF ReadRow, RowKinds
  <2>2. PICK l \in FirstCalls(k) : Goto(h, l)
    BY <1>2 DEF ReadRow
  <2>4. l \in Firsts
    BY <2>1, <2>2, FirstCallOf
  <2>5. k = "allocatePort" => wanted'[h] \in Ports
    BY <1>0, <1>2 DEF ReadRow, Ports
  <2>6. \A g \in Handlers \ {h} : wanted'[g] = wanted[g]
    BY <1>0, <1>2 DEF ReadRow
  <2> QED
    BY <1>0, <1>2, <2>1, <2>2, <2>4, <2>5, <2>6 DEF ReadRow, BeginsOnRow
<1>3. ASSUME NEW k \in OpKinds, ReadProject(h, c, k) PROVE BeginsOnProject(h, c, k)
  <2>1. k \in AllKinds /\ k \in {"suspend", "resume"}
    BY <1>3 DEF ReadProject
  <2>2. Begins(h, c, k)
    BY <1>0, <1>3, <2>1 DEF ReadProject, Firsts
  <2> QED
    BY <1>0, <1>3, <2>1, <2>2 DEF ReadProject, BeginsOnProject
<1> QED
  BY <1>1, <1>2, <1>3

\* Every step is a beginning, a call, a crash or a prune.
LEMMA StepsAre ==
    ASSUME Typed, [Next]_<<vars, mode>>,
           NEW ACTION P,
           UNCHANGED <<vars, mode>> => P,
           Crash /\ UNCHANGED mode => P,
           Prune /\ UNCHANGED mode => P,
           \A h \in Handlers : UNCHANGED mode /\ DockerCall(h) => P,
           \A h \in Handlers : UNCHANGED mode /\ StoreCall(h) => P,
           \A h \in Handlers, c \in Containers : UNCHANGED mode /\ BeginsCreate(h, c) => P,
           \A h \in Handlers, c \in Containers, k \in OpKinds :
               UNCHANGED mode /\ (BeginsOnRow(h, c, k) \/ BeginsOnProject(h, c, k)) => P
    PROVE  P
<1>1. CASE UNCHANGED <<vars, mode>>
  BY <1>1
<1>2. CASE Next
  <2>1. UNCHANGED mode /\ (Crash \/ Prune \/ \E h \in Handlers :
              \/ DockerCall(h) \/ StoreCall(h)
              \/ \E c \in Containers :
                    ReadForCreate(h, c) \/ \E k \in OpKinds : ReadRow(h, c, k) \/ ReadProject(h, c, k))
    BY <1>2 DEF Next, Step
  <2> QED
    BY <2>1, Beginnings
<1> QED
  BY <1>1, <1>2

\* A request keeps what it was asked for, and one that ended does not go on.
LEMMA RequestsKept ==
    ASSUME Typed, [Next]_<<vars, mode>>, NEW g \in Handlers, kind[g] # "none"
    PROVE  /\ kind'[g] = kind[g] /\ target'[g] = target[g]
           /\ pc[g] \in Ended => pc'[g] = pc[g]
<1> DEFINE P == /\ kind'[g] = kind[g] /\ target'[g] = target[g]
                /\ pc[g] \in Ended => pc'[g] = pc[g]
<1>0. pc[g] # "idle"
  BY DEF Typed, Shaped, Awaits
<1>1. UNCHANGED <<vars, mode>> => P
  BY DEF vars, requestVars
<1>2. Crash /\ UNCHANGED mode => P
  BY DEF Crash, others, requestVars, InFlight
<1>p. Prune /\ UNCHANGED mode => P
  BY DEF Prune, others, requestVars
<1>3. \A h \in Handlers : UNCHANGED mode /\ DockerCall(h) => P
  BY DockerKeeps DEF requestVars
<1>4. \A h \in Handlers : UNCHANGED mode /\ StoreCall(h) => P
  BY StoreKeeps DEF requestVars
<1>5. ASSUME NEW h \in Handlers, NEW c, NEW k, Begins(h, c, k) PROVE P
  BY <1>0, <1>5 DEF Begins, MayBegin, Typed, TypeOK
<1>6. P
  <2> HIDE DEF P
  <2> QED
    BY <1>1, <1>2, <1>p, <1>3, <1>4, <1>5, StepsAre DEF BeginsCreate, BeginsOnRow, BeginsOnProject
<1> QED
  BY <1>6

\* What comes into being is created under a free name, or for a new row.
LEMMA WhatAppears ==
    ASSUME Typed, NEW h \in Handlers, DockerCall(h), NEW i \in Ids,
           engine[i] = "none", engine'[i] # "none"
    PROVE  /\ engine'[i] = "stopped"
           /\ \/ /\ pc[h] = "create" /\ i = h /\ NameBearers(target[h]) = {}
                 /\ bind'[h] = seen[h].port
                 /\ pc'[h] = IF kind[h] = "update" /\ seen[h].up THEN "startNew" ELSE "recordId"
              \/ pc[h] = "createNew" /\ i = target[h] /\ pc'[h] = "insertRow"
<1> USE DEF SetEngine, Typed, TypeOK, dockerVars, Startable
<1>0. /\ seen[h].id \in Ids /\ h \in Ids
      /\ pc \in [Handlers -> Labels \cup Ended]
  BY DEF Ids, Shaped
<1>1. CASE DockerStart(h)
  BY <1>0, <1>1 DEF DockerStart
<1>2. CASE DockerStop(h) \/ DockerRestart(h) \/ Inspect(h)
  BY <1>0, <1>2 DEF DockerStop, DockerRestart, Inspect
<1>3. CASE Teardown(h) \/ Evict(h) \/ RemoveUnforced(h)
  BY <1>0, <1>3 DEF Teardown, Evict, RemoveUnforced
<1>4. CASE CreateAnew(h)
  BY <1>0, <1>4 DEF CreateAnew, Goto
<1>5. CASE CreateNew(h)
  BY <1>0, <1>5 DEF CreateNew, Goto
<1>6. CASE StopOrStartNext(h)
  BY <1>0, <1>6 DEF StopOrStartNext
<1> QED
  BY <1>1, <1>2, <1>3, <1>4, <1>5, <1>6 DEF DockerCall

\* What disappears is the container the request read, or bears the name of
\* its row.
LEMMA WhatDisappears ==
    ASSUME Typed, NEW h \in Handlers, DockerCall(h), NEW i \in Ids,
           engine[i] # "none", engine'[i] = "none"
    PROVE  \/ pc[h] \in {"teardown", "unforced"} /\ i = seen[h].id
           \/ pc[h] = "evict" /\ i \in NameBearers(target[h])
<1> USE DEF SetEngine, Typed, TypeOK, dockerVars
<1>0. seen[h].id \in Ids /\ h \in Ids
  BY DEF Ids
<1>1. CASE DockerStart(h) \/ DockerStop(h)
  BY <1>0, <1>1 DEF DockerStart, DockerStop
<1>2. CASE DockerRestart(h) \/ Inspect(h)
  BY <1>0, <1>2 DEF DockerRestart, Inspect
<1>3. CASE Teardown(h) \/ Evict(h) \/ RemoveUnforced(h)
  BY <1>0, <1>3 DEF Teardown, Evict, RemoveUnforced
<1>4. CASE CreateAnew(h) \/ CreateNew(h)
  BY <1>0, <1>4 DEF CreateAnew, CreateNew
<1>5. CASE StopOrStartNext(h)
  BY <1>0, <1>5 DEF StopOrStartNext
<1> QED
  BY <1>1, <1>2, <1>3, <1>4, <1>5 DEF DockerCall

\* A container that goes down is the one the request read, bears the name of
\* its row, was made by the request, or is on its list.
LEMMA WhatGoesDown ==
    ASSUME Typed, NEW h \in Handlers, DockerCall(h), NEW i \in Ids,
           engine[i] = "running", engine'[i] # "running"
    PROVE  \/ pc[h] \in {"stop", "restart", "teardown", "unforced"} /\ i = seen[h].id
           \/ pc[h] = "evict" /\ i \in NameBearers(target[h])
           \/ pc[h] = "create" /\ i = h
           \/ pc[h] = "createNew" /\ i = target[h]
           \/ pc[h] \in {"stopAll", "startAll"} /\ i \in todo[h]
<1> USE DEF SetEngine, Typed, TypeOK, dockerVars
<1>0. seen[h].id \in Ids /\ h \in Ids
  BY DEF Ids
<1>1. CASE DockerStart(h) \/ DockerStop(h)
  BY <1>0, <1>1 DEF DockerStart, DockerStop
<1>2. CASE DockerRestart(h) \/ Inspect(h)
  BY <1>0, <1>2 DEF DockerRestart, Inspect
<1>3. CASE Teardown(h) \/ Evict(h) \/ RemoveUnforced(h)
  BY <1>0, <1>3 DEF Teardown, Evict, RemoveUnforced
<1>4. CASE CreateAnew(h) \/ CreateNew(h)
  BY <1>0, <1>4 DEF CreateAnew, CreateNew
<1>5. CASE StopOrStartNext(h)
  BY <1>0, <1>5 DEF StopOrStartNext
<1> QED
  BY <1>1, <1>2, <1>3, <1>4, <1>5 DEF DockerCall

-----------------------------------------------------------------------------
(***************************************************************************)
(* Whatever overlaps and fails: a request works on its own row.            *)
(***************************************************************************)

\* Requests that may create the container of their row anew.
Renewing(h) == kind[h] \in {"restart", "update"}

\* i is the container of row c, or one a request created anew for it.
ContainerOf(i, c) == i = c \/ (i \in Handlers /\ Renewing(i) /\ target[i] = c)

RowsReferToOwn == \A c \in Containers : ContainerOf(dockerId[c], c)

RequestsReferToOwn ==
    \A h \in Handlers : kind[h] \in RowKinds => ContainerOf(seen[h].id, target[h])

ListsReferToOwn ==
    \A h \in Handlers : kind[h] \in {"suspend", "resume"} =>
        \A i \in todo[h] : \E c \in Containers :
            ContainerOf(i, c) /\ ProjectOf[c] = ProjectOf[target[h]]

OnlyRenewed == \A h \in Handlers : engine[h] # "none" => Renewing(h)

\* Until it is recorded, a container created anew is known to nobody else.
BeforeRecord == {"inspect", "teardown", "evict", "create", "startNew", "recordId"}

NewIsUnknown ==
    \A h \in Handlers : Renewing(h) /\ pc[h] \in BeforeRecord =>
        /\ \A c \in Containers : dockerId[c] # h
        /\ \A g \in Handlers : kind[g] \in RowKinds => seen[g].id # h

\* Nobody else was asked for a row that is being created.
CreatesAlone ==
    \A h \in Handlers : pc[h] \in {"createNew", "insertRow"} =>
        /\ target[h] \notin rows
        /\ \A g \in Handlers \ {h} : kind[g] \in RowKinds \cup {"create"} => target[g] # target[h]

\* The exceptions of ZombieRecreatable.
Excepted(c) == \E h \in Handlers :
    \/ target[h] = c /\ pc[h] \in {"thrown", "lost"}
    \/ kind[h] = "update" /\ NameOf[target[h]] = NameOf[c]

\* The containers created for row c that bear its name.
OwnBearers(c) ==
    {i \in Ids : /\ engine[i] # "none"
                 /\ \/ i = c /\ BornAs[c] = NameOf[c]
                    \/ i \in Handlers /\ target[i] = c}

\* A container of the row that bears its name is the one the row refers to, or
\* is about to be recorded, and then is the only one.
BearersKnown ==
    \A c \in rows : Excepted(c) \/
        \A i \in OwnBearers(c) : dockerId[c] = i \/ (i \in Handlers /\ pc[i] = "recordId")

RecordsOnly ==
    \A h \in Handlers : pc[h] = "recordId" =>
        Excepted(target[h]) \/ OwnBearers(target[h]) = {h}

Owned == RowsReferToOwn /\ RequestsReferToOwn /\ ListsReferToOwn /\ OnlyRenewed

Known == NewIsUnknown /\ CreatesAlone

OverlapInv == Typed /\ Owned /\ Known /\ BearersKnown /\ RecordsOnly

\* The containers of a row that bear its name are those that bear its name and
\* were created for it.
LEMMA OwnAmongBearers ==
    ASSUME NEW c \in Containers
    PROVE  OwnBearers(c) = {i \in NameBearers(c) : RowOf(i) = c}
  BY ContainersAssumption DEF OwnBearers, NameBearers, DockerName, RowOf, Ids

\* A row is a container's own in one way only.
LEMMA OneOwner ==
    ASSUME NEW i, NEW c \in Containers, NEW d \in Containers, ContainerOf(i, c), ContainerOf(i, d)
    PROVE  c = d
  BY ContainersAssumption DEF ContainerOf

\* A container keeps its owner, since a request keeps its target.
LEMMA OwnerKept ==
    ASSUME Typed, [Next]_<<vars, mode>>, NEW i, NEW c, ContainerOf(i, c)
    PROVE  ContainerOf(i, c)'
<1>1. ASSUME i \in Handlers, Renewing(i) PROVE kind[i] # "none"
  BY <1>1 DEF Renewing
<1> QED
  BY <1>1, RequestsKept DEF ContainerOf, Renewing

\* Which writes change the id that a row, or a request, refers to.
LEMMA WhoRecords ==
    ASSUME Typed, NEW h \in Handlers, StoreCall(h)
    PROVE  \/ /\ UNCHANGED dockerId /\ rows' \subseteq rows
              /\ \A g \in Handlers : seen'[g] = seen[g]
           \/ /\ pc[h] = "recordId" /\ kind[h] \in {"restart", "update"}
              /\ dockerId' = [dockerId EXCEPT ![target[h]] = h]
              /\ seen'[h].id = h /\ seen'[h].port = seen[h].port /\ seen'[h].up = seen[h].up
              /\ \A g \in Handlers \ {h} : seen'[g] = seen[g]
              /\ pc'[h] \in {"resources", "routeNew", "restart"}
              /\ UNCHANGED rows /\ target[h] \in rows
           \/ /\ pc[h] = "insertRow" /\ kind[h] = "create"
              /\ dockerId' = [dockerId EXCEPT ![target[h]] = target[h]]
              /\ \A g \in Handlers : seen'[g] = seen[g]
              /\ rows' = rows \cup {target[h]}
              /\ pc'[h] = "done"
<1> USE DEF others, rowVars, Goto
<1>0. /\ pc \in [Handlers -> Labels \cup Ended]
      /\ Awaits(kind[h], pc[h])
  BY DEF Typed, Shaped
<1>1. CASE RowWriteThrows(h) \/ RecordStatus(h) \/ RecordResources(h)
  BY <1>1 DEF RowWriteThrows, RecordStatus, RecordResources
<1>2. CASE RecordId(h)
  <2>1. seen' = [seen EXCEPT ![h].id = h]
    BY <1>2 DEF RecordId
  <2>2. seen \in [Handlers -> [id : Ids, port : Ports \cup {NoPort}, up : BOOLEAN]]
    BY DEF Typed, TypeOK
  <2>3. /\ seen'[h].id = h /\ seen'[h].port = seen[h].port /\ seen'[h].up = seen[h].up
        /\ \A g \in Handlers \ {h} : seen'[g] = seen[g]
    BY <2>1, <2>2
  <2> QED
    BY <1>0, <1>2, <2>3 DEF RecordId, Awaits
<1>3. CASE RecordRestarted(h) \/ WriteRoute(h)
  BY <1>3 DEF RecordRestarted, WriteRoute
<1>4. CASE DeleteRow(h) \/ CheckPort(h) \/ WritePort(h)
  BY <1>4 DEF DeleteRow, CheckPort, WritePort
<1>5. CASE ReleasePort(h) \/ WriteStatuses(h) \/ WriteProject(h)
  BY <1>5 DEF ReleasePort, WriteStatuses, WriteProject
<1>6. CASE InsertRow(h)
  BY <1>0, <1>6 DEF InsertRow, Awaits
<1> QED
  BY <1>1, <1>2, <1>3, <1>4, <1>5, <1>6 DEF StoreCall

\* Which write adds a row.
LEMMA WhoInserts ==
    ASSUME Typed, NEW h \in Handlers, StoreCall(h)
    PROVE  /\ rows' \subseteq rows \/ (pc[h] = "insertRow" /\ rows' = rows \cup {target[h]})
           /\ rows \ rows' # {} => rows' = rows \ {target[h]} /\ pc[h] = "deleteRow"
<1> USE DEF others, rowVars
<1>1. CASE RowWriteThrows(h) \/ RecordStatus(h) \/ RecordResources(h)
  BY <1>1 DEF RowWriteThrows, RecordStatus, RecordResources
<1>3. CASE RecordId(h) \/ RecordRestarted(h) \/ WriteRoute(h)
  BY <1>3 DEF RecordId, RecordRestarted, WriteRoute
<1>4. CASE DeleteRow(h) \/ CheckPort(h) \/ WritePort(h)
  BY <1>4 DEF DeleteRow, CheckPort, WritePort
<1>5. CASE ReleasePort(h) \/ WriteStatuses(h) \/ WriteProject(h)
  BY <1>5 DEF ReleasePort, WriteStatuses, WriteProject
<1>6. CASE InsertRow(h)
  BY <1>6 DEF InsertRow
<1> QED
  BY <1>1, <1>3, <1>4, <1>5, <1>6 DEF StoreCall

\* Rows and requests go on referring to containers of their own.
LEMMA OwnedStep ==
    ASSUME Typed, Owned, [Next]_<<vars, mode>>
    PROVE  Owned'
<1> USE ContainersAssumption DEF Owned, RowsReferToOwn, RequestsReferToOwn, ListsReferToOwn, OnlyRenewed
<1>t. TypeOK
  BY DEF Typed
<1>1. ASSUME UNCHANGED <<vars, mode>> PROVE Owned'
  BY <1>1 DEF vars, rowVars, dockerVars, requestVars, ContainerOf, Renewing
<1>2. ASSUME Crash /\ UNCHANGED mode PROVE Owned'
  BY <1>2 DEF Crash, others, rowVars, requestVars, ContainerOf, Renewing
<1>p. ASSUME Prune /\ UNCHANGED mode PROVE Owned'
  <2>1. \A g \in Handlers : engine'[g] # "none" => engine[g] # "none"
    BY <1>p DEF Prune, Ids
  <2> QED
    BY <1>p, <2>1 DEF Prune, others, rowVars, requestVars, ContainerOf, Renewing
<1>3. ASSUME NEW h \in Handlers, DockerCall(h) PROVE Owned'
  <2>1. UNCHANGED <<rowVars, requestVars, seen>> /\ Awaits(kind[h], pc[h])
    BY <1>3, DockerKeeps DEF Typed, Shaped
  <2>2. \A i, c : ContainerOf(i, c)' <=> ContainerOf(i, c)
    BY <2>1 DEF ContainerOf, Renewing, requestVars
  <2>3. \A g \in Handlers : todo'[g] \subseteq todo[g]
    <3>1. ASSUME StopOrStartNext(h) PROVE \A g \in Handlers : todo'[g] \subseteq todo[g]
      BY <3>1, <1>t DEF StopOrStartNext, TypeOK
    <3>2. StopOrStartNext(h) \/ UNCHANGED todo
      BY <1>3 DEF DockerCall, DockerStart, DockerStop, DockerRestart, Inspect, Teardown, Evict,
                  RemoveUnforced, CreateAnew, CreateNew
    <3> QED
      BY <3>1, <3>2
  <2>4. OnlyRenewed'
    <3> SUFFICES ASSUME NEW g \in Handlers, engine'[g] # "none" PROVE Renewing(g)
      BY <2>1 DEF Renewing, requestVars
    <3>1. CASE engine[g] # "none"
      BY <3>1
    <3>2. CASE engine[g] = "none"
      <4>1. pc[h] = "create" /\ g = h
        BY <1>3, <3>2, <1>t, WhatAppears DEF Ids, TypeOK
      <4> QED
        BY <2>1, <4>1 DEF Awaits, Renewing
    <3> QED
      BY <3>1, <3>2
  <2> QED
    BY <2>1, <2>2, <2>3, <2>4 DEF rowVars, requestVars
<1>4. ASSUME NEW h \in Handlers, StoreCall(h) PROVE Owned'
  <2>1. UNCHANGED <<dockerVars, requestVars, todo>>
    BY <1>4, StoreKeeps
  <2>2. \A i, c : ContainerOf(i, c)' <=> ContainerOf(i, c)
    BY <2>1 DEF ContainerOf, Renewing, requestVars
  <2>3. /\ \A c \in Containers : dockerId'[c] = dockerId[c] \/ ContainerOf(dockerId'[c], c)
        /\ \A g \in Handlers : seen'[g].id = seen[g].id \/ ContainerOf(seen'[g].id, target[g])
    <3>1. CASE UNCHANGED dockerId /\ \A g \in Handlers : seen'[g] = seen[g]
      BY <3>1
    <3>2. CASE /\ kind[h] \in {"restart", "update"}
               /\ dockerId' = [dockerId EXCEPT ![target[h]] = h]
               /\ seen'[h].id = h /\ \A g \in Handlers \ {h} : seen'[g] = seen[g]
      <4>1. ContainerOf(h, target[h])
        BY <3>2 DEF ContainerOf, Renewing
      <4> QED
        BY <3>2, <4>1, <1>t DEF TypeOK
    <3>3. CASE /\ dockerId' = [dockerId EXCEPT ![target[h]] = target[h]]
               /\ \A g \in Handlers : seen'[g] = seen[g]
      BY <3>3, <1>t DEF TypeOK, ContainerOf
    <3> QED
      BY <1>4, <3>1, <3>2, <3>3, WhoRecords
  <2> QED
    BY <2>1, <2>2, <2>3 DEF requestVars, dockerVars, Renewing
<1>5. ASSUME NEW h \in Handlers, NEW c \in Containers, NEW k \in OpKinds,
             BeginsOnRow(h, c, k) \/ BeginsOnProject(h, c, k) \/ (k = "create" /\ BeginsCreate(h, c))
      PROVE  Owned'
  <2>1. Begins(h, c, k)
    BY <1>5 DEF BeginsOnRow, BeginsOnProject, BeginsCreate
  <2>2. kind[h] = "none"
    BY <2>1 DEF Begins, MayBegin, Typed, Shaped, Awaits
  <2>3. \A g \in Handlers \ {h} : /\ kind'[g] = kind[g] /\ target'[g] = target[g]
                                  /\ seen'[g] = seen[g] /\ todo'[g] = todo[g]
    BY <2>1, <1>t DEF Begins, TypeOK
  <2>4. kind'[h] = k /\ target'[h] = c /\ UNCHANGED <<dockerId, engine>>
    BY <2>1, <1>t DEF Begins, TypeOK, rowVars, dockerVars
  <2>5. \A i, d : ContainerOf(i, d) => ContainerOf(i, d)'
    BY <2>2, <2>3 DEF ContainerOf, Renewing
  <2>6. RowsReferToOwn' /\ OnlyRenewed'
    BY <2>2, <2>3, <2>4, <2>5 DEF Renewing
  <2>7. RequestsReferToOwn'
    <3>1. k \in RowKinds => seen'[h].id = dockerId[c]
      BY <1>5 DEF BeginsOnRow, BeginsOnProject, RowKinds
    <3> QED
      BY <3>1, <2>3, <2>4, <2>5
  <2>8. ListsReferToOwn'
    <3>1. k \in {"suspend", "resume"} => todo'[h] \subseteq {dockerId[d] : d \in {d \in rows : ProjectOf[d] = ProjectOf[c]}}
      BY <1>5 DEF BeginsOnRow, BeginsOnProject, RowKinds, Suspended
    <3>2. k \in {"suspend", "resume"} =>
             \A i \in todo'[h] : \E d \in Containers : ContainerOf(i, d)' /\ ProjectOf[d] = ProjectOf[c]
      BY <3>1, <2>5, <1>t DEF TypeOK
    <3> QED
      BY <3>2, <2>3, <2>4, <2>5
  <2> QED
    BY <2>6, <2>7, <2>8
<1>6. "create" \in OpKinds \/ ~ \E h \in Handlers, c \in Containers : BeginsCreate(h, c)
  BY DEF BeginsCreate, Begins
<1>7. Owned'
  <2> HIDE DEF Owned
  <2> QED
    BY <1>1, <1>2, <1>p, <1>3, <1>4, <1>5, <1>6, StepsAre
<1> QED
  BY <1>7

\* Where calls lead, as far as a container of a row is about to be recorded.
LEMMA TowardsRecord ==
    ASSUME Typed, NEW h \in Handlers
    PROVE  /\ DockerCall(h) =>
                 /\ pc[h] \notin {"recordId", "insertRow"} /\ pc'[h] # "createNew"
                 /\ pc'[h] \in BeforeRecord => pc[h] \in BeforeRecord
                 /\ pc'[h] = "insertRow" => pc[h] = "createNew"
                 /\ pc'[h] = "recordId" =>
                       \/ pc[h] = "startNew"
                       \/ /\ pc[h] = "create" /\ NameBearers(target[h]) = {}
                          /\ engine' = [engine EXCEPT ![h] = "stopped"]
           /\ StoreCall(h) => /\ pc'[h] \notin BeforeRecord \cup {"createNew", "insertRow"}
                              /\ pc[h] = "recordId" => RecordId(h) \/ pc'[h] = "thrown"
<1> USE DEF Goto, BeforeRecord, SetEngine
<1>0. /\ pc \in [Handlers -> Labels \cup Ended]
      /\ Awaits(kind[h], pc[h])
  BY DEF Typed, Shaped
<1> DEFINE P == /\ pc[h] \notin {"recordId", "insertRow"} /\ pc'[h] # "createNew"
                /\ pc'[h] \in BeforeRecord => pc[h] \in BeforeRecord
                /\ pc'[h] = "insertRow" => pc[h] = "createNew"
                /\ pc'[h] = "recordId" =>
                       \/ pc[h] = "startNew"
                       \/ /\ pc[h] = "create" /\ NameBearers(target[h]) = {}
                          /\ engine' = [engine EXCEPT ![h] = "stopped"]
<1>1. DockerStart(h) \/ DockerStop(h) => P
  BY <1>0 DEF DockerStart, DockerStop
<1>2. DockerRestart(h) \/ Inspect(h) => P
  BY <1>0 DEF DockerRestart, Inspect
<1>3. Teardown(h) => P
  BY <1>0 DEF Teardown, Awaits
<1>4. Evict(h) \/ RemoveUnforced(h) => P
  BY <1>0 DEF Evict, RemoveUnforced
<1>5. CreateAnew(h) => P
  BY <1>0 DEF CreateAnew
<1>6. CreateNew(h) \/ StopOrStartNext(h) => P
  BY <1>0 DEF CreateNew, StopOrStartNext
<1>7. DockerCall(h) => P
  BY <1>1, <1>2, <1>3, <1>4, <1>5, <1>6 DEF DockerCall
<1> DEFINE Q == /\ pc'[h] \notin BeforeRecord \cup {"createNew", "insertRow"}
                /\ pc[h] = "recordId" => RecordId(h) \/ pc'[h] = "thrown"
<1>11. RowWriteThrows(h) \/ RecordStatus(h) \/ RecordResources(h) => Q
  BY <1>0 DEF RowWriteThrows, RecordStatus, RecordResources
<1>12. RecordId(h) => Q
  BY <1>0 DEF RecordId, Awaits
<1>13. RecordRestarted(h) \/ WriteRoute(h) => Q
  BY <1>0 DEF RecordRestarted, WriteRoute
<1>14. DeleteRow(h) \/ CheckPort(h) \/ WritePort(h) \/ InsertRow(h) => Q
  BY <1>0 DEF DeleteRow, CheckPort, WritePort, InsertRow
<1>15. ReleasePort(h) \/ WriteStatuses(h) \/ WriteProject(h) => Q
  BY <1>0 DEF ReleasePort, WriteStatuses, WriteProject
<1>16. StoreCall(h) => Q
  BY <1>11, <1>12, <1>13, <1>14, <1>15 DEF StoreCall
<1> QED
  BY <1>7, <1>16

\* A container created anew stays unknown until it is recorded, and a row that
\* is being created stays unknown until it is inserted.
LEMMA KnownStep ==
    ASSUME Typed, Owned, Known, [Next]_<<vars, mode>>
    PROVE  Known'
<1> USE ContainersAssumption DEF Known, NewIsUnknown, CreatesAlone
<1>t. TypeOK
  BY DEF Typed
<1>1. ASSUME UNCHANGED <<vars, mode>> PROVE Known'
  BY <1>1 DEF vars, rowVars, requestVars, Renewing
<1>2. ASSUME Crash /\ UNCHANGED mode PROVE Known'
  <2>1. \A g \in Handlers : pc'[g] = pc[g] \/ pc'[g] = "lost"
    BY <1>2 DEF Crash
  <2> QED
    BY <1>2, <2>1 DEF Crash, others, rowVars, requestVars, Renewing, BeforeRecord
<1>p. ASSUME Prune /\ UNCHANGED mode PROVE Known'
  BY <1>p DEF Prune, others, rowVars, requestVars, Renewing
<1>3. ASSUME NEW h \in Handlers, DockerCall(h) PROVE Known'
  <2>1. UNCHANGED <<rowVars, requestVars, seen>> /\ \A g \in Handlers \ {h} : pc'[g] = pc[g]
    BY <1>3, DockerKeeps
  <2> QED
    BY <1>3, <2>1, TowardsRecord DEF rowVars, requestVars, Renewing
<1>4. ASSUME NEW h \in Handlers, StoreCall(h) PROVE Known'
  <2>1. UNCHANGED <<requestVars>> /\ \A g \in Handlers \ {h} : pc'[g] = pc[g]
    BY <1>4, StoreKeeps
  <2>2. pc'[h] \notin BeforeRecord \cup {"createNew", "insertRow"}
    BY <1>4, TowardsRecord
  <2>3. \A c \in Containers : dockerId'[c] = dockerId[c] \/ dockerId'[c] = h \/ dockerId'[c] \in Containers
    BY <1>4, <1>t, WhoRecords DEF TypeOK
  <2>4. \A g \in Handlers : seen'[g].id = seen[g].id \/ seen'[g].id = h
    BY <1>4, <1>t, WhoRecords DEF TypeOK
  <2>5. NewIsUnknown'
    BY <2>1, <2>2, <2>3, <2>4 DEF requestVars, Renewing
  <2>6. rows' \subseteq rows \/ (pc[h] = "insertRow" /\ kind[h] = "create" /\ rows' = rows \cup {target[h]})
    BY <1>4, WhoInserts DEF Typed, Shaped, Awaits
  <2>7. CreatesAlone'
    BY <2>1, <2>2, <2>6 DEF requestVars
  <2> QED
    BY <2>5, <2>7
<1>5. ASSUME NEW h \in Handlers, NEW c \in Containers, NEW k \in OpKinds,
             BeginsOnRow(h, c, k) \/ BeginsOnProject(h, c, k) \/ (k = "create" /\ BeginsCreate(h, c))
      PROVE  Known'
  <2>1. Begins(h, c, k)
    BY <1>5 DEF BeginsOnRow, BeginsOnProject, BeginsCreate
  <2>2. kind[h] = "none" /\ k # "none"
    BY <2>1 DEF Begins, MayBegin, Typed, Shaped, Awaits, AllKinds
  <2>3. \A g \in Handlers \ {h} : /\ kind'[g] = kind[g] /\ target'[g] = target[g]
                                  /\ seen'[g] = seen[g] /\ pc'[g] = pc[g]
    BY <2>1, <1>t DEF Begins, TypeOK
  <2>4. kind'[h] = k /\ target'[h] = c /\ UNCHANGED <<dockerId, rows>>
    BY <2>1, <1>t DEF Begins, TypeOK, rowVars
  <2>5. NewIsUnknown'
    <3>1. \A d \in Containers : dockerId[d] # h
      BY <2>2 DEF Owned, RowsReferToOwn, ContainerOf, Renewing
    <3>2. \A g \in Handlers \ {h} : kind[g] \in RowKinds => seen[g].id # h
      BY <2>2, <1>t DEF Owned, RequestsReferToOwn, ContainerOf, Renewing, TypeOK
    <3>3. k \in RowKinds => seen'[h].id = dockerId[c]
      BY <1>5 DEF BeginsOnRow, BeginsOnProject, RowKinds
    <3> QED
      BY <3>1, <3>2, <3>3, <2>3, <2>4 DEF Renewing
  <2>6. CreatesAlone'
    <3>1. pc'[h] \in {"createNew", "insertRow"} => BeginsCreate(h, c)
      BY <1>5, FirstCallOf DEF BeginsOnRow, BeginsOnProject, BeginsCreate, Awaits, RowKinds, Firsts
    <3>2. BeginsCreate(h, c) => /\ c \notin rows
                                /\ \A g \in Handlers : kind[g] # "none" => target[g] # c
      BY DEF BeginsCreate
    <3>3. k \in RowKinds \cup {"create"} => BeginsCreate(h, c) \/ c \in rows
      BY <1>5 DEF BeginsOnRow, BeginsOnProject, RowKinds
    <3>4. \A g \in Handlers : pc[g] \in {"createNew", "insertRow"} => kind[g] # "none"
      BY DEF Typed, Shaped, Awaits
    <3>5. "none" \notin RowKinds \cup {"create"}
      BY DEF RowKinds, AllKinds
    <3>6. ASSUME pc'[h] \in {"createNew", "insertRow"}
          PROVE  /\ c \notin rows
                 /\ \A g \in Handlers \ {h} : kind[g] \in RowKinds \cup {"create"} => target[g] # c
      BY <3>1, <3>2, <3>5, <3>6
    <3>7. ASSUME NEW g \in Handlers \ {h}, pc[g] \in {"createNew", "insertRow"},
                 k \in RowKinds \cup {"create"}
          PROVE  target[g] # c
      BY <3>2, <3>3, <3>4, <3>7
    <3> QED
      BY <3>6, <3>7, <2>3, <2>4
  <2> QED
    BY <2>5, <2>6
<1>6. "create" \in OpKinds \/ ~ \E h \in Handlers, c \in Containers : BeginsCreate(h, c)
  BY DEF BeginsCreate, Begins
<1>7. Known'
  <2> HIDE DEF Known
  <2> QED
    BY <1>1, <1>2, <1>p, <1>3, <1>4, <1>5, <1>6, StepsAre
<1> QED
  BY <1>7

\* Once a row is an exception of ZombieRecreatable, it stays one.
LEMMA ExceptedKept ==
    ASSUME Typed, [Next]_<<vars, mode>>, NEW c, Excepted(c)
    PROVE  Excepted(c)'
<1>1. PICK h \in Handlers : \/ target[h] = c /\ pc[h] \in {"thrown", "lost"}
                            \/ kind[h] = "update" /\ NameOf[target[h]] = NameOf[c]
  BY DEF Excepted
<1>2. kind[h] # "none"
  BY <1>1 DEF Typed, Shaped, Awaits
<1>3. /\ kind'[h] = kind[h] /\ target'[h] = target[h]
      /\ pc[h] \in Ended => pc'[h] = pc[h]
  BY <1>2, RequestsKept
<1> QED
  BY <1>1, <1>3 DEF Excepted, Ended

Bearers == BearersKnown /\ RecordsOnly

\* A container created anew is recorded before anything else bears the name
\* of its row, and the handler that would record it is the only one to know.
LEMMA BearersStep ==
    ASSUME OverlapInv, [Next]_<<vars, mode>>
    PROVE  Bearers'
<1> USE ContainersAssumption DEF OverlapInv
<1>t. TypeOK
  BY DEF Typed
<1>e. \A c : Excepted(c) => Excepted(c)'
  BY ExceptedKept
<1>a. \A g \in Handlers : pc[g] = "recordId" => Renewing(g) /\ kind[g] \in RowKinds
  BY DEF Typed, Shaped, Awaits, Renewing, RowKinds, AllKinds
<1>1. ASSUME UNCHANGED <<vars, mode>> PROVE Bearers'
  BY <1>1 DEF vars, rowVars, requestVars, dockerVars, Bearers, BearersKnown, RecordsOnly, Excepted, OwnBearers
<1>2. ASSUME Crash /\ UNCHANGED mode PROVE Bearers'
  <2>1. \A c : OwnBearers(c)' = OwnBearers(c)
    BY <1>2 DEF Crash, others, requestVars, OwnBearers
  <2>2. \A g \in Handlers : pc[g] = "recordId" => pc'[g] = "lost"
    BY <1>2 DEF Crash, InFlight, Ended
  <2>3. \A g \in Handlers : pc'[g] # "recordId"
    BY <1>2 DEF Crash, InFlight, Ended
  <2>4. UNCHANGED <<rows, dockerId, target>>
    BY <1>2 DEF Crash, others, rowVars, requestVars
  <2>5. ASSUME NEW c \in rows, ~Excepted(c)' PROVE \A i \in OwnBearers(c) : dockerId[c] = i
    <3>1. \A i \in OwnBearers(c) : i \in Handlers => target[i] = c
      BY <1>t, <2>5 DEF OwnBearers, TypeOK
    <3>2. \A i \in OwnBearers(c) : i \in Handlers /\ pc[i] = "recordId" => Excepted(c)'
      BY <2>2, <2>4, <3>1 DEF Excepted
    <3> QED
      BY <3>2, <2>5, <1>e DEF BearersKnown
  <2> QED
    BY <2>1, <2>3, <2>4, <2>5 DEF Bearers, BearersKnown, RecordsOnly
<1>p. ASSUME Prune /\ UNCHANGED mode PROVE Bearers'
  <2>1. \A c : OwnBearers(c)' \subseteq OwnBearers(c)
    BY <1>p DEF Prune, others, requestVars, OwnBearers
  <2>2. UNCHANGED <<rows, dockerId, target, pc>>
    BY <1>p DEF Prune, others, rowVars, requestVars
  <2>3. \A g \in Handlers : pc[g] # "recordId"
    BY <1>p DEF Prune, Settled, InFlight, Ended
  <2> QED
    BY <2>1, <2>2, <2>3, <1>e DEF Bearers, BearersKnown, RecordsOnly
<1>3. ASSUME NEW h \in Handlers, DockerCall(h) PROVE Bearers'
  <2>1. UNCHANGED <<rows, dockerId, target, kind>> /\ \A g \in Handlers \ {h} : pc'[g] = pc[g]
    BY <1>3, DockerKeeps DEF rowVars, requestVars
  <2>2. pc[h] \notin {"recordId", "insertRow"}
    BY <1>3, TowardsRecord
  <2>3. kind[h] = "update" => Excepted(target[h])'
    BY <2>1 DEF Excepted
  <2>u. \A d : target[h] = d /\ kind[h] = "update" => Excepted(d)'
    BY <2>1 DEF Excepted
  <2>4. ASSUME NEW c \in Containers, NEW i \in OwnBearers(c)', i \notin OwnBearers(c)
        PROVE  \/ /\ i = h /\ target[h] = c /\ OwnBearers(c) = {}
                  /\ pc[h] = "create" /\ (pc'[h] = "recordId" \/ kind[h] = "update")
               \/ pc[h] = "createNew" /\ target[h] = c
    <3>1. i \in Ids /\ engine'[i] # "none" /\ engine[i] = "none"
      BY <2>1, <2>4 DEF OwnBearers
    <3>2. \/ /\ pc[h] = "create" /\ i = h /\ NameBearers(target[h]) = {}
             /\ pc'[h] = IF kind[h] = "update" /\ seen[h].up THEN "startNew" ELSE "recordId"
          \/ pc[h] = "createNew" /\ i = target[h]
      BY <1>3, <3>1, WhatAppears
    <3>3. i \in Handlers => target[i] = c
      BY <2>1, <2>4 DEF OwnBearers
    <3>4. i \notin Handlers => i = c
      BY <2>1, <2>4 DEF OwnBearers
    <3>5. target[h] \notin Handlers
      BY <1>t DEF TypeOK
    <3>6. NameBearers(target[h]) = {} => OwnBearers(target[h]) = {}
      BY <1>t, OwnAmongBearers DEF TypeOK
    <3> QED
      BY <3>2, <3>3, <3>4, <3>5, <3>6
  <2>5. BearersKnown'
    <3> SUFFICES ASSUME NEW c \in rows, ~Excepted(c)', NEW i \in OwnBearers(c)'
                 PROVE  dockerId[c] = i \/ (i \in Handlers /\ pc'[i] = "recordId")
      BY <2>1 DEF BearersKnown
    <3>1. CASE i \in OwnBearers(c)
      BY <3>1, <1>e, <2>1, <2>2 DEF BearersKnown
    <3>2. CASE i \notin OwnBearers(c)
      <4>1. c \in Containers
        BY <1>t DEF TypeOK
      <4>2. ~(pc[h] = "createNew" /\ target[h] = c)
        BY DEF Known, CreatesAlone
      <4> QED
        BY <3>2, <4>1, <4>2, <2>u, <2>4
    <3> QED
      BY <3>1, <3>2
  <2>6. RecordsOnly'
    <3> SUFFICES ASSUME NEW g \in Handlers, pc'[g] = "recordId", ~Excepted(target[g])'
                 PROVE  OwnBearers(target[g])' = {g}
      BY <2>1 DEF RecordsOnly
    <3>c. target[g] \in Containers /\ target[g] \notin Handlers /\ g \in Ids
      BY <1>t DEF TypeOK, Ids
    <3>1. CASE g = h
      <4>1. kind[h] # "update"
        BY <3>1, <2>3
      <4>2. pc[h] # "startNew"
        BY <4>1 DEF Typed, Shaped, Awaits
      <4>3. OwnBearers(target[h]) = {} /\ engine' = [engine EXCEPT ![h] = "stopped"]
        BY <1>3, <1>t, <3>1, <4>2, TowardsRecord, OwnAmongBearers DEF TypeOK
      <4>4. engine'[h] = "stopped" /\ \A i \in Ids \ {h} : engine'[i] = engine[i]
        BY <4>3, <1>t DEF TypeOK, Ids
      <4> QED
        BY <4>3, <4>4, <2>1, <3>1, <3>c DEF OwnBearers
    <3>2. CASE g # h
      <4>1. pc[g] = "recordId" /\ Renewing(g) /\ kind[g] \in RowKinds
        BY <3>2, <2>1, <1>a
      <4>2. OwnBearers(target[g]) = {g}
        BY <4>1, <1>e, <2>1 DEF RecordsOnly
      <4>3. OwnBearers(target[g])' \subseteq {g}
        <5>1. PICK c \in Containers : c = target[g]
          BY <3>c
        <5>2. ~(pc[h] = "createNew" /\ target[h] = c)
          BY <5>1, <4>1, <3>2 DEF Known, CreatesAlone
        <5>3. OwnBearers(c) = {g}
          BY <5>1, <4>2
        <5>4. OwnBearers(c)' \subseteq {g}
          BY <5>2, <5>3, <2>4
        <5> QED
          BY <5>1, <5>4, <2>1 DEF OwnBearers
      <4>4. engine'[g] # "none"
        <5> SUFFICES ASSUME engine'[g] = "none" PROVE FALSE
          OBVIOUS
        <5>1. engine[g] # "none"
          BY <4>2 DEF OwnBearers
        <5>2. \/ pc[h] \in {"teardown", "unforced"} /\ g = seen[h].id
              \/ pc[h] = "evict" /\ g \in NameBearers(target[h])
          BY <1>3, <5>1, <3>c, WhatDisappears
        <5>3. CASE pc[h] \in {"teardown", "unforced"} /\ g = seen[h].id
          <6>1. kind[h] \in RowKinds
            BY <5>3 DEF Typed, Shaped, Awaits, RowKinds, AllKinds
          <6> QED
            BY <5>3, <6>1, <4>1 DEF Known, NewIsUnknown, BeforeRecord
        <5>4. CASE pc[h] = "evict" /\ g \in NameBearers(target[h])
          <6>1. NameOf[target[g]] = NameOf[target[h]]
            BY <5>4, <1>t DEF NameBearers, DockerName, TypeOK
          <6>2. kind[h] = "update"
            BY <5>4 DEF Typed, Shaped, Awaits
          <6> QED
            BY <6>1, <6>2, <2>1 DEF Excepted
        <5> QED
          BY <5>2, <5>3, <5>4
      <4> QED
        BY <4>3, <4>4, <2>1, <3>c DEF OwnBearers
    <3> QED
      BY <3>1, <3>2
  <2> QED
    BY <2>5, <2>6 DEF Bearers
<1>4. ASSUME NEW h \in Handlers, StoreCall(h) PROVE Bearers'
  <2>1. UNCHANGED <<engine, target, kind>> /\ \A g \in Handlers \ {h} : pc'[g] = pc[g]
    BY <1>4, StoreKeeps DEF dockerVars, requestVars
  <2>2. \A c : OwnBearers(c)' = OwnBearers(c)
    BY <2>1 DEF OwnBearers
  <2>3. RecordsOnly'
    BY <1>4, <1>e, <2>1, <2>2, TowardsRecord DEF RecordsOnly, BeforeRecord
  <2>4. ASSUME NEW c \in rows, ~Excepted(c)', NEW i \in OwnBearers(c)
        PROVE  dockerId'[c] = i \/ (i \in Handlers /\ pc'[i] = "recordId")
    <3>1. ~Excepted(c) /\ (dockerId[c] = i \/ (i \in Handlers /\ pc[i] = "recordId"))
      BY <2>4, <1>e DEF BearersKnown
    <3>2. c \in Containers /\ (i \in Handlers => target[i] = c)
      BY <1>t DEF OwnBearers, TypeOK
    <3>3. CASE pc[h] = "recordId" /\ target[h] = c
      <4>1. OwnBearers(c) = {h}
        BY <3>1, <3>3 DEF RecordsOnly
      <4>2. pc'[h] # "thrown"
        BY <2>1, <2>4, <3>3 DEF Excepted
      <4>3. RecordId(h)
        BY <1>4, <3>3, <4>2, TowardsRecord
      <4>4. dockerId'[c] = h
        BY <4>3, <3>3, <3>2, <1>t DEF RecordId, TypeOK
      <4> QED
        BY <4>1, <4>4
    <3>4. CASE ~(pc[h] = "recordId" /\ target[h] = c)
      <4>1. dockerId'[c] = dockerId[c]
        <5>1. pc[h] = "insertRow" => target[h] # c
          BY DEF Known, CreatesAlone
        <5> QED
          BY <1>4, <1>t, <3>2, <3>4, <5>1, WhoRecords DEF TypeOK
      <4>2. i \in Handlers /\ pc[i] = "recordId" => pc'[i] = "recordId"
        BY <3>2, <3>4, <2>1
      <4> QED
        BY <3>1, <4>1, <4>2
    <3> QED
      BY <3>3, <3>4
  <2>5. ASSUME NEW c \in rows', c \notin rows, NEW i \in OwnBearers(c)
        PROVE  dockerId'[c] = i
    <3>1. pc[h] = "insertRow" /\ c = target[h]
      BY <1>4, <2>5, WhoInserts
    <3>2. kind[h] = "create" /\ c \in Containers
      BY <3>1, <1>t DEF Typed, Shaped, Awaits, TypeOK
    <3>3. i = c
      <4> SUFFICES ASSUME i \in Handlers, target[i] = c, engine[i] # "none" PROVE FALSE
        BY DEF OwnBearers
      <4>1. kind[i] \in RowKinds /\ i # h
        BY <3>2 DEF Owned, OnlyRenewed, Renewing, RowKinds, AllKinds
      <4> QED
        BY <3>1, <4>1 DEF Known, CreatesAlone
    <3>4. dockerId'[c] = c
      BY <1>4, <2>5, <3>1, <3>2, <1>t, WhoRecords DEF TypeOK
    <3> QED
      BY <3>3, <3>4
  <2>6. BearersKnown'
    BY <2>2, <2>4, <2>5 DEF BearersKnown
  <2> QED
    BY <2>3, <2>6 DEF Bearers
<1>5. ASSUME NEW h \in Handlers, NEW c \in Containers, NEW k \in OpKinds, Begins(h, c, k)
      PROVE  Bearers'
  <2>2. kind[h] = "none" /\ pc'[h] # "recordId"
    BY <1>5 DEF Begins, MayBegin, Typed, Shaped, Awaits, Firsts
  <2>3. \A g \in Handlers \ {h} : target'[g] = target[g] /\ pc'[g] = pc[g]
    BY <1>5, <1>t DEF Begins, TypeOK
  <2>4. UNCHANGED <<dockerId, rows, engine>>
    BY <1>5 DEF Begins, rowVars, dockerVars
  <2>5. engine[h] = "none"
    BY <2>2 DEF Owned, OnlyRenewed, Renewing
  <2>6. \A d \in Containers : OwnBearers(d)' = OwnBearers(d)
    BY <2>3, <2>4, <2>5 DEF OwnBearers
  <2>7. \A d \in Containers : h \notin OwnBearers(d)
    BY <2>5 DEF OwnBearers
  <2>8. BearersKnown'
    BY <1>e, <1>t, <2>3, <2>4, <2>6, <2>7 DEF BearersKnown, TypeOK
  <2>9. RecordsOnly'
    BY <1>e, <1>t, <2>2, <2>3, <2>6 DEF RecordsOnly, TypeOK
  <2> QED
    BY <2>8, <2>9 DEF Bearers
<1>7. Bearers'
  <2> HIDE DEF Bearers
  <2> QED
    BY <1>1, <1>2, <1>p, <1>3, <1>4, <1>5, StepsAre DEF BeginsCreate, BeginsOnRow, BeginsOnProject, Begins, OverlapInv
<1> QED
  BY <1>7

\* The overlap invariant holds at first.
LEMMA InitOverlap == Init => OverlapInv
<1> SUFFICES ASSUME Init PROVE OverlapInv
  OBVIOUS
<1>1. Typed
  BY InitTyped
<1>2. Owned /\ Known
  BY ContainersAssumption DEF Init, Owned, RowsReferToOwn, RequestsReferToOwn, ListsReferToOwn, OnlyRenewed,
     Known, NewIsUnknown, CreatesAlone, ContainerOf, Renewing, RowKinds, AllKinds, Ids
<1>3. BearersKnown /\ RecordsOnly
  BY ContainersAssumption DEF Init, BearersKnown, RecordsOnly, OwnBearers, Ids
<1> QED
  BY <1>1, <1>2, <1>3 DEF OverlapInv

\* Every step keeps the overlap invariant.
LEMMA OverlapStep == OverlapInv /\ [Next]_<<vars, mode>> => OverlapInv'
  BY TypeStep, OwnedStep, KnownStep, BearersStep DEF OverlapInv, Bearers

\* However requests overlap and whatever fails, requests work on containers of
\* their own row or project, and a container of a row that bears its name is
\* the one it refers to or will: the invariant that
\* MissingIsRecreatable and StoppedByOwnProject follow from.
THEOREM OverlapInvariant == Spec => []OverlapInv
  BY InitOverlap, OverlapStep, PTL DEF Spec

\* A row whose container is missing is never kept from being created anew by
\* a container of its own, however requests overlap and whatever call of
\* restart, remove or updateResources fails: Docker's rule of one container per
\* name is in the way only when another row of that name has taken it, or
\* after the requests that ZombieRecreatable names.  Names are not distinct.
THEOREM MissingIsRecreatable == Spec => []ZombieRecreatable
<1>1. OverlapInv => ZombieRecreatable
  <2> SUFFICES ASSUME OverlapInv, Settled, NEW c \in rows, engine[dockerId[c]] = "none", ~Excepted(c),
                      NEW i \in NameBearers(c), RowOf(i) = c
               PROVE  FALSE
    BY DEF ZombieRecreatable, Excepted
  <2>0. i \in OwnBearers(c)
    BY OwnAmongBearers DEF OverlapInv, Typed, TypeOK
  <2>1. dockerId[c] = i \/ (i \in Handlers /\ pc[i] = "recordId")
    BY <2>0 DEF OverlapInv, BearersKnown
  <2>2. engine[i] # "none"
    BY DEF NameBearers
  <2>3. \A g \in Handlers : pc[g] # "recordId"
    BY DEF Settled, InFlight, Ended
  <2> QED
    BY <2>1, <2>2, <2>3
<1> QED
  BY <1>1, OverlapInvariant, PTL

\* A container of a row goes down by the hand of a request for its own project:
\* handlers hold ids across awaits, but never ids of another project.  The
\* only call that goes by the name instead is the one Evicts names.
LEMMA GoesDownByOwn ==
    ASSUME OverlapInv, [Next]_<<vars, mode>>, NEW c \in rows,
           engine[dockerId[c]] = "running", engine'[dockerId[c]] # "running"
    PROVE  \E h \in Handlers : \/ InFlight(h) /\ ProjectOf[target[h]] = ProjectOf[c]
                               \/ Evicts(h, dockerId[c])
<1> USE DEF OverlapInv
<1>t. TypeOK
  BY DEF Typed
<1>0. c \in Containers /\ dockerId[c] \in Ids /\ ContainerOf(dockerId[c], c)
  BY <1>t DEF TypeOK, Owned, RowsReferToOwn
<1> DEFINE P == \E h \in Handlers : \/ InFlight(h) /\ ProjectOf[target[h]] = ProjectOf[c]
                                    \/ Evicts(h, dockerId[c])
<1>1. ASSUME UNCHANGED engine PROVE P
  BY <1>1
<1>2. ASSUME NEW h \in Handlers, DockerCall(h) PROVE P
  <2>1. InFlight(h)
    BY <1>2, DockerKeeps DEF InFlight
  <2>2. target[h] \in Containers /\ Awaits(kind[h], pc[h])
    BY <1>t DEF TypeOK, Typed, Shaped
  <2> DEFINE i == dockerId[c]
  <2>3. CASE pc[h] \in {"stop", "restart", "teardown", "unforced"} /\ i = seen[h].id
    <3>1. kind[h] \in RowKinds
      BY <2>2, <2>3 DEF Awaits, RowKinds, AllKinds
    <3>2. target[h] = c
      BY <3>1, <2>2, <2>3, <1>0, OneOwner DEF Owned, RequestsReferToOwn
    <3> QED
      BY <2>1, <3>2
  <2>4. CASE pc[h] = "evict" /\ i \in NameBearers(target[h])
    BY <2>4 DEF Evicts
  <2>5. CASE pc[h] = "create" /\ i = h
    BY <2>5, <2>2, <1>0 DEF Known, NewIsUnknown, BeforeRecord, Awaits, Renewing
  <2>6. CASE pc[h] = "createNew" /\ i = target[h]
    <3>1. target[h] = c
      BY <2>6, <2>2, <1>0, ContainersAssumption DEF ContainerOf
    <3> QED
      BY <2>1, <3>1
  <2>7. CASE pc[h] \in {"stopAll", "startAll"} /\ i \in todo[h]
    <3>1. kind[h] \in {"suspend", "resume"}
      BY <2>2, <2>7 DEF Awaits
    <3>2. PICK d \in Containers : ContainerOf(i, d) /\ ProjectOf[d] = ProjectOf[target[h]]
      BY <3>1, <2>7 DEF Owned, ListsReferToOwn
    <3>3. d = c
      BY <3>2, <1>0, OneOwner
    <3> QED
      BY <2>1, <3>2, <3>3
  <2> QED
    BY <1>0, <1>2, <2>3, <2>4, <2>5, <2>6, <2>7, WhatGoesDown
<1>3. P
  <2> HIDE DEF P
  <2>1. UNCHANGED <<vars, mode>> \/ Crash => UNCHANGED engine
    BY DEF vars, dockerVars, Crash
  <2>2. \A h \in Handlers : StoreCall(h) => UNCHANGED engine
    BY StoreKeeps DEF dockerVars
  <2>3. \A h \in Handlers, d \in Containers : \A k : Begins(h, d, k) => UNCHANGED engine
    BY DEF Begins, dockerVars
  <2>4. Prune => P
    BY <1>0 DEF Prune
  <2> QED
    BY <1>1, <1>2, <2>1, <2>2, <2>3, <2>4, StepsAre DEF BeginsCreate, BeginsOnRow, BeginsOnProject
<1> QED
  BY <1>3

\* Whatever fails and however requests overlap, a running container stops or
\* disappears only while a request for its own project is in flight, or by the
\* call of updateResources that removes whatever bears the name of its row.
THEOREM StoppedByOwnProject == Spec => StopsOnlyOwnProject
<1>1. OverlapInv /\ [Next]_<<vars, mode>> =>
        [\A c \in rows :
          engine[dockerId[c]] = "running" /\ engine'[dockerId[c]] # "running" =>
             \E h \in Handlers : \/ InFlight(h) /\ ProjectOf[target[h]] = ProjectOf[c]
                                 \/ Evicts(h, dockerId[c])]_vars
  BY GoesDownByOwn
<1> QED
  BY <1>1, OverlapInvariant, PTL DEF Spec, StopsOnlyOwnProject

-----------------------------------------------------------------------------
(***************************************************************************)
(* One request at a time: what it has read still holds when it writes.     *)
(***************************************************************************)

OneRequest == \A g, h \in Handlers : InFlight(g) /\ InFlight(h) => g = h

\* What request h has read of its row.
ReadHolds(h) ==
    /\ target[h] \in rows
    /\ seen[h].id = dockerId[target[h]]
    /\ kind[h] = "restart" => seen[h].port = hostPort[target[h]]
    /\ kind[h] = "update" /\ seen[h].up => status[target[h]] = "RUNNING"

RowAsSeen == \A h \in Handlers : InFlight(h) /\ kind[h] \in RowKinds => ReadHolds(h)

\* What restart h has achieved.
Achieved(h) ==
    /\ pc[h] = "recordId" => bind[h] = seen[h].port
    /\ pc[h] \in {"routeNew", "restart", "recordRestarted", "route"} =>
          bind[seen[h].id] = seen[h].port
    /\ pc[h] \in {"recordRestarted", "route"} => engine[seen[h].id] = "running"
    /\ pc[h] = "route" => wanted[h] = seen[h].port

RestartProgress == \A h \in Handlers : kind[h] = "restart" => Achieved(h)

\* A port that a create named.
NamedByCreate(q) == \E h \in Handlers : kind[h] = "create" /\ wanted[h] = q

\* Two rows share a port only when a create named it; allocatePort asks for a
\* port, and has checked it before it writes.
PortsShared ==
    /\ \A c, d \in rows : c # d /\ hostPort[c] # NoPort /\ hostPort[c] = hostPort[d]
          => NamedByCreate(hostPort[c])
    /\ \A h \in Handlers : kind[h] = "allocatePort" => wanted[h] # NoPort
    /\ \A h \in Handlers : pc[h] = "writePort" =>
          \A d \in rows \ {target[h]} : hostPort[d] = wanted[h] => NamedByCreate(wanted[h])

SerialFacts == OneRequest /\ RowAsSeen /\ RestartProgress /\ PortsShared

\* Nobody else is in flight while h makes a call; only h goes on.
LEMMA OnlyCaller ==
    ASSUME Typed, OneRequest, NEW h \in Handlers, DockerCall(h) \/ StoreCall(h)
    PROVE  /\ InFlight(h) /\ Awaits(kind[h], pc[h])
           /\ \A g \in Handlers \ {h} : ~InFlight(g) /\ ~InFlight(g)' /\ pc'[g] = pc[g]
           /\ OneRequest'
<1>1. InFlight(h) /\ \A g \in Handlers \ {h} : pc'[g] = pc[g]
  BY DockerKeeps, StoreKeeps DEF InFlight
<1>2. \A g \in Handlers \ {h} : ~InFlight(g) /\ ~InFlight(g)'
  BY <1>1 DEF InFlight, OneRequest
<1>3. Awaits(kind[h], pc[h])
  BY DEF Typed, Shaped
<1> QED
  BY <1>1, <1>2, <1>3 DEF OneRequest

\* A write after which its request goes on leaves what it has read as it was.
LEMMA StoreReads ==
    ASSUME Typed, NEW h \in Handlers, StoreCall(h), InFlight(h)', kind[h] \in RowKinds, ReadHolds(h)
    PROVE  ReadHolds(h)'
<1> USE DEF Goto, ReadHolds, others, rowVars, requestVars
<1>t. TypeOK /\ pc \in [Handlers -> Labels \cup Ended] /\ Awaits(kind[h], pc[h])
  BY DEF Typed, Shaped
<1>1. ASSUME pc'[h] \in {"done", "failed", "thrown"} PROVE FALSE
  BY <1>1 DEF InFlight, Ended
<1>2. CASE RowWriteThrows(h) \/ RecordStatus(h) \/ RecordResources(h) \/ DeleteRow(h) \/ InsertRow(h)
           \/ ReleasePort(h) \/ WriteProject(h)
  BY <1>1, <1>2, <1>t DEF RowWriteThrows, RecordStatus, RecordResources, DeleteRow, InsertRow,
                          ReleasePort, WriteProject
<1>3. CASE RecordId(h)
  <2>1. dockerId'[target[h]] = h /\ seen'[h].id = h /\ seen'[h].port = seen[h].port /\ seen'[h].up = seen[h].up
    <3>1. dockerId' = [dockerId EXCEPT ![target[h]] = h] /\ seen' = [seen EXCEPT ![h].id = h]
      BY <1>3 DEF RecordId
    <3> QED
      BY <3>1, <1>t DEF TypeOK
  <2> QED
    BY <2>1, <1>3 DEF RecordId
<1>4. CASE RecordRestarted(h)
  BY <1>4, <1>t DEF RecordRestarted, Awaits
<1>5. CASE WriteRoute(h) \/ CheckPort(h)
  BY <1>5, <1>t DEF WriteRoute, CheckPort
<1>6. CASE WritePort(h)
  BY <1>6, <1>t DEF WritePort, Awaits
<1>7. CASE WriteStatuses(h)
  BY <1>7, <1>t DEF WriteStatuses, Awaits, RowKinds
<1> QED
  BY <1>2, <1>3, <1>4, <1>5, <1>6, <1>7 DEF StoreCall

\* The calls of a restart: the container ends up on the port that was read.
LEMMA DockerAchieves ==
    ASSUME Typed, NEW h \in Handlers, DockerCall(h), kind[h] = "restart", Achieved(h)
    PROVE  Achieved(h)'
<1> USE DEF Goto, others, requestVars, SetEngine, Achieved
<1>t. /\ TypeOK /\ pc \in [Handlers -> Labels \cup Ended] /\ Awaits(kind[h], pc[h])
      /\ h \in Ids /\ seen[h].id \in Ids
  BY DEF Typed, Shaped, Ids, TypeOK
<1>1. CASE DockerStart(h) \/ DockerStop(h) \/ Evict(h) \/ RemoveUnforced(h) \/ CreateNew(h) \/ StopOrStartNext(h)
  BY <1>1, <1>t DEF DockerStart, DockerStop, Evict, RemoveUnforced, CreateNew, StopOrStartNext, Awaits
<1>2. CASE DockerRestart(h)
  <2>1. \/ pc'[h] = "recordRestarted" /\ engine' = [engine EXCEPT ![seen[h].id] = "running"]
        \/ pc'[h] = "failed"
    BY <1>2, <1>t DEF DockerRestart
  <2>2. UNCHANGED <<seen, bind, wanted>> /\ pc[h] = "restart"
    BY <1>2 DEF DockerRestart
  <2> QED
    BY <2>1, <2>2, <1>t DEF TypeOK
<1>3. CASE Inspect(h)
  BY <1>3, <1>t DEF Inspect, TypeOK
<1>4. CASE Teardown(h)
  BY <1>4, <1>t DEF Teardown, TypeOK
<1>5. CASE CreateAnew(h)
  BY <1>5, <1>t DEF CreateAnew, TypeOK
<1> QED
  BY <1>1, <1>2, <1>3, <1>4, <1>5 DEF DockerCall

\* The writes of a restart: the row is pointed at the container whose port was
\* checked, and the route at the port that the row has.
LEMMA StoreAchieves ==
    ASSUME Typed, NEW h \in Handlers, StoreCall(h), kind[h] = "restart", Achieved(h), ReadHolds(h)
    PROVE  Achieved(h)'
<1> USE DEF Goto, others, requestVars, dockerVars, Achieved, RowWrites
<1>t. /\ TypeOK /\ pc \in [Handlers -> Labels \cup Ended] /\ Awaits(kind[h], pc[h])
      /\ h \in Ids /\ seen[h].id \in Ids
  BY DEF Typed, Shaped, Ids, TypeOK
<1>1. CASE RowWriteThrows(h) \/ RecordStatus(h) \/ RecordResources(h) \/ DeleteRow(h) \/ InsertRow(h)
           \/ ReleasePort(h) \/ WriteProject(h)
  BY <1>1, <1>t DEF RowWriteThrows, RecordStatus, RecordResources, DeleteRow, InsertRow, ReleasePort, WriteProject
<1>2. CASE CheckPort(h) \/ WritePort(h) \/ WriteStatuses(h)
  BY <1>2, <1>t DEF CheckPort, WritePort, WriteStatuses, Awaits
<1>3. CASE RecordId(h)
  <2>1. seen'[h].id = h /\ seen'[h].port = seen[h].port
    <3>1. seen' = [seen EXCEPT ![h].id = h]
      BY <1>3 DEF RecordId
    <3> QED
      BY <3>1, <1>t DEF TypeOK
  <2> QED
    BY <2>1, <1>3, <1>t DEF RecordId
<1>4. CASE RecordRestarted(h)
  BY <1>4, <1>t DEF RecordRestarted, TypeOK, ReadHolds
<1>5. CASE WriteRoute(h)
  BY <1>5, <1>t DEF WriteRoute
<1> QED
  BY <1>1, <1>2, <1>3, <1>4, <1>5 DEF StoreCall

\* The writes that give a row a port.
LEMMA StorePorts ==
    ASSUME Typed, NEW h \in Handlers, StoreCall(h)
    PROVE  /\ \A c \in rows' : \/ c \in rows /\ hostPort'[c] = hostPort[c]
                               \/ c = target[h] /\ hostPort'[c] = NoPort
                               \/ /\ c = target[h] /\ hostPort'[c] = wanted[h]
                                  /\ \/ pc[h] = "writePort"
                                     \/ kind[h] = "create"
           /\ kind[h] \in {"create", "allocatePort"} => wanted'[h] = wanted[h]
           /\ pc'[h] = "writePort" =>
                 /\ UNCHANGED <<rows, hostPort>> /\ kind[h] = "allocatePort"
                 /\ LET users == {c \in rows : hostPort[c] = wanted[h]}
                    IN  users \subseteq {target[h]} \/ target[h] \in users
<1> USE DEF Goto, others, requestVars, rowVars, RowWrites
<1>t. /\ TypeOK /\ pc \in [Handlers -> Labels \cup Ended] /\ Awaits(kind[h], pc[h])
      /\ rows \subseteq Containers
  BY DEF Typed, Shaped, TypeOK
<1>1. CASE RowWriteThrows(h) \/ RecordStatus(h) \/ RecordResources(h) \/ DeleteRow(h) \/ WriteProject(h)
  BY <1>1, <1>t DEF RowWriteThrows, RecordStatus, RecordResources, DeleteRow, WriteProject
<1>2. CASE RecordId(h) \/ RecordRestarted(h)
  BY <1>2, <1>t DEF RecordId, RecordRestarted, Awaits
<1>3. CASE WriteRoute(h) \/ WriteStatuses(h)
  BY <1>3, <1>t DEF WriteRoute, WriteStatuses
<1>4. CASE CheckPort(h)
  BY <1>4, <1>t DEF CheckPort, Awaits
<1>5. CASE WritePort(h) \/ ReleasePort(h)
  BY <1>5, <1>t DEF WritePort, ReleasePort, TypeOK
<1>6. CASE InsertRow(h)
  BY <1>6, <1>t DEF InsertRow, TypeOK, Awaits
<1> QED
  BY <1>1, <1>2, <1>3, <1>4, <1>5, <1>6 DEF StoreCall

\* Every step keeps the facts about requests that come one at a time.
LEMMA SerialStep ==
    ASSUME Typed, ~mode.overlap, SerialFacts, [Next]_<<vars, mode>>
    PROVE  SerialFacts'
<1> USE ContainersAssumption DEF SerialFacts
<1>t. TypeOK
  BY DEF Typed
<1>1. ASSUME UNCHANGED <<vars, mode>> PROVE SerialFacts'
  BY <1>1 DEF vars, rowVars, dockerVars, requestVars, OneRequest, RowAsSeen, ReadHolds, RestartProgress,
              Achieved, PortsShared, NamedByCreate, InFlight
<1>2. ASSUME Crash /\ UNCHANGED mode PROVE SerialFacts'
  <2>1. \A g \in Handlers : ~InFlight(g)' /\ pc'[g] \in Ended \cup {"idle"}
    BY <1>2 DEF Crash, InFlight, Ended
  <2>2. RestartProgress'
    BY <2>1 DEF RestartProgress, Achieved, Ended
  <2>3. PortsShared'
    BY <2>1, <1>2 DEF Crash, PortsShared, NamedByCreate, others, rowVars, requestVars, Ended
  <2> QED
    BY <2>1, <2>2, <2>3 DEF OneRequest, RowAsSeen
<1>p. ASSUME Prune /\ UNCHANGED mode PROVE SerialFacts'
  <2>1. UNCHANGED <<rowVars, requestVars, seen, wanted, bind, pc>> /\ Settled
    BY <1>p DEF Prune, others
  <2>2. \A g \in Handlers : ~InFlight(g)' /\ pc'[g] \in Ended \cup {"idle"}
    BY <2>1 DEF Settled, InFlight
  <2>3. RestartProgress'
    BY <2>2 DEF RestartProgress, Achieved, Ended
  <2>4. PortsShared'
    BY <2>1 DEF PortsShared, NamedByCreate, rowVars, requestVars
  <2> QED
    BY <2>2, <2>3, <2>4 DEF OneRequest, RowAsSeen
<1>3. ASSUME NEW h \in Handlers, DockerCall(h) PROVE SerialFacts'
  <2>1. /\ InFlight(h) /\ Awaits(kind[h], pc[h])
        /\ \A g \in Handlers \ {h} : ~InFlight(g) /\ ~InFlight(g)' /\ pc'[g] = pc[g]
        /\ OneRequest'
    BY <1>3, OnlyCaller
  <2>2. UNCHANGED <<rowVars, requestVars, seen, wanted>>
    BY <1>3, DockerKeeps
  <2>3. RowAsSeen'
    BY <2>1, <2>2 DEF RowAsSeen, ReadHolds, rowVars, requestVars
  <2>4. RestartProgress'
    <3>1. \A g \in Handlers \ {h} : Achieved(g)'
      BY <2>1 DEF Achieved, InFlight, Ended
    <3>2. kind[h] = "restart" => Achieved(h)'
      BY <1>3, DockerAchieves DEF RestartProgress
    <3> QED
      BY <3>1, <3>2, <2>2 DEF RestartProgress, requestVars
  <2>5. pc'[h] # "writePort"
    BY <1>3 DEF DockerCall, DockerStart, DockerStop, DockerRestart, Inspect, Teardown, Evict, RemoveUnforced,
                CreateAnew, CreateNew, StopOrStartNext, Goto, Typed, Shaped, Awaits
  <2>6. PortsShared'
    BY <2>1, <2>2, <2>5 DEF PortsShared, NamedByCreate, rowVars, requestVars
  <2> QED
    BY <2>1, <2>3, <2>4, <2>6
<1>4. ASSUME NEW h \in Handlers, StoreCall(h) PROVE SerialFacts'
  <2>1. /\ InFlight(h) /\ Awaits(kind[h], pc[h])
        /\ \A g \in Handlers \ {h} : ~InFlight(g) /\ ~InFlight(g)' /\ pc'[g] = pc[g]
        /\ OneRequest'
    BY <1>4, OnlyCaller
  <2>2. UNCHANGED <<dockerVars, requestVars>> /\ \A g \in Handlers \ {h} : seen'[g] = seen[g] /\ wanted'[g] = wanted[g]
    BY <1>4, StoreKeeps
  <2>3. RowAsSeen'
    BY <1>4, <2>1, <2>2, StoreReads DEF RowAsSeen, requestVars
  <2>4. RestartProgress'
    <3>1. \A g \in Handlers \ {h} : Achieved(g)'
      BY <2>1 DEF Achieved, InFlight, Ended
    <3>2. kind[h] = "restart" => Achieved(h)'
      BY <1>4, <2>1, StoreAchieves DEF RestartProgress, RowAsSeen, RowKinds, AllKinds
    <3> QED
      BY <3>1, <3>2, <2>2 DEF RestartProgress, requestVars
  <2>5. PortsShared'
    <3>1. \A q : NamedByCreate(q) => NamedByCreate(q)'
      BY <1>4, <2>2, StorePorts DEF NamedByCreate, requestVars
    <3>2. \A c \in rows' : \/ c \in rows /\ hostPort'[c] = hostPort[c]
                           \/ c = target[h] /\ hostPort'[c] = NoPort
                           \/ /\ c = target[h] /\ hostPort'[c] = wanted[h]
                              /\ \/ pc[h] = "writePort"
                                 \/ kind[h] = "create"
      BY <1>4, StorePorts
    <3>3. \A g \in Handlers : kind'[g] = "allocatePort" => wanted'[g] # NoPort
      BY <1>4, <2>2, StorePorts DEF PortsShared, requestVars
    <3>4. ASSUME NEW c \in rows', NEW d \in rows', c # d, hostPort'[c] # NoPort, hostPort'[c] = hostPort'[d]
          PROVE  NamedByCreate(hostPort'[c])
      <4>1. CASE c # target[h] /\ d # target[h]
        BY <4>1, <3>2, <3>4 DEF PortsShared
      <4>2. ASSUME NEW e \in rows', NEW f \in rows', e # f, e = target[h], hostPort'[e] = hostPort'[f],
                   hostPort'[e] # NoPort
            PROVE  NamedByCreate(hostPort'[e])
        <5>1. f \in rows /\ hostPort'[f] = hostPort[f]
          BY <4>2, <3>2
        <5>2. CASE e \in rows /\ hostPort'[e] = hostPort[e]
          BY <4>2, <5>1, <5>2 DEF PortsShared
        <5>3. CASE hostPort'[e] = wanted[h] /\ pc[h] = "writePort"
          BY <4>2, <5>1, <5>3 DEF PortsShared
        <5>4. CASE hostPort'[e] = wanted[h] /\ kind[h] = "create"
          BY <5>4 DEF NamedByCreate
        <5> QED
          BY <4>2, <3>2, <5>2, <5>3, <5>4
      <4> QED
        BY <4>1, <4>2, <3>4
    <3>5. ASSUME pc'[h] = "writePort", NEW d \in rows' \ {target[h]}, hostPort'[d] = wanted'[h]
          PROVE  NamedByCreate(wanted[h])
      <4>1. /\ UNCHANGED <<rows, hostPort>> /\ kind[h] = "allocatePort" /\ wanted'[h] = wanted[h]
            /\ LET users == {c \in rows : hostPort[c] = wanted[h]}
               IN  users \subseteq {target[h]} \/ target[h] \in users
        BY <1>4, <3>5, StorePorts
      <4>2. wanted[h] # NoPort /\ target[h] \in rows /\ hostPort[target[h]] = wanted[h]
        BY <4>1, <3>5 DEF PortsShared
      <4> QED
        BY <4>1, <4>2, <3>5 DEF PortsShared
    <3>6. \A g \in Handlers : pc'[g] = "writePort" => g = h /\ wanted'[h] = wanted[h]
      BY <1>4, <2>1, StorePorts DEF InFlight, Ended
    <3> QED
      BY <3>1, <3>3, <3>4, <3>5, <3>6, <2>2 DEF PortsShared, requestVars
  <2> QED
    BY <2>1, <2>3, <2>4, <2>5
<1>5. ASSUME NEW h \in Handlers, NEW c \in Containers, NEW k \in OpKinds, UNCHANGED mode,
             BeginsOnRow(h, c, k) \/ BeginsOnProject(h, c, k) \/ (k = "create" /\ BeginsCreate(h, c))
      PROVE  SerialFacts'
  <2>1. Begins(h, c, k) /\ Settled
    BY <1>5 DEF BeginsOnRow, BeginsOnProject, BeginsCreate, Begins, MayBegin
  <2>2. kind[h] = "none" /\ kind'[h] = k /\ target'[h] = c /\ pc'[h] \in Firsts
    BY <2>1, <1>t DEF Begins, MayBegin, Typed, Shaped, Awaits, TypeOK
  <2>3. \A g \in Handlers \ {h} : /\ kind'[g] = kind[g] /\ target'[g] = target[g] /\ pc'[g] = pc[g]
                                  /\ seen'[g] = seen[g] /\ wanted'[g] = wanted[g] /\ ~InFlight(g)'
    BY <2>1, <1>t DEF Begins, TypeOK, Settled, InFlight
  <2>4. UNCHANGED <<rowVars, dockerVars>>
    BY <2>1 DEF Begins
  <2>5. OneRequest'
    BY <2>3 DEF OneRequest
  <2>6. RowAsSeen'
    <3>1. k \in RowKinds => /\ c \in rows
                            /\ seen'[h] = [id |-> dockerId[c], port |-> hostPort[c], up |-> status[c] = "RUNNING"]
      BY <1>5 DEF BeginsOnRow, BeginsOnProject, RowKinds
    <3>2. k \in RowKinds => ReadHolds(h)'
      <4> SUFFICES ASSUME k \in RowKinds PROVE ReadHolds(h)'
        OBVIOUS
      <4>1. c \in rows' /\ seen'[h].id = dockerId'[c] /\ seen'[h].port = hostPort'[c]
        BY <3>1, <2>4 DEF rowVars
      <4>2. seen'[h].up = (status[c] = "RUNNING")
        BY <3>1
      <4>3. seen'[h].up => status'[c] = "RUNNING"
        BY <4>2, <2>4 DEF rowVars
      <4> QED
        BY <4>1, <4>3, <2>2 DEF ReadHolds
    <3> QED
      BY <3>2, <2>2, <2>3 DEF RowAsSeen
  <2>7. RestartProgress'
    <3>1. \A g \in Handlers \ {h} : Achieved(g)'
      BY <2>3 DEF Achieved, InFlight, Ended
    <3>2. k = "restart" => pc'[h] = "inspect"
      <4>1. FirstCalls("restart") = {"inspect"}
        BY DEF FirstCalls
      <4> QED
        BY <1>5, <4>1 DEF BeginsOnRow, BeginsOnProject
    <3> QED
      BY <3>1, <3>2, <2>2 DEF RestartProgress, Achieved
  <2>8. PortsShared'
    <3>1. \A q : NamedByCreate(q) => NamedByCreate(q)'
      BY <2>2, <2>3 DEF NamedByCreate
    <3>2. k = "allocatePort" => wanted'[h] # NoPort
      BY <1>5 DEF BeginsOnRow, BeginsOnProject, NoPort
    <3> QED
      BY <3>1, <3>2, <2>2, <2>3, <2>4 DEF PortsShared, rowVars, Firsts
  <2> QED
    BY <2>5, <2>6, <2>7, <2>8
<1>6. "create" \in OpKinds \/ ~ \E h \in Handlers, c \in Containers : BeginsCreate(h, c)
  BY DEF BeginsCreate, Begins
<1>7. SerialFacts'
  <2> HIDE DEF SerialFacts
  <2> QED
    BY <1>1, <1>2, <1>p, <1>3, <1>4, <1>5, <1>6, StepsAre
<1> QED
  BY <1>7

\* They hold at first.
LEMMA InitSerial == Init => SerialFacts
<1> SUFFICES ASSUME Init PROVE SerialFacts
  OBVIOUS
<1> USE ContainersAssumption DEF Init
<1>1. OneRequest /\ RowAsSeen /\ RestartProgress
  BY DEF OneRequest, RowAsSeen, RestartProgress, InFlight
<1>2. PortsShared
  BY DEF PortsShared, NoPort
<1> QED
  BY <1>1, <1>2 DEF SerialFacts

SerialInv == Typed /\ (~mode.overlap => SerialFacts)

\* The environment stays as it is, so the facts hold while requests come one at
\* a time.
LEMMA SerialInvStep == SerialInv /\ [Next]_<<vars, mode>> => SerialInv'
<1> SUFFICES ASSUME SerialInv, [Next]_<<vars, mode>> PROVE SerialInv'
  OBVIOUS
<1>1. UNCHANGED mode
  BY DEF Next
<1> QED
  BY <1>1, TypeStep, SerialStep DEF SerialInv

\* One request at a time, whatever fails: what a request has read of its row
\* still holds when it writes.
THEOREM SerialInvariant == Spec => []SerialInv
<1>1. Init => SerialInv
  BY InitTyped, InitSerial DEF SerialInv
<1> QED
  BY <1>1, SerialInvStep, PTL DEF Spec

\* One request at a time, whatever fails: allocatePort gives no port twice.
THEOREM PortsStayDistinct == Spec => []PortsDistinct
<1>1. SerialInv => PortsDistinct
  BY DEF SerialInv, SerialFacts, PortsShared, NamedByCreate, PortsDistinct
<1> QED
  BY <1>1, SerialInvariant, PTL

\* The two calls that end a restart, and what they find.
LEMMA RestartEnds ==
    ASSUME SerialInv, [Next]_<<vars, mode>>, NEW h \in Handlers, ~mode.overlap, kind[h] = "restart",
           pc[h] # "done", pc'[h] = "done"
    PROVE  LET c == target[h] IN
             /\ engine'[dockerId'[c]] = "running"
             /\ bind'[dockerId'[c]] = hostPort'[c]
             /\ ProjectOf[c] \in Routed /\ hostPort'[c] # NoPort
                   => conf'[ProjectOf[c]] = hostPort'[c]
<1> USE DEF SerialInv
<1>t. /\ TypeOK /\ pc \in [Handlers -> Labels \cup Ended] /\ Awaits(kind[h], pc[h])
  BY DEF Typed, Shaped
<1>1. RecordRestarted(h) \/ WriteRoute(h)
  <2> DEFINE P == RecordRestarted(h) \/ WriteRoute(h)
  <2>1. UNCHANGED <<vars, mode>> \/ Crash \/ Prune => P
    BY DEF vars, Crash, Prune
  <2>2. ASSUME NEW g \in Handlers, DockerCall(g) PROVE P
    <3>1. g = h
      BY <2>2, DockerKeeps
    <3> QED
      BY <3>1, <2>2, <1>t DEF DockerCall, DockerStart, DockerStop, DockerRestart, Inspect, Teardown, Evict,
         RemoveUnforced, CreateAnew, CreateNew, StopOrStartNext, Goto, Awaits
  <2>3. ASSUME NEW g \in Handlers, StoreCall(g) PROVE P
    <3>1. g = h
      BY <2>3, StoreKeeps
    <3>2. pc[h] \in {"recordId", "routeNew", "recordRestarted", "route"}
      BY <3>1, <2>3, <1>t DEF StoreCall, RowWriteThrows, RecordStatus, RecordId, RecordRestarted, RecordResources,
         WriteRoute, DeleteRow, InsertRow, CheckPort, WritePort, ReleasePort, WriteStatuses, WriteProject,
         RowWrites, Awaits
    <3>3. RowWriteThrows(h) \/ RecordId(h) \/ P
      BY <3>1, <3>2, <2>3 DEF StoreCall, RecordStatus, RecordResources,
         DeleteRow, InsertRow, CheckPort, WritePort, ReleasePort, WriteStatuses, WriteProject
    <3> QED
      BY <3>3, <1>t DEF RowWriteThrows, RecordId, Goto
  <2>4. ASSUME NEW g \in Handlers, NEW c \in Containers, NEW k, Begins(g, c, k) PROVE P
    BY <2>4, <1>t DEF Begins, Firsts
  <2>5. P
    <3> HIDE DEF P
    <3> QED
      BY <2>1, <2>2, <2>3, <2>4, StepsAre DEF BeginsCreate, BeginsOnRow, BeginsOnProject
  <2> QED
    BY <2>5
<1>2. pc[h] \in {"recordRestarted", "route", "routeNew"} /\ InFlight(h)
  BY <1>1 DEF RecordRestarted, WriteRoute, InFlight, Ended
<1>3. ReadHolds(h) /\ Achieved(h)
  BY <1>2, <1>t DEF SerialFacts, RowAsSeen, RestartProgress, RowKinds, AllKinds
<1>4. CASE RecordRestarted(h)
  BY <1>3, <1>4, <1>t DEF RecordRestarted, ReadHolds, Achieved, Goto, dockerVars
<1>5. CASE WriteRoute(h)
  <2>1. pc[h] = "route" /\ UNCHANGED <<rowVars, dockerVars>>
    BY <1>5, <1>t DEF WriteRoute, Goto
  <2>2. engine'[dockerId'[target[h]]] = "running" /\ bind'[dockerId'[target[h]]] = hostPort'[target[h]]
    BY <2>1, <1>3 DEF ReadHolds, Achieved, rowVars, dockerVars
  <2>3. ProjectOf[target[h]] \in Projects
    BY <1>t DEF TypeOK, Projects
  <2>4. ProjectOf[target[h]] \in Routed => conf'[ProjectOf[target[h]]] = wanted[h]
    BY <1>5, <1>t, <2>3 DEF WriteRoute, Goto, TypeOK
  <2> QED
    BY <2>1, <2>2, <2>4, <1>3 DEF ReadHolds, Achieved, rowVars
<1> QED
  BY <1>1, <1>4, <1>5

\* One request at a time, whatever fails: a restart that reports success has
\* left the container running, on the port of its row, behind the domain of
\* its project.
THEOREM RestartLeavesInSync == Spec => RestartSyncs
<1>1. SerialInv /\ [Next]_<<vars, mode>> =>
        [\A h \in Handlers :
          ~mode.overlap /\ kind[h] = "restart" /\ pc[h] # "done" /\ pc'[h] = "done" =>
             LET c == target[h] IN
             /\ engine'[dockerId'[c]] = "running"
             /\ bind'[dockerId'[c]] = hostPort'[c]
             /\ ProjectOf[c] \in Routed /\ hostPort'[c] # NoPort
                   => conf'[ProjectOf[c]] = hostPort'[c]]_vars
  BY RestartEnds
<1> QED
  BY <1>1, SerialInvariant, PTL DEF Spec, RestartSyncs

-----------------------------------------------------------------------------
(***************************************************************************)
(* One request at a time, where nothing but nginx fails.                   *)
(***************************************************************************)

Calm == ~mode.overlap /\ mode.faults \subseteq {"nginx"}

\* The status of row c has still to be written.
StatusDue(c) == \E h \in Handlers :
    \/ target[h] = c /\ pc[h] \in {"recordRunning", "recordRestarted"}
    \/ ProjectOf[target[h]] = ProjectOf[c] /\ pc[h] = "startAll"

StatusFollows ==
    \A c \in rows : status[c] = "STOPPED" /\ engine[dockerId[c]] = "running" => StatusDue(c)

\* What request h has done to the Docker engine.
Done(h) ==
    /\ pc[h] = "recordId" /\ engine[h] = "running" => kind[h] = "update" /\ seen[h].up
    /\ pc[h] = "startNew" => seen[h].up
    /\ pc[h] = "recordStopped" => engine[seen[h].id] # "running"
    /\ pc[h] = "stopAll" => \A c \in rows :
          ProjectOf[c] = ProjectOf[target[h]] /\ engine[dockerId[c]] = "running" =>
              dockerId[c] \in todo[h]
    /\ pc[h] = "insertRow" => engine[target[h]] = "stopped"
    /\ kind[h] = "remove" /\ pc[h] = "deleteRow" => engine[seen[h].id] = "none"
    /\ kind[h] = "restart" /\ pc[h] \in {"create", "recordId"} => engine[seen[h].id] = "none"

\* The exceptions of NoOrphan.
Strayed(c) == \E h \in Handlers : kind[h] \in {"adminDelete", "update"} /\ target[h] = c

\* Container i of row c is the one the row refers to, or will be.
Accounted(i, c) ==
    \/ c \in rows /\ dockerId[c] = i
    \/ Strayed(c)
    \/ i \in Handlers /\ pc[i] = "recordId"
    \/ \E h \in Handlers : pc[h] = "insertRow" /\ target[h] = i

AllAccounted ==
    \A c \in Containers, i \in Ids : ContainerOf(i, c) /\ engine[i] # "none" => Accounted(i, c)

AllDone == \A h \in Handlers : Done(h)

CalmFacts == StatusFollows /\ AllDone /\ AllAccounted

\* What comes up is the container the request read, the one it made, or one
\* on its list.
LEMMA WhatComesUp ==
    ASSUME Typed, NEW h \in Handlers, DockerCall(h), NEW i \in Ids,
           engine[i] # "running", engine'[i] = "running"
    PROVE  \/ /\ pc[h] \in {"start", "restart"} /\ i = seen[h].id
              /\ pc'[h] \in {"recordRunning", "recordRestarted"}
           \/ pc[h] = "startNew" /\ i = h
           \/ pc[h] = "startAll" /\ pc'[h] = "startAll" /\ i \in todo[h]
<1> USE DEF SetEngine, Goto, Typed, Shaped, TypeOK, dockerVars
<1>0. seen[h].id \in Ids /\ h \in Ids /\ target[h] \in Ids
  BY DEF Ids
<1>1. CASE DockerStart(h)
  BY <1>0, <1>1 DEF DockerStart
<1>2. CASE DockerStop(h) \/ Inspect(h)
  BY <1>0, <1>2 DEF DockerStop, Inspect
<1>3. CASE DockerRestart(h)
  BY <1>0, <1>3 DEF DockerRestart
<1>4. CASE Teardown(h) \/ Evict(h) \/ RemoveUnforced(h)
  BY <1>0, <1>4 DEF Teardown, Evict, RemoveUnforced
<1>5. CASE CreateAnew(h) \/ CreateNew(h)
  BY <1>0, <1>5 DEF CreateAnew, CreateNew
<1>6. CASE StopOrStartNext(h)
  BY <1>0, <1>6 DEF StopOrStartNext
<1> QED
  BY <1>1, <1>2, <1>3, <1>4, <1>5, <1>6 DEF DockerCall

\* A write succeeds: the row is still there.
LEMMA NothingThrows ==
    ASSUME Typed, SerialFacts, Calm, NEW h \in Handlers, InFlight(h)
    PROVE  ~RowWriteThrows(h)
<1> SUFFICES ASSUME RowWriteThrows(h) PROVE FALSE
  OBVIOUS
<1>1. pc[h] \in RowWrites /\ target[h] \notin rows
  BY DEF RowWriteThrows, Calm
<1>2. kind[h] \in RowKinds
  BY <1>1 DEF Typed, Shaped, Awaits, RowWrites, RowKinds, AllKinds
<1> QED
  BY <1>1, <1>2 DEF SerialFacts, RowAsSeen, ReadHolds

\* The status of a row is due only by the request that is in flight.
LEMMA DueByCaller ==
    ASSUME Typed, OneRequest, NEW h \in Handlers, DockerCall(h) \/ StoreCall(h), NEW c, StatusDue(c)
    PROVE  \/ target[h] = c /\ pc[h] \in {"recordRunning", "recordRestarted"}
           \/ ProjectOf[target[h]] = ProjectOf[c] /\ pc[h] = "startAll"
  BY OnlyCaller DEF StatusDue, InFlight, Ended

\* What a calm request has done to the Docker engine when it goes on.
LEMMA DockerDone ==
    ASSUME OverlapInv, OneRequest, Calm, NEW h \in Handlers, DockerCall(h), Done(h)
    PROVE  Done(h)'
<1> USE DEF Goto, others, requestVars, rowVars, dockerVars, SetEngine, Done
<1>t. /\ TypeOK /\ pc \in [Handlers -> Labels \cup Ended] /\ Awaits(kind[h], pc[h])
      /\ h \in Ids /\ seen[h].id \in Ids /\ target[h] \in Ids /\ target[h] \notin Handlers
      /\ ~DockerFault
  BY ContainersAssumption DEF OverlapInv, Typed, Shaped, Ids, TypeOK, Calm, DockerFault
<1>u. UNCHANGED <<rows, dockerId, kind, target, seen>>
  BY <1>t, DockerKeeps DEF OverlapInv
<1>1. CASE DockerStart(h)
  <2>1. pc'[h] # "recordStopped" /\ pc'[h] # "insertRow" /\ pc'[h] # "stopAll" /\ pc'[h] # "startNew"
        /\ pc'[h] # "deleteRow" /\ pc'[h] # "create"
        /\ (pc'[h] = "recordId" => pc[h] = "startNew")
    BY <1>1, <1>t DEF DockerStart
  <2>2. pc[h] = "startNew" => kind[h] = "update"
    BY <1>t DEF Awaits
  <2> QED
    BY <2>1, <2>2, <1>u
<1>2. CASE DockerStop(h)
  <2>1. pc'[h] = "failed" \/ (pc'[h] = "recordStopped" /\ engine'[seen[h].id] = "stopped")
    BY <1>2, <1>t DEF DockerStop, TypeOK
  <2> QED
    BY <2>1, <1>u
<1>3. CASE DockerRestart(h)
  <2>1. pc'[h] \in {"failed", "recordRestarted", "recordRunning"}
    BY <1>3, <1>t DEF DockerRestart
  <2> QED
    BY <2>1, <1>u
<1>4. CASE Inspect(h)
  BY <1>4, <1>t, <1>u DEF Inspect
<1>5. CASE Teardown(h)
  <2>1. engine'[seen[h].id] = "none"
    BY <1>5, <1>t DEF Teardown, TypeOK
  <2>2. pc'[h] \in {"create", "evict", "deleteRow"}
    BY <1>5, <1>t DEF Teardown, Awaits
  <2> QED
    BY <2>1, <2>2, <1>u
<1>6. CASE Evict(h)
  <2>1. pc'[h] = "create" /\ kind[h] = "update"
    BY <1>6, <1>t DEF Evict, Awaits
  <2> QED
    BY <2>1, <1>u
<1>7. CASE RemoveUnforced(h)
  <2>1. pc'[h] = "deleteRow" /\ kind[h] = "adminDelete"
    BY <1>7, <1>t DEF RemoveUnforced, Awaits
  <2> QED
    BY <2>1, <1>u
<1>8. CASE CreateAnew(h)
  <2>1. pc'[h] = "failed" \/ /\ engine' = [engine EXCEPT ![h] = "stopped"]
                             /\ pc'[h] = IF kind[h] = "update" /\ seen[h].up THEN "startNew" ELSE "recordId"
    BY <1>8, <1>t DEF CreateAnew
  <2>2. seen[h].id # h /\ pc[h] = "create"
    BY <1>8, <1>t DEF CreateAnew, OverlapInv, Known, NewIsUnknown, Renewing, BeforeRecord, Awaits,
                       RowKinds, AllKinds
  <2>3. engine'[h] = "stopped" \/ pc'[h] = "failed"
    BY <2>1, <1>t DEF TypeOK
  <2>4. engine'[seen[h].id] = engine[seen[h].id] \/ pc'[h] = "failed"
    BY <2>1, <2>2, <1>t DEF TypeOK
  <2> QED
    BY <2>1, <2>2, <2>3, <2>4, <1>u
<1>9. CASE CreateNew(h)
  <2>1. pc'[h] = "failed" \/ (pc'[h] = "insertRow" /\ engine'[target[h]] = "stopped")
    BY <1>9, <1>t DEF CreateNew, TypeOK
  <2> QED
    BY <2>1, <1>u
<1>10. CASE StopOrStartNext(h)
  <2>1. pc'[h] = pc[h] /\ pc[h] \in {"stopAll", "startAll"}
    BY <1>10 DEF StopOrStartNext
  <2>2. ASSUME pc[h] = "stopAll", NEW c \in rows, ProjectOf[c] = ProjectOf[target[h]],
               engine'[dockerId[c]] = "running"
        PROVE  dockerId[c] \in todo'[h]
    <3>1. PICK i \in todo[h] :
             /\ todo' = [todo EXCEPT ![h] = @ \ {i}]
             /\ \/ engine[i] = "running" /\ engine' = [engine EXCEPT ![i] = "stopped"]
                \/ engine[i] # "running" /\ UNCHANGED engine
      BY <1>10, <1>t, <2>2 DEF StopOrStartNext
    <3>2. dockerId[c] \in Ids /\ i \in Ids
      BY <1>t DEF TypeOK
    <3>3. engine[dockerId[c]] = "running" /\ dockerId[c] # i
      BY <3>1, <3>2, <2>2, <1>t DEF TypeOK
    <3> QED
      BY <3>1, <3>3, <2>2, <1>t DEF TypeOK
  <2> QED
    BY <2>1, <2>2, <1>u
<1> QED
  BY <1>1, <1>2, <1>3, <1>4, <1>5, <1>6, <1>7, <1>8, <1>9, <1>10 DEF DockerCall

\* No write leads to a call about which Done says something.
LEMMA StoreDone ==
    ASSUME Typed, NEW h \in Handlers, StoreCall(h)
    PROVE  Done(h)'
<1> USE DEF Goto, others, requestVars, RowWrites
<1>t. pc \in [Handlers -> Labels \cup Ended] /\ Awaits(kind[h], pc[h])
  BY DEF Typed, Shaped
<1> DEFINE P == pc'[h] \notin {"recordId", "startNew", "recordStopped", "stopAll", "insertRow",
                               "deleteRow", "create"}
<1>1. RowWriteThrows(h) \/ RecordStatus(h) \/ RecordResources(h) => P
  BY <1>t DEF RowWriteThrows, RecordStatus, RecordResources
<1>2. RecordId(h) => P
  BY <1>t DEF RecordId, Awaits
<1>3. RecordRestarted(h) \/ WriteRoute(h) => P
  BY <1>t DEF RecordRestarted, WriteRoute
<1>4. DeleteRow(h) \/ CheckPort(h) \/ WritePort(h) \/ InsertRow(h) => P
  BY <1>t DEF DeleteRow, CheckPort, WritePort, InsertRow
<1>5. ReleasePort(h) \/ WriteStatuses(h) \/ WriteProject(h) => P
  BY <1>t DEF ReleasePort, WriteStatuses, WriteProject
<1>6. P
  BY <1>1, <1>2, <1>3, <1>4, <1>5 DEF StoreCall
<1> QED
  BY <1>6 DEF Done

\* Every step keeps what requests have done.
LEMMA DoneStep ==
    ASSUME OverlapInv, SerialFacts, Calm, CalmFacts, [Next]_<<vars, mode>>
    PROVE  AllDone'
<1> USE DEF AllDone
<1>t. Typed /\ TypeOK /\ OneRequest
  BY DEF OverlapInv, Typed, SerialFacts
<1>o. \A g \in Handlers : pc'[g] \in Ended \cup {"idle"} => Done(g)'
  BY DEF Done, Ended
<1>1. ASSUME UNCHANGED <<vars, mode>> PROVE AllDone'
  BY <1>1 DEF vars, rowVars, dockerVars, requestVars, Done, CalmFacts
<1>2. ~Crash
  BY DEF Crash, Calm
<1>p. ASSUME Prune PROVE AllDone'
  <2>1. \A g \in Handlers : pc'[g] \in Ended \cup {"idle"}
    BY <1>p DEF Prune, Settled, InFlight
  <2> QED
    BY <2>1, <1>o
<1>3. ASSUME NEW h \in Handlers, DockerCall(h) PROVE AllDone'
  <2>1. \A g \in Handlers \ {h} : Done(g)'
    BY <1>3, <1>t, <1>o, OnlyCaller DEF InFlight
  <2> QED
    BY <1>3, <1>t, <2>1, DockerDone DEF CalmFacts
<1>4. ASSUME NEW h \in Handlers, StoreCall(h) PROVE AllDone'
  <2>1. \A g \in Handlers \ {h} : Done(g)'
    BY <1>4, <1>t, <1>o, OnlyCaller DEF InFlight
  <2> QED
    BY <1>4, <1>t, <2>1, StoreDone
<1>5. ASSUME NEW h \in Handlers, NEW c \in Containers, NEW k \in OpKinds,
             BeginsOnRow(h, c, k) \/ BeginsOnProject(h, c, k) \/ BeginsCreate(h, c)
      PROVE  AllDone'
  <2>1. PICK k2 : Begins(h, c, k2)
    BY <1>5 DEF BeginsOnRow, BeginsOnProject, BeginsCreate
  <2>2. Settled /\ \A g \in Handlers \ {h} : pc'[g] = pc[g]
    BY <2>1 DEF Begins, MayBegin, Calm
  <2>3. \A g \in Handlers \ {h} : Done(g)'
    BY <2>2, <1>o DEF Settled, InFlight
  <2>4. pc'[h] \in Firsts /\ target'[h] = c /\ UNCHANGED <<rowVars, dockerVars>>
    BY <2>1, <1>t DEF Begins, TypeOK
  <2>5. ASSUME pc'[h] = "stopAll", NEW d \in rows, ProjectOf[d] = ProjectOf[c],
               engine[dockerId[d]] = "running"
        PROVE  dockerId[d] \in todo'[h]
    <3>1. todo'[h] = {dockerId[e] : e \in Suspended(ProjectOf[c])}
      BY <1>5, <2>5, FirstCallOf DEF BeginsOnRow, BeginsOnProject, BeginsCreate, RowKinds, Awaits
    <3>2. ~StatusDue(d)
      BY <2>2 DEF StatusDue, Settled, InFlight, Ended
    <3>3. status[d] = "RUNNING"
      BY <2>5, <3>2, <1>t DEF CalmFacts, StatusFollows, TypeOK
    <3> QED
      BY <3>1, <3>3, <2>5 DEF Suspended
  <2>6. Done(h)'
    BY <2>4, <2>5 DEF Done, Firsts, rowVars, dockerVars
  <2> QED
    BY <2>3, <2>6
<1>7. AllDone'
  <2> HIDE DEF AllDone
  <2> QED
    BY <1>t, <1>1, <1>2, <1>p, <1>3, <1>4, <1>5, StepsAre DEF BeginsCreate, Begins
<1> QED
  BY <1>7

\* Every step keeps the statuses in step with the engine, but for the row a
\* request has still to write.
LEMMA StatusStep ==
    ASSUME OverlapInv, SerialFacts, Calm, CalmFacts, [Next]_<<vars, mode>>
    PROVE  StatusFollows'
<1>t. /\ Typed /\ TypeOK /\ OneRequest
      /\ \A g \in Handlers : Awaits(kind[g], pc[g])
  BY DEF OverlapInv, Typed, SerialFacts, Shaped
<1>f. \A c \in rows : status[c] = "STOPPED" /\ engine[dockerId[c]] = "running" => StatusDue(c)
  BY DEF CalmFacts, StatusFollows
<1>1. ASSUME UNCHANGED <<vars, mode>> PROVE StatusFollows'
  BY <1>1, <1>f DEF vars, rowVars, dockerVars, requestVars, StatusFollows, StatusDue
<1>2. ~Crash
  BY DEF Crash, Calm
<1>p. ASSUME Prune PROVE StatusFollows'
  <2>1. \A c \in rows : engine'[dockerId[c]] = "running" => engine[dockerId[c]] = "running"
    BY <1>p, <1>t DEF Prune, TypeOK
  <2> QED
    BY <1>p, <1>f, <2>1 DEF Prune, others, rowVars, requestVars, StatusFollows, StatusDue
<1>3. ASSUME NEW h \in Handlers, DockerCall(h) PROVE StatusFollows'
  <2>1. UNCHANGED <<rowVars, requestVars>>
    BY <1>3, <1>t, DockerKeeps
  <2>2. ASSUME NEW c \in rows, engine'[dockerId[c]] = "running", status[c] = "STOPPED"
        PROVE  \/ target[h] = c /\ pc'[h] \in {"recordRunning", "recordRestarted"}
               \/ ProjectOf[target[h]] = ProjectOf[c] /\ pc'[h] = "startAll"
    <3>0. /\ c \in Containers /\ dockerId[c] \in Ids /\ target[h] \in Containers
          /\ ContainerOf(dockerId[c], c)
      BY <1>t DEF TypeOK, OverlapInv, Owned, RowsReferToOwn
    <3>1. CASE engine[dockerId[c]] = "running"
      <4>1. StatusDue(c)
        BY <1>f, <2>2, <3>1
      <4>2. \/ target[h] = c /\ pc[h] \in {"recordRunning", "recordRestarted"}
            \/ ProjectOf[target[h]] = ProjectOf[c] /\ pc[h] = "startAll"
        BY <1>3, <1>t, <4>1, DueByCaller
      <4>3. pc[h] = "startAll" /\ pc'[h] = "startAll"
        BY <1>3, <4>2 DEF DockerCall, DockerStart, DockerStop, DockerRestart, Inspect, Teardown, Evict,
           RemoveUnforced, CreateAnew, CreateNew, StopOrStartNext, others
      <4> QED
        BY <4>2, <4>3
    <3>2. CASE engine[dockerId[c]] # "running"
      <4>1. \/ /\ pc[h] \in {"start", "restart"} /\ dockerId[c] = seen[h].id
               /\ pc'[h] \in {"recordRunning", "recordRestarted"}
            \/ pc[h] = "startNew" /\ dockerId[c] = h
            \/ pc[h] = "startAll" /\ pc'[h] = "startAll" /\ dockerId[c] \in todo[h]
        BY <1>3, <1>t, <2>2, <3>0, <3>2, WhatComesUp
      <4>2. CASE /\ pc[h] \in {"start", "restart"} /\ dockerId[c] = seen[h].id
                 /\ pc'[h] \in {"recordRunning", "recordRestarted"}
        <5>1. kind[h] \in RowKinds
          BY <4>2, <1>t DEF Awaits, RowKinds, AllKinds
        <5>2. target[h] = c
          BY <5>1, <4>2, <3>0, OneOwner DEF OverlapInv, Owned, RequestsReferToOwn
        <5> QED
          BY <5>2, <4>2
      <4>3. CASE pc[h] = "startNew" /\ dockerId[c] = h
        BY <4>3, <3>0, <1>t DEF OverlapInv, Known, NewIsUnknown, BeforeRecord, Awaits, Renewing
      <4>4. CASE pc[h] = "startAll" /\ pc'[h] = "startAll" /\ dockerId[c] \in todo[h]
        <5>1. kind[h] \in {"suspend", "resume"}
          BY <4>4, <1>t DEF Awaits
        <5>2. PICK d \in Containers : ContainerOf(dockerId[c], d) /\ ProjectOf[d] = ProjectOf[target[h]]
          BY <5>1, <4>4 DEF OverlapInv, Owned, ListsReferToOwn
        <5>3. d = c
          BY <5>2, <3>0, OneOwner
        <5> QED
          BY <5>2, <5>3, <4>4
      <4> QED
        BY <4>1, <4>2, <4>3, <4>4
    <3> QED
      BY <3>1, <3>2
  <2> QED
    BY <2>1, <2>2 DEF StatusFollows, StatusDue, rowVars, requestVars
<1>4. ASSUME NEW h \in Handlers, StoreCall(h) PROVE StatusFollows'
  <2>1. UNCHANGED <<dockerVars, requestVars>> /\ InFlight(h)
    BY <1>4, <1>t, StoreKeeps, OnlyCaller
  <2>2. ASSUME NEW c, StatusDue(c)
        PROVE  \/ target[h] = c /\ pc[h] \in {"recordRunning", "recordRestarted"}
               \/ ProjectOf[target[h]] = ProjectOf[c] /\ pc[h] = "startAll"
    BY <1>4, <1>t, <2>2, DueByCaller
  <2>3. kind[h] \in RowKinds => seen[h].id = dockerId[target[h]]
    BY <2>1 DEF SerialFacts, RowAsSeen, ReadHolds
  <2>4. Done(h)
    BY DEF CalmFacts, AllDone
  <2>5. rows \subseteq Containers /\ target[h] \in Containers /\ h \in Ids
    BY <1>t DEF TypeOK, Ids
  <2>6. ~RowWriteThrows(h)
    BY <1>t, <2>1, NothingThrows
  <2> SUFFICES ASSUME NEW c \in rows', status'[c] = "STOPPED", engine[dockerId'[c]] = "running"
               PROVE  FALSE
    BY <2>1 DEF StatusFollows, dockerVars
  <2>7. CASE RecordResources(h) \/ WriteRoute(h) \/ DeleteRow(h) \/ CheckPort(h) \/ WritePort(h)
             \/ ReleasePort(h) \/ WriteProject(h)
    <3>1. c \in rows /\ status[c] = "STOPPED" /\ engine[dockerId[c]] = "running"
      BY <2>7 DEF RecordResources, WriteRoute, DeleteRow, CheckPort, WritePort, ReleasePort, WriteProject,
         others, rowVars
    <3>2. pc[h] \notin {"recordRunning", "recordRestarted", "startAll"}
      BY <2>7 DEF RecordResources, WriteRoute, DeleteRow, CheckPort, WritePort, ReleasePort, WriteProject
    <3> QED
      BY <1>f, <2>2, <3>1, <3>2
  <2>8. CASE RecordStatus(h)
    <3>1. CASE c = target[h]
      <4>1. pc[h] = "recordStopped"
        BY <2>8, <3>1, <2>5, <1>t DEF RecordStatus, TypeOK
      <4>2. kind[h] \in RowKinds
        BY <4>1, <1>t DEF Awaits, RowKinds, AllKinds
      <4> QED
        BY <2>8, <4>1, <4>2, <2>3, <2>4, <3>1 DEF RecordStatus, Done
    <3>2. CASE c # target[h]
      <4>1. c \in rows /\ status[c] = "STOPPED" /\ engine[dockerId[c]] = "running"
        BY <2>8, <3>2, <2>5, <1>t DEF RecordStatus, TypeOK
      <4> QED
        BY <1>f, <2>2, <2>8, <3>2, <4>1 DEF RecordStatus
    <3> QED
      BY <3>1, <3>2
  <2>9. CASE RecordId(h)
    <3>1. CASE c = target[h]
      <4>1. engine[h] = "running" /\ status[c] = "STOPPED"
        BY <2>9, <3>1, <2>5, <1>t DEF RecordId, TypeOK
      <4>2. kind[h] = "update" /\ seen[h].up
        BY <2>9, <4>1, <2>4 DEF RecordId, Done
      <4>3. status[target[h]] = "RUNNING"
        BY <4>2, <2>1 DEF SerialFacts, RowAsSeen, ReadHolds, RowKinds, AllKinds
      <4> QED
        BY <4>1, <4>3, <3>1
    <3>2. CASE c # target[h]
      <4>1. c \in rows /\ status[c] = "STOPPED" /\ engine[dockerId[c]] = "running"
        BY <2>9, <3>2, <2>5, <1>t DEF RecordId, TypeOK
      <4> QED
        BY <1>f, <2>2, <2>9, <3>2, <4>1 DEF RecordId
    <3> QED
      BY <3>1, <3>2
  <2>10. CASE RecordRestarted(h)
    <3>1. c # target[h] /\ c \in rows /\ status[c] = "STOPPED" /\ engine[dockerId[c]] = "running"
      BY <2>10, <2>5, <1>t DEF RecordRestarted, TypeOK
    <3> QED
      BY <1>f, <2>2, <2>10, <3>1 DEF RecordRestarted
  <2>11. CASE InsertRow(h)
    <3>1. CASE c = target[h]
      BY <2>11, <3>1, <2>4, <2>5, <1>t DEF InsertRow, TypeOK, Done
    <3>2. CASE c # target[h]
      <4>1. c \in rows /\ status[c] = "STOPPED" /\ engine[dockerId[c]] = "running"
        BY <2>11, <3>2, <2>5, <1>t DEF InsertRow, TypeOK
      <4> QED
        BY <1>f, <2>2, <2>11, <4>1 DEF InsertRow
    <3> QED
      BY <3>1, <3>2
  <2>12. CASE WriteStatuses(h)
    <3>1. /\ c \in rows /\ engine[dockerId[c]] = "running" /\ pc[h] \in {"stopAll", "startAll"}
          /\ todo[h] = {}
      BY <2>12 DEF WriteStatuses
    <3>2. CASE ProjectOf[c] = ProjectOf[target[h]]
      <4>1. pc[h] = "stopAll"
        BY <2>12, <2>5, <3>1, <3>2 DEF WriteStatuses, Calm
      <4> QED
        BY <3>1, <3>2, <4>1, <2>4 DEF Done
    <3>3. CASE ProjectOf[c] # ProjectOf[target[h]]
      <4>1. status[c] = "STOPPED"
        BY <2>12, <2>5, <3>1, <3>3 DEF WriteStatuses
      <4> QED
        BY <1>f, <2>2, <3>1, <3>3, <4>1
    <3> QED
      BY <3>2, <3>3
  <2> QED
    BY <1>4, <2>6, <2>7, <2>8, <2>9, <2>10, <2>11, <2>12 DEF StoreCall
<1>5. ASSUME NEW h \in Handlers, NEW c \in Containers, NEW k, Begins(h, c, k)
      PROVE  StatusFollows'
  <2>1. Settled /\ UNCHANGED <<rowVars, dockerVars>>
    BY <1>5 DEF Begins, MayBegin, Calm
  <2>2. \A d : ~StatusDue(d)
    BY <2>1 DEF StatusDue, Settled, InFlight, Ended
  <2> QED
    BY <1>f, <2>1, <2>2 DEF StatusFollows, rowVars, dockerVars
<1>7. StatusFollows'
  BY <1>t, <1>1, <1>2, <1>p, <1>3, <1>4, <1>5, StepsAre DEF BeginsCreate, BeginsOnRow, BeginsOnProject
<1> QED
  BY <1>7

\* Once a row is an exception of NoOrphan, it stays one.
LEMMA StrayedKept ==
    ASSUME Typed, [Next]_<<vars, mode>>, NEW c, Strayed(c)
    PROVE  Strayed(c)'
  BY RequestsKept DEF Strayed

\* Every step keeps every container accounted for.
LEMMA AccountedStep ==
    ASSUME OverlapInv, SerialFacts, Calm, CalmFacts, [Next]_<<vars, mode>>
    PROVE  AllAccounted'
<1> USE ContainersAssumption
<1>t. /\ Typed /\ TypeOK /\ OneRequest
      /\ \A g \in Handlers : Awaits(kind[g], pc[g])
  BY DEF OverlapInv, Typed, SerialFacts, Shaped
<1>s. \A c : Strayed(c) => Strayed(c)'
  BY <1>t, StrayedKept
<1>f. \A c \in Containers, i \in Ids : ContainerOf(i, c) /\ engine[i] # "none" => Accounted(i, c)
  BY DEF CalmFacts, AllAccounted
<1>1. ASSUME UNCHANGED <<vars, mode>> PROVE AllAccounted'
  BY <1>1, <1>f DEF vars, rowVars, dockerVars, requestVars, AllAccounted, Accounted, ContainerOf, Renewing, Strayed
<1>2. ~Crash
  BY DEF Crash, Calm
<1>p. ASSUME Prune PROVE AllAccounted'
  <2>1. \A i \in Ids : engine'[i] # "none" => engine[i] # "none"
    BY <1>p, <1>t DEF Prune, TypeOK
  <2> QED
    BY <1>p, <1>f, <2>1 DEF Prune, others, rowVars, requestVars, AllAccounted, Accounted, ContainerOf, Renewing, Strayed
<1>3. ASSUME NEW h \in Handlers, DockerCall(h) PROVE AllAccounted'
  <2>1. UNCHANGED <<rows, dockerId, kind, target>> /\ \A g \in Handlers \ {h} : pc'[g] = pc[g]
    BY <1>3, <1>t, DockerKeeps DEF rowVars, requestVars
  <2>2. pc[h] \notin {"recordId", "insertRow"}
    BY <1>3, <1>t, TowardsRecord
  <2>3. \A i, c : ContainerOf(i, c)' <=> ContainerOf(i, c)
    BY <2>1 DEF ContainerOf, Renewing
  <2>4. \A i, c : Accounted(i, c) => Accounted(i, c)'
    BY <2>1, <2>2, <1>s DEF Accounted
  <2>5. ASSUME NEW c \in Containers, NEW i \in Ids, ContainerOf(i, c), engine[i] = "none", engine'[i] # "none"
        PROVE  Accounted(i, c)'
    <3>1. \/ /\ pc[h] = "create" /\ i = h
             /\ pc'[h] = IF kind[h] = "update" /\ seen[h].up THEN "startNew" ELSE "recordId"
          \/ pc[h] = "createNew" /\ i = target[h] /\ pc'[h] = "insertRow"
      BY <1>3, <1>t, <2>5, WhatAppears
    <3>2. i = h => target[h] = c
      BY <2>5 DEF ContainerOf
    <3>3. CASE i = h /\ kind[h] = "update"
      <4>1. Strayed(c)
        BY <3>2, <3>3 DEF Strayed
      <4> QED
        BY <4>1, <1>s DEF Accounted
    <3>4. CASE i = h /\ kind[h] # "update"
      <4>1. pc'[h] = "recordId"
        BY <3>1, <3>4, <1>t DEF TypeOK
      <4> QED
        BY <4>1, <3>4 DEF Accounted
    <3>5. CASE i # h
      BY <3>1, <3>5, <2>1 DEF Accounted
    <3> QED
      BY <3>3, <3>4, <3>5
  <2> QED
    BY <1>f, <2>3, <2>4, <2>5 DEF AllAccounted
<1>4. ASSUME NEW h \in Handlers, StoreCall(h) PROVE AllAccounted'
  <2>1. UNCHANGED <<engine, target, kind>> /\ \A g \in Handlers \ {h} : pc'[g] = pc[g]
    BY <1>4, <1>t, StoreKeeps DEF dockerVars, requestVars
  <2>2. InFlight(h) /\ \A g \in Handlers \ {h} : ~InFlight(g)
    BY <1>4, <1>t, OnlyCaller
  <2>3. ~RowWriteThrows(h)
    BY <1>t, <2>2, NothingThrows
  <2>4. Done(h) /\ (kind[h] \in RowKinds => seen[h].id = dockerId[target[h]])
    BY <2>2 DEF CalmFacts, AllDone, SerialFacts, RowAsSeen, ReadHolds
  <2>5. rows \subseteq Containers /\ target[h] \in Containers /\ target[h] \notin Handlers
    BY <1>t DEF TypeOK
  <2>6. \A i, c : ContainerOf(i, c)' <=> ContainerOf(i, c)
    BY <2>1 DEF ContainerOf, Renewing
  <2> SUFFICES ASSUME NEW c \in Containers, NEW i \in Ids, ContainerOf(i, c), engine[i] # "none"
               PROVE  Accounted(i, c)'
    BY <2>1, <2>6 DEF AllAccounted
  <2>7. CASE Strayed(c)
    BY <2>7, <1>s DEF Accounted
  <2>8. CASE i \in Handlers /\ pc[i] = "recordId"
    <3>1. i = h
      BY <2>8, <2>2 DEF InFlight, Ended
    <3>2. RecordId(h)
      BY <1>4, <2>8, <3>1, <2>3 DEF StoreCall, RecordStatus, RecordRestarted, RecordResources, WriteRoute,
         DeleteRow, InsertRow, CheckPort, WritePort, ReleasePort, WriteStatuses, WriteProject
    <3>3. target[h] = c
      BY <3>1 DEF ContainerOf
    <3>4. c \in rows' /\ dockerId'[c] = h
      BY <3>2, <3>3, <1>t DEF RecordId, TypeOK
    <3> QED
      BY <3>1, <3>4 DEF Accounted
  <2>9. CASE \E g \in Handlers : pc[g] = "insertRow" /\ target[g] = i
    <3>1. pc[h] = "insertRow" /\ target[h] = i
      BY <2>9, <2>2 DEF InFlight, Ended
    <3>2. c = i
      BY <3>1, <2>5 DEF ContainerOf
    <3>3. InsertRow(h)
      BY <1>4, <3>1, <2>3 DEF StoreCall, RecordStatus, RecordId, RecordRestarted, RecordResources, WriteRoute,
         DeleteRow, CheckPort, WritePort, ReleasePort, WriteStatuses, WriteProject
    <3>4. c \in rows' /\ dockerId'[c] = i
      BY <3>1, <3>2, <3>3, <1>t DEF InsertRow, TypeOK
    <3> QED
      BY <3>4 DEF Accounted
  <2>10. CASE c \in rows /\ dockerId[c] = i
    <3>1. CASE pc[h] = "deleteRow" /\ target[h] = c
      <4>1. kind[h] \in {"remove", "adminDelete"}
        BY <3>1, <1>t DEF Awaits
      <4>2. kind[h] # "remove"
        BY <2>4, <2>10, <3>1 DEF Done, RowKinds, AllKinds
      <4>3. Strayed(c)
        BY <3>1, <4>1, <4>2 DEF Strayed
      <4> QED
        BY <4>3, <1>s DEF Accounted
    <3>2. CASE pc[h] = "recordId" /\ target[h] = c
      <4>1. kind[h] \in {"restart", "update"}
        BY <3>2, <1>t DEF Awaits
      <4>2. kind[h] # "restart"
        BY <2>4, <2>10, <3>2 DEF Done, RowKinds, AllKinds
      <4>3. Strayed(c)
        BY <3>2, <4>1, <4>2 DEF Strayed
      <4> QED
        BY <4>3, <1>s DEF Accounted
    <3>3. CASE ~(pc[h] \in {"recordId", "deleteRow"} /\ target[h] = c)
      <4>1. dockerId'[c] = dockerId[c]
        <5>1. pc[h] = "insertRow" => target[h] \notin rows
          BY DEF OverlapInv, Known, CreatesAlone
        <5> QED
          BY <1>4, <1>t, <2>10, <3>3, <5>1, WhoRecords DEF TypeOK
      <4>2. c \in rows'
        BY <1>4, <1>t, <2>10, <3>3, WhoInserts
      <4> QED
        BY <4>1, <4>2, <2>10 DEF Accounted
    <3> QED
      BY <3>1, <3>2, <3>3
  <2> QED
    BY <1>f, <2>7, <2>8, <2>9, <2>10 DEF Accounted
<1>5. ASSUME NEW h \in Handlers, NEW c \in Containers, NEW k, Begins(h, c, k)
      PROVE  AllAccounted'
  <2>1. Settled /\ UNCHANGED <<rows, dockerId, engine>> /\ kind[h] = "none"
    BY <1>5, <1>t DEF Begins, MayBegin, Calm, rowVars, dockerVars, Awaits
  <2>2. engine[h] = "none"
    BY <2>1 DEF OverlapInv, Owned, OnlyRenewed, Renewing
  <2>3. \A g \in Handlers \ {h} : kind'[g] = kind[g] /\ target'[g] = target[g]
    BY <1>5, <1>t DEF Begins, TypeOK
  <2>4. ASSUME NEW d \in Containers, NEW i \in Ids, ContainerOf(i, d)', engine[i] # "none"
        PROVE  Accounted(i, d)'
    <3>1. ContainerOf(i, d)
      BY <2>2, <2>3, <2>4 DEF ContainerOf, Renewing
    <3>2. Accounted(i, d)
      BY <1>f, <2>4, <3>1
    <3>3. (d \in rows /\ dockerId[d] = i) \/ Strayed(d)
      BY <2>1, <3>2 DEF Accounted, Settled, InFlight, Ended
    <3> QED
      BY <3>3, <2>1, <1>s DEF Accounted
  <2> QED
    BY <2>1, <2>4 DEF AllAccounted
<1>7. AllAccounted'
  BY <1>t, <1>1, <1>2, <1>p, <1>3, <1>4, <1>5, StepsAre DEF BeginsCreate, BeginsOnRow, BeginsOnProject
<1> QED
  BY <1>7

CalmInv == OverlapInv /\ (~mode.overlap => SerialFacts) /\ (Calm => CalmFacts)

\* The calm invariant holds at first.
LEMMA InitCalm == Init => CalmInv
<1> SUFFICES ASSUME Init PROVE CalmInv
  OBVIOUS
<1>1. OverlapInv /\ SerialFacts
  BY InitOverlap, InitSerial
<1> USE ContainersAssumption DEF Init
<1>2. StatusFollows /\ AllDone
  BY DEF StatusFollows, AllDone, Done
<1>3. AllAccounted
  BY DEF AllAccounted, Accounted, ContainerOf, Renewing, Ids
<1> QED
  BY <1>1, <1>2, <1>3 DEF CalmInv, CalmFacts

\* Every step keeps the calm invariant.
LEMMA CalmStep == CalmInv /\ [Next]_<<vars, mode>> => CalmInv'
<1> SUFFICES ASSUME CalmInv, [Next]_<<vars, mode>> PROVE CalmInv'
  OBVIOUS
<1>1. UNCHANGED mode
  BY DEF Next
<1>2. OverlapInv' /\ (~mode.overlap => SerialFacts')
  BY OverlapStep, SerialStep DEF CalmInv, OverlapInv
<1>3. Calm => CalmFacts'
  BY DoneStep, StatusStep, AccountedStep DEF CalmInv, CalmFacts, Calm
<1> QED
  BY <1>1, <1>2, <1>3 DEF CalmInv, Calm

\* The invariant that StoppedIsNotUp and NothingLeftBehind follow from.
THEOREM CalmInvariant == Spec => []CalmInv
  BY InitCalm, CalmStep, PTL DEF Spec

\* The environments in which requests come one at a time are calm: only the
\* nginx calls may fail in them.
SerialIsCalm == \A m \in Modes : ~m.overlap => m.faults \subseteq {"nginx"}

\* One request at a time, where nothing but nginx fails: a row shown as
\* STOPPED has no running container.
THEOREM StoppedIsNotUp ==
    ASSUME SerialIsCalm
    PROVE  Spec => []StoppedIsDown
<1>1. CalmInv => StoppedIsDown
  <2> SUFFICES ASSUME CalmInv, ~mode.overlap, Settled, NEW c \in rows, status[c] = "STOPPED",
                      engine[dockerId[c]] = "running"
               PROVE  FALSE
    BY DEF StoppedIsDown
  <2>1. CalmFacts
    BY DEF CalmInv, Calm, SerialIsCalm, OverlapInv, Typed, TypeOK
  <2>2. StatusDue(c)
    BY <2>1 DEF CalmFacts, StatusFollows
  <2> QED
    BY <2>2 DEF StatusDue, Settled, InFlight, Ended
<1> QED
  BY <1>1, CalmInvariant, PTL

\* One request at a time, where nothing but nginx fails: no container is left
\* behind that no row refers to, but by an admin's delete or updateResources.
THEOREM NothingLeftBehind ==
    ASSUME SerialIsCalm
    PROVE  Spec => []NoOrphan
<1>1. CalmInv => NoOrphan
  <2> SUFFICES ASSUME CalmInv, ~mode.overlap, Settled, NEW i \in Ids, engine[i] # "none"
               PROVE  \/ RowOf(i) \in rows /\ dockerId[RowOf(i)] = i
                      \/ Strayed(RowOf(i))
    BY DEF NoOrphan, Strayed
  <2>1. CalmFacts /\ TypeOK
    BY DEF CalmInv, Calm, SerialIsCalm, OverlapInv, Typed, TypeOK
  <2>2. RowOf(i) \in Containers /\ ContainerOf(i, RowOf(i))
    BY <2>1, ContainersAssumption DEF RowOf, ContainerOf, Ids, TypeOK, CalmInv, OverlapInv, Owned, OnlyRenewed
  <2>3. Accounted(i, RowOf(i))
    BY <2>1, <2>2 DEF CalmFacts, AllAccounted
  <2> QED
    BY <2>3 DEF Accounted, Settled, InFlight, Ended
<1> QED
  BY <1>1, CalmInvariant, PTL
=============================================================================

----------------------- MODULE ManagedDatabasesProofs -----------------------
(***************************************************************************)
(* For any number of databases and requests: one server per volume and no  *)
(* volume lost, however they overlap and whatever fails; ports apart while *)
(* they come one at a time; and rows that match the engine while nothing   *)
(* fails either.                                                           *)
(***************************************************************************)
EXTENDS ManagedDatabases, FiniteSetTheorems, WellFoundedInduction, TLAPS

Removed(d) == \E h \in Handlers : kind[h] = "remove" /\ target[h] = d

\* A row whose data a prune has removed counts as kept.
Kept(d) == d \in pruned \/ (d \in volume /\ secret[d] # None)

\* The part of TypeOK that the proofs of the other invariants need.  The ports
\* come with DatabasesTypeCorrect.
Shape ==
    /\ rows \subseteq Databases
    /\ engine \in [Ids -> {"none", "stopped", "running"}]
    /\ dockerId \in [Databases -> Ids \cup {None}]
    /\ password \in [Databases -> Ids]
    /\ secret \in [Databases -> Ids \cup {None}]
    /\ kind \in [Handlers -> Kinds \cup {"none"}]
    /\ target \in [Handlers -> Databases]
    /\ seen = [h \in Handlers |-> seen[h]]
    /\ pc = [h \in Handlers |-> pc[h]]

\* A handler has a kind once it has begun, and a password to work with; only a
\* removal drops a volume.
Begun ==
    \A h \in Handlers :
        /\ pc[h] = "idle" <=> kind[h] = "none"
        /\ pc[h] # "idle" => seen[h].password \in Ids
        /\ pc[h] \in {"teardown", "dropVolume"} => kind[h] = "remove"

\* No handler has a container before it begins.
Fresh == \A h \in Handlers : kind[h] = "none" => engine[h] = "none"

\* What create and updateConfig have made sure of when they record: a container
\* that is still there when it is started has its volume.
Provided ==
    \A h \in Handlers :
        /\ pc[h] = "startNew" /\ engine[h] # "none" =>
              target[h] \in volume \/ Removed(target[h])
        /\ pc[h] = "recordNew" => Kept(target[h]) \/ Removed(target[h])

\* DataKept for rows that are gone as well.
Recorded == \A d \in Databases : dockerId[d] # None => Kept(d) \/ Removed(d)

DatabaseInv == Shape /\ Begun /\ Fresh /\ OneWriter /\ Provided /\ Recorded

\* The first call of a handler.
LEMMA FirstCalls ==
    ASSUME NEW k \in Kinds \ {"create"}, NEW d \in Databases
    PROVE  /\ FirstCall(k, d) \notin {"idle", "dropVolume", "startNew", "recordNew"}
           /\ FirstCall(k, d) = "teardown" => k = "remove"
  BY DEF FirstCall, Kinds
-----------------------------------------------------------------------------

\* Handler h goes on to a label: it creates no container, drops no volume and
\* leaves the id in the row alone.
GoesOn(h, label) ==
    /\ pc[h] # "idle" /\ pc' = [pc EXCEPT ![h] = label]
    /\ kind' = kind /\ target' = target /\ seen' = seen /\ dockerId' = dockerId
    /\ pruned' = pruned
    /\ label \notin {"idle", "teardown"}
    /\ label = "dropVolume" => kind[h] = "remove"
    /\ label = "startNew" => target[h] \in volume'
    /\ label = "recordNew" =>
          pc[h] = "startNew" /\ engine[h] # "none" /\ secret'[target[h]] # None
    /\ engine' \in [Ids -> {"none", "stopped", "running"}]
    /\ \A i \in Ids : engine'[i] # "none" => engine[i] # "none"
    /\ volume \subseteq volume'
    /\ secret' \in [Databases -> Ids \cup {None}]
    /\ \A d \in Databases : secret[d] # None => secret'[d] # None
    /\ password' \in [Databases -> Ids] /\ rows' \subseteq Databases

\* A handler that goes on in this way keeps the invariant.
LEMMA GoingOn ==
    ASSUME DatabaseInv, NEW h \in Handlers, NEW label, GoesOn(h, label)
    PROVE  DatabaseInv'
<1> USE DatabasesAssumption DEF DatabaseInv, GoesOn
<1>1. /\ pc'[h] = label /\ \A g \in Handlers \ {h} : pc'[g] = pc[g]
      /\ \A d \in Databases : /\ Kept(d) => Kept(d)'
                              /\ Removed(d)' <=> Removed(d)
  BY DEF Shape, Kept, Removed
<1>2. Shape'
  BY DEF Shape
<1>3. Begun' /\ Fresh'
  BY <1>1 DEF Shape, Begun, Fresh, Ids
<1>4. OneWriter'
  BY DEF OneWriter, RowOf
<1>5. Provided'
  <2> SUFFICES ASSUME NEW g \in Handlers
               PROVE  /\ pc'[g] = "startNew" /\ engine'[g] # "none" =>
                            target[g] \in volume' \/ Removed(target[g])'
                      /\ pc'[g] = "recordNew" => Kept(target[g])' \/ Removed(target[g])'
    BY DEF Provided, Kept, Removed
  <2>1. target[g] \in Databases
    BY DEF Shape
  <2>2. CASE g # h
    <3>1. pc'[g] = pc[g] /\ (engine'[g] # "none" => engine[g] # "none")
      BY <1>1, <2>2 DEF Ids
    <3> QED
      BY <1>1, <2>1, <3>1 DEF Provided
  <2>3. CASE g = h
    BY <1>1, <2>1, <2>3 DEF Provided, Kept
  <2> QED
    BY <2>2, <2>3
<1>6. Recorded'
  BY <1>1 DEF Recorded
<1> QED
  BY <1>2, <1>3, <1>4, <1>5, <1>6

\* A handler begins: it gets a kind, a row and a copy of the row.
Begins(h, k, d, label) ==
    /\ pc[h] = "idle" /\ pc' = [pc EXCEPT ![h] = label]
    /\ kind' = [kind EXCEPT ![h] = k] /\ target' = [target EXCEPT ![h] = d]
    /\ seen' = [g \in Handlers |-> seen'[g]] /\ seen'[h].password \in Ids
    /\ \A g \in Handlers \ {h} : seen'[g] = seen[g]
    /\ label \notin {"idle", "dropVolume", "startNew", "recordNew"}
    /\ label = "teardown" => k = "remove"
    /\ UNCHANGED <<engine, dockerId, volume, secret, pruned>>
    /\ password' \in [Databases -> Ids] /\ rows' \subseteq Databases

\* A handler that begins in this way keeps the invariant.
LEMMA Beginning ==
    ASSUME DatabaseInv, NEW h \in Handlers, NEW k \in Kinds, NEW d \in Databases,
           NEW label, Begins(h, k, d, label)
    PROVE  DatabaseInv'
<1> USE DatabasesAssumption DEF DatabaseInv, Begins
<1>1. /\ pc'[h] = label /\ kind'[h] = k /\ target'[h] = d
      /\ \A g \in Handlers \ {h} :
            pc'[g] = pc[g] /\ kind'[g] = kind[g] /\ target'[g] = target[g]
  BY DEF Shape
<1>2. kind[h] = "none" /\ k # "none" /\ engine[h] = "none" /\ h \in Ids
  BY DEF Begun, Fresh, Kinds, Ids
<1>3. \A e \in Databases : (Kept(e)' <=> Kept(e)) /\ (Removed(e) => Removed(e)')
  BY <1>1, <1>2 DEF Kept, Removed
<1>4. Shape'
  BY DEF Shape
<1>5. Begun' /\ Fresh'
  BY <1>1, <1>2 DEF Begun, Fresh
<1>6. OneWriter'
  BY <1>1, <1>2 DEF OneWriter, RowOf, Ids
<1>7. Provided'
  <2> SUFFICES ASSUME NEW g \in Handlers
               PROVE  /\ pc'[g] = "startNew" /\ engine'[g] # "none" =>
                            target'[g] \in volume' \/ Removed(target[g])'
                      /\ pc'[g] = "recordNew" => Kept(target[g])' \/ Removed(target[g])'
    BY <1>1 DEF Provided, Kept, Removed
  <2>1. target[g] \in Databases
    BY DEF Shape
  <2>2. CASE g # h
    BY <1>1, <1>3, <2>1, <2>2 DEF Provided
  <2>3. CASE g = h
    BY <1>1, <2>3
  <2> QED
    BY <2>2, <2>3
<1>8. Recorded'
  BY <1>3 DEF Recorded
<1> QED
  BY <1>4, <1>5, <1>6, <1>7, <1>8
\* An operation on the container a handler has read of: it can be started,
\* stopped or removed, but not created.
LEMMA EngineEffect ==
    ASSUME Shape, NEW i, NEW state \in {"none", "stopped", "running"},
           state # "none" /\ i \in Ids => engine[i] # "none",
           SetEngine(i, state) \/ UNCHANGED engine
    PROVE  /\ engine' \in [Ids -> {"none", "stopped", "running"}]
           /\ \A j \in Ids : engine'[j] # "none" => engine[j] # "none"
  BY DEF Shape, SetEngine

\* Every call of every request keeps the invariant.
LEMMA DatabaseStep == DatabaseInv /\ Next => DatabaseInv'
<1> SUFFICES ASSUME DatabaseInv, Next PROVE DatabaseInv'
  OBVIOUS
<1> USE DatabasesAssumption DEF Goto, rowVars, dockerVars, requestVars
<1>a. Shape /\ Begun /\ Fresh /\ OneWriter /\ Provided /\ Recorded
  BY DEF DatabaseInv
<1>b. \A d \in Databases, h \in Handlers : d \in Ids /\ h \in Ids /\ None \notin Ids
  BY DEF Ids
<1>c. ASSUME NEW h \in Handlers PROVE target[h] \in Databases
  BY <1>a DEF Shape
\* A call that leaves the engine, the volumes and the ids alone.
<1>d. ASSUME NEW h \in Handlers, NEW label, pc[h] # "idle",
             pc' = [pc EXCEPT ![h] = label],
             label \notin {"idle", "teardown", "dropVolume", "startNew", "recordNew"},
             UNCHANGED <<kind, target, seen, pruned, dockerId, engine, volume, secret>>,
             password' \in [Databases -> Ids], rows' \subseteq Databases
      PROVE  DatabaseInv'
  <2>1. GoesOn(h, label)
    BY <1>a, <1>d DEF GoesOn, Shape
  <2> QED
    BY <2>1, GoingOn
\* A call on a container that leaves everything else alone.
<1>e. ASSUME NEW h \in Handlers, NEW label, pc[h] # "idle",
             pc' = [pc EXCEPT ![h] = label],
             label \notin {"idle", "teardown", "startNew", "recordNew"},
             label = "dropVolume" => kind[h] = "remove",
             UNCHANGED <<kind, target, seen, pruned, rows, dockerId, password, volume,
                         secret>>,
             engine' \in [Ids -> {"none", "stopped", "running"}],
             \A j \in Ids : engine'[j] # "none" => engine[j] # "none"
      PROVE  DatabaseInv'
  <2>1. GoesOn(h, label)
    BY <1>a, <1>e DEF GoesOn, Shape
  <2> QED
    BY <2>1, GoingOn
<1>1. ASSUME NEW h \in Handlers, NEW d \in Databases, InsertRow(h, d)
      PROVE  DatabaseInv'
  <2>1. Begins(h, "create", d, "createVolume")
    BY <1>a, <1>b, <1>1 DEF InsertRow, MayBegin, Begins, Shape
  <2> QED
    BY <2>1, Beginning DEF Kinds
<1>2. ASSUME NEW h \in Handlers, NEW d \in Databases, NEW k \in Kinds \ {"create"},
             ReadRow(h, d, k)
      PROVE  DatabaseInv'
  <2>1. Begins(h, k, d, FirstCall(k, d))
    BY <1>a, <1>b, <1>2, FirstCalls DEF ReadRow, MayBegin, Begins, Shape
  <2> QED
    BY <2>1, Beginning
<1>3. ASSUME NEW h \in Handlers, CreateVolume(h) PROVE DatabaseInv'
  <2>1. GoesOn(h, "pickPort") \/ GoesOn(h, "undo")
    BY <1>a, <1>3 DEF CreateVolume, GoesOn, Shape
  <2> QED
    BY <2>1, GoingOn
<1>4. ASSUME NEW h \in Handlers, PickPort(h) PROVE DatabaseInv'
  BY <1>a, <1>d, <1>4 DEF PickPort, Shape
<1>5. ASSUME NEW h \in Handlers, Log(h) PROVE DatabaseInv'
  BY <1>a, <1>d, <1>5 DEF Log, Shape
\* The new container is the only one that bears its name.
<1>6. ASSUME NEW h \in Handlers, CreateContainer(h) PROVE DatabaseInv'
  <2>1. CASE GiveUp(h) /\ UNCHANGED <<engine, volume>>
    BY <1>a, <1>d, <1>6, <2>1 DEF CreateContainer, GiveUp, Shape
  <2>2. CASE NameBearers(target[h]) = {} /\ SetEngine(h, "stopped")
               /\ volume' = volume \cup {target[h]} /\ Goto(h, "startNew")
    <3>1. /\ pc[h] = "create" /\ kind[h] # "none" /\ pc' = [pc EXCEPT ![h] = "startNew"]
          /\ UNCHANGED <<kind, target, seen, pruned, rows, dockerId, password, secret>>
      BY <1>a, <1>6 , <2>2 DEF CreateContainer, Begun
    <3>2. /\ engine' = [engine EXCEPT ![h] = "stopped"] /\ h \in Ids
          /\ volume \subseteq volume' /\ target[h] \in volume'
      BY <1>b, <2>2 DEF SetEngine
    <3>3. /\ \A d \in Databases : (Kept(d) => Kept(d)') /\ (Removed(d)' <=> Removed(d))
          /\ \A g \in Handlers \ {h} : pc'[g] = pc[g]
          /\ pc'[h] = "startNew"
      BY <1>a, <3>1, <3>2 DEF Kept, Removed, Shape
    <3>4. Shape'
      BY <1>a, <3>1, <3>2 DEF Shape
    <3>5. Begun' /\ Fresh'
      BY <1>a, <3>1, <3>2, <3>3 DEF Begun, Fresh, Shape, Ids
    <3>6. \A i \in Ids : engine[i] # "none" => RowOf(i) # target[h]
      BY <2>2 DEF NameBearers
    <3>7. RowOf(h) = target[h] /\ \A i \in Ids : RowOf(i)' = RowOf(i)
      BY <3>1 DEF RowOf
    <3>8. OneWriter'
      BY <1>a, <3>2, <3>6, <3>7 DEF OneWriter, Shape
    <3>9. Provided'
      <4> SUFFICES ASSUME NEW g \in Handlers
                   PROVE  /\ pc'[g] = "startNew" /\ engine'[g] # "none" =>
                                target[g] \in volume' \/ Removed(target[g])'
                          /\ pc'[g] = "recordNew" =>
                                Kept(target[g])' \/ Removed(target[g])'
        BY <3>1 DEF Provided, Kept, Removed
      <4>1. CASE g # h
        BY <1>a, <1>c, <3>1, <3>2, <3>3, <4>1 DEF Provided
      <4>2. CASE g = h
        BY <3>2, <3>3, <4>2
      <4> QED
        BY <4>1, <4>2
    <3>10. Recorded'
      BY <1>a, <3>1, <3>3 DEF Recorded
    <3> QED
      BY <3>4, <3>5, <3>8, <3>9, <3>10 DEF DatabaseInv
  <2> QED
    BY <1>6, <2>1, <2>2 DEF CreateContainer
<1>7. ASSUME NEW h \in Handlers, StartNew(h) PROVE DatabaseInv'
  <2>1. CASE GiveUp(h) /\ UNCHANGED <<engine, secret>>
    BY <1>a, <1>d, <1>7, <2>1 DEF StartNew, GiveUp, Shape
  <2>2. CASE /\ Startable(h) /\ SetEngine(h, "running")
             /\ secret' = [secret EXCEPT ![target[h]] =
                              IF @ = None THEN seen[h].password ELSE @]
             /\ Goto(h, "recordNew")
    <3>1. /\ engine' \in [Ids -> {"none", "stopped", "running"}]
          /\ \A j \in Ids : engine'[j] # "none" => engine[j] # "none"
      BY <1>a, <1>b, <2>2, EngineEffect DEF Startable
    <3>2. seen[h].password \in Ids /\ pc[h] = "startNew"
      BY <1>a, <1>7 DEF StartNew, Begun
    <3>3. /\ secret' \in [Databases -> Ids \cup {None}] /\ secret'[target[h]] # None
          /\ \A d \in Databases : secret[d] # None => secret'[d] # None
      BY <1>a, <1>b, <1>c, <2>2, <3>2 DEF Shape
    <3>4. GoesOn(h, "recordNew")
      BY <1>a, <1>7, <2>2, <3>1, <3>2, <3>3 DEF StartNew, Startable, GoesOn, Shape
    <3> QED
      BY <3>4, GoingOn
  <2> QED
    BY <1>7, <2>1, <2>2 DEF StartNew
\* What is recorded has a volume with data in it.
<1>8. ASSUME NEW h \in Handlers, RecordNew(h) PROVE DatabaseInv'
  <2>1. CASE GiveUp(h) /\ UNCHANGED <<dockerId, hostPort, status>>
    BY <1>a, <1>d, <1>8, <2>1 DEF RecordNew, GiveUp, Shape
  <2>2. CASE dockerId' = [dockerId EXCEPT ![target[h]] = h]
               /\ \E label \in {"log", "done"} : Goto(h, label)
    <3>1. /\ pc[h] = "recordNew" /\ h \in Ids
          /\ UNCHANGED <<kind, target, seen, pruned, rows, password, engine, volume,
                         secret>>
      BY <1>8, <1>b DEF RecordNew
    <3>2. PICK label \in {"log", "done"} : pc' = [pc EXCEPT ![h] = label]
      BY <2>2
    <3>3. Kept(target[h]) \/ Removed(target[h])
      BY <1>a, <3>1 DEF Provided
    <3>4. \A d \in Databases : (Kept(d)' <=> Kept(d)) /\ (Removed(d)' <=> Removed(d))
      BY <3>1 DEF Kept, Removed
    <3>5. Shape'
      BY <1>a, <2>2, <3>1, <3>2 DEF Shape
    <3>6. Begun' /\ Fresh' /\ OneWriter'
      BY <1>a, <3>1, <3>2 DEF Begun, Fresh, OneWriter, RowOf, Shape
    <3>7. Provided'
      BY <1>a, <1>c, <3>1, <3>2, <3>4 DEF Provided, Shape, Kept, Removed
    <3>8. Recorded'
      BY <1>a, <1>c, <2>2, <3>3, <3>4 DEF Recorded, Shape
    <3> QED
      BY <3>5, <3>6, <3>7, <3>8 DEF DatabaseInv
  <2> QED
    BY <1>8, <2>1, <2>2 DEF RecordNew
<1>9. ASSUME NEW h \in Handlers, DeleteRow(h) PROVE DatabaseInv'
  BY <1>a, <1>d, <1>9 DEF DeleteRow, Shape
<1>10. ASSUME NEW h \in Handlers, DockerStart(h) PROVE DatabaseInv'
  <2>1. /\ engine' \in [Ids -> {"none", "stopped", "running"}]
        /\ \A j \in Ids : engine'[j] # "none" => engine[j] # "none"
    BY <1>a, <1>10, EngineEffect DEF DockerStart, Startable
  <2> QED
    BY <1>e, <1>10, <2>1 DEF DockerStart
<1>11. ASSUME NEW h \in Handlers, DockerStop(h) PROVE DatabaseInv'
  <2>1. /\ engine' \in [Ids -> {"none", "stopped", "running"}]
        /\ \A j \in Ids : engine'[j] # "none" => engine[j] # "none"
    BY <1>a, <1>11, EngineEffect DEF DockerStop
  <2> QED
    BY <1>e, <1>11, <2>1 DEF DockerStop
<1>12. ASSUME NEW h \in Handlers, DockerRestart(h) PROVE DatabaseInv'
  <2>1. /\ engine' \in [Ids -> {"none", "stopped", "running"}]
        /\ \A j \in Ids : engine'[j] # "none" => engine[j] # "none"
    BY <1>a, <1>12, EngineEffect DEF DockerRestart, Startable
  <2> QED
    BY <1>e, <1>12, <2>1 DEF DockerRestart
<1>13. ASSUME NEW h \in Handlers, RecordStatus(h) PROVE DatabaseInv'
  BY <1>a, <1>d, <1>13 DEF RecordStatus, Shape
<1>14. ASSUME NEW h \in Handlers, Teardown(h) PROVE DatabaseInv'
  <2>1. /\ engine' \in [Ids -> {"none", "stopped", "running"}]
        /\ \A j \in Ids : engine'[j] # "none" => engine[j] # "none"
    BY <1>a, <1>14, EngineEffect DEF Teardown
  <2>2. kind[h] = "remove"
    BY <1>a, <1>14 DEF Teardown, Begun
  <2> QED
    BY <1>e, <1>14, <2>1, <2>2 DEF Teardown
\* Only here a volume goes, and the row it belongs to is being removed.
<1>15. ASSUME NEW h \in Handlers, DropVolume(h) PROVE DatabaseInv'
  <2>1. /\ pc[h] = "dropVolume" /\ pc' = [pc EXCEPT ![h] = "deleteRow"]
        /\ UNCHANGED <<kind, target, seen, pruned, rows, password, dockerId, engine>>
        /\ \/ /\ volume' = volume \ {target[h]}
              /\ secret' = [secret EXCEPT ![target[h]] = None]
           \/ UNCHANGED <<volume, secret>>
    BY <1>15 DEF DropVolume
  <2>2. kind[h] = "remove" /\ Removed(target[h])
    BY <1>a, <2>1 DEF Begun, Removed
  <2>3. \A d \in Databases : /\ Removed(d)' <=> Removed(d)
                             /\ Kept(d) => Kept(d)' \/ d = target[h]
                             /\ d \in volume => d \in volume' \/ d = target[h]
    BY <1>a, <2>1 DEF Kept, Removed, Shape
  <2>4. Shape'
    BY <1>a, <2>1 DEF Shape
  <2>5. Begun' /\ Fresh' /\ OneWriter'
    BY <1>a, <2>1 DEF Begun, Fresh, OneWriter, RowOf, Shape
  <2>6. Provided'
    <3> SUFFICES ASSUME NEW g \in Handlers
                 PROVE  /\ pc'[g] = "startNew" /\ engine'[g] # "none" =>
                              target[g] \in volume' \/ Removed(target[g])'
                        /\ pc'[g] = "recordNew" =>
                              Kept(target[g])' \/ Removed(target[g])'
      BY <2>1 DEF Provided, Kept, Removed
    <3>1. pc'[g] \in {"startNew", "recordNew"} => pc'[g] = pc[g]
      BY <1>a, <2>1 DEF Shape
    <3>2. target[g] \in Databases
      BY <1>c
    <3>3. (target[g] \in volume \/ Removed(target[g]) =>
              target[g] \in volume' \/ Removed(target[g])')
          /\ (Kept(target[g]) \/ Removed(target[g]) =>
                 Kept(target[g])' \/ Removed(target[g])')
      <4>1. CASE target[g] = target[h]
        <5>1. Removed(target[g])'
          BY <2>1, <2>2, <2>3, <3>2, <4>1 DEF Removed
        <5> QED
          BY <5>1
      <4>2. CASE target[g] # target[h]
        BY <2>1, <2>3, <3>2, <4>2 DEF Removed
      <4> QED
        BY <4>1, <4>2
    <3> QED
      BY <1>a, <2>1, <3>1, <3>3 DEF Provided
  <2>7. Recorded'
    BY <1>a, <2>1, <2>2, <2>3 DEF Recorded
  <2> QED
    BY <2>4, <2>5, <2>6, <2>7 DEF DatabaseInv
<1>16. ASSUME NEW h \in Handlers, WriteLimits(h) PROVE DatabaseInv'
  BY <1>a, <1>d, <1>16 DEF WriteLimits, Shape
<1>17. ASSUME NEW h \in Handlers, StopOld(h) \/ RemoveOld(h) PROVE DatabaseInv'
  <2>1. /\ engine' \in [Ids -> {"none", "stopped", "running"}]
        /\ \A j \in Ids : engine'[j] # "none" => engine[j] # "none"
    BY <1>a, <1>17, EngineEffect DEF StopOld, RemoveOld
  <2> QED
    BY <1>e, <1>17, <2>1 DEF StopOld, RemoveOld
<1>18. ASSUME NEW h \in Handlers, Evict(h) PROVE DatabaseInv'
  <2>1. /\ engine' \in [Ids -> {"none", "stopped", "running"}]
        /\ \A j \in Ids : engine'[j] # "none" => engine[j] # "none"
    BY <1>a, <1>18 DEF Evict, Shape
  <2> QED
    BY <1>e, <1>18, <2>1 DEF Evict
<1>19. ASSUME NEW h \in Handlers, AlterUser(h) PROVE DatabaseInv'
  <2>1. \E label \in {"recordPassword", "failed"} : GoesOn(h, label)
    BY <1>a, <1>b, <1>19 DEF AlterUser, GoesOn, Shape
  <2> QED
    BY <2>1, GoingOn
<1>20. ASSUME NEW h \in Handlers, RecordPassword(h) PROVE DatabaseInv'
  BY <1>a, <1>b, <1>d, <1>20 DEF RecordPassword, Shape
<1>21. CASE Crash
  <2>1. /\ \A h \in Handlers : pc'[h] = pc[h] \/ (pc[h] # "idle" /\ pc'[h] = "lost")
        /\ pc' = [h \in Handlers |-> pc'[h]]
        /\ UNCHANGED <<kind, target, seen, pruned, rows, password, dockerId, engine,
                       volume, secret>>
    BY <1>21 DEF Crash, InFlight, Ended
  <2> QED
    BY <1>a, <2>1 DEF DatabaseInv, Shape, Begun, Fresh, OneWriter, RowOf, Provided,
                      Recorded, Kept, Removed
\* A prune takes no volume that a running container mounts, and marks the rows
\* whose data it takes.
<1>22. CASE Prune
  <2>1. /\ engine' = [i \in Ids |-> IF engine[i] = "stopped" THEN "none" ELSE engine[i]]
        /\ UNCHANGED <<kind, target, seen, rows, password, dockerId, pc>>
    BY <1>22 DEF Prune
  <2>2. PICK gone \in SUBSET volume :
           /\ \A d \in gone, i \in Ids : engine[i] = "running" => RowOf(i) # d
           /\ volume' = volume \ gone
           /\ secret' = [d \in Databases |-> IF d \in gone THEN None ELSE secret[d]]
           /\ pruned' = pruned \cup {d \in gone : secret[d] # None}
    BY <1>22 DEF Prune
  <2>3. \A d \in Databases : (Kept(d) => Kept(d)') /\ (Removed(d)' <=> Removed(d))
    BY <2>1, <2>2 DEF Kept, Removed
  <2>4. Shape'
    BY <1>a, <2>1, <2>2 DEF Shape
  <2>5. Begun' /\ Fresh' /\ OneWriter'
    BY <1>a, <2>1 DEF Begun, Fresh, OneWriter, RowOf, Shape, Ids
  <2>6. Provided'
    <3> SUFFICES ASSUME NEW g \in Handlers
                 PROVE  /\ pc'[g] = "startNew" /\ engine'[g] # "none" =>
                              target[g] \in volume' \/ Removed(target[g])'
                        /\ pc'[g] = "recordNew" =>
                              Kept(target[g])' \/ Removed(target[g])'
      BY <2>1 DEF Provided, Kept, Removed
    <3>1. /\ g \in Ids /\ RowOf(g) = target[g] /\ target[g] \in Databases
          /\ engine[g] \in {"none", "stopped", "running"}
      BY <1>a, <1>b, <1>c DEF RowOf, Shape
    <3>2. engine'[g] # "none" => engine[g] = "running" /\ target[g] \notin gone
      BY <2>1, <2>2, <3>1
    <3> QED
      BY <1>a, <2>1, <2>2, <2>3, <3>1, <3>2 DEF Provided
  <2>7. Recorded'
    BY <1>a, <2>1, <2>3 DEF Recorded
  <2> QED
    BY <2>4, <2>5, <2>6, <2>7 DEF DatabaseInv
<1> QED
  BY <1>1, <1>2, <1>3, <1>4, <1>5, <1>6, <1>7, <1>8, <1>9, <1>10, <1>11, <1>12,
     <1>13, <1>14, <1>15, <1>16, <1>17, <1>18, <1>19, <1>20, <1>21, <1>22
     DEF Next, create, startStopRestart, remove, updateConfig, resetPassword

\* The invariant holds at every moment.
LEMMA DatabasesSafe == Spec => []DatabaseInv
<1>1. Init => DatabaseInv
  BY DatabasesAssumption
     DEF Init, DatabaseInv, Shape, Begun, Fresh, OneWriter, RowOf, Provided,
         Recorded, Kept, Ids
<1>2. DatabaseInv /\ [Next]_vars => DatabaseInv'
  <2>1. DatabaseInv /\ UNCHANGED vars => DatabaseInv'
    BY DEF vars, rowVars, dockerVars, requestVars, DatabaseInv, Shape, Begun, Fresh,
           OneWriter, RowOf, Provided, Recorded, Kept, Removed
  <2> QED
    BY <2>1, DatabaseStep
<1> QED
  BY <1>1, <1>2, PTL DEF Spec

\* However start, stop, restart, create, updateConfig and remove overlap, and
\* whatever fails, no two containers mount the volume of one database.
THEOREM SingleWriter == Spec => []OneWriter
<1>1. DatabaseInv => OneWriter
  BY DEF DatabaseInv
<1> QED
  BY <1>1, DatabasesSafe, PTL

\* However they overlap and whatever fails, a database that was ever recorded
\* as running keeps its volume and its data until somebody asks for its removal
\* or a prune takes the volume, which it cannot while a container of it runs.
THEOREM VolumesKept == Spec => []DataKept
<1>1. DatabaseInv => DataKept
  <2> SUFFICES ASSUME DatabaseInv, NEW d \in rows \ pruned, dockerId[d] # None
               PROVE  \/ d \in volume /\ secret[d] # None
                      \/ \E h \in Handlers : kind[h] = "remove" /\ target[h] = d
    BY DEF DataKept
  <2> QED
    BY DEF DatabaseInv, Shape, Recorded, Kept, Removed
<1> QED
  BY <1>1, DatabasesSafe, PTL

-----------------------------------------------------------------------------
(***************************************************************************)
(* Type correctness                                                        *)
(***************************************************************************)

\* Every set of natural numbers has a least element.
LEMMA LeastNatural ==
    ASSUME NEW S \in SUBSET Nat, S # {}
    PROVE  \E n \in S : \A m \in S : n <= m
<1> DEFINE T == {0..n : n \in S}
<1>1. T \subseteq FiniteSubsetsOf(Nat) /\ T # {}
  <2>1. \A n \in S : 0..n \in SUBSET Nat /\ IsFiniteSet(0..n)
    BY FS_Interval
  <2> QED
    BY <2>1 DEF FiniteSubsetsOf
<1>2. \E X \in T : \A Y \in T : ~(<<Y, X>> \in StrictSubsetOrdering(Nat))
  <2> HIDE DEF T
  <2> QED
    BY <1>1, FS_StrictSubsetOrderingWellFounded, WFMin
<1>3. PICK n \in S : \A m \in S : ~(<<0..m, 0..n>> \in StrictSubsetOrdering(Nat))
  BY <1>2
<1>4. \A m \in S : ~(0..m \subseteq 0..n /\ 0..m # 0..n)
  <2>1. \A X, Y \in SUBSET Nat :
           X \subseteq Y /\ X # Y => <<X, Y>> \in StrictSubsetOrdering(Nat)
    BY DEF StrictSubsetOrdering
  <2>2. \A m \in S : 0..m \in SUBSET Nat
    OBVIOUS
  <2> QED
    BY <1>3, <2>1, <2>2
<1>5. ASSUME NEW m \in S, m < n
      PROVE  FALSE
  BY <1>4, <1>5
<1> QED
  BY <1>5

\* The port that create chooses is the lowest that no row has.
LEMMA FreePort ==
    ASSUME Ports \ UsedPorts # {}
    PROVE  getAvailablePort \in Ports \ UsedPorts
<1>1. \E port \in Ports \ UsedPorts : \A q \in Ports \ UsedPorts : port <= q
  BY LeastNatural, DatabasesAssumption
<1>2. \E port \in Ports \ UsedPorts : \A q \in Ports : q < port => q \in UsedPorts
  BY <1>1, DatabasesAssumption
<1> QED
  BY <1>2 DEF getAvailablePort

\* Every call of a request keeps the types.
LEMMA TypeStep ==
    ASSUME TypeOK, NEW h \in Handlers,
           \/ \E d \in Databases :
                 InsertRow(h, d) \/ \E k \in Kinds \ {"create"} : ReadRow(h, d, k)
           \/ create(h) \/ startStopRestart(h) \/ remove(h)
           \/ updateConfig(h) \/ resetPassword(h)
    PROVE  TypeOK'
<1> USE DEF TypeOK, Ids, SetEngine, rowVars, dockerVars, requestVars
<1>1. ASSUME NEW d \in Databases, InsertRow(h, d) PROVE TypeOK'
  BY <1>1 DEF InsertRow, Copy, Kinds
<1>2. ASSUME NEW d \in Databases, NEW k \in Kinds \ {"create"}, ReadRow(h, d, k)
      PROVE  TypeOK'
  BY <1>2 DEF ReadRow, Copy
<1>3. CASE CreateVolume(h)
  BY <1>3 DEF CreateVolume
<1>4. CASE PickPort(h)
  BY <1>4, FreePort DEF PickPort
<1>5. CASE CreateContainer(h)
  BY <1>5 DEF CreateContainer, Copy
<1>6. CASE StartNew(h)
  BY <1>6 DEF StartNew, Copy
<1>7. CASE RecordNew(h)
  BY <1>7 DEF RecordNew
<1>8. CASE Log(h)
  BY <1>8 DEF Log
<1>9. CASE DeleteRow(h)
  BY <1>9 DEF DeleteRow
<1>10. CASE DockerStart(h)
  BY <1>10 DEF DockerStart
<1>11. CASE DockerStop(h)
  BY <1>11 DEF DockerStop
<1>12. CASE DockerRestart(h)
  BY <1>12 DEF DockerRestart
<1>13. CASE RecordStatus(h)
  BY <1>13 DEF RecordStatus
<1>14. CASE Teardown(h)
  BY <1>14 DEF Teardown
<1>15. CASE DropVolume(h)
  BY <1>15 DEF DropVolume
<1>16. CASE WriteLimits(h)
  BY <1>16 DEF WriteLimits
<1>17. CASE StopOld(h)
  BY <1>17 DEF StopOld
<1>18. CASE RemoveOld(h)
  BY <1>18 DEF RemoveOld
<1>19. CASE Evict(h)
  BY <1>19 DEF Evict
<1>20. CASE AlterUser(h)
  BY <1>20 DEF AlterUser
<1>21. CASE RecordPassword(h)
  BY <1>21 DEF RecordPassword
<1> QED
  BY <1>1, <1>2, <1>3, <1>4, <1>5, <1>6, <1>7, <1>8, <1>9, <1>10, <1>11, <1>12, <1>13, <1>14, <1>15, <1>16, <1>17, <1>18, <1>19, <1>20, <1>21
     DEF create, startStopRestart, remove, updateConfig, resetPassword

LEMMA TypeStart == Init => TypeOK
<1> SUFFICES ASSUME Init PROVE TypeOK
  OBVIOUS
<1>1. (CHOOSE d \in Databases : TRUE) \in Databases
  BY DatabasesAssumption
<1> QED
  BY <1>1, DatabasesAssumption DEF Init, TypeOK, Ids, Copy

\* Every row, container, volume and copy is of its type: whatever port is taken
\* or given back, create chooses one of the range.
THEOREM DatabasesTypeCorrect == Spec => []TypeOK
<1>1. TypeOK /\ [Next]_vars => TypeOK'
  <2>1. TypeOK /\ (Crash \/ UNCHANGED vars) => TypeOK'
    BY DEF Crash, vars, rowVars, dockerVars, requestVars, TypeOK
  <2>2. TypeOK /\ Prune => TypeOK'
    <3> SUFFICES ASSUME TypeOK, Prune PROVE TypeOK'
      OBVIOUS
    <3>1. /\ engine' \in [Ids -> {"none", "stopped", "running"}]
          /\ volume' \subseteq Databases /\ pruned' \subseteq Databases
          /\ secret' \in [Databases -> Ids \cup {None}]
      BY DEF Prune, TypeOK
    <3>2. UNCHANGED <<rowVars, bind, runsWith, pc, kind, target, seen, mode, wanted>>
      BY DEF Prune
    <3> QED
      BY <3>1, <3>2 DEF TypeOK, rowVars
  <2> QED
    BY <2>1, <2>2, TypeStep DEF Next
<1> QED
  BY <1>1, TypeStart, PTL DEF Spec

-----------------------------------------------------------------------------
(***************************************************************************)
(* One request at a time: what the rows, the ports and the names are then  *)
(***************************************************************************)

OneRequest ==
    ~mode.overlap => \A g, h \in Handlers : InFlight(g) /\ InFlight(h) => g = h

\* Rows that no request was about yet are as the schema's defaults leave them,
\* and the containers of the initial rows are the only ones no request made.
NewRows ==
    /\ \A d \in Databases \ Initial :
          (\A h \in Handlers : kind[h] # "none" => target[h] # d) =>
              /\ d \notin rows /\ dockerId[d] = None /\ hostPort[d] = NoPort
              /\ status[d] = "STOPPED" /\ limits[d] = d /\ secret[d] = None
    /\ \A d \in Databases : engine[d] # "none" => d \in Initial
    /\ \A d \in Databases :
          /\ limits[d] \in Handlers => kind[limits[d]] # "none"
          /\ dockerId[d] \in Handlers => kind[dockerId[d]] # "none"

\* Docker gives a name to one container at a time.
OneName ==
    \A i, j \in {k \in Ids : engine[k] # "none"} : NameOf[RowOf(i)] = NameOf[RowOf(j)] => i = j

\* The port a creation has chosen stays free until it is recorded.
ChosenPort ==
    /\ \A h \in Handlers :
          pc[h] \in {"writeLimits", "stopOld", "removeOld", "evict"} => kind[h] # "create"
    /\ ~mode.overlap => \A h \in Handlers :
          kind[h] = "create" /\ pc[h] \in {"create", "startNew", "recordNew"} =>
              wanted[h] \in Ports \ UsedPorts

PortsApart ==
    ~mode.overlap => \A d, e \in rows :
        d # e /\ hostPort[d] = hostPort[e] => hostPort[d] = NoPort

SerialInv == OneRequest /\ NewRows /\ OneName /\ ChosenPort /\ PortsApart

SerialFacts == TypeOK /\ DatabaseInv /\ SerialInv

\* Handler h makes a call and goes on to a label: what it changes is its own
\* row, its own container, and what may be stopped or removed.
Proceeds(h, label) ==
    /\ InFlight(h) /\ label # "idle" /\ pc' = [pc EXCEPT ![h] = label]
    /\ kind' = kind /\ target' = target /\ seen' = seen /\ pruned' = pruned
    /\ mode' = mode
    /\ rows' \subseteq rows
    /\ \A d \in Databases \ {target[h]} :
          /\ d \in rows => d \in rows'
          /\ dockerId'[d] = dockerId[d] /\ hostPort'[d] = hostPort[d]
          /\ status'[d] = status[d] /\ limits'[d] = limits[d]
          /\ password'[d] = password[d] /\ secret'[d] = secret[d]
    /\ limits'[target[h]] \in {limits[target[h]], h}
    /\ dockerId'[target[h]] \in {dockerId[target[h]], h}
    /\ hostPort'[target[h]] # hostPort[target[h]] =>
          /\ pc[h] = "recordNew" /\ kind[h] = "create"
          /\ hostPort'[target[h]] = wanted[h]
          /\ label \notin {"create", "startNew", "recordNew"}
    /\ \A i \in Ids : engine'[i] # "none" =>
          engine[i] # "none" \/ (i = h /\ NameBearers(target[h]) = {})
    /\ \A g \in Handlers \ {h} : wanted'[g] = wanted[g]
    /\ kind[h] = "create" /\ label \in {"create", "startNew", "recordNew"} =>
          \/ wanted'[h] \in Ports \ UsedPorts
          \/ pc[h] \in {"create", "startNew"} /\ wanted'[h] = wanted[h]
    /\ label \in {"writeLimits", "stopOld", "removeOld", "evict"} => kind[h] # "create"

\* A handler that proceeds in this way keeps the invariant.
LEMMA Proceeding ==
    ASSUME SerialFacts, NEW h \in Handlers, NEW label, Proceeds(h, label)
    PROVE  SerialInv'
<1> USE DatabasesAssumption DEF Proceeds
<1>1. TypeOK /\ Shape /\ Begun /\ Fresh
  BY DEF SerialFacts, DatabaseInv
<1>2. /\ OneRequest /\ NewRows /\ OneName /\ ChosenPort /\ PortsApart
      /\ target[h] \in Databases /\ kind[h] # "none" /\ h \in Ids
      /\ pc'[h] = label /\ \A g \in Handlers \ {h} : pc'[g] = pc[g]
  BY <1>1 DEF SerialFacts, SerialInv, Shape, Begun, InFlight, Ended, Ids
<1>3. OneRequest'
  BY <1>2 DEF OneRequest, InFlight
<1>4. NewRows'
  <2>1. ASSUME NEW d \in Databases \ Initial,
               \A g \in Handlers : kind[g] # "none" => target[g] # d
        PROVE  /\ d \notin rows' /\ dockerId'[d] = None /\ hostPort'[d] = NoPort
               /\ status'[d] = "STOPPED" /\ limits'[d] = d /\ secret'[d] = None
    <3>1. d # target[h]
      BY <1>2, <2>1
    <3> QED
      BY <1>2, <2>1, <3>1 DEF NewRows
  <2>2. \A d \in Databases : engine'[d] # "none" => d \in Initial
    BY <1>2 DEF NewRows, Ids
  <2>3. \A d \in Databases :
           /\ limits'[d] \in Handlers => kind[limits'[d]] # "none"
           /\ dockerId'[d] \in Handlers => kind[dockerId'[d]] # "none"
    BY <1>2 DEF NewRows
  <2> QED
    BY <2>1, <2>2, <2>3 DEF NewRows
<1>5. OneName'
  <2>1. \A i \in Ids : RowOf(i)' = RowOf(i)
    BY DEF RowOf
  <2>2. RowOf(h) = target[h]
    BY DEF RowOf
  <2>3. NameBearers(target[h]) = {} =>
           \A i \in Ids : engine[i] # "none" => NameOf[RowOf(i)] # NameOf[RowOf(h)]
    BY <2>2 DEF NameBearers
  <2> QED
    BY <1>2, <2>1, <2>3 DEF OneName
<1>6. ASSUME ~mode.overlap, NEW g \in Handlers, g # h
      PROVE  ~InFlight(g)
  BY <1>2, <1>6 DEF OneRequest
<1>7. rows \subseteq Databases /\ UsedPorts' \subseteq UsedPorts \cup {wanted[h]}
  <2>1. rows \subseteq Databases
    BY <1>1 DEF TypeOK
  <2>2. \A d \in rows' : hostPort'[d] = hostPort[d] \/ hostPort'[d] = wanted[h]
    BY <2>1
  <2> QED
    BY <2>1, <2>2 DEF UsedPorts
<1>8. ChosenPort'
  <2>1. \A g \in Handlers :
           pc'[g] \in {"writeLimits", "stopOld", "removeOld", "evict"} => kind'[g] # "create"
    BY <1>2 DEF ChosenPort
  <2>2. ASSUME ~mode.overlap, NEW g \in Handlers, kind[g] = "create",
               pc'[g] \in {"create", "startNew", "recordNew"}
        PROVE  wanted'[g] \in Ports \ UsedPorts'
    <3>1. g = h
      BY <1>2, <1>6, <2>2 DEF InFlight, Ended
    <3>2. wanted'[h] \in Ports \ UsedPorts
      BY <1>2, <2>2, <3>1 DEF ChosenPort
    <3>3. \A d \in rows' : hostPort'[d] = hostPort[d]
      BY <1>2, <1>7, <2>2, <3>1
    <3>4. UsedPorts' \subseteq UsedPorts
      BY <3>3 DEF UsedPorts
    <3> QED
      BY <3>1, <3>2, <3>4
  <2> QED
    BY <2>1, <2>2 DEF ChosenPort
<1>9. PortsApart'
  <2> SUFFICES ASSUME ~mode.overlap, NEW d \in rows', NEW e \in rows', d # e,
                      hostPort'[d] = hostPort'[e]
               PROVE  hostPort'[d] = NoPort
    BY DEF PortsApart
  <2>1. d \in rows /\ e \in rows /\ d \in Databases /\ e \in Databases
    BY <1>7
  <2>2. CASE hostPort'[d] = hostPort[d] /\ hostPort'[e] = hostPort[e]
    <3> HIDE DEF Proceeds
    <3>1. hostPort[d] = NoPort
      BY <1>2, <2>1, <2>2 DEF PortsApart
    <3> QED
      BY <2>2, <3>1
  <2>3. CASE ~(hostPort'[d] = hostPort[d] /\ hostPort'[e] = hostPort[e])
    <3>1. wanted[h] \notin UsedPorts
      BY <1>2, <2>1, <2>3 DEF ChosenPort
    <3>2. hostPort[d] # wanted[h] /\ hostPort[e] # wanted[h]
      BY <2>1, <3>1 DEF UsedPorts
    <3> QED
      BY <2>1, <2>3, <3>2
  <2> QED
    BY <2>2, <2>3
<1> QED
  BY <1>3, <1>4, <1>5, <1>8, <1>9 DEF SerialInv

\* A handler that begins is the only one at work when requests come one at a
\* time, and a row that it creates is new.
LEMMA BeginningAlone ==
    ASSUME SerialFacts, NEW h \in Handlers, NEW d \in Databases,
           InsertRow(h, d) \/ \E k \in Kinds \ {"create"} : ReadRow(h, d, k)
    PROVE  SerialInv'
<1> USE DatabasesAssumption DEF Goto
<1>1. TypeOK /\ Shape /\ Begun /\ Fresh
  BY DEF SerialFacts, DatabaseInv
<1>2. OneRequest /\ NewRows /\ OneName /\ ChosenPort /\ PortsApart /\ h \in Ids
  BY DEF SerialFacts, SerialInv, Ids
<1>0. \A v : pc' = [pc EXCEPT ![h] = v] => pc'[h] = v
  BY <1>1 DEF Shape
<1>3. PICK k \in Kinds, label \in {pc'[h]} :
         /\ pc[h] = "idle" /\ pc' = [pc EXCEPT ![h] = label]
         /\ kind' = [kind EXCEPT ![h] = k] /\ target' = [target EXCEPT ![h] = d]
         /\ \/ rows' = rows /\ d \in rows
            \/ /\ rows' = rows \cup {d} /\ d \notin Initial
               /\ \A g \in Handlers : kind[g] # "none" => target[g] # d
         /\ label \notin {"create", "startNew", "recordNew", "stopOld", "removeOld", "evict"}
         /\ label = "writeLimits" => k # "create"
         /\ mode.overlap \/ Settled
         /\ UNCHANGED <<dockerId, hostPort, status, limits, secret, engine, wanted, mode>>
  <2>1. CASE InsertRow(h, d)
    BY <1>0, <2>1 DEF InsertRow, MayBegin, Kinds, dockerVars
  <2>2. ASSUME NEW k \in Kinds \ {"create"}, ReadRow(h, d, k)
        PROVE  \E label \in {FirstCall(k, d)} :
         /\ pc[h] = "idle" /\ pc' = [pc EXCEPT ![h] = label]
         /\ kind' = [kind EXCEPT ![h] = k] /\ target' = [target EXCEPT ![h] = d]
         /\ rows' = rows /\ d \in rows
         /\ label \notin {"create", "startNew", "recordNew", "stopOld", "removeOld", "evict"}
         /\ mode.overlap \/ Settled
         /\ UNCHANGED <<dockerId, hostPort, status, limits, secret, engine, wanted, mode>>
    <3>1. FirstCall(k, d) \notin {"create", "startNew", "recordNew", "stopOld", "removeOld",
                                 "evict"}
      BY DEF FirstCall, Kinds
    <3> QED
      BY <2>2, <3>1 DEF ReadRow, MayBegin, rowVars, dockerVars
  <2> QED
    BY <1>0, <2>1, <2>2
<1>4. /\ pc'[h] = label /\ kind'[h] = k /\ target'[h] = d /\ k # "none"
      /\ \A g \in Handlers \ {h} :
            pc'[g] = pc[g] /\ kind'[g] = kind[g] /\ target'[g] = target[g]
      /\ kind[h] = "none" /\ engine[h] = "none"
  BY <1>1, <1>3 DEF Shape, Begun, Fresh, Kinds
<1>5. OneRequest'
  BY <1>3, <1>4 DEF OneRequest, InFlight, Settled
<1>6. NewRows'
  <2>1. ASSUME NEW e \in Databases \ Initial,
               \A g \in Handlers : kind'[g] # "none" => target'[g] # e
        PROVE  e # d /\ \A g \in Handlers : kind[g] # "none" => target[g] # e
    BY <1>4, <2>1
  <2>2. \A e \in Databases :
           /\ limits[e] \in Handlers => kind'[limits[e]] # "none"
           /\ dockerId[e] \in Handlers => kind'[dockerId[e]] # "none"
    BY <1>2, <1>4 DEF NewRows
  <2> QED
    BY <1>2, <1>3, <2>1, <2>2 DEF NewRows
<1>7. OneName'
  <2>1. \A i \in Ids : engine[i] # "none" => RowOf(i)' = RowOf(i)
    BY <1>4 DEF RowOf, Ids
  <2> QED
    BY <1>2, <1>3, <2>1 DEF OneName
<1>8. \A e \in rows' : e \in rows \/ hostPort[e] = NoPort
  BY <1>2, <1>3 DEF NewRows
<1>9. ChosenPort'
  <2>1. UsedPorts' \subseteq UsedPorts \cup {NoPort}
    BY <1>3, <1>8 DEF UsedPorts
  <2>2. NoPort \notin Ports
    OBVIOUS
  <2> QED
    BY <1>2, <1>3, <1>4, <2>1, <2>2 DEF ChosenPort
<1>10. PortsApart'
  BY <1>2, <1>3, <1>8 DEF PortsApart
<1> QED
  BY <1>5, <1>6, <1>7, <1>9, <1>10 DEF SerialInv

\* Every call of a request is of this form.
LEMMA CallProceeds ==
    ASSUME SerialFacts, NEW h \in Handlers,
           \/ create(h) \/ startStopRestart(h) \/ remove(h)
           \/ updateConfig(h) \/ resetPassword(h)
    PROVE  Proceeds(h, pc'[h])
<1>1. TypeOK /\ Shape /\ Begun /\ OneRequest /\ ChosenPort
  BY DEF SerialFacts, DatabaseInv, SerialInv
<1>2. target[h] \in Databases /\ h \in Ids
  BY <1>1 DEF TypeOK, Ids
<1> USE DEF Goto, rowVars, dockerVars, requestVars, GiveUp, TypeOK, Shape, InFlight, Ended
\* A call on a container that exists leaves all others in the state they are in.
<1>a. ASSUME NEW i, NEW state \in {"none", "stopped", "running"},
             state # "none" /\ i \in Ids => engine[i] # "none",
             SetEngine(i, state) \/ UNCHANGED engine
      PROVE  \A j \in Ids : engine'[j] # "none" => engine[j] # "none"
  BY <1>1, <1>a DEF SetEngine
<1>3. CASE CreateVolume(h)
  BY <1>1, <1>2, <1>3 DEF CreateVolume, Proceeds
<1>4. CASE PickPort(h)
  <2>1. CASE UNCHANGED wanted /\ Goto(h, "undo")
    BY <1>1, <1>2, <1>4, <2>1 DEF PickPort, Proceeds
  <2>2. CASE Ports \ UsedPorts # {} /\ wanted' = [wanted EXCEPT ![h] = getAvailablePort]
    <3>1. wanted'[h] \in Ports \ UsedPorts
      BY <1>1, <2>2, FreePort
    <3> QED
      BY <1>1, <1>2, <1>4, <2>2, <3>1 DEF PickPort, Proceeds
  <2> QED
    BY <1>4, <2>1, <2>2 DEF PickPort
<1>5. CASE CreateContainer(h)
  BY <1>1, <1>2, <1>5 DEF CreateContainer, SetEngine, Proceeds
<1>6. CASE StartNew(h)
  BY <1>1, <1>2, <1>6 DEF StartNew, Startable, SetEngine, Proceeds
<1>7. CASE RecordNew(h)
  BY <1>1, <1>2, <1>7 DEF RecordNew, Proceeds
<1>8. CASE Log(h)
  BY <1>1, <1>2, <1>8 DEF Log, Proceeds
<1>9. CASE DeleteRow(h)
  BY <1>1, <1>2, <1>9 DEF DeleteRow, Proceeds
<1>10. CASE DockerStart(h)
  BY <1>1, <1>2, <1>a, <1>10 DEF DockerStart, Startable, Proceeds
<1>11. CASE DockerStop(h)
  BY <1>1, <1>2, <1>a, <1>11 DEF DockerStop, Proceeds
<1>12. CASE DockerRestart(h)
  BY <1>1, <1>2, <1>a, <1>12 DEF DockerRestart, Startable, Proceeds
<1>13. CASE RecordStatus(h)
  BY <1>1, <1>2, <1>13 DEF RecordStatus, Proceeds
<1>14. CASE Teardown(h)
  BY <1>1, <1>2, <1>a, <1>14 DEF Teardown, Proceeds
<1>15. CASE DropVolume(h)
  BY <1>1, <1>2, <1>15 DEF DropVolume, Proceeds
<1>16. CASE WriteLimits(h)
  BY <1>1, <1>2, <1>16 DEF WriteLimits, ChosenPort, Proceeds
<1>17. CASE StopOld(h) \/ RemoveOld(h)
  BY <1>1, <1>2, <1>a, <1>17 DEF StopOld, RemoveOld, ChosenPort, Proceeds
<1>18. CASE Evict(h)
  BY <1>1, <1>2, <1>18 DEF Evict, ChosenPort, Proceeds
<1>19. CASE AlterUser(h)
  BY <1>1, <1>2, <1>19 DEF AlterUser, Proceeds
<1>20. CASE RecordPassword(h)
  BY <1>1, <1>2, <1>20 DEF RecordPassword, Proceeds
<1> QED
  BY <1>3, <1>4, <1>5, <1>6, <1>7, <1>8, <1>9, <1>10, <1>11, <1>12, <1>13, <1>14,
     <1>15, <1>16, <1>17, <1>18, <1>19, <1>20
     DEF create, startStopRestart, remove, updateConfig, resetPassword

LEMMA SerialStart == Init => SerialInv
BY DatabasesAssumption
   DEF Init, SerialInv, OneRequest, NewRows, OneName, ChosenPort, PortsApart, InFlight,
       Ended, RowOf, Ids

\* A crash ends every request.
LEMMA CrashKeepsSerial ==
    ASSUME SerialFacts, Crash \/ UNCHANGED vars
    PROVE  SerialInv'
<1>1. /\ \A h \in Handlers : pc'[h] = pc[h] \/ pc'[h] = "lost"
      /\ UNCHANGED <<rowVars, dockerVars, requestVars, wanted>>
  BY DEF Crash, vars, SerialFacts, TypeOK
<1>2. OneRequest /\ NewRows /\ OneName /\ ChosenPort /\ PortsApart
  BY DEF SerialFacts, SerialInv
<1> QED
  BY <1>1, <1>2
     DEF rowVars, dockerVars, requestVars, SerialInv, OneRequest, NewRows, OneName,
         ChosenPort, PortsApart, InFlight, Ended, RowOf, UsedPorts

\* A prune takes containers, and changes no row.
LEMMA PruneKeepsSerial ==
    ASSUME SerialFacts, Prune
    PROVE  SerialInv'
<1>1. /\ UNCHANGED <<rowVars, bind, runsWith, pc, kind, target, seen, mode, wanted>>
      /\ \A i \in Ids : engine'[i] # "none" => engine[i] # "none"
      /\ \A d \in Databases : secret'[d] \in {secret[d], None}
  BY DEF Prune
<1>2. OneRequest /\ NewRows /\ OneName /\ ChosenPort /\ PortsApart
  BY DEF SerialFacts, SerialInv
<1>3. NewRows'
  BY <1>1, <1>2 DEF rowVars, NewRows, Ids
<1> QED
  BY <1>1, <1>2, <1>3
     DEF rowVars, SerialInv, OneRequest, OneName, ChosenPort, PortsApart, InFlight,
         Ended, RowOf, UsedPorts

LEMMA SerialStep == SerialFacts /\ [Next]_vars => SerialInv'
BY BeginningAlone, CallProceeds, Proceeding, CrashKeepsSerial, PruneKeepsSerial DEF Next

LEMMA SerialHolds == Spec => []SerialFacts
<1>1. SerialInv /\ TypeOK /\ DatabaseInv /\ [Next]_vars => SerialInv'
  BY SerialStep DEF SerialFacts
<1>2. Spec => [](SerialInv /\ TypeOK /\ DatabaseInv)
  BY <1>1, SerialStart, DatabasesSafe, DatabasesTypeCorrect, PTL DEF Spec
<1> QED
  BY <1>2, PTL DEF SerialFacts

\* While requests come one at a time, no two databases get the same port,
\* whatever fails and whenever the process dies.
THEOREM DatabasePortsDistinct == Spec => []PortsDistinct
<1>1. SerialFacts => PortsDistinct
  BY DEF SerialFacts, SerialInv, PortsApart, PortsDistinct
<1> QED
  BY <1>1, SerialHolds, PTL

-----------------------------------------------------------------------------
(***************************************************************************)
(* One request at a time and no failures: what each call has reached       *)
(***************************************************************************)

\* The row refers to a container of its own, on its port, and to the only one:
\* it is there unless a prune took it.
Linked(d) ==
    /\ dockerId[d] \in Ids /\ RowOf(dockerId[d]) = d
    /\ \A i \in Ids : engine[i] # "none" /\ RowOf(i) = d => dockerId[d] = i
    /\ hostPort[d] # NoPort /\ bind[dockerId[d]] = hostPort[d]

NoContainer(d) == \A i \in Ids : engine[i] # "none" => RowOf(i) # d

StatusOK(d) == status[d] = "RUNNING" <=> engine[dockerId[d]] = "running"

PasswordOK(d) == d \in pruned \/ secret[d] = password[d]

LimitsOK(d) ==
    runsWith[dockerId[d]] = limits[d] \/ (limits[d] \in Handlers /\ ~seen[limits[d]].up)

RowOK(d) == Linked(d) /\ StatusOK(d) /\ PasswordOK(d) /\ LimitsOK(d)

\* create: the row is new until everything is recorded at once.
Creating(h) ==
    LET d == target[h] IN
    /\ pc[h] \in {"createVolume", "pickPort", "create", "undo"} => NoContainer(d)
    /\ pc[h] \in {"createVolume", "pickPort", "create", "startNew", "recordNew"} =>
          /\ dockerId[d] = None /\ limits[d] = d /\ password[d] = h /\ seen[h].password = h
          /\ secret[d] = IF pc[h] = "recordNew" THEN h ELSE None
    /\ pc[h] \in {"startNew", "recordNew"} =>
          /\ engine[h] = IF pc[h] = "startNew" THEN "stopped" ELSE "running"
          /\ bind[h] = wanted[h] /\ runsWith[h] = d
    /\ pc[h] = "log" => RowOK(d)
    /\ pc[h] \in {"createVolume", "pickPort", "create", "undo", "startNew", "recordNew", "log"}

\* start, stop and restart: only the status is yet to be written.
Switching(h) ==
    LET d == target[h] IN
    /\ Linked(d) /\ PasswordOK(d) /\ LimitsOK(d) /\ seen[h].id = dockerId[d]
    /\ pc[h] \in {"start", "stop", "restart"} => StatusOK(d)
    /\ pc[h] = "recordRunning" => engine[dockerId[d]] = "running"
    /\ pc[h] = "recordStopped" => engine[dockerId[d]] = "stopped"
    /\ pc[h] \in {"start", "stop", "restart", "recordRunning", "recordStopped"}

\* remove: the container is gone before the row is.
Removing(h) ==
    LET d == target[h] IN
    /\ pc[h] = "teardown" => RowOK(d) /\ seen[h].id = dockerId[d]
    /\ pc[h] \in {"dropVolume", "deleteRow"} => NoContainer(d)
    /\ pc[h] \in {"teardown", "dropVolume", "deleteRow"}

\* updateConfig: a running database is recreated on its old port, with the new
\* limits.
Updating(h) ==
    LET d == target[h] IN
    /\ dockerId[d] # None /\ seen[h].id = dockerId[d]
    /\ hostPort[d] # NoPort /\ seen[h].port = hostPort[d]
    /\ PasswordOK(d) /\ (d \in pruned \/ secret[d] # None)
    /\ seen[h].up <=> status[d] = "RUNNING"
    /\ pc[h] = "writeLimits" => RowOK(d)
    /\ pc[h] # "writeLimits" => seen[h].up /\ limits[d] = h
    /\ pc[h] \in {"stopOld", "removeOld"} =>
          /\ Linked(d)
          /\ engine[dockerId[d]] = IF pc[h] = "stopOld" THEN "running" ELSE "stopped"
    /\ pc[h] \in {"evict", "create"} => NoContainer(d) /\ NameBearers(d) = {}
    /\ pc[h] \in {"startNew", "recordNew"} =>
          /\ engine[h] = IF pc[h] = "startNew" THEN "stopped" ELSE "running"
          /\ bind[h] = hostPort[d] /\ runsWith[h] = h
    /\ pc[h] \in {"writeLimits", "stopOld", "removeOld", "evict", "create", "startNew",
                  "recordNew"}

\* resetPassword: the server has the new password before the row does.
Resetting(h) ==
    LET d == target[h] IN
    /\ Linked(d) /\ StatusOK(d) /\ LimitsOK(d) /\ seen[h].id = dockerId[d]
    /\ pc[h] = "alter" =>
          PasswordOK(d) /\ seen[h].password = password[d] /\ status[d] = "RUNNING"
    /\ pc[h] = "recordPassword" => secret[d] = h
    /\ pc[h] \in {"alter", "recordPassword"}

Working(h) ==
    /\ target[h] \in rows
    /\ kind[h] = "create" => Creating(h)
    /\ kind[h] \in {"start", "stop", "restart"} => Switching(h)
    /\ kind[h] = "remove" => Removing(h)
    /\ kind[h] = "updateConfig" => Updating(h)
    /\ kind[h] = "resetPassword" => Resetting(h)

\* Every container is that of a row, and what no request is about is in order.
CalmFacts ==
    /\ \A i \in Ids : engine[i] # "none" => RowOf(i) \in rows
    /\ \A d \in rows : (\A h \in Handlers : InFlight(h) => target[h] # d) => RowOK(d)
    /\ \A h \in Handlers : InFlight(h) => Working(h)

CalmInv == Calm => CalmFacts

\* Without failures and one at a time, the request at work is the only one.
LEMMA OthersRest ==
    ASSUME SerialFacts, Calm, CalmFacts, NEW h \in Handlers, InFlight(h)
    PROVE  /\ \A g \in Handlers \ {h} : ~InFlight(g)
           /\ \A e \in rows \ {target[h]} : RowOK(e)
<1>1. \A g \in Handlers \ {h} : ~InFlight(g)
  BY DEF SerialFacts, SerialInv, OneRequest, Calm
<1> QED
  BY <1>1 DEF CalmFacts

\* The containers of other rows are those the rows refer to.
LEMMA OthersOwn ==
    ASSUME SerialFacts, Calm, CalmFacts, NEW h \in Handlers, InFlight(h),
           NEW i \in Ids, engine[i] # "none", RowOf(i) # target[h]
    PROVE  RowOf(i) \in rows /\ RowOK(RowOf(i)) /\ dockerId[RowOf(i)] = i
<1>1. RowOf(i) \in rows
  BY DEF CalmFacts
<1>2. RowOK(RowOf(i))
  BY <1>1, OthersRest
<1> QED
  BY <1>1, <1>2 DEF RowOK, Linked

\* A container on a port that no other row has can be started.
LEMMA PortNotBound ==
    ASSUME SerialFacts, Calm, CalmFacts, NEW h \in Handlers, InFlight(h),
           NEW i \in Ids, engine[i] # "none", RowOf(i) = target[h],
           \A e \in rows \ {target[h]} : hostPort[e] # bind[i]
    PROVE  Startable(i)
<1> SUFFICES ASSUME NEW j \in Ids \ {i}, engine[j] = "running", bind[j] = bind[i]
             PROVE  FALSE
  BY DEF Startable, PortBound, SerialFacts, TypeOK
<1>1. RowOf(j) # target[h]
  BY DEF SerialFacts, DatabaseInv, OneWriter
<1>2. RowOf(j) \in rows /\ RowOK(RowOf(j)) /\ dockerId[RowOf(j)] = j
  BY <1>1, OthersOwn
<1> QED
  BY <1>1, <1>2 DEF RowOK, Linked

\* A call that leaves the containers of other rows alone, and gets the work on
\* its own row further or finishes it.
CallsCalmly(h) ==
    LET d == target[h] IN
    /\ \A i \in Ids : RowOf(i) # d =>
          engine'[i] = engine[i] /\ bind'[i] = bind[i] /\ runsWith'[i] = runsWith[i]
    /\ d \in rows' \/ NoContainer(d)'
    /\ InFlight(h)' => Working(h)'
    /\ ~InFlight(h)' /\ d \in rows' => RowOK(d)'

\* What a call of another request leaves of a row in order.
LEMMA RowKept ==
    ASSUME SerialFacts, NEW h \in Handlers, NEW label, Proceeds(h, label),
           CallsCalmly(h), NEW e \in rows, e # target[h], RowOK(e)
    PROVE  RowOK(e)'
<1>1. e \in Databases
  BY DEF SerialFacts, TypeOK
<1>2. /\ dockerId'[e] = dockerId[e] /\ hostPort'[e] = hostPort[e] /\ status'[e] = status[e]
      /\ limits'[e] = limits[e] /\ password'[e] = password[e] /\ secret'[e] = secret[e]
      /\ seen' = seen /\ pruned' = pruned /\ \A i \in Ids : RowOf(i)' = RowOf(i)
  BY <1>1 DEF Proceeds, RowOf
<1>3. dockerId[e] \in Ids /\ RowOf(dockerId[e]) = e /\ RowOf(dockerId[e])' = e
  BY <1>2 DEF RowOK, Linked, RowOf, Proceeds
<1>4. /\ engine'[dockerId[e]] = engine[dockerId[e]] /\ bind'[dockerId[e]] = bind[dockerId[e]]
      /\ runsWith'[dockerId[e]] = runsWith[dockerId[e]]
  BY <1>3 DEF CallsCalmly
<1>5. \A i \in Ids : engine'[i] # "none" /\ RowOf(i) = e => dockerId[e] = i
  BY DEF CallsCalmly, RowOK, Linked
<1>6. Linked(e)'
  BY <1>2, <1>3, <1>4, <1>5 DEF RowOK, Linked
<1>7. StatusOK(e)' /\ PasswordOK(e)' /\ LimitsOK(e)'
  BY <1>2, <1>4 DEF RowOK, StatusOK, PasswordOK, LimitsOK
<1> QED
  BY <1>6, <1>7 DEF RowOK

\* Such a call keeps the facts.
LEMMA CalmCalls ==
    ASSUME SerialFacts, Calm, CalmFacts, NEW h \in Handlers, NEW label,
           Proceeds(h, label), CallsCalmly(h)
    PROVE  CalmFacts'
<1> DEFINE d == target[h]
<1>1. /\ InFlight(h) /\ d \in Databases /\ target' = target /\ rows' \subseteq rows
      /\ rows \subseteq Databases /\ rows \ {d} \subseteq rows'
      /\ \A i \in Ids : RowOf(i)' = RowOf(i)
      /\ \A g \in Handlers \ {h} : pc'[g] = pc[g]
  BY DEF Proceeds, SerialFacts, TypeOK, RowOf, DatabaseInv, Shape
<1>2. \A i \in Ids : engine'[i] # "none" => RowOf(i) \in rows'
  <2> SUFFICES ASSUME NEW i \in Ids, engine'[i] # "none"
               PROVE  RowOf(i) \in rows'
    OBVIOUS
  <2>1. CASE RowOf(i) = d
    BY <1>1, <2>1 DEF CallsCalmly, NoContainer
  <2>2. CASE RowOf(i) # d
    BY <1>1, <2>2 DEF CallsCalmly, CalmFacts
  <2> QED
    BY <2>1, <2>2
<1>3. ASSUME NEW e \in rows', e # d
      PROVE  RowOK(e)'
  <2>1. RowOK(e)
    BY <1>1, <1>3, OthersRest
  <2>2. RowOK(e)'
    BY <1>1, <1>3, <2>1, RowKept
  <2> QED
    BY <1>1, <1>3, <2>1, <2>2 DEF Proceeds
<1>6. ASSUME NEW e \in rows', \A g \in Handlers : InFlight(g)' => target'[g] # e
      PROVE  RowOK(e)'
  <2>1. CASE e = d
    BY <1>1, <1>6, <2>1 DEF CallsCalmly
  <2>2. CASE e # d
    BY <1>3, <2>2
  <2> QED
    BY <2>1, <2>2
<1>7. ASSUME NEW g \in Handlers, InFlight(g)'
      PROVE  Working(g)'
  <2>1. g = h
    BY <1>1, <1>7, OthersRest DEF InFlight
  <2> QED
    BY <1>7, <2>1 DEF CallsCalmly
<1> QED
  BY <1>1, <1>2, <1>6, <1>7 DEF CalmFacts

\* The call a request awaits tells what was asked.
LEMMA Course ==
    ASSUME SerialFacts, Calm, CalmFacts, NEW h \in Handlers, InFlight(h)
    PROVE  /\ target[h] \in rows /\ target[h] \in Databases /\ Working(h)
           /\ pc[h] \in {"createVolume", "pickPort", "log", "undo"} => kind[h] = "create"
           /\ pc[h] \in {"create", "startNew", "recordNew"} =>
                 kind[h] \in {"create", "updateConfig"}
           /\ pc[h] \in {"start", "stop", "restart", "recordRunning", "recordStopped"} =>
                 kind[h] \in {"start", "stop", "restart"}
           /\ pc[h] \in {"teardown", "dropVolume", "deleteRow"} => kind[h] = "remove"
           /\ pc[h] \in {"writeLimits", "stopOld", "removeOld", "evict"} =>
                 kind[h] = "updateConfig"
           /\ pc[h] \in {"alter", "recordPassword"} => kind[h] = "resetPassword"
<1>1. Working(h) /\ target[h] \in rows
  BY DEF CalmFacts, Working
<1>2. kind[h] \in Kinds /\ target[h] \in Databases
  BY DEF SerialFacts, TypeOK, DatabaseInv, Begun, InFlight, Ended
<1>3. CASE kind[h] = "create"
  BY <1>1, <1>2, <1>3 DEF Working, Creating
<1>4. CASE kind[h] \in {"start", "stop", "restart"}
  BY <1>1, <1>2, <1>4 DEF Working, Switching
<1>5. CASE kind[h] = "remove"
  BY <1>1, <1>2, <1>5 DEF Working, Removing
<1>6. CASE kind[h] = "updateConfig"
  BY <1>1, <1>2, <1>6 DEF Working, Updating
<1>7. CASE kind[h] = "resetPassword"
  BY <1>1, <1>2, <1>7 DEF Working, Resetting
<1> QED
  BY <1>2, <1>3, <1>4, <1>5, <1>6, <1>7 DEF Kinds

\* What no call changes, and what cannot happen without failures.
LEMMA CalmContext ==
    ASSUME SerialFacts, Calm, NEW h \in Handlers, Proceeds(h, pc'[h])
    PROVE  /\ \A label : Goto(h, label) => pc'[h] = label
           /\ kind' = kind /\ target' = target /\ seen' = seen
           /\ \A i \in Ids : RowOf(i)' = RowOf(i)
           /\ h \in Ids /\ RowOf(h) = target[h] /\ None \notin Ids
           /\ \A what : ~MayFail(what)
BY DatabasesAssumption
   DEF SerialFacts, DatabaseInv, Shape, Proceeds, RowOf, Ids, Calm, MayFail, Goto

\* The calls of create.
LEMMA CalmCreate ==
    ASSUME SerialFacts, Calm, CalmFacts, NEW h \in Handlers, create(h),
           Proceeds(h, pc'[h])
    PROVE  CallsCalmly(h)
<1>1. /\ kind[h] = "create" /\ Creating(h) /\ target[h] \in rows /\ TypeOK
      /\ target[h] \in Databases
  BY Course DEF create, CreateVolume, PickPort, Log, InFlight, Ended, Working, SerialFacts
<1>c. /\ \A label : Goto(h, label) => pc'[h] = label
      /\ kind' = kind /\ target' = target /\ seen' = seen
      /\ \A i \in Ids : RowOf(i)' = RowOf(i)
      /\ h \in Ids /\ RowOf(h) = target[h] /\ None \notin Ids
      /\ ~MayFail("docker") /\ ~MayFail("db")
  BY CalmContext
<1> USE <1>1, <1>c
    DEF Creating, rowVars, dockerVars, requestVars, InFlight, Ended, CallsCalmly,
        Working
<1>2. CASE CreateVolume(h)
  BY <1>2 DEF CreateVolume, NoContainer
<1>3. CASE PickPort(h)
  BY <1>3 DEF PickPort, NoContainer
<1>4. CASE Log(h)
  BY <1>4 DEF Log, RowOK, Linked, StatusOK, PasswordOK, LimitsOK
<1> QED
  BY <1>2, <1>3, <1>4 DEF create

\* The container is created, for a new row or in place of an old container.
LEMMA CalmNewContainer ==
    ASSUME SerialFacts, Calm, CalmFacts, NEW h \in Handlers, CreateContainer(h),
           Proceeds(h, pc'[h])
    PROVE  CallsCalmly(h)
<1>1. /\ kind[h] \in {"create", "updateConfig"} /\ Working(h) /\ target[h] \in rows
      /\ TypeOK /\ target[h] \in Databases
  BY Course DEF CreateContainer, InFlight, Ended, SerialFacts
<1>2. kind[h] = "updateConfig" => NameBearers(target[h]) = {}
  BY <1>1 DEF CreateContainer, Working, Updating
<1>c. /\ \A label : Goto(h, label) => pc'[h] = label
      /\ kind' = kind /\ target' = target /\ seen' = seen
      /\ \A i \in Ids : RowOf(i)' = RowOf(i)
      /\ h \in Ids /\ RowOf(h) = target[h] /\ None \notin Ids
      /\ ~MayFail("docker") /\ ~MayFail("db")
  BY CalmContext
<1> USE <1>1, <1>c
    DEF rowVars, dockerVars, requestVars, InFlight, Ended, CallsCalmly, Working
<1>3. CASE NameBearers(target[h]) # {}
  BY <1>2, <1>3 DEF CreateContainer, GiveUp, Creating, NoContainer
<1>4. CASE kind[h] = "create" /\ NameBearers(target[h]) = {}
  BY <1>4 DEF CreateContainer, SetEngine, Creating, TypeOK
<1>5. CASE kind[h] = "updateConfig" /\ NameBearers(target[h]) = {}
  BY <1>5 DEF CreateContainer, SetEngine, Updating, PasswordOK, TypeOK
<1> QED
  BY <1>3, <1>4, <1>5

\* It starts, since no other container has its port.
LEMMA CalmStartNew ==
    ASSUME SerialFacts, Calm, CalmFacts, NEW h \in Handlers, StartNew(h),
           Proceeds(h, pc'[h])
    PROVE  CallsCalmly(h)
<1>1. /\ kind[h] \in {"create", "updateConfig"} /\ Working(h) /\ target[h] \in rows
      /\ TypeOK /\ target[h] \in Databases
  BY Course DEF StartNew, InFlight, Ended, SerialFacts
<1>2. engine[h] = "stopped" /\ pc[h] = "startNew" /\ InFlight(h)
  BY <1>1 DEF StartNew, Working, Creating, Updating, InFlight, Ended
<1>3. \A e \in rows \ {target[h]} : hostPort[e] # bind[h]
  <2>1. CASE kind[h] = "create"
    <3>1. bind[h] = wanted[h] /\ wanted[h] \notin UsedPorts
      BY <1>1, <1>2, <2>1
         DEF Working, Creating, SerialFacts, SerialInv, ChosenPort, Calm
    <3> QED
      BY <3>1 DEF UsedPorts
  <2>2. CASE kind[h] = "updateConfig"
    BY <1>1, <1>2, <2>2
       DEF Working, Updating, SerialFacts, SerialInv, PortsApart, Calm
  <2> QED
    BY <1>1, <2>1, <2>2
<1>4. Startable(h)
  BY <1>2, <1>3, CalmContext, PortNotBound
<1>c. /\ \A label : Goto(h, label) => pc'[h] = label
      /\ kind' = kind /\ target' = target /\ seen' = seen
      /\ \A i \in Ids : RowOf(i)' = RowOf(i)
      /\ h \in Ids /\ RowOf(h) = target[h] /\ None \notin Ids
      /\ ~MayFail("docker") /\ ~MayFail("db")
  BY CalmContext
<1> USE <1>1, <1>2, <1>4, <1>c
    DEF StartNew, SetEngine, rowVars, dockerVars, requestVars, CallsCalmly, Working,
        InFlight, Ended
<1>5. CASE kind[h] = "create"
  BY <1>5 DEF Creating, TypeOK
<1>6. CASE kind[h] = "updateConfig"
  BY <1>6 DEF Updating, PasswordOK, TypeOK
<1> QED
  BY <1>5, <1>6

\* The row is made to refer to it.
LEMMA CalmRecordNew ==
    ASSUME SerialFacts, Calm, CalmFacts, NEW h \in Handlers, RecordNew(h),
           Proceeds(h, pc'[h])
    PROVE  CallsCalmly(h)
<1>1. /\ kind[h] \in {"create", "updateConfig"} /\ Working(h) /\ target[h] \in rows
      /\ TypeOK /\ target[h] \in Databases
  BY Course DEF RecordNew, InFlight, Ended, SerialFacts
<1>2. pc[h] = "recordNew" /\ engine[h] = "running"
  BY <1>1 DEF RecordNew, Working, Creating, Updating
<1>3. kind[h] = "create" => wanted[h] # NoPort
  BY <1>2, DatabasesAssumption DEF SerialFacts, SerialInv, ChosenPort, Calm
<1>c. /\ \A label : Goto(h, label) => pc'[h] = label
      /\ kind' = kind /\ target' = target /\ seen' = seen
      /\ \A i \in Ids : RowOf(i)' = RowOf(i)
      /\ h \in Ids /\ RowOf(h) = target[h] /\ None \notin Ids
      /\ ~MayFail("docker") /\ ~MayFail("db")
  BY CalmContext
<1>4. \A i \in Ids : engine[i] # "none" /\ RowOf(i) = target[h] => i = h
  BY <1>2, <1>c DEF SerialFacts, DatabaseInv, OneWriter
<1> USE <1>1, <1>2, <1>4, <1>c
    DEF RecordNew, rowVars, dockerVars, requestVars, InFlight, Ended, CallsCalmly,
        Working, RowOK, Linked, StatusOK, PasswordOK, LimitsOK, TypeOK
<1>5. CASE kind[h] = "create"
  BY <1>3, <1>5 DEF Creating
<1>6. CASE kind[h] = "updateConfig"
  BY <1>6 DEF Updating
<1> QED
  BY <1>5, <1>6

\* start, stop and restart.
LEMMA CalmSwitch ==
    ASSUME SerialFacts, Calm, CalmFacts, NEW h \in Handlers, startStopRestart(h),
           Proceeds(h, pc'[h])
    PROVE  CallsCalmly(h)
<1>1. /\ kind[h] \in {"start", "stop", "restart"} /\ Working(h) /\ target[h] \in rows
      /\ TypeOK /\ target[h] \in Databases /\ InFlight(h)
  BY Course
     DEF startStopRestart, DockerStart, DockerStop, DockerRestart, RecordStatus, InFlight,
         Ended, SerialFacts
<1>2. Switching(h)
  BY <1>1 DEF Working
<1>c. /\ \A label : Goto(h, label) => pc'[h] = label
      /\ kind' = kind /\ target' = target /\ seen' = seen
      /\ \A i \in Ids : RowOf(i)' = RowOf(i)
      /\ h \in Ids /\ RowOf(h) = target[h] /\ None \notin Ids
      /\ ~MayFail("docker") /\ ~MayFail("db")
  BY CalmContext
<1> USE <1>1, <1>2, <1>c
    DEF SetEngine, rowVars, dockerVars, requestVars, InFlight, Ended, CallsCalmly, Working,
        Switching, Linked, PasswordOK, LimitsOK, TypeOK
<1>4. CASE DockerStart(h)
  BY <1>4 DEF DockerStart, Startable, RowOK, StatusOK
<1>5. CASE DockerStop(h)
  BY <1>5 DEF DockerStop, RowOK, StatusOK
<1>6. CASE DockerRestart(h)
  BY <1>6 DEF DockerRestart, Startable, RowOK, StatusOK
<1>7. CASE RecordStatus(h)
  BY <1>7 DEF RecordStatus, RowOK, StatusOK
<1> QED
  BY <1>4, <1>5, <1>6, <1>7 DEF startStopRestart

\* remove, and the end of a creation that was given up.
LEMMA CalmRemove ==
    ASSUME SerialFacts, Calm, CalmFacts, NEW h \in Handlers, remove(h),
           Proceeds(h, pc'[h])
    PROVE  CallsCalmly(h)
<1>1. /\ Working(h) /\ target[h] \in rows /\ TypeOK /\ target[h] \in Databases
      /\ InFlight(h) /\ (pc[h] = "undo" => kind[h] = "create")
      /\ pc[h] \in {"teardown", "dropVolume", "deleteRow"} => kind[h] = "remove"
  BY Course
     DEF remove, Teardown, DropVolume, DeleteRow, InFlight, Ended, SerialFacts
<1>c. /\ \A label : Goto(h, label) => pc'[h] = label
      /\ kind' = kind /\ target' = target /\ seen' = seen
      /\ \A i \in Ids : RowOf(i)' = RowOf(i)
      /\ h \in Ids /\ RowOf(h) = target[h] /\ None \notin Ids
      /\ ~MayFail("docker") /\ ~MayFail("db")
  BY CalmContext
<1> USE <1>1, <1>c
    DEF SetEngine, rowVars, dockerVars, requestVars, InFlight, Ended, CallsCalmly, Working,
        NoContainer
<1>2. CASE Teardown(h)
  <2>1. Linked(target[h]) /\ seen[h].id = dockerId[target[h]] /\ kind[h] = "remove"
    BY <1>2 DEF Teardown, Removing, RowOK
  <2>2. engine' = [engine EXCEPT ![dockerId[target[h]]] = "none"]
    BY <1>2, <2>1 DEF Teardown
  <2>3. \A i \in Ids : engine'[i] # "none" => RowOf(i) # target[h]
    BY <2>1, <2>2 DEF Linked, TypeOK
  <2> QED
    BY <1>2, <2>1, <2>2, <2>3 DEF Teardown, Removing, Linked, TypeOK
<1>3. CASE DropVolume(h)
  BY <1>3 DEF DropVolume, Removing
<1>4. CASE DeleteRow(h)
  <2>1. \A i \in Ids : engine[i] # "none" => RowOf(i) # target[h]
    BY <1>4 DEF DeleteRow, Removing, Creating
  <2> QED
    BY <1>4, <2>1 DEF DeleteRow
<1> QED
  BY <1>2, <1>3, <1>4 DEF remove

\* updateConfig, until the new container is created.
LEMMA CalmUpdate ==
    ASSUME SerialFacts, Calm, CalmFacts, NEW h \in Handlers,
           WriteLimits(h) \/ StopOld(h) \/ RemoveOld(h) \/ Evict(h),
           Proceeds(h, pc'[h])
    PROVE  CallsCalmly(h)
<1>1. /\ kind[h] = "updateConfig" /\ Working(h) /\ target[h] \in rows
      /\ TypeOK /\ target[h] \in Databases /\ InFlight(h)
  BY Course
     DEF WriteLimits, StopOld, RemoveOld, Evict, InFlight, Ended, SerialFacts
<1>2. Updating(h)
  BY <1>1 DEF Working
<1>c. /\ \A label : Goto(h, label) => pc'[h] = label
      /\ kind' = kind /\ target' = target /\ seen' = seen
      /\ \A i \in Ids : RowOf(i)' = RowOf(i)
      /\ h \in Ids /\ RowOf(h) = target[h] /\ None \notin Ids
      /\ ~MayFail("docker") /\ ~MayFail("db")
  BY CalmContext
<1>3. CASE WriteLimits(h)
  <2>1. limits' = [limits EXCEPT ![target[h]] = h] /\ pc[h] = "writeLimits"
        /\ pc'[h] = IF seen[h].up THEN "stopOld" ELSE "done"
    BY <1>1, <1>2, <1>3, <1>c DEF WriteLimits, Updating
  <2> QED
    BY <1>1, <1>2, <1>3, <1>c, <2>1
       DEF WriteLimits, rowVars, dockerVars, requestVars, InFlight, Ended, CallsCalmly,
           Working, Updating, RowOK, Linked, StatusOK, PasswordOK, LimitsOK, TypeOK
<1>4. CASE StopOld(h)
  BY <1>1, <1>2, <1>4, <1>c
     DEF StopOld, SetEngine, rowVars, dockerVars, requestVars, InFlight, Ended,
         CallsCalmly, Working, Updating, Linked, PasswordOK, TypeOK
<1>5. CASE RemoveOld(h)
  <2>1. Linked(target[h]) /\ engine' = [engine EXCEPT ![dockerId[target[h]]] = "none"]
    BY <1>1, <1>2, <1>5, <1>c DEF RemoveOld, SetEngine, Updating, Linked
  <2>2. \A i \in Ids : engine'[i] # "none" =>
           engine[i] # "none" /\ RowOf(i) # target[h] /\ i # dockerId[target[h]]
    BY <1>1, <2>1 DEF Linked, TypeOK
  <2>3. engine[dockerId[target[h]]] # "none"
    BY <1>2, <1>5, <2>1 DEF RemoveOld, Updating
  <2>4. \A i \in Ids : engine'[i] # "none" => NameOf[RowOf(i)] # NameOf[target[h]]
    BY <2>1, <2>2, <2>3 DEF Linked, SerialFacts, SerialInv, OneName
  <2>5. NoContainer(target[h])' /\ NameBearers(target[h])' = {}
    BY <1>c, <2>2, <2>4 DEF NoContainer, NameBearers
  <2>6. \A i \in Ids : RowOf(i) # target[h] => engine'[i] = engine[i]
    BY <2>1 DEF Linked, TypeOK
  <2> QED
    BY <1>1, <1>2, <1>5, <1>c, <2>1, <2>3, <2>5, <2>6
       DEF RemoveOld, rowVars, dockerVars, requestVars, InFlight, Ended, CallsCalmly,
           Working, Updating, PasswordOK
<1>6. CASE Evict(h)
  <2>1. NameBearers(target[h]) = {}
    BY <1>2, <1>6 DEF Evict, Updating
  <2>2. \A i \in Ids : engine'[i] = engine[i]
    BY <1>6, <1>c, <2>1 DEF Evict
  <2>3. NoContainer(target[h])' /\ NameBearers(target[h])' = {}
    BY <1>2, <1>6, <1>c, <2>1, <2>2 DEF Evict, Updating, NoContainer, NameBearers
  <2> QED
    BY <1>1, <1>2, <1>6, <1>c, <2>2, <2>3
       DEF Evict, rowVars, dockerVars, requestVars, InFlight, Ended, CallsCalmly,
           Working, Updating, PasswordOK
<1> QED
  BY <1>3, <1>4, <1>5, <1>6

\* resetPassword.
LEMMA CalmReset ==
    ASSUME SerialFacts, Calm, CalmFacts, NEW h \in Handlers, resetPassword(h),
           Proceeds(h, pc'[h])
    PROVE  CallsCalmly(h)
<1>1. /\ kind[h] = "resetPassword" /\ Working(h) /\ target[h] \in rows
      /\ TypeOK /\ target[h] \in Databases
  BY Course DEF resetPassword, AlterUser, RecordPassword, InFlight, Ended, SerialFacts
<1>2. Resetting(h)
  BY <1>1 DEF Working
<1>c. /\ \A label : Goto(h, label) => pc'[h] = label
      /\ kind' = kind /\ target' = target /\ seen' = seen
      /\ \A i \in Ids : RowOf(i)' = RowOf(i)
      /\ h \in Ids /\ RowOf(h) = target[h] /\ None \notin Ids
      /\ ~MayFail("docker") /\ ~MayFail("db")
  BY CalmContext
<1> USE <1>1, <1>2, <1>c
    DEF rowVars, dockerVars, requestVars, InFlight, Ended, CallsCalmly, Working, Resetting,
        Linked, StatusOK, LimitsOK, PasswordOK, TypeOK
<1>3. CASE AlterUser(h)
  BY <1>3 DEF AlterUser, RowOK
<1>4. CASE RecordPassword(h)
  BY <1>4 DEF RecordPassword, RowOK
<1> QED
  BY <1>3, <1>4 DEF resetPassword

\* A request begins when all others have ended, so that its row is in order.
LEMMA CalmBegin ==
    ASSUME SerialFacts, Calm, CalmFacts, NEW h \in Handlers, NEW d \in Databases,
           InsertRow(h, d) \/ \E k \in Kinds \ {"create"} : ReadRow(h, d, k)
    PROVE  CalmFacts'
<1>1. TypeOK /\ Shape /\ Begun /\ Fresh /\ NewRows /\ OneRequest
  BY DEF SerialFacts, DatabaseInv, SerialInv
<1>2. /\ kind[h] = "none" /\ pc[h] = "idle" /\ engine[h] = "none" /\ h \in Ids
      /\ \A g \in Handlers : ~InFlight(g)
      /\ \A g \in Handlers \ {h} : pc'[g] = pc[g]
      /\ \A g \in Handlers \ {h} : target'[g] = target[g] /\ seen'[g] = seen[g]
      /\ UNCHANGED <<dockerId, hostPort, status, limits, secret, engine, bind, runsWith,
                     pruned>>
      /\ target'[h] = d
  BY <1>1
     DEF InsertRow, ReadRow, MayBegin, Calm, Settled, Goto, rowVars, dockerVars, Begun,
         Fresh, Shape, Ids
<1>3. /\ rows \subseteq rows' /\ rows' = rows \cup {d}
      /\ \A e \in rows : password'[e] = password[e]
  <2>1. CASE InsertRow(h, d)
    <3>1. d \notin rows /\ password' = [password EXCEPT ![d] = h] /\ rows' = rows \cup {d}
      BY <1>1, <2>1 DEF InsertRow, NewRows
    <3> QED
      BY <1>1, <3>1 DEF TypeOK
  <2>2. CASE \E k \in Kinds \ {"create"} : ReadRow(h, d, k)
    BY <2>2 DEF ReadRow, rowVars
  <2> QED
    BY <2>1, <2>2
<1>4. /\ \A i \in Ids : engine[i] # "none" => i # h /\ RowOf(i)' = RowOf(i)
      /\ \A e \in rows : RowOK(e)
  BY <1>2 DEF RowOf, Ids, CalmFacts
<1>5. ASSUME NEW e \in rows
      PROVE  RowOK(e)'
  <2>1. RowOK(e) /\ e \in Databases
    BY <1>1, <1>4 DEF TypeOK
  <2>2. RowOf(dockerId[e])' = e
    <3>1. dockerId[e] # h /\ dockerId[e] \in Ids /\ RowOf(dockerId[e]) = e
      BY <1>1, <1>2, <2>1 DEF NewRows, RowOK, Linked
    <3> QED
      BY <1>2, <3>1 DEF RowOf, Ids
  <2>3. limits[e] \in Handlers => seen'[limits[e]] = seen[limits[e]]
    BY <1>1, <1>2, <2>1 DEF NewRows
  <2>4. Linked(e)'
    BY <1>2, <1>4, <2>1, <2>2 DEF RowOK, Linked
  <2>5. StatusOK(e)' /\ PasswordOK(e)' /\ LimitsOK(e)'
    BY <1>2, <1>3, <2>1, <2>3 DEF RowOK, StatusOK, PasswordOK, LimitsOK
  <2> QED
    BY <2>4, <2>5 DEF RowOK
<1>6. Working(h)'
  <2>1. CASE InsertRow(h, d)
    <3>1. /\ d \notin Initial /\ d \in rows'
          /\ \A g \in Handlers : kind[g] # "none" => target[g] # d
          /\ kind'[h] = "create" /\ pc'[h] = "createVolume"
          /\ password'[d] = h /\ seen'[h].password = h
      BY <1>1, <2>1 DEF InsertRow, TypeOK, Shape, Goto
    <3>2. dockerId[d] = None /\ limits[d] = d /\ secret[d] = None
      BY <1>1, <3>1 DEF NewRows
    <3>3. \A i \in Ids : engine[i] # "none" => RowOf(i) # d
      BY <1>1, <3>1 DEF NewRows, Fresh, RowOf, Ids
    <3> QED
      BY <1>2, <1>4, <3>1, <3>2, <3>3 DEF Working, Creating, NoContainer
  <2>2. ASSUME NEW k \in Kinds \ {"create"}, ReadRow(h, d, k)
        PROVE  Working(h)'
    <3>1. /\ d \in rows /\ kind'[h] = k /\ pc'[h] = FirstCall(k, d)
          /\ seen'[h] = [id |-> dockerId[d], port |-> hostPort[d],
                         up |-> status[d] = "RUNNING", password |-> password[d]]
          /\ k = "resetPassword" => status[d] = "RUNNING"
          /\ password' = password
      BY <1>1, <2>2 DEF ReadRow, TypeOK, Shape, Goto, rowVars
    <3>2. /\ RowOK(d) /\ RowOK(d)' /\ dockerId[d] # None
          /\ d \in pruned \/ secret[d] # None
      BY <1>1, <1>4, <1>5, <3>1, DatabasesAssumption
         DEF RowOK, Linked, PasswordOK, TypeOK
    <3>3. /\ k \in {"start", "stop", "restart"} => pc'[h] = k
          /\ k = "remove" => pc'[h] = "teardown"
          /\ k = "updateConfig" => pc'[h] = "writeLimits"
          /\ k = "resetPassword" => pc'[h] = "alter"
      BY <3>1, <3>2 DEF FirstCall
    <3>4. target'[h] = d /\ d \in rows' /\ dockerId'[d] = dockerId[d]
          /\ hostPort'[d] = hostPort[d] /\ status'[d] = status[d] /\ secret'[d] = secret[d]
          /\ pruned' = pruned
      BY <1>2, <1>3
    <3>5. CASE k \in {"start", "stop", "restart"}
      BY <3>1, <3>2, <3>3, <3>4, <3>5 DEF Working, Switching, RowOK
    <3>6. CASE k = "remove"
      BY <3>1, <3>2, <3>3, <3>4, <3>6 DEF Working, Removing
    <3>7. CASE k = "updateConfig"
      <4>1. /\ seen'[h].id = dockerId[d] /\ seen'[h].port = hostPort[d]
            /\ seen'[h].up <=> status[d] = "RUNNING"
        <5>1. seen'[h].id = dockerId[d] /\ seen'[h].port = hostPort[d]
          BY <3>1
        <5>2. seen'[h].up = (status[d] = "RUNNING")
          BY <3>1
        <5> QED
          BY <5>1, <5>2, Zenon
      <4>2. hostPort'[d] # NoPort /\ PasswordOK(d)'
        BY <3>2 DEF RowOK, Linked
      <4> QED
        BY <3>1, <3>2, <3>3, <3>4, <3>7, <4>1, <4>2 DEF Working, Updating
    <3>8. CASE k = "resetPassword"
      BY <3>1, <3>2, <3>3, <3>4, <3>8 DEF Working, Resetting, RowOK
    <3> QED
      BY <3>5, <3>6, <3>7, <3>8 DEF Kinds
  <2> QED
    BY <2>1, <2>2
<1>7. \A i \in Ids : engine'[i] # "none" => RowOf(i)' \in rows'
  BY <1>2, <1>3, <1>4 DEF CalmFacts
<1>8. ASSUME NEW e \in rows', \A g \in Handlers : InFlight(g)' => target'[g] # e
      PROVE  RowOK(e)'
  <2>1. InFlight(h)'
    BY <1>1
       DEF InsertRow, ReadRow, Goto, Shape, FirstCall, InFlight, Ended, Kinds
  <2> QED
    BY <1>2, <1>3, <1>5, <1>8, <2>1
<1>9. ASSUME NEW g \in Handlers, InFlight(g)'
      PROVE  Working(g)'
  BY <1>2, <1>6, <1>9 DEF InFlight
<1> QED
  BY <1>7, <1>8, <1>9 DEF CalmFacts

\* The facts hold initially and are kept by every step.
LEMMA CalmStart == Init => CalmInv
<1> SUFFICES ASSUME Init PROVE CalmFacts
  BY DEF CalmInv
<1>1. \A h \in Handlers : ~InFlight(h)
  BY DEF Init, InFlight, Ended
<1>2. ASSUME NEW e \in rows
      PROVE  RowOK(e)
  BY <1>2, DatabasesAssumption
     DEF Init, RowOK, Linked, StatusOK, PasswordOK, LimitsOK, RowOf, Ids
<1>3. \A i \in Ids : engine[i] # "none" => RowOf(i) \in rows
  BY DatabasesAssumption DEF Init, RowOf, Ids
<1> QED
  BY <1>1, <1>2, <1>3 DEF CalmFacts

LEMMA CalmCall ==
    ASSUME SerialFacts, Calm, CalmFacts, NEW h \in Handlers,
           \/ create(h) \/ startStopRestart(h) \/ remove(h)
           \/ updateConfig(h) \/ resetPassword(h)
    PROVE  CalmFacts'
<1>1. Proceeds(h, pc'[h])
  BY CallProceeds
<1>2. CallsCalmly(h)
  BY <1>1, CalmCreate, CalmNewContainer, CalmStartNew, CalmRecordNew, CalmSwitch,
     CalmRemove, CalmUpdate, CalmReset DEF updateConfig
<1> QED
  BY <1>1, <1>2, CalmCalls

\* A prune takes containers that do not run, as their rows say, and with a
\* volume the password that is in it.
LEMMA CalmPrune ==
    ASSUME SerialFacts, Calm, CalmFacts, Prune
    PROVE  CalmFacts'
<1>1. /\ \A h \in Handlers : ~InFlight(h) /\ ~InFlight(h)'
      /\ UNCHANGED <<rowVars, bind, runsWith, kind, target, seen>>
      /\ engine' = [i \in Ids |-> IF engine[i] = "stopped" THEN "none" ELSE engine[i]]
      /\ \A i \in Ids : RowOf(i)' = RowOf(i)
  BY DEF Prune, Calm, Settled, InFlight, RowOf
<1>2. PICK gone \in SUBSET volume :
         /\ secret' = [d \in Databases |-> IF d \in gone THEN None ELSE secret[d]]
         /\ pruned' = pruned \cup {d \in gone : secret[d] # None}
  BY DEF Prune
<1>3. ASSUME NEW e \in rows
      PROVE  RowOK(e)'
  <2>1. RowOK(e) /\ e \in Databases /\ password[e] # None
    BY <1>1, DatabasesAssumption DEF CalmFacts, SerialFacts, TypeOK
  <2>2. Linked(e)' /\ StatusOK(e)' /\ LimitsOK(e)'
    BY <1>1, <2>1 DEF RowOK, Linked, StatusOK, LimitsOK, rowVars
  <2>3. PasswordOK(e)'
    BY <1>1, <1>2, <2>1 DEF RowOK, PasswordOK, rowVars
  <2> QED
    BY <2>2, <2>3 DEF RowOK
<1> QED
  BY <1>1, <1>3 DEF CalmFacts, rowVars

LEMMA CalmStep == SerialFacts /\ CalmInv /\ [Next]_vars => CalmInv'
<1> SUFFICES ASSUME SerialFacts, CalmInv, [Next]_vars, Calm'
             PROVE  CalmFacts'
  BY DEF CalmInv
<1>1. Calm /\ CalmFacts
  <2>1. mode' = mode
    <3>1. ASSUME NEW h \in Handlers, NEW d \in Databases,
                 InsertRow(h, d) \/ \E k \in Kinds \ {"create"} : ReadRow(h, d, k)
          PROVE  mode' = mode
      BY <3>1 DEF InsertRow, ReadRow
    <3>2. ASSUME NEW h \in Handlers,
                 \/ create(h) \/ startStopRestart(h) \/ remove(h)
                 \/ updateConfig(h) \/ resetPassword(h)
          PROVE  mode' = mode
      BY <3>2, CallProceeds DEF Proceeds
    <3>3. Crash \/ Prune \/ UNCHANGED vars => mode' = mode
      BY DEF Crash, Prune, vars, requestVars
    <3> QED
      BY <3>1, <3>2, <3>3 DEF Next
  <2> QED
    BY <2>1 DEF Calm, CalmInv
<1>2. CASE UNCHANGED vars
  BY <1>1, <1>2
     DEF vars, rowVars, dockerVars, requestVars, CalmFacts, RowOf, InFlight, Working,
         Creating, Switching, Removing, Updating, Resetting, RowOK, Linked, NoContainer, NameBearers,
         StatusOK, PasswordOK, LimitsOK
<1>3. ~Crash
  BY <1>1 DEF Crash, MayFail, Calm
<1> QED
  BY <1>1, <1>2, <1>3, CalmBegin, CalmCall, CalmPrune DEF Next

LEMMA CalmHolds == Spec => []CalmInv
BY CalmStart, CalmStep, SerialHolds, PTL DEF Spec

\* One request at a time and without failures: status, password and limits of
\* a row say what its container and the server inside it do, whatever the
\* sequence of calls.
THEOREM RowsTellTheTruth == Spec => []RowInSync
<1>1. CalmInv /\ SerialFacts => RowInSync
  <2> SUFFICES ASSUME CalmInv, SerialFacts, Settled, Calm, NEW d \in rows
               PROVE  /\ dockerId[d] # None
                      /\ status[d] = "RUNNING" <=> engine[dockerId[d]] = "running"
                      /\ d \notin pruned => secret[d] = password[d]
                      /\ \/ runsWith[dockerId[d]] = limits[d]
                         \/ limits[d] \in Handlers /\ ~seen[limits[d]].up
    BY DEF RowInSync, StatusHonest, PasswordWorks, LimitsApplied
  <2> QED
    BY DatabasesAssumption
       DEF CalmInv, CalmFacts, Settled, RowOK, Linked, StatusOK, PasswordOK, LimitsOK
<1> QED
  BY <1>1, CalmHolds, SerialHolds, PTL

\* One request at a time and without failures: a removal leaves no container,
\* and no other call leaves one that its row does not know.
THEOREM NoContainerLeft == Spec => []NoOrphan
<1>1. CalmInv /\ SerialFacts => NoOrphan
  <2> SUFFICES ASSUME CalmInv, SerialFacts, Settled, Calm, NEW i \in Ids,
                      engine[i] # "none"
               PROVE  RowOf(i) \in rows /\ dockerId[RowOf(i)] = i
    BY DEF NoOrphan
  <2>1. RowOf(i) \in rows /\ RowOK(RowOf(i))
    BY DEF CalmInv, CalmFacts, Settled
  <2> QED
    BY <2>1 DEF RowOK, Linked
<1> QED
  BY <1>1, CalmHolds, SerialHolds, PTL
=============================================================================

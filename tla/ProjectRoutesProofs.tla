------------------------ MODULE ProjectRoutesProofs ------------------------
(***************************************************************************)
(* Nothing keeps running for a project or a database that is gone, and     *)
(* the domain of a project leads to its container, for any users,          *)
(* projects, domains, ports and requests.                                  *)
(***************************************************************************)
EXTENDS ProjectRoutes, TLAPS

\* The requests that write a row or start a container have a project, those
\* that publish a route a domain.
WellNamed(j) ==
    /\ j.step \in {"inserting", "deploying"} => j.project \in Projects
    /\ j.step \in {"publishing", "ssl"} => j.domain \in Domains

Named == \A h \in Handlers : WellNamed(job[h])

TypeInv == RoutesTypeOK /\ plan \in Plans /\ Named

JobKinds == {"none", "create", "deploy", "update", "restart", "allocatePort",
             "remove", "deleteAccount", "deleteUser", "factoryReset"}

\* A job that ends, or goes on to another step, is well formed.
LEMMA JobForms ==
    /\ Idle \in Jobs /\ Idle.step = "idle"
    /\ \A j \in Jobs, s \in JobSteps : /\ [j EXCEPT !.step = s] \in Jobs
                                      /\ [j EXCEPT !.step = s].step = s
<1>1. Idle \in Jobs /\ Idle.step = "idle"
  BY DEF Idle, ProjectJob, Jobs, JobSteps
<1>2. ASSUME NEW j \in Jobs, NEW s \in JobSteps
      PROVE  [j EXCEPT !.step = s] \in Jobs /\ [j EXCEPT !.step = s].step = s
  BY DEF Jobs
<1> QED
  BY <1>1, <1>2

\* So is one that begins with a project.
LEMMA ProjectJobForm ==
    ASSUME NEW s \in JobSteps, NEW k \in JobKinds, NEW p \in Projects \cup {NoProject},
           NEW d \in Domains \cup {NoDomain}, NEW q \in Ports \cup {NoPort}
    PROVE  /\ ProjectJob(s, k, p, d, q) \in Jobs
           /\ ProjectJob(s, k, p, d, q).step = s
           /\ ProjectJob(s, k, p, d, q).project = p
           /\ ProjectJob(s, k, p, d, q).domain = d
  BY DEF ProjectJob, Jobs, JobKinds

WellFormed(j) == j \in Jobs /\ WellNamed(j)

\* So are the requests on a project.
LEMMA ProjectRequestForms ==
    ASSUME NEW p \in Projects, NEW d \in Domains \cup {NoDomain},
           NEW q \in Ports \cup {NoPort}
    PROVE  /\ WellFormed(ProjectJob("inserting", "create", p, d, NoPort))
           /\ WellFormed(ProjectJob("writing", "update", p, d, q))
           /\ WellFormed(ProjectJob("deploying", "deploy", p, d, NoPort))
           /\ WellFormed(ProjectJob("resyncing", "restart", p, NoDomain, q))
           /\ WellFormed(ProjectJob("resyncing", "allocatePort", p, NoDomain, q))
           /\ WellFormed(ProjectJob("stopping", "remove", p, d, q))
<1>1. WellFormed(ProjectJob("inserting", "create", p, d, NoPort))
  BY DEF WellFormed, ProjectJob, Jobs, JobSteps, WellNamed
<1>2. WellFormed(ProjectJob("writing", "update", p, d, q))
  BY DEF WellFormed, ProjectJob, Jobs, JobSteps, WellNamed
<1>3. WellFormed(ProjectJob("deploying", "deploy", p, d, NoPort))
  BY DEF WellFormed, ProjectJob, Jobs, JobSteps, WellNamed
<1>4. WellFormed(ProjectJob("resyncing", "restart", p, NoDomain, q))
  BY DEF WellFormed, ProjectJob, Jobs, JobSteps, WellNamed
<1>5. WellFormed(ProjectJob("resyncing", "allocatePort", p, NoDomain, q))
  BY DEF WellFormed, ProjectJob, Jobs, JobSteps, WellNamed
<1>6. WellFormed(ProjectJob("stopping", "remove", p, d, q))
  BY DEF WellFormed, ProjectJob, Jobs, JobSteps, WellNamed
<1> QED
  BY <1>1, <1>2, <1>3, <1>4, <1>5, <1>6

\* Every step keeps the types.
LEMMA RoutesTypeStep == TypeInv /\ RoutesNext => TypeInv'
<1> SUFFICES ASSUME TypeInv, RoutesNext PROVE TypeInv'
  OBVIOUS
<1> USE RoutesAssumption DEF TypeInv, RoutesTypeOK, rowVars, dockerVars, routeVars
<1>a. plan.requests \in Nat
  OBVIOUS
<1>b. ASSUME NEW h \in Handlers, NEW j \in Jobs, Begin(h, j),
             WellNamed(j)
      PROVE  /\ asked' \in 0..plan.requests /\ job' \in [Handlers -> Jobs] /\ Named'
  BY <1>a, <1>b DEF Begin, Named
<1>c. NoConf \in Confs
  BY DEF NoConf, Confs
<1>d. \A q \in Ports \cup {NoPort}, b \in BOOLEAN : [port |-> q, https |-> b] \in Confs
  BY DEF Confs
<1>j. \A s \in {"idle", "inserting", "deploying", "publishing", "ssl", "writing",
           "logging", "resyncing", "stopping", "unrouting", "deletingRow", "removing",
           "takingDown", "deletingUser", "deletingAll"} : s \in JobSteps
  BY DEF JobSteps
<1>e. \A h \in Handlers : /\ job[h].domain \in Domains \cup {NoDomain}
                          /\ job[h].wanted \in Domains \cup {NoDomain}
                          /\ job[h].port \in Ports \cup {NoPort}
                          /\ job[h].todo \in SUBSET Projects
                          /\ job[h].user \in Users \cup {NoUser}
                          /\ job[h].kind \in JobKinds
                          /\ job[h].project \in Projects \cup {NoProject}
                          /\ job[h].step \in JobSteps
  BY DEF Jobs, JobKinds
<1>f. ASSUME NEW h \in Handlers, Finish(h)
      PROVE  job' \in [Handlers -> Jobs] /\ Named'
  BY <1>f, JobForms DEF Finish, Named, WellNamed
<1>g. ASSUME NEW h \in Handlers, NEW s \in JobSteps \ {"inserting", "deploying", "publishing", "ssl"},
             GoOn(h, s)
      PROVE  job' \in [Handlers -> Jobs] /\ Named'
  BY <1>g, JobForms DEF GoOn, Named, WellNamed
<1>h. ASSUME NEW h \in Handlers, NEW d \in Domains,
             NEW q \in Ports \cup {NoPort}, RequestSsl(h, d, q)
      PROVE  job' \in [Handlers -> Jobs] /\ Named'
  <2>1. ProjectJob("ssl", job[h].kind, job[h].project, d, q) \in Jobs
        /\ WellNamed(ProjectJob("ssl", job[h].kind, job[h].project, d, q))
    <3>1. job[h].kind \in JobKinds /\ job[h].project \in Projects \cup {NoProject}
      BY <1>e
    <3>2. "ssl" \in JobSteps
      BY <1>j
    <3> QED
      BY <3>1, <3>2, ProjectJobForm DEF WellNamed
  <2> QED
    BY <1>h, <2>1 DEF RequestSsl, Named
<1>i. ASSUME NEW ps, DropProjects(ps)
      PROVE  /\ projects' \subseteq Projects
             /\ domain' \in [Projects -> Domains \cup {NoDomain}]
             /\ port' \in [Projects -> Ports \cup {NoPort}]
  BY <1>i DEF DropProjects
<1> HIDE RoutesAssumption DEF OwnedBy
<1>o. ASSUME NEW h \in Handlers, NEW j, WellFormed(j), Begin(h, j)
      PROVE  asked' \in 0..plan.requests /\ job' \in [Handlers -> Jobs] /\ Named'
  BY <1>b, <1>o DEF WellFormed
<1>1. ASSUME NEW h \in Handlers, NEW p \in Projects, AskCreate(h, p) PROVE TypeInv'
  <2>1. PICK d \in Domains : Begin(h, ProjectJob("inserting", "create", p, d, NoPort))
    BY <1>1 DEF AskCreate
  <2> QED
    BY <1>1, <1>o, <2>1, ProjectRequestForms DEF AskCreate
<1>2. ASSUME NEW h \in Handlers, NEW p \in Projects, AskUpdate(h, p) PROVE TypeInv'
  <2>1. PICK d \in Domains \cup {NoDomain} :
          Begin(h, [ProjectJob("writing", "update", p, domain[p], port[p])
                      EXCEPT !.wanted = d])
    BY <1>2 DEF AskUpdate
  <2> DEFINE old == ProjectJob("writing", "update", p, domain[p], port[p])
             new == [old EXCEPT !.wanted = d]
  <2>2. old \in Jobs /\ old.step = "writing"
    BY ProjectRequestForms DEF WellFormed, ProjectJob
  <2> HIDE DEF old
  <2>3. new \in Jobs /\ new.step = "writing"
    BY <2>2 DEF Jobs
  <2>4. Begin(h, new)
    BY <2>1 DEF old
  <2> HIDE DEF new
  <2>5. WellNamed(new)
    BY <2>3 DEF WellNamed
  <2> QED
    BY <1>2, <1>b, <2>3, <2>4, <2>5 DEF AskUpdate
<1>3. ASSUME NEW h \in Handlers, NEW p \in Projects,
             AskDeploy(h, p) \/ AskRestart(h, p) \/ AskRemove(h, p)
      PROVE TypeInv'
  <2>1. /\ asked' \in 0..plan.requests
        /\ job' \in [Handlers -> Jobs] /\ Named'
    <3>1. /\ domain[p] \in Domains \cup {NoDomain} /\ NoDomain \in Domains \cup {NoDomain}
          /\ port[p] \in Ports \cup {NoPort} /\ NoPort \in Ports \cup {NoPort}
      OBVIOUS
    <3>2. CASE AskDeploy(h, p)
      <4>1. Begin(h, ProjectJob("deploying", "deploy", p, domain[p], NoPort))
        BY <3>2 DEF AskDeploy
      <4> QED
        BY <1>o, <3>1, <4>1, ProjectRequestForms
    <3>3. CASE AskRestart(h, p)
      <4>1. Begin(h, ProjectJob("resyncing", "restart", p, NoDomain, port[p]))
        BY <3>3 DEF AskRestart
      <4> QED
        BY <1>o, <3>1, <4>1, ProjectRequestForms
    <3>4. CASE AskRemove(h, p)
      <4>1. Begin(h, ProjectJob("stopping", "remove", p, domain[p], port[p]))
        BY <3>4 DEF AskRemove
      <4> QED
        BY <1>o, <3>1, <4>1, ProjectRequestForms
    <3> QED
      BY <1>3, <3>2, <3>3, <3>4
  <2> QED
    BY <1>3, <2>1 DEF AskDeploy, AskRestart, AskRemove
<1>4. ASSUME NEW h \in Handlers, NEW p \in Projects, NEW q \in Ports, AskPort(h, p, q)
      PROVE TypeInv'
  <2>1. WellFormed(ProjectJob("resyncing", "allocatePort", p, NoDomain, q))
    BY ProjectRequestForms
  <2>2. asked' \in 0..plan.requests /\ job' \in [Handlers -> Jobs] /\ Named'
    BY <1>4, <1>o, <2>1 DEF AskPort
  <2> QED
    BY <1>4, <2>2 DEF AskPort
<1>n. ASSUME NEW h \in Handlers, NEW s \in {"removing", "takingDown"},
             NEW k \in JobKinds, NEW u \in Users \cup {NoUser},
             NEW ps \in SUBSET Projects,
             Begin(h, UserJob(s, k, u, ps))
      PROVE  asked' \in 0..plan.requests /\ job' \in [Handlers -> Jobs] /\ Named'
  <2>1. UserJob(s, k, u, ps) \in Jobs /\ UserJob(s, k, u, ps).step = s
    BY <1>j DEF UserJob, Jobs, JobKinds
  <2> QED
    BY <1>b, <1>n, <2>1 DEF WellNamed
<1>5. ASSUME NEW h \in Handlers, NEW u \in Users, AskDeleteAccount(h, u) PROVE TypeInv'
  BY <1>5, <1>n DEF AskDeleteAccount, JobKinds
<1>6. ASSUME NEW h \in Handlers, NEW u \in Users, deleteUser(h, u) PROVE TypeInv'
  BY <1>6, <1>n DEF deleteUser, AskTakeDown, OwnedBy, JobKinds
<1>7. ASSUME NEW h \in Handlers, factoryReset(h) PROVE TypeInv'
  BY <1>7, <1>n DEF factoryReset, AskTakeDown, JobKinds
<1>8. ASSUME NEW h \in Handlers, Insert(h) PROVE TypeInv'
  <2>1. projects' \subseteq Projects
    BY <1>8 DEF Insert, Named, WellNamed
  <2> QED
    BY <1>8, <2>1, <1>e, <1>f DEF Insert
<1>9. ASSUME NEW h \in Handlers, WriteDomain(h) PROVE TypeInv'
  BY <1>9, <1>e, <1>f, <1>g, <1>j DEF WriteDomain
<1>10. ASSUME NEW h \in Handlers, Reroute(h) PROVE TypeInv'
  <2>1. job' \in [Handlers -> Jobs]
    BY <1>10, <1>e, <1>f, <1>h DEF Reroute
  <2>2. Named'
    BY <1>10, <1>e, <1>f, <1>h DEF Reroute
  <2>3. \A d \in Domains :
          /\ conf[d] \in Confs
          /\ [port |-> job[h].port, https |-> FALSE] \in Confs
    BY <1>d, <1>e
  <2>5. ASSUME conf' = [d \in Domains |->
                         IF d = job[h].wanted /\ job[h].port # NoPort
                         THEN [port |-> job[h].port, https |-> FALSE]
                         ELSE IF d = job[h].domain THEN NoConf ELSE conf[d]]
        PROVE  conf' \in [Domains -> Confs]
    BY <1>c, <2>3, <2>5
  <2>6. conf' \in [Domains -> Confs]
    BY <1>10, <2>5 DEF Reroute
  <2> QED
    BY <1>10, <2>1, <2>2, <2>6 DEF Reroute
<1>11. ASSUME NEW h \in Handlers, Replace(h) PROVE TypeInv'
  <2>1. ASSUME NEW q \in Ports, job[h].domain # NoDomain,
               job' = [job EXCEPT ![h].port = q, ![h].step = "publishing"]
        PROVE  job' \in [Handlers -> Jobs] /\ Named'
    <3> DEFINE old == [job[h] EXCEPT !.port = q]
               new == [old EXCEPT !.step = "publishing"]
    <3>1. job' = [job EXCEPT ![h] = new]
      BY <2>1
    <3>2. old \in Jobs /\ old.domain = job[h].domain
      BY DEF Jobs
    <3> HIDE DEF old
    <3>3. new \in Jobs /\ new.domain = old.domain /\ new.step = "publishing"
      BY <1>j, <3>2 DEF Jobs
    <3> HIDE DEF new
    <3>4. WellNamed(new)
      BY <1>e, <2>1, <3>2, <3>3 DEF WellNamed
    <3> QED
      BY <3>1, <3>3, <3>4 DEF Named
  <2>4. job' \in [Handlers -> Jobs] /\ Named'
    BY <1>11, <1>f, <2>1 DEF Replace
  <2>5. port' \in [Projects -> Ports \cup {NoPort}]
    BY <1>11 DEF Replace
  <2>6. up' \subseteq Projects
    BY <1>11 DEF Replace, Named, WellNamed
  <2> QED
    BY <1>11, <2>4, <2>5, <2>6 DEF Replace
<1>12. ASSUME NEW h \in Handlers, Publish(h) PROVE TypeInv'
  BY <1>12, <1>d, <1>e, <1>h DEF Publish, Named, WellNamed
<1>13. ASSUME NEW h \in Handlers, SslGranted(h) PROVE TypeInv'
  <2>1. conf' \in [Domains -> Confs]
    BY <1>13, <1>d, <1>e DEF SslGranted
  <2>2. cert' \subseteq Domains
    BY <1>13 DEF SslGranted, Named, WellNamed
  <2> QED
    BY <1>13, <2>1, <2>2, <1>f DEF SslGranted
<1>14. ASSUME NEW h \in Handlers, SslRefused(h) PROVE TypeInv'
  BY <1>14, <1>f DEF SslRefused
<1>15. ASSUME NEW h \in Handlers, Resync(h) PROVE TypeInv'
  <2>1. ASSUME NEW d, NEW b \in BOOLEAN,
               conf' = [conf EXCEPT ![d] = [port |-> job[h].port, https |-> b]]
        PROVE  conf' \in [Domains -> Confs]
    BY <1>d, <1>e, <2>1
  <2>2. (domain[job[h].project] \in cert \cup SystemCerts) \in BOOLEAN
    OBVIOUS
  <2>3. conf' \in [Domains -> Confs]
    BY <1>15, <2>1, <2>2, Zenon DEF Resync
  <2> QED
    BY <1>15, <2>3, <1>f DEF Resync
<1>16. ASSUME NEW h \in Handlers, StopContainers(h) \/ RemoveConfig(h) PROVE TypeInv'
  BY <1>16, <1>c, <1>g, <1>j DEF StopContainers, RemoveConfig
<1>17. ASSUME NEW h \in Handlers, DeleteRow(h) PROVE TypeInv'
  BY <1>17, <1>f, <1>g, <1>i, <1>j DEF DeleteRow
<1>18. ASSUME NEW h \in Handlers, RemoveNext(h) PROVE TypeInv'
  <2>1. ASSUME NEW p \in job[h].todo, job' = [job EXCEPT ![h] = RemovalOf(job[h], p)]
        PROVE  job' \in [Handlers -> Jobs] /\ Named'
    <3>1. RemovalOf(job[h], p) \in Jobs
      BY <1>e, <1>j DEF RemovalOf, Jobs, JobKinds
    <3>2. WellNamed(RemovalOf(job[h], p))
      BY DEF RemovalOf, WellNamed
    <3> QED
      BY <2>1, <3>1, <3>2 DEF Named
  <2>2. job' \in [Handlers -> Jobs] /\ Named'
    BY <1>18, <1>f, <1>g, <1>j, <2>1 DEF RemoveNext
  <2> QED
    BY <1>18, <2>2 DEF RemoveNext
<1>19. ASSUME NEW h \in Handlers, DeleteUserRow(h) PROVE TypeInv'
  BY <1>19, <1>f, <1>i DEF DeleteUserRow
<1>20. ASSUME NEW h \in Handlers, TakeDown(h) PROVE TypeInv'
  <2>1. \A p \in Projects : /\ [job[h] EXCEPT !.todo = @ \ {p}] \in Jobs
                            /\ [job[h] EXCEPT !.todo = @ \ {p}].step = job[h].step
                            /\ [job[h] EXCEPT !.todo = @ \ {p}].project = job[h].project
                            /\ [job[h] EXCEPT !.todo = @ \ {p}].domain = job[h].domain
    BY DEF Jobs
  <2>2. PICK p \in Projects :
          job' = [job EXCEPT ![h] = [job[h] EXCEPT !.todo = @ \ {p}]]
    BY <1>20, <1>e DEF TakeDown
  <2>3. job' \in [Handlers -> Jobs] /\ Named'
    BY <2>1, <2>2 DEF Named, WellNamed
  <2> QED
    BY <1>20, <2>3 DEF TakeDown
<1>21. ASSUME NEW h \in Handlers, TakeDownDatabases(h) PROVE TypeInv'
  BY <1>21, <1>g, <1>j DEF TakeDownDatabases
<1>22. ASSUME NEW h \in Handlers, DeleteAll(h) PROVE TypeInv'
  BY <1>22, <1>f, <1>i DEF DeleteAll, Named
<1>23. ASSUME NEW p \in Projects, RemoveContainer(p) PROVE TypeInv'
  BY <1>23 DEF RemoveContainer, Named
<1>24. ASSUME NEW p \in Projects, DeleteProject(p) PROVE TypeInv'
  BY <1>24, <1>i DEF DeleteProject, Named
<1>25. ASSUME NEW p \in Projects, NEW d \in Domains \cup {NoDomain}, UpdateProject(p, d)
       PROVE TypeInv'
  BY <1>25 DEF UpdateProject, Named
<1>26. CASE RoutesCrash
  <2>1. \A h \in Handlers : Idle \in Jobs
    BY JobForms
  <2> QED
    BY <1>26, <2>1, JobForms DEF RoutesCrash, Named, WellNamed
<1> QED
  BY <1>1, <1>2, <1>3, <1>4, <1>5, <1>6, <1>7, <1>8, <1>9, <1>10, <1>11, <1>12,
     <1>13, <1>14, <1>15, <1>16, <1>17, <1>18, <1>19, <1>20, <1>21, <1>22, <1>23,
     <1>24, <1>25, <1>26 DEF RoutesNext, AskProject, Proceed

\* The first state has the types.
LEMMA RoutesTypeInit == RoutesInit => TypeInv
<1> SUFFICES ASSUME RoutesInit PROVE TypeInv
  OBVIOUS
<1>1. NoConf \in Confs /\ [port |-> FirstPort, https |-> FALSE] \in Confs
  BY RoutesAssumption DEF NoConf, Confs
<1>2. conf \in [Domains -> Confs]
  BY <1>1 DEF RoutesInit
<1>3. job \in [Handlers -> Jobs] /\ Named
  BY JobForms DEF RoutesInit, Named, WellNamed
<1>4. /\ domain \in [Projects -> Domains \cup {NoDomain}]
      /\ port \in [Projects -> Ports \cup {NoPort}]
  BY RoutesAssumption DEF RoutesInit
<1>5. asked \in 0..plan.requests /\ plan \in Plans
  BY RoutesAssumption DEF RoutesInit
<1>6. /\ users \subseteq Users /\ closed \subseteq Users
      /\ projects \subseteq Projects /\ up \subseteq Projects
      /\ databases \subseteq Users /\ servers \subseteq Users
      /\ volumes \subseteq Users /\ cert \subseteq Domains
  BY RoutesAssumption DEF RoutesInit
<1> QED
  BY <1>2, <1>3, <1>4, <1>5, <1>6 DEF TypeInv, RoutesTypeOK

\* The rows, the containers, the configurations and the requests of projects
\* always have their types.
THEOREM RoutesTypeCorrect == RoutesSpec => []RoutesTypeOK
<1>1. TypeInv /\ UNCHANGED routesVars => TypeInv'
  BY DEF TypeInv, RoutesTypeOK, Named, routesVars, rowVars, dockerVars, routeVars
<1> QED
  BY <1>1, RoutesTypeInit, RoutesTypeStep, PTL DEF RoutesSpec, TypeInv

-----------------------------------------------------------------------------

\* Requests on all that belongs to a user, or to everybody.
AccountKinds == {"deleteAccount", "deleteUser", "factoryReset"}

\* Which kind of request makes which step, and on what.
Shaped(j) ==
    /\ j.step \in {"deploying", "publishing", "writing", "logging"} =>
          j.kind \notin AccountKinds
    /\ j.step \in {"stopping", "unrouting", "deletingRow"} =>
          j.kind \in {"remove", "deleteAccount"} /\ j.project \in Scope(j)
    /\ j.step = "removing" => j.kind = "deleteAccount"
    /\ j.step = "takingDown" => j.kind \in {"deleteUser", "factoryReset"}
    /\ j.step = "deletingUser" => j.kind \in {"deleteAccount", "deleteUser"}
    /\ j.step = "deletingAll" => j.kind = "factoryReset"
    /\ j.step \in {"deletingUser", "deletingAll"} => j.todo = {}
    /\ j.kind \in AccountKinds => j.todo \subseteq Scope(j)

\* What a request can rely on while no other works in its scope: a deploy that
\* its project is there, a removal that its container is gone, the deletion of
\* an account that the containers not on its list are gone, and the deletion of
\* the rows that the servers of the databases are.
Relies(j, running, there, kept, excused) ==
    /\ j.step = "deploying" => j.project \in there
    /\ j.step \in {"unrouting", "deletingRow"} => j.project \notin running
    /\ j.step = "stopping" /\ j.port = NoPort => j.project \notin running
    /\ j.kind \in AccountKinds =>
          \A p \in running \cap Scope(j) :
              p \in j.todo \/ (j.step = "stopping" /\ p = j.project)
    /\ j.kind = "deleteUser" /\ j.step = "deletingUser" =>
          (j.user \in kept => j.user \in excused)
    /\ j.step = "deletingAll" => kept \subseteq excused

Known(j) == Shaped(j) /\ Relies(j, up, projects, servers, closed)

\* No two requests work on the same project.
Alone == \A g, h \in Handlers : g # h /\ Busy(g) /\ Busy(h) =>
             Scope(job[g]) \cap Scope(job[h]) = {}

Apart == Alone /\ \A h \in Handlers : Busy(h) => Known(job[h])

Orderly == ~plan.overlap /\ ~Fails("docker")

\* A running container is on record with its project.
Recorded == up \subseteq {p \in projects : port[p] # NoPort}

Stored == servers \subseteq databases \cup closed

LeftoversInv ==
    /\ TypeInv
    /\ Orderly => /\ Recorded /\ Stored /\ Apart

\* The projects in the scope of a request, by its kind.
LEMMA Scopes ==
    ASSUME NEW j
    PROVE  /\ j.kind = "factoryReset" => Scope(j) = Projects
           /\ j.kind \in {"deleteAccount", "deleteUser"} => Scope(j) = OwnedBy(j.user)
           /\ j.kind \notin AccountKinds => Scope(j) = {j.project}
  BY DEF Scope, AccountKinds

\* A request that goes on within its scope leaves the others alone.
LEMMA Confined ==
    ASSUME Apart, NEW h \in Handlers, Busy(h), job \in [Handlers -> Jobs],
           NEW new, job' = [job EXCEPT ![h] = new],
           new.step # "idle" =>
               /\ Scope(new) \subseteq Scope(job[h])
               /\ Shaped(new)
               /\ Relies(new, up', projects', servers', closed'),
           up' \subseteq up \cup Scope(job[h]),
           projects \subseteq projects' \cup Scope(job[h]),
           servers' \subseteq servers, closed \subseteq closed'
    PROVE  Apart'
<1>1. job'[h] = new /\ \A g \in Handlers \ {h} : job'[g] = job[g]
  OBVIOUS
<1>2. \A g \in Handlers \ {h} : Busy(g) => Scope(job[h]) \cap Scope(job[g]) = {}
  BY DEF Apart, Alone
<1>3. \A g \in Handlers : Busy(g)' <=> job'[g].step # "idle"
  BY DEF Busy
<1>4. Alone'
  <2> SUFFICES ASSUME NEW f \in Handlers, NEW g \in Handlers, f # g,
                      job'[f].step # "idle", job'[g].step # "idle"
               PROVE  Scope(job'[f]) \cap Scope(job'[g]) = {}
    BY <1>3 DEF Alone, Scope
  <2>1. CASE f = h
    BY <1>1, <1>2, <2>1 DEF Busy
  <2>2. CASE g = h
    BY <1>1, <1>2, <2>2 DEF Busy
  <2>3. CASE f # h /\ g # h
    BY <1>1, <2>3 DEF Busy, Apart, Alone
  <2> QED
    BY <2>1, <2>2, <2>3
<1>5. ASSUME NEW g \in Handlers, job'[g].step # "idle"
      PROVE  Shaped(job'[g]) /\ Relies(job'[g], up', projects', servers', closed')
  <2>1. CASE g = h
    BY <1>1, <1>5, <2>1
  <2>2. CASE g # h
    <3>1. Busy(g) /\ job'[g] = job[g]
      BY <1>1, <1>5, <2>2 DEF Busy
    <3>2. Shaped(job[g]) /\ Relies(job[g], up, projects, servers, closed)
      BY <3>1 DEF Apart, Known
    <3>3. Scope(job[h]) \cap Scope(job[g]) = {}
      BY <1>2, <2>2, <3>1
    <3>4. ASSUME NEW j, NEW S, Shaped(j), S \cap Scope(j) = {},
                 Relies(j, up, projects, servers, closed),
                 up' \subseteq up \cup S, projects \subseteq projects' \cup S
          PROVE  Relies(j, up', projects', servers', closed')
      <4>1. j.step = "deploying" => j.project \in Scope(j)
        BY <3>4, Scopes DEF Shaped
      <4>2. j.step \in {"stopping", "unrouting", "deletingRow"} =>
                j.project \in Scope(j)
        BY <3>4 DEF Shaped
      <4> QED
        BY <3>4, <4>1, <4>2 DEF Relies
    <3> QED
      BY <3>1, <3>2, <3>3, <3>4
  <2> QED
    BY <2>1, <2>2
<1>6. \A g \in Handlers : Busy(g)' => Known(job[g])'
  BY <1>3, <1>5 DEF Known, Shaped, Relies, Scope
<1> QED
  BY <1>4, <1>6 DEF Apart

\* A request that begins next to others starts from what they leave.
LEMMA Begun ==
    ASSUME Apart, ~plan.overlap, NEW h \in Handlers, job \in [Handlers -> Jobs],
           NEW new, Begin(h, new), Shaped(new),
           Relies(new, up, projects, servers, closed),
           UNCHANGED <<up, projects, servers, closed>>
    PROVE  Apart'
<1>1. /\ job'[h] = new /\ \A g \in Handlers \ {h} : job'[g] = job[g]
      /\ \A g \in Handlers : Busy(g) => Scope(job[g]) \cap Scope(new) = {}
  BY DEF Begin
<1>2. Alone'
  <2> SUFFICES ASSUME NEW f \in Handlers, NEW g \in Handlers, f # g,
                      job'[f].step # "idle", job'[g].step # "idle"
               PROVE  Scope(job'[f]) \cap Scope(job'[g]) = {}
    BY DEF Alone, Scope, Busy
  <2>1. CASE f = h
    BY <1>1, <2>1 DEF Busy
  <2>2. CASE g = h
    BY <1>1, <2>2 DEF Busy
  <2>3. CASE f # h /\ g # h
    BY <1>1, <2>3 DEF Busy, Apart, Alone
  <2> QED
    BY <2>1, <2>2, <2>3
<1>3. ASSUME NEW g \in Handlers, job'[g].step # "idle"
      PROVE  Shaped(job'[g]) /\ Relies(job'[g], up, projects, servers, closed)
  BY <1>1, <1>3 DEF Apart, Known, Busy
<1>4. \A g \in Handlers : Busy(g)' => Known(job[g])'
  BY <1>3 DEF Known, Shaped, Relies, Scope, Busy
<1> QED
  BY <1>2, <1>4 DEF Apart

\* With no request's step, less may run and no project may go.
LEMMA Shrunk ==
    ASSUME Apart, job' = job, up' \subseteq up, projects \subseteq projects',
           servers' \subseteq servers, closed \subseteq closed'
    PROVE  Apart'
<1>1. Alone'
  BY DEF Apart, Alone, Busy, Scope
<1>2. ASSUME NEW j, Relies(j, up, projects, servers, closed)
      PROVE  Relies(j, up', projects', servers', closed')
  BY <1>2 DEF Relies
<1>3. \A g \in Handlers : Busy(g)' => Known(job[g])'
  <2> SUFFICES ASSUME NEW g \in Handlers, Busy(g)'
               PROVE  /\ Shaped(job[g])
                      /\ Relies(job[g], up', projects', servers', closed')
    BY DEF Known, Shaped, Relies, Scope
  <2> QED
    BY <1>2 DEF Apart, Known, Busy
<1> QED
  BY <1>1, <1>3 DEF Apart

\* What a step of h does to projects and containers stays in its scope.
Within(h) ==
    /\ up' \subseteq up \cup Scope(job[h])
    /\ projects \subseteq projects' \cup Scope(job[h])
    /\ servers' \subseteq servers
    /\ closed \subseteq closed'

\* A step changes none of what the facts are about.
Still == UNCHANGED <<projects, port, up, databases, servers, closed>>

\* The facts hold after every step of a request.
LEMMA ProceedSafe ==
    ASSUME LeftoversInv, Orderly, NEW h \in Handlers, Proceed(h)
    PROVE  Recorded' /\ Stored' /\ Apart'
<1> USE DEF LeftoversInv, TypeInv
<1> DEFINE j == job[h]
<1>a. /\ Recorded /\ Stored /\ Apart
      /\ up \subseteq Projects /\ projects \subseteq Projects
      /\ job \in [Handlers -> Jobs] /\ j \in Jobs
      /\ port \in [Projects -> Ports \cup {NoPort}]
  BY DEF RoutesTypeOK
<1>b. ~Fails("docker") /\ ~plan.overlap
  BY DEF Orderly
<1>c. ASSUME Busy(h) PROVE Shaped(j) /\ Relies(j, up, projects, servers, closed)
  BY <1>a, <1>c DEF Apart, Known
<1>d. ASSUME Still PROVE Recorded' /\ Stored' /\ Within(h)
  BY <1>a, <1>d DEF Still, Recorded, Stored, Within
<1>e. ASSUME Busy(h), Finish(h), Within(h) PROVE Apart'
  BY <1>a, <1>e, Confined, JobForms DEF Finish, Within
<1>f. ASSUME Busy(h), Within(h), NEW new, job' = [job EXCEPT ![h] = new],
             new.kind = j.kind, new.project = j.project, new.user = j.user,
             Shaped(new), Relies(new, up', projects', servers', closed')
      PROVE  Apart'
  <2>1. Scope(new) = Scope(j)
    BY <1>f DEF Scope
  <2> QED
    BY <1>a, <1>f, <2>1, Confined DEF Within
<1>g. ASSUME NEW s \in JobSteps
      PROVE  LET new == [j EXCEPT !.step = s] IN
             /\ new \in Jobs /\ new.step = s /\ new.kind = j.kind
             /\ new.project = j.project /\ new.user = j.user
             /\ new.port = j.port /\ new.todo = j.todo
             /\ Scope(new) = Scope(j)
  BY <1>a DEF Jobs, Scope
<1>h. ASSUME Busy(h), Still, NEW d, NEW q, RequestSsl(h, d, q),
             j.kind \notin AccountKinds
      PROVE  Apart'
  <2> DEFINE new == ProjectJob("ssl", j.kind, j.project, d, q)
  <2>1. job' = [job EXCEPT ![h] = new]
    BY <1>h DEF RequestSsl
  <2>2. new.step = "ssl" /\ new.kind = j.kind /\ new.project = j.project
    BY DEF ProjectJob
  <2> HIDE DEF new
  <2>3. Scope(new) = Scope(j)
    BY <1>h, <2>2, Scopes
  <2>4. Shaped(new) /\ Relies(new, up', projects', servers', closed')
    BY <1>h, <2>2 DEF Shaped, Relies
  <2> QED
    BY <1>a, <1>d, <1>h, <2>1, <2>3, <2>4, Confined DEF Within
<1>1. CASE Insert(h)
  <2>1. Busy(h) /\ Finish(h) /\ Within(h) /\ Recorded' /\ Stored'
    BY <1>1, <1>a DEF Insert, Busy, Within, Recorded, Stored, dockerVars
  <2> QED
    BY <1>e, <2>1
<1>2. CASE WriteDomain(h)
  <2>1. Busy(h) /\ Still /\ j.step = "writing"
    BY <1>2 DEF WriteDomain, Busy, Still, dockerVars
  <2>2. ASSUME GoOn(h, "logging") PROVE Apart'
    <3> DEFINE new == [j EXCEPT !.step = "logging"]
    <3>1. j.kind \notin AccountKinds
      BY <1>c, <2>1 DEF Shaped
    <3>2. job' = [job EXCEPT ![h] = new]
      BY <1>a, <2>2 DEF GoOn
    <3>3. /\ new.step = "logging" /\ new.kind = j.kind
          /\ new.project = j.project /\ new.user = j.user
      BY <1>g DEF JobSteps
    <3> HIDE DEF new
    <3>4. Shaped(new) /\ Relies(new, up', projects', servers', closed')
      BY <3>1, <3>3 DEF Shaped, Relies
    <3> QED
      BY <1>d, <1>f, <2>1, <3>2, <3>3, <3>4
  <2> QED
    BY <1>2, <1>d, <1>e, <2>1, <2>2 DEF WriteDomain
<1>3. CASE Reroute(h)
  <2>1. Busy(h) /\ Still /\ j.step = "logging"
    BY <1>3 DEF Reroute, Busy, Still, rowVars, dockerVars
  <2>2. j.kind \notin AccountKinds
    BY <1>c, <2>1 DEF Shaped
  <2>3. Finish(h) \/ RequestSsl(h, j.wanted, j.port)
    BY <1>3 DEF Reroute
  <2> QED
    BY <1>d, <1>e, <1>h, <2>1, <2>2, <2>3
<1>4. CASE Replace(h)
  <2>1. Busy(h) /\ j.step = "deploying"
    BY <1>4 DEF Replace, Busy
  <2>2. j.kind \notin AccountKinds /\ j.project \in projects
    BY <1>c, <2>1 DEF Shaped, Relies
  <2>3. Scope(j) = {j.project}
    BY <2>2, Scopes
  <2>4. UNCHANGED <<projects, databases, servers, closed>>
    BY <1>4 DEF Replace
  <2>5. CASE Finish(h) /\ UNCHANGED port /\ up' \in {up, up \cup ({j.project} \ projects)}
    <3>1. Still
      BY <2>2, <2>4, <2>5 DEF Still
    <3> QED
      BY <1>d, <1>e, <2>1, <2>5, <3>1
  <2>6. ASSUME NEW q \in Ports, port' = [port EXCEPT ![j.project] = q],
               up' = up \cup {j.project},
               \/ Finish(h)
               \/ job' = [job EXCEPT ![h].port = q, ![h].step = "publishing"]
        PROVE  Recorded' /\ Stored' /\ Apart'
    <3>1. Recorded'
      BY <1>a, <2>2, <2>4, <2>6, RoutesAssumption DEF Recorded
    <3>2. Stored' /\ Within(h)
      BY <1>a, <2>3, <2>4, <2>6 DEF Stored, Within
    <3>3. ASSUME job' = [job EXCEPT ![h].port = q, ![h].step = "publishing"]
          PROVE  Apart'
      <4> DEFINE new == [j EXCEPT !.port = q, !.step = "publishing"]
      <4>1. job' = [job EXCEPT ![h] = new]
        BY <1>a, <3>3
      <4>2. /\ new.step = "publishing" /\ new.kind = j.kind
            /\ new.project = j.project /\ new.user = j.user
        BY <1>a DEF Jobs
      <4> HIDE DEF new
      <4>3. Shaped(new) /\ Relies(new, up', projects', servers', closed')
        BY <2>2, <4>2 DEF Shaped, Relies
      <4> QED
        BY <1>f, <2>1, <3>2, <4>1, <4>2, <4>3
    <3> QED
      BY <1>e, <2>1, <2>6, <3>1, <3>2, <3>3
  <2>7. \/ Finish(h) /\ UNCHANGED port /\ up' \in {up, up \cup ({j.project} \ projects)}
        \/ \E q \in Ports : /\ port' = [port EXCEPT ![j.project] = q]
                            /\ up' = up \cup {j.project}
                            /\ \/ Finish(h)
                               \/ job' = [job EXCEPT ![h].port = q,
                                                     ![h].step = "publishing"]
    <3> HIDE DEF LeftoversInv
    <3> QED
      BY <1>4, Zenon DEF Replace
  <2> QED
    BY <2>5, <2>6, <2>7
<1>5. CASE Publish(h)
  <2>1. Busy(h) /\ Still /\ j.step = "publishing"
    BY <1>5 DEF Publish, Busy, Still, rowVars, dockerVars
  <2>2. j.kind \notin AccountKinds
    BY <1>c, <2>1 DEF Shaped
  <2> QED
    BY <1>5, <1>d, <1>h, <2>1, <2>2 DEF Publish
<1>6. CASE SslGranted(h) \/ SslRefused(h) \/ Resync(h)
  <2>1. Busy(h) /\ Still /\ Finish(h)
    BY <1>6 DEF SslGranted, SslRefused, Resync, Busy, Still, rowVars, dockerVars
  <2> QED
    BY <1>d, <1>e, <2>1
<1>7. CASE StopContainers(h)
  <2>1. /\ Busy(h) /\ j.step = "stopping" /\ GoOn(h, "unrouting")
        /\ UNCHANGED <<projects, port, databases, servers, closed>>
        /\ up' = IF j.port = NoPort THEN up ELSE up \ {j.project}
    BY <1>7, <1>b DEF StopContainers, Busy, rowVars
  <2> DEFINE new == [j EXCEPT !.step = "unrouting"]
  <2>2. job' = [job EXCEPT ![h] = new]
    BY <1>a, <2>1 DEF GoOn
  <2>3. /\ new.step = "unrouting" /\ new.kind = j.kind /\ new.todo = j.todo
        /\ new.project = j.project /\ new.user = j.user /\ Scope(new) = Scope(j)
    BY <1>g DEF JobSteps
  <2> HIDE DEF new
  <2>4. j.project \notin up' /\ up' \subseteq up
    BY <1>c, <2>1 DEF Relies
  <2>5. Shaped(new)
    BY <1>c, <2>1, <2>3 DEF Shaped
  <2>6. Relies(new, up', projects', servers', closed')
    BY <1>c, <2>1, <2>3, <2>4 DEF Relies
  <2>7. Recorded' /\ Stored' /\ Within(h)
    BY <1>a, <2>1, <2>4 DEF Recorded, Stored, Within
  <2> QED
    BY <1>f, <2>1, <2>2, <2>3, <2>5, <2>6, <2>7
<1>8. CASE RemoveConfig(h)
  <2>1. Busy(h) /\ j.step = "unrouting" /\ GoOn(h, "deletingRow") /\ Still
    BY <1>8 DEF RemoveConfig, Busy, Still, rowVars, dockerVars
  <2> DEFINE new == [j EXCEPT !.step = "deletingRow"]
  <2>2. job' = [job EXCEPT ![h] = new]
    BY <1>a, <2>1 DEF GoOn
  <2>3. /\ new.step = "deletingRow" /\ new.kind = j.kind /\ new.todo = j.todo
        /\ new.project = j.project /\ new.user = j.user /\ Scope(new) = Scope(j)
    BY <1>g DEF JobSteps
  <2> HIDE DEF new
  <2>4. Shaped(new)
    BY <1>c, <2>1, <2>3 DEF Shaped
  <2>5. Relies(new, up', projects', servers', closed')
    BY <1>c, <2>1, <2>3 DEF Relies, Still
  <2> QED
    BY <1>d, <1>f, <2>1, <2>2, <2>3, <2>4, <2>5
<1>9. CASE DeleteRow(h)
  <2>1. /\ Busy(h) /\ j.step = "deletingRow"
        /\ UNCHANGED <<up, databases, servers, closed>>
    BY <1>9 DEF DeleteRow, Busy, dockerVars
  <2>2. /\ j.project \notin up /\ j.project \in Scope(j)
        /\ j.kind \in {"remove", "deleteAccount"}
    BY <1>c, <2>1 DEF Shaped, Relies
  <2>3. DropProjects({j.project}) \/ UNCHANGED <<projects, port>>
    BY <1>9 DEF DeleteRow
  <2>4. Recorded' /\ Stored' /\ Within(h)
    BY <1>a, <2>1, <2>2, <2>3 DEF Recorded, Stored, Within, DropProjects
  <2>5. ASSUME GoOn(h, "removing"), j.kind # "remove" PROVE Apart'
    <3> DEFINE new == [j EXCEPT !.step = "removing"]
    <3>1. job' = [job EXCEPT ![h] = new]
      BY <1>a, <2>5 DEF GoOn
    <3>2. /\ new.step = "removing" /\ new.kind = j.kind /\ new.todo = j.todo
          /\ new.project = j.project /\ new.user = j.user /\ Scope(new) = Scope(j)
      BY <1>g DEF JobSteps
    <3> HIDE DEF new
    <3>3. Shaped(new)
      BY <1>c, <2>1, <2>2, <2>5, <3>2 DEF Shaped
    <3>4. Relies(new, up', projects', servers', closed')
      BY <1>c, <2>1, <2>2, <3>2 DEF Relies
    <3> QED
      BY <1>f, <2>1, <2>4, <3>1, <3>2, <3>3, <3>4
  <2>6. Finish(h) \/ (GoOn(h, "removing") /\ j.kind # "remove")
    BY <1>9 DEF DeleteRow
  <2> QED
    BY <1>e, <2>1, <2>4, <2>5, <2>6
<1>10. CASE RemoveNext(h)
  <2>1. Busy(h) /\ j.step = "removing" /\ Still
    BY <1>10 DEF RemoveNext, Busy, Still, rowVars, dockerVars
  <2>2. j.kind = "deleteAccount" /\ j.todo \subseteq Scope(j)
    BY <1>c, <2>1 DEF Shaped, AccountKinds
  <2>3. ASSUME NEW p \in j.todo, job' = [job EXCEPT ![h] = RemovalOf(j, p)]
        PROVE  Apart'
    <3> DEFINE new == RemovalOf(j, p)
    <3>1. /\ new.step = "stopping" /\ new.kind = j.kind /\ new.project = p
          /\ new.todo = j.todo \ {p} /\ new.user = j.user /\ new.port = port[p]
      BY DEF RemovalOf
    <3>2. job' = [job EXCEPT ![h] = new]
      BY <2>3
    <3> HIDE DEF new
    <3>3. Scope(new) = Scope(j)
      BY <2>2, <3>1, Scopes
    <3>4. port[p] = NoPort => p \notin up
      BY <1>a DEF Recorded
    <3>5. Shaped(new)
      BY <2>2, <3>1, <3>3 DEF Shaped
    <3>6. Relies(new, up', projects', servers', closed')
      BY <1>c, <2>1, <2>2, <3>1, <3>3, <3>4 DEF Relies, Still
    <3> QED
      BY <1>a, <1>d, <2>1, <3>2, <3>3, <3>5, <3>6, Confined DEF Within
  <2>4. ASSUME j.todo = {}, GoOn(h, "deletingUser") PROVE Apart'
    <3> DEFINE new == [j EXCEPT !.step = "deletingUser"]
    <3>1. job' = [job EXCEPT ![h] = new]
      BY <1>a, <2>4 DEF GoOn
    <3>2. /\ new.step = "deletingUser" /\ new.kind = j.kind /\ new.todo = j.todo
          /\ new.project = j.project /\ new.user = j.user /\ Scope(new) = Scope(j)
      BY <1>g DEF JobSteps
    <3> HIDE DEF new
    <3>3. Shaped(new)
      BY <2>2, <2>4, <3>2 DEF Shaped
    <3>4. Relies(new, up', projects', servers', closed')
      BY <1>c, <2>1, <2>2, <3>2 DEF Relies, Still
    <3> QED
      BY <1>d, <1>f, <2>1, <3>1, <3>2, <3>3, <3>4
  <2>5. \/ \E p \in j.todo : job' = [job EXCEPT ![h] = RemovalOf(j, p)]
        \/ Finish(h)
        \/ j.todo = {} /\ GoOn(h, "deletingUser")
    BY <1>10 DEF RemoveNext
  <2> QED
    BY <1>d, <1>e, <2>1, <2>3, <2>4, <2>5
<1>11. CASE DeleteUserRow(h)
  <2>1. Busy(h) /\ j.step = "deletingUser" /\ Finish(h) /\ UNCHANGED <<up, servers>>
    BY <1>11 DEF DeleteUserRow, Busy, dockerVars
  <2>2. j.kind \in {"deleteAccount", "deleteUser"} /\ j.todo = {}
    BY <1>c, <2>1 DEF Shaped
  <2>3. Scope(j) = OwnedBy(j.user)
    BY <2>2, Scopes
  <2>4. up \cap OwnedBy(j.user) = {}
    BY <1>c, <2>1, <2>2, <2>3 DEF Relies, AccountKinds
  <2>5. j.kind = "deleteUser" => (j.user \in servers => j.user \in closed)
    BY <1>c, <2>1 DEF Relies
  <2>6. CASE /\ databases' = databases \ {j.user}
             /\ closed' = IF j.kind = "deleteAccount" THEN closed \cup {j.user}
                          ELSE closed
             /\ DropProjects(OwnedBy(j.user))
    <3>1. Recorded' /\ Within(h)
      BY <1>a, <2>1, <2>3, <2>4, <2>6 DEF Recorded, Within, DropProjects
    <3>2. Stored'
      BY <1>a, <2>1, <2>2, <2>5, <2>6 DEF Stored
    <3> QED
      BY <1>e, <2>1, <3>1, <3>2
  <2>7. CASE UNCHANGED <<databases, closed, projects, port>>
    <3>1. Still
      BY <2>1, <2>7 DEF Still
    <3> QED
      BY <1>d, <1>e, <2>1, <3>1
  <2> QED
    BY <1>11, <2>6, <2>7 DEF DeleteUserRow
<1>12. CASE TakeDown(h)
  <2>1. /\ Busy(h) /\ j.step = "takingDown"
        /\ UNCHANGED <<projects, port, databases, servers, closed>>
    BY <1>12 DEF TakeDown, Busy, rowVars
  <2>2. PICK p \in j.todo : /\ job' = [job EXCEPT ![h].todo = @ \ {p}]
                            /\ up' = up \ {p}
    BY <1>12, <1>b DEF TakeDown
  <2> DEFINE new == [j EXCEPT !.todo = @ \ {p}]
  <2>3. job' = [job EXCEPT ![h] = new]
    BY <1>a, <2>2
  <2>4. /\ new.step = "takingDown" /\ new.kind = j.kind /\ new.todo = j.todo \ {p}
        /\ new.project = j.project /\ new.user = j.user
    BY <1>a, <2>1 DEF Jobs
  <2> HIDE DEF new
  <2>5. Scope(new) = Scope(j)
    BY <2>4 DEF Scope
  <2>6. Shaped(new)
    BY <1>c, <2>1, <2>4, <2>5 DEF Shaped
  <2>7. Relies(new, up', projects', servers', closed')
    BY <1>c, <2>1, <2>2, <2>4, <2>5 DEF Relies
  <2>8. Recorded' /\ Stored' /\ Within(h)
    BY <1>a, <2>1, <2>2 DEF Recorded, Stored, Within
  <2> QED
    BY <1>f, <2>1, <2>3, <2>4, <2>6, <2>7, <2>8
<1>13. CASE TakeDownDatabases(h)
  <2>1. /\ Busy(h) /\ j.step = "takingDown" /\ j.todo = {}
        /\ UNCHANGED <<up, projects, port, databases, closed>>
    BY <1>13 DEF TakeDownDatabases, Busy, rowVars
  <2>2. j.kind \in {"deleteUser", "factoryReset"}
    BY <1>c, <2>1 DEF Shaped
  <2> DEFINE s == IF j.kind = "deleteUser" THEN "deletingUser" ELSE "deletingAll"
             gone == IF j.kind = "deleteUser" THEN databases \cap {j.user}
                     ELSE databases
             new == [j EXCEPT !.step = s]
  <2>3. servers' = servers \ gone /\ GoOn(h, s)
    BY <1>13, <1>b DEF TakeDownDatabases
  <2>4. job' = [job EXCEPT ![h] = new]
    BY <1>a, <2>3 DEF GoOn
  <2>5. /\ new.step = s /\ new.kind = j.kind /\ new.todo = j.todo
        /\ new.project = j.project /\ new.user = j.user /\ Scope(new) = Scope(j)
    BY <1>g DEF JobSteps
  <2> HIDE DEF new
  <2>6. Shaped(new)
    BY <2>1, <2>2, <2>5 DEF Shaped
  <2>7. servers \subseteq databases \cup closed
    BY <1>a DEF Stored
  <2>8. Relies(new, up', projects', servers', closed')
    <3>1. \A p \in up \cap Scope(j) : FALSE
      BY <1>c, <2>1, <2>2 DEF Relies, AccountKinds
    <3>2. CASE j.kind = "deleteUser"
      <4>1. j.user \in servers' => j.user \in closed'
        BY <2>1, <2>3, <2>7, <3>2
      <4>2. new.step = "deletingUser"
        BY <2>5, <3>2
      <4> QED
        BY <2>1, <2>5, <3>1, <3>2, <4>1, <4>2 DEF Relies
    <3>3. CASE j.kind = "factoryReset"
      <4>1. servers' \subseteq closed'
        BY <2>1, <2>3, <2>7, <3>3
      <4>2. new.step = "deletingAll"
        BY <2>5, <3>3
      <4> QED
        BY <2>1, <2>5, <3>1, <3>3, <4>1, <4>2 DEF Relies
    <3> QED
      BY <2>2, <3>2, <3>3
  <2>9. Recorded' /\ Stored' /\ Within(h)
    BY <1>a, <2>1, <2>3 DEF Recorded, Stored, Within
  <2> QED
    BY <1>f, <2>1, <2>4, <2>5, <2>6, <2>8, <2>9
<1>14. CASE DeleteAll(h)
  <2>1. /\ Busy(h) /\ j.step = "deletingAll"
        /\ UNCHANGED <<up, servers, closed>>
    BY <1>14 DEF DeleteAll, Busy, dockerVars
  <2>2. j.kind = "factoryReset" /\ j.todo = {} /\ servers \subseteq closed
    BY <1>c, <2>1 DEF Shaped, Relies
  <2>3. Scope(j) = Projects
    BY <2>2, Scopes
  <2>4. up = {}
    BY <1>a, <1>c, <2>1, <2>2, <2>3 DEF Relies, AccountKinds
  <2>5. Recorded' /\ Stored' /\ Within(h)
    BY <1>a, <2>1, <2>2, <2>3, <2>4 DEF Recorded, Stored, Within
  <2>6. ASSUME UNCHANGED job PROVE Apart'
    <3>1. job' = [job EXCEPT ![h] = j]
      BY <1>a, <2>6
    <3>2. Relies(j, up', projects', servers', closed')
      BY <1>c, <2>1, <2>2, <2>4 DEF Relies
    <3> QED
      BY <1>c, <1>f, <2>1, <2>5, <3>1, <3>2
  <2>7. Finish(h) \/ UNCHANGED job
    BY <1>14 DEF DeleteAll
  <2> QED
    BY <1>e, <2>1, <2>5, <2>6, <2>7
<1> QED
  BY <1>1, <1>2, <1>3, <1>4, <1>5, <1>6, <1>7, <1>8, <1>9, <1>10, <1>11, <1>12,
     <1>13, <1>14 DEF Proceed

\* Requests begin with what they rely on.
LEMMA AskSafe ==
    ASSUME LeftoversInv, Orderly, NEW h \in Handlers,
           \/ \E p \in Projects : AskProject(h, p)
           \/ \E u \in Users : AskDeleteAccount(h, u) \/ deleteUser(h, u)
           \/ factoryReset(h)
    PROVE  Recorded' /\ Stored' /\ Apart'
<1> USE DEF LeftoversInv, TypeInv
<1>a. /\ Recorded /\ Stored /\ Apart /\ ~plan.overlap
      /\ job \in [Handlers -> Jobs] /\ port \in [Projects -> Ports \cup {NoPort}]
      /\ \A p \in up : port[p] # NoPort /\ p \in projects
  BY DEF RoutesTypeOK, Orderly, Recorded
<1>b. ASSUME Still PROVE Recorded' /\ Stored'
  BY <1>a, <1>b DEF Still, Recorded, Stored
<1>c. ASSUME NEW new, Begin(h, new), UNCHANGED <<up, projects, servers, closed>>,
             new.kind \notin AccountKinds,
             new.step \in {"inserting", "writing", "deploying", "resyncing", "stopping"},
             new.step = "deploying" => new.project \in projects,
             new.step = "stopping" =>
                 new.kind = "remove" /\ (new.port = NoPort => new.project \notin up)
      PROVE  Apart'
  <2>1. new.project \in Scope(new)
    BY <1>c, Scopes
  <2>2. Shaped(new)
    BY <1>c, <2>1 DEF Shaped
  <2>3. Relies(new, up, projects, servers, closed)
    BY <1>c DEF Relies
  <2> QED
    BY <1>a, <1>c, <2>2, <2>3, Begun
<1>d. ASSUME NEW k \in AccountKinds, NEW u, NEW ps, NEW s \in {"removing", "takingDown"},
             Begin(h, UserJob(s, k, u, ps)), Still,
             s = "removing" => k = "deleteAccount",
             s = "takingDown" => k \in {"deleteUser", "factoryReset"},
             NEW S, S = (IF k = "factoryReset" THEN Projects ELSE OwnedBy(u)),
             ps \subseteq S, up \cap S \subseteq ps
      PROVE  Apart'
  <2> DEFINE new == UserJob(s, k, u, ps)
  <2>1. new.step = s /\ new.kind = k /\ new.user = u /\ new.todo = ps
    BY DEF UserJob
  <2>2. Begin(h, new)
    BY <1>d
  <2> HIDE DEF new
  <2>3. Scope(new) = S
    BY <1>d, <2>1, Scopes DEF AccountKinds
  <2>4. Shaped(new)
    BY <1>d, <2>1, <2>3 DEF Shaped
  <2>5. Relies(new, up, projects, servers, closed)
    BY <1>d, <2>1, <2>3 DEF Relies
  <2> QED
    BY <1>a, <1>d, <2>2, <2>4, <2>5, Begun DEF Still
<1>1. ASSUME NEW p \in Projects, AskCreate(h, p) PROVE Recorded' /\ Stored' /\ Apart'
  <2>1. Still
    BY <1>1 DEF AskCreate, Still, rowVars, dockerVars
  <2>2. PICK d \in Domains : Begin(h, ProjectJob("inserting", "create", p, d, NoPort))
    BY <1>1 DEF AskCreate
  <2>3. Apart'
    BY <1>c, <2>1, <2>2 DEF Still, ProjectJob, AccountKinds
  <2> QED
    BY <1>b, <2>1, <2>3
<1>2. ASSUME NEW p \in Projects, AskUpdate(h, p) PROVE Recorded' /\ Stored' /\ Apart'
  <2>1. Still
    BY <1>2 DEF AskUpdate, Still, rowVars, dockerVars
  <2>2. PICK d \in Domains \cup {NoDomain} :
          Begin(h, [ProjectJob("writing", "update", p, domain[p], port[p])
                      EXCEPT !.wanted = d])
    BY <1>2 DEF AskUpdate
  <2> DEFINE new == [ProjectJob("writing", "update", p, domain[p], port[p])
                       EXCEPT !.wanted = d]
  <2>3. new.step = "writing" /\ new.kind = "update"
    BY DEF ProjectJob
  <2>4. Begin(h, new)
    BY <2>2
  <2> HIDE DEF new
  <2>5. Apart'
    BY <1>c, <2>1, <2>3, <2>4 DEF Still, AccountKinds
  <2> QED
    BY <1>b, <2>1, <2>5
<1>3. ASSUME NEW p \in Projects, AskDeploy(h, p) PROVE Recorded' /\ Stored' /\ Apart'
  <2>1. Still /\ Begin(h, ProjectJob("deploying", "deploy", p, domain[p], NoPort))
    BY <1>3 DEF AskDeploy, Still, rowVars, dockerVars
  <2>2. Apart'
    BY <1>3, <1>c, <2>1 DEF AskDeploy, Still, ProjectJob, AccountKinds
  <2> QED
    BY <1>b, <2>1, <2>2
<1>4. ASSUME NEW p \in Projects, AskRestart(h, p) PROVE Recorded' /\ Stored' /\ Apart'
  <2>1. Still /\ Begin(h, ProjectJob("resyncing", "restart", p, NoDomain, port[p]))
    BY <1>4 DEF AskRestart, Still, rowVars, dockerVars
  <2>2. Apart'
    BY <1>c, <2>1 DEF Still, ProjectJob, AccountKinds
  <2> QED
    BY <1>b, <2>1, <2>2
<1>5. ASSUME NEW p \in Projects, AskRemove(h, p) PROVE Recorded' /\ Stored' /\ Apart'
  <2>1. Still /\ Begin(h, ProjectJob("stopping", "remove", p, domain[p], port[p]))
    BY <1>5 DEF AskRemove, Still, rowVars, dockerVars
  <2>2. Apart'
    BY <1>a, <1>c, <2>1 DEF Still, ProjectJob, AccountKinds
  <2> QED
    BY <1>b, <2>1, <2>2
<1>6. ASSUME NEW p \in Projects, NEW q \in Ports, AskPort(h, p, q)
      PROVE  Recorded' /\ Stored' /\ Apart'
  <2>1. /\ Begin(h, ProjectJob("resyncing", "allocatePort", p, NoDomain, q))
        /\ port' = [port EXCEPT ![p] = q]
        /\ UNCHANGED <<up, projects, databases, servers, closed>>
    BY <1>6 DEF AskPort, dockerVars
  <2>2. Recorded' /\ Stored'
    BY <1>a, <2>1, RoutesAssumption DEF Recorded, Stored
  <2>3. Apart'
    BY <1>c, <2>1 DEF ProjectJob, AccountKinds
  <2> QED
    BY <2>2, <2>3
<1>7. ASSUME NEW u \in Users, AskDeleteAccount(h, u) PROVE Recorded' /\ Stored' /\ Apart'
  <2>1. /\ Still
        /\ Begin(h, UserJob("removing", "deleteAccount", u, projects \cap OwnedBy(u)))
    BY <1>7 DEF AskDeleteAccount, Still, rowVars, dockerVars
  <2>2. up \cap OwnedBy(u) \subseteq projects \cap OwnedBy(u)
    BY <1>a
  <2>3. Apart'
    BY <1>d, <2>1, <2>2 DEF AccountKinds
  <2> QED
    BY <1>b, <2>1, <2>3
<1>8. ASSUME NEW u \in Users, deleteUser(h, u) PROVE Recorded' /\ Stored' /\ Apart'
  <2>1. /\ Still
        /\ Begin(h, UserJob("takingDown", "deleteUser", u,
                            {p \in OwnedBy(u) : port[p] # NoPort}))
    BY <1>8 DEF deleteUser, AskTakeDown, Still, rowVars, dockerVars
  <2>2. up \cap OwnedBy(u) \subseteq {p \in OwnedBy(u) : port[p] # NoPort}
    BY <1>a
  <2>3. Apart'
    BY <1>d, <2>1, <2>2 DEF AccountKinds
  <2> QED
    BY <1>b, <2>1, <2>3
<1>9. ASSUME factoryReset(h) PROVE Recorded' /\ Stored' /\ Apart'
  <2>1. /\ Still
        /\ Begin(h, UserJob("takingDown", "factoryReset", NoUser,
                            {p \in Projects : port[p] # NoPort}))
    BY <1>9 DEF factoryReset, AskTakeDown, Still, rowVars, dockerVars
  <2>2. up \cap Projects \subseteq {p \in Projects : port[p] # NoPort}
    BY <1>a
  <2>3. Apart'
    BY <1>d, <2>1, <2>2 DEF AccountKinds
  <2> QED
    BY <1>b, <2>1, <2>3
<1> QED
  BY <1>1, <1>2, <1>3, <1>4, <1>5, <1>6, <1>7, <1>8, <1>9 DEF AskProject

\* What the environment does is fixed at the start.
LEMMA PlanIsFixed == [RoutesNext]_routesVars => plan' = plan
<1> SUFFICES ASSUME [RoutesNext]_routesVars PROVE plan' = plan
  OBVIOUS
<1>1. CASE UNCHANGED routesVars
  BY <1>1 DEF routesVars
<1>2. ASSUME NEW h \in Handlers, NEW p \in Projects, AskProject(h, p)
      PROVE  plan' = plan
  BY <1>2 DEF AskProject, AskCreate, AskUpdate, AskDeploy, AskRestart, AskRemove,
              AskPort
<1>3. ASSUME NEW h \in Handlers, Proceed(h) PROVE plan' = plan
  <2>1. Insert(h) \/ WriteDomain(h) \/ Reroute(h) => plan' = plan
    BY DEF Insert, WriteDomain, Reroute
  <2>2. Replace(h) \/ Publish(h) \/ SslGranted(h) \/ SslRefused(h) => plan' = plan
    BY DEF Replace, Publish, SslGranted, SslRefused
  <2>3. Resync(h) \/ StopContainers(h) \/ RemoveConfig(h) \/ DeleteRow(h)
           => plan' = plan
    BY DEF Resync, StopContainers, RemoveConfig, DeleteRow
  <2>4. RemoveNext(h) \/ DeleteUserRow(h) \/ TakeDown(h) => plan' = plan
    BY DEF RemoveNext, DeleteUserRow, TakeDown
  <2>5. TakeDownDatabases(h) \/ DeleteAll(h) => plan' = plan
    BY DEF TakeDownDatabases, DeleteAll
  <2> QED
    BY <1>3, <2>1, <2>2, <2>3, <2>4, <2>5 DEF Proceed
<1>4. ASSUME NEW h \in Handlers, NEW u \in Users,
             AskDeleteAccount(h, u) \/ deleteUser(h, u)
      PROVE  plan' = plan
  BY <1>4 DEF AskDeleteAccount, deleteUser, AskTakeDown
<1>5. ASSUME NEW h \in Handlers, factoryReset(h) PROVE plan' = plan
  BY <1>5 DEF factoryReset, AskTakeDown
<1>6. ASSUME NEW p \in Projects, NEW d, UpdateProject(p, d) PROVE plan' = plan
  BY <1>6 DEF UpdateProject
<1>7. ASSUME NEW p \in Projects, RemoveContainer(p) \/ DeleteProject(p)
      PROVE  plan' = plan
  BY <1>7 DEF RemoveContainer, DeleteProject
<1>8. CASE RoutesCrash
  BY <1>8 DEF RoutesCrash
<1> QED
  BY <1>1, <1>2, <1>3, <1>4, <1>5, <1>6, <1>7, <1>8 DEF RoutesNext

\* Every step keeps the invariant.
LEMMA LeftoversStep == LeftoversInv /\ [RoutesNext]_routesVars => LeftoversInv'
<1> SUFFICES ASSUME LeftoversInv, [RoutesNext]_routesVars PROVE LeftoversInv'
  OBVIOUS
<1>1. TypeInv'
  <2>1. CASE UNCHANGED routesVars
    BY <2>1 DEF LeftoversInv, TypeInv, RoutesTypeOK, Named, routesVars, rowVars,
                dockerVars, routeVars
  <2> QED
    BY <2>1, RoutesTypeStep DEF LeftoversInv
<1>2. plan' = plan
  BY PlanIsFixed
<1>3. ASSUME Orderly' PROVE Recorded' /\ Stored' /\ Apart'
  <2>1. Orderly
    BY <1>2, <1>3 DEF Orderly, Fails
  <2>2. Recorded /\ Stored /\ Apart /\ up \subseteq Projects
        /\ port \in [Projects -> Ports \cup {NoPort}]
    BY <2>1 DEF LeftoversInv, TypeInv, RoutesTypeOK
  <2>3. ASSUME NEW p \in Projects, RemoveContainer(p)
        PROVE  Recorded' /\ Stored' /\ Apart'
    BY <2>2, <2>3, Shrunk DEF RemoveContainer, Recorded, Stored
  <2>4. ASSUME NEW p \in Projects, DeleteProject(p) PROVE FALSE
    BY <2>1, <2>4 DEF DeleteProject, Orderly
  <2>5. ASSUME NEW p \in Projects, NEW d, UpdateProject(p, d)
        PROVE  Recorded' /\ Stored' /\ Apart'
    BY <2>2, <2>5, Shrunk DEF UpdateProject, Recorded, Stored, dockerVars
  <2>6. CASE RoutesCrash
    <3>1. UNCHANGED <<up, projects, port, databases, servers, closed>>
      BY <2>6 DEF RoutesCrash, rowVars, dockerVars
    <3>2. \A h \in Handlers : ~Busy(h)'
      BY <2>6, JobForms DEF RoutesCrash, Busy
    <3> QED
      BY <2>2, <3>1, <3>2 DEF Recorded, Stored, Apart, Alone
  <2>7. CASE UNCHANGED routesVars
    BY <2>2, <2>7, Shrunk DEF routesVars, rowVars, dockerVars, Recorded, Stored
  <2> QED
    BY <2>1, <2>3, <2>4, <2>5, <2>6, <2>7, AskSafe, ProceedSafe DEF RoutesNext
<1> QED
  BY <1>1, <1>3 DEF LeftoversInv

\* With one request at a time per project, in any order and next to requests on
\* other projects, whatever fails but Docker and also when the backend stops in
\* between: no container runs for a project or a database that is gone, except
\* for the databases of a deleted account.
THEOREM NothingLeftRunning == RoutesSpec => []NoLeftovers
<1>1. RoutesInit => LeftoversInv
  <2> SUFFICES ASSUME RoutesInit PROVE LeftoversInv
    OBVIOUS
  <2>1. TypeInv
    BY RoutesTypeInit
  <2>2. Recorded /\ Stored
    BY RoutesAssumption DEF RoutesInit, Recorded, Stored
  <2>3. \A h \in Handlers : ~Busy(h)
    BY JobForms DEF RoutesInit, Busy
  <2> QED
    BY <2>1, <2>2, <2>3 DEF LeftoversInv, Apart, Alone
<1>2. LeftoversInv => NoLeftovers
  BY DEF LeftoversInv, Orderly, Recorded, Stored, NoLeftovers
<1> QED
  BY <1>1, <1>2, LeftoversStep, PTL DEF RoutesSpec

-----------------------------------------------------------------------------

\* Requests one at a time per project, that fail in Docker or certbot at most.
Quiet == plan.tidy /\ ~plan.overlap /\ plan.faults \subseteq {"docker", "ssl"}

\* The domain of p leads to its container, over https with a certificate; or it
\* leads nowhere and p has no container.
Led(p, names, ports, confs, certs) ==
    IF ports[p] = NoPort THEN confs[names[p]] = NoConf
    ELSE /\ confs[names[p]].port = ports[p]
         /\ names[p] \in certs => confs[names[p]].https

\* From the first to the last of these steps, the route of a project need not
\* lead to it.
Changing == {"logging", "publishing", "ssl", "resyncing", "stopping", "unrouting",
             "deletingRow"}

\* The domain a request will give to a project, or has taken from it.
Holds(j) ==
    CASE j.step = "inserting" -> {j.domain}
      [] j.step = "writing" -> {j.wanted} \ {j.domain}
      [] j.step = "logging" -> {j.domain} \ {j.wanted}
      [] OTHER -> {}

\* What a request that works on a project knows of its row.
OnProject(j, there, names, ports) ==
    /\ j.step = "inserting" => j.project \in Projects \ there /\ j.domain \in Domains
    /\ j.step \in {"deploying", "publishing", "ssl", "writing", "logging", "resyncing",
                   "stopping", "unrouting", "deletingRow"} => j.project \in there
    /\ j.step \in {"deploying", "publishing", "ssl", "writing", "stopping", "unrouting",
                   "deletingRow"} => j.domain = names[j.project]
    /\ j.step \in {"publishing", "ssl", "writing", "logging", "resyncing"} =>
          j.port = ports[j.project]
    /\ j.step \in {"publishing", "ssl", "resyncing"} => j.port # NoPort
    /\ j.step = "writing" => j.wanted \in Domains
    /\ j.step = "logging" => j.wanted = names[j.project]

\* What it knows of the route of the project.
OnRoute(j, names, ports, confs, certs) ==
    /\ j.step = "ssl" => confs[j.domain].port = j.port
    /\ j.step = "logging" =>
          IF j.wanted = j.domain THEN Led(j.project, names, ports, confs, certs)
          ELSE confs[j.wanted] = NoConf
    /\ j.step = "deletingRow" => confs[j.domain] = NoConf

\* What the deletion of an account knows of the projects that are left.
OnAccount(j, there) ==
    /\ j.step \notin {"takingDown", "deletingAll"}
    /\ j.step \in {"removing", "deletingUser"} => j.kind = "deleteAccount"
    /\ j.step \in {"stopping", "unrouting", "deletingRow"} =>
          j.kind \in {"remove", "deleteAccount"}
    /\ j.kind \in AccountKinds =>
          /\ j.kind = "deleteAccount" /\ j.todo \subseteq OwnedBy(j.user)
          /\ j.step \in {"stopping", "unrouting", "deletingRow", "removing",
                         "deletingUser"}
          /\ \A p \in there \cap OwnedBy(j.user) :
                p \in j.todo \/ (j.step \notin {"removing", "deletingUser"} /\ p = j.project)
          /\ j.step \in {"stopping", "unrouting", "deletingRow"} =>
                j.project \in OwnedBy(j.user)
          /\ j.step = "deletingUser" => j.todo = {}

Believes(j, there, names, ports, confs, certs) ==
    /\ OnProject(j, there, names, ports)
    /\ OnRoute(j, names, ports, confs, certs)
    /\ OnAccount(j, there)

\* Every project has a domain, and what is gone has neither domain nor port.
RowsFilled ==
    \A p \in Projects : IF p \in projects THEN domain[p] \in Domains
                        ELSE domain[p] = NoDomain /\ port[p] = NoPort

\* No two projects have a domain, and none has one that a request holds.
OneDomainEach ==
    /\ \A p, q \in projects : domain[p] = domain[q] => p = q
    /\ \A h \in Handlers, p \in projects : domain[p] \notin Holds(job[h])
    /\ \A g, h \in Handlers : g # h => Holds(job[g]) \cap Holds(job[h]) = {}

\* A configuration is that of a project, or one that an update will remove.
ConfsOwned ==
    \A d \in Domains : conf[d] # NoConf =>
        \/ \E p \in projects : domain[p] = d
        \/ \E h \in Handlers : job[h].step = "logging" /\ d \in Holds(job[h])

\* A project is led to unless a request is changing that.
AllLed ==
    \A p \in projects :
        \/ Led(p, domain, port, conf, cert)
        \/ \E h \in Handlers : job[h].project = p /\ job[h].step \in Changing

Believed ==
    \A h \in Handlers :
        Busy(h) => Believes(job[h], projects, domain, port, conf, cert)

Served ==
    Alone /\ RowsFilled /\ OneDomainEach /\ ConfsOwned /\ AllLed /\ Believed

ServedInv == TypeInv /\ (Quiet => Served)

\* Rows and configurations differ at most for the projects T and the domains M.
OnlyAt(T, M) ==
    /\ \A p \in Projects \ T : /\ p \in projects' <=> p \in projects
                               /\ domain'[p] = domain[p] /\ port'[p] = port[p]
    /\ \A d \in Domains \ M : /\ conf'[d] = conf[d]
                              /\ d \in cert' <=> d \in cert

\* What a request knows survives what happens to other projects and domains.
LEMMA Unaffected ==
    ASSUME NEW j, NEW T, NEW M, OnlyAt(T, M), T \cap Scope(j) = {},
           Believes(j, projects, domain, port, conf, cert),
           projects \subseteq Projects, projects' \subseteq Projects,
           \A p \in projects : domain[p] \in Domains,
           \A p \in projects \ T : domain[p] \notin M
    PROVE  Believes(j, projects', domain', port', conf', cert')
<1>1. j.kind \notin AccountKinds => j.project \notin T
  BY Scopes
<1>2. j.kind \in AccountKinds => OwnedBy(j.user) \cap T = {}
  BY Scopes DEF Believes, OnAccount
<1>3. j.kind \in AccountKinds =>
         j.step \in {"stopping", "unrouting", "deletingRow", "removing", "deletingUser"}
  BY DEF Believes, OnAccount
<1>4. j.kind \in AccountKinds /\ j.step \in {"stopping", "unrouting", "deletingRow"} =>
         j.project \in OwnedBy(j.user)
  BY DEF Believes, OnAccount
<1>5. j.step \notin {"removing", "deletingUser"} => j.project \notin T
  BY <1>1, <1>2, <1>3, <1>4
<1>6. OnProject(j, projects', domain', port')
  <2>1. ASSUME j.step = "inserting" PROVE j.project \in Projects \ projects'
    BY <1>5, <2>1 DEF Believes, OnProject, OnlyAt
  <2>2. ASSUME j.project \in projects, j.step \notin {"removing", "deletingUser"}
        PROVE  /\ j.project \in projects'
               /\ domain'[j.project] = domain[j.project]
               /\ port'[j.project] = port[j.project]
    BY <1>5, <2>2 DEF OnlyAt
  <2> QED
    BY <2>1, <2>2 DEF Believes, OnProject
<1>7. OnRoute(j, domain', port', conf', cert')
  <2>1. ASSUME j.step \in {"ssl", "logging", "deletingRow"}
        PROVE  /\ j.project \in projects /\ j.project \in Projects \ T
               /\ domain[j.project] \in Domains \ M
               /\ j.step = "logging" => j.wanted = domain[j.project]
               /\ j.step # "logging" => j.domain = domain[j.project]
    BY <1>5, <2>1 DEF Believes, OnProject
  <2>2. ASSUME j.step \in {"ssl", "logging", "deletingRow"}
        PROVE  /\ conf'[domain[j.project]] = conf[domain[j.project]]
               /\ domain[j.project] \in cert' <=> domain[j.project] \in cert
               /\ domain'[j.project] = domain[j.project]
               /\ port'[j.project] = port[j.project]
    BY <2>1, <2>2 DEF OnlyAt
  <2> QED
    BY <2>1, <2>2 DEF Believes, OnRoute, Led
<1>8. OnAccount(j, projects')
  <2>1. j.kind \in AccountKinds =>
          projects' \cap OwnedBy(j.user) \subseteq projects \cap OwnedBy(j.user)
    BY <1>2 DEF OnlyAt
  <2> QED
    BY <2>1 DEF Believes, OnAccount
<1> QED
  BY <1>6, <1>7, <1>8 DEF Believes

\* The only request a step of h changes is that of h.
LEMMA OthersWait ==
    ASSUME NEW h \in Handlers, job \in [Handlers -> Jobs], NEW new,
           job' = [job EXCEPT ![h] = new]
    PROVE  /\ job'[h] = new
           /\ \A g \in Handlers \ {h} : job'[g] = job[g]
           /\ \A g \in Handlers : Busy(g)' <=> job'[g].step # "idle"
  BY DEF Busy

\* A request goes on, as new, within its scope: with the project in T, if any,
\* and the domains M, those of that project and those it holds.
GoesOn(h, new, T, M) ==
    /\ Busy(h) /\ job' = [job EXCEPT ![h] = new]
    /\ T \subseteq Scope(job[h]) \cap Projects
    /\ \A p, q \in T : p = q
    /\ job[h].step \in Changing => job[h].project \in T
    /\ M = Holds(job[h]) \cup {domain[p] : p \in projects \cap T}
    /\ OnlyAt(T, M)
    /\ new.step # "idle" =>
          /\ Scope(new) \subseteq Scope(job[h])
          /\ Believes(new, projects', domain', port', conf', cert')
    /\ Holds(new) \subseteq M
    /\ \A p \in T : IF p \in projects'
          THEN /\ domain'[p] \in (Domains \cap M) \ Holds(new)
               /\ \/ Led(p, domain', port', conf', cert')
                  \/ new.project = p /\ new.step \in Changing
          ELSE domain'[p] = NoDomain /\ port'[p] = NoPort
    /\ \A d \in Domains \cap M : conf'[d] # NoConf =>
          \/ \E p \in projects' \cap T : domain'[p] = d
          \/ new.step = "logging" /\ d \in Holds(new)

\* Then it leaves all others as they were.
LEMMA OthersServed ==
    ASSUME TypeInv, TypeInv', Served, NEW h \in Handlers, NEW new, NEW T, NEW M,
           GoesOn(h, new, T, M)
    PROVE  Served'
<1> USE DEF GoesOn
<1>a. /\ job \in [Handlers -> Jobs]
      /\ projects \subseteq Projects /\ projects' \subseteq Projects
      /\ \A p \in projects : domain[p] \in Domains
  BY DEF TypeInv, RoutesTypeOK, Served, RowsFilled
<1>b. /\ job'[h] = new
      /\ \A g \in Handlers \ {h} : job'[g] = job[g]
      /\ \A g \in Handlers : Busy(g)' <=> job'[g].step # "idle"
  BY <1>a, OthersWait
<1>c. \A g \in Handlers \ {h} : Busy(g) => Scope(job[h]) \cap Scope(job[g]) = {}
  BY DEF Served, Alone
<1>d. \A p \in projects \ T : domain[p] \notin M
  BY <1>a DEF Served, OneDomainEach
<1>e. \A g \in Handlers \ {h} : Holds(job[g]) \cap M = {}
  BY DEF Served, OneDomainEach
<1>f. \A p \in Projects \ T : p \in projects' => p \in projects /\ domain'[p] = domain[p]
  BY DEF OnlyAt
<1>1. Alone'
  <2> SUFFICES ASSUME NEW f \in Handlers, NEW g \in Handlers, f # g,
                      job'[f].step # "idle", job'[g].step # "idle"
               PROVE  Scope(job'[f]) \cap Scope(job'[g]) = {}
    BY <1>b DEF Alone, Scope
  <2>1. CASE f = h
    BY <1>b, <1>c, <2>1 DEF Busy
  <2>2. CASE g = h
    BY <1>b, <1>c, <2>2 DEF Busy
  <2>3. CASE f # h /\ g # h
    BY <1>b, <2>3 DEF Busy, Served, Alone
  <2> QED
    BY <2>1, <2>2, <2>3
<1>2. RowsFilled'
  BY DEF RowsFilled, OnlyAt, Served
<1>3. OneDomainEach'
  <2>1. ASSUME NEW p \in projects', NEW q \in projects', domain'[p] = domain'[q]
        PROVE  p = q
    BY <1>a, <1>d, <1>f, <2>1 DEF Served, OneDomainEach
  <2>2. ASSUME NEW g \in Handlers, NEW p \in projects' PROVE domain'[p] \notin Holds(job'[g])
    <3>1. CASE g = h
      BY <1>a, <1>b, <1>d, <1>f, <3>1
    <3>2. CASE g # h
      BY <1>a, <1>b, <1>e, <1>f, <3>2 DEF Served, OneDomainEach
    <3> QED
      BY <3>1, <3>2
  <2>3. ASSUME NEW f \in Handlers, NEW g \in Handlers, f # g
        PROVE  Holds(job'[f]) \cap Holds(job'[g]) = {}
    BY <1>b, <1>e, <2>3 DEF Served, OneDomainEach
  <2> QED
    BY <2>1, <2>2, <2>3 DEF OneDomainEach, Holds
<1>4. ConfsOwned'
  <2> SUFFICES ASSUME NEW d \in Domains, conf'[d] # NoConf
               PROVE  \/ \E p \in projects' : domain'[p] = d
                      \/ \E g \in Handlers : job'[g].step = "logging" /\ d \in Holds(job'[g])
    BY DEF ConfsOwned, Holds
  <2>1. CASE d \in M
    BY <1>b, <2>1
  <2>2. CASE d \notin M
    <3>1. conf[d] # NoConf
      BY <2>2 DEF OnlyAt
    <3>2. CASE \E p \in projects : domain[p] = d
      <4>1. PICK p \in projects : domain[p] = d
        BY <3>2
      <4>2. p \in Projects \ T
        BY <1>a, <2>2, <4>1
      <4> QED
        BY <4>1, <4>2 DEF OnlyAt
    <3>3. CASE \E g \in Handlers : job[g].step = "logging" /\ d \in Holds(job[g])
      BY <1>b, <2>2, <3>3
    <3> QED
      BY <3>1, <3>2, <3>3 DEF Served, ConfsOwned
  <2> QED
    BY <2>1, <2>2
<1>5. AllLed'
  <2> SUFFICES ASSUME NEW p \in projects'
               PROVE  \/ Led(p, domain', port', conf', cert')
                      \/ \E g \in Handlers : job'[g].project = p /\ job'[g].step \in Changing
    BY DEF AllLed, Led, Changing
  <2>1. CASE p \in T
    BY <1>b, <2>1
  <2>2. CASE p \notin T
    <3>1. /\ p \in projects /\ domain'[p] = domain[p] /\ port'[p] = port[p]
          /\ domain[p] \in Domains \ M
      BY <1>a, <1>d, <2>2 DEF OnlyAt
    <3>2. CASE Led(p, domain, port, conf, cert)
      BY <3>1, <3>2 DEF OnlyAt, Led
    <3>3. CASE \E g \in Handlers : job[g].project = p /\ job[g].step \in Changing
      BY <1>b, <2>2, <3>3
    <3> QED
      BY <3>1, <3>2, <3>3 DEF Served, AllLed
  <2> QED
    BY <2>1, <2>2
<1>6. Believed'
  <2> SUFFICES ASSUME NEW g \in Handlers, job'[g].step # "idle"
               PROVE  Believes(job'[g], projects', domain', port', conf', cert')
    BY <1>b DEF Believed, Believes, OnProject, OnRoute, OnAccount, Led, OwnedBy
  <2>1. CASE g = h
    BY <1>b, <2>1
  <2>2. CASE g # h
    <3>1. job'[g] = job[g] /\ Busy(g) /\ T \cap Scope(job[g]) = {}
      BY <1>b, <1>c, <2>2 DEF Busy
    <3>2. Believes(job[g], projects, domain, port, conf, cert)
      BY <3>1 DEF Served, Believed
    <3> QED
      BY <1>a, <1>d, <3>1, <3>2, Unaffected
  <2> QED
    BY <2>1, <2>2
<1> QED
  BY <1>1, <1>2, <1>3, <1>4, <1>5, <1>6 DEF Served

\* A request that begins next to others, with what it has read, leaves them as
\* they were; it may write the port of its project and then route to it.
LEMMA Starts ==
    ASSUME TypeInv, TypeInv', Served, ~plan.overlap, NEW h \in Handlers, NEW new,
           Begin(h, new), UNCHANGED <<projects, domain, conf, cert>>,
           \A p \in Projects : port'[p] = port[p] \/
               (p = new.project /\ p \in projects \cap Scope(new) /\ new.step \in Changing),
           Believes(new, projects, domain, port', conf, cert),
           \A p \in projects : domain[p] \notin Holds(new),
           \A g \in Handlers : Holds(new) \cap Holds(job[g]) = {}
    PROVE  Served'
<1> DEFINE T == {p \in Projects : port'[p] # port[p]}
<1>a. /\ job \in [Handlers -> Jobs]
      /\ projects \subseteq Projects
      /\ \A p \in projects : domain[p] \in Domains
  BY DEF TypeInv, RoutesTypeOK, Served, RowsFilled
<1>b. /\ job'[h] = new /\ ~Busy(h)
      /\ \A g \in Handlers \ {h} : job'[g] = job[g]
      /\ \A g \in Handlers : Busy(g)' <=> job'[g].step # "idle"
  BY <1>a, OthersWait DEF Begin
<1>c. \A g \in Handlers \ {h} : Busy(g) => Scope(new) \cap Scope(job[g]) = {}
  BY DEF Begin
<1>d. OnlyAt(T, {}) /\ T \subseteq projects \cap Scope(new)
      /\ \A p \in T : p = new.project /\ new.step \in Changing
  BY DEF OnlyAt
<1> HIDE DEF T
<1>1. Alone'
  <2> SUFFICES ASSUME NEW f \in Handlers, NEW g \in Handlers, f # g,
                      job'[f].step # "idle", job'[g].step # "idle"
               PROVE  Scope(job'[f]) \cap Scope(job'[g]) = {}
    BY <1>b DEF Alone, Scope
  <2>1. CASE f = h
    BY <1>b, <1>c, <2>1 DEF Busy
  <2>2. CASE g = h
    BY <1>b, <1>c, <2>2 DEF Busy
  <2>3. CASE f # h /\ g # h
    BY <1>b, <2>3 DEF Busy, Served, Alone
  <2> QED
    BY <2>1, <2>2, <2>3
<1>2. RowsFilled'
  BY <1>d DEF RowsFilled, OnlyAt, Served
<1>3. OneDomainEach'
  <2>1. ASSUME NEW f \in Handlers, NEW g \in Handlers, f # g
        PROVE  Holds(job'[f]) \cap Holds(job'[g]) = {}
    BY <1>b, <2>1 DEF Served, OneDomainEach
  <2>2. ASSUME NEW g \in Handlers, NEW p \in projects PROVE domain[p] \notin Holds(job'[g])
    BY <1>b DEF Served, OneDomainEach
  <2> QED
    BY <2>1, <2>2 DEF Served, OneDomainEach, Holds
<1>4. ConfsOwned'
  <2> SUFFICES ASSUME NEW d \in Domains, conf[d] # NoConf
               PROVE  \/ \E p \in projects : domain[p] = d
                      \/ \E g \in Handlers : job'[g].step = "logging" /\ d \in Holds(job'[g])
    BY DEF ConfsOwned, Holds
  <2> QED
    BY <1>b DEF Served, ConfsOwned, Busy
<1>5. AllLed'
  <2> SUFFICES ASSUME NEW p \in projects
               PROVE  \/ Led(p, domain, port', conf, cert)
                      \/ \E g \in Handlers : job'[g].project = p /\ job'[g].step \in Changing
    BY DEF AllLed, Led, Changing
  <2>1. CASE p \in T
    BY <1>b, <1>d, <2>1
  <2>2. CASE p \notin T
    <3>1. port'[p] = port[p]
      BY <1>a, <1>d, <2>2 DEF OnlyAt
    <3>2. CASE Led(p, domain, port, conf, cert)
      BY <3>1, <3>2 DEF Led
    <3>3. CASE \E g \in Handlers : job[g].project = p /\ job[g].step \in Changing
      <4>1. PICK g \in Handlers : job[g].project = p /\ job[g].step \in Changing
        BY <3>3
      <4>2. g # h
        BY <1>b, <4>1 DEF Busy, Changing
      <4> QED
        BY <1>b, <4>1, <4>2
    <3> QED
      BY <3>2, <3>3 DEF Served, AllLed
  <2> QED
    BY <2>1, <2>2
<1>6. Believed'
  <2> SUFFICES ASSUME NEW g \in Handlers, job'[g].step # "idle"
               PROVE  Believes(job'[g], projects', domain', port', conf', cert')
    BY <1>b DEF Believed, Believes, OnProject, OnRoute, OnAccount, Led, OwnedBy
  <2>1. CASE g = h
    BY <1>b, <2>1
  <2>2. CASE g # h
    <3>1. job'[g] = job[g] /\ Busy(g) /\ T \cap Scope(job[g]) = {}
      BY <1>b, <1>c, <1>d, <2>2 DEF Busy
    <3>2. Believes(job[g], projects, domain, port, conf, cert)
      BY <3>1 DEF Served, Believed
    <3> QED
      BY <1>a, <1>d, <3>1, <3>2, Unaffected
  <2> QED
    BY <2>1, <2>2
<1> QED
  BY <1>1, <1>2, <1>3, <1>4, <1>5, <1>6 DEF Served

\* A domain that no request works with is held by none.
LEMMA UnclaimedIsFree ==
    ASSUME NEW d, ~Claimed(d), NEW g \in Handlers
    PROVE  d \notin Holds(job[g])
<1>1. d # job[g].domain /\ d # job[g].wanted
  BY DEF Claimed
<1> QED
  BY <1>1 DEF Holds

\* Requests begin with what they have read.
LEMMA AskServed ==
    ASSUME TypeInv, TypeInv', Quiet, Served, NEW h \in Handlers,
           \/ \E p \in Projects : AskProject(h, p)
           \/ \E u \in Users : AskDeleteAccount(h, u) \/ deleteUser(h, u)
           \/ factoryReset(h)
    PROVE  Served'
<1>a. /\ port \in [Projects -> Ports \cup {NoPort}] /\ ~plan.overlap /\ plan.tidy
      /\ projects \subseteq Projects
      /\ \A p \in projects : domain[p] \in Domains
  BY DEF TypeInv, RoutesTypeOK, Quiet, Served, RowsFilled
<1>b. ASSUME NEW s, NEW k \in {"create", "update", "deploy", "restart", "allocatePort",
                               "remove"},
             NEW p \in Projects, NEW d, NEW q
      PROVE  LET new == ProjectJob(s, k, p, d, q) IN
             /\ new.step = s /\ new.kind = k /\ new.project = p /\ new.domain = d
             /\ new.port = q /\ Scope(new) = {p}
             /\ s \in {"deploying", "resyncing", "stopping"} => Holds(new) = {}
  BY DEF ProjectJob, Scope, Holds
<1>1. ASSUME NEW p \in Projects, AskCreate(h, p) PROVE Served'
  <2>1. PICK d \in Domains :
          /\ ~InUse(d)
          /\ Begin(h, ProjectJob("inserting", "create", p, d, NoPort))
    BY <1>1, <1>a DEF AskCreate, InUse
  <2> DEFINE new == ProjectJob("inserting", "create", p, d, NoPort)
  <2>2. /\ new.step = "inserting" /\ new.kind = "create" /\ new.project = p
        /\ new.domain = d
    BY DEF ProjectJob
  <2>3. Begin(h, new) /\ p \notin projects
        /\ UNCHANGED <<projects, domain, port, conf, cert>>
    BY <1>1, <2>1 DEF AskCreate, rowVars, routeVars
  <2> HIDE DEF new
  <2>4. Holds(new) = {d}
    BY <2>2 DEF Holds
  <2>5. Believes(new, projects, domain, port', conf, cert)
    BY <2>2, <2>3 DEF Believes, OnProject, OnRoute, OnAccount, AccountKinds
  <2>6. /\ \A q \in projects : domain[q] \notin Holds(new)
        /\ \A g \in Handlers : Holds(new) \cap Holds(job[g]) = {}
    BY <2>1, <2>4, UnclaimedIsFree DEF InUse
  <2> QED
    BY <1>a, <2>3, <2>5, <2>6, Starts
<1>2. ASSUME NEW p \in Projects, AskUpdate(h, p) PROVE Served'
  <2>1. PICK d \in Domains :
          /\ d = domain[p] \/ ~InUse(d)
          /\ Begin(h, [ProjectJob("writing", "update", p, domain[p], port[p])
                         EXCEPT !.wanted = d])
    BY <1>2, <1>a DEF AskUpdate
  <2> DEFINE new == [ProjectJob("writing", "update", p, domain[p], port[p])
                       EXCEPT !.wanted = d]
  <2>2. /\ new.step = "writing" /\ new.kind = "update" /\ new.project = p
        /\ new.domain = domain[p] /\ new.port = port[p] /\ new.wanted = d
    BY DEF ProjectJob
  <2>3. Begin(h, new) /\ p \in projects
        /\ UNCHANGED <<projects, domain, port, conf, cert>>
    BY <1>2, <2>1 DEF AskUpdate, rowVars, routeVars
  <2> HIDE DEF new
  <2>4. Holds(new) = {d} \ {domain[p]}
    BY <2>2 DEF Holds
  <2>5. Believes(new, projects, domain, port', conf, cert)
    BY <2>2, <2>3 DEF Believes, OnProject, OnRoute, OnAccount, AccountKinds
  <2>6. /\ \A q \in projects : domain[q] \notin Holds(new)
        /\ \A g \in Handlers : Holds(new) \cap Holds(job[g]) = {}
    BY <2>1, <2>4, UnclaimedIsFree DEF InUse
  <2> QED
    BY <1>a, <2>3, <2>5, <2>6, Starts
<1>3. ASSUME NEW p \in Projects, AskDeploy(h, p) PROVE Served'
  <2> DEFINE new == ProjectJob("deploying", "deploy", p, domain[p], NoPort)
  <2>1. Begin(h, new) /\ p \in projects
        /\ UNCHANGED <<projects, domain, port, conf, cert>>
    BY <1>3 DEF AskDeploy, rowVars, routeVars
  <2>2. /\ new.step = "deploying" /\ new.kind = "deploy" /\ new.project = p
        /\ new.domain = domain[p] /\ Holds(new) = {}
    BY <1>b
  <2> HIDE DEF new
  <2>3. Believes(new, projects, domain, port', conf, cert)
    BY <2>1, <2>2 DEF Believes, OnProject, OnRoute, OnAccount, AccountKinds
  <2> QED
    BY <1>a, <2>1, <2>2, <2>3, Starts
<1>4. ASSUME NEW p \in Projects, AskRestart(h, p) PROVE Served'
  <2> DEFINE new == ProjectJob("resyncing", "restart", p, NoDomain, port[p])
  <2>1. Begin(h, new) /\ p \in projects /\ port[p] # NoPort
        /\ UNCHANGED <<projects, domain, port, conf, cert>>
    BY <1>4 DEF AskRestart, rowVars, routeVars
  <2>2. /\ new.step = "resyncing" /\ new.kind = "restart" /\ new.project = p
        /\ new.port = port[p] /\ Holds(new) = {}
    BY DEF ProjectJob, Holds
  <2> HIDE DEF new
  <2>3. Believes(new, projects, domain, port', conf, cert)
    BY <2>1, <2>2 DEF Believes, OnProject, OnRoute, OnAccount, AccountKinds
  <2> QED
    BY <1>a, <2>1, <2>2, <2>3, Starts
<1>5. ASSUME NEW p \in Projects, AskRemove(h, p) PROVE Served'
  <2> DEFINE new == ProjectJob("stopping", "remove", p, domain[p], port[p])
  <2>1. Begin(h, new) /\ p \in projects
        /\ UNCHANGED <<projects, domain, port, conf, cert>>
    BY <1>5 DEF AskRemove, rowVars, routeVars
  <2>2. /\ new.step = "stopping" /\ new.kind = "remove" /\ new.project = p
        /\ new.domain = domain[p] /\ Holds(new) = {}
    BY DEF ProjectJob, Holds
  <2> HIDE DEF new
  <2>3. Believes(new, projects, domain, port', conf, cert)
    BY <2>1, <2>2 DEF Believes, OnProject, OnRoute, OnAccount, AccountKinds
  <2> QED
    BY <1>a, <2>1, <2>2, <2>3, Starts
<1>6. ASSUME NEW p \in Projects, NEW q \in Ports, AskPort(h, p, q) PROVE Served'
  <2> DEFINE new == ProjectJob("resyncing", "allocatePort", p, NoDomain, q)
  <2>1. /\ Begin(h, new) /\ p \in projects /\ port' = [port EXCEPT ![p] = q]
        /\ UNCHANGED <<projects, domain, conf, cert>>
    BY <1>6 DEF AskPort, routeVars
  <2>2. /\ new.step = "resyncing" /\ new.kind = "allocatePort" /\ new.project = p
        /\ new.port = q /\ Holds(new) = {} /\ Scope(new) = {p}
    BY DEF ProjectJob, Holds, Scope
  <2> HIDE DEF new
  <2>3. port'[p] = q /\ q # NoPort /\ \A r \in Projects \ {p} : port'[r] = port[r]
    BY <1>a, <2>1, RoutesAssumption
  <2>4. Believes(new, projects, domain, port', conf, cert)
    BY <2>1, <2>2, <2>3 DEF Believes, OnProject, OnRoute, OnAccount, AccountKinds
  <2>5. \A r \in Projects : port'[r] = port[r] \/
          (r = new.project /\ r \in projects \cap Scope(new) /\ new.step \in Changing)
    BY <2>1, <2>2, <2>3 DEF Changing
  <2> QED
    BY <1>a, <2>1, <2>2, <2>4, <2>5, Starts
<1>7. ASSUME NEW u \in Users, AskDeleteAccount(h, u) PROVE Served'
  <2> DEFINE new == UserJob("removing", "deleteAccount", u, projects \cap OwnedBy(u))
  <2>1. Begin(h, new) /\ UNCHANGED <<projects, domain, port, conf, cert>>
    BY <1>7 DEF AskDeleteAccount, rowVars, routeVars
  <2>2. /\ new.step = "removing" /\ new.kind = "deleteAccount" /\ new.user = u
        /\ new.todo = projects \cap OwnedBy(u)
    BY DEF UserJob
  <2> HIDE DEF new
  <2>3. Holds(new) = {}
    BY <2>2 DEF Holds
  <2>4. Believes(new, projects, domain, port', conf, cert)
    BY <2>2 DEF Believes, OnProject, OnRoute, OnAccount
  <2> QED
    BY <1>a, <2>1, <2>3, <2>4, Starts
<1>8. ASSUME NEW u \in Users, deleteUser(h, u) PROVE FALSE
  BY <1>8, <1>a DEF deleteUser, AskTakeDown
<1>9. ASSUME factoryReset(h) PROVE FALSE
  BY <1>9, <1>a DEF factoryReset, AskTakeDown
<1> QED
  BY <1>1, <1>2, <1>3, <1>4, <1>5, <1>6, <1>7, <1>8, <1>9 DEF AskProject

\* The domain that a request has not yet given to a project leads nowhere.
LEMMA HeldLeadsNowhere ==
    ASSUME Served, NEW h \in Handlers, job[h].step # "logging",
           NEW d \in Domains \cap Holds(job[h])
    PROVE  conf[d] = NoConf
<1>1. \A p \in projects : domain[p] # d
  BY DEF Served, OneDomainEach
<1>2. \A g \in Handlers : job[g].step = "logging" => d \notin Holds(job[g])
  BY DEF Served, OneDomainEach
<1> QED
  BY <1>1, <1>2 DEF Served, ConfsOwned

\* A request changes the route of a project in its scope.
LEMMA ChangesInScope ==
    ASSUME Served, NEW g \in Handlers, job[g].step \in Changing
    PROVE  job[g].project \in Scope(job[g])
<1>1. Busy(g) /\ OnAccount(job[g], projects)
  BY DEF Busy, Changing, Served, Believed, Believes
<1>2. CASE job[g].kind \notin AccountKinds
  BY <1>2, Scopes
<1>3. CASE job[g].kind \in AccountKinds
  BY <1>1, <1>3, Scopes DEF OnAccount, Changing
<1> QED
  BY <1>2, <1>3

\* So a project is led to while a request that changes no route works on it.
LEMMA LedMeanwhile ==
    ASSUME Served, NEW h \in Handlers, Busy(h), job[h].step \notin Changing,
           NEW p \in projects \cap Scope(job[h])
    PROVE  Led(p, domain, port, conf, cert)
<1>1. ASSUME NEW g \in Handlers, job[g].project = p, job[g].step \in Changing
      PROVE  FALSE
  <2>1. g # h /\ Busy(g) /\ p \in Scope(job[g])
    BY <1>1, ChangesInScope DEF Busy, Changing
  <2> QED
    BY <2>1 DEF Served, Alone
<1> QED
  BY <1>1 DEF Served, AllLed

\* What a request that ends leaves to the others.
LEMMA IdleHoldsNothing == Idle.step = "idle" /\ Holds(Idle) = {}
  BY DEF Idle, ProjectJob, Holds

\* The facts on which the step of a request rests.
LEMMA StepRests ==
    ASSUME TypeInv, Quiet, Served, NEW h \in Handlers, Busy(h)
    PROVE  /\ job \in [Handlers -> Jobs]
           /\ Believes(job[h], projects, domain, port, conf, cert)
           /\ projects \subseteq Projects /\ cert \subseteq Domains
           /\ port \in [Projects -> Ports \cup {NoPort}]
           /\ domain \in [Projects -> Domains \cup {NoDomain}]
           /\ conf \in [Domains -> Confs]
           /\ \A p \in Projects : IF p \in projects THEN domain[p] \in Domains
                                  ELSE domain[p] = NoDomain /\ port[p] = NoPort
           /\ ~Fails("db")
           /\ job[h].kind \notin AccountKinds => Scope(job[h]) = {job[h].project}
           /\ job[h].kind \in AccountKinds => /\ job[h].kind = "deleteAccount"
                                              /\ Scope(job[h]) = OwnedBy(job[h].user)
<1>1. Believes(job[h], projects, domain, port, conf, cert)
  BY DEF Served, Believed
<1>2. /\ job[h].kind \notin AccountKinds => Scope(job[h]) = {job[h].project}
      /\ job[h].kind \in AccountKinds => /\ job[h].kind = "deleteAccount"
                                         /\ Scope(job[h]) = OwnedBy(job[h].user)
  BY <1>1, Scopes DEF Believes, OnAccount
<1> QED
  BY <1>1, <1>2 DEF TypeInv, RoutesTypeOK, Quiet, Fails, Served, RowsFilled

\* The step that creates a project or names it anew.
LEMMA NamesServed ==
    ASSUME TypeInv, TypeInv', Quiet, Served, NEW h \in Handlers,
           Insert(h) \/ WriteDomain(h)
    PROVE  Served'
<1> DEFINE j == job[h]
           P == job[h].project
<1>1. Busy(h) /\ j.step \in {"inserting", "writing"}
  BY DEF Insert, WriteDomain, Busy
<1> HIDE DEF j, P
<1>2. /\ job \in [Handlers -> Jobs] /\ Believes(j, projects, domain, port, conf, cert)
      /\ projects \subseteq Projects
      /\ domain \in [Projects -> Domains \cup {NoDomain}]
      /\ \A p \in Projects : IF p \in projects THEN domain[p] \in Domains
                             ELSE domain[p] = NoDomain /\ port[p] = NoPort
      /\ ~Fails("db") /\ j.kind \notin AccountKinds /\ Scope(j) = {P}
  <2>1. Believes(j, projects, domain, port, conf, cert)
    BY <1>1, StepRests DEF j
  <2>2. j.kind \notin AccountKinds
    BY <1>1, <2>1 DEF Believes, OnAccount
  <2> QED
    BY <1>1, <2>1, <2>2, StepRests DEF j, P
<1>3. CASE Insert(h)
  <2>1. /\ j.step = "inserting" /\ P \in Projects \ projects /\ j.domain \in Domains
        /\ Holds(j) = {j.domain} /\ conf[j.domain] = NoConf
    <3>1. j.step = "inserting" /\ Holds(j) = {j.domain}
      BY <1>3 DEF Insert, j, Holds
    <3> QED
      BY <1>2, <3>1, HeldLeadsNowhere DEF Believes, OnProject, j, P
  <2>2. /\ job' = [job EXCEPT ![h] = Idle] /\ UNCHANGED <<port, conf, cert>>
        /\ \/ /\ projects' = projects \cup {P}
              /\ domain' = [domain EXCEPT ![P] = j.domain]
           \/ UNCHANGED <<projects, domain>>
    BY <1>3 DEF Insert, Finish, routeVars, j, P
  <2> DEFINE M == {j.domain}
  <2>3. M = Holds(j) \cup {domain[p] : p \in projects \cap {P}}
    BY <2>1
  <2>4. OnlyAt({P}, M)
    BY <1>2, <2>2 DEF OnlyAt
  <2>5. IF P \in projects'
        THEN domain'[P] \in Domains \cap M /\ Led(P, domain', port', conf', cert')
        ELSE domain'[P] = NoDomain /\ port'[P] = NoPort
    BY <1>2, <2>1, <2>2 DEF Led
  <2>6. \A d \in Domains \cap M : conf'[d] = NoConf
    BY <2>1, <2>2
  <2>7. j.step \in Changing => P \in {P}
    OBVIOUS
  <2>8. {P} \subseteq Scope(j) \cap Projects
    BY <1>2, <2>1
  <2> HIDE DEF M
  <2>9. GoesOn(h, Idle, {P}, M)
    BY <1>1, <2>2, <2>3, <2>4, <2>5, <2>6, <2>7, <2>8, IdleHoldsNothing DEF GoesOn, j, P
  <2> QED
    BY <2>9, OthersServed
<1>4. CASE WriteDomain(h)
  <2>1. /\ j.step = "writing" /\ P \in projects /\ j.wanted \in Domains
        /\ j.domain = domain[P] /\ j.port = port[P]
        /\ Holds(j) = {j.wanted} \ {j.domain}
    <3>1. j.step = "writing" /\ Holds(j) = {j.wanted} \ {j.domain}
      BY <1>4 DEF WriteDomain, j, Holds
    <3> QED
      BY <1>2, <3>1 DEF Believes, OnProject, j, P
  <2> DEFINE new == [j EXCEPT !.step = "logging"]
             M == {j.wanted, j.domain}
  <2>2. /\ job' = [job EXCEPT ![h] = new] /\ UNCHANGED <<projects, port, conf, cert>>
        /\ domain' = [domain EXCEPT ![P] = j.wanted]
    BY <1>2, <1>4, <2>1 DEF WriteDomain, GoOn, routeVars, j, P
  <2>3. /\ new.step = "logging" /\ new.project = P /\ new.domain = j.domain
        /\ new.wanted = j.wanted /\ new.port = j.port /\ new.kind = j.kind
        /\ new.user = j.user
    BY <1>2 DEF j, P, Jobs
  <2> HIDE DEF new
  <2>4. Holds(new) = {j.domain} \ {j.wanted} /\ Scope(new) = Scope(j)
    BY <2>3 DEF Holds, Scope, j, P
  <2>5. domain'[P] = j.wanted /\ \A p \in Projects \ {P} : domain'[p] = domain[p]
    BY <1>2, <2>1, <2>2
  <2>6. M = Holds(j) \cup {domain[p] : p \in projects \cap {P}}
    BY <2>1
  <2>7. OnlyAt({P}, M)
    BY <2>2, <2>5 DEF OnlyAt
  <2>8. OnRoute(new, domain', port', conf', cert')
    <3>1. CASE j.wanted = j.domain
      <4>1. Led(P, domain, port, conf, cert)
        BY <1>1, <1>2, <2>1, LedMeanwhile DEF Changing, j
      <4>2. Led(P, domain', port', conf', cert')
        BY <2>1, <2>2, <2>5, <3>1, <4>1 DEF Led
      <4> QED
        BY <2>3, <3>1, <4>2 DEF OnRoute
    <3>2. CASE j.wanted # j.domain
      <4>1. conf[j.wanted] = NoConf
        BY <2>1, <3>2, HeldLeadsNowhere DEF j
      <4> QED
        BY <2>2, <2>3, <3>2, <4>1 DEF OnRoute
    <3> QED
      BY <3>1, <3>2
  <2>9. Believes(new, projects', domain', port', conf', cert')
    BY <1>2, <2>1, <2>2, <2>3, <2>5, <2>8 DEF Believes, OnProject, OnAccount
  <2>10. /\ domain'[P] \in (Domains \cap M) \ Holds(new)
         /\ new.project = P /\ new.step \in Changing
    BY <2>1, <2>3, <2>4, <2>5 DEF Changing
  <2>11. \A d \in Domains \cap M : \/ \E p \in projects' \cap {P} : domain'[p] = d
                                   \/ new.step = "logging" /\ d \in Holds(new)
    BY <2>1, <2>2, <2>3, <2>4, <2>5
  <2>12. {P} \subseteq Scope(j) \cap Projects /\ P \in projects' /\ Holds(new) \subseteq M
    BY <1>2, <2>1, <2>2, <2>4
  <2>13. j.step \in Changing => P \in {P}
    OBVIOUS
  <2> HIDE DEF M
  <2>14. GoesOn(h, new, {P}, M)
    BY <1>1, <2>2, <2>4, <2>6, <2>7, <2>9, <2>10, <2>11, <2>12, <2>13 DEF GoesOn, j, P
  <2> QED
    BY <2>14, OthersServed
<1> QED
  BY <1>3, <1>4

\* A request that keeps its kind, project and user keeps its scope.
LEMMA SameScope ==
    ASSUME NEW j, NEW k, k.kind = j.kind, k.user = j.user, k.project = j.project
    PROVE  Scope(k) = Scope(j)
  BY DEF Scope

\* A request that reads or changes the route of a project finds its row.
LEMMA AtWork ==
    ASSUME TypeInv, Quiet, Served, NEW h \in Handlers,
           job[h].step \in {"deploying"} \cup Changing
    PROVE  /\ Busy(h)
           /\ job[h].project \in projects \cap Projects \cap Scope(job[h])
           /\ domain[job[h].project] \in Domains
           /\ job[h].step \notin {"logging", "resyncing"} =>
                 job[h].domain = domain[job[h].project]
           /\ job[h].step # "logging" => Holds(job[h]) = {}
           /\ job[h].step \in {"deploying", "logging", "publishing", "ssl", "resyncing"} =>
                 job[h].kind \notin AccountKinds
<1>1. Busy(h)
  BY DEF Busy, Changing
<1>2. Believes(job[h], projects, domain, port, conf, cert)
  BY <1>1 DEF Served, Believed
<1>3. job[h].kind \in AccountKinds => job[h].step \in {"stopping", "unrouting", "deletingRow"}
  BY <1>2 DEF Believes, OnAccount, Changing
<1>4. job[h].project \in Scope(job[h])
  BY <1>2, <1>3, Scopes DEF Believes, OnAccount
<1>5. job[h].project \in projects \cap Projects /\ domain[job[h].project] \in Domains
  BY <1>2 DEF Believes, OnProject, Changing, Served, RowsFilled, TypeInv, RoutesTypeOK
<1>6. job[h].step \notin {"logging", "resyncing"} =>
         job[h].domain = domain[job[h].project]
  BY <1>2 DEF Believes, OnProject, Changing
<1>7. job[h].step # "logging" => Holds(job[h]) = {}
  BY DEF Holds, Changing
<1> QED
  BY <1>1, <1>3, <1>4, <1>5, <1>6, <1>7

\* Of the row and the route of its project, a request has changed the port and
\* the configuration at most, and it ends with the project led to or goes on.
KeepsToRoute(h, new, P, M) ==
    /\ job[h].step \in {"deploying"} \cup Changing
    /\ job' = [job EXCEPT ![h] = new]
    /\ P = job[h].project /\ M = Holds(job[h]) \cup {domain[P]}
    /\ UNCHANGED <<projects, domain>>
    /\ \A p \in Projects \ {P} : port'[p] = port[p]
    /\ \A d \in Domains \ M : conf'[d] = conf[d] /\ (d \in cert' <=> d \in cert)
    /\ \A d \in Domains \cap Holds(job[h]) : conf'[d] = NoConf
    /\ Holds(new) = {}
    /\ \/ /\ new.step = "idle"
          /\ Led(P, domain', port', conf', cert')
       \/ /\ new.step \in Changing /\ new.project = P
          /\ new.kind = job[h].kind
          /\ new.kind \in AccountKinds => new.user = job[h].user
          /\ Believes(new, projects', domain', port', conf', cert')

\* Then the others are left as they were.
LEMMA OwnRouteServed ==
    ASSUME TypeInv, TypeInv', Quiet, Served, NEW h \in Handlers, NEW new, NEW P, NEW M,
           KeepsToRoute(h, new, P, M)
    PROVE  Served'
<1> USE DEF KeepsToRoute
<1>1. /\ Busy(h) /\ P \in projects \cap Projects \cap Scope(job[h])
      /\ domain[P] \in Domains
  BY AtWork
<1>2. M = Holds(job[h]) \cup {domain[p] : p \in projects \cap {P}}
  BY <1>1
<1>3. OnlyAt({P}, M)
  BY DEF OnlyAt
<1>4. new.step # "idle" =>
         /\ Scope(new) \subseteq Scope(job[h])
         /\ Believes(new, projects', domain', port', conf', cert')
  BY SameScope, Scopes
<1>5. P \in projects' /\ domain'[P] \in (Domains \cap M) \ Holds(new)
  BY <1>1
<1>6. \A d \in Domains \cap M : conf'[d] # NoConf => \E p \in projects' \cap {P} : domain'[p] = d
  BY <1>1
<1>7. GoesOn(h, new, {P}, M)
  BY <1>1, <1>2, <1>3, <1>4, <1>5, <1>6 DEF GoesOn
<1> QED
  BY <1>7, OthersServed

\* The certificate request that follows a new route.
LEMMA SslServed ==
    ASSUME TypeInv, TypeInv', Quiet, Served, NEW h \in Handlers,
           job[h].step \in {"logging", "publishing"}, NEW q \in Ports,
           q = port[job[h].project],
           RequestSsl(h, domain[job[h].project], q),
           UNCHANGED <<projects, domain, port, cert>>,
           conf'[domain[job[h].project]].port = q,
           \A d \in Domains \ (Holds(job[h]) \cup {domain[job[h].project]}) :
               conf'[d] = conf[d],
           \A d \in Domains \cap Holds(job[h]) : conf'[d] = NoConf
    PROVE  Served'
<1> DEFINE P == job[h].project
           new == ProjectJob("ssl", job[h].kind, P, domain[P], q)
           M == Holds(job[h]) \cup {domain[P]}
<1>1. /\ P \in projects /\ job[h].kind \notin AccountKinds
  BY AtWork DEF Changing
<1>2. /\ new.step = "ssl" /\ new.project = P /\ new.kind = job[h].kind
      /\ new.domain = domain[P] /\ new.port = q
  BY DEF ProjectJob
<1>3. job' = [job EXCEPT ![h] = new]
  BY DEF RequestSsl
<1> HIDE DEF new
<1>4. Holds(new) = {}
  BY <1>2 DEF Holds
<1>5. q # NoPort
  BY RoutesAssumption
<1>6. Believes(new, projects', domain', port', conf', cert')
  BY <1>1, <1>2, <1>5 DEF Believes, OnProject, OnRoute, OnAccount
<1>7. new.step \in Changing
  BY <1>2 DEF Changing
<1>8. KeepsToRoute(h, new, P, M)
  BY <1>1, <1>2, <1>3, <1>4, <1>6, <1>7 DEF KeepsToRoute, Changing
<1> QED
  BY <1>8, OwnRouteServed

\* A request that ends once the route leads to its project.
LEMMA EndServed ==
    ASSUME TypeInv, TypeInv', Quiet, Served, NEW h \in Handlers,
           job[h].step \in {"deploying"} \cup Changing, Finish(h),
           UNCHANGED <<projects, domain, port>>,
           \A d \in Domains \ {domain[job[h].project]} :
               conf'[d] = conf[d] /\ (d \in cert' <=> d \in cert),
           Holds(job[h]) = {},
           Led(job[h].project, domain', port', conf', cert')
    PROVE  Served'
<1>1. KeepsToRoute(h, Idle, job[h].project, {domain[job[h].project]})
  BY IdleHoldsNothing DEF KeepsToRoute, Finish
<1> QED
  BY <1>1, OwnRouteServed

\* The steps that write configurations.
LEMMA RouteServed ==
    ASSUME TypeInv, TypeInv', Quiet, Served, NEW h \in Handlers,
           \/ Reroute(h) \/ Replace(h) \/ Publish(h)
           \/ SslGranted(h) \/ SslRefused(h) \/ Resync(h)
    PROVE  Served'
<1> DEFINE j == job[h]
           P == job[h].project
<1>1. /\ j.step \in {"logging", "deploying", "publishing", "ssl", "resyncing"}
      /\ j.step \in {"deploying"} \cup Changing
  BY DEF Reroute, Replace, Publish, SslGranted, SslRefused, Resync, Changing
<1>2. /\ Busy(h) /\ P \in projects \cap Projects /\ domain[P] \in Domains
      /\ j.step # "logging" => Holds(j) = {}
      /\ j.step \notin {"logging", "resyncing"} => j.domain = domain[P]
      /\ j.kind \notin AccountKinds
  BY <1>1, AtWork
<1>3. /\ job \in [Handlers -> Jobs] /\ Believes(j, projects, domain, port, conf, cert)
      /\ port \in [Projects -> Ports \cup {NoPort}] /\ conf \in [Domains -> Confs]
      /\ ~Fails("db") /\ P \in Scope(j) /\ NoDomain \notin Domains
  BY <1>1, <1>2, StepRests, AtWork, RoutesAssumption
<1> DEFINE d == domain[P]
<1>4. CASE Reroute(h)
  <2>1. /\ j.step = "logging" /\ j.wanted = d /\ j.port = port[P]
        /\ Holds(j) = {j.domain} \ {d}
        /\ UNCHANGED <<projects, domain, port, cert>>
    BY <1>3, <1>4 DEF Reroute, Believes, OnProject, Holds, rowVars
  <2>2. CASE j.wanted = j.domain
    <3>1. Finish(h) /\ UNCHANGED conf /\ Holds(j) = {}
      BY <1>4, <2>1, <2>2 DEF Reroute
    <3>2. Led(P, domain', port', conf', cert')
      BY <1>3, <2>1, <2>2, <3>1 DEF Believes, OnRoute, Led
    <3> QED
      BY <1>1, <2>1, <3>1, <3>2, EndServed
  <2>3. CASE j.wanted # j.domain
    <3>1. conf' = [e \in Domains |->
                      IF e = d /\ j.port # NoPort
                      THEN [port |-> j.port, https |-> FALSE]
                      ELSE IF e = j.domain THEN NoConf ELSE conf[e]]
      BY <1>2, <1>3, <1>4, <2>1, <2>3 DEF Reroute
    <3>2. IF j.port = NoPort THEN Finish(h) ELSE RequestSsl(h, d, j.port)
      BY <1>2, <1>3, <1>4, <2>1, <2>3 DEF Reroute
    <3>3. /\ \A e \in Domains \ (Holds(j) \cup {d}) : conf'[e] = conf[e]
          /\ \A e \in Domains \cap Holds(j) : conf'[e] = NoConf
      BY <2>1, <2>3, <3>1
    <3>4. CASE j.port = NoPort
      <4>1. conf[d] = NoConf
        BY <1>3, <2>1, <2>3 DEF Believes, OnRoute
      <4>2. conf'[d] = NoConf
        BY <1>2, <2>1, <2>3, <3>1, <3>4, <4>1
      <4>3. Led(P, domain', port', conf', cert')
        BY <2>1, <3>4, <4>2 DEF Led
      <4>4. KeepsToRoute(h, Idle, P, Holds(j) \cup {d})
        BY <1>1, <2>1, <3>2, <3>3, <3>4, <4>3, IdleHoldsNothing
        DEF KeepsToRoute, Finish
      <4> QED
        BY <4>4, OwnRouteServed
    <3>5. CASE j.port # NoPort
      <4>1. conf'[d].port = port[P] /\ port[P] \in Ports
        BY <1>2, <1>3, <2>1, <3>1, <3>5
      <4> QED
        BY <2>1, <3>2, <3>3, <3>5, <4>1, SslServed
    <3> QED
      BY <3>4, <3>5
  <2> QED
    BY <2>2, <2>3
<1>5. CASE Replace(h)
  <2>1. /\ j.step = "deploying" /\ UNCHANGED <<projects, domain, conf, cert>>
    BY <1>5 DEF Replace, routeVars
  <2>2. Holds(j) = {} /\ j.domain = d /\ j.domain # NoDomain
    BY <1>2, <1>3, <2>1
  <2>3. CASE Finish(h) /\ UNCHANGED port
    <3>1. Led(P, domain, port, conf, cert)
      BY <1>2, <1>3, <2>1, LedMeanwhile DEF Changing
    <3>2. Led(P, domain', port', conf', cert')
      BY <2>1, <2>3, <3>1 DEF Led
    <3> QED
      BY <1>1, <2>1, <2>2, <2>3, <3>2, EndServed
  <2>4. ASSUME NEW q \in Ports, port' = [port EXCEPT ![P] = q],
               job' = [job EXCEPT ![h].port = q, ![h].step = "publishing"]
        PROVE  Served'
    <3> DEFINE new == [j EXCEPT !.port = q, !.step = "publishing"]
    <3>1. job' = [job EXCEPT ![h] = new]
      BY <1>3, <2>4
    <3>2. /\ new.step = "publishing" /\ new.kind = j.kind /\ new.project = P
          /\ new.domain = j.domain /\ new.port = q
      BY <1>3 DEF Jobs
    <3> HIDE DEF new
    <3>3. port'[P] = q /\ q # NoPort /\ \A p \in Projects \ {P} : port'[p] = port[p]
      BY <1>2, <1>3, <2>4, RoutesAssumption
    <3>4. Believes(new, projects', domain', port', conf', cert')
      BY <1>2, <2>1, <2>2, <3>2, <3>3 DEF Believes, OnProject, OnRoute, OnAccount
    <3>5. Holds(new) = {} /\ new.step \in Changing
      BY <3>2 DEF Holds, Changing
    <3>6. KeepsToRoute(h, new, P, {d})
      BY <1>1, <1>2, <2>1, <2>2, <3>1, <3>2, <3>3, <3>4, <3>5 DEF KeepsToRoute
    <3> QED
      BY <3>6, OwnRouteServed
  <2>5. \/ Finish(h) /\ UNCHANGED port
        \/ \E q \in Ports : /\ port' = [port EXCEPT ![P] = q]
                            /\ job' = [job EXCEPT ![h].port = q, ![h].step = "publishing"]
    BY <1>5, <2>2 DEF Replace
  <2> QED
    BY <2>3, <2>4, <2>5
<1>6. CASE Publish(h)
  <2>1. /\ j.step = "publishing" /\ UNCHANGED <<projects, domain, port, cert>>
        /\ conf' = [conf EXCEPT ![j.domain] = [port |-> j.port, https |-> FALSE]]
        /\ RequestSsl(h, j.domain, j.port)
    BY <1>6 DEF Publish, rowVars
  <2>2. Holds(j) = {} /\ j.domain = d /\ j.port = port[P] /\ j.port # NoPort
    BY <1>2, <1>3, <2>1 DEF Believes, OnProject
  <2>3. conf'[d].port = port[P] /\ port[P] \in Ports
    BY <1>2, <1>3, <2>1, <2>2
  <2>4. \A e \in Domains \ (Holds(j) \cup {d}) : conf'[e] = conf[e]
    BY <1>3, <2>1, <2>2
  <2> QED
    BY <2>1, <2>2, <2>3, <2>4, SslServed
<1>7. CASE SslGranted(h)
  <2>1. /\ j.step = "ssl" /\ UNCHANGED <<projects, domain, port>>
        /\ conf' = [conf EXCEPT ![j.domain] = [port |-> j.port, https |-> TRUE]]
        /\ cert' = cert \cup {j.domain} /\ Finish(h)
    BY <1>7 DEF SslGranted, rowVars
  <2>2. Holds(j) = {} /\ j.domain = d /\ j.port = port[P] /\ j.port # NoPort
    BY <1>2, <1>3, <2>1 DEF Believes, OnProject
  <2>3. Led(P, domain', port', conf', cert')
    BY <1>2, <1>3, <2>1, <2>2 DEF Led
  <2>4. \A e \in Domains \ {d} : conf'[e] = conf[e] /\ (e \in cert' <=> e \in cert)
    BY <1>3, <2>1, <2>2
  <2> QED
    BY <1>1, <2>1, <2>2, <2>3, <2>4, EndServed
<1>8. CASE SslRefused(h)
  <2>1. /\ j.step = "ssl" /\ UNCHANGED <<projects, domain, port, conf, cert>>
        /\ j.domain \notin cert /\ Finish(h)
    BY <1>8 DEF SslRefused, rowVars, routeVars
  <2>2. /\ Holds(j) = {} /\ j.domain = d /\ j.port = port[P] /\ j.port # NoPort
        /\ conf[d].port = port[P]
    BY <1>2, <1>3, <2>1 DEF Believes, OnProject, OnRoute
  <2>3. Led(P, domain', port', conf', cert')
    BY <2>1, <2>2 DEF Led
  <2> QED
    BY <1>1, <2>1, <2>2, <2>3, EndServed
<1>9. CASE Resync(h)
  <2>1. /\ j.step = "resyncing" /\ UNCHANGED <<projects, domain, port, cert>>
        /\ conf' = [conf EXCEPT ![d] = [port |-> j.port,
                                        https |-> d \in cert \cup SystemCerts]]
        /\ Finish(h)
    BY <1>2, <1>3, <1>9 DEF Resync, rowVars
  <2>2. Holds(j) = {} /\ j.port = port[P] /\ j.port # NoPort
    BY <1>2, <1>3, <2>1 DEF Believes, OnProject
  <2>3. conf'[d].port = j.port /\ (d \in cert => conf'[d].https)
    BY <1>2, <1>3, <2>1
  <2>4. Led(P, domain', port', conf', cert')
    BY <2>1, <2>2, <2>3 DEF Led
  <2>5. \A e \in Domains \ {d} : conf'[e] = conf[e]
    BY <1>3, <2>1
  <2> QED
    BY <1>1, <2>1, <2>2, <2>4, <2>5, EndServed
<1> QED
  BY <1>4, <1>5, <1>6, <1>7, <1>8, <1>9

\* The steps that remove a project, for its owner or with the account.
LEMMA RemovalServed ==
    ASSUME TypeInv, TypeInv', Quiet, Served, NEW h \in Handlers,
           StopContainers(h) \/ RemoveConfig(h) \/ DeleteRow(h)
    PROVE  Served'
<1> DEFINE j == job[h]
           P == job[h].project
           d == domain[job[h].project]
<1>1. /\ j.step \in {"stopping", "unrouting", "deletingRow"}
      /\ j.step \in {"deploying"} \cup Changing
  BY DEF StopContainers, RemoveConfig, DeleteRow, Changing
<1>2. /\ Busy(h) /\ P \in projects \cap Projects \cap Scope(j) /\ d \in Domains
      /\ Holds(j) = {} /\ j.domain = d
  BY <1>1, AtWork
<1>3. /\ job \in [Handlers -> Jobs] /\ Believes(j, projects, domain, port, conf, cert)
      /\ conf \in [Domains -> Confs] /\ projects \subseteq Projects
      /\ ~Fails("db") /\ NoDomain \notin Domains
  BY <1>1, <1>2, StepRests, RoutesAssumption
<1>4. ASSUME NEW s \in {"unrouting", "deletingRow", "removing"}
      PROVE  LET new == [j EXCEPT !.step = s] IN
             /\ new.step = s /\ new.kind = j.kind /\ new.project = P
             /\ new.user = j.user /\ new.todo = j.todo /\ new.domain = j.domain
             /\ Holds(new) = {} /\ Scope(new) = Scope(j)
  <2> DEFINE new == [j EXCEPT !.step = s]
  <2>1. /\ new.step = s /\ new.kind = j.kind /\ new.project = P
        /\ new.user = j.user /\ new.todo = j.todo /\ new.domain = j.domain
    BY <1>3 DEF Jobs
  <2> HIDE DEF new
  <2>2. Holds(new) = {} /\ Scope(new) = Scope(j)
    BY <2>1, SameScope DEF Holds
  <2> QED
    BY <2>1, <2>2 DEF new
<1>5. ASSUME NEW s \in {"unrouting", "deletingRow"}, GoOn(h, s),
             UNCHANGED <<projects, domain, port, cert>>,
             \A e \in Domains \ {d} : conf'[e] = conf[e],
             s = "deletingRow" => conf'[d] = NoConf
      PROVE  Served'
  <2> DEFINE new == [j EXCEPT !.step = s]
  <2>1. /\ new.step = s /\ new.kind = j.kind /\ new.project = P
        /\ new.user = j.user /\ new.todo = j.todo /\ new.domain = j.domain
        /\ Holds(new) = {}
    BY <1>4
  <2>2. job' = [job EXCEPT ![h] = new]
    BY <1>3, <1>5 DEF GoOn
  <2> HIDE DEF new
  <2>3. Believes(new, projects', domain', port', conf', cert')
    <3>1. OnProject(new, projects', domain', port')
      BY <1>2, <1>5, <2>1 DEF OnProject
    <3>2. OnRoute(new, domain', port', conf', cert')
      BY <1>2, <1>5, <2>1 DEF OnRoute
    <3>3. OnAccount(new, projects')
      BY <1>1, <1>3, <1>5, <2>1 DEF Believes, OnAccount
    <3> QED
      BY <3>1, <3>2, <3>3 DEF Believes
  <2>4. new.step \in Changing
    BY <2>1 DEF Changing
  <2>5. KeepsToRoute(h, new, P, {d})
    BY <1>1, <1>2, <1>5, <2>1, <2>2, <2>3, <2>4 DEF KeepsToRoute
  <2> QED
    BY <2>5, OwnRouteServed
<1>6. CASE StopContainers(h)
  <2>1. GoOn(h, "unrouting") /\ UNCHANGED <<projects, domain, port, cert, conf>>
    BY <1>6 DEF StopContainers, rowVars, routeVars
  <2> QED
    BY <1>5, <2>1
<1>7. CASE RemoveConfig(h)
  <2>1. /\ GoOn(h, "deletingRow") /\ UNCHANGED <<projects, domain, port, cert>>
        /\ conf' = [e \in Domains |-> IF e = d THEN NoConf ELSE conf[e]]
    BY <1>2, <1>7 DEF RemoveConfig, rowVars
  <2>2. conf'[d] = NoConf /\ \A e \in Domains \ {d} : conf'[e] = conf[e]
    BY <1>2, <2>1
  <2> QED
    BY <1>5, <2>1, <2>2
<1>8. CASE DeleteRow(h)
  <2>1. /\ j.step = "deletingRow" /\ DropProjects({P}) /\ UNCHANGED <<conf, cert>>
        /\ \/ Finish(h)
           \/ j.kind # "remove" /\ GoOn(h, "removing")
    BY <1>2, <1>3, <1>8 DEF DeleteRow, routeVars
  <2>2. conf[d] = NoConf /\ (j.kind # "remove" => j.kind = "deleteAccount")
    BY <1>2, <1>3, <2>1 DEF Believes, OnRoute, OnAccount
  <2>3. /\ projects' = projects \ {P} /\ domain'[P] = NoDomain /\ port'[P] = NoPort
        /\ \A p \in Projects \ {P} : domain'[p] = domain[p] /\ port'[p] = port[p]
    BY <1>2, <2>1 DEF DropProjects
  <2>4. OnlyAt({P}, {d})
    BY <2>1, <2>3 DEF OnlyAt
  <2>5. {d} = Holds(j) \cup {domain[p] : p \in projects \cap {P}}
    BY <1>2
  <2>6. ASSUME NEW new, job' = [job EXCEPT ![h] = new], Holds(new) = {},
               new.step # "idle" =>
                   /\ Scope(new) \subseteq Scope(j)
                   /\ Believes(new, projects', domain', port', conf', cert')
        PROVE  Served'
    <3>1. GoesOn(h, new, {P}, {d})
      BY <1>2, <2>1, <2>2, <2>3, <2>4, <2>5, <2>6 DEF GoesOn
    <3> QED
      BY <3>1, OthersServed
  <2>7. CASE Finish(h)
    BY <2>6, <2>7, IdleHoldsNothing DEF Finish
  <2>8. CASE j.kind # "remove" /\ GoOn(h, "removing")
    <3> DEFINE new == [j EXCEPT !.step = "removing"]
    <3>1. /\ new.step = "removing" /\ new.kind = j.kind /\ new.user = j.user
          /\ new.todo = j.todo /\ Holds(new) = {} /\ Scope(new) = Scope(j)
      BY <1>4
    <3>2. job' = [job EXCEPT ![h] = new]
      BY <1>3, <2>8 DEF GoOn
    <3> HIDE DEF new
    <3>3. OnAccount(new, projects')
      BY <1>3, <2>2, <2>3, <2>8, <3>1 DEF Believes, OnAccount, AccountKinds
    <3>4. Believes(new, projects', domain', port', conf', cert')
      BY <3>1, <3>3 DEF Believes, OnProject, OnRoute
    <3> QED
      BY <2>6, <3>1, <3>2, <3>4
  <2> QED
    BY <2>1, <2>7, <2>8
<1> QED
  BY <1>6, <1>7, <1>8

\* The steps of the deletion of an account between those removals and after.
LEMMA AccountServed ==
    ASSUME TypeInv, TypeInv', Quiet, Served, NEW h \in Handlers,
           RemoveNext(h) \/ DeleteUserRow(h)
    PROVE  Served'
<1> DEFINE j == job[h]
<1>1. Busy(h) /\ j.step \in {"removing", "deletingUser"} /\ Holds(j) = {}
  BY DEF RemoveNext, DeleteUserRow, Busy, Holds
<1>2. /\ job \in [Handlers -> Jobs] /\ Believes(j, projects, domain, port, conf, cert)
      /\ projects \subseteq Projects
      /\ \A p \in Projects \ projects : domain[p] = NoDomain /\ port[p] = NoPort
      /\ domain \in [Projects -> Domains \cup {NoDomain}]
      /\ port \in [Projects -> Ports \cup {NoPort}]
  BY <1>1, StepRests
<1>3. /\ j.kind = "deleteAccount" /\ j.kind \in AccountKinds
      /\ Scope(j) = OwnedBy(j.user) /\ j.todo \subseteq OwnedBy(j.user)
      /\ projects \cap OwnedBy(j.user) \subseteq j.todo
      /\ j.step = "deletingUser" => j.todo = {}
  BY <1>1, <1>2, Scopes DEF Believes, OnAccount, AccountKinds
<1>4. ASSUME NEW new, job' = [job EXCEPT ![h] = new], Holds(new) = {}, OnlyAt({}, {}),
             new.step # "idle" =>
                 /\ Scope(new) \subseteq Scope(j)
                 /\ Believes(new, projects', domain', port', conf', cert')
      PROVE  Served'
  <2>1. j.step \notin Changing /\ {} = Holds(j) \cup {domain[p] : p \in projects \cap {}}
    BY <1>1 DEF Changing
  <2>2. GoesOn(h, new, {}, {})
    BY <1>1, <1>4, <2>1 DEF GoesOn
  <2> QED
    BY <2>2, OthersServed
<1>5. CASE RemoveNext(h)
  <2>1. /\ UNCHANGED <<projects, domain, port, conf, cert>> /\ j.step = "removing"
        /\ \/ \E p \in j.todo \cap projects : job' = [job EXCEPT ![h] = RemovalOf(j, p)]
           \/ Finish(h)
           \/ j.todo = {} /\ GoOn(h, "deletingUser")
    BY <1>5 DEF RemoveNext, rowVars, routeVars
  <2>2. OnlyAt({}, {})
    BY <2>1 DEF OnlyAt
  <2>3. CASE Finish(h)
    BY <1>4, <2>2, <2>3, IdleHoldsNothing DEF Finish
  <2>4. ASSUME NEW p \in j.todo \cap projects, job' = [job EXCEPT ![h] = RemovalOf(j, p)]
        PROVE  Served'
    <3> DEFINE new == RemovalOf(j, p)
    <3>1. /\ new.step = "stopping" /\ new.kind = j.kind /\ new.project = p
          /\ new.user = j.user /\ new.domain = domain[p] /\ new.todo = j.todo \ {p}
      BY DEF RemovalOf
    <3>2. job' = [job EXCEPT ![h] = new]
      BY <2>4
    <3> HIDE DEF new
    <3>3. Holds(new) = {} /\ Scope(new) = Scope(j)
      BY <1>3, <3>1, Scopes DEF Holds
    <3>4. OnProject(new, projects, domain, port) /\ OnRoute(new, domain, port, conf, cert)
      BY <2>4, <3>1 DEF OnProject, OnRoute
    <3>5. OnAccount(new, projects)
      BY <1>3, <2>4, <3>1 DEF OnAccount
    <3>6. Believes(new, projects', domain', port', conf', cert')
      BY <2>1, <3>4, <3>5 DEF Believes
    <3> QED
      BY <1>4, <2>2, <3>2, <3>3, <3>6
  <2>5. CASE j.todo = {} /\ GoOn(h, "deletingUser")
    <3> DEFINE new == [j EXCEPT !.step = "deletingUser"]
    <3>1. /\ new.step = "deletingUser" /\ new.kind = j.kind /\ new.user = j.user
          /\ new.todo = j.todo
      BY <1>2 DEF Jobs
    <3>2. job' = [job EXCEPT ![h] = new]
      BY <1>2, <2>5 DEF GoOn
    <3> HIDE DEF new
    <3>3. Holds(new) = {} /\ Scope(new) = Scope(j)
      BY <1>3, <3>1, Scopes DEF Holds
    <3>4. OnAccount(new, projects)
      BY <1>3, <2>5, <3>1 DEF OnAccount
    <3>5. Believes(new, projects', domain', port', conf', cert')
      BY <2>1, <3>1, <3>4 DEF Believes, OnProject, OnRoute
    <3> QED
      BY <1>4, <2>2, <3>2, <3>3, <3>5
  <2> QED
    BY <2>1, <2>3, <2>4, <2>5
<1>6. CASE DeleteUserRow(h)
  <2>1. /\ Finish(h) /\ UNCHANGED <<conf, cert>> /\ j.step = "deletingUser"
        /\ DropProjects(OwnedBy(j.user)) \/ UNCHANGED <<projects, domain, port>>
    BY <1>6 DEF DeleteUserRow, routeVars
  <2>2. projects \cap OwnedBy(j.user) = {}
    BY <1>3, <2>1
  <2>3. OnlyAt({}, {})
    BY <1>2, <2>1, <2>2 DEF OnlyAt, DropProjects
  <2> QED
    BY <1>4, <2>1, <2>3, IdleHoldsNothing DEF Finish
<1> QED
  BY <1>5, <1>6

\* Every step of a request; those of other deletions are not taken.
LEMMA ProceedServed ==
    ASSUME TypeInv, TypeInv', Quiet, Served, NEW h \in Handlers, Proceed(h)
    PROVE  Served'
<1>1. ~TakeDown(h) /\ ~TakeDownDatabases(h) /\ ~DeleteAll(h)
  BY DEF TakeDown, TakeDownDatabases, DeleteAll, Served, Believed, Busy, Believes, OnAccount
<1> QED
  BY <1>1, NamesServed, RouteServed, RemovalServed, AccountServed DEF Proceed

\* Every step keeps the facts.
LEMMA ServedStep == ServedInv /\ [RoutesNext]_routesVars => ServedInv'
<1> SUFFICES ASSUME ServedInv, [RoutesNext]_routesVars PROVE ServedInv'
  OBVIOUS
<1>1. TypeInv'
  <2>1. CASE UNCHANGED routesVars
    BY <2>1 DEF ServedInv, TypeInv, RoutesTypeOK, Named, routesVars, rowVars,
                dockerVars, routeVars
  <2> QED
    BY <2>1, RoutesTypeStep DEF ServedInv
<1>2. ASSUME Quiet' PROVE Served'
  <2>1. TypeInv /\ Quiet /\ Served
    BY <1>2, PlanIsFixed DEF ServedInv, Quiet
  <2>2. CASE UNCHANGED routesVars
    <3>1. Served' = Served
      BY <2>2 DEF routesVars, rowVars, routeVars, Served, Alone, Busy, Scope, OwnedBy,
                  RowsFilled, OneDomainEach, Holds, ConfsOwned, AllLed, Led, Changing,
                  Believed, Believes, OnProject, OnRoute, OnAccount
    <3> QED
      BY <2>1, <3>1
  <2>3. ASSUME NEW p \in Projects,
               \/ RemoveContainer(p) \/ DeleteProject(p)
               \/ \E d \in Domains \cup {NoDomain} : UpdateProject(p, d)
        PROVE  FALSE
    BY <2>1, <2>3 DEF RemoveContainer, DeleteProject, UpdateProject, Quiet
  <2>4. ~RoutesCrash
    BY <2>1 DEF RoutesCrash, Fails, Quiet
  <2> QED
    BY <1>1, <2>1, <2>2, <2>3, <2>4, AskServed, ProceedServed DEF RoutesNext
<1> QED
  BY <1>1, <1>2 DEF ServedInv

\* So do the first rows and routes.
LEMMA ServedInit == RoutesInit => ServedInv
<1> SUFFICES ASSUME RoutesInit PROVE ServedInv
  OBVIOUS
<1>1. TypeInv
  BY RoutesTypeInit
<1>2. \A h \in Handlers : ~Busy(h) /\ Holds(job[h]) = {}
  BY IdleHoldsNothing DEF RoutesInit, Busy
<1>3. Alone /\ Believed
  BY <1>2 DEF Alone, Believed
<1>4. RowsFilled /\ OneDomainEach
  BY <1>2, RoutesAssumption DEF RoutesInit, RowsFilled, OneDomainEach
<1>5. ConfsOwned
  BY RoutesAssumption DEF RoutesInit, ConfsOwned
<1>6. AllLed
  BY RoutesAssumption DEF RoutesInit, AllLed, Led
<1> QED
  BY <1>1, <1>3, <1>4, <1>5, <1>6 DEF ServedInv, Served

\* They say that projects at rest are led to, and that nothing else is.
LEMMA ServedMeans == ServedInv => RoutesServeOwner
<1> SUFFICES ASSUME ServedInv, Quiet
             PROVE  /\ \A p \in projects :
                          AtRest(p) /\ domain[p] # NoDomain /\ port[p] # NoPort =>
                              /\ conf[domain[p]].port = port[p]
                              /\ domain[p] \in cert => conf[domain[p]].https
                    /\ \A d \in Domains : conf[d] # NoConf =>
                          \/ \E p \in projects :
                                domain[p] = d /\ (port[p] = conf[d].port \/ ~AtRest(p))
                          \/ Claimed(d)
  BY DEF RoutesServeOwner, Quiet
<1>1. Served
  BY DEF ServedInv
<1>2. ASSUME NEW p \in projects, AtRest(p) PROVE Led(p, domain, port, conf, cert)
  <2>1. ASSUME NEW g \in Handlers, job[g].project = p, job[g].step \in Changing PROVE FALSE
    BY <1>1, <1>2, <2>1, ChangesInScope DEF AtRest, Busy, Changing
  <2> QED
    BY <1>1, <2>1 DEF Served, AllLed
<1>3. ASSUME NEW d \in Domains, conf[d] # NoConf, ~Claimed(d)
      PROVE  \E p \in projects : domain[p] = d /\ (port[p] = conf[d].port \/ ~AtRest(p))
  <2>1. PICK p \in projects : domain[p] = d
    BY <1>1, <1>3, UnclaimedIsFree DEF Served, ConfsOwned
  <2> QED
    BY <1>2, <1>3, <2>1 DEF Led
<1> QED
  BY <1>2, <1>3 DEF Led

\* With one request at a time per project, certificate requests included, next to
\* requests on other projects and also when Docker or certbot fail: the domain of
\* a deployed project leads to its container, over https if it has a certificate,
\* and a configuration belongs to such a project.
THEOREM RoutesServed == RoutesSpec => []RoutesServeOwner
<1> QED
  BY ServedInit, ServedStep, ServedMeans, PTL DEF RoutesSpec
=============================================================================

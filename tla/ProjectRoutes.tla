--------------------------- MODULE ProjectRoutes ---------------------------
(***************************************************************************)
(* Projects, their domains and the nginx configurations of the domains,    *)
(* from the creation of a project to its removal, and the three ways in    *)
(* which a user's belongings are deleted: deleteAccount (projects.service, *)
(* auth.service), the admin's deleteUser and factoryReset.  A deploy is    *)
(* reduced to what it does to routes; Deployments has the rest, and        *)
(* Containers the operations on a container.                               *)
(***************************************************************************)
EXTENDS Integers, FiniteSets

CONSTANTS Users, Projects,
          OwnerOf,           \* the user of a project
          FirstProject,      \* the project deployed at first
          FirstPort,         \* and its port
          Domains, NoDomain,
          SlugOf, SuffixOf,  \* names made up for a project: slug, with suffix
          SystemCerts,       \* domains with a certificate only the host knows
          Ports, NoPort,
          Handlers,          \* requests in progress at the same time
          NoUser, NoProject,
          Plans              \* environments: see plan

ASSUME RoutesAssumption ==
    /\ FirstProject \in Projects /\ FirstPort \in Ports
    /\ \A p \in Projects : /\ OwnerOf[p] \in Users
                           /\ SlugOf[p] \in Domains /\ SuffixOf[p] \in Domains
    /\ SystemCerts \subseteq Domains
    /\ NoDomain \notin Domains
    /\ NoPort \notin Ports
    /\ NoUser \notin Users
    /\ NoProject \notin Projects
    /\ \A s \in Plans : s.requests \in Nat

VARIABLES
    plan,      \* [overlap, tidy, requests, faults]: what the environment does
    asked,     \* number of requests made
    users,     \* rows of users
    closed,    \* users whose account deleteAccount has deleted
    projects,  \* rows of projects
    domain,    \* column domain
    port,      \* host port of the recorded container of a project
    up,        \* projects with a container in Docker
    databases, \* users with the row of a managed database
    servers,   \* users with the container of one
    volumes,   \* users with the volume of one
    conf,      \* the configuration file of a domain
    cert,      \* domains with a certificate in certbot-conf
    job        \* job[h]: what h does and holds

rowVars == <<users, closed, projects, domain, port, databases>>
dockerVars == <<up, servers, volumes>>
routeVars == <<conf, cert>>
routesVars == <<plan, asked, rowVars, dockerVars, routeVars, job>>

Confs == [port : Ports \cup {NoPort}, https : BOOLEAN]

NoConf == [port |-> NoPort, https |-> FALSE]

\* The call a handler awaits; "ssl" is its certificate request, which goes on
\* in the background after the answer.
JobSteps ==
    {"idle", "inserting", "deploying", "publishing", "ssl", "writing", "logging",
     "resyncing", "stopping", "unrouting", "deletingRow", "removing",
     "takingDown", "deletingUser", "deletingAll"}

Jobs ==
    [step : JobSteps,
     kind : {"none", "create", "deploy", "update", "restart", "allocatePort",
             "remove", "deleteAccount", "deleteUser", "factoryReset"},
     project : Projects \cup {NoProject},
     user : Users \cup {NoUser},
     domain : Domains \cup {NoDomain},  \* read, chosen or published
     port : Ports \cup {NoPort},        \* read, picked or published
     wanted : Domains \cup {NoDomain},  \* the new domain of an update
     todo : SUBSET Projects]            \* projects still to be taken down

\* A request on a project, with what it has read of domain and port; and one on
\* all that belongs to a user, with the projects it has listed.
ProjectJob(s, k, p, d, q) ==
    [step |-> s, kind |-> k, project |-> p, user |-> NoUser,
     domain |-> d, port |-> q, wanted |-> NoDomain, todo |-> {}]

UserJob(s, k, u, ps) ==
    [step |-> s, kind |-> k, project |-> NoProject, user |-> u,
     domain |-> NoDomain, port |-> NoPort, wanted |-> NoDomain, todo |-> ps]

Idle == ProjectJob("idle", "none", NoProject, NoDomain, NoPort)

RoutesTypeOK ==
    /\ asked \in 0..plan.requests
    /\ users \subseteq Users /\ closed \subseteq Users
    /\ projects \subseteq Projects
    /\ domain \in [Projects -> Domains \cup {NoDomain}]
    /\ port \in [Projects -> Ports \cup {NoPort}]
    /\ up \subseteq Projects
    /\ databases \subseteq Users /\ servers \subseteq Users /\ volumes \subseteq Users
    /\ conf \in [Domains -> Confs]
    /\ cert \subseteq Domains
    /\ job \in [Handlers -> Jobs]

RoutesInit ==
    /\ plan \in Plans
    /\ asked = 0
    /\ users = Users /\ closed = {}
    /\ projects = {FirstProject} /\ up = {FirstProject}
    /\ domain = [p \in Projects |->
                    IF p = FirstProject THEN SlugOf[p] ELSE NoDomain]
    /\ port = [p \in Projects |-> IF p = FirstProject THEN FirstPort ELSE NoPort]
    /\ databases = Users /\ servers = Users /\ volumes = Users
    /\ conf = [d \in Domains |-> IF d = SlugOf[FirstProject]
                                 THEN [port |-> FirstPort, https |-> FALSE]
                                 ELSE NoConf]
    /\ cert = {}
    /\ job = [h \in Handlers |-> Idle]

-----------------------------------------------------------------------------

Fails(f) == f \in plan.faults

Busy(h) == job[h].step # "idle"

OwnedBy(u) == {p \in Projects : OwnerOf[p] = u}

\* The projects a request may touch.
Scope(j) ==
    CASE j.kind = "factoryReset" -> Projects
      [] j.kind \in {"deleteAccount", "deleteUser"} -> OwnedBy(j.user)
      [] OTHER -> {j.project}

\* A request works with the domain d.
Claimed(d) == \E h \in Handlers : d \in {job[h].domain, job[h].wanted}

InUse(d) == Claimed(d) \/ \E p \in projects : domain[p] = d

\* A request is made.  Without overlap, one at a time works on a project, its
\* certificate included, and one project at a time is created.
Begin(h, j) ==
    /\ ~Busy(h)
    /\ asked < plan.requests /\ asked' = asked + 1
    /\ plan.overlap \/ \A g \in Handlers : Busy(g) =>
          /\ Scope(job[g]) \cap Scope(j) = {}
          /\ ~(j.kind = "create" /\ job[g].kind = "create")
    /\ job' = [job EXCEPT ![h] = j]

GoOn(h, s) == job' = [job EXCEPT ![h].step = s]

\* The answer is sent, or the request fails.
Finish(h) == job' = [job EXCEPT ![h] = Idle]

\* The request ends, and a certificate is requested in the background.
RequestSsl(h, d, q) ==
    job' = [job EXCEPT ![h] = ProjectJob("ssl", @.kind, @.project, d, q)]

\* The rows of the projects ps go; those of their containers cascade.
DropProjects(ps) ==
    /\ projects' = projects \ ps
    /\ domain' = [p \in Projects |-> IF p \in ps THEN NoDomain ELSE domain[p]]
    /\ port' = [p \in Projects |-> IF p \in ps THEN NoPort ELSE port[p]]

-----------------------------------------------------------------------------
(***************************************************************************)
(* ProjectsService.create and update.                                      *)
(***************************************************************************)

\* The domain is given; or made up, with a suffix when some project has the
\* slug.  Tidy: it is not given while some project has it, nor given or made up
\* while the request that abandons it is at work, and the random suffix, which
\* the code does not look up, makes a name that no project has.
AskCreate(h, p) ==
    /\ p \notin projects \cup up
    /\ \A g \in Handlers : Busy(g) => job[g].project # p
    /\ \E d \in Domains :
          /\ \/ plan.tidy => ~InUse(d)
             \/ /\ plan.tidy => ~Claimed(d)
                /\ IF \E q \in projects : domain[q] = SlugOf[p]
                   THEN d = SuffixOf[p] /\ (plan.tidy => ~InUse(d))
                   ELSE d = SlugOf[p]
          /\ Begin(h, ProjectJob("inserting", "create", p, d, NoPort))
    /\ UNCHANGED <<plan, rowVars, dockerVars, routeVars>>

Insert(h) ==
    /\ job[h].step = "inserting"
    /\ \/ /\ OwnerOf[job[h].project] \in users
          /\ projects' = projects \cup {job[h].project}
          /\ domain' = [domain EXCEPT ![job[h].project] = job[h].domain]
       \/ /\ OwnerOf[job[h].project] \notin users \/ Fails("db")
          /\ UNCHANGED <<projects, domain>>
    /\ Finish(h)
    /\ UNCHANGED <<plan, asked, users, closed, port, databases, dockerVars,
                   routeVars>>

\* The project is read with its container.  An empty domain may be asked for.
AskUpdate(h, p) ==
    /\ p \in projects
    /\ \E d \in Domains \cup {NoDomain} :
          /\ plan.tidy => d # NoDomain /\ (d = domain[p] \/ ~InUse(d))
          /\ Begin(h, [ProjectJob("writing", "update", p, domain[p], port[p])
                         EXCEPT !.wanted = d])
    /\ UNCHANGED <<plan, rowVars, dockerVars, routeVars>>

WriteDomain(h) ==
    /\ job[h].step = "writing"
    /\ \/ /\ job[h].project \in projects
          /\ domain' = [domain EXCEPT ![job[h].project] = job[h].wanted]
          /\ GoOn(h, "logging")
       \/ /\ job[h].project \notin projects \/ Fails("db")
          /\ Finish(h)
          /\ UNCHANGED domain
    /\ UNCHANGED <<plan, asked, users, closed, projects, port, databases,
                   dockerVars, routeVars>>

\* Mutant: the configuration of the old domain is kept.
Reroute_KeepOld(h) ==
    /\ job[h].step = "logging"
    /\ IF job[h].wanted \in {NoDomain, job[h].domain} \/ job[h].port = NoPort
       THEN Finish(h) /\ UNCHANGED conf
       ELSE /\ conf' = [conf EXCEPT ![job[h].wanted] =
                           [port |-> job[h].port, https |-> FALSE]]
            /\ RequestSsl(h, job[h].wanted, job[h].port)
    /\ UNCHANGED <<plan, asked, rowVars, dockerVars, cert>>

\* Once the log is written the old configuration goes, and the container that
\* was read at the start is routed under the new domain.
Reroute(h) ==
    LET j == job[h] IN
    /\ j.step = "logging"
    /\ \/ /\ j.wanted \notin {NoDomain, j.domain}
          /\ conf' = [d \in Domains |->
                         IF d = j.wanted /\ j.port # NoPort
                         THEN [port |-> j.port, https |-> FALSE]
                         ELSE IF d = j.domain THEN NoConf ELSE conf[d]]
          /\ IF j.port = NoPort THEN Finish(h) ELSE RequestSsl(h, j.wanted, j.port)
       \/ /\ j.wanted \in {NoDomain, j.domain} \/ Fails("db")
          /\ Finish(h)
          /\ UNCHANGED conf
    /\ UNCHANGED <<plan, asked, rowVars, dockerVars, cert>>

-----------------------------------------------------------------------------
(***************************************************************************)
(* What deploys and container operations do to routes.                     *)
(***************************************************************************)

AskDeploy(h, p) ==
    /\ p \in projects
    /\ Begin(h, ProjectJob("deploying", "deploy", p, domain[p], NoPort))
    /\ UNCHANGED <<plan, rowVars, dockerVars, routeVars>>

\* The new container runs and replaces the old one on a port no row holds.
Replace(h) ==
    LET j == job[h] IN
    /\ j.step = "deploying"
    /\ \/ /\ j.project \in projects
          /\ \E q \in Ports \ {port[p] : p \in Projects} :
                /\ port' = [port EXCEPT ![j.project] = q]
                /\ IF j.domain = NoDomain THEN Finish(h)
                   ELSE job' = [job EXCEPT ![h].port = q, ![h].step = "publishing"]
          /\ up' = up \cup {j.project}
       \/ /\ j.project \notin projects \/ Fails("docker") \/ Fails("db")
          /\ up' \in {up, up \cup ({j.project} \ projects)}
          /\ Finish(h)
          /\ UNCHANGED port
    /\ UNCHANGED <<plan, asked, users, closed, projects, domain, databases,
                   servers, volumes, routeVars>>

\* generateHttpConfig for the domain that was read when the deploy began.
Publish(h) ==
    /\ job[h].step = "publishing"
    /\ conf' = [conf EXCEPT ![job[h].domain] =
                   [port |-> job[h].port, https |-> FALSE]]
    /\ RequestSsl(h, job[h].domain, job[h].port)
    /\ UNCHANGED <<plan, asked, rowVars, dockerVars, cert>>

\* Mutant: the https configuration is left to the next restart.
SslGranted_CertOnly(h) ==
    /\ job[h].step = "ssl"
    /\ cert' = cert \cup {job[h].domain}
    /\ Finish(h)
    /\ UNCHANGED <<plan, asked, rowVars, dockerVars, conf>>

\* requestSsl finds or obtains a certificate; the configuration then written
\* holds the domain and port of the request, whatever was done since.
SslGranted(h) ==
    /\ job[h].step = "ssl"
    /\ cert' = cert \cup {job[h].domain}
    /\ conf' = [conf EXCEPT ![job[h].domain] =
                   [port |-> job[h].port, https |-> TRUE]]
    /\ Finish(h)
    /\ UNCHANGED <<plan, asked, rowVars, dockerVars>>

\* certbot fails.  It is not run for a domain with a certificate in
\* certbot-conf, but it is for one that only the host has a certificate of.
SslRefused(h) ==
    /\ job[h].step = "ssl" /\ Fails("ssl") /\ job[h].domain \notin cert
    /\ Finish(h)
    /\ UNCHANGED <<plan, asked, rowVars, dockerVars, routeVars>>

\* restart, after it has read the port of the row.
AskRestart(h, p) ==
    /\ p \in projects /\ port[p] # NoPort
    /\ Begin(h, ProjectJob("resyncing", "restart", p, NoDomain, port[p]))
    /\ UNCHANGED <<plan, rowVars, dockerVars, routeVars>>

\* allocatePort, after it has written a port that no other row holds.
AskPort(h, p, q) ==
    /\ p \in projects /\ port[p] # NoPort /\ \A r \in Projects : port[r] # q
    /\ Begin(h, ProjectJob("resyncing", "allocatePort", p, NoDomain, q))
    /\ port' = [port EXCEPT ![p] = q]
    /\ UNCHANGED <<plan, users, closed, projects, domain, databases, dockerVars,
                   routeVars>>

\* The project is read again, and its domain routed to the port just recorded,
\* over https where there is a certificate of any kind.
Resync(h) ==
    LET d == domain[job[h].project] IN
    /\ job[h].step = "resyncing"
    /\ IF d = NoDomain THEN UNCHANGED conf
       ELSE conf' = [conf EXCEPT ![d] =
               [port |-> job[h].port, https |-> d \in cert \cup SystemCerts]]
    /\ Finish(h)
    /\ UNCHANGED <<plan, asked, rowVars, dockerVars, cert>>

\* ContainersService.remove leaves the configuration of the domain.
RemoveContainer(p) ==
    /\ ~plan.tidy /\ port[p] # NoPort
    /\ port' = [port EXCEPT ![p] = NoPort]
    /\ up' = up \ {p}
    /\ UNCHANGED <<plan, asked, users, closed, projects, domain, databases,
                   servers, volumes, routeVars, job>>

\* The admin's updateProject writes the row and nothing else.
UpdateProject(p, d) ==
    /\ ~plan.tidy /\ p \in projects /\ d # domain[p]
    /\ domain' = [domain EXCEPT ![p] = d]
    /\ UNCHANGED <<plan, asked, users, closed, projects, port, databases,
                   dockerVars, routeVars, job>>

-----------------------------------------------------------------------------
(***************************************************************************)
(* ProjectsService.remove, alone and for every project of an account.      *)
(***************************************************************************)

\* The project is read with its container.
AskRemove(h, p) ==
    /\ p \in projects
    /\ Begin(h, ProjectJob("stopping", "remove", p, domain[p], port[p]))
    /\ UNCHANGED <<plan, rowVars, dockerVars, routeVars>>

\* The container that was read is removed; an error is swallowed.
StopContainers(h) ==
    /\ job[h].step = "stopping"
    /\ \/ up' = IF job[h].port = NoPort THEN up ELSE up \ {job[h].project}
       \/ Fails("docker") /\ UNCHANGED up
    /\ GoOn(h, "unrouting")
    /\ UNCHANGED <<plan, asked, rowVars, servers, volumes, routeVars>>

RemoveConfig(h) ==
    /\ job[h].step = "unrouting"
    /\ conf' = [d \in Domains |-> IF d = job[h].domain THEN NoConf ELSE conf[d]]
    /\ GoOn(h, "deletingRow")
    /\ UNCHANGED <<plan, asked, rowVars, dockerVars, cert>>

\* The row goes; when its deletion or the log of it throws, the deletion of an
\* account ends with what is left of it.
DeleteRow(h) ==
    LET j == job[h] IN
    /\ j.step = "deletingRow"
    /\ \/ /\ j.project \in projects
          /\ DropProjects({j.project})
          /\ \/ IF j.kind = "remove" THEN Finish(h) ELSE GoOn(h, "removing")
             \/ Fails("db") /\ Finish(h)
       \/ /\ j.project \notin projects \/ Fails("db")
          /\ Finish(h)
          /\ UNCHANGED <<projects, domain, port>>
    /\ UNCHANGED <<plan, asked, users, closed, databases, dockerVars, routeVars>>

\* AuthService.deleteAccount lists the projects and removes them one by one.
AskDeleteAccount(h, u) ==
    /\ u \in users
    /\ Begin(h, UserJob("removing", "deleteAccount", u, projects \cap OwnedBy(u)))
    /\ UNCHANGED <<plan, rowVars, dockerVars, routeVars>>

\* Mutant: the projects are left to the cascade.
RemoveNext_Cascade(h) ==
    /\ job[h].step = "removing"
    /\ GoOn(h, "deletingUser")
    /\ UNCHANGED <<plan, asked, rowVars, dockerVars, routeVars>>

\* The removal of p within the deletion of an account.
RemovalOf(j, p) ==
    [step |-> "stopping", kind |-> j.kind, project |-> p, user |-> j.user,
     domain |-> domain[p], port |-> port[p], wanted |-> j.wanted,
     todo |-> j.todo \ {p}]

RemoveNext(h) ==
    LET j == job[h] IN
    /\ j.step = "removing"
    /\ \/ \E p \in j.todo :
             IF p \in projects
             THEN job' = [job EXCEPT ![h] = RemovalOf(j, p)]
             ELSE Finish(h)
       \/ j.todo = {} /\ GoOn(h, "deletingUser")
    /\ UNCHANGED <<plan, asked, rowVars, dockerVars, routeVars>>

\* The row of the user goes, and all rows that refer to it.
DeleteUserRow(h) ==
    LET u == job[h].user IN
    /\ job[h].step = "deletingUser"
    /\ \/ /\ u \in users
          /\ users' = users \ {u}
          /\ databases' = databases \ {u}
          /\ closed' = IF job[h].kind = "deleteAccount" THEN closed \cup {u} ELSE closed
          /\ DropProjects(OwnedBy(u))
       \/ /\ u \notin users \/ Fails("db")
          /\ UNCHANGED <<users, databases, closed, projects, domain, port>>
    /\ Finish(h)
    /\ UNCHANGED <<plan, asked, dockerVars, routeVars>>

-----------------------------------------------------------------------------
(***************************************************************************)
(* AdminUsersService.deleteUser, SystemService.factoryReset and the        *)
(* admin's deleteProject.  None of them touches a configuration.           *)
(***************************************************************************)

\* The recorded containers are listed.
AskTakeDown(h, k, u, ps) ==
    /\ ~plan.tidy
    /\ Begin(h, UserJob("takingDown", k, u, {p \in ps : port[p] # NoPort}))
    /\ UNCHANGED <<plan, rowVars, dockerVars, routeVars>>

deleteUser(h, u) == AskTakeDown(h, "deleteUser", u, OwnedBy(u))

factoryReset(h) == AskTakeDown(h, "factoryReset", NoUser, Projects)

\* They are removed one by one, errors are swallowed.
TakeDown(h) ==
    /\ job[h].step = "takingDown"
    /\ \E p \in job[h].todo :
          /\ job' = [job EXCEPT ![h].todo = @ \ {p}]
          /\ up' = up \ {p} \/ (Fails("docker") /\ UNCHANGED up)
    /\ UNCHANGED <<plan, asked, rowVars, servers, volumes, routeVars>>

\* Then those of the databases; deleteUser removes their volumes as well.
TakeDownDatabases(h) ==
    LET one == job[h].kind = "deleteUser"
        gone == IF one THEN databases \cap {job[h].user} ELSE databases
    IN
    /\ job[h].step = "takingDown" /\ job[h].todo = {}
    /\ \/ servers' = servers \ gone /\ volumes' = IF one THEN volumes \ gone ELSE volumes
       \/ Fails("docker") /\ UNCHANGED <<servers, volumes>>
    /\ GoOn(h, IF one THEN "deletingUser" ELSE "deletingAll")
    /\ UNCHANGED <<plan, asked, rowVars, up, routeVars>>

\* Projects, databases and the users that are no admins: a query each.
DeleteAll(h) ==
    /\ job[h].step = "deletingAll"
    /\ \/ /\ projects # {} /\ DropProjects(Projects)
          /\ UNCHANGED <<users, databases, job>>
       \/ /\ projects = {} /\ databases # {}
          /\ databases' = {}
          /\ UNCHANGED <<users, projects, domain, port, job>>
       \/ /\ projects = {} /\ databases = {}
          /\ \E admins \in SUBSET users : users' = admins
          /\ Finish(h)
          /\ UNCHANGED <<projects, domain, port, databases>>
       \/ /\ Fails("db") /\ Finish(h)
          /\ UNCHANGED <<users, projects, domain, port, databases>>
    /\ UNCHANGED <<plan, asked, closed, dockerVars, routeVars>>

\* The admin's deleteProject deletes the row and nothing else.
DeleteProject(p) ==
    /\ ~plan.tidy /\ plan.overlap /\ p \in projects
    /\ DropProjects({p})
    /\ UNCHANGED <<plan, asked, users, closed, databases, dockerVars, routeVars, job>>

-----------------------------------------------------------------------------

RoutesCrash ==
    /\ Fails("crash") /\ \E h \in Handlers : Busy(h)
    /\ job' = [h \in Handlers |-> Idle]
    /\ UNCHANGED <<plan, asked, rowVars, dockerVars, routeVars>>

AskProject(h, p) ==
    \/ AskCreate(h, p) \/ AskUpdate(h, p) \/ AskDeploy(h, p)
    \/ AskRestart(h, p) \/ AskRemove(h, p)
    \/ \E q \in Ports : AskPort(h, p, q)

Proceed(h) ==
    \/ Insert(h) \/ WriteDomain(h) \/ Reroute(h)
    \/ Replace(h) \/ Publish(h) \/ SslGranted(h) \/ SslRefused(h) \/ Resync(h)
    \/ StopContainers(h) \/ RemoveConfig(h) \/ DeleteRow(h)
    \/ RemoveNext(h) \/ DeleteUserRow(h)
    \/ TakeDown(h) \/ TakeDownDatabases(h) \/ DeleteAll(h)

RoutesNext ==
    \/ \E h \in Handlers :
          \/ \E p \in Projects : AskProject(h, p)
          \/ \E u \in Users : AskDeleteAccount(h, u) \/ deleteUser(h, u)
          \/ factoryReset(h)
          \/ Proceed(h)
    \/ \E p \in Projects :
          \/ RemoveContainer(p) \/ DeleteProject(p)
          \/ \E d \in Domains \cup {NoDomain} : UpdateProject(p, d)
    \/ RoutesCrash

RoutesSpec == RoutesInit /\ [][RoutesNext]_routesVars

-----------------------------------------------------------------------------
(***************************************************************************)
(* Properties                                                              *)
(***************************************************************************)

AtRest(p) == \A h \in Handlers : Busy(h) => p \notin Scope(job[h])

\* With one request at a time per project, its certificate included, in any
\* order and next to requests on other projects, also when Docker or certbot
\* fail: the domain of a deployed project leads to its container, over https
\* if it has a certificate, and a configuration belongs to such a project.
\* The operations that leave configurations behind (not tidy) are excluded.
RoutesServeOwner ==
    plan.tidy /\ ~plan.overlap /\ plan.faults \subseteq {"docker", "ssl"} =>
        /\ \A p \in projects :
              AtRest(p) /\ domain[p] # NoDomain /\ port[p] # NoPort =>
                  /\ conf[domain[p]].port = port[p]
                  /\ domain[p] \in cert => conf[domain[p]].https
        /\ \A d \in Domains : conf[d] # NoConf =>
              \/ \E p \in projects :
                    domain[p] = d /\ (port[p] = conf[d].port \/ ~AtRest(p))
              \/ Claimed(d)

\* With one request at a time per project, whatever fails but Docker, and also
\* when the backend stops in between: no container runs for a project or a
\* database that is gone, except for the databases of a deleted account.
NoLeftovers ==
    ~plan.overlap /\ ~Fails("docker") =>
        up \subseteq projects /\ servers \subseteq databases \cup closed

\* "User account and all associated resources deleted successfully": nothing
\* runs or is kept for a user whose account was deleted by deleteAccount.
AllResourcesGone ==
    \A u \in closed : up \cap OwnedBy(u) = {} /\ u \notin servers \cup volumes
=============================================================================

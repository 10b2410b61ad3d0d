# Portdock: models and proofs

Portdock runs the containers and databases of its users on one host. This
directory specifies the parts of its backend that keep several stores in step
(PostgreSQL rows, the Docker engine, nginx configurations, files, sockets, the
host's firewall), checks them with TLC and proves their main properties with
TLAPS. Paths below are relative to `src/backend/src/` unless they begin with
`src/`.

## 1. The system

The backend is a single Node process (NestJS, Prisma, dockerode, Socket.IO). A
request handler runs without interruption up to its next `await`; between two
awaits any other handler, socket event, webhook or scheduled job may run. There
are no locks, no queue and almost no transactions: handlers read a row, await
Docker, and write the row. Nothing repairs half-done work at startup.

| component | state it keeps | operations | what must be right |
|---|---|---|---|
| Deployments (`deployments/`, `webhooks/`) | project status, deployment and container rows, the containers | `deployZip`, `deployGithub`, `deployDockerfile`, their shared cleanup of old containers | a project leaves BUILDING; a redeploy keeps the old container until the new one runs; recorded containers run, running ones are recorded |
| Projects and routing (`projects/`, `nginx/`) | project rows, configuration files, certificates | create, update, remove; publish a route, request a certificate in the background, reroute after a restart or a new port | a domain leads to its owner; removal is complete |
| Container operations (`containers/`, `admin/admin-containers`, `admin/admin-projects`) | container rows (Docker id, host port, status), project status, routes | create, start, stop, restart, remove, update of resources, port allocation and release, suspend and resume | row, container and route agree; a row whose container is gone can be recreated |
| Web terminal (`terminal/`) | sessions, command buffers and container notes per socket | connect a shell, an application log or the nginx log, type, disconnect | one stream per client; commands logged for the right container |
| Log and exec gateway, metrics gateway (`containers/containers.gateway`, `admin/metrics.gateway`) | streams per socket, a client counter and an interval | subscribe, start a shell, disconnect; connect, broadcast | no stream or interval without a client |
| Managed databases (`databases/`) | rows (port, limits, password, status), containers, volumes | create, start, stop, restart, remove, `updateConfig`, `resetPassword` | one server per volume; data kept; row and engine agree |
| Backups (`databases/`, `admin/db-backup`, `backup/`) | rows and the directory `backups/` | on-demand backup and its deletion, dumps of the platform, nightly archive, two retentions | a successful backup keeps its file; failures leave none |
| Accounts and sessions (`auth/`, `admin/admin-users`) | user rows (attempts, lock, second factor), session rows | register, login, `setup2fa`, `verify2fa`, revoke sessions, create, suspend and delete users | nobody is shut out of an account; deletion is complete |
| Host (`admin/security.service`, `admin/system.service`) | firewall rules, the port of sshd in its file and in the daemon | enable, disable, add and delete rules, change the ssh port; `factoryReset` | the admin can always get back in |
| Activity log, settings, mail, notifications | rows; messages to outside services | mostly one query each | |
| Frontend (`src/frontend`) | none the backend depends on | | |

Components meet in the stores. A deploy and a port allocation both choose host
ports by looking at rows; a deploy, a restart and a certificate request all
write the route of a project; project removal takes down what a deploy is
creating; account deletion removes projects; the platform's dump and a user's
backup share a directory and a file extension.

What is hard here: a value read before an await and used after it (ports, ids,
counters, lists of containers); a call that fails after an earlier one changed a
store; overlapping requests for one project, database, account or socket; a
crash in between; background work that settles after the state it refers to is
gone. `PROJECT.json` lists these hazards at their lines, with the properties
that cover them.

## 2. Modules

| module | models | proofs | instance |
|---|---|---|---|
| `Deployments` | the three deploys, cleanup, certificate request, project removal, admin delete and reset, crash | `DeploymentsProofs` | `MCDeployments` |
| `Rollout` | abstract: what a sequence of deploys promises | `DeploymentsRefinement` | through `ImplementsRollout` |
| `Containers` | the operations on container rows, the admin's variants, suspend and resume, the admin's prune | `ContainersProofs` | `MCContainers` |
| `TerminalGateway` | sessions of the web terminal | `SocketsProofs` | `MCTerminalGateway`, `MCSockets` |
| `ContainersGateway` | streams of logs and shells in the user's own containers | `SocketsProofs` | `MCSockets` |
| `MetricsGateway` | the feed of the monitoring pages | `SocketsProofs` | `MCSockets` |
| `ManagedDatabases` | lifecycle, configuration and passwords of databases, the admin's prune | `ManagedDatabasesProofs` | `MCManagedDatabases` |
| `Backups` | the directory `backups/` and its three writers | `BackupsProofs` | `MCBackups` |
| `ProjectRoutes` | projects, domains, configurations and certificates next to deploys, restarts and port changes; the deletion of an account by its user, by the admin and by `factoryReset` | `ProjectRoutesProofs` | `MCRoutes`, `MCPlatform` |
| `Accounts` | registration, sign-in, lock, second factor, sessions, the admin's changes of users | `PlatformProofs` | `MCPlatform` |
| `HostSecurity` | the firewall and the port of sshd | `PlatformProofs` | `MCPlatform` |

`MCSockets` holds the three Socket.IO gateways and `MCPlatform` accounts,
routes and host. The parts of each share no state; a behaviour is one of the
part chosen at its start, so that one run checks them side by side without
multiplying their states.

**Levels.** `Deployments` has a deploy step by step and takes a route as
published or not. `ProjectRoutes` has every configuration and its certificate,
and reduces a deploy to the two steps that matter to routes: the exchange of the
container, and the publication. `Containers` has the operations on one row with
their failures. The deletion of an account is step by step in `ProjectRoutes`
and one action of `Accounts` (`DropUser`), since sessions only see the row go.

**Granularity.** One action per stretch of code between two awaits that read or
change shared state. `pc[h]` (`job[h].step`, `request[c].step`, `call[a].step`,
`step[q]`) names the call a handler awaits. An awaited call takes effect, or
rejects where the faults of the behaviour allow it, in the action that ends the
wait; code that follows up to the next await belongs to the same action.
Activity log rows are left out except where their insertion can throw and
thereby changes what happens next.

**Correspondence.** `rows`, `status`, `hostPort`, `dockerId`, `project`,
`deployment`, `attempts`, `locked`, `twoFactor`, `secret`, `session` are columns of
`src/backend/prisma/schema.prisma`; `engine`, `docker`, `up`, `bind`, `volume` are
what the Docker engine holds (`secret` of `ManagedDatabases` is the password the
server itself accepts); `conf` and `cert` are the configurations and certificates
of domains; `file` and `newer` are the contents and modification order of
`backups/`; `streams`, `session` of `TerminalGateway`, `buffer` and
`containerInfo` are the maps of the gateways. `seen[h]`, `wanted[h]`, `todo[r]`,
`victim[r]`, and the fields of `job[h]` and `request[c]`, are local variables of a
handler that live across an await. A Docker container has as its identity the row
or the request that brought it. Its name is another matter: in `Containers` it is
the name of a row (`NameOf`), which `create` takes from the caller and nothing makes
unique (`containers/containers.service.ts:51`), or for a container that a deploy
brought its own (`BornAs`: the deploy takes the time once for the container and
again for the row). Docker refuses a name in use, and `updateResources` removes by
force whatever bears the name of its row (`Evict`, line 455), also the container of
another row and project. `temporary` has the users with a token that login issued
to await the second factor; it names no session, and `LetIn` is the check of
`auth/strategies/jwt.strategy.ts:44`, which looks for a session only when a token
names one. `Prune` is `docker system prune` (`admin/system.service.ts`, lines 79,
463 and 471): containers that do not run go; volumes that no running container
mounts go as well or stay, since the option `--volumes` takes named volumes in
older versions of Docker only, and the code asks for no version.

**History variables.** A few variables record what a property speaks of and the
program does not keep: `streak`, `confirmed`, `redone`, `seated` (`Accounts`),
`applied` (`HostSecurity`), `closed` (`ProjectRoutes`), `pruned` (`ManagedDatabases`), and the counters of requests
`made`, `asked`, `called`. Apart from these counters, which bound the behaviours,
no guard of a code action reads them, with one exception: `Setup` keeps a new
secret different from the last confirmed one, as a random secret is.

**Outside the code.** Docker refuses a name in use, a host port bound by a
running container, and the removal of a running container without force or of a
volume in use (`NameBearers`, `PortBound`, `Startable`, `VolumeInUse`); a shell
opens a redirected file before its command runs, and a file unlinked while open
stays away (`WriteTo`); sshd reads its file when it starts. Definitions preceded
by "Mutant:" are deliberate bugs, used to confirm that a property can fail; no
specification uses them.

## 3. What the runs check

| run | instance | what it shows |
|---|---|---|
| `deploy_overlap` | 3 deploys (one per flow), 2 projects, 2 ports; overlapping, either with all faults or with nginx failures next to one project that is removed, deleted by an admin and reset | `BuildingHasDeploy`: BUILDING always has a deploy that still owes a status, died or threw outside its error handling. `RowBacked`: a recorded container that is down was taken down by a sibling's cleanup or by project removal. `NoOrphan`, `SettledPortsDistinct` when only nginx fails: both are false with a crash or a failing database call, as the code keeps no record of the container until after it started. `TypeOK` |
| `deploy_serial` | the same deploys, one at a time per project, with crashes, Docker and nginx failures; one project removed, deleted and reset | `ImplementsRollout`: the pipeline refines `Rollout`, so that a container goes down only while another of its project serves. `ActiveServed`: an ACTIVE project has exactly one row, and its container runs |
| `deploy_settles` | 2 overlapping deploys of one project that is also removed and reset, fairness | `DeploySettles`: every deployment leaves 'In Progress' and every project BUILDING |
| `deploy_double_push` | 2 overlapping deploys, no faults | **violation** of `DeployedIsRunning`: each deploy removes the other's container, both succeed, nothing runs |
| `containers_all` | 3 rows in 2 projects, one not yet created, two of different projects with one name; 2 overlapping requests of every kind with all faults, or 3 one after another with nginx failures; a prune whenever no request is in flight | in both: `StopsOnlyOwnProject` (a running container goes down by a request for its project, or by `updateResources` of a row of its name), `ZombieRecreatable` (no container of its own keeps a row without container from being created anew), `TypeOK`; one after another: `StoppedIsDown`, `PortsDistinct`, `NoOrphan`, `RestartSyncs` |
| `sockets_all` | terminal: 1 client, 2 shells, an application log and the nginx log; containers: 2 clients, 3 subscriptions, 1 container; metrics: 3 watchers, 2 pending broadcasts | `SoleStream`, `LoggedWhereTyped`, `ExitedShellGivenUp` of the terminal; `NothingLeftBehind`: a client that left has no open stream and no map entry, except what Docker was still asked for when it left; `FedWhileWatched`: the interval runs exactly while somebody watches; `AllTypesOK` |
| `terminal_unlogged` | 1 client, 2 shells | **violation** of `ShellIsLogged`: the note of the new container is deleted with the old session |
| `databases_all` | 3 requests of every kind on 4 databases (names shared by two, one of an unsupported type), 2 ports; serial without failures, serial with failing calls and crashes, overlapping with failing calls (a crash there leaves too many states; the theorems cover it); a prune at any time, when serial between requests | `OneWriter`, `DataKept` (until removal, or a prune while no container of the database runs) in all modes; `PortsDistinct` in serial ones; `RowInSync`, `NoOrphan` in the calm one; `TypeOK` |
| `backups_kept` | 1 user's backup, 2 dumps, 1 archive, retention 1, both kinds of provider, all failures | `FilesMatchRows` (the file of a successful backup is whole, other files of users belong to somebody), `KeepsNewest`, `PendingSettles`, `TypeOK` |
| `backups_lost` | 1 user's backup, 1 dump, retention 1 | **violation** of `OnDemandKept`: the retention of the platform's dumps deletes the user's file |
| `platform_all` | routes: 2 handlers, 2 projects of 2 users whose names collide, 3 domains, 3 ports, up to 4 requests; accounts: 2 accounts, 2 clients, 3 sessions, temporary tokens, lock after 2 failures, up to 5 requests; host: 2 admins, 2 ports, up to 5 calls | `RoutesServeOwner`, `NoLeftovers`, `NotShutOut`, `SshReachable`, each in the serial environments its condition names; `AllRowsTypeOK` in all, the overlapping ones with every fault included |
| `account_leftovers` | 1 account deletion, no faults | **violation** of `AllResourcesGone`: containers and volumes of the user's databases stay |

**Bounds.** Two requests are enough for every race described above, since each
is between two handlers; a third lets a bystander (another project, another
row) be hit, or a third legal call follow two others. Longer sequences are
allowed where a fault needs them: five requests let an account register, fail
twice, be unlocked and sign in; five calls to the host change the port twice
with the firewall on. Two ports for three deploys make the pool run out. Two
projects or two names separate what is shared from what is not. Retention 1 is
the smallest number for which there is something to keep and something to
delete. `MaxAttempts` 2 is the smallest with a failure that does not lock;
`MaxPending` bounds broadcasts in flight, none of which affects another. Sets of
identifiers are finite because each request, socket and session id is used
once; the bounds on numbers of requests are `requests`, `calls` and these sets.

**Symmetry.** `AnyOrder` and `Interchangeable` permute requests, handlers,
clients, members and admins: they are used only where what a request does is
chosen in the model and not by its identity, and never in a run with a liveness
property. (`containers_all` checks box-action formulas, which symmetry
preserves.) `p1` and `p2`, `v1` and `v2` differ and are not permuted.

**Deadlock.** Checking it is off: requests are finite in number, so each model
comes to a natural end.

**Conditions in properties.** Many properties hold only in part because the code
does not exclude the rest; the condition is written in the property or set in
the configuration, and is part of the result. Calm or serial conditions say
"without overlapping requests" or "without failures"; `plan.tidy` in
`RoutesServeOwner` excludes the operations that leave configurations behind
(section 6); exceptions such as those of `ZombieRecreatable` and `NoOrphan`
(`updateResources`, the admin's delete) name the operations that break the rule.
Three exceptions are worth naming. `StopsOnlyOwnProject` lets `updateResources`
take the container of another project that bears the name of its row, and
`ZombieRecreatable` a row find its name taken by another's container, since names
are not unique. `DataKept` and the password in `RowInSync` say nothing more of a
database once a prune has taken its volume (`pruned`), which it can only while no
container of it runs. `NotShutOut` has every user who was granted a session keep
one (`seated`), until a request that was let in without a session, by a temporary
token, revokes the last.

## 4. Fairness

Users owe nothing: no action that begins a request is fair, and neither is a
crash. A handler that was entered is weakly fair (`Deploy`, `remove`,
`ResetWrites`, `Backup`): every await in it settles. Docker, Prisma and shell
commands end or reject; the clone has a timeout of its own
(`git/git.service.ts:48`). A certificate request settles (certbot exits), and
so does the inspection of an ended shell, with an exit code or an error
(`ShellExits`). A dump exits (`DumpExits`). `DeploySettles` is checked with
Docker and nginx failures but without crashes and database failures, after
which it is false: nothing in the code picks the work up again.
`PendingSettles` names its exceptions.

## 5. What is proved

Every safety invariant, type invariant and action property of the passing runs
is a theorem, and so is the refinement. The proofs assume the named assumptions
on constants (types; non-empty sets where an initial state chooses from one; a
name belongs to one initial database): no bound on projects, requests, clients,
sessions, domains, ports or faults. (The name is that of the first container of a
row, `BornAs`; the names of rows, `NameOf`, may be shared.) Where a theorem needs more, its statement
says so, and the last column of the table.

| theorem | statement | further hypothesis |
|---|---|---|
| `DeploymentsProofs.TypeCorrect`, `BuildingJustified`, `RowsBacked`, `NothingOrphaned`, `SettledPorts` | `Spec => []TypeOK`, `[]BuildingHasDeploy`, `[]RowBacked`, `[]NoOrphan`, `[]SettledPortsDistinct` | |
| `DeploymentsRefinement.PipelineImplementsRollout`, `SerialDeployedIsRunning` | `Spec => ImplementsRollout`; the property `deploy_double_push` refutes | `Serial` |
| `DeploymentsRefinement.ActiveProjectsServed` | `Spec => []ActiveServed` | `Serial`, `QueriesAnswered` |
| `ContainersProofs.ContainersTypeCorrect`, `MissingIsRecreatable`, `PortsStayDistinct` | `Spec => []TypeOK`, `[]ZombieRecreatable`, `[]PortsDistinct` | |
| `ContainersProofs.StoppedByOwnProject`, `RestartLeavesInSync` | `Spec => StopsOnlyOwnProject`, `RestartSyncs` | |
| `ContainersProofs.StoppedIsNotUp`, `NothingLeftBehind` | `Spec => []StoppedIsDown`, `[]NoOrphan` | `SerialIsCalm` |
| `SocketsProofs.SocketsTypeCorrect`, `FeedFollowsClients`, `ClientsLeaveNothing` | `[]AllTypesOK`, `[]FedWhileWatched`, `[]NothingLeftBehind` | |
| `SocketsProofs.NoStreamLost`, `CommandsLoggedRight` | `Spec => []SoleStream`, `[]LoggedWhereTyped` | `~Overlap` |
| `ManagedDatabasesProofs.DatabasesTypeCorrect`, `SingleWriter`, `VolumesKept`, `DatabasePortsDistinct`, `RowsTellTheTruth`, `NoContainerLeft` | `Spec => []TypeOK`, `[]OneWriter`, `[]DataKept`, `[]PortsDistinct`, `[]RowInSync`, `[]NoOrphan` | |
| `BackupsProofs.BackupsTypeCorrect`, `RowsMatchFiles`, `CleanupKeepsNewest` | `Spec => []TypeOK`, `[]FilesMatchRows`, `KeepsNewest` | |
| `ProjectRoutesProofs.RoutesTypeCorrect`, `NothingLeftRunning`, `RoutesServed` | `RoutesSpec => []RoutesTypeOK`, `[]NoLeftovers`, `[]RoutesServeOwner` | |
| `PlatformProofs.PlatformTypeCorrect`, `NobodyShutOut`, `StaysReachable` | `[]AllRowsTypeOK`, `[]NotShutOut`, `[]SshReachable` | |

The hypotheses are those of the runs. `Serial`: no two deploys of a project
overlap (`deploy_serial`). `QueriesAnswered`: no database call fails there, as
one that fails between the start of a container and the writing of its row
leaves an ACTIVE project without one. `SerialIsCalm`: where requests come one at
a time nothing but nginx fails (`containers_all`), as a call that fails half-way
leaves the row behind the engine. `~Overlap`: a client asks for one stream at a
time. Conditions that a property states itself (section 3) are no hypotheses.

How the arguments go, and why each needs more than the property itself:

- **Deployments.** Type correctness needs `FreePort`, that the smallest free port
  exists whenever a port is free (well-foundedness of `<`). `BuildingHasDeploy` is
  inductive together with `TypeOK`: whatever writes BUILDING enters a label of
  `StatusOwed`, left only by a step that writes the status or with the project
  gone. `RowBacked` is not: a deploy could record a container that does not run,
  or a cleanup could hold a row of another project. `RowInv` adds `RowsRecorded`,
  `StartedRuns`, `TodoRecorded`, `RtodoRecorded` and `VictimIdle`. `NoOrphan` and
  `SettledPortsDistinct` need `CalmFacts` as well: a cleanup stops and removes its
  victim before it deletes the row (`VictimsOwn`, `VictimsDown`, `VictimsGone`),
  Docker lets one running container have a port (`PortsApart`), and what runs is
  recorded once its deploy is past that (`RunningRecorded`).
- **Refinement.** `SerialInv` says that deploys of a project do not overlap
  (`OneDeploy`), that a handler past its start has a container that serves unless
  the project is being removed (`StartedServes`), that none before it has one
  (`NotYetRunning`), and that cleanup and removal hold only what is theirs. Each
  step is then a step of `Rollout` or leaves `phase`, `gone` and `shown` alone.
  `ActiveServed` follows from `ServedInv`: what a cleanup has still to remove is
  exactly the rows older than the one just recorded (`CleanupExact`), so that the
  project shown ACTIVE has that row alone (`ShownHasSoleRow`).
- **Containers.** With any overlap and any faults (`OverlapInv`), a row and what a
  request has read refer to containers of that row (`Owned`), a container made
  anew is known to its maker alone until it is recorded (`NewIsUnknown`), and a
  container of a row that bears its name is recorded or about to be
  (`BearersKnown`); what other rows do under that name does not matter to it,
  except for an eviction, which `Excepted` names.
  One request at a time (`SerialFacts`), what a request has read still holds when
  it writes (`RowAsSeen`); without failures (`CalmFacts`), every container is on
  record or held by a request on its way to record or remove it (`Accounted`).
- **Gateways.** `FedWhileWatched` is inductive, given that a set grows by one with
  each new element. `NothingLeftBehind` needs `AttachedInv`: streams are open, and
  in the maps under their own key, only once attached. `SoleStream` needs that a
  client has one answer outstanding (`OneAnswer`), that the handler which opens a
  stream has cleaned up before (`OpensAlone`), and that the buffer and the note
  belong to the session (`NotesMatch`).
- **Databases.** `OneWriter` holds because a container is created only under a
  name nobody bears, and names follow rows; `DataKept` because create and
  `updateConfig` record a container only once its volume is there and initialised
  (`Provided`), only a removal drops a volume (`Begun`), and a prune marks what it
  takes: any faults, any overlap. A prune may also take a container between its
  creation and its start, so that `Provided` speaks of those still there. `PortsDistinct` needs that the port a creation has chosen is still
  free when it is recorded (`ChosenPort`), which overlap breaks. `RowInSync` and
  `NoOrphan` need to know how far the request at work has come (`Working`): rows
  that no request is about are in order (`RowOK`), each container is that of a row, and a
  row has no other, though a prune may have left it none (`Linked`).
- **Backups.** A row becomes SUCCESS only after its dump has ended, and then
  nothing writes to its file (`Succeeded`); a file unlinked while a dump writes
  stays away (`DeletedStayAway`). The modification times are a strict order of
  the files on disk, kept in `TypeOK`: it makes the retained dumps the newest.
- **Routes.** `NoLeftovers` says nothing of deletions in progress. `LeftoversInv`
  adds that no two requests work on one project (`Alone`), that what runs is
  recorded with a port (`Recorded`), and what a request relies on between two
  awaits (`Relies`): a deploy that its project is still there, a removal that the
  container is gone once it was stopped, the deletion of an account that whatever
  still runs is on its list. `Confined` shows that a step within its own scope
  keeps what the others rely on.
  `RoutesServeOwner` says nothing of projects that are being worked on.
  `ServedInv` adds what each request has read of the row and the route and still
  finds there (`Believes`), that a domain is one project's or one request's
  (`Holds`, `OneDomainEach`), and that only a request between two of its
  `Changing` steps may leave a project not led to (`AllLed`). A request that
  keeps to its project and those domains (`GoesOn`) then leaves the others what
  they believe (`Unaffected`). It holds for names that no other project has: a
  made-up suffix is two random bytes that `create` does not look up
  (`projects.service.ts:46`), which `plan.tidy` takes to be new.
- **Accounts.** `NotShutOut` says nothing of what a request has read before an
  await. `AloneInv` adds that without overlap (`Alone`) the counter and the secret
  a request has read are the current ones (`Counted`, `Confirmed`) and that the
  session a revocation was asked with, if any, is still there (`Present`).
- **Host.** `SshReachable` is about the port sshd listens on, the checks of the
  service about the port in the file. `CarefulInv` says when they agree
  (`FileAgrees`), that otherwise a change is in progress (`ChangeInProgress`), and
  what the call in progress has read and opened (`CallKnows`).

Each proof has one step per action of its next-state relation, and a lemma for
what many actions have in common (`RequestsOnly`, `GoingOn`, `CleanupEffect`,
`OthersServed`, `KeepsToRoute`). The inductive invariants were checked by TLC on
instances of the size of the runs before they were proved.

Model-checked only: liveness (`DeploySettles`, `PendingSettles`,
`ExitedShellGivenUp`), which is out of the prover's reach, as is `ENABLED`; and
the properties the code violates, whose counterexamples are the result. No
module declares a recursive operator.

## 6. What is not modelled

- Races that the code plainly allows, left out of the properties by a
  condition. Ports: two deploys, two creates or two allocations that look before
  either writes. Routes (`ProjectRoutes` has these steps, `RoutesServeOwner` a
  condition): a certificate granted after a later deploy, which routes the domain
  to the old port; one domain given to two projects, as nothing makes domains
  unique; the admin's changes and deletions, which touch no configuration.
  Accounts: two logins that read one counter; two devices that revoke each
  other; a second factor set up again while it is on and never confirmed.
  Sockets: two streams asked for by one client before the first answers.
  Databases: a failing `updateConfig`, after which the row refers to a removed
  container. Containers: a prune while a request is in flight. Others: an admin's delete of a running container, which drops the
  row and leaves the container; an archive whose `pg_dump` failed, which counts
  as a backup; the exit of an old shell that ends the client's newer session
  (modelled, contradicted by no document).
- Data that no property tells apart: images and builds (one call that succeeds
  or fails), environment variables (a restart recreates a container without
  them), path configurations, custom templates, reloads of nginx and the text of
  its configurations, the maintenance flag, logs, resource figures.
- `restoreBackup` (changes the inside of a database only, and looks at no status);
  the schedules of the jobs (a job may start at any time); the moment between
  the creation of a backup's row and the opening of its file.
- Accounts: change of name, address, password, ssh key and GitHub token (one
  write each), expiry of tokens, the five minutes of the temporary one included
  (`auth/auth.service.ts:139`), logout (clears a cookie); the setting
  `loginAttempts` is a constant.
- Host: Fail2Ban, files of settings that are written whole, statistics.
- Names: `updateResources` removes by name, and the model has it hit the
  containers of rows; a name that is also that of a container of a database, of
  the platform itself, or the beginning of an id of another container
  (`docker/docker.service.ts:112` passes on what it is given), is not modelled.
- The prune in `Deployments` and `ProjectRoutes`, which only tell whether a
  container runs: to them it can but make a start fail. A prune that fails
  half-way; the images and networks it removes, as an image that is missing when a
  container is created is a failure of that call.
- Activity logs, notifications, mail, settings, monitoring, archive: rows and
  messages that no other state depends on.
- Frontend (about half of the repository's lines), the pages uploaded by users
  under `src/backend/uploads/` and the generated client: no state the backend
  depends on. The modules, DTOs, guards and queries of the backend change no
  state, and its controllers pass requests on (the sessions controller, which
  deletes rows itself, is modelled). This is why the mapped lines are a small
  share of all lines. `admin/system.service` and `nginx/nginx.service` are mapped
  in part: most of their lines are texts of configurations and shell commands.

## 7. Plan

Done: every component with state of its own, its composition where components
meet, one refinement, and proofs of every safety property the runs check. Left,
in this order:

1. Weaker hypotheses: `ActiveServed` with failing database calls, for projects
   of which no call failed; `StoppedIsDown` and `NoOrphan` of `Containers` with
   failing Docker calls, with the exceptions the code then makes.
2. Abstract specifications of `ManagedDatabases` (a store with one writer) and of
   `ProjectRoutes` (a map of domains to projects), and their refinements.
3. Stop and start of containers in `ProjectRoutes`; path configurations, once a
   property tells two paths of a domain apart.

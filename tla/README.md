# Verification of sind

sind builds Slurm clusters for testing out of Docker containers.  This
directory holds TLA+ models of the parts of sind in which processes, docker
calls, users and failures meet, the TLC configurations that check them on small
instances, and TLAPS proofs of what matters most.

All paths below are relative to the repository.  `PROJECT.json` lists, for the
machine, what this text describes: the components, the runs, a mutant for every
checked property, the lines each definition stands for, the findings, the
hazards and the theorems.

    cd tla
    tlc -workers 2 -config RealmLockSafety.cfg MCRealmLock.tla   # one run
    tlapm --stretch 3 RealmLockProofs.tla                        # the proofs of a module

## 1. The system

### What a realm is

A *realm* is everything one sind installation keeps on one Docker daemon under
one name: its clusters, and a *mesh* they share.  sind has no server and no
database.  Its state is on the daemon (containers, networks, volumes and their
labels, and files in containers), and every command reads it afresh.  So there
are three actors: the `sind` processes (commands, and the children that `sind
ui` and the MCP server start), the docker daemon, which serves them and other
clients, and the containers, which live on their own.

Three facts make the code hard:

  * A docker call may fail or be cancelled *although* the daemon did what it
    was asked for, or does so later.
  * A command may be killed anywhere, or the host may reboot, without a
    rollback.  The next command finds what is left.
  * Only the commands that change a realm's makeup hold its lock.  Commands that
    stop nodes, queries and `sind ui` work beside them and see what is half done.

### Inventory

| Component | State | Operations | Interacts with | Hard behaviour |
|---|---|---|---|---|
| **Realm lock** `pkg/state` lock.go, daemonlock.go | a flock on a file of the user's state directory; a docker network `<realm>-lock` with labels that name the holder | `LockRealm`, the unlock it returns | every command that changes the realm | callers on several hosts and in containers, killed holders and takeover, reused PIDs, creates and removals that land late, removal by hand |
| **Realm mesh** `pkg/mesh` | mesh network, DNS container and its Corefile, SSH volume with keys and known_hosts, relay container | `EnsureMesh`, `StartMesh`, `CleanupMesh`, adding and removing records | create, delete, worker and power commands | parts that wait for each other and are cancelled by each other; pinning the subnet against clients without the lock; half-made parts after a kill |
| **Cluster lifecycle** `pkg/cluster` create.go, delete.go, rollback.go, resources.go, discovery.go, preflight.go; `cmd/sind/create.go` | a cluster's network, volumes, containers; what the `Manager` remembers (`created`, `resourcesCreated`) | `Create` with its rollback, `Delete`, `DeleteAll` | mesh, readiness wait, monitoring stack | partial failure with concurrent branches, the question whether the mesh may go, retries of half-done deletes |
| **Worker scaling** worker.go, worker_remove.go, `pkg/slurm` nodes.go | containers, mesh records, `sind-nodes.conf`, what slurmctld has read of it | `WorkerAdd` with its rollback, `WorkerRemove` | mesh, Slurm controllers, power commands | whole-file writes from an old read; controllers that stop under the command; restoring the file |
| **Readiness wait and watcher** `pkg/probe`, `pkg/monitor` | probes that passed, subscription buffers, monitor goroutines | `UntilReady…`, `Watcher.Start/AddNodes/Subscribe/Wait` | create, worker add, power | lost events, cached probe results, monitors that end, shutdown without a leak |
| **Power commands** power.go, `cmd/sind/power.go`; **mesh records** mesh.go | containers' state, DNS records | on, reboot, cycle (locked); shutdown, cut, freeze, unfreeze (not locked) | mesh, every other command | stops under another command; addresses that change at each start |
| **Monitoring stack** `pkg/observability`, monitoring.go | containers, volumes and configuration of the stack, journals | `EnsureStack`, `Sync`, `Start`, `Remove` | create, delete, workers, power on | who removes it; which version's configuration wins; journals of names used again |
| **External containers** external.go | endpoints on the networks of a realm | connect, disconnect | create, delete | networks that are made anew; one join of several fails |
| **Cluster configuration** `pkg/config`, **Slurm configuration** `pkg/slurm`, **node setup and accounts** node.go, users.go | none: derived from the config | `ValidateAll`, defaults, files, mounts, users, accounts | create, added workers | the same fact derived in several places |
| **Queries** status.go, get.go, `pkg/slurm` heartbeat | none: many docker calls | `status`, `get nodes`, `get node` | every command, unlocked | an answer put together from different moments |
| **Web UI: task runner** `internal/ui/run` | sind children, their tasks | `Start`, `Cancel`, `Shutdown` | the store, commands | two SIGINTs would kill a rollback; start during shutdown |
| **Web UI: collectors and store** `internal/ui/collect`, `store` | snapshots by topic, timers, pages that look | refresh, drop, publish | docker events, pages | an answer that arrives after its cluster was dropped; events between two streams |
| **Web UI: activity follower** `internal/ui/activity` | runs rebuilt from the log | follow, reduce | activity log | rotation, killed runs |
| **Web UI: actions** action*.go, `action/` | dialogs in the browser, config files, tasks | preview, run, retry | store, task runner, commands | a dialog that shows what is no longer so |
| **Web UI: pages** pg_*.go, sse.go | one stream a fragment | render, follow topics | store | a fragment that reads what it does not follow; verdicts that disagree |
| **Docker client, command execution, doctor, activity log, command line, MCP, demo, helpers** | none of their own, or text | sequential | | formats and boundaries |

What makes each component correct:

  * *Realm lock*: calls that exclude each other never overlap; no call takes
    another running call's lock away; whoever waits is served; a failed call
    leaves nothing behind.
  * *Mesh*: an `EnsureMesh` without an error gives a mesh that works; a failed
    one takes back what it made and nothing of others; retries end.
  * *Lifecycle*: what was created stays whole until its own delete; what was
    deleted is gone; a failed create is undone; leftovers never stop the next
    create; the mesh is not taken from under a cluster.
  * *Worker scaling*: a failed add leaves no trace; Slurm never keeps a worker
    without a container untold; other workers' lines are left alone; a command
    can be run again.
  * *Readiness wait*: a probe is skipped only while a change of what it checked
    would be told; a death ends the wait; a ready node is found; the watcher
    ends.
  * *Power*: a name in the mesh DNS is its node's address, or a command said
    that it may not be.
  * *Monitoring*: the stack is whole while a monitored cluster needs it, knows
    the nodes there are, and goes with the last of them; each node writes into
    its own journal.
  * *External containers*: a container that has joined reaches every cluster, or
    somebody was told which it does not.
  * *Configuration*: a config that the checks accept is made; what it promises
    holds on every node, and a worker added later is like one made with it.
  * *Queries*: an answer may mix moments, but says nothing that no moment was.
  * *Task runner and follower*: a command is interrupted once and never killed
    unasked; the stop of `sind ui` ends; every run ends.
  * *Collectors*: the store keeps nothing of what is gone and comes to show what
    is.
  * *Actions*: a command loses no more than its dialog said, of what its user
    typed.
  * *Pages*: a page with nothing left to render shows what the store holds, and
    what its parts say of a node agrees.

## 2. The modules

| Module | Stands for | Extends |
|---|---|---|
| `RealmMutex` | what the lock promises, abstractly | |
| `RealmLock` | `LockRealm`, `lockDaemon`, the daemon, kills | |
| `RealmLockProofs`, `LifecycleProofs`, `WorkerScalingProofs`, `ReadyWaitProofs`, `TaskRunnerProofs`, `MonitoringProofs` | theorems about the module of that name, `LifecycleProofs` also about `Mesh` | that module, `TLAPS` |
| `ServicesProofs` | theorems about `Actions`, `NodePages`, `NodePower`, `External` and `Queries` | `Actions`, `NodePages`, `TLAPS`; the other three are instances |
| `PagesProofs` | theorems about `Collector`, `LivePages` and `Runs` | `Collector`, `TLAPS`; the other two are instances |
| `Mesh` | `EnsureMesh`, `CleanupMesh` and a create's undo | |
| `Lifecycle` | `Create`, rollback, `Delete`, `DeleteAll` on top of the mesh | `Mesh` |
| `WorkerScaling` | `WorkerAdd`, `WorkerRemove` | |
| `ReadyWait` | `untilReady` and the watcher behind it | |
| `NodePower` | `sind power`, the mesh containers and the DNS records | |
| `External` | `connect`/`disconnect container`, and creates and deletes as they concern them | |
| `Monitoring` | the stack in the commands of two clusters | |
| `ClusterConfig` | config, checks, and what create and add make of it | |
| `Queries` | `status`, `get nodes`, `get node` | |
| `TaskRunner` | `sind ui`'s children, their tasks, the follower | |
| `Collector` | docker events, the list of clusters, the status of one | |
| `Actions` | dialogs, their commands, retries | |
| `LivePages` | the topics that fragments follow | |
| `NodePages` | what the pages say of the nodes, and the fixes they offer | |
| `Runs` | what the pages say of one command, and what they offer for it | |
| `MCServices` | many of these, as machines of one run | `MCConfig` |
| `MCClusters` | `Lifecycle` and `WorkerScaling`, as machines of one run | `MCLifecycle` |
| `MCStore` | `TaskRunner` and `Collector`, as machines of one run | both |
| `MC…` | instances for TLC: names, hosts, faults | the module of that name |

Definitions whose name begins with `Bug` are mutated forms of the definition
that follows them: what a plausible mistake in the code would do.  No action of
a specification uses one.  Substituted for the definition, each makes a property
fail, which shows that the property depends on the code.

Where a module has several safety invariants, one definition conjoins them
(`MeshInv`, `ClusterInv`, `ScalingInv`, `WaitInv`, `StackInv`, …); its parts have
names and comments of their own and say what is meant.

### RealmLock

A caller is one goroutine in one sind process.  `pc` follows it through
`LockRealm`: `flockWait` is the blocking flock, `create`, `undo`, `undoRemove`,
`inspect`, `removeStale` are the docker calls of `lockDaemon`, each a step of its
own because another client may run between any two, `sleep` the wait between
attempts, `held` the time between `LockRealm`'s return and the unlock, and
`unlockFile` the end of the unlock function.  `lock` is the set of networks of
the lock's name (at most one, since the daemon refuses a second).  `lateCreate`
and `lateRemove` are requests that the daemon still holds after their caller
gave up.  `alive` is what a PID check sees; `siteOf` stands for host name, boot
ID and PID namespace together, `Blind` for a caller that cannot read them.

`End(p)` is a process's end, by a kill or after its calls; `RemoveByHand` is what
the hint tells the user to do; `ForeignNetwork` is a network of that name without
the labels of a lock.

`RealmMutex` is the promise: of the callers that exclude each other (same state
directory, or both with a docker client) one at a time is inside.  `RealmLock`
implements it with `owners <- Inside`.

### Mesh and Lifecycle

A command is a *phase*, and a phase a set of *tasks* that become open when those
they need are done (`MeshNeeds`, `ClusterNeeds`).  Tasks that do not need each
other interleave: they are the branches of the code's error groups.  Each task
is one docker call that changes something, with the reads before it.  It ends
in one of four ways: the call does its work (`Ends`), does it and still reports
an error (`FailsTask(t, "done")`), fails and does nothing (`CallFails`,
`TaskFails`), or is refused by the daemon for the state it is in (`Refused`).
Once one failed, those beside it may go on or be cancelled, and the phase's
failing end (`EnsureFails`, `CreateFails`) may come at any moment after.

`created` is the `Manager`'s `created`, `job.made` the create's
`resourcesCreated`, `job.removes` the answer to "does the mesh go too".
`Kill` ends a command anywhere; `Reboot` also stops every container.
`Rival` is a client without the lock that makes the mesh network.

The removal is one code path for rollback, `Delete` and `DeleteAll`; so it is
here (phases `list`, `wake`, `drop`, `remove`, `clean`, `undo`).  `ready` and the
fields `was`, `had`, `since` of `job` are history variables for the properties.

### WorkerScaling

The same scheme of phases and tasks.  `conf` is the set of workers with a line
in `sind-nodes.conf`, `known` what slurmctld last read, `cmd.original` the file
as the command read it, `ctl` the controllers.  `Power` stops or starts a
controller at any step, since the commands that stop containers take no lock; a
slurmctld that starts or takes over reads the file.

### ReadyWait

One node's wait: `phase` and `pos` follow `untilReady`'s rounds, `passed` and
`trusted` are its `passed` and `events`-trust, `sub` its subscription.  Behind it
are two monitors with a stream each, the internal channel and the broadcast
loop.  The node changes on its own: units come up and fail, the container is
paused or exits, streams end.

### NodePower

`power.pc` follows a locked command: resolve the targets of a cluster
(`ResolveTargets`), take them down for reboot and cycle (`TakeDown`), start the mesh
(`StartMesh`), start each node (`StartNode`, which gives it any free address),
inspect the started containers (`InspectContainers`) and write the records of
those (`AddDNSRecords`), start the stack, and go on with the next cluster.  The
inspection and the write are two steps, and the unlocked commands, Ctrl-C, kills
and reboots come between any two.  `told` is a history variable: the nodes that a
command reported an error for, or that a kill left unfinished.

### External

The command's `pc` follows `connect`, `disconnect`, a create or a delete through
the networks they join or leave one by one; `behind` is the containers that a
warning or an error named.

### Monitoring

`cmd.pc` follows a create from `Preflight` to `RegisterStackDNS`, with `EnsureStack`
service by service (`RemoveOutdated`, `CreateContainer`, `CopyFiles`,
`StartContainer`), the rollback of what `claimed` says is its own, an added or
removed worker, a delete with its question whether another monitored cluster is
there, `power on`, and `delete all` as the deletes of the clusters by themselves.
Containers have identities, so that a node of a name used before is another
node; `journals` tells which of them wrote in a directory.

### ClusterConfig

Three stages: a config is *written*, `Defaults` and `Validate` make it *valid* or
refuse it, `CreateResources`, `SetupNodes` and `CreateSlurmAccounts` make volumes,
files, nodes with mounts, users and capabilities, and accounts; then workers are
added, which are shaped by what the running cluster shows and not by the config,
and a user may edit `slurm.conf`.  What Docker, `groupadd`, `useradd` and
`sacctmgr` refuse is refused: `groupadd` and `useradd` stop at the accounts that the
node's image has (`Images`), of which the checks know nothing.  `MCConfig` has the
families of configs, and the accounts of two images.

### Queries

A query is the list of docker calls it makes, each of them a step; the cluster
changes between any two.  A history of the states seen since the first call is
what the answer is compared with.

### TaskRunner and Collector

`job` follows a task through `Start`, `onStart` and its goroutine, `proc` the child,
`log`, `view`, `marked` and `logRuns` the way of a run from the event log to the
store.  `Collector` has the docker events process, the subscriptions of the two
collectors on the bus, `Status`'s set of what is due with its two timers, its read
of a cluster in three steps (read, check whether it is still wanted, set), and
the pages that come and go.

### Actions

A form is an action with what its fields name.  `Command(f)` is the command line
with the config it would write, `Fingerprint(f)` that and what it loses.  `Run`
builds the form again from the state that `sind ui` knows at that moment and goes
on only if it is `AsShown`; `Retry` opens the form of a task again.  The world
changes by the tasks' ends, which may leave a cluster half deleted or only its
data volume (`Leaves`), and by others.  The store learns of it later: the list of
realms (`ListsRealms`), and of each realm the clusters, the volumes and the workers
(`Collects`), each read by itself, or not for as long as it fails.  So the store
may hold the volume of a cluster that it does not list, or the other way round;
`Losses` are the volumes that a dialog names, `Goes` those that the command takes.

### LivePages

The store's snapshot is a set of named parts; `Setters` are the parts that each
setter changes and the topics it notifies, `Reads` the parts that the `Load` of
each of the 22 fragments reads, through the functions it calls, and `Depends` its
topics.  `Unwatched` names the parts a fragment reads although no topic of its
own tells of them; the table in section 3 says what the user sees of that.

### NodePages

`seen`, `status`, `sinfo`, `state` and `works` are what the store holds; each is
set by its own collector, at its own time, so that they contradict each other as
they do in a store that is behind.  `status.nodes[n]` says whether the node ran
when the status was read, and which of its services were down.  `Problem`,
`Ladder`, `OpFits`, `Verdict`, `FleetReady` and `Card` are the functions of the
pages of the same names; `Builds…` are the checks of the dialogs, which ask the
store again.  `changed` is the record of what the store saw change on a node,
`fix` one task of `sind ui` that may fix nodes: a change falls before it, while
it runs or after its end (`At`), which is all that the card asks of times.

### Runs

The store knows of a command by two ways: its `task`, if this `sind ui` started it
and has not dropped it, and its `log`, which the follower reads later than the
command writes it and in which a killed command has no end.  `Run` is the run as
the store then has it (`endRuns`); `proc` is what really became of the process.
`Card` is its card in the dock, `Head` and `Outcome` its page, `TaskPage` the page
before there is a run, `Row` and `InTab` its place in Activity, `Need` and
`NavRunning` those in Needs you and on the rail.  `silent` is an hour without an
event.  `op`, `origin` and `places` say what command it is, where it came from and
in which realms the store lists a cluster of its name.

## 3. What the runs show

Every run is exhaustive for its instance.

| Run | Bounds | Result |
|---|---|---|
| `lock_safety` | 3 callers, 2 hosts, 2 directories, 3 calls, every fault but removing a running command's lock | mutual exclusion, the inductive invariant, refinement of `RealmMutex` |
| `lock_waiters` | 4 callers (two goroutines of one process, one without a docker client), one host, kills and removal by hand | no leftover after a failed call; no caller takes a running call's lock; waiters are served |
| `mesh_bare_relay` | 2 commands, kills | *violated*: finding 1 |
| `clusters` | *Lifecycle*: 2 clusters with 3 nodes, 3 commands, 2 faults; *WorkerScaling*: 2 names, 3 commands, 2 faults | what was created stays whole, deletes empty, failed creates are undone, leftovers do not stop the next create; failed adds are undone, no phantom workers, a line goes before its container, other lines stay, a retry works; commands end |
| `lifecycle_forgets` | 2 clusters, 4 commands, one failing call | *violated*: finding 2 |
| `ready_wait` | a container probe and 2 unit probes, units up or down at the start, 2 changes, buffers of 1, the docker stream may end | a skipped probe is covered by an event; deaths end the wait; ready nodes are found; the watcher stops |
| `ready_wait_trust` | both streams may end | *violated*: finding 3 |
| `store` | *TaskRunner*: 2 tasks, 1, or one command in a terminal, the logs of single ones may be silent for an hour; the store keeps 1 ended task; *Collector*: 1 cluster; 2 changes, stream ends and opened pages together | no child is interrupted twice or killed unasked; the shutdown ends with all settled; every run ends; the store keeps nothing of what is gone; events alone, or polls with a page, bring it to what is |
| `task_forgets` | 1 task, which may be silent for an hour | *violated*: finding 5 |
| `services` | small machines, each with the bounds below | an invariant for each |
| `end_shown` | the page of a node, nothing else changes | *violated*: finding 4 |
| `realm_loss` | the machine `workers` below | *violated*: finding 6 |

### The machines of `services`

`MCServices` runs small machines side by side, not composed: a behaviour is one
of one machine, the variables of the others are `"off"`.  `MCClusters` and `MCStore`
do the same for two large ones each, with fairness for both.

| Machine | Instance and bounds | Invariant |
|---|---|---|
| mesh | 1 node, 2 subnet attempts, 3 commands, 2 faults of every kind, another client | `MeshInv` |
| power | a node in each of 2 clusters, 3 addresses; 2 commands, 1 fault, 1 unlocked switch | `PowerInv` |
| external | 2 containers, 2 clusters, 5 commands, 2 faults | `ExternalInv` |
| monitoring | 2 clusters, 2 versions, Prometheus and Alloy; 3 commands and 2 faults, together 4, or 5 once a cluster is ready and the last command is a create | `StackInv` |
| clusters | 1 cluster name in each of 2 realms, created and deleted by tasks, these and a move of others 2 together; both realms listed | `ActionsInv` |
| workers | 1 cluster with 2 workers and a data volume, 2 tasks, which also delete the realm; a realm listed or not | `ActionsInv` |
| queries | a pair of controllers and a worker; changes and failed calls together 2 | `QueryInv` |
| pages | all 22 fragments, 2 parts changed since a render, 1 reconnect | `PagesFresh` |
| views | two controllers, a worker and one that sind does not manage; 3 things amiss, 2 runs, runs and things amiss together 3 | `PagesInv` |
| fixes | a controller and a worker that a task fixes; 3 reads, 3 changes kept, 1 thing amiss | `PagesInv` |
| runs | a command of 2 nodes, one of eight kinds and origins; the log tells a wait of 7 minutes or none | `RunsInv` |
| config | 3404 configs in families; 1 added worker, or 2 and an edit of `slurm.conf` for the capability family | `ConfigInv` |

Where two things may be exchanged the start names one of them: the nodes of
`power` begin with the first and the second address, the first command of
`monitoring` is of the first cluster and version.  Every other start is one of
these with the names swapped, and no property speaks of a name.  In `clusters`
one of the two has its data in a volume if it is there at the start; the other
may have it on the host.

### Why these bounds are enough to be of use

  * *Lock*: three callers are the fewest for the classic mistake (one inspects,
    a second takes over, a third acquires, the first removes).  Three calls let
    each of them, or one of them again, take part; a network ID and a token are
    never used twice, so more calls repeat these situations.  The proofs do not
    depend on any of it.
  * *Mesh*: two faults are one that leaves something half done and one that hits
    the command that finds it; three commands are one that leaves it, one that
    repairs it and one that relies on the repair.  Two attempts are the fewest
    for a retry that runs out.  Records are those of one name; `Lifecycle` has
    several.
  * *Lifecycle*: two clusters are the fewest in which the mesh is shared; one has
    two nodes, so that one container may go while another stays; three commands
    are create, create and the delete of one of the two, or a create, what
    undoes half of it, and the create that meets the rest.  Subnet attempts are
    0 here because the mesh machine covers them.  The four invariants are proved
    for every number of commands; the bound matters to `CommandsEnd` alone.
  * *WorkerScaling*: two names let one command's worker stay while another's
    comes and goes, and names be used again; the third command meets what an
    unfinished one and its retry left.
  * *ReadyWait*: buffers of 1 instead of the code's 64, so that they are full
    after one event; two changes are one that fills them and one that is lost.
  * *NodePower*: two clusters make the command go on after the first; a third
    address is one that neither had; a switch between inspection and write is
    the hazard, and one of each kind of trouble meets it.
  * *External*: five commands are connect, create, delete or disconnect, create
    and one that sees the result; two containers let one of them fail.
  * *Monitoring*: two clusters are the fewest that share a stack, two versions
    the fewest for its recreation, two services the fewest for one that stands
    behind the other.  A create, what takes it apart with a fault, and the next
    create are three commands.
  * *ClusterConfig*: each family varies together what its checks and derivations
    have in common; six user IDs of which one is reserved are enough for clashes
    and for an ID to be given.  One account stands for those that every image
    has, one group for those without a user, and a second image has an account
    with an ID of the range, on all nodes or on some.
  * *Queries*: two changes are one before and one after a call that reads; three
    nodes are the roles that a query treats apart.
  * *TaskRunner*: two tasks for a `Shutdown` that finds one running and one being
    started; one kept ended task so that a task is dropped while its run is there.
  * *Collector*: a change that an answer misses and one that follows, or a delete
    and a create.
  * *Actions*: two tasks are one and its retry, two that race, or a delete that
    leaves the volume and the next one; two realms because names and config files
    are shared between them.  Their lists change in `workers`, where one realm is
    enough for a cluster that is listed without its volume, and the reverse.
  * *NodePages*: three things amiss are a node that is down, one thing the others
    rest on, and one that contradicts them; three reads are a node that comes
    back, goes again and comes back.
  * *Runs*: two nodes are one that fails or is cut off and one that is not; the
    eight commands differ in what the functions ask: makes or removes things, has
    a log, comes from this `sind ui`, has one, two or no realms.
  * *LivePages*: a part that is followed and one that is not; one reconnect.

### Fairness

Every liveness property is checked under fairness of the program's own steps,
and under nothing that users or failures would have to do.

  * `RealmLock`: `WF(Step(c))` for each caller.  The kernel grants a free flock,
    docker answers, a sleep ends, an operation under the lock ends.  No fairness
    between callers: that a waiter is not overtaken forever comes from the bound
    on calls, so `WaitersServed` shows the absence of deadlock and of locks that
    nobody releases, not that the lock is fair.  It holds where a waiter can
    check the holder's process (`OneHost`); elsewhere a killed holder's lock
    waits for the user, as the hint says.
  * `Lifecycle`: weak fairness of the command's steps: the process runs on and
    docker calls end.
  * `WorkerScaling`: weak fairness of steps and failing calls together, since a
    call on a stopped controller ends with an error.
  * `ReadyWait`: weak fairness of each goroutine and of the ticker; strong
    fairness of ending the wait once the context is cancelled, because Go's
    `select` chooses at random among ready cases and so does not pass over one
    forever.  `ReadyFound` assumes that the node becomes and stays ready.
  * `TaskRunner`: weak fairness of each task's goroutine, of `Cancel`'s and
    `Shutdown`'s steps once begun, of the grace and of the follower's poll; that a
    log falls silent for an hour.  None for users, and none for a child to end:
    `ShutdownEnds` rests on the kill after the grace.
  * `Collector`: weak fairness of the passes and of the three steps of a read;
    no case of `Status`'s `select` is ready for ever, since Go takes each again
    and again between the reads, as strong fairness would say of each; stated
    as `[]<>` of its channel being empty or its timer unset.  `EventsSuffice` does
    without the timers of the polls; `PagesCatchUp` states them as its premise
    (`PollFairness`).
  * `LivePages`: `QuietSpec` has weak fairness of the stream and of the refresh
    after a task.

`CHECK_DEADLOCK FALSE` stands in every configuration because behaviours are
bounded: the model stops once the calls, commands or changes are used up, and a
wait that is over does nothing more.

### Findings

1. *A relay without keys.*  The keys are written only by the `EnsureMesh` that
   created the volume (`src/pkg/mesh/ssh.go:105`).  After a kill in between, the
   next one starts "a new relay" without them, and every create after that fails.
2. *Names that stay.*  The delete of the last cluster leaves deregistration to
   the end of the mesh (`src/pkg/cluster/delete.go:49`).  When it fails after the
   containers are gone and another cluster is created, the names stay for good.
3. *A monitor error that is missed.*  A subscription hears only of what is
   broadcast after it was made and while it has room
   (`src/pkg/monitor/watcher.go:77`), and each wait starts out trusting events.
   So a wait may skip passed probes although a monitor has ended, which the
   comment in `src/pkg/probe/probe.go:164-166` excludes.
4. *A restart that never ends on the page.*  The node's page says "The page shows
   the result when it ends." (`src/internal/ui/web/templates/pg_node.tmpl:16`).
   Its fragment follows clusters, nodes, status and runs; the restart of a
   service writes no event log, its end tells the tasks' topic only, and the
   refresh after it tells of the status only if that differs.
5. *A failure that is forgotten.*  The store ends the run of a killed task as the
   task ended, but the follower's own copy goes on; an hour after its last event
   the follower ends it without a status (`src/internal/ui/activity/follow.go:81`)
   and publishes that.  `src/internal/ui/store/store.go:129-130` says that such a
   run "ends as the task did".  `OneVoice` of `Runs` leaves this case out.
6. *A volume that Delete realm does not name.*  A delete that failed after the
   containers, or a create that was killed, leaves a data volume.  `sind ui` reads
   the volumes and the clusters apart (`src/internal/ui/collect/sind.go:164`), so it
   knows the volume, but lists no cluster for it; `buildDeleteRealm` goes by the
   clusters (`src/internal/ui/action/cluster.go:562`), `sind delete realm` by the
   volumes too (`src/pkg/cluster/delete.go:199`).  The dialog neither shows the
   volume nor has a box for it, which `src/DESIGN.md:924` says of each such volume
   (`EachVolumeTold`).  `LossesTold` has this as its one exception.

### Smaller things

No text of the repository denies these, or only loosely.  The properties allow
for them by name.

*Mesh and Slurm*
  * A `docker network create` that was done although it failed leaves a bare mesh
    network after the undo (`MeshUndone` of `Mesh`); a DNS container made before a kill
    starts without a Corefile later (`before.whole`).
  * After a kill between the write of `sind-nodes.conf` and the reconfigure
    slurmctld knows a removed worker until the next one (`suspect`).
  * A unit that stops without failing makes no event, so that a passed probe of
    it stays passed (`PassedCovered` speaks of failed units).
  * The lock hint's clock starts with the first holder and goes on for the next
    (`src/pkg/state/daemonlock.go:242`), so the hint may name a holder of a moment.

*Monitoring*
  * A kill between a stack container's create and the copy of its files leaves a
    container with the right fingerprint and no files (`amiss`).  The next
    `EnsureStack` starts it as it is, it exits, and `WaitReady` fails until the
    stack or the realm is removed.
  * The rollback of an add takes the journal directory of a worker that it failed
    to remove (`src/pkg/cluster/worker.go:313`, `spared`).
  * A failed create in a realm with another cluster leaves the journal volume it
    made; it goes with the stack.

*Configuration*
  * Data mounted at `/var/log/journal` of a monitored cluster passes the checks,
    and `docker create` then refuses it (`AcceptedIsMade` names it).
  * A user or group with the name or the ID of one that the image has passes the
    checks, and the setup of the node then fails, as the documentation says
    (`src/docs/content/configuration/cluster-config.md:213`).  `AcceptedIsMade`
    says that it is so on the nodes that get the users, and for no other config.
  * Slurm accounts of a cluster with `clientIds`, a submitter and no
    `controllerUsers` are made for users that the controller does not have.
  * After `TaskPlugin` was changed away from affinity, a worker added with
    `--cap-drop SYS_NICE` still gets the automatic `SYS_NICE`.
  * The config file of `sind ui` is one for all realms with a cluster of that
    name, so that "Config used" of a run may not be what its command read.

*Queries*
  * The state of a cluster is from the list of containers and that of its nodes
    from the later inspection (`NodesTrue` allows any moment).  The heartbeat is
    read on the first controller that ran; if it stops in between, nobody is
    said to be in control.

*What pages say of nodes* (`PagesInv` leaves these out by a premise)
  * While the status still names a stopped controller as the one in control, a
    power dialog may say both that the cluster still takes jobs and that it takes
    none (`activeController`; `WarningsAgree`).
  * A card may say "Fixed" without a check when the status does not have the node
    (`CardHonest`), and says since when a unit is active by the newest change
    recorded, also if that was one for the worse.
  * The services of a node that was just started are those of the last status, so
    that it is offered a reboot until the next one.
  * The lists of clusters and of nodes are read apart: a cluster may need a look
    while none of its nodes does (`FleetAgrees` asks for a running cluster).
  * A card "came back" may be of another problem than the one that was fixed.
  * A cluster that sind does not manage is not ready for want of a worker
    although it has some; where its own Slurm lists a worker that the status does
    not have, Drain is offered and the dialog refuses it (the instance of `views`
    has a managed first controller).

*Pages*: what a fragment reads and does not follow (`Unwatched`)

| Fragment | Not followed | The user may see |
|---|---|---|
| clusters, cluster head | tasks | a Stop button of a command that ended |
| clusters, fleet | volumes, mesh | an old hint of what a delete takes |
| cluster head | monitoring | no chip "monitoring" on a cluster that has it now, or one that stays |
| cluster head, node | docker | a note that Docker does not answer which is missing, or stays when it does |
| connect tab | status | an old verdict whether one can log in |
| node | tasks | finding 4 |
| run head and summary | tasks | a command that does not say it is being cancelled |
| run head | runs, clusters | an old link to the cluster, an old holder of the lock |
| run outcome and summary | other runs | what they take from the other runs, such as the usual time |
| lists of runs, a waiting run | clusters | a realm missing for a run |
| mesh | clusters | a realm that is listed or not |

## 4. What is proved

The theorems hold for every value of the constants that the modules' `ASSUME`s
allow: all sets of callers, names, clusters, units, commands, all buffer sizes
and any number of calls, commands, faults and changes.

| Theorem | Says | Assumes |
|---|---|---|
| *RealmLockProofs* | | |
| `TypeCorrect` | types, and never two networks of the lock's name | – |
| `PollsAloneHolds` | one caller per state directory talks to the daemon | – |
| `LiveLockStaysHolds` | no caller's step takes a running call's lock away | – |
| `LockInvHolds` | the inductive invariant | nobody removes a running command's lock by hand |
| `MutualExclusionHolds` | calls that exclude each other do not overlap | the same |
| `LockImplementsMutex` | `RealmLock` implements `RealmMutex` | the same |
| `NoLeftoverHolds` | a running process's lock is that of a call that holds it or is undoing it | docker reports what it did, and does nothing late |
| *LifecycleProofs* | | |
| `MeshInvHolds` | an `EnsureMesh` without an error leaves a mesh that works | – |
| `MeshUndoneHolds` | a create whose `EnsureMesh` failed leaves no container or volume | – |
| `ClusterInvHolds` | what a command has seen to is so; a user's cluster stays whole | – |
| `DeleteEmptiesHolds` | a delete without an error leaves nothing | – |
| `FailedCreateUndoneHolds` | a failed create without a warning leaves nothing new | – |
| `NextCreateWorksHolds` | leftovers do not stop the next create | – |
| *WorkerScalingProofs* | | |
| `ScalingInvHolds` | no worker without a container is in Slurm, unless a command said so | `ScalingConstants(k)` for some k |
| `FailedAddUndoneHolds` | a failed add leaves nothing | the same |
| `WorkDoneHolds` | a command without an error did its work | the same |
| `RetryWorksHolds` | leftovers do not stop the next command | the same |
| `LineGoesFirstHolds` | a line goes before its container | the same |
| *MonitoringProofs* | | |
| `StackInvHolds` | the stack stays with its monitored clusters, is whole after a create, knows their nodes and goes with the last of them; a node's journal directory is its own | Alloy is a service; the services are numbered from 1 |
| *ReadyWaitProofs* | | |
| `WaitInvHolds` | a skipped probe that would fail is covered by an event | – |
| *TaskRunnerProofs* | | |
| `ChildrenInvHolds` | no child is interrupted twice or killed unasked | – |
| `ShutdownSettlesHolds` | `Shutdown` leaves no child and no open task | – |
| `TaskEndsRunHolds` | a run ends with its task | – |
| *PagesProofs* | | |
| `StoreInvHolds` | no status of what nobody lists or watches stays | – |
| `PagesFreshHolds` | a page with nothing left to render shows what the store holds | – |
| `RunsInvHolds` | what the pages say of a command is true and the same | waits are numbers |
| *ServicesProofs* | | |
| `PowerInvHolds` | the name of a node that runs stands for its address; a command without an error started its nodes | `None` is no address |
| `ExternalInvHolds` | who joins a cluster is on the mesh, who is on the mesh joins every cluster | no cluster's network is the mesh |
| `ActionsInvHolds` | a command loses what its dialog named and its user typed, and no more, but for finding 6 | finitely many clusters |
| `QueryInvHolds` | an answer says what was so during the query, and what is so if nothing changed | two controllers; `None` is no node |
| `PagesInvHolds` | the pages say the same of a node and a cluster, and offer no fix that is refused | `RolesOK` |

The `ASSUME`s are about the instance, not about the program's luck: each caller
has a process, a directory and a site (`ClientAssumption`), each node a cluster
and each cluster a node (`ClusterAssumption`), tasks have names of their own
(`TaskAssumption`), a wait has a probe and its channels room for an event
(`ReadyWaitAssumption`), and bounds are numbers.  `ScalingConstants(k)` says that
the numbers of the workers' names have a bound, that no worker has the name of
a task, and that the bounds are numbers; the `clusters` run checks it of its
instance.  Where the column is empty the
theorem holds under every fault of the module.

The properties of most theorems are checked by a run under their own names.
`MeshInv`, `PowerInv`, `ExternalInv`, `ActionsInv`, `QueryInv`, `StackInv`,
`PagesFresh`, `PagesInv` and `RunsInv` are each checked by the `services` run for
a machine of `MCServices`, two for `PagesInv`, and those of
`WorkerScaling` by the `clusters` run for the machine `workers` of `MCClusters`.
`MeshUndone` and `PollsAlone` have no run of their own.

### The arguments

*RealmLock.*  Mutual exclusion alone is not inductive: it does not say why a
removal by network ID that is under way, or that the daemon does later, cannot
hit the network of whoever holds the lock now.  The invariant says so in four
parts.  `FileInv`: the flock is with the callers past it, one per directory.
`FreshInv`: tokens and network IDs are used once, an ended process calls nothing.
`RemovalInv`: whoever is about to remove the network on the daemon either made it
in this call or has seen its process ended.  `HolderInv`: each holder's own
network is on the daemon and in no late removal.  The first three with the types
(`SafeInv`) are inductive by themselves, under every fault, also when users
remove any lock; so `PollsAlone` and `LiveLockStays`, which need no more, hold
without an assumption.  `HolderInv` needs that nobody removes a running
command's lock by hand: that removal is the one thing that can break mutual
exclusion, which is what the warning in the hint is about.  Two holders then have
two networks, or share a directory and so the flock.  For the refinement,
`InsideStep` shows that a step changes `Inside` by one caller entering or by some
leaving, and `MutualExclusion` in the next state gives `Acquire`'s guard.
`LeftoverInv` adds to `NoLeftover` that the owner of a lock knows its ID once it
has one to remove, and that no request of a killed client is pending, which is
where its assumptions on docker are needed.

*Mesh* (in `LifecycleProofs`; no assumption of `Lifecycle` is used).  That EnsureMesh gives a mesh that works is not inductive: it says
nothing of a mesh that is half made.  `EnsureInv` says for each part what its tasks have
seen to once they have ended (`EnsureDone`, `EnsureWhole`), `EnsureOrder` that a
task that ended or failed has waited for its needs, `CleanInv` what a cleanup has
taken away, and `EnsureUndoable` that an EnsureMesh which found no network has
made nothing before it has one.  The order
makes the parts rest on each other: the relay is started with its keys because
the task that writes them has ended, and not failed, before.

*Lifecycle.*  Its commands run the mesh's tasks, so that its invariant contains
that of the mesh, and its proof uses the lemmas about one step of the mesh.
`CommandInv` adds what a command has done in each phase: a task that ended left
its resource, a removal's target is no user's cluster, the mesh goes only when
no user's cluster is left, and `job` remembers truly what was there before.
`ReadyIntact` then survives because no command removes what is not its target's.
The three results concern the step in which a command ends, so they are proved
in the same induction (`Results`): `RemovalOutcome` and `CreateEndsKeeps` show
them from what the phase had seen to, and a running command has none.
All of it is part of `ClusterInv`, so that TLC checks it too.

*WorkerScaling.*  `NoPhantoms` holds between commands, but a command passes
through states in which it does not, and a kill may stop it in any of them.
`LinesInv` is what holds throughout: a line is that of a managed worker or of one
told of, and slurmctld knows only workers with a line, except for the workers
of a rollback that failed.  It is stronger than `NoPhantoms` in two ways that the
proof needs: it speaks of labels and not of containers, because a removal leaves
the lines of unmanaged workers alone; and it holds of what slurmctld knew while
no controller runs.  `AddedLines` and `RemovedLines` say what the file is in each
phase, by the tasks that are done, from which follow both that an undone add left
the file as it was and that a removed container had no line.  `CleanInv` says
that without a fault since its beginning a command has met no failure and its
controller still runs.  That new workers had no container before rests on
`NextIsPast`, which needs that `Max` returns an upper bound: `MaxOfBounded` proves
it from the well-foundedness of the numbers.

*ReadyWait.*  That a skipped probe holds is false, as a unit may have failed a
moment ago.  True is that a witness is on its way: an event on a stream or in the two
channels, a full buffer that makes the wait run its probes again, or the end of
a monitor that is being told.  `Covered` names these, and the two things that go
unnoticed: a monitor error that was missed (finding 3) and a change from before
busctl was connected.  The proof follows an event from one place to the next
(`StaysCovered`, `QueueFacts`); `MonitorInv` is needed beside it, as the end of
a monitor covers every probe (`EndCovers`).

*TaskRunner.*  Who sets a child's interrupted flag sends its SIGINT, once, and in
between it is in one of two places; `InterruptInv` counts SIGINTs by the flag and
these places, so a second one, or a kill of a child that nobody asked to stop,
would not add up.  `TaskInv` places the store's tasks by where their goroutines
are, from which follows that none is open once all are over.

*Collector.*  A read that began before its cluster went may still store its
answer.  `StatusKept` allows for it only where a notice waits for `Status` that
drops it again, `ReadKept` says the same between the check and the write.

*NodePower.*  That names stand for addresses rests on the step before the write
of the records: `SeenInv` says that what the inspection saw of a node which is
still up is its address.  It survives the unlocked commands, as they only take
addresses away, and with the lock no other command gives one.  `GroupInv` says
that a step has tried the nodes it took out of `left`, so that a group without
an error has been refreshed as a whole; `StartInv` says of each node of the
command that it was started, was stopped since or is still to do.

*External.*  That those on the mesh are at every cluster that has nodes does not
follow from itself: a create makes the network first, connects the containers
one by one and then makes the nodes.  `CreateInv` says for each of these phases
who has joined, is still to do or was told of, so that the property holds at the
step in which the cluster gets its nodes; `RemovalInv` that a delete takes
the mesh away only when no cluster has nodes or nobody is on it, so that a
container that joins a cluster stays known; `NamesInv` which commands name
containers, which the property leaves out until their command ends.

*Actions.*  The dialog changes between the moment it is shown and the moment it
is confirmed, and so do the clusters.  The invariant therefore speaks of each
task: `Told` and `Typed` hold when it starts, because a run compares the fingerprint
of the form as it then is with the one that the tab showed, and because a retry of
a task that needs its user starts none but opens the dialog again.  Each part of
a delete of several clusters loses no more than the whole (`PartLosses`).  What the
store has read plays no part in it: `Losses` are taken from the store as it is,
`unlisted` is what `Goes` beyond them, and only delete realm can take any, since
every other delete needs its clusters listed (`Fits`).
`OfOne` gives a create one cluster, which the type of its config file needs.

*Queries.*  What is compared is an answer with every state of the cluster since
the first call (`been`).  `NotedInv` says that each thing noted so far was so in one
of them; a change of the cluster only adds states to compare with.  `StillInv`
says that what is noted is the cluster as it is, as long as `been` has one
element and no call failed; any change ends that, so nothing has to be shown
about it afterwards.  `BeatSteady` is the part that depends on the code's
choice of the controller whose heartbeat file it reads: if one is in control
that the answer is about, the file is read where a controller runs.

*Monitoring.*  Any command may change the nodes, and Alloy learns of it later, from
a call of the same command that may fail or be skipped.  `AlloyInv` says phase by
phase when Alloy knows the nodes (`Follows`: what it runs with, and the file that
it would be started with), when the call that tells it is still ahead, and when
instead the command ends with an error or a warning.  `NodesInv` says that the
nodes which a removal will have Alloy forget are those that it removes, and that
whoever takes the stack has found no other monitored cluster; `JournalInv` that the
directories of the nodes to come are empty before their containers are made,
though a create resets them in one branch of three; and `ServicesInv` that the services which
a command has been through are of its version, so that all are at the end.
`PhaseInv` keeps the commands apart, as they share most phases.  A rollback of a
create passes through the same phases as a delete; `AfterIs` and `AfterEnds` say
where each goes on from them.

*LivePages.*  A fragment is stale from the change of a part that it reads until
it is rendered, so `PagesFresh` is inductive once three facts about the tables of
the code are known.  `SettersTell`: each setter of the store notifies a topic for
every part that it changes.  `FragmentsFollow`: every fragment depends on a topic
of each part it reads but those of `Unwatched` (the table at the end of section
3, with finding 4).  `SettersReach` puts them together: a change that no topic
tells a fragment of touches nothing else that it reads.  Any other change leaves
the page with something to render, whose rendering reads the store as it then is;
how many changes wait for it does not matter.

*NodePages.*  Each part of `PagesInv` is a fact about every state whose parts have
their types, so `PagesTypeOK` is the inductive invariant: what the store holds at
a moment is enough for the pages to agree, however it came about.  Three of the
types matter, as they are promises of the code and not only of Go: a status has
of a node no services but its own, `sinfo` no nodes but managed workers, and a
task that restarts a service one that its node has.  `RolesOK` says of the
instance that the nodes have one of the three roles and that sind manages the
controllers if it manages a worker: `NodeRunConfigs` and `WorkerAdd` make all nodes of an
unmanaged cluster unmanaged.  Without it the pages would offer a drain that the
dialog refuses.

*Runs.*  A command has two ends, that of its record in the log and that of its
process, and the pages may know either first.  `OneCommand` says that they
agree: what the log and the task say of an end is what the process did, and a
command without a step has no targets and nothing to undo.  The rest of
`RunsInv` then follows in each state by itself, function by function, for runs
with and without a task.  That waits are numbers is needed for the retry that
offers a longer one.

### What TLC alone checks

  * *Out of the prover's reach*: liveness under fairness and `ENABLED`
    (`WaitersServed`, `CommandsEnd`, `DeathEnds`, `ReadyFound`, `WatcherStops`,
    `ShutdownEnds`, `RunEnds`, `EventsSuffice`, `PagesCatchUp`), and
    induction over data (what the folds of `ClusterConfig` compute).  No module
    has a RECURSIVE operator.
  * *Not proved yet*: `ConfigInv`.  Of `TrustOnlyLive` and the
    other violated properties there is nothing to prove: the findings show them
    false.

## 5. What is not modelled

  * *Late effects beyond the lock.*  `RealmLock` lets the daemon act on requests
    after their caller is gone.  The other modules settle a call's effect when
    it ends or its command is killed.  A docker child that outlives its killed
    command, while a second command that took the lock over works, is listed as
    a hazard without a property.
  * *Lock*: notices and hints of a wait; they change nothing.
  * *Lifecycle*: pulls, host DNS, Slurm's own state (one task that may fail); the
    monitoring stack and external containers of a create are in `Monitoring` and
    `External`, users and accounts in `ClusterConfig`.
  * *Mesh*: addresses and the layout of a pinned subnet, host DNS, the export of
    the SSH configuration.
  * *WorkerScaling*: the checks before the first change, what a line says beside
    its name (`ClusterConfig` has that).
  * *ReadyWait*: other nodes' subscriptions (`subscriber.wants` keeps them
    apart), parsing of event lines, messages.
  * *NodePower*: other names of a node than its own; the text of the Corefile.
  * *External*: the names a container gets on a network.
  * *Monitoring*: the text of the configurations and dashboards; Loki and Grafana,
    which are one more service like Prometheus.
  * *ClusterConfig*: YAML, the syntax of names, sizes, devices and limits, SSH
    keys, the drop-ins of services, `mpi` and other files that users bring.
  * *Queries*: lists of networks, volumes and realms, `logs`, `ssh`; a node's
    services are one.
  * *TaskRunner*: a child's output.  *Follower*: how records become runs.
  * *Collector*: the lists of realms, locks, meshes and volumes, which are read as
    a whole like the list of clusters (`Actions` has realms and volumes beside
    clusters); comparison of snapshots.
  * *Actions*: the fields of a form and their checks one by one, hints, the
    commands that only read; uploads.
  * *Runs*: hidden steps, pulls, suspended commands, titles and times; the order of
    the dock's cards and its strip.
  * *Pages*: HTML, sessions, the log stream of a node, how the jump box ranks.
  * *Components without a module*: command execution (wrappers over the kernel's
    processes and pipes), the doctor (checks that read and report), the activity
    log (a library rotates it), the MCP server (runs the commands), the demo (a
    scripted world that is not the program's behaviour), helpers, test support
    and tools.  Their share of the code, with the text and HTML of the modelled
    parts, is why the map covers less than the whole: what is left is mostly
    formatting, parsing and layout, in which no step of one actor meets another.

## 6. Plan

Done, in this order, the most important first: 1 `RealmLock` with `RealmMutex` and
proofs, 2 `Mesh`, 3 `Lifecycle`, 4 `WorkerScaling`, 5 `ReadyWait`, 6 `NodePower`,
7 `External`, 8 `Monitoring`, 9 `TaskRunner`, 10 `Collector`, 11 `Actions`,
12 `Queries`, 13 `LivePages`, 14 `ClusterConfig`, 15 `NodePages`, 16 `Runs`.

Next:

17. The reducer of the activity log: runs from records that are lost, late or of
    two files.  Property: a run's record order does not change its outcome.
18. `MeshRecords`: known_hosts and Corefile with a write of a killed command that
    lands late.  Property: no name of a finished command is lost.
19. An abstract specification of a cluster (absent, partial, ready) that
    `Lifecycle` implements and on which `Monitoring` and `External` rest.
20. The create dialog with its fields and users, against `ClusterConfig`.

Proofs, next: the refinement of item 19.  It can be a part of `LifecycleProofs`, as
an instance, if it needs no operator of the standard modules: tlapm knows of
`Seq`, `Append` or `Cardinality` of an instance nothing at all, so that only the
module that is extended may use them.

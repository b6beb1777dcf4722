------------------------------ MODULE MCServices ------------------------------
(***************************************************************************)
(* The machines of sind for TLC, in one run.  A behaviour is a behaviour   *)
(* of one of them, which `machine' names, and the variables of the others  *)
(* are "off": machines that use the same name for a variable share it.     *)
(*                                                                         *)
(* Addresses, clusters and versions may be exchanged in NodePower and      *)
(* Monitoring: the nodes had addrOne and addrTwo when the behaviour began, *)
(* and its first command is of clusterOne and of version 1.  A SYMMETRY    *)
(* would slow the other machines down.  Bounds that count together are in  *)
(* Next.  The cluster devThere has its data in a volume when the behaviour *)
(* begins, if it is there; devHere may have it on the host, but not among  *)
(* the workers.                                                            *)
(***************************************************************************)
EXTENDS Naturals, Sequences, TLC, MCConfig

CONSTANTS
    firstNode, devNode, labNode, someWorker, oldWorker, newWorker, primaryCtl, backupCtl,
    clusterOne, clusterTwo, devHere, devThere, someTab, addrOne, addrTwo, addrThree, None

VARIABLES
    machine,
    mesh, phase, todo, failed, created, attempt, before, outcome, faults, commands,
    nodes, records, dns, relay, power, told, used,
    networks, whole, joined, ext, behind, extUsed,
    containers, mounts, netvols, realmMesh, service, volumes, journals, alloy, cmd,
    ready, amiss, spared, monUsed,
    world, snap, tabs, saved, tasks, moves,
    slurm, beat, net, changes, query,
    frag, stream, dirty, pending, taken, ended, reconnects,
    cfg, stage, made,
    state, seen, status, sinfo, works, changed, fix, reads,
    op, origin, places, log, proc, silent, task

\* What each machine has for itself; mesh, nodes and behind are shared.
meshOnly == <<phase, todo, failed, created, attempt, before, outcome, faults, commands>>
powerOnly == <<records, dns, relay, power, told, used>>
extOnly == <<networks, whole, joined, ext, extUsed>>
monOnly == <<containers, mounts, netvols, realmMesh, service, volumes, journals, alloy,
             cmd, ready, amiss, spared, monUsed>>
actOnly == <<world, snap, tabs, saved, tasks, moves>>
queryOnly == <<slurm, beat, net, changes, query>>
liveOnly == <<frag, stream, dirty, pending, taken, ended, reconnects>>
configOnly == <<cfg, stage, made>>
nodesOnly == <<state, seen, status, sinfo, works, changed, fix, reads>>
runsOnly == <<op, origin, places, log, proc, silent, task>>

MeshOff ==
    /\ phase = "off" /\ todo = "off" /\ failed = "off" /\ created = "off"
    /\ attempt = "off" /\ before = "off" /\ outcome = "off"
    /\ faults = "off" /\ commands = "off"
PowerOff ==
    /\ records = "off" /\ dns = "off" /\ relay = "off"
    /\ power = "off" /\ told = "off" /\ used = "off"
ExtOff ==
    /\ networks = "off" /\ whole = "off" /\ joined = "off" /\ ext = "off" /\ extUsed = "off"
MonOff ==
    /\ containers = "off" /\ mounts = "off" /\ netvols = "off" /\ realmMesh = "off"
    /\ service = "off" /\ volumes = "off" /\ journals = "off" /\ alloy = "off"
    /\ cmd = "off" /\ ready = "off" /\ amiss = "off" /\ spared = "off" /\ monUsed = "off"
ActOff ==
    /\ world = "off" /\ snap = "off" /\ tabs = "off"
    /\ saved = "off" /\ tasks = "off" /\ moves = "off"
QueryOff == slurm = "off" /\ beat = "off" /\ net = "off" /\ changes = "off" /\ query = "off"
LiveOff ==
    /\ frag = "off" /\ stream = "off" /\ dirty = "off" /\ pending = "off"
    /\ taken = "off" /\ ended = "off" /\ reconnects = "off"
ConfigOff == cfg = "off" /\ stage = "off" /\ made = "off"
NodesOff ==
    /\ state = "off" /\ seen = "off" /\ status = "off" /\ sinfo = "off"
    /\ works = "off" /\ changed = "off" /\ fix = "off" /\ reads = "off"
RunsOff ==
    /\ op = "off" /\ origin = "off" /\ places = "off"
    /\ log = "off" /\ proc = "off" /\ silent = "off" /\ task = "off"

-----------------------------------------------------------------------------
\* One node; commands that meet faults of every kind.
M == INSTANCE Mesh WITH
       Name <- {firstNode}, Attempts <- 2, MaxFaults <- 2, MaxCommands <- 3,
       Faults <- {"fail", "done", "kill", "reboot", "rival"}

\* A node in each of two clusters, and an address more than there are nodes.
PowerNodes == {devNode, labNode}
PowerClusters == devNode :> "dev" @@ labNode :> "lab"
PowerAddrs == {addrOne, addrTwo, addrThree}
P == INSTANCE NodePower WITH
       Node <- PowerNodes, clusterOf <- PowerClusters, Addr <- PowerAddrs,
       MaxFaults <- 1, MaxCommands <- 2, MaxSwitches <- 1

\* Two containers outside sind, and two clusters.
E == INSTANCE External WITH
       Ext <- {"c", "d"}, Cluster <- {"dev", "lab"}, MaxExtFaults <- 2, MaxExtCommands <- 5

\* Two clusters, two versions of sind, and two of the services of the stack.
MonClusters == {clusterOne, clusterTwo}
MonVersions == {1, 2}
MonOrder == <<"prometheus", "alloy">>
Mon == INSTANCE Monitoring WITH
         Cluster <- MonClusters, Version <- MonVersions, StartOrder <- MonOrder,
         MaxMonFaults <- 2, MaxMonCommands <- 3

\* Clusters of one name in two realms, which come and go.
Confs == {"vol", "bad"}
VolumeConfs == {"vol"}
BadConfs == {"bad"}
ClusterTasks == {"create-cluster", "delete-clusters"}
Clusters == {devHere, devThere}
Realms == devHere :> "sind" @@ devThere :> "other"
Names == devHere :> "dev" @@ devThere :> "dev"
C == INSTANCE Actions WITH
       Tab <- {someTab}, Offered <- ClusterTasks,
       Cluster <- Clusters, realmOf <- Realms, nameOf <- Names,
       DefaultRealm <- "sind", Worker <- {}, Conf <- Confs, Volume <- VolumeConfs,
       Bad <- BadConfs, NoConf <- "none", MaxTasks <- 2, MaxMoves <- 1

\* One cluster, with workers that come and go by the tasks.
WorkerTasks == {"create-worker", "delete-worker", "power", "delete-realm"}
TaskWorkers == {oldWorker, newWorker}
OneCluster == {devHere}
OneRealm == devHere :> "sind"
OneName == devHere :> "dev"
W == INSTANCE Actions WITH
       Tab <- {someTab}, Offered <- WorkerTasks,
       Cluster <- OneCluster, realmOf <- OneRealm, nameOf <- OneName,
       DefaultRealm <- "sind", Worker <- TaskWorkers, Conf <- Confs, Volume <- VolumeConfs,
       Bad <- BadConfs, NoConf <- "none", MaxTasks <- 2, MaxMoves <- 0

\* A controller, its backup and a worker.
Q == INSTANCE Queries WITH
       Primary <- primaryCtl, Backup <- backupCtl, Worker <- {someWorker},
       MaxChanges <- 2, MaxQueryFaults <- 1

\* Every fragment, one in each behaviour.
L == INSTANCE LivePages WITH MaxDirty <- 2, MaxReconnects <- 1

\* The configs of MCConfig, with IDs of 10 to 15.
K == INSTANCE ClusterConfig WITH
       Config <- Configs, MinUID <- 10, MaxUID <- 15, ReservedIDs <- {12}, MaxAdds <- 2,
       Images <- NodeImages, DefaultImage <- "sind"

\* A controller and its backup, a worker, and one that sind does not manage.
ViewNodes == {primaryCtl, backupCtl, oldWorker, newWorker}
ViewRoles == primaryCtl :> "controller" @@ backupCtl :> "controller"
             @@ oldWorker :> "worker" @@ newWorker :> "worker"
ViewManaged == {primaryCtl, backupCtl, oldWorker}
ViewOps == {"create cluster", "delete cluster", "create worker", "delete worker", "power"}
V == INSTANCE NodePages WITH
       Node <- ViewNodes, roleOf <- ViewRoles,
       First <- primaryCtl, Managed <- ViewManaged, Followed <- {},
       MaxKept <- 0, MaxAmiss <- 3, MaxRuns <- 2, MaxReads <- 0, Verbs <- {},
       RunOps <- ViewOps

\* A controller that runs, and a worker that is fixed.
FixNodes == {primaryCtl, someWorker}
FixRoles == primaryCtl :> "controller" @@ someWorker :> "worker"
FixVerbs == {"on", "resume", "slurmd"}
F == INSTANCE NodePages WITH
       Node <- FixNodes, roleOf <- FixRoles,
       First <- primaryCtl, Managed <- FixNodes, Followed <- {someWorker},
       MaxKept <- 3, MaxAmiss <- 1, MaxRuns <- 1, MaxReads <- 3,
       Verbs <- FixVerbs, RunOps <- {"delete worker"}

\* Commands of this sind ui, of another one, of a terminal and of a program.
Cast(what, from, where) == [op |-> what, origin |-> from, places |-> where]
RunCasts ==
    {Cast("create cluster", "task", {"here"}), Cast("create worker", "task", {"here"}),
     Cast("delete cluster", "task", {"here"}), Cast("power reboot", "task", {}),
     Cast("drain", "task", {"here"}), Cast("create cluster", "program", {"here", "there"}),
     Cast("create worker", "ui", {"here"}), Cast("delete cluster", "terminal", {"there"})}
RunNodes == {"a", "b"}
Waited == {0, 7}
U == INSTANCE Runs WITH Node <- RunNodes, Casts <- RunCasts, RunWaits <- Waited

-----------------------------------------------------------------------------
Init ==
    \/ /\ machine = "mesh" /\ M!Init
       /\ PowerOff /\ ExtOff /\ MonOff /\ ActOff /\ QueryOff /\ LiveOff /\ ConfigOff /\ NodesOff /\ RunsOff
       /\ nodes = "off" /\ behind = "off"
    \/ /\ machine = "power" /\ P!Init
       /\ records = (devNode :> addrOne @@ labNode :> addrTwo)
       /\ MeshOff /\ ExtOff /\ MonOff /\ ActOff /\ QueryOff /\ LiveOff /\ ConfigOff /\ NodesOff /\ RunsOff
       /\ mesh = "off" /\ behind = "off"
    \/ /\ machine = "external" /\ E!Init
       /\ MeshOff /\ PowerOff /\ MonOff /\ ActOff /\ QueryOff /\ LiveOff /\ ConfigOff /\ NodesOff /\ RunsOff
       /\ nodes = "off"
    \/ /\ machine = "monitoring" /\ Mon!Init
       /\ MeshOff /\ PowerOff /\ ExtOff /\ ActOff /\ QueryOff /\ LiveOff /\ ConfigOff /\ NodesOff /\ RunsOff
       /\ mesh = "off" /\ nodes = "off"
    \/ /\ machine = "clusters" /\ C!ActInit
       /\ world[devThere].there => world[devThere].data
       /\ snap.realms = C!Realm
       /\ MeshOff /\ PowerOff /\ ExtOff /\ MonOff /\ QueryOff /\ LiveOff /\ ConfigOff /\ NodesOff /\ RunsOff
       /\ mesh = "off" /\ nodes = "off" /\ behind = "off"
    \/ /\ machine = "workers" /\ W!ActInit
       /\ world[devHere].data
       /\ MeshOff /\ PowerOff /\ ExtOff /\ MonOff /\ QueryOff /\ LiveOff /\ ConfigOff /\ NodesOff /\ RunsOff
       /\ mesh = "off" /\ nodes = "off" /\ behind = "off"
    \/ /\ machine = "queries" /\ Q!QueryInit
       /\ MeshOff /\ PowerOff /\ ExtOff /\ MonOff /\ ActOff /\ LiveOff /\ ConfigOff /\ NodesOff /\ RunsOff
       /\ mesh = "off" /\ behind = "off"
    \/ /\ machine = "pages" /\ L!LiveInit
       /\ MeshOff /\ PowerOff /\ ExtOff /\ MonOff /\ ActOff /\ QueryOff /\ ConfigOff /\ NodesOff /\ RunsOff
       /\ mesh = "off" /\ nodes = "off" /\ behind = "off"
    \/ /\ machine = "config" /\ K!ConfigInit
       /\ MeshOff /\ PowerOff /\ ExtOff /\ MonOff /\ ActOff /\ QueryOff /\ LiveOff /\ NodesOff /\ RunsOff
       /\ mesh = "off" /\ nodes = "off" /\ behind = "off"
    \/ /\ machine = "views" /\ V!PagesInit
       /\ MeshOff /\ PowerOff /\ ExtOff /\ MonOff /\ ActOff /\ QueryOff /\ LiveOff /\ ConfigOff /\ RunsOff
       /\ mesh = "off" /\ nodes = "off" /\ behind = "off"
    \/ /\ machine = "fixes" /\ F!PagesInit
       /\ MeshOff /\ PowerOff /\ ExtOff /\ MonOff /\ ActOff /\ QueryOff /\ LiveOff /\ ConfigOff /\ RunsOff
       /\ mesh = "off" /\ nodes = "off" /\ behind = "off"
    \/ /\ machine = "runs" /\ U!RunsInit
       /\ MeshOff /\ PowerOff /\ ExtOff /\ MonOff /\ ActOff /\ QueryOff /\ LiveOff /\ ConfigOff /\ NodesOff
       /\ mesh = "off" /\ nodes = "off" /\ behind = "off"

Next ==
    /\ UNCHANGED machine
    /\ \/ /\ machine = "mesh" /\ M!Next
          /\ UNCHANGED <<powerOnly, extOnly, monOnly, actOnly, queryOnly, liveOnly,
                         configOnly, nodesOnly, runsOnly, nodes, behind>>
       \/ /\ machine = "power" /\ P!Next
          /\ used'.commands + used'.faults + used'.switches <= 3
          /\ UNCHANGED <<meshOnly, extOnly, monOnly, actOnly, queryOnly, liveOnly,
                         configOnly, nodesOnly, runsOnly, mesh, behind>>
       \/ /\ machine = "external" /\ E!Next
          /\ UNCHANGED <<meshOnly, powerOnly, monOnly, actOnly, queryOnly, liveOnly,
                         configOnly, nodesOnly, runsOnly, nodes>>
       \/ /\ machine = "monitoring" /\ Mon!Next
          /\ monUsed'.commands + monUsed'.faults <=
               IF ready' # {} /\ cmd'.op \in {"create", "none"} THEN 5 ELSE 4
          /\ monUsed.commands = 0 => cmd'.c \in {clusterOne, "none"} /\ cmd'.version \in {0, 1}
          /\ UNCHANGED <<meshOnly, powerOnly, extOnly, actOnly, queryOnly, liveOnly,
                         configOnly, nodesOnly, runsOnly, mesh, nodes>>
       \/ /\ machine = "clusters" /\ C!ActNext
          /\ snap'.realms = C!Realm /\ moves' + Len(tasks') <= 2
          /\ UNCHANGED <<meshOnly, powerOnly, extOnly, monOnly, queryOnly, liveOnly,
                         configOnly, nodesOnly, runsOnly, mesh, nodes, behind>>
       \/ /\ machine = "workers" /\ W!ActNext
          /\ UNCHANGED <<meshOnly, powerOnly, extOnly, monOnly, queryOnly, liveOnly,
                         configOnly, nodesOnly, runsOnly, mesh, nodes, behind>>
       \/ /\ machine = "queries" /\ Q!QueryNext
          /\ changes' + query'.faults <= 2
          /\ UNCHANGED <<meshOnly, powerOnly, extOnly, monOnly, actOnly, liveOnly,
                         configOnly, nodesOnly, runsOnly, mesh, behind>>
       \/ /\ machine = "pages" /\ L!LiveNext
          /\ UNCHANGED <<meshOnly, powerOnly, extOnly, monOnly, actOnly, queryOnly,
                         configOnly, nodesOnly, runsOnly, mesh, nodes, behind>>
       \/ /\ machine = "config" /\ K!ConfigNext
          /\ stage = "ready" /\ cfg.defaults.cpus = 0 => made'.adds <= 1 /\ ~made'.edited
          /\ UNCHANGED <<meshOnly, powerOnly, extOnly, monOnly, actOnly, queryOnly, liveOnly,
                         nodesOnly, runsOnly, mesh, nodes, behind>>
       \/ /\ machine = "views" /\ V!PagesNext
          /\ V!Amiss' + Len(works') <= 3
          /\ UNCHANGED <<meshOnly, powerOnly, extOnly, monOnly, actOnly, queryOnly, liveOnly,
                         configOnly, runsOnly, mesh, nodes, behind>>
       \/ /\ machine = "fixes" /\ F!PagesNext
          /\ state' = "running" /\ status'.data /\ seen'[primaryCtl] = "running"
          /\ UNCHANGED <<meshOnly, powerOnly, extOnly, monOnly, actOnly, queryOnly, liveOnly,
                         configOnly, runsOnly, mesh, nodes, behind>>
       \/ /\ machine = "runs" /\ U!RunsNext
          /\ UNCHANGED <<meshOnly, powerOnly, extOnly, monOnly, actOnly, queryOnly, liveOnly,
                         configOnly, nodesOnly, mesh, nodes, behind>>

Spec ==
    Init /\ [][Next]_<<machine, meshOnly, powerOnly, extOnly, monOnly, actOnly, queryOnly,
                       liveOnly, configOnly, nodesOnly, runsOnly, mesh, nodes, behind>>

(* The dialogs of one cluster, by themselves.                              *)
DialogSpec ==
    /\ Init /\ machine = "workers"
    /\ [][Next]_<<machine, meshOnly, powerOnly, extOnly, monOnly, actOnly, queryOnly,
                  liveOnly, configOnly, nodesOnly, runsOnly, mesh, nodes, behind>>

-----------------------------------------------------------------------------
(* The mesh is in a state its commands know, EnsureMesh that returns no    *)
(* error leaves one that works, and a create whose EnsureMesh failed       *)
(* leaves nothing that it does not name (MeshInv, MeshUndone of Mesh).     *)
MeshInv == machine = "mesh" => M!MeshInv /\ M!MeshUndone

(* The records of the mesh DNS follow the nodes that power starts, but for *)
(* nodes that were reported (PowerInv of NodePower).                       *)
PowerInv == machine = "power" => P!PowerInv

(* A container outside sind joins all networks of its realm or only those  *)
(* of which somebody was told (ExternalInv of External).                   *)
ExternalInv == machine = "external" => E!ExternalInv

(* The monitoring stack is whole while a monitored cluster needs it, knows *)
(* its nodes and goes with the last of them, and every monitored node has  *)
(* a journal directory (StackInv, OwnJournal of Monitoring).               *)
StackInv == machine = "monitoring" => Mon!StackInv /\ Mon!OwnJournal

(* A command that sind ui starts loses no more than its dialog said, of    *)
(* what its user typed (ActionsInv of Actions).                            *)
ActionsInv ==
    /\ machine = "clusters" => C!ActionsInv
    /\ machine = "workers" => W!ActionsInv

(* A delete has named each data volume that it takes, of those that sind   *)
(* ui knows (EachVolumeTold of Actions, which quotes DESIGN.md:924).       *)
EachVolumeTold == machine = "workers" => W!EachVolumeTold

(* The answer of a query mixes states of the cluster, but says nothing     *)
(* that none of them was (QueryInv of Queries).                            *)
QueryInv == machine = "queries" => Q!QueryInv

(* A page with nothing left to render shows what the store holds           *)
(* (PagesFresh of LivePages).                                              *)
PagesFresh == machine = "pages" => L!PagesFresh

(* What is made of a config agrees with itself, and a config that the      *)
(* checks accept is made (ConfigInv of ClusterConfig).                     *)
ConfigInv == machine = "config" => K!ConfigInv

(* Every page says the same of a node and a cluster, and no page offers a  *)
(* fix that its dialog then refuses (PagesInv of NodePages).               *)
PagesInv ==
    /\ machine = "views" => V!PagesInv
    /\ machine = "fixes" => F!PagesInv
(* What the pages say of a command is true of it and the same, and what    *)
(* they offer can be done (RunsInv of Runs).                               *)
RunsInv == machine = "runs" => U!RunsInv
===============================================================================

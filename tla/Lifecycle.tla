-------------------------------- MODULE Lifecycle --------------------------------
(***************************************************************************)
(* Creating and deleting clusters (pkg/cluster create.go, delete.go, with  *)
(* cmd/sind/create.go): EnsureMesh, the preflight check, the cluster's     *)
(* network and volumes, its node containers and their records in the mesh; *)
(* the rollback of a create that fails; Delete, and DeleteAll, which takes *)
(* the whole realm.                                                        *)
(*                                                                         *)
(* A command holds the realm lock (RealmLock), so it is alone; what makes  *)
(* its work hard is that any call may fail, and that a kill or a reboot    *)
(* may end it anywhere and leave the next one what it had made so far.     *)
(* Phases and tasks are those of Mesh: a node stands for the calls on its  *)
(* container, a cluster for those on its network and volumes.              *)
(*                                                                         *)
(* Left out: monitoring stack, external containers, users, accounts and    *)
(* Slurm's own state; their failures are those of the task "slurm".        *)
(***************************************************************************)
EXTENDS Mesh, FiniteSets

CONSTANTS
  Cluster,
  clusterOf    \* the cluster of each name

(* A cluster has nodes: the controller at least (config.go).               *)
ASSUME ClusterAssumption ==
  /\ clusterOf \in [Name -> Cluster]
  /\ \A c \in Cluster : \E n \in Name : clusterOf[n] = c

VARIABLES
  clusters,  \* each cluster's network, its volumes, and the relay's endpoint
  nodes,     \* the state of each node's container
  attached,  \* the containers with an endpoint on the mesh network
  target,    \* the clusters of the latest command
  job,       \* what that command knows: see JobState
  ready      \* history: clusters created without an error, and not deleted since

resources == <<clusters, nodes, attached>>
clusterVars == <<resources, target, job, ready>>
allVars == <<vars, clusterVars>>

JobState ==
  [ kind    : {"none", "create", "delete", "deleteAll"},
    made    : BOOLEAN,      \* resourcesCreated
    removes : BOOLEAN,      \* the mesh goes too: removeMesh, or no other cluster
    found   : SUBSET Name,  \* the containers it listed
    warned  : BOOLEAN,      \* a step failed that only warns
    untidy  : BOOLEAN,      \* the removal of the resources failed
    was     : SUBSET Name,  \* before it began: the names in the mesh's records
    had     : BOOLEAN,      \* whether the target had a resource
    since   : 0..MaxFaults ] \* and the faults so far

NodesOf(C) == {n \in Name : clusterOf[n] \in C}

Containers == {n \in Name : nodes[n] # "none"}

Registered == mesh.records \union mesh.hosts

Exists(c) ==
  \/ clusters[c].net
  \/ clusters[c].vols
  \/ NodesOf({c}) \intersect Containers # {}

NoJob ==
  [kind |-> "none", made |-> FALSE, removes |-> FALSE, found |-> {}, warned |-> FALSE,
   untidy |-> FALSE, was |-> {}, had |-> FALSE, since |-> 0]

InitClusters ==
  /\ Init
  /\ clusters = [c \in Cluster |-> [net |-> FALSE, vols |-> FALSE, joined |-> FALSE]]
  /\ nodes = [n \in Name |-> "none"]
  /\ attached = {}
  /\ target = {}
  /\ job = NoJob
  /\ ready = {}

-------------------------------------------------------------------------------
(* The tasks of the phases after EnsureMesh.                               *)

PrepTasks == {"preflight", "clusterNetwork", "joinRelay", "clusterVolumes", "resolveInfra"}

RegisterTasks == {"addRecords", "addHosts", "slurm"}

DropTasks == {"dropRecords", "dropHosts"}

WakeTasks == {"startDNS", "startRelay"}

ClusterNeeds ==
  [ preflight      |-> {},
    clusterNetwork |-> {"preflight"},
    joinRelay      |-> {"clusterNetwork"},
    clusterVolumes |-> {"preflight"},
    resolveInfra   |-> {},
    addRecords     |-> {},
    addHosts       |-> {},
    slurm          |-> {},
    dropRecords    |-> {},
    dropHosts      |-> {} ]

(* Names and clusters are tasks of their own.                              *)
ASSUME TaskAssumption ==
  /\ Name \intersect Cluster = {}
  /\ (Name \union Cluster) \intersect
       (EnsureTasks \union CleanTasks \union DOMAIN ClusterNeeds) = {}

(* A cluster's network and volumes go after its containers.                *)
Needs(t) ==
  IF t \in Cluster THEN NodesOf({t})
  ELSE IF t \in Name THEN {}
  ELSE IF t \in DOMAIN ClusterNeeds THEN ClusterNeeds[t] ELSE MeshNeeds[t]

OpenTask(t) == t \in todo /\ Needs(t) \intersect (todo \union failed) = {}

(* The daemon does what t asks for; otherwise it refuses.                  *)
CanDo(t) ==
  /\ t = "preflight" => \A c \in target : ~Exists(c)
  /\ t \in {"addRecords", "dropRecords"} => mesh.corefile
  /\ t \in {"resolveInfra", "addHosts", "dropHosts"} =>
       mesh.relay = "running" /\ mesh.vol = "keys"
  /\ t = "joinRelay" => mesh.relay # "none"

Refused ==
  /\ \E t \in todo :
       /\ OpenTask(t) /\ ~CanDo(t)
       /\ todo' = todo \ {t}
       /\ failed' = failed \union {t}
  /\ UNCHANGED <<mesh, faults, commandVars, clusterVars>>

TaskFails ==
  /\ \E t \in todo : OpenTask(t) /\ FailsTask(t, "fail")
  /\ UNCHANGED <<mesh, commandVars, clusterVars>>

(* Task t ends, or its call fails although the daemon did it.              *)
Finishes(t) ==
  /\ OpenTask(t)
  /\ CanDo(t)
  /\ Ends({t}) \/ FailsTask(t, "done")
  /\ UNCHANGED commandVars

-------------------------------------------------------------------------------
(* The steps of Mesh.                                                      *)

MeshStep ==
  /\ EnsureStep \/ RemoveDNS \/ RemoveVolume \/ EnsureFails
  /\ UNCHANGED clusterVars

RemoveMeshRelay ==
  /\ RemoveRelay
  /\ clusters' = [c \in Cluster |-> [clusters[c] EXCEPT !.joined = FALSE]]
  /\ UNCHANGED <<nodes, attached, target, job, ready>>

(* DisconnectAll, and then the network.                                    *)
RemoveMeshNetwork ==
  /\ RemoveNetwork
  /\ attached' = {}
  /\ UNCHANGED <<clusters, nodes, target, job, ready>>

(* The containers are off the network, and it is still there.              *)
DisconnectFails ==
  /\ Open("removeNetwork")
  /\ FailsTask("removeNetwork", "fail")
  /\ \E N \in SUBSET attached : attached' = N
  /\ UNCHANGED <<mesh, commandVars, clusters, nodes, target, job, ready>>

(* StartMesh creates nothing.                                              *)
NothingToStart ==
  /\ phase = "wake"
  /\ \/ mesh.dns = "none" /\ Skip("startDNS", {})
     \/ mesh.relay = "none" /\ Skip("startRelay", {})
  /\ UNCHANGED clusterVars

-------------------------------------------------------------------------------
(* Create.                                                                 *)

BeginCreate(c) ==
  /\ BeginEnsure
  /\ target' = {c}
  /\ job' = [NoJob EXCEPT !.kind = "create", !.was = Registered, !.had = Exists(c),
                          !.since = faults]
  /\ UNCHANGED <<resources, ready>>

Prepares ==
  /\ Done("ensure")
  /\ Enter("prep", PrepTasks)
  /\ UNCHANGED <<mesh, faults, created, attempt, before, outcome, commands, clusterVars>>

BugPreflight ==
  /\ OpenTask("preflight")
  /\ Ends({"preflight"})
  /\ job' = [job EXCEPT !.made = TRUE]
  /\ UNCHANGED <<mesh, commandVars, resources, target, ready>>

BugNotMade ==
  /\ OpenTask("preflight")
  /\ CanDo("preflight")
  /\ Ends({"preflight"})
  /\ UNCHANGED <<mesh, commandVars, clusterVars>>

Preflight ==
  /\ OpenTask("preflight")
  /\ CanDo("preflight")
  /\ Ends({"preflight"})
  /\ job' = [job EXCEPT !.made = TRUE]
  /\ UNCHANGED <<mesh, commandVars, resources, target, ready>>

SetsCluster(t, field, value) ==
  /\ Finishes(t)
  /\ \E c \in target : clusters' = [clusters EXCEPT ![c][field] = value]
  /\ UNCHANGED <<mesh, nodes, attached, target, job, ready>>

CreateClusterNetwork == SetsCluster("clusterNetwork", "net", TRUE)

JoinRelay == SetsCluster("joinRelay", "joined", TRUE)

CreateClusterVolumes == SetsCluster("clusterVolumes", "vols", TRUE)

(* What Create only reads: the DNS address, the SSH key, the versions.     *)
ResolveInfra ==
  /\ Finishes("resolveInfra")
  /\ UNCHANGED <<mesh, clusterVars>>

Prepared ==
  /\ Done("prep")
  /\ Enter("nodes", NodesOf(target))
  /\ UNCHANGED <<mesh, faults, created, attempt, before, outcome, commands, clusterVars>>

(* docker create, with an endpoint on the mesh network, and docker start.  *)
CreateNode(n) ==
  /\ phase = "nodes"
  /\ OpenTask(n)
  /\ nodes[n] = "none"
  /\ nodes' = [nodes EXCEPT ![n] = "created"]
  /\ attached' = attached \union {n}
  /\ Ends({}) \/ FailsTask(n, "done")
  /\ UNCHANGED <<mesh, commandVars, clusters, target, job, ready>>

(* The waits and the setup after the start are part of the task.           *)
StartNode(n) ==
  /\ phase = "nodes"
  /\ nodes[n] = "created"
  /\ nodes' = [nodes EXCEPT ![n] = "running"]
  /\ Finishes(n)
  /\ UNCHANGED <<mesh, clusters, attached, target, job, ready>>

NodesReady ==
  /\ Done("nodes")
  /\ Enter("register", RegisterTasks)
  /\ UNCHANGED <<mesh, faults, created, attempt, before, outcome, commands, clusterVars>>

SetsMesh(t, m) ==
  /\ Finishes(t)
  /\ mesh' = m
  /\ UNCHANGED clusterVars

AddDNSRecords ==
  SetsMesh("addRecords", [mesh EXCEPT !.records = @ \union NodesOf(target)])

AddKnownHosts ==
  SetsMesh("addHosts", [mesh EXCEPT !.hosts = @ \union NodesOf(target)])

EnableSlurm ==
  /\ Finishes("slurm")
  /\ UNCHANGED <<mesh, clusterVars>>

CreateEnds ==
  /\ Done("register")
  /\ Leave("ok")
  /\ ready' = ready \union target
  /\ UNCHANGED <<mesh, created, attempt, before, faults, commands, resources, target, job>>

-------------------------------------------------------------------------------
(* The rollback.  The calls beside the one that failed are cancelled.      *)

CreateFails ==
  /\ Stuck("prep") \/ Stuck("nodes") \/ Stuck("register")
  /\ IF job.made \/ created
       THEN Enter("rollback", {}) /\ UNCHANGED outcome
       ELSE Leave("error")
  /\ UNCHANGED <<mesh, created, attempt, before, faults, commands, clusterVars>>

(* A cluster other than those in C has containers.                         *)
HasOtherClusters(C) == Containers \ NodesOf(C) # {}

(* It is asked to leave the cluster that the preflight check found.        *)
RollbackRemovesMesh ==
  created /\ ~HasOtherClusters(IF job.made THEN target ELSE {})

(* Without resources of its own only the mesh is left to remove.           *)
RollbackBegins ==
  /\ phase = "rollback"
  /\ \/ /\ job' = [job EXCEPT !.removes = RollbackRemovesMesh]
        /\ UNCHANGED faults
     \/ /\ created  \* the listing fails: "keeping the mesh"
        /\ Strikes("fail")
        /\ job' = [job EXCEPT !.removes = FALSE, !.warned = TRUE]
  /\ CASE job.made                     -> Enter("list", {}) /\ UNCHANGED outcome
       [] ~job.made /\ job'.removes    -> Enter("undo", CleanTasks) /\ UNCHANGED outcome
       [] ~job.made /\ ~job'.removes   -> Leave("error")
  /\ UNCHANGED <<mesh, created, attempt, before, commands, resources, target, ready>>

-------------------------------------------------------------------------------
(* Delete and DeleteAll, and the removal they share with the rollback.     *)

BeginRemoval(kind, C, removes) ==
  /\ Begin("list", {})
  /\ target' = C
  /\ ready' = ready \ C
  /\ job' = [NoJob EXCEPT !.kind = kind, !.removes = removes,
                          !.was = Registered]
  /\ UNCHANGED <<created, attempt, before, resources>>

BeginDelete(c) == BeginRemoval("delete", {c}, ~HasOtherClusters({c}))

BeginDeleteAll == BeginRemoval("deleteAll", {c \in Cluster : Exists(c)}, TRUE)

(* Records in a mesh that stays go; DeleteAll skips that.                  *)
Deregisters == job.kind # "deleteAll" /\ ~job.removes

ListResources ==
  /\ phase = "list"
  /\ LET found == NodesOf(target) \intersect Containers
     IN  /\ job' = [job EXCEPT !.found = found]
         /\ IF Deregisters /\ found # {}
              THEN Enter("wake", WakeTasks)
              ELSE Enter("remove", found \union target)
  /\ UNCHANGED <<mesh, faults, created, attempt, before, outcome, commands, resources,
                 target, ready>>

(* What follows the removal of the target's resources.                     *)
AfterRemoval(ok) ==
  CASE job.kind = "create" /\ job.removes ->
         Enter("undo", CleanTasks) /\ UNCHANGED outcome
    [] job.kind = "create" /\ ~job.removes ->
         Leave(IF ok THEN "error" ELSE "untidy")
    [] job.kind # "create" /\ ok /\ job.removes ->
         Enter("clean", CleanTasks) /\ UNCHANGED outcome
    [] job.kind # "create" /\ ok /\ ~job.removes -> Leave("ok")
    [] job.kind = "delete" /\ ~ok -> Leave("incomplete")
    [] job.kind = "deleteAll" /\ ~ok ->
         Enter("wake", WakeTasks) /\ UNCHANGED outcome

(* DeleteAll goes on with the clusters that it could list.                 *)
ListFails ==
  /\ phase = "list"
  /\ Strikes("fail")
  /\ \/ /\ job.kind # "deleteAll"
        /\ AfterRemoval(FALSE)
        /\ job' = [job EXCEPT !.untidy = TRUE]
     \/ /\ job.kind = "deleteAll"  \* the names of the clusters
        /\ Leave("incomplete")
        /\ UNCHANGED job
     \/ /\ job.kind = "deleteAll"
        /\ \E c \in target :
             LET found == NodesOf(target \ {c}) \intersect Containers
             IN  /\ job' = [job EXCEPT !.found = found]
                 /\ phase' = "remove"
                 /\ todo' = found \union (target \ {c})
                 /\ failed' = {c}
        /\ UNCHANGED outcome
  /\ UNCHANGED <<mesh, created, attempt, before, commands, resources, target, ready>>

BugWakeOver ==
  /\ Done("wake")
  /\ Enter("drop", DropTasks)
  /\ UNCHANGED <<mesh, faults, created, attempt, before, outcome, commands, resources,
                 target, job, ready>>

(* Whatever StartMesh failed to start is tried without (a warning).        *)
WakeOver ==
  /\ Done("wake") \/ Stuck("wake")
  /\ Enter("drop", DropTasks)
  /\ job' = [job EXCEPT !.warned = @ \/ failed # {}]
  /\ UNCHANGED <<mesh, faults, created, attempt, before, outcome, commands, resources,
                 target, ready>>

(* The write starts a stopped DNS container, and with it the relay.        *)
Started(state) == IF state = "none" THEN "none" ELSE "running"

RemoveDNSRecords ==
  SetsMesh("dropRecords",
           [mesh EXCEPT !.records = @ \ job.found, !.dns = Started(@),
                        !.relay = IF mesh.dns = "running" THEN @ ELSE Started(@)])

RemoveKnownHosts == SetsMesh("dropHosts", [mesh EXCEPT !.hosts = @ \ job.found])

DropOver ==
  /\ phase = "drop"
  /\ todo = {}
  /\ IF job.kind = "deleteAll"
       THEN Leave("incomplete")
       ELSE Enter("remove", job.found \union target) /\ UNCHANGED outcome
  /\ job' = [job EXCEPT !.warned = @ \/ failed # {}]
  /\ UNCHANGED <<mesh, faults, created, attempt, before, commands, resources, target, ready>>

(* Then the command asks whether the cluster is monitored.                 *)
ClusterMonitoredFails ==
  /\ phase = "drop"
  /\ todo = {}
  /\ job.kind # "deleteAll"
  /\ Strikes("fail")
  /\ AfterRemoval(FALSE)
  /\ job' = [job EXCEPT !.untidy = TRUE]
  /\ UNCHANGED <<mesh, created, attempt, before, commands, resources, target, ready>>

RemoveContainer(n) ==
  /\ phase = "remove"
  /\ Finishes(n)
  /\ nodes' = [nodes EXCEPT ![n] = "none"]
  /\ attached' = attached \ {n}
  /\ UNCHANGED <<mesh, clusters, target, job, ready>>

BugDeleteNetwork(c) ==
  /\ OpenTask(c)
  /\ clusters' = [clusters EXCEPT ![c].net = FALSE, ![c].joined = FALSE]
  /\ Ends({c})
  /\ UNCHANGED <<mesh, commandVars, nodes, attached, target, job, ready>>

(* DisconnectAll and the removal, which fails after the former at times.   *)
DeleteNetwork(c) ==
  /\ OpenTask(c)
  /\ clusters[c].net
  /\ \/ /\ clusters' = [clusters EXCEPT ![c].net = FALSE, ![c].joined = FALSE]
        /\ Ends({}) \/ FailsTask(c, "done")
     \/ /\ clusters' = [clusters EXCEPT ![c].joined = FALSE]
        /\ FailsTask(c, "fail")
  /\ UNCHANGED <<mesh, commandVars, nodes, attached, target, job, ready>>

DeleteVolumes(c) ==
  /\ ~clusters[c].net
  /\ Finishes(c)
  /\ clusters' = [clusters EXCEPT ![c].vols = FALSE]
  /\ UNCHANGED <<mesh, nodes, attached, target, job, ready>>

(* Every removal is tried, whichever fail; those of DeleteAll go on too.   *)
RemovalOver ==
  /\ phase = "remove"
  /\ ~\E t \in todo : OpenTask(t)
  /\ AfterRemoval(failed = {})
  /\ job' = [job EXCEPT !.untidy = @ \/ failed # {},
                        !.found = IF job.kind = "deleteAll" /\ failed # {}
                                    THEN @ \ NodesOf(todo \union failed)
                                    ELSE @]
  /\ UNCHANGED <<mesh, faults, created, attempt, before, commands, resources, target, ready>>

CleanupOver ==
  /\ \/ Done("clean") /\ Leave("ok")
     \/ Stuck("clean") /\ Leave("incomplete")
     \/ Done("undo") /\ ~job.untidy /\ Leave("error")
     \/ (Stuck("undo") \/ (Done("undo") /\ job.untidy)) /\ Leave("untidy")
  /\ UNCHANGED <<mesh, created, attempt, before, faults, commands, clusterVars>>

-------------------------------------------------------------------------------
KillCommand == Kill /\ UNCHANGED clusterVars

RebootHost ==
  /\ Reboot
  /\ nodes' = [n \in Name |-> Rebooted(nodes[n])]
  /\ UNCHANGED <<clusters, attached, target, job, ready>>

CreateStep ==
  \/ Prepares \/ Preflight \/ CreateClusterNetwork \/ JoinRelay \/ CreateClusterVolumes
  \/ ResolveInfra \/ Prepared \/ \E n \in Name : CreateNode(n) \/ StartNode(n)
  \/ NodesReady \/ AddDNSRecords \/ AddKnownHosts \/ EnableSlurm \/ CreateEnds

RemovalStep ==
  \/ CreateFails \/ RollbackBegins \/ ListResources \/ NothingToStart \/ WakeOver
  \/ RemoveDNSRecords \/ RemoveKnownHosts \/ DropOver
  \/ \E n \in Name : RemoveContainer(n)
  \/ \E c \in Cluster : DeleteNetwork(c) \/ DeleteVolumes(c)
  \/ RemovalOver \/ CleanupOver

CommandStep ==
  MeshStep \/ RemoveMeshRelay \/ RemoveMeshNetwork \/ CreateStep \/ RemovalStep \/ Refused

Mishap == 
  \/ TaskFails \/ DisconnectFails \/ ListFails \/ ClusterMonitoredFails
  \/ KillCommand \/ RebootHost

NextCluster ==
  \/ CommandStep \/ Mishap \/ BeginDeleteAll
  \/ \E c \in Cluster : BeginCreate(c) \/ BeginDelete(c)

SpecClusters == InitClusters /\ [][NextCluster]_allVars

FairSpecClusters == SpecClusters /\ WF_allVars(CommandStep)

-------------------------------------------------------------------------------
Phases == {"idle", "ensure", "undo", "clean", "prep", "nodes", "register", "rollback",
           "list", "wake", "drop", "remove"}

PhaseTasks ==
  CASE phase = "ensure" -> EnsureTasks
    [] phase = "prep" -> PrepTasks
    [] phase = "nodes" -> NodesOf(target)
    [] phase = "register" -> RegisterTasks
    [] phase = "wake" -> WakeTasks
    [] phase = "drop" -> DropTasks
    [] phase = "remove" -> NodesOf(target) \union target
    [] phase \in {"undo", "clean"} -> CleanTasks
    [] phase \in {"idle", "rollback", "list"} -> {}

TasksOfPhase == todo \union failed \subseteq PhaseTasks /\ todo \intersect failed = {}

(* The state of the clusters and of the command on them.  A container      *)
(* always has its endpoint or had the mesh removed under it.               *)
ClusterTypeOK ==
  /\ MeshTypeOK
  /\ mesh.net # "theirs"
  /\ clusters \in [Cluster -> [net : BOOLEAN, vols : BOOLEAN, joined : BOOLEAN]]
  /\ nodes \in [Name -> ContainerState]
  /\ attached \subseteq Containers
  /\ target \subseteq Cluster
  /\ job \in JobState
  /\ ready \subseteq Cluster
  /\ phase \in Phases
  /\ TasksOfPhase
  /\ \A c \in Cluster : clusters[c].joined => clusters[c].net /\ mesh.relay # "none"
  /\ attached # {} => mesh.net # "none"

(* What the command knows fits its phase.                                  *)
JobFits ==
  /\ phase # "idle" => job.kind # "none"
  /\ job.kind \in {"create", "delete"} => \E c \in Cluster : target = {c}
  /\ phase \in {"ensure", "prep", "nodes", "register", "rollback", "undo"} => job.kind = "create"
  /\ phase = "clean" => job.kind # "create" /\ job.removes
  /\ phase = "ensure" => ~job.made /\ ~job.removes
  /\ phase = "prep" => /\ Ended("preflight") => job.made
                       /\ "preflight" \in todo => ~job.made
  /\ job.kind = "create" /\ phase \in {"nodes", "register", "list", "wake", "drop", "remove"} =>
       job.made
  /\ job.kind = "create" /\ (phase = "undo" \/ job.removes) => created
  /\ job.kind = "deleteAll" => job.removes
  /\ job.found \subseteq NodesOf(target)
  /\ job.since <= faults

(* No command removes what a cluster needs that create gave to its user:    *)
(* the target of a removal is none of them, and the mesh goes only when    *)
(* there is none.                                                          *)
ReadySpared ==
  phase # "idle" =>
    /\ job.kind # "create" \/ job.made => target \intersect ready = {}
    /\ job.kind = "create" /\ created => ready = {}
    /\ job.kind # "create" /\ job.removes => ready = {}

(* What a create has made of its cluster, until its rollback.              *)
CreateDone ==
  /\ phase = "ensure" /\ created => attached = {}
  /\ phase \in {"prep", "nodes", "register"} =>
       /\ mesh.net # "none"
       /\ job.made => NodesOf(target) \intersect Containers \subseteq attached
  /\ phase = "prep" => \A c \in target :
       /\ Ended("clusterNetwork") => clusters[c].net
       /\ Ended("joinRelay") => clusters[c].joined
       /\ Ended("clusterVolumes") => clusters[c].vols
  /\ phase \in {"nodes", "register"} =>
       \A c \in target : clusters[c].net /\ clusters[c].vols /\ clusters[c].joined
  /\ phase = "nodes" => \A n \in NodesOf(target) : Ended(n) => nodes[n] # "none"
  /\ phase = "register" =>
       /\ NodesOf(target) \subseteq Containers
       /\ Ended("addRecords") => NodesOf(target) \subseteq mesh.records
       /\ Ended("addHosts") => NodesOf(target) \subseteq mesh.hosts

(* What there is of the clusters of a removal, and of those of a create     *)
(* that found none and has made nothing yet.                               *)
RemovalDone ==
  /\ phase # "idle" /\ job.kind = "create" /\ ~job.made /\ ~job.had =>
       \A c \in target : ~Exists(c)
  /\ phase \in {"wake", "drop"} /\ job.kind # "deleteAll" =>
       NodesOf(target) \intersect Containers \subseteq job.found
  /\ phase = "remove" =>
       /\ \A c \in target : Ended(c) => ~clusters[c].net /\ ~clusters[c].vols
       /\ \A n \in NodesOf(target) \intersect Containers :
            ~Ended(n) \/ clusterOf[n] \in failed
  /\ phase = "clean" \/ (phase = "undo" /\ ~job.untidy /\ ~job.had) =>
       \A c \in target : ~Exists(c)
  /\ job.kind = "deleteAll" => \A c \in Cluster \ target : ~Exists(c)
  /\ job.kind = "delete" /\ ~job.removes => HasOtherClusters(target)

(* The names that a create adds to the mesh's records are those of its      *)
(* nodes, and its rollback takes them out or the mesh goes.                *)
NamesKept ==
  job.kind = "create" =>
    /\ phase \in {"ensure", "prep", "nodes"} => Registered \subseteq job.was
    /\ phase = "register" => Registered \subseteq job.was \union NodesOf(target)
    /\ phase \in {"rollback", "list"} =>
         \/ Registered \subseteq job.was
         \/ /\ job.made /\ NodesOf(target) \subseteq Containers
            /\ Registered \subseteq job.was \union NodesOf(target)
    /\ phase \in {"wake", "drop"} => ~job.removes /\ Registered \subseteq job.was \union job.found
    /\ phase = "drop" =>
         /\ Ended("dropRecords") => mesh.records \subseteq job.was
         /\ Ended("dropHosts") => mesh.hosts \subseteq job.was
    /\ phase = "remove" => job.warned \/ job.removes \/ Registered \subseteq job.was

(* A create that finds a whole mesh and nothing of its cluster, and meets   *)
(* no fault, has no task that fails.                                       *)
NothingFails ==
  job.kind = "create" /\ faults = job.since /\ before.whole /\ ~job.had /\ phase # "idle" =>
    /\ phase \in {"ensure", "prep", "nodes", "register"}
    /\ failed = {}
    /\ phase # "ensure" => mesh.corefile /\ mesh.relay = "running" /\ mesh.vol = "keys"

CommandInv ==
  /\ RunsOrEnded /\ EnsureInv /\ EnsureUndoable /\ CleanInv
  /\ JobFits /\ ReadySpared /\ CreateDone /\ RemovalDone /\ NamesKept /\ NothingFails

(* A cluster whose create ended without an error keeps all that the create *)
(* made until a delete of it begins: its containers on the mesh, network   *)
(* with the relay on it, volumes, records and host keys, and the mesh that *)
(* holds them; whatever other commands do, fail at or leave half done.     *)
ReadyIntact ==
  \A c \in ready :
    /\ clusters[c].net /\ clusters[c].vols /\ clusters[c].joined
    /\ NodesOf({c}) \subseteq attached \intersect mesh.records \intersect mesh.hosts
    /\ mesh.net # "none" /\ mesh.corefile /\ mesh.vol = "keys"

(* A command leaves the mesh and the clusters in a state it knows, which    *)
(* fits what its phase has done (CommandInv), and a cluster that create    *)
(* gave to its user stays whole (ReadyIntact).                             *)
ClusterInv == ClusterTypeOK /\ CommandInv /\ ReadyIntact

(* The delete that ended without an error left nothing of its clusters,    *)
(* whatever half-made state it found, and nothing of the mesh without a    *)
(* container; DeleteAll left nothing at all.                               *)
DeleteEmpties ==
  outcome = "ok" /\ job.kind \in {"delete", "deleteAll"} =>
    /\ \A c \in IF job.kind = "delete" THEN target ELSE Cluster : ~Exists(c)
    /\ Containers = {} => Present = {}

(* A failed create without a warning leaves nothing that was not there:    *)
(* nothing of its cluster, unless that existed, and no new names.          *)
FailedCreateUndone ==
  outcome = "error" /\ job.kind = "create" =>
    /\ ~job.had => \A c \in target : ~Exists(c)
    /\ ~job.warned => Registered \subseteq job.was

(* A create that meets no fault itself, and nothing of its cluster, does   *)
(* its work, whatever earlier commands and reboots left of the mesh, unless *)
(* that has a part that was never written into (Whole).                    *)
NextCreateWorks ==
  job.kind = "create" /\ faults = job.since /\ before.whole /\ ~job.had =>
    outcome \notin {"error", "untidy"}

(* "Node deleted: Removes entry from known_hosts" (DESIGN.md): a cluster   *)
(* that sind deleted without a warning is not in the mesh's records.       *)
DeleteForgets ==
  outcome = "ok" /\ job.kind = "delete" /\ ~job.warned =>
    NodesOf(target) \intersect Registered = {}

(* Every command comes to an end, with its rollback.                       *)
ClusterCommandsEnd == (phase # "idle") ~> (phase = "idle")
===============================================================================

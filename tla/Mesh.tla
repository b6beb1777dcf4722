---------------------------------- MODULE Mesh ----------------------------------
(***************************************************************************)
(* A realm's mesh (pkg/mesh): the mesh network, the DNS container with the *)
(* node records in its Corefile, the SSH volume with the realm's keys and  *)
(* known_hosts, and the SSH relay; EnsureMesh, which makes what lacks and  *)
(* starts what stopped, and CleanupMesh, which removes all of it.          *)
(*                                                                         *)
(* One sind command at a time works on the mesh (RealmLock).  A command is *)
(* a sequence of phases, and a phase a set of tasks, one per docker call   *)
(* that changes something, in the order their needs give; the reads that   *)
(* decide about a call belong to the call's task.  A failed task stops     *)
(* those that need it, while a task beside it may still finish.            *)
(*                                                                         *)
(* Left out: the pulls, host DNS, the keygen container of earlier versions *)
(* and the addresses (that one is pinned is a value of net).  Lifecycle    *)
(* adds the clusters and the records.                                      *)
(***************************************************************************)
EXTENDS Naturals

CONSTANTS
  Name,        \* host names of the realm's nodes
  Faults,      \* what may go wrong, a subset of AllFaults
  Attempts,    \* meshSubnetAttempts
  MaxFaults,   \* bound: failed calls, kills and reboots in a behaviour
  MaxCommands  \* bound: commands in a behaviour

AllFaults ==
  { "fail",    \* a docker call fails, or is cancelled, and did nothing
    "done",    \* a docker call fails, or is cancelled, but the daemon did it
    "kill",    \* the command is killed
    "reboot",  \* the host reboots, which stops every container
    "rival" }  \* a client without the daemon lock makes the mesh network

ASSUME MeshFaultAssumption == Faults \subseteq AllFaults

ASSUME MeshBoundAssumption == {Attempts, MaxFaults, MaxCommands} \subseteq Nat

VARIABLES
  mesh,      \* the realm's shared resources: see MeshState
  phase,     \* what the command does, "idle" without one
  todo,      \* the phase's tasks that have not ended
  failed,    \* those that failed
  created,   \* Manager.created
  attempt,   \* the attempt of createMeshNetwork
  before,    \* the parts EnsureMesh found, and whether they were whole
  outcome,   \* how the latest command ended
  faults,
  commands

commandVars == <<phase, created, attempt, before, outcome, commands>>
vars == <<mesh, todo, failed, faults, commandVars>>

ContainerState == {"none", "created", "running", "stopped"}

MeshState ==
  [ net      : {"none", "plain", "pinned", "theirs"},
    dns      : ContainerState,
    corefile : BOOLEAN,                   \* the DNS container has one
    records  : SUBSET Name,               \* the names in it
    vol      : {"none", "empty", "keys"}, \* the SSH volume
    hosts    : SUBSET Name,               \* the names in its known_hosts
    relay    : ContainerState ]

Part == {"net", "dns", "vol", "relay"}

(* "error" and "untidy" are a create's, without and with something left    *)
(* that it names; "incomplete" is a delete's.                              *)
Outcome == {"none", "ok", "error", "untidy", "incomplete", "killed"}

Init ==
  /\ mesh = [net |-> "none", dns |-> "none", corefile |-> FALSE, records |-> {},
             vol |-> "none", hosts |-> {}, relay |-> "none"]
  /\ phase = "idle"
  /\ todo = {}
  /\ failed = {}
  /\ created = FALSE
  /\ attempt = 1
  /\ before = [parts |-> {}, whole |-> TRUE]
  /\ outcome = "none"
  /\ faults = 0
  /\ commands = 0

-------------------------------------------------------------------------------
(* Tasks and phases.                                                       *)

EnsureTasks ==
  {"createNetwork", "removePlain", "pinNetwork", "createDNS", "writeCorefile",
   "startDNS", "createVolume", "createRelay", "writeKeys", "startRelay"}

CleanTasks == {"removeRelay", "removeDNS", "removeNetwork", "removeVolume"}

MeshNeeds ==
  [ createNetwork |-> {},
    removePlain   |-> {"createNetwork"},
    pinNetwork    |-> {"removePlain"},
    createDNS     |-> {"pinNetwork"},
    writeCorefile |-> {"createDNS"},
    startDNS      |-> {"writeCorefile"},
    createVolume  |-> {"pinNetwork"},
    createRelay   |-> {"startDNS", "createVolume"},
    writeKeys     |-> {"createRelay"},
    startRelay    |-> {"createRelay", "writeKeys", "startDNS"},
    removeRelay   |-> {},
    removeDNS     |-> {},
    removeNetwork |-> {"removeRelay", "removeDNS"},
    removeVolume  |-> {"removeNetwork"} ]

(* None of the tasks that t waits for is to do or has failed.              *)
Open(t) == t \in todo /\ MeshNeeds[t] \intersect (todo \union failed) = {}

Enter(p, tasks) ==
  /\ phase' = p
  /\ todo' = tasks
  /\ failed' = {}

Leave(result) ==
  /\ Enter("idle", {})
  /\ outcome' = result

Ends(T) ==
  /\ todo' = todo \ T
  /\ UNCHANGED <<failed, faults>>

Strikes(fault) ==
  /\ fault \in Faults
  /\ faults < MaxFaults
  /\ faults' = faults + 1

FailsTask(t, fault) ==
  /\ Strikes(fault)
  /\ todo' = todo \ {t}
  /\ failed' = failed \union {t}

(* Task t finds that it, and those in T, have nothing to do.               *)
Skip(t, T) ==
  /\ Open(t)
  /\ Ends({t} \union T)
  /\ UNCHANGED <<mesh, commandVars>>

(* Task t brings the mesh to m, and its call may fail all the same.        *)
Does(t, m) ==
  /\ Open(t)
  /\ mesh' = m
  /\ Ends({t}) \/ FailsTask(t, "done")
  /\ UNCHANGED commandVars

-------------------------------------------------------------------------------
(* EnsureMesh: the mesh network (ensureMeshNetwork).                       *)

(* It exists, or another client's create came first (IsAlreadyExists).     *)
NetworkExists ==
  /\ mesh.net # "none"
  /\ Skip("createNetwork", {"removePlain", "pinNetwork"})

(* Task t makes the network net or none, and a call without an error       *)
(* leaves created so.                                                      *)
SetsNetwork(t, net, value) ==
  /\ Open(t)
  /\ mesh' = [mesh EXCEPT !.net = net]
  /\ \/ Ends({t}) /\ created' = value
     \/ FailsTask(t, "done") /\ UNCHANGED created
  /\ UNCHANGED <<phase, attempt, before, outcome, commands>>

CreateNetwork ==
  /\ mesh.net = "none"
  /\ SetsNetwork("createNetwork", "plain", TRUE)

(* No attempt is left, or the subnet is too small for pinnedLayout.        *)
KeepNetwork == Skip("removePlain", {"pinNetwork"})

RemovePlain ==
  /\ attempt <= Attempts
  /\ SetsNetwork("removePlain", "none", FALSE)

BugPinNetwork ==
  /\ mesh.net = "none"
  /\ SetsNetwork("pinNetwork", "pinned", created)

PinNetwork ==
  /\ mesh.net = "none"
  /\ SetsNetwork("pinNetwork", "pinned", TRUE)

(* Another client made the network in between (IsAlreadyExists).           *)
PinnedByOther ==
  /\ mesh.net # "none"
  /\ Skip("pinNetwork", {})

(* Another network has the subnet by now: the next attempt.                *)
SubnetTaken ==
  /\ Open("pinNetwork")
  /\ todo' = todo \union {"createNetwork", "removePlain"}
  /\ attempt' = attempt + 1
  /\ UNCHANGED <<mesh, phase, failed, faults, created, before, outcome, commands>>

-------------------------------------------------------------------------------
(* EnsureMesh: the DNS container (ensureDNS) beside the SSH volume         *)
(* (ensureSSHVolume), and then the relay (ensureSSH).                      *)

DNSExists ==
  /\ mesh.dns # "none"
  /\ Skip("createDNS", {"writeCorefile"})

CreateDNS ==
  /\ mesh.dns = "none"
  /\ Does("createDNS", [mesh EXCEPT !.dns = "created"])

WriteCorefile ==
  Does("writeCorefile", [mesh EXCEPT !.corefile = TRUE, !.records = {}])

DNSRuns ==
  /\ mesh.dns = "running"
  /\ Skip("startDNS", {})

StartDNS ==
  /\ mesh.dns \in {"created", "stopped"}
  /\ Does("startDNS", [mesh EXCEPT !.dns = "running"])

(* The inspect after the start fails.                                      *)
StartedDNSUnseen ==
  /\ Open("startDNS")
  /\ mesh.dns \in {"created", "stopped"}
  /\ mesh' = [mesh EXCEPT !.dns = "running"]
  /\ FailsTask("startDNS", "fail")
  /\ UNCHANGED commandVars

(* The relay then gets no keys: only a new volume's does (writeKeys).      *)
VolumeExists ==
  /\ mesh.vol # "none"
  /\ Skip("createVolume", {"writeKeys"})

CreateVolume ==
  /\ mesh.vol = "none"
  /\ Does("createVolume", [mesh EXCEPT !.vol = "empty"])

BugRelayExists ==
  /\ mesh.relay # "none"
  /\ Skip("createRelay", {"startRelay"})

RelayExists ==
  /\ mesh.relay # "none"
  /\ Skip("createRelay", {})

CreateRelay ==
  /\ mesh.relay = "none"
  /\ Does("createRelay", [mesh EXCEPT !.relay = "created"])

(* A new keypair and an empty known_hosts, through the relay.              *)
WriteKeys == Does("writeKeys", [mesh EXCEPT !.vol = "keys", !.hosts = {}])

RelayRuns ==
  /\ mesh.relay = "running"
  /\ Skip("startRelay", {})

StartRelay ==
  /\ mesh.relay \in {"created", "stopped"}
  /\ Does("startRelay", [mesh EXCEPT !.relay = "running"])

-------------------------------------------------------------------------------
(* CleanupMesh: the containers, the network and the volume.  What is gone  *)
(* already is no failure.                                                  *)

RemoveRelay == Does("removeRelay", [mesh EXCEPT !.relay = "none"])

RemoveDNS ==
  Does("removeDNS", [mesh EXCEPT !.dns = "none", !.corefile = FALSE, !.records = {}])

RemoveNetwork == Does("removeNetwork", [mesh EXCEPT !.net = "none"])

RemoveVolume == Does("removeVolume", [mesh EXCEPT !.vol = "none", !.hosts = {}])

-------------------------------------------------------------------------------
(* The commands: a create's EnsureMesh and a last delete's CleanupMesh.    *)
(* Once a call of a group has failed the others are cancelled: what they   *)
(* did before that stays.                                                  *)

CallFails ==
  /\ \E t \in EnsureTasks \union CleanTasks : Open(t) /\ FailsTask(t, "fail")
  /\ UNCHANGED <<mesh, commandVars>>

Present == {p \in Part : mesh[p] # "none"}

(* The parts that are written into when they are made have that.           *)
Whole ==
  /\ mesh.dns # "none" => mesh.corefile
  /\ mesh.vol # "none" => mesh.vol = "keys"

Begin(p, tasks) ==
  /\ phase = "idle"
  /\ commands < MaxCommands
  /\ commands' = commands + 1
  /\ outcome' = "none"
  /\ Enter(p, tasks)
  /\ UNCHANGED <<mesh, faults>>

BeginEnsure ==
  /\ Begin("ensure", EnsureTasks)
  /\ created' = FALSE
  /\ attempt' = 1
  /\ before' = [parts |-> Present, whole |-> Whole]

BeginClean ==
  /\ Begin("clean", CleanTasks)
  /\ UNCHANGED <<created, attempt, before>>

Done(p) == phase = p /\ todo = {} /\ failed = {}

Stuck(p) == phase = p /\ failed # {}

EnsureEnds ==
  /\ Done("ensure")
  /\ Leave("ok")
  /\ UNCHANGED <<mesh, created, attempt, before, faults, commands>>

(* create.go removes the mesh when this invocation created its network.    *)
EnsureFails ==
  /\ Stuck("ensure")
  /\ \/ created /\ Enter("undo", CleanTasks) /\ UNCHANGED outcome
     \/ ~created /\ Leave("error")
  /\ UNCHANGED <<mesh, created, attempt, before, faults, commands>>

CleanupEnds ==
  /\ \/ Done("undo") /\ Leave("error")
     \/ Stuck("undo") /\ Leave("untidy")
     \/ Done("clean") /\ Leave("ok")
     \/ Stuck("clean") /\ Leave("incomplete")
  /\ UNCHANGED <<mesh, created, attempt, before, faults, commands>>

-------------------------------------------------------------------------------
(* What happens beside the command.                                        *)

Kill ==
  /\ phase # "idle"
  /\ Strikes("kill")
  /\ Leave("killed")
  /\ UNCHANGED <<mesh, created, attempt, before, commands>>

Rebooted(state) == IF state = "running" THEN "stopped" ELSE state

(* A reboot also ends the command.                                         *)
Reboot ==
  /\ Strikes("reboot")
  /\ mesh' = [mesh EXCEPT !.dns = Rebooted(mesh.dns), !.relay = Rebooted(mesh.relay)]
  /\ IF phase = "idle"
       THEN UNCHANGED <<phase, todo, failed, outcome>>
       ELSE Leave("killed")
  /\ UNCHANGED <<created, attempt, before, commands>>

Rival ==
  /\ mesh.net = "none"
  /\ Strikes("rival")
  /\ mesh' = [mesh EXCEPT !.net = "theirs"]
  /\ UNCHANGED <<todo, failed, commandVars>>

-------------------------------------------------------------------------------
EnsureStep ==
  \/ NetworkExists \/ CreateNetwork \/ KeepNetwork \/ RemovePlain
  \/ PinNetwork \/ PinnedByOther \/ SubnetTaken
  \/ DNSExists \/ CreateDNS \/ WriteCorefile
  \/ DNSRuns \/ StartDNS \/ StartedDNSUnseen
  \/ VolumeExists \/ CreateVolume
  \/ RelayExists \/ CreateRelay \/ WriteKeys \/ RelayRuns \/ StartRelay

CleanStep == RemoveRelay \/ RemoveDNS \/ RemoveNetwork \/ RemoveVolume

Next ==
  \/ BeginEnsure \/ EnsureStep \/ EnsureEnds \/ EnsureFails
  \/ BeginClean \/ CleanStep \/ CleanupEnds
  \/ CallFails \/ Kill \/ Reboot \/ Rival

Spec == Init /\ [][Next]_vars

-------------------------------------------------------------------------------
(* The parts of the type invariant that a command on clusters shares.  No   *)
(* record outlives the Corefile, no file its container or volume.          *)
MeshTypeOK ==
  /\ mesh \in MeshState
  /\ mesh.corefile => mesh.dns # "none"
  /\ ~mesh.corefile => mesh.records = {}
  /\ mesh.vol # "keys" => mesh.hosts = {}
  /\ created \in BOOLEAN
  /\ attempt \in 1..Attempts + 1
  /\ before \in [parts : SUBSET Part, whole : BOOLEAN]
  /\ outcome \in Outcome
  /\ faults \in 0..MaxFaults
  /\ commands \in 0..MaxCommands

(* The state of the mesh and of the command that works on it, with tasks    *)
(* of its phase; a command that ended has no task left.                    *)
TypeOK ==
  /\ MeshTypeOK
  /\ phase \in {"idle", "ensure", "undo", "clean"}
  /\ todo \union failed \subseteq CASE phase = "ensure" -> EnsureTasks
                                   [] phase = "idle" -> {}
                                   [] OTHER -> CleanTasks

(* Between commands there is no result yet but that of the latest one.     *)
RunsOrEnded == phase # "idle" => outcome = "none"

(* Task t ended without a failure.                                         *)
Ended(t) == t \notin todo \union failed

(* The tasks that one waited for have ended once it ended or failed; the    *)
(* keys are passed over with the volume.                                   *)
EnsureOrder ==
  /\ todo \intersect failed = {}
  /\ \A t \in EnsureTasks \ {"writeKeys"} :
       t \notin todo => \A s \in MeshNeeds[t] : Ended(s)
  /\ "writeKeys" \notin todo => Ended("createVolume")

(* What EnsureMesh has seen to: only a network of its own is replaced, and  *)
(* a part is there, and runs, once its tasks have ended.                    *)
EnsureDone ==
  /\ Ended("createNetwork") /\ "removePlain" \in todo => mesh.net # "none" /\ created
  /\ Ended("removePlain") /\ "pinNetwork" \in todo => attempt <= Attempts
  /\ Ended("pinNetwork") => mesh.net # "none"
  /\ Ended("createDNS") => mesh.dns # "none"
  /\ Ended("createDNS") /\ "writeCorefile" \in todo => ~mesh.corefile
  /\ Ended("startDNS") => mesh.dns = "running"
  /\ Ended("createVolume") => mesh.vol # "none"
  /\ Ended("createVolume") /\ "writeKeys" \in todo => mesh.vol = "empty"
  /\ Ended("createRelay") => mesh.relay # "none"
  /\ Ended("startRelay") => mesh.relay = "running"

(* A mesh whose parts were whole when EnsureMesh began is whole where it    *)
(* has not yet begun a part, and where it is done with it.                  *)
EnsureWhole ==
  before.whole =>
    /\ "createDNS" \in todo \/ Ended("writeCorefile") => (mesh.dns # "none" => mesh.corefile)
    /\ "createVolume" \in todo \/ Ended("writeKeys") => mesh.vol \in {"none", "keys"}

EnsureInv == phase = "ensure" => EnsureOrder /\ EnsureDone /\ EnsureWhole

(* What CleanupMesh has seen to; another client may make the network anew.  *)
CleanInv ==
  phase \in {"undo", "clean"} =>
    /\ Ended("removeRelay") => mesh.relay = "none"
    /\ Ended("removeDNS") => mesh.dns = "none" /\ ~mesh.corefile /\ mesh.records = {}
    /\ Ended("removeNetwork") => mesh.net \in {"none", "theirs"}
    /\ Ended("removeVolume") => mesh.vol = "none" /\ mesh.hosts = {}

(* EnsureMesh that returns no error leaves a mesh that works, whatever     *)
(* earlier commands and reboots left behind: DNS and relay run, with what  *)
(* they serve.  Only a part that was made but never written into is not    *)
(* repaired: the DNS container starts without a Corefile, and the relay    *)
(* without keys (RelayKeyed).                                              *)
EnsureGivesMesh ==
  Done("ensure") /\ before.whole =>
    /\ mesh.net # "none"
    /\ mesh.dns = "running" /\ mesh.corefile
    /\ mesh.relay = "running" /\ mesh.vol = "keys"

(* Without a mesh network before it, EnsureMesh has made no other part      *)
(* until it has one, and one that it did not make is another client's.      *)
EnsureUndoable ==
  phase = "ensure" /\ "net" \notin before.parts =>
    /\ "createNetwork" \in todo => mesh.net \in {"none", "theirs"}
    /\ Ended("removePlain") /\ "pinNetwork" \in todo => mesh.net \in {"none", "theirs"}
    /\ ~Ended("pinNetwork") => Present \subseteq before.parts \union {"net"}
    /\ Ended("pinNetwork") => created \/ mesh.net = "theirs"

(* The mesh is in a state its commands know, fits what the phase has done  *)
(* of it (EnsureInv, CleanInv), and is whole once EnsureMesh has returned  *)
(* no error (EnsureGivesMesh).                                             *)
MeshInv ==
  TypeOK /\ RunsOrEnded /\ EnsureInv /\ EnsureUndoable /\ CleanInv /\ EnsureGivesMesh

(* A create whose EnsureMesh failed leaves no container and no volume that *)
(* was not there before, unless it says so ("untidy") or another client    *)
(* made the network.  At most a bare network stays: one that the daemon    *)
(* made although docker failed, which created does not tell of.            *)
MeshUndone ==
  outcome = "error" /\ "net" \notin before.parts /\ mesh.net # "theirs" =>
    Present \subseteq before.parts \union {"net"}

(* "A new relay gets them before it starts" (ensureSSH, of the keys).      *)
RelayKeyed == mesh.relay = "running" => mesh.vol = "keys"
===============================================================================

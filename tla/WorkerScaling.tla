------------------------------ MODULE WorkerScaling ------------------------------
(***************************************************************************)
(* Adding workers to a cluster and removing them (pkg/cluster worker.go,   *)
(* worker_remove.go): the containers, their names in the mesh, and their   *)
(* lines in sind-nodes.conf, which slurmctld reads when it starts and when *)
(* scontrol reconfigure tells it to.                                       *)
(*                                                                         *)
(* The command holds the realm lock (RealmLock), which power shutdown,     *)
(* cut, freeze and unfreeze do not take: a controller may stop under it at *)
(* any step, and start again.  Commands are phases and phases sets of      *)
(* tasks, as in Mesh.  A task is a docker call that changes something,     *)
(* with the reads before it; that of a node to set up is two.              *)
(*                                                                         *)
(* Left out: the checks before the first change (options, images, bridge   *)
(* ports, labels, nsdelegate), the monitoring stack, and what a line of    *)
(* the file says beside the name.  A frozen controller is a stopped one.   *)
(* The DNS records and the host keys, one by one in Lifecycle, are one.    *)
(***************************************************************************)
EXTENDS Naturals, FiniteSetsExt

CONSTANTS
  Worker,      \* the names a worker may have, a finite set,
  index,       \* and the N of each name worker-N
  MaxCount,    \* bound: workers in one command
  Faults,      \* what may go wrong, a subset of AllFaults
  MaxFaults,   \* bound: failed calls, kills and power commands in a behaviour
  MaxCommands  \* bound: commands in a behaviour

AllFaults ==
  { "fail",   \* a docker call fails, or is cancelled, and did nothing
    "done",   \* a docker call fails, or is cancelled, but was done
    "kill",   \* the command is killed
    "power" } \* a power command stops or starts a controller

Controller == {"primary", "backup"}

VARIABLES
  site,     \* whose Slurm configuration the cluster has: see Site
  ctl,      \* the state of each controller's container
  nodes,    \* the state of each worker's container
  managed,  \* the workers whose container has the label sind.managed
  conf,     \* the workers with a line in sind-nodes.conf
  known,    \* those that slurmctld knows
  names,    \* those in the mesh's records
  phase,    \* what the command does, "idle" without one
  todo,     \* the phase's tasks that have not ended
  failed,   \* those that failed
  cmd,      \* what the command knows: see Command
  outcome,  \* how the latest command ended
  suspect,  \* history: workers of commands that said or could not say what they left
  faults,
  commands

slurm == <<conf, known>>
workers == <<nodes, managed>>
resources == <<site, ctl, slurm, names, workers>>
work == <<phase, todo, failed, cmd, outcome, suspect, commands>>
vars == <<resources, work, faults>>

(* sind's with and without the file sind-nodes.conf, which the user may    *)
(* have replaced, or that of an unmanaged cluster.                         *)
Site == {"sind", "replaced", "unmanaged"}

(* "untidy": an error that also names what the rollback left.              *)
Outcome == {"none", "ok", "error", "untidy", "killed"}

Command ==
  [ kind     : {"none", "add", "remove"},
    nodes    : SUBSET Worker,  \* the new workers, or those to remove
    via      : Controller \union {"none"},
    runs     : BOOLEAN,        \* that controller ran when it was listed
    edits    : BOOLEAN,        \* it edits sind-nodes.conf
    original : SUBSET Worker,  \* the file as it read it
    untidy   : BOOLEAN,        \* a step of its rollback failed
    was      : SUBSET Worker,  \* history: the file before it began,
    named    : SUBSET Worker,  \* the names in the mesh,
    since    : Nat,            \* the faults so far,
    ran      : BOOLEAN ]       \* and whether one could run scontrol

NoCommand ==
  [kind |-> "none", nodes |-> {}, via |-> "none", runs |-> FALSE, edits |-> FALSE,
   original |-> {}, untidy |-> FALSE, was |-> {}, named |-> {}, since |-> 0, ran |-> FALSE]

Containers == {n \in Worker : nodes[n] # "none"}

Running(c) == c # "none" /\ ctl[c] = "running"

(* A new cluster with one worker, or one whose controller is gone.         *)
First == {n \in Worker : index[n] = 0}

Init ==
  /\ site \in Site
  /\ ctl \in {[primary |-> p, backup |-> b] : p, b \in {"none", "running"}}
  /\ ctl.backup = "running" => ctl.primary = "running" /\ site = "sind"
  /\ nodes = [n \in Worker |-> IF n \in First THEN "running" ELSE "none"]
  /\ managed = IF site = "unmanaged" THEN {} ELSE First
  /\ conf = IF site = "sind" THEN First ELSE {}
  /\ known = conf
  /\ names = First
  /\ phase = "idle"
  /\ todo = {}
  /\ failed = {}
  /\ cmd = NoCommand
  /\ outcome = "none"
  /\ suspect = {}
  /\ faults = 0
  /\ commands = 0

-------------------------------------------------------------------------------
(* Tasks and phases.                                                       *)

ConfTasks == {"conf", "reconfigure"}

(* A worker's slurmd starts once slurmctld knows it.                       *)
Needs(t) ==
  CASE t = "reconfigure" -> {"conf"}
    [] t = "slurmd"      -> {"reconfigure"}
    [] OTHER             -> {}

Open(t) == t \in todo /\ Needs(t) \intersect (todo \union failed) = {}

Enter(p, tasks) ==
  /\ phase' = p
  /\ todo' = tasks
  /\ failed' = {}

(* A command that did not undo what it did makes its workers suspect, until *)
(* new managed workers get their names, and so their lines.                *)
Leave(result) ==
  /\ Enter("idle", {})
  /\ outcome' = result
  /\ suspect' = CASE result \in {"untidy", "killed"}         -> suspect \union cmd.nodes
                  [] result = "ok" /\ cmd.kind = "add"
                       /\ cmd.edits                          -> suspect \ cmd.nodes
                  [] OTHER                                   -> suspect

Strikes(fault) ==
  /\ fault \in Faults
  /\ faults < MaxFaults
  /\ faults' = faults + 1

Ends(t) ==
  /\ todo' = todo \ {t}
  /\ UNCHANGED <<failed, faults>>

FailsTask(t, fault) ==
  /\ Strikes(fault)
  /\ todo' = todo \ {t}
  /\ failed' = failed \union {t}

(* Task t does its work, and its call may fail all the same.               *)
Finishes(t) ==
  /\ Open(t)
  /\ Ends(t) \/ FailsTask(t, "done")
  /\ UNCHANGED <<phase, cmd, outcome, suspect, commands>>

(* docker exec reaches a running controller only.                          *)
OnController == {"read", "conf", "reconfigure", "restore"}

TaskFails ==
  /\ \E t \in todo :
       /\ Open(t)
       /\ \/ FailsTask(t, "fail")
          \/ /\ t \in OnController
             /\ ~(cmd.runs /\ Running(cmd.via))
             /\ todo' = todo \ {t}
             /\ failed' = failed \union {t}
             /\ UNCHANGED faults
  /\ UNCHANGED <<resources, phase, cmd, outcome, suspect, commands>>

(* Everything open has ended: no task of the phase cancels another.        *)
Over(p) == phase = p /\ ~\E t \in todo : Open(t)

-------------------------------------------------------------------------------
(* The controller in control; the backup takes over for a stopped primary. *)
InControl(state) ==
  IF state.primary = "running" THEN "primary"
  ELSE IF state.backup = "running" THEN "backup" ELSE "none"

BugFindController == IF ctl.primary # "none" THEN "primary" ELSE "none"

(* The controller a command edits the file and runs scontrol through.      *)
FindController ==
  IF ctl.primary = "running" \/ (ctl.primary # "none" /\ ctl.backup # "running")
    THEN "primary"
    ELSE IF ctl.backup # "none" THEN "backup" ELSE "none"

NextIndex ==
  IF Containers = {} THEN 0 ELSE Max({index[n] : n \in Containers}) + 1

Begin(kind, N, edits, p, tasks) ==
  /\ phase = "idle"
  /\ commands < MaxCommands
  /\ commands' = commands + 1
  /\ cmd' = [NoCommand EXCEPT !.kind = kind, !.nodes = N, !.edits = edits,
               !.via = FindController, !.runs = Running(FindController),
               !.was = conf, !.named = names,
               !.since = faults, !.ran = InControl(ctl) # "none"]
  /\ outcome' = "none"
  /\ Enter(p, tasks)
  /\ UNCHANGED <<resources, suspect, faults>>

(* WorkerAdd; new workers of an unmanaged cluster are unmanaged.           *)
BeginAdd ==
  /\ FindController # "none"
  /\ \E count \in 1..MaxCount, unmanaged \in BOOLEAN :
       LET N == {n \in Worker : index[n] \in NextIndex..NextIndex + count - 1}
           edits == ~unmanaged /\ site # "unmanaged"
       IN  /\ Cardinality(N) = count  \* bound: the names in Worker
           /\ IF edits THEN Begin("add", N, TRUE, "read", {"read"})
                       ELSE Begin("add", N, FALSE, "setup", N)

(* WorkerRemove.                                                           *)
BeginRemove ==
  \E N \in (SUBSET Containers) \ {{}} :
    IF FindController # "none" /\ site # "unmanaged" /\ N \intersect managed # {}
      THEN Begin("remove", N, TRUE, "read", {"read"})
      ELSE Begin("remove", N, FALSE, "unlist", {"dropNames"})

ReadNodesConf ==
  /\ Open("read")
  /\ cmd.runs /\ Running(cmd.via)
  /\ site = "sind"
  /\ cmd' = [cmd EXCEPT !.original = conf]
  /\ Enter(IF cmd.kind = "add" THEN "setup" ELSE "unlist",
           IF cmd.kind = "add" THEN cmd.nodes
           ELSE {"dropNames"} \union IF cmd.nodes \intersect conf # {} THEN ConfTasks ELSE {})
  /\ UNCHANGED <<resources, outcome, suspect, faults, commands>>

(* ErrNodesConfMissing: a removal then leaves the file alone.              *)
NodesConfMissing ==
  /\ Open("read")
  /\ cmd.runs /\ Running(cmd.via)
  /\ site = "replaced"
  /\ cmd' = [cmd EXCEPT !.edits = FALSE]
  /\ IF cmd.kind = "add"
       THEN Leave("error")
       ELSE Enter("unlist", {"dropNames"}) /\ UNCHANGED <<outcome, suspect>>
  /\ UNCHANGED <<resources, faults, commands>>

ReadFails ==
  /\ phase = "read" /\ failed # {}
  /\ Leave("error")
  /\ UNCHANGED <<resources, cmd, faults, commands>>

-------------------------------------------------------------------------------
(* WorkerAdd: the containers, then the mesh beside Slurm.                  *)

(* docker create, with the label, and docker start.                        *)
CreateNode(n) ==
  /\ phase = "setup"
  /\ Open(n)
  /\ nodes[n] = "none"
  /\ nodes' = [nodes EXCEPT ![n] = "created"]
  /\ managed' = IF cmd.edits THEN managed \union {n} ELSE managed \ {n}
  /\ UNCHANGED <<todo, failed, faults>> \/ FailsTask(n, "done")
  /\ UNCHANGED <<site, ctl, slurm, names, phase, cmd, outcome, suspect, commands>>

StartNode(n) ==
  /\ phase = "setup"
  /\ nodes[n] = "created"
  /\ Finishes(n)
  /\ nodes' = [nodes EXCEPT ![n] = "running"]
  /\ UNCHANGED <<site, ctl, slurm, names, managed>>

BugSetupOver ==
  /\ phase = "setup"
  /\ todo = {}
  /\ Enter("register", {"addNames"} \union
                       IF cmd.edits THEN ConfTasks \union {"slurmd"} ELSE {})
  /\ UNCHANGED <<resources, cmd, outcome, suspect, faults, commands>>

SetupOver ==
  /\ phase = "setup"
  /\ IF failed # {} THEN Enter("cleanup", {"dropNames"} \union cmd.nodes)
     ELSE /\ todo = {}
          /\ Enter("register", {"addNames"} \union
                               IF cmd.edits THEN ConfTasks \union {"slurmd"} ELSE {})
  /\ UNCHANGED <<resources, cmd, outcome, suspect, faults, commands>>

SetsNames(t, N) ==
  /\ Finishes(t)
  /\ names' = N
  /\ UNCHANGED <<site, ctl, slurm, workers>>

RegisterNodes == SetsNames("addNames", names \union cmd.nodes)

(* ReplaceFile on the controller.                                          *)
WritesConf(t, content) ==
  /\ Running(cmd.via)
  /\ Finishes(t)
  /\ conf' = content
  /\ UNCHANGED <<site, ctl, known, names, workers>>

(* AddNodesToConf, RemoveNodesFromConf, and the rollback's revertNodesConf *)
WriteNodesConf ==
  WritesConf("conf", CASE phase = "register" -> cmd.original \union cmd.nodes
                       [] phase = "unlist"   -> cmd.original \ cmd.nodes
                       [] phase = "revert"   -> cmd.original)

(* scontrol reconfigure.                                                   *)
Reconfigure ==
  /\ Running(cmd.via)
  /\ Finishes("reconfigure")
  /\ known' = conf
  /\ UNCHANGED <<site, ctl, conf, names, workers>>

(* enableSlurm waits for the new slurmds.                                  *)
EnableSlurm ==
  /\ Finishes("slurmd")
  /\ UNCHANGED <<resources>>

BugRegisterOver ==
  /\ Over("register")
  /\ IF failed = {} THEN Leave("ok")
     ELSE Enter("cleanup", {"dropNames"} \union cmd.nodes) /\ UNCHANGED <<outcome, suspect>>
  /\ UNCHANGED <<resources, cmd, faults, commands>>

RegisterOver ==
  /\ Over("register")
  /\ IF failed = {} THEN Leave("ok")
     ELSE /\ IF cmd.edits THEN Enter("revert", ConfTasks)
                          ELSE Enter("cleanup", {"dropNames"} \union cmd.nodes)
          /\ UNCHANGED <<outcome, suspect>>
  /\ UNCHANGED <<resources, cmd, faults, commands>>

-------------------------------------------------------------------------------
(* The rollback of WorkerAdd goes on past its failures.                    *)

RevertOver ==
  /\ Over("revert")
  /\ cmd' = [cmd EXCEPT !.untidy = failed # {}]
  /\ Enter("cleanup", {"dropNames"} \union cmd.nodes)
  /\ UNCHANGED <<resources, outcome, suspect, faults, commands>>

DeregisterMesh == SetsNames("dropNames", names \ cmd.nodes)

RemoveContainer(n) ==
  /\ phase \in {"cleanup", "delete"}
  /\ Finishes(n)
  /\ nodes' = [nodes EXCEPT ![n] = "none"]
  /\ managed' = managed \ {n}
  /\ UNCHANGED <<site, ctl, slurm, names>>

CleanupOver ==
  /\ Over("cleanup")
  /\ Leave(IF failed # {} \/ cmd.untidy THEN "untidy" ELSE "error")
  /\ UNCHANGED <<resources, cmd, faults, commands>>

-------------------------------------------------------------------------------
(* WorkerRemove: Slurm beside the mesh, then the containers.               *)

BugUnlistOver ==
  /\ Over("unlist")
  /\ Enter("delete", cmd.nodes)
  /\ UNCHANGED <<resources, cmd, outcome, suspect, faults, commands>>

(* Names that stay in the mesh are a warning; with Slurm's update failed   *)
(* the file gets its lines back and the containers stay.                   *)
UnlistOver ==
  /\ Over("unlist")
  /\ IF failed \intersect ConfTasks = {} THEN Enter("delete", cmd.nodes)
                                         ELSE Enter("restore", {"restore"})
  /\ UNCHANGED <<resources, cmd, outcome, suspect, faults, commands>>

RestoreConf == WritesConf("restore", cmd.original)

RestoreOver ==
  /\ Over("restore")
  /\ Leave(IF failed = {} THEN "error" ELSE "untidy")
  /\ UNCHANGED <<resources, cmd, faults, commands>>

(* Listing the monitored containers fails.                                 *)
MonitoredFails ==
  /\ phase = "delete"
  /\ todo = cmd.nodes
  /\ Strikes("fail")
  /\ Leave("error")
  /\ UNCHANGED <<resources, cmd, commands>>

(* A failure does not keep the other containers.                           *)
DeleteOver ==
  /\ Over("delete")
  /\ Leave(IF failed = {} THEN "ok" ELSE "error")
  /\ UNCHANGED <<resources, cmd, faults, commands>>

-------------------------------------------------------------------------------
(* What happens beside the command.                                        *)

Kill ==
  /\ phase # "idle"
  /\ Strikes("kill")
  /\ Leave("killed")
  /\ UNCHANGED <<resources, cmd, commands>>

(* A slurmctld that starts, or takes over, reads the file.                 *)
Power(c) ==
  /\ ctl[c] # "none"
  /\ Strikes("power")
  /\ ctl' = [ctl EXCEPT ![c] = IF @ = "running" THEN "stopped" ELSE "running"]
  /\ known' = IF InControl(ctl') \notin {InControl(ctl), "none"} THEN conf ELSE known
  /\ UNCHANGED <<site, conf, names, workers, work>>

-------------------------------------------------------------------------------
AddStep ==
  \/ \E n \in Worker : CreateNode(n) \/ StartNode(n)
  \/ SetupOver \/ RegisterNodes \/ EnableSlurm \/ RegisterOver
  \/ RevertOver \/ CleanupOver

RemoveStep ==
  UnlistOver \/ RestoreConf \/ RestoreOver \/ DeleteOver

CommandStep ==
  \/ ReadNodesConf \/ NodesConfMissing \/ ReadFails \/ AddStep \/ RemoveStep
  \/ WriteNodesConf \/ Reconfigure \/ DeregisterMesh
  \/ \E n \in Worker : RemoveContainer(n)

Next ==
  \/ CommandStep \/ BeginAdd \/ BeginRemove \/ TaskFails \/ MonitoredFails \/ Kill
  \/ \E c \in Controller : Power(c)

Spec == Init /\ [][Next]_vars

(* The process runs on, and each docker call ends, if only with an error.  *)
FairSpec == Spec /\ WF_vars(CommandStep \/ TaskFails)

-------------------------------------------------------------------------------
Phases == {"idle", "read", "setup", "register", "revert", "cleanup", "unlist", "restore",
           "delete"}

TaskNames ==
  {"addNames", "dropNames", "conf", "reconfigure", "read", "slurmd", "restore"}

(* What is assumed of the constants: the workers' numbers are at most k, a *)
(* worker is not a task of another name, and the bounds are numbers.       *)
ScalingConstants(k) ==
  /\ k \in Nat
  /\ index \in [Worker -> 0..k]
  /\ Worker \intersect TaskNames = {}
  /\ {MaxCount, MaxFaults, MaxCommands} \subseteq Nat

(* What the phase does, of which todo has not ended and failed has failed. *)
PhaseTasks ==
  CASE phase = "idle"     -> {}
    [] phase = "read"     -> {"read"}
    [] phase = "register" -> {"addNames"} \union
                               IF cmd.edits THEN ConfTasks \union {"slurmd"} ELSE {}
    [] phase = "revert"   -> ConfTasks
    [] phase = "cleanup"  -> {"dropNames"} \union cmd.nodes
    [] phase = "unlist"   -> {"dropNames"} \union IF cmd.edits THEN ConfTasks ELSE {}
    [] phase = "restore"  -> {"restore"}
    [] OTHER              -> cmd.nodes

Done(t) == t \notin todo \union failed

TypeOK ==
  /\ site \in Site
  /\ ctl \in [Controller -> {"none", "running", "stopped"}]
  /\ nodes \in [Worker -> {"none", "created", "running"}]
  /\ managed \subseteq Containers
  /\ {conf, known, names, suspect} \subseteq SUBSET Worker
  /\ phase \in Phases
  /\ todo \union failed \subseteq PhaseTasks
  /\ cmd \in Command
  /\ outcome \in Outcome
  /\ faults \in 0..MaxFaults
  /\ commands \in 0..MaxCommands

(* The phases are those of the command's kind; sind-nodes.conf is edited on *)
(* a controller of a cluster that has the file; what follows a task waits.  *)
PhaseInv ==
  /\ phase \in {"setup", "register", "revert", "cleanup"} => cmd.kind = "add"
  /\ phase \in {"unlist", "restore", "delete"} => cmd.kind = "remove"
  /\ phase # "idle" => outcome = "none" /\ cmd.kind # "none"
  /\ outcome # "none" => cmd.kind # "none"
  /\ phase \in {"read", "revert", "restore"} => cmd.edits
  /\ phase # "cleanup" /\ phase # "idle" => ~cmd.untidy
  /\ phase \in {"register", "revert", "unlist"} /\ Done("reconfigure") => Done("conf")
  /\ site # "sind" => conf = {} /\ known = {}
  /\ phase \notin {"idle", "read"} /\ cmd.edits => site = "sind"
  /\ ctl.primary = "none" => ctl.backup = "none"
  /\ phase # "idle" /\ ctl.primary = "none" => cmd.kind = "remove" /\ ~cmd.edits

(* The workers that an add makes, and the names it gives them.             *)
AddedInv ==
  /\ phase = "read" /\ cmd.kind = "add" => cmd.nodes \intersect Containers = {}
  /\ phase \in {"read", "setup"} => names = cmd.named
  /\ phase \in {"register", "revert", "cleanup"} => names \subseteq cmd.named \union cmd.nodes
  /\ phase = "setup" => \A n \in cmd.nodes : Done(n) => nodes[n] = "running"
  /\ phase = "register" => \A n \in cmd.nodes : nodes[n] = "running"
  /\ phase = "setup" /\ cmd.edits => cmd.nodes \intersect Containers \subseteq managed
  /\ phase \in {"register", "revert"} /\ cmd.edits => cmd.nodes \subseteq managed
  /\ phase = "register" /\ Done("addNames") => cmd.nodes \subseteq names
  /\ phase = "cleanup" /\ Done("dropNames") => names \subseteq cmd.named
  /\ phase \in {"cleanup", "delete"} => \A n \in cmd.nodes : Done(n) => nodes[n] = "none"

(* The file of an add: as it was, or with the new workers, until the       *)
(* rollback has put it back.                                               *)
AddedLines ==
  phase # "idle" /\ cmd.kind = "add" =>
    /\ cmd.was \subseteq managed \union suspect
    /\ cmd.was \intersect cmd.nodes \subseteq suspect
    /\ \/ phase \in {"read", "setup"}
       \/ ~cmd.edits
       \/ phase = "revert" /\ Done("conf")
       \/ phase = "cleanup" /\ ~cmd.untidy
       => conf = cmd.was
    /\ cmd.edits /\ phase \in {"setup", "register", "revert"} => cmd.original = cmd.was
    /\ phase \in {"register", "revert"} => conf \subseteq cmd.was \union cmd.nodes
    /\ phase = "register" /\ cmd.edits /\ Done("conf") => conf = cmd.was \union cmd.nodes
    /\ phase = "register" /\ cmd.edits /\ Done("reconfigure") => cmd.nodes \subseteq known

(* The file of a removal: without the lines of its workers before their    *)
(* containers go, and with them again when Slurm was not told.             *)
RemovedLines ==
  cmd.kind = "remove" /\ ctl.primary # "none" =>
    /\ phase = "delete" \/ (phase = "unlist" /\ ~cmd.edits) =>
         /\ conf \intersect cmd.nodes \subseteq suspect
         /\ conf \intersect cmd.nodes \intersect managed = {}
    /\ phase = "unlist" /\ cmd.edits /\ Done("conf") => conf \intersect cmd.nodes = {}
    /\ phase = "restore" \/ (phase = "unlist" /\ cmd.edits) =>
         /\ cmd.original \ cmd.nodes \subseteq conf
         /\ conf \subseteq cmd.original
         /\ cmd.original \subseteq managed \union suspect
         /\ known \subseteq cmd.original \union suspect
    /\ phase = "restore" /\ Done("restore") => conf = cmd.original

(* Every line is that of a managed worker, and slurmctld knows no worker   *)
(* that has none, but for what a rollback is at, or a command has told.    *)
LinesInv ==
  LET unsettled == IF phase = "cleanup" /\ cmd.untidy THEN cmd.nodes ELSE {} IN
  ctl.primary # "none" =>
    /\ conf \subseteq managed \union suspect \union unsettled
    /\ \/ phase \notin {"revert", "unlist", "restore"}
       \/ phase # "restore" /\ Done("reconfigure")
       => known \subseteq conf \union suspect \union unsettled
    /\ phase = "revert" => known \subseteq conf \union suspect \union cmd.nodes

(* A command that no fault has met has failed in nothing.                  *)
CleanInv ==
  /\ cmd.since <= faults
  /\ cmd.kind # "none" /\ faults = cmd.since /\ cmd.ran =>
       /\ failed = {}
       /\ phase \notin {"revert", "cleanup", "restore"}
       /\ phase # "idle" /\ cmd.edits => cmd.runs /\ Running(cmd.via)

(* A WorkerAdd that failed without naming a failure of its rollback leaves *)
(* no trace: no container or new name of its workers, and the file as it    *)
(* was.                                                                    *)
FailedAddUndone ==
  outcome = "error" /\ cmd.kind = "add" =>
    /\ cmd.nodes \intersect Containers = {}
    /\ names \subseteq cmd.named
    /\ conf = cmd.was

(* No worker without a container stays in Slurm, in the file or in what    *)
(* slurmctld knows, unless a command was killed or said what it left.      *)
(* While a controller runs: a cluster without one has no Slurm to tell.    *)
NoPhantoms ==
  phase = "idle" /\ ctl.primary # "none" =>
    (conf \union IF InControl(ctl) = "none" THEN {} ELSE known) \ Containers
      \subseteq suspect

(* The nodes, sind-nodes.conf and slurmctld are in a state the commands     *)
(* know, and between two of them Slurm has no phantom worker (NoPhantoms).  *)
ScalingInv ==
  /\ TypeOK
  /\ PhaseInv
  /\ AddedInv
  /\ AddedLines
  /\ RemovedLines
  /\ LinesInv
  /\ CleanInv
  /\ NoPhantoms

(* WorkerRemove removes a managed worker only once it has left the file,   *)
(* whatever a power command does to the controller meanwhile.              *)
LineGoesFirst ==
  [][\A n \in managed : nodes'[n] = "none" /\ cmd.kind = "remove" /\ ctl.primary # "none"
       => n \notin conf]_vars

(* A command that ended without an error did its work: the workers it      *)
(* added run, are in the mesh and, managed, in Slurm; what it removed is   *)
(* out of both, unless an earlier command left the worker half removed.    *)
WorkDone ==
  phase = "idle" /\ outcome = "ok" =>
    CASE cmd.kind = "add" ->
           /\ cmd.nodes \subseteq names
           /\ \A n \in cmd.nodes : nodes[n] = "running"
           /\ cmd.edits => cmd.nodes \subseteq conf \intersect known
      [] cmd.kind = "remove" ->
           /\ cmd.nodes \intersect Containers = {}
           /\ ctl.primary # "none" => cmd.nodes \intersect (conf \union known) \subseteq suspect

(* After an error, a kill or a power command the command can be run again: *)
(* one that meets a running controller and no failure ends without an      *)
(* error, whatever those before it left.                                   *)
RetryWorks ==
  cmd.kind # "none" /\ faults = cmd.since /\ cmd.ran /\ (cmd.kind = "add" => site = "sind")
    => outcome \in {"none", "ok"}

(* Every command comes to an end, with its rollback.                       *)
CommandsEnd == (phase # "idle") ~> (phase = "idle")
===============================================================================

------------------------------ MODULE MCClusters ------------------------------
(***************************************************************************)
(* Two machines for TLC in one run: Lifecycle with the instance of         *)
(* MCLifecycle, and WorkerScaling with the workers worker-0 and worker-1,  *)
(* whose variables are named after it here where the two share a name.  A  *)
(* behaviour is one of the machine that `machine' names; the other one     *)
(* rests in its initial state, without a command.                          *)
(***************************************************************************)
EXTENDS MCLifecycle, TLC

CONSTANTS MaxWorkerCommands, MaxWorkerFaults

VARIABLES
  machine,
  site, ctl, workers, managed, conf, known, names, step, steps, broken, cmd, ended,
  suspect, scalingFaults, scalingCommands

Workers == {"worker-0", "worker-1"}
Index == ("worker-0" :> 0) @@ ("worker-1" :> 1)

W == INSTANCE WorkerScaling WITH
       Worker <- Workers, index <- Index, MaxCount <- 2,
       Faults <- {"fail", "done", "kill", "power"},
       MaxFaults <- MaxWorkerFaults, MaxCommands <- MaxWorkerCommands,
       nodes <- workers, phase <- step, todo <- steps, failed <- broken, outcome <- ended,
       faults <- scalingFaults, commands <- scalingCommands

\* What WorkerScaling assumes of its constants.
ASSUME ScalingAssumption ==
  /\ W!ScalingConstants(1)
  /\ \A v, w \in Workers : Index[v] = Index[w] => v = w

scalingVars ==
  <<site, ctl, workers, managed, conf, known, names, step, steps, broken, cmd, ended,
    suspect, scalingFaults, scalingCommands>>
everything == <<machine, allVars, scalingVars>>

Start ==
  /\ InitClusters /\ W!Init
  /\ \/ machine = "clusters" /\ site = "unmanaged" /\ ctl.primary = "none"
     \/ machine = "workers"

Advance ==
  /\ UNCHANGED machine
  /\ \/ machine = "clusters" /\ NextCluster /\ UNCHANGED scalingVars
     \/ machine = "workers" /\ W!Next /\ UNCHANGED allVars

FairMachines ==
  /\ Start /\ [][Advance]_everything
  /\ WF_allVars(CommandStep) /\ WF_scalingVars(W!CommandStep \/ W!TaskFails)

-------------------------------------------------------------------------------
(* The nodes, sind-nodes.conf and slurmctld are in a state the commands     *)
(* know, and no phantom worker is left in Slurm (of WorkerScaling).        *)
ScalingInv == W!ScalingInv

(* A failed WorkerAdd leaves no trace (of WorkerScaling).                  *)
FailedAddUndone == W!FailedAddUndone

(* A command that ended without an error did its work (of WorkerScaling).  *)
WorkDone == W!WorkDone

(* A command can be run again after an error (of WorkerScaling).           *)
RetryWorks == W!RetryWorks

(* A worker leaves sind-nodes.conf before its container goes (of           *)
(* WorkerScaling).                                                         *)
LineGoesFirst == W!LineGoesFirst

(* Every command of either machine comes to an end, with its rollback.     *)
CommandsEnd == ClusterCommandsEnd /\ W!CommandsEnd
===============================================================================

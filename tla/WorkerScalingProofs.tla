------------------------- MODULE WorkerScalingProofs --------------------------
(***************************************************************************)
(* Proofs about adding and removing workers (WorkerScaling): for any names *)
(* and numbers of workers, any failed calls, kills and power commands, no  *)
(* worker without a container stays in Slurm untold, a line goes before    *)
(* its container, and a command without an error has done its work.        *)
(***************************************************************************)
EXTENDS WorkerScaling, WellFoundedInduction, TLAPS

(* What a command that has ended promises.                                 *)
Results == FailedAddUndone /\ WorkDone /\ RetryWorks

-------------------------------------------------------------------------------
(* About the operators.                                                    *)

(* Max returns the greatest of some numbers that have a bound.             *)
LEMMA MaxOfBounded ==
  ASSUME NEW b \in Nat, NEW S \in SUBSET (0..b), S # {}
  PROVE  Max(S) \in S /\ \A y \in S : y <= Max(S)
<1> DEFINE T == {u \in Nat : \A y \in S : y <= u}
           R == OpToRel(<, Nat)
<1>1. T # {} /\ T \subseteq Nat
  <2>1. b \in T
    OBVIOUS
  <2> QED
    BY <2>1
<1>2. \A x, y \in Nat : y < x => <<y, x>> \in R
  BY DEF OpToRel
<1>3. PICK u \in T : \A y \in T : <<y, u>> \notin R
  <2> HIDE DEF T
  <2> QED
    BY <1>1, NatLessThanWellFounded, WFMin
<1>4. u \in Nat /\ (\A y \in S : y <= u) /\ \A v \in T : ~(v < u)
  <2>1. \A v \in T : v < u => <<v, u>> \in R
    BY <1>2
  <2> QED
    BY <1>3, <2>1
<1> HIDE DEF R
<1>5. u \in S
  <2> SUFFICES ASSUME u \notin S PROVE FALSE
    OBVIOUS
  <2>1. \A y \in S : y \in Nat /\ y < u
    BY <1>4
  <2>2. u # 0
    <3>1. PICK y \in S : TRUE
      OBVIOUS
    <3> QED
      BY <2>1, <3>1
  <2>3. u - 1 \in T
    BY <1>4, <2>1, <2>2
  <2> QED
    BY <1>4, <2>3
<1> QED
  BY <1>4, <1>5 DEF Max

(* The next index is past those of the workers that have a container.      *)
LEMMA NextIsPast ==
  ASSUME NEW k, ScalingConstants(k)
  PROVE  NextIndex \in Nat /\ \A n \in Containers : index[n] < NextIndex
<1> DEFINE S == {index[n] : n \in Containers}
<1>1. k \in Nat /\ S \in SUBSET (0..k)
  BY DEF ScalingConstants, Containers
<1>2. CASE Containers = {}
  BY <1>2 DEF NextIndex
<1>3. CASE Containers # {}
  <2>1. S # {}
    BY <1>3
  <2>2. NextIndex = Max(S) + 1
    BY <1>3 DEF NextIndex
  <2> HIDE DEF S
  <2>3. Max(S) \in S /\ \A y \in S : y <= Max(S)
    BY <1>1, <2>1, MaxOfBounded
  <2>4. \A n \in Containers : index[n] \in S
    BY DEF S
  <2>5. Max(S) \in Nat /\ \A n \in Containers : index[n] \in Nat
    <3>1. \A i \in S : i \in Nat
      BY <1>1
    <3> QED
      BY <2>3, <2>4, <3>1
  <2>6. \A n \in Containers : index[n] <= Max(S)
    BY <2>3, <2>4
  <2> QED
    BY <2>2, <2>5, <2>6
<1> QED
  BY <1>2, <1>3

(* A phase in which nothing is open has done what did not fail.            *)
LEMMA OverPhase ==
  ASSUME NEW k, ScalingConstants(k), TypeOK, NEW p, Over(p)
  PROVE  /\ phase = p
         /\ \A t \in todo : t \in {"reconfigure", "slurmd"}
         /\ "conf" \notin failed => "reconfigure" \notin todo
         /\ {"conf", "reconfigure"} \intersect failed = {} => todo = {}
         /\ failed = {} => todo = {}
<1>1. \A t \in todo : Needs(t) \intersect (todo \union failed) # {}
  BY DEF Over, Open
<1>2. \A t \in todo : t \in {"reconfigure", "slurmd"}
  BY <1>1 DEF Needs
<1>3. "conf" \notin todo
  BY <1>2
<1>4. "reconfigure" \in todo => "conf" \in failed
  BY <1>1, <1>3 DEF Needs
<1>5. "slurmd" \in todo => "reconfigure" \in todo \union failed
  BY <1>1 DEF Needs
<1> QED
  BY <1>2, <1>4, <1>5 DEF Over

-------------------------------------------------------------------------------
(* What the kinds of step keep, whichever it is.                           *)

(* Types and phases survive the end of a task, the call of one, or its     *)
(* failure.                                                                *)
LEMMA TaskStep ==
  ASSUME TypeOK, PhaseInv, CleanInv, phase # "idle", NEW t \in todo,
         t = "reconfigure" => Done("conf"),
         todo' \in {todo, todo \ {t}},
         \/ UNCHANGED <<failed, faults>>
         \/ failed' = failed \union {t} /\ faults < MaxFaults /\ faults' = faults + 1
         \/ /\ failed' = failed \union {t} /\ UNCHANGED faults
            /\ cmd.edits /\ ~(cmd.runs /\ Running(cmd.via)),
         UNCHANGED <<site, ctl, phase, cmd, outcome, suspect, commands>>,
         MaxFaults \in Nat,
         nodes' \in [Worker -> {"none", "created", "running"}],
         managed' \subseteq Containers',
         {conf', known', names'} \subseteq SUBSET Worker,
         site # "sind" => conf' = {} /\ known' = {}
  PROVE  TypeOK' /\ PhaseInv' /\ CleanInv'
<1>1. todo' \union failed' \subseteq PhaseTasks'
  <2>1. PhaseTasks' = PhaseTasks
    BY DEF PhaseTasks
  <2> QED
    BY <2>1 DEF TypeOK
<1>2. faults' \in 0..MaxFaults
  BY DEF TypeOK
<1>3. TypeOK'
  BY <1>1, <1>2 DEF TypeOK
<1>4. PhaseInv'
  <2>1. Done("reconfigure")' => Done("conf")' \/ ~Done("reconfigure") \/ ~Done("conf")
    BY DEF Done
  <2>2. Done("reconfigure")' /\ ~Done("reconfigure") => t = "reconfigure"
    BY DEF Done
  <2>3. Done("conf") => Done("conf")' \/ t = "conf"
    BY DEF Done
  <2>4. t = "conf" => ~Done("conf")
    BY DEF Done
  <2>5. Done("reconfigure")' /\ (Done("reconfigure") => Done("conf")) => Done("conf")'
    BY <2>2, <2>3, <2>4
  <2> QED
    BY <2>5 DEF PhaseInv
<1>5. CleanInv'
  <2>1. cmd.since \in Nat /\ faults \in Nat
    BY DEF TypeOK, Command
  <2>2. CASE UNCHANGED <<failed, faults>>
    BY <2>2 DEF CleanInv, Running
  <2>3. CASE faults' = faults + 1
    BY <2>1, <2>3 DEF CleanInv
  <2>4. CASE UNCHANGED faults /\ cmd.edits /\ ~(cmd.runs /\ Running(cmd.via))
    BY <2>4 DEF CleanInv
  <2> QED
    BY <2>2, <2>3, <2>4
<1> QED
  BY <1>3, <1>4, <1>5

(* The lines stay as they are when nothing of Slurm changes, and what is   *)
(* done of Slurm's tasks was done.                                         *)
LEMMA SlurmSame ==
  ASSUME AddedLines, RemovedLines, LinesInv,
         \A t \in {"conf", "reconfigure", "restore"} : Done(t)' => Done(t),
         UNCHANGED <<ctl, conf, known, managed, phase, cmd, suspect>>
  PROVE  AddedLines' /\ RemovedLines' /\ LinesInv'
<1>1. AddedLines'
  BY DEF AddedLines
<1>2. RemovedLines'
  BY DEF RemovedLines
<1>3. LinesInv'
  BY DEF LinesInv
<1> QED
  BY <1>1, <1>2, <1>3

(* So do containers and names.                                             *)
LEMMA NodesSame ==
  ASSUME AddedInv,
         \A t \in Worker \union {"addNames", "dropNames"} : Done(t)' => Done(t),
         UNCHANGED <<nodes, managed, names, phase, cmd>>, cmd \in Command
  PROVE  AddedInv'
<1>1. cmd.nodes \subseteq Worker
  BY DEF Command
<1> QED
  BY <1>1 DEF AddedInv, Containers

(* While a command runs nothing is said of its result.                     *)
LEMMA NoResultYet ==
  ASSUME PhaseInv', phase' # "idle"
  PROVE  Results' /\ NoPhantoms'
BY DEF PhaseInv, Results, FailedAddUndone, WorkDone, RetryWorks, NoPhantoms

(* Without a command the lines are what remains to be said.                *)
LEMMA LeaveStep ==
  ASSUME TypeOK, PhaseInv, CleanInv, phase # "idle", NEW r \in Outcome, Leave(r),
         UNCHANGED <<resources, commands>>, faults' \in faults..MaxFaults,
         cmd' = cmd \/ cmd' = [cmd EXCEPT !.edits = FALSE],
         LinesInv'
  PROVE  ScalingInv'
<1>1. /\ phase' = "idle" /\ todo' = {} /\ failed' = {} /\ outcome' = r
      /\ suspect' \subseteq Worker
  BY DEF Leave, Enter, TypeOK, Command
<1>2. /\ cmd' \in Command /\ cmd'.since = cmd.since /\ cmd.since \in Nat /\ faults \in Nat
      /\ faults' \in 0..MaxFaults /\ cmd.since <= faults'
  <2>1. cmd' \in Command /\ cmd'.since = cmd.since
    BY DEF TypeOK, Command
  <2>2. cmd.since \in Nat /\ faults \in Nat /\ cmd.since <= faults
    BY DEF TypeOK, Command, CleanInv
  <2> QED
    BY <2>1, <2>2
<1>3. TypeOK'
  BY <1>1, <1>2 DEF TypeOK, PhaseTasks, Phases, resources, workers, slurm, Containers
<1>4. PhaseInv'
  <2>1. cmd'.kind = cmd.kind
    BY DEF TypeOK, Command
  <2> QED
    BY <1>1, <2>1 DEF PhaseInv, resources, slurm
<1>5. AddedInv' /\ AddedLines' /\ RemovedLines'
  BY <1>1 DEF AddedInv, AddedLines, RemovedLines
<1>6. CleanInv'
  BY <1>1, <1>2 DEF CleanInv
<1>7. NoPhantoms'
  BY <1>1, <1>3 DEF LinesInv, NoPhantoms, TypeOK
<1> QED
  BY <1>3, <1>4, <1>5, <1>6, <1>7 DEF ScalingInv

-------------------------------------------------------------------------------
(* The tasks.                                                              *)

(* The containers of an add: docker create and docker start.               *)
LEMMA SetupSteps ==
  ASSUME NEW k, ScalingConstants(k), ScalingInv, NEW n \in Worker, CreateNode(n) \/ StartNode(n)
  PROVE  ScalingInv' /\ Results'
<1>1. /\ TypeOK /\ PhaseInv /\ AddedInv /\ AddedLines /\ RemovedLines /\ LinesInv /\ CleanInv
      /\ phase = "setup" /\ n \in todo /\ n \notin TaskNames /\ n \in cmd.nodes
  <2>1. TypeOK /\ phase = "setup" /\ n \in todo
    BY DEF ScalingInv, CreateNode, StartNode, Finishes, Open
  <2>2. n \in cmd.nodes
    BY <2>1 DEF TypeOK, PhaseTasks
  <2> QED
    BY <2>1, <2>2 DEF ScalingInv, ScalingConstants
<1>2. /\ todo' \in {todo, todo \ {n}}
      /\ \/ UNCHANGED <<failed, faults>>
         \/ failed' = failed \union {n} /\ faults < MaxFaults /\ faults' = faults + 1
      /\ UNCHANGED <<site, ctl, conf, known, names, phase, cmd, outcome, suspect, commands>>
  BY DEF CreateNode, StartNode, Finishes, Ends, FailsTask, Strikes, slurm
<1>3. \A s \in TaskNames : Done(s)' => Done(s)
  BY <1>1, <1>2 DEF Done
<1>4. /\ nodes' \in [Worker -> {"none", "created", "running"}]
      /\ managed' \subseteq Containers' /\ managed \subseteq managed'
      /\ Containers' = Containers \union {n}
      /\ cmd.edits => managed' = managed \union {n}
  <2>1. CASE CreateNode(n)
    <3>1. n \notin Containers /\ n \notin managed
      BY <1>1, <2>1 DEF CreateNode, Containers, TypeOK
    <3> QED
      BY <1>1, <2>1, <3>1 DEF CreateNode, Containers, TypeOK
  <2>2. CASE StartNode(n)
    <3>1. n \in Containers /\ (cmd.edits => n \in managed)
      BY <1>1, <2>2 DEF StartNode, Containers, TypeOK, AddedInv
    <3> QED
      BY <1>1, <2>2, <3>1 DEF StartNode, Containers, TypeOK, workers
  <2> QED
    BY <2>1, <2>2
<1>5. TypeOK' /\ PhaseInv' /\ CleanInv'
  <2>1. n # "reconfigure" /\ MaxFaults \in Nat /\ {conf', known', names'} \subseteq SUBSET Worker
        /\ (site # "sind" => conf' = {} /\ known' = {})
    BY <1>1, <1>2 DEF ScalingConstants, TypeOK, PhaseInv, TaskNames
  <2> QED
    BY <1>1, <1>2, <1>4, <2>1, TaskStep
<1>6. AddedInv'
  <2>1. /\ names' = names /\ cmd' = cmd /\ phase' = "setup" /\ names = cmd.named
    BY <1>1, <1>2 DEF AddedInv
  <2>2. \A m \in cmd.nodes : Done(m)' => nodes'[m] = "running"
    <3>1. ASSUME NEW m \in cmd.nodes, m # n, Done(m)'
          PROVE  nodes'[m] = "running"
      <4>1. Done(m) /\ nodes[m] = "running"
        BY <1>1, <1>2, <3>1 DEF Done, AddedInv
      <4>2. m \in Worker
        BY <1>1 DEF TypeOK, Command
      <4>3. \E st : nodes' = [nodes EXCEPT ![n] = st]
        BY DEF CreateNode, StartNode
      <4> QED
        BY <1>1, <3>1, <4>1, <4>2, <4>3 DEF TypeOK
    <3>2. Done(n)' => nodes'[n] = "running"
      BY <1>1 DEF Done, CreateNode, StartNode, FailsTask, TypeOK
    <3> QED
      BY <3>1, <3>2
  <2>3. cmd.edits => cmd.nodes \intersect Containers' \subseteq managed'
    BY <1>1, <1>4 DEF AddedInv
  <2> QED
    BY <2>1, <2>2, <2>3 DEF AddedInv, Containers
<1>7. AddedLines'
  BY <1>1, <1>2, <1>4 DEF AddedLines
<1>8. RemovedLines'
  BY <1>1, <1>2, <1>5 DEF RemovedLines, PhaseInv
<1>9. LinesInv'
  BY <1>1, <1>2, <1>4 DEF LinesInv
<1>10. Results' /\ NoPhantoms'
  BY <1>1, <1>2, <1>5, NoResultYet
<1> QED
  BY <1>5, <1>6, <1>7, <1>8, <1>9, <1>10 DEF ScalingInv

(* The names of the mesh: an add gives them, its rollback and a removal    *)
(* take them away.                                                         *)
LEMMA NameSteps ==
  ASSUME NEW k, ScalingConstants(k), ScalingInv, RegisterNodes \/ DeregisterMesh
  PROVE  ScalingInv' /\ Results'
<1>1. PICK t \in {"addNames", "dropNames"} :
        /\ t \in todo
        /\ todo' = todo \ {t}
        /\ \/ UNCHANGED <<failed, faults>>
           \/ failed' = failed \union {t} /\ faults < MaxFaults /\ faults' = faults + 1
        /\ IF t = "addNames" THEN names' = names \union cmd.nodes ELSE names' = names \ cmd.nodes
        /\ UNCHANGED <<site, ctl, conf, known, nodes, managed, phase, cmd, outcome, suspect,
                       commands>>
  BY DEF RegisterNodes, DeregisterMesh, SetsNames, Finishes, Open, Ends, FailsTask, Strikes,
         slurm, workers
<1>2. /\ TypeOK /\ PhaseInv /\ AddedInv /\ AddedLines /\ RemovedLines /\ LinesInv /\ CleanInv
      /\ t = "addNames" => phase = "register"
      /\ t = "dropNames" => phase \in {"cleanup", "unlist"}
      /\ cmd.nodes \subseteq Worker
  <2>1. TypeOK /\ t \in PhaseTasks
    BY <1>1 DEF ScalingInv, TypeOK
  <2>2. cmd.nodes \subseteq Worker
    BY <2>1 DEF TypeOK, Command
  <2>3. t \notin cmd.nodes
    BY <2>2 DEF ScalingConstants, TaskNames
  <2> QED
    BY <2>1, <2>2, <2>3 DEF ScalingInv, PhaseTasks, ConfTasks, TypeOK, Phases
<1>3. \A s : Done(s)' => Done(s) \/ s = t
  BY <1>1 DEF Done
<1>4. TypeOK' /\ PhaseInv' /\ CleanInv'
  <2>1. /\ phase # "idle" /\ t # "reconfigure" /\ MaxFaults \in Nat
        /\ {conf', known', names'} \subseteq SUBSET Worker
        /\ (site # "sind" => conf' = {} /\ known' = {})
        /\ nodes' \in [Worker -> {"none", "created", "running"}] /\ managed' \subseteq Containers'
    BY <1>1, <1>2 DEF ScalingConstants, TypeOK, PhaseInv, Containers
  <2> QED
    BY <1>1, <1>2, <2>1, TaskStep
<1>5. AddedInv'
  <2>1. \A n \in cmd.nodes : Done(n)' => Done(n)
    BY <1>1, <1>2, <1>3 DEF ScalingConstants, TaskNames
  <2>2. CASE t = "addNames"
    BY <1>1, <1>2, <2>1, <2>2 DEF AddedInv, Containers
  <2>3. CASE t = "dropNames"
    BY <1>1, <1>2, <2>1, <2>3 DEF AddedInv, Containers
  <2> QED
    BY <2>2, <2>3
<1>6. AddedLines' /\ RemovedLines' /\ LinesInv'
  BY <1>1, <1>2, <1>3, SlurmSame
<1>7. Results' /\ NoPhantoms'
  BY <1>1, <1>2, <1>4, NoResultYet
<1> QED
  BY <1>4, <1>5, <1>6, <1>7 DEF ScalingInv

(* The containers that a rollback or a removal removes.                    *)
LEMMA RemoveSteps ==
  ASSUME NEW k, ScalingConstants(k), ScalingInv, NEW n \in Worker, RemoveContainer(n)
  PROVE  ScalingInv' /\ Results'
<1>1. /\ phase \in {"cleanup", "delete"}
      /\ n \in todo
      /\ todo' = todo \ {n}
      /\ \/ UNCHANGED <<failed, faults>>
         \/ failed' = failed \union {n} /\ faults < MaxFaults /\ faults' = faults + 1
      /\ nodes' = [nodes EXCEPT ![n] = "none"]
      /\ managed' = managed \ {n}
      /\ UNCHANGED <<site, ctl, conf, known, names, phase, cmd, outcome, suspect, commands>>
  BY DEF RemoveContainer, Finishes, Open, Ends, FailsTask, Strikes, slurm
<1>2. /\ TypeOK /\ PhaseInv /\ AddedInv /\ AddedLines /\ RemovedLines /\ LinesInv /\ CleanInv
      /\ n \notin TaskNames /\ n \in cmd.nodes /\ cmd.nodes \subseteq Worker
  <2>1. TypeOK /\ n \in PhaseTasks /\ n \notin TaskNames
    BY <1>1 DEF ScalingInv, TypeOK, ScalingConstants
  <2> QED
    BY <1>1, <2>1 DEF ScalingInv, PhaseTasks, TaskNames, TypeOK, Command
<1>3. \A s : Done(s)' => Done(s) \/ s = n
  BY <1>1 DEF Done
<1>4. TypeOK' /\ PhaseInv' /\ CleanInv'
  <2>1. /\ phase # "idle" /\ n # "reconfigure" /\ MaxFaults \in Nat
        /\ {conf', known', names'} \subseteq SUBSET Worker
        /\ (site # "sind" => conf' = {} /\ known' = {})
        /\ nodes' \in [Worker -> {"none", "created", "running"}] /\ managed' \subseteq Containers'
    BY <1>1, <1>2 DEF ScalingConstants, TypeOK, PhaseInv, Containers, TaskNames
  <2> QED
    BY <1>1, <1>2, <2>1, TaskStep
<1>5. AddedInv'
  <2>1. \A m \in cmd.nodes : Done(m)' => nodes'[m] = "none"
    BY <1>1, <1>2, <1>3 DEF AddedInv, TypeOK
  <2>2. Done("dropNames")' => Done("dropNames")
    BY <1>2, <1>3 DEF TaskNames
  <2> QED
    BY <1>1, <1>2, <2>1, <2>2 DEF AddedInv
<1>6. AddedLines'
  BY <1>1, <1>2 DEF AddedLines
<1>7. RemovedLines'
  BY <1>1, <1>2 DEF RemovedLines, PhaseInv
<1>8. LinesInv'
  <2>1. CASE phase = "cleanup"
    BY <1>1, <1>2, <2>1 DEF AddedLines, LinesInv, PhaseInv
  <2>2. CASE phase = "delete"
    BY <1>1, <1>2, <2>2 DEF RemovedLines, LinesInv, PhaseInv
  <2> QED
    BY <1>1, <2>1, <2>2
<1>9. Results' /\ NoPhantoms'
  BY <1>1, <1>2, <1>4, NoResultYet
<1> QED
  BY <1>4, <1>5, <1>6, <1>7, <1>8, <1>9 DEF ScalingInv

(* The file is written: by an add, its rollback, a removal, or a removal   *)
(* that puts its lines back.                                               *)
LEMMA WriteSteps ==
  ASSUME NEW k, ScalingConstants(k), ScalingInv, WriteNodesConf \/ RestoreConf
  PROVE  ScalingInv' /\ Results'
<1>1. PICK t \in {"conf", "restore"} :
        /\ t \in todo
        /\ todo' = todo \ {t}
        /\ \/ UNCHANGED <<failed, faults>>
           \/ failed' = failed \union {t} /\ faults < MaxFaults /\ faults' = faults + 1
        /\ t = "conf" => /\ phase = "register" => conf' = cmd.original \union cmd.nodes
                         /\ phase = "unlist" => conf' = cmd.original \ cmd.nodes
                         /\ phase = "revert" => conf' = cmd.original
        /\ t = "restore" => conf' = cmd.original
        /\ UNCHANGED <<site, ctl, known, names, nodes, managed, phase, cmd, outcome, suspect,
                       commands>>
  <2>1. CASE WriteNodesConf
    BY <2>1 DEF WriteNodesConf, WritesConf, Finishes, Open, Ends, FailsTask, Strikes, workers
  <2>2. CASE RestoreConf
    BY <2>2 DEF RestoreConf, WritesConf, Finishes, Open, Ends, FailsTask, Strikes, workers
  <2> QED
    BY <2>1, <2>2
<1>2. /\ TypeOK /\ PhaseInv /\ AddedInv /\ AddedLines /\ RemovedLines /\ LinesInv /\ CleanInv
      /\ t = "conf" => phase \in {"register", "unlist", "revert"}
      /\ t = "restore" => phase = "restore"
      /\ cmd.edits /\ ctl.primary # "none" /\ site = "sind"
      /\ cmd.nodes \subseteq Worker /\ cmd.original \subseteq Worker
      /\ ~Done(t)
  <2>1. TypeOK /\ PhaseInv /\ t \in PhaseTasks
    BY <1>1 DEF ScalingInv, TypeOK
  <2>2. cmd.nodes \subseteq Worker /\ cmd.original \subseteq Worker
    BY <2>1 DEF TypeOK, Command
  <2>3. t \notin cmd.nodes
    BY <2>2 DEF ScalingConstants, TaskNames
  <2>4. /\ t = "conf" => phase \in {"register", "unlist", "revert"} /\ cmd.edits
        /\ t = "restore" => phase = "restore"
    BY <2>1, <2>3 DEF PhaseTasks, ConfTasks, TypeOK, Phases, PhaseInv
  <2>5. cmd.edits /\ ctl.primary # "none" /\ site = "sind"
    BY <2>1, <2>4 DEF PhaseInv
  <2> QED
    BY <1>1, <2>2, <2>4, <2>5 DEF ScalingInv, Done
<1>3. \A s : Done(s)' => Done(s) \/ s = t
  BY <1>1 DEF Done
<1>4. TypeOK' /\ PhaseInv' /\ CleanInv'
  <2>1. /\ phase # "idle" /\ t # "reconfigure" /\ MaxFaults \in Nat
        /\ {conf', known', names'} \subseteq SUBSET Worker
        /\ site = "sind"
        /\ nodes' \in [Worker -> {"none", "created", "running"}] /\ managed' \subseteq Containers'
    BY <1>1, <1>2 DEF ScalingConstants, TypeOK, PhaseInv, Containers
  <2> QED
    BY <1>1, <1>2, <2>1, TaskStep
<1>5. AddedInv'
  <2>1. \A s \in Worker \union {"addNames", "dropNames"} : Done(s)' => Done(s)
    BY <1>3 DEF ScalingConstants, TaskNames
  <2>2. cmd \in Command
    BY <1>2 DEF TypeOK
  <2> QED
    BY <1>1, <1>2, <2>1, <2>2, NodesSame
<1>6. t = "conf" => ~Done("reconfigure") /\ ~Done("reconfigure")'
  BY <1>2, <1>3 DEF PhaseInv
<1>7. AddedLines'
  BY <1>1, <1>2, <1>3, <1>6 DEF AddedLines, PhaseInv
<1>8. RemovedLines'
  <2>1. CASE phase = "unlist"
    BY <1>1, <1>2, <1>3, <1>6, <2>1 DEF RemovedLines
  <2>2. CASE phase = "restore"
    BY <1>1, <1>2, <1>3, <1>6, <2>2 DEF RemovedLines
  <2>3. CASE phase \in {"register", "revert"}
    BY <1>1, <1>2, <2>3 DEF PhaseInv, RemovedLines
  <2> QED
    BY <1>1, <1>2, <2>1, <2>2, <2>3
<1>9. LinesInv'
  <2>1. CASE phase = "register"
    <3>1. /\ conf \subseteq conf' /\ conf' = cmd.was \union cmd.nodes
          /\ cmd.nodes \subseteq managed /\ cmd.was \subseteq managed \union suspect
          /\ known \subseteq conf \union suspect
      BY <1>1, <1>2, <2>1 DEF AddedLines, AddedInv, PhaseInv, LinesInv
    <3> QED
      BY <1>1, <1>2, <2>1, <3>1 DEF LinesInv
  <2>2. CASE phase = "revert"
    <3>1. /\ conf \subseteq conf' \union cmd.nodes /\ conf' = cmd.was
          /\ cmd.was \subseteq managed \union suspect
          /\ known \subseteq conf \union suspect \union cmd.nodes
      BY <1>1, <1>2, <2>2 DEF AddedLines, PhaseInv, LinesInv
    <3> QED
      BY <1>1, <1>2, <1>6, <2>2, <3>1 DEF LinesInv
  <2>3. CASE phase \in {"unlist", "restore"}
    <3>1. conf' \subseteq cmd.original /\ cmd.original \subseteq managed \union suspect
      BY <1>1, <1>2, <2>3 DEF RemovedLines, PhaseInv
    <3> QED
      BY <1>1, <1>2, <1>6, <2>3, <3>1 DEF LinesInv
  <2> QED
    BY <1>1, <1>2, <2>1, <2>2, <2>3
<1>10. Results' /\ NoPhantoms'
  BY <1>1, <1>2, <1>4, NoResultYet
<1> QED
  BY <1>4, <1>5, <1>7, <1>8, <1>9, <1>10 DEF ScalingInv

(* slurmctld reads the file.                                               *)
LEMMA ReconfigureStep ==
  ASSUME NEW k, ScalingConstants(k), ScalingInv, Reconfigure
  PROVE  ScalingInv' /\ Results'
<1> DEFINE t == "reconfigure"
<1>1. /\ t \in todo
      /\ todo' = todo \ {t}
      /\ \/ UNCHANGED <<failed, faults>>
         \/ failed' = failed \union {t} /\ faults < MaxFaults /\ faults' = faults + 1
      /\ known' = conf
      /\ UNCHANGED <<site, ctl, conf, names, nodes, managed, phase, cmd, outcome, suspect,
                     commands>>
      /\ Done("conf")
  BY DEF Reconfigure, Finishes, Open, Needs, Ends, FailsTask, Strikes, workers, Done
<1>2. /\ TypeOK /\ PhaseInv /\ AddedInv /\ AddedLines /\ RemovedLines /\ LinesInv /\ CleanInv
      /\ phase \in {"register", "unlist", "revert"} /\ cmd.edits
      /\ cmd.nodes \subseteq Worker
  <2>1. TypeOK /\ t \in PhaseTasks
    BY <1>1 DEF ScalingInv, TypeOK
  <2>2. cmd.nodes \subseteq Worker
    BY <2>1 DEF TypeOK, Command
  <2>3. t \notin cmd.nodes
    BY <2>2 DEF ScalingConstants, TaskNames
  <2> QED
    BY <2>1, <2>2, <2>3 DEF ScalingInv, PhaseInv, PhaseTasks, ConfTasks, TypeOK, Phases
<1>3. \A s : Done(s)' => Done(s) \/ s = t
  BY <1>1 DEF Done
<1>4. TypeOK' /\ PhaseInv' /\ CleanInv'
  <2>1. /\ phase # "idle" /\ MaxFaults \in Nat
        /\ {conf', known', names'} \subseteq SUBSET Worker
        /\ (site # "sind" => conf' = {} /\ known' = {})
        /\ nodes' \in [Worker -> {"none", "created", "running"}] /\ managed' \subseteq Containers'
    BY <1>1, <1>2 DEF ScalingConstants, TypeOK, PhaseInv, Containers
  <2> QED
    BY <1>1, <1>2, <2>1, TaskStep
<1>5. AddedInv'
  <2>1. \A s \in Worker \union {"addNames", "dropNames"} : Done(s)' => Done(s)
    BY <1>3 DEF ScalingConstants, TaskNames
  <2>2. cmd \in Command
    BY <1>2 DEF TypeOK
  <2> QED
    BY <1>1, <1>2, <2>1, <2>2, NodesSame
<1>6. Done("conf")' <=> Done("conf")
  BY <1>1 DEF Done
<1>7. AddedLines'
  BY <1>1, <1>2, <1>6 DEF AddedLines
<1>8. RemovedLines'
  BY <1>1, <1>2, <1>6 DEF RemovedLines
<1>9. LinesInv'
  BY <1>1, <1>2 DEF LinesInv
<1>10. Results' /\ NoPhantoms'
  BY <1>1, <1>2, <1>4, NoResultYet
<1> QED
  BY <1>4, <1>5, <1>7, <1>8, <1>9, <1>10 DEF ScalingInv

(* A task ends that changes nothing of the cluster: the wait for the new   *)
(* slurmds, or one whose call fails.                                       *)
LEMMA IdleSteps ==
  ASSUME NEW k, ScalingConstants(k), ScalingInv, EnableSlurm \/ TaskFails
  PROVE  ScalingInv' /\ Results'
<1>1. PICK t \in todo :
        /\ Open(t)
        /\ todo' = todo \ {t}
        /\ \/ UNCHANGED <<failed, faults>> /\ t = "slurmd"
           \/ failed' = failed \union {t} /\ faults < MaxFaults /\ faults' = faults + 1
           \/ /\ failed' = failed \union {t} /\ UNCHANGED faults
              /\ t \in OnController /\ ~(cmd.runs /\ Running(cmd.via))
        /\ UNCHANGED <<site, ctl, conf, known, names, nodes, managed, phase, cmd, outcome,
                       suspect, commands>>
  BY DEF EnableSlurm, TaskFails, Finishes, Open, Ends, FailsTask, Strikes, resources, workers,
         slurm
<1>2. /\ TypeOK /\ PhaseInv /\ AddedInv /\ AddedLines /\ RemovedLines /\ LinesInv /\ CleanInv
      /\ phase # "idle" /\ cmd \in Command
      /\ t \in OnController => cmd.edits
      /\ t = "reconfigure" => Done("conf")
  <2>1. TypeOK /\ PhaseInv /\ t \in PhaseTasks /\ cmd \in Command
    BY <1>1 DEF ScalingInv, TypeOK
  <2>2. cmd.nodes \subseteq Worker
    BY <2>1 DEF Command
  <2>3. t \in OnController => t \notin cmd.nodes
    BY <2>2 DEF ScalingConstants, TaskNames, OnController
  <2>4. t \in OnController => cmd.edits
    BY <2>1, <2>3 DEF PhaseTasks, ConfTasks, OnController, PhaseInv
  <2>5. t = "reconfigure" => Done("conf")
    BY <1>1 DEF Open, Needs, Done
  <2> QED
    BY <2>1, <2>4, <2>5 DEF ScalingInv, PhaseTasks
<1>3. \A s : Done(s)' => Done(s) \/ s = "slurmd"
  BY <1>1 DEF Done
<1>4. TypeOK' /\ PhaseInv' /\ CleanInv'
  <2>1. /\ MaxFaults \in Nat
        /\ {conf', known', names'} \subseteq SUBSET Worker
        /\ (site # "sind" => conf' = {} /\ known' = {})
        /\ nodes' \in [Worker -> {"none", "created", "running"}] /\ managed' \subseteq Containers'
    BY <1>1, <1>2 DEF ScalingConstants, TypeOK, PhaseInv, Containers
  <2> QED
    BY <1>1, <1>2, <2>1, TaskStep
<1>5. AddedInv'
  <2>1. \A s \in Worker \union {"addNames", "dropNames"} : Done(s)' => Done(s)
    BY <1>3 DEF ScalingConstants, TaskNames
  <2> QED
    BY <1>1, <1>2, <2>1, NodesSame
<1>6. AddedLines' /\ RemovedLines' /\ LinesInv'
  BY <1>1, <1>2, <1>3, SlurmSame
<1>7. Results' /\ NoPhantoms'
  BY <1>1, <1>2, <1>4, NoResultYet
<1> QED
  BY <1>4, <1>5, <1>6, <1>7 DEF ScalingInv

-------------------------------------------------------------------------------
(* The beginnings of phases.                                               *)

(* A phase begins with its tasks, and none has failed.                     *)
LEMMA EnterStep ==
  ASSUME TypeOK, NEW p \in Phases, NEW T, Enter(p, T), cmd' \in Command, T \subseteq PhaseTasks',
         UNCHANGED <<resources, outcome, suspect, faults, commands>>
  PROVE  TypeOK' /\ phase' = p /\ todo' = T /\ failed' = {} /\ \A s : Done(s)' <=> s \notin T
<1>1. phase' = p /\ todo' = T /\ failed' = {}
  BY DEF Enter
<1> QED
  BY <1>1 DEF TypeOK, Done, resources, slurm, workers, Containers

(* A command begins, with what it must know of its workers.                *)
LEMMA BeginStep ==
  ASSUME ScalingInv, NEW kind \in {"add", "remove"}, NEW N \in SUBSET Worker,
         NEW edits \in BOOLEAN, NEW p \in {"read", "setup", "unlist"}, NEW T,
         Begin(kind, N, edits, p, T), MaxCommands \in Nat,
         edits <=> p = "read",
         p = "read" => T = {"read"},
         p = "setup" => kind = "add" /\ T = N,
         p = "unlist" => kind = "remove" /\ T = {"dropNames"},
         kind = "add" => N \intersect Containers = {},
         ctl.primary = "none" => kind = "remove" /\ ~edits,
         kind = "remove" /\ ~edits /\ ctl.primary # "none" =>
           conf \intersect N \subseteq suspect /\ conf \intersect N \intersect managed = {}
  PROVE  ScalingInv' /\ Results'
<1>1. /\ TypeOK /\ PhaseInv /\ LinesInv /\ phase = "idle" /\ failed' = {} /\ phase' = p
      /\ todo' = T /\ outcome' = "none" /\ commands < MaxCommands /\ commands' = commands + 1
      /\ UNCHANGED <<site, ctl, conf, known, names, nodes, managed, suspect, faults>>
  BY DEF ScalingInv, Begin, Enter, resources, slurm, workers
<1>2. FindController \in Controller \union {"none"} /\ Running(FindController) \in BOOLEAN
  BY DEF FindController, Controller, Running
<1>3. /\ cmd' \in Command
      /\ cmd'.kind = kind /\ cmd'.nodes = N /\ cmd'.edits = edits /\ cmd'.was = conf
      /\ cmd'.named = names /\ cmd'.since = faults /\ ~cmd'.untidy
      /\ cmd'.via = FindController /\ cmd'.runs = Running(FindController)
      /\ cmd'.ran <=> InControl(ctl) # "none"
  <2> DEFINE ran == InControl(ctl) # "none"
             via == FindController
             runs == Running(FindController)
  <2>1. cmd' = [NoCommand EXCEPT !.kind = kind, !.nodes = N, !.edits = edits, !.via = via,
                  !.runs = runs, !.was = conf, !.named = names, !.since = faults, !.ran = ran]
    BY DEF Begin
  <2>2. /\ ran \in BOOLEAN /\ via \in Controller \union {"none"} /\ runs \in BOOLEAN
        /\ faults \in Nat /\ conf \subseteq Worker /\ names \subseteq Worker
    BY <1>1, <1>2 DEF TypeOK
  <2> HIDE DEF ran, via, runs
  <2>3. cmd' = [kind |-> kind, nodes |-> N, via |-> via, runs |-> runs, edits |-> edits,
                original |-> {}, untidy |-> FALSE, was |-> conf, named |-> names,
                since |-> faults, ran |-> ran]
    BY <2>1 DEF NoCommand
  <2>4. /\ cmd' \in Command
        /\ cmd'.kind = kind /\ cmd'.nodes = N /\ cmd'.edits = edits /\ cmd'.was = conf
        /\ cmd'.named = names /\ cmd'.since = faults /\ cmd'.untidy = FALSE
        /\ cmd'.via = via /\ cmd'.runs = runs /\ cmd'.ran = ran
    BY <2>2, <2>3 DEF Command
  <2> QED
    BY <2>4 DEF ran, via, runs
<1>4. \A s : Done(s)' <=> s \notin T
  BY <1>1 DEF Done
<1>5. TypeOK'
  <2>1. T \subseteq PhaseTasks'
    BY <1>1, <1>3 DEF PhaseTasks
  <2>2. commands' \in 0..MaxCommands
    BY <1>1 DEF TypeOK
  <2> QED
    BY <1>1, <1>3, <2>1, <2>2 DEF TypeOK, Phases, Outcome, Containers
<1>6. PhaseInv'
  BY <1>1, <1>3, <1>4 DEF PhaseInv
<1>7. AddedInv'
  BY <1>1, <1>3, <1>4 DEF AddedInv, Containers
<1>8. AddedLines'
  <2>1. kind = "add" => conf \subseteq managed \union suspect /\ conf \intersect N \subseteq suspect
    BY <1>1 DEF LinesInv, TypeOK
  <2> QED
    BY <1>1, <1>3, <2>1 DEF AddedLines
<1>9. RemovedLines'
  BY <1>1, <1>3 DEF RemovedLines
<1>10. LinesInv'
  BY <1>1, <1>3 DEF LinesInv
<1>11. CleanInv'
  <2>1. cmd'.ran => Running(FindController)
    BY <1>1, <1>3 DEF InControl, FindController, Running, TypeOK, Controller
  <2>2. faults \in Nat
    BY <1>1 DEF TypeOK
  <2> QED
    BY <1>1, <1>3, <2>1, <2>2 DEF CleanInv, Running
<1>12. Results' /\ NoPhantoms'
  BY <1>1, <1>6, NoResultYet
<1> QED
  BY <1>5, <1>6, <1>7, <1>8, <1>9, <1>10, <1>11, <1>12 DEF ScalingInv

(* WorkerAdd begins.                                                       *)
LEMMA BeginAddStep ==
  ASSUME NEW k, ScalingConstants(k), ScalingInv, BeginAdd
  PROVE  ScalingInv' /\ Results'
<1>1. PICK count \in 1..MaxCount, unmanaged \in BOOLEAN :
        LET N == {n \in Worker : index[n] \in NextIndex..NextIndex + count - 1}
            edits == ~unmanaged /\ site # "unmanaged"
        IN  IF edits THEN Begin("add", N, TRUE, "read", {"read"})
                     ELSE Begin("add", N, FALSE, "setup", N)
  BY DEF BeginAdd
<1> DEFINE N == {n \in Worker : index[n] \in NextIndex..NextIndex + count - 1}
<1>2. N \subseteq Worker /\ N \intersect Containers = {}
  <2>1. NextIndex \in Nat /\ \A n \in Containers : index[n] < NextIndex
    BY NextIsPast
  <2>2. \A n \in N : n \notin Containers
    <3> SUFFICES ASSUME NEW n \in N, n \in Containers PROVE FALSE
      OBVIOUS
    <3>1. index[n] \in Int /\ index[n] >= NextIndex /\ index[n] < NextIndex
      BY <2>1
    <3> QED
      BY <2>1, <3>1
  <2> QED
    BY <2>2
<1>3. \/ Begin("add", N, TRUE, "read", {"read"})
      \/ Begin("add", N, FALSE, "setup", N)
  BY <1>1
<1>4. ctl.primary # "none" /\ MaxCommands \in Nat
  BY DEF BeginAdd, FindController, ScalingInv, PhaseInv, ScalingConstants
<1> HIDE DEF N
<1>5. CASE Begin("add", N, TRUE, "read", {"read"})
  BY <1>2, <1>4, <1>5, BeginStep
<1>6. CASE Begin("add", N, FALSE, "setup", N)
  BY <1>2, <1>4, <1>6, BeginStep
<1> QED
  BY <1>3, <1>5, <1>6

(* WorkerRemove begins: without an edit for workers that have no line, or  *)
(* one that was told.                                                      *)
LEMMA BeginRemoveStep ==
  ASSUME NEW k, ScalingConstants(k), ScalingInv, BeginRemove
  PROVE  ScalingInv' /\ Results'
<1>1. PICK N \in (SUBSET Containers) \ {{}} :
        IF FindController # "none" /\ site # "unmanaged" /\ N \intersect managed # {}
          THEN Begin("remove", N, TRUE, "read", {"read"})
          ELSE Begin("remove", N, FALSE, "unlist", {"dropNames"})
  BY DEF BeginRemove
<1>2. /\ TypeOK /\ PhaseInv /\ LinesInv /\ N \subseteq Worker /\ MaxCommands \in Nat
      /\ phase = "idle"
      /\ ctl.primary # "none" <=> FindController # "none"
  <2>1. phase = "idle"
    BY <1>1 DEF Begin
  <2>2. ctl.primary # "none" <=> FindController # "none"
    BY DEF ScalingInv, PhaseInv, FindController
  <2> QED
    BY <2>1, <2>2 DEF ScalingInv, Containers, ScalingConstants
<1>3. CASE FindController # "none" /\ site # "unmanaged" /\ N \intersect managed # {}
  <2>1. Begin("remove", N, TRUE, "read", {"read"})
    BY <1>1, <1>3
  <2> QED
    BY <1>2, <1>3, <2>1, BeginStep
<1>4. CASE ~(FindController # "none" /\ site # "unmanaged" /\ N \intersect managed # {})
  <2>1. Begin("remove", N, FALSE, "unlist", {"dropNames"})
    BY <1>1, <1>4
  <2>2. ctl.primary # "none" =>
          conf \intersect N \subseteq suspect /\ conf \intersect N \intersect managed = {}
    BY <1>2, <1>4 DEF PhaseInv, LinesInv
  <2> QED
    BY <1>2, <2>1, <2>2, BeginStep
<1> QED
  BY <1>3, <1>4

(* The file is read, or is missing for a removal.                          *)
LEMMA ReadSteps ==
  ASSUME NEW k, ScalingConstants(k), ScalingInv,
         ReadNodesConf \/ (NodesConfMissing /\ cmd.kind # "add")
  PROVE  ScalingInv' /\ Results'
<1>1. /\ TypeOK /\ PhaseInv /\ AddedInv /\ AddedLines /\ RemovedLines /\ LinesInv /\ CleanInv
      /\ phase = "read" /\ cmd.edits /\ ctl.primary # "none"
      /\ cmd.kind \in {"add", "remove"}
      /\ UNCHANGED <<site, ctl, conf, known, names, nodes, managed, outcome, suspect, faults,
                     commands>>
  <2>1. phase = "read"
    BY DEF ScalingInv, TypeOK, PhaseTasks, ConfTasks, Command, ScalingConstants, TaskNames, Open,
           ReadNodesConf, NodesConfMissing
  <2>2. /\ PhaseInv
        /\ UNCHANGED <<site, ctl, conf, known, names, nodes, managed, outcome, suspect, faults,
                       commands>>
    BY DEF ScalingInv, ReadNodesConf, NodesConfMissing, resources, slurm, workers
  <2>3. cmd.kind # "none" /\ cmd.edits
    BY <2>1, <2>2 DEF PhaseInv
  <2>4. ctl.primary # "none"
    BY <2>1, <2>2, <2>3 DEF PhaseInv
  <2> QED
    BY <2>1, <2>2, <2>3, <2>4 DEF ScalingInv, TypeOK, Command
<1>2. cmd \in Command /\ cmd.nodes \subseteq Worker /\ conf \subseteq Worker
  BY <1>1 DEF TypeOK, Command
<1>3. CASE ReadNodesConf /\ cmd.kind = "add"
  <2>1. /\ cmd' = [cmd EXCEPT !.original = conf] /\ site = "sind"
        /\ Enter("setup", cmd.nodes)
    BY <1>1, <1>3 DEF ReadNodesConf
  <2>2. /\ cmd' \in Command /\ cmd'.original = conf /\ cmd'.kind = "add" /\ cmd'.edits
        /\ cmd'.nodes = cmd.nodes /\ cmd'.was = cmd.was /\ cmd'.named = cmd.named
        /\ cmd'.untidy = cmd.untidy /\ cmd'.runs = cmd.runs /\ cmd'.via = cmd.via
        /\ cmd'.since = cmd.since /\ cmd'.ran = cmd.ran
    BY <1>1, <1>2, <1>3, <2>1 DEF Command
  <2>3. TypeOK' /\ phase' = "setup" /\ failed' = {} /\ \A s : Done(s)' <=> s \notin cmd.nodes
    <3>1. cmd.nodes \subseteq PhaseTasks'
      BY <2>1, <2>2 DEF PhaseTasks, Enter
    <3> QED
      BY <1>1, <2>1, <2>2, <3>1, EnterStep DEF Phases, resources, slurm, workers
  <2>4. PhaseInv' /\ AddedInv'
    BY <1>1, <1>3, <2>1, <2>2, <2>3 DEF PhaseInv, AddedInv, Containers
  <2>5. AddedLines' /\ RemovedLines' /\ LinesInv'
    BY <1>1, <1>3, <2>2, <2>3 DEF AddedLines, RemovedLines, LinesInv
  <2>6. CleanInv'
    BY <1>1, <2>2, <2>3 DEF CleanInv, Running
  <2> QED
    BY <2>3, <2>4, <2>5, <2>6, NoResultYet DEF ScalingInv
<1>4. CASE ReadNodesConf /\ cmd.kind = "remove"
  <2> DEFINE T == {"dropNames"} \union IF cmd.nodes \intersect conf # {} THEN ConfTasks ELSE {}
  <2>1. /\ cmd' = [cmd EXCEPT !.original = conf] /\ site = "sind"
        /\ Enter("unlist", T)
    BY <1>1, <1>4 DEF ReadNodesConf
  <2>2. /\ cmd' \in Command /\ cmd'.original = conf /\ cmd'.kind = "remove" /\ cmd'.edits
        /\ cmd'.nodes = cmd.nodes /\ cmd'.was = cmd.was /\ cmd'.named = cmd.named
        /\ cmd'.untidy = cmd.untidy /\ cmd'.runs = cmd.runs /\ cmd'.via = cmd.via
        /\ cmd'.since = cmd.since /\ cmd'.ran = cmd.ran
    BY <1>1, <1>2, <1>4, <2>1 DEF Command
  <2>3. TypeOK' /\ phase' = "unlist" /\ failed' = {} /\ \A s : Done(s)' <=> s \notin T
    <3>1. T \subseteq PhaseTasks'
      BY <2>1, <2>2 DEF PhaseTasks, Enter
    <3> HIDE DEF T
    <3> QED
      BY <1>1, <2>1, <2>2, <3>1, EnterStep DEF Phases, resources, slurm, workers
  <2>4. Done("conf")' => cmd.nodes \intersect conf = {}
    BY <2>3 DEF ConfTasks
  <2>5. Done("reconfigure")' => Done("conf")'
    BY <2>3 DEF ConfTasks
  <2>6. PhaseInv' /\ AddedInv'
    BY <1>1, <1>4, <2>1, <2>2, <2>3, <2>5 DEF PhaseInv, AddedInv, Containers
  <2>7. known \subseteq conf \union suspect /\ conf \subseteq managed \union suspect
    BY <1>1 DEF LinesInv
  <2>8. AddedLines' /\ RemovedLines' /\ LinesInv'
    BY <1>1, <1>4, <2>2, <2>3, <2>4, <2>7 DEF AddedLines, RemovedLines, LinesInv
  <2>9. CleanInv'
    BY <1>1, <2>2, <2>3 DEF CleanInv, Running
  <2> QED
    BY <2>3, <2>6, <2>8, <2>9, NoResultYet DEF ScalingInv
<1>5. CASE NodesConfMissing /\ cmd.kind # "add"
  <2>1. /\ cmd' = [cmd EXCEPT !.edits = FALSE] /\ site = "replaced"
        /\ Enter("unlist", {"dropNames"})
    BY <1>1, <1>5 DEF NodesConfMissing
  <2>2. /\ cmd' \in Command /\ cmd'.kind = "remove" /\ ~cmd'.edits
        /\ cmd'.nodes = cmd.nodes /\ cmd'.was = cmd.was /\ cmd'.named = cmd.named
        /\ cmd'.untidy = cmd.untidy /\ cmd'.runs = cmd.runs /\ cmd'.via = cmd.via
        /\ cmd'.since = cmd.since /\ cmd'.ran = cmd.ran
    BY <1>1, <1>2, <1>5, <2>1 DEF Command
  <2>3. TypeOK' /\ phase' = "unlist" /\ failed' = {} /\ \A s : Done(s)' <=> s # "dropNames"
    <3>1. {"dropNames"} \subseteq PhaseTasks'
      BY <2>1, <2>2 DEF PhaseTasks, Enter
    <3>2. UNCHANGED <<resources, outcome, suspect, faults, commands>> /\ "unlist" \in Phases
      BY <1>1 DEF Phases, resources, slurm, workers
    <3>3. /\ TypeOK' /\ phase' = "unlist" /\ failed' = {}
          /\ \A s : Done(s)' <=> s \notin {"dropNames"}
      BY <1>1, <2>1, <2>2, <3>1, <3>2, EnterStep
    <3> QED
      BY <3>3
  <2>4. PhaseInv' /\ AddedInv'
    BY <1>1, <2>1, <2>2, <2>3 DEF PhaseInv, AddedInv, Containers
  <2>5. conf = {} /\ known = {}
    BY <1>1, <2>1 DEF PhaseInv
  <2>6. AddedLines' /\ RemovedLines' /\ LinesInv'
    BY <1>1, <2>2, <2>3, <2>5 DEF AddedLines, RemovedLines, LinesInv
  <2>7. CleanInv'
    BY <1>1, <2>2, <2>3 DEF CleanInv, Running
  <2> QED
    BY <2>3, <2>4, <2>6, <2>7, NoResultYet DEF ScalingInv
<1> QED
  BY <1>1, <1>3, <1>4, <1>5

(* The containers are set up, or a rollback begins.                        *)
LEMMA SetupOverStep ==
  ASSUME NEW k, ScalingConstants(k), ScalingInv, SetupOver
  PROVE  ScalingInv' /\ Results'
<1>1. /\ TypeOK /\ PhaseInv /\ AddedInv /\ AddedLines /\ RemovedLines /\ LinesInv /\ CleanInv
      /\ phase = "setup" /\ cmd.kind = "add" /\ ~cmd.untidy
      /\ UNCHANGED <<site, ctl, conf, known, names, nodes, managed, outcome, suspect, faults,
                     commands, cmd>>
      /\ cmd \in Command /\ cmd.nodes \subseteq Worker
  BY DEF ScalingInv, SetupOver, resources, slurm, workers, PhaseInv, TypeOK, Command
<1>2. CASE failed # {}
  <2>1. Enter("cleanup", {"dropNames"} \union cmd.nodes)
    BY <1>2 DEF SetupOver
  <2>2. /\ TypeOK' /\ phase' = "cleanup" /\ failed' = {}
        /\ \A s : Done(s)' <=> s \notin {"dropNames"} \union cmd.nodes
    <3>1. {"dropNames"} \union cmd.nodes \subseteq PhaseTasks'
      BY <1>1, <2>1 DEF PhaseTasks, Enter
    <3> QED
      BY <1>1, <2>1, <3>1, EnterStep DEF Phases, resources, slurm, workers
  <2>3. PhaseInv' /\ AddedInv'
    BY <1>1, <2>2 DEF PhaseInv, AddedInv
  <2>4. AddedLines' /\ RemovedLines' /\ LinesInv'
    BY <1>1, <2>2 DEF AddedLines, RemovedLines, LinesInv
  <2>5. CleanInv'
    BY <1>1, <1>2, <2>2 DEF CleanInv
  <2> QED
    BY <2>2, <2>3, <2>4, <2>5, NoResultYet DEF ScalingInv
<1>3. CASE failed = {}
  <2> DEFINE T == {"addNames"} \union IF cmd.edits THEN ConfTasks \union {"slurmd"} ELSE {}
  <2>1. Enter("register", T) /\ todo = {}
    BY <1>3 DEF SetupOver
  <2>2. /\ TypeOK' /\ phase' = "register" /\ failed' = {}
        /\ \A s : Done(s)' <=> s \notin T
    <3>1. T \subseteq PhaseTasks'
      BY <1>1, <2>1 DEF PhaseTasks, Enter
    <3> HIDE DEF T
    <3> QED
      BY <1>1, <2>1, <3>1, EnterStep DEF Phases, resources, slurm, workers
  <2>3. ~Done("addNames")' /\ (cmd.edits => ~Done("conf")' /\ ~Done("reconfigure")')
        /\ (Done("reconfigure")' => Done("conf")')
    BY <2>2 DEF ConfTasks
  <2>4. \A n \in cmd.nodes : nodes[n] = "running"
    BY <1>1, <1>3, <2>1 DEF AddedInv, Done
  <2>5. PhaseInv' /\ AddedInv'
    BY <1>1, <2>2, <2>3, <2>4 DEF PhaseInv, AddedInv, Containers
  <2>6. AddedLines' /\ RemovedLines' /\ LinesInv'
    BY <1>1, <2>2, <2>3 DEF AddedLines, RemovedLines, LinesInv
  <2>7. CleanInv'
    BY <1>1, <2>2 DEF CleanInv, Running
  <2> QED
    BY <2>2, <2>5, <2>6, <2>7, NoResultYet DEF ScalingInv
<1> QED
  BY <1>2, <1>3

(* A failed registration is reverted, or there is nothing to revert.       *)
LEMMA RegisterFailedStep ==
  ASSUME NEW k, ScalingConstants(k), ScalingInv, RegisterOver, failed # {}
  PROVE  ScalingInv' /\ Results'
<1>1. /\ TypeOK /\ PhaseInv /\ AddedInv /\ AddedLines /\ RemovedLines /\ LinesInv /\ CleanInv
      /\ phase = "register" /\ cmd.kind = "add" /\ ~cmd.untidy
      /\ UNCHANGED <<site, ctl, conf, known, names, nodes, managed, outcome, suspect, faults,
                     commands, cmd>>
      /\ cmd \in Command /\ cmd.nodes \subseteq Worker
  BY DEF ScalingInv, RegisterOver, Over, resources, slurm, workers, PhaseInv, TypeOK, Command
<1>2. CASE cmd.edits
  <2>1. Enter("revert", ConfTasks)
    BY <1>2 DEF RegisterOver
  <2>2. /\ TypeOK' /\ phase' = "revert" /\ failed' = {}
        /\ \A s : Done(s)' <=> s \notin ConfTasks
    <3>1. ConfTasks \subseteq PhaseTasks'
      BY <1>1, <2>1 DEF PhaseTasks, Enter
    <3> QED
      BY <1>1, <2>1, <3>1, EnterStep DEF Phases, resources, slurm, workers
  <2>3. ~Done("conf")' /\ ~Done("reconfigure")'
    BY <2>2 DEF ConfTasks
  <2>4. PhaseInv' /\ AddedInv'
    BY <1>1, <1>2, <2>2, <2>3 DEF PhaseInv, AddedInv
  <2>5. AddedLines' /\ RemovedLines' /\ LinesInv'
    BY <1>1, <1>2, <2>2, <2>3 DEF AddedLines, RemovedLines, LinesInv
  <2>6. CleanInv'
    BY <1>1, <2>2 DEF CleanInv
  <2> QED
    BY <2>2, <2>4, <2>5, <2>6, NoResultYet DEF ScalingInv
<1>3. CASE ~cmd.edits
  <2>1. Enter("cleanup", {"dropNames"} \union cmd.nodes)
    BY <1>3 DEF RegisterOver
  <2>2. /\ TypeOK' /\ phase' = "cleanup" /\ failed' = {}
        /\ \A s : Done(s)' <=> s \notin {"dropNames"} \union cmd.nodes
    <3>1. {"dropNames"} \union cmd.nodes \subseteq PhaseTasks'
      BY <1>1, <2>1 DEF PhaseTasks, Enter
    <3> QED
      BY <1>1, <2>1, <3>1, EnterStep DEF Phases, resources, slurm, workers
  <2>3. PhaseInv' /\ AddedInv'
    BY <1>1, <1>3, <2>2 DEF PhaseInv, AddedInv
  <2>4. AddedLines' /\ RemovedLines' /\ LinesInv'
    BY <1>1, <1>3, <2>2 DEF AddedLines, RemovedLines, LinesInv
  <2>5. CleanInv'
    BY <1>1, <2>2 DEF CleanInv
  <2> QED
    BY <2>2, <2>3, <2>4, <2>5, NoResultYet DEF ScalingInv
<1> QED
  BY <1>2, <1>3

(* The rollback has reverted the file, or knows that it has not.           *)
LEMMA RevertOverStep ==
  ASSUME NEW k, ScalingConstants(k), ScalingInv, RevertOver
  PROVE  ScalingInv' /\ Results'
<1>1. /\ TypeOK /\ PhaseInv /\ AddedInv /\ AddedLines /\ RemovedLines /\ LinesInv /\ CleanInv
      /\ phase = "revert" /\ cmd.kind = "add" /\ cmd.edits
      /\ UNCHANGED <<site, ctl, conf, known, names, nodes, managed, outcome, suspect, faults,
                     commands>>
      /\ cmd \in Command /\ cmd.nodes \subseteq Worker
      /\ failed = {} => todo = {}
  BY OverPhase
     DEF ScalingInv, RevertOver, resources, slurm, workers, PhaseInv, TypeOK, Command
<1>2. /\ cmd' = [cmd EXCEPT !.untidy = failed # {}]
      /\ Enter("cleanup", {"dropNames"} \union cmd.nodes)
  BY DEF RevertOver
<1>3. /\ cmd' \in Command /\ cmd'.kind = "add" /\ cmd'.edits /\ (cmd'.untidy <=> failed # {})
      /\ cmd'.nodes = cmd.nodes /\ cmd'.was = cmd.was /\ cmd'.named = cmd.named
      /\ cmd'.since = cmd.since /\ cmd'.ran = cmd.ran
  <2> DEFINE b == failed # {}
  <2>1. b \in BOOLEAN /\ cmd' = [cmd EXCEPT !.untidy = b]
    BY <1>2
  <2> HIDE DEF b
  <2>2. /\ cmd' \in Command /\ cmd'.kind = "add" /\ cmd'.edits /\ cmd'.untidy = b
        /\ cmd'.nodes = cmd.nodes /\ cmd'.was = cmd.was /\ cmd'.named = cmd.named
        /\ cmd'.since = cmd.since /\ cmd'.ran = cmd.ran
    BY <1>1, <2>1 DEF Command
  <2> QED
    BY <2>2 DEF b
<1>4. /\ TypeOK' /\ phase' = "cleanup" /\ failed' = {}
      /\ \A s : Done(s)' <=> s \notin {"dropNames"} \union cmd.nodes
  <2>1. {"dropNames"} \union cmd.nodes \subseteq PhaseTasks'
    BY <1>2, <1>3 DEF PhaseTasks, Enter
  <2> QED
    BY <1>1, <1>2, <1>3, <2>1, EnterStep DEF Phases, resources, slurm, workers
<1>5. PhaseInv' /\ AddedInv'
  BY <1>1, <1>3, <1>4 DEF PhaseInv, AddedInv
<1>6. failed = {} => Done("conf") /\ Done("reconfigure")
  BY <1>1 DEF Done
<1>7. AddedLines' /\ RemovedLines'
  BY <1>1, <1>3, <1>4, <1>6 DEF AddedLines, RemovedLines
<1>8. LinesInv'
  <2>1. CASE failed = {}
    BY <1>1, <1>3, <1>4, <1>6, <2>1 DEF LinesInv, AddedLines
  <2>2. CASE failed # {}
    BY <1>1, <1>3, <1>4, <2>2 DEF LinesInv
  <2> QED
    BY <2>1, <2>2
<1>9. CleanInv'
  BY <1>1, <1>3, <1>4 DEF CleanInv
<1> QED
  BY <1>4, <1>5, <1>7, <1>8, <1>9, NoResultYet DEF ScalingInv

(* Slurm was told of a removal, or gets its lines back.                    *)
LEMMA UnlistOverStep ==
  ASSUME NEW k, ScalingConstants(k), ScalingInv, UnlistOver
  PROVE  ScalingInv' /\ Results'
<1>1. /\ TypeOK /\ PhaseInv /\ AddedInv /\ AddedLines /\ RemovedLines /\ LinesInv /\ CleanInv
      /\ phase = "unlist" /\ cmd.kind = "remove" /\ ~cmd.untidy
      /\ UNCHANGED <<site, ctl, conf, known, names, nodes, managed, outcome, suspect, faults,
                     commands, cmd>>
      /\ cmd \in Command /\ cmd.nodes \subseteq Worker
      /\ {"conf", "reconfigure"} \intersect failed = {} => todo = {}
  BY OverPhase
     DEF ScalingInv, UnlistOver, resources, slurm, workers, PhaseInv, TypeOK, Command
<1>2. CASE failed \intersect ConfTasks = {}
  <2>1. Enter("delete", cmd.nodes)
    BY <1>2 DEF UnlistOver
  <2>2. /\ TypeOK' /\ phase' = "delete" /\ failed' = {}
        /\ \A s : Done(s)' <=> s \notin cmd.nodes
    <3>1. cmd.nodes \subseteq PhaseTasks'
      BY <1>1, <2>1 DEF PhaseTasks, Enter
    <3> QED
      BY <1>1, <2>1, <3>1, EnterStep DEF Phases, resources, slurm, workers
  <2>3. Done("conf") /\ Done("reconfigure")
    BY <1>1, <1>2 DEF Done, ConfTasks
  <2>4. PhaseInv' /\ AddedInv'
    BY <1>1, <2>2 DEF PhaseInv, AddedInv
  <2>5. AddedLines' /\ RemovedLines' /\ LinesInv'
    BY <1>1, <2>2, <2>3 DEF AddedLines, RemovedLines, LinesInv
  <2>6. CleanInv'
    BY <1>1, <2>2 DEF CleanInv, Running
  <2> QED
    BY <2>2, <2>4, <2>5, <2>6, NoResultYet DEF ScalingInv
<1>3. CASE failed \intersect ConfTasks # {}
  <2>1. Enter("restore", {"restore"})
    BY <1>3 DEF UnlistOver
  <2>2. /\ TypeOK' /\ phase' = "restore" /\ failed' = {}
        /\ \A s : Done(s)' <=> s # "restore"
    <3>1. {"restore"} \subseteq PhaseTasks'
      BY <1>1, <2>1 DEF PhaseTasks, Enter
    <3> QED
      BY <1>1, <2>1, <3>1, EnterStep DEF Phases, resources, slurm, workers
  <2>3. cmd.edits
    <3>1. failed \subseteq {"dropNames"} \union IF cmd.edits THEN ConfTasks ELSE {}
      BY <1>1 DEF TypeOK, PhaseTasks
    <3> QED
      BY <1>3, <3>1 DEF ConfTasks
  <2>4. PhaseInv' /\ AddedInv'
    BY <1>1, <2>2, <2>3 DEF PhaseInv, AddedInv
  <2>5. AddedLines' /\ RemovedLines' /\ LinesInv'
    BY <1>1, <2>2, <2>3 DEF AddedLines, RemovedLines, LinesInv
  <2>6. CleanInv'
    BY <1>1, <1>3, <2>2 DEF CleanInv
  <2> QED
    BY <2>2, <2>4, <2>5, <2>6, NoResultYet DEF ScalingInv
<1> QED
  BY <1>2, <1>3

-------------------------------------------------------------------------------
(* The ends of commands.                                                   *)

(* The file could not be read, or is missing for an add.                   *)
LEMMA ReadFailsSteps ==
  ASSUME NEW k, ScalingConstants(k), ScalingInv,
         ReadFails \/ (NodesConfMissing /\ cmd.kind = "add")
  PROVE  ScalingInv' /\ Results'
<1>1. /\ TypeOK /\ PhaseInv /\ AddedInv /\ AddedLines /\ LinesInv /\ CleanInv
      /\ phase = "read" /\ Leave("error") /\ UNCHANGED <<resources, faults, commands>>
      /\ cmd' = cmd \/ cmd' = [cmd EXCEPT !.edits = FALSE]
      /\ failed # {} \/ (site = "replaced" /\ cmd.kind = "add")
  <2>1. phase = "read"
    BY DEF ScalingInv, TypeOK, PhaseTasks, ConfTasks, Command, ScalingConstants, TaskNames, Open,
           ReadFails, NodesConfMissing
  <2>2. CASE ReadFails
    BY <2>1, <2>2 DEF ScalingInv, ReadFails
  <2>3. CASE NodesConfMissing /\ cmd.kind = "add"
    BY <2>1, <2>3 DEF ScalingInv, NodesConfMissing
  <2> QED
    BY <2>2, <2>3
<1>2. /\ phase' = "idle" /\ outcome' = "error" /\ suspect' = suspect
      /\ UNCHANGED <<site, ctl, conf, known, names, nodes, managed>>
  BY <1>1 DEF Leave, Enter, resources, slurm, workers
<1>3. /\ cmd'.kind = cmd.kind /\ cmd'.nodes = cmd.nodes /\ cmd'.was = cmd.was
      /\ cmd'.named = cmd.named /\ cmd'.since = cmd.since /\ cmd'.ran = cmd.ran
  BY <1>1 DEF TypeOK, Command
<1>4. ScalingInv'
  <2>1. LinesInv'
    BY <1>1, <1>2 DEF LinesInv
  <2>2. faults' \in faults..MaxFaults /\ "error" \in Outcome
    BY <1>1 DEF TypeOK, Outcome
  <2> QED
    BY <1>1, <2>1, <2>2, LeaveStep
<1>5. FailedAddUndone' /\ WorkDone'
  BY <1>1, <1>2, <1>3 DEF FailedAddUndone, WorkDone, AddedInv, AddedLines, Containers
<1>6. RetryWorks'
  BY <1>1, <1>2, <1>3 DEF RetryWorks, CleanInv
<1> QED
  BY <1>4, <1>5, <1>6 DEF Results

(* An add has done its work.                                               *)
LEMMA AddedStep ==
  ASSUME NEW k, ScalingConstants(k), ScalingInv, RegisterOver, failed = {}
  PROVE  ScalingInv' /\ Results'
<1>1. /\ TypeOK /\ PhaseInv /\ AddedInv /\ AddedLines /\ LinesInv /\ CleanInv
      /\ phase = "register" /\ Leave("ok") /\ UNCHANGED <<resources, faults, commands, cmd>>
      /\ todo = {} /\ cmd.kind = "add" /\ ctl.primary # "none"
  BY OverPhase DEF ScalingInv, RegisterOver, Over, PhaseInv
<1>2. /\ phase' = "idle" /\ outcome' = "ok"
      /\ suspect' = IF cmd.edits THEN suspect \ cmd.nodes ELSE suspect
      /\ UNCHANGED <<site, ctl, conf, known, names, nodes, managed>>
  BY <1>1 DEF Leave, Enter, resources, slurm, workers
<1>3. Done("conf") /\ Done("reconfigure") /\ Done("addNames")
  BY <1>1 DEF Done
<1>4. /\ cmd.nodes \subseteq names /\ \A n \in cmd.nodes : nodes[n] = "running"
      /\ cmd.edits => cmd.nodes \subseteq managed /\ cmd.nodes \subseteq conf \intersect known
  BY <1>1, <1>3 DEF AddedInv, AddedLines
<1>5. ScalingInv'
  <2>1. LinesInv'
    BY <1>1, <1>2, <1>4 DEF LinesInv
  <2>2. faults' \in faults..MaxFaults /\ "ok" \in Outcome
    BY <1>1 DEF TypeOK, Outcome
  <2> QED
    BY <1>1, <2>1, <2>2, LeaveStep
<1>6. FailedAddUndone' /\ RetryWorks' /\ WorkDone'
  BY <1>1, <1>2, <1>4 DEF FailedAddUndone, RetryWorks, WorkDone
<1> QED
  BY <1>5, <1>6 DEF Results

(* The rollback of an add is over.                                         *)
LEMMA CleanupOverStep ==
  ASSUME NEW k, ScalingConstants(k), ScalingInv, CleanupOver
  PROVE  ScalingInv' /\ Results'
<1> DEFINE r == IF failed # {} \/ cmd.untidy THEN "untidy" ELSE "error"
<1>1. /\ TypeOK /\ PhaseInv /\ AddedInv /\ AddedLines /\ LinesInv /\ CleanInv
      /\ phase = "cleanup" /\ Leave(r) /\ UNCHANGED <<resources, faults, commands, cmd>>
      /\ cmd.kind = "add" /\ ctl.primary # "none"
      /\ failed = {} => todo = {}
  BY OverPhase DEF ScalingInv, CleanupOver, Over, PhaseInv
<1>2. /\ phase' = "idle" /\ outcome' = r
      /\ suspect' = IF r = "untidy" THEN suspect \union cmd.nodes ELSE suspect
      /\ UNCHANGED <<site, ctl, conf, known, names, nodes, managed>>
  BY <1>1 DEF Leave, Enter, resources, slurm, workers
<1>3. ScalingInv'
  <2>1. LinesInv'
    BY <1>1, <1>2 DEF LinesInv
  <2>2. faults' \in faults..MaxFaults /\ r \in Outcome
    BY <1>1 DEF TypeOK, Outcome
  <2> HIDE DEF r
  <2> QED
    BY <1>1, <2>1, <2>2, LeaveStep
<1>4. FailedAddUndone'
  <2> SUFFICES ASSUME r = "error"
               PROVE  /\ cmd.nodes \intersect Containers = {}
                      /\ names \subseteq cmd.named /\ conf = cmd.was
    BY <1>1, <1>2 DEF FailedAddUndone, Containers
  <2>1. Done("dropNames") /\ \A n \in cmd.nodes : Done(n)
    BY <1>1 DEF Done
  <2> QED
    BY <1>1, <2>1 DEF AddedInv, AddedLines, Containers
<1>5. WorkDone' /\ RetryWorks'
  BY <1>1, <1>2 DEF WorkDone, RetryWorks, CleanInv
<1> QED
  BY <1>3, <1>4, <1>5 DEF Results

(* A removal is over, undone, or stops before its containers go.           *)
LEMMA RemovalEnds ==
  ASSUME NEW k, ScalingConstants(k), ScalingInv, RestoreOver \/ MonitoredFails \/ DeleteOver
  PROVE  ScalingInv' /\ Results'
<1>1. PICK r \in {"ok", "error", "untidy"} :
        /\ Leave(r) /\ UNCHANGED <<resources, commands, cmd>>
        /\ \/ phase = "restore" /\ r = "untidy"
           \/ phase = "restore" /\ r = "error" /\ Over("restore") /\ failed = {}
           \/ phase = "delete" /\ r = "error" /\ (failed # {} \/ faults' = faults + 1)
           \/ phase = "delete" /\ r = "ok" /\ Over("delete") /\ failed = {}
        /\ UNCHANGED faults \/ (faults < MaxFaults /\ faults' = faults + 1)
  <2>1. CASE RestoreOver
    <3>1. phase = "restore" /\ Over("restore") /\ UNCHANGED <<resources, commands, cmd, faults>>
      BY <2>1 DEF RestoreOver, Over
    <3>2. IF failed = {} THEN Leave("error") ELSE Leave("untidy")
      BY <2>1 DEF RestoreOver
    <3> QED
      BY <3>1, <3>2
  <2>2. CASE MonitoredFails
    BY <2>2 DEF MonitoredFails, Strikes
  <2>3. CASE DeleteOver
    <3>1. phase = "delete" /\ Over("delete") /\ UNCHANGED <<resources, commands, cmd, faults>>
      BY <2>3 DEF DeleteOver, Over
    <3>2. IF failed = {} THEN Leave("ok") ELSE Leave("error")
      BY <2>3 DEF DeleteOver
    <3> QED
      BY <3>1, <3>2
  <2> QED
    BY <2>1, <2>2, <2>3
<1>2. /\ TypeOK /\ PhaseInv /\ AddedInv /\ RemovedLines /\ LinesInv /\ CleanInv
      /\ phase \in {"restore", "delete"} /\ cmd.kind = "remove"
      /\ (phase = "restore" => ctl.primary # "none")
      /\ (phase = "restore" /\ r = "error") \/ r = "ok" => failed = {} /\ todo = {}
  <2>1. Over("restore") \/ Over("delete") => (failed = {} => todo = {})
    BY OverPhase DEF ScalingInv
  <2> QED
    BY <1>1, <2>1 DEF ScalingInv, PhaseInv
<1>3. /\ phase' = "idle" /\ outcome' = r
      /\ suspect' = IF r = "untidy" THEN suspect \union cmd.nodes ELSE suspect
      /\ UNCHANGED <<site, ctl, conf, known, names, nodes, managed>>
  BY <1>1, <1>2 DEF Leave, Enter, resources, slurm, workers
<1>4. ScalingInv'
  <2>1. LinesInv'
    <3>1. CASE phase = "restore" /\ r = "untidy"
      BY <1>2, <1>3, <3>1 DEF LinesInv, RemovedLines
    <3>2. CASE phase = "restore" /\ r = "error"
      <4>1. Done("restore")
        BY <1>2, <3>2 DEF Done
      <4> QED
        BY <1>2, <1>3, <3>2, <4>1 DEF LinesInv, RemovedLines
    <3>3. CASE phase = "delete"
      BY <1>1, <1>2, <1>3, <3>3 DEF LinesInv
    <3> QED
      BY <1>1, <3>1, <3>2, <3>3
  <2>2. faults \in Nat /\ MaxFaults \in Nat /\ faults <= MaxFaults
    BY <1>2 DEF TypeOK, ScalingConstants
  <2>3. faults' \in faults..MaxFaults /\ r \in Outcome
    BY <1>1, <2>2 DEF Outcome
  <2> QED
    BY <1>1, <1>2, <2>1, <2>3, LeaveStep
<1>5. FailedAddUndone'
  BY <1>1, <1>2 DEF FailedAddUndone
<1>6. WorkDone'
  <2> SUFFICES ASSUME r = "ok", ctl.primary # "none"
               PROVE  cmd.nodes \intersect (conf \union known) \subseteq suspect
    <3>1. r = "ok" => cmd.nodes \intersect Containers = {}
      BY <1>1, <1>2 DEF AddedInv, Containers, Done
    <3> QED
      BY <1>1, <1>2, <1>3, <3>1 DEF WorkDone, Containers
  <2>1. phase = "delete"
    BY <1>1
  <2>2. known \subseteq conf \union suspect /\ conf \intersect cmd.nodes \subseteq suspect
    BY <1>2, <2>1 DEF LinesInv, RemovedLines
  <2> QED
    BY <2>2
<1>7. RetryWorks'
  <2>1. cmd.since \in Nat /\ faults \in Nat /\ cmd.since <= faults
    BY <1>2 DEF TypeOK, Command, CleanInv
  <2> QED
    BY <1>1, <1>2, <1>3, <2>1 DEF RetryWorks, CleanInv
<1> QED
  BY <1>4, <1>5, <1>6, <1>7 DEF Results

(* A command is killed.                                                    *)
LEMMA KillStep ==
  ASSUME NEW k, ScalingConstants(k), ScalingInv, Kill
  PROVE  ScalingInv' /\ Results'
<1>1. /\ TypeOK /\ PhaseInv /\ AddedLines /\ RemovedLines /\ LinesInv /\ CleanInv
      /\ phase # "idle" /\ Leave("killed") /\ UNCHANGED <<resources, commands, cmd>>
      /\ faults < MaxFaults /\ faults' = faults + 1
  BY DEF ScalingInv, Kill, Strikes
<1>2. /\ phase' = "idle" /\ outcome' = "killed" /\ suspect' = suspect \union cmd.nodes
      /\ UNCHANGED <<site, ctl, conf, known, names, nodes, managed>>
  BY <1>1 DEF Leave, Enter, resources, slurm, workers
<1>3. /\ cmd.since \in Nat /\ faults \in Nat /\ cmd.since <= faults /\ MaxFaults \in Nat
  BY <1>1 DEF TypeOK, Command, CleanInv, ScalingConstants
<1>4. ScalingInv'
  <2>1. ctl.primary # "none" =>
          /\ conf \subseteq managed \union suspect \union cmd.nodes
          /\ known \subseteq conf \union suspect \union cmd.nodes
    <3>1. CASE phase \in {"unlist", "restore"}
      <4>1. cmd.kind = "remove"
        BY <1>1, <3>1 DEF PhaseInv
      <4>2. CASE phase = "unlist" /\ ~cmd.edits
        BY <1>1, <4>2 DEF LinesInv, TypeOK, PhaseTasks, Done
      <4>3. CASE phase = "restore" \/ (phase = "unlist" /\ cmd.edits)
        BY <1>1, <4>1, <4>3 DEF LinesInv, RemovedLines
      <4> QED
        BY <3>1, <4>2, <4>3
    <3>2. CASE phase \notin {"unlist", "restore"}
      BY <1>1, <3>2 DEF LinesInv
    <3> QED
      BY <3>1, <3>2
  <2>2. LinesInv'
    BY <1>1, <1>2, <2>1 DEF LinesInv
  <2>3. faults' \in faults..MaxFaults /\ "killed" \in Outcome
    BY <1>1, <1>3 DEF Outcome
  <2> QED
    BY <1>1, <2>2, <2>3, LeaveStep
<1>5. Results'
  BY <1>1, <1>2, <1>3 DEF Results, FailedAddUndone, WorkDone, RetryWorks
<1> QED
  BY <1>4, <1>5

-------------------------------------------------------------------------------
(* What happens beside the command: a controller stops, or starts again    *)
(* and slurmctld reads the file.                                           *)
LEMMA PowerStep ==
  ASSUME NEW k, ScalingConstants(k), ScalingInv, Results, NEW c \in Controller, Power(c)
  PROVE  ScalingInv' /\ Results'
<1>1. /\ TypeOK /\ PhaseInv /\ AddedInv /\ AddedLines /\ RemovedLines /\ LinesInv /\ CleanInv
      /\ faults < MaxFaults /\ faults' = faults + 1
      /\ known' \in {known, conf}
      /\ UNCHANGED <<site, conf, names, nodes, managed, phase, todo, failed, cmd, outcome,
                     suspect, commands>>
  BY DEF ScalingInv, Power, Strikes, workers, work
<1>2. /\ ctl' \in [Controller -> {"none", "running", "stopped"}]
      /\ ctl'.primary = "none" <=> ctl.primary = "none"
      /\ ctl'.backup = "none" <=> ctl.backup = "none"
  BY <1>1 DEF Power, TypeOK, Controller
<1>3. cmd \in Command /\ cmd.since \in Nat /\ faults \in Nat /\ cmd.since <= faults
      /\ MaxFaults \in Nat
  BY <1>1 DEF TypeOK, Command, CleanInv, ScalingConstants
<1>4. \A t : Done(t)' <=> Done(t)
  BY <1>1 DEF Done
<1>5. TypeOK'
  <2>1. PhaseTasks' = PhaseTasks /\ Containers' = Containers
    BY <1>1 DEF PhaseTasks, Containers
  <2>2. faults' \in 0..MaxFaults
    BY <1>1, <1>3
  <2> QED
    BY <1>1, <1>2, <2>1, <2>2 DEF TypeOK
<1>6. PhaseInv'
  BY <1>1, <1>2, <1>4 DEF PhaseInv
<1>7. AddedInv'
  BY <1>1, <1>3, <1>4, NodesSame
<1>8. AddedLines'
  BY <1>1, <1>4 DEF AddedLines, PhaseInv
<1>9. RemovedLines'
  BY <1>1, <1>2, <1>4 DEF RemovedLines
<1>10. LinesInv'
  BY <1>1, <1>2, <1>4 DEF LinesInv
<1>11. CleanInv'
  BY <1>1, <1>3 DEF CleanInv
<1>12. NoPhantoms'
  BY <1>1, <1>2, <1>5, <1>10 DEF NoPhantoms, LinesInv, TypeOK
<1>13. FailedAddUndone' /\ RetryWorks'
  BY <1>1, <1>3 DEF Results, FailedAddUndone, RetryWorks, Containers
<1>14. WorkDone'
  <2>1. CASE phase = "idle" /\ outcome = "ok" /\ cmd.kind = "add"
    BY <1>1, <2>1 DEF Results, WorkDone
  <2>2. CASE phase = "idle" /\ outcome = "ok" /\ cmd.kind = "remove"
    BY <1>1, <1>2, <2>2 DEF Results, WorkDone, Containers
  <2>3. phase = "idle" /\ outcome = "ok" => cmd.kind \in {"add", "remove"}
    BY <1>1, <1>3 DEF PhaseInv, Command
  <2> QED
    BY <1>1, <2>1, <2>2, <2>3 DEF WorkDone
<1> QED
  BY <1>5, <1>6, <1>7, <1>8, <1>9, <1>10, <1>11, <1>12, <1>13, <1>14 DEF ScalingInv, Results

(* Every initial state is one between two commands.                        *)
LEMMA InitStep ==
  ASSUME NEW k, ScalingConstants(k), Init
  PROVE  ScalingInv /\ Results
<1>1. /\ First \subseteq Worker /\ managed \subseteq First /\ conf \subseteq managed
      /\ known = conf /\ names = First
      /\ phase = "idle" /\ todo = {} /\ failed = {} /\ outcome = "none" /\ suspect = {}
      /\ faults = 0 /\ commands = 0 /\ site \in Site /\ (site # "sind" => conf = {})
      /\ nodes = [n \in Worker |-> IF n \in First THEN "running" ELSE "none"]
  BY DEF Init, First, Site
<1>2. cmd \in Command /\ cmd.kind = "none" /\ cmd.since = 0
  BY DEF Init, NoCommand, Command
<1>3. /\ ctl \in [Controller -> {"none", "running", "stopped"}]
      /\ ctl.primary = "none" => ctl.backup = "none"
  BY DEF Init, Controller
<1>4. First = Containers
  BY <1>1 DEF Containers
<1>5. TypeOK
  BY <1>1, <1>2, <1>3, <1>4 DEF TypeOK, ScalingConstants, Phases, PhaseTasks, Outcome
<1>6. PhaseInv /\ AddedInv /\ AddedLines /\ RemovedLines
  BY <1>1, <1>2, <1>3 DEF PhaseInv, AddedInv, AddedLines, RemovedLines
<1>7. LinesInv /\ CleanInv
  BY <1>1, <1>2 DEF LinesInv, CleanInv
<1>8. NoPhantoms
  BY <1>1, <1>4 DEF NoPhantoms
<1>9. Results
  BY <1>1, <1>2 DEF Results, FailedAddUndone, WorkDone, RetryWorks
<1> QED
  BY <1>5, <1>6, <1>7, <1>8, <1>9 DEF ScalingInv

(* Every step keeps the invariant, and the promises with it.               *)
LEMMA NextStep ==
  ASSUME NEW k, ScalingConstants(k), ScalingInv, Results, [Next]_vars
  PROVE  ScalingInv' /\ Results'
<1>1. CASE UNCHANGED vars
  <2>1. UNCHANGED <<site, ctl, conf, known, names, nodes, managed, phase, todo, failed, cmd,
                    outcome, suspect, faults, commands>>
    BY <1>1 DEF vars, resources, slurm, workers, work
  <2>2. \A t : Done(t)' <=> Done(t)
    BY <2>1 DEF Done
  <2>3. Containers' = Containers /\ PhaseTasks' = PhaseTasks
    BY <2>1 DEF Containers, PhaseTasks
  <2>4. TypeOK' /\ PhaseInv' /\ AddedInv'
    BY <2>1, <2>2, <2>3 DEF ScalingInv, TypeOK, PhaseInv, AddedInv
  <2>5. AddedLines' /\ RemovedLines' /\ LinesInv'
    BY <2>1, <2>2 DEF ScalingInv, AddedLines, RemovedLines, LinesInv
  <2>6. CleanInv' /\ NoPhantoms'
    BY <2>1, <2>3 DEF ScalingInv, CleanInv, Running, NoPhantoms, InControl
  <2>7. Results'
    BY <2>1, <2>3 DEF Results, FailedAddUndone, WorkDone, RetryWorks
  <2> QED
    BY <2>4, <2>5, <2>6, <2>7 DEF ScalingInv
<1>2. CASE AddStep
  <2>1. CASE \E n \in Worker : CreateNode(n) \/ StartNode(n)
    BY <2>1, SetupSteps
  <2>2. CASE SetupOver
    BY <2>2, SetupOverStep
  <2>3. CASE RegisterNodes
    BY <2>3, NameSteps
  <2>4. CASE EnableSlurm
    BY <2>4, IdleSteps
  <2>5. CASE RegisterOver
    BY <2>5, AddedStep, RegisterFailedStep
  <2>6. CASE RevertOver
    BY <2>6, RevertOverStep
  <2>7. CASE CleanupOver
    BY <2>7, CleanupOverStep
  <2> QED
    BY <1>2, <2>1, <2>2, <2>3, <2>4, <2>5, <2>6, <2>7 DEF AddStep
<1>3. CASE RemoveStep
  <2>1. CASE UnlistOver
    BY <2>1, UnlistOverStep
  <2>2. CASE RestoreConf
    BY <2>2, WriteSteps
  <2>3. CASE RestoreOver \/ DeleteOver
    BY <2>3, RemovalEnds
  <2> QED
    BY <1>3, <2>1, <2>2, <2>3 DEF RemoveStep
<1>4. CASE ReadNodesConf
  BY <1>4, ReadSteps
<1>5. CASE NodesConfMissing
  BY <1>5, ReadSteps, ReadFailsSteps
<1>6. CASE ReadFails
  BY <1>6, ReadFailsSteps
<1>7. CASE WriteNodesConf
  BY <1>7, WriteSteps
<1>8. CASE Reconfigure
  BY <1>8, ReconfigureStep
<1>9. CASE DeregisterMesh
  BY <1>9, NameSteps
<1>10. CASE \E n \in Worker : RemoveContainer(n)
  BY <1>10, RemoveSteps
<1>11. CASE BeginAdd
  BY <1>11, BeginAddStep
<1>12. CASE BeginRemove
  BY <1>12, BeginRemoveStep
<1>13. CASE TaskFails
  BY <1>13, IdleSteps
<1>14. CASE MonitoredFails
  BY <1>14, RemovalEnds
<1>15. CASE Kill
  BY <1>15, KillStep
<1>16. CASE \E c \in Controller : Power(c)
  BY <1>16, PowerStep
<1> QED
  BY <1>1, <1>2, <1>3, <1>4, <1>5, <1>6, <1>7, <1>8, <1>9, <1>10, <1>11, <1>12, <1>13, <1>14,
     <1>15, <1>16 DEF Next, CommandStep

(* Only the removal of its container takes a worker's container away.      *)
LEMMA OnlyRemoved ==
  ASSUME NEW k, ScalingConstants(k), ScalingInv, [Next]_vars, NEW n \in managed, nodes'[n] = "none"
  PROVE  RemoveContainer(n)
<1>1. TypeOK /\ n \in Worker /\ nodes[n] # "none"
  BY DEF ScalingInv, TypeOK, Containers
<1>2. nodes' # nodes
  BY <1>1
<1>3. \E m \in Worker : CreateNode(m) \/ StartNode(m) \/ RemoveContainer(m)
  BY <1>2
     DEF Next, CommandStep, AddStep, RemoveStep, vars, resources, workers, work,
         ReadNodesConf, NodesConfMissing, ReadFails, SetupOver, RegisterNodes, EnableSlurm,
         RegisterOver, RevertOver, CleanupOver, UnlistOver, RestoreConf, WritesConf, RestoreOver,
         DeleteOver, WriteNodesConf, Reconfigure, DeregisterMesh, SetsNames, BeginAdd,
         BeginRemove, Begin, TaskFails, MonitoredFails, Kill, Power
<1>4. PICK m \in Worker : CreateNode(m) \/ StartNode(m) \/ RemoveContainer(m)
  BY <1>3
<1>5. m = n
  <2>1. \E st : nodes' = [nodes EXCEPT ![m] = st]
    BY <1>4 DEF CreateNode, StartNode, RemoveContainer
  <2> QED
    BY <1>1, <2>1 DEF TypeOK
<1>6. ~CreateNode(n) /\ ~StartNode(n)
  BY <1>1 DEF CreateNode, StartNode, TypeOK
<1> QED
  BY <1>4, <1>5, <1>6

-------------------------------------------------------------------------------
(* Between two commands Slurm has no phantom worker, in its file or in     *)
(* slurmctld, of which no command has told: with any workers, failed       *)
(* calls, kills and power commands.                                        *)
THEOREM ScalingInvHolds ==
  ASSUME NEW k, ScalingConstants(k)
  PROVE  Spec => []ScalingInv
<1>1. Init => ScalingInv /\ Results
  BY InitStep
<1>2. ScalingInv /\ Results /\ [Next]_vars => (ScalingInv /\ Results)'
  BY NextStep
<1> QED
  BY <1>1, <1>2, PTL DEF Spec

(* What a command that has ended promises.                                 *)
LEMMA ResultsHold ==
  ASSUME NEW k, ScalingConstants(k)
  PROVE  Spec => [](FailedAddUndone /\ WorkDone /\ RetryWorks)
<1>1. Init => ScalingInv /\ Results
  BY InitStep
<1>2. ScalingInv /\ Results /\ [Next]_vars => (ScalingInv /\ Results)'
  BY NextStep
<1>3. Results => FailedAddUndone /\ WorkDone /\ RetryWorks
  BY DEF Results
<1> QED
  BY <1>1, <1>2, <1>3, PTL DEF Spec

(* An add that failed without naming what its rollback left has left       *)
(* nothing.                                                                *)
THEOREM FailedAddUndoneHolds ==
  ASSUME NEW k, ScalingConstants(k)
  PROVE  Spec => []FailedAddUndone
BY ResultsHold, PTL

(* A command that ended without an error did its work.                     *)
THEOREM WorkDoneHolds ==
  ASSUME NEW k, ScalingConstants(k)
  PROVE  Spec => []WorkDone
BY ResultsHold, PTL

(* A command that meets a running controller and no failure ends without   *)
(* an error, whatever the commands before it left.                         *)
THEOREM RetryWorksHolds ==
  ASSUME NEW k, ScalingConstants(k)
  PROVE  Spec => []RetryWorks
BY ResultsHold, PTL

(* A removal takes a managed worker's container away once its line is gone *)
(* from sind-nodes.conf, whatever happens to the controllers meanwhile.    *)
THEOREM LineGoesFirstHolds ==
  ASSUME NEW k, ScalingConstants(k)
  PROVE  Spec => LineGoesFirst
<1>1. ASSUME ScalingInv, [Next]_vars, NEW n \in managed, nodes'[n] = "none",
             cmd.kind = "remove", ctl.primary # "none"
      PROVE  n \notin conf
  <2>1. RemoveContainer(n)
    BY <1>1, OnlyRemoved
  <2>2. /\ TypeOK /\ PhaseInv /\ RemovedLines
        /\ phase \in {"cleanup", "delete"} /\ n \in todo /\ n \notin TaskNames
    BY <1>1, <2>1 DEF ScalingInv, TypeOK, Containers, RemoveContainer, Finishes, Open, ScalingConstants
  <2>3. phase = "delete"
    BY <1>1, <2>2 DEF PhaseInv
  <2>4. n \in cmd.nodes
    BY <2>2, <2>3 DEF TypeOK, PhaseTasks
  <2> QED
    BY <1>1, <2>2, <2>3, <2>4 DEF RemovedLines
<1>2. ScalingInv /\ [Next]_vars =>
        [\A n \in managed : nodes'[n] = "none" /\ cmd.kind = "remove" /\ ctl.primary # "none"
           => n \notin conf]_vars
  BY <1>1
<1>3. Spec => []ScalingInv
  BY ScalingInvHolds
<1> QED
  BY <1>2, <1>3, PTL DEF Spec, LineGoesFirst
===============================================================================

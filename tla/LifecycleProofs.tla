--------------------------- MODULE LifecycleProofs ---------------------------
(***************************************************************************)
(* Proofs about the mesh and about creating and deleting clusters          *)
(* (Lifecycle, which extends Mesh).                                        *)
(*                                                                         *)
(* The mesh: for any names, faults, bounds and number of commands, an      *)
(* EnsureMesh that returns no error leaves a mesh that works (MeshInv),    *)
(* and a create whose EnsureMesh failed leaves no container and no volume  *)
(* that was not there (MeshUndone).  The argument is the order of the      *)
(* tasks: EnsureDone and EnsureWhole say of each part what has been seen   *)
(* to once its tasks have ended, and EnsureOrder that a task that ended or *)
(* failed waited for its needs.  The proofs about the commands cite the    *)
(* lemmas about one step.                                                  *)
(*                                                                         *)
(* The clusters: for any clusters, nodes, faults, bounds and number of     *)
(* commands, a cluster that create gave to its user stays whole until it   *)
(* is deleted (ClusterInv), and every command that ended kept its promise: *)
(* a delete empties (DeleteEmpties), a failed create leaves nothing        *)
(* (FailedCreateUndone), and one that meets no fault works                 *)
(* (NextCreateWorks).                                                      *)
(*                                                                         *)
(* The argument is CommandInv, what a command has done in each phase: a    *)
(* task that ended left its resource, the target of a removal is no        *)
(* cluster of a user, and the mesh goes only when there is none.  There is *)
(* one lemma per kind of step; TaskFrame says what a task cannot disturb,  *)
(* TurnKeeps what a step of the command itself cannot.  The results are    *)
(* proved in the same induction, as each concerns the step that ends.      *)
(***************************************************************************)
EXTENDS Lifecycle, TLAPS

-----------------------------------------------------------------------------
(* The mesh.                                                               *)

\* EnsureOrder in full, of tasks T to do and F that failed.
Order(T, F) ==
  /\ T \intersect F = {}
  /\ "removePlain" \notin T => "createNetwork" \notin T \union F
  /\ "pinNetwork" \notin T => "removePlain" \notin T \union F
  /\ "createDNS" \notin T => "pinNetwork" \notin T \union F
  /\ "writeCorefile" \notin T => "createDNS" \notin T \union F
  /\ "startDNS" \notin T => "writeCorefile" \notin T \union F
  /\ "createVolume" \notin T => "pinNetwork" \notin T \union F
  /\ "createRelay" \notin T => {"startDNS", "createVolume"} \intersect (T \union F) = {}
  /\ "writeKeys" \notin T => "createVolume" \notin T \union F
  /\ "startRelay" \notin T =>
       {"createRelay", "writeKeys", "startDNS"} \intersect (T \union F) = {}

\* The needs of EnsureMesh's tasks, each by its name.
LEMMA OrderInFull ==
  ASSUME NEW T, NEW F
  PROVE  Order(T, F) <=>
           /\ T \intersect F = {}
           /\ \A t \in EnsureTasks \ {"writeKeys"} :
                t \notin T => \A s \in MeshNeeds[t] : s \notin T \union F
           /\ "writeKeys" \notin T => "createVolume" \notin T \union F
<1> DEFINE O(t) == t \notin T => \A s \in MeshNeeds[t] : s \notin T \union F
<1>1. (\A t \in EnsureTasks \ {"writeKeys"} : O(t)) <=>
        /\ O("createNetwork") /\ O("removePlain") /\ O("pinNetwork") /\ O("createDNS")
        /\ O("writeCorefile") /\ O("startDNS") /\ O("createVolume") /\ O("createRelay")
        /\ O("startRelay")
  BY DEF EnsureTasks
<1>2. /\ MeshNeeds["createNetwork"] = {} /\ MeshNeeds["removePlain"] = {"createNetwork"}
      /\ MeshNeeds["pinNetwork"] = {"removePlain"} /\ MeshNeeds["createDNS"] = {"pinNetwork"}
      /\ MeshNeeds["writeCorefile"] = {"createDNS"}
      /\ MeshNeeds["startDNS"] = {"writeCorefile"}
      /\ MeshNeeds["createVolume"] = {"pinNetwork"}
      /\ MeshNeeds["createRelay"] = {"startDNS", "createVolume"}
      /\ MeshNeeds["startRelay"] = {"createRelay", "writeKeys", "startDNS"}
  BY DEF MeshNeeds
<1> QED
  BY <1>1, <1>2 DEF Order

\* EnsureOrder is that order of the tasks now.
LEMMA OrderIs == EnsureOrder <=> Order(todo, failed)
BY OrderInFull DEF EnsureOrder, Ended

\* EnsureOrder is that order of the tasks after a step.
LEMMA OrderNext == EnsureOrder' <=> Order(todo', failed')
BY OrderInFull DEF EnsureOrder, Ended

\* When each task may run, by its name.
LEMMA OpenIs ==
  /\ Open("removePlain") <=> "removePlain" \in todo /\ Ended("createNetwork")
  /\ Open("createNetwork") <=> "createNetwork" \in todo
  /\ Open("pinNetwork") <=> "pinNetwork" \in todo /\ Ended("removePlain")
  /\ Open("createDNS") <=> "createDNS" \in todo /\ Ended("pinNetwork")
  /\ Open("writeCorefile") <=> "writeCorefile" \in todo /\ Ended("createDNS")
  /\ Open("startDNS") <=> "startDNS" \in todo /\ Ended("writeCorefile")
  /\ Open("createVolume") <=> "createVolume" \in todo /\ Ended("pinNetwork")
  /\ Open("createRelay") <=>
       "createRelay" \in todo /\ Ended("startDNS") /\ Ended("createVolume")
  /\ Open("writeKeys") <=> "writeKeys" \in todo /\ Ended("createRelay")
  /\ Open("startRelay") <=>
       /\ "startRelay" \in todo
       /\ Ended("createRelay") /\ Ended("writeKeys") /\ Ended("startDNS")
  /\ Open("removeRelay") <=> "removeRelay" \in todo
  /\ Open("removeDNS") <=> "removeDNS" \in todo
  /\ Open("removeNetwork") <=>
       "removeNetwork" \in todo /\ Ended("removeRelay") /\ Ended("removeDNS")
  /\ Open("removeVolume") <=> "removeVolume" \in todo /\ Ended("removeNetwork")
BY DEF Open, MeshNeeds, Ended

\* A step of EnsureMesh keeps its order, and what it has seen to.
LEMMA EnsureStepKeeps ==
  ASSUME MeshTypeOK, phase = "ensure", todo \subseteq EnsureTasks, failed \subseteq EnsureTasks,
         EnsureOrder, EnsureDone, EnsureWhole, EnsureUndoable, EnsureStep
  PROVE  /\ MeshTypeOK' /\ phase' = "ensure"
         /\ todo' \subseteq EnsureTasks /\ failed' \subseteq EnsureTasks
         /\ (EnsureOrder /\ EnsureDone /\ EnsureWhole /\ EnsureUndoable)'
<1> USE DEF EnsureTasks
<1>1. CASE NetworkExists
  <2>1. Open("createNetwork") /\ mesh.net # "none"
    BY <1>1 DEF NetworkExists, Skip, Ends, FailsTask
  <2>2. /\ todo' = todo \ {"createNetwork", "removePlain", "pinNetwork"}
        /\ failed' = failed
    BY <1>1 DEF NetworkExists, Skip, Ends, FailsTask
  <2>3. UNCHANGED <<mesh, phase, created, attempt, before, outcome, commands>>
    BY <1>1 DEF NetworkExists, Skip, commandVars
  <2>4. faults' \in 0..MaxFaults
    BY <1>1, MeshBoundAssumption DEF NetworkExists, Skip, Ends, FailsTask,
        Strikes, MeshTypeOK
  <2>5. EnsureOrder'
    BY <2>1, <2>2, OrderIs, OrderNext, OpenIs DEF Order, Ended
  <2>6. (EnsureDone /\ EnsureWhole)'
    BY <2>1, <2>2, <2>3, OrderIs, OpenIs DEF Order, EnsureDone, EnsureWhole,
        Ended, MeshTypeOK
  <2>7. EnsureUndoable'
    BY <2>1, <2>2, <2>3, OrderIs, OpenIs DEF Order, EnsureDone, EnsureUndoable,
        Ended, Present, Part
  <2> QED
    BY <2>1, <2>2, <2>3, <2>4, <2>5, <2>6, <2>7, OpenIs DEF MeshTypeOK, EnsureDone
<1>2. CASE CreateNetwork
  <2>1. Open("createNetwork") /\ mesh.net = "none"
    BY <1>2 DEF CreateNetwork, SetsNetwork, Ends, FailsTask
  <2>2. \/ todo' = todo \ {"createNetwork"} /\ failed' = failed /\ created' = TRUE
        \/ todo' = todo \ {"createNetwork"} /\ failed' = failed \union {"createNetwork"} /\ created' = created
    BY <1>2 DEF CreateNetwork, SetsNetwork, Ends, FailsTask
  <2>3. /\ UNCHANGED <<phase, attempt, before, outcome, commands>>
        /\ mesh' \in MeshState
        /\ mesh'.net = "plain" /\ mesh'.dns = mesh.dns
        /\ mesh'.corefile = mesh.corefile /\ mesh'.records = mesh.records
        /\ mesh'.vol = mesh.vol /\ mesh'.hosts = mesh.hosts
        /\ mesh'.relay = mesh.relay
    BY <1>2 DEF CreateNetwork, SetsNetwork, Ends, FailsTask, commandVars,
        MeshTypeOK, MeshState, ContainerState
  <2>4. faults' \in 0..MaxFaults
    BY <1>2, MeshBoundAssumption DEF CreateNetwork, SetsNetwork, Ends, FailsTask,
        Strikes, MeshTypeOK
  <2>5. EnsureOrder'
    BY <2>1, <2>2, OrderIs, OrderNext, OpenIs DEF Order, Ended
  <2>6. (EnsureDone /\ EnsureWhole)'
    BY <2>1, <2>2, <2>3, OrderIs, OpenIs DEF Order, EnsureDone, EnsureWhole,
        Ended, MeshTypeOK
  <2>7. EnsureUndoable'
    BY <2>1, <2>2, <2>3, OrderIs, OpenIs DEF Order, EnsureDone, EnsureUndoable,
        Ended, Present, Part
  <2> QED
    BY <2>1, <2>2, <2>3, <2>4, <2>5, <2>6, <2>7, OpenIs DEF MeshTypeOK, EnsureDone
<1>3. CASE KeepNetwork
  <2>1. Open("removePlain")
    BY <1>3 DEF KeepNetwork, Skip, Ends, FailsTask
  <2>2. todo' = todo \ {"removePlain", "pinNetwork"} /\ failed' = failed
    BY <1>3 DEF KeepNetwork, Skip, Ends, FailsTask
  <2>3. UNCHANGED <<mesh, phase, created, attempt, before, outcome, commands>>
    BY <1>3 DEF KeepNetwork, Skip, commandVars
  <2>4. faults' \in 0..MaxFaults
    BY <1>3, MeshBoundAssumption DEF KeepNetwork, Skip, Ends, FailsTask, Strikes,
        MeshTypeOK
  <2>5. EnsureOrder'
    BY <2>1, <2>2, OrderIs, OrderNext, OpenIs DEF Order, Ended
  <2>6. (EnsureDone /\ EnsureWhole)'
    BY <2>1, <2>2, <2>3, OrderIs, OpenIs DEF Order, EnsureDone, EnsureWhole,
        Ended, MeshTypeOK
  <2>7. EnsureUndoable'
    BY <2>1, <2>2, <2>3, OrderIs, OpenIs DEF Order, EnsureDone, EnsureUndoable,
        Ended, Present, Part
  <2> QED
    BY <2>1, <2>2, <2>3, <2>4, <2>5, <2>6, <2>7, OpenIs DEF MeshTypeOK, EnsureDone
<1>4. CASE RemovePlain
  <2>1. Open("removePlain") /\ attempt <= Attempts
    BY <1>4 DEF RemovePlain, SetsNetwork, Ends, FailsTask
  <2>2. \/ todo' = todo \ {"removePlain"} /\ failed' = failed /\ created' = FALSE
        \/ todo' = todo \ {"removePlain"} /\ failed' = failed \union {"removePlain"} /\ created' = created
    BY <1>4 DEF RemovePlain, SetsNetwork, Ends, FailsTask
  <2>3. /\ UNCHANGED <<phase, attempt, before, outcome, commands>>
        /\ mesh' \in MeshState
        /\ mesh'.net = "none" /\ mesh'.dns = mesh.dns
        /\ mesh'.corefile = mesh.corefile /\ mesh'.records = mesh.records
        /\ mesh'.vol = mesh.vol /\ mesh'.hosts = mesh.hosts
        /\ mesh'.relay = mesh.relay
    BY <1>4 DEF RemovePlain, SetsNetwork, Ends, FailsTask, commandVars,
        MeshTypeOK, MeshState, ContainerState
  <2>4. faults' \in 0..MaxFaults
    BY <1>4, MeshBoundAssumption DEF RemovePlain, SetsNetwork, Ends, FailsTask,
        Strikes, MeshTypeOK
  <2>5. EnsureOrder'
    BY <2>1, <2>2, OrderIs, OrderNext, OpenIs DEF Order, Ended
  <2>6. (EnsureDone /\ EnsureWhole)'
    BY <2>1, <2>2, <2>3, OrderIs, OpenIs DEF Order, EnsureDone, EnsureWhole,
        Ended, MeshTypeOK
  <2>7. EnsureUndoable'
    BY <2>1, <2>2, <2>3, OrderIs, OpenIs DEF Order, EnsureDone, EnsureUndoable,
        Ended, Present, Part
  <2> QED
    BY <2>1, <2>2, <2>3, <2>4, <2>5, <2>6, <2>7, OpenIs DEF MeshTypeOK, EnsureDone
<1>5. CASE PinNetwork
  <2>1. Open("pinNetwork") /\ mesh.net = "none"
    BY <1>5 DEF PinNetwork, SetsNetwork, Ends, FailsTask
  <2>2. \/ todo' = todo \ {"pinNetwork"} /\ failed' = failed /\ created' = TRUE
        \/ todo' = todo \ {"pinNetwork"} /\ failed' = failed \union {"pinNetwork"} /\ created' = created
    BY <1>5 DEF PinNetwork, SetsNetwork, Ends, FailsTask
  <2>3. /\ UNCHANGED <<phase, attempt, before, outcome, commands>>
        /\ mesh' \in MeshState
        /\ mesh'.net = "pinned" /\ mesh'.dns = mesh.dns
        /\ mesh'.corefile = mesh.corefile /\ mesh'.records = mesh.records
        /\ mesh'.vol = mesh.vol /\ mesh'.hosts = mesh.hosts
        /\ mesh'.relay = mesh.relay
    BY <1>5 DEF PinNetwork, SetsNetwork, Ends, FailsTask, commandVars, MeshTypeOK,
        MeshState, ContainerState
  <2>4. faults' \in 0..MaxFaults
    BY <1>5, MeshBoundAssumption DEF PinNetwork, SetsNetwork, Ends, FailsTask,
        Strikes, MeshTypeOK
  <2>5. EnsureOrder'
    BY <2>1, <2>2, OrderIs, OrderNext, OpenIs DEF Order, Ended
  <2>6. (EnsureDone /\ EnsureWhole)'
    BY <2>1, <2>2, <2>3, OrderIs, OpenIs DEF Order, EnsureDone, EnsureWhole,
        Ended, MeshTypeOK
  <2>7. EnsureUndoable'
    BY <2>1, <2>2, <2>3, OrderIs, OpenIs DEF Order, EnsureDone, EnsureUndoable,
        Ended, Present, Part
  <2> QED
    BY <2>1, <2>2, <2>3, <2>4, <2>5, <2>6, <2>7, OpenIs DEF MeshTypeOK, EnsureDone
<1>6. CASE PinnedByOther
  <2>1. Open("pinNetwork") /\ mesh.net # "none"
    BY <1>6 DEF PinnedByOther, Skip, Ends, FailsTask
  <2>2. todo' = todo \ {"pinNetwork"} /\ failed' = failed
    BY <1>6 DEF PinnedByOther, Skip, Ends, FailsTask
  <2>3. UNCHANGED <<mesh, phase, created, attempt, before, outcome, commands>>
    BY <1>6 DEF PinnedByOther, Skip, commandVars
  <2>4. faults' \in 0..MaxFaults
    BY <1>6, MeshBoundAssumption DEF PinnedByOther, Skip, Ends, FailsTask,
        Strikes, MeshTypeOK
  <2>5. EnsureOrder'
    BY <2>1, <2>2, OrderIs, OrderNext, OpenIs DEF Order, Ended
  <2>6. (EnsureDone /\ EnsureWhole)'
    BY <2>1, <2>2, <2>3, OrderIs, OpenIs DEF Order, EnsureDone, EnsureWhole,
        Ended, MeshTypeOK
  <2>7. EnsureUndoable'
    BY <2>1, <2>2, <2>3, OrderIs, OpenIs DEF Order, EnsureDone, EnsureUndoable,
        Ended, Present, Part
  <2> QED
    BY <2>1, <2>2, <2>3, <2>4, <2>5, <2>6, <2>7, OpenIs DEF MeshTypeOK, EnsureDone
<1>7. CASE DNSExists
  <2>1. Open("createDNS") /\ mesh.dns # "none"
    BY <1>7 DEF DNSExists, Skip, Ends, FailsTask
  <2>2. todo' = todo \ {"createDNS", "writeCorefile"} /\ failed' = failed
    BY <1>7 DEF DNSExists, Skip, Ends, FailsTask
  <2>3. UNCHANGED <<mesh, phase, created, attempt, before, outcome, commands>>
    BY <1>7 DEF DNSExists, Skip, commandVars
  <2>4. faults' \in 0..MaxFaults
    BY <1>7, MeshBoundAssumption DEF DNSExists, Skip, Ends, FailsTask, Strikes,
        MeshTypeOK
  <2>5. EnsureOrder'
    BY <2>1, <2>2, OrderIs, OrderNext, OpenIs DEF Order, Ended
  <2>6. (EnsureDone /\ EnsureWhole)'
    BY <2>1, <2>2, <2>3, OrderIs, OpenIs DEF Order, EnsureDone, EnsureWhole,
        Ended, MeshTypeOK
  <2>7. EnsureUndoable'
    BY <2>1, <2>2, <2>3, OrderIs, OpenIs DEF Order, EnsureDone, EnsureUndoable,
        Ended, Present, Part
  <2> QED
    BY <2>1, <2>2, <2>3, <2>4, <2>5, <2>6, <2>7, OpenIs DEF MeshTypeOK, EnsureDone
<1>8. CASE CreateDNS
  <2>1. Open("createDNS") /\ mesh.dns = "none"
    BY <1>8 DEF CreateDNS, Does, Ends, FailsTask
  <2>2. \/ todo' = todo \ {"createDNS"} /\ failed' = failed
        \/ todo' = todo \ {"createDNS"} /\ failed' = failed \union {"createDNS"}
    BY <1>8 DEF CreateDNS, Does, Ends, FailsTask
  <2>3. /\ UNCHANGED <<phase, created, attempt, before, outcome, commands>>
        /\ mesh' \in MeshState
        /\ mesh'.dns = "created" /\ mesh'.net = mesh.net
        /\ mesh'.corefile = mesh.corefile /\ mesh'.records = mesh.records
        /\ mesh'.vol = mesh.vol /\ mesh'.hosts = mesh.hosts
        /\ mesh'.relay = mesh.relay
    BY <1>8 DEF CreateDNS, Does, Ends, FailsTask, commandVars, MeshTypeOK,
        MeshState, ContainerState
  <2>4. faults' \in 0..MaxFaults
    BY <1>8, MeshBoundAssumption DEF CreateDNS, Does, Ends, FailsTask, Strikes,
        MeshTypeOK
  <2>5. EnsureOrder'
    BY <2>1, <2>2, OrderIs, OrderNext, OpenIs DEF Order, Ended
  <2>6. (EnsureDone /\ EnsureWhole)'
    BY <2>1, <2>2, <2>3, OrderIs, OpenIs DEF Order, EnsureDone, EnsureWhole,
        Ended, MeshTypeOK
  <2>7. EnsureUndoable'
    BY <2>1, <2>2, <2>3, OrderIs, OpenIs DEF Order, EnsureDone, EnsureUndoable,
        Ended, Present, Part
  <2> QED
    BY <2>1, <2>2, <2>3, <2>4, <2>5, <2>6, <2>7, OpenIs DEF MeshTypeOK, EnsureDone
<1>9. CASE WriteCorefile
  <2>1. Open("writeCorefile")
    BY <1>9 DEF WriteCorefile, Does, Ends, FailsTask
  <2>2. \/ todo' = todo \ {"writeCorefile"} /\ failed' = failed
        \/ todo' = todo \ {"writeCorefile"} /\ failed' = failed \union {"writeCorefile"}
    BY <1>9 DEF WriteCorefile, Does, Ends, FailsTask
  <2>3. /\ UNCHANGED <<phase, created, attempt, before, outcome, commands>>
        /\ mesh' \in MeshState
        /\ mesh'.corefile = TRUE /\ mesh'.records = {} /\ mesh'.net = mesh.net
        /\ mesh'.dns = mesh.dns /\ mesh'.vol = mesh.vol /\ mesh'.hosts = mesh.hosts
        /\ mesh'.relay = mesh.relay
    BY <1>9 DEF WriteCorefile, Does, Ends, FailsTask, commandVars, MeshTypeOK,
        MeshState, ContainerState
  <2>4. faults' \in 0..MaxFaults
    BY <1>9, MeshBoundAssumption DEF WriteCorefile, Does, Ends, FailsTask,
        Strikes, MeshTypeOK
  <2>5. EnsureOrder'
    BY <2>1, <2>2, OrderIs, OrderNext, OpenIs DEF Order, Ended
  <2>6. (EnsureDone /\ EnsureWhole)'
    BY <2>1, <2>2, <2>3, OrderIs, OpenIs DEF Order, EnsureDone, EnsureWhole,
        Ended, MeshTypeOK
  <2>7. EnsureUndoable'
    BY <2>1, <2>2, <2>3, OrderIs, OpenIs DEF Order, EnsureDone, EnsureUndoable,
        Ended, Present, Part
  <2> QED
    BY <2>1, <2>2, <2>3, <2>4, <2>5, <2>6, <2>7, OpenIs DEF MeshTypeOK, EnsureDone
<1>10. CASE DNSRuns
  <2>1. Open("startDNS") /\ mesh.dns = "running"
    BY <1>10 DEF DNSRuns, Skip, Ends, FailsTask
  <2>2. todo' = todo \ {"startDNS"} /\ failed' = failed
    BY <1>10 DEF DNSRuns, Skip, Ends, FailsTask
  <2>3. UNCHANGED <<mesh, phase, created, attempt, before, outcome, commands>>
    BY <1>10 DEF DNSRuns, Skip, commandVars
  <2>4. faults' \in 0..MaxFaults
    BY <1>10, MeshBoundAssumption DEF DNSRuns, Skip, Ends, FailsTask, Strikes,
        MeshTypeOK
  <2>5. EnsureOrder'
    BY <2>1, <2>2, OrderIs, OrderNext, OpenIs DEF Order, Ended
  <2>6. (EnsureDone /\ EnsureWhole)'
    BY <2>1, <2>2, <2>3, OrderIs, OpenIs DEF Order, EnsureDone, EnsureWhole,
        Ended, MeshTypeOK
  <2>7. EnsureUndoable'
    BY <2>1, <2>2, <2>3, OrderIs, OpenIs DEF Order, EnsureDone, EnsureUndoable,
        Ended, Present, Part
  <2> QED
    BY <2>1, <2>2, <2>3, <2>4, <2>5, <2>6, <2>7, OpenIs DEF MeshTypeOK, EnsureDone
<1>11. CASE StartDNS
  <2>1. Open("startDNS") /\ mesh.dns # "none"
    BY <1>11 DEF StartDNS, Does, Ends, FailsTask
  <2>2. \/ todo' = todo \ {"startDNS"} /\ failed' = failed
        \/ todo' = todo \ {"startDNS"} /\ failed' = failed \union {"startDNS"}
    BY <1>11 DEF StartDNS, Does, Ends, FailsTask
  <2>3. /\ UNCHANGED <<phase, created, attempt, before, outcome, commands>>
        /\ mesh' \in MeshState
        /\ mesh'.dns = "running" /\ mesh'.net = mesh.net
        /\ mesh'.corefile = mesh.corefile /\ mesh'.records = mesh.records
        /\ mesh'.vol = mesh.vol /\ mesh'.hosts = mesh.hosts
        /\ mesh'.relay = mesh.relay
    BY <1>11 DEF StartDNS, Does, Ends, FailsTask, commandVars, MeshTypeOK,
        MeshState, ContainerState
  <2>4. faults' \in 0..MaxFaults
    BY <1>11, MeshBoundAssumption DEF StartDNS, Does, Ends, FailsTask, Strikes,
        MeshTypeOK
  <2>5. EnsureOrder'
    BY <2>1, <2>2, OrderIs, OrderNext, OpenIs DEF Order, Ended
  <2>6. (EnsureDone /\ EnsureWhole)'
    BY <2>1, <2>2, <2>3, OrderIs, OpenIs DEF Order, EnsureDone, EnsureWhole,
        Ended, MeshTypeOK
  <2>7. EnsureUndoable'
    BY <2>1, <2>2, <2>3, OrderIs, OpenIs DEF Order, EnsureDone, EnsureUndoable,
        Ended, Present, Part
  <2> QED
    BY <2>1, <2>2, <2>3, <2>4, <2>5, <2>6, <2>7, OpenIs DEF MeshTypeOK, EnsureDone
<1>12. CASE StartedDNSUnseen
  <2>1. Open("startDNS") /\ mesh.dns # "none"
    BY <1>12 DEF StartedDNSUnseen, Ends, FailsTask
  <2>2. todo' = todo \ {"startDNS"} /\ failed' = failed \union {"startDNS"}
    BY <1>12 DEF StartedDNSUnseen, Ends, FailsTask
  <2>3. /\ UNCHANGED <<phase, created, attempt, before, outcome, commands>>
        /\ mesh' \in MeshState
        /\ mesh'.dns = "running" /\ mesh'.net = mesh.net
        /\ mesh'.corefile = mesh.corefile /\ mesh'.records = mesh.records
        /\ mesh'.vol = mesh.vol /\ mesh'.hosts = mesh.hosts
        /\ mesh'.relay = mesh.relay
    BY <1>12 DEF StartedDNSUnseen, Ends, FailsTask, commandVars, MeshTypeOK,
        MeshState, ContainerState
  <2>4. faults' \in 0..MaxFaults
    BY <1>12, MeshBoundAssumption DEF StartedDNSUnseen, Ends, FailsTask, Strikes,
        MeshTypeOK
  <2>5. EnsureOrder'
    BY <2>1, <2>2, OrderIs, OrderNext, OpenIs DEF Order, Ended
  <2>6. (EnsureDone /\ EnsureWhole)'
    BY <2>1, <2>2, <2>3, OrderIs, OpenIs DEF Order, EnsureDone, EnsureWhole,
        Ended, MeshTypeOK
  <2>7. EnsureUndoable'
    BY <2>1, <2>2, <2>3, OrderIs, OpenIs DEF Order, EnsureDone, EnsureUndoable,
        Ended, Present, Part
  <2> QED
    BY <2>1, <2>2, <2>3, <2>4, <2>5, <2>6, <2>7, OpenIs DEF MeshTypeOK, EnsureDone
<1>13. CASE VolumeExists
  <2>1. Open("createVolume") /\ mesh.vol # "none"
    BY <1>13 DEF VolumeExists, Skip, Ends, FailsTask
  <2>2. todo' = todo \ {"createVolume", "writeKeys"} /\ failed' = failed
    BY <1>13 DEF VolumeExists, Skip, Ends, FailsTask
  <2>3. UNCHANGED <<mesh, phase, created, attempt, before, outcome, commands>>
    BY <1>13 DEF VolumeExists, Skip, commandVars
  <2>4. faults' \in 0..MaxFaults
    BY <1>13, MeshBoundAssumption DEF VolumeExists, Skip, Ends, FailsTask,
        Strikes, MeshTypeOK
  <2>5. EnsureOrder'
    BY <2>1, <2>2, OrderIs, OrderNext, OpenIs DEF Order, Ended
  <2>6. (EnsureDone /\ EnsureWhole)'
    BY <2>1, <2>2, <2>3, OrderIs, OpenIs DEF Order, EnsureDone, EnsureWhole,
        Ended, MeshTypeOK
  <2>7. EnsureUndoable'
    BY <2>1, <2>2, <2>3, OrderIs, OpenIs DEF Order, EnsureDone, EnsureUndoable,
        Ended, Present, Part
  <2> QED
    BY <2>1, <2>2, <2>3, <2>4, <2>5, <2>6, <2>7, OpenIs DEF MeshTypeOK, EnsureDone
<1>14. CASE CreateVolume
  <2>1. Open("createVolume") /\ mesh.vol = "none"
    BY <1>14 DEF CreateVolume, Does, Ends, FailsTask
  <2>2. \/ todo' = todo \ {"createVolume"} /\ failed' = failed
        \/ todo' = todo \ {"createVolume"} /\ failed' = failed \union {"createVolume"}
    BY <1>14 DEF CreateVolume, Does, Ends, FailsTask
  <2>3. /\ UNCHANGED <<phase, created, attempt, before, outcome, commands>>
        /\ mesh' \in MeshState
        /\ mesh'.vol = "empty" /\ mesh'.net = mesh.net /\ mesh'.dns = mesh.dns
        /\ mesh'.corefile = mesh.corefile /\ mesh'.records = mesh.records
        /\ mesh'.hosts = mesh.hosts /\ mesh'.relay = mesh.relay
    BY <1>14 DEF CreateVolume, Does, Ends, FailsTask, commandVars, MeshTypeOK,
        MeshState, ContainerState
  <2>4. faults' \in 0..MaxFaults
    BY <1>14, MeshBoundAssumption DEF CreateVolume, Does, Ends, FailsTask,
        Strikes, MeshTypeOK
  <2>5. EnsureOrder'
    BY <2>1, <2>2, OrderIs, OrderNext, OpenIs DEF Order, Ended
  <2>6. (EnsureDone /\ EnsureWhole)'
    BY <2>1, <2>2, <2>3, OrderIs, OpenIs DEF Order, EnsureDone, EnsureWhole,
        Ended, MeshTypeOK
  <2>7. EnsureUndoable'
    BY <2>1, <2>2, <2>3, OrderIs, OpenIs DEF Order, EnsureDone, EnsureUndoable,
        Ended, Present, Part
  <2> QED
    BY <2>1, <2>2, <2>3, <2>4, <2>5, <2>6, <2>7, OpenIs DEF MeshTypeOK, EnsureDone
<1>15. CASE RelayExists
  <2>1. Open("createRelay") /\ mesh.relay # "none"
    BY <1>15 DEF RelayExists, Skip, Ends, FailsTask
  <2>2. todo' = todo \ {"createRelay"} /\ failed' = failed
    BY <1>15 DEF RelayExists, Skip, Ends, FailsTask
  <2>3. UNCHANGED <<mesh, phase, created, attempt, before, outcome, commands>>
    BY <1>15 DEF RelayExists, Skip, commandVars
  <2>4. faults' \in 0..MaxFaults
    BY <1>15, MeshBoundAssumption DEF RelayExists, Skip, Ends, FailsTask, Strikes,
        MeshTypeOK
  <2>5. EnsureOrder'
    BY <2>1, <2>2, OrderIs, OrderNext, OpenIs DEF Order, Ended
  <2>6. (EnsureDone /\ EnsureWhole)'
    BY <2>1, <2>2, <2>3, OrderIs, OpenIs DEF Order, EnsureDone, EnsureWhole,
        Ended, MeshTypeOK
  <2>7. EnsureUndoable'
    BY <2>1, <2>2, <2>3, OrderIs, OpenIs DEF Order, EnsureDone, EnsureUndoable,
        Ended, Present, Part
  <2> QED
    BY <2>1, <2>2, <2>3, <2>4, <2>5, <2>6, <2>7, OpenIs DEF MeshTypeOK, EnsureDone
<1>16. CASE CreateRelay
  <2>1. Open("createRelay") /\ mesh.relay = "none"
    BY <1>16 DEF CreateRelay, Does, Ends, FailsTask
  <2>2. \/ todo' = todo \ {"createRelay"} /\ failed' = failed
        \/ todo' = todo \ {"createRelay"} /\ failed' = failed \union {"createRelay"}
    BY <1>16 DEF CreateRelay, Does, Ends, FailsTask
  <2>3. /\ UNCHANGED <<phase, created, attempt, before, outcome, commands>>
        /\ mesh' \in MeshState
        /\ mesh'.relay = "created" /\ mesh'.net = mesh.net /\ mesh'.dns = mesh.dns
        /\ mesh'.corefile = mesh.corefile /\ mesh'.records = mesh.records
        /\ mesh'.vol = mesh.vol /\ mesh'.hosts = mesh.hosts
    BY <1>16 DEF CreateRelay, Does, Ends, FailsTask, commandVars, MeshTypeOK,
        MeshState, ContainerState
  <2>4. faults' \in 0..MaxFaults
    BY <1>16, MeshBoundAssumption DEF CreateRelay, Does, Ends, FailsTask, Strikes,
        MeshTypeOK
  <2>5. EnsureOrder'
    BY <2>1, <2>2, OrderIs, OrderNext, OpenIs DEF Order, Ended
  <2>6. (EnsureDone /\ EnsureWhole)'
    BY <2>1, <2>2, <2>3, OrderIs, OpenIs DEF Order, EnsureDone, EnsureWhole,
        Ended, MeshTypeOK
  <2>7. EnsureUndoable'
    BY <2>1, <2>2, <2>3, OrderIs, OpenIs DEF Order, EnsureDone, EnsureUndoable,
        Ended, Present, Part
  <2> QED
    BY <2>1, <2>2, <2>3, <2>4, <2>5, <2>6, <2>7, OpenIs DEF MeshTypeOK, EnsureDone
<1>17. CASE WriteKeys
  <2>1. Open("writeKeys")
    BY <1>17 DEF WriteKeys, Does, Ends, FailsTask
  <2>2. \/ todo' = todo \ {"writeKeys"} /\ failed' = failed
        \/ todo' = todo \ {"writeKeys"} /\ failed' = failed \union {"writeKeys"}
    BY <1>17 DEF WriteKeys, Does, Ends, FailsTask
  <2>3. /\ UNCHANGED <<phase, created, attempt, before, outcome, commands>>
        /\ mesh' \in MeshState
        /\ mesh'.vol = "keys" /\ mesh'.hosts = {} /\ mesh'.net = mesh.net
        /\ mesh'.dns = mesh.dns /\ mesh'.corefile = mesh.corefile
        /\ mesh'.records = mesh.records /\ mesh'.relay = mesh.relay
    BY <1>17 DEF WriteKeys, Does, Ends, FailsTask, commandVars, MeshTypeOK,
        MeshState, ContainerState
  <2>4. faults' \in 0..MaxFaults
    BY <1>17, MeshBoundAssumption DEF WriteKeys, Does, Ends, FailsTask, Strikes,
        MeshTypeOK
  <2>5. EnsureOrder'
    BY <2>1, <2>2, OrderIs, OrderNext, OpenIs DEF Order, Ended
  <2>6. (EnsureDone /\ EnsureWhole)'
    BY <2>1, <2>2, <2>3, OrderIs, OpenIs DEF Order, EnsureDone, EnsureWhole,
        Ended, MeshTypeOK
  <2>7. EnsureUndoable'
    BY <2>1, <2>2, <2>3, OrderIs, OpenIs DEF Order, EnsureDone, EnsureUndoable,
        Ended, Present, Part
  <2> QED
    BY <2>1, <2>2, <2>3, <2>4, <2>5, <2>6, <2>7, OpenIs DEF MeshTypeOK, EnsureDone
<1>18. CASE RelayRuns
  <2>1. Open("startRelay") /\ mesh.relay = "running"
    BY <1>18 DEF RelayRuns, Skip, Ends, FailsTask
  <2>2. todo' = todo \ {"startRelay"} /\ failed' = failed
    BY <1>18 DEF RelayRuns, Skip, Ends, FailsTask
  <2>3. UNCHANGED <<mesh, phase, created, attempt, before, outcome, commands>>
    BY <1>18 DEF RelayRuns, Skip, commandVars
  <2>4. faults' \in 0..MaxFaults
    BY <1>18, MeshBoundAssumption DEF RelayRuns, Skip, Ends, FailsTask, Strikes,
        MeshTypeOK
  <2>5. EnsureOrder'
    BY <2>1, <2>2, OrderIs, OrderNext, OpenIs DEF Order, Ended
  <2>6. (EnsureDone /\ EnsureWhole)'
    BY <2>1, <2>2, <2>3, OrderIs, OpenIs DEF Order, EnsureDone, EnsureWhole,
        Ended, MeshTypeOK
  <2>7. EnsureUndoable'
    BY <2>1, <2>2, <2>3, OrderIs, OpenIs DEF Order, EnsureDone, EnsureUndoable,
        Ended, Present, Part
  <2> QED
    BY <2>1, <2>2, <2>3, <2>4, <2>5, <2>6, <2>7, OpenIs DEF MeshTypeOK, EnsureDone
<1>19. CASE StartRelay
  <2>1. Open("startRelay") /\ mesh.relay # "none"
    BY <1>19 DEF StartRelay, Does, Ends, FailsTask
  <2>2. \/ todo' = todo \ {"startRelay"} /\ failed' = failed
        \/ todo' = todo \ {"startRelay"} /\ failed' = failed \union {"startRelay"}
    BY <1>19 DEF StartRelay, Does, Ends, FailsTask
  <2>3. /\ UNCHANGED <<phase, created, attempt, before, outcome, commands>>
        /\ mesh' \in MeshState
        /\ mesh'.relay = "running" /\ mesh'.net = mesh.net /\ mesh'.dns = mesh.dns
        /\ mesh'.corefile = mesh.corefile /\ mesh'.records = mesh.records
        /\ mesh'.vol = mesh.vol /\ mesh'.hosts = mesh.hosts
    BY <1>19 DEF StartRelay, Does, Ends, FailsTask, commandVars, MeshTypeOK,
        MeshState, ContainerState
  <2>4. faults' \in 0..MaxFaults
    BY <1>19, MeshBoundAssumption DEF StartRelay, Does, Ends, FailsTask, Strikes,
        MeshTypeOK
  <2>5. EnsureOrder'
    BY <2>1, <2>2, OrderIs, OrderNext, OpenIs DEF Order, Ended
  <2>6. (EnsureDone /\ EnsureWhole)'
    BY <2>1, <2>2, <2>3, OrderIs, OpenIs DEF Order, EnsureDone, EnsureWhole,
        Ended, MeshTypeOK
  <2>7. EnsureUndoable'
    BY <2>1, <2>2, <2>3, OrderIs, OpenIs DEF Order, EnsureDone, EnsureUndoable,
        Ended, Present, Part
  <2> QED
    BY <2>1, <2>2, <2>3, <2>4, <2>5, <2>6, <2>7, OpenIs DEF MeshTypeOK, EnsureDone
<1>20. CASE SubnetTaken
  <2>1. Open("pinNetwork")
    BY <1>20 DEF SubnetTaken
  <2>2. /\ todo' = todo \union {"createNetwork", "removePlain"}
        /\ attempt' = attempt + 1
        /\ UNCHANGED <<mesh, phase, failed, faults, created, before, outcome, commands>>
    BY <1>20 DEF SubnetTaken
  <2>3. EnsureOrder'
    BY <2>1, <2>2, OrderIs, OrderNext, OpenIs DEF Order, Ended
  <2>4. (EnsureDone /\ EnsureWhole)'
    BY <2>1, <2>2, OrderIs, OpenIs DEF Order, EnsureDone, EnsureWhole, Ended, MeshTypeOK
  <2>5. EnsureUndoable'
    BY <2>1, <2>2, OrderIs, OpenIs DEF Order, EnsureDone, EnsureUndoable, Ended,
        Present, Part
  <2>6. attempt' \in 1..Attempts + 1
    BY <2>1, <2>2, OpenIs, MeshBoundAssumption DEF EnsureDone, MeshTypeOK
  <2> QED
    BY <2>2, <2>3, <2>4, <2>5, <2>6 DEF MeshTypeOK, EnsureTasks
<1> QED
  BY <1>1, <1>2, <1>3, <1>4, <1>5, <1>6, <1>7, <1>8, <1>9, <1>10, <1>11, <1>12,
      <1>13, <1>14, <1>15, <1>16, <1>17, <1>18, <1>19, <1>20 DEF EnsureStep

\* CleanupMesh keeps the types and what it has seen to.
LEMMA CleanStepKeeps ==
  ASSUME MeshTypeOK, phase \in {"undo", "clean"}, todo \union failed \subseteq CleanTasks,
         CleanInv, CleanStep
  PROVE  /\ MeshTypeOK' /\ phase' = phase
         /\ todo' \union failed' \subseteq CleanTasks
         /\ CleanInv'
<1>1. PICK t \in CleanTasks :
        /\ Open(t) /\ t \in todo
        /\ UNCHANGED <<phase, created, attempt, before, outcome, commands>>
        /\ mesh' = CASE t = "removeRelay" -> [mesh EXCEPT !.relay = "none"]
                     [] t = "removeDNS" ->
                          [mesh EXCEPT !.dns = "none", !.corefile = FALSE, !.records = {}]
                     [] t = "removeNetwork" -> [mesh EXCEPT !.net = "none"]
                     [] t = "removeVolume" -> [mesh EXCEPT !.vol = "none", !.hosts = {}]
        /\ todo' = todo \ {t} /\ failed' \in {failed, failed \union {t}}
        /\ faults' \in 0..MaxFaults
  <2>1. CASE RemoveRelay
    BY <2>1, MeshBoundAssumption
       DEF RemoveRelay, Does, Ends, FailsTask, Strikes, commandVars, Open, CleanTasks, MeshTypeOK
  <2>2. CASE RemoveDNS
    BY <2>2, MeshBoundAssumption
       DEF RemoveDNS, Does, Ends, FailsTask, Strikes, commandVars, Open, CleanTasks, MeshTypeOK
  <2>3. CASE RemoveNetwork
    BY <2>3, MeshBoundAssumption
       DEF RemoveNetwork, Does, Ends, FailsTask, Strikes, commandVars, Open, CleanTasks, MeshTypeOK
  <2>4. CASE RemoveVolume
    BY <2>4, MeshBoundAssumption
       DEF RemoveVolume, Does, Ends, FailsTask, Strikes, commandVars, Open, CleanTasks, MeshTypeOK
  <2> QED
    BY <2>1, <2>2, <2>3, <2>4 DEF CleanStep
<1>2. MeshTypeOK'
  <2>1. /\ mesh' \in MeshState
        /\ mesh'.corefile => mesh'.dns # "none"
        /\ ~mesh'.corefile => mesh'.records = {}
        /\ mesh'.vol # "keys" => mesh'.hosts = {}
    <3>1. CASE t = "removeRelay"
      BY <1>1, <3>1 DEF MeshTypeOK, MeshState, ContainerState
    <3>2. CASE t = "removeDNS"
      BY <1>1, <3>2 DEF MeshTypeOK, MeshState, ContainerState
    <3>3. CASE t = "removeNetwork"
      BY <1>1, <3>3 DEF MeshTypeOK, MeshState, ContainerState
    <3>4. CASE t = "removeVolume"
      BY <1>1, <3>4 DEF MeshTypeOK, MeshState, ContainerState
    <3> QED
      BY <1>1, <3>1, <3>2, <3>3, <3>4 DEF CleanTasks
  <2> QED
    BY <1>1, <2>1 DEF MeshTypeOK
<1>3. CleanInv'
  BY <1>1 DEF CleanTasks, CleanInv, Ended, MeshTypeOK, MeshState
<1> QED
  BY <1>1, <1>2, <1>3

\* A call that fails without its effect leaves what EnsureMesh and CleanupMesh
\* have seen to.
LEMMA FailKeeps ==
  ASSUME MeshTypeOK, NEW t \in todo, NEW f, Open(t), FailsTask(t, f),
         UNCHANGED <<mesh, commandVars>>
  PROVE  /\ MeshTypeOK' /\ phase' = phase
         /\ todo' \union failed' = todo \union failed
         /\ CleanInv => CleanInv'
         /\ phase = "ensure" /\ EnsureOrder /\ EnsureDone /\ EnsureWhole /\ EnsureUndoable =>
              (EnsureOrder /\ EnsureDone /\ EnsureWhole /\ EnsureUndoable)'
<1>1. /\ todo' = todo \ {t} /\ failed' = failed \union {t} /\ faults' \in 0..MaxFaults
      /\ UNCHANGED <<mesh, phase, created, attempt, before, outcome, commands>>
  BY MeshBoundAssumption DEF FailsTask, Strikes, commandVars, MeshTypeOK
<1>2. MeshTypeOK'
  BY <1>1 DEF MeshTypeOK
<1>3. CleanInv => CleanInv'
  BY <1>1 DEF CleanInv, Ended
<1>4. ASSUME EnsureOrder
      PROVE  EnsureOrder'
  <2>1. \A u \in EnsureTasks \ {"writeKeys"} :
          u \notin todo' => \A s \in MeshNeeds[u] : s \notin todo' \union failed'
    BY <1>1, <1>4 DEF EnsureOrder, Ended, Open
  <2>2. "writeKeys" \notin todo' => "createVolume" \notin todo' \union failed'
    <3>1. CASE t = "writeKeys"
      BY <1>1, <1>4, <3>1, OpenIs, OrderIs DEF Order, Ended
    <3>2. CASE t # "writeKeys"
      BY <1>1, <1>4, <3>2 DEF EnsureOrder, Ended
    <3> QED
      BY <3>1, <3>2
  <2> QED
    BY <1>1, <1>4, <2>1, <2>2 DEF EnsureOrder, Ended
<1>5. EnsureDone /\ EnsureWhole /\ EnsureUndoable => (EnsureDone /\ EnsureWhole /\ EnsureUndoable)'
  BY <1>1 DEF EnsureDone, EnsureWhole, EnsureUndoable, Ended, Present
<1> QED
  BY <1>1, <1>2, <1>3, <1>4, <1>5

\* What EnsureMesh has seen to amounts to a mesh that works when it is done.
LEMMA EnsureGives ==
  ASSUME MeshTypeOK, EnsureInv
  PROVE  /\ EnsureGivesMesh
         /\ Done("ensure") => mesh.net # "none"
<1> SUFFICES ASSUME Done("ensure")
             PROVE  /\ mesh.net # "none" /\ mesh.dns = "running" /\ mesh.relay = "running"
                    /\ before.whole => mesh.corefile /\ mesh.vol = "keys"
  BY DEF EnsureGivesMesh
<1> QED
  BY DEF Done, EnsureInv, EnsureDone, EnsureWhole, Ended

\* Every step of the mesh's commands, and of what happens beside them, keeps
\* MeshInv.
LEMMA MeshInvStep ==
  ASSUME MeshInv, [Next]_vars
  PROVE  MeshInv'
<1> SUFFICES (TypeOK /\ RunsOrEnded /\ EnsureInv /\ EnsureUndoable /\ CleanInv)'
  <2>1. MeshTypeOK' /\ EnsureInv' => EnsureGivesMesh'
    BY DEF EnsureGivesMesh, Done, EnsureInv, EnsureDone, EnsureWhole, Ended, MeshTypeOK
  <2> QED
    BY <2>1 DEF MeshInv, TypeOK
<1>1. /\ MeshTypeOK /\ RunsOrEnded /\ EnsureInv /\ EnsureUndoable /\ CleanInv
      /\ phase \in {"idle", "ensure", "undo", "clean"}
      /\ phase = "ensure" => todo \union failed \subseteq EnsureTasks
      /\ phase = "idle" => todo \union failed = {}
      /\ phase \in {"undo", "clean"} => todo \union failed \subseteq CleanTasks
      /\ EnsureGivesMesh
  BY DEF MeshInv, TypeOK
<1>2. ASSUME NEW t, Open(t), t \in EnsureTasks
      PROVE  phase = "ensure"
  BY <1>1, <1>2 DEF Open, EnsureTasks, CleanTasks
<1>3. ASSUME NEW t, Open(t), t \in CleanTasks
      PROVE  phase \in {"undo", "clean"}
  BY <1>1, <1>3 DEF Open, EnsureTasks, CleanTasks
<1>4. CASE BeginEnsure
  <2>1. /\ phase' = "ensure" /\ todo' = EnsureTasks /\ failed' = {} /\ outcome' = "none"
        /\ created' = FALSE /\ attempt' = 1 /\ UNCHANGED <<mesh, faults>>
        /\ before' = [parts |-> Present, whole |-> Whole] /\ commands' \in 0..MaxCommands
    BY <1>1, <1>4, MeshBoundAssumption DEF BeginEnsure, Begin, Enter, MeshTypeOK
  <2>2. MeshTypeOK'
    <3>1. Whole \in BOOLEAN
      BY DEF Whole
    <3>2. before' \in [parts : SUBSET Part, whole : BOOLEAN]
      BY <2>1, <3>1, Zenon DEF Present
    <3>3. created' \in BOOLEAN
      BY <2>1, Zenon
    <3>4. /\ attempt' \in 1..Attempts + 1
          /\ outcome' \in Outcome
          /\ faults' \in 0..MaxFaults
      BY <1>1, <2>1, MeshBoundAssumption DEF MeshTypeOK, Outcome
    <3> QED
      BY <1>1, <2>1, <3>2, <3>3, <3>4 DEF MeshTypeOK
  <2>3. (EnsureOrder /\ EnsureDone)'
    BY <2>1, OrderNext DEF Order, EnsureDone, Ended, EnsureTasks
  <2>4. EnsureWhole'
    BY <1>1, <2>1 DEF EnsureWhole, Ended, EnsureTasks, Whole, MeshTypeOK, MeshState
  <2>5. EnsureUndoable'
    BY <1>1, <2>1 DEF EnsureUndoable, Ended, EnsureTasks, Present, Part,
        MeshTypeOK, MeshState
  <2> QED
    BY <2>1, <2>2, <2>3, <2>4, <2>5 DEF TypeOK, RunsOrEnded, EnsureInv, CleanInv
<1>5. CASE EnsureStep
  <2>1. phase = "ensure"
    BY <1>2, <1>5 DEF EnsureStep, NetworkExists, CreateNetwork, KeepNetwork,
        RemovePlain,
      PinNetwork, PinnedByOther, SubnetTaken, DNSExists, CreateDNS, WriteCorefile, DNSRuns, StartDNS,
      StartedDNSUnseen, VolumeExists, CreateVolume, RelayExists, CreateRelay, WriteKeys,
      RelayRuns, StartRelay, Skip, Does, SetsNetwork, EnsureTasks
  <2>2. /\ MeshTypeOK'
        /\ phase' = "ensure"
        /\ todo' \union failed' \subseteq EnsureTasks
        /\ (EnsureOrder /\ EnsureDone /\ EnsureWhole /\ EnsureUndoable)'
    BY <1>1, <1>5, <2>1, EnsureStepKeeps DEF EnsureInv
  <2>3. outcome' = outcome
    BY <1>5 DEF EnsureStep, NetworkExists, CreateNetwork, KeepNetwork, RemovePlain,
      PinNetwork, PinnedByOther, SubnetTaken, DNSExists, CreateDNS, WriteCorefile, DNSRuns, StartDNS,
      StartedDNSUnseen, VolumeExists, CreateVolume, RelayExists, CreateRelay, WriteKeys,
      RelayRuns, StartRelay, Skip, Does, SetsNetwork, commandVars
  <2> QED
    BY <1>1, <2>1, <2>2, <2>3 DEF TypeOK, RunsOrEnded, EnsureInv, CleanInv
<1>6. CASE EnsureEnds \/ EnsureFails \/ CleanupEnds
  <2>1. /\ UNCHANGED <<mesh, created, attempt, before, faults, commands>>
        /\ failed' = {}
        /\ \/ phase' = "idle" /\ todo' = {} /\ outcome' \in Outcome
           \/ phase' = "undo" /\ todo' = CleanTasks /\ outcome' = outcome /\ phase = "ensure"
    BY <1>6 DEF EnsureEnds, EnsureFails, CleanupEnds, Leave, Enter, Outcome, Stuck
  <2>2. MeshTypeOK'
    BY <1>1, <2>1 DEF MeshTypeOK
  <2> QED
    BY <1>1, <2>1, <2>2 DEF TypeOK, RunsOrEnded, EnsureInv, CleanInv,
        EnsureUndoable, Ended, CleanTasks
<1>7. CASE BeginClean
  <2>1. /\ phase' = "clean" /\ todo' = CleanTasks /\ failed' = {} /\ outcome' = "none"
        /\ UNCHANGED <<mesh, faults, created, attempt, before>> /\ commands' \in 0..MaxCommands
    BY <1>1, <1>7, MeshBoundAssumption DEF BeginClean, Begin, Enter, MeshTypeOK
  <2>2. MeshTypeOK'
    BY <1>1, <2>1 DEF MeshTypeOK, Outcome
  <2> QED
    BY <2>1, <2>2 DEF TypeOK, RunsOrEnded, EnsureInv, CleanInv, EnsureUndoable,
        Ended, CleanTasks
<1>8. CASE CleanStep
  <2>1. phase \in {"undo", "clean"}
    BY <1>3, <1>8 DEF CleanStep, RemoveRelay, RemoveDNS, RemoveNetwork,
        RemoveVolume, Does, CleanTasks
  <2>2. outcome' = outcome
    BY <1>8 DEF CleanStep, RemoveRelay, RemoveDNS, RemoveNetwork, RemoveVolume,
        Does, commandVars
  <2>3. /\ MeshTypeOK'
        /\ phase' = phase
        /\ todo' \union failed' \subseteq CleanTasks
        /\ CleanInv'
    BY <1>1, <1>8, <2>1, CleanStepKeeps
  <2> QED
    BY <1>1, <2>1, <2>2, <2>3 DEF TypeOK, RunsOrEnded, EnsureInv, EnsureUndoable
<1>9. CASE CallFails
  <2>1. PICK t \in EnsureTasks \union CleanTasks :
          t \in todo /\ Open(t) /\ FailsTask(t, "fail") /\ UNCHANGED <<mesh, commandVars>>
    BY <1>9 DEF CallFails, Open
  <2>2. /\ MeshTypeOK' /\ phase' = phase /\ todo' \union failed' = todo \union failed
        /\ CleanInv'
        /\ phase = "ensure" => (EnsureOrder /\ EnsureDone /\ EnsureWhole /\ EnsureUndoable)'
    BY <1>1, <2>1, FailKeeps DEF EnsureInv
  <2>3. outcome' = outcome
    BY <2>1 DEF commandVars
  <2> QED
    BY <1>1, <2>2, <2>3 DEF TypeOK, RunsOrEnded, EnsureInv, EnsureUndoable
<1>10. CASE Kill \/ Reboot
  <2>1. /\ faults' \in 0..MaxFaults /\ UNCHANGED <<created, attempt, before, commands>>
        /\ phase' = "idle" /\ todo' = {} /\ failed' = {}
        /\ outcome' \in {outcome, "killed"}
    BY <1>1, <1>10, MeshBoundAssumption
       DEF Kill, Reboot, Strikes, Leave, Enter, MeshTypeOK
  <2>2. \/ mesh' = mesh
        \/ mesh' = [mesh EXCEPT !.dns = Rebooted(mesh.dns), !.relay = Rebooted(mesh.relay)]
    BY <1>10 DEF Kill, Reboot
  <2>3. MeshTypeOK'
    <3>1. mesh' \in MeshState
      <4>1. Rebooted(mesh.dns) \in ContainerState /\ Rebooted(mesh.relay) \in ContainerState
        BY <1>1 DEF MeshTypeOK, MeshState, ContainerState, Rebooted
      <4> QED
        BY <1>1, <2>2, <4>1 DEF MeshTypeOK, MeshState
    <3>2. /\ mesh'.corefile = mesh.corefile /\ mesh'.records = mesh.records
          /\ mesh'.vol = mesh.vol /\ mesh'.hosts = mesh.hosts
          /\ mesh.dns # "none" => mesh'.dns # "none"
      BY <1>1, <2>2 DEF MeshTypeOK, MeshState, Rebooted
    <3> QED
      BY <1>1, <2>1, <3>1, <3>2 DEF MeshTypeOK, Outcome
  <2> QED
    BY <2>1, <2>3 DEF TypeOK, RunsOrEnded, EnsureInv, CleanInv, EnsureUndoable
<1>11. CASE Rival
  <2>1. /\ faults' \in 0..MaxFaults
        /\ UNCHANGED <<todo, failed, phase, created, attempt, before, outcome, commands>>
        /\ mesh' = [mesh EXCEPT !.net = "theirs"] /\ mesh.net = "none"
    BY <1>1, <1>11, MeshBoundAssumption DEF Rival, Strikes, commandVars, MeshTypeOK
  <2>2. MeshTypeOK'
    BY <1>1, <2>1 DEF MeshTypeOK, MeshState
  <2>3. EnsureInv'
    BY <1>1, <2>1 DEF MeshTypeOK, MeshState, EnsureInv, EnsureOrder, EnsureDone,
        EnsureWhole, Ended
  <2>4. EnsureUndoable' /\ CleanInv'
    BY <1>1, <2>1 DEF MeshTypeOK, MeshState, EnsureUndoable, CleanInv, Ended,
        Present, Part
  <2> QED
    BY <1>1, <2>1, <2>2, <2>3, <2>4 DEF TypeOK, RunsOrEnded
<1>12. CASE UNCHANGED vars
  BY <1>1, <1>12 DEF vars, commandVars, TypeOK, MeshTypeOK, RunsOrEnded,
      EnsureInv, EnsureOrder,
    EnsureDone, EnsureWhole, EnsureUndoable, CleanInv, Ended, Present
<1> QED
  BY <1>4, <1>5, <1>6, <1>7, <1>8, <1>9, <1>10, <1>11, <1>12 DEF Next

\* A step of a command or of anything beside it keeps what a failed create
\* left: EnsureMesh gives up with nothing made but for a bare network, or
\* CleanupMesh has removed all that was there.
LEMMA UndoneStep ==
  ASSUME MeshInv, MeshUndone, [Next]_vars
  PROVE  MeshUndone'
<1> SUFFICES ASSUME outcome' = "error", "net" \notin before'.parts, mesh'.net # "theirs"
             PROVE  Present' \subseteq before'.parts \union {"net"}
  BY DEF MeshUndone
<1>1. /\ MeshTypeOK /\ RunsOrEnded /\ EnsureInv /\ EnsureUndoable /\ CleanInv
  BY DEF MeshInv, TypeOK
<1>2. CASE EnsureFails /\ ~created
  <2>1. phase = "ensure" /\ failed # {} /\ mesh' = mesh /\ before' = before
    BY <1>2 DEF EnsureFails, Stuck
  <2> QED
    BY <1>1, <1>2, <2>1 DEF EnsureUndoable, Present
<1>3. CASE CleanupEnds /\ Done("undo")
  <2>1. mesh' = mesh /\ before' = before
    BY <1>3 DEF CleanupEnds
  <2>2. mesh.relay = "none" /\ mesh.dns = "none" /\ mesh.vol = "none"
    BY <1>1, <1>3 DEF CleanInv, Done, Ended
  <2> QED
    BY <2>1, <2>2 DEF Present, Part
<1>4. CASE phase = "idle"
  <2>1. todo = {} /\ failed = {}
    BY <1>4 DEF MeshInv, TypeOK
  <2>2. ~EnsureStep /\ ~CleanStep /\ ~CallFails
    BY <2>1 DEF EnsureStep, NetworkExists, CreateNetwork, KeepNetwork,
        RemovePlain, PinNetwork,
      PinnedByOther, SubnetTaken, DNSExists, CreateDNS, WriteCorefile, DNSRuns, StartDNS,
      StartedDNSUnseen, VolumeExists, CreateVolume, RelayExists, CreateRelay, WriteKeys,
      RelayRuns, StartRelay, CleanStep, RemoveRelay, RemoveDNS, RemoveNetwork, RemoveVolume,
      CallFails, Skip, Does, SetsNetwork, Open
  <2>3. Reboot \/ Rival \/ UNCHANGED vars
    BY <1>4, <2>2 DEF Next, BeginEnsure, BeginClean, Begin, EnsureEnds, EnsureFails,
      CleanupEnds, Done, Stuck, Kill
  <2>4. /\ outcome = "error"
        /\ before' = before
        /\ mesh'.net = mesh.net
        /\ Present' = Present
    <3>1. CASE Reboot
      <4>1. outcome' = outcome /\ before' = before
            /\ mesh' = [mesh EXCEPT !.dns = Rebooted(mesh.dns), !.relay = Rebooted(mesh.relay)]
        BY <1>4, <3>1 DEF Reboot
      <4>2. \A p \in Part : mesh'[p] = "none" <=> mesh[p] = "none"
        BY <1>1, <4>1 DEF Part, MeshTypeOK, MeshState, Rebooted
      <4>3. mesh'.net = mesh.net
        BY <1>1, <4>1 DEF MeshTypeOK, MeshState
      <4> QED
        BY <4>1, <4>2, <4>3 DEF Present
    <3>2. CASE Rival
      BY <1>1, <3>2 DEF Rival, MeshTypeOK, MeshState
    <3>3. CASE UNCHANGED vars
      BY <3>3 DEF vars, commandVars, Present
    <3> QED
      BY <2>3, <3>1, <3>2, <3>3
  <2> QED
    BY <2>4 DEF MeshUndone
<1>5. CASE phase # "idle"
  <2>1. outcome = "none"
    BY <1>1, <1>5 DEF RunsOrEnded
  <2>2. (EnsureFails /\ ~created) \/ (CleanupEnds /\ Done("undo"))
    BY <1>5, <2>1 DEF Next, BeginEnsure, BeginClean, Begin, EnsureEnds, EnsureFails,
      CleanupEnds, Kill, Reboot, Rival, Leave, Enter, vars, commandVars, CallFails,
      EnsureStep, NetworkExists, CreateNetwork, KeepNetwork, RemovePlain, PinNetwork,
      PinnedByOther, SubnetTaken, DNSExists, CreateDNS, WriteCorefile, DNSRuns, StartDNS,
      StartedDNSUnseen, VolumeExists, CreateVolume, RelayExists, CreateRelay, WriteKeys,
      RelayRuns, StartRelay, CleanStep, RemoveRelay, RemoveDNS, RemoveNetwork, RemoveVolume,
      Skip, Does, SetsNetwork
  <2> QED
    BY <1>2, <1>3, <2>2
<1> QED
  BY <1>4, <1>5

\* The mesh, its records and keys are in a state that every command knows how
\* to go on from, whatever failed before it, and an EnsureMesh without an error
\* leaves a mesh that works (ensureDNS, ensureSSHVolume and ensureSSH).
THEOREM MeshInvHolds == Spec => []MeshInv
<1>1. Init => MeshInv
  <2> SUFFICES ASSUME Init
               PROVE  MeshInv
    OBVIOUS
  <2>1. mesh \in MeshState /\ created \in BOOLEAN
    BY DEF Init, MeshState, ContainerState
  <2>2. before \in [parts : SUBSET Part, whole : BOOLEAN]
    BY DEF Init
  <2>3. MeshTypeOK
    BY <2>1, <2>2, MeshBoundAssumption DEF Init, MeshTypeOK, Outcome
  <2> QED
    BY <2>3 DEF Init, MeshInv, TypeOK, RunsOrEnded, EnsureInv, EnsureUndoable, CleanInv,
      EnsureGivesMesh, Done
<1> QED
  BY <1>1, MeshInvStep, PTL DEF Spec

\* A failed create leaves no container and no volume of a mesh that it found
\* nothing of, unless it says that it could not remove them (create.go).
THEOREM MeshUndoneHolds == Spec => []MeshUndone
<1>1. Init => MeshUndone
  BY DEF Init, MeshUndone
<1>2. MeshInv /\ MeshUndone /\ [Next]_vars => MeshUndone'
  BY UndoneStep
<1> QED
  BY <1>1, <1>2, MeshInvHolds, PTL DEF Spec

-----------------------------------------------------------------------------
(* The commands.                                                           *)

\* The tasks that are no name and no cluster.
AllTasks == EnsureTasks \union CleanTasks \union PrepTasks \union RegisterTasks \union DropTasks

\* A task's name is that of no node and no cluster.
LEMMA Distinct ==
  /\ \A n \in Name : n \notin Cluster
  /\ \A t \in AllTasks : t \notin Name /\ t \notin Cluster
<1>1. DOMAIN ClusterNeeds = PrepTasks \union RegisterTasks \union DropTasks
  BY DEF ClusterNeeds, PrepTasks, RegisterTasks, DropTasks
<1> QED
  BY <1>1, TaskAssumption DEF AllTasks

\* What each task waits for.
LEMMA NeedsIs ==
  /\ \A n \in Name : Needs(n) = {}
  /\ \A c \in Cluster : Needs(c) = NodesOf({c})
  /\ \A t \in EnsureTasks \union CleanTasks : Needs(t) = MeshNeeds[t]
  /\ \A t \in {"preflight", "resolveInfra"} \union RegisterTasks \union DropTasks : Needs(t) = {}
  /\ Needs("clusterNetwork") = {"preflight"} /\ Needs("clusterVolumes") = {"preflight"}
  /\ Needs("joinRelay") = {"clusterNetwork"}
<1>1. DOMAIN ClusterNeeds = PrepTasks \union RegisterTasks \union DropTasks
  BY DEF ClusterNeeds, PrepTasks, RegisterTasks, DropTasks
<1>2. /\ \A t \in {"preflight", "resolveInfra"} \union RegisterTasks \union DropTasks :
           ClusterNeeds[t] = {}
      /\ ClusterNeeds["clusterNetwork"] = {"preflight"}
      /\ ClusterNeeds["clusterVolumes"] = {"preflight"}
      /\ ClusterNeeds["joinRelay"] = {"clusterNetwork"}
  BY DEF ClusterNeeds, RegisterTasks, DropTasks
<1>3. \A t \in EnsureTasks \union CleanTasks : t \notin DOMAIN ClusterNeeds
  BY <1>1 DEF EnsureTasks, CleanTasks, PrepTasks, RegisterTasks, DropTasks
<1>4. \A t \in AllTasks : Needs(t) = IF t \in DOMAIN ClusterNeeds THEN ClusterNeeds[t] ELSE MeshNeeds[t]
  BY Distinct DEF Needs
<1>5. /\ \A n \in Name : Needs(n) = {}
      /\ \A c \in Cluster : Needs(c) = NodesOf({c})
  BY Distinct DEF Needs
<1>6. \A t \in EnsureTasks \union CleanTasks : Needs(t) = MeshNeeds[t]
  BY <1>3, <1>4 DEF AllTasks
<1>7. \A t \in {"preflight", "resolveInfra"} \union RegisterTasks \union DropTasks : Needs(t) = {}
  BY <1>1, <1>2, <1>4 DEF AllTasks, PrepTasks
<1>8. /\ Needs("clusterNetwork") = {"preflight"}
      /\ Needs("clusterVolumes") = {"preflight"}
      /\ Needs("joinRelay") = {"clusterNetwork"}
  BY <1>1, <1>2, <1>4 DEF AllTasks, PrepTasks
<1> QED
  BY <1>5, <1>6, <1>7, <1>8

\* When a task may run, by its kind.
LEMMA OpenTaskIs ==
  /\ \A t : OpenTask(t) => t \in todo
  /\ \A n \in Name : OpenTask(n) <=> n \in todo
  /\ \A c \in Cluster : OpenTask(c) <=> c \in todo /\ NodesOf({c}) \intersect (todo \union failed) = {}
  /\ \A t \in EnsureTasks \union CleanTasks : OpenTask(t) <=> Open(t)
  /\ OpenTask("clusterNetwork") => Ended("preflight")
  /\ OpenTask("clusterVolumes") => Ended("preflight")
  /\ OpenTask("joinRelay") => Ended("clusterNetwork")
BY NeedsIs DEF OpenTask, Open, Ended

\* What each task asks of the mesh.
LEMMA CanDoIs ==
  /\ \A n \in Name \union Cluster : CanDo(n)
  /\ \A t \in EnsureTasks \union CleanTasks \union {"clusterNetwork", "clusterVolumes", "slurm"} : CanDo(t)
  /\ CanDo("preflight") <=> \A c \in target : ~Exists(c)
  /\ CanDo("joinRelay") <=> mesh.relay # "none"
  /\ \A t \in {"addRecords", "dropRecords"} : CanDo(t) <=> mesh.corefile
  /\ \A t \in {"resolveInfra", "addHosts", "dropHosts"} :
       CanDo(t) <=> mesh.relay = "running" /\ mesh.vol = "keys"
<1>1. \A t \in {"preflight", "addRecords", "dropRecords", "resolveInfra", "addHosts", "dropHosts", "joinRelay"} :
        t \notin Name \union Cluster
  BY Distinct DEF AllTasks, PrepTasks, RegisterTasks, DropTasks
<1> QED
  BY <1>1 DEF CanDo, EnsureTasks, CleanTasks

\* The tasks of each phase, and the phase of each task.
LEMMA TasksFit ==
  ASSUME ClusterTypeOK
  PROVE  /\ phase = "ensure" => todo \union failed \subseteq EnsureTasks
         /\ phase = "prep" => todo \union failed \subseteq PrepTasks
         /\ phase = "nodes" => todo \union failed \subseteq NodesOf(target)
         /\ phase = "register" => todo \union failed \subseteq RegisterTasks
         /\ phase = "wake" => todo \union failed \subseteq WakeTasks
         /\ phase = "drop" => todo \union failed \subseteq DropTasks
         /\ phase = "remove" => todo \union failed \subseteq NodesOf(target) \union target
         /\ phase \in {"undo", "clean"} => todo \union failed \subseteq CleanTasks
         /\ phase \in {"idle", "rollback", "list"} => todo \union failed = {}
         /\ phase \in Phases
BY DEF ClusterTypeOK, TasksOfPhase, PhaseTasks, Phases

\* A task to do tells the phase.
LEMMA PhaseFits ==
  ASSUME ClusterTypeOK, NEW t \in todo
  PROVE  /\ t \in Name => phase \in {"nodes", "remove"} /\ t \in NodesOf(target)
         /\ t \in Cluster => phase = "remove" /\ t \in target
         /\ t \in PrepTasks => phase = "prep"
         /\ t \in RegisterTasks => phase = "register"
         /\ t \in DropTasks => phase = "drop"
         /\ t \in CleanTasks => phase \in {"undo", "clean"}
         /\ t \in EnsureTasks => phase = "ensure" \/ (phase = "wake" /\ t \in WakeTasks)
<1>1. /\ target \subseteq Cluster /\ NodesOf(target) \subseteq Name
      /\ WakeTasks \subseteq EnsureTasks
      /\ EnsureTasks \union CleanTasks \union PrepTasks \union RegisterTasks \union DropTasks = AllTasks
  BY DEF ClusterTypeOK, NodesOf, WakeTasks, EnsureTasks, AllTasks
<1>2. /\ EnsureTasks \intersect CleanTasks = {} /\ EnsureTasks \intersect PrepTasks = {}
      /\ EnsureTasks \intersect RegisterTasks = {} /\ EnsureTasks \intersect DropTasks = {}
      /\ CleanTasks \intersect PrepTasks = {} /\ CleanTasks \intersect RegisterTasks = {}
      /\ CleanTasks \intersect DropTasks = {} /\ PrepTasks \intersect RegisterTasks = {}
      /\ PrepTasks \intersect DropTasks = {} /\ RegisterTasks \intersect DropTasks = {}
  BY DEF EnsureTasks, CleanTasks, PrepTasks, RegisterTasks, DropTasks
<1>3. /\ \A n \in Name : n \notin Cluster /\ n \notin AllTasks
      /\ \A c \in Cluster : c \notin Name /\ c \notin AllTasks
  BY Distinct
<1> QED
  BY <1>1, <1>2, <1>3, TasksFit DEF Phases

\* A task t of the command ends or fails.
TaskOver(t) ==
  /\ t \in todo /\ todo' \in {todo, todo \ {t}}
  /\ failed' \in {failed, failed \union {t}}
  /\ t \in failed' => todo' = todo \ {t}
  /\ faults' \in {faults, faults + 1} \intersect 0..MaxFaults
  /\ UNCHANGED <<phase, created, attempt, before, outcome, commands, target, ready>>

\* The results of a command concern the time after its end.
Results == DeleteEmpties /\ FailedCreateUndone /\ NextCreateWorks

\* A command that runs has no result.
LEMMA NoResultYet ==
  ASSUME RunsOrEnded', phase' # "idle"
  PROVE  Results'
BY DEF RunsOrEnded, Results, DeleteEmpties, FailedCreateUndone, NextCreateWorks

\* A task that ends, or whose call failed although the daemon did it, is over.
LEMMA FinishesIsOver ==
  ASSUME ClusterTypeOK, NEW t, Finishes(t), UNCHANGED <<target, ready>>
  PROVE  TaskOver(t) /\ OpenTask(t) /\ CanDo(t) /\ (faults' = faults => failed' = failed)
BY OpenTaskIs, MeshBoundAssumption
   DEF Finishes, Ends, FailsTask, Strikes, commandVars, TaskOver, ClusterTypeOK, MeshTypeOK

\* What a task that ends or fails cannot disturb, whatever it does.
LEMMA TaskFrame ==
  ASSUME ClusterTypeOK, CommandInv, NEW t, TaskOver(t), UNCHANGED job
  PROVE  /\ phase' = phase /\ phase \notin {"idle", "rollback", "list"}
         /\ RunsOrEnded' /\ ReadySpared' /\ Results'
         /\ t # "preflight" \/ t \in failed' => JobFits'
         /\ TasksOfPhase'
         /\ todo' \union failed' \subseteq todo \union failed /\ failed \subseteq failed'
         /\ \A s : s \notin todo' \union failed' => Ended(s) \/ s = t
         /\ faults' \in 0..MaxFaults /\ job.since <= faults'
         /\ faults' = job.since => faults' = faults
<1>1. /\ UNCHANGED <<phase, created, attempt, before, outcome, commands, target, ready, job>>
      /\ todo' \union failed' \subseteq todo \union failed /\ todo # {} /\ t \in todo
      /\ todo' \subseteq todo /\ failed \subseteq failed'
      /\ \A s : s \notin todo' \union failed' => Ended(s) \/ s = t
  BY DEF TaskOver, Ended, ClusterTypeOK, MeshTypeOK
<1>2. phase' # "idle" /\ phase \notin {"idle", "rollback", "list"}
  BY <1>1, TasksFit
<1>3. RunsOrEnded' /\ ReadySpared'
  BY <1>1 DEF CommandInv, RunsOrEnded, ReadySpared
<1>4. Results'
  BY <1>2, <1>3, NoResultYet
<1>5. TasksOfPhase'
  BY <1>1 DEF TaskOver, ClusterTypeOK, TasksOfPhase, PhaseTasks, NodesOf
<1>6. /\ faults' \in 0..MaxFaults /\ job.since <= faults'
      /\ faults' = job.since => faults' = faults
  <2>1. job.since \in 0..MaxFaults
    BY DEF ClusterTypeOK, JobState
  <2>2. faults \in 0..MaxFaults /\ job.since <= faults
    BY DEF CommandInv, JobFits, ClusterTypeOK, MeshTypeOK
  <2> QED
    BY <2>1, <2>2, MeshBoundAssumption DEF TaskOver
<1>7. ASSUME t # "preflight" \/ t \in failed'
      PROVE  JobFits'
  <2>1. /\ "preflight" \notin todo' \union failed' => Ended("preflight")
        /\ "preflight" \in todo' => "preflight" \in todo
    BY <1>1, <1>7
  <2> QED
    BY <1>1, <1>6, <2>1 DEF CommandInv, JobFits, NodesOf, Ended
<1> QED
  BY <1>1, <1>2, <1>3, <1>4, <1>5, <1>6, <1>7

\* A task of a create's preparation makes a resource of the cluster, which
\* only adds to what there is.
LEMMA SetsClusterKeeps ==
  ASSUME ClusterInv, Results, CreateClusterNetwork \/ JoinRelay \/ CreateClusterVolumes
  PROVE  ClusterInv' /\ Results'
<1>1. ClusterTypeOK /\ CommandInv /\ ReadyIntact
  BY DEF ClusterInv
<1>2. PICK t \in {"clusterNetwork", "joinRelay", "clusterVolumes"} :
        /\ TaskOver(t) /\ OpenTask(t) /\ CanDo(t) /\ (faults' = faults => failed' = failed)
        /\ UNCHANGED <<mesh, nodes, attached, job>>
        /\ \E c \in target :
             clusters' = CASE t = "clusterNetwork" -> [clusters EXCEPT ![c].net = TRUE]
                           [] t = "joinRelay"      -> [clusters EXCEPT ![c].joined = TRUE]
                           [] t = "clusterVolumes" -> [clusters EXCEPT ![c].vols = TRUE]
  <2>1. ASSUME NEW t \in {"clusterNetwork", "joinRelay", "clusterVolumes"}, Finishes(t),
               UNCHANGED <<target, ready>>
        PROVE  TaskOver(t) /\ OpenTask(t) /\ CanDo(t) /\ (faults' = faults => failed' = failed)
    BY <1>1, <2>1, FinishesIsOver
  <2>2. CASE CreateClusterNetwork
    BY <2>1, <2>2 DEF CreateClusterNetwork, SetsCluster
  <2>3. CASE JoinRelay
    BY <2>1, <2>3 DEF JoinRelay, SetsCluster
  <2>4. CASE CreateClusterVolumes
    BY <2>1, <2>4 DEF CreateClusterVolumes, SetsCluster
  <2> QED
    BY <2>2, <2>3, <2>4
<1>3. /\ t \in todo /\ phase = "prep" /\ phase' = "prep" /\ job.kind = "create"
      /\ t # "joinRelay" => job.made
      /\ t = "joinRelay" => Ended("clusterNetwork") /\ mesh.relay # "none"
  <2>1. t \in todo /\ t \in PrepTasks
    BY <1>2 DEF TaskOver, PrepTasks
  <2>2. phase = "prep"
    BY <1>1, <2>1, PhaseFits
  <2> QED
    BY <1>1, <1>2, <2>1, <2>2, OpenTaskIs, CanDoIs DEF TaskOver, CommandInv, JobFits
<1>4. PICK c \in Cluster : target = {c}
  BY <1>1, <1>3 DEF CommandInv, JobFits
<1>5. /\ \A d \in Cluster \ {c} : clusters'[d] = clusters[d]
      /\ clusters'[c].net = IF t = "clusterNetwork" THEN TRUE ELSE clusters[c].net
      /\ clusters'[c].vols = IF t = "clusterVolumes" THEN TRUE ELSE clusters[c].vols
      /\ clusters'[c].joined = IF t = "joinRelay" THEN TRUE ELSE clusters[c].joined
      /\ clusters' \in [Cluster -> [net : BOOLEAN, vols : BOOLEAN, joined : BOOLEAN]]
  <2>1. clusters \in [Cluster -> [net : BOOLEAN, vols : BOOLEAN, joined : BOOLEAN]]
    BY <1>1 DEF ClusterTypeOK
  <2>2. CASE t = "clusterNetwork"
    <3>1. clusters' = [clusters EXCEPT ![c].net = TRUE]
      BY <1>2, <1>4, <2>2
    <3> QED
      BY <2>1, <2>2, <3>1
  <2>3. CASE t = "joinRelay"
    <3>1. clusters' = [clusters EXCEPT ![c].joined = TRUE]
      BY <1>2, <1>4, <2>3
    <3> QED
      BY <2>1, <2>3, <3>1
  <2>4. CASE t = "clusterVolumes"
    <3>1. clusters' = [clusters EXCEPT ![c].vols = TRUE]
      BY <1>2, <1>4, <2>4
    <3> QED
      BY <2>1, <2>4, <3>1
  <2> QED
    BY <2>2, <2>3, <2>4
<1>6. /\ RunsOrEnded' /\ ReadySpared' /\ Results' /\ JobFits' /\ phase' = phase
      /\ TasksOfPhase'
      /\ UNCHANGED <<mesh, nodes, attached, job, created, attempt, before, outcome, commands,
                     target, ready>>
      /\ todo' \union failed' \subseteq todo \union failed
      /\ \A s : s \notin todo' \union failed' => Ended(s) \/ s = t
      /\ faults' \in 0..MaxFaults
      /\ faults' = job.since => failed' = failed /\ faults = job.since
  BY <1>1, <1>2, TaskFrame DEF TaskOver, Ended, ClusterTypeOK, MeshTypeOK
<1>7. ClusterTypeOK'
  <2>1. MeshTypeOK'
    BY <1>1, <1>6 DEF ClusterTypeOK, MeshTypeOK
  <2>2. \A d \in Cluster : clusters'[d].joined => clusters'[d].net /\ mesh'.relay # "none"
    BY <1>1, <1>3, <1>4, <1>5, <1>6 DEF ClusterTypeOK, CommandInv, CreateDone
  <2> QED
    BY <1>1, <1>5, <1>6, <2>1, <2>2 DEF ClusterTypeOK, Containers
<1>8. EnsureInv' /\ EnsureUndoable' /\ CleanInv'
  BY <1>3 DEF EnsureInv, EnsureUndoable, CleanInv
<1>9. CreateDone'
  BY <1>1, <1>3, <1>4, <1>5, <1>6 DEF CommandInv, CreateDone, NodesOf, Containers, Ended
<1>10. RemovalDone'
  BY <1>1, <1>3, <1>4, <1>5, <1>6 DEF CommandInv, RemovalDone, NodesOf,
      Containers, Ended, Exists
<1>11. NamesKept' /\ NothingFails'
  BY <1>1, <1>3, <1>6 DEF CommandInv, NamesKept, NothingFails, Registered,
      NodesOf, Containers
<1>12. ReadyIntact'
  <2>1. \A d \in Cluster : /\ clusters[d].net => clusters'[d].net
                           /\ clusters[d].vols => clusters'[d].vols
                           /\ clusters[d].joined => clusters'[d].joined
    BY <1>5
  <2> QED
    BY <1>1, <1>6, <2>1 DEF ReadyIntact, NodesOf, ClusterTypeOK
<1> QED
  BY <1>6, <1>7, <1>8, <1>9, <1>10, <1>11, <1>12 DEF ClusterInv, CommandInv

\* A task that ends or fails without an effect on any resource: a call that
\* fails, or that the daemon refuses, or one that only reads.
LEMMA NoEffectKeeps ==
  ASSUME ClusterInv, Results, NEW t, NEW f, TaskOver(t), OpenTask(t),
         t # "preflight" \/ t \in failed',
         UNCHANGED <<mesh, resources, job>>,
         t \notin failed' => t \in {"resolveInfra", "slurm"} \union WakeTasks /\ phase # "ensure",
         t \in failed' => FailsTask(t, f) \/ ~CanDo(t)
  PROVE  ClusterInv' /\ Results'
<1>1. ClusterTypeOK /\ CommandInv /\ ReadyIntact
  BY DEF ClusterInv
<1>2. /\ RunsOrEnded' /\ ReadySpared' /\ Results' /\ phase' = phase
      /\ TasksOfPhase'
      /\ UNCHANGED <<mesh, clusters, nodes, attached, job, created, attempt, before, outcome, commands,
                     target, ready>>
      /\ t \in todo /\ todo' \union failed' \subseteq todo \union failed /\ failed \subseteq failed'
      /\ faults' \in 0..MaxFaults
      /\ faults' = job.since => faults' = faults /\ faults = job.since
      /\ JobFits'
  BY <1>1, TaskFrame DEF TaskOver, Ended, ClusterTypeOK, MeshTypeOK, resources
<1>3. \A s : s \notin todo' \union failed' =>
              Ended(s) \/ (s = t /\ t \notin failed' /\ t \in {"resolveInfra", "slurm"} \union WakeTasks)
  BY DEF TaskOver, Ended
<1>4. t \notin failed' => phase \in {"prep", "register", "wake"}
  <2>1. t \in {"resolveInfra", "slurm"} => t \in PrepTasks \union RegisterTasks
    BY DEF PrepTasks, RegisterTasks
  <2>2. t \in WakeTasks => t \in EnsureTasks
    BY DEF WakeTasks, EnsureTasks
  <2> QED
    BY <1>1, <1>2, <2>1, <2>2, PhaseFits
<1>5. ClusterTypeOK'
  <2>1. MeshTypeOK'
    BY <1>1, <1>2 DEF ClusterTypeOK, MeshTypeOK
  <2> QED
    BY <1>1, <1>2, <2>1 DEF ClusterTypeOK, Containers
<1>6. EnsureInv' /\ EnsureUndoable' /\ CleanInv'
  <2>1. CASE phase \in {"ensure", "undo", "clean"}
    <3>1. t \in failed' /\ t \in EnsureTasks \union CleanTasks
      BY <1>1, <1>2, <1>4, <2>1, TasksFit
    <3>2. FailsTask(t, f) /\ Open(t)
      BY <3>1, CanDoIs, OpenTaskIs
    <3>3. UNCHANGED <<mesh, commandVars>>
      BY <1>2 DEF commandVars
    <3> QED
      BY <1>1, <1>2, <3>2, <3>3, FailKeeps
         DEF ClusterTypeOK, CommandInv, EnsureInv, EnsureUndoable, CleanInv
  <2>2. CASE phase \notin {"ensure", "undo", "clean"}
    BY <1>2, <2>2 DEF EnsureInv, EnsureUndoable, CleanInv
  <2> QED
    BY <2>1, <2>2
<1>7. CreateDone'
  BY <1>1, <1>2, <1>3, <1>4 DEF CommandInv, CreateDone, NodesOf, Containers,
      Ended, WakeTasks
<1>8. RemovalDone'
  BY <1>1, <1>2, <1>3, <1>4 DEF CommandInv, RemovalDone, NodesOf, Containers,
      Ended, Exists,
    HasOtherClusters
<1>9. NamesKept'
  BY <1>1, <1>2, <1>3, <1>4 DEF CommandInv, NamesKept, NodesOf, Containers, Ended,
      Registered, WakeTasks
<1>10. NothingFails'
  <2> SUFFICES ASSUME job.kind = "create", faults' = job.since, before.whole, ~job.had, phase # "idle"
               PROVE  /\ phase \in {"ensure", "prep", "nodes", "register"}
                      /\ failed' = {}
                      /\ phase # "ensure" => mesh.corefile /\ mesh.relay = "running" /\ mesh.vol = "keys"
    BY <1>2 DEF NothingFails
  <2>1. /\ phase \in {"ensure", "prep", "nodes", "register"} /\ failed = {}
        /\ phase # "ensure" => mesh.corefile /\ mesh.relay = "running" /\ mesh.vol = "keys"
        /\ faults' = faults
    BY <1>1, <1>2 DEF CommandInv, NothingFails
  <2>2. CanDo(t)
    <3>1. t = "preflight" => \A c \in target : ~Exists(c)
      BY <1>1, <1>2, PhaseFits DEF CommandInv, JobFits, RemovalDone, PrepTasks
    <3>2. t \in EnsureTasks \union PrepTasks \union NodesOf(target) \union RegisterTasks
      BY <1>1, <1>2, <2>1, TasksFit
    <3>3. t \in {"joinRelay", "resolveInfra", "addRecords", "addHosts"} =>
            mesh.corefile /\ mesh.relay = "running" /\ mesh.vol = "keys"
      BY <1>1, <1>2, <2>1, PhaseFits DEF PrepTasks, RegisterTasks
    <3> QED
      BY <3>1, <3>2, <3>3, CanDoIs DEF PrepTasks, RegisterTasks, NodesOf
  <2>3. faults \in Nat
    BY <1>1 DEF ClusterTypeOK, MeshTypeOK
  <2>4. t \notin failed' => failed' = failed
    BY DEF TaskOver
  <2> QED
    BY <2>1, <2>2, <2>3, <2>4 DEF FailsTask, Strikes
<1>11. ReadyIntact'
  BY <1>1, <1>2 DEF ReadyIntact
<1> QED
  BY <1>2, <1>5, <1>6, <1>7, <1>8, <1>9, <1>10, <1>11 DEF ClusterInv, CommandInv

\* The step of a phase other than those of Mesh leaves nothing to show of them.
LEMMA OtherPhase ==
  ASSUME phase' \notin {"ensure", "undo", "clean"}
  PROVE  EnsureInv' /\ EnsureUndoable' /\ CleanInv'
BY DEF EnsureInv, EnsureUndoable, CleanInv

\* A node's container is made, or started, on the mesh network.
LEMMA NodeStepKeeps ==
  ASSUME ClusterInv, Results, NEW n \in Name, CreateNode(n) \/ StartNode(n)
  PROVE  ClusterInv' /\ Results'
<1>1. ClusterTypeOK /\ CommandInv /\ ReadyIntact
  BY DEF ClusterInv
<1>2. /\ TaskOver(n) /\ phase = "nodes" /\ (faults' = faults => failed' = failed)
      /\ UNCHANGED <<mesh, commandVars, clusters, target, job, ready>>
      /\ nodes' \in {[nodes EXCEPT ![n] = "created"], [nodes EXCEPT ![n] = "running"]}
      /\ attached \subseteq attached'
      /\ attached' \subseteq attached \union {n}
      /\ nodes[n] = "none" => n \in attached'
      /\ n \notin todo' \/ n \in failed' \/ todo' = todo
  <2>1. CASE CreateNode(n)
    <3>1. faults \in 0..MaxFaults /\ n \in todo /\ n \notin failed
      BY <1>1, <2>1, OpenTaskIs DEF CreateNode, ClusterTypeOK, MeshTypeOK, TasksOfPhase
    <3> QED
      BY <2>1, <3>1, MeshBoundAssumption DEF CreateNode, TaskOver, Ends,
          FailsTask, Strikes, commandVars
  <2>2. CASE StartNode(n)
    <3>1. Finishes(n) /\ UNCHANGED <<target, ready>>
      BY <2>2 DEF StartNode
    <3>2. TaskOver(n) /\ (faults' = faults => failed' = failed)
      BY <1>1, <3>1, FinishesIsOver
    <3> QED
      BY <2>2, <3>2 DEF StartNode, Finishes, TaskOver, Ends, FailsTask
  <2> QED
    BY <2>1, <2>2
<1>3. /\ RunsOrEnded' /\ ReadySpared' /\ Results' /\ phase' = phase
      /\ TasksOfPhase'
      /\ UNCHANGED <<mesh, clusters, job, created, attempt, before, outcome, commands, target, ready>>
      /\ todo' \union failed' \subseteq todo \union failed
      /\ \A s : s \notin todo' \union failed' => Ended(s) \/ s = n
      /\ faults' \in 0..MaxFaults
      /\ faults' = job.since => failed' = failed /\ faults = job.since
      /\ n \in NodesOf(target) /\ n \in todo
      /\ JobFits'
  <2>1. n # "preflight"
    BY Distinct DEF AllTasks, PrepTasks
  <2> QED
    BY <1>1, <1>2, <2>1, TaskFrame, PhaseFits DEF TaskOver, Ended, ClusterTypeOK,
        MeshTypeOK, commandVars
<1>4. job.kind = "create" /\ job.made
  BY <1>1, <1>2 DEF CommandInv, JobFits
<1>5. /\ nodes' \in [Name -> ContainerState] /\ nodes'[n] # "none"
      /\ \A m \in Name \ {n} : nodes'[m] = nodes[m]
      /\ NodesOf(target) \intersect Containers \subseteq attached
      /\ mesh.net # "none"
  BY <1>1, <1>2, <1>4 DEF ClusterTypeOK, ContainerState, CommandInv, CreateDone
<1>6. ClusterTypeOK'
  <2>1. MeshTypeOK'
    BY <1>1, <1>3 DEF ClusterTypeOK, MeshTypeOK
  <2>2. attached' \subseteq Containers'
    BY <1>1, <1>2, <1>5 DEF ClusterTypeOK, Containers
  <2> QED
    BY <1>1, <1>3, <1>5, <2>1, <2>2 DEF ClusterTypeOK
<1>7. CreateDone'
  BY <1>1, <1>2, <1>3, <1>5 DEF CommandInv, CreateDone, NodesOf, Containers, Ended
<1>8. RemovalDone'
  BY <1>2, <1>3, <1>4 DEF RemovalDone
<1>9. NamesKept' /\ NothingFails'
  BY <1>1, <1>2, <1>3 DEF CommandInv, NamesKept, NothingFails, Registered
<1>10. ReadyIntact'
  BY <1>1, <1>2, <1>3 DEF ReadyIntact
<1> QED
  BY <1>2, <1>3, <1>6, <1>7, <1>8, <1>9, <1>10, OtherPhase DEF ClusterInv, CommandInv

\* A create tells the mesh of its nodes.
LEMMA RegisterKeeps ==
  ASSUME ClusterInv, Results, AddDNSRecords \/ AddKnownHosts
  PROVE  ClusterInv' /\ Results'
<1>1. ClusterTypeOK /\ CommandInv /\ ReadyIntact
  BY DEF ClusterInv
<1>2. PICK t \in {"addRecords", "addHosts"} :
        /\ TaskOver(t) /\ OpenTask(t) /\ CanDo(t) /\ (faults' = faults => failed' = failed)
        /\ UNCHANGED clusterVars
        /\ mesh' = IF t = "addRecords" THEN [mesh EXCEPT !.records = @ \union NodesOf(target)]
                                       ELSE [mesh EXCEPT !.hosts = @ \union NodesOf(target)]
  <2>1. ASSUME NEW t, NEW m, SetsMesh(t, m)
        PROVE  /\ TaskOver(t) /\ OpenTask(t) /\ CanDo(t) /\ (faults' = faults => failed' = failed)
               /\ UNCHANGED clusterVars /\ mesh' = m
    BY <1>1, <2>1, FinishesIsOver DEF SetsMesh, clusterVars
  <2>2. CASE AddDNSRecords
    BY <2>1, <2>2 DEF AddDNSRecords
  <2>3. CASE AddKnownHosts
    BY <2>1, <2>3 DEF AddKnownHosts
  <2> QED
    BY <2>2, <2>3
<1>3. /\ RunsOrEnded'
      /\ ReadySpared'
      /\ Results'
      /\ JobFits'
      /\ phase = "register"
      /\ phase' = "register"
      /\ TasksOfPhase'
      /\ UNCHANGED <<clusters, nodes, attached, job, created, attempt, before, outcome, commands,
                     target, ready>>
      /\ \A s : s \notin todo' \union failed' => Ended(s) \/ s = t
      /\ faults' \in 0..MaxFaults
      /\ faults' = job.since => failed' = failed /\ faults = job.since
      /\ job.kind = "create" /\ job.made
  BY <1>1, <1>2, TaskFrame, PhaseFits
     DEF TaskOver, Ended, clusterVars, resources, RegisterTasks, CommandInv, JobFits
<1>4. /\ mesh' \in MeshState
      /\ mesh'.net = mesh.net /\ mesh'.dns = mesh.dns /\ mesh'.corefile = mesh.corefile
      /\ mesh'.vol = mesh.vol /\ mesh'.relay = mesh.relay
      /\ mesh.records \subseteq mesh'.records /\ mesh.hosts \subseteq mesh'.hosts
      /\ mesh'.records \union mesh'.hosts \subseteq mesh.records \union mesh.hosts \union NodesOf(target)
      /\ t = "addRecords" => NodesOf(target) \subseteq mesh'.records /\ mesh'.hosts = mesh.hosts /\ mesh.corefile
      /\ t = "addHosts" =>
           NodesOf(target) \subseteq mesh'.hosts /\ mesh'.records = mesh.records /\ mesh.vol = "keys"
  BY <1>1, <1>2, CanDoIs DEF ClusterTypeOK, MeshTypeOK, MeshState, NodesOf
<1>5. ClusterTypeOK'
  <2>1. MeshTypeOK'
    BY <1>1, <1>3, <1>4 DEF ClusterTypeOK, MeshTypeOK
  <2> QED
    BY <1>1, <1>3, <1>4, <2>1 DEF ClusterTypeOK, Containers
<1>6. CreateDone'
  BY <1>1, <1>3, <1>4 DEF CommandInv, CreateDone, NodesOf, Containers, Ended
<1>7. RemovalDone'
  BY <1>3 DEF RemovalDone
<1>8. NamesKept' /\ NothingFails'
  BY <1>1, <1>3, <1>4 DEF CommandInv, NamesKept, NothingFails, Registered, NodesOf
<1>9. ReadyIntact'
  BY <1>1, <1>3, <1>4 DEF ReadyIntact
<1> QED
  BY <1>3, <1>5, <1>6, <1>7, <1>8, <1>9, OtherPhase DEF ClusterInv, CommandInv

\* The preflight check finds nothing of the cluster, and so the create may
\* make, and on failure remove, what is of it.
LEMMA PreflightKeeps ==
  ASSUME ClusterInv, Results, Preflight
  PROVE  ClusterInv' /\ Results'
<1>1. ClusterTypeOK /\ CommandInv /\ ReadyIntact
  BY DEF ClusterInv
<1>2. /\ "preflight" \in todo /\ \A c \in target : ~Exists(c)
      /\ todo' = todo \ {"preflight"} /\ failed' = failed /\ faults' = faults
      /\ job' = [job EXCEPT !.made = TRUE]
      /\ UNCHANGED <<mesh, phase, created, attempt, before, outcome, commands, clusters, nodes,
                     attached, target, ready>>
  BY OpenTaskIs, CanDoIs DEF Preflight, Ends, commandVars, resources
<1>3. phase = "prep" /\ phase' = "prep" /\ job.kind = "create"
  BY <1>1, <1>2, PhaseFits DEF PrepTasks, CommandInv, JobFits
<1>4. /\ job' \in JobState /\ job'.made
      /\ job'.kind = job.kind /\ job'.removes = job.removes /\ job'.found = job.found
      /\ job'.warned = job.warned /\ job'.untidy = job.untidy /\ job'.was = job.was
      /\ job'.had = job.had /\ job'.since = job.since
  BY <1>1, <1>2 DEF ClusterTypeOK, JobState
<1>5. target \intersect ready = {}
  BY <1>1, <1>2 DEF ReadyIntact, Exists
<1>6. NodesOf(target) \intersect Containers = {}
  BY <1>2 DEF Exists, NodesOf
<1>7. ClusterTypeOK'
  <2>1. MeshTypeOK'
    BY <1>1, <1>2 DEF ClusterTypeOK, MeshTypeOK
  <2>2. TasksOfPhase'
    BY <1>1, <1>2 DEF ClusterTypeOK, TasksOfPhase, PhaseTasks, NodesOf
  <2> QED
    BY <1>1, <1>2, <1>4, <2>1, <2>2 DEF ClusterTypeOK, Containers
<1>8. JobFits'
  BY <1>1, <1>2, <1>3, <1>4 DEF CommandInv, JobFits, NodesOf
<1>9. ReadySpared' /\ RunsOrEnded'
  BY <1>1, <1>2, <1>3, <1>4, <1>5 DEF CommandInv, ReadySpared, RunsOrEnded
<1>10. CreateDone'
  BY <1>1, <1>2, <1>3, <1>6 DEF CommandInv, CreateDone, NodesOf, Containers, Ended
<1>11. RemovalDone' /\ NamesKept' /\ NothingFails'
  BY <1>1, <1>2, <1>3, <1>4
     DEF CommandInv, RemovalDone, NamesKept, NothingFails, Registered, ClusterTypeOK
<1>12. ReadyIntact'
  BY <1>1, <1>2 DEF ReadyIntact
<1> QED
  BY <1>3, <1>7, <1>8, <1>9, <1>10, <1>11, <1>12, OtherPhase,
      NoResultYet DEF ClusterInv, CommandInv

\* The steps that change no resource.
LEMMA StillKeeps ==
  ASSUME ClusterInv, Results,
         ResolveInfra \/ EnableSlurm \/ NothingToStart \/ Refused \/ TaskFails
  PROVE  ClusterInv' /\ Results'
<1>1. ClusterTypeOK
  BY DEF ClusterInv
<1>2. faults \in 0..MaxFaults
  BY <1>1 DEF ClusterTypeOK, MeshTypeOK
<1>3. CASE ResolveInfra \/ EnableSlurm
  <2>1. PICK t \in {"resolveInfra", "slurm"} : Finishes(t) /\ UNCHANGED <<mesh, clusterVars>>
    BY <1>3 DEF ResolveInfra, EnableSlurm
  <2>2. TaskOver(t) /\ OpenTask(t) /\ t \in todo
    BY <1>1, <2>1, FinishesIsOver, OpenTaskIs DEF clusterVars
  <2>3. phase # "ensure" /\ CanDo(t)
    BY <1>1, <2>1, <2>2, PhaseFits DEF PrepTasks, RegisterTasks, Finishes
  <2>4. UNCHANGED <<mesh, resources, job>> /\ t # "preflight"
    BY <2>1 DEF clusterVars
  <2>5. t \in failed' => FailsTask(t, "done")
    BY <1>1, <2>1, <2>2 DEF Finishes, Ends, ClusterTypeOK, TasksOfPhase
  <2> QED
    BY <2>2, <2>3, <2>4, <2>5, NoEffectKeeps
<1>4. CASE NothingToStart
  <2>1. PICK t \in WakeTasks : Skip(t, {}) /\ UNCHANGED clusterVars /\ phase = "wake"
    BY <1>4 DEF NothingToStart, WakeTasks
  <2>2. /\ TaskOver(t) /\ Open(t) /\ failed' = failed
        /\ UNCHANGED <<mesh, resources, job>>
    BY <1>2, <2>1 DEF Skip, Ends, Open, TaskOver, commandVars, clusterVars
  <2>3. OpenTask(t) /\ t # "preflight" /\ t \notin failed'
    BY <1>1, <2>2, OpenTaskIs DEF WakeTasks, EnsureTasks, Open, ClusterTypeOK,
        TasksOfPhase
  <2> QED
    BY <2>1, <2>2, <2>3, NoEffectKeeps
<1>5. CASE Refused
  <2>1. PICK t \in todo : OpenTask(t) /\ ~CanDo(t) /\ todo' = todo \ {t} /\ failed' = failed \union {t}
    BY <1>5 DEF Refused
  <2>2. TaskOver(t) /\ UNCHANGED <<mesh, resources, job>>
    BY <1>2, <1>5, <2>1 DEF Refused, TaskOver, commandVars, clusterVars
  <2> QED
    BY <2>1, <2>2, NoEffectKeeps
<1>6. CASE TaskFails
  <2>1. PICK t \in todo : OpenTask(t) /\ FailsTask(t, "fail") /\ UNCHANGED <<mesh, commandVars, clusterVars>>
    BY <1>6 DEF TaskFails
  <2>2. TaskOver(t) /\ t \in failed' /\ UNCHANGED <<mesh, resources, job>>
    BY <1>2, <2>1, MeshBoundAssumption DEF TaskOver, FailsTask, Strikes,
        commandVars, clusterVars
  <2> QED
    BY <2>1, <2>2, NoEffectKeeps
<1> QED
  BY <1>3, <1>4, <1>5, <1>6

\* StartMesh starts the containers of the mesh that a removal writes into, and
\* changes nothing else.
LEMMA WakeKeeps ==
  ASSUME ClusterInv, Results, MeshStep, phase = "wake"
  PROVE  ClusterInv' /\ Results'
<1>1. ClusterTypeOK /\ CommandInv /\ ReadyIntact
  BY DEF ClusterInv
<1>2. todo \subseteq WakeTasks /\ todo \intersect failed = {} /\ faults \in 0..MaxFaults
  BY <1>1, TasksFit DEF ClusterTypeOK, MeshTypeOK, TasksOfPhase
<1>3. DNSRuns \/ StartDNS \/ StartedDNSUnseen \/ RelayRuns \/ StartRelay
  BY <1>2 DEF MeshStep, EnsureStep, RemoveDNS, RemoveVolume, EnsureFails, Stuck,
      NetworkExists,
    CreateNetwork, KeepNetwork, RemovePlain, PinNetwork, PinnedByOther, SubnetTaken, DNSExists,
    CreateDNS, WriteCorefile, VolumeExists, CreateVolume, RelayExists, CreateRelay, WriteKeys,
    Skip, Does, SetsNetwork, Open, WakeTasks
<1>4. PICK t \in WakeTasks :
        /\ TaskOver(t) /\ UNCHANGED clusterVars
        /\ \/ mesh' = mesh
           \/ mesh' = [mesh EXCEPT !.dns = "running"] /\ mesh.dns # "none"
           \/ mesh' = [mesh EXCEPT !.relay = "running"] /\ mesh.relay # "none"
  <2>1. UNCHANGED clusterVars
    BY DEF MeshStep
  <2>2. CASE DNSRuns
    BY <1>2, <2>1, <2>2 DEF DNSRuns, Skip, Open, Ends, TaskOver, WakeTasks,
        commandVars, clusterVars
  <2>3. CASE StartDNS
    BY <1>2, <2>1, <2>3, MeshBoundAssumption
       DEF StartDNS, Does, Open, Ends, FailsTask, Strikes, TaskOver, WakeTasks, commandVars, clusterVars
  <2>4. CASE StartedDNSUnseen
    BY <1>2, <2>1, <2>4, MeshBoundAssumption
       DEF StartedDNSUnseen, Open, FailsTask, Strikes, TaskOver, WakeTasks, commandVars, clusterVars
  <2>5. CASE RelayRuns
    BY <1>2, <2>1, <2>5 DEF RelayRuns, Skip, Open, Ends, TaskOver, WakeTasks,
        commandVars, clusterVars
  <2>6. CASE StartRelay
    BY <1>2, <2>1, <2>6, MeshBoundAssumption
       DEF StartRelay, Does, Open, Ends, FailsTask, Strikes, TaskOver, WakeTasks, commandVars, clusterVars
  <2> QED
    BY <1>3, <2>2, <2>3, <2>4, <2>5, <2>6
<1>5. /\ mesh' \in MeshState
      /\ mesh'.net = mesh.net /\ mesh'.corefile = mesh.corefile /\ mesh'.records = mesh.records
      /\ mesh'.vol = mesh.vol /\ mesh'.hosts = mesh.hosts
      /\ mesh'.dns = "none" <=> mesh.dns = "none"
      /\ mesh'.relay = "none" <=> mesh.relay = "none"
  BY <1>1, <1>4 DEF ClusterTypeOK, MeshTypeOK, MeshState, ContainerState
<1>6. /\ RunsOrEnded'
      /\ ReadySpared'
      /\ Results'
      /\ JobFits'
      /\ TasksOfPhase'
      /\ phase' = "wake"
      /\ UNCHANGED <<clusters, nodes, attached, job, created, attempt, before, outcome, commands,
                     target, ready>>
      /\ faults' \in 0..MaxFaults
      /\ faults' = job.since => faults = job.since
  <2>1. t # "preflight"
    BY DEF WakeTasks
  <2>2. UNCHANGED <<clusters, nodes, attached, job, created, attempt, before, outcome, commands,
                    target, ready>>
    BY <1>4 DEF TaskOver, clusterVars, resources
  <2>3. UNCHANGED job
    BY <2>2
  <2> QED
    BY <1>1, <1>4, <2>1, <2>2, <2>3, TaskFrame
<1>7. ClusterTypeOK'
  <2>1. MeshTypeOK'
    BY <1>1, <1>5, <1>6 DEF ClusterTypeOK, MeshTypeOK
  <2> QED
    BY <1>1, <1>5, <1>6, <2>1 DEF ClusterTypeOK, Containers
<1>8. CreateDone'
  BY <1>6 DEF CreateDone
<1>9. RemovalDone'
  BY <1>1, <1>6 DEF CommandInv, RemovalDone, NodesOf, Containers, Exists,
      HasOtherClusters
<1>10. NamesKept'
  BY <1>1, <1>5, <1>6 DEF CommandInv, NamesKept, Registered
<1>11. NothingFails'
  BY <1>1, <1>6 DEF CommandInv, NothingFails
<1>12. ReadyIntact'
  BY <1>1, <1>5, <1>6 DEF ReadyIntact
<1> QED
  BY <1>6, <1>7, <1>8, <1>9, <1>10, <1>11, <1>12, OtherPhase DEF ClusterInv, CommandInv

\* What a step of EnsureMesh changes of the mesh: it replaces no network but
\* its own, and writes into no part that has been written into.
LEMMA EnsureEffect ==
  ASSUME MeshTypeOK, EnsureOrder, EnsureDone, EnsureStep
  PROVE  /\ mesh'.net = "none" => mesh.net = "none" \/ created
         /\ mesh'.net = "theirs" => mesh.net = "theirs"
         /\ created' => created \/ mesh.net = "none"
         /\ mesh'.relay = "none" => mesh.relay = "none"
         /\ mesh'.records \subseteq mesh.records /\ mesh'.hosts \subseteq mesh.hosts
         /\ mesh.corefile => mesh'.corefile /\ mesh'.records = mesh.records
         /\ mesh.vol = "keys" => mesh'.vol = "keys" /\ mesh'.hosts = mesh.hosts
         /\ faults' \in {faults, faults + 1} \intersect 0..MaxFaults
         /\ faults' = faults => failed' = failed
         /\ UNCHANGED <<before, outcome, commands>>
<1>1. mesh \in MeshState /\ faults \in 0..MaxFaults
  BY DEF MeshTypeOK
<1> DEFINE Calls(m) ==
             /\ mesh' = m
             /\ faults' \in {faults, faults + 1} \intersect 0..MaxFaults
             /\ faults' = faults => failed' = failed
             /\ UNCHANGED <<before, outcome, commands>>
<1>2. ASSUME NEW t, NEW T, Skip(t, T)
      PROVE  Calls(mesh) /\ created' = created
  BY <1>1, <1>2 DEF Skip, Ends, commandVars
<1>3. ASSUME NEW t, NEW m, Does(t, m)
      PROVE  Calls(m) /\ created' = created /\ Open(t)
  BY <1>1, <1>3, MeshBoundAssumption DEF Does, Ends, FailsTask, Strikes, commandVars
<1>4. ASSUME NEW t, NEW net, NEW v, SetsNetwork(t, net, v)
      PROVE  /\ Calls([mesh EXCEPT !.net = net]) /\ Open(t)
             /\ created' = created \/ created' = v
  BY <1>1, <1>4, MeshBoundAssumption DEF SetsNetwork, Ends, FailsTask, Strikes
<1>5. CASE NetworkExists \/ KeepNetwork \/ PinnedByOther \/ DNSExists \/ DNSRuns \/ VolumeExists
           \/ RelayExists \/ RelayRuns
  <2>1. Calls(mesh) /\ created' = created
    BY <1>2, <1>5 DEF NetworkExists, KeepNetwork, PinnedByOther, DNSExists,
        DNSRuns, VolumeExists,
      RelayExists, RelayRuns
  <2> QED
    BY <2>1
<1>6. CASE CreateNetwork \/ PinNetwork
  <2>1. PICK net \in {"plain", "pinned"} : Calls([mesh EXCEPT !.net = net]) /\ mesh.net = "none"
    BY <1>4, <1>6 DEF CreateNetwork, PinNetwork
  <2> QED
    BY <1>1, <2>1 DEF MeshState
<1>7. CASE RemovePlain
  <2>1. Calls([mesh EXCEPT !.net = "none"]) /\ Open("removePlain")
    BY <1>4, <1>7 DEF RemovePlain
  <2>2. created
    BY <2>1, OpenIs DEF EnsureDone
  <2> QED
    BY <1>1, <2>1, <2>2 DEF MeshState
<1>8. CASE SubnetTaken
  BY <1>1, <1>8 DEF SubnetTaken
<1>9. CASE CreateDNS
  <2>1. Calls([mesh EXCEPT !.dns = "created"]) /\ created' = created
    BY <1>3, <1>9 DEF CreateDNS
  <2> QED
    BY <1>1, <2>1 DEF MeshState
<1>10. CASE WriteCorefile
  <2>1. /\ Calls([mesh EXCEPT !.corefile = TRUE, !.records = {}]) /\ created' = created
        /\ Open("writeCorefile")
    BY <1>3, <1>10 DEF WriteCorefile
  <2>2. ~mesh.corefile
    BY <2>1, OpenIs DEF EnsureDone
  <2> QED
    BY <1>1, <2>1, <2>2 DEF MeshState
<1>11. CASE StartDNS
  <2>1. Calls([mesh EXCEPT !.dns = "running"]) /\ created' = created
    BY <1>3, <1>11 DEF StartDNS
  <2> QED
    BY <1>1, <2>1 DEF MeshState
<1>12. CASE StartedDNSUnseen
  <2>1. Calls([mesh EXCEPT !.dns = "running"]) /\ created' = created
    BY <1>1, <1>12, MeshBoundAssumption DEF StartedDNSUnseen, FailsTask, Strikes,
        commandVars
  <2> QED
    BY <1>1, <2>1 DEF MeshState
<1>13. CASE CreateVolume
  <2>1. Calls([mesh EXCEPT !.vol = "empty"]) /\ created' = created /\ mesh.vol = "none"
    BY <1>3, <1>13 DEF CreateVolume
  <2> QED
    BY <1>1, <2>1 DEF MeshState
<1>14. CASE CreateRelay
  <2>1. Calls([mesh EXCEPT !.relay = "created"]) /\ created' = created
    BY <1>3, <1>14 DEF CreateRelay
  <2> QED
    BY <1>1, <2>1 DEF MeshState
<1>15. CASE WriteKeys
  <2>1. /\ Calls([mesh EXCEPT !.vol = "keys", !.hosts = {}])
        /\ created' = created
        /\ Open("writeKeys")
    BY <1>3, <1>15 DEF WriteKeys
  <2>2. "writeKeys" \in todo /\ Ended("createRelay")
    BY <2>1, OpenIs
  <2>3. Ended("createVolume")
    BY <2>2, OrderIs DEF Order, Ended
  <2>4. mesh.vol = "empty"
    BY <2>2, <2>3 DEF EnsureDone
  <2> QED
    BY <1>1, <2>1, <2>4 DEF MeshState
<1>16. CASE StartRelay
  <2>1. Calls([mesh EXCEPT !.relay = "running"]) /\ created' = created
    BY <1>3, <1>16 DEF StartRelay
  <2> QED
    BY <1>1, <2>1 DEF MeshState
<1> QED
  BY <1>5, <1>6, <1>7, <1>8, <1>9, <1>10, <1>11, <1>12, <1>13, <1>14, <1>15,
      <1>16 DEF EnsureStep

\* EnsureMesh, for a create: what was there of the clusters is not disturbed.
LEMMA EnsureKeeps ==
  ASSUME ClusterInv, Results, EnsureStep, UNCHANGED clusterVars, phase = "ensure"
  PROVE  ClusterInv' /\ Results'
<1>1. ClusterTypeOK /\ CommandInv /\ ReadyIntact
  BY DEF ClusterInv
<1>2. /\ MeshTypeOK' /\ phase' = "ensure"
      /\ todo' \subseteq EnsureTasks /\ failed' \subseteq EnsureTasks
      /\ (EnsureOrder /\ EnsureDone /\ EnsureWhole /\ EnsureUndoable)'
  BY <1>1, TasksFit, EnsureStepKeeps DEF ClusterTypeOK, CommandInv, EnsureInv
<1>3. /\ mesh'.net = "none" => mesh.net = "none" \/ created
      /\ mesh'.net = "theirs" => mesh.net = "theirs"
      /\ created' => created \/ mesh.net = "none"
      /\ mesh'.relay = "none" => mesh.relay = "none"
      /\ mesh'.records \subseteq mesh.records /\ mesh'.hosts \subseteq mesh.hosts
      /\ mesh.corefile => mesh'.corefile /\ mesh'.records = mesh.records
      /\ mesh.vol = "keys" => mesh'.vol = "keys" /\ mesh'.hosts = mesh.hosts
      /\ faults' \in {faults, faults + 1} \intersect 0..MaxFaults
      /\ faults' = faults => failed' = failed
      /\ UNCHANGED <<before, outcome, commands>>
  BY <1>1, EnsureEffect DEF ClusterTypeOK, CommandInv, EnsureInv
<1>4. UNCHANGED <<clusters, nodes, attached, target, job, ready>>
  BY DEF clusterVars, resources
<1>5. /\ job.kind = "create" /\ ~job.made /\ ~job.removes
      /\ created => attached = {} /\ ready = {}
      /\ mesh.net = "none" => attached = {} /\ ready = {}
  BY <1>1 DEF CommandInv, JobFits, CreateDone, ReadySpared, ClusterTypeOK, ReadyIntact
<1>6. ClusterTypeOK'
  <2>1. TasksOfPhase'
    BY <1>2 DEF TasksOfPhase, PhaseTasks, EnsureOrder
  <2> QED
    BY <1>1, <1>2, <1>3, <1>4, <1>5, <2>1 DEF ClusterTypeOK, Phases, Containers
<1>7. /\ job.since <= faults'
      /\ faults' = job.since => faults' = faults
  <2>1. job.since \in 0..MaxFaults /\ faults \in 0..MaxFaults /\ job.since <= faults
    BY <1>1 DEF ClusterTypeOK, JobState, MeshTypeOK, CommandInv, JobFits
  <2> QED
    BY <1>3, <2>1, MeshBoundAssumption
<1>8. JobFits'
  BY <1>1, <1>2, <1>4, <1>5, <1>7 DEF CommandInv, JobFits, NodesOf
<1>9. RunsOrEnded' /\ ReadySpared' /\ CreateDone'
  BY <1>1, <1>2, <1>3, <1>4, <1>5 DEF CommandInv, RunsOrEnded, ReadySpared, CreateDone
<1>10. RemovalDone'
  BY <1>1, <1>2, <1>4, <1>5 DEF CommandInv, RemovalDone, NodesOf, Containers, Exists
<1>11. NamesKept'
  BY <1>1, <1>2, <1>3, <1>4, <1>5 DEF CommandInv, NamesKept, Registered
<1>12. NothingFails'
  BY <1>1, <1>2, <1>3, <1>4, <1>7 DEF CommandInv, NothingFails
<1>13. ReadyIntact'
  BY <1>1, <1>3, <1>4, <1>5 DEF ReadyIntact, NodesOf
<1>14. EnsureInv' /\ EnsureUndoable' /\ CleanInv'
  BY <1>2 DEF EnsureInv, CleanInv
<1>15. Results'
  BY <1>2, <1>9, NoResultYet
<1> QED
  BY <1>6, <1>8, <1>9, <1>10, <1>11, <1>12, <1>13, <1>14, <1>15 DEF ClusterInv,
      CommandInv

\* CleanupMesh, once no cluster of a user is left.
LEMMA CleanKeeps ==
  ASSUME ClusterInv, Results,
         \/ RemoveMeshRelay \/ RemoveMeshNetwork \/ DisconnectFails
         \/ (RemoveDNS \/ RemoveVolume) /\ UNCHANGED clusterVars
  PROVE  ClusterInv' /\ Results'
<1>1. ClusterTypeOK /\ CommandInv /\ ReadyIntact
  BY DEF ClusterInv
<1>2. PICK t \in CleanTasks :
        /\ TaskOver(t) /\ Open(t) /\ UNCHANGED <<nodes, job>>
        /\ IF t = "removeRelay"
             THEN clusters' = [c \in Cluster |-> [clusters[c] EXCEPT !.joined = FALSE]]
             ELSE clusters' = clusters
        /\ attached' \subseteq attached
        /\ \/ CleanStep
           \/ FailsTask(t, "fail") /\ UNCHANGED <<mesh, commandVars>>
        /\ \/ mesh' = mesh
           \/ t = "removeRelay" /\ mesh' = [mesh EXCEPT !.relay = "none"]
           \/ t = "removeDNS" /\
                mesh' = [mesh EXCEPT !.dns = "none", !.corefile = FALSE, !.records = {}]
           \/ t = "removeNetwork" /\ mesh' = [mesh EXCEPT !.net = "none"] /\ attached' = {}
           \/ t = "removeVolume" /\ mesh' = [mesh EXCEPT !.vol = "none", !.hosts = {}]
  <2>1. /\ faults \in 0..MaxFaults /\ todo \intersect failed = {}
        /\ CleanTasks = {"removeRelay", "removeDNS", "removeNetwork", "removeVolume"}
    BY <1>1 DEF ClusterTypeOK, MeshTypeOK, TasksOfPhase, CleanTasks
  <2>2. ASSUME NEW t, NEW m, Does(t, m), UNCHANGED <<target, ready>>
        PROVE  TaskOver(t) /\ Open(t) /\ mesh' = m
    BY <2>1, <2>2, MeshBoundAssumption
       DEF Does, Open, Ends, FailsTask, Strikes, TaskOver, commandVars
  <2>3. CASE RemoveMeshRelay
    BY <2>1, <2>2, <2>3 DEF RemoveMeshRelay, RemoveRelay, CleanStep
  <2>4. CASE RemoveMeshNetwork
    BY <2>1, <2>2, <2>4 DEF RemoveMeshNetwork, RemoveNetwork, CleanStep
  <2>5. CASE DisconnectFails
    <3>1. TaskOver("removeNetwork")
      BY <2>1, <2>5, MeshBoundAssumption
         DEF DisconnectFails, Open, FailsTask, Strikes, TaskOver, commandVars
    <3> QED
      BY <2>1, <2>5, <3>1 DEF DisconnectFails
  <2>6. CASE RemoveDNS /\ UNCHANGED clusterVars
    BY <2>1, <2>2, <2>6 DEF RemoveDNS, CleanStep, clusterVars, resources
  <2>7. CASE RemoveVolume /\ UNCHANGED clusterVars
    BY <2>1, <2>2, <2>7 DEF RemoveVolume, CleanStep, clusterVars, resources
  <2> QED
    BY <2>3, <2>4, <2>5, <2>6, <2>7
<1>3. /\ t \in todo /\ phase \in {"undo", "clean"} /\ phase' = phase
      /\ todo \union failed \subseteq CleanTasks
      /\ RunsOrEnded' /\ ReadySpared' /\ Results' /\ JobFits' /\ TasksOfPhase'
      /\ UNCHANGED <<created, attempt, before, outcome, commands, target, ready>>
      /\ faults' \in 0..MaxFaults
      /\ faults' = job.since => faults = job.since
  <2>1. t # "preflight" /\ t \in todo
    BY <1>2 DEF CleanTasks, TaskOver
  <2>2. phase \in {"undo", "clean"}
    BY <1>1, <1>2, <2>1, PhaseFits
  <2> QED
    BY <1>1, <1>2, <2>1, <2>2, TaskFrame, TasksFit DEF TaskOver
<1>4. MeshTypeOK' /\ CleanInv'
  <2>1. CASE CleanStep
    BY <1>1, <1>3, <2>1, CleanStepKeeps DEF ClusterTypeOK, CommandInv
  <2>2. CASE FailsTask(t, "fail") /\ UNCHANGED <<mesh, commandVars>>
    BY <1>1, <1>2, <1>3, <2>2, FailKeeps DEF ClusterTypeOK, CommandInv
  <2> QED
    BY <1>2, <2>1, <2>2
<1>5. ready = {}
  BY <1>1, <1>3 DEF CommandInv, ReadySpared, JobFits
<1>6. /\ clusters' \in [Cluster -> [net : BOOLEAN, vols : BOOLEAN, joined : BOOLEAN]]
      /\ \A c \in Cluster : /\ clusters'[c].net = clusters[c].net
                            /\ clusters'[c].vols = clusters[c].vols
                            /\ clusters'[c].joined => clusters[c].joined /\ t # "removeRelay"
  <2>1. clusters \in [Cluster -> [net : BOOLEAN, vols : BOOLEAN, joined : BOOLEAN]]
    BY <1>1 DEF ClusterTypeOK
  <2>2. CASE t = "removeRelay"
    <3>1. clusters' = [c \in Cluster |-> [clusters[c] EXCEPT !.joined = FALSE]]
      BY <1>2, <2>2
    <3> QED
      BY <2>1, <3>1
  <2>3. CASE t # "removeRelay"
    BY <1>2, <2>1, <2>3
  <2> QED
    BY <2>2, <2>3
<1>7. ClusterTypeOK'
  <2>1. /\ mesh'.net # "theirs"
        /\ mesh'.relay = "none" => mesh.relay = "none" \/ t = "removeRelay"
        /\ mesh'.net = "none" => mesh.net = "none" \/ attached' = {}
    BY <1>1, <1>2 DEF ClusterTypeOK, MeshTypeOK, MeshState
  <2> QED
    BY <1>1, <1>2, <1>3, <1>4, <1>6, <2>1 DEF ClusterTypeOK, Containers
<1>8. CreateDone'
  BY <1>3 DEF CreateDone
<1>9. RemovalDone'
  <2>1. Containers' = Containers /\ \A c \in Cluster : Exists(c)' <=> Exists(c)
    BY <1>2, <1>6 DEF Containers, Exists, NodesOf
  <2> QED
    BY <1>1, <1>2, <1>3, <2>1 DEF CommandInv, RemovalDone, NodesOf,
        HasOtherClusters, ClusterTypeOK
<1>10. NamesKept'
  BY <1>2, <1>3 DEF NamesKept
<1>11. NothingFails'
  BY <1>1, <1>2, <1>3 DEF CommandInv, NothingFails
<1>12. ReadyIntact' /\ EnsureInv' /\ EnsureUndoable'
  BY <1>3, <1>5 DEF ReadyIntact, EnsureInv, EnsureUndoable
<1> QED
  BY <1>3, <1>4, <1>7, <1>8, <1>9, <1>10, <1>11, <1>12 DEF ClusterInv, CommandInv

\* A removal takes the names it found out of a mesh that stays: no user's
\* cluster has one of them.
LEMMA DropKeeps ==
  ASSUME ClusterInv, Results, RemoveDNSRecords \/ RemoveKnownHosts
  PROVE  ClusterInv' /\ Results'
<1>1. ClusterTypeOK /\ CommandInv /\ ReadyIntact
  BY DEF ClusterInv
<1>2. PICK t \in DropTasks :
        /\ TaskOver(t) /\ UNCHANGED clusterVars
        /\ IF t = "dropRecords"
             THEN mesh' = [mesh EXCEPT !.records = @ \ job.found, !.dns = Started(@),
                             !.relay = IF mesh.dns = "running" THEN @ ELSE Started(@)]
             ELSE mesh' = [mesh EXCEPT !.hosts = @ \ job.found]
  <2>1. ASSUME NEW t, NEW m, SetsMesh(t, m)
        PROVE  TaskOver(t) /\ UNCHANGED clusterVars /\ mesh' = m
    BY <1>1, <2>1, FinishesIsOver DEF SetsMesh, clusterVars
  <2>2. CASE RemoveDNSRecords
    BY <2>1, <2>2 DEF RemoveDNSRecords, DropTasks
  <2>3. CASE RemoveKnownHosts
    BY <2>1, <2>3 DEF RemoveKnownHosts, DropTasks
  <2> QED
    BY <2>2, <2>3
<1>3. /\ t \in todo /\ t \in DropTasks /\ t # "preflight"
      /\ UNCHANGED <<clusters, nodes, attached, job>>
      /\ phase = "drop"
  BY <1>1, <1>2, PhaseFits DEF TaskOver, DropTasks, clusterVars, resources
<1>4. /\ RunsOrEnded'
      /\ ReadySpared'
      /\ Results'
      /\ JobFits'
      /\ TasksOfPhase'
      /\ phase' = "drop"
      /\ UNCHANGED <<clusters, nodes, attached, job, created, attempt, before, outcome, commands,
                     target, ready>>
      /\ \A s : s \notin todo' \union failed' => Ended(s) \/ s = t
      /\ faults' \in 0..MaxFaults
      /\ faults' = job.since => faults = job.since
  BY <1>1, <1>2, <1>3, TaskFrame DEF TaskOver
<1>5. /\ mesh' \in MeshState
      /\ mesh'.net = mesh.net /\ mesh'.corefile = mesh.corefile /\ mesh'.vol = mesh.vol
      /\ mesh'.records = IF t = "dropRecords" THEN mesh.records \ job.found ELSE mesh.records
      /\ mesh'.hosts = IF t = "dropRecords" THEN mesh.hosts ELSE mesh.hosts \ job.found
      /\ mesh'.dns = "none" <=> mesh.dns = "none"
      /\ mesh'.relay = "none" <=> mesh.relay = "none"
  <2>1. mesh \in MeshState
    BY <1>1 DEF ClusterTypeOK, MeshTypeOK
  <2>2. CASE t = "dropRecords"
    <3>1. PICK d \in ContainerState, r \in ContainerState :
            /\ mesh' = [mesh EXCEPT !.records = @ \ job.found, !.dns = d, !.relay = r]
            /\ d = "none" <=> mesh.dns = "none"
            /\ r = "none" <=> mesh.relay = "none"
      <4> DEFINE d == Started(mesh.dns)
                 r == IF mesh.dns = "running" THEN mesh.relay ELSE Started(mesh.relay)
      <4>1. /\ d \in ContainerState /\ r \in ContainerState
            /\ d = "none" <=> mesh.dns = "none"
            /\ r = "none" <=> mesh.relay = "none"
        BY <2>1 DEF MeshState, ContainerState, Started
      <4>2. mesh' = [mesh EXCEPT !.records = @ \ job.found, !.dns = d, !.relay = r]
        BY <1>2, <2>2
      <4> HIDE DEF d, r
      <4> QED
        BY <4>1, <4>2
    <3> QED
      BY <2>1, <2>2, <3>1 DEF MeshState
  <2>3. CASE t # "dropRecords"
    BY <1>2, <2>1, <2>3 DEF MeshState
  <2> QED
    BY <2>2, <2>3
<1>6. ClusterTypeOK'
  <2>1. MeshTypeOK'
    BY <1>1, <1>4, <1>5 DEF ClusterTypeOK, MeshTypeOK
  <2> QED
    BY <1>1, <1>3, <1>4, <1>5, <2>1 DEF ClusterTypeOK, Containers
<1>7. CreateDone'
  BY <1>4 DEF CreateDone
<1>8. RemovalDone'
  BY <1>1, <1>3, <1>4 DEF CommandInv, RemovalDone, NodesOf, Containers, Exists,
      HasOtherClusters
<1>9. NamesKept'
  BY <1>1, <1>3, <1>4, <1>5 DEF CommandInv, NamesKept, Registered, DropTasks, Ended
<1>10. NothingFails'
  BY <1>1, <1>3, <1>4 DEF CommandInv, NothingFails
<1>11. ReadyIntact'
  <2>1. job.found \subseteq NodesOf(target) /\ target \intersect ready = {}
    BY <1>1, <1>3 DEF CommandInv, JobFits, ReadySpared
  <2>2. \A c \in ready : NodesOf({c}) \intersect job.found = {}
    BY <2>1 DEF NodesOf
  <2> QED
    BY <1>1, <1>4, <1>5, <2>2 DEF ReadyIntact, NodesOf
<1> QED
  BY <1>4, <1>6, <1>7, <1>8, <1>9, <1>10, <1>11, OtherPhase DEF ClusterInv, CommandInv

\* A removal takes a container, or a network or the volumes, of its target.
LEMMA RemoveKeeps ==
  ASSUME ClusterInv, Results,
         \/ \E n \in Name : RemoveContainer(n)
         \/ \E c \in Cluster : DeleteNetwork(c) \/ DeleteVolumes(c)
  PROVE  ClusterInv' /\ Results'
<1>1. /\ ClusterTypeOK /\ CommandInv /\ ReadyIntact
      /\ clusters \in [Cluster -> [net : BOOLEAN, vols : BOOLEAN, joined : BOOLEAN]]
      /\ nodes \in [Name -> ContainerState] /\ faults \in 0..MaxFaults
  BY DEF ClusterInv, ClusterTypeOK, MeshTypeOK
<1>2. PICK t \in Name \union Cluster :
        /\ TaskOver(t) /\ UNCHANGED <<mesh, target, job, ready>>
        /\ \/ /\ t \in Name /\ phase = "remove" /\ nodes' = [nodes EXCEPT ![t] = "none"]
              /\ attached' = attached \ {t} /\ UNCHANGED clusters
           \/ /\ t \in Cluster /\ UNCHANGED <<nodes, attached>>
              /\ \/ /\ t \in todo' \union failed'
                    /\ clusters' \in {[clusters EXCEPT ![t].net = FALSE, ![t].joined = FALSE],
                                      [clusters EXCEPT ![t].joined = FALSE]}
                 \/ ~clusters[t].net /\ clusters' = [clusters EXCEPT ![t].vols = FALSE]
  <2>1. CASE \E n \in Name : RemoveContainer(n)
    <3>1. PICK n \in Name : RemoveContainer(n)
      BY <2>1
    <3>2. Finishes(n) /\ UNCHANGED <<target, ready>>
      BY <3>1 DEF RemoveContainer
    <3>3. TaskOver(n)
      BY <1>1, <3>2, FinishesIsOver
    <3> QED
      BY <3>1, <3>3 DEF RemoveContainer
  <2>2. CASE \E c \in Cluster : DeleteNetwork(c)
    <3>1. PICK c \in Cluster : DeleteNetwork(c)
      BY <2>2
    <3>2. /\ c \in todo /\ c \notin failed
          /\ UNCHANGED <<mesh, commandVars, nodes, attached, target, job, ready>>
          /\ Ends({}) \/ FailsTask(c, "done") \/ FailsTask(c, "fail")
          /\ clusters' \in {[clusters EXCEPT ![c].net = FALSE, ![c].joined = FALSE],
                            [clusters EXCEPT ![c].joined = FALSE]}
      BY <1>1, <3>1, OpenTaskIs DEF DeleteNetwork, ClusterTypeOK, TasksOfPhase
    <3>3. TaskOver(c) /\ c \in todo' \union failed'
      BY <1>1, <3>2, MeshBoundAssumption DEF TaskOver, Ends, FailsTask, Strikes,
          commandVars
    <3> QED
      BY <3>2, <3>3
  <2>3. CASE \E c \in Cluster : DeleteVolumes(c)
    <3>1. PICK c \in Cluster : DeleteVolumes(c)
      BY <2>3
    <3>2. Finishes(c) /\ UNCHANGED <<target, ready>>
      BY <3>1 DEF DeleteVolumes
    <3>3. TaskOver(c)
      BY <1>1, <3>2, FinishesIsOver
    <3> QED
      BY <3>1, <3>3 DEF DeleteVolumes
  <2> QED
    BY <2>1, <2>2, <2>3
<1>3. /\ t \in todo /\ t # "preflight" /\ phase = "remove"
      /\ t \in Name => t \in NodesOf(target)
      /\ t \in Cluster => t \in target
  <2>1. t # "preflight" /\ t \in todo
    BY <1>2, Distinct DEF AllTasks, PrepTasks, TaskOver
  <2> QED
    BY <1>1, <1>2, <2>1, PhaseFits
<1>4. /\ RunsOrEnded'
      /\ ReadySpared'
      /\ Results'
      /\ JobFits'
      /\ TasksOfPhase'
      /\ phase' = "remove"
      /\ UNCHANGED <<mesh, job, created, attempt, before, outcome, commands, target, ready>>
      /\ failed \subseteq failed'
      /\ \A s : s \notin todo' \union failed' => Ended(s) \/ s = t
      /\ faults' \in 0..MaxFaults
      /\ faults' = job.since => faults = job.since
  BY <1>1, <1>2, <1>3, TaskFrame DEF TaskOver
<1>5. /\ clusters' \in [Cluster -> [net : BOOLEAN, vols : BOOLEAN, joined : BOOLEAN]]
      /\ \A c \in Cluster :
           /\ c # t => clusters'[c] = clusters[c]
           /\ clusters'[c].net => clusters[c].net
           /\ clusters'[c].vols => clusters[c].vols
           /\ clusters'[c].joined => clusters[c].joined
           /\ ~clusters'[c].net /\ clusters[c].net => ~clusters'[c].joined
      /\ t \in Cluster /\ t \notin todo' \union failed' => ~clusters'[t].net /\ ~clusters'[t].vols
  <2>1. CASE t \in Name
    BY <1>1, <1>2, <2>1, Distinct
  <2>2. CASE t \in Cluster /\ clusters' = [clusters EXCEPT ![t].net = FALSE, ![t].joined = FALSE]
              /\ t \in todo' \union failed'
    BY <1>1, <2>2
  <2>3. CASE t \in Cluster /\ clusters' = [clusters EXCEPT ![t].joined = FALSE]
              /\ t \in todo' \union failed'
    BY <1>1, <2>3
  <2>4. CASE t \in Cluster /\ clusters' = [clusters EXCEPT ![t].vols = FALSE] /\ ~clusters[t].net
    BY <1>1, <2>4
  <2> QED
    BY <1>2, <2>1, <2>2, <2>3, <2>4, Distinct
<1>6. /\ nodes' \in [Name -> ContainerState]
      /\ Containers' = Containers \ (IF t \in Name THEN {t} ELSE {})
      /\ attached' = attached \ (IF t \in Name THEN {t} ELSE {})
  <2>1. CASE t \in Name
    <3>1. nodes' = [nodes EXCEPT ![t] = "none"] /\ attached' = attached \ {t}
      BY <1>2, <2>1, Distinct
    <3> QED
      BY <1>1, <2>1, <3>1 DEF Containers, ContainerState
  <2>2. CASE t \notin Name
    BY <1>1, <1>2, <2>2 DEF Containers, ClusterTypeOK
  <2> QED
    BY <2>1, <2>2
<1>7. ClusterTypeOK'
  <2>1. MeshTypeOK'
    BY <1>1, <1>4 DEF ClusterTypeOK, MeshTypeOK
  <2> QED
    BY <1>1, <1>3, <1>4, <1>5, <1>6, <2>1 DEF ClusterTypeOK
<1>8. CreateDone'
  BY <1>4 DEF CreateDone
<1>9. RemovalDone'
  <2>1. job.kind = "create" => job.made
    BY <1>1, <1>3 DEF CommandInv, JobFits
  <2>2. \A c \in target : c \notin todo' \union failed' => ~clusters'[c].net /\ ~clusters'[c].vols
    BY <1>1, <1>3, <1>4, <1>5 DEF CommandInv, RemovalDone, ClusterTypeOK
  <2>3. \A n \in NodesOf(target) \intersect Containers' :
          n \in todo' \union failed' \/ clusterOf[n] \in failed'
    <3>1. \A n \in NodesOf(target) \intersect Containers' : n # t
      BY <1>6 DEF NodesOf
    <3> QED
      BY <1>1, <1>3, <1>4, <1>6, <3>1 DEF CommandInv, RemovalDone
  <2>4. \A c \in Cluster : Exists(c)' => Exists(c)
    BY <1>5, <1>6 DEF Exists, NodesOf
  <2>5. HasOtherClusters(target) => HasOtherClusters(target)'
    BY <1>3, <1>4, <1>6 DEF HasOtherClusters, NodesOf
  <2> QED
    BY <1>1, <1>4, <2>1, <2>2, <2>3, <2>4, <2>5 DEF CommandInv, RemovalDone,
        NodesOf, Ended
<1>10. NamesKept'
  BY <1>1, <1>3, <1>4 DEF CommandInv, NamesKept, Registered
<1>11. NothingFails'
  BY <1>1, <1>3, <1>4 DEF CommandInv, NothingFails
<1>12. ReadyIntact'
  <2>1. target \intersect ready = {}
    BY <1>1, <1>3 DEF CommandInv, JobFits, ReadySpared
  <2>2. \A c \in ready : t # c /\ t \notin NodesOf({c})
    BY <1>1, <1>3, <2>1, Distinct DEF NodesOf, ClusterTypeOK
  <2> QED
    BY <1>1, <1>4, <1>5, <1>6, <2>2 DEF ReadyIntact, NodesOf, ClusterTypeOK
<1> QED
  BY <1>4, <1>7, <1>8, <1>9, <1>10, <1>11, <1>12, OtherPhase DEF ClusterInv, CommandInv

\* A step of the command itself: it changes no resource.
Turns ==
  /\ UNCHANGED <<mesh, clusters, nodes, attached, target, ready>>
  /\ UNCHANGED <<created, attempt, before, commands>>
  /\ faults' \in {faults, faults + 1} \intersect 0..MaxFaults
  /\ outcome' \in Outcome
  /\ job' \in JobState

\* What a command knew when it began stays.
JobStays ==
  /\ job'.kind = job.kind /\ job'.made = job.made /\ job'.was = job.was
  /\ job'.had = job.had /\ job'.since = job.since

\* What such a step cannot disturb.
LEMMA TurnKeeps ==
  ASSUME ClusterInv, Turns, phase' \in Phases, TasksOfPhase'
  PROVE  /\ ClusterTypeOK' /\ ReadyIntact'
         /\ Containers' = Containers /\ Registered' = Registered
         /\ \A c : Exists(c)' <=> Exists(c)
         /\ HasOtherClusters(target)' <=> HasOtherClusters(target)
<1>1. MeshTypeOK'
  BY DEF ClusterInv, ClusterTypeOK, MeshTypeOK, Turns
<1>2. ClusterTypeOK'
  BY <1>1 DEF ClusterInv, ClusterTypeOK, Turns, Containers
<1>3. ReadyIntact'
  BY DEF ClusterInv, ReadyIntact, Turns, NodesOf
<1>4. Containers' = Containers /\ Registered' = Registered
  BY DEF Turns, Containers, Registered
<1>5. /\ \A c : Exists(c)' <=> Exists(c)
      /\ HasOtherClusters(target)' <=> HasOtherClusters(target)
  BY <1>4 DEF Turns, Exists, HasOtherClusters, NodesOf
<1> QED
  BY <1>2, <1>3, <1>4, <1>5

\* A fault in this step or an earlier one of the command is one too many for
\* NothingFails.
LEMMA SinceKeeps ==
  ASSUME ClusterInv, Turns, JobStays
  PROVE  /\ job'.since <= faults'
         /\ faults' = job'.since => faults' = faults
<1>1. /\ job.since \in 0..MaxFaults /\ faults \in 0..MaxFaults /\ job.since <= faults
      /\ faults' \in {faults, faults + 1} /\ job'.since = job.since
  BY DEF ClusterInv, ClusterTypeOK, MeshTypeOK, JobState, CommandInv, JobFits,
      Turns, JobStays
<1> QED
  BY <1>1, MeshBoundAssumption

\* A command ends: nothing of what it knew is relied on but its results.
LEMMA LeaveKeeps ==
  ASSUME ClusterInv, Turns, JobStays, Enter("idle", {}),
         job'.removes = job.removes, job'.found \subseteq job.found
  PROVE  ClusterInv'
<1>1. phase' = "idle" /\ todo' = {} /\ failed' = {}
  BY DEF Enter
<1>2. TasksOfPhase' /\ phase' \in Phases
  BY <1>1 DEF TasksOfPhase, Phases
<1>3. /\ ClusterTypeOK' /\ ReadyIntact' /\ CommandInv
      /\ \A c : Exists(c)' <=> Exists(c)
      /\ HasOtherClusters(target)' <=> HasOtherClusters(target)
  BY <1>2, TurnKeeps DEF ClusterInv
<1>4. JobFits'
  BY <1>1, <1>3, SinceKeeps DEF CommandInv, JobFits, Turns, JobStays, NodesOf
<1>5. RunsOrEnded' /\ ReadySpared' /\ CreateDone' /\ NamesKept' /\ NothingFails'
  BY <1>1 DEF RunsOrEnded, ReadySpared, CreateDone, NamesKept, NothingFails
<1>6. RemovalDone'
  BY <1>1, <1>3 DEF CommandInv, RemovalDone, Turns, JobStays
<1> QED
  BY <1>1, <1>3, <1>4, <1>5, <1>6, OtherPhase DEF ClusterInv, CommandInv

\* EnsureMesh is done, and the create makes its cluster.
LEMMA PrepareKeeps ==
  ASSUME ClusterInv, Results, Prepares
  PROVE  ClusterInv' /\ Results'
<1>1. ClusterTypeOK /\ CommandInv
  BY DEF ClusterInv
<1>2. /\ phase = "ensure" /\ todo = {} /\ failed = {}
      /\ phase' = "prep" /\ todo' = PrepTasks /\ failed' = {}
      /\ UNCHANGED <<mesh, faults, created, attempt, before, outcome, commands, clusters, nodes,
                     attached, target, job, ready>>
  BY DEF Prepares, Done, Enter, clusterVars, resources
<1>3. Turns /\ JobStays /\ outcome = "none"
  BY <1>1, <1>2 DEF Turns, JobStays, ClusterTypeOK, MeshTypeOK, CommandInv, RunsOrEnded
<1>4. phase' \in Phases /\ TasksOfPhase'
  BY <1>2 DEF Phases, TasksOfPhase, PhaseTasks
<1>5. /\ ClusterTypeOK'
      /\ ReadyIntact'
      /\ Containers' = Containers
      /\ Registered' = Registered
      /\ \A c : Exists(c)' <=> Exists(c)
  BY <1>3, <1>4, TurnKeeps
<1>6. mesh.net # "none" /\ EnsureGivesMesh
  BY <1>1, <1>2, EnsureGives DEF Done, ClusterTypeOK, CommandInv
<1>7. JobFits'
  BY <1>1, <1>2 DEF CommandInv, JobFits, NodesOf, Ended, PrepTasks
<1>8. ReadySpared' /\ RunsOrEnded'
  BY <1>1, <1>2, <1>3 DEF CommandInv, ReadySpared, RunsOrEnded
<1>9. CreateDone'
  BY <1>1, <1>2, <1>6 DEF CommandInv, JobFits, CreateDone, Ended, PrepTasks
<1>10. RemovalDone' /\ NamesKept'
  BY <1>1, <1>2, <1>5 DEF CommandInv, JobFits, RemovalDone, NamesKept
<1>11. NothingFails'
  BY <1>2, <1>6 DEF NothingFails, EnsureGivesMesh, Done
<1> QED
  BY <1>2, <1>5, <1>7, <1>8, <1>9, <1>10, <1>11, OtherPhase,
      NoResultYet DEF ClusterInv, CommandInv

\* The cluster's resources are there, and the create makes its nodes; the nodes
\* are, and it tells the mesh of them.
LEMMA PreparedKeeps ==
  ASSUME ClusterInv, Results, Prepared \/ NodesReady
  PROVE  ClusterInv' /\ Results'
<1>1. ClusterTypeOK /\ CommandInv
  BY DEF ClusterInv
<1>2. /\ todo = {} /\ failed = {} /\ failed' = {}
      /\ \/ phase = "prep" /\ phase' = "nodes" /\ todo' = NodesOf(target)
         \/ phase = "nodes" /\ phase' = "register" /\ todo' = RegisterTasks
      /\ UNCHANGED <<mesh, faults, created, attempt, before, outcome, commands, clusters, nodes,
                     attached, target, job, ready>>
  BY DEF Prepared, NodesReady, Done, Enter, clusterVars, resources
<1>3. Turns /\ JobStays /\ outcome = "none"
  BY <1>1, <1>2 DEF Turns, JobStays, ClusterTypeOK, MeshTypeOK, CommandInv, RunsOrEnded
<1>4. phase' \in Phases /\ TasksOfPhase'
  BY <1>2 DEF Phases, TasksOfPhase, PhaseTasks, NodesOf
<1>5. /\ ClusterTypeOK'
      /\ ReadyIntact'
      /\ Containers' = Containers
      /\ Registered' = Registered
      /\ \A c : Exists(c)' <=> Exists(c)
  BY <1>3, <1>4, TurnKeeps
<1>6. job.made /\ job.kind = "create"
  BY <1>1, <1>2 DEF CommandInv, JobFits, Ended
<1>7. JobFits'
  BY <1>1, <1>2, <1>6 DEF CommandInv, JobFits, NodesOf
<1>8. ReadySpared' /\ RunsOrEnded'
  BY <1>1, <1>2, <1>3 DEF CommandInv, ReadySpared, RunsOrEnded
<1>9. CreateDone'
  BY <1>1, <1>2, <1>5 DEF CommandInv, CreateDone, Ended, RegisterTasks,
      Containers, NodesOf
<1>10. RemovalDone' /\ NamesKept'
  BY <1>1, <1>2, <1>5, <1>6 DEF CommandInv, RemovalDone, NamesKept
<1>11. NothingFails'
  BY <1>1, <1>2 DEF CommandInv, NothingFails
<1> QED
  BY <1>2, <1>3, <1>5, <1>7, <1>8, <1>9, <1>10, <1>11, OtherPhase, NoResultYet
     DEF ClusterInv, CommandInv

\* A create that ended without an error: its cluster is whole from now on.
LEMMA CreateEndsKeeps ==
  ASSUME ClusterInv, Results, CreateEnds
  PROVE  ClusterInv' /\ Results'
<1>1. ClusterTypeOK /\ CommandInv /\ ReadyIntact
  BY DEF ClusterInv
<1>2. /\ phase = "register" /\ todo = {} /\ failed = {}
      /\ phase' = "idle" /\ todo' = {} /\ failed' = {} /\ outcome' = "ok"
      /\ ready' = ready \union target
      /\ UNCHANGED <<mesh, faults, created, attempt, before, commands, clusters, nodes,
                     attached, target, job>>
  BY DEF CreateEnds, Done, Leave, Enter, resources
<1>3. job.kind = "create" /\ job.made
  BY <1>1, <1>2 DEF CommandInv, JobFits
<1>4. PICK c \in Cluster : target = {c}
  BY <1>1, <1>3 DEF CommandInv, JobFits
<1>5. /\ clusters[c].net /\ clusters[c].vols /\ clusters[c].joined /\ mesh.net # "none"
      /\ NodesOf(target) \subseteq attached \intersect mesh.records \intersect mesh.hosts
  BY <1>1, <1>2, <1>3, <1>4 DEF CommandInv, CreateDone, Ended
<1>6. mesh.corefile /\ mesh.vol = "keys"
  <2>1. PICK n \in Name : n \in NodesOf(target)
    BY <1>4, ClusterAssumption DEF NodesOf
  <2>2. mesh.records # {} /\ mesh.hosts # {}
    BY <1>5, <2>1
  <2> QED
    BY <1>1, <2>2 DEF ClusterTypeOK, MeshTypeOK
<1>7. ReadyIntact'
  BY <1>1, <1>2, <1>4, <1>5, <1>6 DEF ReadyIntact, NodesOf
<1>8. ClusterTypeOK'
  <2>1. MeshTypeOK'
    BY <1>1, <1>2 DEF ClusterTypeOK, MeshTypeOK, Outcome
  <2>2. TasksOfPhase' /\ phase' \in Phases
    BY <1>2 DEF TasksOfPhase, Phases
  <2> QED
    BY <1>1, <1>2, <2>1, <2>2 DEF ClusterTypeOK, Containers
<1>9. JobFits'
  BY <1>1, <1>2, <1>3 DEF CommandInv, JobFits, NodesOf
<1>10. /\ RunsOrEnded' /\ ReadySpared' /\ CreateDone' /\ NamesKept' /\ NothingFails'
       /\ RemovalDone'
  BY <1>2, <1>3 DEF RunsOrEnded, ReadySpared, CreateDone, NamesKept, NothingFails,
      RemovalDone
<1>11. Results'
  BY <1>2, <1>3 DEF Results, DeleteEmpties, FailedCreateUndone, NextCreateWorks
<1> QED
  BY <1>2, <1>7, <1>8, <1>9, <1>10, <1>11, OtherPhase DEF ClusterInv, CommandInv

\* A command that only moves on, with no change of what it knows but a warning.
\* (NamesKept and RemovalDone are those of the phase it enters.)
LEMMA UndoKeeps ==
  ASSUME ClusterInv, Turns, JobStays, phase # "idle", outcome' = outcome,
         Enter("undo", CleanTasks), job.kind = "create", created,
         job'.found \subseteq job.found,
         ~job'.untidy /\ ~job.had => \A c \in target : ~Exists(c),
         faults' = job.since /\ before.whole /\ ~job.had => FALSE
  PROVE  ClusterInv' /\ Results'
<1>1. phase' = "undo" /\ todo' = CleanTasks /\ failed' = {}
  BY DEF Enter
<1>2. TasksOfPhase' /\ phase' \in Phases
  BY <1>1, Zenon DEF TasksOfPhase, PhaseTasks, Phases
<1>3. /\ ClusterTypeOK' /\ ReadyIntact' /\ CommandInv
      /\ \A c : Exists(c)' <=> Exists(c)
  BY <1>2, TurnKeeps DEF ClusterInv
<1>4. UNCHANGED <<created, before, target, ready>>
  BY DEF Turns
<1>5. JobFits'
  BY <1>1, <1>3, <1>4, SinceKeeps DEF CommandInv, JobFits, JobStays, NodesOf
<1>6. RunsOrEnded' /\ ReadySpared'
  BY <1>1, <1>3, <1>4 DEF CommandInv, RunsOrEnded, ReadySpared, JobStays
<1>7. CreateDone' /\ NamesKept'
  BY <1>1 DEF CreateDone, NamesKept
<1>8. RemovalDone'
  BY <1>1, <1>3, <1>4 DEF CommandInv, RemovalDone, JobStays
<1>9. NothingFails'
  BY <1>1, <1>4 DEF NothingFails, JobStays
<1>10. CleanInv' /\ EnsureInv' /\ EnsureUndoable'
  BY <1>1 DEF CleanInv, EnsureInv, EnsureUndoable, Ended, CleanTasks
<1> QED
  BY <1>1, <1>3, <1>5, <1>6, <1>7, <1>8, <1>9, <1>10, NoResultYet DEF ClusterInv,
      CommandInv

\* EnsureMesh failed: a mesh that this create began goes.
LEMMA EnsureFailsKeeps ==
  ASSUME ClusterInv, Results, EnsureFails, UNCHANGED clusterVars
  PROVE  ClusterInv' /\ Results'
<1>1. ClusterTypeOK /\ CommandInv
  BY DEF ClusterInv
<1>2. /\ phase = "ensure" /\ failed # {}
      /\ UNCHANGED <<mesh, faults, created, attempt, before, commands, clusters, nodes,
                     attached, target, job, ready>>
      /\ \/ created /\ Enter("undo", CleanTasks) /\ outcome' = outcome
         \/ Enter("idle", {}) /\ outcome' = "error"
  BY DEF EnsureFails, Stuck, Leave, clusterVars, resources
<1>3. Turns /\ JobStays
  BY <1>1, <1>2 DEF Turns, JobStays, ClusterTypeOK, MeshTypeOK, Outcome
<1>4. /\ job.kind = "create" /\ ~job.made
      /\ ~job.had => \A c \in target : ~Exists(c)
      /\ Registered \subseteq job.was
      /\ ~(faults = job.since /\ before.whole /\ ~job.had)
  BY <1>1, <1>2 DEF CommandInv, JobFits, RemovalDone, NamesKept, NothingFails
<1>5. CASE created /\ Enter("undo", CleanTasks) /\ outcome' = outcome
  BY <1>2, <1>3, <1>4, <1>5, UndoKeeps
<1>6. CASE Enter("idle", {}) /\ outcome' = "error"
  <2>1. ClusterInv'
    BY <1>2, <1>3, <1>6, LeaveKeeps
  <2>2. /\ Registered' = Registered
        /\ \A c : Exists(c)' <=> Exists(c)
    BY <1>2 DEF Registered, Exists, NodesOf, Containers
  <2>3. Results'
    BY <1>2, <1>4, <1>6, <2>2 DEF Results, DeleteEmpties, FailedCreateUndone,
        NextCreateWorks
  <2> QED
    BY <2>1, <2>3
<1> QED
  BY <1>2, <1>5, <1>6

\* A create fails after EnsureMesh: it has something to undo, or nothing.
LEMMA CreateFailsKeeps ==
  ASSUME ClusterInv, Results, CreateFails
  PROVE  ClusterInv' /\ Results'
<1>1. ClusterTypeOK /\ CommandInv
  BY DEF ClusterInv
<1>2. /\ phase \in {"prep", "nodes", "register"} /\ failed # {}
      /\ UNCHANGED <<mesh, faults, created, attempt, before, commands, clusters, nodes,
                     attached, target, job, ready>>
      /\ \/ phase' = "rollback" /\ todo' = {} /\ failed' = {} /\ outcome' = outcome
         \/ ~job.made /\ Enter("idle", {}) /\ outcome' = "error"
  BY DEF CreateFails, Stuck, Leave, Enter, clusterVars, resources
<1>3. Turns /\ JobStays
  BY <1>1, <1>2 DEF Turns, JobStays, ClusterTypeOK, MeshTypeOK, Outcome
<1>4. /\ job.kind = "create"
      /\ ~(faults = job.since /\ before.whole /\ ~job.had)
      /\ phase \in {"nodes", "register"} => job.made
  BY <1>1, <1>2 DEF CommandInv, JobFits, NothingFails
<1>5. CASE phase' = "rollback" /\ todo' = {} /\ failed' = {} /\ outcome' = outcome
  <2>1. TasksOfPhase' /\ phase' \in Phases
    BY <1>5 DEF TasksOfPhase, Phases
  <2>2. /\ ClusterTypeOK'
        /\ ReadyIntact'
        /\ Containers' = Containers
        /\ Registered' = Registered
        /\ \A c : Exists(c)' <=> Exists(c)
    BY <1>3, <2>1, TurnKeeps
  <2>3. JobFits'
    BY <1>1, <1>2, <1>4, <1>5 DEF CommandInv, JobFits, NodesOf
  <2>4. RunsOrEnded' /\ ReadySpared'
    BY <1>1, <1>2, <1>5 DEF CommandInv, RunsOrEnded, ReadySpared
  <2>5. RemovalDone'
    BY <1>1, <1>2, <1>4, <1>5, <2>2 DEF CommandInv, RemovalDone
  <2>6. NamesKept'
    BY <1>1, <1>2, <1>4, <1>5, <2>2 DEF CommandInv, NamesKept, CreateDone, NodesOf
  <2>7. CreateDone' /\ NothingFails'
    BY <1>2, <1>4, <1>5 DEF CreateDone, NothingFails
  <2> QED
    BY <1>5, <2>2, <2>3, <2>4, <2>5, <2>6, <2>7, OtherPhase,
        NoResultYet DEF ClusterInv, CommandInv
<1>6. CASE ~job.made /\ Enter("idle", {}) /\ outcome' = "error"
  <2>1. ClusterInv'
    BY <1>2, <1>3, <1>6, LeaveKeeps
  <2>2. /\ Registered' = Registered
        /\ \A c : Exists(c)' <=> Exists(c)
    BY <1>2 DEF Registered, Exists, NodesOf, Containers
  <2>3. /\ ~job.had => \A c \in target : ~Exists(c)
        /\ Registered \subseteq job.was
    BY <1>1, <1>2, <1>4, <1>6 DEF CommandInv, RemovalDone, NamesKept
  <2>4. Results'
    BY <1>2, <1>4, <1>6, <2>2, <2>3 DEF Results, DeleteEmpties,
        FailedCreateUndone, NextCreateWorks
  <2> QED
    BY <2>1, <2>4
<1> QED
  BY <1>2, <1>5, <1>6

\* The rollback begins: with the cluster's resources, with the mesh, or with
\* neither.
LEMMA RollbackKeeps ==
  ASSUME ClusterInv, Results, RollbackBegins
  PROVE  ClusterInv' /\ Results'
<1>1. ClusterTypeOK /\ CommandInv
  BY DEF ClusterInv
<1>2. /\ phase = "rollback"
      /\ UNCHANGED <<mesh, created, attempt, before, commands, clusters, nodes,
                     attached, target, ready>>
      /\ faults' \in {faults, faults + 1} \intersect 0..MaxFaults
      /\ \/ job.made /\ Enter("list", {}) /\ outcome' = outcome
         \/ ~job.made /\ job'.removes /\ Enter("undo", CleanTasks) /\ outcome' = outcome
         \/ ~job.made /\ ~job'.removes /\ Enter("idle", {}) /\ outcome' = "error"
  <2>1. /\ phase = "rollback"
        /\ UNCHANGED <<mesh, created, attempt, before, commands, clusters, nodes, attached, target,
                       ready>>
    BY DEF RollbackBegins, resources
  <2>2. faults \in 0..MaxFaults /\ (faults' = faults \/ Strikes("fail"))
    BY <1>1 DEF RollbackBegins, ClusterTypeOK, MeshTypeOK
  <2>3. faults' \in {faults, faults + 1} \intersect 0..MaxFaults
    BY <2>2, MeshBoundAssumption DEF Strikes
  <2>4. (CASE job.made                     -> Enter("list", {}) /\ UNCHANGED outcome
           [] ~job.made /\ job'.removes    -> Enter("undo", CleanTasks) /\ UNCHANGED outcome
           [] ~job.made /\ ~job'.removes   -> Leave("error"))
    BY DEF RollbackBegins
  <2> QED
    BY <2>1, <2>3, <2>4, Zenon DEF Leave
<1>3. /\ job' \in JobState
      /\ JobStays
      /\ job'.untidy = job.untidy
      /\ job'.found = job.found
      /\ job.warned => job'.warned
      /\ job'.removes => created
  <2>1. \/ job' = [job EXCEPT !.removes = RollbackRemovesMesh]
        \/ job' = [job EXCEPT !.removes = FALSE, !.warned = TRUE]
    BY DEF RollbackBegins
  <2>2. PICK r \in BOOLEAN, w \in BOOLEAN :
          /\ job' = [job EXCEPT !.removes = r, !.warned = w]
          /\ r => created
          /\ job.warned => w
    <3>1. CASE job' = [job EXCEPT !.removes = RollbackRemovesMesh]
      <4>1. job' = [job EXCEPT !.removes = RollbackRemovesMesh, !.warned = job.warned]
        BY <1>1, <3>1 DEF ClusterTypeOK, JobState
      <4>2. RollbackRemovesMesh \in BOOLEAN /\ (RollbackRemovesMesh => created)
        BY Zenon DEF RollbackRemovesMesh
      <4>3. job.warned \in BOOLEAN
        BY <1>1 DEF ClusterTypeOK, JobState
      <4> QED
        BY <4>1, <4>2, <4>3
    <3>2. CASE job' = [job EXCEPT !.removes = FALSE, !.warned = TRUE]
      BY <3>2
    <3> QED
      BY <2>1, <3>1, <3>2
  <2> QED
    BY <1>1, <2>2 DEF ClusterTypeOK, JobState, JobStays
<1>4. /\ job.kind = "create" /\ ~(faults' = job.since /\ before.whole /\ ~job.had)
      /\ ~job.made /\ ~job.had => \A c \in target : ~Exists(c)
  <2>1. faults \in 0..MaxFaults /\ job.since \in 0..MaxFaults /\ job.since <= faults
    BY <1>1 DEF CommandInv, JobFits, ClusterTypeOK, MeshTypeOK, JobState
  <2>2. faults' = job.since => faults = job.since
    BY <1>2, <2>1, MeshBoundAssumption
  <2> QED
    BY <1>1, <1>2, <2>2 DEF CommandInv, JobFits, NothingFails, RemovalDone
<1>5. Turns
  BY <1>1, <1>2, <1>3 DEF Turns, ClusterTypeOK, MeshTypeOK, Outcome
<1>6. CASE job.made /\ Enter("list", {}) /\ outcome' = outcome
  <2>1. phase' = "list" /\ todo' = {} /\ failed' = {}
    BY <1>6 DEF Enter
  <2>2. TasksOfPhase' /\ phase' \in Phases
    BY <2>1 DEF TasksOfPhase, Phases
  <2>3. /\ ClusterTypeOK'
        /\ ReadyIntact'
        /\ Containers' = Containers
        /\ Registered' = Registered
        /\ \A c : Exists(c)' <=> Exists(c)
    BY <1>5, <2>2, TurnKeeps
  <2>4. JobFits'
    BY <1>1, <1>2, <1>3, <1>4, <1>5, <1>6, <2>1, SinceKeeps DEF CommandInv,
        JobFits, NodesOf, JobStays
  <2>5. RunsOrEnded' /\ ReadySpared'
    BY <1>1, <1>2, <1>3, <1>4, <1>6, <2>1 DEF CommandInv, RunsOrEnded,
        ReadySpared, JobStays
  <2>6. RemovalDone'
    BY <1>3, <1>4, <1>6, <2>1 DEF RemovalDone, JobStays
  <2>7. NamesKept'
    BY <1>1, <1>2, <1>3, <1>4, <2>1, <2>3 DEF CommandInv, NamesKept, NodesOf, JobStays
  <2>8. CreateDone' /\ NothingFails'
    BY <1>2, <1>3, <1>4, <2>1 DEF CreateDone, NothingFails, JobStays
  <2> QED
    BY <2>1, <2>3, <2>4, <2>5, <2>6, <2>7, <2>8, OtherPhase,
        NoResultYet DEF ClusterInv, CommandInv
<1>7. CASE ~job.made /\ job'.removes /\ Enter("undo", CleanTasks) /\ outcome' = outcome
  BY <1>2, <1>3, <1>4, <1>5, <1>7, UndoKeeps
<1>8. CASE ~job.made /\ ~job'.removes /\ Enter("idle", {}) /\ outcome' = "error"
  <2>1. phase' = "idle" /\ todo' = {} /\ failed' = {}
    BY <1>8 DEF Enter
  <2>2. TasksOfPhase' /\ phase' \in Phases
    BY <2>1 DEF TasksOfPhase, Phases
  <2>3. /\ ClusterTypeOK' /\ ReadyIntact' /\ Registered' = Registered
        /\ \A c : Exists(c)' <=> Exists(c)
    BY <1>5, <2>2, TurnKeeps
  <2>4. JobFits'
    BY <1>1, <1>2, <1>3, <1>4, <1>5, <1>8, <2>1, SinceKeeps DEF CommandInv,
        JobFits, NodesOf, JobStays
  <2>5. /\ RunsOrEnded' /\ ReadySpared' /\ CreateDone' /\ NamesKept' /\ NothingFails'
        /\ RemovalDone'
    BY <1>3, <1>4, <2>1
       DEF RunsOrEnded, ReadySpared, CreateDone, NamesKept, NothingFails, RemovalDone, JobStays
  <2>6. Registered \subseteq job.was
    BY <1>1, <1>2, <1>4, <1>8 DEF CommandInv, NamesKept
  <2>7. Results'
    BY <1>2, <1>3, <1>4, <1>8, <2>3, <2>6
       DEF Results, DeleteEmpties, FailedCreateUndone, NextCreateWorks, JobStays
  <2> QED
    BY <2>1, <2>3, <2>4, <2>5, <2>7, OtherPhase DEF ClusterInv, CommandInv
<1> QED
  BY <1>2, <1>6, <1>7, <1>8

\* A removal knows its containers, and goes on to remove them.
LEMMA RemoveBegins ==
  ASSUME ClusterInv, Turns, JobStays, phase \in {"list", "drop"}, outcome' = outcome,
         phase' = "remove", todo' \union failed' = job'.found \union target,
         todo' \intersect failed' = {}, job'.removes = job.removes,
         job'.found \subseteq NodesOf(target),
         \A n \in NodesOf(target) \intersect Containers : n \in job'.found \/ clusterOf[n] \in failed',
         job.kind = "create" => job'.warned \/ job.removes \/ Registered \subseteq job.was
  PROVE  ClusterInv' /\ Results'
<1>1. TasksOfPhase' /\ phase' \in Phases
  <2>1. PhaseTasks' = NodesOf(target') \union target'
    BY DEF PhaseTasks, NodesOf
  <2> QED
    BY <2>1 DEF TasksOfPhase, Phases, Turns
<1>2. /\ ClusterTypeOK' /\ ReadyIntact' /\ CommandInv
      /\ Containers' = Containers /\ Registered' = Registered
      /\ \A c : Exists(c)' <=> Exists(c)
      /\ HasOtherClusters(target)' <=> HasOtherClusters(target)
  BY <1>1, TurnKeeps DEF ClusterInv
<1>3. /\ UNCHANGED <<created, before, target, ready>>
      /\ job.kind = "create" => job.made
  BY <1>2 DEF Turns, CommandInv, JobFits
<1>4. JobFits'
  BY <1>2, <1>3, SinceKeeps DEF CommandInv, JobFits, JobStays, NodesOf
<1>5. RunsOrEnded' /\ ReadySpared'
  BY <1>2, <1>3 DEF CommandInv, RunsOrEnded, ReadySpared, JobStays
<1>6. CreateDone'
  BY DEF CreateDone
<1>7. RemovalDone'
  <2>1. \A c \in target : ~Ended(c)'
    BY DEF Ended
  <2>2. \A n \in NodesOf(target) \intersect Containers : ~Ended(n)' \/ clusterOf[n] \in failed'
    BY DEF Ended
  <2>3. NodesOf(target)' = NodesOf(target)
    BY <1>3 DEF NodesOf
  <2> QED
    BY <1>2, <1>3, <2>1, <2>2, <2>3 DEF CommandInv, RemovalDone, JobStays
<1>8. NamesKept'
  BY <1>2 DEF NamesKept, JobStays
<1>9. NothingFails'
  BY <1>2, <1>3, SinceKeeps DEF CommandInv, NothingFails, JobStays
<1> QED
  BY <1>1, <1>2, <1>4, <1>5, <1>6, <1>7, <1>8, <1>9, OtherPhase, NoResultYet
     DEF ClusterInv, CommandInv

\* A removal enters the phases in which a mesh that stays forgets its names.
LEMMA ForgetBegins ==
  ASSUME ClusterInv, Turns, JobStays, phase # "idle", outcome' = outcome,
         phase' \in {"wake", "drop"}, todo' \subseteq EnsureTasks \union DropTasks,
         phase' = "wake" => todo' = WakeTasks, phase' = "drop" => todo' = DropTasks, failed' = {},
         job'.removes = job.removes, job'.found \subseteq NodesOf(target),
         job.kind # "deleteAll" => NodesOf(target) \intersect Containers \subseteq job'.found,
         job.kind = "create" =>
           job.made /\ ~job.removes /\ Registered \subseteq job.was \union job'.found,
         ~(job.kind = "create" /\ faults = job.since /\ before.whole /\ ~job.had)
  PROVE  ClusterInv' /\ Results'
<1>1. TasksOfPhase' /\ phase' \in Phases
  BY DEF TasksOfPhase, PhaseTasks, Phases
<1>2. /\ ClusterTypeOK' /\ ReadyIntact' /\ CommandInv
      /\ Containers' = Containers /\ Registered' = Registered
      /\ \A c : Exists(c)' <=> Exists(c)
      /\ HasOtherClusters(target)' <=> HasOtherClusters(target)
  BY <1>1, TurnKeeps DEF ClusterInv
<1>3. UNCHANGED <<created, before, target, ready>>
  BY DEF Turns
<1>4. JobFits'
  BY <1>2, <1>3, SinceKeeps DEF CommandInv, JobFits, JobStays, NodesOf
<1>5. RunsOrEnded' /\ ReadySpared'
  BY <1>2, <1>3 DEF CommandInv, RunsOrEnded, ReadySpared, JobStays
<1>6. CreateDone'
  BY DEF CreateDone
<1>7. RemovalDone'
  <2>1. NodesOf(target)' = NodesOf(target)
    BY <1>3 DEF NodesOf
  <2> QED
    BY <1>2, <1>3, <2>1 DEF CommandInv, RemovalDone, JobStays
<1>8. NamesKept'
  BY <1>2 DEF NamesKept, JobStays, Ended, DropTasks
<1>9. NothingFails'
  BY <1>3, SinceKeeps DEF NothingFails, JobStays
<1> QED
  BY <1>1, <1>2, <1>4, <1>5, <1>6, <1>7, <1>8, <1>9, OtherPhase, NoResultYet
     DEF ClusterInv, CommandInv

\* The removal lists what there is of its target.
LEMMA ListKeeps ==
  ASSUME ClusterInv, Results, ListResources
  PROVE  ClusterInv' /\ Results'
<1>1. ClusterTypeOK /\ CommandInv
  BY DEF ClusterInv
<1> DEFINE found == NodesOf(target) \intersect Containers
<1>2. /\ phase = "list" /\ outcome' = outcome /\ job' = [job EXCEPT !.found = found]
      /\ UNCHANGED <<mesh, faults, created, attempt, before, commands, clusters, nodes,
                     attached, target, ready>>
      /\ IF Deregisters /\ found # {} THEN Enter("wake", WakeTasks)
                                     ELSE Enter("remove", found \union target)
  BY DEF ListResources, resources
<1>3. /\ job' \in JobState
      /\ JobStays
      /\ job'.removes = job.removes
      /\ job'.found = found
      /\ job'.warned = job.warned
      /\ found \subseteq NodesOf(target)
  <2>1. found \subseteq Name
    BY DEF NodesOf
  <2> QED
    BY <1>1, <1>2, <2>1 DEF ClusterTypeOK, JobState, JobStays
<1>4. Turns
  BY <1>1, <1>2, <1>3 DEF Turns, ClusterTypeOK, MeshTypeOK
<1>5. job.kind = "create" =>
        job.made /\ Registered \subseteq job.was \union found
  BY <1>1, <1>2 DEF CommandInv, JobFits, NamesKept
<1> HIDE DEF found
<1>6. CASE Deregisters /\ found # {}
  <2>1. /\ phase' = "wake"
        /\ todo' = WakeTasks
        /\ failed' = {}
        /\ WakeTasks \subseteq EnsureTasks
    BY <1>2, <1>6 DEF Enter, WakeTasks, EnsureTasks
  <2>2. job.kind = "create" => ~job.removes
    BY <1>6 DEF Deregisters
  <2>3. ~(job.kind = "create" /\ faults = job.since /\ before.whole /\ ~job.had)
    BY <1>1, <1>2 DEF CommandInv, NothingFails
  <2>4. NodesOf(target) \intersect Containers \subseteq job'.found
    BY <1>3 DEF found
  <2> QED
    BY <1>2, <1>3, <1>4, <1>5, <2>1, <2>2, <2>3, <2>4, ForgetBegins
<1>7. CASE ~(Deregisters /\ found # {})
  <2>1. phase' = "remove" /\ todo' = found \union target /\ failed' = {}
    BY <1>2, <1>7 DEF Enter
  <2>2. job.kind = "create" => job'.warned \/ job.removes \/ Registered \subseteq job.was
    BY <1>5, <1>7 DEF Deregisters
  <2>3. NodesOf(target) \intersect Containers \subseteq job'.found
    BY <1>3 DEF found
  <2> QED
    BY <1>2, <1>3, <1>4, <2>1, <2>2, <2>3, RemoveBegins
<1> QED
  BY <1>6, <1>7

\* StartMesh is over, and the names go.
LEMMA WakeOverKeeps ==
  ASSUME ClusterInv, Results, WakeOver
  PROVE  ClusterInv' /\ Results'
<1>1. ClusterTypeOK /\ CommandInv
  BY DEF ClusterInv
<1>2. /\ phase = "wake" /\ outcome' = outcome /\ job' = [job EXCEPT !.warned = @ \/ failed # {}]
      /\ UNCHANGED <<mesh, faults, created, attempt, before, commands, clusters, nodes,
                     attached, target, ready>>
      /\ phase' = "drop" /\ todo' = DropTasks /\ failed' = {}
  BY DEF WakeOver, resources, Enter, Done, Stuck
<1>3. /\ job' \in JobState
      /\ JobStays
      /\ job'.removes = job.removes
      /\ job'.found = job.found
  <2>1. (job.warned \/ failed # {}) \in BOOLEAN
    BY Zenon
  <2>2. PICK w \in BOOLEAN : job' = [job EXCEPT !.warned = w]
    BY <1>2, <2>1, Zenon
  <2> QED
    BY <1>1, <2>2 DEF ClusterTypeOK, JobState, JobStays
<1>4. Turns
  BY <1>1, <1>2, <1>3 DEF Turns, ClusterTypeOK, MeshTypeOK
<1>5. /\ job.kind = "create" =>
           job.made /\ ~job.removes /\ Registered \subseteq job.was \union job.found
      /\ job.kind # "deleteAll" => NodesOf(target) \intersect Containers \subseteq job.found
      /\ job.found \subseteq NodesOf(target)
      /\ ~(job.kind = "create" /\ faults = job.since /\ before.whole /\ ~job.had)
  BY <1>1, <1>2 DEF CommandInv, JobFits, NamesKept, RemovalDone, NothingFails
<1> QED
  BY <1>2, <1>3, <1>4, <1>5, ForgetBegins

\* The names are gone, or the user is told, and the removal goes on.
LEMMA DropOverKeeps ==
  ASSUME ClusterInv, Results, DropOver
  PROVE  ClusterInv' /\ Results'
<1>1. ClusterTypeOK /\ CommandInv
  BY DEF ClusterInv
<1>2. /\ phase = "drop" /\ todo = {} /\ job' = [job EXCEPT !.warned = @ \/ failed # {}]
      /\ UNCHANGED <<mesh, faults, created, attempt, before, commands, clusters, nodes,
                     attached, target, ready>>
      /\ IF job.kind = "deleteAll"
           THEN Enter("idle", {}) /\ outcome' = "incomplete"
           ELSE Enter("remove", job.found \union target) /\ outcome' = outcome
  BY DEF DropOver, resources, Leave
<1>3. /\ job' \in JobState
      /\ JobStays
      /\ job'.removes = job.removes
      /\ job'.found = job.found
      /\ job.warned \/ failed # {} => job'.warned
  <2>1. (job.warned \/ failed # {}) \in BOOLEAN
    BY Zenon
  <2>2. PICK w \in BOOLEAN :
          job' = [job EXCEPT !.warned = w] /\ (job.warned \/ failed # {} => w)
    BY <1>2, <2>1, Zenon
  <2> QED
    BY <1>1, <2>2 DEF ClusterTypeOK, JobState, JobStays
<1>4. Turns
  BY <1>1, <1>2, <1>3 DEF Turns, ClusterTypeOK, MeshTypeOK, Outcome
<1>5. CASE job.kind = "deleteAll"
  <2>1. ClusterInv'
    BY <1>2, <1>3, <1>4, <1>5, LeaveKeeps
  <2>2. outcome' = "incomplete" /\ job'.kind = "deleteAll"
    BY <1>2, <1>3, <1>5 DEF JobStays
  <2> QED
    BY <2>1, <2>2 DEF Results, DeleteEmpties, FailedCreateUndone, NextCreateWorks
<1>6. CASE job.kind # "deleteAll"
  <2>1. /\ phase' = "remove"
        /\ todo' = job.found \union target
        /\ failed' = {}
        /\ outcome' = outcome
    BY <1>2, <1>6 DEF Enter
  <2>2. job.kind = "create" => job'.warned \/ job.removes \/ Registered \subseteq job.was
    BY <1>1, <1>2, <1>3 DEF CommandInv, NamesKept, Ended, Registered
  <2>3. /\ NodesOf(target) \intersect Containers \subseteq job.found
        /\ job.found \subseteq NodesOf(target)
    BY <1>1, <1>2, <1>6 DEF CommandInv, JobFits, RemovalDone
  <2> QED
    BY <1>2, <1>3, <1>4, <2>1, <2>2, <2>3, RemoveBegins
<1> QED
  BY <1>5, <1>6

\* How a command may end after its removal.
LEMMA RemovalOutcome ==
  ASSUME ClusterTypeOK, CommandInv, phase # "idle", NEW ok \in BOOLEAN, AfterRemoval(ok)
  PROVE  outcome' \in Outcome
<1>1. job.kind \in {"create", "delete", "deleteAll"} /\ outcome \in Outcome
  BY DEF CommandInv, JobFits, ClusterTypeOK, MeshTypeOK, JobState
<1>2. ASSUME NEW o, Leave(o)
      PROVE  outcome' = o
  BY <1>2 DEF Leave
<1>3. CASE job.kind = "create"
  <2>1. \/ outcome' = outcome
        \/ Leave(IF ok THEN "error" ELSE "untidy")
    BY <1>3, Zenon DEF AfterRemoval
  <2>2. (IF ok THEN "error" ELSE "untidy") \in {"error", "untidy"}
    OBVIOUS
  <2> QED
    BY <1>1, <1>2, <2>1, <2>2 DEF Outcome
<1>4. CASE job.kind # "create"
  <2>1. outcome' = outcome \/ Leave("ok") \/ Leave("incomplete")
    BY <1>1, <1>4, Zenon DEF AfterRemoval
  <2> QED
    BY <1>1, <1>2, <2>1 DEF Outcome
<1> QED
  BY <1>3, <1>4

\* The removal of the target's resources is over: the mesh goes too, the
\* command ends, or DeleteAll goes on to what it could not remove.
LEMMA AfterRemovalKeeps ==
  ASSUME ClusterInv, Turns, JobStays, NEW ok \in BOOLEAN, AfterRemoval(ok),
         phase \in {"list", "drop", "remove"},
         job'.removes = job.removes, job'.found \subseteq job.found,
         ok => \A c \in target : ~Exists(c),
         ok /\ job.kind = "create" /\ ~job.removes => job'.warned \/ Registered \subseteq job.was,
         ~ok => job'.untidy
  PROVE  ClusterInv' /\ Results'
<1>1. ClusterTypeOK /\ CommandInv
  BY DEF ClusterInv
<1>2. /\ UNCHANGED <<mesh, clusters, nodes, attached, target, ready, created, before>>
      /\ job.kind \in {"create", "delete", "deleteAll"}
      /\ job.kind = "create" /\ job.removes => created
      /\ ~(job.kind = "create" /\ faults' = job.since /\ before.whole /\ ~job.had)
      /\ job.kind = "delete" /\ ~job.removes => HasOtherClusters(target)
      /\ job.kind = "deleteAll" => job.removes
      /\ job.found \subseteq NodesOf(target)
      /\ job.kind # "create" /\ job.removes => ready = {}
  <2>1. job'.since = job.since
    BY DEF JobStays
  <2>2. faults' = job.since => faults = job.since
    BY <2>1, SinceKeeps
  <2> QED
    BY <1>1, <2>2
       DEF CommandInv, JobFits, NothingFails, RemovalDone, ReadySpared, ClusterTypeOK, JobState, Turns
<1>3. /\ Registered' = Registered /\ Containers' = Containers
      /\ \A c : Exists(c)' <=> Exists(c)
  BY <1>2 DEF Registered, Exists, NodesOf, Containers
<1>4. CASE job.kind = "create" /\ job.removes
  <2>1. Enter("undo", CleanTasks) /\ outcome' = outcome
    BY <1>4, Zenon DEF AfterRemoval
  <2> QED
    BY <1>2, <1>4, <2>1, UndoKeeps
<1>5. CASE job.kind = "create" /\ ~job.removes
  <2>1. Leave(IF ok THEN "error" ELSE "untidy")
    BY <1>5, Zenon DEF AfterRemoval
  <2>2. Enter("idle", {}) /\ outcome' = IF ok THEN "error" ELSE "untidy"
    BY <2>1, Zenon DEF Leave
  <2>3. ClusterInv'
    BY <2>2, LeaveKeeps
  <2>4. Results'
    BY <1>2, <1>3, <1>5, <2>2
       DEF Results, DeleteEmpties, FailedCreateUndone, NextCreateWorks, JobStays
  <2> QED
    BY <2>3, <2>4
<1>6. CASE job.kind # "create" /\ ok /\ job.removes
  <2>1. Enter("clean", CleanTasks) /\ outcome' = outcome
    BY <1>6, Zenon DEF AfterRemoval
  <2>2. phase' = "clean" /\ todo' = CleanTasks /\ failed' = {}
    BY <2>1 DEF Enter
  <2>3. TasksOfPhase' /\ phase' \in Phases
    BY <2>2, Zenon DEF TasksOfPhase, PhaseTasks, Phases
  <2>4. ClusterTypeOK' /\ ReadyIntact'
    BY <2>3, TurnKeeps
  <2>5. JobFits'
    BY <1>1, <1>2, <1>6, <2>2, SinceKeeps DEF CommandInv, JobFits, JobStays, NodesOf
  <2>6. RunsOrEnded' /\ ReadySpared'
    BY <1>1, <1>2, <1>6, <2>1, <2>2 DEF CommandInv, RunsOrEnded, ReadySpared, JobStays
  <2>7. CreateDone' /\ NamesKept' /\ NothingFails'
    BY <1>6, <2>2 DEF CreateDone, NamesKept, NothingFails, JobStays
  <2>8. RemovalDone'
    BY <1>1, <1>2, <1>3, <1>6, <2>2 DEF CommandInv, RemovalDone, JobStays
  <2>9. CleanInv' /\ EnsureInv' /\ EnsureUndoable'
    BY <2>2 DEF CleanInv, EnsureInv, EnsureUndoable, Ended, CleanTasks
  <2> QED
    BY <2>2, <2>4, <2>5, <2>6, <2>7, <2>8, <2>9, NoResultYet DEF ClusterInv, CommandInv
<1>7. CASE job.kind # "create" /\ ok /\ ~job.removes
  <2>1. Leave("ok")
    BY <1>7, Zenon DEF AfterRemoval
  <2>2. Enter("idle", {}) /\ outcome' = "ok"
    BY <2>1, Zenon DEF Leave
  <2>3. ClusterInv'
    BY <2>2, LeaveKeeps
  <2>4. Containers # {} /\ job'.kind = "delete"
    BY <1>2, <1>7 DEF HasOtherClusters, JobStays
  <2>5. Results'
    BY <1>2, <1>3, <1>7, <2>2, <2>4 DEF Results, DeleteEmpties,
        FailedCreateUndone, NextCreateWorks
  <2> QED
    BY <2>3, <2>5
<1>8. CASE job.kind = "delete" /\ ~ok
  <2>1. Leave("incomplete")
    BY <1>8, Zenon DEF AfterRemoval
  <2>2. Enter("idle", {}) /\ outcome' = "incomplete"
    BY <2>1, Zenon DEF Leave
  <2>3. ClusterInv'
    BY <2>2, LeaveKeeps
  <2> QED
    BY <2>2, <2>3 DEF Results, DeleteEmpties, FailedCreateUndone, NextCreateWorks
<1>9. CASE job.kind = "deleteAll" /\ ~ok
  <2>1. Enter("wake", WakeTasks) /\ outcome' = outcome
    BY <1>9, Zenon DEF AfterRemoval
  <2>2. /\ phase' = "wake" /\ todo' = WakeTasks /\ failed' = {} /\ outcome' = outcome
        /\ WakeTasks \subseteq EnsureTasks
    BY <2>1 DEF Enter, WakeTasks, EnsureTasks
  <2> QED
    BY <1>2, <1>9, <2>2, ForgetBegins
<1> QED
  BY <1>2, <1>4, <1>5, <1>6, <1>7, <1>8, <1>9

\* Docker fails when it is asked what there is, or whether the cluster is
\* monitored.
LEMMA AskFailsKeeps ==
  ASSUME ClusterInv, Results, ListFails \/ ClusterMonitoredFails
  PROVE  ClusterInv' /\ Results'
<1>1. ClusterTypeOK /\ CommandInv
  BY DEF ClusterInv
<1>2. /\ phase \in {"list", "drop"}
      /\ faults' \in {faults, faults + 1} \intersect 0..MaxFaults
      /\ UNCHANGED <<mesh, created, attempt, before, commands, clusters, nodes, attached, target,
                     ready>>
  <2>1. faults \in 0..MaxFaults /\ Strikes("fail")
    BY <1>1 DEF ListFails, ClusterMonitoredFails, ClusterTypeOK, MeshTypeOK
  <2>2. faults' \in {faults, faults + 1} \intersect 0..MaxFaults
    BY <2>1, MeshBoundAssumption DEF Strikes
  <2>3. phase \in {"list", "drop"}
    BY DEF ListFails, ClusterMonitoredFails
  <2>4. UNCHANGED <<mesh, created, attempt, before, commands, clusters, nodes, attached, target,
                    ready>>
    BY DEF ListFails, ClusterMonitoredFails, resources
  <2> QED
    BY <2>2, <2>3, <2>4
<1>3. ASSUME job.kind # "deleteAll", AfterRemoval(FALSE), job' = [job EXCEPT !.untidy = TRUE]
      PROVE  ClusterInv' /\ Results'
  <2>1. /\ job' \in JobState
        /\ JobStays
        /\ job'.removes = job.removes
        /\ job'.found = job.found
        /\ job'.untidy
    BY <1>1, <1>3 DEF ClusterTypeOK, JobState, JobStays
  <2>2. outcome' \in Outcome
    BY <1>1, <1>2, <1>3, RemovalOutcome
  <2>3. Turns
    BY <1>2, <2>1, <2>2 DEF Turns
  <2> QED
    BY <1>2, <1>3, <2>1, <2>3, AfterRemovalKeeps
<1>4. CASE ClusterMonitoredFails
  BY <1>3, <1>4 DEF ClusterMonitoredFails
<1>5. CASE ListFails /\ job.kind = "deleteAll" /\ Leave("incomplete") /\ UNCHANGED job
  <2>1. Enter("idle", {}) /\ outcome' = "incomplete" /\ job' = job
    BY <1>5 DEF Leave
  <2>2. Turns /\ JobStays
    BY <1>1, <1>2, <2>1 DEF Turns, JobStays, ClusterTypeOK, Outcome
  <2>3. ClusterInv'
    BY <2>1, <2>2, LeaveKeeps
  <2> QED
    BY <2>1, <2>3 DEF Results, DeleteEmpties, FailedCreateUndone, NextCreateWorks
<1>6. ASSUME NEW c \in target, job.kind = "deleteAll", phase = "list", UNCHANGED outcome,
             phase' = "remove",
             LET found == NodesOf(target \ {c}) \intersect Containers
             IN  /\ job' = [job EXCEPT !.found = found]
                 /\ todo' = found \union (target \ {c})
                 /\ failed' = {c}
      PROVE  ClusterInv' /\ Results'
  <2> DEFINE found == NodesOf(target \ {c}) \intersect Containers
  <2>1. /\ job' \in JobState
        /\ JobStays
        /\ job'.removes = job.removes
        /\ job'.found = found
        /\ found \subseteq NodesOf(target)
    <3>1. found \subseteq Name /\ found \subseteq NodesOf(target)
      BY DEF NodesOf
    <3> QED
      BY <1>1, <1>6, <3>1 DEF ClusterTypeOK, JobState, JobStays
  <2>2. Turns
    BY <1>1, <1>2, <1>6, <2>1 DEF Turns, ClusterTypeOK, MeshTypeOK
  <2>3. /\ todo' \union failed' = job'.found \union target
        /\ todo' \intersect failed' = {}
    <3>1. c \notin found
      BY <1>1, Distinct DEF NodesOf, ClusterTypeOK
    <3> QED
      BY <1>6, <2>1, <3>1
  <2>4. \A n \in NodesOf(target) \intersect Containers : n \in job'.found \/ clusterOf[n] \in failed'
    BY <1>6, <2>1 DEF NodesOf
  <2> HIDE DEF found
  <2> QED
    BY <1>6, <2>1, <2>2, <2>3, <2>4, RemoveBegins
<1>7. CASE ListFails
  <2>1. \/ job.kind # "deleteAll" /\ AfterRemoval(FALSE) /\ job' = [job EXCEPT !.untidy = TRUE]
        \/ job.kind = "deleteAll" /\ Leave("incomplete") /\ UNCHANGED job
        \/ /\ job.kind = "deleteAll" /\ phase = "list" /\ UNCHANGED outcome /\ phase' = "remove"
           /\ \E c \in target : LET found == NodesOf(target \ {c}) \intersect Containers
                                IN  /\ job' = [job EXCEPT !.found = found]
                                    /\ todo' = found \union (target \ {c})
                                    /\ failed' = {c}
    BY <1>7, Zenon DEF ListFails
  <2> QED
    BY <1>3, <1>5, <1>6, <1>7, <2>1
<1> QED
  BY <1>4, <1>7

\* Every removal was tried: with no failure nothing of the target is left.
LEMMA RemovalOverKeeps ==
  ASSUME ClusterInv, Results, RemovalOver
  PROVE  ClusterInv' /\ Results'
<1>1. ClusterTypeOK /\ CommandInv
  BY DEF ClusterInv
<1>2. /\ phase = "remove" /\ ~\E t \in todo : OpenTask(t)
      /\ AfterRemoval(failed = {})
      /\ UNCHANGED <<mesh, faults, created, attempt, before, commands, clusters, nodes, attached,
                     target, ready>>
  BY DEF RemovalOver, resources
<1>3. /\ job' \in JobState
      /\ JobStays
      /\ job'.removes = job.removes
      /\ job'.warned = job.warned
      /\ job'.found \subseteq job.found
      /\ failed # {} => job'.untidy
  <2>1. (job.untidy \/ failed # {}) \in BOOLEAN
    BY Zenon
  <2> DEFINE f == IF job.kind = "deleteAll" /\ failed # {}
                    THEN job.found \ NodesOf(todo \union failed)
                    ELSE job.found
  <2>2. f \subseteq job.found
    OBVIOUS
  <2>3. job' = [job EXCEPT !.untidy = @ \/ failed # {}, !.found = f]
    BY DEF RemovalOver
  <2> HIDE DEF f
  <2>4. PICK u \in BOOLEAN : job' = [job EXCEPT !.untidy = u, !.found = f] /\ (failed # {} => u)
    BY <2>1, <2>3, Zenon
  <2> QED
    BY <1>1, <2>2, <2>4 DEF ClusterTypeOK, JobState, JobStays
<1>4. PICK ok \in BOOLEAN : AfterRemoval(ok) /\ (ok <=> failed = {})
  <2>1. (failed = {}) \in BOOLEAN
    BY Zenon
  <2> QED
    BY <1>2, <2>1, Zenon
<1>5. Turns
  <2>1. outcome' \in Outcome
    BY <1>1, <1>2, <1>4, RemovalOutcome
  <2> QED
    BY <1>1, <1>2, <1>3, <2>1 DEF Turns, ClusterTypeOK, MeshTypeOK
<1>6. ASSUME failed = {}
      PROVE  \A c \in target : ~Exists(c)
  <2>1. todo = {}
    <3>1. \A t \in todo : t \notin Name
      BY <1>2, OpenTaskIs
    <3>2. \A t \in todo : t \in Cluster
      BY <1>1, <1>2, <3>1, TasksFit DEF NodesOf, ClusterTypeOK
    <3>3. \A t \in todo : OpenTask(t)
      BY <1>6, <3>1, <3>2, OpenTaskIs DEF NodesOf
    <3> QED
      BY <1>2, <3>3
  <2>2. /\ \A c \in target : ~clusters[c].net /\ ~clusters[c].vols
        /\ NodesOf(target) \intersect Containers = {}
    BY <1>1, <1>2, <1>6, <2>1 DEF CommandInv, RemovalDone, Ended
  <2> QED
    BY <2>2 DEF Exists, NodesOf
<1>7. job.kind = "create" /\ ~job.removes => job'.warned \/ Registered \subseteq job.was
  BY <1>1, <1>2, <1>3 DEF CommandInv, NamesKept
<1> QED
  BY <1>2, <1>3, <1>4, <1>5, <1>6, <1>7, AfterRemovalKeeps

\* CleanupMesh is over, and with it the command.
LEMMA CleanupOverKeeps ==
  ASSUME ClusterInv, Results, CleanupOver
  PROVE  ClusterInv' /\ Results'
<1>1. ClusterTypeOK /\ CommandInv
  BY DEF ClusterInv
<1>2. /\ UNCHANGED <<mesh, faults, created, attempt, before, commands, clusters, nodes, attached,
                     target, job, ready>>
      /\ Enter("idle", {})
      /\ \/ phase = "clean" /\ todo = {} /\ failed = {} /\ outcome' = "ok"
         \/ phase = "clean" /\ outcome' = "incomplete"
         \/ phase = "undo" /\ todo = {} /\ failed = {} /\ ~job.untidy /\ outcome' = "error"
         \/ phase = "undo" /\ outcome' = "untidy"
  BY DEF CleanupOver, Leave, Done, Stuck, clusterVars, resources
<1>3. Turns /\ JobStays
  BY <1>1, <1>2 DEF Turns, JobStays, ClusterTypeOK, MeshTypeOK, Outcome
<1>4. ClusterInv'
  BY <1>2, <1>3, LeaveKeeps
<1>5. /\ Registered' = Registered /\ Containers' = Containers /\ Present' = Present
      /\ \A c : Exists(c)' <=> Exists(c)
  BY <1>2 DEF Registered, Exists, NodesOf, Containers, Present
<1>6. todo = {} /\ failed = {} /\ phase \in {"clean", "undo"} => Present = {} /\ Registered = {}
  BY <1>1 DEF CommandInv, CleanInv, Ended, ClusterTypeOK, MeshTypeOK, MeshState,
      Present, Part,
    Registered
<1>7. /\ phase = "clean" => job.kind # "create" /\ \A c \in target : ~Exists(c)
      /\ phase = "undo" => /\ job.kind = "create"
                           /\ ~(faults = job.since /\ before.whole /\ ~job.had)
                           /\ ~job.untidy /\ ~job.had => \A c \in target : ~Exists(c)
      /\ job.kind = "deleteAll" => \A c \in Cluster \ target : ~Exists(c)
  BY <1>1, <1>2 DEF CommandInv, JobFits, RemovalDone, NothingFails
<1>8. Results'
  BY <1>2, <1>5, <1>6, <1>7 DEF Results, DeleteEmpties, FailedCreateUndone,
      NextCreateWorks
<1> QED
  BY <1>4, <1>8

\* A command is killed; the host reboots, which stops the containers and ends
\* the command.
LEMMA StopKeeps ==
  ASSUME ClusterInv, Results, KillCommand \/ RebootHost
  PROVE  ClusterInv' /\ Results'
<1>1. ClusterTypeOK /\ CommandInv /\ ReadyIntact
  BY DEF ClusterInv
<1>2. faults \in 0..MaxFaults /\ job.since \in 0..MaxFaults /\ job.since <= faults
  BY <1>1 DEF ClusterTypeOK, MeshTypeOK, JobState, CommandInv, JobFits
<1>3. CASE KillCommand
  <2>1. /\ Enter("idle", {}) /\ outcome' = "killed" /\ faults' \in {faults, faults + 1}
        /\ faults' \in 0..MaxFaults
        /\ UNCHANGED <<mesh, created, attempt, before, commands, clusters, nodes, attached,
                       target, job, ready>>
    BY <1>2, <1>3, MeshBoundAssumption DEF KillCommand, Kill, Leave, Strikes,
        clusterVars, resources
  <2>2. Turns /\ JobStays
    BY <1>1, <2>1 DEF Turns, JobStays, ClusterTypeOK, Outcome
  <2>3. ClusterInv'
    BY <2>1, <2>2, LeaveKeeps
  <2> QED
    BY <2>1, <2>3 DEF Results, DeleteEmpties, FailedCreateUndone, NextCreateWorks
<1>4. CASE RebootHost
  <2>1. /\ faults' = faults + 1 /\ faults' \in 0..MaxFaults
        /\ mesh' = [mesh EXCEPT !.dns = Rebooted(mesh.dns), !.relay = Rebooted(mesh.relay)]
        /\ nodes' = [n \in Name |-> Rebooted(nodes[n])]
        /\ phase' = "idle" /\ todo' = {} /\ failed' = {}
        /\ (phase = "idle" /\ outcome' = outcome) \/ outcome' = "killed"
        /\ UNCHANGED <<created, attempt, before, commands, clusters, attached, target, job, ready>>
    <3>1. phase = "idle" => todo = {} /\ failed = {}
      BY <1>1, TasksFit
    <3> QED
      BY <1>2, <1>4, <3>1, MeshBoundAssumption DEF RebootHost, Reboot, Strikes,
          Leave, Enter
  <2>2. /\ mesh' \in MeshState
        /\ mesh'.net = mesh.net /\ mesh'.corefile = mesh.corefile /\ mesh'.records = mesh.records
        /\ mesh'.vol = mesh.vol /\ mesh'.hosts = mesh.hosts
        /\ mesh'.dns = "none" <=> mesh.dns = "none"
        /\ mesh'.relay = "none" <=> mesh.relay = "none"
    BY <1>1, <2>1 DEF ClusterTypeOK, MeshTypeOK, MeshState, ContainerState, Rebooted
  <2>3. /\ nodes' \in [Name -> ContainerState]
        /\ \A n \in Name : nodes'[n] = "none" <=> nodes[n] = "none"
    BY <1>1, <2>1 DEF ClusterTypeOK, ContainerState, Rebooted
  <2>4. /\ Containers' = Containers /\ Registered' = Registered
        /\ \A p \in Part : mesh'[p] = "none" <=> mesh[p] = "none"
    BY <2>2, <2>3 DEF Containers, Registered, Part
  <2>5. /\ Present' = Present
        /\ \A c : Exists(c)' <=> Exists(c)
        /\ HasOtherClusters(target)' <=> HasOtherClusters(target)
    BY <2>1, <2>4 DEF Present, Exists, HasOtherClusters, NodesOf
  <2>6. ClusterTypeOK'
    <3>1. MeshTypeOK'
      BY <1>1, <2>1, <2>2 DEF ClusterTypeOK, MeshTypeOK, Outcome
    <3>2. TasksOfPhase' /\ phase' \in Phases
      BY <2>1 DEF TasksOfPhase, Phases
    <3> QED
      BY <1>1, <2>1, <2>2, <2>3, <2>4, <3>1, <3>2 DEF ClusterTypeOK
  <2>7. ReadyIntact'
    BY <1>1, <2>1, <2>2 DEF ReadyIntact, NodesOf
  <2>8. JobFits'
    BY <1>1, <1>2, <2>1 DEF CommandInv, JobFits, NodesOf
  <2>9. /\ RunsOrEnded' /\ ReadySpared' /\ CreateDone' /\ NamesKept' /\ NothingFails'
    BY <2>1 DEF RunsOrEnded, ReadySpared, CreateDone, NamesKept, NothingFails
  <2>10. RemovalDone'
    BY <1>1, <2>1, <2>5 DEF CommandInv, RemovalDone
  <2>11. faults' # job.since
    BY <1>2, <2>1, MeshBoundAssumption
  <2>12. Results'
    BY <2>1, <2>4, <2>5, <2>11 DEF Results, DeleteEmpties, FailedCreateUndone,
        NextCreateWorks
  <2> QED
    BY <2>1, <2>6, <2>7, <2>8, <2>9, <2>10, <2>12, OtherPhase DEF ClusterInv, CommandInv
<1> QED
  BY <1>3, <1>4

\* A create begins, with EnsureMesh.
LEMMA BeginCreateKeeps ==
  ASSUME ClusterInv, Results, NEW c \in Cluster, BeginCreate(c)
  PROVE  ClusterInv' /\ Results'
<1>1. ClusterTypeOK /\ CommandInv /\ ReadyIntact
  BY DEF ClusterInv
<1>2. /\ phase' = "ensure" /\ todo' = EnsureTasks /\ failed' = {} /\ outcome' = "none"
      /\ created' = FALSE /\ attempt' = 1 /\ commands' \in 0..MaxCommands
      /\ before' = [parts |-> Present, whole |-> Whole]
      /\ target' = {c}
      /\ UNCHANGED <<mesh, faults, clusters, nodes, attached, ready>>
  BY <1>1, MeshBoundAssumption
     DEF BeginCreate, BeginEnsure, Begin, Enter, resources, ClusterTypeOK, MeshTypeOK
<1>3. PICK h \in BOOLEAN :
        /\ job' = [kind |-> "create", made |-> FALSE, removes |-> FALSE, found |-> {},
                   warned |-> FALSE, untidy |-> FALSE, was |-> Registered, had |-> h,
                   since |-> faults]
        /\ ~h => ~Exists(c)
  <2>1. Exists(c) \in BOOLEAN
    BY Zenon DEF Exists
  <2>2. job' = [NoJob EXCEPT !.kind = "create", !.was = Registered, !.had = Exists(c),
                             !.since = faults]
    BY DEF BeginCreate
  <2>3. PICK h \in BOOLEAN :
          /\ job' = [NoJob EXCEPT !.kind = "create", !.was = Registered, !.had = h,
                                  !.since = faults]
          /\ ~h => ~Exists(c)
    BY <2>1, <2>2, Zenon
  <2> QED
    BY <2>3 DEF NoJob
<1>4. Registered \subseteq Name /\ faults \in 0..MaxFaults
  BY <1>1 DEF Registered, ClusterTypeOK, MeshTypeOK, MeshState
<1>5. /\ job' \in JobState
      /\ job'.kind = "create" /\ ~job'.made /\ ~job'.removes /\ job'.found = {}
      /\ job'.was = Registered /\ job'.had = h /\ job'.since = faults
  BY <1>3, <1>4 DEF JobState
<1>6. /\ Registered' = Registered /\ Containers' = Containers /\ Present' = Present
      /\ \A d : Exists(d)' <=> Exists(d)
  BY <1>2 DEF Registered, Exists, NodesOf, Containers, Present
<1>7. MeshTypeOK'
  <2>1. Whole \in BOOLEAN /\ created' \in BOOLEAN
    BY <1>2, Zenon DEF Whole
  <2>2. before' \in [parts : SUBSET Part, whole : BOOLEAN]
    BY <1>2, <2>1, Zenon DEF Present
  <2>3. attempt' \in 1..Attempts + 1 /\ outcome' \in Outcome
    BY <1>2, MeshBoundAssumption DEF Outcome
  <2> QED
    BY <1>1, <1>2, <2>1, <2>2, <2>3 DEF ClusterTypeOK, MeshTypeOK
<1>8. ClusterTypeOK'
  <2>1. TasksOfPhase' /\ phase' \in Phases
    BY <1>2, Zenon DEF TasksOfPhase, PhaseTasks, Phases
  <2> QED
    BY <1>1, <1>2, <1>5, <1>7, <2>1 DEF ClusterTypeOK, Containers
<1>9. EnsureInv' /\ EnsureUndoable' /\ CleanInv'
  <2>1. (EnsureOrder /\ EnsureDone)'
    BY <1>2, OrderNext DEF Order, EnsureDone, Ended, EnsureTasks
  <2>2. EnsureWhole'
    BY <1>1, <1>2 DEF EnsureWhole, Ended, EnsureTasks, Whole, ClusterTypeOK,
        MeshTypeOK, MeshState
  <2>3. EnsureUndoable'
    BY <1>1, <1>2
       DEF EnsureUndoable, Ended, EnsureTasks, Present, Part, ClusterTypeOK, MeshTypeOK, MeshState
  <2> QED
    BY <1>2, <2>1, <2>2, <2>3 DEF EnsureInv, CleanInv
<1>10. JobFits'
  BY <1>1, <1>2, <1>4, <1>5 DEF JobFits, NodesOf
<1>11. RunsOrEnded' /\ ReadySpared' /\ CreateDone' /\ NothingFails'
  BY <1>2, <1>5 DEF RunsOrEnded, ReadySpared, CreateDone, NothingFails
<1>12. RemovalDone' /\ NamesKept'
  BY <1>2, <1>3, <1>5, <1>6 DEF RemovalDone, NamesKept
<1>13. ReadyIntact'
  BY <1>1, <1>2 DEF ReadyIntact, NodesOf
<1> QED
  BY <1>2, <1>8, <1>9, <1>10, <1>11, <1>12, <1>13, NoResultYet DEF ClusterInv,
      CommandInv

\* A delete begins: of a cluster, or of all that there are.  It takes the mesh
\* only when no cluster of a user stays.
LEMMA BeginRemovalKeeps ==
  ASSUME ClusterInv, Results, BeginDeleteAll \/ \E c \in Cluster : BeginDelete(c)
  PROVE  ClusterInv' /\ Results'
<1>1. /\ ClusterTypeOK /\ CommandInv /\ ReadyIntact
      /\ ready \subseteq Cluster /\ attached \subseteq Containers
  BY DEF ClusterInv, ClusterTypeOK
<1>2. PICK kind \in {"delete", "deleteAll"}, C \in SUBSET Cluster, removes \in BOOLEAN :
        /\ BeginRemoval(kind, C, removes)
        /\ kind = "delete" => (\E c \in Cluster : C = {c}) /\ (removes <=> ~HasOtherClusters(C))
        /\ kind = "deleteAll" => removes /\ C = {c \in Cluster : Exists(c)}
  <2>1. CASE BeginDeleteAll
    BY <2>1 DEF BeginDeleteAll
  <2>2. CASE \E c \in Cluster : BeginDelete(c)
    <3>1. PICK c \in Cluster : BeginRemoval("delete", {c}, ~HasOtherClusters({c}))
      BY <2>2 DEF BeginDelete
    <3>2. (~HasOtherClusters({c})) \in BOOLEAN
      BY Zenon
    <3>3. PICK r \in BOOLEAN : BeginRemoval("delete", {c}, r) /\ (r <=> ~HasOtherClusters({c}))
      BY <3>1, <3>2, Zenon
    <3> QED
      BY <3>3
  <2> QED
    BY <2>1, <2>2
<1>3. /\ phase' = "list" /\ todo' = {} /\ failed' = {} /\ outcome' = "none"
      /\ commands' \in 0..MaxCommands
      /\ target' = C /\ ready' = ready \ C
      /\ job' = [NoJob EXCEPT !.kind = kind, !.removes = removes, !.was = Registered]
      /\ UNCHANGED <<mesh, faults, created, attempt, before, clusters, nodes, attached>>
  BY <1>1, <1>2, MeshBoundAssumption
     DEF BeginRemoval, Begin, Enter, resources, ClusterTypeOK, MeshTypeOK
<1>4. /\ job' \in JobState
      /\ job'.kind = kind
      /\ job'.removes = removes
      /\ job'.found = {}
      /\ job'.since = 0
  <2>1. Registered \subseteq Name /\ 0 \in 0..MaxFaults
    BY <1>1, MeshBoundAssumption DEF Registered, ClusterTypeOK, MeshTypeOK, MeshState
  <2> QED
    BY <1>3, <2>1 DEF JobState, NoJob
<1>5. /\ Containers' = Containers
      /\ \A c : Exists(c)' <=> Exists(c)
      /\ HasOtherClusters(target)' <=> HasOtherClusters(C)
  BY <1>3 DEF Exists, NodesOf, Containers, HasOtherClusters
<1>6. removes => ready' = {}
  <2>1. CASE kind = "delete"
    <3>1. ASSUME removes, NEW c \in ready, c \notin C
          PROVE  FALSE
      <4>1. PICK n \in Name : clusterOf[n] = c
        BY <1>1, ClusterAssumption
      <4>2. n \in attached
        BY <1>1, <4>1 DEF ReadyIntact, NodesOf
      <4>3. n \in Containers \ NodesOf(C)
        BY <1>1, <3>1, <4>1, <4>2 DEF NodesOf
      <4> QED
        BY <1>2, <2>1, <3>1, <4>3 DEF HasOtherClusters
    <3> QED
      BY <1>3, <3>1
  <2>2. CASE kind = "deleteAll"
    <3>1. \A c \in ready : c \in Cluster /\ Exists(c)
      BY <1>1 DEF ReadyIntact, Exists
    <3> QED
      BY <1>2, <1>3, <2>2, <3>1
  <2> QED
    BY <2>1, <2>2
<1>7. ClusterTypeOK'
  <2>1. MeshTypeOK'
    BY <1>1, <1>3 DEF ClusterTypeOK, MeshTypeOK, Outcome
  <2>2. TasksOfPhase' /\ phase' \in Phases
    BY <1>3 DEF TasksOfPhase, Phases
  <2> QED
    BY <1>1, <1>3, <1>4, <2>1, <2>2 DEF ClusterTypeOK, Containers
<1>8. JobFits'
  <2>1. faults' \in Nat
    BY <1>1, <1>3 DEF ClusterTypeOK, MeshTypeOK
  <2> QED
    BY <1>2, <1>3, <1>4, <2>1 DEF JobFits
<1>9. RunsOrEnded' /\ ReadySpared' /\ CreateDone' /\ NamesKept' /\ NothingFails'
  BY <1>2, <1>3, <1>4, <1>6 DEF RunsOrEnded, ReadySpared, CreateDone, NamesKept,
      NothingFails
<1>10. RemovalDone'
  BY <1>2, <1>3, <1>4, <1>5 DEF RemovalDone
<1>11. ReadyIntact'
  BY <1>1, <1>3 DEF ReadyIntact, NodesOf
<1> QED
  BY <1>3, <1>7, <1>8, <1>9, <1>10, <1>11, OtherPhase, NoResultYet DEF ClusterInv,
      CommandInv

\* No command has run yet.
LEMMA InitKeeps ==
  ASSUME InitClusters
  PROVE  ClusterInv /\ Results
<1>1. /\ phase = "idle" /\ todo = {} /\ failed = {} /\ outcome = "none" /\ faults = 0
      /\ job = NoJob /\ ready = {} /\ target = {} /\ attached = {}
      /\ nodes = [n \in Name |-> "none"]
      /\ clusters = [c \in Cluster |-> [net |-> FALSE, vols |-> FALSE, joined |-> FALSE]]
      /\ mesh = [net |-> "none", dns |-> "none", corefile |-> FALSE, records |-> {},
                 vol |-> "none", hosts |-> {}, relay |-> "none"]
  BY DEF InitClusters, Init
<1>2. MeshTypeOK
  <2>1. mesh \in MeshState /\ created \in BOOLEAN
    BY DEF InitClusters, Init, MeshState, ContainerState
  <2>2. before \in [parts : SUBSET Part, whole : BOOLEAN]
    BY DEF InitClusters, Init
  <2> QED
    BY <2>1, <2>2, MeshBoundAssumption DEF InitClusters, Init, MeshTypeOK, Outcome
<1>3. ClusterTypeOK
  <2>1. job \in JobState /\ nodes \in [Name -> ContainerState]
    BY <1>1, MeshBoundAssumption DEF NoJob, JobState, ContainerState
  <2>2. clusters \in [Cluster -> [net : BOOLEAN, vols : BOOLEAN, joined : BOOLEAN]]
    BY <1>1
  <2>3. TasksOfPhase /\ phase \in Phases
    BY <1>1 DEF TasksOfPhase, Phases
  <2>4. mesh.net = "none" /\ \A c \in Cluster : ~clusters[c].joined
    BY <1>1
  <2> QED
    BY <1>1, <1>2, <2>1, <2>2, <2>3, <2>4 DEF ClusterTypeOK
<1>4. JobFits
  BY <1>1 DEF JobFits, NoJob
<1>5. /\ RunsOrEnded
      /\ EnsureInv
      /\ EnsureUndoable
      /\ CleanInv
      /\ ReadySpared
      /\ CreateDone
  BY <1>1 DEF RunsOrEnded, EnsureInv, EnsureUndoable, CleanInv, ReadySpared, CreateDone
<1>6. RemovalDone /\ NamesKept /\ NothingFails
  BY <1>1 DEF RemovalDone, NamesKept, NothingFails, NoJob
<1>7. ReadyIntact /\ Results
  BY <1>1 DEF ReadyIntact, Results, DeleteEmpties, FailedCreateUndone, NextCreateWorks
<1> QED
  BY <1>3, <1>4, <1>5, <1>6, <1>7 DEF ClusterInv, CommandInv

\* Nothing changes.
LEMMA StutterKeeps ==
  ASSUME ClusterInv, Results, UNCHANGED allVars
  PROVE  ClusterInv' /\ Results'
<1>1. UNCHANGED <<mesh, phase, todo, failed, created, attempt, before, outcome, faults, commands,
                  clusters, nodes, attached, target, job, ready>>
  BY DEF allVars, vars, commandVars, clusterVars, resources
<1>2. ClusterTypeOK'
  <2>1. MeshTypeOK'
    BY <1>1 DEF ClusterInv, ClusterTypeOK, MeshTypeOK
  <2>2. PhaseTasks' = PhaseTasks
    BY <1>1, Zenon DEF PhaseTasks, NodesOf
  <2>3. TasksOfPhase'
    BY <1>1, <2>2 DEF ClusterInv, ClusterTypeOK, TasksOfPhase
  <2> QED
    BY <1>1, <2>1, <2>3 DEF ClusterInv, ClusterTypeOK, Containers
<1>3. (RunsOrEnded /\ EnsureInv /\ EnsureUndoable /\ CleanInv)'
  BY <1>1 DEF ClusterInv, CommandInv, RunsOrEnded, EnsureInv, EnsureOrder,
      EnsureDone, EnsureWhole,
    EnsureUndoable, CleanInv, Ended, Present
<1>4. (JobFits /\ ReadySpared)'
  BY <1>1 DEF ClusterInv, CommandInv, JobFits, ReadySpared, NodesOf, Ended
<1>5. CreateDone'
  BY <1>1 DEF ClusterInv, CommandInv, CreateDone, NodesOf, Containers, Ended
<1>6. RemovalDone'
  BY <1>1
     DEF ClusterInv, CommandInv, RemovalDone, NodesOf, Containers, Ended, Exists, HasOtherClusters
<1>7. (NamesKept /\ NothingFails)'
  BY <1>1 DEF ClusterInv, CommandInv, NamesKept, NothingFails, NodesOf,
      Containers, Ended, Registered
<1>8. ReadyIntact'
  BY <1>1 DEF ClusterInv, ReadyIntact, NodesOf
<1>9. Results'
  BY <1>1 DEF Results, DeleteEmpties, FailedCreateUndone, NextCreateWorks,
      Registered, Present,
    Containers, NodesOf, Exists
<1> QED
  BY <1>2, <1>3, <1>4, <1>5, <1>6, <1>7, <1>8, <1>9 DEF ClusterInv, CommandInv

\* EnsureMesh's steps, where the phase allows them.
LEMMA MeshStepKeeps ==
  ASSUME ClusterInv, Results, MeshStep
  PROVE  ClusterInv' /\ Results'
<1>1. ClusterTypeOK
  BY DEF ClusterInv
<1>2. UNCHANGED clusterVars
  BY DEF MeshStep
<1>3. CASE RemoveDNS \/ RemoveVolume
  BY <1>2, <1>3, CleanKeeps
<1>4. CASE EnsureFails
  BY <1>2, <1>4, EnsureFailsKeeps
<1>5. CASE EnsureStep
  <2>1. \E t \in EnsureTasks : t \in todo
    BY <1>5 DEF EnsureStep, NetworkExists, CreateNetwork, KeepNetwork,
        RemovePlain, PinNetwork,
      PinnedByOther, SubnetTaken, DNSExists, CreateDNS, WriteCorefile, DNSRuns, StartDNS,
      StartedDNSUnseen, VolumeExists, CreateVolume, RelayExists, CreateRelay, WriteKeys,
      RelayRuns, StartRelay, Skip, Does, SetsNetwork, Open, EnsureTasks
  <2>2. phase \in {"ensure", "wake"}
    BY <1>1, <2>1, PhaseFits
  <2> QED
    BY <1>2, <1>5, <2>2, EnsureKeeps, WakeKeeps
<1> QED
  BY <1>3, <1>4, <1>5 DEF MeshStep

\* Every step keeps what the commands rely on, and the results hold.
LEMMA ClusterStep ==
  ASSUME ClusterInv, Results, [NextCluster]_allVars
  PROVE  ClusterInv' /\ Results'
<1>1. CASE CreateStep
  <2>1. CASE CreateClusterNetwork \/ JoinRelay \/ CreateClusterVolumes
    BY <2>1, SetsClusterKeeps
  <2>2. CASE ResolveInfra \/ EnableSlurm
    BY <2>2, StillKeeps
  <2>3. CASE \E n \in Name : CreateNode(n) \/ StartNode(n)
    BY <2>3, NodeStepKeeps
  <2> QED
    BY <1>1, <2>1, <2>2, <2>3, PrepareKeeps, PreflightKeeps, PreparedKeeps,
        RegisterKeeps,
       CreateEndsKeeps
       DEF CreateStep
<1>2. CASE RemovalStep
  BY <1>2, CreateFailsKeeps, RollbackKeeps, ListKeeps, StillKeeps, WakeOverKeeps,
      DropKeeps,
     DropOverKeeps, RemoveKeeps, RemovalOverKeeps, CleanupOverKeeps
     DEF RemovalStep
<1>3. CASE CommandStep
  BY <1>1, <1>2, <1>3, MeshStepKeeps, CleanKeeps, StillKeeps DEF CommandStep
<1>4. CASE Mishap
  BY <1>4, StillKeeps, CleanKeeps, AskFailsKeeps, StopKeeps DEF Mishap
<1>5. CASE BeginDeleteAll \/ \E c \in Cluster : BeginCreate(c) \/ BeginDelete(c)
  BY <1>5, BeginCreateKeeps, BeginRemovalKeeps
<1> QED
  BY <1>3, <1>4, <1>5, StutterKeeps DEF NextCluster

\* What a command has seen to holds in every state, and a cluster that create
\* gave to its user stays whole.
THEOREM ClusterInvHolds == SpecClusters => []ClusterInv
<1>1. InitClusters => ClusterInv /\ Results
  BY InitKeeps
<1>2. ClusterInv /\ Results /\ [NextCluster]_allVars => (ClusterInv /\ Results)'
  BY ClusterStep
<1> QED
  BY <1>1, <1>2, PTL DEF SpecClusters

\* The results, from the same induction.
LEMMA ResultsHold == SpecClusters => []Results
<1>1. InitClusters => ClusterInv /\ Results
  BY InitKeeps
<1>2. ClusterInv /\ Results /\ [NextCluster]_allVars => (ClusterInv /\ Results)'
  BY ClusterStep
<1> QED
  BY <1>1, <1>2, PTL DEF SpecClusters

\* A delete that ends without an error leaves nothing of its clusters, and
\* nothing of the mesh without a container.
THEOREM DeleteEmptiesHolds == SpecClusters => []DeleteEmpties
<1>1. Results => DeleteEmpties
  BY DEF Results
<1> QED
  BY <1>1, ResultsHold, PTL

\* A failed create without a warning leaves nothing that was not there.
THEOREM FailedCreateUndoneHolds == SpecClusters => []FailedCreateUndone
<1>1. Results => FailedCreateUndone
  BY DEF Results
<1> QED
  BY <1>1, ResultsHold, PTL

\* A create that meets no fault of its own, and nothing of its cluster, works,
\* whatever earlier commands left of a whole mesh.
THEOREM NextCreateWorksHolds == SpecClusters => []NextCreateWorks
<1>1. Results => NextCreateWorks
  BY DEF Results
<1> QED
  BY <1>1, ResultsHold, PTL
=============================================================================

--------------------------- MODULE ServicesProofs ---------------------------
(***************************************************************************)
(* Proofs about five of the parts that the services run takes together,    *)
(* for any nodes, clusters, addresses, containers and tabs, and any faults:*)
(*   - a command that sind ui starts loses no more than its dialog said,   *)
(*     of what its user typed (Actions);                                   *)
(*   - the names of the nodes stand for their addresses, and a sind power  *)
(*     without an error has started them (NodePower), whatever the         *)
(*     unlocked commands do between the steps of the locked one;           *)
(*   - those who join a cluster that has nodes are on the mesh, and those  *)
(*     on the mesh at every such cluster or told of (External);            *)
(*   - what sind status and get answer was so at some moment of the query, *)
(*     and while nothing changes it is the cluster (Queries);              *)
(*   - whatever the store holds, the pages of sind ui say the same of a    *)
(*     node and a cluster, and offer no fix that is then refused           *)
(*     (NodePages).                                                        *)
(***************************************************************************)
EXTENDS Actions, NodePages, FiniteSetTheorems, TLAPS

CONSTANTS clusterOf, Addr, None, MaxFaults, MaxCommands, MaxSwitches
VARIABLES nodes, records, dns, relay, power, told, used

P == INSTANCE NodePower

CONSTANTS Ext, MaxExtFaults, MaxExtCommands
VARIABLES networks, whole, mesh, joined, ext, behind, extUsed

E == INSTANCE External

CONSTANTS Primary, Backup, MaxChanges, MaxQueryFaults
VARIABLES slurm, beat, net, changes, query

Q == INSTANCE Queries

-----------------------------------------------------------------------------
(* The actions of sind ui (Actions).                                       *)

\* A delete of something has a word to type.
LEMMA DeleteHasWord ==
  ASSUME NEW f \in Kept, Deletes(f), f.on # {}
  PROVE  Want(f) # NoWord
<1>1. \A x, y : <<x, y>> # NoWord
  BY DEF NoWord
<1>2. CASE f.op = "delete-cluster"
  BY <1>1, <1>2 DEF Want
<1>3. CASE f.op = "delete-clusters"
  BY <1>1, <1>3 DEF Want
<1>4. CASE f.op = "delete-realm"
  BY <1>1, <1>4 DEF Want
<1> QED
  BY <1>2, <1>3, <1>4 DEF Deletes

\* The parts of a delete of several clusters are deletes of these clusters.
LEMMA PartsOf ==
  ASSUME IsFiniteSet(Cluster), NEW f \in Kept, NEW i \in 1..Cardinality(f.on)
  PROVE  /\ Parts(f)[i] \in Kept /\ Parts(f)[i].op = "delete-cluster"
         /\ Parts(f)[i].on \subseteq f.on /\ Parts(f)[i].on # {}
         /\ f.on # {}
<1>1. f.on \subseteq Cluster /\ IsFiniteSet(f.on)
  BY FS_Subset DEF Kept
<1>2. f.on # {}
  BY FS_EmptySet
<1> DEFINE n == Cardinality(f.on)
<1>3. ExistsBijection(1..n, f.on)
  BY <1>1, FS_CardinalityType
<1>4. \E g \in [1..n -> f.on] : IsInjective(g)
  BY <1>3 DEF ExistsBijection, Bijection, Injection, IsInjective, Surjection
<1>5. SetToSeq(f.on) \in [1..n -> f.on]
  BY <1>4 DEF SetToSeq, IsInjective
<1>6. SetToSeq(f.on)[i] \in f.on
  BY <1>5
<1>7. Parts(f)[i] = FormOf("delete-cluster", {SetToSeq(f.on)[i]}, {}, NoConf)
  BY DEF Parts
<1> QED
  BY <1>1, <1>2, <1>6, <1>7 DEF FormOf, Kept, Ops

\* What goes with a part goes with the whole.
LEMMA PartLosses ==
  ASSUME NEW f, NEW g, Deletes(f), g.on \subseteq f.on
  PROVE  Losses(g) \subseteq Losses(f)
BY DEF Losses, Goes

\* The data volumes are of sind ui's clusters.
LEMMA LossesType ==
  ASSUME NEW f \in Kept
  PROVE  Goes(f) \in SUBSET Cluster /\ Losses(f) \in SUBSET Cluster
BY DEF Losses, Goes, Kept

\* A task whose plan could be made and whose losses were shown says of every
\* data volume that goes what it must: only delete realm takes those of
\* clusters that are not listed.
LEMMA TaskTold ==
  ASSUME NEW f \in Kept, Fits(f), NEW ack, NEW lost, NEW typed, Losses(f) \subseteq lost
  PROVE  Told(TaskOf(f, ack, lost, typed))
<1>1. CASE f.op = "delete-realm"
  BY <1>1 DEF Told, TaskOf
<1>2. CASE f.op \in {"delete-cluster", "delete-clusters"}
  <2>1. \A c \in f.on : Seen(c)
    BY <1>2 DEF Fits
  <2>2. Goes(f) = Losses(f)
    BY <2>1 DEF Losses, Goes
  <2> QED
    BY <2>2 DEF Told, TaskOf
<1>3. CASE ~Deletes(f)
  BY <1>3 DEF Told, TaskOf, Goes
<1> QED
  BY <1>1, <1>2, <1>3 DEF Deletes

\* A form that is filled in is one that is kept.
LEMMA FormsKept ==
  ASSUME NEW f \in Forms
  PROVE  f \in Kept /\ OfOne(f)
BY DEF Forms, FormOf, Kept, Ops, OfOne, RealmClusters

GoodDialog(d) == d \in Dialog(d) /\ OfOne(d.form)
GoodTask(k) == k \in Task /\ OfOne(k.form) /\ Told(k) /\ Typed(k)

LEMMA InvIs ==
  ActionsInv <=> /\ world \in [Cluster -> State] /\ snap \in Store
                 /\ DOMAIN tabs = Tab /\ \A u \in Tab : GoodDialog(tabs[u])
                 /\ saved \in [{nameOf[c] : c \in Cluster} -> File]
                 /\ tasks \in Seq(Task) /\ \A i \in DOMAIN tasks : GoodTask(tasks[i])
BY DEF ActionsInv, ActTypeOK, CreatesOne, LossesTold, DeletesTyped, GoodDialog, GoodTask

\* One dialog changes, and keeps its type.
LEMMA TabStep ==
  ASSUME ActionsInv, NEW t \in Tab, NEW d, GoodDialog(d), SetTab(t, d)
  PROVE  DOMAIN tabs' = Tab /\ \A u \in Tab : GoodDialog(tabs'[u])
<1>1. tabs' = [tabs EXCEPT ![t] = d] /\ DOMAIN tabs = Tab
  BY DEF SetTab, ActionsInv, ActTypeOK
<1>2. \A u \in Tab : GoodDialog(tabs[u])
  BY DEF ActionsInv, ActTypeOK, CreatesOne, GoodDialog
<1> QED
  BY <1>1, <1>2

\* A task starts with its file.
LEMMA StartStep ==
  ASSUME ActionsInv, NEW f \in Kept, OfOne(f), NEW ack \in BOOLEAN,
         NEW lost \in SUBSET Cluster, NEW typed \in BOOLEAN, NEW o,
         StartOne(f, ack, lost, typed, o), Fits(f), Losses(f) \subseteq lost,
         Want(f) # NoWord => typed
  PROVE  /\ saved' \in [{nameOf[c] : c \in Cluster} -> File]
         /\ tasks' \in Seq(Task) /\ \A i \in DOMAIN tasks' : GoodTask(tasks'[i])
<1> DEFINE k == TaskOf(f, ack, lost, typed)
<1>1. /\ saved \in [{nameOf[c] : c \in Cluster} -> File]
      /\ tasks \in Seq(Task) /\ \A i \in DOMAIN tasks : GoodTask(tasks[i])
  BY InvIs
<1>2. saved' \in [{nameOf[c] : c \in Cluster} -> File]
  <2> DEFINE name == CHOOSE n \in {nameOf[c] : c \in f.on} : TRUE
             realm == CHOOSE r \in {realmOf[c] : c \in f.on} : TRUE
  <2>1. saved' = IF f.op = "create-cluster" /\ o # "nofile"
                 THEN [saved EXCEPT ![name] = [conf |-> f.conf, realm |-> realm]] ELSE saved
    BY DEF StartOne
  <2>2. CASE f.op = "create-cluster"
    <3>1. PICK c \in Cluster : f.on = {c}
      BY <2>2 DEF OfOne
    <3>2. realm = realmOf[c]
      BY <3>1
    <3>3. realm \in Realm
      BY <3>2 DEF Realm
    <3> HIDE DEF realm
    <3>4. [conf |-> f.conf, realm |-> realm] \in File
      BY <3>3 DEF File, Kept
    <3> QED
      BY <1>1, <2>1, <3>4
  <2> QED
    BY <1>1, <2>1, <2>2
<1>3. tasks' = tasks \/ tasks' = Append(tasks, k)
  BY DEF StartOne
<1>4. GoodTask(k)
  <2>1. Told(k)
    BY TaskTold
  <2> QED
    BY <2>1, LossesType DEF GoodTask, TaskOf, Typed, Task, File
<1> HIDE DEF k
<1>5. k \in Task
  BY <1>4 DEF GoodTask
<1>6. CASE tasks' = tasks
  BY <1>1, <1>2, <1>6
<1>7. CASE tasks' = Append(tasks, k)
  <2>1. tasks' \in Seq(Task) /\ Len(tasks') = Len(tasks) + 1
    BY <1>1, <1>5, <1>7
  <2>2. \A i \in 1..Len(tasks) : tasks'[i] = tasks[i]
    BY <1>1, <1>7
  <2>3. tasks'[Len(tasks) + 1] = k
    BY <1>1, <1>7
  <2> QED
    BY <1>1, <1>2, <1>4, <2>1, <2>2, <2>3
<1> QED
  BY <1>3, <1>6, <1>7

\* Every step keeps the invariant.
LEMMA ActionsStep ==
  ASSUME IsFiniteSet(Cluster), ActionsInv, [ActNext]_actVars
  PROVE  ActionsInv'
<1>1. /\ world \in [Cluster -> State] /\ snap \in Store
      /\ DOMAIN tabs = Tab /\ \A u \in Tab : GoodDialog(tabs[u])
      /\ saved \in [{nameOf[c] : c \in Cluster} -> File]
      /\ tasks \in Seq(Task) /\ \A i \in DOMAIN tasks : GoodTask(tasks[i])
  BY InvIs
<1>2. ASSUME world' \in [Cluster -> State], snap' \in Store,
             DOMAIN tabs' = Tab, \A u \in Tab : GoodDialog(tabs'[u]),
             saved' \in [{nameOf[c] : c \in Cluster} -> File],
             tasks' \in Seq(Task), \A i \in DOMAIN tasks' : GoodTask(tasks'[i])
      PROVE  ActionsInv'
  BY <1>2 DEF ActionsInv, ActTypeOK, CreatesOne, LossesTold, DeletesTyped, GoodDialog, GoodTask
<1>3. ASSUME NEW f \in Kept
      PROVE  /\ DOMAIN Evaluate(f) = {"cmd", "ack"}
             /\ Evaluate(f) \in [cmd : {Evaluate(f).cmd}, ack : SUBSET Cluster]
  BY LossesType DEF Evaluate, Fingerprint, NoPlan
<1>4. ASSUME NEW t \in Tab, Open(t)
      PROVE  ActionsInv'
  <2>4. PICK f \in Forms :
          SetTab(t, [Closed EXCEPT !.form = IF f.op = "delete-clusters"
                                            THEN [f EXCEPT !.on = {c \in @ : Seen(c)}] ELSE f])
    BY <1>4 DEF Open
  <2> DEFINE g == IF f.op = "delete-clusters" THEN [f EXCEPT !.on = {c \in @ : Seen(c)}] ELSE f
  <2>1. SetTab(t, [Closed EXCEPT !.form = g]) /\ UNCHANGED <<world, snap, saved, tasks, moves>>
    BY <1>4, <2>4 DEF Open
  <2>2. g \in Kept /\ OfOne(g)
    BY FormsKept DEF Kept, OfOne
  <2> HIDE DEF g
  <2>3. GoodDialog([Closed EXCEPT !.form = g])
    BY <2>2 DEF GoodDialog, Dialog, Closed, NoPlan
  <2> QED
    BY <1>1, <1>2, <2>1, <2>3, TabStep
<1>5. ASSUME NEW t \in Tab, Edit(t)
      PROVE  ActionsInv'
  <2>1. UNCHANGED <<world, snap, saved, tasks, moves>>
    BY <1>5 DEF Edit
  <2>2. GoodDialog(tabs[t])
    BY <1>1
  <2>3. PICK d : SetTab(t, d) /\ GoodDialog(d)
    <3>1. ASSUME NEW k \in Conf
          PROVE  GoodDialog([tabs[t] EXCEPT !.form.conf = k])
      BY <2>2 DEF GoodDialog, Dialog, Kept, OfOne
    <3>2. ASSUME NEW W \in SUBSET Worker
          PROVE  GoodDialog([tabs[t] EXCEPT !.form.workers = W])
      BY <2>2 DEF GoodDialog, Dialog, Kept, OfOne
    <3>3. ASSUME NEW word
          PROVE  GoodDialog([tabs[t] EXCEPT !.word = word])
      BY <2>2 DEF GoodDialog, Dialog
    <3>4. GoodDialog([tabs[t] EXCEPT !.ack = TRUE])
      BY <2>2 DEF GoodDialog, Dialog
    <3> QED
      BY <1>5, <3>1, <3>2, <3>3, <3>4 DEF Edit
  <2> QED
    BY <1>1, <1>2, <2>1, <2>3, TabStep
<1>6. ASSUME NEW t \in Tab, GoodDialog(tabs[t])
      PROVE  GoodDialog([tabs[t] EXCEPT !.shown = Evaluate(tabs[t].form)])
  <2>1. tabs[t].form \in Kept
    BY <1>6 DEF GoodDialog, Dialog
  <2> QED
    BY <1>3, <1>6, <2>1 DEF GoodDialog, Dialog
<1>7. ASSUME NEW t \in Tab, Preview(t)
      PROVE  ActionsInv'
  <2>1. /\ SetTab(t, [tabs[t] EXCEPT !.shown = Evaluate(tabs[t].form)])
        /\ UNCHANGED <<world, snap, saved, tasks, moves>>
    BY <1>7 DEF Preview
  <2> QED
    BY <1>1, <1>2, <1>6, <2>1, TabStep
<1>8. GoodDialog(Closed)
  BY DEF GoodDialog, Dialog, Closed, NoForm, NoPlan, FormOf, Kept, Ops, OfOne
<1>9. ASSUME NEW t \in Tab, Close(t)
      PROVE  ActionsInv'
  BY <1>1, <1>2, <1>8, <1>9, TabStep DEF Close
<1>10. ASSUME NEW t \in Tab, Run(t)
       PROVE  ActionsInv'
  <2> DEFINE d == tabs[t]
             f == d.form
             again == [d EXCEPT !.shown = Evaluate(f)]
             known == IF d.ack THEN d.shown.ack ELSE {}
             typed == d.word = Want(f)
  <2>1. UNCHANGED <<world, snap>> /\ GoodDialog(d) /\ GoodDialog(again)
    BY <1>1, <1>6, <1>10 DEF Run
  <2>2. f \in Kept /\ OfOne(f) /\ known \in SUBSET Cluster /\ typed \in BOOLEAN
    BY <2>1 DEF GoodDialog, Dialog
  <2>3. CASE Blocked(f, d.word, d.ack) \/ ~AsShown(d.shown, f)
    <3>1. SetTab(t, again) /\ UNCHANGED <<saved, tasks>>
      BY <1>10, <2>3 DEF Run
    <3> QED
      BY <1>1, <1>2, <2>1, <3>1, TabStep
  <2>4. CASE ~Blocked(f, d.word, d.ack) /\ AsShown(d.shown, f)
    <3>1. Losses(f) \subseteq known /\ Fits(f)
      BY <2>4 DEF Blocked, Acked, AsShown, Fingerprint
    <3>2. Want(f) # NoWord => typed
      BY <2>4 DEF Blocked, Confirmed
    <3>3. CASE f.op = "delete-clusters"
      <4>1. PICK n \in 0..Cardinality(f.on) :
              /\ StartParts(f, n, known, typed)
              /\ SetTab(t, IF n = Cardinality(f.on) THEN Closed ELSE again)
        BY <1>10, <2>4, <3>3 DEF Run
      <4>2. n \in Nat /\ n <= Cardinality(f.on)
        <5>1. Cardinality(f.on) \in Nat
          BY <2>2, FS_Subset, FS_CardinalityType DEF Kept
        <5> QED
          BY <5>1
      <4> HIDE DEF known, typed, again
      <4> DEFINE new == [j \in 1..n |-> TaskOf(Parts(f)[j], FALSE, known, typed)]
      <4>3. tasks' = tasks \o new /\ UNCHANGED saved
        BY <4>1 DEF StartParts
      <4>4. ASSUME NEW j \in 1..n
            PROVE  GoodTask(new[j])
        <5> DEFINE g == Parts(f)[j]
        <5>1. j \in 1..Cardinality(f.on)
          BY <2>2, <4>2, FS_Subset, FS_CardinalityType DEF Kept
        <5>2. /\ g \in Kept /\ g.op = "delete-cluster" /\ g.on \subseteq f.on /\ g.on # {}
              /\ f.on # {}
          BY <2>2, <5>1, PartsOf
        <5>3. Losses(g) \subseteq known
          BY <2>2, <3>1, <3>3, <5>2, PartLosses DEF Deletes
        <5>4. typed
          BY <2>2, <3>2, <3>3, <5>2, DeleteHasWord DEF Deletes
        <5>5. new[j] = TaskOf(g, FALSE, known, typed)
          OBVIOUS
        <5> HIDE DEF g
        <5>6. Fits(g)
          BY <3>1, <3>3, <5>2 DEF Fits
        <5>7. Told(new[j])
          BY <5>2, <5>3, <5>5, <5>6, TaskTold
        <5> QED
          BY <2>2, <5>2, <5>4, <5>5, <5>7, LossesType
            DEF GoodTask, TaskOf, Typed, Task, File, OfOne
      <4>5. new \in Seq(Task)
        <5>1. \A j \in 1..n : new[j] \in Task
          BY <4>4 DEF GoodTask
        <5>2. new = [j \in 1..n |-> new[j]]
          OBVIOUS
        <5> HIDE DEF new
        <5>3. new \in [1..n -> Task]
          BY <5>1, <5>2
        <5> QED
          BY <4>2, <5>3
      <4> HIDE DEF new
      <4>6. tasks' \in Seq(Task) /\ \A j \in DOMAIN tasks' : GoodTask(tasks'[j])
        <5>1. Len(new) = n
          BY <4>2 DEF new
        <5> QED
          BY <1>1, <4>2, <4>3, <4>4, <4>5, <5>1
      <4>7. DOMAIN tabs' = Tab /\ \A u \in Tab : GoodDialog(tabs'[u])
        BY <1>8, <2>1, <4>1, TabStep
      <4> QED
        BY <1>1, <1>2, <2>1, <4>3, <4>6, <4>7
    <3>4. CASE f.op # "delete-clusters"
      <4>1. PICK o \in {"ok", "nofile", "nostart"} :
              /\ StartOne(f, d.ack, known, typed, o)
              /\ SetTab(t, IF o = "ok" THEN Closed ELSE again)
        BY <1>10, <2>4, <3>4 DEF Run
      <4>2. d.ack \in BOOLEAN
        BY <2>1 DEF GoodDialog, Dialog
      <4> HIDE DEF known, typed, again
      <4>3. /\ saved' \in [{nameOf[c] : c \in Cluster} -> File]
            /\ tasks' \in Seq(Task) /\ \A i \in DOMAIN tasks' : GoodTask(tasks'[i])
        BY <2>2, <3>1, <3>2, <4>1, <4>2, StartStep
      <4>4. DOMAIN tabs' = Tab /\ \A u \in Tab : GoodDialog(tabs'[u])
        BY <1>8, <2>1, <4>1, TabStep
      <4> QED
        BY <1>1, <1>2, <2>1, <4>3, <4>4
    <3> QED
      BY <3>3, <3>4
  <2> QED
    BY <2>3, <2>4
<1>11. ASSUME NEW t \in Tab, NEW i \in DOMAIN tasks, Retry(t, i)
       PROVE  ActionsInv'
  <2> DEFINE f == tasks[i].form
             ack == tasks[i].ack
  <2>1. UNCHANGED <<world, snap>> /\ f \in Kept /\ ack \in BOOLEAN /\ OfOne(f)
    BY <1>1, <1>11 DEF Retry, GoodTask, Task
  <2>2. CASE Blocked(f, KeptWord(tasks[i]), ack)
    <3>1. SetTab(t, [Closed EXCEPT !.form = f, !.ack = ack]) /\ UNCHANGED <<saved, tasks>>
      BY <1>11, <2>2 DEF Retry
    <3>2. GoodDialog([Closed EXCEPT !.form = f, !.ack = ack])
      BY <2>1 DEF GoodDialog, Dialog, Closed, NoPlan
    <3> QED
      BY <1>1, <1>2, <2>1, <3>1, <3>2, TabStep
  <2>3. CASE ~Blocked(f, KeptWord(tasks[i]), ack)
    <3>1. PICK o \in {"ok", "nofile", "nostart"} : StartOne(f, ack, {}, FALSE, o)
      BY <1>11, <2>3 DEF Retry
    <3>2. Want(f) = NoWord /\ Fits(f)
      BY <2>3 DEF Blocked, Confirmed, KeptWord
    <3>3. Losses(f) = {}
      BY <2>1, <3>2, DeleteHasWord DEF Losses, Goes
    <3>4. /\ saved' \in [{nameOf[c] : c \in Cluster} -> File]
          /\ tasks' \in Seq(Task) /\ \A j \in DOMAIN tasks' : GoodTask(tasks'[j])
      BY <2>1, <3>1, <3>2, <3>3, StartStep
    <3> QED
      BY <1>1, <1>2, <1>11, <2>1, <2>3, <3>4 DEF Retry
  <2> QED
    BY <2>2, <2>3
<1>12. ASSUME NEW i \in DOMAIN tasks, NEW k \in Task, GoodTask(k),
              tasks' = [tasks EXCEPT ![i] = k]
       PROVE  tasks' \in Seq(Task) /\ \A j \in DOMAIN tasks' : GoodTask(tasks'[j])
  BY <1>1, <1>12
<1>13. ASSUME NEW i \in DOMAIN tasks, ReadsConfig(i)
       PROVE  ActionsInv'
  <2> DEFINE name == CHOOSE n \in {nameOf[c] : c \in tasks[i].form.on} : TRUE
             k == [tasks[i] EXCEPT !.at = "read", !.got = saved[name]]
  <2>1. tasks[i].form.op = "create-cluster" /\ UNCHANGED <<world, snap, tabs, saved>>
    BY <1>13 DEF ReadsConfig
  <2>2. tasks' = [tasks EXCEPT ![i] = k]
    <3> DEFINE read == [tasks EXCEPT ![i].at = "read"]
    <3>1. tasks' = [read EXCEPT ![i].got = saved[name]]
      BY <1>13 DEF ReadsConfig
    <3> HIDE DEF name
    <3>2. read[i] = [tasks[i] EXCEPT !.at = "read"]
      BY <1>1
    <3> QED
      BY <1>1, <3>1, <3>2
  <2>3. GoodTask(tasks[i])
    BY <1>1
  <2>4. saved[name] \in File
    <3>1. PICK c \in Cluster : tasks[i].form.on = {c}
      BY <2>1, <2>3 DEF GoodTask, OfOne
    <3>2. name = nameOf[c]
      BY <3>1
    <3> QED
      BY <1>1, <3>2
  <2> HIDE DEF name
  <2>5. GoodTask(k) /\ k \in Task
    BY <2>3, <2>4 DEF GoodTask, Task, OfOne, Told, Typed
  <2> HIDE DEF k
  <2> QED
    BY <1>1, <1>2, <1>12, <2>1, <2>2, <2>5
<1>14. ASSUME NEW i \in DOMAIN tasks, Ends(i)
       PROVE  ActionsInv'
  <2> DEFINE f == tasks[i].form
             k == [tasks[i] EXCEPT !.at = "ended"]
  <2>1. UNCHANGED <<snap, tabs, saved>> /\ tasks' = [tasks EXCEPT ![i] = k]
    BY <1>14 DEF Ends, SetTask
  <2>2. GoodTask(tasks[i])
    BY <1>1
  <2>3. GoodTask(k) /\ k \in Task
    BY <2>2 DEF GoodTask, Task, OfOne, Told, Typed
  <2>4. world' \in [Cluster -> State]
    <3>1. ASSUME NEW c \in Cluster
          PROVE  Leaves(c) \subseteq State
      <4>1. world[c] \in State
        BY <1>1
      <4>2. \A W \in SUBSET world[c].workers : [world[c] EXCEPT !.workers = W] \in State
        BY <4>1 DEF State
      <4>3. Left(world[c].data) \in State /\ Left(FALSE) \in State
        BY <4>1 DEF Left, State
      <4> QED
        BY <4>2, <4>3 DEF Leaves
    <3>2. CASE UNCHANGED world
      BY <1>1, <3>2
    <3>3. ASSUME NEW d \in State,
                 world' = [c \in Cluster |-> IF c \in Target(i) THEN d ELSE world[c]]
          PROVE  world' \in [Cluster -> State]
      BY <1>1, <3>3
    <3>4. ASSUME NEW vol \in BOOLEAN
          PROVE  Made(vol, {}) \in State /\ Left(vol) \in State
      BY DEF Made, Left, State
    <3>5. ASSUME NEW d, \A c \in f.on : d[c] \in Leaves(c),
                 world' = [c \in Cluster |-> IF c \in f.on THEN d[c] ELSE world[c]]
          PROVE  world' \in [Cluster -> State]
      BY <1>1, <3>1, <3>5
    <3>6. ASSUME NEW c \in Cluster, NEW W \in SUBSET Worker,
                 world' = [world EXCEPT ![c].workers = W]
          PROVE  world' \in [Cluster -> State]
      <4> DEFINE d == [world[c] EXCEPT !.workers = W]
      <4>1. d \in State
        BY <1>1 DEF State
      <4>2. world' = [world EXCEPT ![c] = d]
        BY <1>1, <3>6
      <4> HIDE DEF d
      <4> QED
        BY <1>1, <4>1, <4>2
    <3>7. CASE \E c \in f.on, w \in Worker :
                 f.op = "create-worker" /\ world[c].there
                   /\ world' = [world EXCEPT ![c].workers = @ \cup {w}]
      <4>1. PICK c \in f.on, w \in Worker : world' = [world EXCEPT ![c].workers = @ \cup {w}]
        BY <3>7
      <4>2. c \in Cluster
        BY <2>2 DEF GoodTask, Task, Kept
      <4>3. world[c].workers \cup {w} \in SUBSET Worker
        BY <1>1, <4>2 DEF State
      <4>4. world' = [world EXCEPT ![c].workers = world[c].workers \cup {w}]
        BY <1>1, <4>1, <4>2
      <4> QED
        BY <3>6, <4>2, <4>3, <4>4
    <3>8. CASE \E c \in f.on, W \in SUBSET f.workers :
                 f.op = "delete-worker" /\ world' = [world EXCEPT ![c].workers = @ \ W]
      <4>1. PICK c \in f.on, W \in SUBSET f.workers :
              world' = [world EXCEPT ![c].workers = @ \ W]
        BY <3>8
      <4>2. c \in Cluster
        BY <2>2 DEF GoodTask, Task, Kept
      <4>3. world[c].workers \ W \in SUBSET Worker
        BY <1>1, <4>2 DEF State
      <4>4. world' = [world EXCEPT ![c].workers = world[c].workers \ W]
        BY <1>1, <4>1, <4>2
      <4> QED
        BY <3>6, <4>2, <4>3, <4>4
    <3>9. CASE \E d \in {Made(tasks[i].got.conf \in Volume, {}), Left(tasks[i].got.conf \in Volume)} :
                 world' = [c \in Cluster |-> IF c \in Target(i) THEN d ELSE world[c]]
      <4> DEFINE vol == tasks[i].got.conf \in Volume
      <4>1. vol \in BOOLEAN
        OBVIOUS
      <4>2. PICK d \in {Made(vol, {}), Left(vol)} :
              world' = [c \in Cluster |-> IF c \in Target(i) THEN d ELSE world[c]]
        BY <3>9
      <4> HIDE DEF vol
      <4>3. d \in State
        BY <3>4, <4>1, <4>2
      <4> QED
        BY <3>3, <4>2, <4>3
    <3>10. CASE \E d \in [f.on -> UNION {Leaves(c) : c \in f.on}] :
                  /\ \A c \in f.on : d[c] \in Leaves(c)
                  /\ world' = [c \in Cluster |-> IF c \in f.on THEN d[c] ELSE world[c]]
      BY <3>5, <3>10
    <3> QED
      BY <1>14, <3>2, <3>7, <3>8, <3>9, <3>10 DEF Ends
  <2> HIDE DEF k
  <2> QED
    BY <1>1, <1>2, <1>12, <2>1, <2>3, <2>4
<1>15. ASSUME NEW c \in Cluster, Elsewhere(c)
       PROVE  ActionsInv'
  <2>1. PICK b \in BOOLEAN, W \in SUBSET Worker :
             \E d \in {Left(b), Made(b, W)} : world' = [world EXCEPT ![c] = d]
    BY <1>15 DEF Elsewhere
  <2>2. PICK d \in State : world' = [world EXCEPT ![c] = d]
    BY <2>1 DEF Left, Made, State
  <2> QED
    BY <1>1, <1>2, <1>15, <2>1, <2>2 DEF Elsewhere
<1>16. ASSUME NEW r, Collects(r)
       PROVE  ActionsInv'
  <2>1. UNCHANGED <<world, tabs, saved, tasks, moves>>
    BY <1>16 DEF Collects
  <2>2. ASSUME NEW held \in SUBSET Cluster, NEW now \in SUBSET Cluster
        PROVE  Part(r, held, now) \in SUBSET Cluster
    BY DEF Part
  <2>3. ASSUME NEW W \in [Cluster -> SUBSET Worker]
        PROVE  [snap EXCEPT !.workers = W] \in Store
    BY <1>1 DEF Store
  <2>4. ASSUME NEW C \in SUBSET Cluster
        PROVE  [snap EXCEPT !.clusters = C] \in Store /\ [snap EXCEPT !.volumes = C] \in Store
    BY <1>1 DEF Store
  <2>5. snap.clusters \in SUBSET Cluster /\ snap.volumes \in SUBSET Cluster
    BY <1>1 DEF Store
  <2>6. [c \in Cluster |-> IF realmOf[c] # r THEN snap.workers[c]
                           ELSE {w \in world[c].workers : r \in snap.realms}]
          \in [Cluster -> SUBSET Worker]
    BY <1>1 DEF Store, State
  <2>7. Part(r, snap.clusters, {c \in Cluster : world[c].there}) \in SUBSET Cluster
    BY <2>2, <2>5
  <2>8. Part(r, snap.volumes, {c \in Cluster : world[c].data}) \in SUBSET Cluster
    BY <2>2, <2>5
  <2>9. snap' \in Store
    BY <1>16, <2>3, <2>4, <2>6, <2>7, <2>8 DEF Collects
  <2> QED
    BY <1>1, <1>2, <2>1, <2>9
<1>17. CASE ListsRealms
  <2>1. PICK R \in SUBSET Realm : snap' = [snap EXCEPT !.realms = R]
    BY <1>17 DEF ListsRealms
  <2>2. snap' \in Store
    BY <1>1, <2>1 DEF Store
  <2> QED
    BY <1>1, <1>2, <1>17, <2>2 DEF ListsRealms
<1>18. CASE UNCHANGED actVars
  BY <1>1, <1>2, <1>18 DEF actVars
<1> QED
  BY <1>4, <1>5, <1>7, <1>9, <1>10, <1>11, <1>13, <1>14, <1>15, <1>16, <1>17, <1>18 DEF ActNext

\* No command of sind ui loses what its dialog did not name, but a delete of
\* a realm what is left of clusters that sind ui does not list, or starts without
\* the word that it wants, whatever comes and goes between the dialog and the
\* start, and for a retry as for a first start (actRunRoute, actRetryRoute).
THEOREM ActionsInvHolds ==
  ASSUME IsFiniteSet(Cluster)
  PROVE  ActSpec => []ActionsInv
<1>1. ActInit => ActionsInv
  <2> SUFFICES ASSUME ActInit PROVE ActionsInv
    OBVIOUS
  <2>1. world \in [Cluster -> State] /\ snap \in Store
    <3>1. {Left(FALSE), Made(TRUE, Worker), Made(FALSE, Worker)} \subseteq State
      BY DEF Left, Made, State
    <3>2. world \in [Cluster -> State]
      BY <3>1 DEF ActInit
    <3>3. PICK R \in SUBSET Realm :
            snap = [realms |-> R,
                    clusters |-> {c \in Cluster : world[c].there},
                    volumes |-> {c \in Cluster : world[c].data},
                    workers |-> [c \in Cluster |-> world[c].workers]]
      BY DEF ActInit
    <3>4. [c \in Cluster |-> world[c].workers] \in [Cluster -> SUBSET Worker]
      BY <3>2 DEF State
    <3> QED
      BY <3>2, <3>3, <3>4 DEF Store
  <2>2. saved \in [{nameOf[c] : c \in Cluster} -> File]
    BY DEF ActInit, File
  <2>3. GoodDialog(Closed)
    BY DEF GoodDialog, Dialog, Closed, NoForm, NoPlan, FormOf, Kept, Ops, OfOne
  <2>4. tasks = <<>> /\ tabs = [t \in Tab |-> Closed]
    BY DEF ActInit
  <2> QED
    BY <2>1, <2>2, <2>3, <2>4, InvIs
<1>2. ActionsInv /\ [ActNext]_actVars => ActionsInv'
  BY ActionsStep
<1> QED
  BY <1>1, <1>2, PTL DEF ActSpec

-----------------------------------------------------------------------------
(* sind power (NodePower).                                                 *)

\* Every step keeps the types, and one address for each node that is up.
LEMMA TypeStep ==
  ASSUME None \notin Addr, P!PowerTypeOK, P!GroupInv, [P!Next]_(P!vars)
  PROVE  P!PowerTypeOK'
<1> USE DEF P!State
<1>1. /\ nodes \in [Node -> [state : P!State, ip : Addr \cup {None}]]
      /\ \A n \in Node : P!Up(n) <=> nodes[n].ip \in Addr
      /\ \A m, n \in Node : m # n /\ P!Up(m) => nodes[m].ip # nodes[n].ip
      /\ records \in [Node -> Addr]
      /\ {dns, relay} \subseteq {"running", "exited", "none"}
      /\ power \in P!PowerState
      /\ power.good \cup power.left \subseteq power.group
  BY DEF P!PowerTypeOK
<1>2. P!NoPower \in P!PowerState /\ P!NoPower.good \cup P!NoPower.left \subseteq P!NoPower.group
  BY DEF P!NoPower, P!PowerState, P!NoneSeen
<1>3. ASSUME NEW err \in BOOLEAN, P!GroupEnds(err)
      PROVE  power' \in P!PowerState /\ power'.good \cup power'.left \subseteq power'.group
  BY <1>1, <1>3 DEF P!GroupEnds, P!PowerState, P!NoneSeen
<1>4. ASSUME UNCHANGED nodes, UNCHANGED records,
             {dns', relay'} \subseteq {"running", "exited", "none"}, power' \in P!PowerState,
             power'.good \cup power'.left \subseteq power'.group
      PROVE  P!PowerTypeOK'
  BY <1>1, <1>4 DEF P!PowerTypeOK, P!Up
<1>5. ASSUME NEW op \in {"on", "restart"}, NEW T \in SUBSET Node, P!Begin(op, T)
      PROVE  P!PowerTypeOK'
  <2>1. /\ power' \in P!PowerState
        /\ power'.good \cup power'.left \subseteq power'.group
    <3> DEFINE K == {clusterOf[n] : n \in T}
    <3>1. power' = [P!NoPower EXCEPT !.pc = "group", !.op = op, !.targets = T, !.todo = K]
      BY <1>5 DEF P!Begin
    <3>2. K \in SUBSET {clusterOf[n] : n \in Node}
      OBVIOUS
    <3> HIDE DEF K
    <3>3. /\ power'.good = P!NoPower.good /\ power'.left = P!NoPower.left
          /\ power'.group = P!NoPower.group
      BY <3>1 DEF P!NoPower
    <3>4. power' \in P!PowerState
      BY <1>2, <3>1, <3>2 DEF P!PowerState
    <3> QED
      BY <1>2, <3>3, <3>4
  <2> QED
    BY <1>1, <1>4, <1>5, <2>1 DEF P!Begin
<1>6. ASSUME NEW c, P!ResolveTargets(c)
      PROVE  P!PowerTypeOK'
  <2>1. /\ power' \in P!PowerState
        /\ power'.good \cup power'.left \subseteq power'.group
    <3>1. power.pc = "group" /\ power.group = {} /\ power.good = {}
      BY <1>1, <1>6 DEF P!ResolveTargets, P!GroupInv
    <3>2. CASE power' = [power EXCEPT !.todo = @ \ {c}, !.failed = TRUE]
      BY <1>1, <3>2 DEF P!PowerState
    <3>3. ASSUME NEW group \in SUBSET Node, NEW first \in {"mesh", "down"},
                 power' = [power EXCEPT !.todo = @ \ {c}, !.group = group, !.left = group,
                                        !.pc = first]
          PROVE  power' \in P!PowerState /\ power'.good \cup power'.left \subseteq power'.group
      BY <1>1, <3>1, <3>3 DEF P!PowerState
    <3>4. {n \in power.targets : clusterOf[n] = c} \in SUBSET Node
      BY <1>1 DEF P!PowerState
    <3> QED
      BY <1>6, <3>2, <3>3, <3>4 DEF P!ResolveTargets
  <2> QED
    BY <1>1, <1>4, <1>6, <2>1 DEF P!ResolveTargets
<1>7. ASSUME NEW n \in Node, NEW st \in P!State,
             nodes' = [nodes EXCEPT ![n] = IF st = "exited" THEN P!Stopped
                                                            ELSE [@ EXCEPT !.state = st]],
             st # "exited" => P!Up(n)
      PROVE  /\ nodes' \in [Node -> [state : P!State, ip : Addr \cup {None}]]
             /\ \A m \in Node : P!Up(m)' <=> nodes'[m].ip \in Addr
             /\ \A m, o \in Node : m # o /\ P!Up(m)' => nodes'[m].ip # nodes'[o].ip
  BY <1>1, <1>7 DEF P!Stopped, P!Up
<1>8. ASSUME NEW n \in Node, NEW from, NEW st \in P!State, P!Switch(n, from, st),
             "exited" \notin from
      PROVE  P!PowerTypeOK'
  <2>1. /\ power' \in P!PowerState
        /\ power'.good \cup power'.left \subseteq power'.group
    BY <1>1, <1>8 DEF P!Switch, P!PowerState
  <2>2. nodes' = [nodes EXCEPT ![n] = IF st = "exited" THEN P!Stopped ELSE [@ EXCEPT !.state = st]]
    BY <1>8 DEF P!Switch
  <2>3. P!Up(n)
    BY <1>8 DEF P!Switch, P!Up
  <2>4. UNCHANGED <<records, dns, relay>>
    BY <1>8 DEF P!Switch
  <2> QED
    BY <1>1, <1>7, <2>1, <2>2, <2>3, <2>4 DEF P!PowerTypeOK
<1>9. ASSUME NEW n \in Node, P!TakeDown(n)
      PROVE  P!PowerTypeOK'
  <2>1. /\ power' \in P!PowerState
        /\ power'.good \cup power'.left \subseteq power'.group
    <3>1. PICK g \in {power.good, power.good \cup {n}} :
            power' = [power EXCEPT !.left = @ \ {n}, !.good = g]
      BY <1>9 DEF P!TakeDown
    <3>2. /\ n \in power.left /\ power.good \subseteq power.group
          /\ power.left \subseteq power.group /\ power.group \subseteq Node
      BY <1>1, <1>9 DEF P!TakeDown, P!PowerState
    <3>3. g \subseteq power.group /\ g \in SUBSET Node
      BY <3>1, <3>2
    <3>4. power' \in P!PowerState
      BY <1>1, <3>1, <3>3 DEF P!PowerState
    <3> QED
      BY <1>1, <3>1, <3>2, <3>3, <3>4 DEF P!PowerState
  <2>2. \/ nodes' = nodes
        \/ nodes' = [nodes EXCEPT ![n] = IF "exited" = "exited" THEN P!Stopped
                                                    ELSE [@ EXCEPT !.state = "exited"]]
    BY <1>9 DEF P!TakeDown
  <2>3. UNCHANGED <<records, dns, relay>>
    BY <1>9 DEF P!TakeDown
  <2>4. CASE nodes' = nodes
    BY <1>1, <1>4, <2>1, <2>3, <2>4
  <2> QED
    BY <1>1, <1>7, <2>1, <2>2, <2>3, <2>4 DEF P!PowerTypeOK
<1>10. ASSUME NEW n \in Node, P!StartNode(n)
       PROVE  P!PowerTypeOK'
  <2>1. /\ power' \in P!PowerState
        /\ power'.good \cup power'.left \subseteq power'.group
    <3>1. PICK g \in {power.good, power.good \cup {n}} :
            power' = [power EXCEPT !.left = @ \ {n}, !.dropped = @ \ {n}, !.good = g]
      BY <1>10 DEF P!StartNode
    <3>2. /\ n \in power.left /\ power.good \subseteq power.group
          /\ power.left \subseteq power.group /\ power.group \subseteq Node
      BY <1>1, <1>10 DEF P!StartNode, P!PowerState
    <3>3. g \subseteq power.group /\ g \in SUBSET Node
      BY <3>1, <3>2
    <3>4. power' \in P!PowerState
      BY <1>1, <3>1, <3>3 DEF P!PowerState
    <3> QED
      BY <1>1, <3>1, <3>2, <3>3, <3>4 DEF P!PowerState
  <2>2. \/ nodes' = nodes
        \/ \E a \in P!Free : nodes' = [nodes EXCEPT ![n] = [state |-> "running", ip |-> a]]
    BY <1>10 DEF P!StartNode
  <2>3. UNCHANGED <<records, dns, relay>>
    BY <1>10 DEF P!StartNode
  <2>4. CASE nodes' = nodes
    BY <1>1, <1>4, <2>1, <2>3, <2>4
  <2>5. ASSUME NEW a \in P!Free, nodes' = [nodes EXCEPT ![n] = [state |-> "running", ip |-> a]]
        PROVE  P!PowerTypeOK'
    <3>1. a \in Addr /\ \A m \in Node : nodes[m].ip # a
      BY <2>5 DEF P!Free
    <3>2. nodes' \in [Node -> [state : P!State, ip : Addr \cup {None}]]
      BY <1>1, <2>5, <3>1
    <3>3. \A m \in Node : P!Up(m)' <=> nodes'[m].ip \in Addr
      BY <1>1, <2>5, <3>1 DEF P!Up
    <3>4. \A m, o \in Node : m # o /\ P!Up(m)' => nodes'[m].ip # nodes'[o].ip
      BY <1>1, <2>5, <3>1 DEF P!Up
    <3> QED
      BY <1>1, <2>1, <2>3, <3>2, <3>3, <3>4 DEF P!PowerTypeOK
  <2> QED
    BY <2>2, <2>4, <2>5
<1>11. CASE P!DownOver
  <2>1. (power.good # power.group) \in BOOLEAN
    OBVIOUS
  <2>2. CASE P!GroupEnds(TRUE)
    BY <1>1, <1>3, <1>4, <1>11, <2>2 DEF P!DownOver
  <2>3. CASE power' = [power EXCEPT !.pc = "mesh", !.left = power.good, !.good = {},
                                    !.err = power.good # power.group]
    <3>1. /\ power' \in P!PowerState
          /\ power'.good \cup power'.left \subseteq power'.group
      BY <1>1, <2>1, <2>3 DEF P!PowerState
    <3> QED
      BY <1>1, <1>4, <1>11, <3>1 DEF P!DownOver
  <2> QED
    BY <1>11, <2>2, <2>3 DEF P!DownOver
<1>12. CASE P!StartMesh
  <2>1. (dns # "none") \in BOOLEAN
    OBVIOUS
  <2>2. UNCHANGED nodes /\ UNCHANGED records /\ {dns', relay'} \subseteq {"running", "exited", "none"}
    BY <1>1, <1>12 DEF P!StartMesh
  <2>3. CASE P!GroupEnds(TRUE)
    BY <1>3, <1>4, <2>2, <2>3
  <2>4. CASE power' = [power EXCEPT !.pc = "start", !.hasDNS = dns # "none"]
    <3>1. /\ power' \in P!PowerState
          /\ power'.good \cup power'.left \subseteq power'.group
      BY <1>1, <2>1, <2>4 DEF P!PowerState
    <3> QED
      BY <1>4, <2>2, <3>1
  <2> QED
    BY <1>12, <2>3, <2>4 DEF P!StartMesh
<1>13. CASE P!StartOver
  <2> DEFINE err == power.err \/ power.good # power.group
  <2>1. err \in BOOLEAN
    OBVIOUS
  <2>2. CASE P!GroupEnds(err)
    BY <1>1, <1>3, <1>4, <1>13, <2>1, <2>2 DEF P!StartOver
  <2>3. ASSUME NEW to \in {"stack", "inspect"}, power' = [power EXCEPT !.err = err, !.pc = to]
        PROVE  P!PowerTypeOK'
    <3>1. /\ power' \in P!PowerState
          /\ power'.good \cup power'.left \subseteq power'.group
      BY <1>1, <2>1, <2>3 DEF P!PowerState
    <3> QED
      BY <1>1, <1>4, <1>13, <3>1 DEF P!StartOver
  <2> QED
    BY <1>13, <2>2, <2>3 DEF P!StartOver
<1>14. ASSUME P!RefreshFails
       PROVE  power' \in P!PowerState /\ power'.good \cup power'.left \subseteq power'.group
  BY <1>1, <1>14 DEF P!RefreshFails, P!PowerState
<1>15. CASE P!InspectContainers
  <2>1. CASE P!RefreshFails
    BY <1>1, <1>4, <1>14, <1>15, <2>1 DEF P!InspectContainers
  <2>2. CASE power' = [power EXCEPT !.pc = "records",
                         !.seen = [n \in Node |-> IF n \in power.good THEN nodes[n].ip ELSE None]]
    <3>1. /\ power' \in P!PowerState
          /\ power'.good \cup power'.left \subseteq power'.group
      BY <1>1, <2>2 DEF P!PowerState
    <3> QED
      BY <1>1, <1>4, <1>15, <3>1 DEF P!InspectContainers
  <2> QED
    BY <1>15, <2>1, <2>2 DEF P!InspectContainers
<1>16. CASE P!AddDNSRecords
  <2>1. power' \in P!PowerState /\ power'.good \cup power'.left \subseteq power'.group
    <3>1. CASE P!RefreshFails
      BY <1>14, <3>1
    <3>2. CASE power' = [power EXCEPT !.pc = "stack"]
      BY <1>1, <3>2 DEF P!PowerState
    <3> QED
      BY <1>16, <3>1, <3>2 DEF P!AddDNSRecords
  <2>2. UNCHANGED <<nodes, dns, relay>> /\ records' \in {records, P!WithRecords(power.seen)}
    BY <1>16 DEF P!AddDNSRecords
  <2>3. P!WithRecords(power.seen) \in [Node -> Addr]
    BY <1>1 DEF P!WithRecords, P!PowerState
  <2> QED
    BY <1>1, <2>1, <2>2, <2>3 DEF P!PowerTypeOK, P!Up
<1>17. CASE P!StartMonitoring
  <2>1. PICK o \in {"ok", "failed"} : P!GroupEnds(o = "failed" \/ power.err)
    BY <1>17 DEF P!StartMonitoring
  <2>2. (o = "failed" \/ power.err) \in BOOLEAN
    OBVIOUS
  <2> QED
    BY <1>1, <1>3, <1>4, <1>17, <2>1, <2>2 DEF P!StartMonitoring
<1>18. CASE P!Ends
  BY <1>1, <1>4, <1>18 DEF P!Ends, P!PowerState
<1>19. CASE P!Returns
  BY <1>1, <1>2, <1>4, <1>19 DEF P!Returns
<1>20. CASE P!Interrupt
  BY <1>1, <1>4, <1>20 DEF P!Interrupt, P!PowerState
<1>21. CASE P!Kill
  BY <1>1, <1>2, <1>4, <1>21 DEF P!Kill
<1>22. CASE P!Reboot
  BY <1>1, <1>2, <1>22 DEF P!Reboot, P!PowerTypeOK, P!Stopped, P!Up
<1>23. CASE UNCHANGED P!vars
  BY <1>1, <1>4, <1>23 DEF P!vars
<1> QED
  BY <1>5, <1>6, <1>8, <1>9, <1>10, <1>11, <1>12, <1>13, <1>15, <1>16, <1>17, <1>18, <1>19,
     <1>20, <1>21, <1>22, <1>23
     DEF P!Next, P!PowerShutdown, P!PowerFreeze, P!PowerUnfreeze

\* Every step keeps what the command knows of its nodes, and what it promises.
LEMMA PowerStep ==
  ASSUME None \notin Addr, P!PowerInv, [P!Next]_(P!vars)
  PROVE  P!PowerInv'
<1>1. P!PowerTypeOK /\ P!GroupInv /\ P!SeenInv /\ P!StartInv /\ P!RecordsFollow /\ P!PowerDone
  BY DEF P!PowerInv
<1>2. P!PowerTypeOK'
  BY <1>1, TypeStep
<1>3. /\ nodes \in [Node -> [state : P!State, ip : Addr \cup {None}]]
      /\ \A n \in Node : P!Up(n) => nodes[n].ip \in Addr
      /\ power \in P!PowerState
      /\ power.good \subseteq power.group /\ power.left \subseteq power.group
      /\ power.group \subseteq Node
  BY <1>1 DEF P!PowerTypeOK, P!PowerState
<1> USE DEF P!Refreshing, P!MeshUp
\* No command knows or promises anything.
<1>4. ASSUME power' = P!NoPower,
             dns' # "none" => \A n \in Node \ told' : P!Up(n)' => records'[n] = nodes'[n].ip
      PROVE  P!PowerInv'
  BY <1>2, <1>4 DEF P!PowerInv, P!GroupInv, P!SeenInv, P!StartInv, P!RecordsFollow,
    P!PowerDone, P!NoPower
\* The part of a cluster ends, without an error only if its nodes are up and
\* their names stand for their addresses.
<1>5. ASSUME NEW err \in BOOLEAN, P!GroupEnds(err), UNCHANGED <<nodes, records>>,
             dns' = "none" <=> dns = "none", dns # "exited" => dns' # "exited",
             relay # "exited" => relay' # "exited",
             ~err =>
               /\ P!MeshUp /\ \A n \in power.group \ power.dropped : P!Up(n)
               /\ dns # "none" => \A n \in power.group : P!Up(n) => records[n] = nodes[n].ip,
             power.targets # {}, power.pc \notin {"idle", "ended"}
      PROVE  P!PowerInv'
  <2>1. /\ power'.pc = "group" /\ power'.group = {} /\ power'.good = {}
        /\ power'.targets = power.targets /\ power'.todo = power.todo
        /\ power'.dropped = power.dropped
        /\ power'.failed = FALSE => power.failed = FALSE /\ err = FALSE
    BY <1>3, <1>5 DEF P!GroupEnds, P!PowerState
  <2>2. told' = IF err THEN told \cup power.group ELSE told \ power.group
    BY <1>5 DEF P!GroupEnds
  <2>3. P!GroupInv' /\ P!SeenInv' /\ P!PowerDone'
    BY <2>1 DEF P!GroupInv, P!SeenInv, P!PowerDone
  <2>4. P!StartInv'
    BY <1>1, <1>5, <2>1 DEF P!StartInv, P!Up
  <2>5. P!RecordsFollow'
    BY <1>1, <1>5, <2>1, <2>2 DEF P!RecordsFollow, P!Up
  <2> QED
    BY <1>2, <2>3, <2>4, <2>5 DEF P!PowerInv
<1>6. ASSUME NEW op \in {"on", "restart"}, NEW T \in (SUBSET Node) \ {{}}, P!Begin(op, T)
      PROVE  P!PowerInv'
  <2>1. /\ power' = [P!NoPower EXCEPT !.pc = "group", !.op = op, !.targets = T,
                                    !.todo = {clusterOf[n] : n \in T}]
        /\ UNCHANGED <<nodes, records, dns, relay, told>> /\ power.pc = "idle"
    BY <1>6 DEF P!Begin
  <2>2. /\ power'.pc = "group" /\ power'.group = {} /\ power'.targets = T /\ T # {}
        /\ power'.todo = {clusterOf[n] : n \in T} /\ power'.good = {} /\ power'.left = {}
    <3> DEFINE K == {clusterOf[n] : n \in T}
    <3>1. power' = [P!NoPower EXCEPT !.pc = "group", !.op = op, !.targets = T, !.todo = K]
      BY <2>1
    <3> HIDE DEF K
    <3>2. /\ power'.pc = "group" /\ power'.group = {} /\ power'.targets = T
          /\ power'.todo = K /\ power'.good = {} /\ power'.left = {}
      BY <3>1 DEF P!NoPower
    <3> QED
      BY <1>6, <3>2 DEF K
  <2>3. P!GroupInv' /\ P!SeenInv' /\ P!StartInv' /\ P!PowerDone'
    BY <2>2 DEF P!GroupInv, P!SeenInv, P!StartInv, P!PowerDone
  <2>4. P!RecordsFollow'
    BY <1>1, <2>1, <2>2 DEF P!RecordsFollow, P!GroupInv, P!Up
  <2> QED
    BY <1>2, <2>3, <2>4 DEF P!PowerInv
<1>7. ASSUME NEW c, P!ResolveTargets(c)
      PROVE  P!PowerInv'
  <2>1. /\ power.pc = "group" /\ UNCHANGED <<nodes, records, dns, relay, told>>
        /\ power.group = {} /\ power.good = {} /\ power.targets # {}
    BY <1>1, <1>3, <1>7 DEF P!ResolveTargets, P!GroupInv, P!StartInv
  <2>2. CASE power' = [power EXCEPT !.todo = @ \ {c}, !.failed = TRUE]
    <3>1. /\ power'.pc = "group" /\ power'.group = {} /\ power'.good = {} /\ power'.failed
          /\ power'.targets = power.targets /\ power'.left = power.left
      BY <1>3, <2>1, <2>2 DEF P!PowerState
    <3>2. P!GroupInv' /\ P!SeenInv' /\ P!StartInv' /\ P!PowerDone'
      BY <2>1, <3>1 DEF P!GroupInv, P!SeenInv, P!StartInv, P!PowerDone
    <3>3. P!RecordsFollow'
      BY <1>1, <2>1, <3>1 DEF P!RecordsFollow, P!Up
    <3> QED
      BY <1>2, <3>2, <3>3 DEF P!PowerInv
  <2>3. ASSUME NEW first \in {"mesh", "down"},
               power' = [power EXCEPT !.todo = @ \ {c},
                                      !.group = {n \in power.targets : clusterOf[n] = c},
                                      !.left = {n \in power.targets : clusterOf[n] = c},
                                      !.pc = first]
        PROVE  P!PowerInv'
    <3>1. /\ power'.pc = first /\ power'.group = {n \in power.targets : clusterOf[n] = c}
          /\ power'.good = {} /\ power'.failed = power.failed /\ power'.todo = power.todo \ {c}
          /\ power'.targets = power.targets /\ power'.dropped = power.dropped
      BY <1>3, <2>1, <2>3 DEF P!PowerState
    <3>2. P!GroupInv' /\ P!SeenInv' /\ P!PowerDone'
      BY <3>1 DEF P!GroupInv, P!SeenInv, P!PowerDone
    <3>3. P!StartInv'
      BY <1>1, <2>1, <3>1 DEF P!StartInv, P!Up
    <3>4. P!RecordsFollow'
      BY <1>1, <2>1, <3>1 DEF P!RecordsFollow, P!Up
    <3> QED
      BY <1>2, <3>2, <3>3, <3>4 DEF P!PowerInv
  <2> QED
    BY <1>7, <2>2, <2>3 DEF P!ResolveTargets
\* An unlocked command leaves the addresses of the nodes that stay up.
<1>8. ASSUME NEW n \in Node, NEW from, NEW st \in P!State, P!Switch(n, from, st),
             "exited" \notin from
      PROVE  P!PowerInv'
  <2>1. /\ nodes' = [nodes EXCEPT ![n] = IF st = "exited" THEN P!Stopped ELSE [@ EXCEPT !.state = st]]
        /\ UNCHANGED <<records, dns, relay, told>>
        /\ power' = [power EXCEPT !.dropped = IF st = "exited" THEN @ \cup {n} ELSE @]
        /\ nodes[n].state \in from
    BY <1>8 DEF P!Switch
  <2>2. /\ \A m \in Node : P!Up(m)' => P!Up(m) /\ nodes'[m].ip = nodes[m].ip
        /\ \A m \in Node : P!Up(m) => P!Up(m)' \/ m \in power'.dropped
        /\ power.dropped \subseteq power'.dropped
    BY <1>3, <1>8, <2>1 DEF P!Up, P!Stopped, P!PowerState
  <2>3. /\ power'.pc = power.pc /\ power'.group = power.group /\ power'.good = power.good
        /\ power'.left = power.left /\ power'.err = power.err /\ power'.hasDNS = power.hasDNS
        /\ power'.seen = power.seen /\ power'.failed = power.failed
        /\ power'.targets = power.targets /\ power'.todo = power.todo
    BY <1>3, <2>1 DEF P!PowerState
  <2>4. P!GroupInv' /\ P!SeenInv'
    BY <1>1, <1>3, <2>1, <2>2, <2>3 DEF P!GroupInv, P!SeenInv
  <2>5. P!StartInv' /\ P!PowerDone'
    BY <1>1, <1>3, <2>1, <2>2, <2>3 DEF P!StartInv, P!PowerDone, P!PowerState
  <2>6. P!RecordsFollow'
    BY <1>1, <2>1, <2>2, <2>3 DEF P!RecordsFollow
  <2> QED
    BY <1>2, <2>4, <2>5, <2>6 DEF P!PowerInv
<1>9. ASSUME NEW n \in Node, P!TakeDown(n)
      PROVE  P!PowerInv'
  <2>1. /\ power.pc = "down" /\ n \in power.left /\ n \in power.group
        /\ UNCHANGED <<records, dns, relay, told>>
        /\ \A m \in Node \ {n} : nodes'[m] = nodes[m]
    BY <1>3, <1>9 DEF P!TakeDown
  <2>2. PICK g \in {power.good, power.good \cup {n}} :
          power' = [power EXCEPT !.left = @ \ {n}, !.good = g]
    BY <1>9 DEF P!TakeDown
  <2>3. /\ power'.pc = "down" /\ power'.group = power.group /\ power'.good = g
        /\ power'.left = power.left \ {n} /\ power'.failed = power.failed
        /\ power'.targets = power.targets /\ power'.todo = power.todo
        /\ power'.dropped = power.dropped
    BY <1>3, <2>1, <2>2 DEF P!PowerState
  <2>4. P!GroupInv' /\ P!SeenInv' /\ P!PowerDone'
    BY <1>1, <2>1, <2>2, <2>3 DEF P!GroupInv, P!SeenInv, P!PowerDone
  <2>5. P!StartInv'
    BY <1>1, <1>3, <2>1, <2>3 DEF P!StartInv, P!Up, P!PowerState
  <2>6. P!RecordsFollow'
    BY <1>1, <2>1, <2>3 DEF P!RecordsFollow, P!Up
  <2> QED
    BY <1>2, <2>4, <2>5, <2>6 DEF P!PowerInv
<1>10. CASE P!DownOver
  <2>1. /\ power.pc = "down" /\ UNCHANGED <<nodes, records, dns, relay>> /\ power.targets # {}
    BY <1>1, <1>10 DEF P!DownOver, P!StartInv
  <2>2. CASE P!GroupEnds(TRUE)
    BY <1>5, <2>1, <2>2
  <2>3. CASE /\ power' = [power EXCEPT !.pc = "mesh", !.left = power.good, !.good = {},
                                       !.err = power.good # power.group]
             /\ UNCHANGED told
    <3>1. /\ power'.pc = "mesh" /\ power'.group = power.group /\ power'.good = {}
          /\ power'.left = power.good /\ power'.failed = power.failed
          /\ power'.targets = power.targets /\ power'.todo = power.todo
          /\ power'.dropped = power.dropped
      BY <1>3, <2>3 DEF P!PowerState
    <3>2. power'.left \cap power'.good = {}
      BY <3>1
    <3>3. P!GroupInv' /\ P!SeenInv' /\ P!PowerDone'
      BY <3>1, <3>2 DEF P!GroupInv, P!SeenInv, P!PowerDone, P!Refreshing
    <3>4. P!StartInv' /\ P!RecordsFollow'
      BY <1>1, <2>1, <2>3, <3>1 DEF P!StartInv, P!RecordsFollow, P!Up
    <3> QED
      BY <1>2, <3>3, <3>4 DEF P!PowerInv
  <2> QED
    BY <1>10, <2>2, <2>3 DEF P!DownOver
<1>11. CASE P!StartMesh
  <2>1. /\ power.pc = "mesh" /\ UNCHANGED <<nodes, records>> /\ power.targets # {}
        /\ dns' = "none" <=> dns = "none"
        /\ dns # "exited" => dns' # "exited"
        /\ relay # "exited" => relay' # "exited"
    BY <1>1, <1>11 DEF P!StartMesh, P!StartInv
  <2>2. CASE P!GroupEnds(TRUE)
    BY <1>5, <2>1, <2>2
  <2>3. CASE /\ power' = [power EXCEPT !.pc = "start", !.hasDNS = dns # "none"]
             /\ dns' # "exited" /\ relay' # "exited" /\ UNCHANGED told
    <3>1. /\ power'.pc = "start" /\ power'.group = power.group /\ power'.good = {}
          /\ power'.failed = power.failed /\ power'.hasDNS = (dns # "none")
          /\ power'.targets = power.targets /\ power'.todo = power.todo
          /\ power'.dropped = power.dropped
      BY <1>1, <1>3, <2>1, <2>3 DEF P!PowerState, P!GroupInv
    <3>2. /\ power'.hasDNS <=> dns' # "none"
          /\ power'.left \cap power'.good = {}
      BY <2>1, <3>1
    <3>3. P!GroupInv' /\ P!SeenInv' /\ P!PowerDone'
      BY <3>1, <3>2 DEF P!GroupInv, P!SeenInv, P!PowerDone, P!Refreshing
    <3>4. P!StartInv' /\ P!RecordsFollow'
      BY <1>1, <2>1, <2>3, <3>1 DEF P!StartInv, P!RecordsFollow, P!Up
    <3> QED
      BY <1>2, <3>3, <3>4 DEF P!PowerInv
  <2> QED
    BY <1>11, <2>2, <2>3 DEF P!StartMesh, P!Effect
<1>12. ASSUME NEW n \in Node, P!StartNode(n)
       PROVE  P!PowerInv'
  <2>1. /\ power.pc = "start" /\ n \in power.left /\ n \in power.group
        /\ UNCHANGED <<records, dns, relay, told>>
        /\ \A m \in Node \ {n} : nodes'[m] = nodes[m]
    BY <1>3, <1>12 DEF P!StartNode
  <2>2. PICK o \in {"ok", "failed", "lost"} :
          /\ nodes[n].state # "paused" \/ o = "failed"
          /\ IF P!Effect(o) /\ nodes[n].state = "exited"
               THEN \E a \in P!Free : nodes' = [nodes EXCEPT ![n] = [state |-> "running", ip |-> a]]
               ELSE UNCHANGED nodes
          /\ power' = [power EXCEPT !.left = @ \ {n}, !.dropped = @ \ {n},
                                    !.good = IF o = "ok" THEN @ \cup {n} ELSE @]
    BY <1>12 DEF P!StartNode
  <2>3. o = "ok" => P!Up(n)'
    BY <1>3, <2>2 DEF P!Up, P!Effect
  <2>4. /\ power'.pc = "start" /\ power'.group = power.group
        /\ power'.good = IF o = "ok" THEN power.good \cup {n} ELSE power.good
        /\ power'.left = power.left \ {n} /\ power'.failed = power.failed
        /\ power'.targets = power.targets /\ power'.todo = power.todo
        /\ power'.dropped = power.dropped \ {n} /\ power'.hasDNS = power.hasDNS
    BY <1>3, <2>1, <2>2 DEF P!PowerState
  <2>5. P!GroupInv' /\ P!SeenInv' /\ P!PowerDone'
    BY <1>1, <2>1, <2>4 DEF P!GroupInv, P!SeenInv, P!PowerDone
  <2>6. P!StartInv'
    <3>1. n \notin power.good
      BY <1>1, <2>1 DEF P!GroupInv
    <3>2. \A m \in power'.good \ power'.dropped : P!Up(m)'
      BY <1>1, <1>3, <2>1, <2>3, <2>4, <3>1 DEF P!StartInv, P!Up
    <3>3. \A m \in power'.targets \ (power'.dropped \cup power'.group) :
            m \in Node \ {n} /\ m \in power.targets \ (power.dropped \cup power.group)
      BY <1>3, <2>1, <2>4 DEF P!PowerState
    <3> QED
      BY <1>1, <2>1, <2>4, <3>2, <3>3 DEF P!StartInv, P!Up
  <2>7. P!RecordsFollow'
    BY <1>1, <2>1, <2>4 DEF P!RecordsFollow, P!Up
  <2> QED
    BY <1>2, <2>5, <2>6, <2>7 DEF P!PowerInv
<1>13. CASE P!StartOver
  <2> DEFINE err == power.err \/ power.good # power.group
  <2>1. /\ power.pc = "start" /\ UNCHANGED <<nodes, records, dns, relay>> /\ power.targets # {}
        /\ err \in BOOLEAN
        /\ P!MeshUp /\ \A n \in power.good \ power.dropped : P!Up(n)
        /\ power.hasDNS <=> dns # "none"
    BY <1>1, <1>13 DEF P!StartOver, P!StartInv, P!GroupInv
  <2>2. CASE ~power.hasDNS /\ P!GroupEnds(err)
    <3>1. ~err => power.good = power.group
      OBVIOUS
    <3> QED
      BY <1>5, <2>1, <2>2, <3>1
  <2>3. CASE /\ power' = [power EXCEPT !.err = err,
                            !.pc = IF power.good = {} THEN "stack" ELSE "inspect"]
             /\ UNCHANGED told
    <3> HIDE DEF err
    <3>1. /\ power'.pc = IF power.good = {} THEN "stack" ELSE "inspect"
          /\ power'.group = power.group /\ power'.good = power.good /\ power'.left = power.left
          /\ power'.err = err
          /\ power'.failed = power.failed /\ power'.hasDNS = power.hasDNS
          /\ power'.targets = power.targets /\ power'.todo = power.todo
          /\ power'.dropped = power.dropped
      BY <1>3, <2>1, <2>3 DEF P!PowerState
    <3>2. ~err => power.good = power.group
      BY DEF err
    <3>3. P!GroupInv' /\ P!SeenInv' /\ P!PowerDone'
      BY <1>1, <2>1, <3>1, <3>2 DEF P!GroupInv, P!SeenInv, P!PowerDone
    <3>4. P!StartInv' /\ P!RecordsFollow'
      BY <1>1, <2>1, <2>3, <3>1 DEF P!StartInv, P!RecordsFollow, P!Up
    <3> QED
      BY <1>2, <3>3, <3>4 DEF P!PowerInv
  <2> QED
    BY <1>13, <2>2, <2>3 DEF P!StartOver
\* A failure of the refresh: the records, if they changed, are of nodes that
\* were inspected.
<1>14. ASSUME P!RefreshFails, UNCHANGED <<nodes, dns, relay, told>>, power.pc \in P!Refreshing,
              \A n \in Node \ power.group : records'[n] = records[n]
       PROVE  P!PowerInv'
  <2>1. /\ power'.pc = "stack" /\ power'.group = power.group /\ power'.good = power.good
        /\ power'.left = power.left /\ power'.err /\ power'.failed = power.failed
        /\ power'.hasDNS = power.hasDNS /\ power'.dropped = power.dropped
        /\ power'.targets = power.targets /\ power'.todo = power.todo
    BY <1>3, <1>14 DEF P!RefreshFails, P!PowerState
  <2>2. P!GroupInv' /\ P!SeenInv' /\ P!PowerDone'
    BY <1>1, <1>14, <2>1 DEF P!GroupInv, P!SeenInv, P!PowerDone
  <2>3. P!StartInv' /\ P!RecordsFollow'
    BY <1>1, <1>14, <2>1 DEF P!StartInv, P!RecordsFollow, P!Up
  <2> QED
    BY <1>2, <2>2, <2>3 DEF P!PowerInv
<1>15. CASE P!InspectContainers
  <2>1. power.pc = "inspect" /\ UNCHANGED <<nodes, records, dns, relay, told>>
    BY <1>15 DEF P!InspectContainers
  <2>2. CASE P!RefreshFails
    BY <1>14, <2>1, <2>2
  <2>3. CASE power' = [power EXCEPT !.pc = "records",
                         !.seen = [n \in Node |-> IF n \in power.good THEN nodes[n].ip ELSE None]]
    <3>1. /\ power'.pc = "records" /\ power'.group = power.group /\ power'.good = power.good
          /\ power'.left = power.left /\ power'.err = power.err /\ power'.failed = power.failed
          /\ power'.hasDNS = power.hasDNS /\ power'.dropped = power.dropped
          /\ power'.targets = power.targets /\ power'.todo = power.todo
          /\ power'.seen = [n \in Node |-> IF n \in power.good THEN nodes[n].ip ELSE None]
      BY <1>3, <2>3 DEF P!PowerState
    <3>2. P!GroupInv' /\ P!SeenInv' /\ P!PowerDone'
      BY <1>1, <2>1, <3>1 DEF P!GroupInv, P!SeenInv, P!PowerDone
    <3>3. P!StartInv' /\ P!RecordsFollow'
      BY <1>1, <2>1, <3>1 DEF P!StartInv, P!RecordsFollow, P!Up
    <3> QED
      BY <1>2, <3>2, <3>3 DEF P!PowerInv
  <2> QED
    BY <1>15, <2>2, <2>3 DEF P!InspectContainers
<1>16. CASE P!AddDNSRecords
  <2>1. /\ power.pc = "records" /\ UNCHANGED <<nodes, dns, relay, told>>
        /\ records' \in {records, P!WithRecords(power.seen)}
    BY <1>16 DEF P!AddDNSRecords
  <2>2. \A n \in Node \ power.group : P!WithRecords(power.seen)[n] = records[n]
    BY <1>1, <1>3, <2>1 DEF P!SeenInv, P!WithRecords
  <2>3. CASE P!RefreshFails
    BY <1>14, <2>1, <2>2, <2>3
  <2>4. CASE power' = [power EXCEPT !.pc = "stack"] /\ records' = P!WithRecords(power.seen)
    <3>1. /\ power'.pc = "stack" /\ power'.group = power.group /\ power'.good = power.good
          /\ power'.left = power.left /\ power'.err = power.err /\ power'.failed = power.failed
          /\ power'.hasDNS = power.hasDNS /\ power'.dropped = power.dropped
          /\ power'.targets = power.targets /\ power'.todo = power.todo
      BY <1>3, <2>4 DEF P!PowerState
    <3>2. \A n \in power.good : P!Up(n) => records'[n] = nodes[n].ip
      BY <1>1, <1>3, <2>1, <2>4 DEF P!SeenInv, P!WithRecords
    <3>3. P!GroupInv' /\ P!SeenInv' /\ P!PowerDone'
      BY <1>1, <2>1, <3>1, <3>2 DEF P!GroupInv, P!SeenInv, P!PowerDone, P!Up
    <3>4. P!StartInv' /\ P!RecordsFollow'
      BY <1>1, <2>1, <2>2, <2>4, <3>1 DEF P!StartInv, P!RecordsFollow, P!Up
    <3> QED
      BY <1>2, <3>3, <3>4 DEF P!PowerInv
  <2> QED
    BY <1>16, <2>3, <2>4 DEF P!AddDNSRecords, P!Effect
<1>17. CASE P!StartMonitoring
  <2>1. PICK o \in {"ok", "failed"} : P!GroupEnds(o = "failed" \/ power.err)
    BY <1>17 DEF P!StartMonitoring
  <2>2. /\ power.pc = "stack" /\ UNCHANGED <<nodes, records, dns, relay>> /\ power.targets # {}
        /\ (o = "failed" \/ power.err) \in BOOLEAN
        /\ P!MeshUp /\ \A n \in power.good \ power.dropped : P!Up(n)
        /\ ~power.err => power.good = power.group
        /\ ~power.err => \A n \in power.group : P!Up(n) => records[n] = nodes[n].ip
    BY <1>1, <1>17 DEF P!StartMonitoring, P!StartInv, P!GroupInv, P!SeenInv
  <2> QED
    BY <1>5, <2>1, <2>2
<1>18. CASE P!Ends
  <2>1. /\ power' = [power EXCEPT !.pc = "ended"] /\ power.pc = "group" /\ power.todo = {}
        /\ UNCHANGED <<nodes, records, dns, relay, told>>
    BY <1>18 DEF P!Ends
  <2>2. /\ power'.pc = "ended" /\ power'.group = {} /\ power.group = {} /\ power'.left = power.left
        /\ power'.good = power.good /\ power'.failed = power.failed
        /\ power'.targets = power.targets /\ power'.todo = {} /\ power'.dropped = power.dropped
        /\ power.targets # {}
    BY <1>1, <1>3, <2>1 DEF P!PowerState, P!GroupInv, P!StartInv
  <2>3. ~power.failed => P!MeshUp /\ \A n \in power.targets \ power.dropped : P!Up(n)
    BY <1>1, <2>1, <2>2 DEF P!StartInv
  <2>4. P!GroupInv' /\ P!SeenInv' /\ P!PowerDone'
    BY <1>1, <2>1, <2>2, <2>3 DEF P!GroupInv, P!SeenInv, P!PowerDone, P!Up
  <2>5. P!StartInv' /\ P!RecordsFollow'
    BY <1>1, <2>1, <2>2 DEF P!StartInv, P!RecordsFollow, P!Up
  <2> QED
    BY <1>2, <2>4, <2>5 DEF P!PowerInv
<1>19. CASE P!Returns
  <2>1. power' = P!NoPower /\ power.group = {} /\ UNCHANGED <<nodes, records, dns, relay, told>>
    BY <1>1, <1>19 DEF P!Returns, P!GroupInv
  <2> QED
    BY <1>1, <1>4, <2>1 DEF P!RecordsFollow, P!Up
<1>20. CASE P!Interrupt
  <2>1. /\ power' = [power EXCEPT !.canceled = TRUE] /\ UNCHANGED <<nodes, records, dns, relay, told>>
    BY <1>20 DEF P!Interrupt
  <2>2. /\ power'.pc = power.pc /\ power'.group = power.group /\ power'.good = power.good
        /\ power'.left = power.left /\ power'.err = power.err /\ power'.hasDNS = power.hasDNS
        /\ power'.seen = power.seen /\ power'.failed = power.failed
        /\ power'.targets = power.targets /\ power'.todo = power.todo
        /\ power'.dropped = power.dropped
    BY <1>3, <2>1 DEF P!PowerState
  <2>3. P!GroupInv' /\ P!SeenInv' /\ P!PowerDone' /\ P!StartInv' /\ P!RecordsFollow'
    BY <1>1, <2>1, <2>2 DEF P!GroupInv, P!SeenInv, P!PowerDone, P!StartInv,
      P!RecordsFollow, P!Up
  <2> QED
    BY <1>2, <2>3 DEF P!PowerInv
<1>21. CASE P!Kill
  <2>1. /\ power' = P!NoPower /\ UNCHANGED <<nodes, records, dns, relay>>
        /\ power.group \subseteq told' /\ told \subseteq told'
    BY <1>21 DEF P!Kill, P!Unfinished
  <2> QED
    BY <1>1, <1>4, <2>1 DEF P!RecordsFollow, P!Up
<1>22. CASE P!Reboot
  <2>1. power' = P!NoPower /\ \A n \in Node : ~P!Up(n)'
    BY <1>22 DEF P!Reboot, P!Up, P!Stopped
  <2> QED
    BY <1>4, <2>1
<1>23. CASE UNCHANGED P!vars
  BY <1>1, <1>2, <1>23
     DEF P!vars, P!PowerInv, P!GroupInv, P!SeenInv, P!PowerDone, P!StartInv,
       P!RecordsFollow, P!Up
<1> QED
  BY <1>6, <1>7, <1>8, <1>9, <1>10, <1>11, <1>12, <1>13, <1>15, <1>16, <1>17, <1>18, <1>19,
     <1>20, <1>21, <1>22, <1>23
     DEF P!Next, P!PowerShutdown, P!PowerFreeze, P!PowerUnfreeze, P!State

\* For every realm: the name of a node that runs stands for its address unless
\* a command is at work on it, failed at it or was killed, and a command that
\* reports no error has started its nodes (refreshDNS in power.go).
THEOREM PowerInvHolds ==
  ASSUME None \notin Addr
  PROVE  P!Spec => []P!PowerInv
<1>1. P!Init => P!PowerInv
  <2> SUFFICES ASSUME P!Init PROVE P!PowerInv
    OBVIOUS
  <2>1. PICK ip \in [Node -> Addr] :
          /\ \A m, n \in Node : m # n => ip[m] # ip[n]
          /\ records = ip
          /\ \/ nodes = [n \in Node |-> [state |-> "running", ip |-> ip[n]]]
             \/ nodes = [n \in Node |-> P!Stopped]
          /\ {dns, relay} \subseteq {"running", "exited", "none"}
    BY DEF P!Init
  <2>2. power = P!NoPower /\ told = {}
    BY DEF P!Init
  <2>3. power \in P!PowerState /\ power.good \cup power.left \subseteq power.group
    BY <2>2 DEF P!NoPower, P!NoneSeen, P!PowerState
  <2>4. P!PowerTypeOK
    BY <2>1, <2>3 DEF P!PowerTypeOK, P!State, P!Stopped, P!Up
  <2>5. P!RecordsFollow
    BY <2>1 DEF P!RecordsFollow, P!Stopped, P!Up
  <2>6. P!GroupInv /\ P!SeenInv /\ P!StartInv /\ P!PowerDone
    BY <2>2 DEF P!GroupInv, P!SeenInv, P!StartInv, P!PowerDone, P!NoPower, P!Refreshing
  <2> QED
    BY <2>4, <2>5, <2>6 DEF P!PowerInv
<1>2. P!PowerInv /\ [P!Next]_(P!vars) => P!PowerInv'
  BY PowerStep
<1> QED
  BY <1>1, <1>2, PTL DEF P!Spec

-----------------------------------------------------------------------------
(* Containers outside sind (External).                                     *)

\* Every step keeps the invariant.
LEMMA ExternalStep ==
  ASSUME E!Mesh \notin Cluster, E!ExternalInv, [E!Next]_(E!extVars)
  PROVE  E!ExternalInv'
<1> USE DEF E!RealmNetworks, E!OnMesh
<1>0. E!NoCommand \in E!ExtState /\ E!NoCommand.pc = "idle" /\ E!NoCommand.names = {}
  BY DEF E!NoCommand, E!ExtState, E!Phase
<1>1. /\ E!ExternalTypeOK /\ E!NamesInv /\ E!CreateInv
      /\ E!RemovalInv /\ E!KnownByMesh /\ E!AllJoined
  BY DEF E!ExternalInv
<1>2. ASSUME NEW names \in SUBSET Ext, E!BeginConnect(names)
      PROVE  E!ExternalInv'
  BY <1>1, <1>2 DEF E!BeginConnect, E!Command, E!NoCommand, E!ExternalInv,
    E!ExternalTypeOK, E!ExtState, E!Phase, E!NamesInv, E!CreateInv, E!RemovalInv,
    E!KnownByMesh, E!AllJoined
<1>3. ASSUME NEW names \in SUBSET Ext, E!BeginDisconnect(names)
      PROVE  E!ExternalInv'
  BY <1>1, <1>3 DEF E!BeginDisconnect, E!Command, E!NoCommand, E!ExternalInv,
    E!ExternalTypeOK, E!ExtState, E!Phase, E!NamesInv, E!CreateInv, E!RemovalInv,
    E!KnownByMesh, E!AllJoined
<1>4. ASSUME NEW c \in Ext, E!ConnectNetwork(c)
      PROVE  E!ExternalInv'
  <2>1. PICK n \in E!NextJoin(c), o \in E!Outcome :
          /\ joined' = IF E!Effect(o)
                          THEN [joined EXCEPT ![c] = [m \in E!RealmNetworks |-> joined[c] \cup {m}][n]]
                          ELSE joined
          /\ ext' = IF o = "ok" THEN [ext EXCEPT !.todo = {c}] ELSE E!NoCommand
          /\ behind' = IF o = "ok" THEN behind ELSE behind \cup ext.names
    BY <1>4 DEF E!ConnectNetwork, E!ChangeNetwork
  <2>2. /\ ext.pc = "connect" /\ c \in ext.names
        /\ UNCHANGED <<networks, whole, mesh>>
    BY <1>4 DEF E!ConnectNetwork, E!ChangeNetwork
  <2>3. n \in E!RealmNetworks /\ (n = E!Mesh \/ E!Mesh \in joined[c])
    BY <1>1, <2>2 DEF E!NextJoin, E!NamesInv
  <2>4. \/ joined' = joined
        \/ joined' = [joined EXCEPT ![c] = joined[c] \cup {n}]
    BY <2>1, <2>3
  <2>5. \/ ext' = [ext EXCEPT !.todo = {c}] /\ behind' = behind
        \/ ext' = E!NoCommand /\ behind' = behind \cup ext.names
    BY <2>1
  <2> HIDE DEF E!RealmNetworks
  <2>6. n \in Cluster \cup {E!Mesh}
    BY <1>1, <2>3 DEF E!ExternalTypeOK, E!RealmNetworks
  <2>7. E!ExternalTypeOK'
    <3>1. ext' \in E!ExtState /\ (behind \subseteq Ext)'
      <4>1. behind' \subseteq Ext
        BY <1>1, <2>5 DEF E!ExternalTypeOK, E!ExtState
      <4>2. ext' \in E!ExtState
        BY <1>0, <1>1, <2>5 DEF E!ExternalTypeOK, E!ExtState, E!Phase
      <4> QED
        BY <4>1, <4>2
    <3>2. E!RealmNetworks' = E!RealmNetworks
      BY <2>2 DEF E!RealmNetworks
    <3> QED
      BY <1>1, <2>2, <2>3, <2>4, <2>6, <3>1, <3>2 DEF E!ExternalTypeOK
  <2>8. E!NamesInv' /\ E!CreateInv' /\ E!RemovalInv'
    BY <1>1, <2>2, <2>5 DEF E!ExternalTypeOK, E!ExtState, E!NamesInv, E!CreateInv,
      E!RemovalInv, E!NoCommand
  <2>9. E!KnownByMesh'
    BY <1>1, <2>2, <2>3, <2>4 DEF E!KnownByMesh, E!ExternalTypeOK
  <2>10. E!AllJoined'
    BY <1>1, <2>2, <2>4, <2>5 DEF E!AllJoined, E!ExternalTypeOK, E!ExtState, E!NoCommand
  <2> QED
    BY <2>7, <2>8, <2>9, <2>10 DEF E!ExternalInv
<1>5. ASSUME NEW c \in Ext, E!DisconnectNetwork(c)
      PROVE  E!ExternalInv'
  <2>1. PICK n \in E!NextLeave(c), o \in E!Outcome :
          /\ joined' = IF E!Effect(o)
                          THEN [joined EXCEPT ![c] = [m \in E!RealmNetworks |-> joined[c] \ {m}][n]]
                          ELSE joined
          /\ ext' = IF o = "ok" THEN [ext EXCEPT !.todo = {c}] ELSE E!NoCommand
          /\ behind' = IF o = "ok" THEN behind ELSE behind \cup ext.names
    BY <1>5 DEF E!DisconnectNetwork, E!ChangeNetwork
  <2>2. /\ ext.pc = "disconnect" /\ c \in ext.names
        /\ UNCHANGED <<networks, whole, mesh>>
    BY <1>5 DEF E!DisconnectNetwork, E!ChangeNetwork
  <2>3. n \in E!RealmNetworks /\ (n = E!Mesh => joined[c] \cap networks = {})
    BY <1>1 DEF E!NextLeave, E!ExternalTypeOK
  <2>4. \/ joined' = joined
        \/ joined' = [joined EXCEPT ![c] = joined[c] \ {n}]
    BY <2>1, <2>3
  <2>5. \/ ext' = [ext EXCEPT !.todo = {c}] /\ behind' = behind
        \/ ext' = E!NoCommand /\ behind' = behind \cup ext.names
    BY <2>1
  <2>6. E!ExternalTypeOK'
    <3>1. ext' \in E!ExtState /\ (behind \subseteq Ext)'
      <4>1. behind' \subseteq Ext
        BY <1>1, <2>5 DEF E!ExternalTypeOK, E!ExtState
      <4>2. ext' \in E!ExtState
        BY <1>0, <1>1, <2>5 DEF E!ExternalTypeOK, E!ExtState, E!Phase
      <4> QED
        BY <4>1, <4>2
    <3>2. E!RealmNetworks' = E!RealmNetworks
      BY <2>2
    <3> HIDE DEF E!RealmNetworks
    <3> QED
      BY <1>1, <2>2, <2>4, <3>1, <3>2 DEF E!ExternalTypeOK
  <2>7. E!NamesInv' /\ E!CreateInv' /\ E!RemovalInv'
    BY <1>1, <2>2, <2>5 DEF E!ExternalTypeOK, E!ExtState, E!NamesInv, E!CreateInv,
      E!RemovalInv, E!NoCommand
  <2>8. E!KnownByMesh'
    <3>1. n # E!Mesh \/ joined[c] \cap whole = {}
      BY <1>1, <2>3 DEF E!ExternalTypeOK
    <3> QED
      BY <1>1, <2>2, <2>4, <3>1 DEF E!KnownByMesh, E!ExternalTypeOK
  <2>9. E!AllJoined'
    BY <1>1, <2>2, <2>4, <2>5 DEF E!AllJoined, E!ExternalTypeOK, E!ExtState, E!NoCommand
  <2> QED
    BY <2>6, <2>7, <2>8, <2>9 DEF E!ExternalInv
<1>6. ASSUME NEW c \in Ext, E!ContainerDone(c)
      PROVE  E!ExternalInv'
  BY <1>1, <1>6 DEF E!ContainerDone, E!NextJoin, E!NextLeave, E!NoCommand,
    E!ExternalInv, E!ExternalTypeOK, E!ExtState, E!Phase, E!NamesInv, E!CreateInv,
    E!RemovalInv, E!KnownByMesh, E!AllJoined
<1>7. ASSUME NEW c \in Ext, E!ConnectExternal(c)
      PROVE  E!ExternalInv'
  BY <1>1, <1>7 DEF E!ConnectExternal, E!Effect, E!ExternalInv, E!ExternalTypeOK,
    E!ExtState, E!Phase, E!NamesInv, E!CreateInv, E!RemovalInv, E!KnownByMesh,
    E!AllJoined
<1>8. ASSUME NEW n \in Cluster, E!BeginCreate(n)
      PROVE  E!ExternalInv'
  BY <1>1, <1>8 DEF E!BeginCreate, E!Command, E!NoCommand, E!ExternalInv,
    E!ExternalTypeOK, E!ExtState, E!Phase, E!NamesInv, E!CreateInv, E!RemovalInv,
    E!KnownByMesh, E!AllJoined
<1>9. ASSUME NEW n \in Cluster, E!BeginDelete(n)
      PROVE  E!ExternalInv'
  BY <1>1, <1>9 DEF E!BeginDelete, E!Command, E!NoCommand, E!ExternalInv,
    E!ExternalTypeOK, E!ExtState, E!Phase, E!NamesInv, E!CreateInv, E!RemovalInv,
    E!KnownByMesh, E!AllJoined
<1>10. ASSUME E!CreateClusterNetwork
       PROVE  E!ExternalInv'
  <2>1. PICK o \in E!Outcome :
          /\ networks' = IF E!Effect(o) THEN networks \cup {ext.net} ELSE networks
          /\ ext' = IF o = "ok" THEN [ext EXCEPT !.pc = "list"] ELSE E!RollBack
    BY <1>10 DEF E!CreateClusterNetwork
  <2>2. ext.pc = "create" /\ UNCHANGED <<whole, mesh, joined, behind>>
    BY <1>10 DEF E!CreateClusterNetwork
  <2>3. /\ networks \subseteq networks' /\ networks' \subseteq networks \cup {ext.net}
        /\ o = "ok" => ext.net \in networks'
    BY <2>1 DEF E!Effect
  <2>4. /\ ext.net \in Cluster \ whole /\ ext.net \notin networks
        /\ ext.made => E!OnMesh = {}
    BY <1>1, <2>2 DEF E!CreateInv
  <2>5. E!ExternalTypeOK'
    <3>1. ext' \in E!ExtState
      BY <1>1, <2>1 DEF E!ExternalTypeOK, E!ExtState, E!Phase, E!RollBack
    <3> QED
      BY <1>1, <2>2, <2>3, <2>4, <3>1 DEF E!ExternalTypeOK
  <2>6. \A c \in Ext : ext.net \notin joined[c]
    BY <1>1, <2>4 DEF E!ExternalTypeOK
  <2>7. CASE o = "ok"
    <3>1. ext' = [ext EXCEPT !.pc = "list"]
      BY <2>1, <2>7
    <3>2. E!NamesInv' /\ E!CreateInv' /\ E!RemovalInv'
      BY <1>1, <2>2, <2>3, <2>4, <2>6, <2>7, <3>1
        DEF E!ExternalTypeOK, E!ExtState, E!NamesInv, E!CreateInv, E!RemovalInv
    <3>3. E!KnownByMesh' /\ E!AllJoined'
      BY <1>1, <2>2, <3>1 DEF E!KnownByMesh, E!AllJoined, E!ExternalTypeOK, E!ExtState
    <3> QED
      BY <2>5, <3>2, <3>3 DEF E!ExternalInv
  <2>8. CASE o # "ok"
    <3>1. ext' = E!RollBack
      BY <2>1, <2>8
    <3>2. E!NamesInv' /\ E!CreateInv' /\ E!RemovalInv'
      BY <1>1, <2>2, <2>4, <3>1
        DEF E!ExternalTypeOK, E!ExtState, E!NamesInv, E!CreateInv, E!RemovalInv,
          E!RollBack
    <3>3. E!KnownByMesh' /\ E!AllJoined'
      BY <1>1, <2>2, <3>1 DEF E!KnownByMesh, E!AllJoined, E!ExternalTypeOK,
        E!ExtState, E!RollBack
    <3> QED
      BY <2>5, <3>2, <3>3 DEF E!ExternalInv
  <2> QED
    BY <2>7, <2>8
<1>11. ASSUME E!ListExternal
       PROVE  E!ExternalInv'
  <2>1. PICK o \in {"ok", "failed"} :
          /\ ext' = [ext EXCEPT !.pc = "join",
            !.todo = IF o = "ok" THEN E!OnMesh ELSE {}]
          /\ behind' = IF o = "ok" THEN behind ELSE behind \cup E!OnMesh
    BY <1>11 DEF E!ListExternal
  <2>2. ext.pc = "list" /\ UNCHANGED <<networks, whole, mesh, joined>>
    BY <1>11 DEF E!ListExternal
  <2>3. PICK todo \in SUBSET Ext :
          /\ todo \subseteq E!OnMesh /\ E!OnMesh \ behind' \subseteq todo
          /\ ext' = [ext EXCEPT !.pc = "join", !.todo = todo]
    BY <2>1
  <2>4. behind \subseteq behind' /\ behind' \subseteq behind \cup Ext
    BY <2>1
  <2>5. E!ExternalTypeOK'
    BY <1>1, <2>2, <2>3, <2>4 DEF E!ExternalTypeOK, E!ExtState, E!Phase
  <2>6. E!NamesInv' /\ E!CreateInv' /\ E!RemovalInv'
    BY <1>1, <2>2, <2>3 DEF E!ExternalTypeOK, E!ExtState, E!NamesInv, E!CreateInv,
      E!RemovalInv
  <2>7. E!KnownByMesh' /\ E!AllJoined'
    BY <1>1, <2>2, <2>3, <2>4 DEF E!KnownByMesh, E!AllJoined, E!ExternalTypeOK,
      E!ExtState
  <2> QED
    BY <2>5, <2>6, <2>7 DEF E!ExternalInv
<1>12. ASSUME E!CreateNodes
       PROVE  E!ExternalInv'
  <2>1. PICK o \in E!Outcome :
          /\ whole' = IF E!Effect(o) THEN whole \cup {ext.net} ELSE whole
          /\ ext' = IF o = "ok" THEN E!NoCommand ELSE E!RollBack
    BY <1>12 DEF E!CreateNodes
  <2>2. /\ ext.pc = "join" /\ ext.todo = {}
        /\ UNCHANGED <<networks, mesh, joined, behind>>
    BY <1>12 DEF E!CreateNodes
  <2>3. /\ ext.net \in Cluster /\ ext.net \in networks
        /\ ext.made => E!OnMesh = {}
        /\ \A c \in Ext : ext.net \in joined[c] => c \in E!OnMesh
        /\ \A c \in E!OnMesh \ behind : ext.net \in joined[c]
    BY <1>1, <2>2 DEF E!CreateInv
  <2>4. whole' \subseteq whole \cup {ext.net}
    BY <2>1
  <2>5. ext.names = {}
    BY <1>1, <2>2 DEF E!NamesInv
  <2>6. E!KnownByMesh'
    BY <1>1, <2>2, <2>3, <2>4 DEF E!KnownByMesh
  <2>7. \A c \in E!OnMesh \ behind : whole' \subseteq joined[c]
    BY <1>1, <2>3, <2>4, <2>5 DEF E!AllJoined
  <2>8. E!AllJoined'
    BY <2>2, <2>7 DEF E!AllJoined
  <2>9. E!ExternalTypeOK' /\ E!NamesInv' /\ E!CreateInv' /\ E!RemovalInv'
    <3>1. CASE o = "ok"
      <4>1. ext' = E!NoCommand
        BY <2>1, <3>1
      <4> QED
        <5>1. E!ExternalTypeOK'
          BY <1>1, <2>2, <2>3, <2>4, <4>1 DEF E!ExternalTypeOK, E!ExtState, E!Phase,
            E!NoCommand
        <5> QED
          BY <1>1, <2>2, <2>3, <2>4, <4>1, <5>1
            DEF E!ExternalTypeOK, E!NamesInv, E!CreateInv, E!RemovalInv, E!NoCommand
    <3>2. CASE o # "ok"
      <4>1. ext' = E!RollBack
        BY <2>1, <3>2
      <4>2. E!ExternalTypeOK'
        BY <1>1, <2>2, <2>3, <2>4, <4>1 DEF E!ExternalTypeOK, E!ExtState, E!Phase,
          E!RollBack
      <4> QED
        BY <1>1, <2>2, <2>3, <2>4, <2>5, <4>1, <4>2
          DEF E!ExternalTypeOK, E!ExtState, E!NamesInv, E!CreateInv, E!RemovalInv,
            E!RollBack
    <3> QED
      BY <3>1, <3>2
  <2> QED
    BY <2>6, <2>8, <2>9 DEF E!ExternalInv
<1>13. ASSUME E!DeleteContainers
       PROVE  E!ExternalInv'
  <2>1. PICK o \in E!Outcome :
          /\ whole' = IF E!Effect(o) THEN whole \ {ext.net} ELSE whole
          /\ IF o = "ok" THEN ext' = [ext EXCEPT !.pc = "network"] ELSE E!AfterRemoval(o)
    BY <1>13 DEF E!DeleteContainers
  <2>2. ext.pc = "delete" /\ UNCHANGED <<networks, mesh, joined, behind>>
    BY <1>13 DEF E!DeleteContainers
  <2>3. whole' \subseteq whole /\ (o = "ok" => whole' = whole \ {ext.net})
    BY <2>1 DEF E!Effect
  <2>4. ext.names = {}
    BY <1>1, <2>2 DEF E!NamesInv
  <2>5. E!KnownByMesh' /\ (\A c \in E!OnMesh \ behind : whole' \subseteq joined[c])
    BY <1>1, <2>2, <2>3, <2>4 DEF E!KnownByMesh, E!AllJoined
  <2>6. E!AllJoined'
    BY <2>2, <2>5 DEF E!AllJoined
  <2>7. E!ExternalTypeOK' /\ E!NamesInv' /\ E!CreateInv' /\ E!RemovalInv'
    <3>1. CASE o = "ok"
      <4>1. ext' = [ext EXCEPT !.pc = "network"]
        BY <2>1, <3>1
      <4>2. E!ExternalTypeOK'
        BY <1>1, <2>2, <2>3, <4>1 DEF E!ExternalTypeOK, E!ExtState, E!Phase
      <4> QED
        BY <1>1, <2>2, <2>3, <2>4, <3>1, <4>1, <4>2
          DEF E!ExternalTypeOK, E!ExtState, E!NamesInv, E!CreateInv, E!RemovalInv
    <3>2. CASE o # "ok" /\ ext.last /\ ext.rollback
      <4>1. ext' = [ext EXCEPT !.pc = "mesh", !.net = E!Mesh]
        BY <2>1, <3>2 DEF E!AfterRemoval
      <4>2. E!ExternalTypeOK'
        BY <1>1, <2>2, <2>3, <4>1 DEF E!ExternalTypeOK, E!ExtState, E!Phase
      <4>3. E!OnMesh' = {}
        BY <1>1, <2>2, <3>2 DEF E!RemovalInv
      <4> QED
        BY <1>1, <2>2, <2>4, <4>1, <4>2, <4>3
          DEF E!ExternalTypeOK, E!ExtState, E!NamesInv, E!CreateInv, E!RemovalInv
    <3>3. CASE o # "ok" /\ ~(ext.last /\ ext.rollback)
      <4>1. ext' = E!NoCommand
        BY <2>1, <3>3 DEF E!AfterRemoval
      <4> QED
        BY <1>1, <2>2, <2>3, <4>1
          DEF E!ExternalTypeOK, E!ExtState, E!Phase, E!NamesInv, E!CreateInv,
            E!RemovalInv, E!NoCommand
    <3> QED
      BY <3>1, <3>2, <3>3
  <2> QED
    BY <2>5, <2>6, <2>7 DEF E!ExternalInv
<1>14. ASSUME E!RemoveNetwork
       PROVE  E!ExternalInv'
  <2>1. PICK stay \in SUBSET E!Attached : E!DisconnectAll(stay)
    BY <1>14 DEF E!RemoveNetwork
  <2>2. ext.pc \in {"network", "mesh"} /\ UNCHANGED whole
    BY <1>14 DEF E!RemoveNetwork
  <2>3. ext.net \notin whole /\ ext.names = {} /\ (ext.pc = "network" => ext.net \in Cluster)
        /\ (ext.pc = "mesh" => ext.net = E!Mesh)
    BY <1>1, <2>2 DEF E!RemovalInv, E!NamesInv, E!ExternalTypeOK
  <2>4. \/ UNCHANGED <<networks, mesh>>
        \/ /\ \A c \in Ext : ext.net \notin joined'[c]
           /\ networks' = networks \ {ext.net}
           /\ mesh' = (mesh /\ ext.net # E!Mesh)
    BY <1>14 DEF E!RemoveNetwork, E!DisconnectAll
  <2>5. /\ \/ ext' = E!NoCommand
           \/ /\ ext.pc = "network" /\ ext.last
              /\ ext' = [ext EXCEPT !.pc = "mesh", !.net = E!Mesh]
        /\ behind' = IF ext.pc = "mesh" THEN behind \ E!Attached ELSE behind
    BY <1>14 DEF E!RemoveNetwork, E!AfterRemoval
  <2>6. /\ joined' \in [Ext -> SUBSET (Cluster \cup {E!Mesh})]
        /\ \A c \in Ext :
             joined'[c] \subseteq joined[c] /\ joined[c] \ {ext.net} \subseteq joined'[c]
    BY <1>1, <2>1 DEF E!DisconnectAll, E!ExternalTypeOK
  <2>7. E!ExternalTypeOK'
    <3>1. ext' \in E!ExtState /\ (behind \subseteq Ext)'
      <4>1. behind' \subseteq Ext
        BY <1>1, <2>5 DEF E!ExternalTypeOK, E!ExtState
      <4>2. ext' \in E!ExtState
        BY <1>0, <1>1, <2>5 DEF E!ExternalTypeOK, E!ExtState, E!Phase
      <4> QED
        BY <4>1, <4>2
    <3>2. (networks \subseteq Cluster)' /\ (whole \subseteq networks)' /\ (mesh \in BOOLEAN)'
      BY <1>1, <2>2, <2>3, <2>4 DEF E!ExternalTypeOK
    <3>3. ASSUME NEW c \in Ext
          PROVE  (joined[c] \subseteq E!RealmNetworks)'
      BY <1>1, <2>2, <2>3, <2>4, <2>6 DEF E!ExternalTypeOK
    <3> QED
      BY <2>6, <3>1, <3>2, <3>3 DEF E!ExternalTypeOK
  <2>8. E!NamesInv' /\ E!CreateInv' /\ E!RemovalInv'
    <3>1. CASE ext' = E!NoCommand
      BY <1>0, <3>1 DEF E!NamesInv, E!CreateInv, E!RemovalInv
    <3>2. CASE ext' # E!NoCommand
      <4>1. ext.last /\ ext.pc = "network" /\ ext' = [ext EXCEPT !.pc = "mesh",
        !.net = E!Mesh]
        BY <2>5, <3>2
      <4>2. whole' = {}
        BY <1>1, <2>2, <4>1 DEF E!RemovalInv
      <4> QED
        BY <1>1, <2>3, <4>1, <4>2 DEF E!ExternalTypeOK, E!ExtState, E!NamesInv,
          E!CreateInv, E!RemovalInv
    <3> QED
      BY <3>1, <3>2
  <2>9. E!KnownByMesh'
    <3>1. CASE ext.pc = "mesh"
      BY <1>1, <2>2, <2>6, <3>1 DEF E!KnownByMesh, E!RemovalInv
    <3>2. CASE ext.pc = "network"
      BY <1>1, <2>2, <2>3, <2>6, <3>2 DEF E!KnownByMesh
    <3> QED
      BY <2>2, <3>1, <3>2
  <2>10. E!AllJoined'
    <3>1. ext'.names = {}
      BY <1>0, <1>1, <2>3, <2>5 DEF E!ExternalTypeOK, E!ExtState
    <3>2. CASE ext.pc = "mesh"
      BY <1>1, <2>2, <2>6, <3>2 DEF E!AllJoined, E!RemovalInv
    <3>3. CASE ext.pc = "network"
      BY <1>1, <2>2, <2>3, <2>5, <2>6, <3>1, <3>3 DEF E!AllJoined
    <3> QED
      BY <2>2, <3>2, <3>3
  <2> QED
    BY <2>7, <2>8, <2>9, <2>10 DEF E!ExternalInv
<1>15. ASSUME E!Kill
       PROVE  E!ExternalInv'
  BY <1>1, <1>15 DEF E!Kill, E!NoCommand, E!ExternalInv, E!ExternalTypeOK,
    E!ExtState, E!Phase, E!NamesInv, E!CreateInv, E!RemovalInv, E!KnownByMesh,
    E!AllJoined
<1>16. CASE UNCHANGED E!extVars
  BY <1>1, <1>16 DEF E!extVars, E!ExternalInv, E!ExternalTypeOK, E!ExtState,
    E!Phase, E!NamesInv, E!CreateInv, E!RemovalInv, E!KnownByMesh, E!AllJoined
<1> QED
  BY <1>2, <1>3, <1>4, <1>5, <1>6, <1>7, <1>8, <1>9, <1>10, <1>11, <1>12, <1>13, <1>14,
    <1>15, <1>16 DEF E!Next

\* Wherever commands, faults and kills leave the networks, a container that
\* joins a cluster with nodes is on the mesh, and one on the mesh joins every
\* such cluster, or somebody was told (Connect, Disconnect, connectExternal).
THEOREM ExternalInvHolds ==
  ASSUME E!Mesh \notin Cluster
  PROVE  E!Spec => []E!ExternalInv
<1>1. E!Init => E!ExternalInv
  <2> SUFFICES ASSUME E!Init PROVE E!ExternalInv
    OBVIOUS
  <2>1. E!ExternalTypeOK
    BY DEF E!Init, E!NoCommand, E!ExternalTypeOK, E!ExtState, E!Phase, E!RealmNetworks
  <2> QED
    BY <2>1 DEF E!Init, E!NoCommand, E!ExternalInv, E!NamesInv, E!CreateInv,
      E!RemovalInv, E!KnownByMesh, E!AllJoined, E!OnMesh
<1>2. E!ExternalInv /\ [E!Next]_(E!extVars) => E!ExternalInv'
  BY ExternalStep
<1> QED
  BY <1>1, <1>2, PTL DEF E!Spec

-----------------------------------------------------------------------------
(* Queries (Queries).                                                      *)

\* What holds of an answer.
AnswerTrue == Q!ErrorsTrue /\ Q!NodesTrue /\ Q!ControlTrue /\ Q!Steady

\* An error that was true.
LEMMA EndsError ==
  ASSUME Q!QueryInv, ~Q!Over(query), Q!Reading, NEW e,
         query' = [query EXCEPT !.at = "over", !.answer = Q!Error(e), !.faults = query'.faults],
         query'.faults \in Nat,
         e = "no cluster" =>
            \E w \in query.been : Q!Existing(w.nodes) = {} /\ (query.kind # "node" => ~w.net),
         e = "no node" => \E w \in query.been : w.nodes[query.node] = "none",
         e = "gone" => \E v, w \in query.been : Q!Existing(v.nodes) # Q!Existing(w.nodes)
  PROVE  Q!QueryInv'
<1>1. /\ query \in Q!Query(query) /\ Q!QueryTypeOK /\ Q!WorldInv
  BY DEF Q!QueryInv, Q!QueryTypeOK
<1>2. query' \in Q!Query(query')
  BY <1>1 DEF Q!Query, Q!Phase
<1>3. /\ query'.kind = query.kind /\ query'.node = query.node /\ query'.been = query.been
      /\ query'.at = "over" /\ query'.answer = [error |-> e]
  BY <1>1 DEF Q!Query, Q!Error
<1>4. Q!QueryTypeOK' /\ Q!WorldInv'
  BY <1>1, <1>2, <1>3 DEF Q!QueryTypeOK, Q!WorldInv, Q!Reading, Q!Over, Q!World
<1>5. DOMAIN query'.answer = {"error"} /\ query'.answer.error = e
  <2> DEFINE r == [error |-> e]
  <2>1. DOMAIN r = {"error"} /\ r.error = e
    OBVIOUS
  <2> HIDE DEF r
  <2> QED
    BY <1>3, <2>1 DEF r
<1>6. AnswerTrue'
  BY <1>3, <1>5 DEF AnswerTrue, Q!ErrorsTrue, Q!NodesTrue, Q!ControlTrue, Q!Steady,
    Q!Has
<1> QED
  BY <1>3, <1>4, <1>6 DEF Q!QueryInv, Q!Over, AnswerTrue

\* The list of the nodes, with or without what inspect told.
LEMMA EndsNodes ==
  ASSUME Q!QueryInv, ~Q!Over(query), Q!Reading, query.kind = "nodes", query.at # "list", NEW i,
         query' = [query EXCEPT !.at = "over", !.answer = [nodes |-> query.listed, info |-> i],
                                !.faults = query'.faults],
         query'.faults \in Nat
  PROVE  Q!QueryInv'
<1>1. /\ query \in Q!Query(query) /\ Q!QueryTypeOK /\ Q!WorldInv /\ Q!NotedInv
  BY DEF Q!QueryInv, Q!QueryTypeOK
<1>2. query' \in Q!Query(query')
  BY <1>1 DEF Q!Query, Q!Phase
<1>3. /\ query'.kind = query.kind /\ query'.node = query.node /\ query'.been = query.been
      /\ query'.at = "over" /\ query'.answer = [nodes |-> query.listed, info |-> i]
  BY <1>1 DEF Q!Query
<1>4. Q!QueryTypeOK' /\ Q!WorldInv'
  BY <1>1, <1>2, <1>3 DEF Q!QueryTypeOK, Q!WorldInv, Q!Reading, Q!Over, Q!World
<1>5. DOMAIN query'.answer = {"nodes", "info"} /\ query'.answer.nodes = query.listed
  BY <1>3
<1>6. \E w \in query.been : w.nodes = query.listed
  BY <1>1 DEF Q!NotedInv
<1>7. AnswerTrue'
  BY <1>3, <1>5, <1>6 DEF AnswerTrue, Q!ErrorsTrue, Q!NodesTrue, Q!ControlTrue,
    Q!Steady, Q!Has
<1> QED
  BY <1>3, <1>4, <1>7 DEF Q!QueryInv, Q!Over, AnswerTrue

\* The nodes that were found healthy, and who is in control by the
\* heartbeat b.
LEMMA ControlHolds ==
  ASSUME Q!QueryInv, ~Q!Over(query), NEW b \in Q!Beat,
         b.fresh => \E w \in query.been : w.beat = b,
         NEW c \in Q!InControl(b, query.healthy)
  PROVE  /\ c = b.by
         /\ \E w \in query.been : w.nodes[c] = "running" /\ c \in w.slurm
         /\ \E w \in query.been : w.beat = [by |-> c, fresh |-> TRUE]
<1>1. b.fresh /\ b.by = c /\ c \in query.healthy
  BY DEF Q!InControl
<1>2. query.healthy \subseteq Q!Node /\ Q!NotedInv
  BY DEF Q!QueryInv, Q!QueryTypeOK, Q!Query
<1>3. b = [by |-> c, fresh |-> TRUE]
  BY <1>1 DEF Q!Beat
<1> QED
  BY <1>1, <1>2, <1>3 DEF Q!NotedInv

\* The answer about one node.
LEMMA EndsNode ==
  ASSUME Q!QueryInv, ~Q!Over(query), Q!Reading, query.kind = "node",
         NEW i, NEW b \in Q!Beat, NEW k \in SUBSET (Q!InControl(b, query.healthy) \cap {query.node}),
         query' = [query EXCEPT !.at = "over",
                      !.answer = [node |-> i, healthy |-> query.healthy, control |-> k],
                      !.faults = query'.faults],
         query'.faults \in Nat, query'.faults >= query.faults,
         b.fresh => \E w \in query.been : w.beat = b,
         query'.faults = 0 /\ Q!Still =>
            /\ query.healthy = {query.node} \cap Q!Answering
            /\ k = IF nodes[Backup] # "none" THEN {query.node} \cap Q!Controlling ELSE {}
  PROVE  Q!QueryInv'
<1>1. /\ query \in Q!Query(query) /\ Q!QueryTypeOK /\ Q!WorldInv /\ Q!NotedInv
  BY DEF Q!QueryInv, Q!QueryTypeOK
<1>2. query' \in Q!Query(query')
  BY <1>1 DEF Q!Query, Q!Phase
<1>3. /\ query'.kind = query.kind /\ query'.node = query.node /\ query'.been = query.been
      /\ query'.at = "over"
      /\ query'.answer = [node |-> i, healthy |-> query.healthy, control |-> k]
  BY <1>1 DEF Q!Query
<1>4. Q!QueryTypeOK' /\ Q!WorldInv'
  BY <1>1, <1>2, <1>3 DEF Q!QueryTypeOK, Q!WorldInv, Q!Reading, Q!Over, Q!World
<1>5. /\ DOMAIN query'.answer = {"node", "healthy", "control"}
      /\ query'.answer.healthy = query.healthy /\ query'.answer.control = k
  BY <1>3
<1>6. Q!ErrorsTrue' /\ Q!NodesTrue'
  BY <1>1, <1>3, <1>5 DEF Q!ErrorsTrue, Q!NodesTrue, Q!Has, Q!NotedInv
<1>7. Q!ControlTrue'
  <2>1. \A c \in k :
          /\ c = b.by
          /\ \E w \in query.been : w.nodes[c] = "running" /\ c \in w.slurm
          /\ \E w \in query.been : w.beat = [by |-> c, fresh |-> TRUE]
    BY ControlHolds
  <2> QED
    BY <2>1, <1>3, <1>5 DEF Q!ControlTrue, Q!Has
<1>8. Q!Steady'
  <2>1. Q!Still' => query'.faults = 0 /\ Q!Still
    BY <1>1, <1>3 DEF Q!Still, Q!Reading, Q!World, Q!Query
  <2> QED
    BY <1>3, <1>5, <2>1 DEF Q!Steady, Q!Has, Q!Answering, Q!Controlling, Q!Reading
<1> QED
  BY <1>3, <1>4, <1>6, <1>7, <1>8 DEF Q!QueryInv, Q!Over

\* A query that goes on.
LEMMA GoesOnStep ==
  ASSUME Q!QueryInv, Q!Reading, query'.at # "over",
         (~Q!Over(query) /\ query'.been = query.been) \/ query'.been = {Q!World},
         query' \in Q!Query(query'), query'.kind = "node" => query'.node \in Q!Node,
         Q!PhaseInv', Q!NotedInv', Q!StillInv'
  PROVE  Q!QueryInv'
<1>1. Q!QueryTypeOK' /\ Q!WorldInv'
  BY DEF Q!QueryInv, Q!QueryTypeOK, Q!WorldInv, Q!Reading, Q!Over, Q!World
<1>2. AnswerTrue'
  BY DEF AnswerTrue, Q!ErrorsTrue, Q!NodesTrue, Q!ControlTrue, Q!Steady, Q!Has, Q!Over
<1> QED
  BY <1>1, <1>2 DEF Q!QueryInv, AnswerTrue

LEMMA BeginStep ==
  ASSUME Q!QueryInv, NEW k \in {"status", "nodes", "node"}, NEW n,
         n \in Q!Node \/ (n = None /\ k # "node"), Q!Begin(k, n)
  PROVE  Q!QueryInv'
<1>1. Q!QueryTypeOK
  BY DEF Q!QueryInv
<1>2. Q!Reading /\ query' = Q!Started(k, n)
  BY DEF Q!Begin
<1>3. Q!World \in [nodes : [Q!Node -> Q!AtNode], slurm : SUBSET Q!Node, beat : Q!Beat, net : BOOLEAN]
  BY <1>1 DEF Q!World, Q!QueryTypeOK
<1>4. query' \in Q!Query(query')
  <2>1. Q!NoBeat \in Q!Beat /\ [m \in Q!Node |-> "none"] \in [Q!Node -> Q!AtNode] /\ "none" \in Q!AtNode
    BY DEF Q!NoBeat, Q!Beat, Q!AtNode
  <2> QED
    BY <1>2, <1>3, <2>1 DEF Q!Query, Q!Started, Q!Phase
<1>5. /\ query'.kind = k /\ query'.node = n /\ query'.at = IF k = "node" THEN "inspect" ELSE "list"
      /\ query'.info = [m \in Q!Node |-> "none"] /\ query'.listed = [m \in Q!Node |-> "none"]
      /\ query'.todo = (IF k = "node" THEN {n} ELSE {}) /\ query'.healthy = {}
      /\ query'.beat = Q!NoBeat /\ query'.net = None /\ query'.been = {Q!World}
  BY <1>2 DEF Q!Started
<1>6. Q!PhaseInv'
  BY <1>5 DEF Q!PhaseInv, Q!Existing
<1>7. Q!NotedInv'
  BY <1>5 DEF Q!NotedInv, Q!Existing, Q!NoBeat
<1>8. Q!StillInv'
  BY <1>5 DEF Q!StillInv, Q!Existing
<1> QED
  BY <1>2, <1>4, <1>5, <1>6, <1>7, <1>8, GoesOnStep

LEMMA ListStep ==
  ASSUME Q!QueryInv, Q!List
  PROVE  Q!QueryInv'
<1>1. /\ query \in Q!Query(query) /\ Q!QueryTypeOK /\ Q!WorldInv /\ ~Q!Over(query)
      /\ Q!PhaseInv /\ Q!NotedInv /\ Q!StillInv
  BY DEF Q!QueryInv, Q!QueryTypeOK, Q!List, Q!Over
<1>2. Q!Reading /\ query.at = "list"
  BY DEF Q!List
<1> DEFINE at == IF Q!Existing(nodes) = {} THEN "exists" ELSE "inspect"
<1>3. query' = [query EXCEPT !.listed = nodes, !.todo = Q!Existing(nodes), !.at = at]
  BY DEF Q!List
<1>4. nodes \in [Q!Node -> Q!AtNode] /\ Q!Existing(nodes) \in SUBSET Q!Node /\ at \in {"exists", "inspect"}
  BY <1>1 DEF Q!QueryTypeOK, Q!Existing
<1>5. query' \in Q!Query(query')
  <2> DEFINE todo == Q!Existing(nodes)
  <2> HIDE DEF todo, at
  <2>1. query' = [query EXCEPT !.listed = nodes, !.todo = todo, !.at = at] /\ at \in Q!Phase
    BY <1>3, <1>4 DEF todo, Q!Phase
  <2>2. todo \in SUBSET Q!Node
    BY <1>4 DEF todo
  <2> QED
    BY <1>1, <1>4, <2>1, <2>2 DEF Q!Query
<1>6. /\ query'.kind = query.kind /\ query'.node = query.node /\ query'.at = at
      /\ query'.info = query.info /\ query'.listed = nodes
      /\ query'.todo = Q!Existing(nodes) /\ query'.healthy = query.healthy
      /\ query'.beat = query.beat /\ query'.net = query.net /\ query'.been = query.been
  BY <1>1, <1>3 DEF Q!Query
<1>7. /\ query.kind # "node" /\ query.info = [n \in Q!Node |-> "none"] /\ Q!World \in query.been
      /\ query.net = None
  BY <1>1, <1>2 DEF Q!PhaseInv, Q!WorldInv
<1>8. Q!PhaseInv'
  BY <1>1, <1>2, <1>4, <1>6, <1>7 DEF Q!PhaseInv, Q!Existing
<1>9. Q!NotedInv'
  BY <1>1, <1>2, <1>4, <1>6, <1>7 DEF Q!NotedInv, Q!Existing, Q!World
<1>10. Q!StillInv'
  BY <1>1, <1>2, <1>4, <1>6, <1>7 DEF Q!StillInv, Q!Existing, Q!Still, Q!World,
    Q!Reading
<1> QED
  BY <1>1, <1>2, <1>4, <1>5, <1>6, <1>8, <1>9, <1>10, GoesOnStep DEF Q!QueryTypeOK

LEMMA ExistsStep ==
  ASSUME Q!QueryInv, Q!Exists
  PROVE  Q!QueryInv'
<1>1. /\ query \in Q!Query(query) /\ Q!QueryTypeOK /\ Q!WorldInv /\ ~Q!Over(query)
      /\ Q!PhaseInv /\ Q!NotedInv /\ Q!StillInv
  BY DEF Q!QueryInv, Q!QueryTypeOK, Q!Exists, Q!Over
<1>2. Q!Reading /\ query.at = "exists" /\ query.kind \in {"status", "nodes"}
  BY <1>1 DEF Q!Exists, Q!PhaseInv, Q!Query
<1>3. query.faults \in Nat
  BY <1>1 DEF Q!Query
<1>4. CASE ~net
  <2>1. Q!Existing(Q!World.nodes) = {} /\ ~Q!World.net /\ Q!World \in query.been
    BY <1>1, <1>4 DEF Q!WorldInv, Q!World
  <2>4. \E w \in query.been : Q!Existing(w.nodes) = {} /\ (query.kind # "node" => ~w.net)
    BY <2>1
  <2>2. query' = [query EXCEPT !.at = "over", !.answer = Q!Error("no cluster")]
    BY <1>4 DEF Q!Exists, Q!Ends
  <2>3. query' = [query EXCEPT !.at = "over", !.answer = Q!Error("no cluster"), !.faults = query'.faults]
        /\ query'.faults = query.faults
    BY <1>1, <2>2 DEF Q!Query
  <2>5. query'.faults \in Nat
    BY <1>3, <2>3
  <2>6. "no cluster" # "no node" /\ "no cluster" # "gone"
    OBVIOUS
  <2> QED
    BY <1>1, <1>2, <2>3, <2>4, <2>5, <2>6, EndsError, Zenon
<1>5. CASE net /\ query.kind = "status"
  <2>1. query' = [query EXCEPT !.at = "probe"]
    BY <1>5 DEF Q!Exists, Q!GoesOn
  <2>2. query' \in Q!Query(query')
    BY <1>1, <2>1 DEF Q!Query, Q!Phase
  <2>3. /\ query'.kind = query.kind /\ query'.node = query.node /\ query'.at = "probe"
        /\ query'.info = query.info /\ query'.listed = query.listed
        /\ query'.todo = query.todo /\ query'.healthy = query.healthy
        /\ query'.beat = query.beat /\ query'.net = query.net /\ query'.been = query.been
        /\ query'.faults = query.faults
    BY <1>1, <2>1 DEF Q!Query
  <2>4. Q!PhaseInv'
    BY <1>1, <1>2, <1>5, <2>3 DEF Q!PhaseInv, Q!Existing, Q!ToProbe
  <2>6. Q!NotedInv'
    BY <1>1, <1>2, <1>5, <2>3 DEF Q!NotedInv, Q!Existing
  <2>5. ASSUME Q!Still' PROVE Q!StillInv!2'
    <3>1. Q!StillInv!2 /\ query.todo = {} /\ query.healthy = {}
      BY <1>1, <1>2, <2>3, <2>5 DEF Q!PhaseInv, Q!StillInv, Q!Still, Q!World, Q!Reading
    <3> QED
      BY <1>2, <1>5, <2>3, <3>1 DEF Q!Existing, Q!Reading
  <2> QED
    BY <1>1, <1>2, <1>5, <2>2, <2>3, <2>4, <2>5, <2>6, GoesOnStep DEF Q!StillInv
<1>6. CASE net /\ query.kind = "nodes"
  <2>1. query' = [query EXCEPT !.at = "over", !.answer = [nodes |-> query.listed, info |-> query.info]]
    BY <1>6 DEF Q!Exists, Q!Ends
  <2>2. query' = [query EXCEPT !.at = "over", !.answer = [nodes |-> query.listed, info |-> query.info],
                               !.faults = query'.faults]
        /\ query'.faults = query.faults
    BY <1>1, <2>1 DEF Q!Query
  <2> QED
    BY <1>1, <1>2, <1>3, <1>6, <2>2, EndsNodes
<1> QED
  BY <1>1, <1>2, <1>4, <1>5, <1>6 DEF Q!QueryTypeOK

LEMMA InspectStep ==
  ASSUME Q!QueryInv, NEW n \in Q!Node, Q!Inspect(n)
  PROVE  Q!QueryInv'
<1>1. /\ query \in Q!Query(query) /\ Q!QueryTypeOK /\ Q!WorldInv /\ ~Q!Over(query)
      /\ Q!PhaseInv /\ Q!NotedInv /\ Q!StillInv
  BY DEF Q!QueryInv, Q!QueryTypeOK, Q!Inspect, Q!Over
<1>2. /\ Q!Reading /\ query.at = "inspect" /\ n \in query.todo /\ Q!World \in query.been
      /\ query.kind \in {"status", "nodes", "node"} /\ query.faults \in Nat
  BY <1>1 DEF Q!Inspect, Q!WorldInv, Q!Query
<1>3. CASE nodes[n] = "none" /\ query.kind = "status"
  <2>1. query' = [query EXCEPT !.at = "over", !.answer = Q!Error("gone")]
    BY <1>3 DEF Q!Inspect, Q!Ends
  <2>2. query' = [query EXCEPT !.at = "over", !.answer = Q!Error("gone"), !.faults = query'.faults]
        /\ query'.faults \in Nat
    BY <1>1, <1>2, <2>1 DEF Q!Query
  <2>3. PICK v \in query.been : v.nodes = query.listed
    BY <1>1, <1>2, <1>3 DEF Q!NotedInv
  <2>4. n \in Q!Existing(v.nodes) /\ n \notin Q!Existing(Q!World.nodes)
    BY <1>1, <1>2, <1>3, <2>3 DEF Q!PhaseInv, Q!Existing, Q!World
  <2>5. \E u, w \in query.been : Q!Existing(u.nodes) # Q!Existing(w.nodes)
    BY <1>2, <2>4
  <2>6. "gone" # "no node" /\ "gone" # "no cluster"
    OBVIOUS
  <2> QED
    BY <1>1, <1>2, <2>2, <2>5, <2>6, EndsError, Zenon
<1>4. CASE nodes[n] = "none" /\ query.kind = "nodes"
  <2> DEFINE i == [m \in Q!Node |-> "none"]
  <2>1. query' = [query EXCEPT !.at = "over", !.answer = [nodes |-> query.listed, info |-> i]]
    BY <1>4 DEF Q!Inspect, Q!Ends
  <2> HIDE DEF i
  <2>2. query' = [query EXCEPT !.at = "over", !.answer = [nodes |-> query.listed, info |-> i],
                               !.faults = query'.faults]
        /\ query'.faults \in Nat
    BY <1>1, <1>2, <2>1 DEF Q!Query
  <2>3. query.at # "list"
    BY <1>2
  <2> QED
    BY <1>1, <1>2, <1>4, <2>2, <2>3, EndsNodes
<1>5. CASE nodes[n] = "none" /\ query.kind = "node"
  <2>1. query' = [query EXCEPT !.at = "resolve"]
    BY <1>5 DEF Q!Inspect, Q!GoesOn
  <2>2. query' \in Q!Query(query')
    BY <1>1, <2>1 DEF Q!Query, Q!Phase
  <2>3. /\ query'.kind = query.kind /\ query'.node = query.node /\ query'.at = "resolve"
        /\ query'.info = query.info /\ query'.listed = query.listed
        /\ query'.todo = query.todo /\ query'.healthy = query.healthy
        /\ query'.beat = query.beat /\ query'.net = query.net /\ query'.been = query.been
    BY <1>1, <2>1 DEF Q!Query
  <2>4. n = query.node /\ Q!Existing(query.info) = {}
    BY <1>1, <1>2, <1>5 DEF Q!PhaseInv
  <2>5. Q!PhaseInv'
    BY <1>1, <1>2, <1>5, <2>3, <2>4 DEF Q!PhaseInv
  <2>6. Q!NotedInv'
    <3>1. \E w \in query.been : w.nodes[query.node] = "none"
      BY <1>2, <1>5, <2>4 DEF Q!World
    <3> QED
      BY <1>1, <1>2, <1>5, <2>3, <2>4, <3>1 DEF Q!NotedInv, Q!PhaseInv, Q!Existing
  <2>7. Q!StillInv'
    BY <1>1, <1>2, <1>5, <2>3, <2>4 DEF Q!StillInv, Q!PhaseInv, Q!Existing
  <2> QED
    BY <1>1, <1>2, <2>2, <2>3, <2>5, <2>6, <2>7, GoesOnStep DEF Q!QueryTypeOK
<1>6. CASE nodes[n] # "none"
  <2> DEFINE info == [query.info EXCEPT ![n] = nodes[n]]
             todo == query.todo \ {n}
  <2>1. /\ query.info \in [Q!Node -> Q!AtNode] /\ info \in [Q!Node -> Q!AtNode] /\ todo \in SUBSET Q!Node
        /\ info[n] = nodes[n] /\ \A m \in Q!Node \ {n} : info[m] = query.info[m]
    BY <1>1 DEF Q!Query, Q!QueryTypeOK
  <2>2. Q!Existing(info) = Q!Existing(query.info) \cup {n}
    BY <1>6, <2>1 DEF Q!Existing
  <2>3. CASE todo # {} \/ query.kind # "nodes"
    <3> DEFINE at == IF todo = {} THEN "probe" ELSE query.at
    <3>1. query' = [query EXCEPT !.info = info, !.todo = todo, !.at = at]
      BY <1>2, <1>6, <2>3 DEF Q!Inspect
    <3>2. at \in {"probe", "inspect"} /\ (at = "probe" <=> todo = {})
      BY <1>2
    <3> HIDE DEF info, todo, at
    <3>3. query' \in Q!Query(query')
      BY <1>1, <2>1, <3>1, <3>2 DEF Q!Query, Q!Phase
    <3>4. /\ query'.kind = query.kind /\ query'.node = query.node /\ query'.at = at
          /\ query'.info = info /\ query'.listed = query.listed
          /\ query'.todo = todo /\ query'.healthy = query.healthy
          /\ query'.beat = query.beat /\ query'.net = query.net /\ query'.been = query.been
          /\ query'.faults = query.faults
      BY <1>1, <3>1 DEF Q!Query
    <3>5. Q!PhaseInv'
      <4>1. query.kind = "node" => todo = {} /\ Q!Existing(info) = {query.node}
        BY <1>1, <1>2, <2>2 DEF Q!PhaseInv, todo
      <4>2. query.kind # "node" =>
               /\ todo \subseteq Q!Existing(query.listed)
               /\ Q!Existing(info) = Q!Existing(query.listed) \ todo
        BY <1>1, <1>2, <2>2 DEF Q!PhaseInv, todo
      <4> QED
        BY <1>1, <1>2, <2>3, <3>2, <3>4, <4>1, <4>2 DEF Q!PhaseInv
    <3>6. Q!NotedInv'
      <4>1. \A m \in Q!Existing(info) : \E w \in query.been : w.nodes[m] = info[m]
        <5>1. \E w \in query.been : w.nodes[n] = info[n]
          BY <1>2, <2>1 DEF Q!World
        <5>2. ASSUME NEW m \in Q!Existing(query.info), m # n
              PROVE  \E w \in query.been : w.nodes[m] = info[m]
          BY <1>1, <2>1, <5>2 DEF Q!NotedInv, Q!Existing
        <5> QED
          BY <2>2, <5>1, <5>2
      <4> QED
        BY <1>1, <1>2, <3>2, <3>4, <4>1 DEF Q!NotedInv
    <3>7. Q!StillInv'
      <4>1. SUFFICES ASSUME Q!Still' PROVE Q!StillInv'
        BY DEF Q!StillInv
      <4>2. Q!Still
        BY <1>2, <3>4, <4>1 DEF Q!Still, Q!Reading, Q!World
      <4>3. \A m \in Q!Existing(info) : info[m] = nodes[m]
        BY <1>1, <2>1, <2>2, <4>2 DEF Q!StillInv, Q!Existing
      <4>4. query.healthy = {}
        BY <1>1, <1>2 DEF Q!PhaseInv
      <4> QED
        BY <1>1, <1>2, <3>2, <3>4, <4>2, <4>3, <4>4 DEF Q!StillInv, Q!Reading
    <3> QED
      BY <1>1, <1>2, <3>2, <3>3, <3>4, <3>5, <3>6, <3>7, GoesOnStep DEF Q!QueryTypeOK
  <2>4. CASE ~(todo # {} \/ query.kind # "nodes")
    <3>1. query' = [query EXCEPT !.at = "over", !.answer = [nodes |-> query.listed, info |-> info]]
      BY <1>6, <2>4 DEF Q!Inspect, Q!Ends
    <3> HIDE DEF info
    <3>2. query' = [query EXCEPT !.at = "over", !.answer = [nodes |-> query.listed, info |-> info],
                                 !.faults = query'.faults]
          /\ query'.faults \in Nat
      BY <1>1, <1>2, <3>1 DEF Q!Query
    <3>3. query.at # "list"
      BY <1>2
    <3> QED
      BY <1>1, <1>2, <2>4, <3>2, <3>3, EndsNodes
  <2> QED
    BY <2>3, <2>4
<1> QED
  BY <1>2, <1>3, <1>4, <1>5, <1>6

LEMMA ResolveStep ==
  ASSUME Q!QueryInv, Q!Resolve
  PROVE  Q!QueryInv'
<1>1. /\ query \in Q!Query(query) /\ Q!QueryTypeOK /\ Q!WorldInv /\ ~Q!Over(query)
      /\ Q!PhaseInv /\ Q!NotedInv /\ Q!StillInv
  BY DEF Q!QueryInv, Q!QueryTypeOK, Q!Resolve, Q!Over
<1>2. Q!Reading /\ query.at = "resolve" /\ Q!World \in query.been /\ query.faults \in Nat
  BY <1>1 DEF Q!Resolve, Q!WorldInv, Q!Query
<1> DEFINE e == IF Q!Existing(nodes) = {} THEN "no cluster" ELSE "no node"
<1>3. query' = [query EXCEPT !.at = "over", !.answer = Q!Error(e)]
  BY DEF Q!Resolve, Q!Ends
<1>4. e = "no cluster" => \E w \in query.been : Q!Existing(w.nodes) = {} /\ (query.kind # "node" => ~w.net)
  BY <1>1, <1>2 DEF Q!PhaseInv, Q!World
<1>5. \E w \in query.been : w.nodes[query.node] = "none"
  BY <1>1, <1>2 DEF Q!NotedInv
<1>6. e # "gone"
  OBVIOUS
<1> HIDE DEF e
<1>7. query' = [query EXCEPT !.at = "over", !.answer = Q!Error(e), !.faults = query'.faults]
      /\ query'.faults \in Nat
  BY <1>1, <1>2, <1>3 DEF Q!Query
<1> QED
  BY <1>1, <1>2, <1>4, <1>5, <1>6, <1>7, EndsError, Zenon

LEMMA ProbeStep ==
  ASSUME Q!QueryInv, NEW n \in Q!Node, Q!Probe(n)
  PROVE  Q!QueryInv'
<1>1. /\ query \in Q!Query(query) /\ Q!QueryTypeOK /\ Q!WorldInv /\ ~Q!Over(query)
      /\ Q!PhaseInv /\ Q!NotedInv /\ Q!StillInv
  BY DEF Q!QueryInv, Q!QueryTypeOK, Q!Probe, Q!Over
<1>2. /\ Q!Reading /\ query.at = "probe" /\ n \in Q!ToProbe \ query.todo /\ Q!World \in query.been
  BY <1>1 DEF Q!Probe, Q!WorldInv
<1> DEFINE found == IF nodes[n] = "running" /\ n \in slurm THEN query.healthy \cup {n} ELSE query.healthy
<1>3. query' = [query EXCEPT !.todo = query.todo \cup {n}, !.healthy = found]
  BY DEF Q!Probe
<1>4. found \in SUBSET Q!Node
  BY <1>1 DEF Q!Query
<1>5. found \subseteq query.healthy \cup {n}
      /\ (n \in found => n \in query.healthy \/ n \in Q!Answering)
      /\ (n \in Q!Answering => n \in found) /\ query.healthy \subseteq found
  BY DEF Q!Answering
<1> HIDE DEF found
<1>6. query' \in Q!Query(query')
  BY <1>1, <1>3, <1>4 DEF Q!Query
<1>7. /\ query'.kind = query.kind /\ query'.node = query.node /\ query'.at = query.at
      /\ query'.info = query.info /\ query'.listed = query.listed
      /\ query'.todo = query.todo \cup {n} /\ query'.healthy = found
      /\ query'.beat = query.beat /\ query'.net = query.net /\ query'.been = query.been
      /\ query'.faults = query.faults
  BY <1>1, <1>3 DEF Q!Query
<1>8. Q!PhaseInv'
  BY <1>1, <1>2, <1>7 DEF Q!PhaseInv, Q!ToProbe
<1>9. Q!NotedInv'
  <2>1. \A m \in found : \E w \in query.been : w.nodes[m] = "running" /\ m \in w.slurm
    <3>1. n \in Q!Answering => Q!World.nodes[n] = "running" /\ n \in Q!World.slurm
      BY DEF Q!Answering, Q!World
    <3> QED
      BY <1>1, <1>2, <1>5, <3>1 DEF Q!NotedInv
  <2> QED
    BY <1>1, <1>2, <1>7, <2>1 DEF Q!NotedInv
<1>10. Q!StillInv'
  <2>1. SUFFICES ASSUME Q!Still' PROVE Q!StillInv'
    BY DEF Q!StillInv
  <2>2. Q!Still
    BY <1>2, <1>7, <2>1 DEF Q!Still, Q!Reading, Q!World
  <2>3. Q!Answering' = Q!Answering
    BY <1>2 DEF Q!Answering, Q!Reading
  <2>4. query.healthy = query.todo \cap Q!Answering
    BY <1>1, <1>2, <2>2 DEF Q!StillInv
  <2>5. found = (query.todo \cup {n}) \cap Q!Answering
    BY <1>2, <1>5, <2>4
  <2> QED
    BY <1>1, <1>2, <1>7, <2>2, <2>3, <2>5 DEF Q!StillInv, Q!Reading
<1> QED
  BY <1>1, <1>2, <1>6, <1>7, <1>8, <1>9, <1>10, GoesOnStep DEF Q!QueryTypeOK

LEMMA NetworkStep ==
  ASSUME Q!QueryInv, Q!CheckNetwork \/ Q!CheckNetworkLate
  PROVE  Q!QueryInv'
<1>1. query.at \in {"probe", "answer"}
  BY DEF Q!CheckNetwork, Q!CheckNetworkLate
<1>2. /\ query \in Q!Query(query) /\ Q!QueryTypeOK /\ Q!WorldInv /\ ~Q!Over(query)
      /\ Q!PhaseInv /\ Q!NotedInv /\ Q!StillInv
  BY <1>1 DEF Q!QueryInv, Q!QueryTypeOK, Q!Over
<1>3. Q!Reading /\ query' = [query EXCEPT !.net = net]
  BY DEF Q!CheckNetwork, Q!CheckNetworkLate
<1>4. query' \in Q!Query(query')
  BY <1>2, <1>3 DEF Q!Query, Q!QueryTypeOK
<1>5. /\ query'.kind = query.kind /\ query'.node = query.node /\ query'.at = query.at
      /\ query'.info = query.info /\ query'.listed = query.listed
      /\ query'.todo = query.todo /\ query'.healthy = query.healthy
      /\ query'.beat = query.beat /\ query'.net = net /\ query'.been = query.been
      /\ query'.faults = query.faults
  BY <1>2, <1>3 DEF Q!Query
<1>6. Q!PhaseInv'
  BY <1>1, <1>2, <1>5 DEF Q!PhaseInv, Q!ToProbe, Q!HasPair
<1>7. Q!NotedInv'
  BY <1>1, <1>2, <1>5 DEF Q!NotedInv
<1>8. Q!StillInv'
  <2>1. SUFFICES ASSUME Q!Still' PROVE Q!StillInv'
    BY DEF Q!StillInv
  <2>2. Q!Still
    BY <1>3, <1>5, <2>1 DEF Q!Still, Q!Reading, Q!World
  <2>3. Q!Answering' = Q!Answering /\ Q!Controlling' = Q!Controlling /\ Q!ToProbe' = Q!ToProbe
    BY <1>3, <1>5 DEF Q!Answering, Q!Controlling, Q!Reading, Q!ToProbe
  <2> QED
    BY <1>1, <1>2, <1>3, <1>5, <2>2, <2>3 DEF Q!StillInv, Q!Reading
<1> QED
  BY <1>1, <1>2, <1>3, <1>4, <1>5, <1>6, <1>7, <1>8, GoesOnStep DEF Q!QueryTypeOK

\* A healthy node is one of those that were probed, and they are the nodes
\* that run, as far as the query has looked.
LEMMA HealthySteady ==
  ASSUME Q!QueryInv, ~Q!Over(query), query.at \in {"probe", "beat", "answer"},
         Q!ToProbe \subseteq query.todo, Q!Still
  PROVE  query.healthy = Q!Existing(query.info) \cap Q!Answering
<1>1. Q!PhaseInv /\ Q!StillInv
  BY DEF Q!QueryInv
<1>2. query.healthy = query.todo \cap Q!Answering /\ query.todo = Q!ToProbe
  BY <1>1 DEF Q!PhaseInv, Q!StillInv
<1>3. \A n \in Q!Existing(query.info) : query.info[n] = nodes[n]
  BY <1>1 DEF Q!StillInv
<1> QED
  BY <1>2, <1>3 DEF Q!ToProbe, Q!Existing, Q!Answering

LEMMA PartnerStep ==
  ASSUME Primary # Backup, Q!QueryInv, Q!InspectPartner
  PROVE  Q!QueryInv'
<1>1. /\ query.at = "probe" /\ query.kind = "node" /\ Q!ToProbe \subseteq query.todo /\ Q!Reading
  BY DEF Q!InspectPartner, Q!Probed
<1>2. /\ query \in Q!Query(query) /\ Q!QueryTypeOK /\ Q!WorldInv /\ ~Q!Over(query)
      /\ Q!PhaseInv /\ Q!NotedInv /\ Q!StillInv
  BY <1>1 DEF Q!QueryInv, Q!QueryTypeOK, Q!Over
<1>3. query.node \in Q!Node /\ Q!Existing(query.info) = {query.node} /\ query.faults \in Nat
  BY <1>1, <1>2 DEF Q!QueryTypeOK, Q!PhaseInv, Q!Query
<1> DEFINE partner == CHOOSE c \in Q!Controllers : c # query.node
           gone == query.node \notin Q!Controllers \/ (nodes[partner] = "none" /\ query.node # Backup)
<1>4. /\ partner \in Q!Controllers /\ partner # query.node
      /\ \A c \in Q!Controllers \ {query.node} : query.node \in Q!Controllers => c = partner
  <2>1. \E c \in Q!Controllers : c # query.node
    BY DEF Q!Controllers
  <2>2. partner \in Q!Controllers /\ partner # query.node
    BY <2>1
  <2> QED
    BY <2>2 DEF Q!Controllers
<1>5. partner \in Q!Node
  BY <1>4 DEF Q!Node
<1>6. query.node \in Q!Controllers /\ query.node # Backup => partner = Backup
  BY <1>4 DEF Q!Controllers
<1>7. CASE gone
  <2>1. query' = [query EXCEPT !.at = "over",
                     !.answer = [node |-> query.info[query.node], healthy |-> query.healthy, control |-> {}]]
    BY <1>7 DEF Q!InspectPartner, Q!Ends
  <2> HIDE DEF partner
  <2>2. query' = [query EXCEPT !.at = "over",
                     !.answer = [node |-> query.info[query.node], healthy |-> query.healthy, control |-> {}],
                     !.faults = query'.faults]
        /\ query'.faults = query.faults
    BY <1>2, <2>1 DEF Q!Query
  <2>3. Q!NoBeat \in Q!Beat /\ ~Q!NoBeat.fresh
    BY DEF Q!Beat, Q!NoBeat
  <2>4. ASSUME Q!Still
        PROVE  /\ query.healthy = {query.node} \cap Q!Answering
               /\ nodes[Backup] # "none" => {query.node} \cap Q!Controlling = {}
    <3>1. query.healthy = {query.node} \cap Q!Answering
      BY <1>1, <1>2, <1>3, <2>4, HealthySteady
    <3>2. Q!Controlling \subseteq Q!Controllers
      BY <1>2 DEF Q!WorldInv, Q!Controlling
    <3> QED
      BY <1>6, <1>7, <3>1, <3>2
  <2>5. query'.faults \in Nat /\ query'.faults >= query.faults
    BY <1>3, <2>2
  <2>6. query'.faults = 0 /\ Q!Still =>
            /\ query.healthy = {query.node} \cap Q!Answering
            /\ {} = IF nodes[Backup] # "none" THEN {query.node} \cap Q!Controlling ELSE {}
    BY <2>4
  <2>7. {} \in SUBSET (Q!InControl(Q!NoBeat, query.healthy) \cap {query.node})
    OBVIOUS
  <2> QED
    BY <1>1, <1>2, <2>2, <2>3, <2>5, <2>6, <2>7, EndsNode
<1>8. CASE ~gone
  <2>1. query' = [query EXCEPT !.partner = nodes[partner], !.at = "beat"]
    BY <1>8 DEF Q!InspectPartner
  <2> HIDE DEF partner
  <2>2. query' \in Q!Query(query')
    BY <1>2, <1>5, <2>1 DEF Q!Query, Q!QueryTypeOK, Q!Phase
  <2>3. /\ query'.kind = query.kind /\ query'.node = query.node /\ query'.at = "beat"
        /\ query'.info = query.info /\ query'.listed = query.listed
        /\ query'.todo = query.todo /\ query'.healthy = query.healthy
        /\ query'.beat = query.beat /\ query'.net = query.net /\ query'.been = query.been
        /\ query'.faults = query.faults /\ query'.partner = nodes[partner]
    BY <1>2, <2>1 DEF Q!Query
  <2>4. Q!PhaseInv'
    BY <1>1, <1>2, <1>8, <2>3 DEF Q!PhaseInv, Q!ToProbe
  <2>5. Q!NotedInv'
    BY <1>1, <1>2, <2>3 DEF Q!NotedInv
  <2>6. Q!StillInv'
    <3>1. SUFFICES ASSUME Q!Still' PROVE Q!StillInv'
      BY DEF Q!StillInv
    <3>2. Q!Still
      BY <1>1, <2>3, <3>1 DEF Q!Still, Q!Reading, Q!World
    <3>3. Q!Answering' = Q!Answering /\ Q!ToProbe' = Q!ToProbe
      BY <1>1, <2>3 DEF Q!Answering, Q!Reading, Q!ToProbe
    <3>4. nodes[Backup] # "none"
      <4>1. CASE query.node = Backup
        BY <1>2, <1>3, <3>2, <4>1 DEF Q!StillInv, Q!Existing
      <4> QED
        BY <1>6, <1>8, <4>1
    <3> QED
      BY <1>1, <1>2, <1>4, <1>8, <2>3, <3>2, <3>3, <3>4 DEF Q!StillInv, Q!Reading
  <2> QED
    BY <1>1, <1>2, <2>2, <2>3, <2>4, <2>5, <2>6, GoesOnStep DEF Q!QueryTypeOK
<1> QED
  BY <1>7, <1>8

\* What the read of the heartbeat finds.
BeatRead == IF Q!BeatSource # None /\ nodes[Q!BeatSource] = "running" THEN beat ELSE Q!NoBeat

\* While nothing changes, the heartbeat is read on a controller that runs if
\* one does that the answer is about, and it says who is in control.
LEMMA BeatSteady ==
  ASSUME Primary # Backup, None \notin Q!Node, Q!QueryInv, Q!Still, Q!ToProbe \subseteq query.todo,
         query.at = "beat" \/ (query.at = "probe" /\ query.kind = "status")
  PROVE  Q!InControl(BeatRead, query.healthy) \cap Q!Existing(query.info) = Q!Controlling \cap Q!Existing(query.info)
<1>1. ~Q!Over(query) /\ Q!PhaseInv /\ Q!StillInv /\ Q!WorldInv
  BY DEF Q!QueryInv, Q!Over
<1>2. query.healthy = Q!Existing(query.info) \cap Q!Answering
  BY <1>1, HealthySteady
<1>3. \A n \in Q!Existing(query.info) : query.info[n] = nodes[n]
  BY <1>1 DEF Q!StillInv
<1>4. None \notin Q!Controllers /\ Q!Controllers \subseteq Q!Node
  BY DEF Q!Node
<1>5. ASSUME NEW c \in Q!Controllers \cap Q!Existing(query.info), c \in Q!Answering
      PROVE  BeatRead = beat
  <2>1. query.info[c] = "running" /\ nodes[c] = "running"
    BY <1>3, <1>5 DEF Q!Answering
  <2>2. Q!BeatSource # None /\ query.info[Q!BeatSource] = "running" /\ Q!BeatSource \in Q!Node
    <3>1. CASE query.kind = "status"
      BY <1>4, <2>1, <3>1 DEF Q!BeatSource, Q!Controllers
    <3>2. CASE query.kind = "node"
      <4>1. c = query.node
        BY <1>1, <3>2 DEF Q!PhaseInv
      <4> QED
        BY <1>4, <2>1, <3>2, <4>1 DEF Q!BeatSource
    <3> QED
      BY <1>1, <3>1, <3>2 DEF Q!PhaseInv
  <2>3. nodes[Q!BeatSource] = "running"
    BY <1>3, <2>2 DEF Q!Existing
  <2> QED
    BY <2>2, <2>3 DEF BeatRead
<1>6. Q!Controlling \subseteq Q!Controllers
  BY <1>1 DEF Q!WorldInv, Q!Controlling
<1>7. Q!InControl(BeatRead, query.healthy) \subseteq Q!Controllers \cap Q!Answering \cap Q!Existing(query.info)
  BY <1>2 DEF Q!InControl
<1>8. Q!Controlling \subseteq Q!Answering
  BY DEF Q!Controlling
<1>9. ASSUME NEW c \in Q!Existing(query.info)
      PROVE  c \in Q!InControl(BeatRead, query.healthy) <=> c \in Q!Controlling
  <2>1. CASE c \in Q!Controllers /\ c \in Q!Answering
    <3>1. BeatRead = beat /\ c \in query.healthy
      BY <1>2, <1>5, <2>1
    <3> QED
      BY <2>1, <3>1 DEF Q!InControl, Q!Controlling
  <2> QED
    BY <1>6, <1>7, <1>8, <2>1
<1> QED
  BY <1>9

LEMMA ReadBeatStep ==
  ASSUME Primary # Backup, None \notin Q!Node, Q!QueryInv, Q!ReadBeat
  PROVE  Q!QueryInv'
<1>1. query.at = "beat" \/ (query.at = "probe" /\ query.kind = "status")
  BY DEF Q!ReadBeat, Q!Probed
<1>2. /\ query \in Q!Query(query) /\ Q!QueryTypeOK /\ Q!WorldInv /\ ~Q!Over(query)
      /\ Q!PhaseInv /\ Q!NotedInv /\ Q!StillInv
  BY <1>1 DEF Q!QueryInv, Q!QueryTypeOK, Q!Over
<1>3. Q!Reading /\ Q!World \in query.been /\ query.faults \in Nat
  BY <1>2 DEF Q!ReadBeat, Q!WorldInv, Q!Query
<1>4. Q!Still => Q!ToProbe \subseteq query.todo
  BY <1>1, <1>2 DEF Q!ReadBeat, Q!Probed, Q!StillInv
<1>5. BeatRead \in Q!Beat
  BY <1>2 DEF BeatRead, Q!QueryTypeOK, Q!Beat, Q!NoBeat
<1>6. BeatRead.fresh => \E w \in query.been : w.beat = BeatRead
  BY <1>3 DEF BeatRead, Q!World, Q!NoBeat
<1>7. ASSUME Q!Still
      PROVE  Q!InControl(BeatRead, query.healthy) \cap Q!Existing(query.info)
                = Q!Controlling \cap Q!Existing(query.info)
  <2>1. Q!ToProbe \subseteq query.todo
    BY <1>4, <1>7
  <2> QED
    BY <1>1, <1>7, <2>1, BeatSteady
<1>8. CASE query.at = "beat"
  <2>1. query.kind = "node" /\ Q!Existing(query.info) = {query.node} /\ query.node \in Q!Controllers
    BY <1>2, <1>8 DEF Q!PhaseInv
  <2> DEFINE k == Q!InControl(BeatRead, query.healthy) \cap {query.node}
  <2>2. query' = [query EXCEPT !.at = "over",
                     !.answer = [node |-> query.info[query.node], healthy |-> query.healthy, control |-> k]]
    BY <2>1 DEF Q!ReadBeat, Q!Ends, BeatRead
  <2>3. Q!Still => /\ query.healthy = {query.node} \cap Q!Answering
                 /\ k = IF nodes[Backup] # "none" THEN {query.node} \cap Q!Controlling ELSE {}
    BY <1>2, <1>4, <1>7, <1>8, <2>1, HealthySteady DEF Q!StillInv
  <2>4. k \in SUBSET (Q!InControl(BeatRead, query.healthy) \cap {query.node})
    OBVIOUS
  <2> HIDE DEF k
  <2>5. query' = [query EXCEPT !.at = "over",
                     !.answer = [node |-> query.info[query.node], healthy |-> query.healthy, control |-> k],
                     !.faults = query'.faults]
        /\ query'.faults = query.faults
    BY <1>2, <2>2 DEF Q!Query
  <2>6. query'.faults \in Nat /\ query'.faults >= query.faults
    BY <1>3, <2>5
  <2>7. /\ k \in SUBSET (Q!InControl(BeatRead, query.healthy) \cap {query.node})
        /\ query'.faults = 0 /\ Q!Still =>
            /\ query.healthy = {query.node} \cap Q!Answering
            /\ k = IF nodes[Backup] # "none" THEN {query.node} \cap Q!Controlling ELSE {}
    BY <2>3, <2>4
  <2> QED
    BY <1>2, <1>3, <1>5, <1>6, <2>1, <2>5, <2>6, <2>7, EndsNode
<1>9. CASE query.at = "probe" /\ query.kind = "status"
  <2>1. Q!HasPair /\ Q!Probed
    BY <1>9 DEF Q!ReadBeat
  <2>2. query' = [query EXCEPT !.beat = BeatRead, !.at = "answer"]
    BY <1>9 DEF Q!ReadBeat, BeatRead
  <2>3. query' \in Q!Query(query')
    BY <1>2, <1>5, <2>2 DEF Q!Query, Q!Phase
  <2>4. /\ query'.kind = query.kind /\ query'.node = query.node /\ query'.at = "answer"
        /\ query'.info = query.info /\ query'.listed = query.listed
        /\ query'.todo = query.todo /\ query'.healthy = query.healthy
        /\ query'.beat = BeatRead /\ query'.net = query.net /\ query'.been = query.been
        /\ query'.faults = query.faults
    BY <1>2, <2>2 DEF Q!Query
  <2>5. Q!PhaseInv'
    BY <1>2, <1>9, <2>1, <2>4 DEF Q!PhaseInv, Q!ToProbe, Q!HasPair
  <2>6. Q!NotedInv'
    BY <1>2, <1>6, <1>9, <2>4 DEF Q!NotedInv
  <2>7. Q!StillInv'
    <3>1. SUFFICES ASSUME Q!Still' PROVE Q!StillInv'
      BY DEF Q!StillInv
    <3>2. Q!Still
      BY <1>3, <2>4, <3>1 DEF Q!Still, Q!Reading, Q!World
    <3>3. Q!Answering' = Q!Answering /\ Q!ToProbe' = Q!ToProbe /\ Q!Controlling' = Q!Controlling
      BY <1>3, <2>4 DEF Q!Answering, Q!Reading, Q!ToProbe, Q!Controlling
    <3>4. Q!InControl(BeatRead, query.healthy) = Q!Controlling
      <4>1. query.healthy = Q!Existing(query.info) \cap Q!Answering
        BY <1>2, <1>4, <1>9, <3>2, HealthySteady
      <4>2. Q!Existing(query.info) = Q!Existing(nodes)
        BY <1>2, <1>9, <3>2 DEF Q!PhaseInv, Q!StillInv
      <4>3. Q!Controlling \subseteq Q!Existing(query.info)
        BY <4>2 DEF Q!Controlling, Q!Answering, Q!Existing
      <4>4. Q!InControl(BeatRead, query.healthy) \subseteq Q!Existing(query.info)
        BY <4>1 DEF Q!InControl
      <4> QED
        BY <1>7, <3>2, <4>3, <4>4
    <3>5. Q!ToProbe \subseteq query.todo
      BY <1>4, <3>2
    <3>6. query.listed = nodes /\ query.net \in {net, None} /\ query.healthy = query.todo \cap Q!Answering
          /\ \A n \in Q!Existing(query.info) : query.info[n] = nodes[n]
      BY <1>2, <1>9, <3>2 DEF Q!StillInv
    <3>7. nodes' = nodes /\ net' = net
      BY <1>3 DEF Q!Reading
    <3> QED
      BY <2>4, <3>3, <3>4, <3>5, <3>6, <3>7 DEF Q!StillInv
  <2> QED
    BY <1>2, <1>3, <2>3, <2>4, <2>5, <2>6, <2>7, GoesOnStep DEF Q!QueryTypeOK
<1> QED
  BY <1>1, <1>8, <1>9

LEMMA AnswerStep ==
  ASSUME Q!QueryInv, Q!Answer
  PROVE  Q!QueryInv'
<1>1. /\ query.kind = "status" /\ query.at \in {"probe", "answer"} /\ query.net # None /\ Q!Reading
      /\ query.at = "probe" => Q!ToProbe \subseteq query.todo /\ ~Q!HasPair
  BY DEF Q!Answer, Q!Probed
<1>2. /\ query \in Q!Query(query) /\ Q!QueryTypeOK /\ Q!WorldInv /\ ~Q!Over(query)
      /\ Q!PhaseInv /\ Q!NotedInv /\ Q!StillInv
  BY <1>1 DEF Q!QueryInv, Q!QueryTypeOK, Q!Over
<1> DEFINE k == Q!InControl(query.beat, query.healthy)
           s == Q!AggregateState(query.listed)
           a == [state |-> s, nodes |-> query.info, healthy |-> query.healthy,
                 control |-> k, net |-> query.net]
<1>3. query' = [query EXCEPT !.at = "over", !.answer = a]
  BY DEF Q!Answer, Q!Ends
<1>4. /\ a.state = s /\ a.nodes = query.info /\ a.healthy = query.healthy
      /\ a.control = k /\ a.net = query.net
      /\ DOMAIN a = {"state", "nodes", "healthy", "control", "net"}
  OBVIOUS
<1> HIDE DEF a, k, s
<1>5. query' \in Q!Query(query')
  BY <1>2, <1>3 DEF Q!Query, Q!Phase
<1>6. /\ query'.kind = query.kind /\ query'.node = query.node /\ query'.been = query.been
      /\ query'.at = "over" /\ query'.answer = a /\ query'.faults = query.faults
  BY <1>2, <1>3 DEF Q!Query
<1>7. Q!QueryTypeOK' /\ Q!WorldInv'
  BY <1>1, <1>2, <1>5, <1>6 DEF Q!QueryTypeOK, Q!WorldInv, Q!Reading, Q!Over, Q!World
<1>8. Q!ErrorsTrue'
  <2>1. "error" \notin DOMAIN query'.answer
    BY <1>4, <1>6
  <2> QED
    BY <2>1 DEF Q!ErrorsTrue, Q!Has
<1>9. Q!NodesTrue'
  <2>1. \E w \in query.been : w.nodes = query.listed
    BY <1>1, <1>2 DEF Q!NotedInv
  <2>2. Q!Existing(query.info) = Q!Existing(query.listed)
    BY <1>1, <1>2 DEF Q!PhaseInv
  <2>3. ASSUME NEW n \in Q!Node
        PROVE  /\ \E w \in query.been : w.nodes[n] = query.info[n]
               /\ (\A w \in query.been : w.nodes[n] # "none") => query.info[n] # "none"
    <3>1. CASE n \in Q!Existing(query.info)
      BY <1>2, <3>1 DEF Q!NotedInv, Q!Existing
    <3>2. CASE n \notin Q!Existing(query.info)
      <4>1. query.info[n] = "none" /\ query.listed[n] = "none"
        BY <2>2, <3>2 DEF Q!Existing
      <4> QED
        BY <2>1, <4>1
    <3> QED
      BY <3>1, <3>2
  <2> QED
    BY <1>2, <1>4, <1>6, <2>3 DEF Q!NodesTrue, Q!Has, Q!NotedInv
<1>10. Q!ControlTrue'
  <2>1. query.beat \in Q!Beat /\ (query.beat.fresh => \E w \in query.been : w.beat = query.beat)
    BY <1>2 DEF Q!Query, Q!NotedInv
  <2>2. \A c \in k :
          /\ c = query.beat.by
          /\ \E w \in query.been : w.nodes[c] = "running" /\ c \in w.slurm
          /\ \E w \in query.been : w.beat = [by |-> c, fresh |-> TRUE]
    BY <1>2, <2>1, ControlHolds DEF k
  <2>3. query'.answer.control = k
    BY <1>4, <1>6
  <2>4. \A c, d \in k : c = d
    BY <2>2
  <2>5. query'.been = query.been
    BY <1>6
  <2> QED
    BY <2>2, <2>3, <2>4, <2>5 DEF Q!ControlTrue
<1>11. Q!Steady'
  <2>1. SUFFICES ASSUME Q!Still' PROVE Q!Steady'
    BY DEF Q!Steady
  <2>2. Q!Still
    BY <1>1, <1>6, <2>1 DEF Q!Still, Q!Reading, Q!World
  <2>3. Q!ToProbe \subseteq query.todo
    BY <1>1, <1>2, <2>2 DEF Q!StillInv
  <2>4. query.listed = nodes /\ Q!Existing(query.info) = Q!Existing(nodes)
    BY <1>1, <1>2, <2>2 DEF Q!StillInv, Q!PhaseInv
  <2>5. query.healthy = Q!Answering
    <3>1. query.healthy = Q!Existing(query.info) \cap Q!Answering
      BY <1>1, <1>2, <2>2, <2>3, HealthySteady
    <3> QED
      BY <2>4, <3>1 DEF Q!Answering, Q!Existing
  <2>6. k = IF nodes[Backup] # "none" THEN Q!Controlling ELSE {}
    <3>1. CASE query.at = "probe"
      BY <1>1, <1>2, <2>4, <3>1 DEF Q!PhaseInv, Q!HasPair, k, Q!InControl, Q!NoBeat
    <3>2. CASE query.at = "answer"
      BY <1>1, <1>2, <2>2, <2>4, <3>2 DEF Q!StillInv, Q!PhaseInv, Q!HasPair, k
    <3> QED
      BY <1>1, <3>1, <3>2
  <2>7. query.net = net /\ s = Q!AggregateState(nodes)
    BY <1>1, <1>2, <2>2, <2>4 DEF Q!StillInv, s
  <2>8. Q!Answering' = Q!Answering /\ Q!Controlling' = Q!Controlling /\ nodes' = nodes /\ net' = net
        /\ Q!Answering \subseteq Q!Node /\ Q!Controlling \subseteq Q!Node
    BY <1>1 DEF Q!Answering, Q!Controlling, Q!Reading
  <2>9. Q!AggregateState(nodes)' = Q!AggregateState(nodes)
    BY <2>8 DEF Q!AggregateState, Q!Existing
  <2> QED
    BY <1>1, <1>4, <1>6, <2>5, <2>6, <2>7, <2>8, <2>9 DEF Q!Steady
<1> QED
  BY <1>6, <1>7, <1>8, <1>9, <1>10, <1>11 DEF Q!QueryInv, Q!Over

LEMMA FailsStep ==
  ASSUME Q!QueryInv, Q!Fails
  PROVE  Q!QueryInv'
<1>1. /\ query \in Q!Query(query) /\ Q!QueryTypeOK /\ Q!WorldInv /\ ~Q!Over(query)
      /\ Q!PhaseInv /\ Q!NotedInv /\ Q!StillInv
  BY DEF Q!QueryInv, Q!QueryTypeOK, Q!Fails
<1>2. Q!Reading /\ query.faults \in Nat /\ query.at # "answer"
  BY <1>1 DEF Q!Fails, Q!Query
<1> DEFINE f == [query EXCEPT !.faults = query.faults + 1]
<1>3. f \in Q!Query(query) /\ f.faults \in Nat /\ f.faults = query.faults + 1 /\ f.faults # 0
  BY <1>1, <1>2 DEF Q!Query
<1> DEFINE i == [m \in Q!Node |-> "none"]
<1>4. CASE query.at = "inspect" /\ query.kind = "nodes"
           /\ query' = [f EXCEPT !.at = "over", !.answer = [nodes |-> query.listed, info |-> i]]
  <2> HIDE DEF i
  <2>1. query' = [query EXCEPT !.at = "over", !.answer = [nodes |-> query.listed, info |-> i],
                               !.faults = query'.faults]
        /\ query'.faults \in Nat
    BY <1>1, <1>3, <1>4 DEF Q!Query
  <2>2. query.at # "list"
    BY <1>4
  <2> QED
    BY <1>1, <1>2, <1>4, <2>1, <2>2, EndsNodes
<1>5. CASE query' = [f EXCEPT !.at = "over", !.answer = Q!Error("docker")]
  <2>1. query' = [query EXCEPT !.at = "over", !.answer = Q!Error("docker"), !.faults = query'.faults]
        /\ query'.faults \in Nat
    BY <1>1, <1>3, <1>5 DEF Q!Query
  <2>2. "docker" # "no cluster" /\ "docker" # "no node" /\ "docker" # "gone"
    OBVIOUS
  <2> QED
    BY <1>1, <1>2, <2>1, <2>2, EndsError, Zenon
<1>6. ASSUME NEW n \in Q!ToProbe \ query.todo, query.at = "probe",
             query' = [f EXCEPT !.todo = query.todo \cup {n}]
      PROVE  Q!QueryInv'
  <2>1. /\ query'.kind = query.kind /\ query'.node = query.node /\ query'.at = query.at
        /\ query'.info = query.info /\ query'.listed = query.listed
        /\ query'.todo = query.todo \cup {n} /\ query'.healthy = query.healthy
        /\ query'.beat = query.beat /\ query'.net = query.net /\ query'.been = query.been
        /\ query'.faults = query.faults + 1
    BY <1>1, <1>6 DEF Q!Query
  <2>2. query' \in Q!Query(query')
    <3> DEFINE todo == query.todo \cup {n}
    <3>1. todo \in SUBSET Q!Node
      BY <1>1 DEF Q!ToProbe, Q!Query
    <3> HIDE DEF f, todo
    <3> QED
      BY <1>3, <1>6, <3>1 DEF Q!Query, todo
  <2>3. Q!PhaseInv' /\ Q!NotedInv'
    BY <1>1, <1>6, <2>1 DEF Q!PhaseInv, Q!NotedInv, Q!ToProbe
  <2>4. Q!StillInv'
    BY <1>2, <2>1 DEF Q!StillInv, Q!Still
  <2> QED
    BY <1>1, <1>2, <1>6, <2>1, <2>2, <2>3, <2>4, GoesOnStep DEF Q!QueryTypeOK
<1>7. CASE query.at = "beat" /\ query' = [f EXCEPT !.at = "over", !.answer =
                [node |-> query.info[query.node], healthy |-> query.healthy, control |-> {}]]
  <2>1. query' = [query EXCEPT !.at = "over",
                     !.answer = [node |-> query.info[query.node], healthy |-> query.healthy, control |-> {}],
                     !.faults = query'.faults]
        /\ query'.faults = query.faults + 1
    BY <1>1, <1>3, <1>7 DEF Q!Query
  <2>2. Q!NoBeat \in Q!Beat /\ ~Q!NoBeat.fresh
    BY DEF Q!Beat, Q!NoBeat
  <2>3. query'.faults \in Nat /\ query'.faults >= query.faults /\ query'.faults # 0
    BY <1>2, <2>1
  <2>4. {} \in SUBSET (Q!InControl(Q!NoBeat, query.healthy) \cap {query.node})
    OBVIOUS
  <2>5. query.kind = "node"
    BY <1>1, <1>7 DEF Q!PhaseInv
  <2> QED
    BY <1>1, <1>2, <2>1, <2>2, <2>3, <2>4, <2>5, EndsNode
<1>8. CASE Q!Probed /\ query.kind = "status" /\ Q!HasPair /\ query' = [f EXCEPT !.at = "answer"]
  <2>1. /\ query'.kind = query.kind /\ query'.node = query.node /\ query'.at = "answer"
        /\ query'.info = query.info /\ query'.listed = query.listed
        /\ query'.todo = query.todo /\ query'.healthy = query.healthy
        /\ query'.beat = query.beat /\ query'.net = query.net /\ query'.been = query.been
        /\ query'.faults = query.faults + 1
    BY <1>1, <1>8 DEF Q!Query
  <2>2. query' \in Q!Query(query')
    <3> HIDE DEF f
    <3> QED
      BY <1>3, <1>8 DEF Q!Query, Q!Phase
  <2>3. Q!PhaseInv' /\ Q!NotedInv'
    BY <1>1, <1>8, <2>1 DEF Q!PhaseInv, Q!NotedInv, Q!ToProbe, Q!Probed, Q!HasPair
  <2>4. Q!StillInv'
    BY <1>2, <2>1 DEF Q!StillInv, Q!Still
  <2> QED
    BY <1>1, <1>2, <1>8, <2>1, <2>2, <2>3, <2>4, GoesOnStep DEF Q!QueryTypeOK
<1> QED
  BY <1>4, <1>5, <1>6, <1>7, <1>8 DEF Q!Fails

\* The cluster changes: the query has then seen two states of it.
LEMMA ChangedStep ==
  ASSUME Q!QueryInv, NEW ns \in [Q!Node -> Q!AtNode], NEW sl \in SUBSET Q!Node, NEW b \in Q!Beat,
         NEW nt \in BOOLEAN, Q!Changed(ns, sl, b, nt),
         ~nt => Q!Existing(ns) = {}, b.fresh => b.by \in Q!Controllers
  PROVE  Q!QueryInv'
<1>1. /\ query \in Q!Query(query) /\ Q!QueryTypeOK /\ Q!WorldInv /\ ~Q!Over(query)
      /\ Q!PhaseInv /\ Q!NotedInv /\ Q!World \in query.been
  BY DEF Q!QueryInv, Q!QueryTypeOK, Q!Changed, Q!WorldInv
<1>2. /\ nodes' = ns /\ slurm' = sl /\ beat' = b /\ net' = nt /\ Q!World' # Q!World
      /\ query' = [query EXCEPT !.been = query.been \cup {Q!World'}]
  BY DEF Q!Changed
<1>3. Q!World' \in [nodes : [Q!Node -> Q!AtNode], slurm : SUBSET Q!Node, beat : Q!Beat, net : BOOLEAN]
  BY <1>2 DEF Q!World
<1> HIDE DEF Q!World
<1>4. query' \in Q!Query(query')
  BY <1>1, <1>2, <1>3 DEF Q!Query
<1>5. /\ query'.kind = query.kind /\ query'.node = query.node /\ query'.at = query.at
      /\ query'.info = query.info /\ query'.listed = query.listed
      /\ query'.todo = query.todo /\ query'.healthy = query.healthy
      /\ query'.beat = query.beat /\ query'.net = query.net
      /\ query'.been = query.been \cup {Q!World'}
  BY <1>1, <1>2 DEF Q!Query
<1>6. Q!QueryTypeOK' /\ Q!WorldInv'
  BY <1>1, <1>2, <1>4, <1>5 DEF Q!QueryTypeOK, Q!WorldInv, Q!Over, Q!Existing
<1>7. Q!PhaseInv'
  BY <1>1, <1>5 DEF Q!PhaseInv, Q!ToProbe, Q!HasPair
<1>8. Q!NotedInv'
  BY <1>1, <1>5 DEF Q!NotedInv
<1>9. Q!StillInv'
  BY <1>1, <1>2, <1>5 DEF Q!StillInv, Q!Still
<1>10. AnswerTrue'
  BY <1>1, <1>5 DEF AnswerTrue, Q!ErrorsTrue, Q!NodesTrue, Q!ControlTrue, Q!Steady,
    Q!Has, Q!Over
<1> QED
  BY <1>6, <1>7, <1>8, <1>9, <1>10 DEF Q!QueryInv, AnswerTrue

\* Commands, power, daemons and controllers, meanwhile.
LEMMA WorldSteps ==
  ASSUME Q!QueryInv,
         \/ Q!Network \/ Q!GetsOld
         \/ \E n \in Q!Node : Q!Creates(n) \/ Q!Removes(n) \/ Q!Powers(n) \/ Q!Daemon(n)
         \/ \E c \in Q!Controllers : Q!Beats(c)
  PROVE  Q!QueryInv'
<1>1. /\ nodes \in [Q!Node -> Q!AtNode] /\ slurm \in SUBSET Q!Node /\ beat \in Q!Beat /\ net \in BOOLEAN
      /\ ~net => Q!Existing(nodes) = {}
      /\ beat.fresh => beat.by \in Q!Controllers
  BY DEF Q!QueryInv, Q!QueryTypeOK, Q!WorldInv
<1>2. CASE Q!Network
  BY <1>1, <1>2, ChangedStep DEF Q!Network
<1>3. CASE Q!GetsOld
  <2> DEFINE b == [beat EXCEPT !.fresh = FALSE]
  <2>1. b \in Q!Beat /\ ~b.fresh
    BY <1>1 DEF Q!Beat
  <2>2. Q!Changed(nodes, slurm, b, net)
    BY <1>3 DEF Q!GetsOld
  <2> HIDE DEF b
  <2> QED
    BY <1>1, <2>1, <2>2, ChangedStep
<1>4. ASSUME NEW n \in Q!Node, Q!Creates(n) \/ Q!Removes(n) \/ Q!Powers(n) \/ Q!Daemon(n)
      PROVE  Q!QueryInv'
  <2>1. ASSUME NEW s \in Q!AtNode, nodes[n] # "none" \/ net
        PROVE  LET ns == [nodes EXCEPT ![n] = s] IN
               ns \in [Q!Node -> Q!AtNode] /\ (~net => Q!Existing(ns) = {})
    BY <1>1, <2>1 DEF Q!Existing
  <2>2. CASE Q!Creates(n)
    <3> DEFINE ns == [nodes EXCEPT ![n] = "running"]
    <3>1. Q!Changed(ns, slurm, beat, net)
      BY <2>2 DEF Q!Creates
    <3>2. ns \in [Q!Node -> Q!AtNode] /\ (~net => Q!Existing(ns) = {})
      BY <2>1, <2>2 DEF Q!Creates, Q!AtNode, Q!States
    <3> HIDE DEF ns
    <3> QED
      BY <1>1, <3>1, <3>2, ChangedStep
  <2>3. CASE Q!Removes(n)
    <3>1. "none" \in Q!AtNode /\ nodes[n] # "none"
          /\ Q!Changed([nodes EXCEPT ![n] = "none"], slurm \ {n}, beat, net)
      BY <2>3 DEF Q!Removes, Q!AtNode
    <3>2. slurm \ {n} \in SUBSET Q!Node
      BY <1>1
    <3> QED
      BY <1>1, <2>1, <3>1, <3>2, ChangedStep
  <2>4. CASE Q!Powers(n)
    <3>1. PICK s \in Q!States :
             Q!Changed([nodes EXCEPT ![n] = s], IF s = "stopped" THEN slurm \ {n} ELSE slurm, beat, net)
      BY <2>4 DEF Q!Powers
    <3> DEFINE sl == IF s = "stopped" THEN slurm \ {n} ELSE slurm
    <3>2. sl \in SUBSET Q!Node /\ s \in Q!AtNode /\ nodes[n] # "none"
      BY <1>1, <2>4 DEF Q!AtNode, Q!Powers
    <3> DEFINE ns == [nodes EXCEPT ![n] = s]
    <3>3. Q!Changed(ns, sl, beat, net)
      BY <3>1
    <3>4. ns \in [Q!Node -> Q!AtNode] /\ (~net => Q!Existing(ns) = {})
      BY <2>1, <3>2
    <3> HIDE DEF sl, ns
    <3> QED
      BY <1>1, <3>2, <3>3, <3>4, ChangedStep
  <2>5. CASE Q!Daemon(n)
    <3>1. Q!Changed(nodes, slurm \ {n}, beat, net) \/ Q!Changed(nodes, slurm \cup {n}, beat, net)
      BY <2>5 DEF Q!Daemon
    <3>2. slurm \ {n} \in SUBSET Q!Node /\ slurm \cup {n} \in SUBSET Q!Node
      BY <1>1
    <3> QED
      BY <1>1, <3>1, <3>2, ChangedStep
  <2> QED
    BY <1>4, <2>2, <2>3, <2>4, <2>5
<1>5. ASSUME NEW c \in Q!Controllers, Q!Beats(c)
      PROVE  Q!QueryInv'
  <2> DEFINE b == [by |-> c, fresh |-> TRUE]
  <2>1. b \in Q!Beat /\ b.by = c
    BY DEF Q!Beat
  <2>2. Q!Changed(nodes, slurm, b, net)
    BY <1>5 DEF Q!Beats
  <2> HIDE DEF b
  <2> QED
    BY <1>1, <2>1, <2>2, ChangedStep
<1> QED
  BY <1>2, <1>3, <1>4, <1>5

LEMMA InitInv ==
  ASSUME Q!QueryInit
  PROVE  Q!QueryInv
<1>1. PICK up \in {{}, {Primary} \cup Worker, Q!Node, Q!Node \ {Primary}, Q!Node \ {Backup}} :
         /\ \E off \in {"none", "stopped"} :
               nodes = [n \in Q!Node |-> IF n \in up THEN "running" ELSE IF up = {} THEN "none" ELSE off]
         /\ slurm = up
  BY DEF Q!QueryInit
<1>2. up \subseteq Q!Node
  BY DEF Q!Node, Q!Controllers
<1>3. nodes \in [Q!Node -> Q!AtNode] /\ slurm \subseteq Q!Node
  BY <1>1, <1>2 DEF Q!AtNode, Q!States
<1>4. beat \in Q!Beat /\ (beat.fresh => beat.by \in Q!Controllers)
  <2>1. beat \in [by : Q!Controllers, fresh : {TRUE}] \/ beat = Q!NoBeat
    BY DEF Q!QueryInit
  <2>2. CASE beat \in [by : Q!Controllers, fresh : {TRUE}]
    BY <2>2 DEF Q!Beat
  <2>3. CASE beat = Q!NoBeat
    BY <2>3 DEF Q!Beat, Q!NoBeat
  <2> QED
    BY <2>1, <2>2, <2>3
<1>5. net \in BOOLEAN /\ (~net => Q!Existing(nodes) = {})
  BY DEF Q!QueryInit
<1>6. query = [Q!Started("nodes", None) EXCEPT !.at = "over", !.been = {}, !.answer = Q!Error("none")]
  BY DEF Q!QueryInit
<1>7. query \in Q!Query(query)
  <2>1. Q!NoBeat \in Q!Beat /\ [m \in Q!Node |-> "none"] \in [Q!Node -> Q!AtNode] /\ "none" \in Q!AtNode
    BY DEF Q!NoBeat, Q!Beat, Q!AtNode
  <2> QED
    BY <1>6, <2>1 DEF Q!Query, Q!Started, Q!Phase
<1>8. query.kind = "nodes" /\ query.at = "over" /\ query.answer = [error |-> "none"]
  BY <1>6 DEF Q!Started, Q!Error
<1>9. Q!QueryTypeOK /\ Q!WorldInv
  BY <1>3, <1>4, <1>5, <1>7, <1>8 DEF Q!QueryTypeOK, Q!WorldInv, Q!Over
<1>10. DOMAIN query.answer = {"error"} /\ query.answer.error = "none"
  <2> DEFINE r == [error |-> "none"]
  <2>1. DOMAIN r = {"error"} /\ r.error = "none"
    OBVIOUS
  <2> HIDE DEF r
  <2> QED
    BY <1>8, <2>1 DEF r
<1>11. AnswerTrue
  BY <1>8, <1>10 DEF AnswerTrue, Q!ErrorsTrue, Q!NodesTrue, Q!ControlTrue, Q!Steady,
    Q!Has
<1> QED
  BY <1>8, <1>9, <1>11 DEF Q!QueryInv, Q!Over, AnswerTrue

\* An answer of sind status, get nodes or get node never says what the
\* cluster was at no moment of the query, and while nothing changes and no
\* call fails it is the cluster (status.go, get.go, ha.go).
THEOREM QueryInvHolds ==
  ASSUME Primary # Backup, None \notin Q!Node
  PROVE  Q!QuerySpec => []Q!QueryInv
<1>1. Q!QueryInit => Q!QueryInv
  BY InitInv
<1>2. Q!QueryInv /\ [Q!QueryNext]_(Q!queryVars) => Q!QueryInv'
  <2> SUFFICES ASSUME Q!QueryInv, [Q!QueryNext]_(Q!queryVars)
               PROVE  Q!QueryInv'
    OBVIOUS
  <2>1. CASE \E k \in {"status", "nodes"} : Q!Begin(k, None)
    BY <2>1, BeginStep
  <2>2. CASE \E n \in Q!Node : Q!Begin("node", n)
    BY <2>2, BeginStep
  <2>3. CASE Q!List
    BY <2>3, ListStep
  <2>4. CASE Q!Exists
    BY <2>4, ExistsStep
  <2>5. CASE Q!Resolve
    BY <2>5, ResolveStep
  <2>6. CASE Q!CheckNetwork \/ Q!CheckNetworkLate
    BY <2>6, NetworkStep
  <2>7. CASE Q!InspectPartner
    BY <2>7, PartnerStep
  <2>8. CASE Q!ReadBeat
    BY <2>8, ReadBeatStep
  <2>9. CASE Q!Answer
    BY <2>9, AnswerStep
  <2>10. CASE Q!Fails
    BY <2>10, FailsStep
  <2>11. CASE \E n \in Q!Node : Q!Inspect(n) \/ Q!Probe(n)
    BY <2>11, InspectStep, ProbeStep
  <2>12. CASE \/ Q!Network \/ Q!GetsOld
              \/ \E n \in Q!Node : Q!Creates(n) \/ Q!Removes(n) \/ Q!Powers(n) \/ Q!Daemon(n)
              \/ \E c \in Q!Controllers : Q!Beats(c)
    BY <2>12, WorldSteps
  <2>13. CASE UNCHANGED Q!queryVars
    <3>1. nodes' = nodes /\ slurm' = slurm /\ beat' = beat /\ net' = net /\ query' = query
      BY <2>13 DEF Q!queryVars
    <3>2. Q!QueryTypeOK' <=> Q!QueryTypeOK
      BY <3>1 DEF Q!QueryTypeOK
    <3>3. Q!WorldInv' <=> Q!WorldInv
      BY <3>1 DEF Q!WorldInv, Q!World, Q!Over
    <3>4. (Q!PhaseInv' <=> Q!PhaseInv) /\ (Q!NotedInv' <=> Q!NotedInv)
      BY <3>1 DEF Q!PhaseInv, Q!NotedInv, Q!ToProbe, Q!HasPair
    <3>5. Q!Answering' = Q!Answering /\ (Q!Still' <=> Q!Still)
      BY <3>1 DEF Q!Answering, Q!Still, Q!World
    <3>6. Q!Controlling' = Q!Controlling /\ Q!ToProbe' = Q!ToProbe
      BY <3>1, <3>5 DEF Q!Controlling, Q!ToProbe
    <3>7. Q!StillInv' <=> Q!StillInv
      BY <3>1, <3>5, <3>6 DEF Q!StillInv
    <3>8. (Q!ErrorsTrue' <=> Q!ErrorsTrue) /\ (Q!NodesTrue' <=> Q!NodesTrue) /\ (Q!ControlTrue' <=> Q!ControlTrue)
      BY <3>1 DEF Q!ErrorsTrue, Q!NodesTrue, Q!ControlTrue, Q!Has, Q!Over
    <3>9. Q!Steady' <=> Q!Steady
      BY <3>1, <3>5, <3>6 DEF Q!Steady, Q!Has, Q!Over
    <3> QED
      BY <3>1, <3>2, <3>3, <3>4, <3>7, <3>8, <3>9 DEF Q!QueryInv, Q!Over
  <2> QED
    BY <2>1, <2>2, <2>3, <2>4, <2>5, <2>6, <2>7, <2>8, <2>9, <2>10, <2>11, <2>12,
      <2>13 DEF Q!QueryNext
<1> QED
  BY <1>1, <1>2, PTL DEF Q!QuerySpec

-----------------------------------------------------------------------------
(* What the pages say of the nodes (NodePages).                            *)

\* The nodes have one of three roles, those whose changes are recorded are
\* nodes of the cluster, and where sind manages a worker it manages the
\* controllers (NodeRunConfigs, WorkerAdd: an unmanaged cluster has no managed
\* worker).
RolesOK ==
  /\ roleOf \in [Node -> {"controller", "db", "worker"}]
  /\ Followed \subseteq Node
  /\ SlurmNodes # {} => \A n \in Node : roleOf[n] = "controller" => n \in Managed

\* The names of the services, which the store has in this order.
LEMMA ServiceNames ==
  ASSUME RolesOK
  PROVE  /\ {ServiceOrder[i] : i \in DOMAIN ServiceOrder}
              = {"munge", "sshd", "slurmctld", "slurmd", "mariadb", "slurmdbd"}
         /\ \A n \in Node : ServicesOf(n) \subseteq {ServiceOrder[i] : i \in DOMAIN ServiceOrder}
<1> DEFINE Names == {"munge", "sshd", "slurmctld", "slurmd", "mariadb", "slurmdbd"}
<1>1. /\ DOMAIN ServiceOrder = 1..6
      /\ ServiceOrder[1] = "munge" /\ ServiceOrder[2] = "sshd" /\ ServiceOrder[3] = "slurmctld"
      /\ ServiceOrder[4] = "slurmd" /\ ServiceOrder[5] = "mariadb" /\ ServiceOrder[6] = "slurmdbd"
  BY DEF ServiceOrder
<1>2. {ServiceOrder[i] : i \in DOMAIN ServiceOrder} = Names
  BY <1>1
<1>3. ASSUME NEW n \in Node
      PROVE  ServicesOf(n) \subseteq Names
  <2>1. CASE n \notin Managed
    BY <2>1 DEF ServicesOf
  <2>2. CASE n \in Managed /\ roleOf[n] = "controller"
    BY <2>2 DEF ServicesOf
  <2>3. CASE n \in Managed /\ roleOf[n] = "db"
    BY <2>3 DEF ServicesOf
  <2>4. CASE n \in Managed /\ roleOf[n] = "worker"
    BY <2>4 DEF ServicesOf
  <2> QED
    BY <2>1, <2>2, <2>3, <2>4 DEF RolesOK
<1> QED
  BY <1>2, <1>3

\* Of the services that are down, one comes first in the order of the store.
LEMMA LeastDown ==
  ASSUME RolesOK, NEW D, NEW n \in Node, D \subseteq ServicesOf(n), D # {}
  PROVE  ServiceOrder[CHOOSE i \in DOMAIN ServiceOrder :
            /\ ServiceOrder[i] \in D
            /\ \A j \in 1..(i - 1) : ServiceOrder[j] \notin D] \in D
<1>1. DOMAIN ServiceOrder = 1..6
  BY DEF ServiceOrder
<1>2. \E i \in 1..6 : ServiceOrder[i] \in D
  BY <1>1, ServiceNames
<1> DEFINE in(i) == ServiceOrder[i] \in D
<1>3. \E i \in 1..6 : in(i) /\ \A j \in 1..(i - 1) : ~in(j)
  <2>1. in(1) \/ in(2) \/ in(3) \/ in(4) \/ in(5) \/ in(6)
    BY <1>2
  <2> HIDE DEF in
  <2>2. CASE in(1)
    BY <2>2
  <2>3. CASE ~in(1) /\ in(2)
    BY <2>3
  <2>4. CASE ~in(1) /\ ~in(2) /\ in(3)
    BY <2>4
  <2>5. CASE ~in(1) /\ ~in(2) /\ ~in(3) /\ in(4)
    BY <2>5
  <2>6. CASE ~in(1) /\ ~in(2) /\ ~in(3) /\ ~in(4) /\ in(5)
    BY <2>6
  <2>7. CASE ~in(1) /\ ~in(2) /\ ~in(3) /\ ~in(4) /\ ~in(5) /\ in(6)
    BY <2>7
  <2> QED
    BY <2>1, <2>2, <2>3, <2>4, <2>5, <2>6, <2>7
<1> QED
  BY <1>1, <1>3

\* What a status that differs in one node has of the nodes.
LEMMA StatusTypes ==
  ASSUME PagesTypeOK, SetStatus
  PROVE  /\ status'.read \in BOOLEAN /\ status'.data \in BOOLEAN
         /\ DOMAIN status'.nodes \subseteq Node
         /\ \A n \in DOMAIN status'.nodes : status'.nodes[n].down \subseteq ServicesOf(n)
<1>1. /\ DOMAIN LastNodes \subseteq Node
      /\ \A m \in DOMAIN LastNodes : LastNodes[m].down \subseteq ServicesOf(m)
  BY DEF LastNodes, PagesTypeOK
<1>2. PICK n \in Node, data \in BOOLEAN :
        \E listed \in {[m \in DOMAIN LastNodes \cup {n} |-> IF m = n THEN now ELSE LastNodes[m]] :
                        now \in NodeStatuses(n)}
                     \cup {[m \in DOMAIN LastNodes \ {n} |-> LastNodes[m]]} :
          status' = [read |-> TRUE, data |-> data, nodes |-> listed]
  BY DEF SetStatus
<1>3. PICK listed :
        /\ listed \in {[m \in DOMAIN LastNodes \cup {n} |-> IF m = n THEN now ELSE LastNodes[m]] :
                          now \in NodeStatuses(n)}
                      \cup {[m \in DOMAIN LastNodes \ {n} |-> LastNodes[m]]}
        /\ status' = [read |-> TRUE, data |-> data, nodes |-> listed]
  BY <1>2
<1>4. \A now \in NodeStatuses(n) : now.down \subseteq ServicesOf(n)
  BY DEF NodeStatuses
<1>5. DOMAIN listed \subseteq Node /\ \A m \in DOMAIN listed : listed[m].down \subseteq ServicesOf(m)
  <2>1. CASE listed = [m \in DOMAIN LastNodes \ {n} |-> LastNodes[m]]
    BY <1>1, <2>1
  <2>2. ASSUME NEW now \in NodeStatuses(n),
               listed = [m \in DOMAIN LastNodes \cup {n} |-> IF m = n THEN now ELSE LastNodes[m]]
        PROVE  DOMAIN listed \subseteq Node /\ \A m \in DOMAIN listed : listed[m].down \subseteq ServicesOf(m)
    BY <1>1, <1>4, <2>2
  <2> QED
    BY <1>3, <2>1, <2>2
<1> QED
  BY <1>3, <1>5

\* What sinfo says of the workers.
LEMMA SinfoTypes ==
  ASSUME PagesTypeOK, SetSlurm
  PROVE  /\ sinfo'.err \in BOOLEAN /\ DOMAIN sinfo'.nodes \subseteq SlurmNodes
         /\ \A n \in DOMAIN sinfo'.nodes : sinfo'.nodes[n] \in SlurmStates
<1> DEFINE last == IF sinfo.nodes = <<>> THEN [m \in SlurmNodes |-> "idle"] ELSE sinfo.nodes
<1>1. DOMAIN last \subseteq SlurmNodes /\ \A m \in DOMAIN last : last[m] \in SlurmStates
  BY DEF PagesTypeOK, SlurmStates
<1>2. PICK n \in SlurmNodes :
        sinfo' \in {[err |-> TRUE, nodes |-> <<>>]}
               \cup {[err |-> FALSE, nodes |-> [m \in DOMAIN last \cup {n} |->
                        IF m = n THEN s ELSE last[m]]] : s \in SlurmStates}
               \cup {[err |-> FALSE, nodes |-> [m \in DOMAIN last \ {n} |-> last[m]]]}
  BY DEF SetSlurm
<1> HIDE DEF last
<1>3. CASE sinfo' = [err |-> TRUE, nodes |-> <<>>]
  BY <1>3
<1>4. ASSUME NEW s \in SlurmStates,
             sinfo' = [err |-> FALSE, nodes |-> [m \in DOMAIN last \cup {n} |->
                         IF m = n THEN s ELSE last[m]]]
      PROVE  /\ sinfo'.err \in BOOLEAN /\ DOMAIN sinfo'.nodes \subseteq SlurmNodes
             /\ \A m \in DOMAIN sinfo'.nodes : sinfo'.nodes[m] \in SlurmStates
  BY <1>1, <1>4
<1>5. CASE sinfo' = [err |-> FALSE, nodes |-> [m \in DOMAIN last \ {n} |-> last[m]]]
  BY <1>1, <1>5
<1> QED
  BY <1>2, <1>3, <1>4, <1>5

\* Every step keeps the types.
LEMMA PagesTypeStep ==
  ASSUME RolesOK, PagesTypeOK, [PagesNext]_pageVars
  PROVE  PagesTypeOK'
<1>1. CASE SetClusters
  BY <1>1 DEF SetClusters, PagesTypeOK
<1>2. ASSUME NEW n \in Node, SetNodes(n)
      PROVE  PagesTypeOK'
  <2>1. seen' \in [Node -> States]
    BY <1>2 DEF SetNodes, PagesTypeOK
  <2> QED
    BY <1>2, <2>1 DEF SetNodes, PagesTypeOK
<1>3. CASE SetStatus
  <2>1. UNCHANGED <<state, seen, sinfo, works, fix>>
    BY <1>3 DEF SetStatus
  <2>2. /\ status'.read \in BOOLEAN /\ status'.data \in BOOLEAN
        /\ DOMAIN status'.nodes \subseteq Node
        /\ \A n \in DOMAIN status'.nodes : status'.nodes[n].down \subseteq ServicesOf(n)
    BY <1>3, StatusTypes
  <2> QED
    BY <2>1, <2>2 DEF PagesTypeOK
<1>4. CASE SetSlurm
  <2>1. UNCHANGED <<state, seen, status, works, fix>>
    BY <1>4 DEF SetSlurm
  <2>2. /\ sinfo'.err \in BOOLEAN /\ DOMAIN sinfo'.nodes \subseteq SlurmNodes
        /\ \A n \in DOMAIN sinfo'.nodes : sinfo'.nodes[n] \in SlurmStates
    BY <1>4, SinfoTypes
  <2> QED
    BY <2>1, <2>2 DEF PagesTypeOK
<1>5. CASE KeepStatuses
  BY <1>5 DEF KeepStatuses, PagesTypeOK
<1>6. CASE RunBegins \/ RunNames \/ RunEnds \/ UNCHANGED pageVars
  BY <1>6 DEF RunBegins, RunNames, RunEnds, pageVars, PagesTypeOK
<1>7. CASE TaskStart
  <2>1. PICK n \in Followed :
          \E r \in {Power(o) : o \in {o \in FixOps \cap Verbs : BuildsPower(n, o)}}
                   \cup {Restart(u) : u \in {s \in Verbs \ FixOps : BuildsRestart(n, s)}} :
            fix' = [stage |-> "runs", op |-> r.op, unit |-> r.unit, node |-> n, fixes |-> Problem(n)]
    BY <1>7 DEF TaskStart
  <2>2. Problem(n) \in BOOLEAN
    BY DEF Problem
  <2> DEFINE b == Problem(n)
  <2>3. ASSUME NEW o \in FixOps,
               fix' = [stage |-> "runs", op |-> Power(o).op, unit |-> Power(o).unit, node |-> n,
                       fixes |-> b]
        PROVE  PagesTypeOK'
    <3> HIDE DEF b
    <3>1. fix' = [stage |-> "runs", op |-> o, unit |-> "none", node |-> n, fixes |-> b]
      BY <2>3 DEF Power
    <3>2. b \in BOOLEAN
      BY <2>2 DEF b
    <3> QED
      BY <1>7, <3>1, <3>2 DEF TaskStart, PagesTypeOK, FixOps
  <2>4. ASSUME NEW u, BuildsRestart(n, u),
               fix' = [stage |-> "runs", op |-> Restart(u).op, unit |-> Restart(u).unit, node |-> n,
                       fixes |-> b]
        PROVE  PagesTypeOK'
    <3> HIDE DEF b
    <3>1. fix' = [stage |-> "runs", op |-> "restart-service", unit |-> u, node |-> n, fixes |-> b]
      BY <2>4 DEF Restart
    <3>2. b \in BOOLEAN
      BY <2>2 DEF b
    <3>3. u \in ServicesOf(n) /\ u \in {ServiceOrder[i] : i \in DOMAIN ServiceOrder}
      BY <2>4, ServiceNames DEF BuildsRestart, RolesOK
    <3> QED
      BY <1>7, <3>1, <3>2, <3>3 DEF TaskStart, PagesTypeOK
  <2> QED
    BY <2>1, <2>3, <2>4
<1>8. CASE TaskEnd \/ FixedHides
  <2>1. PICK end \in {"ok", "over"} : fix' = [fix EXCEPT !.stage = end]
    BY <1>8 DEF TaskEnd, FixedHides
  <2>2. fix # NoFix
    BY <1>8 DEF TaskEnd, FixedHides, NoFix
  <2> QED
    BY <1>8, <2>1, <2>2 DEF TaskEnd, FixedHides, PagesTypeOK
<1> QED
  BY <1>1, <1>2, <1>3, <1>4, <1>5, <1>6, <1>7, <1>8 DEF PagesNext

\* A page's commands for a node are such as its dialog makes.
LEMMA FixesStatic ==
  ASSUME RolesOK, PagesTypeOK
  PROVE  FixesBuild
<1> SUFFICES ASSUME NEW n \in Listed
             PROVE  /\ \A r \in Range(Ladder(n)) :
                         IF r.op = "restart-service" THEN BuildsRestart(n, r.unit)
                         ELSE OpFits(n, r.op) /\ BuildsPower(n, r.op)
                    /\ \A op \in PowerOps : OpFits(n, op) => BuildsPower(n, op)
                    /\ \A s \in SvcRestarts(n) : BuildsRestart(n, s)
  BY DEF FixesBuild
<1>1. n \in Node /\ seen[n] \in States /\ seen[n] # "gone"
  BY DEF Listed, PagesTypeOK
<1>2. Down(n) # {} => seen[n] = "running" /\ Known(n) /\ Down(n) = status.nodes[n].down
  BY DEF Down
<1>3. Down(n) \subseteq ServicesOf(n)
  BY <1>2 DEF PagesTypeOK, Known
<1>4. ASSUME NEW s, CanRestart(n), Down(n) # {}, s \in ServicesOf(n)
      PROVE  BuildsRestart(n, s)
  BY <1>2, <1>4 DEF CanRestart, BuildsRestart
<1>5. "munge" \in ServicesOf(n)
  BY DEF ServicesOf
<1>6. ASSUME Down(n) # {}
      PROVE  FailedUnit(n) \in Down(n)
  BY <1>1, <1>3, <1>6, LeastDown DEF FailedUnit
<1>7. ASSUME Sinfo(n)
      PROVE  /\ roleOf[n] = "worker" /\ n \in Managed
             /\ \A m \in Node : roleOf[m] = "controller" => m \in Managed
  <2>1. n \in SlurmNodes
    BY <1>7 DEF Sinfo, PagesTypeOK
  <2> QED
    BY <2>1 DEF SlurmNodes, RolesOK
<1>8. ASSUME NEW op \in PowerOps, OpFits(n, op)
      PROVE  BuildsPower(n, op)
  <2>1. CASE op \in {"drain", "resume"}
    <3>1. Sinfo(n)
      BY <1>8, <2>1 DEF OpFits
    <3>2. DOMAIN status.nodes \subseteq Node
      BY DEF PagesTypeOK
    <3>3. BuildsSlurmState(n)
      BY <1>7, <3>1, <3>2 DEF BuildsSlurmState
    <3> QED
      BY <2>1, <3>3 DEF BuildsPower
  <2> QED
    BY <2>1 DEF BuildsPower
<1>9. ASSUME NEW s \in SvcRestarts(n)
      PROVE  BuildsRestart(n, s)
  BY <1>3, <1>4, <1>9 DEF SvcRestarts
<1>10. ASSUME NEW r \in Range(Ladder(n))
       PROVE  IF r.op = "restart-service" THEN BuildsRestart(n, r.unit)
              ELSE OpFits(n, r.op) /\ BuildsPower(n, r.op)
  <2>1. Problem(n)
    <3>1. Ladder(n) # <<>>
      BY <1>10 DEF Range
    <3> QED
      BY <3>1 DEF Ladder
  <2>2. ~Life(n)
    BY <2>1 DEF Problem
  <2>3. \A op : /\ Power(op).op = op
                /\ Restart(op).op = "restart-service" /\ Restart(op).unit = op
    BY DEF Power, Restart
  <2>4. CASE seen[n] = "paused"
    <3>1. Ladder(n) = <<Power("unfreeze")>>
      BY <2>1, <2>4 DEF Ladder
    <3>2. r = Power("unfreeze")
      BY <1>10, <3>1 DEF Range
    <3> QED
      BY <2>2, <2>3, <2>4, <3>2 DEF OpFits, BuildsPower
  <2>5. CASE seen[n] = "stopped"
    <3>1. Ladder(n) = <<Power("on")>>
      BY <2>1, <2>5 DEF Ladder
    <3>2. r = Power("on")
      BY <1>10, <3>1 DEF Range
    <3> QED
      BY <2>2, <2>3, <2>5, <3>2 DEF OpFits, BuildsPower
  <2>6. CASE seen[n] = "unknown"
    <3>1. Ladder(n) = <<>>
      BY <2>1, <2>6 DEF Ladder
    <3> QED
      BY <1>10, <3>1 DEF Range
  <2>7. CASE seen[n] = "running" /\ Down(n) # {}
    <3> DEFINE unit == FailedUnit(n)
    <3>1. Ladder(n) = IF ~CanRestart(n) THEN <<Power("reboot")>>
                      ELSE IF unit # "munge" /\ "munge" \in Down(n)
                      THEN <<Restart("munge"), Restart(unit), Power("reboot")>>
                      ELSE <<Restart(unit), Power("reboot")>>
      BY <2>1, <2>7 DEF Ladder
    <3>2. r = Power("reboot") \/ (CanRestart(n) /\ (r = Restart("munge") \/ r = Restart(unit)))
      <4> HIDE DEF unit
      <4>1. CASE ~CanRestart(n)
        BY <1>10, <3>1, <4>1 DEF Range
      <4>2. CASE CanRestart(n) /\ unit # "munge" /\ "munge" \in Down(n)
        BY <1>10, <3>1, <4>2 DEF Range
      <4>3. CASE CanRestart(n) /\ ~(unit # "munge" /\ "munge" \in Down(n))
        BY <1>10, <3>1, <4>3 DEF Range
      <4> QED
        BY <4>1, <4>2, <4>3
    <3>3. CASE r = Power("reboot")
      BY <2>2, <2>3, <2>7, <3>3 DEF OpFits, BuildsPower
    <3>4. CASE CanRestart(n) /\ r = Restart("munge")
      BY <1>4, <1>5, <2>3, <2>7, <3>4
    <3>5. CASE CanRestart(n) /\ r = Restart(unit)
      BY <1>3, <1>4, <1>6, <2>3, <2>7, <3>5
    <3> QED
      BY <3>2, <3>3, <3>4, <3>5
  <2>8. CASE seen[n] = "running" /\ Down(n) = {}
    <3>1. Ladder(n) = <<Power("resume")>>
      BY <2>1, <2>8 DEF Ladder
    <3>2. r = Power("resume")
      BY <1>10, <3>1 DEF Range
    <3>3. ServiceIssues(n) = {}
      BY <2>2, <2>8 DEF ServiceIssues
    <3>4. SlurmIssue(n)
      BY <2>1, <2>8, <3>3 DEF Problem, Issues
    <3>5. OpFits(n, "resume")
      BY <1>7, <2>2, <2>8, <3>4 DEF SlurmIssue, OpFits
    <3> QED
      BY <1>8, <2>3, <3>2, <3>5 DEF PowerOps
  <2> QED
    BY <1>1, <2>4, <2>5, <2>6, <2>7, <2>8 DEF States
<1> QED
  BY <1>8, <1>9, <1>10

\* Nothing is offered for a node that a command owns.
LEMMA OwnedStatic == OwnedLeftAlone
<1> SUFFICES ASSUME NEW n \in Listed, Life(n)
             PROVE  /\ Ladder(n) = <<>> /\ SvcRestarts(n) = {} /\ \A op \in PowerOps : ~OpFits(n, op)
                    /\ Row(n) # "open" /\ Card(n) = "none"
  BY DEF OwnedLeftAlone
<1>1. ~Problem(n)
  BY DEF Problem
<1> QED
  BY <1>1 DEF Ladder, SvcRestarts, OpFits, Row, Card

\* What needs a look is named.
LEMMA LookStatic ==
  ASSUME PagesTypeOK
  PROVE  LookNamed
<1> SUFFICES ASSUME NEW n \in Look
             PROVE  /\ seen[n] = "running" /\ Down(n) = {} => Sinfo(n)
                    /\ seen[n] = "running" => HeadWords(n) # {}
                    /\ NeedSev(n) = Sev(n)
                    /\ HeadClass(n) # "ok" /\ ClusterClass # "ok"
  BY DEF LookNamed
<1>1. /\ Problem(n) /\ n \in Node /\ seen[n] \in States /\ seen[n] # "gone"
  BY DEF Look, Listed, PagesTypeOK
<1>2. ~Life(n)
  BY <1>1 DEF Problem
<1>3. Down(n) # {} => seen[n] = "running"
  BY DEF Down
<1>4. seen[n] = "running" => Issues(n) # {}
  BY <1>1 DEF Problem
<1>5. seen[n] = "running" /\ Down(n) = {} => Sinfo(n)
  BY <1>2, <1>4 DEF Issues, ServiceIssues, SlurmIssue
<1>6. seen[n] = "running" => HeadWords(n) # {}
  BY <1>4 DEF HeadWords
<1>7. NeedSev(n) = Sev(n)
  BY <1>1, <1>3 DEF NeedSev, Sev
<1>8. Sev(n) \in {"bad", "warn"}
  BY <1>1 DEF Sev
<1>9. HeadClass(n) # "ok"
  <2>1. CASE seen[n] = "running"
    BY <1>1, <1>2, <1>8, <2>1 DEF HeadClass
  <2>2. CASE seen[n] # "running"
    <3>1. seen[n] \in {"stopped", "paused", "unknown"}
      BY <1>1, <2>2 DEF States
    <3>2. StateClass(seen[n]) \in {"bad", "warn"}
      BY <3>1 DEF StateClass
    <3> QED
      BY <1>2, <2>2, <3>2 DEF HeadClass
  <2> QED
    BY <2>1, <2>2
<1>10. ClusterClass # "ok"
  <2>1. LookClass \in {"bad", "warn"}
    BY DEF LookClass
  <2> QED
    BY <2>1 DEF ClusterClass
<1> QED
  BY <1>5, <1>6, <1>7, <1>9, <1>10

\* The lines of a dialog do not disagree.
LEMMA WarningsStatic == WarningsAgree
<1> SUFFICES ASSUME NEW picked \in SUBSET Listed,
                    NEW control \in Running("controller") \cup {"none"},
                    StillTakesJobs(picked, control)
             PROVE  /\ ControllerWarning(picked, control) \in {"none", "standby"}
                    /\ ~AllWorkersWarning(picked)
  BY DEF WarningsAgree
<1> DEFINE C == Running("controller")
           active == ActiveController(control)
<1>1. active \notin picked
  BY DEF StillTakesJobs
<1>2. C # {} => active \in C
  BY DEF ActiveController
<1>3. ~AllWorkersWarning(picked)
  BY DEF StillTakesJobs, AllWorkersWarning
<1>4. ControllerWarning(picked, control)
        = CASE C \cap picked = {} -> "none"
            [] C \cap picked # {} /\ C \ picked = {} -> "takes no jobs"
            [] OTHER -> IF active \in C \cap picked THEN "takes over" ELSE "standby"
  BY DEF ControllerWarning
<1> HIDE DEF C, active
<1>5. CASE C \cap picked = {}
  BY <1>3, <1>4, <1>5
<1>6. CASE C \cap picked # {}
  <2>1. C \ picked # {}
    BY <1>1, <1>2, <1>6
  <2> QED
    BY <1>1, <1>3, <1>4, <1>6, <2>1
<1> QED
  BY <1>5, <1>6

\* A node that is to blame needs a look, while no command runs.
LEMMA BlamedLook ==
  ASSUME ~Busy, NEW n \in Listed, NEW svc, WhyNot(n, svc)
  PROVE  n \in Look
<1>1. ~Life(n)
  <2>1. DOMAIN works = {}
    BY DEF Busy
  <2>2. LifeOf = "none"
    BY <2>1 DEF LifeOf
  <2>3. {i \in DOMAIN works : works[i].op \in OwnsWorkers /\ n \in works[i].named} = {}
    BY <2>1
  <2>4. WorkOf(n) = "none"
    BY <2>2, <2>3, Zenon DEF WorkOf
  <2> QED
    BY <2>4 DEF Life
<1>2. CASE seen[n] # "running"
  BY <1>1, <1>2 DEF Look, Problem
<1>3. CASE seen[n] = "running" /\ Known(n) /\ svc \in status.nodes[n].down
  <2>1. Issues(n) # {}
    BY <1>1, <1>3 DEF Issues, ServiceIssues, Down
  <2> QED
    BY <1>1, <2>1 DEF Look, Problem
<1>4. CASE Sinfo(n) /\ ~TakesJobs(sinfo.nodes[n])
  <2>1. Issues(n) # {}
    BY <1>1, <1>4 DEF Issues, SlurmIssue
  <2> QED
    BY <1>1, <2>1 DEF Look, Problem
<1> QED
  BY <1>2, <1>3, <1>4 DEF WhyNot

\* What the fleet table says of a cluster whose status was read, and that no
\* command owns.
LEMMA FleetChecked ==
  ASSUME LifeOf = "none", status.read, ~Busy \/ NeedsLook
  PROVE  LET ok == ControllerCheck # "bad" /\ CountedWorkers # {} /\ Verdict # "bad"
             look == NeedsLook \/ WorkersCheck = "warn"
             other == {AccountingCheck, FilesCheck} \cap {"warn", "bad"} # {}
         IN  /\ ControllerCheck = "bad" \/ CountedWorkers = {} =>
                  FleetReady.text # "ready" /\ FleetReady.note = TRUE
             /\ Verdict = "bad" \/ look => FleetReady.text # "ready"
             /\ ok /\ ~look /\ other => FleetReady.text # "ready" /\ FleetReady.note = TRUE
             /\ ok /\ ~look /\ ~other => FleetReady.text = "ready" /\ FleetReady.class = "ok"
<1> DEFINE ok == ControllerCheck # "bad" /\ CountedWorkers # {} /\ Verdict # "bad"
           look == NeedsLook \/ WorkersCheck = "warn"
           other == {AccountingCheck, FilesCheck} \cap {"warn", "bad"} # {}
           needsLook == IF Look # {} THEN LookClass ELSE "warn"
           fleet == FleetReady
           verdict == Verdict
           control == ControllerCheck
           none == CountedWorkers = {}
<1>1. fleet = IF control = "bad" THEN Pill("not ready", "bad", TRUE)
              ELSE IF none THEN Pill("not ready", "bad", TRUE)
              ELSE IF verdict = "bad" THEN Pill("not ready", "bad", FALSE)
              ELSE IF look THEN Pill("needs a look", needsLook, FALSE)
              ELSE IF other THEN Pill("needs a look", needsLook, TRUE)
              ELSE Pill("ready", "ok", FALSE)
  BY DEF FleetReady
<1> HIDE DEF look, other, needsLook, fleet, verdict, control, none
<1>2. \A t, c : /\ Pill(t, c, TRUE).text = t /\ Pill(t, c, TRUE).note = TRUE
                /\ Pill(t, c, FALSE).text = t /\ Pill(t, c, FALSE).class = c
  BY Zenon DEF Pill
<1>3. control = "bad" \/ none => fleet.text = "not ready" /\ fleet.note = TRUE
  BY <1>1, <1>2, Zenon
<1>4. verdict = "bad" \/ look => fleet.text \in {"not ready", "needs a look"}
  BY <1>1, <1>2, Zenon
<1>5. control # "bad" /\ ~none /\ verdict # "bad" /\ ~look /\ other =>
        fleet.text = "needs a look" /\ fleet.note = TRUE
  BY <1>1, <1>2, Zenon
<1>6. control # "bad" /\ ~none /\ verdict # "bad" /\ ~look /\ ~other =>
        fleet.text = "ready" /\ fleet.class = "ok"
  BY <1>1, <1>2, Zenon
<1>7. \A t \in {"not ready", "needs a look"} : t # "ready"
  OBVIOUS
<1> QED
  BY <1>3, <1>4, <1>5, <1>6, <1>7, Zenon DEF look, other, fleet, verdict, control, none

\* What it says of one that a command owns, or that was not checked, or on
\* which a command runs.
LEMMA FleetUnchecked ==
  /\ LifeOf # "none" => FleetReady.text # "ready" /\ FleetReady.class = "run"
  /\ LifeOf = "none" /\ ~status.read => FleetReady.text # "ready"
  /\ LifeOf = "none" /\ status.read /\ Busy /\ ~NeedsLook =>
       FleetReady.text # "ready" /\ FleetReady.class = "run"
<1>1. \A t : Pill(t, "run", FALSE).text = t /\ Pill(t, "run", FALSE).class = "run"
  BY Zenon DEF Pill
<1>2. LifeOf # "none" => FleetReady.text = "being made" /\ FleetReady.class = "run"
  BY <1>1, Zenon DEF FleetReady
<1>3. LifeOf = "none" /\ ~status.read =>
        FleetReady.text \in {"needs a look", "not checked yet"}
  BY DEF FleetReady, Pill
<1>4. LifeOf = "none" /\ status.read /\ Busy /\ ~NeedsLook =>
        FleetReady.text = "a command runs" /\ FleetReady.class = "run"
  <2>1. LifeOf = "none" /\ status.read /\ Busy /\ ~NeedsLook =>
          FleetReady = Pill("a command runs", "run", FALSE)
    BY DEF FleetReady
  <2> QED
    BY <1>1, <2>1
<1> QED
  BY <1>2, <1>3, <1>4

\* The fleet table, Ready for jobs and the nodes agree.
LEMMA FleetStatic == FleetAgrees
<1> DEFINE fleet == FleetReady
           verdict == Verdict
           needsLook == IF Look # {} THEN LookClass ELSE "warn"
<1>1. CountedWorkers \subseteq Listed /\ Controllers \subseteq Listed
  BY DEF CountedWorkers, Controllers
<1>2. TakingWorkers = {n \in CountedWorkers : ~WhyNot(n, "slurmd")}
  BY DEF TakingWorkers
<1>3. LifeOf = "none" => (NeedsLook <=> state # "running" \/ Look # {})
  BY DEF NeedsLook
<1>4. ~Busy /\ Look = {} => TakingWorkers = CountedWorkers
  BY <1>1, <1>2, BlamedLook
<1>5. ~Busy /\ Look = {} => ControllerCheck # "warn"
  <2> SUFFICES ASSUME ~Busy, Look = {}
               PROVE  ControllerCheck # "warn"
    OBVIOUS
  <2>1. {n \in Controllers : WhyNot(n, "slurmctld")} = {}
    BY <1>1, BlamedLook
  <2>2. CASE Controllers = {}
    BY <2>2 DEF ControllerCheck
  <2>3. CASE Controllers # {} /\ ~IsManaged(FirstListed)
    BY <2>3 DEF ControllerCheck
  <2>4. CASE Controllers # {} /\ IsManaged(FirstListed)
    BY <2>1, <2>4 DEF ControllerCheck
  <2> QED
    BY <2>2, <2>3, <2>4
<1>6. /\ CountedWorkers = {} => WorkersCheck = "bad"
      /\ WorkersCheck = "ok" => TakingWorkers = CountedWorkers
      /\ TakingWorkers = CountedWorkers /\ CountedWorkers # {} => WorkersCheck = "ok"
      /\ WorkersCheck \in {"bad", "warn", "ok"}
  BY DEF WorkersCheck
<1>7. LifeOf = "none" /\ status.read =>
        verdict = IF "bad" \in {ControllerCheck, WorkersCheck} THEN "bad"
                  ELSE IF WorkersCheck = "warn" \/ {AccountingCheck, FilesCheck} \cap {"warn", "bad"} # {}
                  THEN "warn" ELSE "ok"
  BY DEF Verdict
<1>8. verdict = "ok" => LifeOf = "none"
  BY DEF Verdict
<1> HIDE DEF fleet, verdict, needsLook
<1>9. fleet.text = "ready" => LifeOf = "none" /\ status.read /\ (~Busy \/ NeedsLook)
  BY FleetUnchecked DEF fleet
<1> DEFINE ok == ControllerCheck # "bad" /\ CountedWorkers # {} /\ verdict # "bad"
           look == NeedsLook \/ WorkersCheck = "warn"
           other == {AccountingCheck, FilesCheck} \cap {"warn", "bad"} # {}
<1>10. LifeOf = "none" /\ status.read /\ (~Busy \/ NeedsLook) =>
         /\ ControllerCheck = "bad" \/ CountedWorkers = {} =>
              fleet.text # "ready" /\ fleet.note = TRUE
         /\ verdict = "bad" \/ look => fleet.text # "ready"
         /\ ok /\ ~look /\ other => fleet.text # "ready" /\ fleet.note = TRUE
         /\ ok /\ ~look /\ ~other => fleet.text = "ready" /\ fleet.class = "ok"
  BY FleetChecked DEF fleet, verdict
<1>11. ASSUME fleet.text = "ready"
       PROVE  /\ Look = {} /\ verdict = "ok" /\ ControllerCheck # "warn"
              /\ CountedWorkers # {} /\ TakingWorkers = CountedWorkers
  <2>1. LifeOf = "none" /\ status.read /\ (~Busy \/ NeedsLook)
    BY <1>9, <1>11
  <2>2. /\ ControllerCheck # "bad" /\ CountedWorkers # {} /\ verdict # "bad"
        /\ ~NeedsLook /\ WorkersCheck # "warn"
        /\ {AccountingCheck, FilesCheck} \cap {"warn", "bad"} = {}
    BY <1>10, <1>11, <2>1
  <2>3. ~Busy /\ Look = {}
    BY <1>3, <2>1, <2>2
  <2>4. verdict = "ok"
    BY <1>6, <1>7, <2>1, <2>2
  <2> QED
    BY <1>4, <1>5, <2>2, <2>3, <2>4
<1>12. ASSUME status.read, ~Busy, verdict = "ok", ~NeedsLook
       PROVE  fleet.text = "ready"
  <2>1. LifeOf = "none"
    BY <1>8, <1>12
  <2>2. /\ "bad" \notin {ControllerCheck, WorkersCheck} /\ WorkersCheck # "warn"
        /\ {AccountingCheck, FilesCheck} \cap {"warn", "bad"} = {}
    BY <1>7, <1>12, <2>1
  <2>3. ControllerCheck # "bad" /\ CountedWorkers # {}
    BY <1>6, <2>2
  <2> QED
    BY <1>10, <1>12, <2>1, <2>2, <2>3
<1>13. ASSUME status.read, state = "running", fleet.class \in {"warn", "bad"}
       PROVE  Look # {} \/ fleet.note
  <2>1. LifeOf = "none" /\ (~Busy \/ NeedsLook)
    BY <1>13, FleetUnchecked DEF fleet
  <2> SUFFICES ASSUME Look = {}
               PROVE  fleet.note
    OBVIOUS
  <2>2. ~NeedsLook /\ ~Busy
    BY <1>3, <1>13, <2>1
  <2>3. CASE ControllerCheck = "bad" \/ CountedWorkers = {}
    BY <1>10, <1>13, <2>1, <2>3
  <2>4. CASE ControllerCheck # "bad" /\ CountedWorkers # {}
    <3>1. WorkersCheck = "ok"
      BY <1>4, <1>6, <2>2, <2>4
    <3>2. verdict # "bad"
      BY <1>7, <1>13, <2>1, <2>4, <3>1
    <3>3. (other => fleet.note = TRUE) /\ (~other => fleet.class = "ok")
      BY <1>10, <1>13, <2>1, <2>2, <2>4, <3>1, <3>2
    <3> QED
      BY <1>13, <3>3
  <2> QED
    BY <2>3, <2>4
<1> QED
  BY <1>11, <1>12, <1>13 DEF FleetAgrees, fleet, verdict

\* A card that says "Fixed" is no guess.
LEMMA CardStatic ==
  ASSUME PagesTypeOK
  PROVE  CardHonest
<1> SUFFICES ASSUME NEW n \in Listed, Known(n), Card(n) = "fixed"
             PROVE  /\ Row(n) # "open"
                    /\ fix.op # "resume" => seen[n] = "running"
                    /\ fix.unit # "none" => fix.unit \notin Down(n)
                    /\ Sinfo(n) => TakesJobs(sinfo.nodes[n])
  BY DEF CardHonest
<1>1. ~Life(n) /\ HasFixed(n) /\ ~HasDiag(n) /\ FixHolds(n)
  BY DEF Card
<1>2. Sinfo(n) => TakesJobs(sinfo.nodes[n])
  BY <1>1 DEF FixHolds
<1>3. fix.node = n /\ fix # NoFix
  BY <1>1 DEF HasFixed, NoFix
<1>4. IF fix.op = "restart-service" THEN fix.unit \in ServicesOf(n) ELSE fix.unit = "none"
  BY <1>3 DEF PagesTypeOK
<1>5. \A s \in ServicesOf(n) : fix.unit \in {"none", s} =>
        s \notin status.nodes[n].down /\ seen[n] = "running"
  BY <1>1 DEF FixHolds
<1>6. "munge" \in ServicesOf(n)
  BY DEF ServicesOf
<1>7. seen[n] = "running"
  BY <1>4, <1>5, <1>6
<1>8. fix.unit # "none" => fix.unit \notin Down(n)
  BY <1>4, <1>5 DEF Down
<1>9. ~Problem(n)
  <2>1. CASE ~Busy
    BY <1>1, <2>1 DEF HasDiag
  <2>2. CASE Busy
    BY <1>7, <2>2 DEF Problem
  <2> QED
    BY <2>1, <2>2
<1> QED
  BY <1>2, <1>7, <1>8, <1>9 DEF Row

\* A row that is fixed leads to a page that says so.
LEMMA RowStatic == FixedRowHasCard
<1> SUFFICES ASSUME NEW n \in Listed, Row(n) = "fixed", ~Life(n)
             PROVE  Card(n) \in {"fixed", "waits"}
  BY DEF FixedRowHasCard
<1>1. ~Problem(n) /\ HasFixed(n)
  BY DEF Row
<1> QED
  BY <1>1 DEF Card, HasDiag

\* Whatever the store holds, read at whatever times, every page says the same
\* of a node and a cluster, and no page offers what its dialog then refuses
\* (pgProblem, pgLadder, pgReadyOf, pgFleetReadyOf, pgLoadNode).
THEOREM PagesInvHolds ==
  ASSUME RolesOK
  PROVE  PagesInit /\ [][PagesNext]_pageVars => []PagesInv
<1>1. PagesInit => PagesTypeOK
  <2> SUFFICES ASSUME PagesInit
               PROVE  PagesTypeOK
    OBVIOUS
  <2>1. /\ state = "running" /\ fix = NoFix
        /\ status = [read |-> FALSE, data |-> TRUE, nodes |-> <<>>]
        /\ seen = [n \in Node |-> "running"]
        /\ sinfo = [err |-> FALSE, nodes |-> [n \in SlurmNodes |-> "idle"]]
    BY DEF PagesInit, SlurmNodes
  <2>2. fix \in [stage : {"none", "runs", "ok", "over"}, op : FixOps \cup {"none", "restart-service"},
                 unit : {ServiceOrder[i] : i \in DOMAIN ServiceOrder} \cup {"none"},
                 node : Followed \cup {"none"}, fixes : BOOLEAN]
    BY <2>1 DEF NoFix
  <2>3. DOMAIN status.nodes = {}
    BY <2>1
  <2>4. /\ seen \in [Node -> States]
        /\ sinfo.err = FALSE /\ DOMAIN sinfo.nodes = SlurmNodes
        /\ \A n \in SlurmNodes : sinfo.nodes[n] \in SlurmStates
    BY <2>1 DEF States, SlurmStates
  <2> QED
    BY <2>1, <2>2, <2>3, <2>4 DEF PagesTypeOK
<1>2. PagesTypeOK /\ [PagesNext]_pageVars => PagesTypeOK'
  BY PagesTypeStep
<1>3. PagesTypeOK => PagesInv
  BY FixesStatic, OwnedStatic, LookStatic, WarningsStatic, FleetStatic, CardStatic, RowStatic
     DEF PagesInv
<1> QED
  BY <1>1, <1>2, <1>3, PTL
=============================================================================

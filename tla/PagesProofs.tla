---------------------------- MODULE PagesProofs -----------------------------
(***************************************************************************)
(* Proofs about the store of sind ui and the pages that show it.           *)
(*   - The store keeps no status of a cluster that nobody lists or watches *)
(*     (Collector).  The notices carry the argument: what makes the store  *)
(*     no longer keep a cluster (SetClusters, Close) leaves one, and only  *)
(*     a turn of Status that drops the status takes it.                    *)
(*   - A page with nothing left to render shows what the store holds       *)
(*     (LivePages): every setter notifies topics for all that it changes,  *)
(*     and every fragment depends on these for all that it follows.        *)
(*   - What the pages say of a command is true of it and the same, and     *)
(*     what they offer can be done (Runs): the log and the process agree   *)
(*     on how a command ended, in whatever order its ends come to be known.*)
(***************************************************************************)
EXTENDS Collector, TLAPS

CONSTANTS MaxDirty, MaxReconnects
VARIABLES frag, sse, dirty, pending, taken, ended, reconnects

L == INSTANCE LivePages WITH stream <- sse

CONSTANTS Node, Casts, RunWaits
VARIABLES op, origin, places, log, proc, silent, task

U == INSTANCE Runs

-----------------------------------------------------------------------------
(* The store (Collector).                                                  *)

\* Every step keeps the types and the notice of a newly watched cluster.
LEMMA TypeStep == StoreTypeOK /\ [CollectNext]_collectVars => StoreTypeOK'
<1> SUFFICES ASSUME StoreTypeOK, [CollectNext]_collectVars
             PROVE  StoreTypeOK'
  OBVIOUS
<1> USE CollectorAssumption DEF StoreTypeOK, world, events, bus, sind, pages, reader
<1>0. \A a, b \in When : Sooner(a, b) \in When
  BY DEF Sooner, When
<1>1. CASE Change
  <2>1. changed' \in 0..MaxMoves /\ cluster' \in Data
    BY <1>1 DEF Change, MayMove, Data, Gone
  <2>2. sindBus' \in BOOLEAN /\ statusBus' \in When
    BY <1>0, <1>1 DEF Change, Notify, When
  <2> QED
    BY <1>1, <2>1, <2>2 DEF Change
<1>2. CASE StreamEnds
  BY <1>2 DEF StreamEnds, MayMove
<1>3. CASE Restart \/ Refresh
  <2>1. sindBus' \in BOOLEAN /\ statusBus' \in When
    BY <1>0, <1>3 DEF Restart, Refresh, Notify, When
  <2> QED
    BY <1>3, <2>1 DEF Restart, Refresh
<1>4. CASE Connect \/ List \/ SetClusters
  <2>1. CASE Connect
    BY <2>1 DEF Connect
  <2>3. CASE List
    <3>1. lister' \in {"there", "gone"} /\ sindBus' \in BOOLEAN
      BY <2>3, Zenon DEF List
    <3> QED
      BY <2>3, <3>1 DEF List
  <2>2. CASE SetClusters
    <3>1. listed' \in BOOLEAN /\ topic' \in BOOLEAN
      BY <2>2, Zenon DEF SetClusters
    <3> QED
      BY <2>2, <3>1 DEF SetClusters
  <2> QED
    BY <1>4, <2>1, <2>2, <2>3
<1>5. CASE Open \/ Close
  <2>1. CASE Open
    <3>1. /\ visits' \in 0..MaxMoves
          /\ page' \in {"other", "cluster"}
          /\ resume' \in BOOLEAN
      BY <2>1 DEF Open, MayMove
    <3>2. CASE page' = "cluster"
      BY <2>1, <3>1, <3>2 DEF Open
    <3>3. CASE page' # "cluster"
      BY <2>1, <3>1, <3>3 DEF Open
    <3> QED
      BY <3>2, <3>3
  <2>2. CASE Close
    <3>1. fresh' \in BOOLEAN /\ wake' \in BOOLEAN /\ ~fresh'
      BY <2>2, Zenon DEF Close
    <3> QED
      BY <2>2, <3>1 DEF Close
  <2> QED
    BY <1>5, <2>1, <2>2
<1>6. ASSUME NEW read, NEW d \in When, Selecting, Turn(read, d)
      PROVE  /\ due' \in When
             /\ reading' \in [at : {"idle", "asking", "answered", "kept"}, got : Data \cup {Unread}]
  <2>1. CASE read \/ d = "now"
    BY <1>6, <2>1 DEF Turn, Read, When
  <2>2. CASE ~(read \/ d = "now")
    BY <1>6, <2>2 DEF Turn
  <2> QED
    BY <2>1, <2>2
<1>7. KeepStatuses => stored' \in Data \cup {Unread}
  BY DEF KeepStatuses
<1>8. CASE Tick \/ All \/ Resume \/ ListChanged \/ Wake \/ TakeEvents \/ Timer
  <2>1. \E read, d : d \in When /\ Selecting /\ Turn(read, d)
    BY <1>0, <1>8 DEF Tick, All, Resume, ListChanged, Wake, TakeEvents, Timer, When
  <2>2. /\ due' \in When
        /\ reading' \in [at : {"idle", "asking", "answered", "kept"}, got : Data \cup {Unread}]
    BY <1>6, <2>1
  <2>3. CASE Tick
    BY <2>2, <2>3 DEF Tick
  <2>8. CASE All
    BY <2>2, <2>8 DEF All
  <2>9. CASE Timer
    BY <2>2, <2>9 DEF Timer
  <2>4. CASE Resume
    <3>1. /\ resume' = FALSE
          /\ UNCHANGED <<world, events, bus, sind, page, visits, fresh, wake, seen, stored>>
      BY <2>4, Zenon DEF Resume
    <3>2. /\ cluster' = cluster /\ changed' = changed /\ stream' = stream /\ breaks' = breaks
          /\ sindBus' = sindBus /\ statusBus' = statusBus /\ lister' = lister
          /\ listed' = listed /\ topic' = topic
      BY <3>1
    <3>3. /\ page' = page /\ visits' = visits /\ fresh' = fresh /\ wake' = wake
          /\ resume' \in BOOLEAN /\ seen' = seen /\ stored' = stored
      BY <3>1
    <3> QED
      BY <2>2, <3>2, <3>3
  <2>5. CASE ListChanged
    BY <1>7, <2>2, <2>5 DEF ListChanged
  <2>6. CASE Wake
    BY <1>7, <2>2, <2>6 DEF Wake
  <2>7. CASE TakeEvents
    BY <2>2, <2>7 DEF TakeEvents, When
  <2> QED
    BY <1>8, <2>3, <2>4, <2>5, <2>6, <2>7, <2>8, <2>9
<1>9. CASE Answer \/ CheckKeep
  BY <1>9 DEF Answer, CheckKeep, Read, Idle
<1>10. CASE SetStatus \/ ClearGone
  BY <1>10 DEF SetStatus, ClearGone, Idle
<1>11. CASE UNCHANGED collectVars
  BY <1>11 DEF collectVars
<1> QED
  BY <1>1, <1>2, <1>3, <1>4, <1>5, <1>8, <1>9, <1>10, <1>11
     DEF CollectNext, Pass, ListAll, Polls, Loop, ReadStep

\* Every step keeps the store's statuses with what it lists or watches, or
\* with a notice.
LEMMA KeepStep == StoreTypeOK /\ ReadKept /\ StatusKept /\ [CollectNext]_collectVars => ReadKept' /\ StatusKept'
<1> SUFFICES ASSUME StoreTypeOK, ReadKept, StatusKept, [CollectNext]_collectVars
             PROVE  ReadKept' /\ StatusKept'
  OBVIOUS
<1> USE DEF StoreTypeOK, ReadKept, StatusKept, Keep, Selecting, Idle, Read,
            world, events, bus, sind, pages, reader
<1>1. CASE Change \/ StreamEnds \/ Restart \/ Connect \/ Refresh \/ List
  BY <1>1 DEF Change, StreamEnds, Restart, Connect, Refresh, List
<1>2. CASE SetClusters
  BY <1>2 DEF SetClusters
<1>3. CASE Open
  BY <1>3 DEF Open
<1>4. CASE Close
  BY <1>4 DEF Close
<1>5. CASE Wake
  BY <1>5 DEF Wake, Turn, KeepStatuses
<1>6. CASE ListChanged
  BY <1>6 DEF ListChanged, Turn, KeepStatuses
<1>7. CASE Tick \/ All \/ Resume \/ TakeEvents \/ Timer
  BY <1>7 DEF Tick, All, Resume, TakeEvents, Timer, Turn
<1>8. CASE Answer \/ CheckKeep
  BY <1>8 DEF Answer, CheckKeep
<1>9. CASE SetStatus
  BY <1>9 DEF SetStatus
<1>10. CASE ClearGone
  BY <1>10 DEF ClearGone
<1>11. CASE UNCHANGED collectVars
  BY <1>11 DEF collectVars
<1> QED
  BY <1>1, <1>2, <1>3, <1>4, <1>5, <1>6, <1>7, <1>8, <1>9, <1>10, <1>11
     DEF CollectNext, Pass, ListAll, Polls, Loop, ReadStep

\* For every number of moves: the store keeps no status that nobody lists or
\* watches, whatever read was under way when the cluster went (status.go:
\* read, keepStatuses).
THEOREM StoreInvHolds == CollectSpec => []StoreInv
<1>1. CollectInit => StoreInv
  <2> SUFFICES ASSUME CollectInit PROVE StoreTypeOK /\ ReadKept /\ StatusKept
    BY DEF StoreInv
  <2>1. /\ sindBus \in BOOLEAN
        /\ listed \in BOOLEAN
        /\ topic \in BOOLEAN
        /\ resume \in BOOLEAN
        /\ fresh \in BOOLEAN /\ wake \in BOOLEAN /\ seen \in BOOLEAN /\ ~fresh
    BY Zenon DEF CollectInit
  <2>4. /\ cluster \in Data /\ changed \in 0..MaxMoves /\ breaks \in 0..MaxMoves
        /\ visits \in 0..MaxMoves
    BY CollectorAssumption DEF CollectInit, Data, Gone
  <2>5. reading \in [at : {"idle", "asking", "answered", "kept"}, got : Data \cup {Unread}]
    BY DEF CollectInit, Idle
  <2>2. StoreTypeOK
    BY <2>1, <2>4, <2>5 DEF CollectInit, StoreTypeOK, When
  <2>3. ReadKept /\ StatusKept
    BY DEF CollectInit, ReadKept, StatusKept, Idle
  <2> QED
    BY <2>2, <2>3
<1>2. StoreInv /\ [CollectNext]_collectVars => StoreInv'
  BY TypeStep, KeepStep DEF StoreInv
<1> QED
  BY <1>1, <1>2, PTL DEF CollectSpec

-----------------------------------------------------------------------------
(* The live updates of the pages (LivePages).                              *)

\* The topics that a setter notifies for each part that it changes; the
\* changes of a node come with its nodes or with a status.
Told(s) ==
    /\ "nodes" \in s[1] => "nodes/" \in s[2]
    /\ "changes" \in s[1] => "nodes/" \in s[2] \/ "status/" \in s[2]
    /\ "statuses" \in s[1] \/ "slurms" \in s[1] \/ "faults" \in s[1] => "status/" \in s[2]
    /\ "realms" \in s[1] => "realms" \in s[2]
    /\ "clusters" \in s[1] => "clusters/" \in s[2]
    /\ "networks" \in s[1] => "networks/" \in s[2]
    /\ "volumes" \in s[1] => "volumes/" \in s[2]
    /\ "meshes" \in s[1] => "mesh/" \in s[2]
    /\ "locks" \in s[1] => "lock/" \in s[2]
    /\ "monitorings" \in s[1] => "monitoring/" \in s[2]
    /\ "doctor" \in s[1] => "doctor" \in s[2]
    /\ "docker" \in s[1] => "docker" \in s[2]
    /\ "dismissed" \in s[1] => "needs" \in s[2]
    /\ "tasks" \in s[1] => "tasks" \in s[2]
    /\ "run" \in s[1] => "run/this" \in s[2] /\ "runs" \in s[2]
    /\ "runs" \in s[1] => "run/other" \in s[2] /\ "runs" \in s[2]
    /\ "task" \in s[1] => "run/this" \in s[2] /\ "run/other" \in s[2] /\ "tasks" \in s[2]

Parts == {"nodes", "changes", "statuses", "slurms", "faults", "realms", "clusters", "networks",
          "volumes", "meshes", "locks", "monitorings", "doctor", "docker", "dismissed", "tasks",
          "run", "runs", "task"}

\* Every setter of the store tells of what it changes.
LEMMA SettersTell == ASSUME NEW s \in L!Setters PROVE Told(s) /\ s[1] \subseteq Parts
<1> USE DEF Told, Parts
<1>1. CASE s \in {L!SetNodes, L!DismissRun}
  BY <1>1 DEF L!SetNodes, L!DismissRun
<1>2. CASE s \in L!SetOfStatus
  BY <1>2 DEF L!SetOfStatus
<1>3. CASE s \in L!SetLists
  BY <1>3 DEF L!SetLists
<1>4. CASE s \in L!SetRuns
  <2>1. PICK rs \in SUBSET L!Runs : s = <<rs, {"runs"} \cup {L!RunTopicOf[r] : r \in rs}>>
    BY <1>4 DEF L!SetRuns
  <2>2. s[1] = rs /\ s[2] = {"runs"} \cup {L!RunTopicOf[r] : r \in rs}
    BY <2>1
  <2>3. /\ "run" \in rs => "run/this" \in {L!RunTopicOf[r] : r \in rs}
        /\ "runs" \in rs => "run/other" \in {L!RunTopicOf[r] : r \in rs}
    BY DEF L!RunTopicOf
  <2> QED
    BY <2>1, <2>2, <2>3 DEF L!Runs
<1>5. CASE s \in L!UpdateTask
  <2>1. CASE s = <<{"tasks"}, {"tasks"}>>
    BY <2>1
  <2>2. CASE \E run \in {{}, {"run"}, {"runs"}}, drop \in {{}, {"task"}} :
               s = <<{"tasks"} \cup run \cup drop,
                     {"tasks"} \cup {L!RunTopicOf[r] : r \in run}
                       \cup (IF run = {} THEN {} ELSE {"runs"})
                       \cup (IF drop = {} THEN {} ELSE {"run/this", "run/other"})>>
    <3>1. PICK run \in {{}, {"run"}, {"runs"}}, drop \in {{}, {"task"}} :
            /\ s[1] = {"tasks"} \cup run \cup drop
            /\ s[2] = {"tasks"} \cup {L!RunTopicOf[r] : r \in run}
                        \cup (IF run = {} THEN {} ELSE {"runs"})
                        \cup (IF drop = {} THEN {} ELSE {"run/this", "run/other"})
      BY <2>2
    <3>2. /\ "run" \in run => "run/this" \in {L!RunTopicOf[r] : r \in run}
          /\ "runs" \in run => "run/other" \in {L!RunTopicOf[r] : r \in run}
      BY DEF L!RunTopicOf
    <3> QED
      BY <3>1, <3>2
  <2> QED
    BY <1>5, <2>1, <2>2 DEF L!UpdateTask
<1> QED
  BY <1>1, <1>2, <1>3, <1>4, <1>5 DEF L!Setters

\* A fragment depends on a topic that every setter of a part notifies, of
\* the parts that it shows and follows.
Follows(f) ==
    LET shown == L!Reads[f] \ L!Unwatched(f)
        topics == L!Depends[f]
    IN /\ "nodes" \in shown => "nodes/" \in topics
       /\ "changes" \in shown => {"nodes/", "status/"} \subseteq topics
       /\ "statuses" \in shown \/ "slurms" \in shown \/ "faults" \in shown => "status/" \in topics
       /\ "realms" \in shown => "realms" \in topics
       /\ "clusters" \in shown => "clusters/" \in topics
       /\ "networks" \in shown => "networks/" \in topics
       /\ "volumes" \in shown => "volumes/" \in topics
       /\ "meshes" \in shown => "mesh/" \in topics
       /\ "locks" \in shown => "lock/" \in topics
       /\ "monitorings" \in shown => "monitoring/" \in topics
       /\ "doctor" \in shown => "doctor" \in topics
       /\ "docker" \in shown => "docker" \in topics
       /\ "dismissed" \in shown => "needs" \in topics
       /\ "tasks" \in shown => "tasks" \in topics
       /\ "run" \in shown => {"run/this", "runs"} \cap topics # {}
       /\ "runs" \in shown => {"run/other", "runs"} \cap topics # {}
       /\ "task" \in shown => {"run/this", "run/other", "tasks"} \cap topics # {}

\* Every fragment does so.
LEMMA FragmentsFollow == ASSUME NEW f \in DOMAIN L!Reads PROVE Follows(f)
<1>1. CASE f = "dock"
  <2>1. /\ L!Reads[f] = L!DockLoad
        /\ L!Depends[f] = {"tasks", "run/this", "run/other"}
    BY <1>1 DEF L!Reads, L!Depends
  <2>2. L!Unwatched(f) = {}
    BY <1>1 DEF L!Unwatched
  <2> QED
    BY <2>1, <2>2 DEF Follows, L!DockLoad, L!Runs, L!Tasks
<1>2. CASE f = "doctor"
  <2>1. /\ L!Reads[f] = L!DoctorLoad
        /\ L!Depends[f] = {"doctor", "docker"}
    BY <1>2 DEF L!Reads, L!Depends
  <2>2. L!Unwatched(f) = {}
    BY <1>2 DEF L!Unwatched
  <2> QED
    BY <2>1, <2>2 DEF Follows, L!DoctorLoad
<1>3. CASE f = "mesh"
  <2>1. /\ L!Reads[f] = L!MeshLoad
        /\ L!Depends[f] = {"realms", "docker", "mesh/", "networks/", "nodes/"}
    BY <1>3 DEF L!Reads, L!Depends
  <2>2. L!Unwatched(f) = {"clusters"}
    BY <1>3 DEF L!Unwatched
  <2> QED
    BY <2>1, <2>2 DEF Follows, L!MeshLoad, L!RealmNames
<1>4. CASE f = "monitoring"
  <2>1. /\ L!Reads[f] = L!MonitoringLoad
        /\ L!Depends[f] = {"realms", "docker", "doctor", "monitoring/", "nodes/"}
    BY <1>4 DEF L!Reads, L!Depends
  <2>2. L!Unwatched(f) = {}
    BY <1>4 DEF L!Unwatched
  <2> QED
    BY <2>1, <2>2 DEF Follows, L!MonitoringLoad
<1>5. CASE f = "topology"
  <2>1. /\ L!Reads[f] = L!TopologyOf
        /\ L!Depends[f] = {"realms", "docker", "doctor", "clusters/", "nodes/", "networks/",
                           "mesh/", "monitoring/"}
    BY <1>5 DEF L!Reads, L!Depends
  <2>2. L!Unwatched(f) = {}
    BY <1>5 DEF L!Unwatched
  <2> QED
    BY <2>1, <2>2 DEF Follows, L!TopologyOf, L!RealmNames
<1>6. CASE f = "clusters"
  <2>1. /\ L!Reads[f] = L!LoadClusters
        /\ L!Depends[f] = L!ListTopics
    BY <1>6 DEF L!Reads, L!Depends
  <2>2. L!Unwatched(f) = {"tasks", "volumes"}
    BY <1>6 DEF L!Unwatched
  <2> QED
    BY <2>1, <2>2 DEF Follows, L!LoadClusters, L!ClustersOf, L!RealmNames,
      L!NodesOf, L!Runs, L!StopOf, L!DataKinds, L!Chip, L!DockerNote, L!ListTopics,
      L!RunPrefix
<1>7. CASE f = "nodes"
  <2>1. /\ L!Reads[f] = L!LoadNodes
        /\ L!Depends[f] = L!ListTopics
    BY <1>7 DEF L!Reads, L!Depends
  <2>2. L!Unwatched(f) = {}
    BY <1>7 DEF L!Unwatched
  <2> QED
    BY <2>1, <2>2 DEF Follows, L!LoadNodes, L!ClustersOf, L!RealmNames, L!NodesOf,
      L!Runs, L!DockerNote, L!ListTopics, L!RunPrefix
<1>8. CASE f = "fleet"
  <2>1. /\ L!Reads[f] = L!LoadOverview
        /\ L!Depends[f] = L!OverviewTopics
    BY <1>8 DEF L!Reads, L!Depends
  <2>2. L!Unwatched(f) = {"volumes", "meshes"}
    BY <1>8 DEF L!Unwatched
  <2> QED
    BY <2>1, <2>2 DEF Follows, L!LoadOverview, L!RealmRows, L!RealmNames, L!NodesOf,
      L!Runs, L!DataKinds, L!Chip, L!DockerNote, L!OverviewTopics, L!ListTopics, L!RunPrefix
<1>9. CASE f = "needs"
  <2>1. /\ L!Reads[f] = L!NeedsOf
        /\ L!Depends[f] = L!OverviewTopics
    BY <1>9 DEF L!Reads, L!Depends
  <2>2. L!Unwatched(f) = {}
    BY <1>9 DEF L!Unwatched
  <2> QED
    BY <2>1, <2>2 DEF Follows, L!NeedsOf, L!ClustersOf, L!RealmNames, L!NodesOf,
      L!Runs, L!Tasks, L!Failures, L!EntryOf, L!TaskOf, L!OverviewTopics,
      L!ListTopics, L!RunPrefix
<1>10. CASE f = "recent"
  <2>1. /\ L!Reads[f] = L!Runs \cup L!EntryOf
        /\ L!Depends[f] = L!RunPrefix
    BY <1>10 DEF L!Reads, L!Depends
  <2>2. L!Unwatched(f) = {"clusters"}
    BY <1>10 DEF L!Unwatched
  <2> QED
    BY <2>1, <2>2 DEF Follows, L!Runs, L!EntryOf, L!TaskOf, L!RunPrefix
<1>11. CASE f = "cluster_head"
  <2>1. /\ L!Reads[f] = L!ClusterHead
        /\ L!Depends[f] = L!ClusterTopics("nodes")
    BY <1>11 DEF L!Reads, L!Depends
  <2>2. L!Unwatched(f) = {"tasks", "monitorings", "docker"}
    BY <1>11 DEF L!Unwatched
  <2> QED
    BY <2>1, <2>2 DEF Follows, L!ClusterHead, L!ClusterView, L!ClusterOf, L!NodesOf,
      L!Runs, L!StopOf, L!Chip, L!DockerNote, L!ClusterTopics
<1>12. CASE f = "cluster_summary"
  <2>1. /\ L!Reads[f] = L!ClusterView \cup L!SummaryTab
        /\ L!Depends[f] = L!ClusterTopics("summary")
    BY <1>12 DEF L!Reads, L!Depends
  <2>2. L!Unwatched(f) = {}
    BY <1>12 DEF L!Unwatched
  <2> QED
    BY <2>1, <2>2 DEF Follows, L!ClusterView, L!ClusterOf, L!NodesOf, L!Runs,
      L!SummaryTab, L!Chip, L!ClusterTopics
<1>13. CASE f = "cluster_nodes"
  <2>1. /\ L!Reads[f] = L!ClusterView
        /\ L!Depends[f] = L!ClusterTopics("nodes")
    BY <1>13 DEF L!Reads, L!Depends
  <2>2. L!Unwatched(f) = {}
    BY <1>13 DEF L!Unwatched
  <2> QED
    BY <2>1, <2>2 DEF Follows, L!ClusterView, L!ClusterOf, L!NodesOf, L!Runs,
      L!ClusterTopics
<1>14. CASE f = "cluster_network"
  <2>1. /\ L!Reads[f] = L!NetworkTab
        /\ L!Depends[f] = L!ClusterTopics("network")
    BY <1>14 DEF L!Reads, L!Depends
  <2>2. L!Unwatched(f) = {}
    BY <1>14 DEF L!Unwatched
  <2> QED
    BY <2>1, <2>2 DEF Follows, L!NetworkTab, L!ClusterTopics
<1>15. CASE f = "cluster_connect"
  <2>1. /\ L!Reads[f] = L!ConnectTab
        /\ L!Depends[f] = L!ClusterTopics("connect")
    BY <1>15 DEF L!Reads, L!Depends
  <2>2. L!Unwatched(f) = {"statuses"}
    BY <1>15 DEF L!Unwatched
  <2> QED
    BY <2>1, <2>2 DEF Follows, L!ConnectTab, L!Chip, L!ClusterTopics
<1>16. CASE f = "node"
  <2>1. /\ L!Reads[f] = L!LoadNode
        /\ L!Depends[f] = L!ClusterTopics("nodes")
    BY <1>16 DEF L!Reads, L!Depends
  <2>2. L!Unwatched(f) = {"tasks", "task", "docker"}
    BY <1>16 DEF L!Unwatched
  <2> QED
    BY <2>1, <2>2 DEF Follows, L!LoadNode, L!ClusterOf, L!NodesOf, L!Runs,
      L!NodeActs, L!Tasks, L!SvcRows, L!DiagOf, L!FixedOf, L!ChangeRows, L!DockerNote,
      L!ClusterTopics
<1>17. CASE f = "run_head"
  <2>1. /\ L!Reads[f] = L!RunHead
        /\ L!Depends[f] = L!RunTopics
    BY <1>17 DEF L!Reads, L!Depends
  <2>2. L!Unwatched(f) = {"tasks", "runs", "clusters"}
    BY <1>17 DEF L!Unwatched
  <2> QED
    BY <2>1, <2>2 DEF Follows, L!RunHead, L!RunCtx, L!TaskOf, L!Tasks, L!LockHolder,
      L!Runs, L!EntryOf, L!RunBack, L!RunTopics
<1>18. CASE f = "run_outcome"
  <2>1. /\ L!Reads[f] = L!RunOutcome
        /\ L!Depends[f] = L!RunTopics \cup {"doctor", "clusters/", "nodes/", "status/"}
    BY <1>18 DEF L!Reads, L!Depends
  <2>2. L!Unwatched(f) = {"runs"}
    BY <1>18 DEF L!Unwatched
  <2> QED
    BY <2>1, <2>2 DEF Follows, L!RunOutcome, L!RunCtx, L!TaskOf, L!ClusterOf,
      L!NodesOf, L!Runs, L!RunTopics
<1>19. CASE f = "run_summary"
  <2>1. /\ L!Reads[f] = L!RunSummary
        /\ L!Depends[f] = L!RunTopics
    BY <1>19 DEF L!Reads, L!Depends
  <2>2. L!Unwatched(f) = {"tasks", "runs"}
    BY <1>19 DEF L!Unwatched
  <2> QED
    BY <2>1, <2>2 DEF Follows, L!RunSummary, L!RunCtx, L!TaskOf, L!StopOf,
      L!RunUsual, L!RunTopics
<1>20. CASE f = "run_facts"
  <2>1. /\ L!Reads[f] = L!RunFacts
        /\ L!Depends[f] = L!RunTopics
    BY <1>20 DEF L!Reads, L!Depends
  <2>2. L!Unwatched(f) = {}
    BY <1>20 DEF L!Unwatched
  <2> QED
    BY <2>1, <2>2 DEF Follows, L!RunFacts, L!RunCtx, L!TaskOf, L!RunTopics
<1>21. CASE f = "run_list"
  <2>1. /\ L!Reads[f] = L!RunList
        /\ L!Depends[f] = {"runs", "tasks"}
    BY <1>21 DEF L!Reads, L!Depends
  <2>2. L!Unwatched(f) = {"clusters"}
    BY <1>21 DEF L!Unwatched
  <2> QED
    BY <2>1, <2>2 DEF Follows, L!RunList, L!Runs, L!EntryOf, L!TaskOf
<1>22. CASE f = "run_wait"
  <2>1. /\ L!Reads[f] = L!RunWait
        /\ L!Depends[f] = {"tasks", "run/this", "run/other"}
    BY <1>22 DEF L!Reads, L!Depends
  <2>2. L!Unwatched(f) = {"clusters"}
    BY <1>22 DEF L!Unwatched
  <2> QED
    BY <2>1, <2>2 DEF Follows, L!RunWait, L!Tasks, L!Runs, L!RunBack
<1> QED
  BY <1>1, <1>2, <1>3, <1>4, <1>5, <1>6, <1>7, <1>8, <1>9, <1>10, <1>11, <1>12,
    <1>13, <1>14, <1>15, <1>16, <1>17, <1>18, <1>19, <1>20, <1>21, <1>22 DEF L!Reads

\* A setter that tells a fragment nothing changes nothing that it follows.
LEMMA SettersReach ==
  ASSUME NEW f \in DOMAIN L!Reads, NEW s \in L!Setters, ~L!depends(f, s[2])
  PROVE  s[1] \cap L!Reads[f] \subseteq L!Unwatched(f)
<1> SUFFICES ASSUME NEW part \in s[1], part \in L!Reads[f] \ L!Unwatched(f)
             PROVE  FALSE
  OBVIOUS
<1>1. \A t \in L!Depends[f] : t \notin s[2]
  BY DEF L!depends
<1>2. part \in Parts /\ Told(s) /\ Follows(f)
  BY SettersTell, FragmentsFollow
<1> QED
  BY <1>1, <1>2 DEF Parts, Told, Follows

\* A setter that reaches the fragment makes the stream render it.
LEMMA ChangeStep ==
  ASSUME L!PagesFresh, frag \in DOMAIN L!Reads, NEW s \in L!Setters, L!Change(s)
  PROVE  L!PagesFresh'
<1> SUFFICES ASSUME sse = "live", ~pending', ~taken
             PROVE  dirty' \subseteq L!Unwatched(frag)
  BY DEF L!Change, L!PagesFresh
<1>1. ~pending /\ ~L!depends(frag, s[2])
  BY DEF L!Change
<1>2. dirty \subseteq L!Unwatched(frag)
  BY <1>1 DEF L!PagesFresh
<1>3. s[1] \cap L!Reads[frag] \subseteq L!Unwatched(frag)
  BY <1>1, SettersReach
<1> QED
  BY <1>2, <1>3 DEF L!Change

\* A page with nothing left to render shows the snapshot as it is, in every
\* part that its fragment follows, for any number of changes and reconnects
\* (internal/ui/sse.go, store.go and the topics of the pages).
THEOREM PagesFreshHolds == L!LiveSpec => []L!PagesFresh
<1> DEFINE Inv == L!PagesFresh /\ frag \in DOMAIN L!Reads
<1>1. L!LiveInit => Inv
  BY DEF L!LiveInit, L!PagesFresh
<1>2. Inv /\ [L!LiveNext]_(L!liveVars) => Inv'
  <2> SUFFICES ASSUME L!PagesFresh, frag \in DOMAIN L!Reads, [L!LiveNext]_(L!liveVars)
               PROVE  L!PagesFresh' /\ frag' \in DOMAIN L!Reads
    OBVIOUS
  <2>1. CASE L!Set
    <3>1. PICK s \in L!Setters : L!Change(s)
      BY <2>1 DEF L!Set
    <3> QED
      BY <3>1, ChangeStep DEF L!Change
  <2>2. CASE L!EndTask
    <3>1. <<{"tasks"}, {"tasks"}>> \in L!Setters
      BY DEF L!Setters, L!UpdateTask
    <3>2. L!Change(<<{"tasks"}, {"tasks"}>>)
      BY <2>2 DEF L!EndTask
    <3> QED
      BY <3>1, <3>2, ChangeStep DEF L!Change
  <2>3. CASE L!RefreshAfterTask
    <3>1. CASE UNCHANGED <<frag, sse, dirty, pending, taken, reconnects>>
      BY <3>1 DEF L!PagesFresh
    <3>2. CASE \E s \in L!SetOfStatus : L!Change(s)
      BY <3>2, ChangeStep DEF L!Change, L!Setters
    <3> QED
      BY <2>3, <3>1, <3>2 DEF L!RefreshAfterTask
  <2>4. CASE L!Subscribe \/ L!Reconnect
    BY <2>4 DEF L!Subscribe, L!Reconnect, L!PagesFresh
  <2>5. CASE L!FirstRender \/ L!RenderEvents
    BY <2>5 DEF L!FirstRender, L!RenderEvents, L!PagesFresh
  <2>6. CASE L!TakeTopics
    BY <2>6 DEF L!TakeTopics, L!PagesFresh
  <2>7. CASE UNCHANGED L!liveVars
    BY <2>7 DEF L!liveVars, L!PagesFresh
  <2> QED
    BY <2>1, <2>2, <2>3, <2>4, <2>5, <2>6, <2>7 DEF L!LiveNext
<1> QED
  BY <1>1, <1>2, PTL DEF L!LiveSpec

-----------------------------------------------------------------------------
(* What the pages say of a command (Runs).                                 *)

\* The run of the store ends with its log, its silence or its task.
LEMMA RunIs ==
  ASSUME U!RunsTypeOK
  PROVE  /\ U!Run.done \in BOOLEAN
         /\ U!Run.done <=> log.status # "" \/ silent \/ U!TaskOver
         /\ U!Run.status = IF log.status # "" THEN log.status
                         ELSE IF ~silent /\ U!TaskOver THEN task.status ELSE ""
         /\ U!Run.status \in {""} \cup U!Ends
<1>1. log.status \in {""} \cup U!Ends /\ silent \in BOOLEAN
  BY DEF U!RunsTypeOK, U!Entries
<1>2. CASE log.status # ""
  BY <1>1, <1>2 DEF U!Run
<1>3. CASE log.status = "" /\ silent
  BY <1>1, <1>3 DEF U!Run
<1>4. CASE log.status = "" /\ ~silent /\ U!TaskOver
  BY <1>1, <1>4 DEF U!Run, U!TaskOver
<1>5. CASE log.status = "" /\ ~silent /\ ~U!TaskOver
  BY <1>1, <1>5 DEF U!Run
<1> QED
  BY <1>1, <1>2, <1>3, <1>4, <1>5

\* The class of the run, as the pages have it.
LEMMA ClassIs ==
  ASSUME U!RunsTypeOK
  PROVE  /\ U!StatusClass \in {"running", "ended"} \cup U!Ends
         /\ U!StatusClass = "running" <=> ~U!Run.done
         /\ U!StatusClass = "ended" <=> U!Run.done /\ U!Run.status = ""
         /\ \A s \in U!Ends : U!StatusClass = s <=> U!Run.done /\ U!Run.status = s
<1>1. U!Run.done \in BOOLEAN /\ U!Run.status \in {""} \cup U!Ends
  BY RunIs
<1> QED
  BY <1>1 DEF U!StatusClass, U!Ends

\* The class of the card of a task.
LEMMA CardIs ==
  ASSUME U!RunsTypeOK
  PROVE  /\ U!CardClass \in {"running", "ended"} \cup U!Ends
         /\ U!TaskOver => U!CardClass = task.status
         /\ ~U!TaskOver => U!CardClass = IF log.there THEN U!StatusClass ELSE "running"
<1>1. log.there \in BOOLEAN
  BY DEF U!RunsTypeOK, U!Entries
<1>2. U!TaskOver => task.status \in U!Ends
  BY DEF U!TaskOver
<1> QED
  BY <1>1, <1>2, ClassIs DEF U!CardClass

\* Every end that a page shows is that of the process.
LEMMA EndHolds == U!RunsTypeOK /\ U!OneCommand => U!EndTrue
<1> SUFFICES ASSUME U!RunsTypeOK, U!OneCommand
             PROVE  U!EndTrue
  OBVIOUS
<1> DEFINE truth == IF proc.how = "killed" THEN "failed" ELSE proc.how
<1>1. log.status # "" => log.status = truth
  BY DEF U!RunsTypeOK, U!Entries, U!OneCommand, U!Ends
<1>2. U!TaskOver => task.status = truth
  BY DEF U!OneCommand
<1>3. U!Run.status # "" => U!Run.status = truth
  BY <1>1, <1>2, RunIs
<1> HIDE DEF truth
<1>4. U!StatusClass \in U!Ends => U!StatusClass = truth
  BY <1>3, ClassIs DEF U!Ends
<1>5. U!CardClass \in U!Ends => U!CardClass = truth
  BY <1>2, <1>4, CardIs, ClassIs DEF U!Ends
<1>6. U!TaskOver => U!StatusClass # "running"
  BY RunIs, ClassIs
<1> QED
  BY <1>4, <1>5, <1>6 DEF U!EndTrue, truth

-----------------------------------------------------------------------------
\* What can be said of the marks of a command, which is done or not.
LEMMA Booleans ==
  ASSUME U!RunsTypeOK
  PROVE  /\ log.there \in BOOLEAN /\ silent \in BOOLEAN
         /\ task.there \in BOOLEAN /\ task.canceling \in BOOLEAN /\ task.hidden \in BOOLEAN
         /\ U!Run.done \in BOOLEAN /\ U!TaskOver \in BOOLEAN
<1>1. U!TaskOver \in BOOLEAN
  BY DEF U!TaskOver
<1> QED
  BY <1>1, RunIs DEF U!RunsTypeOK, U!Entries

\* The head of the run page.
LEMMA HeadIs ==
  ASSUME U!RunsTypeOK
  PROVE  /\ U!Head.pill = U!Pill(task.there /\ task.canceling)
         /\ U!Head.stop \in BOOLEAN /\ U!Head.canceling \in BOOLEAN /\ U!Head.noStop \in BOOLEAN
         /\ U!Head.stop <=> task.there /\ ~U!TaskOver /\ ~task.canceling /\ ~U!Run.done
         /\ U!Head.canceling <=> task.there /\ ~U!Run.done /\ task.canceling
         /\ U!Head.noStop <=> ~task.there /\ ~U!Run.done
<1>1. U!Head.pill = U!Pill(task.there /\ task.canceling)
  BY DEF U!Head
<1>2. U!Head.stop = U!StopButton(U!Run.done)
  BY DEF U!Head
<1>3. U!Head.canceling = (task.there /\ ~U!Run.done /\ task.canceling)
  BY DEF U!Head
<1>4. U!Head.noStop = (~task.there /\ ~U!Run.done)
  BY DEF U!Head
<1> QED
  BY <1>1, <1>2, <1>3, <1>4, Booleans DEF U!StopButton

\* The card of the dock.
LEMMA CardOf ==
  ASSUME U!RunsTypeOK
  PROVE  /\ task.there => /\ U!Card.shown = ~task.hidden /\ U!Card.class = U!CardClass
                          /\ U!Card.stop = (/\ U!CardClass = "running"
                                            /\ U!StopButton(log.there /\ U!Run.done))
                          /\ U!Card.say = U!SayState(U!CardClass, task.canceling)
                          /\ U!Card.line = U!Line(task.canceling)
         /\ ~task.there => /\ U!Card.shown = (log.there /\ ~U!Run.done) /\ U!Card.class = "running"
                           /\ U!Card.stop = FALSE /\ U!Card.say = "running"
                           /\ U!Card.line = U!Line(FALSE)
<1>1. CASE task.there
  BY <1>1 DEF U!Card
<1>2. CASE ~task.there
  BY <1>2 DEF U!Card
<1> QED
  BY <1>1, <1>2, Booleans

\* The pill of the run page says "stopping" of a command that is stopped.
LEMMA PillIs ==
  ASSUME U!RunsTypeOK, NEW c \in BOOLEAN
  PROVE  U!Pill(c) = "stopping" <=> ~U!Run.done /\ c
<1>1. CASE U!StatusClass = "running"
  BY <1>1, ClassIs DEF U!Pill
<1>2. CASE U!StatusClass = "canceled"
  BY <1>2, ClassIs DEF U!Pill
<1>3. CASE U!StatusClass = "ended"
  BY <1>3, ClassIs DEF U!Pill
<1>4. CASE U!StatusClass \in {"ok", "failed"}
  BY <1>4, ClassIs DEF U!Pill
<1> QED
  BY <1>1, <1>2, <1>3, <1>4, ClassIs DEF U!Ends

\* So does the line of the card.
LEMMA LineIs ==
  ASSUME U!RunsTypeOK, NEW c \in BOOLEAN, ~U!Run.done
  PROVE  U!Line(c) \in {"stopping", "rolling back"} <=> c
<1>1. CASE c
  BY <1>1 DEF U!Line
<1>2. CASE ~c
  BY <1>2 DEF U!Line
<1> QED
  BY <1>1, <1>2

-----------------------------------------------------------------------------
\* A command that goes on has its card.
LEMMA DockHolds == U!RunsTypeOK /\ U!OneCommand => U!InDock
<1> SUFFICES ASSUME U!RunsTypeOK, U!OneCommand
             PROVE  U!InDock
  OBVIOUS
<1>1. ASSUME task.there, task.status = "running"
      PROVE  U!Card.shown
  <2>1. ~U!TaskOver
    BY <1>1 DEF U!TaskOver, U!Ends
  <2>2. ~task.hidden
    BY <2>1, Booleans DEF U!OneCommand
  <2> QED
    BY <1>1, <2>2, CardOf
<1>2. ASSUME log.there, ~U!Run.done
      PROVE  U!Card.shown /\ U!Card.class = "running"
  <2>1. ~U!TaskOver
    BY <1>2, RunIs
  <2>2. CASE task.there
    BY <1>2, <2>1, <2>2, CardOf, CardIs, ClassIs, Booleans DEF U!OneCommand
  <2>3. CASE ~task.there
    BY <1>2, <2>3, CardOf
  <2> QED
    BY <2>2, <2>3
<1> QED
  BY <1>1, <1>2 DEF U!InDock, U!NavRunning

\* A command that goes on has one of the three signs that tell of stopping.
LEMMA StopHolds == U!RunsTypeOK /\ U!OneCommand => U!StopHonest
<1> SUFFICES ASSUME U!RunsTypeOK, U!OneCommand
             PROVE  U!StopHonest
  OBVIOUS
<1> USE Booleans
<1>1. U!Run.done <=> log.status # "" \/ silent \/ U!TaskOver
  BY RunIs
<1>2. ASSUME log.there, ~U!Run.done
      PROVE  U!One({b \in {"stop", "canceling", "noStop"} : U!Head[b]})
  <2>1. /\ U!Head["stop"] = U!Head.stop /\ U!Head["canceling"] = U!Head.canceling
        /\ U!Head["noStop"] = U!Head.noStop
    OBVIOUS
  <2> DEFINE B == {b \in {"stop", "canceling", "noStop"} : U!Head[b]}
  <2>2. CASE ~task.there
    <3>1. B = {"noStop"}
      BY <1>2, <2>1, <2>2, HeadIs
    <3> QED
      BY <3>1 DEF U!One
  <2>3. CASE task.there /\ task.canceling
    <3>1. B = {"canceling"}
      BY <1>2, <2>1, <2>3, HeadIs
    <3> QED
      BY <3>1 DEF U!One
  <2>4. CASE task.there /\ ~task.canceling
    <3>1. B = {"stop"}
      BY <1>1, <1>2, <2>1, <2>4, HeadIs
    <3> QED
      BY <3>1 DEF U!One
  <2> QED
    BY <2>2, <2>3, <2>4
<1>3. task.there =>
        (U!Card.stop <=> /\ U!CardClass = "running" /\ ~U!TaskOver /\ ~task.canceling
                         /\ ~(log.there /\ U!Run.done))
  BY CardOf DEF U!StopButton
<1>4. ~task.there => U!Card.stop = FALSE
  BY CardOf
<1>5. U!Card.stop \in BOOLEAN
  BY <1>4, CardOf DEF U!StopButton
<1>6. ASSUME log.there, ~U!Run.done, task.there
      PROVE  U!Card.stop = U!Head.stop
  <2>1. U!CardClass = "running"
    BY <1>1, <1>6, CardIs, ClassIs
  <2> QED
    BY <1>1, <1>3, <1>5, <1>6, <2>1, HeadIs
<1>7. ASSUME U!Card.stop \/ U!Head.stop
      PROVE  task.status = "running" /\ ~proc.asked /\ log.status = ""
  <2>1. task.there /\ ~U!TaskOver /\ ~task.canceling
    BY <1>3, <1>4, <1>7, HeadIs
  <2>2. task.status = "running"
    BY <2>1 DEF U!TaskOver, U!OneCommand, U!RunsTypeOK
  <2>3. ~proc.asked
    BY <2>1 DEF U!OneCommand
  <2>4. log.status = ""
    BY <1>1, <1>3, <1>4, <1>7, HeadIs DEF U!OneCommand
  <2> QED
    BY <2>2, <2>3, <2>4
<1> QED
  BY <1>2, <1>6, <1>7 DEF U!StopHonest, U!NavRunning

-----------------------------------------------------------------------------
\* The tabs of Activity that a run is in.
LEMMA InOneTab ==
  ASSUME U!RunsTypeOK
  PROVE  IF U!StatusClass = "ended" THEN U!InTabs = {} ELSE U!One(U!InTabs)
<1> USE DEF U!InTabs, U!Tabs, U!InTab, U!Ends
<1>1. CASE ~U!Run.done
  <2>1. U!InTabs = {"running"}
    BY <1>1
  <2> QED
    BY <1>1, <2>1, ClassIs DEF U!One
<1>2. CASE U!Run.done /\ U!Run.status = ""
  <2>1. U!InTabs = {}
    BY <1>2
  <2> QED
    BY <1>2, <2>1, ClassIs
<1>3. CASE U!Run.done /\ U!Run.status \in U!Ends
  <2>1. U!InTabs = {U!Run.status}
    BY <1>3
  <2> QED
    BY <1>3, <2>1, ClassIs DEF U!One
<1> QED
  BY <1>1, <1>2, <1>3, RunIs

\* The word about a rollback, of a run that ended.
LEMMA RollbackWordIs ==
  ASSUME U!RunsTypeOK
  PROVE  /\ log.back = "none" => U!RollbackWord = ""
         /\ U!Run.done => U!RollbackWord # "sind rolls back"
<1>1. log.back \in {"none", "running", "ok", "failed", "target failed"}
  BY DEF U!RunsTypeOK, U!Entries
<1>2. U!Run.done => U!SpanClass(log.back) # "running"
  BY <1>1, RunIs DEF U!SpanClass, U!Ends
<1>3. ASSUME U!Run.done, log.back # "none"
      PROVE  U!RollbackWord # "sind rolls back"
  BY <1>2, <1>3 DEF U!RollbackWord
<1> QED
  BY <1>3 DEF U!RollbackWord

\* What the run page says of a run that failed or was stopped.
LEMMA OutcomeIs ==
  ASSUME U!RunsTypeOK, U!Run.done, U!Run.status \in {"failed", "canceled"}
  PROVE  /\ U!Outcome.class = IF U!Run.status = "canceled" THEN "warn" ELSE "bad"
         /\ U!Outcome.nodes = U!FailedTargets
         /\ U!Outcome.meta = U!RollbackWord
         /\ U!Outcome.unchanged = (U!Run.status = "canceled" /\ U!StoppedInLockWait)
BY DEF U!Outcome

\* And its row of Activity.
LEMMA RowIs ==
  ASSUME U!RunsTypeOK
  PROVE  /\ U!Row.class = IF U!Run.status = "failed" THEN "bad"
                        ELSE IF U!Run.status = "canceled" THEN "warn" ELSE ""
         /\ U!Run.status = "failed" =>
              U!Row.nodes = IF U!Timeouts # {} THEN U!Timeouts ELSE U!FailedTargets
         /\ U!Run.status = "canceled" => U!Row.where = U!StoppedWhere
         /\ U!Ended(U!Run.status) /\ U!RollbackWord # "sind rolls back" =>
              U!Row.back = U!RollbackWord
<1>1. U!Run.status \in {""} \cup U!Ends
  BY RunIs
<1> QED
  BY <1>1 DEF U!Row, U!Ends

\* The dock, the run page and Activity agree.
LEMMA VoiceHolds == U!RunsTypeOK /\ U!OneCommand => U!OneVoice
<1> SUFFICES ASSUME U!RunsTypeOK, U!OneCommand, log.there
             PROVE  U!OneVoice
  BY DEF U!OneVoice
<1> USE Booleans
<1>0. U!Run.done <=> log.status # "" \/ silent \/ U!TaskOver
  BY RunIs
<1>1. ASSUME task.there
      PROVE  U!CardClass = U!StatusClass \/ (silent /\ U!TaskOver)
  <2>1. CASE ~U!TaskOver
    BY <2>1, CardIs
  <2>2. CASE U!TaskOver /\ ~silent
    <3>1. U!Run.done /\ U!Run.status = IF log.status # "" THEN log.status ELSE task.status
      BY <2>2, RunIs
    <3>2. task.status \in U!Ends /\ (log.status # "" => log.status = task.status)
      BY <2>2 DEF U!OneCommand, U!TaskOver, U!RunsTypeOK, U!Entries, U!Ends
    <3> QED
      BY <2>2, <3>1, <3>2, CardIs, ClassIs
  <2> QED
    BY <2>1, <2>2
<1>2. U!Head.canceling = (U!Card.say = "stopping")
  <2>1. CASE ~task.there
    BY <2>1, HeadIs, CardOf
  <2>2. CASE task.there
    <3>1. U!CardClass = "running" <=> ~U!Run.done
      BY <1>0, CardIs, ClassIs DEF U!TaskOver, U!Ends
    <3>2. U!Card.say = "stopping" <=> U!CardClass = "running" /\ task.canceling
      BY <2>2, CardOf, CardIs DEF U!SayState, U!Ends
    <3> QED
      BY <2>2, <3>1, <3>2, HeadIs
  <2> QED
    BY <2>1, <2>2
<1>3. ASSUME ~U!Run.done
      PROVE  (U!Card.line \in {"stopping", "rolling back"}) = (U!Head.pill = "stopping")
  <2>1. U!Head.pill = "stopping" <=> task.there /\ task.canceling
    BY <1>3, HeadIs, PillIs
  <2>2. U!Card.line = U!Line(task.there /\ task.canceling)
    BY CardOf
  <2>3. U!Card.line \in {"stopping", "rolling back"} <=> task.there /\ task.canceling
    BY <1>3, <2>2, LineIs
  <2>4. /\ (U!Card.line \in {"stopping", "rolling back"}) \in BOOLEAN
        /\ (U!Head.pill = "stopping") \in BOOLEAN
    OBVIOUS
  <2> QED
    BY <2>1, <2>3, <2>4, Zenon
<1>4. ASSUME U!Row.class # ""
      PROVE  U!Row.class = U!Outcome.class
  <2>1. U!Run.status \in {"failed", "canceled"}
    BY <1>4, RowIs
  <2>2. U!Run.done
    BY <2>1, RunIs
  <2> QED
    BY <2>1, <2>2, RowIs, OutcomeIs
<1>5. ASSUME U!Run.done, U!Run.status = "failed"
      PROVE  /\ U!Row.nodes \subseteq U!Outcome.nodes
             /\ U!Row.nodes = {} => U!Outcome.nodes = {}
             /\ U!Row.back = U!Outcome.meta
  <2>1. U!Timeouts \subseteq U!FailedTargets
    BY DEF U!Timeouts, U!FailedTargets, U!In
  <2>2. U!Row.back = U!RollbackWord
    BY <1>5, RowIs, RollbackWordIs DEF U!Ended
  <2> QED
    BY <1>5, <2>1, <2>2, RowIs, OutcomeIs
<1>6. ASSUME U!Run.done, U!Run.status = "canceled"
      PROVE  /\ U!Outcome.unchanged = (U!Row.where = {"the lock"})
             /\ U!Outcome.unchanged => DOMAIN log.target = {} /\ U!RollbackWord = ""
  <2>1. U!Outcome.unchanged <=> U!StoppedInLockWait
    BY <1>6, OutcomeIs
  <2>2. U!StoppedWhere = {"the lock"} <=> U!StoppedInLockWait
    BY DEF U!StoppedWhere, U!RunPhases
  <2>3. U!StoppedInLockWait => DOMAIN log.target = {} /\ U!RollbackWord = ""
    BY RollbackWordIs DEF U!StoppedInLockWait, U!OneCommand
  <2>4. U!Outcome.unchanged \in BOOLEAN
    BY <1>6, OutcomeIs
  <2> QED
    BY <1>6, <2>1, <2>2, <2>3, <2>4, RowIs
<1> QED
  BY <1>1, <1>2, <1>3, <1>4, <1>5, <1>6, InOneTab DEF U!OneVoice

-----------------------------------------------------------------------------
\* The wait that the dialog sets is longer than the one that ran out.
LEMMA WaitIsLonger ==
  ASSUME RunWaits \subseteq Nat, U!RunsTypeOK
  PROVE  U!RetryWait \in Nat /\ U!RetryWait > log.wait
<1>1. log.wait \in Nat
  <2>1. log.wait \in RunWaits \cup {0}
    BY DEF U!RunsTypeOK, U!Entries
  <2>2. \A w \in RunWaits : w \in Nat
    OBVIOUS
  <2>3. 0 \in Nat
    OBVIOUS
  <2> QED
    BY <2>1, <2>2, <2>3
<1>2. CASE log.wait = 0
  BY <1>2 DEF U!RetryWait
<1>3. CASE log.wait # 0 /\ \E w \in U!WaitChoices : w > log.wait
  <2> DEFINE Fits(w) == w > log.wait /\ \A v \in U!WaitChoices : v > log.wait => w <= v
  <2>1. \E w \in U!WaitChoices : Fits(w)
    <3>1. CASE log.wait < 2
      BY <1>1, <3>1 DEF U!WaitChoices
    <3>2. CASE log.wait >= 2 /\ log.wait < 5
      BY <1>1, <3>2 DEF U!WaitChoices
    <3>3. CASE log.wait >= 5
      BY <1>1, <1>3, <3>3 DEF U!WaitChoices
    <3> QED
      BY <1>1, <3>1, <3>2, <3>3
  <2>2. U!RetryWait = CHOOSE w \in U!WaitChoices : Fits(w)
    BY <1>3 DEF U!RetryWait
  <2>3. U!RetryWait \in U!WaitChoices /\ Fits(U!RetryWait)
    BY <2>1, <2>2
  <2> QED
    BY <2>3 DEF U!WaitChoices
<1>4. CASE log.wait # 0 /\ ~\E w \in U!WaitChoices : w > log.wait
  BY <1>1, <1>4 DEF U!RetryWait
<1> QED
  BY <1>2, <1>3, <1>4

\* The ways on from a run, that of its task and that of its log.
Retries == [again : BOOLEAN, edit : BOOLEAN, primary : BOOLEAN, wait : {0, U!RetryWait}]

\* An edit is offered of what ended, but not ok.
LEMMA RetriesOf ==
  ASSUME U!RunsTypeOK, NEW class
  PROVE  /\ U!TaskRetry(class) \in Retries /\ U!LogRetry \in Retries
         /\ U!LongerWait(U!TaskRetry(class)) \in Retries
         /\ U!TaskRetry(class).edit <=> U!Ended(class)
         /\ U!LongerWait(U!TaskRetry(class)).edit <=> U!Ended(class)
         /\ U!LogRetry.edit => U!Run.done /\ U!Ended(U!StatusClass)
<1> USE Booleans DEF U!NoRetry, Retries
<1>1. U!TaskRetry(class) \in Retries /\ (U!TaskRetry(class).edit <=> U!Ended(class))
  <2>1. U!Ended(class) \in BOOLEAN
    BY DEF U!Ended
  <2> QED
    BY <2>1 DEF U!TaskRetry
<1>2. /\ U!LongerWait(U!TaskRetry(class)) \in Retries
      /\ U!LongerWait(U!TaskRetry(class)).edit = U!TaskRetry(class).edit
  BY <1>1 DEF U!LongerWait
<1>3. U!LogRetry \in Retries /\ (U!LogRetry.edit => U!Run.done /\ U!Ended(U!StatusClass))
  <2>1. U!KnownRealm \in BOOLEAN
    BY DEF U!KnownRealm, U!One
  <2>2. CASE ~U!Run.done \/ ~U!Ended(U!StatusClass)
    BY <2>2 DEF U!LogRetry
  <2>3. CASE U!Run.done /\ U!Ended(U!StatusClass) /\ op = "create cluster"
    BY <2>3 DEF U!LogRetry
  <2>4. CASE U!Run.done /\ U!Ended(U!StatusClass) /\ op = "create worker"
    BY <2>1, <2>4 DEF U!LogRetry
  <2>5. CASE U!Run.done /\ U!Ended(U!StatusClass) /\ op \notin {"create cluster", "create worker"}
    BY <2>5 DEF U!LogRetry
  <2> QED
    BY <2>2, <2>3, <2>4, <2>5
<1> QED
  BY <1>1, <1>2, <1>3

\* The buttons at the head of the run page.
LEMMA ButtonsIs ==
  ASSUME U!RunsTypeOK
  PROVE  /\ U!Head.retry = IF ~task.there THEN U!LogRetry
                         ELSE IF U!Run.done
                         THEN U!LongerWait(U!TaskRetry(U!StatusClass)) ELSE U!NoRetry
         /\ U!Head.again = (U!Head.retry.again /\ ~U!Head.retry.primary)
         /\ U!Head.backPrimary = (U!Run.done /\ ~U!Head.again /\ ~U!Head.retry.primary)
         /\ U!Head.retry \in Retries
         /\ ~U!Run.done => U!Head.retry = U!NoRetry
         /\ U!Head.retry.edit => U!Run.done /\ U!Ended(U!StatusClass)
         /\ task.there /\ U!Run.done => (U!Head.retry.edit <=> U!Ended(U!StatusClass))
<1>1. U!Head.retry = IF ~task.there THEN U!LogRetry
                   ELSE IF U!Run.done
                         THEN U!LongerWait(U!TaskRetry(U!StatusClass)) ELSE U!NoRetry
  BY DEF U!Head
<1>2. U!Head.again = (U!Head.retry.again /\ ~U!Head.retry.primary)
  BY <1>1 DEF U!Head
<1>3. U!Head.backPrimary = (U!Run.done /\ ~U!Head.again /\ ~U!Head.retry.primary)
  BY <1>1 DEF U!Head
<1>4. U!NoRetry \in Retries /\ ~U!NoRetry.edit
  BY DEF U!NoRetry, Retries
<1>5. ~U!Run.done => U!LogRetry = U!NoRetry
  BY DEF U!LogRetry
<1> QED
  BY <1>1, <1>2, <1>3, <1>4, <1>5, RetriesOf, Booleans

\* What can be tried again ended, and the dialog takes it.
LEMMA RetryHolds ==
  ASSUME RunWaits \subseteq Nat, U!RunsTypeOK, U!OneCommand
  PROVE  U!RetryHonest
<1> USE Booleans
<1>0. U!Run.done <=> log.status # "" \/ silent \/ U!TaskOver
  BY RunIs
<1>1. ASSUME task.there, U!Ended(task.status), ~silent
      PROVE  IF log.there THEN U!Head.retry.edit ELSE U!TaskPage.retry.edit
  <2>1. U!TaskOver
    BY <1>1 DEF U!TaskOver, U!Ended, U!Ends
  <2>2. U!Run.done /\ U!Run.status = task.status
    BY <1>1, <2>1, RunIs DEF U!OneCommand, U!TaskOver, U!RunsTypeOK, U!Ends
  <2>3. U!StatusClass = task.status
    BY <1>1, <2>2, ClassIs DEF U!Ended, U!Ends
  <2>4. U!TaskPage.retry = U!TaskRetry(task.status)
    BY <2>1, CardIs DEF U!TaskPage
  <2> QED
    BY <1>1, <2>2, <2>3, <2>4, ButtonsIs, RetriesOf
<1>2. ASSUME log.there, U!Head.retry.edit
      PROVE  ~U!Head.stop /\ proc.how # "" /\ (op = "create cluster" => U!DialogTakes)
  <2>1. U!Run.done /\ U!Ended(U!StatusClass)
    BY <1>2, ButtonsIs
  <2>2. U!Run.status # "" /\ U!Run.status # "ok"
    BY <2>1, ClassIs, RunIs DEF U!Ended, U!Ends
  <2>3. proc.how # ""
    BY <2>2, RunIs DEF U!OneCommand
  <2> QED
    BY <2>1, <2>2, <2>3, HeadIs DEF U!DialogTakes
<1>3. U!Head.retry.wait # 0 => U!Head.retry.wait > log.wait
  BY ButtonsIs, WaitIsLonger DEF Retries
<1>4. ASSUME U!Need
      PROVE  U!NeedRetry = U!Head.retry.edit
  <2>1. U!Run.done /\ U!Run.status = "failed" /\ U!StatusClass = "failed"
    BY <1>4, ClassIs DEF U!Need, U!Ends
  <2>2. CASE ~task.there
    BY <2>2, ButtonsIs DEF U!NeedRetry
  <2>3. CASE task.there
    <3>1. U!Ended(U!StatusClass)
      BY <2>1 DEF U!Ended
    <3>2. U!Head.retry.edit /\ U!TaskRetry("failed").edit
      BY <2>1, <2>3, <3>1, ButtonsIs, RetriesOf
    <3>3. U!Head.retry.edit \in BOOLEAN /\ U!TaskRetry("failed").edit \in BOOLEAN
      BY ButtonsIs, RetriesOf DEF Retries
    <3> QED
      BY <2>3, <3>2, <3>3 DEF U!NeedRetry
  <2> QED
    BY <2>2, <2>3
<1>5. IF U!Run.done THEN U!One(U!Buttons(U!Head)) ELSE U!Buttons(U!Head) = {}
  <2> DEFINE B == U!Buttons(U!Head)
  <2>1. U!Head.retry.again \in BOOLEAN /\ U!Head.retry.primary \in BOOLEAN
    BY ButtonsIs DEF Retries
  <2>2. /\ U!Head.again <=> U!Head.retry.again /\ ~U!Head.retry.primary
        /\ U!Head.backPrimary <=> U!Run.done /\ ~U!Head.again /\ ~U!Head.retry.primary
    BY ButtonsIs
  <2>3. "again" \in B <=> U!Head.again
    BY DEF U!Buttons
  <2>4. "primary" \in B <=> U!Head.retry.primary
    BY DEF U!Buttons
  <2>5. "back" \in B <=> U!Head.backPrimary
    BY DEF U!Buttons
  <2>6. B \subseteq {"again", "primary", "back"}
    BY DEF U!Buttons
  <2> HIDE DEF B
  <2> SUFFICES IF U!Run.done THEN U!One(B) ELSE B = {}
    BY DEF B
  <2>7. CASE ~U!Run.done
    <3>1. ~U!Head.retry.again /\ ~U!Head.retry.primary
      BY <2>7, ButtonsIs DEF U!NoRetry
    <3> QED
      BY <2>2, <2>3, <2>4, <2>5, <2>6, <2>7, <3>1
  <2>8. CASE U!Run.done /\ U!Head.retry.primary
    <3>1. B = {"primary"}
      BY <2>2, <2>3, <2>4, <2>5, <2>6, <2>8
    <3> QED
      BY <2>8, <3>1 DEF U!One
  <2>9. CASE U!Run.done /\ ~U!Head.retry.primary /\ U!Head.again
    <3>1. B = {"again"}
      BY <2>2, <2>3, <2>4, <2>5, <2>6, <2>9
    <3> QED
      BY <2>9, <3>1 DEF U!One
  <2>10. CASE U!Run.done /\ ~U!Head.retry.primary /\ ~U!Head.again
    <3>1. B = {"back"}
      BY <2>2, <2>3, <2>4, <2>5, <2>6, <2>10
    <3> QED
      BY <2>10, <3>1 DEF U!One
  <2> QED
    BY <2>7, <2>8, <2>9, <2>10
<1> QED
  BY <1>1, <1>2, <1>3, <1>4, <1>5 DEF U!RetryHonest

-----------------------------------------------------------------------------
\* What the follower reads, it reads of one command.
LEMMA EntryStep ==
  ASSUME U!RunsTypeOK, U!OneCommand, NEW entry \in U!Entries, U!Reads(entry),
         entry.status # "" => entry.there /\ entry.status = proc.how,
         entry.step = "none" => DOMAIN entry.target = {} /\ entry.back = "none"
  PROVE  U!RunsTypeOK' /\ U!OneCommand'
<1>1. log' = entry /\ silent' = FALSE /\ proc' = proc /\ task' = task
  BY DEF U!Reads
<1>2. U!RunsTypeOK'
  BY <1>1 DEF U!RunsTypeOK
<1> QED
  BY <1>1, <1>2 DEF U!OneCommand, U!TaskOver

\* The target of a node changes.
LEMMA TargetStep ==
  ASSUME U!RunsTypeOK, U!OneCommand, log.there, log.status = "", log.step = "runs",
         NEW n, NEW s \in U!TargetStates, NEW w \in RunWaits \cup {0},
         U!Reads([log EXCEPT !.target[n] = s, !.wait = w])
  PROVE  U!RunsTypeOK' /\ U!OneCommand'
<1> DEFINE entry == [log EXCEPT !.target[n] = s, !.wait = w]
<1>1. log \in U!Entries
  BY DEF U!RunsTypeOK
<1>2. PICK N \in {{}, Node} : log.target \in [N -> U!TargetStates]
  BY <1>1 DEF U!Entries
<1>3. [log.target EXCEPT ![n] = s] \in [N -> U!TargetStates]
  BY <1>2
<1>4. entry = [log EXCEPT !.target = [@ EXCEPT ![n] = s], !.wait = w]
  OBVIOUS
<1>5. entry \in U!Entries
  BY <1>1, <1>3, <1>4 DEF U!Entries
<1>6. entry.status = "" /\ entry.step = "runs"
  BY <1>1 DEF U!Entries
<1> QED
  BY <1>5, <1>6, EntryStep DEF U!Ends

\* The steps of the follower keep both.
LEMMA LogSteps ==
  ASSUME U!RunsTypeOK, U!OneCommand,
         \/ U!BeginRun \/ U!WaitForLock \/ U!TakeLock \/ U!GiveUp \/ U!BeginStep \/ U!EndStep
         \/ U!BeginRollback \/ U!EndRollback \/ U!ReadEnd
  PROVE  U!RunsTypeOK' /\ U!OneCommand'
<1>1. log \in U!Entries
  BY DEF U!RunsTypeOK
<1> DEFINE Fits(entry) ==
      /\ entry \in U!Entries /\ U!Reads(entry)
      /\ entry.status # "" => entry.there /\ entry.status = proc.how
      /\ entry.step = "none" => DOMAIN entry.target = {} /\ entry.back = "none"
<1>2. ASSUME NEW entry, Fits(entry)
      PROVE  U!RunsTypeOK' /\ U!OneCommand'
  BY <1>2, EntryStep
<1> USE DEF U!Entries, U!OneCommand, U!Ends
<1>3. CASE U!BeginRun
  <2>1. Fits([log EXCEPT !.there = TRUE])
    BY <1>1, <1>3 DEF U!BeginRun
  <2> QED
    BY <1>2, <2>1
<1>4. CASE U!WaitForLock
  <2>1. Fits([log EXCEPT !.lock = "waits"])
    BY <1>1, <1>4 DEF U!WaitForLock
  <2> QED
    BY <1>2, <2>1
<1>5. CASE U!TakeLock
  <2>1. Fits([log EXCEPT !.lock = "none"])
    BY <1>1, <1>5 DEF U!TakeLock
  <2> QED
    BY <1>2, <2>1
<1>6. CASE U!GiveUp
  <2>1. Fits([log EXCEPT !.lock = "lost"])
    BY <1>1, <1>6 DEF U!GiveUp
  <2> QED
    BY <1>2, <2>1
<1>7. CASE U!BeginStep
  <2> DEFINE t == [n \in Node |-> "queued"]
  <2>1. t \in [Node -> U!TargetStates]
    BY DEF U!TargetStates
  <2> HIDE DEF t
  <2>2. Fits([log EXCEPT !.step = "runs", !.target = t])
    BY <1>1, <1>7, <2>1 DEF U!BeginStep, U!More, t
  <2> QED
    BY <1>2, <2>2
<1>8. CASE U!EndStep
  <2>1. PICK s \in U!Ends : U!Reads([log EXCEPT !.step = s])
    BY <1>8 DEF U!EndStep
  <2>2. Fits([log EXCEPT !.step = s])
    BY <1>1, <1>8, <2>1 DEF U!EndStep, U!More
  <2> QED
    BY <1>2, <2>2
<1>9. CASE U!BeginRollback
  <2>1. Fits([log EXCEPT !.back = "running"])
    BY <1>1, <1>9 DEF U!BeginRollback, U!More
  <2> QED
    BY <1>2, <2>1
<1>10. CASE U!EndRollback
  <2>1. PICK s \in {"ok", "failed", "target failed"} : U!Reads([log EXCEPT !.back = s])
    BY <1>10 DEF U!EndRollback
  <2>2. Fits([log EXCEPT !.back = s])
    BY <1>1, <1>10, <2>1 DEF U!EndRollback, U!More
  <2> QED
    BY <1>2, <2>2
<1>11. CASE U!ReadEnd
  <2>1. Fits([log EXCEPT !.status = proc.how])
    BY <1>1, <1>11 DEF U!ReadEnd, U!More
  <2> QED
    BY <1>2, <2>1
<1> QED
  BY <1>3, <1>4, <1>5, <1>6, <1>7, <1>8, <1>9, <1>10, <1>11

\* So do those of the targets,
LEMMA NodeSteps ==
  ASSUME U!RunsTypeOK, U!OneCommand, NEW n \in Node, U!Advance(n) \/ U!TargetFails(n)
  PROVE  U!RunsTypeOK' /\ U!OneCommand'
<1>1. /\ log.there /\ log.status = "" /\ log.step = "runs"
      /\ log \in U!Entries
  BY DEF U!Advance, U!TargetFails, U!More, U!RunsTypeOK
<1>2. \A s : [log EXCEPT !.target[n] = s] = [log EXCEPT !.target[n] = s, !.wait = log.wait]
  BY <1>1 DEF U!Entries
<1>3. log.wait \in RunWaits \cup {0}
  BY <1>1 DEF U!Entries
<1>4. CASE U!Advance(n)
  <2>1. U!NextPhase[log.target[n]] \in U!TargetStates
    BY <1>4 DEF U!Advance, U!NextPhase, U!TargetStates, U!RunPhases
  <2>2. U!Reads([log EXCEPT !.target[n] = U!NextPhase[log.target[n]]])
    BY <1>4 DEF U!Advance
  <2> DEFINE s == U!NextPhase[log.target[n]]
  <2>3. U!Reads([log EXCEPT !.target[n] = s, !.wait = log.wait])
    BY <1>2, <2>2
  <2> HIDE DEF s
  <2> QED
    BY <1>1, <1>3, <2>1, <2>3, TargetStep DEF s
<1>5. CASE U!TargetFails(n)
  <2>1. {"failed", "timeout"} \subseteq U!TargetStates
    BY DEF U!TargetStates
  <2>2. CASE U!Reads([log EXCEPT !.target[n] = "failed"])
    <3>1. U!Reads([log EXCEPT !.target[n] = "failed", !.wait = log.wait])
      BY <1>2, <2>2
    <3> QED
      BY <1>1, <1>3, <2>1, <3>1, TargetStep
  <2>3. CASE \E w \in RunWaits : U!Reads([log EXCEPT !.target[n] = "timeout", !.wait = w])
    BY <1>1, <2>1, <2>3, TargetStep
  <2> QED
    BY <1>5, <2>2, <2>3 DEF U!TargetFails
<1> QED
  BY <1>4, <1>5

\* and those of the process and its task.
LEMMA ProcessSteps ==
  ASSUME U!RunsTypeOK, U!OneCommand,
         U!ProcessEnds \/ U!Ask \/ U!TaskEnds \/ U!FallsSilent \/ U!Dismiss \/ U!Prune
  PROVE  U!RunsTypeOK' /\ U!OneCommand'
<1>1. /\ proc \in [how : {"", "killed"} \cup U!Ends, asked : BOOLEAN]
      /\ task \in [there : BOOLEAN, canceling : BOOLEAN, hidden : BOOLEAN,
                   status : {"none", "running"} \cup U!Ends]
  BY DEF U!RunsTypeOK
<1> USE DEF U!OneCommand, U!TaskOver, U!Ends
<1>2. CASE U!ProcessEnds
  <2>1. PICK how \in U!Ends \cup {"killed"} : proc' = [proc EXCEPT !.how = how]
    BY <1>2 DEF U!ProcessEnds
  <2>2. proc.how = "" /\ UNCHANGED <<log, silent, task>>
    BY <1>2 DEF U!ProcessEnds
  <2>3. U!RunsTypeOK'
    BY <1>1, <2>1, <2>2 DEF U!RunsTypeOK
  <2> QED
    BY <1>1, <2>1, <2>2, <2>3 DEF U!RunsTypeOK
<1>3. CASE U!Ask
  <2>1. U!RunsTypeOK'
    BY <1>1, <1>3 DEF U!Ask, U!RunsTypeOK
  <2> QED
    BY <1>1, <1>3, <2>1 DEF U!Ask
<1>4. CASE U!TaskEnds
  <2> DEFINE end == IF proc.how = "killed" THEN "failed" ELSE proc.how
  <2>1. end \in U!Ends /\ task' = [task EXCEPT !.status = end] /\ UNCHANGED <<log, proc, silent>>
    BY <1>1, <1>4 DEF U!TaskEnds
  <2> HIDE DEF end
  <2>2. U!RunsTypeOK'
    BY <1>1, <2>1 DEF U!RunsTypeOK
  <2> QED
    BY <1>1, <1>4, <2>1, <2>2 DEF U!TaskEnds, end
<1>5. CASE U!FallsSilent
  <2>1. silent' = TRUE /\ UNCHANGED <<log, proc, task>>
    BY <1>5 DEF U!FallsSilent
  <2> QED
    BY <2>1 DEF U!RunsTypeOK
<1>6. CASE U!Dismiss
  <2>1. U!RunsTypeOK'
    BY <1>1, <1>6 DEF U!Dismiss, U!RunsTypeOK
  <2> QED
    BY <1>1, <1>6, <2>1 DEF U!Dismiss
<1>7. CASE U!Prune
  <2>1. U!RunsTypeOK'
    BY <1>1, <1>7 DEF U!Prune, U!RunsTypeOK
  <2> QED
    BY <1>1, <1>7, <2>1 DEF U!Prune
<1> QED
  BY <1>2, <1>3, <1>4, <1>5, <1>6, <1>7

\* Both hold at the start.
LEMMA RunsStart == U!RunsInit => U!RunsTypeOK /\ U!OneCommand
<1> SUFFICES ASSUME U!RunsInit
             PROVE  U!RunsTypeOK /\ U!OneCommand
  OBVIOUS
<1>1. [n \in {} |-> ""] \in [{} -> U!TargetStates] /\ DOMAIN [n \in {} |-> ""] = {}
  OBVIOUS
<1>2. log = [there |-> FALSE, lock |-> "none", step |-> "none", target |-> [n \in {} |-> ""],
             wait |-> 0, back |-> "none", status |-> ""]
  BY DEF U!RunsInit
<1>3. task = [there |-> origin = "task", canceling |-> FALSE, hidden |-> FALSE,
              status |-> IF origin = "task" THEN "running" ELSE "none"]
  BY DEF U!RunsInit
<1>4. (origin = "task") \in BOOLEAN
  OBVIOUS
<1>5. proc = [how |-> "", asked |-> FALSE] /\ silent = FALSE
  BY DEF U!RunsInit
<1>6. U!RunsTypeOK
  BY <1>1, <1>2, <1>3, <1>4, <1>5 DEF U!RunsTypeOK, U!Entries
<1>7. U!OneCommand
  BY <1>1, <1>2, <1>3, <1>4, <1>5 DEF U!OneCommand, U!TaskOver, U!Ends
<1> QED
  BY <1>6, <1>7

\* What the pages say of a command is true of it and the same, and what they
\* offer can be done, whatever its nodes and its waits, in whatever order its
\* log, its end and its task are told (internal/ui: dock, run page, Activity,
\* Needs you).
THEOREM RunsInvHolds ==
  ASSUME RunWaits \subseteq Nat
  PROVE  U!RunsSpec => []U!RunsInv
<1>1. U!RunsTypeOK /\ U!OneCommand => U!RunsInv
  BY EndHolds, VoiceHolds, DockHolds, StopHolds, RetryHolds DEF U!RunsInv
<1>2. U!RunsInit => U!RunsInv
  BY <1>1, RunsStart
<1>3. U!RunsInv /\ [U!RunsNext]_(U!runVars) => U!RunsInv'
  <2> SUFFICES ASSUME U!RunsTypeOK, U!OneCommand, [U!RunsNext]_(U!runVars)
               PROVE  U!RunsTypeOK' /\ U!OneCommand'
    BY <1>1, PTL DEF U!RunsInv
  <2>1. CASE U!RunsNext
    BY <2>1, LogSteps, NodeSteps, ProcessSteps DEF U!RunsNext
  <2>2. CASE UNCHANGED U!runVars
    BY <2>2 DEF U!runVars, U!RunsTypeOK, U!OneCommand, U!TaskOver
  <2> QED
    BY <2>1, <2>2
<1> QED
  BY <1>2, <1>3, PTL DEF U!RunsSpec

=============================================================================

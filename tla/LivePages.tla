----------------------------- MODULE LivePages -----------------------------
(***************************************************************************)
(* The live updates of sind ui's pages.  The store keeps one snapshot; a   *)
(* setter changes parts of it and notifies topics.  A page is rendered     *)
(* from the snapshot, and then opens a stream (internal/ui/sse.go) that    *)
(* renders each of its fragments again when a topic changes that the       *)
(* fragment names.  A fragment is right only as long as it names a topic   *)
(* for every part that the functions of its Load read.                     *)
(*                                                                         *)
(* One fragment is followed, of a page of the one cluster, node or run;    *)
(* the snapshot is abstracted to its parts, and `dirty' are the parts that *)
(* changed since the fragment was rendered.                                *)
(***************************************************************************)
EXTENDS Naturals, FiniteSets

CONSTANTS
    MaxDirty,     \* bound: the parts changed since a render
    MaxReconnects \* bound: the streams that a page opens again

VARIABLES
    frag,      \* the fragment of the page
    stream,    \* "page" | "open" | "live"
    dirty,     \* the parts changed since it was rendered
    pending,   \* a topic it depends on was notified, and not taken
    taken,     \* the stream renders for the topics it took
    ended,     \* of a task that restarts a service: "no" | "ended" | "refreshed"
    reconnects

liveVars == <<frag, stream, dirty, pending, taken, ended, reconnects>>

-----------------------------------------------------------------------------
(* The parts and the topics.  The tasks are two parts: what a task is (its *)
(* command, its realm), and how it goes; the runs are the run of a run     *)
(* page, "run", and the others.                                            *)
RunPrefix == {"runs", "run/this", "run/other"}

Runs  == {"run", "runs"}
Tasks == {"task", "tasks"}

(* The setters of the store: the parts each changes, and the topics it     *)
(* notifies.  KeepStatuses, which drops what no page shows and notifies    *)
(* nothing, is left out.                                                   *)
SetNodes == <<{"nodes", "changes"}, {"nodes/"}>>

SetOfStatus == {<<{"statuses", "changes"}, {"status/"}>>,
                <<{"slurms", "changes"}, {"status/"}>>,
                <<{"faults"}, {"status/"}>>}

SetLists == {<<{"realms"}, {"realms"}>>, <<{"clusters"}, {"clusters/"}>>,
             <<{"networks"}, {"networks/"}>>, <<{"volumes"}, {"volumes/"}>>,
             <<{"meshes"}, {"mesh/"}>>, <<{"locks"}, {"lock/"}>>,
             <<{"monitorings"}, {"monitoring/"}>>, <<{"doctor"}, {"doctor"}>>,
             <<{"docker"}, {"docker"}>>}

RunTopicOf == [run |-> "run/this", runs |-> "run/other"]

SetRuns == {<<rs, {"runs"} \cup {RunTopicOf[r] : r \in rs}>> : rs \in (SUBSET Runs) \ {{}}}

(* A task that goes on or is hidden tells of the tasks; one that ends may  *)
(* end a run that its log left open, and may push out an old task, whose   *)
(* run then shows without its command.                                     *)
BugUpdateTask ==
    {<<{"tasks"} \cup run, {"tasks"} \cup {RunTopicOf[r] : r \in run}>> :
        run \in {{}, {"run"}, {"runs"}}}

UpdateTask ==
    {<<{"tasks"}, {"tasks"}>>} \cup
    {<<{"tasks"} \cup run \cup drop,
       {"tasks"} \cup {RunTopicOf[r] : r \in run} \cup (IF run = {} THEN {} ELSE {"runs"})
                 \cup (IF drop = {} THEN {} ELSE {"run/this", "run/other"})>> :
        run \in {{}, {"run"}, {"runs"}}, drop \in {{}, {"task"}}}

DismissRun == <<{"dismissed"}, {"needs"}>>

Setters == {SetNodes, DismissRun} \cup SetOfStatus \cup SetLists \cup SetRuns \cup UpdateTask

-----------------------------------------------------------------------------
(* What the functions of the pages read, and their fragments and the       *)
(* templates of these show.  A run that goes on keeps its task, whose      *)
(* command is listed only where ended runs show too.                       *)
TaskOf     == {"task"}                  \* the command line of a run
StopOf     == {"tasks"}                 \* whether its Stop button is there
EntryOf    == TaskOf \cup {"clusters"}  \* the realm of a run
NodesOf    == {"nodes", "statuses", "slurms", "faults"} \cup Runs
RealmNames == {"realms", "clusters", "nodes"}
ClustersOf == RealmNames \cup NodesOf
ClusterOf  == {"clusters"} \cup NodesOf
DataKinds  == {"volumes"}
RealmRows  == RealmNames \cup {"locks", "meshes"} \cup NodesOf \cup DataKinds

DockerNote == {"docker"}                \* Docker does not answer: pg-docker-note
Chip       == {"monitorings"}           \* the cluster is monitored

ClusterView == ClusterOf                \* a cluster page, with its tabs
ClusterHead == ClusterView \cup StopOf \cup Chip \cup DockerNote
SummaryTab  == {"statuses"} \cup Chip
NetworkTab  == {"clusters", "nodes", "statuses", "networks", "volumes", "meshes"}
ConnectTab  == {"clusters", "nodes", "statuses"} \cup Chip

NodeActs   == Runs \cup Tasks
SvcRows    == {"changes"}
DiagOf     == NodesOf \cup {"changes"}
FixedOf    == Tasks \cup {"changes"}
ChangeRows == {"changes"}
LoadNode   == ClusterOf \cup NodeActs \cup SvcRows \cup DiagOf \cup FixedOf \cup ChangeRows
              \cup DockerNote

Failures   == Runs \cup {"dismissed"} \cup EntryOf
NeedsOf    == {"docker", "locks", "doctor"} \cup ClustersOf \cup Tasks \cup Failures

RunCtx     == {"run"} \cup TaskOf
LockHolder == Runs \cup EntryOf
RunBack    == {"clusters"}
RunHead    == RunCtx \cup Tasks \cup LockHolder \cup RunBack
RunOutcome == RunCtx \cup {"doctor"} \cup ClusterOf
RunUsual   == {"runs"}
RunSummary == RunCtx \cup StopOf \cup RunUsual
RunFacts   == RunCtx
RunList    == Runs \cup EntryOf
RunWait    == Tasks \cup Runs \cup RunBack

DockLoad       == Runs \cup Tasks
DoctorLoad     == {"docker", "doctor"}
MeshLoad       == RealmNames \cup {"docker", "meshes", "networks"}
MonitoringLoad == {"docker", "monitorings", "nodes", "doctor", "realms"}
TopologyOf     == RealmNames \cup {"docker", "doctor", "meshes", "networks", "monitorings"}
LoadClusters   == ClustersOf \cup Chip \cup StopOf \cup DataKinds \cup DockerNote
LoadNodes      == ClustersOf \cup DockerNote
LoadOverview   == RealmRows \cup Chip \cup DockerNote

Reads ==
    [ dock            |-> DockLoad,
      doctor          |-> DoctorLoad,
      mesh            |-> MeshLoad,
      monitoring      |-> MonitoringLoad,
      topology        |-> TopologyOf,
      clusters        |-> LoadClusters,
      nodes           |-> LoadNodes,
      fleet           |-> LoadOverview,
      needs           |-> NeedsOf,
      recent          |-> Runs \cup EntryOf,
      cluster_head    |-> ClusterHead,
      cluster_summary |-> ClusterView \cup SummaryTab,
      cluster_nodes   |-> ClusterView,
      cluster_network |-> NetworkTab,
      cluster_connect |-> ConnectTab,
      node            |-> LoadNode,
      run_head        |-> RunHead,
      run_outcome     |-> RunOutcome,
      run_summary     |-> RunSummary,
      run_facts       |-> RunFacts,
      run_list        |-> RunList,
      run_wait        |-> RunWait ]

(* What a fragment shows and does not follow, as the code is: the parts    *)
(* that a page may show as they were until another change renders it.      *)
Unwatched(f) ==
    CASE f = "clusters"        -> {"tasks", "volumes"}
      [] f = "fleet"           -> {"volumes", "meshes"}
      [] f = "cluster_head"    -> {"tasks", "monitorings", "docker"}
      [] f = "cluster_connect" -> {"statuses"}
      [] f = "node"            -> {"tasks", "task", "docker"}
      [] f = "run_head"        -> {"tasks", "runs", "clusters"}
      [] f = "run_outcome"     -> {"runs"}
      [] f = "run_summary"     -> {"tasks", "runs"}
      [] f \in {"mesh", "recent", "run_list", "run_wait"} -> {"clusters"}
      [] OTHER -> {}

-----------------------------------------------------------------------------
(* The topics each fragment depends on.                                    *)
ListTopics == {"realms", "clusters/", "nodes/", "status/", "monitoring/", "docker"} \cup RunPrefix
OverviewTopics == ListTopics \cup {"lock/", "doctor", "tasks", "needs"}
ClusterTopics(tab) ==
    {"clusters/", "nodes/"} \cup
    CASE tab = "summary" -> {"status/", "runs", "monitoring/", "mesh/"}
      [] tab = "network" -> {"status/", "runs", "networks/", "volumes/", "mesh/"}
      [] tab = "connect" -> {"monitoring/"}
      [] OTHER           -> {"status/", "runs"}
RunTopics == {"run/this"}

Depends ==
    [ dock            |-> {"tasks", "run/this", "run/other"},
      doctor          |-> {"doctor", "docker"},
      mesh            |-> {"realms", "docker", "mesh/", "networks/", "nodes/"},
      monitoring      |-> {"realms", "docker", "doctor", "monitoring/", "nodes/"},
      topology        |-> {"realms", "docker", "doctor", "clusters/", "nodes/", "networks/",
                           "mesh/", "monitoring/"},
      clusters        |-> ListTopics,
      nodes           |-> ListTopics,
      fleet           |-> OverviewTopics,
      needs           |-> OverviewTopics,
      recent          |-> RunPrefix,
      cluster_head    |-> ClusterTopics("nodes"),
      cluster_summary |-> ClusterTopics("summary"),
      cluster_nodes   |-> ClusterTopics("nodes"),
      cluster_network |-> ClusterTopics("network"),
      cluster_connect |-> ClusterTopics("connect"),
      node            |-> ClusterTopics("nodes"),
      run_head        |-> RunTopics,
      run_outcome     |-> RunTopics \cup {"doctor", "clusters/", "nodes/", "status/"},
      run_summary     |-> RunTopics,
      run_facts       |-> RunTopics,
      run_list        |-> {"runs", "tasks"},
      run_wait        |-> {"tasks", "run/this", "run/other"} ]

depends(f, changed) == Depends[f] \cap changed # {}
-----------------------------------------------------------------------------
LiveInit ==
    /\ frag \in DOMAIN Reads
    /\ stream = "page" /\ ended = "no" /\ reconnects = 0
    /\ dirty = {} /\ pending = FALSE /\ taken = FALSE

(* A setter changes the snapshot under the store's lock and notifies who   *)
(* listens; a topic that the fragment does not depend on renders nothing,  *)
(* so only the others are kept.                                            *)
Change(s) ==
    /\ dirty' = dirty \cup (s[1] \cap Reads[frag])
    /\ Cardinality(dirty') <= MaxDirty
    /\ pending' = (pending \/ (stream # "page" /\ depends(frag, s[2])))
    /\ UNCHANGED <<frag, stream, taken, reconnects>>

Set == (\E s \in Setters : Change(s)) /\ UNCHANGED ended

(* The browser opens the stream, which first subscribes and then renders   *)
(* every fragment.                                                         *)
Subscribe ==
    /\ stream = "page"
    /\ stream' = "open" /\ pending' = FALSE
    /\ UNCHANGED <<frag, dirty, taken, ended, reconnects>>

FirstRender ==
    /\ stream = "open"
    /\ stream' = "live" /\ dirty' = {}
    /\ UNCHANGED <<frag, pending, taken, ended, reconnects>>

(* The stream takes the topics that gathered; it renders from the snapshot *)
(* that the store holds after that.                                        *)
TakeTopics ==
    /\ stream = "live" /\ ~taken /\ pending
    /\ taken' = TRUE /\ pending' = FALSE
    /\ UNCHANGED <<frag, stream, dirty, ended, reconnects>>

RenderEvents ==
    /\ taken
    /\ taken' = FALSE /\ dirty' = {}
    /\ UNCHANGED <<frag, stream, pending, ended, reconnects>>

(* The connection breaks, and the browser opens the stream again.          *)
Reconnect ==
    /\ stream \in {"open", "live"} /\ reconnects < MaxReconnects
    /\ stream' = "page" /\ pending' = FALSE /\ taken' = FALSE
    /\ reconnects' = reconnects + 1
    /\ UNCHANGED <<frag, dirty, ended>>

(* The command that restarts a service of the node ends: it writes no      *)
(* event log, so no run ends with it.  sind ui then reads the status of    *)
(* the cluster again, which may be what it was.                            *)
EndTask ==
    /\ ended = "no" /\ ended' = "ended"
    /\ Change(<<{"tasks"}, {"tasks"}>>)

RefreshAfterTask ==
    /\ ended = "ended" /\ ended' = "refreshed"
    /\ \/ UNCHANGED <<frag, stream, dirty, pending, taken, reconnects>>
       \/ \E s \in SetOfStatus : Change(s)

LiveNext ==
    \/ Set \/ Subscribe \/ FirstRender \/ TakeTopics \/ RenderEvents \/ Reconnect
    \/ EndTask \/ RefreshAfterTask

LiveSpec == LiveInit /\ [][LiveNext]_liveVars

(* The page of a node, and a restart of a service of it, while nothing     *)
(* else happens.  The stream and the refresh run.                          *)
QuietNext == Subscribe \/ FirstRender \/ TakeTopics \/ RenderEvents \/ EndTask \/ RefreshAfterTask

QuietSpec ==
    /\ LiveInit /\ frag = "node" /\ [][QuietNext]_liveVars
    /\ WF_liveVars(Subscribe) /\ WF_liveVars(FirstRender) /\ WF_liveVars(TakeTopics)
    /\ WF_liveVars(RenderEvents) /\ WF_liveVars(RefreshAfterTask)

-----------------------------------------------------------------------------
(* A page whose stream has nothing left to render shows the snapshot as it *)
(* is, in every part that its fragment follows: no setter of the store     *)
(* notifies too little, no stream misses a change between the page and its *)
(* first render or across a reconnect, and no fragment reads a part it     *)
(* names no topic for but those of Unwatched.                              *)
PagesFresh ==
    stream = "live" /\ ~pending /\ ~taken => dirty \subseteq Unwatched(frag)

(* Once a restart of a service has ended, the page of its node comes to    *)
(* show the end, as its callout says ("The page shows the result when it   *)
(* ends.").                                                                *)
EndShown == ended = "ended" ~> "tasks" \notin dirty
=============================================================================

------------------------------ MODULE Queries ------------------------------
(***************************************************************************)
(* sind status, get nodes and get node: a query takes no lock, and its     *)
(* answer is put together from many docker calls, while commands create    *)
(* and delete the cluster, nodes stop and start, and the controllers of a  *)
(* primary/backup pair hand control to each other.                         *)
(*                                                                         *)
(* The model keeps, for a query, every state of the cluster from its first *)
(* call to its last one.  What the answer says is compared with them: it   *)
(* may mix them, but it may not say what none of them was.                 *)
(*                                                                         *)
(* Abstraction: one cluster.  A node's services are one, its Slurm daemon; *)
(* its addresses and labels are left out, and so are the mesh, the volumes *)
(* and the monitoring stack, which are read as the cluster's network is.   *)
(***************************************************************************)
EXTENDS Naturals

CONSTANTS
    Primary, Backup, \* the controllers
    Worker,          \* the other nodes
    None,
    MaxChanges,      \* bound: changes of the cluster during queries
    MaxQueryFaults   \* bound: docker calls that fail

VARIABLES
    nodes,     \* the container of each node
    slurm,     \* the nodes whose Slurm daemon answers
    beat,      \* the heartbeat file: the controller that wrote it, and whether it is fresh
    net,       \* the cluster's network exists
    changes,   \* changes and failed calls so far
    query      \* the query that runs, or the one that has ended

queryVars == <<nodes, slurm, beat, net, changes, query>>

Controllers == {Primary, Backup}
Node == Controllers \cup Worker
States == {"running", "paused", "stopped"}

World == [nodes |-> nodes, slurm |-> slurm, beat |-> beat, net |-> net]
Existing(at) == {n \in Node : at[n] # "none"}

NoBeat == [by |-> None, fresh |-> FALSE]

-----------------------------------------------------------------------------
(* The answers *)

Error(why) == [error |-> why]

\* aggregateState
AggregateState(at) ==
    LET seen == {at[n] : n \in Existing(at)} IN
    CASE seen = {} -> "empty"
      [] \E s \in seen : seen = {s} -> CHOOSE s \in seen : TRUE
      [] OTHER -> "mixed"

\* Mutant: a fresh heartbeat is enough.
BugInControl(b, healthy) == {c \in Controllers : b.fresh /\ b.by = c}

\* heartbeat.inControl, for the controllers that answered their probe.
InControl(b, healthy) == {c \in Controllers : b.fresh /\ b.by = c /\ c \in healthy}

Started(kind, n) ==
    [kind |-> kind, node |-> n, at |-> IF kind = "node" THEN "inspect" ELSE "list",
     listed |-> [m \in Node |-> "none"], info |-> [m \in Node |-> "none"],
     todo |-> IF kind = "node" THEN {n} ELSE {}, healthy |-> {}, partner |-> "none",
     beat |-> NoBeat, net |-> None, faults |-> 0, been |-> {World}, answer |-> <<>>]

Over(q) == q.at = "over"
Ends(a) == query' = [query EXCEPT !.at = "over", !.answer = a]
GoesOn(at) == query' = [query EXCEPT !.at = at]
Reading == UNCHANGED <<nodes, slurm, beat, net, changes>>

-----------------------------------------------------------------------------
(* The calls of a query *)

Begin(kind, n) ==
    /\ Over(query) /\ query' = Started(kind, n)
    /\ Reading

\* clusterContainers
List ==
    /\ query.at = "list"
    /\ query' = [query EXCEPT !.listed = nodes, !.todo = Existing(nodes),
                              !.at = IF Existing(nodes) = {} THEN "exists" ELSE "inspect"]
    /\ Reading

\* checkClusterExists, of a cluster without containers.
Exists ==
    /\ query.at = "exists"
    /\ IF ~net THEN Ends(Error("no cluster"))
       ELSE IF query.kind = "status" THEN GoesOn("probe")
       ELSE Ends([nodes |-> query.listed, info |-> query.info])
    /\ Reading

\* docker inspect asks for one container after the other, and fails if one
\* is gone: sind status then fails, and get nodes leaves out what it told.
Inspect(n) ==
    /\ query.at = "inspect" /\ n \in query.todo
    /\ IF nodes[n] = "none"
       THEN CASE query.kind = "status" -> Ends(Error("gone"))
              [] query.kind = "nodes"  -> Ends([nodes |-> query.listed, info |-> [m \in Node |-> "none"]])
              [] query.kind = "node"   -> GoesOn("resolve")
       ELSE LET info == [query.info EXCEPT ![n] = nodes[n]]
                todo == query.todo \ {n}
            IN IF todo # {} \/ query.kind # "nodes"
               THEN query' = [query EXCEPT !.info = info, !.todo = todo,
                                           !.at = IF todo = {} THEN "probe" ELSE @]
               ELSE Ends([nodes |-> query.listed, info |-> info])
    /\ Reading

\* CheckNode, of a node that docker inspect did not find.
Resolve ==
    /\ query.at = "resolve"
    /\ Ends(Error(IF Existing(nodes) = {} THEN "no cluster" ELSE "no node"))
    /\ Reading

\* probe.Snapshot, of the nodes that ran when they were inspected.
ToProbe == {n \in Node : query.info[n] = "running"}

Probe(n) ==
    /\ query.at = "probe" /\ n \in ToProbe \ query.todo
    /\ query' = [query EXCEPT !.todo = @ \cup {n},
                              !.healthy = IF nodes[n] = "running" /\ n \in slurm THEN @ \cup {n} ELSE @]
    /\ Reading

\* GetNetworkHealth, next to the probes.
CheckNetwork ==
    /\ query.at = "probe" /\ query.kind = "status" /\ query.net = None
    /\ query' = [query EXCEPT !.net = net]
    /\ Reading

Probed == query.at = "probe" /\ ToProbe \subseteq query.todo

\* nodeHA: the other controller, whose absence means that there is no pair.
InspectPartner ==
    /\ Probed /\ query.kind = "node"
    /\ LET partner == CHOOSE c \in Controllers : c # query.node IN
       IF query.node \notin Controllers \/ (nodes[partner] = "none" /\ query.node # Backup)
       THEN Ends([node |-> query.info[query.node], healthy |-> query.healthy, control |-> {}])
       ELSE query' = [query EXCEPT !.partner = nodes[partner], !.at = "beat"]
    /\ Reading

\* setControllerHA reads the heartbeat on the first controller that ran, and
\* nodeHA on the node itself or, if it did not run, on its partner.
BeatSource ==
    LET runs(c) == query.info[c] = "running" IN
    IF query.kind = "status"
    THEN IF runs(Primary) THEN Primary ELSE IF runs(Backup) THEN Backup ELSE None
    ELSE IF runs(query.node) THEN query.node
         ELSE IF query.partner = "running" THEN CHOOSE c \in Controllers : c # query.node ELSE None

HasPair == query.kind = "node" \/ query.listed[Backup] # "none"

ReadBeat ==
    /\ query.at = "beat" \/ (Probed /\ query.kind = "status" /\ HasPair)
    /\ LET b == IF BeatSource # None /\ nodes[BeatSource] = "running" THEN beat ELSE NoBeat IN
       IF query.kind = "status" THEN query' = [query EXCEPT !.beat = b, !.at = "answer"]
       ELSE Ends([node |-> query.info[query.node], healthy |-> query.healthy,
                  control |-> InControl(b, query.healthy) \cap {query.node}])
    /\ Reading

\* The status of a cluster without a pair needs no heartbeat.
Answer ==
    /\ query.kind = "status" /\ query.at \in {"probe", "answer"}
    /\ query.net # None
    /\ query.at = "probe" => Probed /\ ~HasPair
    /\ Ends([state |-> AggregateState(query.listed), nodes |-> query.info, healthy |-> query.healthy,
             control |-> InControl(query.beat, query.healthy), net |-> query.net])
    /\ Reading

\* The network check can end last.
CheckNetworkLate ==
    /\ query.at = "answer" /\ query.net = None
    /\ query' = [query EXCEPT !.net = net]
    /\ Reading

\* A docker call fails: a probe that fails is a service that does not
\* answer, a heartbeat that cannot be read one that is not there, and a
\* list goes on without what inspect tells.  Anything else fails the query.
Fails ==
    /\ ~Over(query) /\ query.at # "answer" /\ query.faults < MaxQueryFaults
    /\ LET f == [query EXCEPT !.faults = @ + 1] IN
       \/ /\ query.at \in {"list", "exists", "inspect", "resolve"} \/ (Probed /\ query.kind = "node")
          /\ IF query.at = "inspect" /\ query.kind = "nodes"
             THEN query' = [f EXCEPT !.at = "over", !.answer = [nodes |-> query.listed, info |-> [m \in Node |-> "none"]]]
             ELSE query' = [f EXCEPT !.at = "over", !.answer = Error("docker")]
       \/ \E n \in ToProbe \ query.todo : query.at = "probe" /\ query' = [f EXCEPT !.todo = @ \cup {n}]
       \/ /\ query.at = "beat"
          /\ query' = [f EXCEPT !.at = "over", !.answer =
                [node |-> query.info[query.node], healthy |-> query.healthy, control |-> {}]]
       \/ Probed /\ query.kind = "status" /\ HasPair /\ query' = [f EXCEPT !.at = "answer"]
       \/ /\ query.at = "probe" /\ query.kind = "status" /\ query.net = None
          /\ query' = [f EXCEPT !.at = "over", !.answer = Error("docker")]
    /\ Reading

-----------------------------------------------------------------------------
(* The cluster, meanwhile *)

Changed(ns, sl, b, nt) ==
    /\ changes < MaxChanges /\ ~Over(query)
    /\ nodes' = ns /\ slurm' = sl /\ beat' = b /\ net' = nt
    /\ World' # World
    /\ changes' = changes + 1
    /\ query' = [query EXCEPT !.been = @ \cup {World'}]

\* A create makes the network before the nodes, and a delete removes it
\* after them.
Network == Existing(nodes) = {} /\ Changed(nodes, slurm, beat, ~net)
Creates(n) == net /\ nodes[n] = "none" /\ Changed([nodes EXCEPT ![n] = "running"], slurm, beat, net)
Removes(n) == nodes[n] # "none" /\ Changed([nodes EXCEPT ![n] = "none"], slurm \ {n}, beat, net)

\* Power: a container that is paused answers no exec, but its daemon goes on
\* when it is unpaused.
Powers(n) ==
    /\ nodes[n] # "none"
    /\ \E s \in States : Changed([nodes EXCEPT ![n] = s], IF s = "stopped" THEN slurm \ {n} ELSE slurm, beat, net)

Daemon(n) ==
    /\ nodes[n] = "running"
    /\ \/ n \in slurm /\ Changed(nodes, slurm \ {n}, beat, net)
       \/ n \notin slurm /\ Changed(nodes, slurm \cup {n}, beat, net)

\* A controller that answers takes control; the heartbeat of one that does
\* not gets old.
Beats(c) == nodes[c] = "running" /\ c \in slurm /\ Changed(nodes, slurm, [by |-> c, fresh |-> TRUE], net)
GetsOld ==
    /\ beat.by # None /\ (beat.by \notin slurm \/ nodes[beat.by] # "running")
    /\ Changed(nodes, slurm, [beat EXCEPT !.fresh = FALSE], net)

-----------------------------------------------------------------------------
\* No cluster, what a delete left of one, or a cluster with or without a
\* backup controller, one of whose controllers may be stopped.
QueryInit ==
    /\ \E up \in {{}, {Primary} \cup Worker, Node, Node \ {Primary}, Node \ {Backup}} :
          /\ \E off \in {"none", "stopped"} :
                nodes = [n \in Node |-> IF n \in up THEN "running" ELSE IF up = {} THEN "none" ELSE off]
          /\ slurm = up
    /\ beat \in {b \in [by : Controllers, fresh : {TRUE}] : b.by \in slurm}
                  \cup {b \in {NoBeat} : slurm = {}}
    /\ net \in BOOLEAN /\ (~net => Existing(nodes) = {})
    /\ changes = 0
    /\ query = [Started("nodes", None) EXCEPT !.at = "over", !.been = {}, !.answer = Error("none")]

QueryNext ==
    \/ \E k \in {"status", "nodes"} : Begin(k, None)
    \/ \E n \in Node : Begin("node", n)
    \/ List \/ Exists \/ Resolve \/ CheckNetwork \/ InspectPartner \/ ReadBeat \/ Answer \/ CheckNetworkLate \/ Fails
    \/ \E n \in Node : Inspect(n) \/ Probe(n)
    \/ Network \/ GetsOld
    \/ \E n \in Node : Creates(n) \/ Removes(n) \/ Powers(n) \/ Daemon(n)
    \/ \E c \in Controllers : Beats(c)

QuerySpec == QueryInit /\ [][QueryNext]_queryVars

-----------------------------------------------------------------------------
(* The query while it runs *)

AtNode == States \cup {"none"}
Beat == [by : Controllers \cup {None}, fresh : BOOLEAN]
Phase == {"list", "exists", "inspect", "resolve", "probe", "beat", "answer", "over"}
Query(q) ==
    [kind : {"status", "nodes", "node"}, node : Node \cup {None}, at : Phase,
     listed : [Node -> AtNode], info : [Node -> AtNode], todo : SUBSET Node,
     healthy : SUBSET Node, partner : AtNode, beat : Beat, net : BOOLEAN \cup {None},
     faults : Nat, been : SUBSET [nodes : [Node -> AtNode], slurm : SUBSET Node,
                                  beat : Beat, net : BOOLEAN],
     answer : {q.answer}]

QueryTypeOK ==
    /\ nodes \in [Node -> AtNode] /\ slurm \subseteq Node /\ beat \in Beat /\ net \in BOOLEAN
    /\ query \in Query(query)
    /\ query.kind = "node" => query.node \in Node

\* A cluster without a network has no nodes, only a controller writes the
\* heartbeat, and a query knows the cluster as it is now.
WorldInv ==
    /\ ~net => Existing(nodes) = {}
    /\ beat.fresh => beat.by \in Controllers
    /\ ~Over(query) => World \in query.been

\* What each phase has to do, and what it knows.
PhaseInv ==
    /\ query.at \in {"list", "exists"} => query.kind # "node"
    /\ query.at = "list" => query.info = [n \in Node |-> "none"]
    /\ query.at = "exists" =>
          Existing(query.listed) = {} /\ Existing(query.info) = {} /\ query.todo = {}
    /\ query.at = "inspect" =>
          /\ query.kind = "node" => query.todo = {query.node} /\ Existing(query.info) = {}
          /\ query.kind # "node" =>
                /\ query.todo \subseteq Existing(query.listed)
                /\ Existing(query.info) = Existing(query.listed) \ query.todo
    /\ query.at \in {"list", "exists", "inspect", "resolve"} =>
          query.healthy = {} /\ query.net = None
    /\ query.at = "resolve" => query.kind = "node"
    /\ query.at \in {"probe", "beat", "answer"} =>
          /\ query.kind # "nodes" /\ query.todo \subseteq ToProbe
          /\ query.kind = "status" => Existing(query.info) = Existing(query.listed)
          /\ query.kind = "node" => Existing(query.info) = {query.node}
    /\ query.at \in {"beat", "answer"} =>
          query.kind = IF query.at = "beat" THEN "node" ELSE "status"
    /\ query.at = "beat" => query.node \in Controllers
    /\ query.at = "answer" => HasPair
    /\ query.at # "answer" => query.beat = NoBeat

\* All that the query has noted was so at some moment of it.
NotedInv ==
    /\ query.at # "list" /\ query.kind # "node" =>
          \E w \in query.been : w.nodes = query.listed
    /\ \A n \in Existing(query.info) : \E w \in query.been : w.nodes[n] = query.info[n]
    /\ \A n \in query.healthy :
          \E w \in query.been : w.nodes[n] = "running" /\ n \in w.slurm
    /\ query.beat.fresh => \E w \in query.been : w.beat = query.beat
    /\ query.at = "resolve" => \E w \in query.been : w.nodes[query.node] = "none"

\* Those whose Slurm daemon answers, and who is in control: a cluster that
\* has no backup controller has none in control.
Answering == {n \in Node : nodes[n] = "running" /\ n \in slurm}
Controlling == IF beat.fresh THEN {beat.by} \cap Answering ELSE {}

\* While nothing changes and no call fails, what is noted is the cluster.
Still == query.faults = 0 /\ query.been = {World}
StillInv ==
    Still =>
    /\ query.at # "list" /\ query.kind # "node" => query.listed = nodes
    /\ \A n \in Existing(query.info) : query.info[n] = nodes[n]
    /\ query.net \in {net, None}
    /\ query.at \in {"probe", "beat", "answer"} => query.healthy = query.todo \cap Answering
    /\ query.at \in {"beat", "answer"} => ToProbe \subseteq query.todo
    /\ query.at = "beat" =>
          /\ \A c \in Controllers \ {query.node} : query.partner = nodes[c]
          /\ nodes[Backup] # "none"
    /\ query.at = "answer" => InControl(query.beat, query.healthy) = Controlling

-----------------------------------------------------------------------------
(* Properties, of an answer *)

Has(field) == Over(query) /\ field \in DOMAIN query.answer

\* A query that says there is no such cluster or node was right at some
\* moment of it, also in the middle of a create or a delete, and one that
\* says a node is gone saw it go.
ErrorsTrue ==
    Has("error") =>
        /\ query.answer.error = "no cluster" =>
              \E w \in query.been : Existing(w.nodes) = {} /\ (query.kind # "node" => ~w.net)
        /\ query.answer.error = "no node" =>
              \E w \in query.been : w.nodes[query.node] = "none"
        /\ query.answer.error = "gone" =>
              \E v, w \in query.been : Existing(v.nodes) # Existing(w.nodes)

\* The state and the health of each node in an answer are what they were at
\* some moment of the query, and a node that was there all the time is in
\* the answer.
NodesTrue ==
    /\ Has("nodes") => \A n \in Node :
          /\ \E w \in query.been : w.nodes[n] = query.answer.nodes[n]
          /\ (\A w \in query.been : w.nodes[n] # "none") => query.answer.nodes[n] # "none"
    /\ Has("healthy") => \A n \in query.answer.healthy :
          \E w \in query.been : w.nodes[n] = "running" /\ n \in w.slurm

\* At most one controller is said to be in control, and that one answered
\* and had written the fresh heartbeat, each at some moment of the query.
ControlTrue ==
    Has("control") =>
        /\ \A c, d \in query.answer.control : c = d
        /\ \A c \in query.answer.control :
              /\ \E w \in query.been : w.nodes[c] = "running" /\ c \in w.slurm
              /\ \E w \in query.been : w.beat = [by |-> c, fresh |-> TRUE]

\* While nothing changes and no call fails, the answer is the cluster: also
\* who is in control, read on whichever controller runs.
Steady ==
    Has("control") /\ Still =>
        LET a == query.answer
            asked == IF query.kind = "node" THEN {query.node} ELSE Node
        IN
        /\ a.healthy = asked \cap Answering
        /\ a.control = IF nodes[Backup] # "none" THEN asked \cap Controlling ELSE {}
        /\ query.kind = "status" => a.state = AggregateState(nodes) /\ a.net = net

QueryInv ==
    /\ QueryTypeOK /\ WorldInv
    /\ ~Over(query) => PhaseInv /\ NotedInv /\ StillInv
    /\ ErrorsTrue /\ NodesTrue /\ ControlTrue /\ Steady
=============================================================================

------------------------------- MODULE External -------------------------------
(***************************************************************************)
(* Containers outside sind that join a realm (pkg/cluster/external.go): the*)
(* mesh network, which is all that says that they do, and every cluster    *)
(* network.  sind connect and disconnect change what they join, a create   *)
(* connects them to the network it makes, and a delete detaches them from  *)
(* the networks it removes; all hold the realm lock.                       *)
(***************************************************************************)
EXTENDS Naturals, FiniteSets

CONSTANTS
    Ext,            \* containers outside sind
    Cluster,        \* clusters, each named as its network is
    MaxExtFaults,   \* bound: calls that fail and kills
    MaxExtCommands  \* bound: commands

VARIABLES
    networks,   \* the cluster networks of the realm
    whole,      \* the clusters that have nodes
    mesh,       \* whether the mesh network exists
    joined,     \* container -> the networks that it joins
    ext,        \* the command
    behind,     \* containers that a warning or an error named, or a kill left
    extUsed     \* what has been used up of the bounds

extVars == <<networks, whole, mesh, joined, ext, behind, extUsed>>

Mesh == "mesh"
OnMesh == {c \in Ext : Mesh \in joined[c]}

NoCommand == [pc |-> "idle", names |-> {}, net |-> Mesh, todo |-> {},
              made |-> FALSE, last |-> FALSE, rollback |-> FALSE]

Init ==
    /\ networks = {}
    /\ whole = {}
    /\ mesh = FALSE
    /\ joined = [c \in Ext |-> {}]
    /\ ext = NoCommand
    /\ behind = {}
    /\ extUsed = [faults |-> 0, commands |-> 0]

Fault == extUsed.faults < MaxExtFaults /\ extUsed' = [extUsed EXCEPT !.faults = @ + 1]
Command == /\ ext.pc = "idle" /\ extUsed.commands < MaxExtCommands
           /\ extUsed' = [extUsed EXCEPT !.commands = @ + 1]

\* How a docker call ends: ok, failed without its effect, or with it.
CallEnds(o) == IF o = "ok" THEN UNCHANGED extUsed ELSE Fault
Outcome == {"ok", "failed", "lost"}
Effect(o) == o \in {"ok", "lost"}

\* The realm's networks, the mesh first if it exists.
RealmNetworks == networks \cup (IF mesh THEN {Mesh} ELSE {})

-----------------------------------------------------------------------------
(* sind connect container and sind disconnect container                    *)

BeginConnect(names) ==
    /\ Command
    /\ mesh
    /\ ext' = [NoCommand EXCEPT !.pc = "connect", !.names = names]
    /\ UNCHANGED <<networks, whole, mesh, joined, behind>>

BeginDisconnect(names) ==
    /\ Command
    /\ ext' = [NoCommand EXCEPT !.pc = "disconnect", !.names = names]
    /\ UNCHANGED <<networks, whole, mesh, joined, behind>>

\* The network that Connect joins next: the mesh, then the others.
NextJoin(c) == IF Mesh \notin joined[c] THEN {Mesh} ELSE RealmNetworks \ joined[c]

\* Mutant: Disconnect leaves the networks in the order they are listed.
BugNextLeave(c) == IF Mesh \in joined[c] THEN {Mesh} ELSE joined[c] \cap RealmNetworks

\* The network that Disconnect leaves next: the mesh last.
NextLeave(c) == IF joined[c] \cap networks # {} THEN joined[c] \cap networks
                                                ELSE joined[c] \cap RealmNetworks

\* One container after the other; the first failure ends the command.
ChangeNetwork(c, pc, next, after) ==
    /\ ext.pc = pc
    /\ c \in ext.names
    /\ \E n \in next, o \in Outcome :
         /\ CallEnds(o)
         /\ joined' = IF Effect(o) THEN [joined EXCEPT ![c] = after[n]] ELSE joined
         /\ ext' = IF o = "ok" THEN [ext EXCEPT !.todo = {c}] ELSE NoCommand
         /\ behind' = IF o = "ok" THEN behind ELSE behind \cup ext.names
    /\ UNCHANGED <<networks, whole, mesh>>

OneAtATime(c) == ext.todo \subseteq {c}

ConnectNetwork(c) ==
    OneAtATime(c) /\ ChangeNetwork(c, "connect", NextJoin(c), [n \in RealmNetworks |-> joined[c] \cup {n}])

DisconnectNetwork(c) ==
    OneAtATime(c) /\ ChangeNetwork(c, "disconnect", NextLeave(c), [n \in RealmNetworks |-> joined[c] \ {n}])

\* A container that joins, or is off, every network is done or skipped.
ContainerDone(c) ==
    /\ c \in ext.names
    /\ OneAtATime(c)
    /\ \/ ext.pc = "connect" /\ NextJoin(c) = {}
       \/ ext.pc = "disconnect" /\ NextLeave(c) = {}
    /\ ext' = IF ext.names = {c} THEN NoCommand ELSE [ext EXCEPT !.names = @ \ {c}, !.todo = {}]
    /\ behind' = behind \ {c}
    /\ UNCHANGED <<networks, whole, mesh, joined, extUsed>>

-----------------------------------------------------------------------------
(* A create makes the network of its cluster, on a mesh that it may have    *)
(* made first, and connects the containers that are on the mesh to it,      *)
(* before it makes the nodes.                                              *)

BeginCreate(n) ==
    /\ Command
    /\ n \notin networks \cup whole
    /\ mesh' = TRUE
    /\ ext' = [NoCommand EXCEPT !.pc = "create", !.net = n, !.made = ~mesh]
    /\ UNCHANGED <<networks, whole, joined, behind>>

\* The rollback of a create removes what a delete does, and the mesh only when
\* the create made it.
RollBack == [ext EXCEPT !.pc = "delete", !.rollback = TRUE, !.todo = {},
                        !.last = ext.made /\ whole \subseteq {ext.net}]

CreateClusterNetwork ==
    /\ ext.pc = "create"
    /\ \E o \in Outcome :
         /\ CallEnds(o)
         /\ networks' = IF Effect(o) THEN networks \cup {ext.net} ELSE networks
         /\ ext' = IF o = "ok" THEN [ext EXCEPT !.pc = "list"] ELSE RollBack
    /\ UNCHANGED <<whole, mesh, joined, behind>>

\* Best effort: what cannot be listed or connected is a warning.
ListExternal ==
    /\ ext.pc = "list"
    /\ \E o \in {"ok", "failed"} :
         /\ CallEnds(o)
         /\ ext' = [ext EXCEPT !.pc = "join", !.todo = IF o = "ok" THEN OnMesh ELSE {}]
         /\ behind' = IF o = "ok" THEN behind ELSE behind \cup OnMesh
    /\ UNCHANGED <<networks, whole, mesh, joined>>

ConnectExternal(c) ==
    /\ ext.pc = "join"
    /\ c \in ext.todo
    /\ \E o \in Outcome :
         /\ CallEnds(o)
         /\ joined' = IF Effect(o) THEN [joined EXCEPT ![c] = @ \cup {ext.net}] ELSE joined
         /\ ext' = [ext EXCEPT !.todo = @ \ {c}]
         /\ behind' = IF o = "ok" THEN behind ELSE behind \cup {c}
    /\ UNCHANGED <<networks, whole, mesh>>

CreateNodes ==
    /\ ext.pc = "join"
    /\ ext.todo = {}
    /\ \E o \in Outcome :
         /\ CallEnds(o)
         /\ whole' = IF Effect(o) THEN whole \cup {ext.net} ELSE whole
         /\ ext' = IF o = "ok" THEN NoCommand ELSE RollBack
    /\ UNCHANGED <<networks, mesh, joined, behind>>

-----------------------------------------------------------------------------
(* A delete removes the nodes, detaches whatever joins the network and      *)
(* removes it; with the last cluster that has nodes the mesh goes too.      *)

BeginDelete(n) ==
    /\ Command
    /\ ext' = [NoCommand EXCEPT !.pc = "delete", !.net = n, !.last = whole \subseteq {n}]
    /\ UNCHANGED <<networks, whole, mesh, joined, behind>>

AfterRemoval(o) ==
    ext' = IF ext.last /\ (o = "ok" \/ ext.rollback)
             THEN [ext EXCEPT !.pc = "mesh", !.net = Mesh] ELSE NoCommand

DeleteContainers ==
    /\ ext.pc = "delete"
    /\ \E o \in Outcome :
         /\ CallEnds(o)
         /\ whole' = IF Effect(o) THEN whole \ {ext.net} ELSE whole
         /\ IF o = "ok" THEN ext' = [ext EXCEPT !.pc = "network"] ELSE AfterRemoval(o)
    /\ UNCHANGED <<networks, mesh, joined, behind>>

\* docker refuses to remove a network that a container joins: each is detached
\* first, and any of the calls may fail, done or not.
DisconnectAll(stay) ==
    joined' = [c \in Ext |-> IF c \in stay THEN joined[c] ELSE joined[c] \ {ext.net}]

Attached == {c \in Ext : ext.net \in joined[c]}

RemoveNetwork ==
    /\ ext.pc \in {"network", "mesh"}
    /\ \/ UNCHANGED extUsed /\ DisconnectAll({})
          /\ networks' = networks \ {ext.net} /\ mesh' = (mesh /\ ext.net # Mesh)
          /\ IF ext.pc = "mesh" THEN ext' = NoCommand ELSE AfterRemoval("ok")
       \/ Fault /\ (\E stay \in SUBSET Attached : DisconnectAll(stay))
          /\ UNCHANGED <<networks, mesh>>
          /\ IF ext.pc = "mesh" THEN ext' = NoCommand ELSE AfterRemoval("failed")
       \/ Fault /\ DisconnectAll({})
          /\ networks' = networks \ {ext.net} /\ mesh' = (mesh /\ ext.net # Mesh)
          /\ IF ext.pc = "mesh" THEN ext' = NoCommand ELSE AfterRemoval("lost")
    /\ behind' = IF ext.pc = "mesh" THEN behind \ Attached ELSE behind
    /\ UNCHANGED whole

\* The command is killed: the containers that it had yet to connect or to
\* disconnect are as it left them.
Kill ==
    /\ ext.pc # "idle"
    /\ Fault
    /\ ext' = NoCommand
    /\ behind' = behind \cup ext.names
    /\ UNCHANGED <<networks, whole, mesh, joined>>

Next ==
    \/ \E names \in (SUBSET Ext) \ {{}} : BeginConnect(names) \/ BeginDisconnect(names)
    \/ \E c \in Ext : \/ ConnectNetwork(c) \/ DisconnectNetwork(c) \/ ContainerDone(c)
                      \/ ConnectExternal(c)
    \/ \E n \in Cluster : BeginCreate(n) \/ BeginDelete(n)
    \/ CreateClusterNetwork \/ ListExternal \/ CreateNodes
    \/ DeleteContainers \/ RemoveNetwork \/ Kill

Spec == Init /\ [][Next]_extVars

-----------------------------------------------------------------------------
(* Properties.                                                             *)

Phase == {"idle", "connect", "disconnect", "create", "list", "join",
          "delete", "network", "mesh"}

ExtState == [pc : Phase, names : SUBSET Ext, net : Cluster \cup {Mesh}, todo : SUBSET Ext,
             made : BOOLEAN, last : BOOLEAN, rollback : BOOLEAN]

ExternalTypeOK ==
    /\ networks \subseteq Cluster
    /\ whole \subseteq networks
    /\ mesh \in BOOLEAN
    /\ joined \in [Ext -> SUBSET (Cluster \cup {Mesh})]
    /\ \A c \in Ext : joined[c] \subseteq RealmNetworks
    /\ ext \in ExtState
    /\ behind \subseteq Ext

\* A create that made the mesh has nobody to connect.  Until it makes its nodes,
\* only containers on the mesh join its network, and all of them, but for those
\* still to do and those it warned of.
CreateInv ==
    /\ ext.pc \in {"create", "list", "join"} =>
         ext.net \in Cluster \ whole /\ (ext.made => OnMesh = {})
    /\ ext.pc = "create" => ext.net \notin networks
    /\ ext.pc \in {"list", "join"} => ext.net \in networks
    /\ ext.pc = "list" => \A c \in Ext : ext.net \notin joined[c]
    /\ ext.pc = "join" => /\ ext.todo \subseteq OnMesh
                          /\ \A c \in Ext : ext.net \in joined[c] => c \in OnMesh
                          /\ \A c \in OnMesh \ behind : c \in ext.todo \/ ext.net \in joined[c]

\* A network is removed without nodes on it, and the mesh when no cluster has
\* nodes, or by the rollback of the create that made it, when nobody is on it.
RemovalInv ==
    /\ ext.pc \in {"delete", "network"} => ext.net \in Cluster
    /\ ext.pc = "delete" /\ ext.last =>
         whole \subseteq {ext.net} /\ (ext.rollback => OnMesh = {})
    /\ ext.pc = "network" => ext.net \notin whole /\ (ext.last => whole = {})
    /\ ext.pc = "mesh" => ext.net = Mesh /\ (whole = {} \/ OnMesh = {})

\* Only sind connect and disconnect name containers, and a connect has a mesh.
NamesInv ==
    /\ ext.pc \notin {"connect", "disconnect"} => ext.names = {}
    /\ ext.pc = "connect" => mesh

\* Wherever a command stops, a container on the network of a cluster that has
\* nodes is on the mesh: sind still knows it, and connects it to new clusters.
KnownByMesh == \A c \in Ext : joined[c] \cap whole # {} => Mesh \in joined[c]

\* A container on the mesh is on the network of every cluster that has nodes,
\* unless an error or a warning named it, or a command at it was killed.
AllJoined ==
    \A c \in OnMesh \ (behind \cup ext.names) : whole \subseteq joined[c]

ExternalInv ==
    ExternalTypeOK /\ NamesInv /\ CreateInv /\ RemovalInv /\ KnownByMesh /\ AllJoined

=============================================================================

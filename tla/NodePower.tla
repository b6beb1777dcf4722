------------------------------ MODULE NodePower ------------------------------
(***************************************************************************)
(* sind power (pkg/cluster/power.go, cmd/sind/power.go): nodes are stopped,*)
(* frozen and started.  Docker may give a node another address each time   *)
(* it starts, so the commands that start nodes hold the realm lock, start  *)
(* the mesh first, and point the records of the mesh DNS at the started    *)
(* nodes afterwards.  The commands that stop, freeze and unfreeze take no  *)
(* lock: theirs are single steps between any two of the locked command.    *)
(***************************************************************************)
EXTENDS Naturals, FiniteSets

CONSTANTS
    Node,           \* the nodes of the realm
    clusterOf,      \* node -> its cluster
    Addr,           \* the addresses Docker may give the nodes
    None,           \* no address
    MaxFaults,      \* bound: calls that fail, kills and reboots
    MaxCommands,    \* bound: locked commands
    MaxSwitches     \* bound: nodes that the unlocked commands switch

VARIABLES
    nodes,      \* node -> its container's state and its address
    records,    \* the Corefile: node -> the address its name stands for
    dns, relay, \* the mesh containers: running, exited or none
    power,      \* the locked command
    told,       \* nodes that a command reported, or that a killed one left
    used        \* what has been used up of the bounds

vars == <<nodes, records, dns, relay, power, told, used>>

State == {"running", "paused", "exited"}
Stopped == [state |-> "exited", ip |-> None]
Up(n) == nodes[n].state # "exited"

NoneSeen == [n \in Node |-> None]

\* left: the nodes the step has yet to try; good: those it succeeded on.
NoPower == [pc |-> "idle", op |-> "none", targets |-> {}, todo |-> {}, group |-> {},
            left |-> {}, good |-> {}, seen |-> NoneSeen, err |-> FALSE, failed |-> FALSE,
            hasDNS |-> FALSE, canceled |-> FALSE, dropped |-> {}]

\* A realm in use, or one whose host has just rebooted; a realm that lost its
\* DNS container still has nodes.
Init ==
    /\ \/ \E ip \in [Node -> Addr] :
             /\ \A m, n \in Node : m # n => ip[m] # ip[n]
             /\ nodes = [n \in Node |-> [state |-> "running", ip |-> ip[n]]]
             /\ records = ip
             /\ dns \in {"running", "none"}
             /\ relay = "running"
       \/ \E ip \in [Node -> Addr] :
             /\ \A m, n \in Node : m # n => ip[m] # ip[n]
             /\ nodes = [n \in Node |-> Stopped]
             /\ records = ip
             /\ dns = "exited"
             /\ relay \in {"exited", "none"}
    /\ power = NoPower
    /\ told = {}
    /\ used = [faults |-> 0, commands |-> 0, switches |-> 0]

Fault == used.faults < MaxFaults /\ used' = [used EXCEPT !.faults = @ + 1]

\* How a docker call of the command ends: ok, failed without its effect, or
\* failed with it.  Once Ctrl-C was pressed no further call is made.
CallEnds(o) ==
    \/ o = "ok" /\ ~power.canceled /\ UNCHANGED used
    \/ o = "failed" /\ power.canceled /\ UNCHANGED used
    \/ o \in {"failed", "lost"} /\ ~power.canceled /\ Fault

Effect(o) == o \in {"ok", "lost"}

-----------------------------------------------------------------------------
(* The unlocked commands: shutdown, cut, freeze, unfreeze of one node.     *)

Switch(n, from, to) ==
    /\ used.switches < MaxSwitches
    /\ used' = [used EXCEPT !.switches = @ + 1]
    /\ nodes[n].state \in from
    /\ nodes' = [nodes EXCEPT ![n] = IF to = "exited" THEN Stopped ELSE [@ EXCEPT !.state = to]]
    /\ power' = [power EXCEPT !.dropped = IF to = "exited" THEN @ \cup {n} ELSE @]
    /\ UNCHANGED <<records, dns, relay, told>>

PowerShutdown(n) == Switch(n, {"running", "paused"}, "exited")
PowerFreeze(n) == Switch(n, {"running"}, "paused")
PowerUnfreeze(n) == Switch(n, {"paused"}, "running")

-----------------------------------------------------------------------------
(* The locked commands: on, reboot and cycle.  The nodes of a command may   *)
(* be of several clusters, which it takes one after the other.             *)

Begin(op, T) ==
    /\ power.pc = "idle"
    /\ used.commands < MaxCommands
    /\ used' = [used EXCEPT !.commands = @ + 1]
    /\ power' = [NoPower EXCEPT !.pc = "group", !.op = op, !.targets = T,
                                !.todo = {clusterOf[n] : n \in T}]
    /\ UNCHANGED <<nodes, records, dns, relay, told>>

\* The end of a cluster's part, with an error or without.
GroupEnds(err) ==
    /\ power' = [power EXCEPT !.pc = "group", !.failed = @ \/ err, !.group = {},
                              !.left = {}, !.good = {}, !.seen = NoneSeen, !.err = FALSE]
    /\ told' = IF err THEN told \cup power.group ELSE told \ power.group

ResolveTargets(c) ==
    /\ power.pc = "group"
    /\ c \in power.todo
    /\ \E o \in {"ok", "failed"} :
         LET group == {n \in power.targets : clusterOf[n] = c}
             first == IF power.op = "on" THEN "mesh" ELSE "down" IN
         /\ CallEnds(o)
         /\ power' = IF o = "ok"
              THEN [power EXCEPT !.todo = @ \ {c}, !.group = group, !.left = group, !.pc = first]
              ELSE [power EXCEPT !.todo = @ \ {c}, !.failed = TRUE]
    /\ UNCHANGED <<nodes, records, dns, relay, told>>

\* docker stop or kill of one node of the group: docker may refuse a frozen
\* node, and kill refuses one that does not run.
TakeDown(n) ==
    /\ power.pc = "down"
    /\ n \in power.left
    /\ \E o \in {"ok", "failed", "lost"} :
         /\ \/ CallEnds(o)
            \/ nodes[n].state # "running" /\ o = "failed" /\ UNCHANGED used
         /\ nodes' = IF Effect(o) THEN [nodes EXCEPT ![n] = Stopped] ELSE nodes
         /\ power' = [power EXCEPT !.left = @ \ {n},
                                   !.good = IF o = "ok" THEN @ \cup {n} ELSE @]
    /\ UNCHANGED <<records, dns, relay, told>>

\* The group goes on with the nodes it took down.
DownOver ==
    /\ power.pc = "down"
    /\ power.left = {}
    /\ IF power.good = {}
         THEN GroupEnds(TRUE)
         ELSE /\ power' = [power EXCEPT !.pc = "mesh", !.left = power.good, !.good = {},
                                        !.err = power.good # power.group]
              /\ UNCHANGED told
    /\ UNCHANGED <<nodes, records, dns, relay, used>>

\* DNS before the relay: a failure in between leaves the relay stopped.
StartMesh ==
    /\ power.pc = "mesh"
    /\ \E o \in {"ok", "failed", "lost"} :
         /\ CallEnds(o)
         /\ dns' = IF Effect(o) /\ dns = "exited" THEN "running" ELSE dns
         /\ relay' = IF o = "ok" /\ relay = "exited" THEN "running" ELSE relay
         /\ IF o = "ok" THEN /\ power' = [power EXCEPT !.pc = "start", !.hasDNS = dns # "none"]
                             /\ UNCHANGED told
                        ELSE GroupEnds(TRUE)
    /\ UNCHANGED <<nodes, records>>

Free == Addr \ {nodes[m].ip : m \in Node}

\* docker start: an address of its own for a stopped node, nothing for a
\* running one, an error for a frozen one.
StartNode(n) ==
    /\ power.pc = "start"
    /\ n \in power.left
    /\ \E o \in {"ok", "failed", "lost"} :
         /\ \/ nodes[n].state # "paused" /\ CallEnds(o)
            \/ nodes[n].state = "paused" /\ o = "failed" /\ UNCHANGED used
         /\ IF Effect(o) /\ nodes[n].state = "exited"
              THEN \E a \in Free : nodes' = [nodes EXCEPT ![n] = [state |-> "running", ip |-> a]]
              ELSE UNCHANGED nodes
         /\ power' = [power EXCEPT !.left = @ \ {n}, !.dropped = @ \ {n},
                                   !.good = IF o = "ok" THEN @ \cup {n} ELSE @]
    /\ UNCHANGED <<records, dns, relay, told>>

StartOver ==
    /\ power.pc = "start"
    /\ power.left = {}
    /\ LET err == power.err \/ power.good # power.group IN
       IF power.hasDNS
         THEN /\ power' = [power EXCEPT !.err = err,
                              !.pc = IF power.good = {} THEN "stack" ELSE "inspect"]
              /\ UNCHANGED told
         ELSE GroupEnds(err)
    /\ UNCHANGED <<nodes, records, dns, relay, used>>

\* The error is kept, and the monitoring stack is seen to all the same.
RefreshFails == power' = [power EXCEPT !.pc = "stack", !.err = TRUE]

InspectContainers ==
    /\ power.pc = "inspect"
    /\ \E o \in {"ok", "failed"} :
         /\ CallEnds(o)
         /\ IF o = "ok"
              THEN power' = [power EXCEPT !.pc = "records",
                       !.seen = [n \in Node |-> IF n \in power.good THEN nodes[n].ip ELSE None]]
              ELSE RefreshFails
    /\ UNCHANGED <<nodes, records, dns, relay, told>>

\* Mutant: the Corefile is left alone when it names the nodes already.
BugWithRecords(seen) ==
    [n \in Node |-> IF seen[n] # None /\ records[n] \notin Addr THEN seen[n] ELSE records[n]]

\* The entries after AddDNSRecords for what the inspection saw: a node
\* without an address was stopped meanwhile, and keeps its entry.
WithRecords(seen) ==
    [n \in Node |-> IF seen[n] # None THEN seen[n] ELSE records[n]]

\* Read, change, write and reload; nothing is written when nothing differs.
AddDNSRecords ==
    /\ power.pc = "records"
    /\ \E o \in {"ok", "failed", "lost"} :
         /\ CallEnds(o)
         /\ o = "lost" => WithRecords(power.seen) # records
         /\ records' = IF Effect(o) THEN WithRecords(power.seen) ELSE records
         /\ IF o = "ok" THEN power' = [power EXCEPT !.pc = "stack"] ELSE RefreshFails
    /\ UNCHANGED <<nodes, dns, relay, told>>

\* The monitoring stack of the realm, if it has one: module Monitoring.
StartMonitoring ==
    /\ power.pc = "stack"
    /\ \E o \in {"ok", "failed"} : CallEnds(o) /\ GroupEnds(o = "failed" \/ power.err)
    /\ UNCHANGED <<nodes, records, dns, relay>>

Ends ==
    /\ power.pc = "group"
    /\ power.todo = {}
    /\ power' = [power EXCEPT !.pc = "ended"]
    /\ UNCHANGED <<nodes, records, dns, relay, told, used>>

Returns ==
    /\ power.pc = "ended"
    /\ power' = NoPower
    /\ UNCHANGED <<nodes, records, dns, relay, told, used>>

Active == power.pc \notin {"idle", "ended"}
Unfinished == power.group \cup {n \in power.targets : clusterOf[n] \in power.todo}

Interrupt ==
    /\ Active /\ ~power.canceled /\ Fault
    /\ power' = [power EXCEPT !.canceled = TRUE]
    /\ UNCHANGED <<nodes, records, dns, relay, told>>

Kill ==
    /\ Active /\ Fault
    /\ power' = NoPower
    /\ told' = told \cup Unfinished
    /\ UNCHANGED <<nodes, records, dns, relay>>

Reboot ==
    /\ Fault
    /\ power' = NoPower
    /\ told' = told \cup Unfinished
    /\ nodes' = [n \in Node |-> Stopped]
    /\ dns' = IF dns = "none" THEN dns ELSE "exited"
    /\ relay' = IF relay = "none" THEN relay ELSE "exited"
    /\ UNCHANGED records

Next ==
    \/ \E op \in {"on", "restart"}, T \in (SUBSET Node) \ {{}} : Begin(op, T)
    \/ \E c \in {clusterOf[n] : n \in Node} : ResolveTargets(c)
    \/ \E n \in Node : \/ PowerShutdown(n) \/ PowerFreeze(n) \/ PowerUnfreeze(n)
                       \/ TakeDown(n) \/ StartNode(n)
    \/ DownOver \/ StartMesh \/ StartOver \/ InspectContainers \/ AddDNSRecords
    \/ StartMonitoring \/ Ends \/ Returns \/ Interrupt \/ Kill \/ Reboot

Spec == Init /\ [][Next]_vars

-----------------------------------------------------------------------------
(* Properties.                                                             *)

\* The name of every node that runs stands for its address, unless a command
\* is at work on the node, has reported an error for its cluster's nodes, or
\* was killed: no start of a node leaves its name at an address that Docker
\* may have given to another node, whatever is stopped or frozen meanwhile.
RecordsFollow ==
    dns # "none" =>
        \A n \in Node \ (told \cup power.group) : Up(n) => records[n] = nodes[n].ip

\* A command that reports no error has started the mesh and all its nodes,
\* of which only those that were stopped since are not up.
PowerDone ==
    power.pc = "ended" /\ ~power.failed =>
        /\ \A n \in power.targets \ power.dropped : Up(n)
        /\ dns # "exited" /\ relay # "exited"

\* Types, with an address for exactly the nodes that are up, each its own.
PowerState ==
    [ pc       : {"idle", "group", "down", "mesh", "start", "inspect", "records", "stack",
                  "ended"},
      op       : {"none", "on", "restart"},
      targets  : SUBSET Node,
      todo     : SUBSET {clusterOf[n] : n \in Node},
      group    : SUBSET Node,
      left     : SUBSET Node,
      good     : SUBSET Node,
      seen     : [Node -> Addr \cup {None}],
      err      : BOOLEAN,
      failed   : BOOLEAN,
      hasDNS   : BOOLEAN,
      canceled : BOOLEAN,
      dropped  : SUBSET Node ]

PowerTypeOK ==
    /\ nodes \in [Node -> [state : State, ip : Addr \cup {None}]]
    /\ \A n \in Node : Up(n) <=> nodes[n].ip \in Addr
    /\ \A m, n \in Node : m # n /\ Up(m) => nodes[m].ip # nodes[n].ip
    /\ records \in [Node -> Addr]
    /\ {dns, relay} \subseteq {"running", "exited", "none"}
    /\ power \in PowerState
    /\ power.good \cup power.left \subseteq power.group

\* A step of the command for the nodes of a cluster goes with them: it has
\* tried all but those that are left, and an error says whether it failed on
\* one.
Refreshing == {"inspect", "records", "stack"}
GroupInv ==
    /\ power.pc \in {"idle", "group", "ended"} => power.group = {}
    /\ power.pc = "mesh" => power.good = {}
    /\ power.left \cap power.good = {}
    /\ power.pc \in Refreshing /\ ~power.err => power.good = power.group
    /\ power.pc \in {"start"} \cup Refreshing => (power.hasDNS <=> dns # "none")

\* What the inspection saw of a node that is still up is its address, and so
\* are the entries that were written from it: only this command starts nodes.
SeenInv ==
    /\ power.pc = "records" =>
         \A n \in Node : IF n \in power.good THEN Up(n) => power.seen[n] = nodes[n].ip
                                            ELSE power.seen[n] = None
    /\ power.pc = "stack" /\ ~power.err =>
         \A n \in power.group : Up(n) => records[n] = nodes[n].ip

\* The nodes that were started are up, but for those stopped since, and the
\* mesh runs once a cluster's part got that far.
MeshUp == dns # "exited" /\ relay # "exited"
StartInv ==
    /\ power.pc \in {"start"} \cup Refreshing =>
         MeshUp /\ \A n \in power.good \ power.dropped : Up(n)
    /\ ~power.failed =>
         \A n \in power.targets \ (power.dropped \cup power.group) :
             clusterOf[n] \notin power.todo => Up(n)
    /\ power.pc = "group" /\ ~power.failed =>
         power.todo = {clusterOf[n] : n \in power.targets} \/ MeshUp
    /\ power.pc # "idle" => power.targets # {}
    /\ power.pc = "ended" => power.todo = {}

PowerInv == PowerTypeOK /\ GroupInv /\ SeenInv /\ StartInv /\ RecordsFollow /\ PowerDone

=============================================================================

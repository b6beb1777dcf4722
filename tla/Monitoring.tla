------------------------------ MODULE Monitoring ------------------------------
(***************************************************************************)
(* The monitoring stack of a realm (pkg/observability, and                 *)
(* pkg/cluster/monitoring.go): four containers on the mesh that collect    *)
(* the nodes of the monitored clusters.  Create and worker add bring it    *)
(* up, or recreate what another sind version made; deletes and rollbacks   *)
(* take nodes out of it, and remove it with its last cluster.  All hold    *)
(* the realm lock, so one command runs at a time.                          *)
(***************************************************************************)
EXTENDS Naturals

CONSTANTS
    Cluster,            \* the clusters of the realm
    Version,            \* sind versions, each with a stack of its own
    StartOrder,         \* the services, in the order they are started
    MaxMonFaults,       \* bound: calls that fail, Ctrl-C, kills and reboots
    MaxMonCommands      \* bound: commands

VARIABLES
    containers, \* node containers <<cluster, node, id>>; an id is never used again
    mounts,     \* those of them that mount the journal volume: the monitored ones
    netvols,    \* clusters with a network or volumes
    realmMesh,  \* whether the mesh exists
    service,    \* service -> its container: none, made or running; version; files
    volumes,    \* the stack's volumes
    journals,   \* the journal volume: <<cluster, node>> -> containers that wrote in it
    alloy,      \* Alloy's configuration file, and the configuration it runs with
    cmd,        \* the command that holds the lock
    ready,      \* clusters whose create reported success
    amiss,      \* services without their files or removed for another version
    spared,     \* nodes that a removal failed on
    behind,     \* a warning, an error or a kill says Alloy may be behind
    monUsed     \* what has been used up of the bounds

monVars == <<containers, mounts, netvols, realmMesh, service, volumes, journals,
             alloy, cmd, ready, amiss, spared, behind, monUsed>>
stackVars == <<service, volumes, journals, alloy, amiss>>
clusterVars == <<containers, mounts, netvols, realmMesh, spared>>

Service == {StartOrder[i] : i \in DOMAIN StartOrder}
NoService == [state |-> "none", version |-> 0, files |-> FALSE]
Exists(s) == service[s].state # "none"
Running(s) == service[s].state = "running"

Of(c) == {t \in containers : t[1] = c}
Others(c) == {t \in containers : t[1] # c}
Dirs(T) == {<<t[1], t[2]>> : t \in T}

NoCommand == [pc |-> "idle", op |-> "none", c |-> "none", mon |-> FALSE, version |-> 0,
              made |-> FALSE, claimed |-> FALSE, todo |-> {}, i |-> 1, copy |-> FALSE,
              exists |-> FALSE, stack |-> FALSE, conf |-> {}, canceled |-> FALSE,
              failed |-> FALSE, errs |-> FALSE, deregister |-> FALSE, forget |-> {},
              rmMesh |-> FALSE, rmStack |-> FALSE]

Init ==
    /\ containers = {} /\ mounts = {} /\ netvols = {} /\ realmMesh = FALSE
    /\ service = [s \in Service |-> NoService]
    /\ volumes = {} /\ journals = <<>>
    /\ alloy = [file |-> {}, runs |-> {}]
    /\ cmd = NoCommand
    /\ ready = {} /\ amiss = {} /\ spared = {} /\ behind = FALSE
    /\ monUsed = [faults |-> 0, commands |-> 0]

Fault == monUsed.faults < MaxMonFaults /\ monUsed' = [monUsed EXCEPT !.faults = @ + 1]

\* How a docker call of the command ends: ok, failed without its effect, or
\* with it.  After Ctrl-C, or once another branch failed, no call is made; a
\* rollback is not canceled.
Outcome == {"ok", "failed", "lost"}
Effect(o) == o \in {"ok", "lost"}
CallEnds(o) ==
    \/ o = "ok" /\ ~cmd.canceled /\ UNCHANGED monUsed
    \/ o = "failed" /\ cmd.canceled /\ UNCHANGED monUsed
    \/ o # "ok" /\ ~cmd.canceled /\ Fault

At(pc) == cmd.pc = pc
Goto(pc) == cmd' = [cmd EXCEPT !.pc = pc]

\* Where a command goes on after an error: a create or an add that made
\* something rolls it back, any other command ends.
Claims == cmd.claimed \/ cmd.made
Failed == [cmd EXCEPT !.failed = TRUE, !.canceled = FALSE, !.todo = {}, !.copy = FALSE,
                      !.pc = IF ~Claims THEN "ended"
                             ELSE IF cmd.op = "create" THEN "rollback" ELSE "containers"]
Step(o, pc) == cmd' = IF o = "ok" THEN [cmd EXCEPT !.pc = pc] ELSE Failed

-----------------------------------------------------------------------------
(* Create: the mesh, the checks, the resources and the nodes.              *)

Begin(op, c, mon, v) ==
    /\ At("idle")
    /\ monUsed.commands < MaxMonCommands
    /\ monUsed' = [monUsed EXCEPT !.commands = @ + 1]
    /\ cmd' = [NoCommand EXCEPT !.op = op, !.c = c, !.mon = mon, !.version = v,
                  !.pc = CASE op = "create" -> "mesh" [] op = "add" -> "ensure"
                           [] op = "remove" -> "list" [] op = "on" -> "fstart"
                           [] op = "delete" -> "others" [] op = "deleteAll" -> "names"]

BeginCreate(c, mon, v) == Begin("create", c, mon, v) /\ UNCHANGED <<clusterVars, stackVars, ready, behind>>

EnsureMesh ==
    /\ At("mesh")
    /\ realmMesh' = TRUE
    /\ cmd' = [cmd EXCEPT !.pc = "preflight", !.made = ~realmMesh]
    /\ UNCHANGED <<containers, mounts, netvols, spared, stackVars, ready, behind, monUsed>>

Taken(c) == Of(c) # {} \/ c \in netvols

Preflight ==
    /\ At("preflight")
    /\ \E o \in {"ok", "failed"} :
         /\ IF Taken(cmd.c) THEN o = "failed" /\ UNCHANGED monUsed ELSE CallEnds(o)
         /\ cmd' = IF o = "ok"
              THEN [cmd EXCEPT !.pc = "resources", !.claimed = TRUE,
                               !.todo = {"netvol"} \cup (IF cmd.mon THEN {"journal", "dirs"} ELSE {})]
              ELSE Failed
    /\ ready' = ready \ {cmd.c}
    /\ UNCHANGED <<clusterVars, stackVars, behind>>

\* A branch of the preparation ends; one that fails cancels the others, and
\* the command waits for them all.
Branch(b, o) ==
    /\ At("resources") /\ b \in cmd.todo
    /\ CallEnds(o)
    /\ cmd' = [cmd EXCEPT !.todo = IF o = "ok" THEN @ \ {b} ELSE @ \ {b, "dirs"},
                          !.canceled = @ \/ o # "ok"]

CreateNetworkAndVolumes ==
    /\ \E o \in Outcome : /\ Branch("netvol", o)
                          /\ netvols' = IF Effect(o) THEN netvols \cup {cmd.c} ELSE netvols
    /\ UNCHANGED <<containers, mounts, realmMesh, spared, stackVars, ready, behind>>

CreateJournalVolume ==
    /\ \E o \in Outcome : /\ Branch("journal", o)
                          /\ volumes' = IF Effect(o) THEN volumes \cup {"journal"} ELSE volumes
    /\ UNCHANGED <<clusterVars, service, journals, alloy, amiss, ready, behind>>

\* The directories without those of a cluster, and with empty ones.
Keep(D) == [d \in DOMAIN journals \ D |-> journals[d]]
Emptied(D) == [d \in DOMAIN journals \cup D |-> IF d \in D THEN {} ELSE journals[d]]
DirsOf(c) == {d \in DOMAIN journals : d[1] = c}
\* Mutant: the workers are forgotten.
BugNewDirs(c) == {c} \X {"controller"}
NewDirs(c) == {c} \X {"controller", "worker"}

\* The new cluster's directories, in the place of what an earlier one left.
ResetClusterJournals ==
    /\ "journal" \notin cmd.todo
    /\ \E o \in Outcome :
         /\ Branch("dirs", o)
         /\ journals' = IF Effect(o) THEN Emptied(NewDirs(cmd.c)) ELSE journals
    /\ UNCHANGED <<clusterVars, service, volumes, alloy, amiss, ready, behind>>

Prepared ==
    /\ At("resources") /\ cmd.todo = {}
    /\ cmd' = IF cmd.canceled THEN Failed ELSE [cmd EXCEPT !.pc = "nodes"]
    /\ UNCHANGED <<clusterVars, stackVars, ready, behind, monUsed>>

\* docker run of new nodes; a monitored one mounts its journal directory,
\* and its journald writes in it.
MakeNodes(T, o, next) ==
    \E new \in (IF o = "ok" THEN {T} ELSE SUBSET T) :
        /\ containers' = containers \cup new
        /\ mounts' = IF cmd.mon THEN mounts \cup new ELSE mounts
        /\ journals' = IF cmd.mon
             THEN [d \in DOMAIN journals |-> journals[d] \cup {t \in new : <<t[1], t[2]>> = d}]
             ELSE journals
        /\ Step(o, next)

CreateNodes ==
    /\ At("nodes")
    /\ \E names \in {{"controller"}, {"controller", "worker"}}, o \in {"ok", "failed"} :
         /\ CallEnds(o)
         /\ MakeNodes({<<cmd.c, n, monUsed.commands>> : n \in names}, o,
                      IF cmd.mon THEN "ensure" ELSE "done")
    /\ UNCHANGED <<netvols, realmMesh, spared, service, volumes, alloy, amiss, ready, behind>>

\* Ctrl-C, or a branch beside ensureMonitoring fails: registering the nodes,
\* enabling Slurm, the accounts, the homes.
Canceled ==
    /\ cmd.op \in {"create", "add", "on"} /\ ~cmd.failed /\ ~cmd.canceled
    /\ cmd.pc \notin {"idle", "ended", "mesh"}
    /\ Fault
    /\ cmd' = [cmd EXCEPT !.canceled = TRUE]
    /\ UNCHANGED <<clusterVars, stackVars, ready, behind>>

-----------------------------------------------------------------------------
(* ensureMonitoring and Manager.EnsureStack                                *)

\* The nodes that a configuration of Alloy names: all that mount the volume.
MonitoringTargets == mounts

\* Whether Alloy exists, and what its configuration will name.
EnsureMonitoring ==
    /\ At("ensure")
    /\ \E o \in {"ok", "failed"} :
         /\ CallEnds(o)
         /\ cmd' = IF o = "ok" THEN [cmd EXCEPT !.pc = "volumes", !.exists = Exists("alloy"),
                                                !.conf = MonitoringTargets, !.i = 1]
                               ELSE Failed
    /\ UNCHANGED <<clusterVars, stackVars, ready, behind>>

\* From here on an error tells whether the stack is this command's.
StackFailed == [Failed EXCEPT !.stack = ~cmd.exists]
StackStep(o, next) == cmd' = IF o = "ok" THEN next ELSE StackFailed

CreateVolumes ==
    /\ At("volumes")
    /\ \E o \in {"ok", "failed"} :
         /\ CallEnds(o)
         /\ volumes' \in (IF o = "ok" THEN {volumes \cup Service}
                                      ELSE {volumes \cup V : V \in SUBSET Service})
         /\ StackStep(o, [cmd EXCEPT !.pc = "services"])
    /\ UNCHANGED <<clusterVars, service, journals, alloy, amiss, ready, behind>>

This == StartOrder[cmd.i]
AtService == At("services") /\ cmd.i \in DOMAIN StartOrder
SetService(s, r) ==
    /\ service' = [service EXCEPT ![s] = r]
    /\ alloy' = IF s # "alloy" THEN alloy
                ELSE [file |-> IF r.files THEN alloy.file ELSE {},
                      runs |-> IF r.state = "running" THEN alloy.file ELSE {}]

Outdated(s) == Exists(s) /\ service[s].version # cmd.version

RemoveOutdated ==
    /\ AtService /\ ~cmd.copy /\ Outdated(This)
    /\ \E o \in Outcome :
         /\ CallEnds(o)
         /\ IF Effect(o) THEN SetService(This, NoService) /\ amiss' = amiss \cup {This}
                         ELSE UNCHANGED <<service, alloy, amiss>>
         /\ StackStep(o, cmd)
    /\ UNCHANGED <<clusterVars, volumes, journals, ready, behind>>

CreateContainer ==
    /\ AtService /\ ~Exists(This)
    /\ \E o \in Outcome :
         /\ CallEnds(o)
         /\ IF Effect(o)
              THEN /\ SetService(This, [state |-> "made", version |-> cmd.version, files |-> FALSE])
                   /\ amiss' = amiss \cup {This}
              ELSE UNCHANGED <<service, alloy, amiss>>
         /\ StackStep(o, [cmd EXCEPT !.copy = TRUE])
    /\ UNCHANGED <<clusterVars, volumes, journals, ready, behind>>

\* The files of a container are copied by the command that made it, and by no
\* other.
CopyFiles ==
    /\ AtService /\ cmd.copy
    /\ \E o \in Outcome :
         /\ CallEnds(o)
         /\ IF Effect(o)
              THEN /\ service' = [service EXCEPT ![This].files = TRUE]
                   /\ alloy' = IF This = "alloy" THEN [alloy EXCEPT !.file = cmd.conf] ELSE alloy
                   /\ amiss' = amiss \ {This}
              ELSE UNCHANGED <<service, alloy, amiss>>
         /\ StackStep(o, [cmd EXCEPT !.copy = FALSE])
    /\ UNCHANGED <<clusterVars, volumes, journals, ready, behind>>

\* A service without its files exits as soon as it is started.
Started(s) == IF service[s].files THEN [service[s] EXCEPT !.state = "running"] ELSE service[s]

StartContainer ==
    /\ AtService /\ ~cmd.copy /\ Exists(This) /\ ~Outdated(This)
    /\ IF Running(This)
         THEN cmd' = [cmd EXCEPT !.i = @ + 1] /\ UNCHANGED <<service, alloy, monUsed>>
         ELSE \E o \in Outcome :
                /\ CallEnds(o)
                /\ IF Effect(o) THEN SetService(This, Started(This)) ELSE UNCHANGED <<service, alloy>>
                /\ StackStep(o, [cmd EXCEPT !.i = @ + 1])
    /\ UNCHANGED <<clusterVars, volumes, journals, amiss, ready, behind>>

AllRun == \A s \in Service : Running(s)

WaitReady ==
    /\ At("services") /\ cmd.i \notin DOMAIN StartOrder
    /\ \E o \in {"ok", "failed"} :
         /\ IF AllRun THEN CallEnds(o) ELSE o = "failed" /\ UNCHANGED monUsed
         /\ StackStep(o, [cmd EXCEPT !.pc = "sync"])
    /\ UNCHANGED <<clusterVars, stackVars, ready, behind>>

\* Manager.Sync: the file is copied, then Alloy reloads it.
Synced(o, conf) ==
    /\ alloy' = CASE o \in {"ok", "lost"} -> [file |-> conf, runs |-> conf]
                  [] o = "copied" -> [alloy EXCEPT !.file = conf]
                  [] o = "failed" -> alloy
SyncOutcome == Outcome \cup {"copied"}

Sync ==
    /\ At("sync")
    /\ \E o \in SyncOutcome :
         /\ CallEnds(o)
         /\ Synced(o, cmd.conf)
         /\ StackStep(o, [cmd EXCEPT !.pc = "dns", !.stack = ~cmd.exists])
         /\ behind' = (behind /\ o # "ok")
    /\ UNCHANGED <<clusterVars, service, volumes, journals, amiss, ready>>

RegisterStackDNS ==
    /\ At("dns")
    /\ \E o \in {"ok", "failed"} :
         /\ CallEnds(o)
         /\ Step(o, IF cmd.op = "add" THEN "reset" ELSE "done")
    /\ UNCHANGED <<clusterVars, stackVars, ready, behind>>

Done ==
    /\ At("done")
    /\ cmd' = IF cmd.canceled THEN Failed ELSE [cmd EXCEPT !.pc = "ended"]
    /\ ready' = IF cmd.op = "create" /\ ~cmd.canceled THEN ready \cup {cmd.c} ELSE ready
    /\ UNCHANGED <<clusterVars, stackVars, behind, monUsed>>

-----------------------------------------------------------------------------
(* sind create worker on a monitored cluster                               *)

HasMonitoredController(c) == \E t \in mounts : t[1] = c /\ t[2] = "controller"
HasWorker(c) == \E t \in Of(c) : t[2] = "worker"

BeginAdd(c, v) ==
    /\ HasMonitoredController(c) /\ ~HasWorker(c) /\ realmMesh
    /\ Begin("add", c, TRUE, v)
    /\ UNCHANGED <<clusterVars, stackVars, ready, behind>>

\* In the Alloy container, before the worker's container mounts its directory.
ResetJournals ==
    /\ At("reset")
    /\ \E o \in Outcome :
         /\ CallEnds(o)
         /\ journals' = IF Effect(o) THEN Emptied({<<cmd.c, "worker">>}) ELSE journals
         /\ cmd' = IF o = "ok" THEN [cmd EXCEPT !.pc = "worker", !.claimed = TRUE] ELSE Failed
    /\ UNCHANGED <<clusterVars, service, volumes, alloy, amiss, ready, behind>>

CreateWorker ==
    /\ At("worker")
    /\ \E o \in {"ok", "failed"} :
         CallEnds(o) /\ MakeNodes({<<cmd.c, "worker", monUsed.commands>>}, o, "async")
    /\ UNCHANGED <<netvols, realmMesh, spared, service, volumes, alloy, amiss, ready, behind>>

SyncMonitoring ==
    /\ At("async")
    /\ \E o \in SyncOutcome :
         /\ CallEnds(o)
         /\ Synced(o, MonitoringTargets)
         /\ Step(o, "done")
         /\ behind' = (behind /\ o # "ok")
    /\ UNCHANGED <<clusterVars, service, volumes, journals, amiss, ready>>

-----------------------------------------------------------------------------
(* Removing nodes and clusters, and the rollback of a create.              *)

BeginRemove(c) ==
    /\ HasWorker(c)
    /\ Begin("remove", c, FALSE, 0)
    /\ UNCHANGED <<clusterVars, stackVars, ready, behind>>

BeginDelete(c) == Begin("delete", c, FALSE, 0) /\ UNCHANGED <<clusterVars, stackVars, ready, behind>>

\* Whether another cluster remains is settled first, and with it whether the
\* mesh, and the stack with it, go too.
HasOtherClusters ==
    /\ At("others")
    /\ \E o \in {"ok", "failed"} :
         /\ CallEnds(o)
         /\ cmd' = IF o = "ok" THEN [cmd EXCEPT !.pc = "list", !.deregister = Others(cmd.c) # {},
                                       !.rmMesh = Others(cmd.c) = {}, !.rmStack = Others(cmd.c) = {}]
                               ELSE Failed
    /\ UNCHANGED <<clusterVars, stackVars, ready, behind>>

\* The mesh goes when this create made it and no other cluster uses it; when
\* that cannot be told it stays.
RollbackRemovesMesh ==
    /\ At("rollback")
    /\ \E o \in {"ok", "failed"} :
         LET others == IF cmd.claimed THEN Others(cmd.c) ELSE containers
             mesh == cmd.made /\ o = "ok" /\ others = {} IN
         /\ IF o = "ok" THEN UNCHANGED monUsed ELSE cmd.made /\ Fault
         /\ cmd' = [cmd EXCEPT !.rmMesh = mesh, !.deregister = ~mesh,
                               !.pc = IF cmd.claimed THEN "list" ELSE "keep"]
    /\ UNCHANGED <<clusterVars, stackVars, ready, behind>>

\* Where a command goes once the resources of its cluster are dealt with.
AfterResources(err) ==
    LET c == [cmd EXCEPT !.errs = @ \/ err, !.failed = @ \/ err, !.forget = {}] IN
    CASE cmd.op = "create" -> [c EXCEPT !.pc = "keep"]
      [] cmd.op = "delete" /\ ~err /\ cmd.rmMesh -> [c EXCEPT !.pc = "rmStack"]
      [] OTHER -> [c EXCEPT !.pc = "ended"]

\* The resources, and which nodes the stack collects: told by their
\* containers, so before they go.
ListResources ==
    /\ At("list")
    /\ \E o \in {"ok", "failed"} :
         /\ CallEnds(o)
         /\ cmd' = IF o = "failed" THEN AfterResources(TRUE)
              ELSE IF cmd.op # "remove" /\ ~Taken(cmd.c) THEN AfterResources(FALSE)
              ELSE [cmd EXCEPT !.pc = "containers",
                      !.forget = IF ~cmd.deregister /\ cmd.op # "remove" THEN {}
                                 ELSE {t \in mounts : t[1] = cmd.c
                                                      /\ (cmd.op = "remove" => t[2] = "worker")}]
    /\ UNCHANGED <<clusterVars, stackVars, ready, behind>>

Targets == IF cmd.op \in {"add", "remove"} THEN {t \in Of(cmd.c) : t[2] = "worker"} ELSE Of(cmd.c)

\* The nodes' containers: every one is tried.  The rollback of an add forgets
\* its workers whatever comes of it.
DeleteContainers ==
    /\ At("containers")
    /\ \E o \in {"ok", "failed"}, stay \in SUBSET Targets :
         /\ CallEnds(o)
         /\ o = "ok" => stay = {}
         /\ containers' = containers \ (Targets \ stay)
         /\ mounts' = mounts \ (Targets \ stay)
         /\ spared' = IF o = "ok" THEN spared ELSE spared \cup stay
         /\ cmd' = IF cmd.op = "add"
                THEN [cmd EXCEPT !.pc = "fstart", !.errs = o # "ok", !.forget = {<<cmd.c, "worker">>}]
              ELSE IF o = "failed" THEN AfterResources(TRUE)
              ELSE IF cmd.op # "remove" THEN [cmd EXCEPT !.pc = "netvol"]
              ELSE IF cmd.forget = {} THEN AfterResources(FALSE)
              ELSE [cmd EXCEPT !.pc = "fstart", !.forget = Dirs(cmd.forget)]
    /\ UNCHANGED <<netvols, realmMesh, stackVars, ready, behind>>

DeleteNetworkAndVolumes ==
    /\ At("netvol")
    /\ \E o \in Outcome :
         /\ CallEnds(o)
         /\ netvols' = IF Effect(o) THEN netvols \ {cmd.c} ELSE netvols
         /\ cmd' = IF o # "ok" THEN AfterResources(TRUE)
              ELSE IF cmd.forget = {} THEN AfterResources(FALSE)
              ELSE [cmd EXCEPT !.pc = "fstart", !.forget = DirsOf(cmd.c)]
    /\ UNCHANGED <<containers, mounts, realmMesh, spared, stackVars, ready, behind>>

-----------------------------------------------------------------------------
(* forgetMonitoredNodes, and startMonitoring, which sind power on runs too.*)

BeginPowerOn == Begin("on", "none", FALSE, 0) /\ realmMesh
                /\ UNCHANGED <<clusterVars, stackVars, ready, behind>>

\* The failures of forgetMonitoredNodes are only warnings.
Warned ==
    /\ behind' = TRUE
    /\ cmd' = IF cmd.op = "on" THEN [cmd EXCEPT !.pc = "ended", !.failed = TRUE]
                               ELSE AfterResources(FALSE)

\* Manager.Start: the services that exist are started in order; without any
\* there is no stack, and one that lacks a service cannot get ready.
StartStack ==
    /\ At("fstart")
    /\ \E o \in {"ok", "failed"}, n \in {0} \cup DOMAIN StartOrder :
         LET up == {s \in Service : Exists(s) /\ \E i \in 1 .. n : StartOrder[i] = s}
             after == [s \in Service |-> IF s \in up THEN Started(s) ELSE service[s]]
             whole == \A s \in Service : after[s].state = "running" IN
         /\ CallEnds(o)
         /\ o = "ok" => \A s \in Service : Exists(s) => s \in up
         /\ service' = after
         /\ alloy' = IF after["alloy"].state = "running" /\ ~Running("alloy")
                       THEN [alloy EXCEPT !.runs = alloy.file] ELSE alloy
         /\ IF o = "ok" /\ \A s \in Service : ~Exists(s)
              THEN cmd' = AfterResources(FALSE) /\ UNCHANGED behind
            ELSE IF o = "ok" /\ whole
              THEN /\ cmd' = [cmd EXCEPT !.pc = IF cmd.op = "on" THEN "ended" ELSE "fsync"]
                   /\ UNCHANGED behind
            ELSE Warned
    /\ UNCHANGED <<clusterVars, volumes, journals, amiss, ready>>

ForgetSync ==
    /\ At("fsync")
    /\ \E o \in SyncOutcome :
         /\ CallEnds(o)
         /\ Synced(o, MonitoringTargets)
         /\ IF o # "ok" THEN Warned
            ELSE /\ behind' = FALSE
                 /\ cmd' = IF cmd.forget = {} THEN AfterResources(FALSE)
                                              ELSE [cmd EXCEPT !.pc = "fjournals"]
    /\ UNCHANGED <<clusterVars, service, volumes, journals, amiss, ready>>

RemoveJournals ==
    /\ At("fjournals")
    /\ \E o \in Outcome :
         /\ CallEnds(o)
         /\ journals' = IF Effect(o) THEN Keep(cmd.forget) ELSE journals
         /\ cmd' = AfterResources(FALSE)
    /\ UNCHANGED <<clusterVars, service, volumes, alloy, amiss, ready, behind>>

-----------------------------------------------------------------------------
(* The end of the stack: cleanupRealm, and the rollback of a create.        *)

OtherMonitored == \E t \in mounts : t[1] # cmd.c

\* A rollback keeps the stack it made when another cluster is monitored, or
\* when that cannot be told.
RollbackKeepsStack ==
    /\ At("keep")
    /\ \E o \in {"ok", "failed"} :
         LET rm == cmd.rmMesh \/ (cmd.stack /\ o = "ok" /\ ~OtherMonitored) IN
         /\ IF o = "ok" THEN UNCHANGED monUsed ELSE cmd.stack /\ ~cmd.rmMesh /\ Fault
         /\ cmd' = [cmd EXCEPT !.rmStack = rm, !.pc = IF rm THEN "rmStack" ELSE "ended"]
    /\ UNCHANGED <<clusterVars, stackVars, ready, behind>>

\* cleanupRealm stops at its first error; a rollback goes on.
Cleaned(o, pc) ==
    cmd' = IF o # "ok" /\ cmd.op # "create"
             THEN [cmd EXCEPT !.pc = "ended", !.failed = TRUE, !.errs = TRUE]
             ELSE [cmd EXCEPT !.pc = pc, !.errs = @ \/ o # "ok"]

RemoveStack ==
    /\ At("rmStack")
    /\ \E o \in {"ok", "failed"}, stay \in SUBSET Service :
         /\ CallEnds(o)
         /\ o = "ok" => stay = {}
         /\ service' = [s \in Service |-> IF s \in stay THEN service[s] ELSE NoService]
         /\ alloy' = IF "alloy" \in stay THEN alloy ELSE [file |-> {}, runs |-> {}]
         /\ amiss' = amiss \cap stay
         /\ behind' = (o # "ok")
         /\ Cleaned(o, IF cmd.rmMesh THEN "rmMesh" ELSE "rmVolumes")
    /\ UNCHANGED <<clusterVars, volumes, journals, ready>>

CleanupMesh ==
    /\ At("rmMesh")
    /\ \E o \in Outcome :
         /\ CallEnds(o)
         /\ realmMesh' = (realmMesh /\ ~Effect(o))
         /\ Cleaned(o, "rmVolumes")
    /\ UNCHANGED <<containers, mounts, netvols, spared, stackVars, ready, behind>>

\* Docker removes no volume that a container mounts.
InUse(v) == IF v = "journal" THEN mounts # {} \/ Exists("alloy") ELSE Exists(v)

RemoveVolumes ==
    /\ At("rmVolumes")
    /\ \E o \in {"ok", "failed"}, V \in SUBSET volumes :
         LET stuck == {v \in volumes : InUse(v)} IN
         /\ IF stuck = {} THEN CallEnds(o) ELSE o = "failed" /\ UNCHANGED monUsed
         /\ o = "ok" => V = {}
         /\ stuck \subseteq V
         /\ volumes' = V
         /\ journals' = IF "journal" \in V THEN journals ELSE <<>>
         /\ Cleaned(o, "ended")
    /\ UNCHANGED <<clusterVars, service, alloy, amiss, ready, behind>>

-----------------------------------------------------------------------------
(* sind delete --all: the clusters one by one, then the realm.              *)

BeginDeleteAll == Begin("deleteAll", "none", FALSE, 0) /\ UNCHANGED <<clusterVars, stackVars, ready, behind>>

RealmClusterNames ==
    /\ At("names")
    /\ \E o \in {"ok", "failed"} :
         /\ CallEnds(o)
         /\ cmd' = IF o = "ok" THEN [cmd EXCEPT !.pc = "all", !.todo = {c \in Cluster : Taken(c)}] ELSE Failed
    /\ UNCHANGED <<clusterVars, stackVars, ready, behind>>

DeleteOne(c) ==
    /\ At("all") /\ c \in cmd.todo
    /\ \E o \in {"ok", "failed"}, stay \in SUBSET Of(c) :
         /\ CallEnds(o)
         /\ o = "ok" => stay = {}
         /\ containers' = (containers \ Of(c)) \cup stay
         /\ mounts' = mounts \ (Of(c) \ stay)
         /\ netvols' \in (IF o = "ok" THEN {netvols \ {c}} ELSE {netvols})
         /\ cmd' = [cmd EXCEPT !.todo = @ \ {c}, !.failed = @ \/ o # "ok"]
    /\ UNCHANGED <<realmMesh, spared, stackVars, ready, behind>>

AllDeleted ==
    /\ At("all") /\ cmd.todo = {}
    /\ cmd' = IF cmd.failed THEN [cmd EXCEPT !.pc = "fstart"]
                            ELSE [cmd EXCEPT !.pc = "rmStack", !.rmMesh = TRUE]
    /\ UNCHANGED <<clusterVars, stackVars, ready, behind, monUsed>>

-----------------------------------------------------------------------------
(* The end of a command, and the faults.                                   *)

\* An error leaves Alloy as it was: it may be behind if nodes came or went.
Returns ==
    /\ At("ended")
    /\ behind' = (behind \/ cmd.errs \/ (cmd.failed /\ cmd.op = "delete"))
    /\ cmd' = NoCommand
    /\ UNCHANGED <<clusterVars, stackVars, ready, monUsed>>

Kill ==
    /\ cmd.pc \notin {"idle", "ended"}
    /\ Fault
    /\ cmd' = NoCommand
    /\ behind' = TRUE
    /\ UNCHANGED <<clusterVars, stackVars, ready>>

Reboot ==
    /\ \E s \in Service : Running(s)
    /\ Fault
    /\ service' = [s \in Service |-> IF Exists(s) THEN [service[s] EXCEPT !.state = "made"] ELSE service[s]]
    /\ alloy' = [alloy EXCEPT !.runs = {}]
    /\ behind' = (behind \/ cmd.pc \notin {"idle", "ended"})
    /\ cmd' = IF cmd.pc = "ended" THEN cmd ELSE NoCommand
    /\ UNCHANGED <<clusterVars, volumes, journals, amiss, ready>>

Next ==
    \/ \E c \in Cluster, v \in Version, mon \in BOOLEAN : BeginCreate(c, mon, v)
    \/ \E c \in Cluster, v \in Version : BeginAdd(c, v)
    \/ \E c \in Cluster : BeginRemove(c) \/ BeginDelete(c) \/ DeleteOne(c)
    \/ BeginPowerOn \/ BeginDeleteAll
    \/ EnsureMesh \/ Preflight \/ CreateNetworkAndVolumes \/ CreateJournalVolume
    \/ ResetClusterJournals \/ Prepared \/ CreateNodes \/ Canceled
    \/ EnsureMonitoring \/ CreateVolumes \/ RemoveOutdated \/ CreateContainer \/ CopyFiles
    \/ StartContainer \/ WaitReady \/ Sync \/ RegisterStackDNS \/ Done
    \/ ResetJournals \/ CreateWorker \/ SyncMonitoring
    \/ HasOtherClusters \/ RollbackRemovesMesh \/ ListResources \/ DeleteContainers
    \/ DeleteNetworkAndVolumes \/ StartStack \/ ForgetSync \/ RemoveJournals
    \/ RollbackKeepsStack \/ RemoveStack \/ CleanupMesh \/ RemoveVolumes
    \/ RealmClusterNames \/ AllDeleted \/ Returns \/ Kill \/ Reboot

Spec == Init /\ [][Next]_monVars

-----------------------------------------------------------------------------
(* Properties.                                                             *)

\* A node's journal directory exists for as long as the node does, and holds
\* the journal of no earlier node of its name, however that one went; only a
\* node that a rollback failed to remove may have lost it.
OwnJournal == \A t \in mounts \ spared : <<t[1], t[2]>> \in DOMAIN journals
                                /\ journals[<<t[1], t[2]>>] = {t}

\* No delete and no rollback of one cluster takes the stack from another one
\* that is monitored.
StackStays ==
    (\E c \in ready : HasMonitoredController(c)) => \A s \in Service \ amiss : Exists(s)

\* A monitored create or an add that reports success leaves the whole stack of
\* its sind version running, with every monitored node in Alloy.
StackComplete ==
    At("ended") /\ cmd.mon /\ ~cmd.failed =>
        /\ \A s \in Service : Exists(s) /\ service[s].version = cmd.version /\ service[s].files
        /\ AllRun => alloy.runs = mounts

\* Between commands Alloy collects the monitored nodes that there are, and no
\* others, unless a warning or an error said otherwise or a command was killed.
Collected == At("idle") /\ ~behind /\ Running("alloy") => alloy.runs = mounts

\* The delete of the last cluster that reports success leaves nothing of the
\* stack and no journal.
NothingLeft ==
    At("ended") /\ cmd.op \in {"delete", "deleteAll"} /\ cmd.rmMesh /\ ~cmd.failed =>
        volumes = {} /\ journals = <<>> /\ ~realmMesh /\ \A s \in Service : ~Exists(s)

-----------------------------------------------------------------------------
(* The inductive invariant: the properties above, and what each phase of a *)
(* command has established for the next ones.                              *)

\* The commands, and their phases.
Ops == {"none", "create", "add", "remove", "delete", "deleteAll", "on"}
Making == {"mesh", "preflight", "resources", "nodes"}
Ensuring == {"ensure", "volumes", "services", "sync", "dns"}
Adding == {"reset", "worker", "async"}
Forgetting == {"fstart", "fsync", "fjournals"}
Cleaning == {"rmStack", "rmMesh", "rmVolumes"}
Undoing == {"rollback", "list", "containers", "netvol", "keep"} \cup Forgetting \cup Cleaning
Phases == {"idle", "done", "others", "names", "all", "ended"}
             \cup Making \cup Ensuring \cup Adding \cup Undoing

\* The nodes there can be, and the directories of their journals.
Kinds == {"controller", "worker"}
Nodes == Cluster \X Kinds \X Nat
Places == Cluster \X Kinds

\* The states of a command.
Command ==
    [pc : Phases, op : Ops, c : Cluster \cup {"none"}, mon : BOOLEAN, version : Version \cup {0},
     made : BOOLEAN, claimed : BOOLEAN, todo : SUBSET (Cluster \cup {"netvol", "journal", "dirs"}),
     i : Nat \ {0}, copy : BOOLEAN, exists : BOOLEAN, stack : BOOLEAN, conf : SUBSET Nodes,
     canceled : BOOLEAN, failed : BOOLEAN, errs : BOOLEAN, deregister : BOOLEAN,
     forget : SUBSET (Nodes \cup Places), rmMesh : BOOLEAN, rmStack : BOOLEAN]

\* The variables' types.  A monitored node is a node container.
MonitoringTypeOK ==
    /\ containers \subseteq Nodes /\ mounts \subseteq containers
    /\ netvols \subseteq Cluster /\ realmMesh \in BOOLEAN
    /\ service \in [Service -> [state : {"none", "made", "running"},
                                version : Version \cup {0}, files : BOOLEAN]]
    /\ volumes \subseteq Service \cup {"journal"}
    /\ journals \in [DOMAIN journals -> SUBSET Nodes] /\ DOMAIN journals \subseteq Places
    /\ alloy \in [file : SUBSET Nodes, runs : SUBSET Nodes]
    /\ cmd \in Command
    /\ ready \subseteq Cluster /\ amiss \subseteq Service /\ behind \in BOOLEAN
    /\ monUsed \in [faults : Nat, commands : Nat]

\* The phases of each command.  Only a monitored create and an add bring the
\* stack up, and they reach the phases that undo only when they failed; a
\* command removes the mesh only after it counted the other clusters.
PhaseInv ==
    /\ At("idle") => cmd = NoCommand
    /\ cmd.pc \in Making \cup {"rollback", "keep"} => cmd.op = "create"
    /\ cmd.pc \in Ensuring => cmd.op \in {"create", "add"} /\ cmd.mon
    /\ cmd.pc \in Adding => cmd.op = "add"
    /\ cmd.op = "add" => cmd.mon
    /\ At("done") => cmd.op \in {"create", "add"}
    /\ At("others") => cmd.op = "delete"
    /\ cmd.pc \in {"names", "all"} => cmd.op = "deleteAll"
    /\ At("list") => cmd.op \in {"create", "delete", "remove"}
    /\ At("containers") => cmd.op \in {"create", "delete", "remove", "add"}
    /\ At("netvol") => cmd.op \in {"create", "delete"}
    /\ cmd.pc \in {"fsync", "fjournals"} => cmd.op # "on"
    /\ cmd.pc \in Cleaning => cmd.op \in {"create", "delete", "deleteAll"}
    /\ cmd.mon => cmd.op \in {"create", "add"}
    /\ cmd.op \in {"create", "add", "remove", "delete"} => cmd.c \in Cluster
    /\ cmd.claimed \/ cmd.made => cmd.op \in {"create", "add"}
    /\ cmd.op = "create" /\ (cmd.pc \in {"resources", "nodes", "done"} \cup Ensuring \/ cmd.stack) => cmd.claimed
    /\ cmd.op \in {"create", "add"} /\ cmd.pc \in Undoing => cmd.failed
    /\ cmd.op = "deleteAll" /\ cmd.pc \in Forgetting => cmd.failed
    /\ cmd.rmMesh => cmd.pc \in (Undoing \ {"rollback"}) \cup {"ended"}
    /\ At("volumes") => cmd.i = 1
    /\ cmd.pc \in {"worker", "async"} => cmd.claimed
    /\ cmd.op = "deleteAll" => cmd.forget = {}

\* A cluster's monitored nodes, and the workers among nodes.
MountsOf(c) == {t \in mounts : t[1] = c}
WorkersOf(T) == {t \in T : t[2] = "worker"}

\* The nodes of the command's cluster.  There are none while a create makes its
\* resources, and no workers while an add prepares its own; what a removal will
\* have Alloy and the journals forget are the nodes it is about to remove; and
\* the stack is taken only once no monitored node of another cluster is left.
NodesInv ==
    /\ cmd.pc \in {"resources", "nodes", "netvol"} => Of(cmd.c) = {}
    /\ At("done") /\ cmd.op = "create" /\ ~cmd.mon => MountsOf(cmd.c) = {}
    /\ cmd.op = "create" /\ cmd.claimed /\ ~At("ended") => cmd.c \notin ready
    /\ cmd.op = "add" /\ cmd.pc \in Ensuring \cup {"reset", "worker"} => WorkersOf(Of(cmd.c)) = {}
    /\ cmd.pc \in {"containers", "netvol"} /\ cmd.op \in {"create", "delete"} /\ cmd.rmMesh => cmd.forget = {}
    /\ At("containers") /\ cmd.op \in {"create", "delete"} /\ ~cmd.rmMesh => cmd.forget = MountsOf(cmd.c)
    /\ At("containers") /\ cmd.op = "remove" => cmd.forget = WorkersOf(MountsOf(cmd.c))
    /\ At("list") /\ cmd.op \in {"create", "delete"} => cmd.deregister = ~cmd.rmMesh
    /\ cmd.op \in {"create", "delete"} /\ cmd.pc \in Undoing /\ cmd.rmMesh =>
         IF cmd.claimed \/ cmd.op = "delete" THEN Others(cmd.c) = {} ELSE containers = {}
    /\ cmd.op = "delete" /\ cmd.pc \in Forgetting => ~cmd.rmMesh
    /\ At("all") /\ ~cmd.failed => \A t \in containers : t[1] \in cmd.todo
    /\ cmd.pc \in Cleaning => IF cmd.op = "create" THEN \A t \in mounts : cmd.claimed /\ t[1] = cmd.c
                              ELSE containers = {}

\* A directory that a container to come may write its journal in.
Fresh(d) == d \in DOMAIN journals /\ journals[d] = {}

\* The journals.  The volume is there before the first node mounts it and until
\* the last one is gone; the directories of the nodes to come are empty before
\* their containers are made; and a directory that a command is to remove
\* belongs to no monitored node but one that a removal failed on.
JournalInv ==
    /\ mounts # {} => "journal" \in volumes
    /\ At("resources") /\ cmd.mon /\ ~cmd.canceled =>
         /\ "journal" \notin cmd.todo => "journal" \in volumes
         /\ "dirs" \notin cmd.todo => \A d \in NewDirs(cmd.c) : Fresh(d)
    /\ At("nodes") /\ cmd.mon => "journal" \in volumes /\ \A d \in NewDirs(cmd.c) : Fresh(d)
    /\ cmd.op = "add" /\ cmd.pc \in Ensuring \cup {"reset", "worker"} => "journal" \in volumes
    /\ At("worker") => Fresh(<<cmd.c, "worker">>)
    /\ cmd.pc \in Forgetting => \A t \in mounts \ spared : <<t[1], t[2]>> \notin cmd.forget

\* A service of the command's own version.
Current(s) == Exists(s) /\ service[s].version = cmd.version

\* The services.  None runs without its files; those that the command has been
\* through are of its version, and all of them run before it registers names or
\* makes a worker; nothing of the stack is left when the mesh is removed.
ServicesInv ==
    /\ \A s \in Service : /\ service[s].files => Exists(s)
                          /\ Running(s) => service[s].files
    /\ cmd.copy => AtService /\ Current(This)
    /\ At("services") => \A j \in DOMAIN StartOrder : j < cmd.i => Current(StartOrder[j])
    /\ cmd.pc \in {"sync", "dns"} \cup Adding \/ (At("done") /\ cmd.mon) =>
         \A s \in Service : Current(s) /\ Running(s)
    /\ At("fsync") => AllRun
    /\ cmd.pc \in {"rmMesh", "rmVolumes"} /\ cmd.op # "create" =>
         /\ \A s \in Service : ~Exists(s)
         /\ At("rmVolumes") /\ cmd.rmMesh => ~realmMesh

\* Alloy knows the monitored nodes, as it runs and when it is started, or
\* somebody was told that it may not.
Follows ==
    ~behind => /\ service["alloy"].files => alloy.file = mounts
               /\ Running("alloy") => alloy.runs = mounts

\* Alloy's configuration.  It names the monitored nodes whenever no command is
\* between a change of the nodes and the sync that follows it; a create whose
\* nodes exist, and a removal with nodes to forget, have that sync ahead of them,
\* and one that skips it or fails in it ends with an error or a warning.
AlloyInv ==
    /\ alloy.runs # {} => Running("alloy")
    /\ cmd.pc \in {"volumes", "services", "sync"} => cmd.conf = mounts
    /\ cmd.pc \in {"idle", "dns", "done", "reset", "worker", "others", "names", "fjournals"} \cup Making
         => Follows
    /\ cmd.op \in {"add", "remove", "delete"} /\ cmd.pc \in Ensuring \cup {"list"} => Follows
    /\ At("containers") /\ cmd.op \in {"remove", "delete"} => Follows
    /\ cmd.op = "create" /\ cmd.pc \in Ensuring \cup {"rollback", "list", "containers"} =>
         Follows \/ (cmd.claimed /\ MountsOf(cmd.c) # {})
    /\ At("netvol") => cmd.rmMesh \/ cmd.forget # {} \/ Follows
    /\ At("fstart") /\ cmd.op = "on" => Follows
    /\ At("keep") => cmd.errs \/ cmd.rmMesh \/ Follows
    /\ cmd.pc \in {"rmMesh", "rmVolumes"} => Follows
    /\ At("ended") => cmd.errs \/ (cmd.failed /\ cmd.op = "delete") \/ Follows
    /\ cmd.pc \in {"dns", "reset", "worker"} \/ (At("done") /\ cmd.mon) => ~behind

\* The stack stays with its monitored clusters, is complete when a create says
\* so, collects the nodes that there are, and goes with its last cluster.
StackInv ==
    /\ MonitoringTypeOK /\ PhaseInv /\ NodesInv /\ JournalInv /\ ServicesInv /\ AlloyInv
    /\ StackStays /\ StackComplete /\ Collected /\ NothingLeft
=============================================================================

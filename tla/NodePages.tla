----------------------------- MODULE NodePages -----------------------------
(***************************************************************************)
(* What sind ui says of the nodes of a cluster, and what it offers for     *)
(* them.  The store holds what the collectors read, each at its own time:  *)
(* the state of the cluster, its nodes, their services (the status), what  *)
(* sinfo says, and the commands that run.  Every page works out from them  *)
(* alone which nodes need a look and which fixes it offers: the node page, *)
(* the lists, Needs you, Ready for jobs and the fleet table.  A fix opens  *)
(* a dialog, which builds its command from the store again.                *)
(*                                                                         *)
(* A command of sind ui that may fix a node is followed until its card     *)
(* hides: what the store saw change on the node says whether it held.      *)
(***************************************************************************)
EXTENDS Naturals, Sequences, SequencesExt

CONSTANTS
    Node,      \* the nodes of the cluster
    roleOf,    \* their roles: "controller" | "db" | "worker"
    First,     \* the first controller in the order of the store
    Managed,   \* the nodes on which sind runs Slurm, the controllers among them
    Followed,  \* bound: the nodes whose changes are recorded, and fixed
    MaxKept,   \* the changes that are kept of a node (MaxChanges, 20)
    MaxAmiss,  \* bound: what is wrong at once in what was read
    RunOps,    \* the commands of the runs: "create cluster" ... "power"
    MaxRuns,   \* bound: the runs that go on at once
    Verbs,     \* bound: what the task of sind ui does, FixOps or services
    MaxReads   \* bound: the reads that changed the store; 0 for any number

VARIABLES
    state,     \* the state of the cluster as the list of clusters has it
    seen,      \* the state of each node as the list of nodes has it, or "gone"
    status,    \* the status: [read, data, nodes -> [runs, down]]
    sinfo,     \* what sinfo said: [err, nodes -> its state in Slurm]
    works,     \* the runs that go on, the oldest first: [op, waits, named]
    changed,   \* what changed on each node, the newest first
    fix,       \* the task of sind ui that may fix nodes
    reads

pageVars == <<state, seen, status, sinfo, works, changed, fix, reads>>

-----------------------------------------------------------------------------
States == {"running", "stopped", "paused", "unknown", "gone"}

ServicesOf(n) ==
    {"munge", "sshd"} \cup
    (IF n \notin Managed THEN {}
     ELSE CASE roleOf[n] = "controller" -> {"slurmctld"}
            [] roleOf[n] = "db"         -> {"mariadb", "slurmdbd"}
            [] roleOf[n] = "worker"     -> {"slurmd"})

SlurmOf(n) == [controller |-> "slurmctld", db |-> "slurmdbd", worker |-> "slurmd"][roleOf[n]]

\* The states that sinfo writes; a worker that does not answer has a star.
SlurmStates == {"idle", "drained", "down*"}
TakesJobs(s) == s = "idle"

Listed == {n \in Node : seen[n] # "gone"}
Known(n) == status.read /\ n \in DOMAIN status.nodes
Sinfo(n) == n \in DOMAIN sinfo.nodes

-----------------------------------------------------------------------------
(* What the commands that run do to the nodes.  A run that creates or      *)
(* deletes the cluster owns all its nodes, one that adds or deletes        *)
(* workers those that it names.                                            *)
KindOf(op) == IF op \in {"create cluster", "create worker"} THEN "creating"
              ELSE IF op \in {"delete cluster", "delete worker"} THEN "deleting" ELSE "none"
OwnsCluster == {"create cluster", "delete cluster"}
OwnsWorkers == {"create worker", "delete worker"}

\* Of several runs that own the cluster, the first that does not wait for
\* the lock of the realm, else the oldest.
LifeOf ==
    LET own  == {i \in DOMAIN works : works[i].op \in OwnsCluster}
        goes == {i \in own : ~works[i].waits}
    IN  IF own = {} THEN "none"
        ELSE KindOf(works[CHOOSE i \in IF goes # {} THEN goes ELSE own :
                            \A j \in IF goes # {} THEN goes ELSE own : i <= j].op)

WorkOf(n) ==
    LET names == {i \in DOMAIN works : works[i].op \in OwnsWorkers /\ n \in works[i].named}
    IN  IF LifeOf # "none" THEN LifeOf
        ELSE IF names = {} THEN "none"
        ELSE KindOf(works[CHOOSE i \in names : \A j \in names : j <= i].op)

Busy    == works # <<>>
Life(n) == WorkOf(n) # "none"

-----------------------------------------------------------------------------
(* The node as every page shows it.                                        *)
Down(n) == IF seen[n] = "running" /\ Known(n) THEN status.nodes[n].down ELSE {}

ServiceIssues(n) ==
    IF Life(n) THEN {}
    ELSE (IF seen[n] # "running" THEN {seen[n]} ELSE {}) \cup Down(n)

SlurmIssue(n) ==
    Sinfo(n) /\ ~Life(n) /\ ServiceIssues(n) = {} /\ ~TakesJobs(sinfo.nodes[n])

Issues(n) == ServiceIssues(n) \cup (IF SlurmIssue(n) THEN {sinfo.nodes[n]} ELSE {})

Problem(n) == ~Life(n) /\ (seen[n] # "running" \/ (~Busy /\ Issues(n) # {}))

Sev(n) == IF ~Problem(n) THEN "" ELSE IF seen[n] = "stopped" \/ Down(n) # {} THEN "bad" ELSE "warn"

Look == {n \in Listed : Problem(n)}
LookClass == IF \E n \in Look : Sev(n) = "bad" THEN "bad" ELSE "warn"

Schedules(n) == roleOf[n] = "worker" /\ (n \in Managed \/ ~Known(n))

StateClass(s) == [running |-> "ok", stopped |-> "bad", paused |-> "warn", unknown |-> "warn"][s]

\* The class and the words of the pill at the head of the node's page.
HeadWords(n) ==
    IF SlurmIssue(n) THEN {sinfo.nodes[n]}
    ELSE IF Schedules(n) /\ "slurmd" \in Down(n) THEN {"takes no jobs"} ELSE Issues(n)

HeadClass(n) ==
    IF Life(n) THEN "run"
    ELSE IF seen[n] = "running" /\ Problem(n) THEN Sev(n) ELSE StateClass(seen[n])

NeedsLook == LifeOf = "none" /\ (state # "running" \/ Look # {})

ClusterClass ==
    IF LifeOf # "none" THEN "run" ELSE IF Look # {} THEN LookClass
    ELSE [running |-> "ok", stopped |-> "", mixed |-> "warn", paused |-> "warn", unknown |-> "warn"][state]

-----------------------------------------------------------------------------
(* The fixes of a node that needs a look, the first one to try first, and  *)
(* the verbs that fit a node.                                              *)
BugCanRestart(n) == seen[n] = "running"

CanRestart(n) == seen[n] = "running" /\ "sshd" \notin Down(n)

\* The services in the order of a status.
ServiceOrder == <<"munge", "sshd", "slurmctld", "slurmd", "mariadb", "slurmdbd">>

FailedUnit(n) ==
    IF SlurmOf(n) \in Down(n) THEN SlurmOf(n)
    ELSE ServiceOrder[CHOOSE i \in DOMAIN ServiceOrder :
                        /\ ServiceOrder[i] \in Down(n)
                        /\ \A j \in 1..(i - 1) : ServiceOrder[j] \notin Down(n)]

Restart(unit) == [op |-> "restart-service", unit |-> unit]
Power(op) == [op |-> op, unit |-> "none"]

Ladder(n) ==
    CASE ~Problem(n) -> <<>>
      [] Problem(n) /\ seen[n] = "paused"  -> <<Power("unfreeze")>>
      [] Problem(n) /\ seen[n] = "stopped" -> <<Power("on")>>
      [] Problem(n) /\ seen[n] = "unknown" -> <<>>
      [] Problem(n) /\ seen[n] = "running" /\ Down(n) # {} ->
           IF ~CanRestart(n) THEN <<Power("reboot")>>
           ELSE IF FailedUnit(n) # "munge" /\ "munge" \in Down(n)
           THEN <<Restart("munge"), Restart(FailedUnit(n)), Power("reboot")>>
           ELSE <<Restart(FailedUnit(n)), Power("reboot")>>
      [] OTHER -> <<Power("resume")>>

PowerOps == {"drain", "resume", "on", "shutdown", "reboot", "freeze", "unfreeze", "cycle", "cut"}

OpFits(n, op) ==
    /\ ~Life(n)
    /\ CASE op = "on" -> seen[n] \notin {"running", "paused"}
         [] op = "unfreeze" -> seen[n] = "paused"
         [] op \in {"drain", "resume"} ->
              /\ roleOf[n] = "worker" /\ seen[n] = "running"
              /\ Known(n) => n \in Managed
              /\ Sinfo(n)
              /\ op = "drain" => sinfo.nodes[n] # "drained"
              /\ op = "resume" => ~TakesJobs(sinfo.nodes[n])
         [] OTHER -> seen[n] = "running"

\* The services that the node's page offers to restart.
SvcRestarts(n) ==
    IF Life(n) \/ Busy \/ ~CanRestart(n) THEN {} ELSE Down(n)

-----------------------------------------------------------------------------
(* What the dialogs make a command of, for one node; a drain has a reason. *)
BuildsSlurmState(n) ==
    /\ n \in Listed /\ roleOf[n] = "worker"
    /\ status.read =>
         \A m \in DOMAIN status.nodes : roleOf[m] = "controller" \/ m = n => m \in Managed

BuildsPower(n, op) == IF op \in {"drain", "resume"} THEN BuildsSlurmState(n) ELSE n \in Listed

BuildsRestart(n, unit) ==
    /\ n \in Listed /\ seen[n] = "running"
    /\ Known(n) /\ "sshd" \notin status.nodes[n].down
    /\ unit \in ServicesOf(n)

\* The dialog of a power command that stops the nodes `picked' says what
\* that means for the cluster; `control' is the controller that is in
\* control as the status has it, or "none".
Running(role) == {n \in Listed : roleOf[n] = role /\ seen[n] = "running"}

ActiveController(control) ==
    IF status.read /\ control # "none" THEN control
    ELSE IF Running("controller") = {} THEN "none"
    ELSE IF First \in Running("controller") THEN First
    ELSE CHOOSE n \in Running("controller") : TRUE

StillTakesJobs(picked, control) ==
    /\ Running("worker") \ picked # {}
    /\ ActiveController(control) \notin picked \cup {"none"}

ControllerWarning(picked, control) ==
    LET gone == Running("controller") \cap picked
        left == Running("controller") \ picked
    IN  CASE gone = {} -> "none"
          [] gone # {} /\ left = {} -> "takes no jobs"
          [] OTHER -> IF ActiveController(control) \in gone THEN "takes over" ELSE "standby"

AllWorkersWarning(picked) == Running("worker") # {} /\ Running("worker") \subseteq picked

-----------------------------------------------------------------------------
(* Ready for jobs, and the fleet table.                                    *)
WhyNot(n, svc) ==
    \/ seen[n] # "running"
    \/ Known(n) /\ svc \in status.nodes[n].down
    \/ svc = "slurmd" /\ Sinfo(n) /\ ~TakesJobs(sinfo.nodes[n])

Controllers == {n \in Listed : roleOf[n] = "controller"}
IsManaged(n) == Known(n) /\ n \in Managed

\* The controller whose Managed decides: the first that is listed.
FirstListed == IF First \in Listed THEN First ELSE CHOOSE n \in Controllers : TRUE

ControllerCheck ==
    LET broken == {n \in Controllers : WhyNot(n, "slurmctld")}
    IN  CASE Controllers = {} -> "bad"
          [] Controllers # {} /\ ~IsManaged(FirstListed) -> "none"
          [] Controllers # {} /\ IsManaged(FirstListed) ->
               IF broken = Controllers \/ sinfo.err THEN "bad"
               ELSE IF broken # {} THEN "warn" ELSE "ok"

CountedWorkers == {n \in Listed : roleOf[n] = "worker" /\ IsManaged(n)}
TakingWorkers  == {n \in CountedWorkers : ~WhyNot(n, "slurmd")}

WorkersCheck ==
    IF CountedWorkers = {} THEN "bad"
    ELSE IF TakingWorkers = CountedWorkers THEN "ok"
    ELSE IF TakingWorkers = {} THEN "bad" ELSE "warn"

AccountingCheck ==
    LET db == {n \in Listed : roleOf[n] = "db"}
    IN  IF \E n \in db : IsManaged(n) /\ (WhyNot(n, "mariadb") \/ WhyNot(n, "slurmdbd"))
        THEN "warn" ELSE IF \E n \in db : IsManaged(n) THEN "ok" ELSE "none"

FilesCheck == IF status.data THEN "ok" ELSE "bad"

\* The class of the verdict, once the cluster was probed.
Verdict ==
    IF LifeOf # "none" THEN "run"
    ELSE IF ~status.read THEN ""
    ELSE IF "bad" \in {ControllerCheck, WorkersCheck} THEN "bad"
    ELSE IF WorkersCheck = "warn" \/ {AccountingCheck, FilesCheck} \cap {"warn", "bad"} # {}
    THEN "warn" ELSE "ok"

\* The words of the fleet table: the pill, its class, and whether a check
\* says in a note what is wrong when no node is to blame.
Pill(text, class, note) == [text |-> text, class |-> class, note |-> note]

FleetReady ==
    LET needsLook == IF Look # {} THEN LookClass ELSE "warn"
    IN  CASE LifeOf # "none" -> Pill("being made", "run", FALSE)
          [] LifeOf = "none" /\ ~status.read ->
               IF NeedsLook THEN Pill("needs a look", needsLook, FALSE)
               ELSE Pill("not checked yet", "", FALSE)
          [] LifeOf = "none" /\ status.read /\ Busy /\ ~NeedsLook ->
               Pill("a command runs", "run", FALSE)
          [] OTHER ->
               IF ControllerCheck = "bad" THEN Pill("not ready", "bad", TRUE)
               ELSE IF CountedWorkers = {} THEN Pill("not ready", "bad", TRUE)
               ELSE IF Verdict = "bad" THEN Pill("not ready", "bad", FALSE)
               ELSE IF NeedsLook \/ WorkersCheck = "warn" THEN Pill("needs a look", needsLook, FALSE)
               ELSE IF {AccountingCheck, FilesCheck} \cap {"warn", "bad"} # {}
               THEN Pill("needs a look", needsLook, TRUE)
               ELSE Pill("ready", "ok", FALSE)

\* The severity of a node's row in Needs you.
NeedSev(n) ==
    IF (seen[n] = "running" /\ Down(n) # {}) \/ seen[n] = "stopped" THEN "bad" ELSE "warn"

-----------------------------------------------------------------------------
(* The card of a fix: a task of sind ui that may fix nodes, that ended ok  *)
(* a moment ago.                                                           *)
FixOps == {"on", "reboot", "cycle", "unfreeze", "resume"}

NoFix == [stage |-> "none", op |-> "none", unit |-> "none", node |-> "none", fixes |-> FALSE]

HasFixed(n) == fix.stage = "ok" /\ fix.node = n /\ fix.fixes

\* What the card checks again.
FixHolds(n) ==
    /\ fix.op \notin {"restart-service", "resume"} => seen[n] = "running"
    /\ \A s \in IF Known(n) THEN ServicesOf(n) ELSE {} :
         fix.unit \in {"none", s} => s \notin status.nodes[n].down /\ seen[n] = "running"
    /\ Sinfo(n) => TakesJobs(sinfo.nodes[n])

\* The unit of a restart, the Slurm state of a resume, else the container
\* and its services.
IsFixed(c) ==
    CASE fix.op = "restart-service" -> c.source = "systemd" /\ c.subject = fix.unit
      [] fix.op = "resume" -> c.source = "sinfo"
      [] OTHER -> c.source # "sinfo"

CameBack(n) ==
    \E i, j \in DOMAIN changed[n] :
      LET good == changed[n][i]
          bad  == changed[n][j]
      IN  /\ j < i /\ good.subject = bad.subject /\ IsFixed(good) /\ IsFixed(bad)
          /\ good.ok /\ good.at # "before"
          /\ ~bad.ok /\ bad.at = "after"

HasDiag(n) == Problem(n) /\ ~Busy

\* The card that the page shows now, and what it says of the fix.
Card(n) ==
    CASE Life(n) -> "none"
      [] ~Life(n) /\ ~HasFixed(n) -> IF HasDiag(n) THEN "problem" ELSE "none"
      [] ~Life(n) /\ HasFixed(n) /\ HasDiag(n) -> IF CameBack(n) THEN "came back" ELSE "waits"
      [] OTHER -> IF FixHolds(n) THEN "fixed" ELSE "waits"

\* The row of the node in Needs you.
Row(n) == IF Problem(n) THEN "open" ELSE IF HasFixed(n) THEN "fixed" ELSE "none"

-----------------------------------------------------------------------------
(* What the store records as it changes, for a node.                       *)
At == CASE fix.stage = "none" -> "before" [] fix.stage = "runs" -> "during" [] OTHER -> "after"

Change(source, subject, ok) == [source |-> source, subject |-> subject, ok |-> ok, at |-> At]

Recorded(new) ==
    changed' = [n \in Node |->
        LET all == IF n \in Followed THEN new[n] \o changed[n] ELSE <<>>
        IN  SubSeq(all, 1, IF Len(all) > MaxKept THEN MaxKept ELSE Len(all))]

Amiss ==
    (IF state = "running" THEN 0 ELSE 1) + (IF status.data THEN 0 ELSE 1)
    + (IF sinfo.err THEN 1 ELSE 0)
    + FoldSet(LAMBDA n, sum : sum
        + (IF seen[n] = "running" THEN 0 ELSE 1)
        + (IF ~status.read THEN 0 ELSE IF n \notin DOMAIN status.nodes THEN 1
           ELSE IF ~status.nodes[n].runs THEN 1 ELSE Cardinality(status.nodes[n].down))
        + (IF sinfo.err \/ (Sinfo(n) /\ sinfo.nodes[n] = "idle") \/ roleOf[n] # "worker"
           THEN 0 ELSE 1), 0, Node)

Read ==
    /\ MaxReads > 0 => reads < MaxReads
    /\ reads' = IF MaxReads > 0 THEN reads + 1 ELSE 0
    /\ Amiss' <= MaxAmiss

SetClusters ==
    /\ state' \in {"running", "mixed", "stopped", "paused", "unknown"} \ {state}
    /\ UNCHANGED <<seen, status, sinfo, works, changed, fix>>
    /\ Read

\* One node changes at a time.  A node that went takes its changes along.
SetNodes(n) ==
    \E s \in States \ {seen[n]} :
      /\ seen' = [seen EXCEPT ![n] = s]
      /\ IF s = "gone" THEN changed' = [changed EXCEPT ![n] = <<>>]
         ELSE Recorded([m \in Node |->
                IF m = n /\ seen[n] # "gone" THEN <<Change("docker", "container", s = "running")>>
                ELSE <<>>])
      /\ UNCHANGED <<state, status, sinfo, works, fix>>
      /\ Read

\* The services of a node that does not run are down.
NodeStatuses(n) ==
    {[runs |-> TRUE, down |-> d] : d \in SUBSET ServicesOf(n)}
    \cup {[runs |-> FALSE, down |-> ServicesOf(n)]}

\* The services that went down or came up between two reads of a node that
\* ran, in any order.
StatusChanges(old, new) ==
    IF ~old.runs \/ ~new.runs THEN <<>>
    ELSE SetToSeq({Change("systemd", s, s \notin new.down) :
                     s \in (old.down \ new.down) \cup (new.down \ old.down)})

\* A status differs from the last one, or from one in which all is well, in
\* one node at most, which it may not list, or in the data volume.
LastNodes == IF status.read THEN status.nodes ELSE [n \in Node |-> [runs |-> TRUE, down |-> {}]]

SetStatus ==
    /\ \E n \in Node, data \in BOOLEAN :
         \E nodes \in {[m \in DOMAIN LastNodes \cup {n} |-> IF m = n THEN now ELSE LastNodes[m]] :
                        now \in NodeStatuses(n)}
                     \cup {[m \in DOMAIN LastNodes \ {n} |-> LastNodes[m]]} :
           /\ status' = [read |-> TRUE, data |-> data, nodes |-> nodes]
           /\ status' # status
           /\ Recorded([m \in Node |->
                IF status.read /\ m \in DOMAIN status.nodes \cap DOMAIN nodes
                THEN StatusChanges(status.nodes[m], nodes[m]) ELSE <<>>])
    /\ UNCHANGED <<state, seen, sinfo, works, fix>>
    /\ Read

SlurmChange(m, now) ==
    IF m \in DOMAIN sinfo.nodes \cap DOMAIN now /\ sinfo.nodes[m] # now[m]
    THEN <<Change("sinfo", "Slurm", TakesJobs(now[m]))>> ELSE <<>>

\* sinfo fails, or lists the workers that sind manages; a worker changes, or
\* is not listed any more, at a time.
SlurmNodes == {n \in Managed : roleOf[n] = "worker"}

SetSlurm ==
    /\ \E n \in SlurmNodes :
         LET last == IF sinfo.nodes = <<>> THEN [m \in SlurmNodes |-> "idle"] ELSE sinfo.nodes
         IN  sinfo' \in {[err |-> TRUE, nodes |-> <<>>]}
               \cup {[err |-> FALSE, nodes |-> [m \in DOMAIN last \cup {n} |->
                        IF m = n THEN s ELSE last[m]]] : s \in SlurmStates}
               \cup {[err |-> FALSE, nodes |-> [m \in DOMAIN last \ {n} |-> last[m]]]}
    /\ sinfo' # sinfo
    /\ Recorded([m \in Node |-> SlurmChange(m, sinfo'.nodes)])
    /\ UNCHANGED <<state, seen, status, works, fix>>
    /\ Read

\* A status that no page needs is dropped, with what sinfo said.
KeepStatuses ==
    /\ status.read
    /\ status' = [read |-> FALSE, data |-> TRUE, nodes |-> <<>>]
    /\ sinfo' = [err |-> FALSE, nodes |-> <<>>]
    /\ UNCHANGED <<state, seen, works, changed, fix>>
    /\ Read

-----------------------------------------------------------------------------
(* The runs, as the activity follower tells of them.                       *)
RunBegins ==
    /\ Len(works) < MaxRuns
    /\ \E op \in RunOps, waits \in IF Busy THEN BOOLEAN ELSE {FALSE} :
         works' = Append(works, [op |-> op, waits |-> waits, named |-> {}])
    /\ UNCHANGED <<state, seen, status, sinfo, changed, fix, reads>>

\* A run that has the lock names the workers that it adds or deletes.
RunNames ==
    /\ \E i \in DOMAIN works : \E n \in {m \in Node : roleOf[m] = "worker"} :
         /\ works[i].op \in OwnsWorkers /\ ~works[i].waits /\ n \notin works[i].named
         /\ works' = [works EXCEPT ![i].named = @ \cup {n}]
    /\ UNCHANGED <<state, seen, status, sinfo, changed, fix, reads>>

\* One that waits for the lock gets it once the other ended.
RunEnds ==
    /\ \E i \in DOMAIN works :
         works' = [j \in 1..(Len(works) - 1) |->
                     [works[IF j < i THEN j ELSE j + 1] EXCEPT !.waits = FALSE]]
    /\ UNCHANGED <<state, seen, status, sinfo, changed, fix, reads>>

\* A task of sind ui begins, from a dialog that builds its command.
TaskStart ==
    /\ fix = NoFix
    /\ \E n \in Followed :
         \E r \in {Power(op) : op \in {o \in FixOps \cap Verbs : BuildsPower(n, o)}}
                 \cup {Restart(u) : u \in {s \in Verbs \ FixOps : BuildsRestart(n, s)}} :
           fix' = [stage |-> "runs", op |-> r.op, unit |-> r.unit, node |-> n, fixes |-> Problem(n)]
    /\ UNCHANGED <<state, seen, status, sinfo, works, changed, reads>>

\* It ends ok, or not; its card hides fixedFor after that.
TaskEnd ==
    /\ fix.stage = "runs"
    /\ \E end \in {"ok", "over"} : fix' = [fix EXCEPT !.stage = end]
    /\ UNCHANGED <<state, seen, status, sinfo, works, changed, reads>>

FixedHides ==
    /\ fix.stage = "ok"
    /\ fix' = [fix EXCEPT !.stage = "over"]
    /\ UNCHANGED <<state, seen, status, sinfo, works, changed, reads>>

\* The nodes were read and run, and sinfo was read; the status was not.
PagesInit ==
    /\ state = "running"
    /\ seen = [n \in Node |-> "running"]
    /\ status = [read |-> FALSE, data |-> TRUE, nodes |-> <<>>]
    /\ sinfo = [err |-> FALSE, nodes |-> [n \in {m \in Managed : roleOf[m] = "worker"} |-> "idle"]]
    /\ works = <<>> /\ fix = NoFix /\ reads = 0
    /\ changed = [n \in Node |-> <<>>]

PagesNext ==
    \/ SetClusters
    \/ \E n \in Node : SetNodes(n)
    \/ SetStatus
    \/ SetSlurm
    \/ KeepStatuses
    \/ RunBegins
    \/ RunNames
    \/ RunEnds
    \/ TaskStart
    \/ TaskEnd
    \/ FixedHides

-----------------------------------------------------------------------------
\* The types of what the pages read and work out.  A status has of a node its
\* own services, sinfo the workers that sind manages, and a task that restarts
\* a service one of its node's.
PagesTypeOK ==
    /\ state \in {"running", "mixed", "stopped", "paused", "unknown"}
    /\ seen \in [Node -> States]
    /\ status.read \in BOOLEAN /\ status.data \in BOOLEAN
    /\ DOMAIN status.nodes \subseteq Node
    /\ \A n \in DOMAIN status.nodes : status.nodes[n].down \subseteq ServicesOf(n)
    /\ sinfo.err \in BOOLEAN /\ DOMAIN sinfo.nodes \subseteq SlurmNodes
    /\ \A n \in DOMAIN sinfo.nodes : sinfo.nodes[n] \in SlurmStates
    /\ fix \in [stage : {"none", "runs", "ok", "over"}, op : FixOps \cup {"none", "restart-service"},
                unit : {ServiceOrder[i] : i \in DOMAIN ServiceOrder} \cup {"none"},
                node : Followed \cup {"none"}, fixes : BOOLEAN]
    /\ fix = NoFix \/ IF fix.op = "restart-service" THEN fix.unit \in ServicesOf(fix.node)
                      ELSE fix.unit = "none"

\* Every fix and every verb that a page offers for a node fits it, and its
\* dialog makes a command of it.
FixesBuild ==
    \A n \in Listed :
      /\ \A r \in Range(Ladder(n)) :
           IF r.op = "restart-service" THEN BuildsRestart(n, r.unit)
           ELSE OpFits(n, r.op) /\ BuildsPower(n, r.op)
      /\ \A op \in PowerOps : OpFits(n, op) => BuildsPower(n, op)
      /\ \A s \in SvcRestarts(n) : BuildsRestart(n, s)

\* Nothing is offered or blamed for a node that a command owns.
OwnedLeftAlone ==
    \A n \in Listed : Life(n) =>
      /\ Ladder(n) = <<>> /\ SvcRestarts(n) = {} /\ \A op \in PowerOps : ~OpFits(n, op)
      /\ Row(n) # "open" /\ Card(n) = "none"

\* What needs a look is named, with one severity on every page.
LookNamed ==
    \A n \in Look :
      /\ seen[n] = "running" /\ Down(n) = {} => Sinfo(n)
      /\ seen[n] = "running" => HeadWords(n) # {}
      /\ NeedSev(n) = Sev(n)
      /\ HeadClass(n) # "ok" /\ ClusterClass # "ok"

\* The dialog of a power command does not say that the cluster still takes
\* jobs and, in another line, that it does not, unless the controller that
\* the status has in control has stopped since.
WarningsAgree ==
    \A picked \in SUBSET Listed, control \in Running("controller") \cup {"none"} :
      StillTakesJobs(picked, control) =>
        /\ ControllerWarning(picked, control) \in {"none", "standby"}
        /\ ~AllWorkersWarning(picked)

\* The fleet table, Ready for jobs and the nodes agree: a cluster that is
\* ready has no node that needs a look, and one that is not names what is
\* wrong, unless the list of clusters is not as the list of nodes.
FleetAgrees ==
    LET fleet == FleetReady
        verdict == Verdict
    IN /\ fleet.text = "ready" =>
            /\ Look = {} /\ verdict = "ok" /\ ControllerCheck # "warn"
            /\ CountedWorkers # {} /\ TakingWorkers = CountedWorkers
       /\ status.read /\ ~Busy /\ verdict = "ok" /\ ~NeedsLook => fleet.text = "ready"
       /\ status.read /\ state = "running" /\ fleet.class \in {"warn", "bad"} =>
            Look # {} \/ fleet.note

\* A card that says "Fixed" is no guess, and agrees with Needs you.
CardHonest ==
    \A n \in Listed : Known(n) /\ Card(n) = "fixed" =>
      /\ Row(n) # "open"
      /\ fix.op # "resume" => seen[n] = "running"
      /\ fix.unit # "none" => fix.unit \notin Down(n)
      /\ Sinfo(n) => TakesJobs(sinfo.nodes[n])

\* A row that is fixed leads to a page that says so, but for a node that a
\* command owns.
FixedRowHasCard ==
    \A n \in Listed : Row(n) = "fixed" /\ ~Life(n) => Card(n) \in {"fixed", "waits"}

(* Whatever the store holds, read at whatever times, every page says the   *)
(* same of a node and a cluster, and no page offers what its dialog then   *)
(* refuses (pgProblem, pgLadder, pgOpOff, pgReadyOf, pgFleetReadyOf,       *)
(* pgLoadNode).                                                            *)
PagesInv ==
    /\ PagesTypeOK
    /\ FixesBuild
    /\ OwnedLeftAlone
    /\ LookNamed
    /\ WarningsAgree
    /\ FleetAgrees
    /\ CardHonest
    /\ FixedRowHasCard
============================================================================

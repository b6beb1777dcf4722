------------------------------ MODULE Actions ------------------------------
(***************************************************************************)
(* The actions of sind ui: a dialog shows the command that its form makes  *)
(* of the state sind ui knows (preview), builds it again when the user     *)
(* presses the button (run), and starts it as a task if it is the command  *)
(* that the dialog showed.  A task that ended can be tried again.          *)
(*                                                                         *)
(* The world changes under the dialogs: the tasks end, and other users     *)
(* create and delete clusters in a terminal.  A delete that fails after    *)
(* the containers, and a create that is killed, leave a data volume.  sind *)
(* ui knows of the changes when its collectors read: the realms, and of    *)
(* each realm the clusters, the nodes and the volumes, on their own.  A    *)
(* read may fail for as long as it likes, and a part that is stored late   *)
(* is one read late, as dialogs know only the store.                       *)
(*                                                                         *)
(* Abstraction: a form is an action with the clusters, the workers and the *)
(* config that its fields name; fields that are wrong by themselves are    *)
(* left out, except a config that does not validate (Bad).  Nodes are      *)
(* workers, which exist or not.  A preview is answered at once: an answer  *)
(* that comes late is an early one, with the edits after it.               *)
(***************************************************************************)
EXTENDS Naturals, FiniteSets, Sequences, SequencesExt

CONSTANTS
    Tab,              \* the browser's tabs
    Offered,          \* bound: the actions that a run of the model offers
    Cluster,          \* what a cluster can be: one name in one realm
    realmOf, nameOf,  \* the realm and the name of each
    DefaultRealm,     \* the realm that a command line does not name
    Worker,           \* the workers of a cluster
    Conf,             \* configs of a new cluster
    Volume,           \* those whose data is in a Docker volume
    Bad,              \* those that do not validate
    NoConf,           \* no config
    MaxTasks,         \* bound: tasks
    MaxMoves          \* bound: changes of the world by others

VARIABLES
    world,   \* of each cluster: containers, data volume and workers
    snap,    \* what the store holds: realms, clusters, data volumes and workers
    tabs,    \* the dialog of each tab
    saved,   \* the config files of sind ui, by name: the config and the realm it names
    tasks,   \* the tasks, in the order of their starts
    moves    \* changes by others so far

actVars == <<world, snap, tabs, saved, tasks, moves>>

-----------------------------------------------------------------------------
(* Clusters *)

Left(data) == [there |-> FALSE, data |-> data, workers |-> {}]
Made(data, W) == [there |-> TRUE, data |-> data, workers |-> W]

\* Snap.Cluster: sind ui lists the cluster.
Seen(c) == c \in snap.clusters
Realm == {realmOf[c] : c \in Cluster}
RealmClusters(r) == {c \in Cluster : realmOf[c] = r}

\* The realms that have a cluster.
Inhabited == {realmOf[c] : c \in {x \in Cluster : world[x].there}}

-----------------------------------------------------------------------------
(* Forms *)

FormOf(op, on, W, conf) == [op |-> op, on |-> on, workers |-> W, conf |-> conf]

\* The forms that links and users fill in.  A realm is all its clusters.
Forms == {f \in
    {FormOf("create-cluster", {c}, {}, k) : c \in Cluster, k \in Conf}
      \cup {FormOf("delete-cluster", {c}, {}, NoConf) : c \in Cluster}
      \cup {FormOf("delete-clusters", C, {}, NoConf) : C \in (SUBSET Cluster) \ {{}}}
      \cup {FormOf("delete-realm", RealmClusters(realmOf[c]), {}, NoConf) : c \in Cluster}
      \cup {FormOf("create-worker", {c}, {}, NoConf) : c \in Cluster}
      \cup {FormOf(op, {c}, W, NoConf) : op \in {"delete-worker", "power"}, c \in Cluster,
                                         W \in SUBSET Worker} : f.op \in Offered}

Deletes(f) == f.op \in {"delete-cluster", "delete-clusters", "delete-realm"}

\* What the user types to confirm: the name of what goes, or how many go.
NoWord == <<>>
Want(f) ==
    CASE f.op = "delete-cluster"  -> <<"name", {nameOf[c] : c \in f.on}>>
      [] f.op = "delete-clusters" -> IF f.on = {} THEN NoWord ELSE <<"count", Cardinality(f.on)>>
      [] f.op = "delete-realm"    -> <<"name", {realmOf[c] : c \in f.on}>>
      [] f.op = "delete-worker"   -> CASE f.workers = {} -> NoWord
                                       [] Cardinality(f.workers) = 1 -> <<"name", f.workers>>
                                       [] OTHER -> <<"count", Cardinality(f.workers)>>
      [] OTHER -> NoWord

Confirmed(f, word) == Want(f) = NoWord \/ word = Want(f)

-----------------------------------------------------------------------------
(* The command of a form *)

\* findCluster, pickNodes and the checks of each Build: the command can be
\* made of what sind ui knows.
Fits(f) ==
    CASE f.op = "create-cluster" -> TRUE
      [] f.op \in {"delete-cluster", "delete-clusters"} -> f.on # {} /\ \A c \in f.on : Seen(c)
      [] f.op = "delete-realm" -> {realmOf[c] : c \in f.on} \subseteq snap.realms
      [] f.op = "create-worker" -> \A c \in f.on : Seen(c)
      [] OTHER -> /\ \A c \in f.on : Seen(c) /\ f.workers \subseteq snap.workers[c]
                  /\ f.workers # {}

\* A new cluster whose config is wrong, or whose name the realm has.
Problems(f) == f.op = "create-cluster" /\ (f.conf \in Bad \/ \E c \in f.on : Seen(c))

\* The clusters whose data volumes go, of those sind ui knows.
Goes(f) == {c \in f.on : Deletes(f) /\ c \in snap.volumes}

\* lossAck: those that the plan names, of the clusters that sind ui lists.
Losses(f) == {c \in Goes(f) : Seen(c)}

Acked(f, ack) == Losses(f) = {} \/ ack

\* The command line, with the path of the config, and the config.
Command(f) == [line |-> <<f.op, f.on, f.workers>>, conf |-> f.conf]

\* What the dialog showed, as the run compares it: the sentence of the data
\* volumes that go is part of it.
Fingerprint(f) == [cmd |-> Command(f), ack |-> Losses(f)]

NoPlan == [cmd |-> FormOf("", {}, {}, NoConf), ack |-> {}]

\* The plan that actEvaluate answers with: an error shows no command.
Evaluate(f) == IF Fits(f) THEN Fingerprint(f) ELSE NoPlan

Blocked(f, word, ack) == ~Fits(f) \/ Problems(f) \/ ~Confirmed(f, word) \/ ~Acked(f, ack)

-----------------------------------------------------------------------------
(* Tabs: the form of a dialog, the typed word, the box of the data volumes  *)
(* and the plan that it shows.                                              *)

NoForm == FormOf("none", {}, {}, NoConf)
Closed == [form |-> NoForm, word |-> NoWord, ack |-> FALSE, shown |-> NoPlan]

ActInit ==
    /\ world \in [Cluster -> {Left(FALSE), Made(TRUE, Worker), Made(FALSE, Worker)}]
    /\ \E R \in SUBSET Realm :
          /\ Inhabited \subseteq R
          /\ snap = [realms |-> R,
                     clusters |-> {c \in Cluster : world[c].there},
                     volumes |-> {c \in Cluster : world[c].data},
                     workers |-> [c \in Cluster |-> world[c].workers]]
    /\ tabs = [t \in Tab |-> Closed]
    /\ saved = [n \in {nameOf[c] : c \in Cluster} |-> [conf |-> NoConf, realm |-> DefaultRealm]]
    /\ tasks = <<>>
    /\ moves = 0

SetTab(t, d) == tabs' = [tabs EXCEPT ![t] = d]

\* actOpen of a link: the form of one cluster needs it, and that of several
\* keeps those that sind ui knows.
Open(t) ==
    /\ tabs[t] = Closed
    /\ \E f \in Forms :
         /\ f.op \notin {"create-cluster", "delete-clusters", "delete-realm"} => \A c \in f.on : Seen(c)
         /\ SetTab(t, [Closed EXCEPT !.form = IF f.op = "delete-clusters"
                                              THEN [f EXCEPT !.on = {c \in @ : Seen(c)}] ELSE f])
    /\ UNCHANGED <<world, snap, saved, tasks, moves>>

HasForm(t) == tabs[t].form # NoForm

\* The user picks another config or other workers, types the word, or
\* ticks the box of a plan that has one.
Edit(t) ==
    /\ HasForm(t)
    /\ LET f == tabs[t].form IN
       \/ \E k \in Conf \ {f.conf} : f.op = "create-cluster" /\ SetTab(t, [tabs[t] EXCEPT !.form.conf = k])
       \/ \E W \in (SUBSET Worker) \ {f.workers} :
             f.op \in {"delete-worker", "power"} /\ SetTab(t, [tabs[t] EXCEPT !.form.workers = W])
       \/ tabs[t].word # Want(f) /\ SetTab(t, [tabs[t] EXCEPT !.word = Want(f)])
       \/ ~tabs[t].ack /\ tabs[t].shown.ack # {} /\ SetTab(t, [tabs[t] EXCEPT !.ack = TRUE])
    /\ UNCHANGED <<world, snap, saved, tasks, moves>>

\* actPreviewRoute: the tab shows the plan of its form as it is now.
Preview(t) ==
    /\ HasForm(t)
    /\ LET p == Evaluate(tabs[t].form) IN
       p # tabs[t].shown /\ SetTab(t, [tabs[t] EXCEPT !.shown = p])
    /\ UNCHANGED <<world, snap, saved, tasks, moves>>

Close(t) ==
    /\ HasForm(t)
    /\ SetTab(t, Closed)
    /\ UNCHANGED <<world, snap, saved, tasks, moves>>

-----------------------------------------------------------------------------
(* Tasks *)

\* actKeptForm with the box, and without the word and the fingerprint: a
\* task keeps it.  Also what the task's start knew: the data volumes that
\* go by sind ui's own knowledge, those of them whose clusters it does not
\* list, those that its dialog showed with the box ticked, and whether the
\* user had typed the word.
TaskOf(f, ack, lost, typed) ==
    [form |-> f, ack |-> ack, at |-> "started", got |-> [conf |-> NoConf, realm |-> DefaultRealm],
     loses |-> Goes(f), unlisted |-> Goes(f) \ Losses(f), told |-> lost, typed |-> typed]

\* The parts of a delete of several clusters, each a delete of one.
Parts(f) == [i \in 1..Cardinality(f.on) |->
                FormOf("delete-cluster", {SetToSeq(f.on)[i]}, {}, NoConf)]

\* actStartParts: a task for each part, until one does not start.  Its form
\* has no box.
StartParts(f, n, lost, typed) ==
    /\ tasks' = tasks \o [i \in 1..n |-> TaskOf(Parts(f)[i], FALSE, lost, typed)]
    /\ UNCHANGED saved

\* actStart: the file first, then the task.  Each can fail.
StartOne(f, ack, lost, typed, o) ==
    LET name == CHOOSE n \in {nameOf[c] : c \in f.on} : TRUE
        realm == CHOOSE r \in {realmOf[c] : c \in f.on} : TRUE
    IN
    /\ saved' = IF f.op = "create-cluster" /\ o # "nofile"
                THEN [saved EXCEPT ![name] = [conf |-> f.conf, realm |-> realm]] ELSE saved
    /\ tasks' = IF o = "ok" THEN Append(tasks, TaskOf(f, ack, lost, typed)) ELSE tasks

\* Mutant: the run compares only the command with what the tab shows.
BugAsShown(plan, f) == plan.cmd = Command(f)

\* The run compares the fingerprint that the tab sent.
AsShown(plan, f) == plan = Fingerprint(f)

\* actRunRoute: the command is built again of what sind ui knows now.
\* Anything but the command that the tab shows only changes what it shows.
Run(t) ==
    /\ HasForm(t) /\ tabs[t].shown # NoPlan
    /\ LET f == tabs[t].form
           d == tabs[t]
           again == [d EXCEPT !.shown = Evaluate(f)]
           told == IF d.ack THEN d.shown.ack ELSE {}
       IN
       IF Blocked(f, d.word, d.ack) \/ ~AsShown(d.shown, f)
       THEN again # d /\ SetTab(t, again) /\ UNCHANGED <<saved, tasks>>
       ELSE /\ Len(tasks) + Cardinality(f.on) <= MaxTasks
            /\ IF f.op = "delete-clusters"
               THEN \E n \in 0..Cardinality(f.on) :
                       /\ StartParts(f, n, told, d.word = Want(f))
                       /\ SetTab(t, IF n = Cardinality(f.on) THEN Closed ELSE again)
               ELSE \E o \in {"ok", "nofile", "nostart"} :
                       /\ StartOne(f, d.ack, told, d.word = Want(f), o)
                       /\ SetTab(t, IF o = "ok" THEN Closed ELSE again)
    /\ UNCHANGED <<world, snap, moves>>

\* Mutant: a task keeps the typed word too.
BugKeptWord(task) == Want(task.form)

\* The word of the form that a task keeps.
KeptWord(task) == NoWord

\* actRetryRoute, from a tab: the command of a task that ended runs again
\* if nothing of it needs the user, else its dialog opens.
Retry(t, i) ==
    /\ tabs[t] = Closed /\ tasks[i].at = "ended" /\ Len(tasks) < MaxTasks
    /\ LET f == tasks[i].form IN
       IF Blocked(f, KeptWord(tasks[i]), tasks[i].ack)
       THEN /\ SetTab(t, [Closed EXCEPT !.form = f, !.ack = tasks[i].ack])
            /\ UNCHANGED <<saved, tasks>>
       ELSE /\ \E o \in {"ok", "nofile", "nostart"} : StartOne(f, tasks[i].ack, {}, FALSE, o)
            /\ UNCHANGED tabs
    /\ UNCHANGED <<world, snap, moves>>

-----------------------------------------------------------------------------
(* The commands, and others *)

SetTask(i, at) == tasks' = [tasks EXCEPT ![i].at = at]

\* create cluster reads its config file, before it takes the realm lock.
ReadsConfig(i) ==
    /\ tasks[i].at = "started" /\ tasks[i].form.op = "create-cluster"
    /\ tasks' = [tasks EXCEPT ![i].at = "read",
                              ![i].got = saved[CHOOSE n \in {nameOf[c] : c \in tasks[i].form.on} : TRUE]]
    /\ UNCHANGED <<world, snap, tabs, saved, moves>>

\* The cluster that a create makes: its realm is that of the command line,
\* which does not name the default realm, else that of the config.
Target(i) ==
    LET c == CHOOSE x \in tasks[i].form.on : TRUE
        r == IF realmOf[c] # DefaultRealm THEN realmOf[c] ELSE tasks[i].got.realm
    IN {x \in Cluster : nameOf[x] = nameOf[c] /\ realmOf[x] = r}

\* What a delete leaves of a cluster: it removes the containers, each or
\* not, then the volumes, and ends at the first of these steps that fails.
Leaves(c) ==
    {[world[c] EXCEPT !.workers = W] : W \in SUBSET world[c].workers}
      \cup {Left(world[c].data), Left(FALSE)}

\* A command ends: as it says, or it fails before, in the middle of a delete
\* of several, or it is killed, a create when it has made the volume.
Ends(i) ==
    /\ tasks[i].at = (IF tasks[i].form.op = "create-cluster" THEN "read" ELSE "started")
    /\ LET f == tasks[i].form IN
       \/ UNCHANGED world
       \/ /\ f.op = "create-cluster"
          /\ \A c \in Target(i) : world[c] = Left(FALSE)
          /\ LET vol == tasks[i].got.conf \in Volume IN
             \E d \in {Made(vol, {}), Left(vol)} :
                world' = [c \in Cluster |-> IF c \in Target(i) THEN d ELSE world[c]]
       \/ /\ Deletes(f)
          /\ \E d \in [f.on -> UNION {Leaves(c) : c \in f.on}] :
                /\ \A c \in f.on : d[c] \in Leaves(c)
                /\ world' = [c \in Cluster |-> IF c \in f.on THEN d[c] ELSE world[c]]
       \/ \E c \in f.on, w \in Worker :
             /\ f.op = "create-worker" /\ world[c].there
             /\ world' = [world EXCEPT ![c].workers = @ \cup {w}]
       \/ \E c \in f.on, W \in SUBSET f.workers :
             /\ f.op = "delete-worker"
             /\ world' = [world EXCEPT ![c].workers = @ \ W]
    /\ SetTask(i, "ended")
    /\ UNCHANGED <<snap, tabs, saved, moves>>

\* Somebody creates, deletes or changes a cluster in a terminal.
Elsewhere(c) ==
    /\ moves < MaxMoves /\ moves' = moves + 1
    /\ \E b \in BOOLEAN, W \in SUBSET Worker : \E d \in {Left(b), Made(b, W)} :
          d # world[c] /\ world' = [world EXCEPT ![c] = d]
    /\ UNCHANGED <<snap, tabs, saved, tasks>>

\* A pass of Sind lists the realms: those with containers, of a cluster or
\* of a mesh that is left alone.
ListsRealms ==
    /\ \E R \in SUBSET Realm :
          /\ Inhabited \subseteq R /\ R # snap.realms
          /\ snap' = [snap EXCEPT !.realms = R]
    /\ UNCHANGED <<world, tabs, saved, tasks, moves>>

\* A part that the store holds, after a pass has read it of a realm, or has
\* forgotten the realm, which it did not list.
Part(r, held, now) ==
    (held \ RealmClusters(r)) \cup {c \in now \cap RealmClusters(r) : r \in snap.realms}

\* readRealm and forget: the parts are read and stored on their own.
Collects(r) ==
    /\ \/ snap' = [snap EXCEPT !.clusters = Part(r, snap.clusters, {c \in Cluster : world[c].there})]
       \/ snap' = [snap EXCEPT !.volumes = Part(r, snap.volumes, {c \in Cluster : world[c].data})]
       \/ snap' = [snap EXCEPT !.workers = [c \in Cluster |->
                      IF realmOf[c] # r THEN snap.workers[c]
                      ELSE {w \in world[c].workers : r \in snap.realms}]]
    /\ snap' # snap
    /\ UNCHANGED <<world, tabs, saved, tasks, moves>>

-----------------------------------------------------------------------------
ActNext ==
    \/ \E t \in Tab : Open(t) \/ Edit(t) \/ Preview(t) \/ Close(t) \/ Run(t)
    \/ \E t \in Tab, i \in DOMAIN tasks : Retry(t, i)
    \/ \E i \in DOMAIN tasks : ReadsConfig(i) \/ Ends(i)
    \/ \E c \in Cluster : Elsewhere(c)
    \/ ListsRealms
    \/ \E r \in Realm : Collects(r)

ActSpec == ActInit /\ [][ActNext]_actVars

-----------------------------------------------------------------------------
(* Properties *)

Ops == {"none", "create-cluster", "delete-cluster", "delete-clusters", "delete-realm",
        "create-worker", "delete-worker", "power"}
Kept == [op : Ops, on : SUBSET Cluster, workers : SUBSET Worker, conf : Conf \cup {NoConf}]
State == [there : BOOLEAN, data : BOOLEAN, workers : SUBSET Worker]
File == [conf : Conf \cup {NoConf}, realm : Realm \cup {DefaultRealm}]
Store == [realms : SUBSET Realm, clusters : SUBSET Cluster, volumes : SUBSET Cluster,
          workers : [Cluster -> SUBSET Worker]]
Task == [form : Kept, ack : BOOLEAN, at : {"started", "read", "ended"}, got : File,
         loses : SUBSET Cluster, unlisted : SUBSET Cluster, told : SUBSET Cluster, typed : BOOLEAN]

\* What a user typed, and the command of a plan, are only compared.
Dialog(d) == [form : Kept, word : {d.word}, ack : BOOLEAN,
              shown : [cmd : {d.shown.cmd}, ack : SUBSET Cluster]]

ActTypeOK ==
    /\ world \in [Cluster -> State]
    /\ snap \in Store
    /\ DOMAIN tabs = Tab
    /\ \A t \in Tab : tabs[t] \in Dialog(tabs[t])
    /\ saved \in [{nameOf[c] : c \in Cluster} -> File]
    /\ tasks \in Seq(Task)

\* A create is of one cluster.
OfOne(f) == f.op = "create-cluster" => \E c \in Cluster : f.on = {c}
CreatesOne ==
    /\ \A t \in Tab : OfOne(tabs[t].form)
    /\ \A i \in DOMAIN tasks : OfOne(tasks[i].form)

\* No command of sind ui deletes a data volume that sind ui knew of and its
\* dialog did not name with the box ticked, also one that came while the
\* user looked, and one that came before a command was tried again.  But
\* delete realm deletes what is left of clusters that sind ui does not list,
\* which its dialog never names.
Told(k) == \A c \in k.loses : c \in k.told \/ (k.form.op = "delete-realm" /\ c \in k.unlisted)
LossesTold == \A i \in DOMAIN tasks : Told(tasks[i])

\* DESIGN.md:924: "A delete that takes a data or home volume, Delete cluster
\* too, sets `Command.Ack`, a sentence that names each such volume".
EachVolumeTold == \A i \in DOMAIN tasks : tasks[i].loses \subseteq tasks[i].told

\* What must be typed was typed in the dialog of that very task, for a task
\* that was tried again as for any other.
Typed(k) == Want(k.form) # NoWord => k.typed
DeletesTyped == \A i \in DOMAIN tasks : Typed(tasks[i])

ActionsInv == ActTypeOK /\ CreatesOne /\ LossesTold /\ DeletesTyped
=============================================================================

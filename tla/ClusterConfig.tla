--------------------------- MODULE ClusterConfig ---------------------------
(***************************************************************************)
(* What becomes of a cluster config (pkg/config): its defaults, the checks *)
(* of ValidateAll, the volumes and Slurm files of the cluster, its nodes   *)
(* with their mounts, accounts and capabilities, the Slurm accounts, and   *)
(* the workers that sind create worker adds, which know the cluster only   *)
(* by its containers and its slurm.conf.                                   *)
(*                                                                         *)
(* The same facts are derived from the config at several places: the       *)
(* checks, the volumes, the mounts, the files and the setup must agree.    *)
(*                                                                         *)
(* Abstraction: names are well formed, and so are sizes, devices and       *)
(* security options; a section of the Slurm configuration is a function    *)
(* from the parameters that it sets to the values that each lists; a path  *)
(* is one of those that matter.  Docker, groupadd, useradd and sacctmgr    *)
(* refuse what they refuse, and nothing else fails.                        *)
(***************************************************************************)
EXTENDS Integers, FiniteSets, Sequences, SequencesExt

CONSTANTS
    Config,       \* the configs that users write
    MinUID, MaxUID,  \* the IDs that users and groups may have
    ReservedIDs,  \* IDs between them that no cluster user or group may have
    Images,       \* the users and groups of each node image
    DefaultImage, \* the image of a node that names none
    MaxAdds       \* bound: workers added

VARIABLES
    cfg,    \* the config
    stage,  \* how far it is
    made    \* what was made of it so far

cfgVars == <<cfg, stage, made>>

-----------------------------------------------------------------------------
(* A config *)

Indices(c, role) == {i \in DOMAIN c.nodes : c.nodes[i].role = role}

\* The first controller that says it.
Managed(c) ==
    LET said == {i \in Indices(c, "controller") : c.nodes[i].managed # "unset"}
    IN said = {} \/ c.nodes[Min(said)].managed = "yes"

HasManaged(c, role) ==
    LET I == Indices(c, role) IN Managed(c) /\ I # {} /\ c.nodes[Min(I)].managed # "no"
HasManagedDB(c) == HasManaged(c, "db")
HasManagedAPI(c) == HasManaged(c, "api")

HasBackupController(c) == \E i \in Indices(c, "controller") : c.nodes[i].backup

UsesNSSSlurm(mode) == mode \in {"nssSlurm", "clientIds"}

UsesHostPath(c) == c.data.type = "hostPath" \/ (c.data.type = "" /\ c.data.host # "")

UsesAccounts(c) ==
    \/ c.accounts # <<>>
    \/ \E u \in ToSet(c.users) : u.accounts # <<>> \/ u.coordinator # <<>> \/ u.admin # ""

\* Sections.
SetsParameter(section, key) == key \in DOMAIN section
ListsValue(section, key, value) == key \in DOMAIN section /\ value \in section[key]
NoSection == [k \in {} |-> {}]
IsEmpty(section) == DOMAIN section = {}

-----------------------------------------------------------------------------
(* ApplyDefaults *)

Or(a, b) == IF a = 0 THEN b ELSE a

\* The k-th free ID from MinUID up.
FreeID(c, k) ==
    LET taken == ReservedIDs \cup {u.uid : u \in ToSet(c.users)} \cup {g.gid : g \in ToSet(c.groups)}
        free == (MinUID..(MaxUID + Len(c.users) + Len(c.groups))) \ taken
    IN CHOOSE id \in free : Cardinality({f \in free : f <= id}) = k

\* Users without an ID get the lowest free ones, then groups without one.
assignIDs(c) ==
    LET userRank(i) == Cardinality({j \in 1..i : c.users[j].uid = 0})
        groupRank(i) == userRank(Len(c.users)) + Cardinality({j \in 1..i : c.groups[j].gid = 0})
    IN [c EXCEPT
          !.users = [i \in DOMAIN @ |-> [@[i] EXCEPT !.uid = IF @ = 0 THEN FreeID(c, userRank(i)) ELSE @]],
          !.groups = [i \in DOMAIN @ |-> [@[i] EXCEPT !.gid = IF @ = 0 THEN FreeID(c, groupRank(i)) ELSE @]]]

NodeOf(role) ==
    [role |-> role, image |-> "", count |-> 0, managed |-> "unset", backup |-> FALSE,
     cpus |-> 0, memory |-> 0, capAdd |-> {}, capDrop |-> {}]

DefaultCPUs == 1
DefaultMemory == 512

\* Privileges of a node come on top of those of the defaults.
ApplyDefaults(c) ==
    LET nodes == IF c.nodes = <<>> THEN <<NodeOf("controller"), NodeOf("worker")>> ELSE c.nodes
        d == c.defaults
    IN [assignIDs(c) EXCEPT
          !.mode = IF @ = "" THEN "local" ELSE @,
          !.nodes = [i \in DOMAIN nodes |->
             [nodes[i] EXCEPT !.image = IF @ # "" THEN @ ELSE IF d.image # "" THEN d.image ELSE DefaultImage,
                              !.cpus = Or(@, Or(d.cpus, DefaultCPUs)),
                              !.memory = Or(@, Or(d.memory, DefaultMemory)),
                              !.capAdd = @ \cup d.capAdd, !.capDrop = @ \cup d.capDrop]]]

-----------------------------------------------------------------------------
(* ValidateAll *)

Roles == {"controller", "db", "api", "submitter", "worker"}

\* Counts of roles, and what only some roles may say.
ValidRoles(c) ==
    /\ \A n \in ToSet(c.nodes) :
          /\ n.role \in Roles /\ n.count >= 0
          /\ n.count > 0 => n.role = "worker"
          /\ n.managed # "unset" => n.role # "submitter"
          /\ n.backup => n.role = "controller"
    /\ Cardinality(Indices(c, "controller")) = 1
    /\ \A role \in {"db", "api", "submitter"} : Cardinality(Indices(c, role)) <= 1
    /\ Indices(c, "worker") # {}

validateStorage(c) == c.data.type = "hostPath" => c.data.host # ""

MungeDir == "/etc/munge"
ConfDir == "/etc/slurm"
StateDir == "/var/spool/slurmctld"
JournalDir == "/var/log/journal"
DefaultDataMountPath == "/data"

\* Mutant: the home directories are forgotten.
BugReservedPaths(c) ==
    {ConfDir, "/tmp", "/run", "/run/lock"}
      \cup (IF c.mode # "clientIds" THEN {MungeDir} ELSE {})
      \cup (IF c.cvmfs THEN {"/cvmfs"} ELSE {})
      \cup (IF HasBackupController(c) THEN {StateDir} ELSE {})

\* Where every node has a mount, by validateDataMountPath.
ReservedPaths(c) ==
    {ConfDir, "/tmp", "/run", "/run/lock"}
      \cup (IF c.mode # "clientIds" THEN {MungeDir} ELSE {})
      \cup (IF c.users # <<>> THEN {"/home"} ELSE {})
      \cup (IF c.cvmfs THEN {"/cvmfs"} ELSE {})
      \cup (IF HasBackupController(c) THEN {StateDir} ELSE {})
validateDataMountPath(c) == c.data.mount \notin ReservedPaths(c)

checkID(id) == id \in (MinUID..MaxUID) \ ReservedIDs

Column(seq, F(_)) == [i \in DOMAIN seq |-> F(seq[i])]
Name(x) == x.name

validateUsers(c) ==
    LET declared == {g.name : g \in ToSet(c.groups)}
        private == SelectSeq(c.users, LAMBDA u : u.group = "")
        gids == Column(c.groups, LAMBDA g : g.gid) \o Column(private, LAMBDA u : u.uid)
    IN
    /\ IsInjective(Column(c.groups, Name)) /\ IsInjective(Column(c.users, Name))
    /\ \A g \in ToSet(c.groups) : checkID(g.gid)
    /\ \A u \in ToSet(c.users) : checkID(u.uid)
    /\ IsInjective(gids) /\ IsInjective(Column(c.users, LAMBDA u : u.uid))
    /\ \A u \in ToSet(c.users) :
          /\ IF u.group = "" THEN u.name \notin declared ELSE u.group \in declared
          /\ ToSet(u.groups) \subseteq declared \ {u.group} /\ IsInjective(u.groups)

RootAccount == "root"

validateAccounts(c) ==
    LET declared == {a.name : a \in ToSet(c.accounts)} IN
    UsesAccounts(c) =>
        /\ HasManagedDB(c)
        /\ RootAccount \notin declared /\ IsInjective(Column(c.accounts, Name))
        /\ \A i \in DOMAIN c.accounts :
              c.accounts[i].parent \in {"", RootAccount} \cup {c.accounts[j].name : j \in 1..(i - 1)}
        /\ \A u \in ToSet(c.users) :
              /\ \A s \in {u.accounts, u.coordinator} : ToSet(s) \subseteq declared /\ IsInjective(s)
              /\ u.accounts = <<>> => u.coordinator = <<>> /\ u.admin = ""

\* SlurmParameters: what an identity mode needs in slurm.conf.
SlurmParameters(mode) ==
    CASE mode = "nssSlurm" -> [LaunchParameters |-> {"enable_nss_slurm"}]
      [] mode = "clientIds" -> [AuthType |-> {"auth/slurm"}, CredType |-> {"cred/slurm"},
                                AuthInfo |-> {"use_client_ids"}, LaunchParameters |-> {"enable_nss_slurm"}]
      [] OTHER -> NoSection

validateIdentity(c) ==
    LET P == SlurmParameters(c.mode) IN
    /\ c.mode # "local" => Managed(c)
    /\ \A k \in DOMAIN P \cap DOMAIN c.main : P[k] \subseteq c.main[k]
    /\ c.controllerUsers => c.mode = "clientIds"

ListsJWT(section) == ListsValue(section, "AuthAltTypes", "auth/jwt") \/ ListsValue(section, "AuthAltTypes", "jwt")

validateAPI(c) ==
    HasManagedAPI(c) => \A s \in {c.main, c.slurmdbd} : SetsParameter(s, "AuthAltTypes") => ListsJWT(s)

slurmdbdManagedKeys == {"DbdHost", "SlurmUser", "StorageType", "StorageHost", "StorageLoc", "StorageUser"}

\* The values that AuthType may have in slurmdbd.conf.
DbdAuth(mode) == IF mode = "clientIds" THEN {"auth/slurm", "slurm"} ELSE {"auth/munge", "munge"}

validateSlurmdbd(c) ==
    HasManagedDB(c) =>
        /\ DOMAIN c.slurmdbd \cap slurmdbdManagedKeys = {}
        /\ SetsParameter(c.slurmdbd, "AuthType") => \E v \in DbdAuth(c.mode) : c.slurmdbd.AuthType = {v}
        /\ SetsParameter(c.slurmdbd, "AuthInfo") /\ c.mode = "clientIds" =>
              ListsValue(c.slurmdbd, "AuthInfo", "use_client_ids")

validateMonitoring(c) ==
    c.monitoring /\ Managed(c) =>
        /\ SetsParameter(c.main, "MetricsType") => c.main.MetricsType = {"metrics/openmetrics"}
        /\ ~ListsValue(c.main, "CommunicationParameters", "disable_http")
        /\ ~SetsParameter(c.main, "MetricsAuthUsers")
        /\ SetsParameter(c.main, "PrivateData") => ListsValue(c.main, "MetricsParameters", "ignore_private_data")

\* An unmanaged cluster gets no Slurm configuration, and an unmanaged db
\* node no slurmdbd.conf.
validateUnmanaged(c) ==
    /\ ~Managed(c) =>
          /\ \A n \in ToSet(c.nodes) : n.managed = "yes" => n.role = "controller"
          /\ IsEmpty(c.main) /\ IsEmpty(c.slurmdbd) /\ ~c.monitoring
    /\ ~HasManagedDB(c) => IsEmpty(c.slurmdbd)

backupControllerManagedKeys == {"SlurmctldHost", "ControlMachine", "BackupController", "BackupAddr", "StateSaveLocation"}
validateBackup(c) == HasBackupController(c) => DOMAIN c.main \cap backupControllerManagedKeys = {}

Valid(c) ==
    /\ ValidRoles(c) /\ validateStorage(c) /\ validateDataMountPath(c)
    /\ validateUsers(c) /\ validateAccounts(c) /\ validateIdentity(c) /\ validateAPI(c)
    /\ validateSlurmdbd(c) /\ validateMonitoring(c) /\ validateUnmanaged(c) /\ validateBackup(c)

-----------------------------------------------------------------------------
(* The Slurm configuration *)

GroupSize(n) == IF n.role # "worker" THEN 0 ELSE IF n.count > 0 THEN n.count ELSE 1

\* Workers are numbered across the groups.
WorkersBefore(c, i) == FoldLeft(LAMBDA k, n : k + GroupSize(n), 0, SubSeq(c.nodes, 1, i - 1))

NodeEntry(k, n) == [name |-> <<"worker", k>>, cpus |-> n.cpus, memory |-> n.memory]

\* Mutant: unmanaged workers are not counted.
BugManagedWorkers(c) ==
    LET managed == [c EXCEPT !.nodes = SelectSeq(@, LAMBDA n : n.managed # "no")]
    IN FlattenSeq([i \in DOMAIN managed.nodes |->
                     [j \in 1..GroupSize(managed.nodes[i]) |->
                        NodeEntry(WorkersBefore(managed, i) + j - 1, managed.nodes[i])]])

\* The NodeName lines of sind-nodes.conf.
ManagedWorkers(c) ==
    FlattenSeq([i \in DOMAIN c.nodes |->
                  [j \in 1..(IF c.nodes[i].managed = "no" THEN 0 ELSE GroupSize(c.nodes[i])) |->
                     NodeEntry(WorkersBefore(c, i) + j - 1, c.nodes[i])]])

\* The smallest memory for a CPU, 0 for none.
DefMemPerCPU(workers) ==
    LET share == {w.memory \div w.cpus : w \in ToSet(workers)} IN IF share = {} THEN 0 ELSE Min(share)

jwtDefaults(mode) ==
    [AuthAltTypes |-> {"auth/jwt"},
     AuthAltParameters |-> {"jwt_key"} \cup (IF mode = "clientIds" THEN {"use_jwt_client_ids"} ELSE {})]

When(condition, section) == IF condition THEN section ELSE NoSection

\* slurm.conf as slurmctld reads it: sind's parameters, and the section,
\* whose values replace them.  A controller is one line of its own.
GenerateSlurmConf(c) ==
    c.main @@ [SlurmctldHost |-> {"controller"} \cup (IF HasBackupController(c) THEN {"controller-backup"} ELSE {}),
               StateSaveLocation |-> {StateDir},
               TaskPlugin |-> {"task/cgroup"}]
           @@ SlurmParameters(c.mode)
           @@ When(HasManagedAPI(c), jwtDefaults(c.mode))
           @@ When(HasManagedDB(c), [AccountingStorageType |-> {"accounting_storage/slurmdbd"}])
           @@ When(c.monitoring, [MetricsType |-> {"metrics/openmetrics"}])

\* DefMemPerCPU of slurm.conf, unless the section sets it or its rival.
DefaultMemPerCPU(c) ==
    IF SetsParameter(c.main, "DefMemPerNode") \/ SetsParameter(c.main, "DefMemPerCPU")
    THEN 0 ELSE DefMemPerCPU(ManagedWorkers(c))

GenerateSlurmdbdConf(c) ==
    c.slurmdbd @@ (IF c.mode = "clientIds"
                   THEN [AuthType |-> {"auth/slurm"}, AuthInfo |-> {"use_client_ids"}]
                   ELSE [AuthType |-> {"auth/munge"}])
               @@ When(HasManagedAPI(c), jwtDefaults(c.mode))
               @@ [StorageHost |-> {"localhost"}, StorageUser |-> {"slurm"}]

\* Files of the config volume.
ConfFiles(c) ==
    {"slurm.conf", "sind-nodes.conf"}
      \cup (IF HasManagedDB(c) THEN {"slurmdbd.conf"} ELSE {})
      \cup (IF c.mode = "clientIds" THEN {"slurm.key"} ELSE {})
      \cup (IF HasManagedAPI(c) THEN {"jwt_hs256.key"} ELSE {})

TaskAffinity(section) == ListsValue(section, "TaskPlugin", "task/affinity") \/ ListsValue(section, "TaskPlugin", "affinity")

-----------------------------------------------------------------------------
(* Linux accounts *)

\* NewLinuxUsers: private groups first, then those of the config.
NewLinuxUsers(c) ==
    LET gidOf(g) == (CHOOSE x \in ToSet(c.groups) : x.name = g).gid
        private == SelectSeq(c.users, LAMBDA u : u.group = "")
    IN [users |-> Column(c.users, LAMBDA u :
                    [name |-> u.name, uid |-> u.uid, gid |-> IF u.group = "" THEN u.uid ELSE gidOf(u.group)]),
        groups |-> Column(private, LAMBDA u : [name |-> u.name, gid |-> u.uid, members |-> {}])
                     \o Column(c.groups, LAMBDA g :
                          [name |-> g.name, gid |-> g.gid,
                           members |-> {u.name : u \in {v \in ToSet(c.users) : g.name \in ToSet(v.groups)}}])]

\* Mutant: client IDs spare the controllers the accounts, also without a
\* submitter.
BugNodeGetsUsers(mode, controllerUsers, role, managed, hasSubmitter) ==
    \/ ~managed
    \/ mode = "local"
    \/ mode = "nssSlurm" /\ role # "worker"
    \/ mode = "clientIds" /\ (role = "submitter" \/ (role = "controller" /\ controllerUsers))

nodeGetsUsers(mode, controllerUsers, role, managed, hasSubmitter) ==
    \/ ~managed
    \/ mode = "local"
    \/ mode = "nssSlurm" /\ role # "worker"
    \/ /\ mode = "clientIds"
       /\ role = "submitter" \/ (role = "controller" /\ (controllerUsers \/ ~hasSubmitter))

\* What a node image has: accounts of its distribution, of munge and of
\* Slurm, which the checks do not know.  groupadd and useradd stop at what
\* exists, and at a group that does not.
ImageAccounts(image) == [ok |-> TRUE, users |-> Images[image].users, groups |-> Images[image].groups]

groupadd(a, g) ==
    IF \E x \in a.groups : x.name = g.name \/ x.gid = g.gid
    THEN [a EXCEPT !.ok = FALSE]
    ELSE [a EXCEPT !.groups = @ \cup {[name |-> g.name, gid |-> g.gid]}]

useradd(a, u, more) ==
    IF \/ \E x \in a.users : x.name = u.name \/ x.uid = u.uid
       \/ u.gid \notin {x.gid : x \in a.groups}
       \/ ~(more \subseteq {x.name : x \in a.groups})
    THEN [a EXCEPT !.ok = FALSE]
    ELSE [a EXCEPT !.users = @ \cup {u}]

More(linux, u) == {g.name : g \in {x \in ToSet(linux.groups) : u.name \in x.members}}

\* Mutant: the users first, whose groups are not there yet.
BugAddUsers(image, linux) ==
    LET withUsers == FoldLeft(LAMBDA a, u : IF a.ok THEN useradd(a, u, More(linux, u)) ELSE a,
                              ImageAccounts(image), linux.users)
    IN FoldLeft(LAMBDA a, g : IF a.ok THEN groupadd(a, g) ELSE a, withUsers, linux.groups)

\* addUsersScript: sh -e stops at the first command that fails.
addUsers(image, linux) ==
    LET withGroups == FoldLeft(LAMBDA a, g : IF a.ok THEN groupadd(a, g) ELSE a, ImageAccounts(image), linux.groups)
    IN FoldLeft(LAMBDA a, u : IF a.ok THEN useradd(a, u, More(linux, u)) ELSE a, withGroups, linux.users)

-----------------------------------------------------------------------------
(* Nodes *)

\* The settings that a node takes from the cluster.
Shared(c, cvmfs) ==
    [dataHost |-> IF UsesHostPath(c) THEN c.data.host ELSE "",
     dataMount |-> IF c.data.mount = "" THEN DefaultDataMountPath ELSE c.data.mount,
     cvmfs |-> cvmfs, users |-> NewLinuxUsers(c), identity |-> c.mode]

RunConfig(name, n, managed, shared, rest) ==
    [name |-> name, role |-> n.role, image |-> n.image, managed |-> managed, shared |-> shared,
     cpus |-> n.cpus, memory |-> n.memory, capAdd |-> n.capAdd, capDrop |-> n.capDrop] @@ rest

NodeRunConfigs(c, cvmfs) ==
    LET hasSubmitter == Indices(c, "submitter") # {}
        nodeManaged(n) == Managed(c) /\ (n.role \in {"db", "api", "worker"} => n.managed # "no")
        of(n, name) ==
            LET worker == n.role = "worker" /\ nodeManaged(n) IN
            RunConfig(name, n, nodeManaged(n), Shared(c, cvmfs),
                [addUsers |-> nodeGetsUsers(c.mode, c.controllerUsers, n.role, nodeManaged(n), hasSubmitter),
                 nss |-> worker /\ UsesNSSSlurm(c.mode),
                 taskAffinity |-> worker /\ TaskAffinity(c.main),
                 state |-> n.role = "controller" /\ n.backup,
                 monitoring |-> c.monitoring])
        group(i) ==
            LET n == c.nodes[i] IN
            IF n.role = "worker"
            THEN [j \in 1..GroupSize(n) |-> of(n, <<"worker", WorkersBefore(c, i) + j - 1>>)]
            ELSE [j \in 1..(IF n.backup THEN 2 ELSE 1) |-> of(n, <<n.role, j - 1>>)]
    IN FlattenSeq([i \in DOMAIN c.nodes |-> group(i)])

getsTaskAffinityCapability(affinity, capDrop) == affinity /\ capDrop \cap {"SYS_NICE", "ALL"} = {}

Mount(at, from) == [at |-> at, from |-> from]
Optional(condition, m) == IF condition THEN <<m>> ELSE <<>>

\* Mounts of BuildRunArgs.
Mounts(rc) ==
    <<Mount(ConfDir, "config")>>
      \o Optional(rc.shared.identity # "clientIds", Mount(MungeDir, "munge"))
      \o <<Mount(rc.shared.dataMount, IF rc.shared.dataHost # "" THEN "host" ELSE "data")>>
      \o Optional(rc.state, Mount(StateDir, "state"))
      \o Optional(rc.shared.users.users # <<>>, Mount("/home", "home"))
      \o Optional(rc.shared.cvmfs # "", Mount("/cvmfs", rc.shared.cvmfs))
      \o Optional(rc.monitoring, Mount(JournalDir, "journals"))
      \o <<Mount("/tmp", "tmpfs"), Mount("/run", "tmpfs"), Mount("/run/lock", "tmpfs")>>

Twice(mounts) == {mounts[i].at : i \in {j \in DOMAIN mounts : \E k \in DOMAIN mounts : k # j /\ mounts[k].at = mounts[j].at}}

\* The container of BuildRunArgs, with its setup (nodeSetupSteps): the
\* labels are those of the shared settings.
Container(rc) ==
    [name |-> rc.name, role |-> rc.role, image |-> rc.image, managed |-> rc.managed, labels |-> rc.shared,
     cpus |-> rc.cpus, memory |-> rc.memory, capDrop |-> rc.capDrop,
     capAdd |-> rc.capAdd \cup (IF rc.role = "worker" /\ getsTaskAffinityCapability(rc.taskAffinity, rc.capDrop)
                                THEN {"SYS_NICE"} ELSE {}),
     mounts |-> Mounts(rc), nss |-> rc.nss,
     accounts |-> IF rc.addUsers THEN addUsers(rc.image, rc.shared.users) ELSE ImageAccounts(rc.image)]

-----------------------------------------------------------------------------
(* Slurm accounts *)

\* AccountCommands: accounts, then users, then coordinators.
AccountCommands(c) ==
    Column(c.accounts, LAMBDA a : [op |-> "account", name |-> a.name, accounts |-> {a.parent}])
      \o Column(SelectSeq(c.users, LAMBDA u : u.accounts # <<>>),
                LAMBDA u : [op |-> "user", name |-> u.name, accounts |-> ToSet(u.accounts)])
      \o Column(SelectSeq(c.users, LAMBDA u : u.coordinator # <<>>),
                LAMBDA u : [op |-> "coordinator", name |-> u.name, accounts |-> ToSet(u.coordinator)])

\* sacctmgr refuses what exists, and what is of accounts or users that do
\* not.
sacctmgr(s, cmd) ==
    IF \/ ~(cmd.accounts \subseteq s.accounts \cup {"", RootAccount})
       \/ cmd.op = "account" /\ cmd.name \in s.accounts
       \/ cmd.op = "user" /\ cmd.name \in s.users
       \/ cmd.op = "coordinator" /\ cmd.name \notin s.users
    THEN [s EXCEPT !.ok = FALSE]
    ELSE CASE cmd.op = "account" -> [s EXCEPT !.accounts = @ \cup {cmd.name}]
           [] cmd.op = "user" -> [s EXCEPT !.users = @ \cup {cmd.name}]
           [] OTHER -> s

NoAccounts == [ok |-> TRUE, accounts |-> {}, users |-> {}]

-----------------------------------------------------------------------------
(* The life of a config *)

Nothing ==
    [volumes |-> {}, files |-> {}, conf |-> NoSection, dbd |-> NoSection, nodesConf |-> <<>>,
     defMem |-> 0, journals |-> {}, nodes |-> <<>>, slurm |-> NoAccounts, edited |-> FALSE, adds |-> 0]

ConfigInit == cfg \in Config /\ stage = "written" /\ made = Nothing

Defaults ==
    /\ stage = "written" /\ stage' = "defaulted"
    /\ cfg' = ApplyDefaults(cfg)
    /\ UNCHANGED made

Validate ==
    /\ stage = "defaulted"
    /\ stage' = IF Valid(cfg) THEN "valid" ELSE "refused"
    /\ UNCHANGED <<cfg, made>>

\* NodeShortNames.
NodeShortNames(c) ==
    UNION {LET n == c.nodes[i] IN
           IF n.role = "worker"
           THEN {<<"worker", k>> : k \in WorkersBefore(c, i)..(WorkersBefore(c, i + 1) - 1)}
           ELSE {<<n.role, k>> : k \in 0..(IF n.backup THEN 1 ELSE 0)} : i \in DOMAIN c.nodes}

\* Mutant: no volume for the state of a pair of controllers.
BugVolumes(c) ==
    {"config"} \cup (IF c.mode # "clientIds" THEN {"munge"} ELSE {})
               \cup (IF ~UsesHostPath(c) THEN {"data"} ELSE {})
               \cup (IF c.users # <<>> THEN {"home"} ELSE {})
               \cup (IF c.monitoring THEN {"journals"} ELSE {})

\* The volumes of createResources.
Volumes(c) ==
    {"config"} \cup (IF c.mode # "clientIds" THEN {"munge"} ELSE {})
               \cup (IF ~UsesHostPath(c) THEN {"data"} ELSE {})
               \cup (IF HasBackupController(c) THEN {"state"} ELSE {})
               \cup (IF c.users # <<>> THEN {"home"} ELSE {})
               \cup (IF c.monitoring THEN {"journals"} ELSE {})

\* createResources, with the config of a managed cluster
\* (WriteClusterConfig).
CreateResources ==
    /\ stage = "valid" /\ stage' = "resources"
    /\ made' = [made EXCEPT !.volumes = Volumes(cfg),
                            !.journals = IF cfg.monitoring THEN NodeShortNames(cfg) ELSE {},
                            !.files = IF Managed(cfg) THEN ConfFiles(cfg) ELSE {},
                            !.conf = When(Managed(cfg), GenerateSlurmConf(cfg)),
                            !.dbd = When(HasManagedDB(cfg), GenerateSlurmdbdConf(cfg)),
                            !.nodesConf = IF Managed(cfg) THEN ManagedWorkers(cfg) ELSE <<>>,
                            !.defMem = IF Managed(cfg) THEN DefaultMemPerCPU(cfg) ELSE 0]
    /\ UNCHANGED cfg

\* setupNodes: Docker refuses two mounts at one path, the setup stops where
\* a command fails.  DetectCVMFS picks how CVMFS is mounted.
SetupNodes ==
    /\ stage = "resources"
    /\ \E backend \in IF cfg.cvmfs THEN {"volume", "hostPath"} ELSE {""} :
          made' = [made EXCEPT !.nodes = Column(NodeRunConfigs(cfg, backend), Container)]
    /\ stage' = CASE \E n \in ToSet(made'.nodes) : Twice(n.mounts) # {} -> "mounts"
                  [] \E n \in ToSet(made'.nodes) : ~n.accounts.ok -> "setup"
                  [] OTHER -> "nodes"
    /\ UNCHANGED cfg

\* createSlurmAccounts: the script stops at the first command that fails.
CreateSlurmAccounts ==
    /\ stage = "nodes"
    /\ LET cmds == IF Managed(cfg) /\ UsesAccounts(cfg) THEN AccountCommands(cfg) ELSE <<>>
       IN made' = [made EXCEPT !.slurm = FoldLeft(LAMBDA s, cmd : IF s.ok THEN sacctmgr(s, cmd) ELSE s, NoAccounts, cmds)]
    /\ stage' = IF made'.slurm.ok THEN "ready" ELSE "accounts"
    /\ UNCHANGED cfg

\* A user sets another TaskPlugin in slurm.conf, and slurmctld reads it.
EditTaskPlugin ==
    /\ stage = "ready" /\ made.conf # NoSection /\ ~made.edited
    /\ \E plugins \in {{"task/cgroup"}, {"affinity", "cgroup"}} :
          /\ made.conf.TaskPlugin # plugins
          /\ made' = [made EXCEPT !.conf.TaskPlugin = plugins, !.edited = TRUE]
    /\ UNCHANGED <<cfg, stage>>

-----------------------------------------------------------------------------
(* Workers added later *)

Workers == {n \in ToSet(made.nodes) : n.role = "worker"}
Index(n) == n.name[2]

\* The worker with the highest index of those that are managed as the new
\* one is, else of all.
newestWorker(managed) ==
    LET alike == {n \in Workers : n.managed = managed}
        from == IF alike # {} THEN alike ELSE Workers
    IN CHOOSE n \in from : \A m \in from : Index(m) <= Index(n)

\* Mutant: the newest worker's capabilities are taken as they are.
BugOwnCapability(w, affinity) == {}

\* The capability that sind gave the worker by itself: a user's options may
\* not list it any more.
OwnCapability(w, affinity) ==
    IF w.managed /\ getsTaskAffinityCapability(affinity, w.capDrop) THEN {"SYS_NICE"} ELSE {}

\* existingWorkerShape, with the capabilities that the options ask for, if
\* they do ("same" inherits).
Shape(w, affinity, drop) ==
    [role |-> "worker", image |-> w.image, cpus |-> w.cpus, memory |-> w.memory,
     capAdd |-> w.capAdd \ OwnCapability(w, affinity),
     capDrop |-> IF drop = "same" THEN w.capDrop ELSE {drop}]

\* WorkerAdd: the settings come from the labels and mounts of the first
\* controller and from slurm.conf.  A worker whose accounts cannot be made is
\* removed again (WorkerScaling has what that takes).
AddWorker ==
    /\ stage = "ready" /\ made.adds < MaxAdds
    /\ \E unmanaged \in BOOLEAN, drop \in {"same", "SYS_NICE"} :
         LET controller == CHOOSE n \in ToSet(made.nodes) : n.name = <<"controller", 0>>
             managed == controller.managed /\ ~unmanaged
             affinity == managed /\ TaskAffinity(made.conf)
             mode == controller.labels.identity
             index == 1 + Max({Index(n) : n \in Workers})
             shape == Shape(newestWorker(managed), affinity, drop)
             rc == RunConfig(<<"worker", index>>, shape, managed, controller.labels,
                      [addUsers |-> nodeGetsUsers(mode, FALSE, "worker", managed, FALSE),
                       nss |-> managed /\ UsesNSSSlurm(mode),
                       taskAffinity |-> affinity, state |-> FALSE,
                       monitoring |-> \E m \in ToSet(controller.mounts) : m.from = "journals"])
         IN /\ Container(rc).accounts.ok
            /\ made' = [made EXCEPT !.adds = @ + 1,
                                    !.nodes = Append(@, Container(rc)),
                                    !.journals = IF rc.monitoring THEN @ \cup {rc.name} ELSE @,
                                    !.nodesConf = IF managed THEN Append(@, NodeEntry(index, shape)) ELSE @]
    /\ UNCHANGED <<cfg, stage>>

ConfigNext ==
    \/ Defaults \/ Validate \/ CreateResources \/ SetupNodes \/ CreateSlurmAccounts
    \/ EditTaskPlugin \/ AddWorker

ConfigSpec == ConfigInit /\ [][ConfigNext]_cfgVars

-----------------------------------------------------------------------------
(* Properties *)

\* A user or group of the config, the users' private groups among them, has
\* the name or the ID of one that the image has.
Clashes(c, image) ==
    LET private == {u \in ToSet(c.users) : u.group = ""}
        groups == {<<g.name, g.gid>> : g \in ToSet(c.groups)} \cup {<<u.name, u.uid>> : u \in private}
    IN \/ \E u \in ToSet(c.users), x \in Images[image].users : u.name = x.name \/ u.uid = x.uid
       \/ \E g \in groups, x \in Images[image].groups : g[1] = x.name \/ g[2] = x.gid

\* A config that the checks accept is not refused later: its nodes mount
\* nothing twice, their accounts can be made, and so can the Slurm
\* accounts.  There are two exceptions: data at the journal of a monitored
\* node, and a user or group that the image of a node has ("makes `sind
\* create cluster` fail", docs/content/configuration/cluster-config.md:213),
\* unless that node gets no accounts.
AcceptedIsMade ==
    /\ stage = "mounts" => cfg.monitoring /\ cfg.data.mount = JournalDir
    /\ stage = "setup" => \E n \in ToSet(made.nodes) : Clashes(cfg, n.image)
    /\ stage \in {"nodes", "ready"} =>
         \A n \in ToSet(made.nodes) : Clashes(cfg, n.image) => n.accounts = ImageAccounts(n.image)
    /\ stage # "accounts"

\* The volumes that nodes mount are those that were made with the cluster,
\* and a monitored node has its directory of the journals.
MountsMade ==
    \A n \in ToSet(made.nodes) :
        /\ {m.from : m \in ToSet(n.mounts)} \subseteq made.volumes \cup {"tmpfs", "host", "volume", "hostPath"}
        /\ Mount(JournalDir, "journals") \in ToSet(n.mounts) => n.name \in made.journals

\* slurm.conf names the managed workers, each once and with the resources
\* of its container, and a job on each of its CPUs fits into its memory.
WorkersConfigured ==
    stage = "ready" /\ made.conf # NoSection =>
        LET entries == made.nodesConf IN
        /\ IsInjective(Column(entries, Name)) /\ IsInjective(Column(made.nodes, Name))
        /\ {<<e.name, e.cpus, e.memory>> : e \in ToSet(entries)}
             = {<<n.name, n.cpus, n.memory>> : n \in {w \in Workers : w.managed}}
        /\ made.adds = 0 => \A e \in ToSet(entries) : made.defMem * e.cpus <= e.memory

\* Every user is known where the identity mode needs it: on a login node,
\* by slurmctld and by the nodes of jobs.
Knows(n, u) == \E x \in n.accounts.users : x.name = u.name /\ x.uid = u.uid
UsersKnown ==
    stage = "ready" => \A u \in ToSet(cfg.users) :
        LET role(r) == {n \in ToSet(made.nodes) : n.role = r}
            login == IF role("submitter") # {} THEN role("submitter") ELSE role("controller")
        IN
        /\ \A n \in login : Knows(n, u)
        /\ \A n \in role("controller") : Knows(n, u) \/ ListsValue(made.conf, "AuthInfo", "use_client_ids")
        /\ \A n \in Workers :
              Knows(n, u) \/ (n.nss /\ ListsValue(made.conf, "LaunchParameters", "enable_nss_slurm"))

\* The daemons authenticate alike, with a key that they have.
Munge(section) == SetsParameter(section, "AuthType") => section.AuthType \subseteq {"auth/munge", "munge"}
AuthAgrees ==
    stage = "ready" /\ made.conf # NoSection =>
        /\ IF cfg.mode = "clientIds"
           THEN /\ ListsValue(made.conf, "AuthType", "auth/slurm") /\ ListsValue(made.conf, "CredType", "cred/slurm")
                /\ "slurm.key" \in made.files
                /\ made.dbd # NoSection =>
                      ~Munge(made.dbd) /\ ListsValue(made.dbd, "AuthInfo", "use_client_ids")
           ELSE /\ made.dbd # NoSection => Munge(made.dbd)
                /\ \A n \in ToSet(made.nodes) : Mount(MungeDir, "munge") \in ToSet(n.mounts)
        /\ HasManagedAPI(cfg) =>
              /\ "jwt_hs256.key" \in made.files
              /\ \A s \in {made.conf, made.dbd} : s # NoSection => ListsJWT(s) /\ SetsParameter(s, "AuthAltParameters")

\* A pair of controllers has the state that both mount; the daemons of a
\* monitored cluster serve the metrics that the stack scrapes.
PairAndMetrics ==
    stage = "ready" /\ made.conf # NoSection =>
        /\ HasBackupController(cfg) =>
              /\ made.conf.SlurmctldHost = {"controller", "controller-backup"}
              /\ \A n \in ToSet(made.nodes) : n.role = "controller" =>
                    \A d \in made.conf.StateSaveLocation : Mount(d, "state") \in ToSet(n.mounts)
        /\ cfg.monitoring => ListsValue(made.conf, "MetricsType", "metrics/openmetrics")

\* A worker that is added is like the newest of its kind, but for the
\* capabilities that its options drop and those that a changed TaskPlugin
\* asks for.  Managed workers may bind tasks if slurm.conf says so, and
\* none has a capability that it drops, unless the config asked for both.
Added == {made.nodes[i] : i \in (Len(made.nodes) - made.adds + 1)..Len(made.nodes)}
Settings(n) == <<n.image, n.mounts, n.accounts, n.nss, n.labels, n.cpus, n.memory>>
AddedAlike ==
    stage = "ready" =>
        /\ \A n \in Added :
             LET older == {w \in Workers : w.managed = n.managed /\ Index(w) < Index(n)} IN
             older # {} =>
                LET m == CHOOSE w \in older : \A x \in older : Index(x) <= Index(w) IN
                /\ Settings(n) = Settings(m)
                /\ n.capDrop = m.capDrop =>
                      n.capAdd \in {m.capAdd} \cup (IF made.edited THEN {m.capAdd \cup {"SYS_NICE"}} ELSE {})
        /\ ~made.edited => \A n \in Workers : n.managed =>
             /\ TaskAffinity(made.conf) /\ n.capDrop \cap {"SYS_NICE", "ALL"} = {} => "SYS_NICE" \in n.capAdd
             /\ "SYS_NICE" \in n.capAdd \cap n.capDrop =>
                   \E g \in ToSet(cfg.nodes) : g.role = "worker" /\ "SYS_NICE" \in g.capAdd

ConfigInv ==
    /\ AcceptedIsMade /\ MountsMade /\ WorkersConfigured /\ UsersKnown
    /\ AuthAgrees /\ PairAndMetrics /\ AddedAlike
=============================================================================

------------------------------ MODULE MCConfig ------------------------------
(***************************************************************************)
(* Cluster configs for TLC, in families: each varies what its checks and   *)
(* derivations have in common, on top of a config that has all roles.  IDs *)
(* are 10 to 15, of which 12 is reserved; sind's image has accounts below  *)
(* them and nobody, a site's image one among them.                         *)
(***************************************************************************)
EXTENDS Integers, Sequences, SequencesExt

Nodes(role, managed) ==
    [role |-> role, image |-> "", count |-> 0, managed |-> managed, backup |-> FALSE,
     cpus |-> 0, memory |-> 0, capAdd |-> {}, capDrop |-> {}]
Workers(managed, count) == [Nodes("worker", managed) EXCEPT !.count = count]

User(name, uid, group, groups) ==
    [name |-> name, uid |-> uid, group |-> group, groups |-> groups,
     accounts |-> <<>>, coordinator |-> <<>>, admin |-> ""]
Group(name, gid) == [name |-> name, gid |-> gid]
Account(name, parent) == [name |-> name, parent |-> parent]

Alice == User("alice", 0, "", <<>>)
Section(key, value) == [k \in {key} |-> value]
NoKeys == [k \in {} |-> {}]

Base ==
    [nodes |-> <<Nodes("controller", "unset"), Nodes("db", "unset"), Nodes("api", "unset"),
                 Nodes("submitter", "unset"), Workers("unset", 1)>>,
     defaults |-> [image |-> "", cpus |-> 0, memory |-> 0, capAdd |-> {}, capDrop |-> {}],
     mode |-> "", controllerUsers |-> FALSE, monitoring |-> FALSE,
     users |-> <<Alice>>, groups |-> <<>>, accounts |-> <<>>,
     data |-> [type |-> "", host |-> "", mount |-> ""], cvmfs |-> FALSE,
     main |-> NoKeys, slurmdbd |-> NoKeys]

Modes == {"", "nssSlurm", "clientIds"}
Perhaps(S) == {<<>>} \cup {<<x>> : x \in S}

\* Nodes of every role, managed or not, under every identity.
WorkerLists ==
    {<<Workers("unset", 0)>>, <<Workers("unset", 2)>>, <<Workers("no", 1)>>,
     <<Workers("no", 2), [Workers("yes", 1) EXCEPT !.cpus = 3, !.memory = 100]>>}
Shapes ==
    {[Base EXCEPT !.nodes = w \o <<[Nodes("controller", m) EXCEPT !.backup = b]>> \o s \o d \o a,
                  !.mode = i, !.controllerUsers = cu, !.monitoring = mon] :
        m \in {"yes", "no"}, b \in BOOLEAN, w \in WorkerLists, d \in Perhaps({Nodes("db", x) : x \in {"unset", "no"}}),
        a \in Perhaps({Nodes("api", x) : x \in {"unset", "no"}}), s \in Perhaps({Nodes("submitter", "unset")}),
        i \in Modes, cu \in {FALSE, TRUE}, mon \in BOOLEAN}
\* Only client IDs go with users on the controllers; a monitored one has a
\* managed db and api, or neither.
ShapeConfigs ==
    {c \in Shapes :
        /\ c.controllerUsers => c.mode = "clientIds"
        /\ c.monitoring =>
             LET services == SelectSeq(c.nodes, LAMBDA n : n.role \in {"db", "api"})
             IN Len(services) # 1 /\ \A n \in ToSet(services) : n.managed = "unset"}

\* The default nodes, and lists of nodes that no cluster can have.
OddConfigs ==
    {[Base EXCEPT !.nodes = n] :
        n \in {<<>>, <<Nodes("controller", "unset")>>, <<Workers("unset", 1)>>,
               <<Nodes("controller", "no"), Workers("yes", 1)>>,
               <<Nodes("controller", "unset"), Nodes("db", "unset"), Nodes("db", "unset"), Workers("unset", 1)>>,
               <<[Nodes("controller", "unset") EXCEPT !.count = 2], Workers("unset", 1)>>,
               <<Nodes("controller", "unset"), Nodes("submitter", "no"), Workers("unset", 1)>>}}

\* Where the data is mounted.
DataConfigs ==
    {[Base EXCEPT !.data = [type |-> t, host |-> h, mount |-> m], !.cvmfs = v, !.monitoring = mon,
                  !.mode = i, !.users = u, !.nodes[1].backup = b] :
        t \in {"", "volume", "hostPath"}, h \in {"", "/srv"},
        m \in {"", "/scratch", "/etc/slurm", "/etc/munge", "/tmp", "/home", "/cvmfs",
               "/var/spool/slurmctld", "/var/log/journal"},
        v \in BOOLEAN, mon \in BOOLEAN, i \in {"", "clientIds"}, u \in {<<>>, <<Alice>>}, b \in BOOLEAN}
StorageConfigs ==
    {c \in DataConfigs : \/ c.data.type = "" /\ c.data.host = ""
                         \/ c.data.mount = "/scratch" /\ ~c.cvmfs /\ ~c.monitoring /\ c.mode = ""}

\* Users and groups whose names and IDs may clash.
UserLists ==
    {<<>>} \cup {<<User("alice", i, g, s)>> : i \in {0, 10, 12}, g \in {"", "alice", "hpc"},
                                             s \in {<<>>, <<"hpc">>, <<"hpc", "alice">>}}
           \cup {<<User("alice", i, "", <<>>), User(n, j, g, <<>>)>> :
                   i \in {0, 11}, n \in {"alice", "bob"}, j \in {0, 10, 11}, g \in {"", "hpc", "alice"}}
GroupLists ==
    {<<>>} \cup {<<Group("hpc", i)>> : i \in {0, 10, 11, 16}}
           \cup {<<Group("alice", i), Group("hpc", j)>> : i \in {0, 11, 13}, j \in {0, 11}}
UserConfigs == {[Base EXCEPT !.users = u, !.groups = g] : u \in UserLists, g \in GroupLists}

\* Users and groups that images have, by name or by ID, on the nodes that
\* get them and on others.
Made(name, id) == [users |-> {[name |-> name, uid |-> id, gid |-> id]}, groups |-> {[name |-> name, gid |-> id]}]
Both(a, b) == [users |-> a.users \cup b.users, groups |-> a.groups \cup b.groups]
SindAccounts == Both(Both(Made("slurm", 1), Made("nobody", 12)), [users |-> {}, groups |-> {[name |-> "wheel", gid |-> 2]}])
NodeImages == [image \in {"sind", "site"} |-> IF image = "site" THEN Both(SindAccounts, Made("ubuntu", 10)) ELSE SindAccounts]
ImageConfigs ==
    {[Base EXCEPT !.users = u, !.groups = g, !.mode = i, !.defaults.image = x[1], !.nodes[5] = [@ EXCEPT !.image = x[2], !.managed = m]] :
        u \in {<<>>, <<User("slurm", 0, "", <<>>)>>, <<User("wheel", 0, "", <<>>)>>, <<User("wheel", 11, "hpc", <<>>)>>,
               <<User("alice", 10, "hpc", <<>>)>>},
        g \in {<<Group("hpc", 13)>>, <<Group("hpc", 0), Group("wheel", 0)>>}, i \in Modes,
        x \in {<<"", "">>, <<"", "site">>, <<"site", "">>, <<"site", "sind">>}, m \in {"unset", "no"}}

\* Slurm accounts and their users.
AccountLists ==
    {<<>>, <<Account("root", "")>>, <<Account("phys", "root")>>, <<Account("phys", ""), Account("phys", "")>>,
     <<Account("phys", ""), Account("theory", "phys")>>, <<Account("theory", "phys"), Account("phys", "")>>}
AccountConfigs ==
    {[Base EXCEPT !.accounts = a, !.nodes[2].managed = m,
                  !.users = <<[Alice EXCEPT !.accounts = s, !.coordinator = k, !.admin = l]>>] :
        a \in AccountLists, m \in {"unset", "no"}, s \in {<<>>, <<"phys">>, <<"phys", "theory">>},
        k \in {<<>>, <<"phys">>}, l \in {"", "operator"}}

\* Parameters that the sections set, one in each.
MainSections ==
    {NoKeys} \cup
    {Section(k, v) : k \in {"AuthType", "CredType", "AuthInfo", "LaunchParameters", "AuthAltTypes",
                            "MetricsType", "CommunicationParameters", "PrivateData", "SlurmctldHost",
                            "StateSaveLocation", "AuthAltParameters", "DefMemPerNode"},
                     v \in {{"other"}, {"other", "auth/slurm", "cred/slurm", "use_client_ids", "enable_nss_slurm",
                                        "auth/jwt", "disable_http", "/var/spool/slurmctld"}}}
DbdSections ==
    {NoKeys, Section("StorageHost", {"other"})} \cup
    {Section(k, {v}) : k \in {"AuthType", "AuthInfo", "AuthAltTypes"},
                       v \in {"auth/slurm", "munge", "use_client_ids", "jwt", "other"}}
SectionConfigs ==
    {[Base EXCEPT !.main = s, !.slurmdbd = d, !.mode = i, !.monitoring = TRUE,
                  !.nodes[1].backup = b, !.nodes[3].managed = a] :
        s \in MainSections, d \in DbdSections, i \in Modes, b \in BOOLEAN, a \in {"unset", "no"}}
OneSection == {c \in SectionConfigs : c.main = NoKeys \/ c.slurmdbd = NoKeys}

\* Task affinity and capabilities.
CapabilityConfigs ==
    {[Base EXCEPT !.nodes = <<Nodes("controller", "unset"), [Workers("unset", 1) EXCEPT !.capAdd = a],
                              [Workers(m, 1) EXCEPT !.capDrop = d]>>,
                  !.defaults = [@ EXCEPT !.capAdd = da, !.cpus = 2, !.memory = 300],
                  !.main = s] :
        a \in {{}, {"SYS_NICE"}}, m \in {"unset", "no"}, d \in {{}, {"SYS_NICE"}, {"ALL"}},
        da \in {{}, {"SYS_NICE"}, {"SYS_ADMIN"}},
        s \in {NoKeys, Section("TaskPlugin", {"affinity", "cgroup"}), Section("TaskPlugin", {"task/cgroup"})}}

Configs ==
    ShapeConfigs \cup OddConfigs \cup StorageConfigs \cup UserConfigs \cup ImageConfigs \cup AccountConfigs
      \cup OneSection \cup CapabilityConfigs
=============================================================================

--------------------------- MODULE MonitoringProofs ---------------------------
(***************************************************************************)
(* Proofs about the monitoring stack (Monitoring): for any clusters,       *)
(* versions, services, bounds and number of commands, faults and reboots,  *)
(* the stack stays for as long as a cluster that is up is monitored, a     *)
(* create that reports success leaves it whole, Alloy collects the nodes   *)
(* that there are or somebody was told, the delete of the last cluster     *)
(* leaves nothing of it (StackInv), and a node's journal is its own        *)
(* (OwnJournal).                                                           *)
(*                                                                         *)
(* The invariant is a conjunction, and few actions disturb all of it.  An  *)
(* action that does has a lemma, named for it with "Step", which proves    *)
(* every part; the others are plain, and the lemmas that begin with Plain  *)
(* show one part for all of them.  CommandNext says what a step makes of   *)
(* the command, and the lemmas before it where the phases of a removal     *)
(* and of a rollback go on.                                                *)
(***************************************************************************)
EXTENDS Monitoring, TLAPS

\* The invariant but for the types.
StackParts ==
  /\ PhaseInv /\ NodesInv /\ JournalInv /\ ServicesInv /\ AlloyInv
  /\ StackStays /\ StackComplete /\ Collected /\ NothingLeft

\* What no step of a removal or of a rollback changes of its command.
SameCommand(r) ==
  /\ r \in Command
  /\ r.op = cmd.op /\ r.c = cmd.c /\ r.mon = cmd.mon /\ r.version = cmd.version
  /\ r.made = cmd.made /\ r.claimed = cmd.claimed /\ r.stack = cmd.stack
  /\ r.canceled = cmd.canceled /\ r.copy = cmd.copy /\ r.i = cmd.i /\ r.conf = cmd.conf

\* Nor, unless it failed, the rest of it.
KeptCommand(r) ==
  /\ SameCommand(r)
  /\ r.failed = cmd.failed /\ r.errs = cmd.errs
  /\ r.deregister = cmd.deregister /\ r.rmMesh = cmd.rmMesh

\* Where it goes on, done with the resources of its cluster.
AfterIn(r, err) ==
  /\ SameCommand(r)
  /\ r.errs = (cmd.errs \/ err) /\ r.failed = (cmd.failed \/ err) /\ r.forget = {}
  /\ r.deregister = cmd.deregister /\ r.rmMesh = cmd.rmMesh
  /\ r.pc = IF cmd.op = "create" THEN "keep"
            ELSE IF cmd.op = "delete" /\ ~err /\ cmd.rmMesh THEN "rmStack" ELSE "ended"

\* Where a command goes on after an error.
FailsIn(r) ==
  /\ r \in Command /\ r.failed /\ ~r.canceled /\ r.todo = {} /\ ~r.copy
  /\ r.pc = IF ~Claims THEN "ended" ELSE IF cmd.op = "create" THEN "rollback" ELSE "containers"
  /\ r.op = cmd.op /\ r.c = cmd.c /\ r.mon = cmd.mon /\ r.version = cmd.version
  /\ r.made = cmd.made /\ r.claimed = cmd.claimed /\ r.errs = cmd.errs
  /\ r.deregister = cmd.deregister /\ r.forget = cmd.forget
  /\ r.rmMesh = cmd.rmMesh /\ r.conf = cmd.conf /\ r.i = cmd.i

\* What an error makes of the command.
LEMMA FailedIs ==
  ASSUME cmd \in Command
  PROVE  FailsIn(Failed) /\ Failed.stack = cmd.stack
<1> DEFINE p == IF ~Claims THEN "ended" ELSE IF cmd.op = "create" THEN "rollback" ELSE "containers"
<1>1. p \in Phases
  BY DEF Phases, Undoing
<1>2. Failed = [cmd EXCEPT !.failed = TRUE, !.canceled = FALSE, !.todo = {}, !.copy = FALSE, !.pc = p]
  BY DEF Failed
<1> HIDE DEF p
<1>3. Failed \in Command
  BY <1>1, <1>2 DEF Command
<1>4. Failed.pc = p
  BY <1>1, <1>2 DEF Command
<1> QED
  BY <1>2, <1>3, <1>4 DEF Command, p, FailsIn

\* An error of the stack also says whether the command had made it.
LEMMA StackFailedIs ==
  ASSUME cmd \in Command
  PROVE  FailsIn(StackFailed) /\ StackFailed.stack = ~cmd.exists
<1>1. StackFailed = [Failed EXCEPT !.stack = ~cmd.exists]
  BY DEF StackFailed
<1>2. cmd.exists \in BOOLEAN
  BY DEF Command
<1>3. Failed \in Command
  BY FailedIs DEF FailsIn
<1> QED
  BY <1>1, <1>2, <1>3, FailedIs DEF Command, FailsIn

\* Where a command goes on once the resources of its cluster are gone.
LEMMA AfterIs ==
  ASSUME cmd \in Command, NEW err \in BOOLEAN
  PROVE  AfterIn(AfterResources(err), err)
<1> DEFINE p == IF cmd.op = "create" THEN "keep"
                ELSE IF cmd.op = "delete" /\ ~err /\ cmd.rmMesh THEN "rmStack" ELSE "ended"
           e == cmd.errs \/ err
           f == cmd.failed \/ err
           b == [cmd EXCEPT !.errs = e, !.failed = f, !.forget = {}]
<1>1. p \in Phases /\ e \in BOOLEAN /\ f \in BOOLEAN
  BY DEF Phases, Undoing, Cleaning, Command
<1>2. AfterResources(err) = [b EXCEPT !.pc = p]
  <2>1. b.rmMesh = cmd.rmMesh
    BY DEF Command
  <2> HIDE DEF b
  <2>2. AfterResources(err) = CASE cmd.op = "create" -> [b EXCEPT !.pc = "keep"]
                                [] cmd.op = "delete" /\ ~err /\ cmd.rmMesh
                                    -> [b EXCEPT !.pc = "rmStack"]
                                [] OTHER -> [b EXCEPT !.pc = "ended"]
    BY DEF AfterResources, b
  <2> QED
    BY <2>2
<1> HIDE DEF p, e, f
<1>3. b \in Command /\ SameCommand(b)
  BY <1>1 DEF Command, SameCommand
<1>4. /\ b.errs = e /\ b.failed = f /\ b.forget = {}
      /\ b.deregister = cmd.deregister /\ b.rmMesh = cmd.rmMesh
  BY <1>1 DEF Command
<1> HIDE DEF b
<1>5. AfterResources(err).pc = p /\ SameCommand(AfterResources(err))
  BY <1>1, <1>2, <1>3 DEF Command, SameCommand
<1>6. /\ AfterResources(err).errs = e /\ AfterResources(err).failed = f
      /\ AfterResources(err).forget = {}
      /\ AfterResources(err).deregister = cmd.deregister
      /\ AfterResources(err).rmMesh = cmd.rmMesh
  BY <1>1, <1>2, <1>3, <1>4 DEF Command
<1> QED
  BY <1>5, <1>6 DEF p, e, f, AfterIn

\* No command.
LEMMA NoneIs ==
  /\ NoCommand \in Command
  /\ NoCommand.pc = "idle" /\ NoCommand.op = "none" /\ NoCommand.c = "none"
  /\ ~NoCommand.mon /\ ~NoCommand.claimed /\ ~NoCommand.made /\ ~NoCommand.copy
  /\ ~NoCommand.canceled /\ ~NoCommand.failed /\ ~NoCommand.errs /\ ~NoCommand.stack
  /\ ~NoCommand.rmMesh /\ NoCommand.forget = {} /\ NoCommand.todo = {}
  BY DEF NoCommand, Command, Phases, Ops

\* What a delete knows once it has looked for other clusters.
LEMMA OthersMoves ==
  ASSUME cmd \in Command, HasOtherClusters
  PROVE  \/ FailsIn(cmd') /\ cmd'.stack = cmd.stack
         \/ /\ SameCommand(cmd') /\ cmd'.pc = "list" /\ cmd'.failed = cmd.failed
            /\ cmd'.errs = cmd.errs /\ cmd'.forget = cmd.forget
            /\ cmd'.rmMesh = (Others(cmd.c) = {}) /\ cmd'.deregister = (Others(cmd.c) # {})
<1> DEFINE last == Others(cmd.c) = {}
<1>1. CASE cmd' = Failed
  BY <1>1, FailedIs
<1>2. CASE cmd' = [cmd EXCEPT !.pc = "list", !.deregister = ~last, !.rmMesh = last, !.rmStack = last]
  <2>1. last \in BOOLEAN /\ "list" \in Phases
    BY DEF Phases, Undoing
  <2> HIDE DEF last
  <2>2. /\ SameCommand(cmd') /\ cmd'.pc = "list" /\ cmd'.failed = cmd.failed
        /\ cmd'.errs = cmd.errs /\ cmd'.forget = cmd.forget
        /\ cmd'.rmMesh = last /\ cmd'.deregister = ~last
    BY <1>2, <2>1 DEF Command, SameCommand
  <2> QED
    BY <2>2 DEF last
<1> QED
  BY <1>1, <1>2 DEF HasOtherClusters

\* Whether a rollback may remove the mesh.
LEMMA RollbackMoves ==
  ASSUME cmd \in Command, RollbackRemovesMesh
  PROVE  /\ SameCommand(cmd') /\ cmd'.pc = IF cmd.claimed THEN "list" ELSE "keep"
         /\ cmd'.failed = cmd.failed /\ cmd'.errs = cmd.errs /\ cmd'.forget = cmd.forget
         /\ cmd'.deregister = ~cmd'.rmMesh
         /\ cmd'.rmMesh => (IF cmd.claimed THEN Others(cmd.c) ELSE containers) = {}
<1>1. PICK o \in {"ok", "failed"} :
        cmd' = [cmd EXCEPT !.rmMesh = cmd.made /\ o = "ok"
                              /\ (IF cmd.claimed THEN Others(cmd.c) ELSE containers) = {},
                           !.deregister = ~(cmd.made /\ o = "ok"
                              /\ (IF cmd.claimed THEN Others(cmd.c) ELSE containers) = {}),
                           !.pc = IF cmd.claimed THEN "list" ELSE "keep"]
  BY DEF RollbackRemovesMesh
<1> DEFINE last == (IF cmd.claimed THEN Others(cmd.c) ELSE containers) = {}
           m == cmd.made /\ o = "ok" /\ last
           p == IF cmd.claimed THEN "list" ELSE "keep"
<1>2. cmd' = [cmd EXCEPT !.rmMesh = m, !.deregister = ~m, !.pc = p]
  BY <1>1
<1>3. m \in BOOLEAN /\ p \in Phases
  BY DEF Phases, Undoing
<1>4. m => last
  OBVIOUS
<1> HIDE DEF m, p, last
<1>5. SameCommand(cmd') /\ cmd'.pc = p
  BY <1>2, <1>3 DEF Command, SameCommand
<1>6. /\ cmd'.failed = cmd.failed /\ cmd'.errs = cmd.errs /\ cmd'.forget = cmd.forget
      /\ cmd'.rmMesh = m /\ cmd'.deregister = ~m
  BY <1>2, <1>3 DEF Command
<1> QED
  BY <1>4, <1>5, <1>6 DEF p, last

\* What of the nodes of the cluster is to be deregistered, once they are listed.
LEMMA ListMoves ==
  ASSUME cmd \in Command, mounts \subseteq Nodes, ListResources
  PROVE  \/ AfterIn(cmd', TRUE)
         \/ cmd.op # "remove" /\ Of(cmd.c) = {} /\ AfterIn(cmd', FALSE)
         \/ /\ KeptCommand(cmd') /\ cmd'.pc = "containers"
            /\ cmd'.forget = IF ~cmd.deregister /\ cmd.op # "remove" THEN {}
                             ELSE {t \in mounts :
                                 t[1] = cmd.c /\ (cmd.op = "remove" => t[2] = "worker")}
<1> DEFINE F == IF ~cmd.deregister /\ cmd.op # "remove" THEN {}
                ELSE {t \in mounts : t[1] = cmd.c /\ (cmd.op = "remove" => t[2] = "worker")}
<1>1. \/ cmd' = AfterResources(TRUE)
      \/ cmd.op # "remove" /\ Of(cmd.c) = {} /\ cmd' = AfterResources(FALSE)
      \/ cmd' = [cmd EXCEPT !.pc = "containers", !.forget = F]
  BY DEF ListResources, Taken
<1>2. F \in SUBSET (Nodes \cup Places) /\ "containers" \in Phases
  BY DEF Phases, Undoing
<1> HIDE DEF F
<1>3. CASE cmd' = [cmd EXCEPT !.pc = "containers", !.forget = F]
  <2>1. KeptCommand(cmd') /\ cmd'.pc = "containers" /\ cmd'.forget = F
    BY <1>2, <1>3 DEF Command, SameCommand, KeptCommand
  <2> QED
    BY <2>1 DEF F
<1> QED
  BY <1>1, <1>3, AfterIs

\* A command that has removed nodes has directories to forget.
LEMMA ForgetIs ==
  ASSUME cmd \in Command, NEW p \in Phases, NEW D \in SUBSET (Nodes \cup Places),
         cmd' = [cmd EXCEPT !.pc = p, !.forget = D]
  PROVE  KeptCommand(cmd') /\ cmd'.pc = p /\ cmd'.forget = D
  BY DEF Command, SameCommand, KeptCommand

\* A change of phase alone.
LEMMA GotoIs ==
  ASSUME cmd \in Command, NEW p \in Phases, cmd' = [cmd EXCEPT !.pc = p]
  PROVE  KeptCommand(cmd') /\ cmd'.pc = p /\ cmd'.forget = cmd.forget
  BY DEF Command, SameCommand, KeptCommand

\* Where a command goes on once the network and the volumes are gone.
LEMMA NetvolMoves ==
  ASSUME cmd \in Command, DOMAIN journals \subseteq Places, DeleteNetworkAndVolumes
  PROVE  \/ AfterIn(cmd', TRUE)
         \/ cmd.forget = {} /\ AfterIn(cmd', FALSE)
         \/ cmd.forget # {} /\ KeptCommand(cmd') /\ cmd'.pc = "fstart" /\ cmd'.forget = DirsOf(cmd.c)
<1>1. DirsOf(cmd.c) \in SUBSET (Nodes \cup Places) /\ "fstart" \in Phases
  BY DEF DirsOf, Phases, Undoing, Forgetting
<1>2. \/ cmd' = AfterResources(TRUE)
      \/ cmd.forget = {} /\ cmd' = AfterResources(FALSE)
      \/ cmd.forget # {} /\ cmd' = [cmd EXCEPT !.pc = "fstart", !.forget = DirsOf(cmd.c)]
  BY DEF DeleteNetworkAndVolumes
<1> QED
  BY <1>1, <1>2, AfterIs, ForgetIs

\* Alloy was told, or a warning says that it may be behind.
LEMMA WarnedIs ==
  ASSUME cmd \in Command, Warned
  PROVE  /\ behind' = TRUE
         /\ \/ cmd.op # "on" /\ AfterIn(cmd', FALSE)
            \/ cmd.op = "on" /\ SameCommand(cmd') /\ cmd'.pc = "ended" /\ cmd'.failed
               /\ cmd'.errs = cmd.errs /\ cmd'.rmMesh = cmd.rmMesh
<1>1. CASE cmd.op = "on"
  <2>1. cmd' = [cmd EXCEPT !.pc = "ended", !.failed = TRUE]
    BY <1>1 DEF Warned
  <2> QED
    BY <1>1, <2>1 DEF Warned, Command, SameCommand, Phases
<1>2. CASE cmd.op # "on"
  BY <1>2, AfterIs DEF Warned
<1> QED
  BY <1>1, <1>2

\* Where it goes on once the stack is started again to forget the nodes.
LEMMA StartMoves ==
  ASSUME cmd \in Command, StartStack
  PROVE  \/ (\A s \in Service : ~Exists(s)) /\ AfterIn(cmd', FALSE) /\ behind' = behind
         \/ /\ \A s \in Service : service'[s].state = "running"
            /\ KeptCommand(cmd') /\ cmd'.pc = (IF cmd.op = "on" THEN "ended" ELSE "fsync")
            /\ cmd'.forget = cmd.forget /\ behind' = behind
         \/ Warned
<1>1. \/ (\A s \in Service : ~Exists(s)) /\ cmd' = AfterResources(FALSE) /\ behind' = behind
      \/ /\ \A s \in Service : service'[s].state = "running"
         /\ cmd' = [cmd EXCEPT !.pc = IF cmd.op = "on" THEN "ended" ELSE "fsync"]
         /\ behind' = behind
      \/ Warned
  BY DEF StartStack
<1>2. (IF cmd.op = "on" THEN "ended" ELSE "fsync") \in Phases
  BY DEF Phases, Undoing, Forgetting
<1> QED
  BY <1>1, <1>2, AfterIs, GotoIs

\* Where it goes on once Alloy was told, or could not be.
LEMMA SyncMoves ==
  ASSUME cmd \in Command, ForgetSync
  PROVE  \/ Warned
         \/ /\ behind' = FALSE /\ alloy' = [file |-> mounts, runs |-> mounts]
            /\ \/ cmd.forget = {} /\ AfterIn(cmd', FALSE)
               \/ KeptCommand(cmd') /\ cmd'.pc = "fjournals" /\ cmd'.forget = cmd.forget
<1>1. \/ Warned
      \/ /\ behind' = FALSE /\ alloy' = [file |-> mounts, runs |-> mounts]
         /\ \/ cmd.forget = {} /\ cmd' = AfterResources(FALSE)
            \/ cmd' = [cmd EXCEPT !.pc = "fjournals"]
  BY DEF ForgetSync, Synced, MonitoringTargets
<1>2. "fjournals" \in Phases
  BY DEF Phases, Undoing, Forgetting
<1> QED
  BY <1>1, <1>2, AfterIs, GotoIs

\* Where it goes on once the journals are gone.
LEMMA JournalsMoves ==
  ASSUME cmd \in Command, RemoveJournals
  PROVE  AfterIn(cmd', FALSE)
  BY AfterIs DEF RemoveJournals

\* Whether a rollback goes on to remove the stack.
LEMMA KeepMoves ==
  ASSUME cmd \in Command, RollbackKeepsStack
  PROVE  /\ KeptCommand(cmd')
         /\ \/ cmd'.pc = "ended" /\ ~cmd.rmMesh
            \/ cmd'.pc = "rmStack" /\ (cmd.rmMesh \/ (cmd.stack /\ ~OtherMonitored))
<1>1. PICK o \in {"ok", "failed"} :
        cmd' = [cmd EXCEPT !.rmStack = cmd.rmMesh \/ (cmd.stack /\ o = "ok" /\ ~OtherMonitored),
                  !.pc = IF cmd.rmMesh \/ (cmd.stack /\ o = "ok" /\ ~OtherMonitored)
                           THEN "rmStack" ELSE "ended"]
  BY DEF RollbackKeepsStack
<1> DEFINE rm == cmd.rmMesh \/ (cmd.stack /\ o = "ok" /\ ~OtherMonitored)
           p == IF rm THEN "rmStack" ELSE "ended"
<1>2. rm \in BOOLEAN /\ p \in Phases
  BY DEF Command, Phases, Undoing, Cleaning
<1>3. cmd' = [cmd EXCEPT !.rmStack = rm, !.pc = p]
  BY <1>1
<1>4. /\ rm => cmd.rmMesh \/ (cmd.stack /\ ~OtherMonitored)
      /\ ~rm => ~cmd.rmMesh
  OBVIOUS
<1>5. p = IF rm THEN "rmStack" ELSE "ended"
  OBVIOUS
<1> HIDE DEF rm, p
<1>6. KeptCommand(cmd') /\ cmd'.pc = p
  BY <1>2, <1>3 DEF Command, SameCommand, KeptCommand
<1> QED
  BY <1>4, <1>5, <1>6

\* What clusters a delete of all of them goes through.
LEMMA NamesMoves ==
  ASSUME cmd \in Command, RealmClusterNames
  PROVE  \/ FailsIn(cmd') /\ cmd'.stack = cmd.stack
         \/ KeptCommand(cmd') /\ cmd'.pc = "all" /\ cmd'.forget = cmd.forget
                /\ cmd'.todo = {c \in Cluster : Taken(c)}
<1> DEFINE T == {c \in Cluster : Taken(c)}
<1>1. cmd' = Failed \/ cmd' = [cmd EXCEPT !.pc = "all", !.todo = T]
  BY DEF RealmClusterNames
<1>2. T \in SUBSET (Cluster \cup {"netvol", "journal", "dirs"}) /\ "all" \in Phases
  BY DEF Phases
<1> HIDE DEF T
<1>3. CASE cmd' = [cmd EXCEPT !.pc = "all", !.todo = T]
  <2>1. KeptCommand(cmd') /\ cmd'.pc = "all" /\ cmd'.forget = cmd.forget /\ cmd'.todo = T
    BY <1>2, <1>3 DEF Command, SameCommand, KeptCommand
  <2> QED
    BY <2>1 DEF T
<1> QED
  BY <1>1, <1>3, FailedIs

\* The containers that a removal is to remove and those that stay.
LEMMA ContainersMoves ==
  ASSUME MonitoringTypeOK, DeleteContainers, cmd.c \in Cluster,
         cmd.op = "remove" => cmd.forget \subseteq {t \in mounts : t[1] = cmd.c /\ t[2] = "worker"}
  PROVE  \E o \in {"ok", "failed"}, stay \in SUBSET Targets :
           /\ o = "ok" => stay = {}
           /\ containers' = containers \ (Targets \ stay) /\ mounts' = mounts \ (Targets \ stay)
           /\ spared' = IF o = "ok" THEN spared ELSE spared \cup stay
           /\ IF cmd.op = "add"
                THEN /\ SameCommand(cmd') /\ cmd'.pc = "fstart" /\ cmd'.failed = cmd.failed
                     /\ cmd'.errs = (o # "ok") /\ cmd'.forget = {<<cmd.c, "worker">>}
                     /\ cmd'.rmMesh = cmd.rmMesh
              ELSE IF o = "failed" THEN AfterIn(cmd', TRUE)
              ELSE IF cmd.op # "remove"
                  THEN KeptCommand(cmd') /\ cmd'.pc = "netvol" /\ cmd'.forget = cmd.forget
              ELSE IF cmd.forget = {} THEN AfterIn(cmd', FALSE)
              ELSE KeptCommand(cmd') /\ cmd'.pc = "fstart"
                  /\ cmd'.forget \subseteq {<<cmd.c, "worker">>}
<1>0. cmd \in Command /\ mounts \subseteq Nodes
  BY DEF MonitoringTypeOK
<1>1. PICK o \in {"ok", "failed"}, stay \in SUBSET Targets :
         /\ o = "ok" => stay = {}
         /\ containers' = containers \ (Targets \ stay)
         /\ mounts' = mounts \ (Targets \ stay)
         /\ spared' = IF o = "ok" THEN spared ELSE spared \cup stay
         /\ cmd' = IF cmd.op = "add"
                THEN [cmd EXCEPT !.pc = "fstart", !.errs = o # "ok", !.forget = {<<cmd.c, "worker">>}]
              ELSE IF o = "failed" THEN AfterResources(TRUE)
              ELSE IF cmd.op # "remove" THEN [cmd EXCEPT !.pc = "netvol"]
              ELSE IF cmd.forget = {} THEN AfterResources(FALSE)
              ELSE [cmd EXCEPT !.pc = "fstart", !.forget = Dirs(cmd.forget)]
  BY DEF DeleteContainers
<1>2. {"fstart", "netvol"} \subseteq Phases
  BY DEF Phases, Undoing, Forgetting
<1>3. CASE cmd.op = "add"
  <2> DEFINE e == o # "ok"
             D == {<<cmd.c, "worker">>}
  <2>1. e \in BOOLEAN /\ D \in SUBSET (Nodes \cup Places)
    BY DEF Places, Kinds
  <2>2. cmd' = [cmd EXCEPT !.pc = "fstart", !.errs = e, !.forget = D]
    BY <1>1, <1>3
  <2> HIDE DEF e, D
  <2>3. /\ SameCommand(cmd') /\ cmd'.pc = "fstart" /\ cmd'.failed = cmd.failed
        /\ cmd'.errs = e /\ cmd'.forget = D /\ cmd'.rmMesh = cmd.rmMesh
    BY <1>0, <1>2, <2>1, <2>2 DEF Command, SameCommand
  <2> QED
    BY <1>1, <1>3, <2>3 DEF e, D
<1>4. CASE cmd.op # "add" /\ o = "failed"
  <2>1. AfterIn(cmd', TRUE)
    BY <1>0, <1>1, <1>4, AfterIs
  <2> QED
    BY <1>1, <1>4, <2>1
<1>5. CASE cmd.op # "add" /\ o # "failed" /\ cmd.op # "remove"
  <2>1. KeptCommand(cmd') /\ cmd'.pc = "netvol" /\ cmd'.forget = cmd.forget
    BY <1>0, <1>1, <1>2, <1>5, GotoIs
  <2> QED
    BY <1>1, <1>5, <2>1
<1>6. CASE o # "failed" /\ cmd.op = "remove" /\ cmd.forget = {}
  <2>1. AfterIn(cmd', FALSE)
    BY <1>0, <1>1, <1>6, AfterIs
  <2> QED
    BY <1>1, <1>6, <2>1
<1>7. CASE o # "failed" /\ cmd.op = "remove" /\ cmd.forget # {}
  <2>1. Dirs(cmd.forget) \subseteq {<<cmd.c, "worker">>}
    BY <1>7 DEF Dirs
  <2>2. Dirs(cmd.forget) \in SUBSET (Nodes \cup Places)
    BY <2>1 DEF Places, Kinds
  <2>3. cmd' = [cmd EXCEPT !.pc = "fstart", !.forget = Dirs(cmd.forget)]
    BY <1>1, <1>7
  <2>4. KeptCommand(cmd') /\ cmd'.pc = "fstart" /\ cmd'.forget = Dirs(cmd.forget)
    BY <1>0, <1>2, <2>2, <2>3, ForgetIs
  <2> QED
    BY <1>1, <1>7, <2>1, <2>4
<1> QED
  BY <1>3, <1>4, <1>5, <1>6, <1>7

\* A command that is done with the resources of its cluster ends with an error,
\* or it was no create and no add and it is not the last delete.
LEMMA AfterEnds ==
  ASSUME cmd \in Command, StackInv,
         cmd.pc \in {"list", "containers", "netvol", "fstart", "fsync", "fjournals"},
         AfterIn(cmd', TRUE) \/ AfterIn(cmd', FALSE) \/ cmd'.pc # "ended"
  PROVE  StackComplete' /\ NothingLeft'
<1>0. PhaseInv
  BY DEF StackInv
<1>1. cmd.pc \in Undoing /\ (cmd.op = "deleteAll" => cmd.failed)
  BY <1>0 DEF PhaseInv, Undoing, Forgetting, At
<1>2. cmd.mon => cmd.op \in {"create", "add"} /\ cmd.failed
  BY <1>0, <1>1 DEF PhaseInv
<1>3. ASSUME NEW err \in BOOLEAN, AfterIn(cmd', err)
      PROVE  \/ cmd'.pc # "ended" \/ cmd'.failed
             \/ ~cmd'.mon /\ ~(cmd'.op \in {"delete", "deleteAll"} /\ cmd'.rmMesh)
  <2>1. cmd'.op = cmd.op /\ cmd'.mon = cmd.mon /\ cmd'.rmMesh = cmd.rmMesh
        /\ (cmd.failed \/ err => cmd'.failed)
    BY <1>3 DEF AfterIn, SameCommand
  <2>2. cmd.op = "create" \/ (cmd.op = "delete" /\ ~err /\ cmd.rmMesh) => cmd'.pc # "ended"
    BY <1>3 DEF AfterIn
  <2> QED
    BY <1>1, <1>2, <2>1, <2>2
<1>4. \/ cmd'.pc # "ended" \/ cmd'.failed
      \/ ~cmd'.mon /\ ~(cmd'.op \in {"delete", "deleteAll"} /\ cmd'.rmMesh)
  BY <1>3
<1> QED
  BY <1>4 DEF StackComplete, NothingLeft, At

\* What a command stays on its way through ensureMonitoring.
StaysIn(r) ==
  /\ r \in Command
  /\ r.op = cmd.op /\ r.c = cmd.c /\ r.mon = cmd.mon /\ r.version = cmd.version
  /\ r.made = cmd.made /\ r.claimed = cmd.claimed /\ r.canceled = cmd.canceled
  /\ r.failed = cmd.failed /\ r.errs = cmd.errs /\ r.deregister = cmd.deregister
  /\ r.forget = cmd.forget /\ r.rmMesh = cmd.rmMesh
OnwardIn(r, pc, i, copy) == StaysIn(r) /\ r.pc = pc /\ r.i = i /\ r.copy = copy /\ r.conf = cmd.conf

\* While a command ensures the stack, it stays with Alloy as it must be if no
\* step makes Alloy fall behind.
LEMMA EnsuringAlloy ==
  ASSUME StackInv, cmd \in Command,
         cmd.pc \in Ensuring, mounts' = mounts, containers' = containers,
         \/ FailsIn(cmd')
         \/ StaysIn(cmd') /\ cmd'.conf = mounts /\ cmd'.pc \in {"volumes", "services", "sync"}
         \/ StaysIn(cmd') /\ cmd'.pc = "dns" /\ Follows' /\ ~behind',
         Follows => Follows', alloy'.runs # {} => Running("alloy")'
  PROVE  AlloyInv'
<1>1. /\ cmd'.op = cmd.op /\ cmd'.c = cmd.c /\ cmd'.claimed = cmd.claimed
      /\ cmd.op \in {"create", "add"} /\ (cmd.op = "create" => cmd.claimed)
  BY DEF FailsIn, StaysIn, StackInv, PhaseInv
<1>2. /\ cmd.op = "add" => Follows'
      /\ cmd.op = "create" => Follows' \/ (cmd'.claimed /\ MountsOf(cmd.c)' # {})
  BY <1>1 DEF StackInv, AlloyInv, MountsOf
<1>3. CASE FailsIn(cmd')
  <2>1. cmd'.pc \in {"ended", "rollback", "containers"}
        /\ (cmd'.pc = "ended" => cmd.op = "add") /\ (cmd'.pc = "containers" => cmd.op = "add")
    BY <1>1, <1>3 DEF FailsIn, Claims
  <2> QED
    BY <1>1, <1>2, <2>1 DEF AlloyInv, Ensuring, Making, At
<1>4. CASE StaysIn(cmd') /\ cmd'.conf = mounts /\ cmd'.pc \in {"volumes", "services", "sync"}
  BY <1>1, <1>2, <1>4 DEF AlloyInv, Ensuring, Making, At
<1>5. CASE StaysIn(cmd') /\ cmd'.pc = "dns" /\ Follows' /\ ~behind'
  BY <1>1, <1>5 DEF AlloyInv, Ensuring, Making, At
<1> QED
  BY <1>3, <1>4, <1>5

\* A command that begins is one.
LEMMA BeginIs ==
  ASSUME NEW op \in Ops \ {"none"}, NEW c \in Cluster \cup {"none"}, NEW mon \in BOOLEAN,
         NEW v \in Version \cup {0}, Begin(op, c, mon, v)
  PROVE  cmd' \in Command
<1> DEFINE p == CASE op = "create" -> "mesh" [] op = "add" -> "ensure"
                  [] op = "remove" -> "list" [] op = "on" -> "fstart"
                  [] op = "delete" -> "others" [] op = "deleteAll" -> "names"
<1>1. p \in Phases
  BY DEF Ops, Phases, Making, Ensuring, Undoing, Forgetting
<1>2. cmd' = [NoCommand EXCEPT !.op = op, !.c = c, !.mon = mon, !.version = v, !.pc = p]
  BY DEF Begin
<1> HIDE DEF p
<1> QED
  BY <1>1, <1>2, NoneIs DEF Command

\* Every step leaves a command, whichever it is.
LEMMA CommandNext ==
  ASSUME StackInv, [Next]_monVars
  PROVE  cmd' \in Command
<1>0. /\ cmd \in Command /\ MonitoringTypeOK
      /\ mounts \subseteq Nodes /\ DOMAIN journals \subseteq Places /\ realmMesh \in BOOLEAN
  BY DEF StackInv, MonitoringTypeOK
<1>1. ASSUME NEW c \in Cluster, NEW v \in Version, NEW mon \in BOOLEAN, BeginCreate(c, mon, v)
      PROVE  cmd' \in Command
  BY <1>1, BeginIs DEF BeginCreate, Ops
<1>2. ASSUME NEW c \in Cluster, NEW v \in Version, BeginAdd(c, v)
      PROVE  cmd' \in Command
  BY <1>2, BeginIs DEF BeginAdd, Ops
<1>3. ASSUME NEW c \in Cluster, BeginRemove(c) \/ BeginDelete(c)
      PROVE  cmd' \in Command
  BY <1>3, BeginIs DEF BeginRemove, BeginDelete, Ops
<1>4. CASE BeginPowerOn \/ BeginDeleteAll
  BY <1>4, BeginIs DEF BeginPowerOn, BeginDeleteAll, Ops
<1>5. ASSUME NEW c \in Cluster, DeleteOne(c)
      PROVE  cmd' \in Command
  <2>1. PICK f \in BOOLEAN : cmd' = [cmd EXCEPT !.todo = cmd.todo \ {c}, !.failed = f]
    BY <1>5 DEF DeleteOne
  <2> QED
    BY <1>0, <2>1 DEF Command
<1>6. CASE EnsureMesh
  <2>1. PICK f \in BOOLEAN : cmd' = [cmd EXCEPT !.pc = "preflight", !.made = f]
    BY <1>6 DEF EnsureMesh
  <2> QED
    BY <1>0, <2>1 DEF Command, Phases, Making
<1>7. CASE Preflight
  <2> DEFINE T == {"netvol"} \cup (IF cmd.mon THEN {"journal", "dirs"} ELSE {})
  <2>1. cmd' = Failed \/ cmd' = [cmd EXCEPT !.pc = "resources", !.claimed = TRUE, !.todo = T]
    BY <1>7 DEF Preflight
  <2>2. T \in SUBSET (Cluster \cup {"netvol", "journal", "dirs"}) /\ "resources" \in Phases
    BY DEF Phases, Making
  <2> HIDE DEF T
  <2>3. CASE cmd' = [cmd EXCEPT !.pc = "resources", !.claimed = TRUE, !.todo = T]
    BY <1>0, <2>2, <2>3 DEF Command
  <2> QED
    BY <1>0, <2>1, <2>3, FailedIs DEF FailsIn
<1>8. CASE CreateNetworkAndVolumes \/ CreateJournalVolume \/ ResetClusterJournals
  <2>1. PICK b, o : Branch(b, o)
    BY <1>8 DEF CreateNetworkAndVolumes, CreateJournalVolume, ResetClusterJournals
  <2> DEFINE T == IF o = "ok" THEN cmd.todo \ {b} ELSE cmd.todo \ {b, "dirs"}
             f == cmd.canceled \/ o # "ok"
  <2>2. cmd' = [cmd EXCEPT !.todo = T, !.canceled = f]
    BY <2>1 DEF Branch
  <2>3. T \in SUBSET (Cluster \cup {"netvol", "journal", "dirs"}) /\ f \in BOOLEAN
    BY <1>0 DEF Command
  <2> HIDE DEF T, f
  <2> QED
    BY <1>0, <2>2, <2>3 DEF Command
<1>9. CASE Prepared \/ RegisterStackDNS \/ Done \/ SyncMonitoring \/ CreateNodes \/ CreateWorker
  <2>1. cmd' = Failed \/ \E p \in Phases : cmd' = [cmd EXCEPT !.pc = p]
    BY <1>9 DEF Prepared, RegisterStackDNS, Done, SyncMonitoring, CreateNodes,
      CreateWorker, MakeNodes,
                Step, Phases, Making, Ensuring, Adding
  <2> QED
    BY <1>0, <2>1, FailedIs DEF Command, FailsIn
<1>10. CASE Canceled
  BY <1>0, <1>10 DEF Canceled, Command
<1>11. CASE EnsureMonitoring
  <2>1. cmd' = Failed \/ \E e \in BOOLEAN :
            cmd' = [cmd EXCEPT !.pc = "volumes", !.exists = e, !.conf = mounts, !.i = 1]
    BY <1>11 DEF EnsureMonitoring, MonitoringTargets, Exists
  <2>2. CASE \E e \in BOOLEAN :
                 cmd' = [cmd EXCEPT !.pc = "volumes", !.exists = e, !.conf = mounts, !.i = 1]
    <3> DEFINE n == 1
    <3>1. n \in Nat \ {0} /\ "volumes" \in Phases
      BY DEF Phases, Ensuring
    <3>2. PICK e \in BOOLEAN :
              cmd' = [cmd EXCEPT !.pc = "volumes", !.exists = e, !.conf = mounts, !.i = n]
      BY <2>2
    <3> HIDE DEF n
    <3> QED
      BY <1>0, <3>1, <3>2 DEF Command
  <2> QED
    BY <1>0, <2>1, <2>2, FailedIs DEF FailsIn
<1>12. CASE CreateVolumes \/ RemoveOutdated \/ WaitReady
  <2>1. \/ cmd' \in {StackFailed, cmd}
        \/ \E p \in {"services", "sync"} : cmd' = [cmd EXCEPT !.pc = p]
    BY <1>12 DEF CreateVolumes, RemoveOutdated, WaitReady, StackStep
  <2> QED
    BY <1>0, <2>1, StackFailedIs DEF Command, FailsIn, Phases, Ensuring
<1>13. CASE CreateContainer \/ CopyFiles
  <2>1. cmd' = StackFailed \/ \E b \in BOOLEAN : cmd' = [cmd EXCEPT !.copy = b]
    BY <1>13 DEF CreateContainer, CopyFiles, StackStep
  <2> QED
    BY <1>0, <2>1, StackFailedIs DEF Command, FailsIn
<1>14. CASE StartContainer
  <2>1. cmd' = StackFailed \/ cmd' = [cmd EXCEPT !.i = cmd.i + 1]
    BY <1>14 DEF StartContainer, StackStep
  <2>2. cmd.i + 1 \in Nat \ {0}
    BY <1>0 DEF Command
  <2> QED
    BY <1>0, <2>1, <2>2, StackFailedIs DEF Command, FailsIn
<1>15. CASE Sync
  <2>1. cmd' = StackFailed \/ \E b \in BOOLEAN : cmd' = [cmd EXCEPT !.pc = "dns", !.stack = b]
    BY <1>15 DEF Sync, StackStep
  <2>2. ASSUME NEW b \in BOOLEAN, cmd' = [cmd EXCEPT !.pc = "dns", !.stack = b]
        PROVE  cmd' \in Command
    BY <1>0, <2>2 DEF Command, Phases, Ensuring
  <2> QED
    BY <1>0, <2>1, <2>2, StackFailedIs DEF FailsIn
<1>16. CASE ResetJournals
  <2>1. cmd' = Failed \/ cmd' = [cmd EXCEPT !.pc = "worker", !.claimed = TRUE]
    BY <1>16 DEF ResetJournals
  <2>2. CASE cmd' = [cmd EXCEPT !.pc = "worker", !.claimed = TRUE]
    BY <1>0, <2>2 DEF Command, Phases, Adding
  <2> QED
    BY <1>0, <2>1, <2>2, FailedIs DEF FailsIn
<1>17. CASE HasOtherClusters \/ RollbackRemovesMesh \/ RollbackKeepsStack \/ RealmClusterNames
            \/ RemoveJournals
  BY <1>0, <1>17, OthersMoves, RollbackMoves, KeepMoves, NamesMoves, JournalsMoves
     DEF FailsIn, AfterIn, KeptCommand, SameCommand
<1>18. CASE ListResources \/ DeleteNetworkAndVolumes
  BY <1>0, <1>18, ListMoves, NetvolMoves DEF FailsIn, AfterIn, KeptCommand, SameCommand
<1>19. CASE StartStack \/ ForgetSync
  BY <1>0, <1>19, StartMoves, SyncMoves, WarnedIs DEF AfterIn, KeptCommand, SameCommand
<1>20. CASE DeleteContainers
  <2>1. cmd.c \in Cluster
        /\ (cmd.op = "remove"
               => cmd.forget \subseteq {t \in mounts : t[1] = cmd.c /\ t[2] = "worker"})
    BY <1>20 DEF StackInv, NodesInv, PhaseInv, WorkersOf, MountsOf, DeleteContainers, At
  <2> QED
    BY <1>0, <1>20, <2>1, ContainersMoves DEF AfterIn, KeptCommand, SameCommand
<1>21. CASE RemoveStack \/ CleanupMesh \/ RemoveVolumes
  <2>1. PICK o \in Outcome, p \in {"rmMesh", "rmVolumes", "ended"} : Cleaned(o, p)
    <3>1. CASE RemoveStack
      <4>1. (IF cmd.rmMesh THEN "rmMesh" ELSE "rmVolumes") \in {"rmMesh", "rmVolumes", "ended"}
        OBVIOUS
      <4>2. \E o \in Outcome : Cleaned(o, IF cmd.rmMesh THEN "rmMesh" ELSE "rmVolumes")
        BY <3>1 DEF RemoveStack, Outcome
      <4> QED
        BY <4>1, <4>2
    <3>2. CASE CleanupMesh
      BY <3>2 DEF CleanupMesh
    <3>3. CASE RemoveVolumes
      BY <3>3 DEF RemoveVolumes, Outcome
    <3> QED
      BY <1>21, <3>1, <3>2, <3>3
  <2> DEFINE e == cmd.errs \/ o # "ok"
  <2>2. \/ cmd' = [cmd EXCEPT !.pc = "ended", !.failed = TRUE, !.errs = TRUE]
        \/ cmd' = [cmd EXCEPT !.pc = p, !.errs = e]
    BY <2>1 DEF Cleaned
  <2>3. e \in BOOLEAN /\ p \in Phases /\ "ended" \in Phases
    BY DEF Phases, Undoing, Cleaning
  <2> HIDE DEF e
  <2>4. CASE cmd' = [cmd EXCEPT !.pc = "ended", !.failed = TRUE, !.errs = TRUE]
    BY <1>0, <2>3, <2>4 DEF Command
  <2>5. CASE cmd' = [cmd EXCEPT !.pc = p, !.errs = e]
    BY <1>0, <2>3, <2>5 DEF Command
  <2> QED
    BY <2>2, <2>4, <2>5
<1>22. CASE AllDeleted
  <2>1. \/ cmd' = [cmd EXCEPT !.pc = "fstart"]
        \/ cmd' = [cmd EXCEPT !.pc = "rmStack", !.rmMesh = TRUE]
    BY <1>22 DEF AllDeleted
  <2>2. "fstart" \in Phases /\ "rmStack" \in Phases
    BY DEF Phases, Undoing, Cleaning, Forgetting
  <2>3. CASE cmd' = [cmd EXCEPT !.pc = "fstart"]
    BY <1>0, <2>2, <2>3 DEF Command
  <2>4. CASE cmd' = [cmd EXCEPT !.pc = "rmStack", !.rmMesh = TRUE]
    BY <1>0, <2>2, <2>4 DEF Command
  <2> QED
    BY <2>1, <2>3, <2>4
<1>23. CASE Returns \/ Kill \/ Reboot \/ UNCHANGED monVars
  BY <1>0, <1>23, NoneIs DEF Returns, Kill, Reboot, monVars
<1> QED
  BY <1>1, <1>2, <1>3, <1>4, <1>5, <1>6, <1>7, <1>8, <1>9, <1>10, <1>11, <1>12,
    <1>13, <1>14, <1>15,
     <1>16, <1>17, <1>18, <1>19, <1>20, <1>21, <1>22, <1>23 DEF Next

\* Which actions change which variables.
LEMMA StackFrame ==
  ASSUME [Next]_monVars
  PROVE  /\ UNCHANGED <<containers, mounts>> \/ CreateNodes \/ CreateWorker \/ DeleteContainers
              \/ \E c \in Cluster : DeleteOne(c)
         /\ spared' = spared \/ DeleteContainers
         /\ netvols' = netvols \/ CreateNetworkAndVolumes \/ DeleteNetworkAndVolumes
              \/ \E c \in Cluster : DeleteOne(c)
         /\ realmMesh' = realmMesh \/ EnsureMesh \/ CleanupMesh
         /\ UNCHANGED <<service, amiss>> \/ RemoveOutdated \/ CreateContainer \/ CopyFiles
              \/ StartContainer \/ StartStack \/ RemoveStack \/ Reboot
         /\ alloy' = alloy \/ RemoveOutdated \/ CreateContainer \/ CopyFiles \/ StartContainer
              \/ Sync \/ SyncMonitoring \/ StartStack \/ ForgetSync \/ RemoveStack \/ Reboot
         /\ volumes' = volumes \/ CreateJournalVolume \/ CreateVolumes \/ RemoveVolumes
         /\ journals' = journals \/ ResetClusterJournals \/ CreateNodes \/ ResetJournals
              \/ CreateWorker \/ RemoveJournals \/ RemoveVolumes
         /\ ready' = ready \/ Preflight \/ Done
         /\ behind' = behind \/ Sync \/ SyncMonitoring \/ StartStack \/ ForgetSync
              \/ RemoveStack \/ Returns \/ Kill \/ Reboot
<1> USE DEF clusterVars, stackVars
<1>1. CASE \/ \E c \in Cluster, v \in Version, mon \in BOOLEAN : BeginCreate(c, mon, v)
           \/ \E c \in Cluster, v \in Version : BeginAdd(c, v)
           \/ \E c \in Cluster : BeginRemove(c) \/ BeginDelete(c) \/ DeleteOne(c)
           \/ BeginPowerOn \/ BeginDeleteAll \/ UNCHANGED monVars
  BY <1>1 DEF BeginCreate, BeginAdd, BeginRemove, BeginDelete, BeginPowerOn,
    BeginDeleteAll,
              DeleteOne, monVars
<1>2. CASE \/ EnsureMesh \/ Preflight \/ CreateNetworkAndVolumes \/ CreateJournalVolume
           \/ ResetClusterJournals \/ Prepared \/ CreateNodes \/ Canceled
  BY <1>2 DEF EnsureMesh, Preflight, CreateNetworkAndVolumes, CreateJournalVolume,
              ResetClusterJournals, Prepared, CreateNodes, Canceled
<1>3. CASE \/ EnsureMonitoring \/ CreateVolumes \/ RemoveOutdated \/ CreateContainer \/ CopyFiles
           \/ StartContainer \/ WaitReady \/ Sync \/ RegisterStackDNS \/ Done
           \/ ResetJournals \/ CreateWorker \/ SyncMonitoring
  BY <1>3 DEF EnsureMonitoring, CreateVolumes, RemoveOutdated, CreateContainer,
    CopyFiles,
              StartContainer, WaitReady, Sync, RegisterStackDNS, Done, ResetJournals,
              CreateWorker, SyncMonitoring
<1>4. CASE \/ HasOtherClusters \/ RollbackRemovesMesh \/ ListResources \/ DeleteContainers
           \/ DeleteNetworkAndVolumes \/ StartStack \/ ForgetSync \/ RemoveJournals
           \/ RollbackKeepsStack \/ RemoveStack \/ CleanupMesh \/ RemoveVolumes
           \/ RealmClusterNames \/ AllDeleted \/ Returns \/ Kill \/ Reboot
  BY <1>4 DEF HasOtherClusters, RollbackRemovesMesh, ListResources, DeleteContainers,
              DeleteNetworkAndVolumes, StartStack, ForgetSync, RemoveJournals,
              RollbackKeepsStack, RemoveStack, CleanupMesh, RemoveVolumes,
              RealmClusterNames, AllDeleted, Returns, Kill, Reboot
<1> QED
  BY <1>1, <1>2, <1>3, <1>4 DEF Next

\* The counters that bound the faults and the commands.
LEMMA UsedNext ==
  ASSUME monUsed \in [faults : Nat, commands : Nat], [Next]_monVars
  PROVE  monUsed' \in [faults : Nat, commands : Nat]
<1> DEFINE More == \/ monUsed' = monUsed
                   \/ Fault
                   \/ monUsed' = [monUsed EXCEPT !.commands = @ + 1]
<1>1. CASE \/ \E c \in Cluster, v \in Version, mon \in BOOLEAN : BeginCreate(c, mon, v)
           \/ \E c \in Cluster, v \in Version : BeginAdd(c, v)
           \/ \E c \in Cluster : BeginRemove(c) \/ BeginDelete(c) \/ DeleteOne(c)
           \/ BeginPowerOn \/ BeginDeleteAll \/ UNCHANGED monVars
  <2>1. More
    BY <1>1 DEF BeginCreate, BeginAdd, BeginRemove, BeginDelete, BeginPowerOn,
      BeginDeleteAll,
              DeleteOne, Begin, CallEnds, monVars
  <2> QED
    BY <2>1 DEF Fault
<1>2. CASE \/ EnsureMesh \/ Preflight \/ CreateNetworkAndVolumes \/ CreateJournalVolume
           \/ ResetClusterJournals \/ Prepared \/ CreateNodes \/ Canceled
  <2>1. More
    BY <1>2 DEF EnsureMesh, Preflight, CreateNetworkAndVolumes, CreateJournalVolume,
      Branch,
              ResetClusterJournals, Prepared, CreateNodes, Canceled, CallEnds
  <2> QED
    BY <2>1 DEF Fault
<1>3. CASE \/ EnsureMonitoring \/ CreateVolumes \/ RemoveOutdated \/ CreateContainer \/ CopyFiles
           \/ StartContainer \/ WaitReady \/ Sync \/ RegisterStackDNS \/ Done
           \/ ResetJournals \/ CreateWorker \/ SyncMonitoring
  <2>1. More
    BY <1>3 DEF EnsureMonitoring, CreateVolumes, RemoveOutdated, CreateContainer,
      CopyFiles,
              StartContainer, WaitReady, Sync, RegisterStackDNS, Done, ResetJournals,
              CreateWorker, SyncMonitoring, CallEnds
  <2> QED
    BY <2>1 DEF Fault
<1>4. CASE \/ HasOtherClusters \/ RollbackRemovesMesh \/ ListResources \/ DeleteContainers
           \/ DeleteNetworkAndVolumes \/ StartStack \/ ForgetSync \/ RemoveJournals
           \/ RollbackKeepsStack \/ RemoveStack \/ CleanupMesh \/ RemoveVolumes
           \/ RealmClusterNames \/ AllDeleted \/ Returns \/ Kill \/ Reboot
  <2>1. More
    BY <1>4 DEF HasOtherClusters, RollbackRemovesMesh, ListResources, DeleteContainers,
              DeleteNetworkAndVolumes, StartStack, ForgetSync, RemoveJournals,
              RollbackKeepsStack, RemoveStack, CleanupMesh, RemoveVolumes,
              RealmClusterNames, AllDeleted, Returns, Kill, Reboot, CallEnds
  <2> QED
    BY <2>1 DEF Fault
<1> QED
  BY <1>1, <1>2, <1>3, <1>4 DEF Next

\* The containers are nodes, and the mounts are of containers.
LEMMA NodesTyped ==
  ASSUME StackInv, [Next]_monVars
  PROVE  (containers \subseteq Nodes /\ mounts \subseteq containers
            /\ netvols \subseteq Cluster /\ realmMesh \in BOOLEAN)'
<1>0. /\ containers \subseteq Nodes /\ mounts \subseteq containers
      /\ netvols \subseteq Cluster /\ realmMesh \in BOOLEAN /\ monUsed.commands \in Nat
  BY DEF StackInv, MonitoringTypeOK
<1>1. CASE CreateNodes \/ CreateWorker
  <2>1. cmd.c \in Cluster
    BY <1>1 DEF StackInv, PhaseInv, Making, Adding, CreateNodes, CreateWorker, At
  <2>2. PICK K, o, next :
            K \in SUBSET Kinds /\ MakeNodes({<<cmd.c, n, monUsed.commands>> : n \in K}, o, next)
    <3>1. CASE CreateNodes
      BY <3>1 DEF CreateNodes, Kinds
    <3>2. CASE CreateWorker
      <4>1. {<<cmd.c, "worker", monUsed.commands>>} = {<<cmd.c, n, monUsed.commands>> :
                n \in {"worker"}}
        OBVIOUS
      <4>2. PICK o : MakeNodes({<<cmd.c, n, monUsed.commands>> : n \in {"worker"}}, o, "async")
        BY <3>2, <4>1 DEF CreateWorker
      <4> QED
        BY <4>2 DEF Kinds
    <3> QED
      BY <1>1, <3>1, <3>2
  <2>3. {<<cmd.c, n, monUsed.commands>> : n \in K} \subseteq Nodes
    BY <1>0, <2>1, <2>2 DEF Nodes
  <2>4. PICK new \in SUBSET {<<cmd.c, n, monUsed.commands>> : n \in K} :
          /\ containers' = containers \cup new
          /\ mounts' = IF cmd.mon THEN mounts \cup new ELSE mounts
    BY <2>2 DEF MakeNodes
  <2> QED
    BY <1>0, <1>1, <2>3, <2>4 DEF CreateNodes, CreateWorker
<1>2. CASE DeleteContainers
  BY <1>0, <1>2 DEF DeleteContainers
<1>3. ASSUME NEW c \in Cluster, DeleteOne(c)
      PROVE  (containers \subseteq Nodes /\ mounts \subseteq containers
                /\ netvols \subseteq Cluster /\ realmMesh \in BOOLEAN)'
  BY <1>0, <1>3 DEF DeleteOne, Of
<1>4. CASE UNCHANGED <<containers, mounts>>
  <2>1. CASE CreateNetworkAndVolumes
    <3>1. cmd.c \in Cluster
      BY <2>1 DEF StackInv, PhaseInv, Making, CreateNetworkAndVolumes, Branch, At
    <3> QED
      BY <1>0, <1>4, <2>1, <3>1 DEF CreateNetworkAndVolumes
  <2>2. CASE DeleteNetworkAndVolumes
    BY <1>0, <1>4, <2>2 DEF DeleteNetworkAndVolumes
  <2>3. CASE netvols' = netvols
    BY <1>0, <1>4, <2>3, StackFrame DEF EnsureMesh, CleanupMesh
  <2> QED
    BY <1>3, <2>1, <2>2, <2>3, StackFrame
<1> QED
  BY <1>1, <1>2, <1>3, <1>4, StackFrame

\* What the services are.
LEMMA ServiceTyped ==
  ASSUME StackInv, [Next]_monVars
  PROVE  /\ service' \in [Service -> [state : {"none", "made", "running"},
                                      version : Version \cup {0}, files : BOOLEAN]]
         /\ amiss' \subseteq Service
<1> DEFINE S == [state : {"none", "made", "running"}, version : Version \cup {0}, files : BOOLEAN]
<1>0. service \in [Service -> S] /\ amiss \subseteq Service /\ cmd.version \in Version \cup {0}
      /\ NoService \in S /\ [state |-> "made", version |-> cmd.version, files |-> FALSE] \in S
  BY DEF StackInv, MonitoringTypeOK, Command, NoService
<1>1. \A s \in Service : Started(s) \in S
  BY <1>0 DEF Started
<1> DEFINE AsMade == [state |-> "made", version |-> cmd.version, files |-> FALSE]
<1> SUFFICES service' \in [Service -> S] /\ amiss' \subseteq Service
  OBVIOUS
<1>2. AtService => This \in Service
  BY DEF AtService, This, Service
<1>3. CASE RemoveOutdated \/ CreateContainer \/ StartContainer
  <2>1. /\ service' = service \/ \E r \in {NoService, AsMade, Started(This)} :
               service' = [service EXCEPT ![This] = r]
        /\ amiss' = amiss \/ amiss' = amiss \cup {This}
        /\ This \in Service
    BY <1>2, <1>3 DEF RemoveOutdated, CreateContainer, StartContainer, SetService
  <2>2. {NoService, AsMade, Started(This)} \subseteq S
    BY <1>0, <1>1, <2>1
  <2> HIDE DEF S, AsMade
  <2> QED
    BY <1>0, <2>1, <2>2
<1>4. CASE CopyFiles
  <2>1. service' = service \/ service' =
            [service EXCEPT ![This] = [service[This] EXCEPT !.files = TRUE]]
    BY <1>0, <1>4 DEF CopyFiles
  <2>2. This \in Service /\ service[This] \in S /\ amiss' \subseteq amiss
    BY <1>0, <1>2, <1>4 DEF CopyFiles
  <2>3. [service[This] EXCEPT !.files = TRUE] \in S
    BY <2>2
  <2> HIDE DEF S
  <2> QED
    BY <1>0, <2>1, <2>2, <2>3
<1>5. CASE StartStack
  <2>1. \A s \in Service : service[s] \in S
    BY <1>0
  <2>2. /\ \E up \in SUBSET Service :
               service' = [s \in Service |-> IF s \in up THEN Started(s) ELSE service[s]]
        /\ amiss' = amiss
    BY <1>5 DEF StartStack
  <2> HIDE DEF S
  <2> QED
    BY <1>0, <1>1, <2>1, <2>2
<1>6. CASE RemoveStack
  BY <1>0, <1>6 DEF RemoveStack
<1>7. CASE Reboot
  <2>1. \A s \in Service : service[s] \in S /\ [service[s] EXCEPT !.state = "made"] \in S
    BY <1>0
  <2>2. service' = [s \in Service |-> IF Exists(s) THEN [service[s] EXCEPT !.state = "made"]
            ELSE service[s]]
        /\ amiss' = amiss
    BY <1>7 DEF Reboot
  <2> HIDE DEF S
  <2> QED
    BY <1>0, <2>1, <2>2
<1>8. CASE UNCHANGED <<service, amiss>>
  BY <1>0, <1>8
<1> QED
  BY <1>3, <1>4, <1>5, <1>6, <1>7, <1>8, StackFrame

\* What Alloy knows.
LEMMA AlloyTyped ==
  ASSUME StackInv, [Next]_monVars
  PROVE  alloy' \in [file : SUBSET Nodes, runs : SUBSET Nodes]
<1> DEFINE A == [file : SUBSET Nodes, runs : SUBSET Nodes]
<1>0. alloy \in A /\ mounts \in SUBSET Nodes /\ cmd.conf \in SUBSET Nodes
  BY DEF StackInv, MonitoringTypeOK, Command
<1>1. \A D \in SUBSET Nodes : /\ [file |-> D, runs |-> D] \in A
                              /\ [alloy EXCEPT !.file = D] \in A /\ [alloy EXCEPT !.runs = D] \in A
  BY <1>0
<1>2. CASE RemoveOutdated \/ CreateContainer \/ StartContainer
  <2>1. alloy' = alloy \/ \E F, R \in {alloy.file, {}} : alloy' = [file |-> F, runs |-> R]
    BY <1>2 DEF RemoveOutdated, CreateContainer, StartContainer, SetService
  <2> QED
    BY <1>0, <2>1
<1>3. CASE CopyFiles
  BY <1>0, <1>1, <1>3 DEF CopyFiles
<1>4. CASE Sync \/ SyncMonitoring \/ ForgetSync
  <2>1. PICK o \in SyncOutcome, D \in {mounts, cmd.conf} : Synced(o, D)
    BY <1>4 DEF Sync, SyncMonitoring, ForgetSync, MonitoringTargets
  <2>2. alloy' \in {[file |-> D, runs |-> D], [alloy EXCEPT !.file = D], alloy}
    BY <2>1 DEF Synced, SyncOutcome, Outcome
  <2> QED
    BY <1>0, <1>1, <2>1, <2>2
<1>5. CASE StartStack \/ RemoveStack \/ Reboot
  <2>1. alloy' \in {alloy, [alloy EXCEPT !.runs = alloy.file], [alloy EXCEPT !.runs = {}],
            [file |-> {}, runs |-> {}]}
    BY <1>5 DEF StartStack, RemoveStack, Reboot
  <2>2. alloy.file \in SUBSET Nodes /\ {} \in SUBSET Nodes
    BY <1>0
  <2> QED
    BY <1>0, <1>1, <2>1, <2>2
<1> QED
  BY <1>0, <1>2, <1>3, <1>4, <1>5, StackFrame

\* The volumes and the directories of the journals.
LEMMA VolumesTyped ==
  ASSUME StackInv, [Next]_monVars
  PROVE  /\ volumes' \subseteq Service \cup {"journal"}
         /\ journals' \in [DOMAIN journals' -> SUBSET Nodes] /\ DOMAIN journals' \subseteq Places
<1>0. /\ volumes \subseteq Service \cup {"journal"}
      /\ journals \in [DOMAIN journals -> SUBSET Nodes] /\ DOMAIN journals \subseteq Places
  BY DEF StackInv, MonitoringTypeOK
<1>1. volumes' \subseteq Service \cup {"journal"}
  BY <1>0, StackFrame DEF CreateJournalVolume, CreateVolumes, RemoveVolumes
<1> SUFFICES journals' \in [DOMAIN journals' -> SUBSET Nodes] /\ DOMAIN journals' \subseteq Places
  BY <1>1
<1>2. ASSUME NEW D \in SUBSET Places, journals' = Emptied(D)
      PROVE  journals' \in [DOMAIN journals' -> SUBSET Nodes] /\ DOMAIN journals' \subseteq Places
  BY <1>0, <1>2 DEF Emptied
<1>3. CASE ResetClusterJournals
  <2>1. NewDirs(cmd.c) \in SUBSET Places
    BY <1>3 DEF StackInv, PhaseInv, Making, ResetClusterJournals, Branch, At,
      NewDirs, Places, Kinds
  <2> QED
    BY <1>0, <1>2, <1>3, <2>1 DEF ResetClusterJournals
<1>4. CASE ResetJournals
  <2>1. {<<cmd.c, "worker">>} \in SUBSET Places
    BY <1>4 DEF StackInv, PhaseInv, Adding, ResetJournals, At, Places, Kinds
  <2> QED
    BY <1>0, <1>2, <1>4, <2>1 DEF ResetJournals
<1>5. CASE CreateNodes \/ CreateWorker
  <2>1. PICK new \in SUBSET containers' : journals' = IF cmd.mon
             THEN [d \in DOMAIN journals |-> journals[d] \cup {t \in new : <<t[1], t[2]>> = d}]
             ELSE journals
    BY <1>5 DEF CreateNodes, CreateWorker, MakeNodes
  <2>2. new \subseteq Nodes
    BY <2>1, NodesTyped
  <2>3. CASE journals' = journals
    BY <1>0, <2>3
  <2>4. CASE journals' = [d \in DOMAIN journals |-> journals[d] \cup {t \in new : <<t[1], t[2]>> = d}]
    <3>1. \A d \in DOMAIN journals :
              journals[d] \cup {t \in new : <<t[1], t[2]>> = d} \in SUBSET Nodes
      BY <1>0, <2>2
    <3> QED
      BY <1>0, <2>4, <3>1
  <2> QED
    BY <2>1, <2>3, <2>4
<1>6. CASE RemoveJournals \/ RemoveVolumes
  <2>1. journals' = journals \/ journals' = Keep(cmd.forget) \/ journals' = <<>>
    BY <1>6 DEF RemoveJournals, RemoveVolumes
  <2>2. CASE journals' = <<>>
    BY <2>2
  <2>3. CASE journals' = Keep(cmd.forget)
    <3>1. DOMAIN journals' = DOMAIN journals \ cmd.forget
      BY <2>3 DEF Keep
    <3>2. \A d \in DOMAIN journals' : journals'[d] = journals[d]
      BY <2>3, <3>1 DEF Keep
    <3>3. journals' = [d \in DOMAIN journals' |-> journals'[d]]
      BY <2>3 DEF Keep
    <3> QED
      BY <1>0, <3>1, <3>2, <3>3
  <2> QED
    BY <1>0, <2>1, <2>2, <2>3
<1> QED
  BY <1>0, <1>1, <1>3, <1>4, <1>5, <1>6, StackFrame

\* The clusters that are ready, and whether Alloy is behind.
LEMMA RestTyped ==
  ASSUME StackInv, [Next]_monVars
  PROVE  ready' \subseteq Cluster /\ behind' \in BOOLEAN
<1>0. ready \subseteq Cluster /\ behind \in BOOLEAN
  BY DEF StackInv, MonitoringTypeOK
<1>1. ready' \subseteq Cluster
  <2>1. CASE Done
    BY <1>0, <2>1 DEF Done, StackInv, PhaseInv
  <2>2. CASE Preflight
    BY <1>0, <2>2 DEF Preflight
  <2> QED
    BY <1>0, <2>1, <2>2, StackFrame
<1>2. behind' \in BOOLEAN
  <2>1. CASE Sync \/ SyncMonitoring
    BY <1>0, <2>1 DEF Sync, SyncMonitoring
  <2>2. CASE StartStack \/ ForgetSync
    BY <1>0, <2>2 DEF StartStack, ForgetSync, Warned
  <2>3. CASE RemoveStack \/ Returns \/ Kill \/ Reboot
    BY <1>0, <2>3 DEF RemoveStack, Returns, Kill, Reboot
  <2> QED
    BY <1>0, <2>1, <2>2, <2>3, StackFrame
<1> QED
  BY <1>1, <1>2

\* Every step keeps the types.
LEMMA MonitoringTypeNext ==
  ASSUME StackInv, [Next]_monVars
  PROVE  MonitoringTypeOK'
<1>1. monUsed' \in [faults : Nat, commands : Nat]
  BY UsedNext DEF StackInv, MonitoringTypeOK
<1> QED
  BY <1>1, CommandNext, NodesTyped, ServiceTyped, AlloyTyped, VolumesTyped,
    RestTyped DEF MonitoringTypeOK

\* A delete looks for other clusters.
LEMMA HasOtherClustersStep ==
  ASSUME StackInv, HasOtherClusters
  PROVE  StackParts'
<1>0. /\ cmd \in Command /\ MonitoringTypeOK /\ mounts \subseteq Nodes
      /\ DOMAIN journals \subseteq Places /\ mounts \subseteq containers
  BY DEF StackInv, MonitoringTypeOK
<1>1. \/ FailsIn(cmd') /\ cmd'.stack = cmd.stack
      \/ /\ SameCommand(cmd') /\ cmd'.pc = "list" /\ cmd'.failed = cmd.failed
         /\ cmd'.errs = cmd.errs /\ cmd'.forget = cmd.forget
         /\ cmd'.rmMesh = (Others(cmd.c) = {}) /\ cmd'.deregister = (Others(cmd.c) # {})
  BY <1>0, OthersMoves
<1>2. cmd.pc = "others" /\ UNCHANGED <<clusterVars, stackVars, ready, behind>>
  BY DEF HasOtherClusters, At
<1> USE DEF Command, Claims, FailsIn, AfterIn, KeptCommand, SameCommand, StaysIn, OnwardIn,
        Ops, Making,
    Ensuring, Adding, Undoing, Forgetting, Cleaning, At, clusterVars, stackVars
<1>3. PhaseInv'
  BY <1>0, <1>1, <1>2, SMTT(20) DEF StackInv, PhaseInv
<1>4. NodesInv'
  BY <1>0, <1>1, <1>2, SMTT(20) DEF StackInv, NodesInv, PhaseInv, MountsOf,
    WorkersOf, Of, Others, Taken, OtherMonitored
<1>5. JournalInv'
  BY <1>0, <1>1, <1>2, SMTT(20) DEF StackInv, JournalInv, PhaseInv, NodesInv,
    WorkersOf, MountsOf, Of, Fresh, NewDirs
<1>6. ServicesInv'
  BY <1>0, <1>1, <1>2, SMTT(20) DEF StackInv, ServicesInv, PhaseInv, Current,
    Running, Exists, AtService, This, AllRun
<1>7. AlloyInv'
  BY <1>0, <1>1, <1>2, SMTT(20) DEF StackInv, AlloyInv, PhaseInv, NodesInv,
    ServicesInv, Follows, Running, Exists, MountsOf, Of, AllRun, OtherMonitored
<1>8. StackStays'
  BY <1>0, <1>1, <1>2, SMTT(20) DEF StackInv, StackStays, NodesInv, PhaseInv,
    Exists, HasMonitoredController
<1>9. StackComplete'
  BY <1>0, <1>1, <1>2, SMTT(20) DEF StackInv, StackComplete, ServicesInv, AlloyInv,
    PhaseInv, Current, Running, Exists, AllRun
<1>10. Collected'
  BY <1>0, <1>1, <1>2, SMTT(20) DEF StackInv, Collected, AlloyInv, PhaseInv,
    Follows, Running
<1>11. NothingLeft'
  BY <1>0, <1>1, <1>2, SMTT(20) DEF StackInv, NothingLeft, ServicesInv, PhaseInv,
    NodesInv, Exists
<1> QED
  BY <1>3, <1>4, <1>5, <1>6, <1>7, <1>8, <1>9, <1>10, <1>11 DEF StackParts

\* A rollback asks whether it may remove the mesh.
LEMMA RollbackRemovesMeshStep ==
  ASSUME StackInv, RollbackRemovesMesh
  PROVE  StackParts'
<1>0. /\ cmd \in Command /\ MonitoringTypeOK /\ mounts \subseteq Nodes
      /\ DOMAIN journals \subseteq Places /\ mounts \subseteq containers
  BY DEF StackInv, MonitoringTypeOK
<1>1. /\ SameCommand(cmd') /\ cmd'.pc = IF cmd.claimed THEN "list" ELSE "keep"
      /\ cmd'.failed = cmd.failed /\ cmd'.errs = cmd.errs /\ cmd'.forget = cmd.forget
      /\ cmd'.deregister = ~cmd'.rmMesh
      /\ cmd'.rmMesh => (IF cmd.claimed THEN Others(cmd.c) ELSE containers) = {}
  BY <1>0, RollbackMoves
<1>2. cmd.pc = "rollback" /\ UNCHANGED <<clusterVars, stackVars, ready, behind>>
  BY DEF RollbackRemovesMesh, At
<1> USE DEF Command, Claims, FailsIn, AfterIn, KeptCommand, SameCommand, StaysIn, OnwardIn,
        Ops, Making,
    Ensuring, Adding, Undoing, Forgetting, Cleaning, At, clusterVars, stackVars
<1>3. PhaseInv'
  BY <1>0, <1>1, <1>2, SMTT(20) DEF StackInv, PhaseInv
<1>4. NodesInv'
  BY <1>0, <1>1, <1>2, SMTT(20) DEF StackInv, NodesInv, PhaseInv, MountsOf,
    WorkersOf, Of, Others, Taken, OtherMonitored
<1>5. JournalInv'
  BY <1>0, <1>1, <1>2, SMTT(20) DEF StackInv, JournalInv, PhaseInv, NodesInv,
    WorkersOf, MountsOf, Of, Fresh, NewDirs
<1>6. ServicesInv'
  BY <1>0, <1>1, <1>2, SMTT(20) DEF StackInv, ServicesInv, PhaseInv, Current,
    Running, Exists, AtService, This, AllRun
<1>7. AlloyInv'
  BY <1>0, <1>1, <1>2, SMTT(20) DEF StackInv, AlloyInv, PhaseInv, NodesInv,
    ServicesInv, Follows, Running, Exists, MountsOf, Of, AllRun, OtherMonitored
<1>8. StackStays'
  BY <1>0, <1>1, <1>2, SMTT(20) DEF StackInv, StackStays, NodesInv, PhaseInv,
    Exists, HasMonitoredController
<1>9. StackComplete'
  BY <1>0, <1>1, <1>2, SMTT(20) DEF StackInv, StackComplete, ServicesInv, AlloyInv,
    PhaseInv, Current, Running, Exists, AllRun
<1>10. Collected'
  BY <1>0, <1>1, <1>2, SMTT(20) DEF StackInv, Collected, AlloyInv, PhaseInv,
    Follows, Running
<1>11. NothingLeft'
  BY <1>0, <1>1, <1>2, SMTT(20) DEF StackInv, NothingLeft, ServicesInv, PhaseInv,
    NodesInv, Exists
<1> QED
  BY <1>3, <1>4, <1>5, <1>6, <1>7, <1>8, <1>9, <1>10, <1>11 DEF StackParts

\* The nodes of the cluster are listed.
LEMMA ListResourcesStep ==
  ASSUME StackInv, ListResources
  PROVE  StackParts'
<1>0. /\ cmd \in Command /\ MonitoringTypeOK /\ mounts \subseteq Nodes
      /\ DOMAIN journals \subseteq Places /\ mounts \subseteq containers
  BY DEF StackInv, MonitoringTypeOK
<1>1. \/ AfterIn(cmd', TRUE)
      \/ cmd.op # "remove" /\ Of(cmd.c) = {} /\ AfterIn(cmd', FALSE)
      \/ /\ KeptCommand(cmd') /\ cmd'.pc = "containers"
         /\ cmd'.forget = IF ~cmd.deregister /\ cmd.op # "remove" THEN {}
                          ELSE {t \in mounts : t[1] = cmd.c /\ (cmd.op = "remove" => t[2] = "worker")}
  BY <1>0, ListMoves
<1>2. cmd.pc = "list" /\ UNCHANGED <<clusterVars, stackVars, ready, behind>>
  BY DEF ListResources, At
<1>3. StackComplete'
  <2>1. ~(cmd'.pc = "ended" /\ cmd'.mon /\ ~cmd'.failed)
    BY <1>0, <1>1, <1>2, SMTT(20) DEF StackInv, PhaseInv, AfterIn, KeptCommand, SameCommand, At
  <2> QED BY <2>1 DEF StackComplete, At
<1>4. NothingLeft'
  <2>1. ~(cmd'.pc = "ended" /\ cmd'.op \in {"delete", "deleteAll"} /\ cmd'.rmMesh /\ ~cmd'.failed)
    BY <1>0, <1>1, <1>2, SMTT(20) DEF StackInv, PhaseInv, AfterIn, KeptCommand, SameCommand, At,
       Command
  <2> QED BY <2>1 DEF NothingLeft, At
<1> USE DEF Command, Claims, FailsIn, AfterIn, KeptCommand, SameCommand, StaysIn, OnwardIn,
        Ops, Making,
    Ensuring, Adding, Undoing, Forgetting, Cleaning, At, clusterVars, stackVars
<1>5. PhaseInv'
  BY <1>0, <1>1, <1>2, SMTT(20) DEF StackInv, PhaseInv
<1>6. NodesInv'
  BY <1>0, <1>1, <1>2, SMTT(20) DEF StackInv, NodesInv, PhaseInv, MountsOf,
    WorkersOf, Of, Others, Taken, OtherMonitored
<1>7. JournalInv'
  BY <1>0, <1>1, <1>2, SMTT(20) DEF StackInv, JournalInv, PhaseInv, NodesInv,
    WorkersOf, MountsOf, Of, Fresh, NewDirs
<1>8. ServicesInv'
  BY <1>0, <1>1, <1>2, SMTT(20) DEF StackInv, ServicesInv, PhaseInv, Current,
    Running, Exists, AtService, This, AllRun
<1>9. AlloyInv'
  BY <1>0, <1>1, <1>2, SMTT(20) DEF StackInv, AlloyInv, PhaseInv, NodesInv,
    ServicesInv, Follows, Running, Exists, MountsOf, Of, AllRun, OtherMonitored
<1>10. StackStays'
  BY <1>0, <1>1, <1>2, SMTT(20) DEF StackInv, StackStays, NodesInv, PhaseInv,
    Exists, HasMonitoredController
<1>11. Collected'
  BY <1>0, <1>1, <1>2, SMTT(20) DEF StackInv, Collected, AlloyInv, PhaseInv,
    Follows, Running
<1> QED
  BY <1>3, <1>4, <1>5, <1>6, <1>7, <1>8, <1>9, <1>10, <1>11 DEF StackParts

\* The containers of the cluster, or its worker, are removed.
LEMMA DeleteContainersStep ==
  ASSUME StackInv, DeleteContainers
  PROVE  StackParts'
<1>0. /\ cmd \in Command /\ MonitoringTypeOK /\ mounts \subseteq Nodes
      /\ DOMAIN journals \subseteq Places /\ mounts \subseteq containers
  BY DEF StackInv, MonitoringTypeOK
<1>1. /\ cmd.op = "remove" => cmd.forget \subseteq {t \in mounts : t[1] = cmd.c /\ t[2] = "worker"}
      /\ cmd.c \in Cluster
  BY DEF StackInv, NodesInv, PhaseInv, WorkersOf, MountsOf, DeleteContainers, At
<1>2. PICK o \in {"ok", "failed"}, stay \in SUBSET Targets :
           /\ o = "ok" => stay = {}
           /\ containers' = containers \ (Targets \ stay) /\ mounts' = mounts \ (Targets \ stay)
           /\ spared' = IF o = "ok" THEN spared ELSE spared \cup stay
           /\ IF cmd.op = "add"
                THEN /\ SameCommand(cmd') /\ cmd'.pc = "fstart" /\ cmd'.failed = cmd.failed
                     /\ cmd'.errs = (o # "ok") /\ cmd'.forget = {<<cmd.c, "worker">>}
                     /\ cmd'.rmMesh = cmd.rmMesh
              ELSE IF o = "failed" THEN AfterIn(cmd', TRUE)
              ELSE IF cmd.op # "remove"
                  THEN KeptCommand(cmd') /\ cmd'.pc = "netvol" /\ cmd'.forget = cmd.forget
              ELSE IF cmd.forget = {} THEN AfterIn(cmd', FALSE)
              ELSE KeptCommand(cmd') /\ cmd'.pc = "fstart"
                  /\ cmd'.forget \subseteq {<<cmd.c, "worker">>}
  BY <1>0, <1>1, ContainersMoves
<1>3. cmd.pc = "containers" /\ UNCHANGED <<netvols, realmMesh, stackVars, ready, behind>>
  BY DEF DeleteContainers, At
<1>4. AlloyInv'
  <2>1. PhaseInv /\ NodesInv /\ AlloyInv
    BY DEF StackInv
  <2>2. mounts' = mounts /\ Follows => Follows'
    BY <1>3 DEF Follows, Running, stackVars
  <2>3. CASE cmd.op = "add" \/ o = "failed"
    BY <1>0, <1>2, <1>3, <2>1, <2>3 DEF AlloyInv, PhaseInv, AfterIn, SameCommand, Running,
      Making, Ensuring, At, stackVars
  <2>4. CASE cmd.op \in {"create", "delete"} /\ o = "ok"
    <3>1. Targets = Of(cmd.c)
      BY <2>4 DEF Targets
    <3>2. MountsOf(cmd.c) = {} => mounts' = mounts
      BY <1>0, <1>2, <2>4, <3>1 DEF MountsOf, Of
    <3>3. cmd.rmMesh \/ cmd.forget # {} \/ Follows'
      BY <1>3, <2>1, <2>2, <2>4, <3>2 DEF AlloyInv, NodesInv, Ensuring, At
    <3> QED
      BY <1>0, <1>2, <1>3, <2>1, <2>4, <3>3 DEF AlloyInv, KeptCommand, SameCommand, Running,
        Making, Ensuring, At, stackVars
  <2>5. CASE cmd.op = "remove" /\ o = "ok"
    <3>1. Targets = WorkersOf(Of(cmd.c))
      BY <2>5 DEF Targets, WorkersOf
    <3>2. WorkersOf(MountsOf(cmd.c)) = {} => mounts' = mounts
      BY <1>0, <1>2, <2>5, <3>1 DEF MountsOf, WorkersOf, Of
    <3>3. cmd.forget # {} \/ Follows'
      BY <1>3, <2>1, <2>2, <2>5, <3>2 DEF AlloyInv, NodesInv, Ensuring, At
    <3> QED
      BY <1>0, <1>2, <1>3, <2>1, <2>5, <3>3 DEF AlloyInv, AfterIn, KeptCommand, SameCommand,
        Running, Making, Ensuring, At, stackVars
  <2>6. cmd.op \in {"create", "delete", "remove", "add"}
    BY <1>3, <2>1 DEF PhaseInv, At
  <2> QED
    BY <1>2, <2>3, <2>4, <2>5, <2>6
<1>5. StackComplete'
  <2>1. AfterIn(cmd', TRUE) \/ AfterIn(cmd', FALSE) \/ cmd'.pc # "ended"
    BY <1>1, <1>2 DEF KeptCommand
  <2> QED
    BY <1>0, <1>3, <2>1, AfterEnds
<1>6. NothingLeft'
  <2>1. AfterIn(cmd', TRUE) \/ AfterIn(cmd', FALSE) \/ cmd'.pc # "ended"
    BY <1>1, <1>2 DEF KeptCommand
  <2> QED
    BY <1>0, <1>3, <2>1, AfterEnds
<1> USE DEF Command, Claims, FailsIn, AfterIn, KeptCommand, SameCommand, StaysIn, OnwardIn,
        Ops, Making,
    Ensuring, Adding, Undoing, Forgetting, Cleaning, At, clusterVars, stackVars
<1>7. PhaseInv'
  BY <1>0, <1>1, <1>2, <1>3, SMTT(20) DEF StackInv, PhaseInv, Targets
<1>8. NodesInv'
  BY <1>0, <1>1, <1>2, <1>3, SMTT(20) DEF StackInv, NodesInv, PhaseInv, MountsOf,
    WorkersOf, Of, Others, Taken, OtherMonitored, Targets
<1>9. JournalInv'
  BY <1>0, <1>1, <1>2, <1>3, SMTT(20) DEF StackInv, JournalInv, PhaseInv, NodesInv,
    WorkersOf, MountsOf, Of, Fresh, NewDirs, Targets
<1>10. ServicesInv'
  BY <1>0, <1>1, <1>2, <1>3, SMTT(20) DEF StackInv, ServicesInv, PhaseInv, Current,
    Running, Exists, AtService, This, AllRun, Targets
<1>11. StackStays'
  BY <1>0, <1>1, <1>2, <1>3, SMTT(20) DEF StackInv, StackStays, NodesInv, PhaseInv,
    Exists, HasMonitoredController, Targets
<1>12. Collected'
  BY <1>0, <1>1, <1>2, <1>3, SMTT(20) DEF StackInv, Collected, AlloyInv, PhaseInv,
    Follows, Running, Targets
<1> QED
  BY <1>4, <1>5, <1>6, <1>7, <1>8, <1>9, <1>10, <1>11, <1>12 DEF StackParts

\* The network and the volumes of the cluster are removed.
LEMMA DeleteNetworkAndVolumesStep ==
  ASSUME StackInv, DeleteNetworkAndVolumes
  PROVE  StackParts'
<1>0. /\ cmd \in Command /\ MonitoringTypeOK /\ mounts \subseteq Nodes
      /\ DOMAIN journals \subseteq Places /\ mounts \subseteq containers
  BY DEF StackInv, MonitoringTypeOK
<1>1. \/ AfterIn(cmd', TRUE)
      \/ cmd.forget = {} /\ AfterIn(cmd', FALSE)
      \/ cmd.forget # {} /\ KeptCommand(cmd') /\ cmd'.pc = "fstart" /\ cmd'.forget = DirsOf(cmd.c)
  BY <1>0, NetvolMoves
<1>2. cmd.pc = "netvol"
          /\ UNCHANGED <<containers, mounts, realmMesh, spared, stackVars, ready, behind>>
  BY DEF DeleteNetworkAndVolumes, At
<1>3. StackComplete'
  <2>1. AfterIn(cmd', TRUE) \/ AfterIn(cmd', FALSE) \/ cmd'.pc # "ended"
    BY <1>1 DEF KeptCommand
  <2> QED
    BY <1>0, <1>2, <2>1, AfterEnds
<1>4. NothingLeft'
  <2>1. AfterIn(cmd', TRUE) \/ AfterIn(cmd', FALSE) \/ cmd'.pc # "ended"
    BY <1>1 DEF KeptCommand
  <2> QED
    BY <1>0, <1>2, <2>1, AfterEnds
<1> USE DEF Command, Claims, FailsIn, AfterIn, KeptCommand, SameCommand, StaysIn, OnwardIn,
        Ops, Making,
    Ensuring, Adding, Undoing, Forgetting, Cleaning, At, clusterVars, stackVars
<1>5. PhaseInv'
  BY <1>0, <1>1, <1>2, SMTT(20) DEF StackInv, PhaseInv, DirsOf
<1>6. NodesInv'
  BY <1>0, <1>1, <1>2, SMTT(20) DEF StackInv, NodesInv, PhaseInv, MountsOf,
    WorkersOf, Of, Others, Taken, OtherMonitored, DirsOf
<1>7. JournalInv'
  BY <1>0, <1>1, <1>2, SMTT(20) DEF StackInv, JournalInv, PhaseInv, NodesInv,
    WorkersOf, MountsOf, Of, Fresh, NewDirs, DirsOf
<1>8. ServicesInv'
  BY <1>0, <1>1, <1>2, SMTT(20) DEF StackInv, ServicesInv, PhaseInv, Current,
    Running, Exists, AtService, This, AllRun, DirsOf
<1>9. AlloyInv'
  BY <1>0, <1>1, <1>2, SMTT(20) DEF StackInv, AlloyInv, PhaseInv, NodesInv,
    ServicesInv, Follows, Running, Exists, MountsOf, Of, AllRun, OtherMonitored,
    DirsOf
<1>10. StackStays'
  BY <1>0, <1>1, <1>2, SMTT(20) DEF StackInv, StackStays, NodesInv, PhaseInv,
    Exists, HasMonitoredController, DirsOf
<1>11. Collected'
  BY <1>0, <1>1, <1>2, SMTT(20) DEF StackInv, Collected, AlloyInv, PhaseInv,
    Follows, Running, DirsOf
<1> QED
  BY <1>3, <1>4, <1>5, <1>6, <1>7, <1>8, <1>9, <1>10, <1>11 DEF StackParts

\* The stack is started, by sind power on or to forget nodes.
LEMMA StartStackStep ==
  ASSUME "alloy" \in Service, StackInv, StartStack
  PROVE  StackParts'
<1>0. /\ cmd \in Command /\ MonitoringTypeOK /\ mounts \subseteq Nodes
      /\ DOMAIN journals \subseteq Places /\ mounts \subseteq containers
  BY DEF StackInv, MonitoringTypeOK
<1>1. \/ (\A s \in Service : ~Exists(s)) /\ AfterIn(cmd', FALSE) /\ behind' = behind
      \/ /\ \A s \in Service : service'[s].state = "running"
         /\ KeptCommand(cmd') /\ cmd'.pc = (IF cmd.op = "on" THEN "ended" ELSE "fsync")
         /\ cmd'.forget = cmd.forget /\ behind' = behind
      \/ /\ behind' = TRUE
         /\ \/ cmd.op # "on" /\ AfterIn(cmd', FALSE)
            \/ cmd.op = "on" /\ SameCommand(cmd') /\ cmd'.pc = "ended" /\ cmd'.failed
               /\ cmd'.errs = cmd.errs /\ cmd'.rmMesh = cmd.rmMesh
  BY <1>0, StartMoves, WarnedIs
<1>2. /\ \A s \in Service : service'[s] = service[s] \/ service'[s] = Started(s)
      /\ alloy' = IF service'["alloy"].state = "running" /\ ~Running("alloy")
                    THEN [alloy EXCEPT !.runs = alloy.file] ELSE alloy
  BY DEF StartStack
<1>3. cmd.pc = "fstart" /\ UNCHANGED <<clusterVars, volumes, journals, amiss, ready>>
  BY DEF StartStack, At
<1>4. \A s \in Service :
         /\ service'[s].version = service[s].version /\ service'[s].files = service[s].files
         /\ service'[s].state = service[s].state
                \/ (service[s].files /\ service'[s].state = "running")
  BY <1>0, <1>2 DEF MonitoringTypeOK, Started
<1>5. /\ \A s \in Service : Exists(s)' = Exists(s)
      /\ \A s \in Service : Running(s)' => service[s].files
      /\ \A s \in Service : Running(s) => Running(s)'
  BY <1>4 DEF Exists, Running, StackInv, ServicesInv
<1>6. ServicesInv'
  <2>1. cmd'.copy = cmd.copy /\ ~cmd.copy
    BY <1>1, <1>3 DEF StackInv, ServicesInv, AtService, At, AfterIn, KeptCommand, SameCommand
  <2>2. \A s \in Service : (service'[s].files => Exists(s)') /\ (Running(s)' => service'[s].files)
    BY <1>4, <1>5 DEF StackInv, ServicesInv, Running, Exists
  <2>3. cmd'.pc \in {"keep", "rmStack", "ended", "fsync"} /\ (cmd'.pc = "fsync" => AllRun')
    BY <1>1 DEF AfterIn, Running, AllRun
  <2> QED
    BY <2>1, <2>2, <2>3 DEF ServicesInv, At, Adding
<1>7. AlloyInv'
  <2>1. PhaseInv /\ AlloyInv /\ ServicesInv
    BY DEF StackInv
  <2>2. alloy'.file = alloy.file /\ alloy'.runs \in {alloy.runs, alloy.file}
    BY <1>0, <1>2 DEF MonitoringTypeOK
  <2>3. alloy'.runs # {} => Running("alloy")'
    BY <1>0, <1>2, <1>5, <2>1 DEF AlloyInv, MonitoringTypeOK, Running
  <2>4. (\A s \in Service : ~Exists(s)) => Follows'
    BY <1>4, <1>5, <2>1 DEF ServicesInv, Follows, Running, Exists
  <2>5. Follows /\ behind' = behind => Follows'
    BY <1>0, <1>2, <1>3, <1>4, <1>5 DEF MonitoringTypeOK, Follows, Running, clusterVars
  <2>6. behind' = TRUE => Follows'
    BY DEF Follows
  <2>7. cmd'.pc = "fsync" \/ cmd'.pc = "rmStack" \/ (cmd'.pc \in {"keep", "ended"} /\ Follows')
    BY <1>1, <1>3, <2>1, <2>4, <2>5, <2>6 DEF AlloyInv, AfterIn, KeptCommand, SameCommand, At
  <2> QED
    BY <2>3, <2>7 DEF AlloyInv, Making, Ensuring, At
<1>8. StackComplete'
  <2>1. CASE cmd.op = "on"
    <3>1. cmd'.op = "on" /\ ~cmd'.mon
      BY <1>0, <1>1, <2>1 DEF StackInv, PhaseInv, AfterIn, KeptCommand, SameCommand
    <3> QED
      BY <3>1 DEF StackComplete
  <2>2. CASE cmd.op # "on"
    <3>1. AfterIn(cmd', TRUE) \/ AfterIn(cmd', FALSE) \/ cmd'.pc # "ended"
      BY <1>1, <2>2 DEF KeptCommand
    <3> QED
      BY <1>0, <1>3, <3>1, AfterEnds
  <2> QED
    BY <2>1, <2>2
<1>9. NothingLeft'
  <2>1. CASE cmd.op = "on"
    <3>1. cmd'.op = "on" /\ ~cmd'.mon
      BY <1>0, <1>1, <2>1 DEF StackInv, PhaseInv, AfterIn, KeptCommand, SameCommand
    <3> QED
      BY <3>1 DEF NothingLeft
  <2>2. CASE cmd.op # "on"
    <3>1. AfterIn(cmd', TRUE) \/ AfterIn(cmd', FALSE) \/ cmd'.pc # "ended"
      BY <1>1, <2>2 DEF KeptCommand
    <3> QED
      BY <1>0, <1>3, <3>1, AfterEnds
  <2> QED
    BY <2>1, <2>2
<1> USE DEF Command, Claims, FailsIn, AfterIn, KeptCommand, SameCommand, StaysIn, OnwardIn,
        Ops, Making,
    Ensuring, Adding, Undoing, Forgetting, Cleaning, At, clusterVars, stackVars
<1>10. PhaseInv'
  BY <1>0, <1>1, <1>2, <1>3, <1>4, <1>5, SMTT(20) DEF StackInv, PhaseInv
<1>11. NodesInv'
  BY <1>0, <1>1, <1>2, <1>3, <1>4, <1>5, SMTT(20) DEF StackInv, NodesInv, PhaseInv,
    MountsOf, WorkersOf, Of, Others, Taken, OtherMonitored
<1>12. JournalInv'
  BY <1>0, <1>1, <1>2, <1>3, <1>4, <1>5, SMTT(20) DEF StackInv, JournalInv,
    PhaseInv, NodesInv, WorkersOf, MountsOf, Of, Fresh, NewDirs
<1>13. StackStays'
  BY <1>0, <1>1, <1>2, <1>3, <1>4, <1>5, SMTT(20) DEF StackInv, StackStays,
    NodesInv, PhaseInv, Exists, HasMonitoredController
<1>14. Collected'
  BY <1>0, <1>1, <1>2, <1>3, <1>4, <1>5, SMTT(20) DEF StackInv, Collected, AlloyInv,
    PhaseInv, Follows, Running
<1> QED
  BY <1>6, <1>7, <1>8, <1>9, <1>10, <1>11, <1>12, <1>13, <1>14 DEF StackParts

\* Alloy is told of the nodes that are gone.
LEMMA ForgetSyncStep ==
  ASSUME "alloy" \in Service, StackInv, ForgetSync
  PROVE  StackParts'
<1>0. /\ cmd \in Command /\ MonitoringTypeOK /\ mounts \subseteq Nodes
      /\ DOMAIN journals \subseteq Places /\ mounts \subseteq containers
  BY DEF StackInv, MonitoringTypeOK
<1>1. \/ /\ behind' = TRUE
         /\ \/ cmd.op # "on" /\ AfterIn(cmd', FALSE)
            \/ cmd.op = "on" /\ SameCommand(cmd') /\ cmd'.pc = "ended" /\ cmd'.failed
               /\ cmd'.errs = cmd.errs /\ cmd'.rmMesh = cmd.rmMesh
      \/ /\ behind' = FALSE /\ alloy' = [file |-> mounts, runs |-> mounts]
         /\ \/ cmd.forget = {} /\ AfterIn(cmd', FALSE)
            \/ KeptCommand(cmd') /\ cmd'.pc = "fjournals" /\ cmd'.forget = cmd.forget
  BY <1>0, SyncMoves, WarnedIs
<1>2. cmd.pc = "fsync" /\ UNCHANGED <<clusterVars, service, volumes, journals, amiss, ready>>
  BY DEF ForgetSync, At
<1>3. AlloyInv'
  <2>1. Running("alloy")' = Running("alloy") /\ Running("alloy")
    BY <1>2 DEF StackInv, ServicesInv, AllRun, Running, At
  <2>2. Follows'
    <3>1. CASE behind' = TRUE
      BY <3>1 DEF Follows
    <3>2. CASE alloy' = [file |-> mounts, runs |-> mounts]
      <4>1. alloy'.file = mounts /\ alloy'.runs = mounts /\ mounts' = mounts
        BY <1>2, <3>2 DEF clusterVars
      <4> QED
        BY <4>1 DEF Follows
    <3> QED
      BY <1>1, <3>1, <3>2
  <2>3. cmd'.pc \in {"keep", "rmStack", "ended", "fjournals"}
    BY <1>1 DEF AfterIn
  <2> QED
    BY <2>1, <2>2, <2>3 DEF AlloyInv, Making, Ensuring, At
<1>4. StackComplete'
  <2>1. CASE cmd.op = "on"
    <3>1. cmd'.op = "on" /\ ~cmd'.mon
      BY <1>0, <1>1, <2>1, <1>2 DEF StackInv, PhaseInv, AfterIn, KeptCommand, SameCommand
    <3> QED
      BY <3>1 DEF StackComplete
  <2>2. CASE cmd.op # "on"
    <3>1. AfterIn(cmd', TRUE) \/ AfterIn(cmd', FALSE) \/ cmd'.pc # "ended"
      BY <1>1, <2>2 DEF KeptCommand
    <3> QED
      BY <1>0, <1>2, <3>1, AfterEnds
  <2> QED
    BY <2>1, <2>2
<1>5. NothingLeft'
  <2>1. CASE cmd.op = "on"
    <3>1. cmd'.op = "on" /\ ~cmd'.mon
      BY <1>0, <1>1, <2>1, <1>2 DEF StackInv, PhaseInv, AfterIn, KeptCommand, SameCommand
    <3> QED
      BY <3>1 DEF NothingLeft
  <2>2. CASE cmd.op # "on"
    <3>1. AfterIn(cmd', TRUE) \/ AfterIn(cmd', FALSE) \/ cmd'.pc # "ended"
      BY <1>1, <2>2 DEF KeptCommand
    <3> QED
      BY <1>0, <1>2, <3>1, AfterEnds
  <2> QED
    BY <2>1, <2>2
<1> USE DEF Command, Claims, FailsIn, AfterIn, KeptCommand, SameCommand, StaysIn, OnwardIn,
        Ops, Making,
    Ensuring, Adding, Undoing, Forgetting, Cleaning, At, clusterVars, stackVars
<1>6. PhaseInv'
  BY <1>0, <1>1, <1>2, SMTT(20) DEF StackInv, PhaseInv
<1>7. NodesInv'
  BY <1>0, <1>1, <1>2, SMTT(20) DEF StackInv, NodesInv, PhaseInv, MountsOf,
    WorkersOf, Of, Others, Taken, OtherMonitored
<1>8. JournalInv'
  BY <1>0, <1>1, <1>2, SMTT(20) DEF StackInv, JournalInv, PhaseInv, NodesInv,
    WorkersOf, MountsOf, Of, Fresh, NewDirs
<1>9. ServicesInv'
  BY <1>0, <1>1, <1>2, SMTT(20) DEF StackInv, ServicesInv, PhaseInv, Current,
    Running, Exists, AtService, This, AllRun
<1>10. StackStays'
  BY <1>0, <1>1, <1>2, SMTT(20) DEF StackInv, StackStays, NodesInv, PhaseInv,
    Exists, HasMonitoredController
<1>11. Collected'
  BY <1>0, <1>1, <1>2, SMTT(20) DEF StackInv, Collected, AlloyInv, PhaseInv,
    Follows, Running
<1> QED
  BY <1>3, <1>4, <1>5, <1>6, <1>7, <1>8, <1>9, <1>10, <1>11 DEF StackParts

\* The journals of the nodes that are gone are removed.
LEMMA RemoveJournalsStep ==
  ASSUME StackInv, RemoveJournals
  PROVE  StackParts'
<1>0. /\ cmd \in Command /\ MonitoringTypeOK /\ mounts \subseteq Nodes
      /\ DOMAIN journals \subseteq Places /\ mounts \subseteq containers
  BY DEF StackInv, MonitoringTypeOK
<1>1. AfterIn(cmd', FALSE)
  BY <1>0, JournalsMoves
<1>2. cmd.pc = "fjournals" /\ UNCHANGED <<clusterVars, service, volumes, alloy, amiss, ready, behind>>
  BY DEF RemoveJournals, At
<1> USE DEF Command, Claims, FailsIn, AfterIn, KeptCommand, SameCommand, StaysIn, OnwardIn,
        Ops, Making,
    Ensuring, Adding, Undoing, Forgetting, Cleaning, At, clusterVars, stackVars
<1>3. PhaseInv'
  BY <1>0, <1>1, <1>2, SMTT(20) DEF StackInv, PhaseInv
<1>4. NodesInv'
  BY <1>0, <1>1, <1>2, SMTT(20) DEF StackInv, NodesInv, PhaseInv, MountsOf,
    WorkersOf, Of, Others, Taken, OtherMonitored
<1>5. JournalInv'
  BY <1>0, <1>1, <1>2, SMTT(20) DEF StackInv, JournalInv, PhaseInv, NodesInv,
    WorkersOf, MountsOf, Of, Fresh, NewDirs
<1>6. ServicesInv'
  BY <1>0, <1>1, <1>2, SMTT(20) DEF StackInv, ServicesInv, PhaseInv, Current,
    Running, Exists, AtService, This, AllRun
<1>7. AlloyInv'
  BY <1>0, <1>1, <1>2, SMTT(20) DEF StackInv, AlloyInv, PhaseInv, NodesInv,
    ServicesInv, Follows, Running, Exists, MountsOf, Of, AllRun, OtherMonitored
<1>8. StackStays'
  BY <1>0, <1>1, <1>2, SMTT(20) DEF StackInv, StackStays, NodesInv, PhaseInv,
    Exists, HasMonitoredController
<1>9. StackComplete'
  BY <1>0, <1>1, <1>2, SMTT(20) DEF StackInv, StackComplete, ServicesInv, AlloyInv,
    PhaseInv, Current, Running, Exists, AllRun
<1>10. Collected'
  BY <1>0, <1>1, <1>2, SMTT(20) DEF StackInv, Collected, AlloyInv, PhaseInv,
    Follows, Running
<1>11. NothingLeft'
  BY <1>0, <1>1, <1>2, SMTT(20) DEF StackInv, NothingLeft, ServicesInv, PhaseInv,
    NodesInv, Exists
<1> QED
  BY <1>3, <1>4, <1>5, <1>6, <1>7, <1>8, <1>9, <1>10, <1>11 DEF StackParts

\* A rollback asks whether it keeps the stack.
LEMMA RollbackKeepsStackStep ==
  ASSUME StackInv, RollbackKeepsStack
  PROVE  StackParts'
<1>0. /\ cmd \in Command /\ MonitoringTypeOK /\ mounts \subseteq Nodes
      /\ DOMAIN journals \subseteq Places /\ mounts \subseteq containers
  BY DEF StackInv, MonitoringTypeOK
<1>1. /\ KeptCommand(cmd')
      /\ \/ cmd'.pc = "ended" /\ ~cmd.rmMesh
         \/ cmd'.pc = "rmStack" /\ (cmd.rmMesh \/ (cmd.stack /\ ~OtherMonitored))
  BY <1>0, KeepMoves
<1>2. cmd.pc = "keep" /\ UNCHANGED <<clusterVars, stackVars, ready, behind>>
  BY DEF RollbackKeepsStack, At
<1> USE DEF Command, Claims, FailsIn, AfterIn, KeptCommand, SameCommand, StaysIn, OnwardIn,
        Ops, Making,
    Ensuring, Adding, Undoing, Forgetting, Cleaning, At, clusterVars, stackVars
<1>3. PhaseInv'
  BY <1>0, <1>1, <1>2, SMTT(20) DEF StackInv, PhaseInv
<1>4. NodesInv'
  BY <1>0, <1>1, <1>2, SMTT(20) DEF StackInv, NodesInv, PhaseInv, MountsOf,
    WorkersOf, Of, Others, Taken, OtherMonitored
<1>5. JournalInv'
  BY <1>0, <1>1, <1>2, SMTT(20) DEF StackInv, JournalInv, PhaseInv, NodesInv,
    WorkersOf, MountsOf, Of, Fresh, NewDirs
<1>6. ServicesInv'
  BY <1>0, <1>1, <1>2, SMTT(20) DEF StackInv, ServicesInv, PhaseInv, Current,
    Running, Exists, AtService, This, AllRun
<1>7. AlloyInv'
  BY <1>0, <1>1, <1>2, SMTT(20) DEF StackInv, AlloyInv, PhaseInv, NodesInv,
    ServicesInv, Follows, Running, Exists, MountsOf, Of, AllRun, OtherMonitored
<1>8. StackStays'
  BY <1>0, <1>1, <1>2, SMTT(20) DEF StackInv, StackStays, NodesInv, PhaseInv,
    Exists, HasMonitoredController
<1>9. StackComplete'
  BY <1>0, <1>1, <1>2, SMTT(20) DEF StackInv, StackComplete, ServicesInv, AlloyInv,
    PhaseInv, Current, Running, Exists, AllRun
<1>10. Collected'
  BY <1>0, <1>1, <1>2, SMTT(20) DEF StackInv, Collected, AlloyInv, PhaseInv,
    Follows, Running
<1>11. NothingLeft'
  BY <1>0, <1>1, <1>2, SMTT(20) DEF StackInv, NothingLeft, ServicesInv, PhaseInv,
    NodesInv, Exists
<1> QED
  BY <1>3, <1>4, <1>5, <1>6, <1>7, <1>8, <1>9, <1>10, <1>11 DEF StackParts

\* A delete of all clusters lists them.
LEMMA RealmClusterNamesStep ==
  ASSUME StackInv, RealmClusterNames
  PROVE  StackParts'
<1>0. /\ cmd \in Command /\ MonitoringTypeOK /\ mounts \subseteq Nodes
      /\ DOMAIN journals \subseteq Places /\ mounts \subseteq containers
  BY DEF StackInv, MonitoringTypeOK
<1>1. \/ FailsIn(cmd') /\ cmd'.stack = cmd.stack
      \/ KeptCommand(cmd') /\ cmd'.pc = "all" /\ cmd'.forget = cmd.forget
             /\ cmd'.todo = {c \in Cluster : Taken(c)}
  BY <1>0, NamesMoves
<1>2. cmd.pc = "names" /\ UNCHANGED <<clusterVars, stackVars, ready, behind>>
  BY DEF RealmClusterNames, At
<1>3. NodesInv'
  <2>1. \A t \in containers : t[1] \in Cluster /\ Taken(t[1])
    BY <1>0 DEF MonitoringTypeOK, Nodes, Taken, Of
  <2> QED BY <2>1, <1>0, <1>1, <1>2, SMTT(20) DEF StackInv, Command, Claims, clusterVars,
          FailsIn, KeptCommand, SameCommand, Ops, Making, Ensuring, Adding, Undoing,
          Forgetting, Cleaning, At, PhaseInv, MountsOf, WorkersOf, Of, Others, NodesInv
<1> USE DEF Command, Claims, FailsIn, AfterIn, KeptCommand, SameCommand, StaysIn, OnwardIn,
        Ops, Making,
    Ensuring, Adding, Undoing, Forgetting, Cleaning, At, clusterVars, stackVars
<1>4. PhaseInv'
  BY <1>0, <1>1, <1>2, SMTT(20) DEF StackInv, PhaseInv
<1>5. JournalInv'
  BY <1>0, <1>1, <1>2, SMTT(20) DEF StackInv, JournalInv, PhaseInv, NodesInv,
    WorkersOf, MountsOf, Of, Fresh, NewDirs
<1>6. ServicesInv'
  BY <1>0, <1>1, <1>2, SMTT(20) DEF StackInv, ServicesInv, PhaseInv, Current,
    Running, Exists, AtService, This, AllRun
<1>7. AlloyInv'
  BY <1>0, <1>1, <1>2, SMTT(20) DEF StackInv, AlloyInv, PhaseInv, NodesInv,
    ServicesInv, Follows, Running, Exists, MountsOf, Of, AllRun, OtherMonitored
<1>8. StackStays'
  BY <1>0, <1>1, <1>2, SMTT(20) DEF StackInv, StackStays, NodesInv, PhaseInv,
    Exists, HasMonitoredController
<1>9. StackComplete'
  BY <1>0, <1>1, <1>2, SMTT(20) DEF StackInv, StackComplete, ServicesInv, AlloyInv,
    PhaseInv, Current, Running, Exists, AllRun
<1>10. Collected'
  BY <1>0, <1>1, <1>2, SMTT(20) DEF StackInv, Collected, AlloyInv, PhaseInv,
    Follows, Running
<1>11. NothingLeft'
  BY <1>0, <1>1, <1>2, SMTT(20) DEF StackInv, NothingLeft, ServicesInv, PhaseInv,
    NodesInv, Exists
<1> QED
  BY <1>3, <1>4, <1>5, <1>6, <1>7, <1>8, <1>9, <1>10, <1>11 DEF StackParts

\* A create or an add begins to ensure the stack.
LEMMA EnsureMonitoringStep ==
  ASSUME StackInv, EnsureMonitoring
  PROVE  StackParts'
<1>0. /\ cmd \in Command /\ MonitoringTypeOK /\ mounts \subseteq Nodes
      /\ DOMAIN journals \subseteq Places /\ mounts \subseteq containers
  BY DEF StackInv, MonitoringTypeOK
<1>1. \/ FailsIn(cmd') /\ cmd'.stack = cmd.stack
      \/ /\ StaysIn(cmd') /\ cmd'.pc = "volumes" /\ cmd'.conf = mounts /\ cmd'.i = 1
         /\ cmd'.copy = cmd.copy /\ cmd'.stack = cmd.stack
  <2>1. CASE cmd' = Failed
    BY <1>0, <2>1, FailedIs
  <2> DEFINE e == Exists("alloy")
  <2>2. CASE cmd' = [cmd EXCEPT !.pc = "volumes", !.exists = e, !.conf = mounts, !.i = 1]
    <3>1. e \in BOOLEAN
      BY DEF Exists
    <3> HIDE DEF e
    <3>2. "volumes" \in Phases /\ mounts \in SUBSET Nodes /\ 1 \in Nat \ {0}
      BY <1>0 DEF Phases, Ensuring
    <3>3. cmd' \in Command
      <4> DEFINE n == 1
      <4>1. n \in Nat \ {0}
          /\ cmd' = [cmd EXCEPT !.pc = "volumes", !.exists = e, !.conf = mounts, !.i = n]
        BY <2>2, <3>2
      <4> HIDE DEF n
      <4> QED
        BY <1>0, <3>1, <3>2, <4>1 DEF Command
    <3> QED
      BY <1>0, <2>2, <3>3 DEF Command, StaysIn
  <2> QED
    BY <2>1, <2>2 DEF EnsureMonitoring, MonitoringTargets
<1>2. cmd.pc = "ensure" /\ UNCHANGED <<clusterVars, stackVars, ready, behind>>
  BY DEF EnsureMonitoring, At
<1> USE DEF Command, Claims, FailsIn, AfterIn, KeptCommand, SameCommand, StaysIn, OnwardIn,
        Ops, Making,
    Ensuring, Adding, Undoing, Forgetting, Cleaning, At, clusterVars, stackVars
<1>3. PhaseInv'
  BY <1>0, <1>1, <1>2, SMTT(20) DEF StackInv, PhaseInv
<1>4. NodesInv'
  BY <1>0, <1>1, <1>2, SMTT(20) DEF StackInv, NodesInv, PhaseInv, MountsOf,
    WorkersOf, Of, Others, Taken, OtherMonitored
<1>5. JournalInv'
  BY <1>0, <1>1, <1>2, SMTT(20) DEF StackInv, JournalInv, PhaseInv, NodesInv,
    WorkersOf, MountsOf, Of, Fresh, NewDirs
<1>6. ServicesInv'
  BY <1>0, <1>1, <1>2, SMTT(20) DEF StackInv, ServicesInv, PhaseInv, Current,
    Running, Exists, AtService, This, AllRun
<1>7. AlloyInv'
  BY <1>0, <1>1, <1>2, SMTT(20) DEF StackInv, AlloyInv, PhaseInv, NodesInv,
    ServicesInv, Follows, Running, Exists, MountsOf, Of, AllRun, OtherMonitored
<1>8. StackStays'
  BY <1>0, <1>1, <1>2, SMTT(20) DEF StackInv, StackStays, NodesInv, PhaseInv,
    Exists, HasMonitoredController
<1>9. StackComplete'
  BY <1>0, <1>1, <1>2, SMTT(20) DEF StackInv, StackComplete, ServicesInv, AlloyInv,
    PhaseInv, Current, Running, Exists, AllRun
<1>10. Collected'
  BY <1>0, <1>1, <1>2, SMTT(20) DEF StackInv, Collected, AlloyInv, PhaseInv,
    Follows, Running
<1>11. NothingLeft'
  BY <1>0, <1>1, <1>2, SMTT(20) DEF StackInv, NothingLeft, ServicesInv, PhaseInv,
    NodesInv, Exists
<1> QED
  BY <1>3, <1>4, <1>5, <1>6, <1>7, <1>8, <1>9, <1>10, <1>11 DEF StackParts

\* The volumes of the stack are there.
LEMMA CreateVolumesStep ==
  ASSUME \E n \in Nat : DOMAIN StartOrder = 1..n, StackInv, CreateVolumes
  PROVE  StackParts'
<1>0. /\ cmd \in Command /\ MonitoringTypeOK /\ mounts \subseteq Nodes
      /\ DOMAIN journals \subseteq Places /\ mounts \subseteq containers
  BY DEF StackInv, MonitoringTypeOK
<1>1. FailsIn(cmd') \/ (OnwardIn(cmd', "services", cmd.i, cmd.copy))
  <2>1. CASE cmd' = StackFailed
    BY <1>0, <2>1, StackFailedIs
  <2>2. CASE cmd' = [cmd EXCEPT !.pc = "services"]
    BY <1>0, <2>2 DEF Command, StaysIn, OnwardIn, Phases, Ensuring
  <2> QED
    BY <2>1, <2>2 DEF StackStep, CreateVolumes
<1>2. cmd.pc = "volumes" /\ UNCHANGED <<clusterVars, service, journals, alloy, amiss, ready, behind>>
  BY DEF CreateVolumes, AtService, At
<1>3. volumes \subseteq volumes'
  BY DEF CreateVolumes
<1>4. ServicesInv'
  <2>1. \A j \in DOMAIN StartOrder : ~(j < 1)
    OBVIOUS
  <2> QED
    BY <1>0, <1>1, <1>2, <2>1, SMTT(20) DEF StackInv, FailsIn, StaysIn, OnwardIn, Adding,
      At, ServicesInv, PhaseInv, Current, Running, Exists, AtService, This, AllRun,
      stackVars, clusterVars
<1> USE DEF Command, Claims, FailsIn, AfterIn, KeptCommand, SameCommand, StaysIn, OnwardIn,
        Ops, Making,
    Ensuring, Adding, Undoing, Forgetting, Cleaning, At, clusterVars, stackVars
<1>5. PhaseInv'
  BY <1>0, <1>1, <1>2, <1>3, SMTT(20) DEF StackInv, PhaseInv
<1>6. NodesInv'
  BY <1>0, <1>1, <1>2, <1>3, SMTT(20) DEF StackInv, NodesInv, PhaseInv, MountsOf,
    WorkersOf, Of, Others, Taken, OtherMonitored
<1>7. JournalInv'
  BY <1>0, <1>1, <1>2, <1>3, SMTT(20) DEF StackInv, JournalInv, PhaseInv, NodesInv,
    WorkersOf, MountsOf, Of, Fresh, NewDirs
<1>8. AlloyInv'
  BY <1>0, <1>1, <1>2, <1>3, SMTT(20) DEF StackInv, AlloyInv, PhaseInv, NodesInv,
    ServicesInv, Follows, Running, Exists, MountsOf, Of, AllRun, OtherMonitored
<1>9. StackStays'
  BY <1>0, <1>1, <1>2, <1>3, SMTT(20) DEF StackInv, StackStays, NodesInv, PhaseInv,
    Exists, HasMonitoredController
<1>10. StackComplete'
  BY <1>0, <1>1, <1>2, <1>3, SMTT(20) DEF StackInv, StackComplete, ServicesInv,
    AlloyInv, PhaseInv, Current, Running, Exists, AllRun
<1>11. Collected'
  BY <1>0, <1>1, <1>2, <1>3, SMTT(20) DEF StackInv, Collected, AlloyInv, PhaseInv,
    Follows, Running
<1>12. NothingLeft'
  BY <1>0, <1>1, <1>2, <1>3, SMTT(20) DEF StackInv, NothingLeft, ServicesInv,
    PhaseInv, NodesInv, Exists
<1> QED
  BY <1>4, <1>5, <1>6, <1>7, <1>8, <1>9, <1>10, <1>11, <1>12 DEF StackParts

\* A service of another version is removed.
LEMMA RemoveOutdatedStep ==
  ASSUME "alloy" \in Service, StackInv, RemoveOutdated
  PROVE  StackParts'
<1>0. /\ cmd \in Command /\ MonitoringTypeOK /\ mounts \subseteq Nodes
      /\ DOMAIN journals \subseteq Places /\ mounts \subseteq containers
  BY DEF StackInv, MonitoringTypeOK
<1>1. FailsIn(cmd') \/ (cmd' = cmd)
  <2>1. CASE cmd' = StackFailed
    BY <1>0, <2>1, StackFailedIs
  <2>2. CASE cmd' = cmd
    BY <1>0, <2>2 DEF Command, StaysIn, OnwardIn, Phases, Ensuring
  <2> QED
    BY <2>1, <2>2 DEF StackStep, RemoveOutdated
<1>2. cmd.pc = "services" /\ UNCHANGED <<clusterVars, volumes, journals, ready, behind>>
  BY DEF RemoveOutdated, AtService, At
<1>3. This \in Service /\ ~cmd.copy /\ Outdated(This)
  BY DEF RemoveOutdated, AtService, This, Service
<1>4. \A s \in Service : s # This => service'[s] = service[s]
  BY <1>0 DEF RemoveOutdated, SetService, MonitoringTypeOK
<1>5. \/ service'[This] = service[This] /\ alloy' = alloy
      \/ /\ service'[This] = NoService
         /\ alloy' = IF This # "alloy" THEN alloy ELSE [file |-> {}, runs |-> {}]
  <2>1. CASE UNCHANGED <<service, alloy, amiss>>
    BY <2>1
  <2>2. CASE SetService(This, NoService)
    BY <1>0, <1>3, <2>2 DEF SetService, MonitoringTypeOK, NoService
  <2> QED
    BY <2>1, <2>2 DEF RemoveOutdated
<1>6. amiss \subseteq amiss' /\ (service'[This] # service[This] => This \in amiss')
  BY DEF RemoveOutdated
<1>7. ServicesInv'
  <2>1. \A s \in Service : service'[s] = service[s] \/ service'[s] = NoService
    BY <1>4, <1>5
  <2>2. \A s \in Service : (service'[s].files => Exists(s)') /\ (Running(s)' => service'[s].files)
    BY <2>1 DEF StackInv, ServicesInv, Running, Exists, NoService
  <2>3. CASE FailsIn(cmd')
    BY <2>2, <2>3, <1>2 DEF ServicesInv, FailsIn, At, Adding, AllRun
  <2>4. CASE cmd' = cmd
    <3>1. \A j \in DOMAIN StartOrder : j < cmd.i => Current(StartOrder[j]) /\ StartOrder[j] # This
      BY <1>2, <1>3 DEF StackInv, ServicesInv, At, Current, Outdated
    <3>2. \A j \in DOMAIN StartOrder : j < cmd'.i => Current(StartOrder[j])'
      BY <1>4, <2>4, <3>1 DEF Current, Exists, Service
    <3> QED
      BY <1>2, <1>3, <2>2, <2>4, <3>2 DEF ServicesInv, At, Adding
  <2> QED
    BY <1>1, <2>3, <2>4
<1>8. AlloyInv'
  <2>1. Follows => Follows'
    BY <1>2, <1>4, <1>5 DEF Follows, Running, NoService, clusterVars
  <2>2. alloy'.runs # {} => Running("alloy")'
    BY <1>4, <1>5 DEF StackInv, AlloyInv, Running
  <2>3. cmd.conf = mounts /\ mounts' = mounts /\ containers' = containers
    BY <1>2 DEF StackInv, AlloyInv, At, clusterVars
  <2> QED
    BY <1>0, <1>1, <1>2, <2>1, <2>2, <2>3, EnsuringAlloy DEF StaysIn, Ensuring
<1>9. StackComplete'
  <2>1. cmd'.pc = "ended" => cmd'.failed
    BY <1>1, <1>2 DEF FailsIn, StaysIn, OnwardIn
  <2> QED
    BY <2>1 DEF StackComplete, At
<1>10. NothingLeft'
  <2>1. cmd'.pc = "ended" => cmd'.failed
    BY <1>1, <1>2 DEF FailsIn, StaysIn, OnwardIn
  <2> QED
    BY <2>1 DEF NothingLeft, At
<1> USE DEF Command, Claims, FailsIn, AfterIn, KeptCommand, SameCommand, StaysIn, OnwardIn,
        Ops, Making,
    Ensuring, Adding, Undoing, Forgetting, Cleaning, At, clusterVars, stackVars
<1>11. PhaseInv'
  BY <1>0, <1>1, <1>2, <1>3, <1>4, <1>5, <1>6, SMTT(20) DEF StackInv, PhaseInv
<1>12. NodesInv'
  BY <1>0, <1>1, <1>2, <1>3, <1>4, <1>5, <1>6, SMTT(20) DEF StackInv, NodesInv,
    PhaseInv, MountsOf, WorkersOf, Of, Others, Taken, OtherMonitored
<1>13. JournalInv'
  BY <1>0, <1>1, <1>2, <1>3, <1>4, <1>5, <1>6, SMTT(20) DEF StackInv, JournalInv,
    PhaseInv, NodesInv, WorkersOf, MountsOf, Of, Fresh, NewDirs
<1>14. StackStays'
  BY <1>0, <1>1, <1>2, <1>3, <1>4, <1>5, <1>6, SMTT(20) DEF StackInv, StackStays,
    NodesInv, PhaseInv, Exists, HasMonitoredController
<1>15. Collected'
  BY <1>0, <1>1, <1>2, <1>3, <1>4, <1>5, <1>6, SMTT(20) DEF StackInv, Collected,
    AlloyInv, PhaseInv, Follows, Running
<1> QED
  BY <1>7, <1>8, <1>9, <1>10, <1>11, <1>12, <1>13, <1>14, <1>15 DEF StackParts

\* A service that is missing is made.
LEMMA CreateContainerStep ==
  ASSUME "alloy" \in Service, StackInv, CreateContainer
  PROVE  StackParts'
<1>0. /\ cmd \in Command /\ MonitoringTypeOK /\ mounts \subseteq Nodes
      /\ DOMAIN journals \subseteq Places /\ mounts \subseteq containers
  BY DEF StackInv, MonitoringTypeOK
<1>1. This \in Service /\ AtService /\ ~Exists(This)
  BY DEF CreateContainer, AtService, This, Service
<1>2. cmd.pc = "services" /\ UNCHANGED <<clusterVars, volumes, journals, ready, behind>>
  BY DEF CreateContainer, AtService, At
<1>3. \A s \in Service : s # This => service'[s] = service[s]
  BY <1>0 DEF CreateContainer, SetService, MonitoringTypeOK
<1> DEFINE r == [state |-> "made", version |-> cmd.version, files |-> FALSE]
           AsMade == /\ service'[This] = r /\ amiss' = amiss \cup {This}
                   /\ alloy' = IF This # "alloy" THEN alloy ELSE [file |-> {}, runs |-> {}]
<1>4. SetService(This, r) /\ amiss' = amiss \cup {This} => AsMade
  BY <1>0, <1>1 DEF SetService, MonitoringTypeOK
<1>5. \/ service' = service /\ alloy' = alloy /\ amiss' = amiss
      \/ AsMade
  BY <1>4 DEF CreateContainer
<1>6. \/ FailsIn(cmd')
      \/ OnwardIn(cmd', "services", cmd.i, TRUE) /\ AsMade
  <2>1. CASE cmd' = StackFailed
    BY <1>0, <2>1, StackFailedIs
  <2>2. CASE cmd' = [cmd EXCEPT !.copy = TRUE] /\ AsMade
    BY <1>0, <1>2, <2>2 DEF Command, StaysIn, OnwardIn
  <2> QED
    BY <1>4, <2>1, <2>2 DEF CreateContainer, StackStep, Effect
<1>7. ServicesInv'
  <2>1. \A s \in Service : service'[s] = service[s] \/ service'[s] = r
    BY <1>3, <1>5
  <2>2. \A s \in Service : (service'[s].files => Exists(s)') /\ (Running(s)' => service'[s].files)
    BY <2>1 DEF StackInv, ServicesInv, Running, Exists
  <2>3. CASE FailsIn(cmd')
    BY <2>2, <2>3, <1>2 DEF ServicesInv, FailsIn, At, Adding, AllRun
  <2>4. CASE OnwardIn(cmd', "services", cmd.i, TRUE) /\ AsMade
    <3>1. \A j \in DOMAIN StartOrder : j < cmd.i => Current(StartOrder[j]) /\ StartOrder[j] # This
      BY <1>1, <1>2 DEF StackInv, ServicesInv, At, Current
    <3>2. \A j \in DOMAIN StartOrder : j < cmd'.i => Current(StartOrder[j])'
      BY <1>3, <2>4, <3>1 DEF Current, Exists, Service, OnwardIn, StaysIn
    <3>3. AtService' /\ Current(This)'
      BY <1>1, <2>4 DEF AtService, At, Current, Exists, This, OnwardIn, StaysIn
    <3> QED
      BY <1>2, <2>2, <2>4, <3>2, <3>3 DEF ServicesInv, At, Adding, OnwardIn
  <2> QED
    BY <1>6, <2>3, <2>4
<1>8. AlloyInv'
  <2>1. Follows => Follows'
    BY <1>2, <1>3, <1>5 DEF Follows, Running, clusterVars
  <2>2. alloy'.runs # {} => Running("alloy")'
    BY <1>3, <1>5 DEF StackInv, AlloyInv, Running
  <2>3. cmd.conf = mounts /\ mounts' = mounts /\ containers' = containers
    BY <1>2 DEF StackInv, AlloyInv, At, clusterVars
  <2> QED
    BY <1>0, <1>2, <1>6, <2>1, <2>2, <2>3, EnsuringAlloy DEF OnwardIn, Ensuring
<1>9. StackComplete'
  <2>1. cmd'.pc = "ended" => cmd'.failed
    BY <1>2, <1>6 DEF FailsIn, StaysIn, OnwardIn
  <2> QED
    BY <2>1 DEF StackComplete, At
<1>10. NothingLeft'
  <2>1. cmd'.pc = "ended" => cmd'.failed
    BY <1>2, <1>6 DEF FailsIn, StaysIn, OnwardIn
  <2> QED
    BY <2>1 DEF NothingLeft, At
<1> USE DEF Command, Claims, FailsIn, AfterIn, KeptCommand, SameCommand, StaysIn, OnwardIn,
        Ops, Making,
    Ensuring, Adding, Undoing, Forgetting, Cleaning, At, clusterVars, stackVars
<1>11. PhaseInv'
  BY <1>0, <1>1, <1>2, <1>3, <1>4, <1>5, <1>6, SMTT(20) DEF StackInv, PhaseInv
<1>12. NodesInv'
  BY <1>0, <1>1, <1>2, <1>3, <1>4, <1>5, <1>6, SMTT(20) DEF StackInv, NodesInv,
    PhaseInv, MountsOf, WorkersOf, Of, Others, Taken, OtherMonitored
<1>13. JournalInv'
  BY <1>0, <1>1, <1>2, <1>3, <1>4, <1>5, <1>6, SMTT(20) DEF StackInv, JournalInv,
    PhaseInv, NodesInv, WorkersOf, MountsOf, Of, Fresh, NewDirs
<1>14. StackStays'
  BY <1>0, <1>1, <1>2, <1>3, <1>4, <1>5, <1>6, SMTT(20) DEF StackInv, StackStays,
    NodesInv, PhaseInv, Exists, HasMonitoredController
<1>15. Collected'
  BY <1>0, <1>1, <1>2, <1>3, <1>4, <1>5, <1>6, SMTT(20) DEF StackInv, Collected,
    AlloyInv, PhaseInv, Follows, Running
<1> QED
  BY <1>7, <1>8, <1>9, <1>10, <1>11, <1>12, <1>13, <1>14, <1>15 DEF StackParts

\* The files of a new service are copied, with them what Alloy is to know.
LEMMA CopyFilesStep ==
  ASSUME "alloy" \in Service, StackInv, CopyFiles
  PROVE  StackParts'
<1>0. /\ cmd \in Command /\ MonitoringTypeOK /\ mounts \subseteq Nodes
      /\ DOMAIN journals \subseteq Places /\ mounts \subseteq containers
  BY DEF StackInv, MonitoringTypeOK
<1>1. This \in Service /\ AtService /\ cmd.copy /\ Current(This) /\ cmd.conf = mounts
  BY DEF CopyFiles, AtService, This, Service, StackInv, ServicesInv, AlloyInv, At
<1>2. cmd.pc = "services" /\ UNCHANGED <<clusterVars, volumes, journals, ready, behind>>
  BY DEF CopyFiles, AtService, At
<1> DEFINE Copied == /\ service' = [service EXCEPT ![This].files = TRUE]
                     /\ alloy' = IF This = "alloy" THEN [alloy EXCEPT !.file = cmd.conf] ELSE alloy
                     /\ amiss' = amiss \ {This}
<1>3. \/ UNCHANGED <<service, alloy, amiss>>
      \/ Copied
  BY DEF CopyFiles
<1>4. \A s \in Service :
          /\ service'[s].state = service[s].state /\ service'[s].version = service[s].version
                         /\ service'[s].files \in {service[s].files, TRUE}
  <2>1. CASE service' = service
    BY <2>1
  <2>2. CASE service' = [service EXCEPT ![This].files = TRUE]
    <3>1. service' = [service EXCEPT ![This] = [service[This] EXCEPT !.files = TRUE]]
      BY <1>0, <1>1, <2>2 DEF MonitoringTypeOK
    <3>2. \A s \in Service :
              service'[s] = IF s = This THEN [service[This] EXCEPT !.files = TRUE] ELSE service[s]
      BY <1>0, <3>1 DEF MonitoringTypeOK
    <3>3. service[This] \in [state : {"none", "made", "running"},
                             version : Version \cup {0}, files : BOOLEAN]
      BY <1>0, <1>1 DEF MonitoringTypeOK
    <3>4. /\ service'[This].state = service[This].state
          /\ service'[This].version = service[This].version /\ service'[This].files = TRUE
      BY <1>1, <3>2, <3>3
    <3> QED
      BY <3>2, <3>4
  <2> QED
    BY <1>3, <2>1, <2>2
<1>5. \A s \in Service : service'[s].files = service[s].files \/ s = This
  BY <1>0, <1>3 DEF MonitoringTypeOK
<1>6. \/ FailsIn(cmd')
      \/ OnwardIn(cmd', "services", cmd.i, FALSE)
  <2>1. CASE cmd' = StackFailed
    BY <1>0, <2>1, StackFailedIs
  <2>2. CASE cmd' = [cmd EXCEPT !.copy = FALSE]
    BY <1>0, <1>2, <2>2 DEF Command, StaysIn, OnwardIn
  <2> QED
    BY <2>1, <2>2 DEF CopyFiles, StackStep
<1>7. ServicesInv'
  <2>2. \A s \in Service : (service'[s].files => Exists(s)') /\ (Running(s)' => service'[s].files)
    BY <1>1, <1>4, <1>5 DEF StackInv, ServicesInv, Running, Exists, Current
  <2>3. CASE FailsIn(cmd')
    BY <2>2, <2>3, <1>2 DEF ServicesInv, FailsIn, At, Adding, AllRun
  <2>4. CASE OnwardIn(cmd', "services", cmd.i, FALSE)
    <3>1. \A j \in DOMAIN StartOrder : j < cmd'.i => Current(StartOrder[j])'
      BY <1>2, <1>4, <2>4 DEF StackInv, ServicesInv, At, Current, Exists, Service,
        OnwardIn, StaysIn
    <3> QED
      BY <1>2, <2>2, <2>4, <3>1 DEF ServicesInv, At, Adding, OnwardIn
  <2> QED
    BY <1>6, <2>3, <2>4
<1>8. AlloyInv'
  <2>1. Follows => Follows'
    <3>1. CASE UNCHANGED <<service, alloy, amiss>>
      BY <1>2, <3>1 DEF Follows, Running, clusterVars
    <3>2. CASE Copied /\ This # "alloy"
      BY <1>2, <1>4, <1>5, <3>2 DEF Follows, Running, clusterVars
    <3>3. CASE Copied /\ This = "alloy"
      <4>1. alloy'.file = mounts /\ alloy'.runs = alloy.runs
        BY <1>0, <1>1, <3>3 DEF MonitoringTypeOK
      <4> QED
        BY <1>2, <1>4, <4>1 DEF Follows, Running, clusterVars
    <3> QED
      BY <1>3, <3>1, <3>2, <3>3
  <2>2. alloy'.runs # {} => Running("alloy")'
    BY <1>0, <1>3, <1>4 DEF StackInv, AlloyInv, Running, MonitoringTypeOK
  <2>3. cmd.conf = mounts /\ mounts' = mounts /\ containers' = containers
    BY <1>1, <1>2 DEF clusterVars
  <2> QED
    BY <1>0, <1>2, <1>6, <2>1, <2>2, <2>3, EnsuringAlloy DEF OnwardIn, Ensuring
<1>9. StackStays'
  <2>1. \A s \in Service \ amiss' : s \in amiss => s = This
    BY <1>3
  <2>2. \A s \in Service : Exists(s)' = Exists(s)
    BY <1>4 DEF Exists
  <2> QED
    BY <1>1, <1>2, <2>1, <2>2 DEF StackInv, StackStays, HasMonitoredController,
      Current, Exists, clusterVars
<1>10. StackComplete'
  <2>1. cmd'.pc = "ended" => cmd'.failed
    BY <1>2, <1>6 DEF FailsIn, StaysIn, OnwardIn
  <2> QED
    BY <2>1 DEF StackComplete, At
<1>11. NothingLeft'
  <2>1. cmd'.pc = "ended" => cmd'.failed
    BY <1>2, <1>6 DEF FailsIn, StaysIn, OnwardIn
  <2> QED
    BY <2>1 DEF NothingLeft, At
<1> USE DEF Command, Claims, FailsIn, AfterIn, KeptCommand, SameCommand, StaysIn, OnwardIn,
        Ops, Making,
    Ensuring, Adding, Undoing, Forgetting, Cleaning, At, clusterVars, stackVars
<1>12. PhaseInv'
  BY <1>0, <1>1, <1>2, <1>3, <1>4, <1>5, <1>6, SMTT(20) DEF StackInv, PhaseInv
<1>13. NodesInv'
  BY <1>0, <1>1, <1>2, <1>3, <1>4, <1>5, <1>6, SMTT(20) DEF StackInv, NodesInv,
    PhaseInv, MountsOf, WorkersOf, Of, Others, Taken, OtherMonitored
<1>14. JournalInv'
  BY <1>0, <1>1, <1>2, <1>3, <1>4, <1>5, <1>6, SMTT(20) DEF StackInv, JournalInv,
    PhaseInv, NodesInv, WorkersOf, MountsOf, Of, Fresh, NewDirs
<1>15. Collected'
  BY <1>0, <1>1, <1>2, <1>3, <1>4, <1>5, <1>6, SMTT(20) DEF StackInv, Collected,
    AlloyInv, PhaseInv, Follows, Running
<1> QED
  BY <1>7, <1>8, <1>9, <1>10, <1>11, <1>12, <1>13, <1>14, <1>15 DEF StackParts

\* A service is started.
LEMMA StartContainerStep ==
  ASSUME "alloy" \in Service, \E n \in Nat : DOMAIN StartOrder = 1..n, StackInv, StartContainer
  PROVE  StackParts'
<1>0. /\ cmd \in Command /\ MonitoringTypeOK /\ mounts \subseteq Nodes
      /\ DOMAIN journals \subseteq Places /\ mounts \subseteq containers
  BY DEF StackInv, MonitoringTypeOK
<1>1. This \in Service /\ AtService /\ ~cmd.copy /\ Current(This)
  BY DEF StartContainer, AtService, This, Service, Outdated, Current
<1>2. cmd.pc = "services" /\ UNCHANGED <<clusterVars, volumes, journals, amiss, ready, behind>>
  BY DEF StartContainer, AtService, At
<1>3. UNCHANGED <<service, alloy>> \/ SetService(This, Started(This))
  BY DEF StartContainer
<1>4. \A s \in Service : s # This => service'[s] = service[s]
  BY <1>0, <1>3 DEF SetService, MonitoringTypeOK
<1>5. /\ service'[This].version = service[This].version /\ service'[This].files = service[This].files
      /\ \/ service'[This].state = service[This].state /\ (This # "alloy" => alloy' = alloy)
            /\ (This = "alloy" => alloy' = alloy \/ (~service[This].files /\ alloy'.runs = {}))
         \/ /\ service[This].files /\ service'[This].state = "running"
            /\ alloy' = IF This # "alloy" THEN alloy ELSE [file |-> alloy.file, runs |-> alloy.file]
  <2>1. CASE UNCHANGED <<service, alloy>>
    BY <2>1
  <2>2. CASE SetService(This, Started(This))
    <3>1. service[This] \in [state : {"none", "made", "running"},
                             version : Version \cup {0}, files : BOOLEAN]
      BY <1>0, <1>1 DEF MonitoringTypeOK
    <3>2. service'[This] = Started(This)
      BY <1>0, <1>1, <2>2 DEF SetService, MonitoringTypeOK
    <3>3. CASE ~service[This].files
      <4>1. service'[This] = service[This] /\ Started(This) = service[This]
        BY <3>2, <3>3 DEF Started
      <4>2. service[This].state # "running"
        BY <1>1, <3>3 DEF StackInv, ServicesInv, Running
      <4> QED
        BY <1>1, <2>2, <3>3, <4>1, <4>2 DEF SetService
    <3>4. CASE service[This].files
      <4>1. Started(This) = [service[This] EXCEPT !.state = "running"]
        BY <3>4 DEF Started
      <4>2. /\ Started(This).state = "running" /\ Started(This).version = service[This].version
            /\ Started(This).files = service[This].files
        BY <3>1, <4>1
      <4> QED
        BY <2>2, <3>2, <3>4, <4>2 DEF SetService
    <3> QED
      BY <3>3, <3>4
  <2> QED
    BY <1>3, <2>1, <2>2
<1>6. \/ FailsIn(cmd')
      \/ OnwardIn(cmd', "services", cmd.i + 1, FALSE)
  <2>1. CASE cmd' = StackFailed
    BY <1>0, <2>1, StackFailedIs
  <2>2. CASE cmd' = [cmd EXCEPT !.i = @ + 1]
    <3>1. cmd.i + 1 \in Nat \ {0}
      BY <1>0 DEF Command
    <3> QED
      BY <1>0, <1>1, <1>2, <2>2, <3>1 DEF Command, StaysIn, OnwardIn
  <2> QED
    BY <2>1, <2>2 DEF StartContainer, StackStep
<1>7. ServicesInv'
  <2>1. \A s \in Service : service'[s].version = service[s].version /\ (Exists(s) => Exists(s)')
    BY <1>4, <1>5 DEF Exists
  <2>2. \A s \in Service : (service'[s].files => Exists(s)') /\ (Running(s)' => service'[s].files)
    BY <1>1, <1>4, <1>5 DEF StackInv, ServicesInv, Running, Exists, Current
  <2>3. CASE FailsIn(cmd')
    BY <2>2, <2>3, <1>2 DEF ServicesInv, FailsIn, At, Adding, AllRun
  <2>4. CASE OnwardIn(cmd', "services", cmd.i + 1, FALSE)
    <3>1. \A j \in DOMAIN StartOrder : j < cmd.i + 1 => Current(StartOrder[j])
      <4>1. \A j \in DOMAIN StartOrder : j < cmd.i => Current(StartOrder[j])
        BY <1>2 DEF StackInv, ServicesInv, At
      <4>2. \A j \in DOMAIN StartOrder : j \in Nat /\ (j < cmd.i + 1 => j < cmd.i \/ j = cmd.i)
        BY <1>0 DEF Command
      <4> QED
        BY <1>1, <4>1, <4>2 DEF This
    <3>2. \A j \in DOMAIN StartOrder : j < cmd'.i => Current(StartOrder[j])'
      BY <2>1, <2>4, <3>1 DEF Current, Exists, Service, OnwardIn, StaysIn
    <3> QED
      BY <1>2, <2>2, <2>4, <3>2 DEF ServicesInv, At, Adding, OnwardIn
  <2> QED
    BY <1>6, <2>3, <2>4
<1>8. AlloyInv'
  <2>1. Follows => Follows'
    <3>1. CASE This # "alloy"
      BY <1>2, <1>4, <1>5, <3>1 DEF Follows, Running, clusterVars
    <3>2. CASE This = "alloy"
      BY <1>1, <1>2, <1>5, <3>2 DEF StackInv, ServicesInv, Follows, Running, clusterVars
    <3> QED
      BY <3>1, <3>2
  <2>2. alloy'.runs # {} => Running("alloy")'
    BY <1>2, <1>4, <1>5 DEF StackInv, AlloyInv, Running
  <2>3. cmd.conf = mounts /\ mounts' = mounts /\ containers' = containers
    BY <1>2 DEF StackInv, AlloyInv, At, clusterVars
  <2> QED
    BY <1>0, <1>2, <1>6, <2>1, <2>2, <2>3, EnsuringAlloy DEF OnwardIn, Ensuring
<1>9. StackComplete'
  <2>1. cmd'.pc = "ended" => cmd'.failed
    BY <1>2, <1>6 DEF FailsIn, StaysIn, OnwardIn
  <2> QED
    BY <2>1 DEF StackComplete, At
<1>10. NothingLeft'
  <2>1. cmd'.pc = "ended" => cmd'.failed
    BY <1>2, <1>6 DEF FailsIn, StaysIn, OnwardIn
  <2> QED
    BY <2>1 DEF NothingLeft, At
<1> USE DEF Command, Claims, FailsIn, AfterIn, KeptCommand, SameCommand, StaysIn, OnwardIn,
        Ops, Making,
    Ensuring, Adding, Undoing, Forgetting, Cleaning, At, clusterVars, stackVars
<1>11. PhaseInv'
  BY <1>0, <1>1, <1>2, <1>3, <1>4, <1>5, <1>6, SMTT(20) DEF StackInv, PhaseInv
<1>12. NodesInv'
  BY <1>0, <1>1, <1>2, <1>3, <1>4, <1>5, <1>6, SMTT(20) DEF StackInv, NodesInv,
    PhaseInv, MountsOf, WorkersOf, Of, Others, Taken, OtherMonitored
<1>13. JournalInv'
  BY <1>0, <1>1, <1>2, <1>3, <1>4, <1>5, <1>6, SMTT(20) DEF StackInv, JournalInv,
    PhaseInv, NodesInv, WorkersOf, MountsOf, Of, Fresh, NewDirs
<1>14. StackStays'
  BY <1>0, <1>1, <1>2, <1>3, <1>4, <1>5, <1>6, SMTT(20) DEF StackInv, StackStays,
    NodesInv, PhaseInv, Exists, HasMonitoredController
<1>15. Collected'
  BY <1>0, <1>1, <1>2, <1>3, <1>4, <1>5, <1>6, SMTT(20) DEF StackInv, Collected,
    AlloyInv, PhaseInv, Follows, Running
<1> QED
  BY <1>7, <1>8, <1>9, <1>10, <1>11, <1>12, <1>13, <1>14, <1>15 DEF StackParts

\* The services are up.
LEMMA WaitReadyStep ==
  ASSUME \E n \in Nat : DOMAIN StartOrder = 1..n, StackInv, WaitReady
  PROVE  StackParts'
<1>0. /\ cmd \in Command /\ MonitoringTypeOK /\ mounts \subseteq Nodes
      /\ DOMAIN journals \subseteq Places /\ mounts \subseteq containers
  BY DEF StackInv, MonitoringTypeOK
<1>1. FailsIn(cmd')
          \/ (OnwardIn(cmd', "sync", cmd.i, cmd.copy) /\ AllRun /\ cmd.i \notin DOMAIN StartOrder)
  <2>1. CASE cmd' = StackFailed
    BY <1>0, <2>1, StackFailedIs
  <2>2. CASE cmd' = [cmd EXCEPT !.pc = "sync"] /\ AllRun /\ cmd.i \notin DOMAIN StartOrder
    BY <1>0, <2>2 DEF Command, StaysIn, OnwardIn, Phases, Ensuring
  <2> QED
    BY <2>1, <2>2 DEF StackStep, WaitReady
<1>2. cmd.pc = "services" /\ UNCHANGED <<clusterVars, stackVars, ready, behind>>
  BY DEF WaitReady, AtService, At
<1>3. ServicesInv'
  <2>1. ASSUME cmd.i \notin DOMAIN StartOrder
        PROVE  \A s \in Service : Current(s)
    <3>1. \A j \in DOMAIN StartOrder : j < cmd.i
      BY <1>0, <2>1 DEF Command
    <3> QED
      BY <1>2, <3>1 DEF StackInv, ServicesInv, Service, At
  <2> QED
    BY <1>0, <1>1, <1>2, <2>1, SMTT(20) DEF StackInv, FailsIn, StaysIn, OnwardIn, Adding,
      At, ServicesInv, PhaseInv, Current, Running, Exists, AtService, This, AllRun,
      stackVars, clusterVars
<1> USE DEF Command, Claims, FailsIn, AfterIn, KeptCommand, SameCommand, StaysIn, OnwardIn,
        Ops, Making,
    Ensuring, Adding, Undoing, Forgetting, Cleaning, At, clusterVars, stackVars
<1>4. PhaseInv'
  BY <1>0, <1>1, <1>2, SMTT(20) DEF StackInv, PhaseInv
<1>5. NodesInv'
  BY <1>0, <1>1, <1>2, SMTT(20) DEF StackInv, NodesInv, PhaseInv, MountsOf,
    WorkersOf, Of, Others, Taken, OtherMonitored
<1>6. JournalInv'
  BY <1>0, <1>1, <1>2, SMTT(20) DEF StackInv, JournalInv, PhaseInv, NodesInv,
    WorkersOf, MountsOf, Of, Fresh, NewDirs
<1>7. AlloyInv'
  BY <1>0, <1>1, <1>2, SMTT(20) DEF StackInv, AlloyInv, PhaseInv, NodesInv,
    ServicesInv, Follows, Running, Exists, MountsOf, Of, AllRun, OtherMonitored
<1>8. StackStays'
  BY <1>0, <1>1, <1>2, SMTT(20) DEF StackInv, StackStays, NodesInv, PhaseInv,
    Exists, HasMonitoredController
<1>9. StackComplete'
  BY <1>0, <1>1, <1>2, SMTT(20) DEF StackInv, StackComplete, ServicesInv, AlloyInv,
    PhaseInv, Current, Running, Exists, AllRun
<1>10. Collected'
  BY <1>0, <1>1, <1>2, SMTT(20) DEF StackInv, Collected, AlloyInv, PhaseInv,
    Follows, Running
<1>11. NothingLeft'
  BY <1>0, <1>1, <1>2, SMTT(20) DEF StackInv, NothingLeft, ServicesInv, PhaseInv,
    NodesInv, Exists
<1> QED
  BY <1>3, <1>4, <1>5, <1>6, <1>7, <1>8, <1>9, <1>10, <1>11 DEF StackParts

\* Alloy is told of the nodes.
LEMMA SyncStep ==
  ASSUME "alloy" \in Service, StackInv, Sync
  PROVE  StackParts'
<1>0. /\ cmd \in Command /\ MonitoringTypeOK /\ mounts \subseteq Nodes
      /\ DOMAIN journals \subseteq Places /\ mounts \subseteq containers
  BY DEF StackInv, MonitoringTypeOK
<1>1. \/ FailsIn(cmd')
      \/ /\ OnwardIn(cmd', "dns", cmd.i, cmd.copy)
         /\ alloy' = [file |-> cmd.conf, runs |-> cmd.conf] /\ ~behind'
  <2>1. CASE cmd' = StackFailed
    BY <1>0, <2>1, StackFailedIs
  <2>2. CASE /\ cmd' = [cmd EXCEPT !.pc = "dns", !.stack = ~cmd.exists]
             /\ alloy' = [file |-> cmd.conf, runs |-> cmd.conf] /\ ~behind'
    <3> DEFINE b == ~cmd.exists
    <3>1. b \in BOOLEAN /\ "dns" \in Phases
      BY DEF Phases, Ensuring
    <3>2. cmd' = [cmd EXCEPT !.pc = "dns", !.stack = b]
      BY <2>2
    <3> HIDE DEF b
    <3>3. OnwardIn(cmd', "dns", cmd.i, cmd.copy)
      BY <1>0, <3>1, <3>2 DEF Command, StaysIn, OnwardIn
    <3> QED
      BY <2>2, <3>3
  <2>3. \/ cmd' = StackFailed
        \/ /\ cmd' = [cmd EXCEPT !.pc = "dns", !.stack = ~cmd.exists]
           /\ alloy' = [file |-> cmd.conf, runs |-> cmd.conf] /\ ~behind'
    BY DEF Sync, StackStep, Synced
  <2> QED
    BY <2>1, <2>2, <2>3
<1>2. cmd.pc = "sync" /\ UNCHANGED <<clusterVars, service, volumes, journals, amiss, ready>>
  BY DEF Sync, At
<1>3. cmd.conf = mounts /\ alloy'.file \in {alloy.file, mounts}
          /\ alloy'.runs \in {alloy.runs, mounts}
      /\ (alloy'.runs = alloy.runs \/ alloy'.file = mounts)
      /\ (behind' = behind \/ (alloy'.file = mounts /\ alloy'.runs = mounts))
  <2>1. cmd.conf = mounts
    BY <1>2 DEF StackInv, AlloyInv, At
  <2>2. alloy' \in {[file |-> mounts, runs |-> mounts], [alloy EXCEPT !.file = mounts], alloy}
    BY <2>1 DEF Sync, Synced, SyncOutcome, Outcome
  <2>3. \/ behind' = behind
        \/ alloy' = [file |-> mounts, runs |-> mounts]
    BY <1>0, <2>1 DEF Sync, Synced, MonitoringTypeOK
  <2> QED
    BY <1>0, <2>1, <2>2, <2>3 DEF MonitoringTypeOK
<1>4. AlloyInv'
  <2>1. Running("alloy")' /\ Running("alloy")
    BY <1>2 DEF StackInv, ServicesInv, At, Running
  <2>2. Follows => Follows'
    BY <1>2, <1>3, <2>1 DEF Follows, clusterVars, Running
  <2>3. cmd'.pc = "dns" => Follows' /\ ~behind'
    BY <1>1, <1>2, <1>3 DEF Follows, FailsIn, clusterVars
  <2> QED
    BY <1>0, <1>1, <1>2, <2>1, <2>2, <2>3, EnsuringAlloy DEF OnwardIn, Ensuring,
      clusterVars
<1>5. StackComplete'
  <2>1. cmd'.pc = "ended" => cmd'.failed
    BY <1>2, <1>1 DEF FailsIn, StaysIn, OnwardIn
  <2> QED
    BY <2>1 DEF StackComplete, At
<1>6. NothingLeft'
  <2>1. cmd'.pc = "ended" => cmd'.failed
    BY <1>2, <1>1 DEF FailsIn, StaysIn, OnwardIn
  <2> QED
    BY <2>1 DEF NothingLeft, At
<1> USE DEF Command, Claims, FailsIn, AfterIn, KeptCommand, SameCommand, StaysIn, OnwardIn,
        Ops, Making,
    Ensuring, Adding, Undoing, Forgetting, Cleaning, At, clusterVars, stackVars
<1>7. PhaseInv'
  BY <1>0, <1>1, <1>2, <1>3, SMTT(20) DEF StackInv, PhaseInv
<1>8. NodesInv'
  BY <1>0, <1>1, <1>2, <1>3, SMTT(20) DEF StackInv, NodesInv, PhaseInv, MountsOf,
    WorkersOf, Of, Others, Taken, OtherMonitored
<1>9. JournalInv'
  BY <1>0, <1>1, <1>2, <1>3, SMTT(20) DEF StackInv, JournalInv, PhaseInv, NodesInv,
    WorkersOf, MountsOf, Of, Fresh, NewDirs
<1>10. ServicesInv'
  BY <1>0, <1>1, <1>2, <1>3, SMTT(20) DEF StackInv, ServicesInv, PhaseInv, Current,
    Running, Exists, AtService, This, AllRun
<1>11. StackStays'
  BY <1>0, <1>1, <1>2, <1>3, SMTT(20) DEF StackInv, StackStays, NodesInv, PhaseInv,
    Exists, HasMonitoredController
<1>12. Collected'
  BY <1>0, <1>1, <1>2, <1>3, SMTT(20) DEF StackInv, Collected, AlloyInv, PhaseInv,
    Follows, Running
<1> QED
  BY <1>4, <1>5, <1>6, <1>7, <1>8, <1>9, <1>10, <1>11, <1>12 DEF StackParts

\* A cluster less to delete of all of them.
LEMMA DeleteOneNodes ==
  ASSUME StackInv, NEW c \in Cluster, DeleteOne(c)
  PROVE  NodesInv'
<1>1. PICK o \in {"ok", "failed"}, stay \in SUBSET Of(c) :
        /\ o = "ok" => stay = {}
        /\ containers' = (containers \ Of(c)) \cup stay
        /\ cmd' = [cmd EXCEPT !.todo = @ \ {c}, !.failed = @ \/ o # "ok"]
  BY DEF DeleteOne
<1>2. cmd \in Command /\ cmd.op = "deleteAll" /\ cmd.pc = "all"
  BY DEF StackInv, MonitoringTypeOK, PhaseInv, DeleteOne, At
<1> DEFINE f == cmd.failed \/ o # "ok"
<1>3. f \in BOOLEAN /\ cmd' = [cmd EXCEPT !.todo = cmd.todo \ {c}, !.failed = f]
  BY <1>1
<1>4. ~f => ~cmd.failed /\ containers' = containers \ Of(c)
  BY <1>1
<1> HIDE DEF f
<1>5. cmd'.op = "deleteAll" /\ cmd'.pc = "all" /\ cmd'.failed = f /\ cmd'.todo = cmd.todo \ {c}
  BY <1>2, <1>3 DEF Command
<1>6. ~cmd'.failed => \A t \in containers' : t[1] \in cmd'.todo
  BY <1>2, <1>4, <1>5 DEF StackInv, NodesInv, At, Of
<1> QED
  BY <1>5, <1>6 DEF NodesInv, At, Undoing, Forgetting, Cleaning, Ensuring

\* New nodes put Alloy behind, and the create that made them is the one to tell it.
LEMMA CreateNodesAlloy ==
  ASSUME StackInv, CreateNodes
  PROVE  AlloyInv'
<1>1. cmd \in Command /\ cmd.pc = "nodes" /\ cmd.op = "create" /\ cmd.claimed /\ Follows
  BY DEF StackInv, MonitoringTypeOK, PhaseInv, AlloyInv, CreateNodes, Making, At
<1>2. UNCHANGED <<service, alloy, behind>>
  BY DEF CreateNodes
<1>3. PICK T : /\ mounts' = IF cmd.mon THEN mounts \cup T ELSE mounts
               /\ \A t \in T : t[1] = cmd.c
  <2>1. PICK names, o :
          MakeNodes({<<cmd.c, n, monUsed.commands>> : n \in names}, o,
                    IF cmd.mon THEN "ensure" ELSE "done")
    BY DEF CreateNodes
  <2>2. PICK T \in SUBSET {<<cmd.c, n, monUsed.commands>> : n \in names} :
          mounts' = IF cmd.mon THEN mounts \cup T ELSE mounts
    BY <2>1 DEF MakeNodes
  <2>3. \A t \in T : t[1] = cmd.c
    BY <2>2
  <2> QED
    BY <2>2, <2>3
<1>4. \/ FailsIn(cmd')
      \/ StaysIn(cmd') /\ cmd'.pc = IF cmd.mon THEN "ensure" ELSE "done"
  <2>1. CASE cmd' = Failed
    BY <1>1, <2>1, FailedIs
  <2> DEFINE p == IF cmd.mon THEN "ensure" ELSE "done"
  <2>2. CASE cmd' = [cmd EXCEPT !.pc = p]
    <3>1. p \in Phases
      BY DEF Phases, Ensuring
    <3> HIDE DEF p
    <3>2. StaysIn(cmd') /\ cmd'.pc = p
      BY <1>1, <2>2, <3>1 DEF Command, StaysIn
    <3> QED
      BY <3>2 DEF p
  <2> QED
    BY <2>1, <2>2 DEF CreateNodes, MakeNodes, Step
<1>5. mounts' = mounts => Follows'
  BY <1>1, <1>2 DEF Follows, Running
<1>7. alloy'.runs # {} => Running("alloy")'
  BY <1>2 DEF StackInv, AlloyInv, Running
<1>8. cmd'.op = "create" /\ cmd'.c = cmd.c /\ cmd'.claimed /\ cmd'.mon = cmd.mon
  BY <1>1, <1>4 DEF FailsIn, StaysIn
<1>6. Follows' \/ MountsOf(cmd.c)' # {}
  <2>1. CASE mounts' = mounts
    BY <1>5, <2>1
  <2>2. CASE mounts' # mounts
    <3>1. PICK t \in mounts' : t[1] = cmd.c
      BY <1>3, <2>2
    <3> QED
      BY <1>8, <3>1 DEF MountsOf
  <2> QED
    BY <2>1, <2>2
<1>9. CASE cmd.mon
  <2>1. cmd'.pc \in {"rollback", "ensure"}
    BY <1>1, <1>4, <1>9 DEF FailsIn, Claims
  <2> QED
    BY <1>6, <1>7, <1>8, <2>1 DEF AlloyInv, Making, Ensuring, At
<1>10. CASE ~cmd.mon
  <2>1. cmd'.pc \in {"rollback", "done"} /\ Follows'
    BY <1>1, <1>3, <1>4, <1>5, <1>10 DEF FailsIn, Claims
  <2> QED
    BY <1>7, <1>8, <1>10, <2>1 DEF AlloyInv, Making, Ensuring, At
<1> QED
  BY <1>9, <1>10

\* A new worker puts Alloy behind until its add tells it.
LEMMA CreateWorkerAlloy ==
  ASSUME StackInv, CreateWorker
  PROVE  AlloyInv'
<1>1. cmd \in Command /\ cmd.pc = "worker" /\ cmd.op = "add" /\ cmd.claimed
  BY DEF StackInv, MonitoringTypeOK, PhaseInv, CreateWorker, Adding, At
<1>2. cmd'.pc \in {"containers", "async"} /\ cmd'.op = "add"
  <2>1. CASE cmd' = Failed
    BY <1>1, <2>1, FailedIs DEF FailsIn, Claims
  <2>2. CASE cmd' = [cmd EXCEPT !.pc = "async"]
    BY <1>1, <2>2 DEF Command
  <2> QED
    BY <2>1, <2>2 DEF CreateWorker, MakeNodes, Step
<1>3. alloy'.runs # {} => Running("alloy")'
  BY DEF StackInv, AlloyInv, Running, CreateWorker
<1> QED
  BY <1>2, <1>3 DEF AlloyInv, Making, Ensuring, At

\* The add of a worker tells Alloy.
LEMMA SyncMonitoringAlloy ==
  ASSUME "alloy" \in Service, StackInv, SyncMonitoring
  PROVE  AlloyInv'
<1>1. /\ cmd \in Command /\ alloy \in [file : SUBSET Nodes, runs : SUBSET Nodes]
      /\ cmd.pc = "async" /\ cmd.op = "add" /\ cmd.claimed
  BY DEF StackInv, MonitoringTypeOK, PhaseInv, SyncMonitoring, Adding, At
<1>2. Running("alloy")'
  BY DEF StackInv, ServicesInv, SyncMonitoring, Adding, Running, At
<1>3. mounts' = mounts
  BY DEF SyncMonitoring, clusterVars
<1>4. \/ cmd' = Failed
      \/ cmd' = [cmd EXCEPT !.pc = "done"] /\ alloy' = [file |-> mounts, runs |-> mounts] /\ ~behind'
  BY DEF SyncMonitoring, Step, Synced, MonitoringTargets
<1>5. CASE cmd' = Failed
  <2>1. cmd'.pc = "containers" /\ cmd'.op = "add"
    BY <1>1, <1>5, FailedIs DEF FailsIn, Claims
  <2> QED
    BY <1>2, <2>1 DEF AlloyInv, Making, Ensuring, At
<1>6. CASE cmd' = [cmd EXCEPT !.pc = "done"] /\ alloy' = [file |-> mounts, runs |-> mounts]
               /\ ~behind'
  <2>1. cmd'.pc = "done" /\ cmd'.op = "add"
    BY <1>1, <1>6 DEF Command
  <2>2. Follows'
    BY <1>3, <1>6 DEF Follows
  <2> QED
    BY <1>2, <1>6, <2>1, <2>2 DEF AlloyInv, Making, Ensuring, At
<1> QED
  BY <1>4, <1>5, <1>6

\* A create or an add that is done has ensured the whole stack.
LEMMA DoneStays ==
  ASSUME "alloy" \in Service, StackInv, Done
  PROVE  StackStays' /\ StackComplete'
<1>1. cmd \in Command /\ cmd.pc = "done"
  BY DEF StackInv, MonitoringTypeOK, Done, At
<1>2. UNCHANGED <<containers, mounts, service, alloy, amiss, behind>>
  BY DEF Done, clusterVars, stackVars
<1>3. cmd.mon => \A s \in Service : Current(s) /\ Running(s) /\ service[s].files
  BY <1>1 DEF StackInv, ServicesInv, At
<1>4. ready' = ready \/ (cmd.op = "create" /\ ready' = ready \cup {cmd.c})
  BY DEF Done
<1>5. cmd.op = "create" /\ HasMonitoredController(cmd.c) => cmd.mon
  BY <1>1 DEF StackInv, NodesInv, MountsOf, HasMonitoredController, At
<1>6. StackStays'
  BY <1>2, <1>3, <1>4, <1>5 DEF StackInv, StackStays, HasMonitoredController,
    Current, Exists
<1>7. CASE cmd' = Failed
  BY <1>1, <1>6, <1>7, FailedIs DEF FailsIn, StackComplete
<1>8. CASE cmd' = [cmd EXCEPT !.pc = "ended"]
  <2>1. cmd'.mon = cmd.mon /\ cmd'.version = cmd.version
    BY <1>1, <1>8 DEF Command
  <2>2. cmd.mon => alloy.runs = mounts
    BY <1>1, <1>3 DEF StackInv, AlloyInv, Follows, At
  <2> QED
    BY <1>2, <1>3, <2>1, <2>2, <1>6 DEF StackComplete, Current, Exists
<1> QED
  BY <1>6, <1>7, <1>8 DEF Done

\* A command that said nothing was amiss leaves Alloy with the nodes there are.
LEMMA ReturnsCollected ==
  ASSUME StackInv, Returns
  PROVE  Collected'
<1>1. cmd.pc = "ended" /\ UNCHANGED <<mounts, service, alloy>>
  BY DEF Returns, At, clusterVars, stackVars
<1>2. ~behind' => ~behind /\ ~cmd.errs /\ ~(cmd.failed /\ cmd.op = "delete")
  BY DEF Returns
<1>3. ~behind' => Follows
  BY <1>1, <1>2 DEF StackInv, AlloyInv, At
<1> QED
  BY <1>1, <1>2, <1>3 DEF Collected, Follows, Running

\* A command that returns leaves Alloy as it is.
LEMMA ReturnsAlloy ==
  ASSUME StackInv, Returns
  PROVE  AlloyInv'
<1>1. cmd.pc = "ended" /\ cmd'.pc = "idle" /\ UNCHANGED <<mounts, service, alloy>>
  BY NoneIs DEF Returns, At, clusterVars, stackVars
<1>2. ~behind' => ~behind /\ ~cmd.errs /\ ~(cmd.failed /\ cmd.op = "delete")
  BY DEF Returns
<1>3. Follows'
  BY <1>1, <1>2 DEF StackInv, AlloyInv, Follows, Running, At
<1>4. (alloy.runs # {} => Running("alloy"))'
  BY <1>1 DEF StackInv, AlloyInv, Running
<1> QED
  BY <1>1, <1>3, <1>4 DEF AlloyInv, Making, Ensuring, At

\* A reboot stops Alloy; what it knows stays, and is what it runs when it starts.
LEMMA RebootAlloy ==
  ASSUME "alloy" \in Service, StackInv, Reboot
  PROVE  AlloyInv'
<1>1. service'["alloy"].state # "running" /\ service'["alloy"].files = service["alloy"].files
  <2>1. service["alloy"] \in [state : {"none", "made", "running"},
                              version : Version \cup {0}, files : BOOLEAN]
    BY DEF StackInv, MonitoringTypeOK
  <2>2. service'["alloy"] = IF Exists("alloy")
            THEN [service["alloy"] EXCEPT !.state = "made"] ELSE service["alloy"]
    BY DEF Reboot
  <2> QED
    BY <2>1, <2>2 DEF Exists
<1>2. alloy'.runs = {} /\ alloy'.file = alloy.file /\ mounts' = mounts
  BY DEF Reboot, clusterVars, StackInv, MonitoringTypeOK
<1>3. ~behind' => ~behind /\ cmd.pc \in {"idle", "ended"}
  BY DEF Reboot
<1>4. cmd'.pc = "idle" \/ (cmd' = cmd /\ cmd.pc = "ended")
  BY NoneIs DEF Reboot
<1>5. ~behind' => \/ cmd.pc = "idle" /\ Follows
                  \/ cmd.pc = "ended" /\ (cmd.errs \/ (cmd.failed /\ cmd.op = "delete") \/ Follows)
  BY <1>3 DEF StackInv, AlloyInv, At
<1>6. Follows /\ ~behind => Follows'
  BY <1>1, <1>2 DEF Follows, Running
<1>7. behind' => Follows'
  BY DEF Follows
<1>8. cmd.pc = "idle" => cmd'.pc = "idle"
  BY NoneIs DEF Reboot
<1>9. CASE cmd' = cmd /\ cmd.pc = "ended"
  <2>1. cmd'.errs \/ (cmd'.failed /\ cmd'.op = "delete") \/ Follows'
    BY <1>3, <1>5, <1>6, <1>7, <1>9
  <2> QED
    BY <1>2, <1>9, <2>1 DEF AlloyInv, Making, Ensuring, At
<1>10. CASE cmd'.pc = "idle"
  <2>1. Follows'
    BY <1>3, <1>5, <1>6, <1>7, <1>10 DEF Reboot
  <2> QED
    BY <1>2, <1>10, <2>1 DEF AlloyInv, Making, Ensuring, At
<1> QED
  BY <1>4, <1>9, <1>10

\* The steps whose effect on a command is read off their definitions.
PlainStep ==
  \/ \E c \in Cluster, v \in Version, mon \in BOOLEAN : BeginCreate(c, mon, v)
  \/ \E c \in Cluster, v \in Version : BeginAdd(c, v)
  \/ \E c \in Cluster : BeginRemove(c)
  \/ \E c \in Cluster : BeginDelete(c)
  \/ \E c \in Cluster : DeleteOne(c)
  \/ BeginPowerOn \/ BeginDeleteAll
  \/ EnsureMesh \/ Preflight \/ CreateNetworkAndVolumes \/ CreateJournalVolume
  \/ ResetClusterJournals \/ Prepared \/ CreateNodes \/ Canceled
  \/ RegisterStackDNS \/ Done \/ ResetJournals \/ CreateWorker \/ SyncMonitoring
  \/ RemoveStack \/ CleanupMesh \/ RemoveVolumes \/ AllDeleted
  \/ Returns \/ Kill \/ Reboot

\* The plain steps keep to the phases.
LEMMA PlainPhase ==
  ASSUME StackInv, cmd' \in Command, PlainStep
  PROVE  PhaseInv'
<1> USE DEF Command, FailsIn, Claims, StackInv, Ops, Making, Ensuring, Adding,
    Undoing, Forgetting, Cleaning, At, clusterVars, stackVars, PhaseInv
<1>0. /\ cmd \in Command /\ MonitoringTypeOK /\ mounts \subseteq Nodes
      /\ DOMAIN journals \subseteq Places /\ mounts \subseteq containers
  BY DEF MonitoringTypeOK
<1>1. CASE \E c \in Cluster, v \in Version, mon \in BOOLEAN : BeginCreate(c, mon, v)
  BY <1>0, <1>1, NoneIs, SMTT(20) DEF BeginCreate, Begin
<1>2. CASE \E c \in Cluster, v \in Version : BeginAdd(c, v)
  BY <1>0, <1>2, NoneIs, SMTT(20) DEF BeginAdd, HasMonitoredController, HasWorker,
    Begin, Of
<1>3. CASE \E c \in Cluster : BeginRemove(c)
  BY <1>0, <1>3, NoneIs, SMTT(20) DEF BeginRemove, HasWorker, Begin, Of
<1>4. CASE \E c \in Cluster : BeginDelete(c)
  BY <1>0, <1>4, NoneIs, SMTT(20) DEF BeginDelete, Begin
<1>5. CASE BeginPowerOn
  BY <1>0, <1>5, NoneIs, SMTT(20) DEF BeginPowerOn, Begin
<1>6. CASE BeginDeleteAll
  BY <1>0, <1>6, NoneIs, SMTT(20) DEF BeginDeleteAll, Begin
<1>7. CASE EnsureMesh
  BY <1>0, <1>7, SMTT(20) DEF EnsureMesh
<1>8. CASE Preflight
  BY <1>0, <1>8, FailedIs, SMTT(20) DEF Preflight, Taken, CallEnds, Of, Fault
<1>9. CASE CreateNetworkAndVolumes
  BY <1>0, <1>9, SMTT(20) DEF CreateNetworkAndVolumes, Outcome, Branch, Effect,
    CallEnds, Fault
<1>10. CASE CreateJournalVolume
  BY <1>0, <1>10, SMTT(20) DEF CreateJournalVolume, Outcome, Branch, Effect,
    CallEnds, Fault
<1>11. CASE ResetClusterJournals
  BY <1>0, <1>11, SMTT(20) DEF ResetClusterJournals, Outcome, Branch, Effect,
    Emptied, NewDirs, CallEnds, Fault
<1>12. CASE Prepared
  BY <1>0, <1>12, FailedIs, SMTT(20) DEF Prepared
<1>13. CASE CreateNodes
  BY <1>0, <1>13, FailedIs, SMTT(20) DEF CreateNodes, CallEnds, MakeNodes, Fault, Step
<1>14. CASE Canceled
  BY <1>0, <1>14, SMTT(20) DEF Canceled, Fault
<1>15. CASE RegisterStackDNS
  BY <1>0, <1>15, FailedIs, SMTT(20) DEF RegisterStackDNS, CallEnds, Step, Fault
<1>16. CASE Done
  BY <1>0, <1>16, FailedIs, SMTT(20) DEF Done
<1>17. CASE ResetJournals
  BY <1>0, <1>17, FailedIs, SMTT(20) DEF ResetJournals, Outcome, CallEnds, Effect,
    Emptied, Fault
<1>18. CASE CreateWorker
  BY <1>0, <1>18, FailedIs, SMTT(20) DEF CreateWorker, CallEnds, MakeNodes, Fault, Step
<1>19. CASE SyncMonitoring
  BY <1>0, <1>19, FailedIs, SMTT(20) DEF SyncMonitoring, SyncOutcome, CallEnds,
    Synced, MonitoringTargets, Step, Outcome, Fault
<1>20. CASE RemoveStack
  BY <1>0, <1>20, SMTT(20) DEF RemoveStack, CallEnds, NoService, Cleaned, Fault
<1>21. CASE CleanupMesh
  BY <1>0, <1>21, SMTT(20) DEF CleanupMesh, Outcome, CallEnds, Effect, Cleaned, Fault
<1>22. CASE RemoveVolumes
  BY <1>0, <1>22, SMTT(20) DEF RemoveVolumes, InUse, CallEnds, Cleaned, Exists, Fault
<1>23. CASE \E c \in Cluster : DeleteOne(c)
  BY <1>0, <1>23, SMTT(20) DEF DeleteOne, Of, CallEnds, Fault
<1>24. CASE AllDeleted
  BY <1>0, <1>24, SMTT(20) DEF AllDeleted
<1>25. CASE Returns
  BY <1>0, <1>25, NoneIs, SMTT(20) DEF Returns
<1>26. CASE Kill
  BY <1>0, <1>26, NoneIs, SMTT(20) DEF Kill, Fault
<1>27. CASE Reboot
  BY <1>0, <1>27, NoneIs, SMTT(20) DEF Reboot, Running, Fault, Exists
<1> QED
  BY <1>1, <1>2, <1>3, <1>4, <1>5, <1>6, <1>7, <1>8, <1>9, <1>10, <1>11, <1>12,
    <1>13, <1>14, <1>15, <1>16, <1>17, <1>18, <1>19, <1>20, <1>21, <1>22, <1>23,
    <1>24, <1>25, <1>26, <1>27 DEF PlainStep

\* The plain steps keep what a command has seen to of its nodes.
LEMMA PlainNodes ==
  ASSUME StackInv, cmd' \in Command, PlainStep
  PROVE  NodesInv'
<1> USE DEF Command, FailsIn, Claims, StackInv, Ops, Making, Ensuring, Adding,
    Undoing, Forgetting, Cleaning, At, clusterVars, stackVars, NodesInv, PhaseInv,
    MountsOf, WorkersOf, Of, Others
<1>0. /\ cmd \in Command /\ MonitoringTypeOK /\ mounts \subseteq Nodes
      /\ DOMAIN journals \subseteq Places /\ mounts \subseteq containers
  BY DEF MonitoringTypeOK
<1>1. CASE \E c \in Cluster, v \in Version, mon \in BOOLEAN : BeginCreate(c, mon, v)
  BY <1>0, <1>1, NoneIs, SMTT(20) DEF BeginCreate, Begin
<1>2. CASE \E c \in Cluster, v \in Version : BeginAdd(c, v)
  BY <1>0, <1>2, NoneIs, SMTT(20) DEF BeginAdd, HasMonitoredController, HasWorker, Begin
<1>3. CASE \E c \in Cluster : BeginRemove(c)
  BY <1>0, <1>3, NoneIs, SMTT(20) DEF BeginRemove, HasWorker, Begin
<1>4. CASE \E c \in Cluster : BeginDelete(c)
  BY <1>0, <1>4, NoneIs, SMTT(20) DEF BeginDelete, Begin
<1>5. CASE BeginPowerOn
  BY <1>0, <1>5, NoneIs, SMTT(20) DEF BeginPowerOn, Begin
<1>6. CASE BeginDeleteAll
  BY <1>0, <1>6, NoneIs, SMTT(20) DEF BeginDeleteAll, Begin
<1>7. CASE EnsureMesh
  BY <1>0, <1>7, SMTT(20) DEF EnsureMesh
<1>8. CASE Preflight
  BY <1>0, <1>8, FailedIs, SMTT(20) DEF Preflight, Taken, CallEnds, Fault
<1>9. CASE CreateNetworkAndVolumes
  BY <1>0, <1>9, SMTT(20) DEF CreateNetworkAndVolumes, Outcome, Branch, Effect,
    CallEnds, Fault
<1>10. CASE CreateJournalVolume
  BY <1>0, <1>10, SMTT(20) DEF CreateJournalVolume, Outcome, Branch, Effect,
    CallEnds, Fault
<1>11. CASE ResetClusterJournals
  BY <1>0, <1>11, SMTT(20) DEF ResetClusterJournals, Outcome, Branch, Effect,
    Emptied, NewDirs, CallEnds, Fault
<1>12. CASE Prepared
  BY <1>0, <1>12, FailedIs, SMTT(20) DEF Prepared
<1>13. CASE CreateNodes
  BY <1>0, <1>13, FailedIs, SMTT(20) DEF CreateNodes, CallEnds, MakeNodes, Fault, Step
<1>14. CASE Canceled
  BY <1>0, <1>14, SMTT(20) DEF Canceled, Fault
<1>15. CASE RegisterStackDNS
  BY <1>0, <1>15, FailedIs, SMTT(20) DEF RegisterStackDNS, CallEnds, Step, Fault
<1>16. CASE Done
  BY <1>0, <1>16, FailedIs, SMTT(20) DEF Done
<1>17. CASE ResetJournals
  BY <1>0, <1>17, FailedIs, SMTT(20) DEF ResetJournals, Outcome, CallEnds, Effect,
    Emptied, Fault
<1>18. CASE CreateWorker
  BY <1>0, <1>18, FailedIs, SMTT(20) DEF CreateWorker, CallEnds, MakeNodes, Fault, Step
<1>19. CASE SyncMonitoring
  BY <1>0, <1>19, FailedIs, SMTT(20) DEF SyncMonitoring, SyncOutcome, CallEnds,
    Synced, MonitoringTargets, Step, Outcome, Fault
<1>20. CASE RemoveStack
  BY <1>0, <1>20, SMTT(20) DEF RemoveStack, CallEnds, NoService, Cleaned, Fault
<1>21. CASE CleanupMesh
  BY <1>0, <1>21, SMTT(20) DEF CleanupMesh, Outcome, CallEnds, Effect, Cleaned, Fault
<1>22. CASE RemoveVolumes
  BY <1>0, <1>22, SMTT(20) DEF RemoveVolumes, InUse, CallEnds, Cleaned, Exists, Fault
<1>23. CASE AllDeleted
  BY <1>0, <1>23, SMTT(20) DEF AllDeleted
<1>24. CASE Returns
  BY <1>0, <1>24, NoneIs, SMTT(20) DEF Returns
<1>25. CASE Kill
  BY <1>0, <1>25, NoneIs, SMTT(20) DEF Kill, Fault
<1>26. CASE Reboot
  BY <1>0, <1>26, NoneIs, SMTT(20) DEF Reboot, Running, Fault, Exists
<1> QED
  BY <1>1, <1>2, <1>3, <1>4, <1>5, <1>6, <1>7, <1>8, <1>9, <1>10, <1>11, <1>12,
    <1>13, <1>14, <1>15, <1>16, <1>17, <1>18, <1>19, <1>20, <1>21, <1>22, <1>23,
    <1>24, <1>25, <1>26, DeleteOneNodes DEF PlainStep

\* The plain steps keep the journals for the nodes that are to come.
LEMMA PlainJournal ==
  ASSUME StackInv, cmd' \in Command, PlainStep
  PROVE  JournalInv'
<1> USE DEF Command, FailsIn, Claims, StackInv, Ops, Making, Ensuring, Adding,
    Undoing, Forgetting, Cleaning, At, clusterVars, stackVars, JournalInv, PhaseInv,
    NodesInv, WorkersOf, MountsOf, Of, Fresh, NewDirs
<1>0. /\ cmd \in Command /\ MonitoringTypeOK /\ mounts \subseteq Nodes
      /\ DOMAIN journals \subseteq Places /\ mounts \subseteq containers
  BY DEF MonitoringTypeOK
<1>1. CASE \E c \in Cluster, v \in Version, mon \in BOOLEAN : BeginCreate(c, mon, v)
  BY <1>0, <1>1, NoneIs, SMTT(20) DEF BeginCreate, Begin
<1>2. CASE \E c \in Cluster, v \in Version : BeginAdd(c, v)
  BY <1>0, <1>2, NoneIs, SMTT(20) DEF BeginAdd, HasMonitoredController, HasWorker, Begin
<1>3. CASE \E c \in Cluster : BeginRemove(c)
  BY <1>0, <1>3, NoneIs, SMTT(20) DEF BeginRemove, HasWorker, Begin
<1>4. CASE \E c \in Cluster : BeginDelete(c)
  BY <1>0, <1>4, NoneIs, SMTT(20) DEF BeginDelete, Begin
<1>5. CASE BeginPowerOn
  BY <1>0, <1>5, NoneIs, SMTT(20) DEF BeginPowerOn, Begin
<1>6. CASE BeginDeleteAll
  BY <1>0, <1>6, NoneIs, SMTT(20) DEF BeginDeleteAll, Begin
<1>7. CASE EnsureMesh
  BY <1>0, <1>7, SMTT(20) DEF EnsureMesh
<1>8. CASE Preflight
  BY <1>0, <1>8, FailedIs, SMTT(20) DEF Preflight, Taken, CallEnds, Fault
<1>9. CASE CreateNetworkAndVolumes
  BY <1>0, <1>9, SMTT(20) DEF CreateNetworkAndVolumes, Outcome, Branch, Effect,
    CallEnds, Fault
<1>10. CASE CreateJournalVolume
  BY <1>0, <1>10, SMTT(20) DEF CreateJournalVolume, Outcome, Branch, Effect,
    CallEnds, Fault
<1>11. CASE ResetClusterJournals
  BY <1>0, <1>11, SMTT(20) DEF ResetClusterJournals, Outcome, Branch, Effect,
    Emptied, CallEnds, Fault
<1>12. CASE Prepared
  BY <1>0, <1>12, FailedIs, SMTT(20) DEF Prepared
<1>13. CASE CreateNodes
  BY <1>0, <1>13, FailedIs, SMTT(20) DEF CreateNodes, CallEnds, MakeNodes, Fault, Step
<1>14. CASE Canceled
  BY <1>0, <1>14, SMTT(20) DEF Canceled, Fault
<1>15. CASE RegisterStackDNS
  BY <1>0, <1>15, FailedIs, SMTT(20) DEF RegisterStackDNS, CallEnds, Step, Fault
<1>16. CASE Done
  BY <1>0, <1>16, FailedIs, SMTT(20) DEF Done
<1>17. CASE ResetJournals
  BY <1>0, <1>17, FailedIs, SMTT(20) DEF ResetJournals, Outcome, CallEnds, Effect,
    Emptied, Fault
<1>18. CASE CreateWorker
  BY <1>0, <1>18, FailedIs, SMTT(20) DEF CreateWorker, CallEnds, MakeNodes, Fault, Step
<1>19. CASE SyncMonitoring
  BY <1>0, <1>19, FailedIs, SMTT(20) DEF SyncMonitoring, SyncOutcome, CallEnds,
    Synced, MonitoringTargets, Step, Outcome, Fault
<1>20. CASE RemoveStack
  BY <1>0, <1>20, SMTT(20) DEF RemoveStack, CallEnds, NoService, Cleaned, Fault
<1>21. CASE CleanupMesh
  BY <1>0, <1>21, SMTT(20) DEF CleanupMesh, Outcome, CallEnds, Effect, Cleaned, Fault
<1>22. CASE RemoveVolumes
  BY <1>0, <1>22, SMTT(20) DEF RemoveVolumes, InUse, CallEnds, Cleaned, Exists, Fault
<1>23. CASE \E c \in Cluster : DeleteOne(c)
  BY <1>0, <1>23, SMTT(20) DEF DeleteOne, CallEnds, Fault
<1>24. CASE AllDeleted
  BY <1>0, <1>24, SMTT(20) DEF AllDeleted
<1>25. CASE Returns
  BY <1>0, <1>25, NoneIs, SMTT(20) DEF Returns
<1>26. CASE Kill
  BY <1>0, <1>26, NoneIs, SMTT(20) DEF Kill, Fault
<1>27. CASE Reboot
  BY <1>0, <1>27, NoneIs, SMTT(20) DEF Reboot, Running, Fault, Exists
<1> QED
  BY <1>1, <1>2, <1>3, <1>4, <1>5, <1>6, <1>7, <1>8, <1>9, <1>10, <1>11, <1>12,
    <1>13, <1>14, <1>15, <1>16, <1>17, <1>18, <1>19, <1>20, <1>21, <1>22, <1>23,
    <1>24, <1>25, <1>26, <1>27 DEF PlainStep

\* The plain steps keep what a command has seen to of the services.
LEMMA PlainServices ==
  ASSUME StackInv, cmd' \in Command, PlainStep
  PROVE  ServicesInv'
<1> USE DEF Command, FailsIn, Claims, StackInv, Ops, Making, Ensuring, Adding,
    Undoing, Forgetting, Cleaning, At, clusterVars, stackVars, ServicesInv,
    PhaseInv, Current, Running, Exists, AtService, This, AllRun
<1>0. /\ cmd \in Command /\ MonitoringTypeOK /\ mounts \subseteq Nodes
      /\ DOMAIN journals \subseteq Places /\ mounts \subseteq containers
  BY DEF MonitoringTypeOK
<1>1. CASE \E c \in Cluster, v \in Version, mon \in BOOLEAN : BeginCreate(c, mon, v)
  BY <1>0, <1>1, NoneIs, SMTT(20) DEF BeginCreate, Begin
<1>2. CASE \E c \in Cluster, v \in Version : BeginAdd(c, v)
  BY <1>0, <1>2, NoneIs, SMTT(20) DEF BeginAdd, HasMonitoredController, HasWorker,
    Begin, Of
<1>3. CASE \E c \in Cluster : BeginRemove(c)
  BY <1>0, <1>3, NoneIs, SMTT(20) DEF BeginRemove, HasWorker, Begin, Of
<1>4. CASE \E c \in Cluster : BeginDelete(c)
  BY <1>0, <1>4, NoneIs, SMTT(20) DEF BeginDelete, Begin
<1>5. CASE BeginPowerOn
  BY <1>0, <1>5, NoneIs, SMTT(20) DEF BeginPowerOn, Begin
<1>6. CASE BeginDeleteAll
  BY <1>0, <1>6, NoneIs, SMTT(20) DEF BeginDeleteAll, Begin
<1>7. CASE EnsureMesh
  BY <1>0, <1>7, SMTT(20) DEF EnsureMesh
<1>8. CASE Preflight
  BY <1>0, <1>8, FailedIs, SMTT(20) DEF Preflight, Taken, CallEnds, Of, Fault
<1>9. CASE CreateNetworkAndVolumes
  BY <1>0, <1>9, SMTT(20) DEF CreateNetworkAndVolumes, Outcome, Branch, Effect,
    CallEnds, Fault
<1>10. CASE CreateJournalVolume
  BY <1>0, <1>10, SMTT(20) DEF CreateJournalVolume, Outcome, Branch, Effect,
    CallEnds, Fault
<1>11. CASE ResetClusterJournals
  BY <1>0, <1>11, SMTT(20) DEF ResetClusterJournals, Outcome, Branch, Effect,
    Emptied, NewDirs, CallEnds, Fault
<1>12. CASE Prepared
  BY <1>0, <1>12, FailedIs, SMTT(20) DEF Prepared
<1>13. CASE CreateNodes
  BY <1>0, <1>13, FailedIs, SMTT(20) DEF CreateNodes, CallEnds, MakeNodes, Fault, Step
<1>14. CASE Canceled
  BY <1>0, <1>14, SMTT(20) DEF Canceled, Fault
<1>15. CASE RegisterStackDNS
  BY <1>0, <1>15, FailedIs, SMTT(20) DEF RegisterStackDNS, CallEnds, Step, Fault
<1>16. CASE Done
  BY <1>0, <1>16, FailedIs, SMTT(20) DEF Done
<1>17. CASE ResetJournals
  BY <1>0, <1>17, FailedIs, SMTT(20) DEF ResetJournals, Outcome, CallEnds, Effect,
    Emptied, Fault
<1>18. CASE CreateWorker
  BY <1>0, <1>18, FailedIs, SMTT(20) DEF CreateWorker, CallEnds, MakeNodes, Fault, Step
<1>19. CASE SyncMonitoring
  BY <1>0, <1>19, FailedIs, SMTT(20) DEF SyncMonitoring, SyncOutcome, CallEnds,
    Synced, MonitoringTargets, Step, Outcome, Fault
<1>20. CASE RemoveStack
  BY <1>0, <1>20, SMTT(20) DEF RemoveStack, CallEnds, NoService, Cleaned, Fault
<1>21. CASE CleanupMesh
  BY <1>0, <1>21, SMTT(20) DEF CleanupMesh, Outcome, CallEnds, Effect, Cleaned, Fault
<1>22. CASE RemoveVolumes
  BY <1>0, <1>22, SMTT(20) DEF RemoveVolumes, InUse, CallEnds, Cleaned, Fault
<1>23. CASE \E c \in Cluster : DeleteOne(c)
  BY <1>0, <1>23, SMTT(20) DEF DeleteOne, Of, CallEnds, Fault
<1>24. CASE AllDeleted
  BY <1>0, <1>24, SMTT(20) DEF AllDeleted
<1>25. CASE Returns
  BY <1>0, <1>25, NoneIs, SMTT(20) DEF Returns
<1>26. CASE Kill
  BY <1>0, <1>26, NoneIs, SMTT(20) DEF Kill, Fault
<1>27. CASE Reboot
  BY <1>0, <1>27, NoneIs, SMTT(20) DEF Reboot, Fault
<1> QED
  BY <1>1, <1>2, <1>3, <1>4, <1>5, <1>6, <1>7, <1>8, <1>9, <1>10, <1>11, <1>12,
    <1>13, <1>14, <1>15, <1>16, <1>17, <1>18, <1>19, <1>20, <1>21, <1>22, <1>23,
    <1>24, <1>25, <1>26, <1>27 DEF PlainStep

\* The plain steps keep Alloy with the nodes, or somebody was told.
LEMMA PlainAlloy ==
  ASSUME "alloy" \in Service, StackInv, cmd' \in Command, PlainStep
  PROVE  AlloyInv'
<1> USE DEF Command, FailsIn, Claims, StackInv, Ops, Making, Ensuring, Adding,
    Undoing, Forgetting, Cleaning, At, clusterVars, stackVars, AlloyInv, PhaseInv,
    NodesInv, ServicesInv, Follows, Running, Exists, MountsOf, Of
<1>0. /\ cmd \in Command /\ MonitoringTypeOK /\ mounts \subseteq Nodes
      /\ DOMAIN journals \subseteq Places /\ mounts \subseteq containers
  BY DEF MonitoringTypeOK
<1>1. CASE \E c \in Cluster, v \in Version, mon \in BOOLEAN : BeginCreate(c, mon, v)
  BY <1>0, <1>1, NoneIs, SMTT(20) DEF BeginCreate, Begin
<1>2. CASE \E c \in Cluster, v \in Version : BeginAdd(c, v)
  BY <1>0, <1>2, NoneIs, SMTT(20) DEF BeginAdd, HasMonitoredController, HasWorker, Begin
<1>3. CASE \E c \in Cluster : BeginRemove(c)
  BY <1>0, <1>3, NoneIs, SMTT(20) DEF BeginRemove, HasWorker, Begin
<1>4. CASE \E c \in Cluster : BeginDelete(c)
  BY <1>0, <1>4, NoneIs, SMTT(20) DEF BeginDelete, Begin
<1>5. CASE BeginPowerOn
  BY <1>0, <1>5, NoneIs, SMTT(20) DEF BeginPowerOn, Begin
<1>6. CASE BeginDeleteAll
  BY <1>0, <1>6, NoneIs, SMTT(20) DEF BeginDeleteAll, Begin
<1>7. CASE EnsureMesh
  BY <1>0, <1>7, SMTT(20) DEF EnsureMesh
<1>8. CASE Preflight
  BY <1>0, <1>8, FailedIs, SMTT(20) DEF Preflight, Taken, CallEnds, Fault
<1>9. CASE CreateNetworkAndVolumes
  BY <1>0, <1>9, SMTT(20) DEF CreateNetworkAndVolumes, Outcome, Branch, Effect,
    CallEnds, Fault
<1>10. CASE CreateJournalVolume
  BY <1>0, <1>10, SMTT(20) DEF CreateJournalVolume, Outcome, Branch, Effect,
    CallEnds, Fault
<1>11. CASE ResetClusterJournals
  BY <1>0, <1>11, SMTT(20) DEF ResetClusterJournals, Outcome, Branch, Effect,
    Emptied, NewDirs, CallEnds, Fault
<1>12. CASE Prepared
  BY <1>0, <1>12, FailedIs, SMTT(20) DEF Prepared
<1>13. CASE Canceled
  BY <1>0, <1>13, SMTT(20) DEF Canceled, Fault
<1>14. CASE RegisterStackDNS
  BY <1>0, <1>14, FailedIs, SMTT(20) DEF RegisterStackDNS, CallEnds, Step, Fault
<1>15. CASE Done
  BY <1>0, <1>15, FailedIs, SMTT(20) DEF Done
<1>16. CASE ResetJournals
  BY <1>0, <1>16, FailedIs, SMTT(20) DEF ResetJournals, Outcome, CallEnds, Effect,
    Emptied, Fault
<1>17. CASE RemoveStack
  BY <1>0, <1>17, SMTT(20) DEF RemoveStack, CallEnds, NoService, Cleaned, Fault
<1>18. CASE CleanupMesh
  BY <1>0, <1>18, SMTT(20) DEF CleanupMesh, Outcome, CallEnds, Effect, Cleaned, Fault
<1>19. CASE RemoveVolumes
  BY <1>0, <1>19, SMTT(20) DEF RemoveVolumes, InUse, CallEnds, Cleaned, Fault
<1>20. CASE \E c \in Cluster : DeleteOne(c)
  BY <1>0, <1>20, SMTT(20) DEF DeleteOne, CallEnds, Fault
<1>21. CASE AllDeleted
  BY <1>0, <1>21, SMTT(20) DEF AllDeleted
<1>22. CASE Kill
  BY <1>0, <1>22, NoneIs, SMTT(20) DEF Kill, Fault
<1> QED
  BY <1>1, <1>2, <1>3, <1>4, <1>5, <1>6, <1>7, <1>8, <1>9, <1>10, <1>11, <1>12,
    <1>13, <1>14, <1>15, <1>16, <1>17, <1>18, <1>19, <1>20, <1>21, <1>22,
    CreateNodesAlloy, CreateWorkerAlloy, RebootAlloy, ReturnsAlloy,
    SyncMonitoringAlloy DEF PlainStep

\* Only these of them end a command, and only these leave none.
LEMMA PlainEnds ==
  ASSUME StackInv, PlainStep
  PROVE  /\ cmd'.pc = "ended" =>
              \/ cmd'.failed /\ cmd'.op \in {"create", "add"}
              \/ Done \/ RemoveStack \/ CleanupMesh \/ RemoveVolumes \/ Reboot
         /\ cmd'.pc = "idle" => Returns \/ Kill \/ Reboot
<1> USE DEF Command, FailsIn, Claims, StackInv, PhaseInv, Ops, Making, Ensuring,
    Adding, Undoing, At
<1>0. cmd \in Command
  BY DEF MonitoringTypeOK
<1>1. CASE \E c \in Cluster, v \in Version, mon \in BOOLEAN : BeginCreate(c, mon, v)
  BY <1>0, <1>1, NoneIs, SMTT(20) DEF BeginCreate, Begin
<1>2. CASE \E c \in Cluster, v \in Version : BeginAdd(c, v)
  BY <1>0, <1>2, NoneIs, SMTT(20) DEF BeginAdd, HasMonitoredController, HasWorker,
    Begin, Of
<1>3. CASE \E c \in Cluster : BeginRemove(c)
  BY <1>0, <1>3, NoneIs, SMTT(20) DEF BeginRemove, HasWorker, Begin, Of
<1>4. CASE \E c \in Cluster : BeginDelete(c)
  BY <1>0, <1>4, NoneIs, SMTT(20) DEF BeginDelete, Begin
<1>5. CASE BeginPowerOn
  BY <1>0, <1>5, NoneIs, SMTT(20) DEF BeginPowerOn, Begin
<1>6. CASE BeginDeleteAll
  BY <1>0, <1>6, NoneIs, SMTT(20) DEF BeginDeleteAll, Begin
<1>7. CASE EnsureMesh
  BY <1>0, <1>7, SMTT(20) DEF EnsureMesh
<1>8. CASE Preflight
  BY <1>0, <1>8, FailedIs, SMTT(20) DEF Preflight, Taken, CallEnds, Of, Fault
<1>9. CASE CreateNetworkAndVolumes
  BY <1>0, <1>9, SMTT(20) DEF CreateNetworkAndVolumes, Outcome, Branch, Effect,
    CallEnds, Fault
<1>10. CASE CreateJournalVolume
  BY <1>0, <1>10, SMTT(20) DEF CreateJournalVolume, Outcome, Branch, Effect,
    CallEnds, Fault
<1>11. CASE ResetClusterJournals
  BY <1>0, <1>11, SMTT(20) DEF ResetClusterJournals, Outcome, Branch, Effect,
    Emptied, NewDirs, CallEnds, Fault
<1>12. CASE Prepared
  BY <1>0, <1>12, FailedIs, SMTT(20) DEF Prepared
<1>13. CASE CreateNodes
  BY <1>0, <1>13, FailedIs, SMTT(20) DEF CreateNodes, CallEnds, MakeNodes, Fault, Step
<1>14. CASE Canceled
  BY <1>0, <1>14, SMTT(20) DEF Canceled, Fault
<1>15. CASE RegisterStackDNS
  BY <1>0, <1>15, FailedIs, SMTT(20) DEF RegisterStackDNS, CallEnds, Step, Fault
<1>16. ASSUME Done PROVE cmd'.pc # "idle"
  BY <1>0, <1>16, FailedIs, SMTT(20) DEF Done
<1>17. CASE ResetJournals
  BY <1>0, <1>17, FailedIs, SMTT(20) DEF ResetJournals, Outcome, CallEnds, Effect,
    Emptied, Fault
<1>18. CASE CreateWorker
  BY <1>0, <1>18, FailedIs, SMTT(20) DEF CreateWorker, CallEnds, MakeNodes, Fault, Step
<1>19. CASE SyncMonitoring
  BY <1>0, <1>19, FailedIs, SMTT(20) DEF SyncMonitoring, SyncOutcome, CallEnds,
    Synced, MonitoringTargets, Step, Outcome, Fault
<1>20. ASSUME RemoveStack PROVE cmd'.pc # "idle"
  BY <1>0, <1>20, SMTT(20) DEF RemoveStack, CallEnds, NoService, Cleaned, Fault
<1>21. ASSUME CleanupMesh PROVE cmd'.pc # "idle"
  BY <1>0, <1>21, SMTT(20) DEF CleanupMesh, Outcome, CallEnds, Effect, Cleaned, Fault
<1>22. ASSUME RemoveVolumes PROVE cmd'.pc # "idle"
  BY <1>0, <1>22, SMTT(20) DEF RemoveVolumes, InUse, CallEnds, Cleaned, Exists, Fault
<1>23. CASE \E c \in Cluster : DeleteOne(c)
  BY <1>0, <1>23, SMTT(20) DEF DeleteOne, Of, CallEnds, Fault
<1>24. CASE AllDeleted
  BY <1>0, <1>24, SMTT(20) DEF AllDeleted
<1>25. ASSUME Returns PROVE cmd'.pc # "ended"
  BY <1>0, <1>25, NoneIs, SMTT(20) DEF Returns
<1>26. ASSUME Kill PROVE cmd'.pc # "ended"
  BY <1>0, <1>26, NoneIs, SMTT(20) DEF Kill, Fault
<1> QED
  BY <1>1, <1>2, <1>3, <1>4, <1>5, <1>6, <1>7, <1>8, <1>9, <1>10, <1>11, <1>12,
    <1>13, <1>14, <1>15, <1>16, <1>17, <1>18, <1>19, <1>20, <1>21, <1>22, <1>23,
    <1>24, <1>25, <1>26 DEF PlainStep

\* The rest of the invariant: only the steps that end a command, that leave
\* none or that take nodes or services away bear on it.
LEMMA PlainEnded ==
  ASSUME "alloy" \in Service, StackInv, cmd' \in Command, PlainStep
  PROVE  StackComplete' /\ Collected' /\ NothingLeft'
<1>0. cmd \in Command /\ MonitoringTypeOK /\ PhaseInv /\ StackComplete /\ NothingLeft
  BY DEF StackInv, MonitoringTypeOK
<1>1. CASE cmd'.pc = "ended"
  <2>1. Collected'
    BY <1>1 DEF Collected, At
  <2>2. CASE cmd'.failed
    BY <2>1, <2>2 DEF StackComplete, NothingLeft
  <2>3. CASE Done
    <3>1. cmd'.op = cmd.op /\ cmd.op \in {"create", "add"}
      <4>1. cmd.pc = "done" /\ (cmd' = Failed \/ cmd' = [cmd EXCEPT !.pc = "ended"])
        BY <2>3 DEF Done, At
      <4>2. CASE cmd' = Failed
        BY <1>0, <4>1, <4>2, FailedIs DEF FailsIn, PhaseInv, At
      <4>3. CASE cmd' = [cmd EXCEPT !.pc = "ended"]
        BY <1>0, <4>1, <4>3 DEF Command, PhaseInv, At
      <4> QED
        BY <4>1, <4>2, <4>3
    <3> QED
      BY <2>1, <2>3, <3>1, DoneStays DEF NothingLeft
  <2>4. CASE RemoveStack \/ CleanupMesh
    <3>1. PICK o, pc : Cleaned(o, pc) /\ pc \in {"rmMesh", "rmVolumes"}
              /\ cmd.pc \in {"rmStack", "rmMesh"}
      <4>1. CASE RemoveStack
        <5>1. PICK o : Cleaned(o, IF cmd.rmMesh THEN "rmMesh" ELSE "rmVolumes")
          BY <4>1 DEF RemoveStack
        <5> QED
          BY <4>1, <5>1 DEF RemoveStack, At
      <4>2. CASE CleanupMesh
        BY <4>2 DEF CleanupMesh, At
      <4> QED
        BY <2>4, <4>1, <4>2
    <3>2. cmd'.failed
      BY <1>0, <1>1, <3>1 DEF Cleaned, Command
    <3> QED
      BY <2>2, <3>2
  <2>5. CASE RemoveVolumes
    <3>1. PICK o \in {"ok", "failed"}, V \in SUBSET volumes :
            /\ o = "ok" => V = {}
            /\ volumes' = V /\ journals' = IF "journal" \in V THEN journals ELSE <<>>
            /\ Cleaned(o, "ended")
      BY <2>5 DEF RemoveVolumes
    <3>2. cmd.pc = "rmVolumes" /\ UNCHANGED <<realmMesh, service>>
      BY <2>5 DEF RemoveVolumes, clusterVars, At
    <3>3. cmd.op \in {"create", "delete", "deleteAll"}
      BY <1>0, <3>2 DEF PhaseInv, Cleaning
    <3>4. CASE cmd.op = "create"
      <4>1. cmd.failed
        BY <1>0, <3>2, <3>4 DEF PhaseInv, Undoing, Cleaning
      <4>2. cmd'.failed
        BY <1>0, <3>1, <3>4, <4>1 DEF Cleaned, Command
      <4> QED
        BY <2>2, <4>2
    <3>5. CASE cmd.op # "create" /\ ~cmd'.failed
      <4>1. o = "ok" /\ cmd'.rmMesh = cmd.rmMesh /\ cmd'.op = cmd.op /\ cmd'.mon = cmd.mon
        BY <1>0, <3>1, <3>5 DEF Cleaned, Command
      <4>2. ~cmd'.mon
        BY <1>0, <3>3, <3>5, <4>1 DEF PhaseInv
      <4>3. (\A s \in Service : ~Exists(s)) /\ (cmd.rmMesh => ~realmMesh)
        BY <3>2, <3>5 DEF StackInv, ServicesInv, At
      <4>4. NothingLeft'
        BY <3>1, <3>2, <4>1, <4>3 DEF NothingLeft, Exists
      <4> QED
        BY <2>1, <4>2, <4>4 DEF StackComplete
    <3> QED
      BY <2>2, <3>4, <3>5
  <2>6. CASE Reboot
    <3>1. cmd' = cmd
      BY <1>1, <2>6, NoneIs DEF Reboot
    <3>2. /\ \A s \in Service :
                /\ Exists(s)' = Exists(s) /\ service'[s].version = service[s].version
                /\ service'[s].files = service[s].files /\ service'[s].state # "running"
          /\ UNCHANGED <<volumes, journals, realmMesh>>
      <4>1. ASSUME NEW s \in Service
            PROVE  /\ Exists(s)' = Exists(s) /\ service'[s].version = service[s].version
                   /\ service'[s].files = service[s].files /\ service'[s].state # "running"
        <5>1. service[s] \in [state : {"none", "made", "running"},
                              version : Version \cup {0}, files : BOOLEAN]
          BY <1>0 DEF MonitoringTypeOK
        <5>2. service'[s] = IF Exists(s) THEN [service[s] EXCEPT !.state = "made"] ELSE service[s]
          BY <2>6 DEF Reboot
        <5> QED
          BY <5>1, <5>2 DEF Exists
      <4> QED
        BY <2>6, <4>1 DEF Reboot, clusterVars
    <3>3. ~AllRun'
      BY <3>2 DEF AllRun, Running
    <3> QED
      BY <1>0, <2>1, <3>1, <3>2, <3>3 DEF StackComplete, NothingLeft, At
  <2> QED
    BY <1>1, <2>1, <2>2, <2>3, <2>4, <2>5, <2>6, PlainEnds
<1>2. CASE cmd'.pc # "ended"
  <2>1. StackComplete' /\ NothingLeft'
    BY <1>2 DEF StackComplete, NothingLeft, At
  <2>2. CASE Returns
    BY <2>1, <2>2, ReturnsCollected
  <2>3. CASE Kill
    BY <2>1, <2>3 DEF Kill, Collected
  <2>4. CASE Reboot
    <3>1. service'["alloy"].state # "running"
      <4>1. service["alloy"] \in [state : {"none", "made", "running"},
                                  version : Version \cup {0}, files : BOOLEAN]
        BY <1>0 DEF MonitoringTypeOK
      <4> QED
        BY <2>4, <4>1 DEF Reboot, Exists
    <3> QED
      BY <2>1, <3>1 DEF Collected, Running
  <2>5. CASE cmd'.pc # "idle"
    BY <2>1, <2>5 DEF Collected, At
  <2> QED
    BY <2>2, <2>3, <2>4, <2>5, PlainEnds
<1> QED
  BY <1>1, <1>2

\* No step takes the stack from a cluster that is up and monitored.
LEMMA StaysNext ==
  ASSUME "alloy" \in Service, \E n \in Nat : DOMAIN StartOrder = 1..n, StackInv, [Next]_monVars
  PROVE  StackStays'
<1>0. cmd \in Command /\ MonitoringTypeOK /\ StackStays /\ PhaseInv /\ NodesInv
  BY DEF StackInv, MonitoringTypeOK
<1>1. CASE DeleteContainers \/ RemoveOutdated \/ CreateContainer \/ CopyFiles
               \/ StartContainer \/ StartStack
  BY <1>1, DeleteContainersStep, RemoveOutdatedStep, CreateContainerStep, CopyFilesStep,
     StartContainerStep, StartStackStep DEF StackParts
<1>2. CASE Done
  BY <1>2, DoneStays
<1>3. CASE Reboot
  <2>1. ASSUME NEW s \in Service PROVE Exists(s) => Exists(s)'
    <3>1. service[s] \in [state : {"none", "made", "running"},
                          version : Version \cup {0}, files : BOOLEAN]
      BY <1>0 DEF MonitoringTypeOK
    <3>2. service'[s] = IF Exists(s) THEN [service[s] EXCEPT !.state = "made"] ELSE service[s]
      BY <1>3 DEF Reboot
    <3> QED
      BY <3>1, <3>2 DEF Exists
  <2> QED
    BY <1>0, <1>3, <2>1 DEF Reboot, clusterVars, StackStays, HasMonitoredController
<1>4. CASE RemoveStack
  <2>1. UNCHANGED <<mounts, ready>> /\ cmd.pc = "rmStack"
    BY <1>4 DEF RemoveStack, clusterVars, At
  <2>2. \A c \in ready : ~HasMonitoredController(c)
    <3>1. SUFFICES ASSUME NEW c \in ready, NEW t \in mounts, t[1] = c PROVE FALSE
      BY DEF HasMonitoredController
    <3>2. cmd.op = "create" /\ cmd.claimed /\ cmd.c = c
      BY <1>0, <2>1, <3>1 DEF MonitoringTypeOK, NodesInv, Cleaning
    <3> QED
      BY <1>0, <2>1, <3>2 DEF NodesInv, At
  <2> QED
    BY <2>1, <2>2 DEF StackStays, HasMonitoredController
<1>5. CASE UNCHANGED <<service, amiss>> /\ (CreateNodes \/ CreateWorker)
  BY <1>0, <1>5, SMTT(20) DEF CreateNodes, CreateWorker, MakeNodes, StackStays,
    HasMonitoredController, Exists,
     NodesInv, PhaseInv, Making, Adding, At
<1>6. CASE UNCHANGED <<service, amiss>> /\ Preflight
  BY <1>0, <1>6 DEF Preflight, clusterVars, StackStays, HasMonitoredController, Exists
<1>7. CASE UNCHANGED <<service, amiss>> /\ \E c \in Cluster : DeleteOne(c)
  BY <1>0, <1>7 DEF DeleteOne, StackStays, HasMonitoredController, Exists
<1>8. CASE UNCHANGED <<service, amiss, containers, mounts, ready>>
  BY <1>0, <1>8 DEF StackStays, HasMonitoredController, Exists
<1> QED
  BY <1>1, <1>2, <1>3, <1>4, <1>5, <1>6, <1>7, <1>8, StackFrame

DirOf(t) == <<t[1], t[2]>>

\* A node keeps its journal when its directory is left alone.
LEMMA OwnKept ==
  ASSUME OwnJournal,
         \A t \in mounts' \ spared' :
            /\ t \in mounts \ spared
            /\ DirOf(t) \in DOMAIN journals
                   => DirOf(t) \in DOMAIN journals' /\ journals'[DirOf(t)] = journals[DirOf(t)]
  PROVE  OwnJournal'
  BY DEF OwnJournal, DirOf

\* The journals that a create empties are of no node.
LEMMA ResetClusterJournalsOwn ==
  ASSUME StackInv, OwnJournal, ResetClusterJournals
  PROVE  OwnJournal'
<1>1. UNCHANGED <<mounts, spared>> /\ (journals' = journals \/ journals' = Emptied(NewDirs(cmd.c)))
  BY DEF ResetClusterJournals, clusterVars
<1>2. \A t \in mounts : t[1] # cmd.c
  BY DEF StackInv, MonitoringTypeOK, NodesInv, ResetClusterJournals, Branch, At, Of
<1>3. \A t \in mounts : DirOf(t) \notin NewDirs(cmd.c)
  BY <1>2 DEF NewDirs, DirOf
<1>4. \A t \in mounts : DirOf(t) \in DOMAIN journals =>
        DirOf(t) \in DOMAIN journals' /\ journals'[DirOf(t)] = journals[DirOf(t)]
  BY <1>1, <1>3 DEF Emptied
<1> QED
  BY <1>1, <1>4, OwnKept

\* The journal that an add empties is of no node.
LEMMA ResetJournalsOwn ==
  ASSUME StackInv, OwnJournal, ResetJournals
  PROVE  OwnJournal'
<1>1. UNCHANGED <<mounts, spared>>
          /\ (journals' = journals \/ journals' = Emptied({<<cmd.c, "worker">>}))
  BY DEF ResetJournals, clusterVars
<1>2. \A t \in mounts : ~(t[1] = cmd.c /\ t[2] = "worker")
  BY DEF StackInv, MonitoringTypeOK, PhaseInv, NodesInv, Adding, WorkersOf, Of,
    ResetJournals, At
<1>3. \A t \in mounts : DirOf(t) \notin {<<cmd.c, "worker">>}
  BY <1>2 DEF DirOf
<1>4. \A t \in mounts : DirOf(t) \in DOMAIN journals =>
        DirOf(t) \in DOMAIN journals' /\ journals'[DirOf(t)] = journals[DirOf(t)]
  BY <1>1, <1>3 DEF Emptied
<1> QED
  BY <1>1, <1>4, OwnKept

\* New nodes of which no earlier one has a container, in empty directories.
LEMMA NewNodesOwn ==
  ASSUME StackInv, OwnJournal, cmd.mon, spared' = spared,
         NEW K \in SUBSET Kinds, NEW new \in SUBSET {<<cmd.c, n, monUsed.commands>> : n \in K},
         \A n \in K : Fresh(<<cmd.c, n>>),
         \A t \in mounts : ~(t[1] = cmd.c /\ t[2] \in K),
         mounts' = mounts \cup new,
         journals' = [d \in DOMAIN journals |-> journals[d] \cup {t \in new : <<t[1], t[2]>> = d}]
  PROVE  OwnJournal'
<1> SUFFICES ASSUME NEW t \in mounts' \ spared'
             PROVE  DirOf(t) \in DOMAIN journals' /\ journals'[DirOf(t)] = {t}
  BY DEF OwnJournal, DirOf
<1>1. \A u \in new : u[1] = cmd.c /\ u[2] \in K /\ DirOf(u) = <<cmd.c, u[2]>>
          /\ u = <<cmd.c, u[2], monUsed.commands>>
  BY DEF DirOf
<1>2. CASE t \in new
  <2>1. DirOf(t) \in DOMAIN journals /\ journals[DirOf(t)] = {}
    BY <1>1, <1>2 DEF Fresh
  <2>2. {u \in new : <<u[1], u[2]>> = DirOf(t)} = {t}
    <3>1. ASSUME NEW u \in new, DirOf(u) = DirOf(t)
          PROVE  u = t
      <4>1. u[2] = t[2]
        BY <3>1 DEF DirOf
      <4> QED
        BY <1>1, <1>2, <3>1, <4>1
    <3> QED
      BY <1>2, <3>1 DEF DirOf
  <2> QED
    BY <2>1, <2>2
<1>3. CASE t \in mounts
  <2>1. {u \in new : <<u[1], u[2]>> = DirOf(t)} = {}
    BY <1>1, <1>3 DEF DirOf
  <2>2. DirOf(t) \in DOMAIN journals /\ journals[DirOf(t)] = {t}
    BY <1>3 DEF OwnJournal, DirOf
  <2> QED
    BY <2>1, <2>2
<1> QED
  BY <1>2, <1>3

\* The nodes of a create find their directories empty.
LEMMA CreateNodesOwn ==
  ASSUME StackInv, OwnJournal, CreateNodes
  PROVE  OwnJournal'
<1>1. spared' = spared /\ cmd.pc = "nodes"
  BY DEF CreateNodes, At
<1>2. PICK K, o :
        /\ K \in SUBSET Kinds
        /\ MakeNodes({<<cmd.c, n, monUsed.commands>> : n \in K}, o,
                     IF cmd.mon THEN "ensure" ELSE "done")
  BY DEF CreateNodes, Kinds
<1>3. PICK new \in SUBSET {<<cmd.c, n, monUsed.commands>> : n \in K} :
        /\ mounts' = IF cmd.mon THEN mounts \cup new ELSE mounts
        /\ journals' = IF cmd.mon
             THEN [d \in DOMAIN journals |-> journals[d] \cup {t \in new : <<t[1], t[2]>> = d}]
             ELSE journals
  BY <1>2 DEF MakeNodes
<1>4. \A t \in mounts : t[1] # cmd.c
  BY <1>1 DEF StackInv, MonitoringTypeOK, NodesInv, At, Of
<1>5. cmd.mon => \A n \in K : Fresh(<<cmd.c, n>>)
  BY <1>1, <1>2 DEF StackInv, JournalInv, NewDirs, Kinds, At
<1>6. CASE cmd.mon
  BY <1>1, <1>2, <1>3, <1>4, <1>5, <1>6, NewNodesOwn
<1>7. CASE ~cmd.mon
  BY <1>1, <1>3, <1>7 DEF OwnJournal
<1> QED
  BY <1>6, <1>7

\* The worker of an add finds its directory empty.
LEMMA CreateWorkerOwn ==
  ASSUME StackInv, OwnJournal, CreateWorker
  PROVE  OwnJournal'
<1>1. spared' = spared /\ cmd.pc = "worker" /\ cmd.op = "add" /\ cmd.mon
  BY DEF StackInv, PhaseInv, Adding, CreateWorker, At
<1> DEFINE K == {"worker"}
<1>2. PICK o : MakeNodes({<<cmd.c, "worker", monUsed.commands>>}, o, "async")
  BY DEF CreateWorker
<1>3. PICK new \in SUBSET {<<cmd.c, "worker", monUsed.commands>>} :
        /\ mounts' = mounts \cup new
        /\ journals' = [d \in DOMAIN journals |-> journals[d] \cup {t \in new : <<t[1], t[2]>> = d}]
  BY <1>1, <1>2 DEF MakeNodes
<1>4. new \in SUBSET {<<cmd.c, n, monUsed.commands>> : n \in K}
  BY <1>3
<1>5. \A t \in mounts : ~(t[1] = cmd.c /\ t[2] \in K)
  BY <1>1 DEF StackInv, MonitoringTypeOK, NodesInv, WorkersOf, Of
<1>6. \A n \in K : Fresh(<<cmd.c, n>>)
  BY <1>1 DEF StackInv, JournalInv, At
<1>7. K \in SUBSET Kinds
  BY DEF Kinds
<1> HIDE DEF K
<1> QED
  BY <1>1, <1>3, <1>4, <1>5, <1>6, <1>7, NewNodesOwn

\* The journals that are forgotten are of nodes that are gone.
LEMMA RemoveJournalsOwn ==
  ASSUME StackInv, OwnJournal, RemoveJournals
  PROVE  OwnJournal'
<1>1. UNCHANGED <<mounts, spared>> /\ (journals' = journals \/ journals' = Keep(cmd.forget))
  BY DEF RemoveJournals, clusterVars
<1>2. \A t \in mounts \ spared : DirOf(t) \notin cmd.forget
  BY DEF StackInv, JournalInv, Forgetting, RemoveJournals, At, DirOf
<1>3. \A t \in mounts \ spared : DirOf(t) \in DOMAIN journals =>
        DirOf(t) \in DOMAIN journals' /\ journals'[DirOf(t)] = journals[DirOf(t)]
  BY <1>1, <1>2 DEF Keep
<1> QED
  BY <1>1, <1>3, OwnKept

\* The volume of the journals goes when no node mounts it.
LEMMA RemoveVolumesOwn ==
  ASSUME StackInv, OwnJournal, RemoveVolumes
  PROVE  OwnJournal'
<1>1. UNCHANGED <<mounts, spared>>
  BY DEF RemoveVolumes, clusterVars
<1>2. PICK V : /\ {v \in volumes : InUse(v)} \subseteq V
               /\ journals' = IF "journal" \in V THEN journals ELSE <<>>
  BY DEF RemoveVolumes
<1>3. mounts # {} => "journal" \in V
  BY <1>2 DEF StackInv, JournalInv, InUse
<1> QED
  BY <1>1, <1>2, <1>3 DEF OwnJournal

\* Fewer nodes with the same journals keep them.
LEMMA RemovedOwn ==
  ASSUME OwnJournal, journals' = journals, mounts' \subseteq mounts, spared \subseteq spared'
  PROVE  OwnJournal'
  BY DEF OwnJournal

\* Every step leaves each node its journal.
LEMMA OwnNext ==
  ASSUME StackInv, OwnJournal, [Next]_monVars
  PROVE  OwnJournal'
<1>1. CASE \/ ResetClusterJournals \/ ResetJournals \/ CreateNodes \/ CreateWorker
           \/ RemoveJournals \/ RemoveVolumes
  BY <1>1, ResetClusterJournalsOwn, ResetJournalsOwn, CreateNodesOwn, CreateWorkerOwn,
     RemoveJournalsOwn, RemoveVolumesOwn
<1>2. CASE DeleteContainers
  BY <1>2, RemovedOwn DEF DeleteContainers, stackVars
<1>3. ASSUME NEW c \in Cluster, DeleteOne(c) PROVE OwnJournal'
  BY <1>3, RemovedOwn DEF DeleteOne, stackVars
<1>4. CASE UNCHANGED <<journals, mounts, spared>>
  BY <1>4, RemovedOwn
<1> QED
  BY <1>1, <1>2, <1>3, <1>4, StackFrame

\* Nothing happened yet: no node, no stack, no command.
LEMMA StackInit ==
  ASSUME Init
  PROVE  StackInv /\ OwnJournal
<1>1. cmd.pc = "idle" /\ cmd = NoCommand /\ cmd \in Command
  BY NoneIs DEF Init
<1>2. /\ containers = {} /\ mounts = {} /\ volumes = {} /\ alloy = [file |-> {}, runs |-> {}]
      /\ ready = {} /\ behind = FALSE
      /\ \A s \in Service : service[s] = NoService
  BY DEF Init
<1>3. MonitoringTypeOK
  <2>1. service \in [Service -> [state : {"none", "made", "running"},
                                 version : Version \cup {0}, files : BOOLEAN]]
    BY DEF Init, NoService
  <2>2. journals \in [DOMAIN journals -> SUBSET Nodes] /\ DOMAIN journals \subseteq Places
    BY DEF Init
  <2> QED
    BY <1>1, <2>1, <2>2 DEF Init, MonitoringTypeOK
<1>4. PhaseInv
  BY <1>1, NoneIs DEF PhaseInv, At, Making, Ensuring, Adding, Undoing, Forgetting,
    Cleaning
<1>5. NodesInv /\ JournalInv /\ AlloyInv
  BY <1>1, <1>2, NoneIs
     DEF NodesInv, JournalInv, AlloyInv, Follows, Running, NoService, At, Making,
       Ensuring, Adding,
         Undoing, Forgetting, Cleaning
<1>6. ServicesInv
  BY <1>1, <1>2, NoneIs DEF ServicesInv, Running, NoService, At, Ensuring, Adding
<1>7. StackStays /\ StackComplete /\ Collected /\ NothingLeft /\ OwnJournal
  BY <1>1, <1>2 DEF StackStays, StackComplete, Collected, NothingLeft, OwnJournal,
    Running, NoService, At
<1> QED
  BY <1>3, <1>4, <1>5, <1>6, <1>7 DEF StackInv

\* One step, whichever it is.
LEMMA StackNext ==
  ASSUME "alloy" \in Service, \E n \in Nat : DOMAIN StartOrder = 1..n,
         StackInv, OwnJournal, [Next]_monVars
  PROVE  StackInv' /\ OwnJournal'
<1>1. MonitoringTypeOK' /\ OwnJournal' /\ cmd' \in Command
  BY MonitoringTypeNext, OwnNext DEF MonitoringTypeOK
<1> SUFFICES StackParts'
  BY <1>1 DEF StackInv, StackParts
<1>2. CASE PlainStep
  BY <1>1, <1>2, PlainPhase, PlainNodes, PlainJournal, PlainServices, PlainAlloy,
    PlainEnded,
     StaysNext DEF StackParts
<1>3. CASE \/ HasOtherClusters \/ RollbackRemovesMesh \/ ListResources \/ DeleteContainers
           \/ DeleteNetworkAndVolumes \/ StartStack \/ ForgetSync \/ RemoveJournals
           \/ RollbackKeepsStack \/ RealmClusterNames
  BY <1>3, HasOtherClustersStep, RollbackRemovesMeshStep, ListResourcesStep,
    DeleteContainersStep,
     DeleteNetworkAndVolumesStep, StartStackStep, ForgetSyncStep, RemoveJournalsStep,
     RollbackKeepsStackStep, RealmClusterNamesStep
<1>4. CASE \/ EnsureMonitoring \/ CreateVolumes \/ RemoveOutdated \/ CreateContainer \/ CopyFiles
           \/ StartContainer \/ WaitReady \/ Sync
  BY <1>4, EnsureMonitoringStep, CreateVolumesStep, RemoveOutdatedStep,
    CreateContainerStep,
     CopyFilesStep, StartContainerStep, WaitReadyStep, SyncStep
<1>5. CASE UNCHANGED monVars
  <2> USE DEF monVars, clusterVars, stackVars, At
  <2>1. PhaseInv'
    BY <1>5 DEF StackInv, PhaseInv
  <2>2. NodesInv'
    BY <1>5 DEF StackInv, NodesInv, MountsOf, WorkersOf, Of, Others
  <2>3. JournalInv'
    BY <1>5 DEF StackInv, JournalInv, Fresh
  <2>4. ServicesInv'
    BY <1>5 DEF StackInv, ServicesInv, Current, Running, Exists, AtService, This, AllRun
  <2>5. AlloyInv'
    BY <1>5 DEF StackInv, AlloyInv, Follows, Running, MountsOf
  <2>6. StackStays' /\ StackComplete' /\ Collected' /\ NothingLeft'
    BY <1>5 DEF StackInv, StackStays, StackComplete, Collected, NothingLeft,
      HasMonitoredController,
                AllRun, Running, Exists
  <2> QED
    BY <2>1, <2>2, <2>3, <2>4, <2>5, <2>6 DEF StackParts
<1> QED
  BY <1>2, <1>3, <1>4, <1>5 DEF Next, PlainStep

\* The monitoring stack, with every sequence of commands, faults and reboots:
\* a node's journal is its own, the stack stays for as long as a cluster that
\* is up is monitored, a command that reports success leaves the whole stack or
\* nothing of it, and Alloy collects the nodes that there are or somebody was
\* told.
THEOREM StackInvHolds ==
  ASSUME "alloy" \in Service, \E n \in Nat : DOMAIN StartOrder = 1..n
  PROVE  Spec => [](StackInv /\ OwnJournal)
<1>1. Init => StackInv /\ OwnJournal
  BY StackInit
<1>2. (StackInv /\ OwnJournal) /\ [Next]_monVars => (StackInv /\ OwnJournal)'
  BY StackNext
<1> QED
  BY <1>1, <1>2, PTL DEF Spec
===============================================================================

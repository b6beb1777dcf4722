-------------------------------- MODULE Runs --------------------------------
(***************************************************************************)
(* What sind ui says of one command: its card in the dock, its run page    *)
(* with the outcome, the page of a task without a run, its row and its tab *)
(* in Activity, and its row in Needs you.  All are functions of the store: *)
(* the task, if this sind ui started the command, and the run, which the   *)
(* follower reads from the event log.  The two come by different ways: the *)
(* end of the process is told to the store before or after the follower    *)
(* has read the rest of the log, a killed command never logs its end, and  *)
(* a run that is silent for an hour is taken as ended until it writes      *)
(* again.                                                                  *)
(*                                                                         *)
(* The command waits for the lock of its realm, if another one holds it,   *)
(* runs a step with a target for each node, and undoes its work in the     *)
(* step rollback when it makes things and fails or is stopped.             *)
(*                                                                         *)
(* Left out: hidden steps, pulls, suspended commands, titles, times.       *)
(***************************************************************************)
EXTENDS Naturals

CONSTANTS
    Node,       \* the nodes that the command works on
    Casts,      \* bound: what commands there are, a set of records with the
                \* fields op, origin and places (see below)
    RunWaits    \* bound: the waits in minutes that nodes run out of; 0 if the
                \* log does not tell

VARIABLES
    op,       \* the command, as the log names it; "drain" has no log
    origin,   \* "task" of this sind ui | "ui", another one | "program" | "terminal"
    places,   \* the realms with a cluster of its name, as the store lists them;
              \* its own one is "here"
    log,      \* what the follower has read of the command
    proc,     \* its process: has it ended, and how; was it asked to stop
    silent,   \* nothing was logged for StaleAfter
    task      \* the task in the store

runVars == <<op, origin, places, log, proc, silent, task>>

Makes == op \in {"create cluster", "create worker"}

RunPhases == {"container", "setup"}
TargetStates == {"queued", "ok", "failed", "timeout"} \cup RunPhases
Ends == {"ok", "failed", "canceled"}

In(states) == {n \in DOMAIN log.target : log.target[n] \in states}
AnyFailed == In({"failed", "timeout"}) # {} \/ log.back = "target failed"

RunsInit ==
    /\ \E c \in Casts : op = c.op /\ origin = c.origin /\ places = c.places
    /\ log = [there |-> FALSE, lock |-> "none", step |-> "none", target |-> [n \in {} |-> ""],
              wait |-> 0, back |-> "none", status |-> ""]
    /\ proc = [how |-> "", asked |-> FALSE]
    /\ silent = FALSE
    /\ task = [there |-> origin = "task", canceling |-> FALSE, hidden |-> FALSE,
               status |-> IF origin = "task" THEN "running" ELSE "none"]

-----------------------------------------------------------------------------
(* The follower reads the log, also of a command that has ended.  What it  *)
(* reads agrees with how the command ended.                                *)
More == log.there /\ log.status = "" /\ (silent => proc.how = "")
MayFail == proc.how # "ok"

Reads(entry) ==
    /\ log' = entry
    /\ silent' = FALSE
    /\ UNCHANGED <<op, origin, places, proc, task>>

BeginRun ==
    /\ ~log.there /\ op # "drain"
    /\ Reads([log EXCEPT !.there = TRUE])

WaitForLock ==
    /\ More /\ log.lock = "none" /\ log.step = "none"
    /\ Reads([log EXCEPT !.lock = "waits"])

TakeLock ==
    /\ More /\ log.lock = "waits"
    /\ Reads([log EXCEPT !.lock = "none"])

GiveUp ==
    /\ More /\ log.lock = "waits" /\ MayFail
    /\ Reads([log EXCEPT !.lock = "lost"])

BeginStep ==
    /\ More /\ log.lock = "none" /\ log.step = "none"
    /\ Reads([log EXCEPT !.step = "runs", !.target = [n \in Node |-> "queued"]])

NextPhase == [queued |-> "container", container |-> "setup", setup |-> "ok"]

Advance(n) ==
    /\ More /\ log.step = "runs" /\ log.target[n] \in DOMAIN NextPhase
    /\ Reads([log EXCEPT !.target[n] = NextPhase[@]])

TargetFails(n) ==
    /\ More /\ log.step = "runs" /\ log.target[n] \in RunPhases /\ MayFail
    /\ \/ Reads([log EXCEPT !.target[n] = "failed"])
       \/ \E w \in RunWaits :
            /\ Makes /\ In({"timeout"}) # {} => w = log.wait
            /\ Reads([log EXCEPT !.target[n] = "timeout", !.wait = w])

\* The step ends, and with it the targets that have not ended are canceled.
EndStep ==
    /\ More /\ log.step = "runs"
    /\ \E s \in Ends :
         /\ s = "ok" => In({"ok"}) = Node
         /\ s # "ok" => MayFail
         /\ s = "canceled" => proc.asked /\ ~AnyFailed
         /\ Reads([log EXCEPT !.step = s])

BeginRollback ==
    /\ More /\ Makes /\ log.step \in {"failed", "canceled"} /\ log.back = "none"
    /\ Reads([log EXCEPT !.back = "running"])

EndRollback ==
    /\ More /\ log.back = "running"
    /\ \E s \in {"ok", "failed", "target failed"} : Reads([log EXCEPT !.back = s])

ReadEnd ==
    /\ More /\ proc.how \in Ends
    /\ log.lock # "waits" /\ log.step # "runs" /\ log.back # "running"
    /\ proc.how = "ok" => log.step = "ok"
    /\ Makes /\ log.step \in {"failed", "canceled"} => log.back # "none"
    /\ Reads([log EXCEPT !.status = proc.how])

-----------------------------------------------------------------------------
(* The process, its task and the silence of its log.                       *)
MayEnd(how) ==
    CASE how = "ok" -> ~AnyFailed /\ log.lock # "lost" /\ log.step \notin {"failed", "canceled"}
      [] how = "canceled" -> proc.asked
      [] OTHER -> TRUE

ProcessEnds ==
    /\ proc.how = ""
    /\ \E how \in Ends \cup {"killed"} : MayEnd(how) /\ proc' = [proc EXCEPT !.how = how]
    /\ UNCHANGED <<op, origin, places, log, silent, task>>

\* Somebody asks the command to stop; sind ui only its own one.
Ask ==
    /\ proc.how = "" /\ ~proc.asked
    /\ proc' = [proc EXCEPT !.asked = TRUE]
    /\ task' = [task EXCEPT !.canceling = task.there]
    /\ UNCHANGED <<op, origin, places, log, silent>>

TaskEnds ==
    /\ task.status = "running" /\ proc.how # ""
    /\ task' = [task EXCEPT !.status = IF proc.how = "killed" THEN "failed" ELSE proc.how]
    /\ UNCHANGED <<op, origin, places, log, proc, silent>>

FallsSilent ==
    /\ log.there /\ log.status = "" /\ proc.how \in {"", "killed"} /\ ~silent
    /\ silent' = TRUE
    /\ UNCHANGED <<op, origin, places, log, proc, task>>

TaskOver == task.status \in Ends

Dismiss ==
    /\ task.there /\ TaskOver /\ ~task.hidden
    /\ task' = [task EXCEPT !.hidden = TRUE]
    /\ UNCHANGED <<op, origin, places, log, proc, silent>>

\* Newer tasks ended, and the store drops this one.
Prune ==
    /\ task.there /\ TaskOver
    /\ task' = [task EXCEPT !.there = FALSE]
    /\ UNCHANGED <<op, origin, places, log, proc, silent>>

RunsNext ==
    \/ BeginRun \/ WaitForLock \/ TakeLock \/ GiveUp \/ BeginStep \/ EndStep
    \/ \E n \in Node : Advance(n) \/ TargetFails(n)
    \/ BeginRollback \/ EndRollback \/ ReadEnd
    \/ ProcessEnds \/ Ask \/ TaskEnds \/ FallsSilent \/ Dismiss \/ Prune

RunsSpec == RunsInit /\ [][RunsNext]_runVars

-----------------------------------------------------------------------------
(* The run as the store has it: with the end that the log tells, else that *)
(* of its silence, else that of its task, also of one that it has dropped. *)
\* Mutant: a run ends with its task only while the store has that one.
BugRun ==
    CASE log.status # "" -> [done |-> TRUE, status |-> log.status]
      [] log.status = "" /\ silent -> [done |-> TRUE, status |-> ""]
      [] log.status = "" /\ ~silent /\ task.there /\ TaskOver ->
           [done |-> TRUE, status |-> task.status]
      [] OTHER -> [done |-> FALSE, status |-> ""]

Run ==
    CASE log.status # "" -> [done |-> TRUE, status |-> log.status]
      [] log.status = "" /\ silent -> [done |-> TRUE, status |-> ""]
      [] log.status = "" /\ ~silent /\ TaskOver ->
           [done |-> TRUE, status |-> task.status]
      [] OTHER -> [done |-> FALSE, status |-> ""]

Source == IF origin = "task" THEN "ui" ELSE origin

StatusClass == IF ~Run.done THEN "running" ELSE IF Run.status = "" THEN "ended" ELSE Run.status

Pill(canceling) ==
    LET class == StatusClass
    IN CASE class = "running" -> IF canceling THEN "stopping" ELSE "running"
         [] class = "canceled" -> "stopped"
         [] class = "ended" -> "no end recorded"
         [] OTHER -> class

\* The class of a step or a target; that of a run which ended began none of
\* what is queued, and was cut off in what runs.
SpanClass(s) ==
    CASE s \in Ends -> s
      [] s \in {"timeout", "target failed"} -> "failed"
      [] s = "queued" -> IF Run.done THEN "skipped" ELSE "queued"
      [] OTHER -> IF Run.done THEN "canceled" ELSE "running"

Waits == ~Run.done /\ log.lock = "waits"

FailedTargets == In({"failed", "timeout"})
Timeouts == In({"timeout"})

\* How a command that goes on, or one that ended, is described in a line.
Line(canceling) ==
    CASE Run.done -> Pill(FALSE)
      [] ~Run.done /\ canceling -> IF log.back = "running" THEN "rolling back" ELSE "stopping"
      [] ~Run.done /\ ~canceling /\ log.back = "running" -> "rollback"
      [] ~Run.done /\ ~canceling /\ log.step = "runs" -> "nodes"
      [] ~Run.done /\ ~canceling /\ Waits -> "waiting for realm lock"
      [] OTHER -> "working"

SayState(class, canceling) == IF class = "running" /\ canceling THEN "stopping" ELSE class

RollbackWord ==
    IF log.back = "none" THEN ""
    ELSE CASE SpanClass(log.back) = "ok" -> "nothing is left"
           [] SpanClass(log.back) = "failed" -> "the rollback failed"
           [] SpanClass(log.back) = "running" -> "sind rolls back"
           [] OTHER -> "the rollback did not finish"

-----------------------------------------------------------------------------
(* Where the run worked, and the ways on from it.                          *)

\* A cluster of the name is not the one that the run made or removed.
Outlived ==
    Run.done /\ \/ op = "create cluster" /\ Run.status # "ok"
                \/ op = "delete cluster" /\ Run.status = "ok"

EntryRealms == IF task.there THEN {"here"} ELSE IF Outlived THEN {} ELSE places
One(S) == \E x \in S : S = {x}
KnownRealm == One(EntryRealms)

Back == IF KnownRealm /\ EntryRealms \subseteq places THEN EntryRealms ELSE {"Clusters"}

\* The wait that the dialog sets in place of the one that nodes ran out of.
WaitChoices == {2, 5, 10}
RetryWait ==
    IF log.wait = 0 THEN 10
    ELSE IF \E w \in WaitChoices : w > log.wait
         THEN CHOOSE w \in WaitChoices : w > log.wait /\ \A v \in WaitChoices : v > log.wait => w <= v
         ELSE 2 * log.wait

Ended(class) == class \in {"failed", "canceled"}

NoRetry == [again |-> FALSE, edit |-> FALSE, primary |-> FALSE, wait |-> 0]

\* Try again, for a task: a delete wants its name typed, in the dialog.
TaskRetry(class) ==
    IF ~Ended(class) THEN NoRetry
    ELSE [NoRetry EXCEPT !.again = op # "delete cluster", !.edit = TRUE]

LongerWait(retry) ==
    IF retry.edit /\ op = "create cluster" /\ Timeouts # {}
    THEN [retry EXCEPT !.primary = TRUE, !.wait = RetryWait]
    ELSE retry

\* Without its task the log has to do, which only creates can use.
LogRetry ==
    IF ~Run.done \/ ~Ended(StatusClass) THEN NoRetry
    ELSE CASE op = "create cluster" ->
                [NoRetry EXCEPT !.edit = TRUE, !.primary = TRUE,
                   !.wait = IF StatusClass = "failed" /\ Timeouts # {} THEN RetryWait ELSE 0]
           [] op = "create worker" -> [NoRetry EXCEPT !.edit = KnownRealm]
           [] OTHER -> NoRetry

\* The dialog of a create cluster takes a run that ended, but not ok.
DialogTakes == op = "create cluster" /\ Run.done /\ Run.status # "ok"

-----------------------------------------------------------------------------
(* The pages.                                                              *)
StopButton(ended) == task.there /\ ~TaskOver /\ ~task.canceling /\ ~ended

CardClass ==
    IF TaskOver THEN task.status
    ELSE IF log.there /\ Run.done THEN StatusClass ELSE "running"

\* The cards of the dock.
Card ==
    IF task.there
    THEN [shown |-> ~task.hidden, class |-> CardClass,
          stop |-> CardClass = "running" /\ StopButton(log.there /\ Run.done),
          say |-> SayState(CardClass, task.canceling), line |-> Line(task.canceling)]
    ELSE [shown |-> log.there /\ ~Run.done, class |-> "running", stop |-> FALSE,
          say |-> "running", line |-> Line(FALSE)]

\* The head of the run page.
Head ==
    LET retry == IF ~task.there THEN LogRetry
                 ELSE IF Run.done THEN LongerWait(TaskRetry(StatusClass)) ELSE NoRetry
        primary == retry.again /\ ~retry.primary
    IN [pill |-> Pill(task.there /\ task.canceling),
        stop |-> StopButton(Run.done),
        canceling |-> task.there /\ ~Run.done /\ task.canceling,
        noStop |-> ~task.there /\ ~Run.done,
        retry |-> retry,
        again |-> primary,
        back |-> Back,
        backPrimary |-> Run.done /\ ~primary /\ ~retry.primary]

\* What the run page says of an end that was not ok, or of failures so far.
NoFailure == FailedTargets = {} /\ log.back # "target failed"

StoppedInLockWait == log.lock \in {"waits", "lost"} /\ log.step = "none"

\* The targets of a stopped run by the phase that they were cut off in.
StoppedNodes == [p \in RunPhases |-> In({p})]

Outcome ==
    LET stopped == Run.done /\ Run.status = "canceled"
        failed == Run.done /\ Run.status = "failed"
    IN IF NoFailure /\ ~stopped /\ ~failed THEN [class |-> IF StatusClass = "ok" THEN "ok" ELSE ""]
       ELSE [class |-> IF stopped THEN "warn" ELSE "bad",
             title |-> CASE ~Run.done -> "What failed"
                         [] stopped -> Source
                         [] Run.done /\ ~stopped /\ op = "create cluster" -> "was not created"
                         [] OTHER -> "failed",
             nodes |-> FailedTargets,
             meta |-> RollbackWord,
             unchanged |-> stopped /\ StoppedInLockWait,
             notes |-> IF RollbackWord = "nothing is left" THEN "" ELSE RollbackWord]

\* The page of a task, for a run that the log does not have.
TaskPage ==
    [redirect |-> log.there, stop |-> StopButton(FALSE), retry |-> TaskRetry(CardClass)]

\* The row of Activity.
StoppedWhere ==
    IF StoppedInLockWait THEN {"the lock"} ELSE {p \in RunPhases : StoppedNodes[p] # {}}

Row ==
    [class |-> CASE Run.status = "failed" -> "bad" [] Run.status = "canceled" -> "warn" [] OTHER -> "",
     nodes |-> IF Run.status # "failed" THEN {}
               ELSE IF Timeouts # {} THEN Timeouts ELSE FailedTargets,
     where |-> IF Run.status = "canceled" THEN StoppedWhere ELSE {},
     back |-> IF Ended(Run.status) /\ RollbackWord # "sind rolls back" THEN RollbackWord ELSE ""]

Tabs == {"running", "ok", "failed", "canceled"}
InTab(tab) == IF tab = "running" THEN ~Run.done ELSE Run.done /\ Run.status = tab
InTabs == {t \in Tabs : InTab(t)}

\* The row of Needs you, and the number on the rail.
Need == log.there /\ Run.done /\ Run.status = "failed"
NeedRetry == IF task.there THEN TaskRetry("failed").edit ELSE LogRetry.edit
NavRunning == log.there /\ ~Run.done

-----------------------------------------------------------------------------
(* Properties                                                              *)

Entries == [there : BOOLEAN, lock : {"none", "waits", "lost"}, step : {"none", "runs"} \cup Ends,
            target : UNION {[N -> TargetStates] : N \in {{}, Node}}, wait : RunWaits \cup {0},
            back : {"none", "running", "ok", "failed", "target failed"},
            status : {""} \cup Ends]

RunsTypeOK ==
    /\ log \in Entries
    /\ proc \in [how : {"", "killed"} \cup Ends, asked : BOOLEAN]
    /\ silent \in BOOLEAN
    /\ task \in [there : BOOLEAN, canceling : BOOLEAN, hidden : BOOLEAN,
                 status : {"none", "running"} \cup Ends]

\* What came by the log and what came by the process are of one command,
\* and a command that only waited for the lock has nothing to undo.
OneCommand ==
    /\ log.status # "" => log.there /\ log.status = proc.how
    /\ log.step = "none" => DOMAIN log.target = {} /\ log.back = "none"
    /\ task.there => task.status # "none" /\ task.canceling = proc.asked
    /\ task.hidden => TaskOver
    /\ TaskOver => proc.how # "" /\ task.status = IF proc.how = "killed" THEN "failed" ELSE proc.how

\* No page calls a command ended that goes on or that ended otherwise; a
\* command that was killed is one that failed.  "ended" is said of a run
\* that is silent, which may go on.  Once the task has ended, no page says
\* that the command runs, also when the store has dropped the task.
EndTrue ==
    LET truth == IF proc.how = "killed" THEN "failed" ELSE proc.how
    IN /\ log.there /\ StatusClass \in Ends => StatusClass = truth
       /\ task.there /\ CardClass \in Ends => CardClass = truth
       /\ log.there /\ TaskOver => StatusClass # "running"

\* The dock, the run page and Activity say the same of a command, whichever
\* of its two ends is known, unless its log was silent when its task ended.
OneVoice ==
    LET head == Head
        card == Card
        row == Row
        outcome == Outcome
    IN log.there =>
        /\ task.there => CardClass = StatusClass \/ (silent /\ TaskOver)
        /\ head.canceling = (card.say = "stopping")
        /\ ~Run.done => (card.line \in {"stopping", "rolling back"}) = (head.pill = "stopping")
        /\ IF StatusClass = "ended" THEN InTabs = {} ELSE One(InTabs)
        /\ row.class # "" => row.class = outcome.class
        /\ Run.done /\ Run.status = "failed" =>
             /\ row.nodes \subseteq outcome.nodes
             /\ row.nodes = {} => outcome.nodes = {}
             /\ row.back = outcome.meta
        /\ Run.done /\ Run.status = "canceled" =>
             /\ outcome.unchanged = (row.where = {"the lock"})
             /\ outcome.unchanged => DOMAIN log.target = {} /\ RollbackWord = ""

\* A command that goes on has its card in the dock, from the moment that
\* sind ui knows of it, also once its task is gone; the rail counts no
\* command that the dock does not show as running.
InDock ==
    LET card == Card
    IN /\ task.there /\ task.status = "running" => card.shown
       /\ NavRunning => card.shown /\ card.class = "running"

\* A command that goes on can be stopped, is being stopped, or the page says
\* why it cannot be; the dock and its page agree, and one that has ended is
\* never offered to be stopped.
StopHonest ==
    LET head == Head
        card == Card
    IN /\ NavRunning =>
            /\ One({b \in {"stop", "canceling", "noStop"} : head[b]})
            /\ task.there => card.stop = head.stop
       /\ card.stop \/ head.stop => task.status = "running" /\ ~proc.asked /\ log.status = ""

\* The buttons at the head that are the one to press.
Buttons(head) ==
    {b \in {"again", "primary", "back"} :
        CASE b = "again" -> head.again
          [] b = "primary" -> head.retry.primary
          [] OTHER -> head.backPrimary}

\* A command of this sind ui that did not end ok can be tried again, on the
\* page that shows its end, and one that goes on cannot; what the page of a
\* run without a task offers is what the dialog takes, with a wait that is
\* longer than the one that was too short; Needs you offers what the page
\* does, and the page has one button to press.
RetryHonest ==
    LET head == Head
    IN /\ task.there /\ Ended(task.status) /\ ~silent =>
            IF log.there THEN head.retry.edit ELSE TaskPage.retry.edit
       /\ log.there =>
            /\ head.retry.edit => ~head.stop /\ proc.how # ""
            /\ head.retry.edit /\ op = "create cluster" => DialogTakes
            /\ head.retry.wait # 0 => head.retry.wait > log.wait
            /\ Need => NeedRetry = head.retry.edit
            /\ IF Run.done THEN One(Buttons(head)) ELSE Buttons(head) = {}

RunsInv == RunsTypeOK /\ OneCommand /\ EndTrue /\ OneVoice /\ InDock /\ StopHonest /\ RetryHonest

=============================================================================

----------------------------- MODULE TaskRunner -----------------------------
(***************************************************************************)
(* The commands that sind ui runs for its users (internal/ui/run, Runner), *)
(* what the store keeps of them (internal/ui/store), and the runs the      *)
(* activity follower reads from the event log (internal/ui/activity).      *)
(*                                                                         *)
(* A task is a sind child process in a process group of its own.  sind     *)
(* takes the first SIGINT as Ctrl-C and rolls back; a second one kills it  *)
(* in the middle of the rollback.  The runner's mutex guards the map of    *)
(* the running children and the closing flag, and is released between the  *)
(* steps below: the start of a child, its end, the requests to cancel it   *)
(* and the shutdown interleave.  A run in the log may lack its end, when   *)
(* its process was killed; the store ends it with its task, the follower   *)
(* once it has been silent for an hour, whatever the store says.           *)
(***************************************************************************)
EXTENDS Integers, FiniteSets

CONSTANTS
    Tasks,          \* the commands users start, each at most once
    Others,         \* the sind commands that run in a terminal
    Logged,         \* the commands that write an event log
    Casts,          \* bound: the sets of commands that run in one behaviour
    Lulls,          \* bound: those of them whose logs may be silent for an hour
    MaxEndedTasks   \* how many ended tasks the store keeps

Commands == Tasks \cup Others

ASSUME TaskRunnerAssumption ==
    /\ Tasks \cap Others = {} /\ Logged \subseteq Commands
    /\ Lulls \subseteq Casts /\ Casts \subseteq SUBSET Commands
    /\ MaxEndedTasks \in Nat

VARIABLES
    cast,       \* the commands of this behaviour
    job,        \* per task: where its goroutine is
    running,    \* the runner's map of children
    intr,       \* the interrupted flag of each child
    closing,    \* has Shutdown begun
    shut,       \* where Shutdown is
    stopping,   \* the tasks that a Cancel has decided to signal
    proc,       \* per command: its process
    sigints,    \* history: the SIGINTs the process took
    killed,     \* history: the processes that got a SIGKILL
    tasks,      \* the tasks that the store keeps
    before,     \* per task: those that it kept when the task was added
    status,     \* the status of each task the store was told of
    canceling,  \* the tasks marked as being canceled
    log,        \* per command: how much of it the event log tells
    old,        \* per command: nothing was logged of it for StaleAfter
    view,       \* per command: what the follower's reducer has read
    marked,     \* per command: the run as the follower shows it
    follower,   \* is a poll between its read and its publication
    logRuns,    \* per command: the run as the follower gave it to the store
    runs        \* per command: the run in the store's snapshot

runner == <<cast, job, running, intr, closing, shut, stopping>>
child == <<proc, sigints, killed>>
taskStore == <<tasks, before, status, canceling, logRuns, runs>>
follow == <<view, marked, follower>>
eventLog == <<log, old>>
vars == <<runner, child, taskStore, eventLog, follow>>

Ended == {"ok", "failed", "canceled"}
Alive(c) == proc[c] \in {"running", "rolling"}
\* The log of a run: nothing, its start, a later event, its end.
LogStart == 1
LogMore == 2
LogEnd == 3
RunDone == {"ended", "stale", "with task"}

TypeOK ==
    /\ cast \in Casts
    /\ job \in [Tasks -> {"idle", "refused", "counted", "added", "born", "late", "up",
                          "ending", "over"}]
    /\ running = {t \in Tasks : job[t] \in {"late", "up"}}
    /\ intr \subseteq running
    /\ closing \in BOOLEAN
    /\ shut \in {"open", "waiting", "killing", "down"}
    /\ stopping \subseteq Tasks
    /\ proc \in [Commands -> {"none", "running", "rolling", "killed"} \cup Ended]
    /\ sigints \in [Commands -> 0..2] /\ killed \subseteq Tasks
    /\ tasks \subseteq Tasks /\ before \in [Tasks -> SUBSET Tasks]
    /\ status \in [Tasks -> {"none", "running"} \cup Ended]
    /\ canceling \subseteq Tasks
    /\ log \in [Commands -> 0..LogEnd] /\ old \subseteq Commands
    /\ view \in [Commands -> 0..LogEnd]
    /\ {marked, logRuns} \subseteq [Commands -> {"none", "going", "ended", "stale"}]
    /\ follower \in {"idle", "publish"}
    /\ runs \in [Commands -> {"none", "going"} \cup RunDone]

Init ==
    /\ cast \in Casts
    /\ job = [t \in Tasks |-> "idle"]
    /\ running = {} /\ intr = {} /\ closing = FALSE /\ shut = "open"
    /\ stopping = {}
    /\ proc = [c \in Commands |-> "none"]
    /\ sigints = [c \in Commands |-> 0] /\ killed = {}
    /\ tasks = {} /\ before = [t \in Tasks |-> {}] /\ canceling = {}
    /\ status = [t \in Tasks |-> "none"]
    /\ log = [c \in Commands |-> 0] /\ old = {}
    /\ view = [c \in Commands |-> 0]
    /\ marked = [c \in Commands |-> "none"] /\ logRuns = marked
    /\ follower = "idle"
    /\ runs = [c \in Commands |-> "none"]

-----------------------------------------------------------------------------
(* Processes and their signals *)

\* What SIGINT does to a set of process groups.  A group that has ended
\* gets none (ESRCH).  Assumption: the kernel gives its number to no other
\* group before the signal.
Interrupt(ts) ==
    /\ proc' = [c \in Commands |->
                  IF c \notin ts THEN proc[c]
                  ELSE CASE proc[c] = "running" -> "rolling"
                         [] proc[c] = "rolling" -> "killed"
                         [] OTHER -> proc[c]]
    /\ sigints' = [c \in Commands |->
                     IF c \in ts /\ Alive(c) THEN sigints[c] + 1 ELSE sigints[c]]
    /\ UNCHANGED killed

\* A sind command starts in a terminal.
TerminalStarts(c) ==
    /\ c \in cast /\ proc[c] = "none"
    /\ proc' = [proc EXCEPT ![c] = "running"]
    /\ UNCHANGED <<runner, sigints, killed, taskStore, eventLog, follow>>

\* A command writes the start of its run, or an event after a silence,
\* such as the one that resumes it.
Logs(c) ==
    /\ Alive(c) /\ c \in Logged
    /\ \/ log[c] = 0 /\ log' = [log EXCEPT ![c] = LogStart]
       \/ c \in old /\ log[c] = LogStart /\ log' = [log EXCEPT ![c] = LogMore]
    /\ old' = old \ {c}
    /\ UNCHANGED <<runner, child, taskStore, follow>>

\* A command ends by itself: the log then holds the end of its run.  One
\* that was interrupted ends rolled back, or failed to; one that has ended
\* its work before the signal reached it is ok.
Exits(c) ==
    /\ Alive(c) /\ (c \in Logged => log[c] > 0)
    /\ \E how \in {"ok", "failed", "canceled"} :
        /\ how = "canceled" => proc[c] = "rolling"
        /\ proc' = [proc EXCEPT ![c] = how]
    /\ log' = [log EXCEPT ![c] = IF c \in Logged THEN LogEnd ELSE 0]
    /\ old' = old \ {c}
    /\ UNCHANGED <<runner, sigints, killed, taskStore, follow>>

\* A command is killed by something else, such as the kernel out of memory.
Crashes(c) ==
    /\ Alive(c)
    /\ proc' = [proc EXCEPT ![c] = "killed"]
    /\ UNCHANGED <<runner, sigints, killed, taskStore, eventLog, follow>>

\* An hour passes without an event of the run.
FallsSilent(c) ==
    /\ cast \in Lulls
    /\ log[c] \in LogStart..LogMore /\ c \notin old
    /\ old' = old \cup {c}
    /\ UNCHANGED <<runner, child, taskStore, log, follow>>

-----------------------------------------------------------------------------
(* The store *)

\* Mutant: only a task the store still shows ends its run.
BugEndRuns(lr, st) ==
    [c \in Commands |->
        IF lr[c] = "going" /\ c \in tasks /\ st[c] \in Ended THEN "with task" ELSE lr[c]]

\* The runs the snapshot shows: a run the log has not ended, of a task that
\* has ended, ends as the task did.
EndRuns(lr, st) ==
    [c \in Commands |->
        IF lr[c] = "going" /\ c \in Tasks /\ st[c] \in Ended THEN "with task" ELSE lr[c]]

\* Of the tasks that have ended the store keeps the newest.
PruneTasks(ts, st) ==
    LET newer(t) == {u \in ts : t \in before[u] /\ st[u] \in Ended}
    IN {t \in ts : st[t] \in Ended => Cardinality(newer(t)) < MaxEndedTasks}

\* Tell the store of a task: once it has ended its runs end with it, and
\* the ended tasks beyond the newest are dropped.
UpdateTask(t, st) ==
    /\ status' = [status EXCEPT ![t] = st]
    /\ IF st \in Ended
       THEN /\ tasks' = PruneTasks(tasks, status')
            /\ runs' = EndRuns(logRuns, status')
       ELSE UNCHANGED <<tasks, runs>>

-----------------------------------------------------------------------------
(* Runner: starting and ending a task *)

\* Mutant: a task starts whether Shutdown has begun or not.
BugStart(t) ==
    /\ t \in cast /\ job[t] = "idle"
    /\ job' = [job EXCEPT ![t] = "counted"]
    /\ UNCHANGED <<cast, running, intr, closing, shut, stopping, child, taskStore, eventLog, follow>>

\* Start, its critical section: refused once Shutdown has begun, else
\* counted for Shutdown to wait for.
Start(t) ==
    /\ t \in cast /\ job[t] = "idle"
    /\ job' = [job EXCEPT ![t] = IF closing THEN "refused" ELSE "counted"]
    /\ UNCHANGED <<cast, running, intr, closing, shut, stopping, child, taskStore, eventLog, follow>>

AddTask(t) ==
    /\ job[t] = "counted"
    /\ job' = [job EXCEPT ![t] = "added"]
    /\ tasks' = tasks \cup {t}
    /\ before' = [before EXCEPT ![t] = tasks]
    /\ status' = [status EXCEPT ![t] = "running"]
    /\ UNCHANGED <<cast, running, intr, closing, shut, stopping, child, canceling, logRuns, runs, eventLog, follow>>

\* The child is started, or cannot be: never once the context has ended.
Spawn(t) ==
    /\ job[t] = "added"
    /\ \/ /\ shut \notin {"killing", "down"}
          /\ job' = [job EXCEPT ![t] = "born"]
          /\ proc' = [proc EXCEPT ![t] = "running"]
       \/ /\ job' = [job EXCEPT ![t] = "ending"]
          /\ proc' = [proc EXCEPT ![t] = "failed"]
    /\ UNCHANGED <<cast, running, intr, closing, shut, stopping, sigints, killed, taskStore, eventLog, follow>>

\* Mutant: a child that Shutdown found being started is not interrupted.
BugOnStart(t) ==
    /\ job[t] = "born"
    /\ running' = running \cup {t}
    /\ job' = [job EXCEPT ![t] = "up"]
    /\ UNCHANGED <<cast, intr, closing, shut, stopping, child, taskStore, eventLog, follow>>

\* onStart, its critical section: the child is registered, as interrupted
\* if Shutdown began while it started.
OnStart(t) ==
    /\ job[t] = "born"
    /\ running' = running \cup {t}
    /\ intr' = IF closing THEN intr \cup {t} ELSE intr
    /\ job' = [job EXCEPT ![t] = IF closing THEN "late" ELSE "up"]
    /\ UNCHANGED <<cast, closing, shut, stopping, child, taskStore, eventLog, follow>>

\* onStart after its critical section: the SIGINT of the Shutdown that came
\* first.
LateInterrupt(t) ==
    /\ job[t] = "late"
    /\ job' = [job EXCEPT ![t] = "up"]
    /\ Interrupt({t})
    /\ UNCHANGED <<cast, running, intr, closing, shut, stopping, taskStore, eventLog, follow>>

\* The child has ended and was waited for; end, its critical section.
Forget(t) ==
    /\ job[t] = "up" /\ ~Alive(t)
    /\ running' = running \ {t} /\ intr' = intr \ {t}
    /\ job' = [job EXCEPT ![t] = "ending"]
    /\ UNCHANGED <<cast, closing, shut, stopping, child, taskStore, eventLog, follow>>

\* The status of a task whose command ended so: 130 is canceled, and a
\* command that was killed or never started has failed.
Outcome(p) == IF p \in {"ok", "canceled"} THEN p ELSE "failed"

\* end after its critical section, and the goroutine's end.
Finish(t) ==
    /\ job[t] = "ending"
    /\ UpdateTask(t, Outcome(proc[t]))
    /\ job' = [job EXCEPT ![t] = "over"]
    /\ UNCHANGED <<cast, running, intr, closing, shut, stopping, child, before, canceling, logRuns, eventLog, follow>>

-----------------------------------------------------------------------------
(* Runner: canceling a task *)

\* Cancel, its critical section, for a task that the store still holds.  One
\* that does not run, or is stopping already, is only answered.
Cancel(t) ==
    /\ t \in tasks /\ t \in running \ intr
    /\ intr' = intr \cup {t} /\ stopping' = stopping \cup {t}
    /\ UNCHANGED <<cast, job, running, closing, shut, child, taskStore, eventLog, follow>>

\* Cancel after it: the store is told, which leaves a task that it has
\* dropped alone, and the child's group gets its SIGINT.
Stop(t) ==
    /\ t \in stopping
    /\ stopping' = stopping \ {t}
    /\ IF t \in tasks
       THEN canceling' = canceling \cup {t} /\ UpdateTask(t, status[t])
       ELSE UNCHANGED <<tasks, status, canceling, runs>>
    /\ Interrupt({t})
    /\ UNCHANGED <<cast, job, running, intr, closing, shut, before, logRuns, eventLog, follow>>

-----------------------------------------------------------------------------
(* Runner: Shutdown *)

\* interruptAll, under the mutex: no task starts any more, and each running
\* child that had no SIGINT gets one.
InterruptAll ==
    /\ shut = "open"
    /\ shut' = "waiting" /\ closing' = TRUE
    /\ intr' = intr \cup running
    /\ Interrupt(running \ intr)
    /\ UNCHANGED <<cast, job, running, stopping, taskStore, eventLog, follow>>

\* The goroutines that the WaitGroup counts.
Counted == {t \in Tasks : job[t] \notin {"idle", "refused", "over"}}

AllEnded ==
    /\ shut \in {"waiting", "killing"} /\ Counted = {}
    /\ shut' = "down"
    /\ UNCHANGED <<cast, job, running, intr, closing, stopping, child, taskStore, eventLog, follow>>

\* The grace of a minute has passed, which no step of the runner's own
\* takes: a child that was started is registered, and a SIGINT that was
\* decided on is sent.
GraceOver ==
    /\ shut = "waiting" /\ Counted # {}
    /\ \A t \in Tasks : job[t] \notin {"born", "late"}
    /\ stopping = {}
    /\ shut' = "killing"
    /\ UNCHANGED <<cast, job, running, intr, closing, stopping, child, taskStore, eventLog, follow>>

\* Mutant: only the children that were never interrupted are killed.
BugKill(t) ==
    /\ shut = "killing" /\ Alive(t) /\ t \in running \ intr
    /\ proc' = [proc EXCEPT ![t] = "killed"]
    /\ killed' = killed \cup {t}
    /\ UNCHANGED <<runner, sigints, taskStore, eventLog, follow>>

\* The end of the context kills the group of a child.
Kill(t) ==
    /\ shut = "killing" /\ Alive(t) /\ job[t] = "up"
    /\ proc' = [proc EXCEPT ![t] = "killed"]
    /\ killed' = killed \cup {t}
    /\ UNCHANGED <<runner, sigints, taskStore, eventLog, follow>>

-----------------------------------------------------------------------------
(* The activity follower *)

\* A run as the follower shows it: one that has not ended and wrote nothing
\* for StaleAfter ends as unfinished.
EndStale(v, silent) ==
    [c \in Commands |->
        CASE v[c] = 0 -> "none"
          [] v[c] = LogEnd -> "ended"
          [] OTHER -> IF c \in silent THEN "stale" ELSE "going"]

\* Mutant: a poll that finds nothing new in the log looks for no stale run.
BugPoll ==
    /\ follower = "idle"
    /\ view' = log /\ view' # view
    /\ marked' = EndStale(log, old)
    /\ follower' = "publish"
    /\ UNCHANGED <<runner, child, taskStore, eventLog>>

\* A poll that finds something new in the log, or a run that became stale.
Poll ==
    /\ follower = "idle"
    /\ view' = log /\ marked' = EndStale(log, old)
    /\ <<view', marked'>> # <<view, marked>>
    /\ follower' = "publish"
    /\ UNCHANGED <<runner, child, taskStore, eventLog>>

SetRuns ==
    /\ follower = "publish"
    /\ follower' = "idle"
    /\ logRuns' = marked
    /\ runs' = EndRuns(marked, status)
    /\ UNCHANGED <<runner, child, tasks, before, status, canceling, eventLog, view, marked>>

-----------------------------------------------------------------------------
Goroutine(t) == \/ AddTask(t) \/ Spawn(t) \/ OnStart(t) \/ LateInterrupt(t)
                \/ Forget(t) \/ Finish(t)
Shutdown == InterruptAll \/ AllEnded \/ GraceOver \/ (\E t \in Tasks : Kill(t))
Follow == Poll \/ SetRuns
Process(c) == Logs(c) \/ Exits(c) \/ Crashes(c) \/ FallsSilent(c)

Next ==
    \/ \E t \in Tasks : Start(t) \/ Goroutine(t) \/ Cancel(t) \/ Stop(t)
    \/ Shutdown
    \/ \E c \in Others : TerminalStarts(c)
    \/ \E c \in Commands : Process(c)
    \/ Follow

\* The goroutines and the poll go on, the grace and the hour pass.  No user
\* has to act, and no command has to end by itself.
Fairness ==
    /\ \A t \in Tasks : WF_vars(Goroutine(t)) /\ WF_vars(Stop(t)) /\ WF_vars(Kill(t))
    /\ WF_vars(AllEnded \/ GraceOver) /\ WF_vars(Follow)
    /\ \A c \in Logged : WF_vars(FallsSilent(c))

Spec == Init /\ [][Next]_vars /\ Fairness

-----------------------------------------------------------------------------
(* Properties *)

\* However the requests to cancel a task, the start of its child and the
\* shutdown of sind ui meet, no child gets a second SIGINT, which would kill
\* it in the middle of its rollback.
OneInterrupt == \A t \in Tasks : sigints[t] <= 1

\* Shutdown kills only children that were asked to stop first and had the
\* grace to roll back, the one it found being started among them.
KilledWasAsked == \A t \in killed : sigints[t] > 0

\* The goroutine of the task has started no child yet.
Unborn(t) == job[t] \in {"idle", "refused", "counted", "added"}
\* A SIGINT of the task's group has been decided on and is not sent yet.
Pending(t) == job[t] = "late" \/ t \in stopping

\* The inductive invariant behind the properties.  A child is interrupted by
\* whoever sets its flag, once: while the SIGINT is pending it had none, and
\* the flag stays set for as long as the child may be asked for again.
InterruptInv ==
    /\ closing = (shut # "open")
    /\ \A t \in Tasks :
        /\ Unborn(t) => proc[t] = "none"
        /\ Unborn(t) \/ job[t] = "born" \/ Pending(t) => sigints[t] = 0
        /\ sigints[t] <= 1
        /\ t \in stopping => job[t] \in {"up", "ending", "over"}
        /\ t \in running \ intr => sigints[t] = 0 /\ job[t] = "up" /\ ~Pending(t) /\ ~closing
        /\ job[t] = "up" /\ t \in intr /\ Alive(t) /\ ~Pending(t) => sigints[t] = 1
        /\ t \in killed => sigints[t] = 1

\* When the children are killed none is being started and no SIGINT is on
\* its way; a task that is over has a child that ended, and an end in the
\* store.
TaskInv ==
    /\ shut = "killing" => stopping = {} /\ \A t \in Tasks : job[t] \notin {"born", "late"}
    /\ \A t \in Tasks :
        /\ shut = "down" => job[t] \in {"idle", "refused", "over"}
        /\ job[t] \in {"ending", "over"} => ~Alive(t)
        /\ job[t] = "over" => status[t] \in Ended
        /\ job[t] \in {"idle", "refused", "counted"} => t \notin tasks /\ status[t] = "none"
    /\ \A t, u \in Tasks : t \in before[u] => job[t] \notin {"idle", "refused", "counted"}

\* The runner's map, flags and the store fit the children, none of which was
\* interrupted twice or killed unasked (OneInterrupt, KilledWasAsked).
ChildrenInv == TypeOK /\ InterruptInv /\ TaskInv /\ OneInterrupt /\ KilledWasAsked

\* Once Shutdown has returned no child is left behind, none is started any
\* more, and the store knows how every task ended.
ShutdownSettles ==
    shut = "down" =>
        \A t \in Tasks : /\ ~Alive(t) /\ job[t] \in {"idle", "refused", "over"}
                         /\ t \in tasks => status[t] \in Ended

\* A run whose task has ended is never shown as going on, however old the
\* log is that the follower read last, and also after the store has dropped
\* the task.
TaskEndsRun == \A t \in Tasks : status[t] \in Ended => runs[t] # "going"

\* Shutdown returns, also when a child ignores its SIGINT, or was being
\* started or canceled when it began.
ShutdownEnds == closing ~> shut = "down"

\* The run of a process that is gone comes to an end, also when the process
\* was killed before it wrote one: with its task, or once it is an hour old.
RunEnds == \A c \in Logged : (log[c] > 0 /\ ~Alive(c)) ~> runs[c] \in RunDone

\* "A run that has not ended, of a task that has, ends as the task did"
\* (SetRuns): a run that the log did not end keeps the end of its task, also
\* when the follower finds an hour later that the run is stale.
KeepsOutcome == [][\A t \in Tasks : runs[t] = "with task" => runs'[t] # "stale"]_vars

=============================================================================

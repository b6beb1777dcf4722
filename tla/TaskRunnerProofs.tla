-------------------------- MODULE TaskRunnerProofs --------------------------
(***************************************************************************)
(* Proofs about the runner of sind ui (TaskRunner): its children, flags    *)
(* and tasks fit each other (ChildrenInv), Shutdown leaves nothing behind  *)
(* (ShutdownSettles), and a run ends with its task (TaskEndsRun), for any  *)
(* number of tasks and terminal commands and any number of kept tasks.     *)
(*                                                                         *)
(* The argument: whoever sets a child's interrupted flag sends its SIGINT, *)
(* once; between the flag and the SIGINT the task is "late" or "stopping". *)
(* InterruptInv counts the SIGINTs by these three, TaskInv places the      *)
(* store's tasks by where their goroutines are.                            *)
(***************************************************************************)
EXTENDS TaskRunner, TLAPS

\* A SIGINT to groups that took at most one leaves processes and counts in
\* their ranges.
LEMMA InterruptTypes ==
  ASSUME TypeOK, NEW ts, Interrupt(ts), \A t \in ts : sigints[t] <= 1
  PROVE  /\ proc' \in [Commands -> {"none", "running", "rolling", "killed"} \cup Ended]
         /\ sigints' \in [Commands -> 0..2]
<1>1. \A c \in Commands : proc'[c] \in {"none", "running", "rolling", "killed"} \cup Ended
  BY DEF Interrupt, TypeOK
<1>2. \A c \in Commands : sigints'[c] \in 0..2
  BY DEF Interrupt, TypeOK
<1> QED
  BY <1>1, <1>2 DEF Interrupt

\* Telling the store of a task keeps its tasks, runs and statuses typed.
LEMMA UpdateTypes ==
  ASSUME TypeOK, NEW t \in Tasks, NEW st \in {"none", "running"} \cup Ended, UpdateTask(t, st)
  PROVE  /\ tasks' \subseteq Tasks
         /\ runs' \in [Commands -> {"none", "going"} \cup RunDone]
         /\ status' \in [Tasks -> {"none", "running"} \cup Ended]
<1>1. \A r \in [Commands -> {"none", "going", "ended", "stale"}] :
        EndRuns(r, status') \in [Commands -> {"none", "going"} \cup RunDone]
  BY DEF EndRuns, RunDone
<1> QED
  BY <1>1 DEF UpdateTask, PruneTasks, TypeOK

\* A child that is registered is in the map, and only children that run are.
LEMMA OnStartTypes ==
  ASSUME TypeOK, NEW t \in Tasks, OnStart(t)
  PROVE  /\ running' = {u \in Tasks : job'[u] \in {"late", "up"}}
         /\ job' \in [Tasks -> {"idle", "refused", "counted", "added", "born", "late", "up",
                               "ending", "over"}]
<1>1. /\ running = {u \in Tasks : job[u] \in {"late", "up"}}
      /\ job \in [Tasks -> {"idle", "refused", "counted", "added", "born", "late", "up",
                           "ending", "over"}]
  BY DEF TypeOK
<1>2. PICK j \in {"late", "up"} : job' = [job EXCEPT ![t] = j] /\ running' = running \cup {t}
  <2>1. CASE closing
    BY <2>1 DEF OnStart
  <2>2. CASE ~closing
    BY <2>2 DEF OnStart
  <2> QED
    BY <2>1, <2>2
<1> QED
  BY <1>1, <1>2

\* An event log never tells more of a run than its end.
LEMMA LogTypes ==
  ASSUME TypeOK, NEW c \in Commands, Logs(c) \/ Exits(c)
  PROVE  log' \in [Commands -> 0..LogEnd]
<1>1. log \in [Commands -> 0..LogEnd]
  BY DEF TypeOK
<1>2. \E n \in 0..LogEnd : log' = [log EXCEPT ![c] = n]
  <2>1. CASE log' = [log EXCEPT ![c] = LogStart]
    BY <2>1 DEF LogStart, LogEnd
  <2>2. CASE log' = [log EXCEPT ![c] = LogMore]
    BY <2>2 DEF LogMore, LogEnd
  <2>3. CASE log' = [log EXCEPT ![c] = LogEnd]
    BY <2>3 DEF LogEnd
  <2>4. CASE log' = [log EXCEPT ![c] = 0]
    BY <2>4 DEF LogEnd
  <2>5. Exits(c) => log' = [log EXCEPT ![c] = IF c \in Logged THEN LogEnd ELSE 0]
    BY DEF Exits
  <2>6. Logs(c) => log' = [log EXCEPT ![c] = LogStart] \/ log' = [log EXCEPT ![c] = LogMore]
    BY DEF Logs
  <2> QED
    BY <2>1, <2>2, <2>3, <2>4, <2>5, <2>6
<1> QED
  BY <1>1, <1>2

\* Canceling changes no status and adds no task to the store.
LEMMA StopEffects ==
  ASSUME TypeOK, NEW t \in Tasks, Stop(t)
  PROVE  /\ stopping' \subseteq Tasks /\ canceling' \subseteq Tasks
         /\ status' = status /\ tasks' \subseteq tasks
         /\ runs' = runs \/ runs' = EndRuns(logRuns, status')
<1>1. /\ stopping \subseteq Tasks /\ canceling \subseteq Tasks
      /\ status \in [Tasks -> {"none", "running"} \cup Ended]
  BY DEF TypeOK
<1>2. stopping' \subseteq Tasks
  BY <1>1 DEF Stop
<1>3. CASE t \in tasks
  <2>1. canceling' = canceling \cup {t} /\ UpdateTask(t, status[t])
    BY <1>3 DEF Stop
  <2>2. status' = [status EXCEPT ![t] = status[t]]
    BY <2>1 DEF UpdateTask
  <2>3. tasks' \subseteq tasks /\ (runs' = runs \/ runs' = EndRuns(logRuns, status'))
    BY <2>1 DEF UpdateTask, PruneTasks
  <2> QED
    BY <1>1, <1>2, <2>1, <2>2, <2>3
<1>4. CASE t \notin tasks
  BY <1>1, <1>2, <1>4 DEF Stop
<1> QED
  BY <1>3, <1>4

\* Every step keeps the types; that no task takes a third SIGINT is the part
\* that needs InterruptInv.
LEMMA TypeStep ==
  ASSUME TypeOK, InterruptInv, [Next]_vars
  PROVE  TypeOK'
<1> USE TaskRunnerAssumption DEF TypeOK, Commands, Alive, Ended, LogStart,
    LogMore, LogEnd, RunDone, runner, child, taskStore, eventLog, follow
<1>1. ASSUME NEW t \in Tasks, Start(t)
      PROVE  TypeOK'
  BY <1>1 DEF Start
<1>2. ASSUME NEW t \in Tasks, AddTask(t)
      PROVE  TypeOK'
  BY <1>2 DEF AddTask
<1>3. ASSUME NEW t \in Tasks, Spawn(t)
      PROVE  TypeOK'
  <2>3. \E j \in {"born", "ending"}, p \in {"running", "failed"} :
          /\ job[t] = "added" /\ running' = running
          /\ job' = [job EXCEPT ![t] = j] /\ proc' = [proc EXCEPT ![t] = p]
    BY <1>3, Zenon DEF Spawn
  <2>1. running' = {u \in Tasks : job'[u] \in {"late", "up"}}
    BY <2>3
  <2>2. /\ job' \in [Tasks -> {"idle", "refused", "counted", "added", "born", "late", "up",
                              "ending", "over"}]
        /\ proc' \in [Commands -> {"none", "running", "rolling", "killed"} \cup Ended]
    <3>1. job \in [Tasks -> {"idle", "refused", "counted", "added", "born", "late", "up",
                             "ending", "over"}]
      OBVIOUS
    <3>2. /\ proc \in [Commands -> {"none", "running", "rolling", "killed"} \cup Ended]
          /\ "failed" \in Ended
      OBVIOUS
    <3> QED
      BY ONLY <2>3, <3>1, <3>2
  <2> QED
    BY <1>3, <2>1, <2>2 DEF Spawn
<1>4. ASSUME NEW t \in Tasks, OnStart(t)
      PROVE  TypeOK'
  <2>1. /\ running' = {u \in Tasks : job'[u] \in {"late", "up"}}
        /\ job' \in [Tasks -> {"idle", "refused", "counted", "added", "born", "late", "up",
                              "ending", "over"}]
    BY <1>4, OnStartTypes
  <2> QED
    BY <1>4, <2>1 DEF OnStart
<1>5. ASSUME NEW t \in Tasks, LateInterrupt(t)
      PROVE  TypeOK'
  <2>0. Interrupt({t}) /\ \A u \in {t} : sigints[u] <= 1
    BY <1>5 DEF LateInterrupt, InterruptInv
  <2>1. /\ proc' \in [Commands -> {"none", "running", "rolling", "killed"} \cup Ended]
        /\ sigints' \in [Commands -> 0..2]
    BY <2>0, InterruptTypes
  <2>2. running' = {u \in Tasks : job'[u] \in {"late", "up"}}
    BY <1>5 DEF LateInterrupt
  <2> QED
    BY <1>5, <2>1, <2>2 DEF LateInterrupt, Interrupt
<1>6. ASSUME NEW t \in Tasks, Forget(t)
      PROVE  TypeOK'
  BY <1>6 DEF Forget
<1>7. ASSUME NEW t \in Tasks, Finish(t)
      PROVE  TypeOK'
  <2>1. Outcome(proc[t]) \in Ended
    BY DEF Outcome
  <2>2. /\ tasks' \subseteq Tasks
        /\ runs' \in [Commands -> {"none", "going"} \cup RunDone]
        /\ status' \in [Tasks -> {"none", "running"} \cup Ended]
    BY <1>7, <2>1, UpdateTypes DEF Finish
  <2>3. running' = {u \in Tasks : job'[u] \in {"late", "up"}}
    BY <1>7 DEF Finish
  <2> QED
    BY <1>7, <2>2, <2>3 DEF Finish
<1>8. ASSUME NEW t \in Tasks, Cancel(t)
      PROVE  TypeOK'
  BY <1>8 DEF Cancel
<1>9. ASSUME NEW t \in Tasks, Stop(t)
      PROVE  TypeOK'
  <2>0. Interrupt({t}) /\ \A u \in {t} : sigints[u] <= 1
    BY <1>9 DEF Stop, InterruptInv
  <2>1. /\ proc' \in [Commands -> {"none", "running", "rolling", "killed"} \cup Ended]
        /\ sigints' \in [Commands -> 0..2]
    BY <2>0, InterruptTypes
  <2>2. /\ tasks' \subseteq Tasks
        /\ runs' \in [Commands -> {"none", "going"} \cup RunDone]
        /\ status' \in [Tasks -> {"none", "running"} \cup Ended]
    <3>1. CASE t \in tasks
      <4>1. UpdateTask(t, status[t])
        BY <1>9, <3>1 DEF Stop
      <4> QED
        BY <4>1, UpdateTypes
    <3>2. CASE t \notin tasks
      BY <1>9, <3>2 DEF Stop
    <3> QED
      BY <3>1, <3>2
  <2>3. canceling' \subseteq Tasks /\ stopping' \subseteq Tasks
    BY <1>9, StopEffects
  <2> QED
    BY <1>9, <2>1, <2>2, <2>3 DEF Stop, Interrupt
<1>10. ASSUME NEW t \in Tasks, Kill(t)
      PROVE  TypeOK'
  BY <1>10 DEF Kill
<1>11. ASSUME NEW c \in Others, TerminalStarts(c)
      PROVE  TypeOK'
  BY <1>11 DEF TerminalStarts
<1>12. ASSUME NEW c \in Commands, Logs(c)
      PROVE  TypeOK'
  <2>1. log' \in [Commands -> 0..LogEnd]
    BY <1>12, LogTypes
  <2> QED
    BY <1>12, <2>1 DEF Logs
<1>13. ASSUME NEW c \in Commands, Exits(c)
      PROVE  TypeOK'
  <2>1. log' \in [Commands -> 0..LogEnd]
    BY <1>13, LogTypes
  <2>2. proc' \in [Commands -> {"none", "running", "rolling", "killed"} \cup Ended]
    BY <1>13 DEF Exits
  <2> QED
    BY <1>13, <2>1, <2>2 DEF Exits
<1>14. ASSUME NEW c \in Commands, Crashes(c)
      PROVE  TypeOK'
  BY <1>14 DEF Crashes
<1>15. ASSUME NEW c \in Commands, FallsSilent(c)
      PROVE  TypeOK'
  BY <1>15 DEF FallsSilent
<1>16. CASE InterruptAll
  <2>1. /\ proc' \in [Commands -> {"none", "running", "rolling", "killed"} \cup Ended]
        /\ sigints' \in [Commands -> 0..2]
    BY <1>16, InterruptTypes DEF InterruptAll, InterruptInv
  <2> QED
    BY <1>16, <2>1 DEF InterruptAll, Interrupt
<1>17. CASE AllEnded
  BY <1>17 DEF AllEnded
<1>18. CASE GraceOver
  BY <1>18 DEF GraceOver
<1>19. CASE Poll
  <2>1. EndStale(log, old) \in [Commands -> {"none", "going", "ended", "stale"}]
    BY DEF EndStale
  <2>2. /\ view' = log /\ marked' = EndStale(log, old) /\ follower' = "publish"
        /\ UNCHANGED <<runner, child, taskStore, eventLog>>
    BY <1>19, Zenon DEF Poll
  <2>3. /\ view' \in [Commands -> 0..LogEnd] /\ follower' \in {"idle", "publish"}
        /\ {marked', logRuns'} \subseteq [Commands -> {"none", "going", "ended", "stale"}]
    BY <2>1, <2>2
  <2>4. /\ UNCHANGED <<cast, job, running, intr, closing, shut, stopping, proc, sigints, killed>>
        /\ UNCHANGED <<tasks, before, status, canceling, log, old, runs>>
    BY <2>2
  <2> QED
    BY <2>3, <2>4
<1>20. CASE SetRuns
  <2>1. EndRuns(marked, status) \in [Commands -> {"none", "going"} \cup RunDone]
    <3>1. \A c \in Commands : marked[c] \in {"none", "going"} \cup RunDone
      OBVIOUS
    <3>2. \A c \in Commands : EndRuns(marked, status)[c] \in {marked[c], "with task"}
      BY DEF EndRuns
    <3>3. \A c \in Commands : EndRuns(marked, status)[c] \in {"none", "going"} \cup RunDone
      BY <3>1, <3>2
    <3> QED
      BY <3>3 DEF EndRuns
  <2>2. /\ follower' = "idle" /\ logRuns' = marked /\ runs' = EndRuns(marked, status)
        /\ UNCHANGED <<runner, child, tasks, before, status, canceling, eventLog, view, marked>>
    BY <1>20, Zenon DEF SetRuns
  <2>3. /\ runs' \in [Commands -> {"none", "going"} \cup RunDone] /\ follower' \in {"idle", "publish"}
        /\ {marked', logRuns'} \subseteq [Commands -> {"none", "going", "ended", "stale"}]
    BY <2>1, <2>2
  <2>4. /\ UNCHANGED <<cast, job, running, intr, closing, shut, stopping, proc, sigints, killed>>
        /\ UNCHANGED <<tasks, before, status, canceling, log, old, view>>
    BY <2>2
  <2> QED
    BY <2>3, <2>4
<1>21. CASE UNCHANGED vars
  BY <1>21 DEF vars
<1> QED
  BY <1>1, <1>2, <1>3, <1>4, <1>5, <1>6, <1>7, <1>8, <1>9, <1>10, <1>11, <1>12,
     <1>13, <1>14, <1>15, <1>16, <1>17, <1>18, <1>19, <1>20, <1>21 DEF Next,
     Goroutine, Shutdown, Follow, Process

\* Every step keeps the count of the SIGINTs.
LEMMA InterruptStep ==
  ASSUME TypeOK, InterruptInv, TaskInv, [Next]_vars
  PROVE  InterruptInv'
<1> USE TaskRunnerAssumption DEF TypeOK, InterruptInv, Unborn, Pending, Commands,
    Alive, Ended, runner, child, taskStore, eventLog, follow
<1>1. ASSUME NEW t \in Tasks, Start(t)
      PROVE  InterruptInv'
  BY <1>1 DEF Start
<1>2. ASSUME NEW t \in Tasks, AddTask(t)
      PROVE  InterruptInv'
  BY <1>2 DEF AddTask
<1>3. ASSUME NEW t \in Tasks, Spawn(t)
      PROVE  InterruptInv'
  BY <1>3 DEF Spawn
<1>4. ASSUME NEW t \in Tasks, OnStart(t)
      PROVE  InterruptInv'
  BY <1>4 DEF OnStart
<1>5. ASSUME NEW t \in Tasks, LateInterrupt(t)
      PROVE  InterruptInv'
  BY <1>5 DEF LateInterrupt, Interrupt
<1>6. ASSUME NEW t \in Tasks, Forget(t)
      PROVE  InterruptInv'
  BY <1>6 DEF Forget
<1>7. ASSUME NEW t \in Tasks, Finish(t)
      PROVE  InterruptInv'
  BY <1>7 DEF Finish
<1>8. ASSUME NEW t \in Tasks, Cancel(t)
      PROVE  InterruptInv'
  BY <1>8 DEF Cancel
<1>9. ASSUME NEW t \in Tasks, Stop(t)
      PROVE  InterruptInv'
  BY <1>9 DEF Stop, Interrupt
<1>10. ASSUME NEW t \in Tasks, Kill(t)
      PROVE  InterruptInv'
  BY <1>10 DEF Kill, TaskInv
<1>11. ASSUME NEW c \in Others, TerminalStarts(c)
      PROVE  InterruptInv'
  BY <1>11 DEF TerminalStarts
<1>12. ASSUME NEW c \in Commands, Logs(c)
      PROVE  InterruptInv'
  BY <1>12 DEF Logs
<1>13. ASSUME NEW c \in Commands, Exits(c)
      PROVE  InterruptInv'
  BY <1>13 DEF Exits
<1>14. ASSUME NEW c \in Commands, Crashes(c)
      PROVE  InterruptInv'
  BY <1>14 DEF Crashes
<1>15. ASSUME NEW c \in Commands, FallsSilent(c)
      PROVE  InterruptInv'
  BY <1>15 DEF FallsSilent
<1>16. CASE InterruptAll
  <2>1. \A u \in Tasks : u \in running \ intr => sigints[u] = 0 /\ sigints'[u] \in {0, 1}
    BY <1>16 DEF InterruptAll, Interrupt
  <2>2. \A u \in Tasks : u \in running \ intr /\ Alive(u) => sigints'[u] = 1
    BY <1>16, <2>1 DEF InterruptAll, Interrupt
  <2>3. \A u \in Tasks : u \notin running \ intr => sigints'[u] = sigints[u]
    BY <1>16 DEF InterruptAll, Interrupt
  <2>4. \A u \in Tasks : proc[u] = "none" => proc'[u] = "none"
    BY <1>16 DEF InterruptAll, Interrupt
  <2>5. \A u \in Tasks : proc'[u] \in {"running", "rolling"} => Alive(u)
    BY <1>16 DEF InterruptAll, Interrupt
  <2>6. /\ job' = job /\ stopping' = stopping /\ killed' = killed /\ running' = running
        /\ intr' = intr \cup running /\ closing' /\ shut' = "waiting" /\ ~closing
    BY <1>16 DEF InterruptAll, Interrupt
  <2> SUFFICES ASSUME NEW t \in Tasks
               PROVE  /\ Unborn(t)' => proc'[t] = "none"
                      /\ Unborn(t)' \/ job'[t] = "born" \/ Pending(t)' => sigints'[t] = 0
                      /\ sigints'[t] <= 1
                      /\ t \in stopping' => job'[t] \in {"up", "ending", "over"}
                      /\ job'[t] = "up" /\ t \in intr' /\ Alive(t)' /\ ~Pending(t)' => sigints'[t] = 1
                      /\ t \in killed' => sigints'[t] = 1
    BY <2>6
  <2>7. Unborn(t)' => proc'[t] = "none"
    BY <2>4, <2>6
  <2>8. Unborn(t)' \/ job'[t] = "born" \/ Pending(t)' => sigints'[t] = 0
    BY <2>3, <2>6
  <2>9. sigints'[t] <= 1
    BY <2>1, <2>3
  <2>10. job'[t] = "up" /\ t \in intr' /\ Alive(t)' /\ ~Pending(t)' => sigints'[t] = 1
    BY <2>2, <2>3, <2>5, <2>6
  <2>11. t \in killed' => sigints'[t] = 1
    BY <2>1, <2>3, <2>6
  <2> QED
    BY <2>6, <2>7, <2>8, <2>9, <2>10, <2>11
<1>17. CASE AllEnded
  BY <1>17 DEF AllEnded
<1>18. CASE GraceOver
  BY <1>18 DEF GraceOver
<1>19. CASE Poll
  BY <1>19 DEF Poll
<1>20. CASE SetRuns
  BY <1>20 DEF SetRuns
<1>21. CASE UNCHANGED vars
  BY <1>21 DEF vars
<1> QED
  BY <1>1, <1>2, <1>3, <1>4, <1>5, <1>6, <1>7, <1>8, <1>9, <1>10, <1>11, <1>12,
     <1>13, <1>14, <1>15, <1>16, <1>17, <1>18, <1>19, <1>20, <1>21 DEF Next,
     Goroutine, Shutdown, Follow, Process

\* Every step keeps what the store knows of tasks in step with the runner.
LEMMA TaskStep ==
  ASSUME TypeOK, InterruptInv, TaskInv, [Next]_vars
  PROVE  TaskInv'
<1> USE TaskRunnerAssumption DEF TypeOK, InterruptInv, TaskInv, Unborn, Pending,
    Commands, Alive, Ended, runner, child, taskStore, eventLog, follow
<1>1. ASSUME NEW t \in Tasks, Start(t)
      PROVE  TaskInv'
  <2>1. /\ shut' = shut /\ stopping' = stopping /\ proc' = proc /\ status' = status
        /\ tasks' = tasks /\ before' = before
        /\ \A u \in Tasks \ {t} : job'[u] = job[u]
        /\ job[t] = "idle" /\ job'[t] \in {"refused", "counted"}
    BY <1>1 DEF Start
  <2>2. shut = "down" => job'[t] = "refused"
    BY <1>1 DEF Start
  <2> QED
    BY <2>1, <2>2
<1>2. ASSUME NEW t \in Tasks, AddTask(t)
      PROVE  TaskInv'
  BY <1>2 DEF AddTask
<1>3. ASSUME NEW t \in Tasks, Spawn(t)
      PROVE  TaskInv'
  BY <1>3 DEF Spawn
<1>4. ASSUME NEW t \in Tasks, OnStart(t)
      PROVE  TaskInv'
  BY <1>4 DEF OnStart
<1>5. ASSUME NEW t \in Tasks, LateInterrupt(t)
      PROVE  TaskInv'
  BY <1>5 DEF LateInterrupt, Interrupt
<1>6. ASSUME NEW t \in Tasks, Forget(t)
      PROVE  TaskInv'
  BY <1>6 DEF Forget
<1>7. ASSUME NEW t \in Tasks, Finish(t)
      PROVE  TaskInv'
  <2>1. Outcome(proc[t]) \in Ended
    BY DEF Outcome
  <2>2. status' = [status EXCEPT ![t] = Outcome(proc[t])] /\ tasks' \subseteq tasks
    <3>1. UpdateTask(t, Outcome(proc[t]))
      BY <1>7 DEF Finish
    <3> QED
      BY <2>1, <3>1 DEF UpdateTask, PruneTasks
  <2> QED
    BY <1>7, <2>1, <2>2 DEF Finish
<1>8. ASSUME NEW t \in Tasks, Cancel(t)
      PROVE  TaskInv'
  BY <1>8 DEF Cancel
<1>9. ASSUME NEW t \in Tasks, Stop(t)
      PROVE  TaskInv'
  <2>1. status' = status /\ tasks' \subseteq tasks
    BY <1>9, StopEffects
  <2>2. \A u \in Tasks : ~Alive(u) => ~Alive(u)'
    BY <1>9 DEF Stop, Interrupt
  <2> QED
    BY <1>9, <2>1, <2>2 DEF Stop
<1>10. ASSUME NEW t \in Tasks, Kill(t)
      PROVE  TaskInv'
  BY <1>10 DEF Kill
<1>11. ASSUME NEW c \in Others, TerminalStarts(c)
      PROVE  TaskInv'
  BY <1>11 DEF TerminalStarts
<1>12. ASSUME NEW c \in Commands, Logs(c)
      PROVE  TaskInv'
  BY <1>12 DEF Logs
<1>13. ASSUME NEW c \in Commands, Exits(c)
      PROVE  TaskInv'
  BY <1>13 DEF Exits
<1>14. ASSUME NEW c \in Commands, Crashes(c)
      PROVE  TaskInv'
  BY <1>14 DEF Crashes
<1>15. ASSUME NEW c \in Commands, FallsSilent(c)
      PROVE  TaskInv'
  BY <1>15 DEF FallsSilent
<1>16. CASE InterruptAll
  BY <1>16 DEF InterruptAll, Interrupt
<1>17. CASE AllEnded
  BY <1>17 DEF AllEnded, Counted
<1>18. CASE GraceOver
  BY <1>18 DEF GraceOver
<1>19. CASE Poll
  BY <1>19 DEF Poll
<1>20. CASE SetRuns
  BY <1>20 DEF SetRuns
<1>21. CASE UNCHANGED vars
  BY <1>21 DEF vars
<1> QED
  BY <1>1, <1>2, <1>3, <1>4, <1>5, <1>6, <1>7, <1>8, <1>9, <1>10, <1>11, <1>12,
     <1>13, <1>14, <1>15, <1>16, <1>17, <1>18, <1>19, <1>20, <1>21 DEF Next,
     Goroutine, Shutdown, Follow, Process

\* Every step keeps the runs of ended tasks ended: the store recomputes them
\* whenever it is told of an end, and whenever the follower gives it runs.
LEMMA TaskEndsRunStep ==
  ASSUME TypeOK, TaskEndsRun, [Next]_vars
  PROVE  TaskEndsRun'
<1> USE DEF TypeOK, TaskEndsRun, runner, child, taskStore, eventLog, follow
<1>0. \A r \in [Commands -> {"none", "going", "ended", "stale"}], t \in Tasks :
        status'[t] \in Ended => EndRuns(r, status')[t] # "going"
  BY DEF EndRuns, Commands
<1>1. ASSUME NEW t \in Tasks, AddTask(t)
      PROVE  TaskEndsRun'
  BY <1>1 DEF AddTask, Ended
<1>2. ASSUME NEW t \in Tasks, Finish(t)
      PROVE  TaskEndsRun'
  <2>1. Outcome(proc[t]) \in Ended
    BY DEF Outcome, Ended
  <2>2. runs' = EndRuns(logRuns, status')
    BY <1>2, <2>1 DEF Finish, UpdateTask
  <2> QED
    BY <1>0, <2>2
<1>3. ASSUME NEW t \in Tasks, Stop(t)
      PROVE  TaskEndsRun'
  <2>1. status' = status /\ (runs' = runs \/ runs' = EndRuns(logRuns, status'))
    BY <1>3, StopEffects
  <2> QED
    BY <1>0, <2>1
<1>4. CASE SetRuns
  <2>1. status' = status /\ runs' = EndRuns(marked, status')
    BY <1>4 DEF SetRuns
  <2> QED
    BY <1>0, <2>1
<1>5. ASSUME NEW t \in Tasks,
             Start(t) \/ Spawn(t) \/ OnStart(t) \/ LateInterrupt(t) \/ Forget(t) \/ Cancel(t) \/ Kill(t)
      PROVE  UNCHANGED <<status, runs>>
  BY <1>5 DEF Start, Spawn, OnStart, LateInterrupt, Forget, Cancel, Kill
<1>6. ASSUME NEW c \in Commands, Process(c) \/ TerminalStarts(c)
      PROVE  UNCHANGED <<status, runs>>
  BY <1>6 DEF Process, Logs, Exits, Crashes, FallsSilent, TerminalStarts
<1>7. CASE InterruptAll \/ AllEnded \/ GraceOver \/ Poll \/ UNCHANGED vars
  BY <1>7 DEF InterruptAll, AllEnded, GraceOver, Poll, vars
<1> QED
  BY <1>1, <1>2, <1>3, <1>4, <1>5, <1>6, <1>7 DEF Next, Goroutine, Shutdown,
     Follow, Commands

\* Nothing has started when sind ui does.
LEMMA InitChildrenInv == Init => TypeOK /\ InterruptInv /\ TaskInv /\ TaskEndsRun
<1> SUFFICES ASSUME Init PROVE TypeOK /\ InterruptInv /\ TaskInv /\ TaskEndsRun
  OBVIOUS
<1>1. TypeOK
  <2>1. running = {t \in Tasks : job[t] \in {"late", "up"}}
    BY DEF Init
  <2>2. /\ job \in [Tasks -> {"idle", "refused", "counted", "added", "born", "late", "up",
                              "ending", "over"}]
        /\ before \in [Tasks -> SUBSET Tasks]
        /\ status \in [Tasks -> {"none", "running"} \cup Ended]
    BY DEF Init
  <2>3. /\ proc \in [Commands -> {"none", "running", "rolling", "killed"} \cup Ended]
        /\ sigints \in [Commands -> 0..2]
        /\ log \in [Commands -> 0..LogEnd] /\ view \in [Commands -> 0..LogEnd]
    BY DEF Init, LogEnd
  <2>4. /\ {marked, logRuns} \subseteq [Commands -> {"none", "going", "ended", "stale"}]
        /\ runs \in [Commands -> {"none", "going"} \cup RunDone]
    BY DEF Init
  <2> QED
    BY <2>1, <2>2, <2>3, <2>4 DEF Init, TypeOK
<1>2. /\ running = {}
      /\ shut = "open"
      /\ closing = FALSE
      /\ stopping = {}
      /\ killed = {}
      /\ tasks = {}
      /\ \A t \in Tasks : /\ job[t] = "idle" /\ proc[t] = "none" /\ sigints[t] = 0
                          /\ status[t] = "none" /\ before[t] = {}
  BY DEF Init, Commands
<1>4. InterruptInv
  <2>1. closing = (shut # "open")
    BY <1>2, Zenon
  <2>2. \A t \in Tasks : Unborn(t) /\ ~Pending(t) /\ sigints[t] <= 1 /\ t \notin running /\ t \notin killed
    BY <1>2 DEF Unborn, Pending
  <2> QED
    BY <1>2, <2>1, <2>2 DEF InterruptInv, Pending
<1>5. TaskInv
  BY <1>2 DEF TaskInv, Alive
<1>3. TaskEndsRun
  BY DEF Init, TaskEndsRun, Ended
<1> QED
  BY <1>1, <1>3, <1>4, <1>5

\* The inductive invariant.
LEMMA RunnerInv == Spec => [](TypeOK /\ InterruptInv /\ TaskInv /\ TaskEndsRun)
<1>1. TypeOK /\ InterruptInv /\ TaskInv /\ TaskEndsRun /\ [Next]_vars
        => (TypeOK /\ InterruptInv /\ TaskInv /\ TaskEndsRun)'
  BY TypeStep, InterruptStep, TaskStep, TaskEndsRunStep
<1> QED
  BY <1>1, InitChildrenInv, PTL DEF Spec

\* For every set of commands: the runner's map, flags and the store's tasks
\* fit the children, and no child is interrupted twice or killed unasked,
\* whatever cancels, starts and shutdowns interleave (run.go: onStart, Cancel,
\* interruptAll).
THEOREM ChildrenInvHolds == Spec => []ChildrenInv
<1>1. TypeOK /\ InterruptInv => OneInterrupt /\ KilledWasAsked
  BY DEF TypeOK, InterruptInv, OneInterrupt, KilledWasAsked, Commands
<1> QED
  BY <1>1, RunnerInv, PTL DEF ChildrenInv

\* For every set of commands: once Shutdown has returned no child runs, none
\* is started, and every task the store keeps has an end.
THEOREM ShutdownSettlesHolds == Spec => []ShutdownSettles
<1>1. TypeOK /\ InterruptInv /\ TaskInv => ShutdownSettles
  BY DEF TypeOK, InterruptInv, TaskInv, ShutdownSettles, Unborn, Alive
<1> QED
  BY <1>1, RunnerInv, PTL

\* For every set of commands and of ended tasks kept: no run of a task that
\* ended is shown as going on (store.go: endRuns, SetRuns).
THEOREM TaskEndsRunHolds == Spec => []TaskEndsRun
  BY RunnerInv, PTL

=============================================================================

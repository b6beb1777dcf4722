------------------------------ MODULE ReadyWait ------------------------------
(***************************************************************************)
(* The wait for a node to become ready (pkg/probe, untilReady) and the     *)
(* watcher that tells it about changes (pkg/monitor, Watcher).             *)
(*                                                                         *)
(* Two monitors read a stream each: docker events for the whole cluster,   *)
(* and a busctl monitor in the node.  What they read goes through the      *)
(* watcher's internal channel to its broadcast loop, and from there into   *)
(* the buffered channel of the wait's subscription, which drops what it    *)
(* has no room for.  The wait runs its probes in rounds and skips those    *)
(* that have passed for as long as it trusts the events to tell it of a    *)
(* change.  The node lives its own life meanwhile: units come up, stop and *)
(* fail, the container is paused or exits, a stream ends.                  *)
(*                                                                         *)
(* The model follows one node's container: events of other containers      *)
(* never enter the subscription (subscriber.wants), so every event taken   *)
(* concerns the wait.                                                      *)
(***************************************************************************)
EXTENDS Integers, Sequences, SequencesExt

CONSTANTS
    Units,        \* the systemd units the probes follow
    NoUnit,       \* the Unit of a probe or an event without one
    ProbeUnit,    \* the unit of each probe, in the order a round runs them
    InternalCap,  \* capacity of the watcher's internal channel
    SubCap,       \* capacity of a subscription
    Faults,       \* the monitors whose stream may end on its own
    MaxChanges    \* bound: changes of the node

Monitors == {"docker", "systemd"}

ASSUME ReadyWaitAssumption ==
    /\ NoUnit \notin Units
    /\ ProbeUnit \in Seq(Units \cup {NoUnit}) /\ ProbeUnit # <<>>
    /\ InternalCap \in Nat \ {0} /\ SubCap \in Nat \ {0}
    /\ Faults \subseteq Monitors
    /\ MaxChanges \in Nat

VARIABLES
    container,   \* the state of the node's container
    unit,        \* the ActiveState of each unit
    changes,     \* how often container and units have changed
    unseen,      \* history: units that changed before busctl was connected
    open,        \* per monitor: is the other end of its stream there
    stream,      \* per monitor: the lines it has not read yet
    monitor,     \* per monitor: where its goroutine is
    internalCh,  \* the channel from the monitors to the broadcast loop
    loop,        \* does the broadcast loop run
    sub,         \* the wait's subscription
    ctx,         \* the context of the create, which the watcher's is made of
    phase,       \* where the wait is
    pos,         \* the probe the round runs next, 0 between rounds
    passed,      \* the probes that have passed and are skipped
    trusted      \* do the events tell the wait what changed

node == <<container, unit, changes, unseen>>
watcher == <<open, stream, monitor, internalCh, loop>>
wait == <<phase, pos, passed, trusted>>
vars == <<node, watcher, sub, ctx, wait>>

Probes == DOMAIN ProbeUnit
Waiting == {"round", "select", "taking"}
Over == {"ready", "terminal", "timeout"}

Event == [kind : {"active", "failed"}, unit : Units]
            \cup [kind : {"die", "pause", "unpause", "error"}, unit : {NoUnit}]
ContainerEvent(k) == [kind |-> k, unit |-> NoUnit]
MonitorError == ContainerEvent("error")

TypeOK ==
    /\ container \in {"running", "paused", "exited"}
    /\ unit \in [Units -> {"down", "active", "failed"}]
    /\ changes \in 0..MaxChanges
    /\ unseen \subseteq Units
    /\ open \in [Monitors -> BOOLEAN]
    /\ stream \in [Monitors -> Seq(Event)]
    /\ monitor \in [Monitors -> {"off", "connecting", "reading", "ended", "gone"}]
    /\ internalCh \in Seq(Event) /\ Len(internalCh) <= InternalCap
    /\ loop \in BOOLEAN
    /\ sub \in Seq(Event) /\ Len(sub) <= SubCap
    /\ ctx \in {"running", "cancelled"}
    /\ phase \in {"adding", "subscribing"} \cup Waiting \cup Over
    /\ pos \in 0..Len(ProbeUnit)
    /\ passed \in [Probes -> BOOLEAN]
    /\ trusted \in BOOLEAN

\* The node's container has just started, and units may be up already; the
\* watcher runs with its docker events monitor, as startWatcher left it.
Init ==
    /\ container = "running"
    /\ unit \in [Units -> {"down", "active"}]
    /\ changes = 0 /\ unseen = {}
    /\ open = [m \in Monitors |-> m = "docker"]
    /\ stream = [m \in Monitors |-> <<>>]
    /\ monitor = [m \in Monitors |-> IF m = "docker" THEN "reading" ELSE "off"]
    /\ internalCh = <<>> /\ loop = TRUE
    /\ sub = <<>>
    /\ ctx = "running"
    /\ phase = "adding" /\ pos = 0
    /\ passed = [i \in Probes |-> FALSE]
    /\ trusted = FALSE

-----------------------------------------------------------------------------
(* The node *)

\* Bound: the node changes during the wait.
MayChange == changes < MaxChanges /\ ctx = "running" /\ phase \in Waiting

\* systemd changes a unit.  busctl prints a line when the unit became active
\* or failed (parsePropertiesChanged), if it is connected by then.
UnitChanges(u) ==
    /\ container = "running" /\ MayChange
    /\ unit[u] # "failed"
    /\ \E s \in {"down", "active", "failed"} \ {unit[u]} :
        /\ unit' = [unit EXCEPT ![u] = s]
        /\ IF s = "down" \/ ~open["systemd"]
           THEN UNCHANGED <<stream, unseen>>
           ELSE IF monitor["systemd"] = "connecting"
           THEN unseen' = unseen \cup {u} /\ UNCHANGED stream
           ELSE /\ stream' = [stream EXCEPT !["systemd"] =
                                Append(@, [kind |-> s, unit |-> u])]
                /\ UNCHANGED unseen
    /\ changes' = changes + 1
    /\ UNCHANGED <<container, open, monitor, internalCh, loop, sub, ctx, wait>>

\* The container is paused, unpaused or exits, which docker events tells and
\* which ends the busctl that runs in it.
ContainerChanges(to, kind) ==
    /\ container # "exited" /\ container # to /\ MayChange
    /\ container' = to
    /\ stream' = IF open["docker"]
                 THEN [stream EXCEPT !["docker"] = Append(@, ContainerEvent(kind))]
                 ELSE stream
    /\ open' = [open EXCEPT !["systemd"] = @ /\ to # "exited"]
    /\ changes' = changes + 1
    /\ UNCHANGED <<unit, unseen, monitor, internalCh, loop, sub, ctx, wait>>

Pauses == ContainerChanges("paused", "pause")
Unpauses == ContainerChanges("running", "unpause")
Dies == ContainerChanges("exited", "die")

\* A stream ends on its own: the daemon restarts, busctl is missing or dies.
StreamEnds(m) ==
    /\ m \in Faults /\ open[m] /\ ctx = "running" /\ phase \notin Over
    /\ open' = [open EXCEPT ![m] = FALSE]
    /\ UNCHANGED <<node, stream, monitor, internalCh, loop, sub, ctx, wait>>

-----------------------------------------------------------------------------
(* The watcher *)

\* Mutant: the send waits for room whatever happens to the context.
BugEmit(ev) == Len(internalCh) < InternalCap /\ internalCh' = Append(internalCh, ev)

\* emit: the end of the context keeps it from waiting for room.
Emit(ev) ==
    \/ Len(internalCh) < InternalCap /\ internalCh' = Append(internalCh, ev)
    \/ ctx = "cancelled" /\ UNCHANGED internalCh

\* AddNodes: the busctl monitor is started, or fails to start, which the
\* caller reports itself.
AddNodes ==
    /\ phase = "adding"
    /\ \/ /\ ctx = "running"
          /\ open' = [open EXCEPT !["systemd"] = TRUE]
          /\ monitor' = [monitor EXCEPT !["systemd"] = "connecting"]
          /\ UNCHANGED internalCh
       \/ /\ "systemd" \in Faults \/ ctx = "cancelled"
          /\ Emit(MonitorError)
          /\ monitor' = [monitor EXCEPT !["systemd"] = "gone"]
          /\ UNCHANGED open
    /\ phase' = "subscribing"
    /\ UNCHANGED <<node, stream, loop, sub, ctx, pos, passed, trusted>>

Connected ==
    /\ monitor["systemd"] = "connecting" /\ open["systemd"]
    /\ monitor' = [monitor EXCEPT !["systemd"] = "reading"]
    /\ UNCHANGED <<node, open, stream, internalCh, loop, sub, ctx, wait>>

\* scanEvents: one line becomes one event, which waits for room.
Relay(m) ==
    /\ monitor[m] = "reading" /\ stream[m] # <<>>
    /\ Len(internalCh) < InternalCap
    /\ internalCh' = Append(internalCh, Head(stream[m]))
    /\ stream' = [stream EXCEPT ![m] = Tail(@)]
    /\ UNCHANGED <<node, open, monitor, loop, sub, ctx, wait>>

\* The stream is read to its end while the watcher runs: a monitor error,
\* sent in a step of its own.
StreamOver(m) ==
    /\ monitor[m] \in {"connecting", "reading"} /\ ~open[m] /\ stream[m] = <<>>
    /\ ctx = "running"
    /\ monitor' = [monitor EXCEPT ![m] = "ended"]
    /\ UNCHANGED <<node, open, stream, internalCh, loop, sub, ctx, wait>>

ReportEnd(m) ==
    /\ monitor[m] = "ended"
    /\ Emit(MonitorError)
    /\ monitor' = [monitor EXCEPT ![m] = "gone"]
    /\ UNCHANGED <<node, open, stream, loop, sub, ctx, wait>>

\* The end of the context closes the stream a monitor reads and releases it
\* from the internal channel.
MonitorExits(m) ==
    /\ ctx = "cancelled" /\ monitor[m] \notin {"off", "gone"}
    /\ monitor' = [monitor EXCEPT ![m] = "gone"]
    /\ open' = [open EXCEPT ![m] = FALSE]
    /\ stream' = [stream EXCEPT ![m] = <<>>]
    /\ UNCHANGED <<node, internalCh, loop, sub, ctx, wait>>

\* A full subscription loses the event.
Deliver(ev) ==
    IF phase \in Waiting /\ Len(sub) < SubCap THEN Append(sub, ev) ELSE sub

Broadcast ==
    /\ loop /\ internalCh # <<>>
    /\ internalCh' = Tail(internalCh)
    /\ sub' = Deliver(Head(internalCh))
    /\ UNCHANGED <<node, open, stream, monitor, loop, ctx, wait>>

LoopExits ==
    /\ loop /\ ctx = "cancelled"
    /\ loop' = FALSE
    /\ UNCHANGED <<node, open, stream, monitor, internalCh, sub, ctx, wait>>

\* An interrupt, or the create's end, which stops the watcher.
Cancel ==
    /\ ctx = "running"
    /\ ctx' = "cancelled"
    /\ UNCHANGED <<node, watcher, sub, wait>>

-----------------------------------------------------------------------------
(* The wait *)

\* The wait ends: untilReady returns, and waitReady unsubscribes.
Ends(outcome) ==
    /\ phase' = outcome
    /\ sub' = <<>> /\ pos' = 0
    /\ passed' = [i \in Probes |-> FALSE] /\ trusted' = FALSE

\* The probe a round that has come to probe i runs next: those that have
\* passed are skipped.
NextFrom(i) == SelectInSubSeq(passed, i, Len(passed), LAMBDA p : ~p)
RoundStart == NextFrom(1)

Subscribe ==
    /\ phase = "subscribing"
    /\ phase' = "round" /\ pos' = RoundStart
    /\ trusted' = TRUE
    /\ UNCHANGED <<node, watcher, sub, ctx, passed>>

\* What the check of probe i finds.  A docker exec fails in a container that
\* does not run.
Holds(i) ==
    /\ container = "running"
    /\ ProbeUnit[i] # NoUnit => unit[ProbeUnit[i]] = "active"
\* Mutant: an exited container is a failure like any other.
BugIsTerminal(i) ==
    /\ ProbeUnit[i] # NoUnit
    /\ container = "running" /\ unit[ProbeUnit[i]] = "failed"

IsTerminal(i) ==
    IF ProbeUnit[i] = NoUnit THEN container = "exited"
    ELSE container = "running" /\ unit[ProbeUnit[i]] = "failed"

\* The round that gets past the last probe is the end of the wait.
ProbePasses ==
    /\ phase = "round" /\ Holds(pos)
    /\ IF NextFrom(pos + 1) = 0 THEN Ends("ready")
       ELSE /\ passed' = [passed EXCEPT ![pos] = trusted]
            /\ pos' = NextFrom(pos + 1)
            /\ UNCHANGED <<sub, phase, trusted>>
    /\ UNCHANGED <<node, watcher, ctx>>

\* A probe that fails ends the round; a failure that does not mend ends the
\* wait.  The end of the context kills the call of a check that would pass.
ProbeFails ==
    /\ phase = "round"
    /\ ~Holds(pos) \/ ctx = "cancelled"
    /\ IF IsTerminal(pos) THEN Ends("terminal")
       ELSE phase' = "select" /\ pos' = 0 /\ UNCHANGED <<sub, passed, trusted>>
    /\ UNCHANGED <<node, watcher, ctx>>

\* The select: the context has ended, the ticker fires, an event is there.
\* Both of the latter take what is queued before the next round.
WaitEnds ==
    /\ phase = "select"
    /\ Ends("timeout")
    /\ UNCHANGED <<node, watcher, ctx>>

\* Mutant: the ticker is left out while events come.
BugTick ==
    /\ phase = "select" /\ ~trusted
    /\ phase' = "taking"
    /\ UNCHANGED <<node, watcher, sub, ctx, pos, passed, trusted>>

Tick ==
    /\ phase = "select"
    /\ phase' = "taking"
    /\ UNCHANGED <<node, watcher, sub, ctx, pos, passed, trusted>>

EventReady ==
    /\ phase = "select" /\ sub # <<>>
    /\ phase' = "taking"
    /\ UNCHANGED <<node, watcher, sub, ctx, pos, passed, trusted>>

\* The probes that event ev, or the full buffer it was taken from, makes the
\* wait run again; a monitor error makes it run all of them from now on.
WasFull(left) == Len(left) >= SubCap - 1
\* Mutant: the full buffer is not noticed.
BugReruns(ev, i) == ev.unit = NoUnit \/ ev.unit = ProbeUnit[i]

Reruns(ev, i) ==
    \/ WasFull(Tail(sub))
    \/ ev.unit = NoUnit
    \/ ev.unit = ProbeUnit[i]

TakeEvent ==
    /\ phase = "taking" /\ sub # <<>>
    /\ LET ev == Head(sub) IN
        IF ev.kind = "die" THEN Ends("terminal")
        ELSE /\ passed' = [i \in Probes |-> passed[i] /\ ~Reruns(ev, i)]
             /\ trusted' = (trusted /\ ev.kind # "error")
             /\ sub' = Tail(sub)
             /\ UNCHANGED <<phase, pos>>
    /\ UNCHANGED <<node, watcher, ctx>>

NextRound ==
    /\ phase = "taking" /\ sub = <<>>
    /\ phase' = "round" /\ pos' = RoundStart
    /\ UNCHANGED <<node, watcher, sub, ctx, passed, trusted>>

-----------------------------------------------------------------------------
NodeStep == Pauses \/ Unpauses \/ Dies \/ \E u \in Units : UnitChanges(u)
Read(m) == Relay(m) \/ StreamOver(m) \/ ReportEnd(m) \/ MonitorExits(m)
Round == ProbePasses \/ ProbeFails
Wake == Tick \/ EventReady
Take == TakeEvent \/ NextRound

Next ==
    \/ NodeStep
    \/ \E m \in Monitors : StreamEnds(m) \/ Read(m)
    \/ AddNodes \/ Connected \/ Broadcast \/ LoopExits \/ Cancel
    \/ Subscribe \/ Round \/ Wake \/ Take \/ WaitEnds

Spec == Init /\ [][Next]_vars

\* Goroutines run, the ticker fires, a check of the context's end is chosen by
\* a select that keeps finding it ready.  Nothing makes the node change, a
\* stream end, or a deadline come.
Fairness ==
    /\ \A m \in Monitors : WF_vars(Read(m))
    /\ WF_vars(AddNodes) /\ WF_vars(Connected)
    /\ WF_vars(Broadcast) /\ WF_vars(LoopExits)
    /\ WF_vars(Subscribe) /\ WF_vars(Round) /\ WF_vars(Tick) /\ WF_vars(Take)
    /\ SF_vars(ctx = "cancelled" /\ WaitEnds)

FairSpec == Spec /\ Fairness

-----------------------------------------------------------------------------
(* Properties *)

\* An event that makes the wait run probe i again is between the node and the
\* wait, or was lost at a subscription that is still full.
Concerns(ev, i) == ev.unit \in {NoUnit, ProbeUnit[i]}
Queued(seq, i) == \E k \in DOMAIN seq : Concerns(seq[k], i)
OnItsWay(i) ==
    \/ \E m \in Monitors : Queued(stream[m], i)
    \/ Queued(internalCh, i) \/ Queued(sub, i)
    \/ Len(sub) = SubCap

\* The wait trusts events although a monitor has stopped, and will not learn
\* of it any more.
ErrorMissed ==
    /\ phase \in Waiting /\ trusted
    /\ \E m \in Monitors : monitor[m] = "gone"
    /\ ~Contains(internalCh, MonitorError)
    /\ ~Contains(sub, MonitorError)

\* The end of a stream that its monitor has yet to come to, or to report.
ErrorComing ==
    \E m \in Monitors :
        \/ monitor[m] = "ended"
        \/ monitor[m] \in {"connecting", "reading"} /\ ~open[m]

\* The wait skips probe i, whose unit has failed, or the container of which
\* does not run any more.
SkipsFailing(i) ==
    /\ phase \in Waiting /\ passed[i] /\ ctx = "running"
    /\ \/ container # "running"
       \/ ProbeUnit[i] # NoUnit /\ unit[ProbeUnit[i]] = "failed"

Covered(i) == OnItsWay(i) \/ ErrorComing \/ ErrorMissed \/ ProbeUnit[i] \in unseen

\* A probe that is skipped although it would fail is about to be run again:
\* the event is on its way, or a buffer that lost it is still full, or a
\* monitor error is on its way.  Only a missed monitor error, or a change from
\* before busctl was connected, goes unnoticed.  [pkg/probe/probe.go, take and
\* changed]
PassedCovered == \A i \in Probes : SkipsFailing(i) => Covered(i)

\* Streams are open for monitors that read them only, both monitors have
\* been started before the wait, and only a wait that trusts events skips.
MonitorInv ==
    /\ \A m \in Monitors : open[m] => monitor[m] \in {"connecting", "reading"}
    /\ monitor["docker"] # "off"
    /\ phase = "adding" <=> monitor["systemd"] = "off"
    /\ trusted => phase \in Waiting
    /\ \A i \in Probes : passed[i] => trusted

\* The channels keep within their capacity, and what the wait skips is
\* covered by an event (PassedCovered).
WaitInv == TypeOK /\ MonitorInv /\ PassedCovered

\* A wait trusts its events only while the monitors behind them run, or while
\* it is yet to hear of the end of one.  [pkg/probe/probe.go:164-166]
TrustOnlyLive == ctx = "running" => ~ErrorMissed

\* A container that exits ends the wait for it without the deadline: the die
\* event does, or the probe that the wait runs again when events may be lost;
\* unless the wait has missed that a monitor ended.
DeathEnds ==
    (container = "exited" /\ phase \in Waiting)
        ~> (phase \in Over \/ ErrorMissed)

\* A node that becomes ready and stays so is found ready, or the wait is over
\* before, whatever events were lost.
AllHold == \A i \in Probes : Holds(i)
ReadyFound == <>[]AllHold => <>(phase \in Over)

\* The end of the context ends the wait, every monitor and the broadcast loop:
\* none is left blocked on a channel nobody reads.  [Watcher.Wait, emit]
WatcherStops ==
    (ctx = "cancelled") ~>
        /\ ~loop /\ phase \in Over
        /\ \A m \in Monitors : monitor[m] \in {"off", "gone"}
=============================================================================

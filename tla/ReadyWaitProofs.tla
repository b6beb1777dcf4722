--------------------------- MODULE ReadyWaitProofs ---------------------------
(***************************************************************************)
(* A proof about the readiness wait and its watcher (ReadyWait): for any   *)
(* units, probes, buffer sizes, faults and number of changes, a probe that *)
(* is skipped although it would fail now is covered by an event on its way *)
(* (PassedCovered).                                                        *)
(*                                                                         *)
(* The argument follows an event that concerns a probe from the stream     *)
(* through the two channels: each hop keeps it or leaves a full buffer,    *)
(* and taking it, or taking from a buffer that was full, makes the probe   *)
(* run again.                                                              *)
(***************************************************************************)
EXTENDS ReadyWait, TLAPS, SequenceTheorems, WellFoundedInduction

\* The events there are, and what they say.
LEMMA EventTypes ==
  /\ \A u \in Units, s \in {"active", "failed"} : [kind |-> s, unit |-> u] \in Event
  /\ \A k \in {"die", "pause", "unpause", "error"} :
        ContainerEvent(k) \in Event /\ ContainerEvent(k).unit = NoUnit
  /\ MonitorError \in Event /\ MonitorError.unit = NoUnit /\ MonitorError.kind = "error"
  /\ \A ev \in Event : ev.kind = "error" => ev.unit = NoUnit
  BY DEF Event, ContainerEvent, MonitorError

\* The probe a round runs next is one of the probes, or none.
LEMMA NextFromType ==
  ASSUME TypeOK, NEW i \in Nat \ {0}
  PROVE  NextFrom(i) \in 0..Len(ProbeUnit)
<1> DEFINE left == {j \in i..Len(passed) : ~passed[j]}
<1>1. Len(ProbeUnit) \in Nat /\ Len(passed) = Len(ProbeUnit)
  BY ReadyWaitAssumption DEF TypeOK, Probes
<1>2. CASE left = {}
  <2>1. NextFrom(i) = 0
    BY <1>2 DEF NextFrom, SelectInSubSeq
  <2> QED
    BY <1>1, <2>1
<1>3. CASE left # {}
  <2>1. left \subseteq Nat
    BY <1>1
  <2> DEFINE less == OpToRel(<, Nat)
  <2>7. \A x, y \in Nat : x < y => <<x, y>> \in less
    BY DEF OpToRel
  <2>8. IsWellFoundedOn(less, Nat)
    BY NatLessThanWellFounded, Zenon
  <2> HIDE DEF less
  <2>2. PICK x \in left : \A y \in left : ~(<<y, x>> \in less)
    BY <1>3, <2>1, <2>8, WFMin
  <2>3. \A y \in left : x <= y
    <3> HIDE DEF left
    <3>1. \A y \in left : x \in Nat /\ y \in Nat /\ ~(y < x)
      BY <2>1, <2>2, <2>7
    <3> QED
      BY <3>1
  <2>4. NextFrom(i) = CHOOSE z \in left : \A y \in left : z <= y
    BY <1>3 DEF NextFrom, SelectInSubSeq, Min
  <2>5. NextFrom(i) \in left
    BY <2>3, <2>4
  <2> QED
    BY <1>1, <2>5
<1> QED
  BY <1>2, <1>3

\* Every step keeps the types and the channels within their capacities.
LEMMA TypeStep == TypeOK /\ MonitorInv /\ [Next]_vars => TypeOK'
<1> SUFFICES ASSUME TypeOK, MonitorInv, [Next]_vars
             PROVE  TypeOK'
  OBVIOUS
<1> USE ReadyWaitAssumption, EventTypes
    DEF TypeOK, Monitors, Waiting, Over, node, watcher, wait
<1>0. \A i \in Nat : NextFrom(i + 1) \in 0..Len(ProbeUnit)
  BY NextFromType
<1>20. RoundStart \in 0..Len(ProbeUnit)
  BY NextFromType DEF RoundStart
<1>1. ASSUME NEW outcome \in Over, Ends(outcome), UNCHANGED <<node, watcher, ctx>>
      PROVE  TypeOK'
  <2>1. passed' \in [Probes -> BOOLEAN] /\ trusted' \in BOOLEAN
    BY <1>1, Zenon DEF Ends
  <2>2. sub' \in Seq(Event) /\ Len(sub') <= SubCap
    BY <1>1 DEF Ends
  <2>3. pos' \in 0..Len(ProbeUnit)
    BY <1>1 DEF Ends
  <2> QED
    BY <1>1, <2>1, <2>2, <2>3 DEF Ends
<1>2. ASSUME NEW ev \in Event, Emit(ev)
      PROVE  internalCh' \in Seq(Event) /\ Len(internalCh') <= InternalCap
  <2>1. internalCh \in Seq(Event) /\ Len(internalCh) \in Nat /\ Len(internalCh) <= InternalCap
    OBVIOUS
  <2>2. CASE Len(internalCh) < InternalCap /\ internalCh' = Append(internalCh, ev)
    <3>1. internalCh' \in Seq(Event) /\ Len(internalCh') = Len(internalCh) + 1
      BY <2>1, <2>2, AppendProperties
    <3> QED
      BY <2>1, <2>2, <3>1
  <2> QED
    BY <1>2, <2>2 DEF Emit
<1>3. ASSUME NEW u \in Units, UnitChanges(u)
      PROVE  TypeOK'
  <2>1. PICK s \in {"down", "active", "failed"} :
          /\ unit' = [unit EXCEPT ![u] = s]
          /\ \/ UNCHANGED <<stream, unseen>>
             \/ unseen' = unseen \cup {u} /\ UNCHANGED stream
             \/ /\ s # "down"
                /\ stream' = [stream EXCEPT !["systemd"] = Append(@, [kind |-> s, unit |-> u])]
                /\ UNCHANGED unseen
    BY <1>3 DEF UnitChanges
  <2>2. stream' \in [Monitors -> Seq(Event)] /\ unseen' \subseteq Units
    <3>1. CASE UNCHANGED stream
      BY <2>1, <3>1
    <3>2. CASE /\ s # "down"
               /\ stream' = [stream EXCEPT !["systemd"] = Append(@, [kind |-> s, unit |-> u])]
               /\ UNCHANGED unseen
      <4>1. [kind |-> s, unit |-> u] \in Event
        BY <3>2
      <4> QED
        BY <3>2, <4>1
    <3> QED
      BY <2>1, <3>1, <3>2
  <2> QED
    BY <1>3, <2>1, <2>2 DEF UnitChanges, MayChange
<1>4. ASSUME NEW to \in {"running", "paused", "exited"},
             NEW kind \in {"die", "pause", "unpause"},
             ContainerChanges(to, kind)
      PROVE  TypeOK'
  <2>1. stream' \in [Monitors -> Seq(Event)]
    <3>1. ContainerEvent(kind) \in Event
      OBVIOUS
    <3>2. \/ stream' = stream
          \/ stream' = [stream EXCEPT !["docker"] =
                          Append(stream["docker"], ContainerEvent(kind))]
      BY <1>4 DEF ContainerChanges
    <3>3. Append(stream["docker"], ContainerEvent(kind)) \in Seq(Event)
      BY <3>1
    <3>4. stream \in [Monitors -> Seq(Event)]
      OBVIOUS
    <3> QED
      BY ONLY <3>2, <3>3, <3>4
  <2>2. open' \in [Monitors -> BOOLEAN]
    BY <1>4, Zenon DEF ContainerChanges
  <2> QED
    BY <1>4, <2>1, <2>2 DEF ContainerChanges, MayChange
<1>5. ASSUME NEW m \in Monitors, StreamEnds(m)
      PROVE  TypeOK'
  BY <1>5 DEF StreamEnds
<1>6. ASSUME NEW m \in Monitors, Relay(m)
      PROVE  TypeOK'
  <2>1. Head(stream[m]) \in Event /\ Tail(stream[m]) \in Seq(Event)
    BY <1>6 DEF Relay
  <2> QED
    BY <1>6, <2>1 DEF Relay
<1>7. ASSUME NEW m \in Monitors, StreamOver(m) \/ ReportEnd(m) \/ MonitorExits(m)
      PROVE  TypeOK'
  <2>1. CASE StreamOver(m)
    BY <2>1 DEF StreamOver
  <2>2. CASE ReportEnd(m)
    BY <1>2, <2>2 DEF ReportEnd
  <2>3. CASE MonitorExits(m)
    <3>1. <<>> \in Seq(Event)
      OBVIOUS
    <3> QED
      BY <2>3, <3>1 DEF MonitorExits
  <2> QED
    BY <1>7, <2>1, <2>2, <2>3
<1>8. CASE AddNodes
  <2>1. internalCh' \in Seq(Event) /\ Len(internalCh') <= InternalCap
    BY <1>2, <1>8 DEF AddNodes
  <2> QED
    <3>1. open' \in [Monitors -> BOOLEAN]
      <4>1. open' = open \/ \E b \in BOOLEAN : open' = [open EXCEPT !["systemd"] = b]
        BY <1>8, Zenon DEF AddNodes
      <4> QED
        BY <4>1
    <3>2. monitor' \in [Monitors -> {"off", "connecting", "reading", "ended", "gone"}]
      BY <1>8 DEF AddNodes
    <3> QED
      BY <1>8, <2>1, <3>1, <3>2 DEF AddNodes
<1>9. CASE Connected
  BY <1>9 DEF Connected
<1>10. CASE Broadcast
  <2>1. Head(internalCh) \in Event /\ Tail(internalCh) \in Seq(Event)
        /\ Len(Tail(internalCh)) <= InternalCap
    BY <1>10 DEF Broadcast
  <2>2. sub' \in Seq(Event) /\ Len(sub') <= SubCap
    BY <1>10, <2>1 DEF Broadcast, Deliver
  <2> QED
    BY <1>10, <2>1, <2>2 DEF Broadcast
<1>11. CASE LoopExits \/ Cancel
  BY <1>11 DEF LoopExits, Cancel
<1>12. CASE Subscribe
  BY <1>12, <1>20 DEF Subscribe
<1>13. CASE ProbePasses
  <2>1. CASE Ends("ready")
    BY <1>1, <1>13, <2>1 DEF ProbePasses
  <2>2. CASE ~Ends("ready")
    <3>1. passed' \in [Probes -> BOOLEAN]
      BY <1>13, <2>2, Zenon DEF ProbePasses
    <3>2. pos' \in 0..Len(ProbeUnit)
      BY <1>0, <1>13, <2>2 DEF ProbePasses
    <3> QED
      BY <1>13, <2>2, <3>1, <3>2 DEF ProbePasses
  <2> QED
    BY <2>1, <2>2
<1>14. CASE ProbeFails
  BY <1>1, <1>14 DEF ProbeFails
<1>15. CASE WaitEnds
  BY <1>1, <1>15 DEF WaitEnds
<1>16. CASE Tick \/ EventReady
  BY <1>16 DEF Tick, EventReady
<1>17. CASE TakeEvent
  <2>1. CASE Head(sub).kind = "die"
    BY <1>1, <1>17, <2>1 DEF TakeEvent
  <2>2. CASE Head(sub).kind # "die"
    <3>1. Tail(sub) \in Seq(Event) /\ Len(Tail(sub)) <= SubCap
      BY <1>17 DEF TakeEvent
    <3>2. /\ passed' = [i \in Probes |-> passed[i] /\ ~Reruns(Head(sub), i)]
          /\ trusted' = (trusted /\ Head(sub).kind # "error")
          /\ sub' = Tail(sub) /\ UNCHANGED <<phase, pos>> /\ UNCHANGED <<node, watcher, ctx>>
      BY <1>17, <2>2 DEF TakeEvent
    <3>3. \A i \in Probes : (passed[i] /\ ~Reruns(Head(sub), i)) \in BOOLEAN
      OBVIOUS
    <3>4. (trusted /\ Head(sub).kind # "error") \in BOOLEAN
      OBVIOUS
    <3>5. passed' \in [Probes -> BOOLEAN] /\ trusted' \in BOOLEAN
      BY ONLY <3>2, <3>3, <3>4
    <3> QED
      BY <3>1, <3>2, <3>5
  <2> QED
    BY <2>1, <2>2
<1>18. CASE NextRound
  BY <1>18, <1>20 DEF NextRound
<1>19. CASE UNCHANGED vars
  BY <1>19 DEF vars
<1> QED
  BY <1>3, <1>4, <1>5, <1>6, <1>7, <1>8, <1>9, <1>10, <1>11, <1>12, <1>13, <1>14,
      <1>15, <1>16,
     <1>17, <1>18, <1>19
     DEF Next, NodeStep, Pauses, Unpauses, Dies, Read, Round, Wake, Take

\* Every step keeps the monitors with their streams, and skips probes for a
\* wait that trusts its events only.
LEMMA MonitorStep == TypeOK /\ MonitorInv /\ [Next]_vars => MonitorInv'
<1> SUFFICES ASSUME TypeOK, MonitorInv, [Next]_vars
             PROVE  MonitorInv'
  OBVIOUS
<1> USE ReadyWaitAssumption DEF TypeOK, MonitorInv, Monitors, Waiting, Over, node,
    watcher, wait
<1>1. ASSUME phase # "adding", NEW outcome \in Over, Ends(outcome), UNCHANGED <<node, watcher, ctx>>
      PROVE  MonitorInv'
  <2>1. ~trusted' /\ \A i \in Probes : ~passed'[i]
    BY <1>1, Zenon DEF Ends
  <2> QED
    BY <1>1, <2>1 DEF Ends
<1>2. ASSUME NEW u \in Units, UnitChanges(u)
      PROVE  MonitorInv'
  BY <1>2 DEF UnitChanges
<1>3. ASSUME NEW to, NEW kind, ContainerChanges(to, kind)
      PROVE  MonitorInv'
  <2>1. \A m \in Monitors : open'[m] => open[m]
    BY <1>3, Zenon DEF ContainerChanges
  <2> QED
    BY <1>3, <2>1 DEF ContainerChanges
<1>4. ASSUME NEW m \in Monitors, StreamEnds(m) \/ Relay(m) \/ StreamOver(m) \/ ReportEnd(m)
      PROVE  MonitorInv'
  <2>1. CASE StreamEnds(m)
    BY <2>1 DEF StreamEnds
  <2>2. CASE Relay(m)
    BY <2>2 DEF Relay
  <2>3. CASE StreamOver(m)
    BY <2>3 DEF StreamOver
  <2>4. CASE ReportEnd(m)
    BY <2>4 DEF ReportEnd
  <2> QED
    BY <1>4, <2>1, <2>2, <2>3, <2>4
<1>5. ASSUME NEW m \in Monitors, MonitorExits(m)
      PROVE  MonitorInv'
  BY <1>5 DEF MonitorExits
<1>6. CASE AddNodes
  <2>1. ~trusted /\ \A i \in Probes : ~passed[i]
    BY <1>6 DEF AddNodes
  <2>2. CASE /\ open' = [open EXCEPT !["systemd"] = TRUE]
             /\ monitor' = [monitor EXCEPT !["systemd"] = "connecting"]
    BY <1>6, <2>1, <2>2 DEF AddNodes
  <2>3. CASE monitor' = [monitor EXCEPT !["systemd"] = "gone"] /\ UNCHANGED open
    <3>1. ~open["systemd"]
      BY <1>6 DEF AddNodes
    <3> QED
      BY <1>6, <2>1, <2>3, <3>1 DEF AddNodes
  <2> QED
    BY <1>6, <2>2, <2>3 DEF AddNodes
<1>7. CASE Connected \/ Broadcast \/ LoopExits \/ Cancel
  BY <1>7 DEF Connected, Broadcast, LoopExits, Cancel
<1>8. CASE Subscribe \/ NextRound \/ Tick \/ EventReady
  BY <1>8 DEF Subscribe, NextRound, Tick, EventReady
<1>9. CASE ProbePasses
  <2>1. CASE Ends("ready")
    BY <1>1, <1>9, <2>1 DEF ProbePasses
  <2>2. CASE ~Ends("ready")
    BY <1>9, <2>2 DEF ProbePasses
  <2> QED
    BY <2>1, <2>2
<1>10. CASE ProbeFails \/ WaitEnds
  BY <1>1, <1>10 DEF ProbeFails, WaitEnds
<1>11. CASE TakeEvent
  <2>1. CASE Head(sub).kind = "die"
    BY <1>1, <1>11, <2>1 DEF TakeEvent
  <2>2. CASE Head(sub).kind # "die"
    <3>1. Head(sub) \in Event
      BY <1>11 DEF TakeEvent
    <3>2. \A i \in Probes : passed'[i] => passed[i] /\ Head(sub).unit # NoUnit
      BY <1>11, <2>2, Zenon DEF TakeEvent, Reruns
    <3>3. Head(sub).unit # NoUnit => Head(sub).kind # "error"
      BY <3>1, EventTypes
    <3>4. trusted' => trusted
      BY <1>11, <2>2, Zenon DEF TakeEvent
    <3>5. trusted /\ Head(sub).kind # "error" => trusted'
      BY <1>11, <2>2, Zenon DEF TakeEvent
    <3>6. UNCHANGED <<open, monitor, phase>>
      BY <1>11, <2>2 DEF TakeEvent
    <3> QED
      BY <3>2, <3>3, <3>4, <3>5, <3>6
  <2> QED
    BY <2>1, <2>2
<1>12. CASE UNCHANGED vars
  BY <1>12 DEF vars
<1> QED
  BY <1>2, <1>3, <1>4, <1>5, <1>6, <1>7, <1>8, <1>9, <1>10, <1>11, <1>12
     DEF Next, NodeStep, Pauses, Unpauses, Dies, Read, Round, Wake, Take

\* What a channel tells survives what is put at its end, and taking its
\* first event leaves what the others tell.
LEMMA QueueFacts ==
  ASSUME NEW s \in Seq(Event), NEW i \in Probes
  PROVE  /\ \A ev \in Event : /\ Queued(s, i) => Queued(Append(s, ev), i)
                              /\ Concerns(ev, i) => Queued(Append(s, ev), i)
         /\ s # <<>> /\ Queued(s, i) => Concerns(Head(s), i) \/ Queued(Tail(s), i)
         /\ Contains(s, MonitorError) => Queued(s, i)
<1>1. ASSUME NEW ev \in Event, Queued(s, i)
      PROVE  Queued(Append(s, ev), i)
  <2>1. PICK k \in DOMAIN s : Concerns(s[k], i)
    BY <1>1 DEF Queued
  <2>2. k \in DOMAIN Append(s, ev) /\ Append(s, ev)[k] = s[k]
    OBVIOUS
  <2> QED
    BY <2>1, <2>2 DEF Queued
<1>2. ASSUME NEW ev \in Event, Concerns(ev, i)
      PROVE  Queued(Append(s, ev), i)
  <2>1. Len(s) + 1 \in DOMAIN Append(s, ev) /\ Append(s, ev)[Len(s) + 1] = ev
    OBVIOUS
  <2> QED
    BY <1>2, <2>1 DEF Queued
<1>3. ASSUME s # <<>>, Queued(s, i)
      PROVE  Concerns(Head(s), i) \/ Queued(Tail(s), i)
  <2>1. PICK k \in DOMAIN s : Concerns(s[k], i)
    BY <1>3 DEF Queued
  <2>2. CASE k = 1
    BY <2>1, <2>2
  <2>3. CASE k # 1
    <3>1. k - 1 \in DOMAIN Tail(s) /\ Tail(s)[k - 1] = s[k]
      BY <1>3, <2>3
    <3> QED
      BY <2>1, <3>1 DEF Queued
  <2> QED
    BY <2>2, <2>3
<1>4. ASSUME Contains(s, MonitorError)
      PROVE  Queued(s, i)
  <2>1. PICK k \in 1..Len(s) : s[k] = MonitorError
    BY <1>4 DEF Contains
  <2> QED
    BY <2>1, EventTypes DEF Queued, Concerns
<1> QED
  BY <1>1, <1>2, <1>3, <1>4

\* Both monitors read streams that are there.
Live == \A m \in Monitors : monitor[m] \in {"connecting", "reading"} /\ open[m]

\* The end of a monitor covers every probe a wait skips: it is being told, or
\* was missed.
LEMMA EndCovers ==
  ASSUME TypeOK, MonitorInv, phase \in Waiting, NEW i \in Probes, passed[i], ~Live
  PROVE  Covered(i)
<1>1. PICK m \in Monitors : ~(monitor[m] \in {"connecting", "reading"} /\ open[m])
  BY DEF Live
<1>2. monitor[m] # "off"
  BY DEF MonitorInv, Monitors, Waiting
<1>3. monitor[m] \in {"connecting", "reading", "ended", "gone"}
  BY <1>2 DEF TypeOK
<1>4. CASE monitor[m] # "gone"
  <2>1. ErrorComing
    BY <1>1, <1>3, <1>4 DEF ErrorComing
  <2> QED
    BY <2>1 DEF Covered
<1>5. CASE monitor[m] = "gone"
  <2>1. trusted
    BY DEF MonitorInv
  <2>2. CASE ErrorMissed
    BY <2>2 DEF Covered
  <2>3. CASE ~ErrorMissed
    <3>1. Contains(internalCh, MonitorError) \/ Contains(sub, MonitorError)
      BY <1>5, <2>1, <2>3 DEF ErrorMissed
    <3>2. internalCh \in Seq(Event) /\ sub \in Seq(Event)
      BY DEF TypeOK
    <3>3. Queued(internalCh, i) \/ Queued(sub, i)
      BY <3>1, <3>2, QueueFacts
    <3> QED
      BY <3>3 DEF Covered, OnItsWay
  <2> QED
    BY <2>2, <2>3
<1> QED
  BY <1>4, <1>5

\* A wait that goes on with both monitors loses no event by a step that takes
\* none: what told it to run a probe again still does.
LEMMA StaysCovered ==
  ASSUME TypeOK, TypeOK', NEW i \in Probes, Live', SkipsFailing(i), Covered(i),
         monitor' = monitor, open' = open, unseen \subseteq unseen',
         \A m \in Monitors : Queued(stream[m], i) => Queued(stream'[m], i) \/ Queued(internalCh', i),
         Queued(internalCh, i) => Queued(internalCh', i) \/ Queued(sub', i) \/ Len(sub') = SubCap,
         Queued(sub, i) => Queued(sub', i),
         Len(sub) = SubCap => Len(sub') = SubCap
  PROVE  Covered(i)'
<1>1. Live
  BY DEF Live
<1>2. ~ErrorComing /\ ~ErrorMissed
  BY <1>1 DEF Live, ErrorComing, ErrorMissed
<1>3. CASE ProbeUnit[i] \in unseen
  BY <1>3 DEF Covered
<1>4. CASE OnItsWay(i)
  BY <1>4 DEF OnItsWay, Covered
<1> QED
  BY <1>2, <1>3, <1>4 DEF Covered

\* Every step that leaves both monitors at work keeps the probes that are
\* skipped covered.
LEMMA CoveredStep ==
  ASSUME TypeOK, TypeOK', MonitorInv, MonitorInv', PassedCovered, [Next]_vars
  PROVE  Live' => PassedCovered'
<1> SUFFICES ASSUME Live', NEW i \in Probes, SkipsFailing(i)'
             PROVE  Covered(i)'
  BY DEF PassedCovered
<1>0. SkipsFailing(i) => Covered(i)
  BY DEF PassedCovered
<1>13. /\ internalCh \in Seq(Event)
       /\ sub \in Seq(Event)
       /\ stream \in [Monitors -> Seq(Event)]
       /\ internalCh' \in Seq(Event) /\ sub' \in Seq(Event) /\ stream' \in [Monitors -> Seq(Event)]
       /\ unit \in [Units -> {"down", "active", "failed"}] /\ passed \in [Probes -> BOOLEAN]
  BY DEF TypeOK
<1> USE DEF Monitors, node, watcher, wait
\* What happens in the node.
<1>1. ASSUME NEW u \in Units, UnitChanges(u)
      PROVE  Covered(i)'
  <2>1. UNCHANGED <<phase, passed, ctx, container, open, monitor, internalCh, sub>>
    BY <1>1 DEF UnitChanges
  <2>2. open["systemd"]
    BY <2>1 DEF Live
  <2>3. PICK s \in {"down", "active", "failed"} :
          /\ unit' = [unit EXCEPT ![u] = s]
          /\ \/ s = "down" /\ UNCHANGED <<stream, unseen>>
             \/ s # "down" /\ unseen' = unseen \cup {u} /\ UNCHANGED stream
             \/ /\ s # "down" /\ UNCHANGED unseen
                /\ stream' = [stream EXCEPT !["systemd"] =
                                Append(stream["systemd"], [kind |-> s, unit |-> u])]
    BY <1>1, <2>2 DEF UnitChanges
  <2>4. s # "down" => [kind |-> s, unit |-> u] \in Event
    BY EventTypes
  <2>5. \A m \in Monitors : Queued(stream[m], i) => Queued(stream'[m], i)
    <3>1. CASE stream' = stream
      BY <3>1
    <3>2. CASE stream' # stream
      <4> DEFINE ev == [kind |-> s, unit |-> u]
      <4>1. /\ ev \in Event
            /\ stream' = [stream EXCEPT !["systemd"] = Append(stream["systemd"], ev)]
        BY <2>3, <2>4, <3>2
      <4> HIDE DEF ev
      <4>2. stream["systemd"] \in Seq(Event)
        BY <1>13
      <4>3. Queued(stream["systemd"], i) => Queued(Append(stream["systemd"], ev), i)
        BY <4>1, <4>2, QueueFacts
      <4> QED
        BY <1>13, <4>1, <4>3
    <3> QED
      BY <3>1, <3>2
  <2>6. CASE SkipsFailing(i)
    BY <1>0, <2>1, <2>3, <2>5, <2>6, StaysCovered
  <2>7. CASE ~SkipsFailing(i)
    <3>1. ProbeUnit[i] = u /\ s = "failed"
      BY <1>13, <2>1, <2>3, <2>7 DEF SkipsFailing
    <3>2. CASE u \in unseen'
      BY <3>1, <3>2 DEF Covered
    <3>3. CASE u \notin unseen'
      <4> DEFINE ev == [kind |-> s, unit |-> u]
      <4>1. ev \in Event /\ Concerns(ev, i)
        BY <2>4, <3>1 DEF Concerns
      <4>2. stream' = [stream EXCEPT !["systemd"] = Append(stream["systemd"], ev)]
        BY <2>3, <3>1, <3>3
      <4> HIDE DEF ev
      <4>3. Queued(Append(stream["systemd"], ev), i)
        BY <1>13, <4>1, QueueFacts
      <4>4. Queued(stream'["systemd"], i)
        BY <1>13, <4>2, <4>3
      <4> QED
        BY <4>4 DEF Covered, OnItsWay
    <3> QED
      BY <3>2, <3>3
  <2> QED
    BY <2>6, <2>7
<1>2. ASSUME NEW to, NEW kind \in {"die", "pause", "unpause"}, ContainerChanges(to, kind)
      PROVE  Covered(i)'
  <2>1. UNCHANGED <<phase, passed, ctx, monitor, internalCh, sub, unit, unseen>>
    BY <1>2 DEF ContainerChanges
  <2>2. open["docker"] /\ stream' = [stream EXCEPT !["docker"] =
                                       Append(stream["docker"], ContainerEvent(kind))]
    BY <1>2 DEF ContainerChanges, Live
  <2>3. ContainerEvent(kind) \in Event /\ Concerns(ContainerEvent(kind), i)
    BY EventTypes DEF Concerns
  <2>4. Queued(stream'["docker"], i)
    BY <1>13, <2>2, <2>3, QueueFacts
  <2> QED
    BY <2>4 DEF Covered, OnItsWay
\* What the monitors and the broadcast loop do.
<1>3. ASSUME NEW m \in Monitors, Relay(m)
      PROVE  Covered(i)'
  <2>1. UNCHANGED <<phase, passed, ctx, container, unit, unseen, open, monitor, sub>>
    BY <1>3 DEF Relay
  <2>2. /\ stream[m] # <<>> /\ Head(stream[m]) \in Event
        /\ internalCh' = Append(internalCh, Head(stream[m]))
        /\ stream' = [stream EXCEPT ![m] = Tail(stream[m])]
    BY <1>3, <1>13 DEF Relay
  <2>3. \A n \in Monitors : Queued(stream[n], i) => Queued(stream'[n], i) \/ Queued(internalCh', i)
    BY <1>13, <2>2, QueueFacts
  <2>4. Queued(internalCh, i) => Queued(internalCh', i)
    BY <1>13, <2>2, QueueFacts
  <2> QED
    BY <1>0, <2>1, <2>3, <2>4, StaysCovered DEF SkipsFailing
<1>4. CASE Broadcast
  <2>1. UNCHANGED <<phase, passed, ctx, container, unit, unseen, open, monitor, stream>>
    BY <1>4 DEF Broadcast
  <2>2. /\ internalCh # <<>>
        /\ Head(internalCh) \in Event
        /\ internalCh' = Tail(internalCh)
    BY <1>4, <1>13 DEF Broadcast
  <2>3. phase \in Waiting
    BY <2>1 DEF SkipsFailing
  <2>4. CASE Len(sub) < SubCap
    <3>1. sub' = Append(sub, Head(internalCh))
      BY <1>4, <2>3, <2>4 DEF Broadcast, Deliver
    <3>2. Queued(sub, i) => Queued(sub', i)
      BY <1>13, <2>2, <3>1, QueueFacts
    <3>3. Queued(internalCh, i) => Queued(internalCh', i) \/ Queued(sub', i)
      BY <1>13, <2>2, <3>1, QueueFacts
    <3> QED
      BY <1>0, <2>1, <2>4, <3>2, <3>3, StaysCovered DEF SkipsFailing
  <2>5. CASE Len(sub) = SubCap
    <3>1. sub' = sub
      BY <1>4, <2>5 DEF Broadcast, Deliver
    <3> QED
      BY <2>5, <3>1 DEF Covered, OnItsWay
  <2> QED
    BY <2>4, <2>5, ReadyWaitAssumption DEF TypeOK
<1>5. ASSUME NEW m \in Monitors, StreamEnds(m) \/ StreamOver(m) \/ ReportEnd(m) \/ MonitorExits(m)
      PROVE  Covered(i)'
  <2>1. ~Live'
    BY <1>5 DEF StreamEnds, StreamOver, ReportEnd, MonitorExits, Live, TypeOK
  <2> QED
    BY <2>1
<1>6. CASE Connected
  <2>1. UNCHANGED <<phase, passed, ctx, container, unit, unseen, open, stream, internalCh, sub>>
    BY <1>6 DEF Connected
  <2>2. Live
    BY <1>6, <2>1 DEF Connected, Live, TypeOK
  <2>3. OnItsWay(i) \/ ProbeUnit[i] \in unseen
    BY <1>0, <2>1, <2>2 DEF SkipsFailing, Covered, Live, ErrorComing, ErrorMissed
  <2> QED
    BY <2>1, <2>3 DEF Covered, OnItsWay
\* What the wait does.
<1>7. CASE AddNodes \/ Cancel \/ WaitEnds
  <2>1. ~SkipsFailing(i)'
    BY <1>7 DEF AddNodes, Cancel, WaitEnds, Ends, SkipsFailing, Waiting
  <2> QED
    BY <2>1
<1>8. CASE Subscribe
  <2>1. ~passed[i]
    BY <1>8 DEF Subscribe, MonitorInv, Waiting
  <2> QED
    BY <1>8, <2>1 DEF Subscribe, SkipsFailing
<1>9. CASE ProbePasses
  <2>1. phase' \notin Over
    BY DEF SkipsFailing, Waiting, Over
  <2>2. /\ passed' = [passed EXCEPT ![pos] = trusted] /\ Holds(pos) /\ phase \in Waiting
        /\ UNCHANGED <<node, watcher, sub, ctx, phase, trusted>>
    BY <1>9, <2>1 DEF ProbePasses, Ends, Over, Waiting
  <2>3. i # pos
    BY <2>2 DEF SkipsFailing, Holds
  <2>4. passed[i]
    BY <1>13, <2>2, <2>3 DEF SkipsFailing
  <2> QED
    BY <1>0, <2>2, <2>4, StaysCovered DEF SkipsFailing
<1>10. CASE ProbeFails \/ Tick \/ EventReady \/ NextRound
  <2>1. UNCHANGED <<node, watcher, sub, ctx, passed, trusted>> /\ phase \in Waiting
    BY <1>10 DEF ProbeFails, Tick, EventReady, NextRound, Ends, SkipsFailing, Waiting
  <2> QED
    BY <1>0, <2>1, StaysCovered DEF SkipsFailing
<1>11. CASE TakeEvent
  <2>1. Head(sub).kind # "die"
    BY <1>11 DEF TakeEvent, Ends, SkipsFailing, Waiting
  <2>2. /\ sub # <<>> /\ sub' = Tail(sub) /\ phase \in Waiting
        /\ passed' = [j \in Probes |-> passed[j] /\ ~Reruns(Head(sub), j)]
        /\ UNCHANGED <<node, watcher, ctx, phase>>
    BY <1>11, <2>1 DEF TakeEvent, Waiting
  <2>3. passed[i] /\ ~Reruns(Head(sub), i)
    BY <2>2 DEF SkipsFailing
  <2>4. Len(sub) # SubCap /\ ~Concerns(Head(sub), i)
    BY <1>13, <2>2, <2>3, ReadyWaitAssumption DEF Reruns, WasFull, Concerns
  <2>5. Queued(sub, i) => Queued(sub', i)
    BY <1>13, <2>2, <2>4, QueueFacts
  <2> QED
    BY <1>0, <2>2, <2>3, <2>4, <2>5, StaysCovered DEF SkipsFailing
<1>12. CASE LoopExits \/ UNCHANGED vars
  <2>1. UNCHANGED <<node, open, stream, monitor, internalCh, sub, ctx, wait>>
    BY <1>12 DEF LoopExits, vars
  <2> QED
    BY <1>0, <2>1, StaysCovered DEF SkipsFailing
<1> QED
  BY <1>1, <1>2, <1>3, <1>4, <1>5, <1>6, <1>7, <1>8, <1>9, <1>10, <1>11, <1>12
     DEF Next, NodeStep, Pauses, Unpauses, Dies, Read, Round, Wake, Take

\* For every node, probes, buffers, faults and number of changes: the channels
\* keep within their capacities, and no probe that would fail is skipped
\* unless an event that makes the wait run it again is on its way, or was lost
\* as PassedCovered says (pkg/probe: take, changed; pkg/monitor: broadcast).
THEOREM WaitInvHolds == Spec => []WaitInv
<1>1. Init => WaitInv
  <2> SUFFICES ASSUME Init PROVE TypeOK /\ MonitorInv /\ PassedCovered
    BY DEF WaitInv
  <2>1. TypeOK
    <3>1. /\ open \in [Monitors -> BOOLEAN] /\ loop \in BOOLEAN /\ trusted \in BOOLEAN
          /\ passed \in [Probes -> BOOLEAN]
      BY Zenon DEF Init
    <3>2. <<>> \in Seq(Event)
      OBVIOUS
    <3>3. /\ monitor \in [Monitors -> {"off", "connecting", "reading", "ended", "gone"}]
          /\ stream \in [Monitors -> Seq(Event)]
          /\ unit \in [Units -> {"down", "active", "failed"}]
      BY <3>2 DEF Init
    <3> QED
      BY <3>1, <3>2, <3>3, ReadyWaitAssumption DEF Init, TypeOK
  <2>2. ~trusted /\ \A i \in Probes : ~passed[i]
    BY Zenon DEF Init
  <2>3. MonitorInv
    BY <2>2 DEF Init, MonitorInv, Monitors
  <2>4. PassedCovered
    BY <2>2 DEF PassedCovered, SkipsFailing
  <2> QED
    BY <2>1, <2>3, <2>4
<1>2. TypeOK /\ MonitorInv /\ (Live => PassedCovered) => PassedCovered
  BY EndCovers DEF PassedCovered, SkipsFailing
<1>3. WaitInv /\ [Next]_vars => TypeOK' /\ MonitorInv' /\ (Live => PassedCovered)'
  BY TypeStep, MonitorStep, CoveredStep DEF WaitInv
<1> QED
  BY <1>1, <1>2, <1>3, PTL DEF Spec, WaitInv

=============================================================================

------------------------------ MODULE Collector ------------------------------
(***************************************************************************)
(* How sind ui keeps its store true to Docker (internal/ui/collect).       *)
(*                                                                         *)
(* Events streams docker events, gathers them and publishes them on a bus; *)
(* a stream that ended is started again after all collectors were told to  *)
(* read everything.  Sind lists the clusters into the store, for the       *)
(* realms an event names and everything every poll.  Status reads the      *)
(* status of a cluster, over many docker calls: when the store first lists *)
(* it, when a page that watches it opens, after its events, and by its two *)
(* timers.  All of them run beside each other, beside the pages that come  *)
(* and go, and beside the commands that change the clusters.               *)
(*                                                                         *)
(* The model follows one cluster of one realm.  A cluster's data is the    *)
(* number of the change that made it.                                      *)
(***************************************************************************)
EXTENDS Integers

CONSTANTS
    MaxMoves   \* bound: changes, ends of the stream and pages opened together

ASSUME CollectorAssumption == MaxMoves \in Nat

Gone == -1      \* no cluster
Unread == -2    \* nothing stored of it

VARIABLES
    cluster,    \* the cluster: its last change, or Gone
    changed,    \* the changes so far
    stream,     \* the docker events process
    breaks,     \* the ends of the stream so far
    sindBus,    \* Sind's subscription holds an event
    statusBus,  \* Status's subscription: none, events, or also a refresh
    lister,     \* Sind between its passes, or in one with what it read
    listed,     \* the store lists the cluster
    topic,      \* the store's notice to Status that the list changed
    page,       \* the page open: none, another one, or the cluster's
    visits,     \* the pages opened since
    fresh,      \* the cluster is newly watched
    wake,       \* the notice of Watched to Status
    resume,     \* the notice of Viewers to Status
    seen,       \* Status has read the cluster since the store lists it
    due,        \* the cluster is to be read: not, after a second, now
    reading,     \* Status between its reads, or the read and what it got
    stored      \* the status the store holds

world == <<cluster, changed>>
events == <<stream, breaks>>
bus == <<sindBus, statusBus>>
sind == <<lister, listed, topic>>
pages == <<page, visits, fresh, wake, resume>>
reader == <<seen, due, reading>>
collectVars == <<world, events, bus, sind, pages, reader, stored>>

\* When the cluster is to be read: not, a second after an event, or now.
When == {"no", "soon", "now"}
Sooner(a, b) == IF "now" \in {a, b} THEN "now" ELSE IF "soon" \in {a, b} THEN "soon" ELSE "no"
Data == Gone..MaxMoves
Idle == [at |-> "idle", got |-> Unread]
Read(at, got) == [at |-> at, got |-> got]

StoreTypeOK ==
    /\ cluster \in Data /\ changed \in 0..MaxMoves
    /\ stream \in {"up", "ended", "restarting"} /\ breaks \in 0..MaxMoves
    /\ sindBus \in BOOLEAN /\ statusBus \in When
    /\ lister \in {"idle", "there", "gone"} /\ listed \in BOOLEAN /\ topic \in BOOLEAN
    /\ page \in {"none", "other", "cluster"} /\ visits \in 0..MaxMoves
    /\ fresh \in BOOLEAN /\ wake \in BOOLEAN /\ resume \in BOOLEAN
    /\ fresh => page = "cluster" /\ wake
    /\ seen \in BOOLEAN /\ due \in When
    /\ reading \in [at : {"idle", "asking", "answered", "kept"}, got : Data \cup {Unread}]
    /\ stored \in Data \cup {Unread}

\* sind ui has just started beside a cluster of the realm, perhaps with a
\* page open already.  Status has found an empty store.
CollectInit ==
    /\ cluster = 0 /\ changed = 0
    /\ stream = "up" /\ breaks = 0
    /\ sindBus = TRUE /\ statusBus = "no"
    /\ lister = "idle" /\ listed = FALSE /\ topic = FALSE
    /\ page \in {"none", "other"} /\ visits = 0
    /\ resume = (page # "none") /\ fresh = FALSE /\ wake = FALSE
    /\ seen = FALSE /\ due = "no" /\ reading = Idle
    /\ stored = Unread

-----------------------------------------------------------------------------
(* The cluster and the events *)

MayMove == changed + breaks + visits < MaxMoves

\* Both subscribe to the bus; Status reads a second after an event, so
\* that a burst of them makes one read, and at once for a refresh.
Notify(when) ==
    /\ sindBus' = TRUE
    /\ statusBus' = Sooner(statusBus, when)

\* A command or Docker changes, deletes or creates the cluster.  A stream
\* that is connected shows it, and what it shows is published: stream
\* gathers events for a moment first, and publishes them also when it ends.
Change ==
    /\ MayMove
    /\ changed' = changed + 1
    /\ cluster' \in {Gone, changed'} \ {cluster}
    /\ IF stream = "up" THEN Notify("soon") ELSE UNCHANGED bus
    /\ UNCHANGED <<events, sind, pages, reader, stored>>

StreamEnds ==
    /\ stream = "up" /\ MayMove
    /\ stream' = "ended" /\ breaks' = breaks + 1
    /\ UNCHANGED <<world, bus, sind, pages, reader, stored>>

\* Run after its wait: the collectors are told that events were missed,
\* and the next process is started.
Restart ==
    /\ stream = "ended"
    /\ stream' = "restarting"
    /\ Notify("soon")
    /\ UNCHANGED <<world, breaks, sind, pages, reader, stored>>

Connect ==
    /\ stream = "restarting"
    /\ stream' = "up"
    /\ UNCHANGED <<world, breaks, bus, sind, pages, reader, stored>>

\* A command that sind ui ran has ended: the realm is read now.
Refresh ==
    /\ Notify("now")
    /\ UNCHANGED <<world, events, sind, pages, reader, stored>>

-----------------------------------------------------------------------------
(* Sind *)

\* A pass begins: the events are taken, then the list is read.
List ==
    /\ lister = "idle"
    /\ sindBus' = FALSE
    /\ lister' = IF cluster = Gone THEN "gone" ELSE "there"
    /\ UNCHANGED <<world, events, statusBus, listed, topic, pages, reader, stored>>

Pass == sindBus /\ List
ListAll == List

\* Mutant: the events are taken once the pass is over, those that came while
\* it read among them.
BugSetClusters ==
    /\ lister # "idle"
    /\ lister' = "idle" /\ sindBus' = FALSE
    /\ listed' = (lister = "there")
    /\ topic' = (topic \/ listed' # listed)
    /\ UNCHANGED <<world, events, statusBus, pages, reader, stored>>

\* The store takes the list, and tells Status if it changed.
SetClusters ==
    /\ lister # "idle"
    /\ lister' = "idle"
    /\ listed' = (lister = "there")
    /\ topic' = (topic \/ listed' # listed)
    /\ UNCHANGED <<world, events, bus, pages, reader, stored>>

-----------------------------------------------------------------------------
(* Pages *)

\* A page opens, of the cluster or another one: Viewers tells of the first
\* one, Watched of a cluster that nothing watched.
Open ==
    /\ page = "none" /\ MayMove
    /\ visits' = visits + 1
    /\ page' \in {"other", "cluster"}
    /\ resume' = TRUE
    /\ IF page' = "cluster" THEN fresh' = TRUE /\ wake' = TRUE ELSE UNCHANGED <<fresh, wake>>
    /\ UNCHANGED <<world, events, bus, sind, reader, stored>>

Close ==
    /\ page # "none"
    /\ page' = "none"
    /\ fresh' = FALSE
    /\ wake' = (wake \/ page = "cluster")
    /\ UNCHANGED <<world, events, bus, sind, visits, resume, reader, stored>>

-----------------------------------------------------------------------------
(* Status *)

\* The clusters whose status the store keeps.
Keep == listed \/ page = "cluster"

KeepStatuses ==
    IF Keep THEN UNCHANGED stored ELSE stored' = Unread

\* The end of a turn of the loop: what is due now is read with the rest.
Turn(read, d) ==
    IF read \/ d = "now"
    THEN /\ reading' = Read("asking", Unread)
         /\ due' = IF d = "now" THEN "no" ELSE d
    ELSE due' = d /\ UNCHANGED reading

Selecting == reading = Idle

\* Mutant: the status of a cluster whose page closed is not dropped.
BugWake ==
    /\ Selecting /\ wake
    /\ wake' = FALSE /\ fresh' = FALSE
    /\ Turn(fresh, IF Keep THEN due ELSE "no")
    /\ UNCHANGED <<world, events, bus, sind, page, visits, resume, seen, stored>>

Wake ==
    /\ Selecting /\ wake
    /\ wake' = FALSE /\ fresh' = FALSE
    /\ KeepStatuses
    /\ Turn(fresh, IF Keep THEN due ELSE "no")
    /\ UNCHANGED <<world, events, bus, sind, page, visits, resume, seen>>

\* Every Every, the clusters that are watched.
Tick ==
    /\ Selecting /\ page = "cluster"
    /\ Turn(TRUE, due)
    /\ UNCHANGED <<world, events, bus, sind, pages, seen, stored>>

\* Mutant: the poll of every cluster looks only at those that are watched.
BugAll ==
    /\ Selecting /\ page = "cluster" /\ listed
    /\ Turn(TRUE, due)
    /\ UNCHANGED <<world, events, bus, sind, pages, seen, stored>>

\* Every All, every cluster listed, while a page is open.
All ==
    /\ Selecting /\ page # "none" /\ listed
    /\ Turn(TRUE, due)
    /\ UNCHANGED <<world, events, bus, sind, pages, seen, stored>>

Resume ==
    /\ Selecting /\ resume
    /\ resume' = FALSE
    /\ Turn(listed, due)
    /\ UNCHANGED <<world, events, bus, sind, page, visits, fresh, wake, seen, stored>>

ListChanged ==
    /\ Selecting /\ topic
    /\ topic' = FALSE
    /\ seen' = listed
    /\ KeepStatuses
    /\ Turn(listed /\ ~seen, due)
    /\ UNCHANGED <<world, events, bus, lister, listed, pages>>

\* The events of a cluster the store keeps: it is due, a second after them
\* or, for a refresh, now.
TakeEvents ==
    /\ Selecting /\ statusBus # "no"
    /\ statusBus' = "no"
    /\ Turn(FALSE, IF Keep THEN Sooner(due, statusBus) ELSE due)
    /\ UNCHANGED <<world, events, sindBus, sind, pages, seen, stored>>

Timer ==
    /\ Selecting /\ due = "soon"
    /\ Turn(FALSE, "now")
    /\ UNCHANGED <<world, events, bus, sind, pages, seen, stored>>

\* read: docker has answered, as the cluster was at some moment of the
\* calls.
Answer ==
    /\ reading.at = "asking"
    /\ reading' = Read("answered", cluster)
    /\ UNCHANGED <<world, events, bus, sind, pages, seen, due, stored>>

\* The answer is stored if the store still keeps the cluster, which may go
\* between the two.
CheckKeep ==
    /\ reading.at = "answered" /\ reading.got # Gone
    /\ reading' = IF Keep THEN [reading EXCEPT !.at = "kept"] ELSE Idle
    /\ UNCHANGED <<world, events, bus, sind, pages, seen, due, stored>>

SetStatus ==
    /\ reading.at = "kept"
    /\ stored' = reading.got
    /\ reading' = Idle
    /\ UNCHANGED <<world, events, bus, sind, pages, seen, due>>

\* ErrClusterNotFound: what the store has of the cluster is removed.
ClearGone ==
    /\ reading.at = "answered" /\ reading.got = Gone
    /\ stored' = Unread
    /\ reading' = Idle
    /\ UNCHANGED <<world, events, bus, sind, pages, seen, due>>

-----------------------------------------------------------------------------
Polls == ListAll \/ Tick \/ All
Loop == Wake \/ Resume \/ ListChanged \/ TakeEvents \/ Timer
ReadStep == Answer \/ CheckKeep \/ SetStatus \/ ClearGone

CollectNext ==
    \/ Change \/ StreamEnds \/ Restart \/ Connect \/ Refresh
    \/ Pass \/ SetClusters \/ Open \/ Close
    \/ Polls \/ Loop \/ ReadStep


\* The processes go on and docker answers.  A case of Status's select that
\* is ready stays so, through the reads in between, until it is taken or
\* dropped, and Go takes each again and again: none of Wake, ListChanged,
\* TakeEvents and Timer is ready for ever, as strong fairness of each would
\* say.  Neither the cluster nor a user has to act, and the timers of the
\* polls are not counted on here.
CollectFairness ==
    /\ WF_collectVars(Restart \/ Connect) /\ WF_collectVars(Pass \/ SetClusters)
    /\ WF_collectVars(ReadStep)
    /\ []<>~wake /\ []<>~topic /\ []<>(statusBus = "no") /\ []<>(due # "soon")

PollFairness ==
    WF_collectVars(ListAll) /\ SF_collectVars(Tick) /\ SF_collectVars(All)

CollectSpec == CollectInit /\ [][CollectNext]_collectVars /\ CollectFairness

-----------------------------------------------------------------------------
(* Properties *)

\* The store holds no status of a cluster that it does not list and that no
\* page watches, unless Status has a notice of that to take: a read that was
\* under way when the cluster went stores nothing that stays.
StatusKept == Keep \/ stored = Unread \/ wake \/ topic

\* The same of a status that is about to be stored: whatever takes the
\* cluster from the store between the check and SetStatus leaves a notice.
ReadKept == reading.at = "kept" => Keep \/ wake \/ topic

\* Whatever page is newly watched has woken Status up, and the store keeps
\* nothing that nobody lists or watches (StoreTypeOK, StatusKept).
StoreInv == StoreTypeOK /\ ReadKept /\ StatusKept

\* The store tells what is: a cluster is listed and shown as it is, and one
\* that is gone is not listed and has no status.
Settled ==
    /\ listed = (cluster # Gone)
    /\ cluster # Gone => stored = cluster
    /\ cluster = Gone => stored = Unread

\* While the stream lasts, events alone bring the store to what is, without
\* a poll and without a page, for a cluster that does not come back once it
\* is gone: no event is lost on its way, however it meets a pass or a read
\* that began before it.
EventsSuffice ==
    [](stream = "up") /\ [](cluster = Gone => [](cluster = Gone)) => <>[]Settled

\* Whatever events a broken stream missed, the polls bring the store to
\* what is for as long as a page is open, whichever page it is.
PagesCatchUp == PollFairness => <>[](page # "none" => Settled)

=============================================================================

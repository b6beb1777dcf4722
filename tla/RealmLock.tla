------------------------------- MODULE RealmLock -------------------------------
(***************************************************************************)
(* The realm lock (pkg/state: LockRealm, lockDaemon): a flock(2) on a file *)
(* of the caller's state directory, then the network <realm>-lock on the   *)
(* Docker daemon, which exists while a caller holds the lock.              *)
(*                                                                         *)
(* A caller is one goroutine of one sind process that calls LockRealm      *)
(* again and again.  Every docker call of the code is a step of its own,   *)
(* since other clients of the daemon run between any two of them.  A       *)
(* caller that gives up waiting for docker may leave its request with the  *)
(* daemon, which acts on it later (lateCreate, lateRemove).  Left out: the *)
(* errors before the flock, which hold nothing, the wording of the         *)
(* warnings, and the waits' lengths (see LockHint).                        *)
(***************************************************************************)
EXTENDS Naturals

CONSTANTS
  Client,     \* callers of LockRealm
  FileOnly,   \* those without LockOptions.Client: file lock only
  dirOf,      \* the state directory of each caller
  procOf,     \* the sind process of each caller
  Process,    \* processes, each identified by its PID on its site
  siteOf,     \* host name, boot ID and PID namespace of each process
  Blind,      \* sites of which a process could not read a part
  Faults,     \* what may go wrong, a subset of AllFaults
  MaxCalls    \* bound: LockRealm calls in a behaviour

AllFaults ==
  { "kill",       \* a process is killed before it released its locks
    "docker",     \* a docker inspect or removal fails
    "late",       \* the daemon acts on a request nobody waits for any more
    "pidReuse",   \* another process has the PID of one that ended
    "foreign",    \* a network of the lock's name that is no realm lock
    "rmStale",    \* the user removes the lock of an ended process by hand
    "rmAny" }     \* the user removes any lock by hand

ASSUME ClientAssumption ==
  /\ FileOnly \subseteq Client
  /\ procOf \in [Client -> Process]
  /\ DOMAIN dirOf = Client
  /\ DOMAIN siteOf = Process

ASSUME BoundAssumption == MaxCalls \in Nat

ASSUME FaultAssumption == Faults \subseteq AllFaults

VARIABLES
  pc,          \* where each caller is
  token,       \* the random token of each caller's latest call
  id,          \* the network ID each caller works on
  flocked,     \* the callers whose open file has the flock
  lock,        \* the networks named <realm>-lock: none or one
  alive,       \* the processes that run
  lateCreate,  \* creates the daemon has still to act on
  lateRemove,  \* IDs of the networks the daemon has still to remove
  nextToken,
  nextID

vars == <<pc, token, id, flocked, lock, alive, lateCreate, lateRemove,
          nextToken, nextID>>

(* The places where a caller waits for the daemon, holding the file lock.  *)
Polling == {"create", "undo", "undoRemove", "inspect", "removeStale", "sleep"}
HasFile == Polling \union {"held", "unlockFile"}
Pc == {"idle", "flockWait", "dead"} \union HasFile

(* A network of the lock's name; a foreign one has the token 0, none.      *)
Network == [id : Nat, token : Nat, proc : Process]

(* The types, and one network of the lock's name at most.                  *)
TypeOK ==
  /\ pc \in [Client -> Pc]
  /\ token \in [Client -> Nat]
  /\ id \in [Client -> Nat]
  /\ flocked \subseteq Client
  /\ lock \subseteq Network
  /\ \A m, n \in lock : m = n
  /\ alive \subseteq Process
  /\ lateCreate \subseteq [token : Nat, proc : Process]
  /\ lateRemove \subseteq Nat
  /\ nextToken \in Nat \ {0}
  /\ nextID \in Nat \ {0}

Init ==
  /\ pc = [c \in Client |-> "idle"]
  /\ token = [c \in Client |-> 0]
  /\ id = [c \in Client |-> 0]
  /\ flocked = {}
  /\ lock = {}
  /\ alive = Process
  /\ lateCreate = {}
  /\ lateRemove = {}
  /\ nextToken = 1
  /\ nextID = 1

-------------------------------------------------------------------------------
(* The file lock.                                                          *)

FileFree(c) == \A d \in flocked : dirOf[d] # dirOf[c]

(* What follows the file lock: the daemon lock, unless the caller gave no  *)
(* Docker client.                                                          *)
AfterFile(c) == IF c \in FileOnly THEN "held" ELSE "create"

LockRealm(c) ==
  /\ pc[c] = "idle"
  /\ nextToken <= MaxCalls
  /\ token' = [token EXCEPT ![c] = nextToken]
  /\ nextToken' = nextToken + 1
  /\ \/ /\ FileFree(c)
        /\ flocked' = flocked \union {c}
        /\ pc' = [pc EXCEPT ![c] = AfterFile(c)]
     \/ /\ ~FileFree(c)
        /\ pc' = [pc EXCEPT ![c] = "flockWait"]
        /\ UNCHANGED flocked
  /\ UNCHANGED <<id, lock, alive, lateCreate, lateRemove, nextID>>

(* The blocking flock returns.                                             *)
Flock(c) ==
  /\ pc[c] = "flockWait"
  /\ FileFree(c)
  /\ flocked' = flocked \union {c}
  /\ pc' = [pc EXCEPT ![c] = AfterFile(c)]
  /\ UNCHANGED <<token, id, lock, alive, lateCreate, lateRemove, nextToken, nextID>>

(* The context ends, or flock fails: the file is closed.                   *)
FlockEnds(c) ==
  /\ pc[c] = "flockWait"
  /\ pc' = [pc EXCEPT ![c] = "idle"]
  /\ UNCHANGED <<token, id, flocked, lock, alive, lateCreate, lateRemove,
                 nextToken, nextID>>

UnlockFile(c) ==
  /\ pc[c] = "unlockFile"
  /\ flocked' = flocked \ {c}
  /\ pc' = [pc EXCEPT ![c] = "idle"]
  /\ UNCHANGED <<token, id, lock, alive, lateCreate, lateRemove, nextToken, nextID>>

-------------------------------------------------------------------------------
(* The daemon: one network per name, an ID never used twice.               *)

Goto(c, place) ==
  /\ pc' = [pc EXCEPT ![c] = place]
  /\ UNCHANGED <<token, flocked, alive, nextToken>>

NewLock(t, p) == [id |-> nextID, token |-> t, proc |-> p]

NameFree == lock = {}

BugMakeLock(t, p) ==
  /\ lock' = lock \union {NewLock(t, p)}
  /\ nextID' = nextID + 1

(* The daemon makes the network of a create with token t of process p.     *)
MakeLock(t, p) ==
  /\ NameFree
  /\ lock' = lock \union {NewLock(t, p)}
  /\ nextID' = nextID + 1

BugWithoutID(i) == {}

(* The networks left once the one with ID i is removed; removing one that  *)
(* is gone is no error.                                                    *)
WithoutID(i) == {n \in lock : n.id # i}

(* A removal by ID that fails: the daemon does not act on it, or not yet.  *)
RemovalFails(i) ==
  /\ "docker" \in Faults
  /\ \/ UNCHANGED lateRemove
     \/ "late" \in Faults /\ lateRemove' = lateRemove \union {i}

LateCreate ==
  \E r \in lateCreate :
    /\ lateCreate' = lateCreate \ {r}
    /\ \/ MakeLock(r.token, r.proc)
       \/ ~NameFree /\ UNCHANGED <<lock, nextID>>
    /\ UNCHANGED <<pc, token, id, flocked, alive, lateRemove, nextToken>>

LateRemove ==
  \E i \in lateRemove :
    /\ lateRemove' = lateRemove \ {i}
    /\ lock' = WithoutID(i)
    /\ UNCHANGED <<pc, token, id, flocked, alive, lateCreate, nextToken, nextID>>

-------------------------------------------------------------------------------
(* lockDaemon.                                                             *)

CreateLock(c) ==
  /\ pc[c] = "create"
  /\ MakeLock(token[c], procOf[c])
  /\ id' = [id EXCEPT ![c] = nextID]
  /\ Goto(c, "held")
  /\ UNCHANGED <<lateCreate, lateRemove>>

CreateRefused(c) ==
  /\ pc[c] = "create"
  /\ ~NameFree
  /\ Goto(c, "inspect")
  /\ UNCHANGED <<id, lock, lateCreate, lateRemove, nextID>>

BugCreateFails(c) ==
  /\ pc[c] = "create"
  /\ Goto(c, "unlockFile")
  /\ \/ MakeLock(token[c], procOf[c])
     \/ UNCHANGED <<lock, nextID>>
  /\ UNCHANGED <<id, lateCreate, lateRemove>>

(* docker fails, or the context ends: the daemon made the network, did     *)
(* not, or does so later.                                                  *)
CreateFails(c) ==
  /\ pc[c] = "create"
  /\ Goto(c, "undo")
  /\ \/ MakeLock(token[c], procOf[c]) /\ UNCHANGED lateCreate
     \/ UNCHANGED <<lock, nextID, lateCreate>>
     \/ /\ "late" \in Faults
        /\ lateCreate' = lateCreate \union {[token |-> token[c], proc |-> procOf[c]]}
        /\ UNCHANGED <<lock, nextID>>
  /\ UNCHANGED <<id, lateRemove>>

BugIsOwn(c, n) == TRUE

IsOwn(c, n) == n.token = token[c]

(* removeOwnDaemonLock: inspect, then remove by ID what this call made.    *)
UndoInspect(c) ==
  /\ pc[c] = "undo"
  /\ \/ \E n \in lock : /\ IsOwn(c, n)
                        /\ id' = [id EXCEPT ![c] = n.id]
                        /\ Goto(c, "undoRemove")
     \/ /\ (\A n \in lock : ~IsOwn(c, n)) \/ "docker" \in Faults
        /\ Goto(c, "unlockFile")
        /\ UNCHANGED id
  /\ UNCHANGED <<lock, lateCreate, lateRemove, nextID>>

UndoRemove(c) ==
  /\ pc[c] = "undoRemove"
  /\ Goto(c, "unlockFile")
  /\ \/ lock' = WithoutID(id[c]) /\ UNCHANGED lateRemove
     \/ RemovalFails(id[c]) /\ UNCHANGED lock
  /\ UNCHANGED <<id, lateCreate, nextID>>

(* sees: p can check whether the holder n of the lock still runs.          *)
Sees(p, n) == siteOf[p] = siteOf[n.proc] /\ siteOf[p] \notin Blind

BugGone(c, n) == ~Sees(procOf[c], n) \/ n.proc \notin alive

(* The case me.sees(h) && !alive(h.PID): the PID of a process that ended   *)
(* may be another's by now.                                                *)
Gone(c, n) == Sees(procOf[c], n) /\ n.proc \notin alive

InspectReleased(c) ==
  /\ pc[c] = "inspect"
  /\ lock = {}
  /\ Goto(c, "sleep")
  /\ UNCHANGED <<id, lock, lateCreate, lateRemove, nextID>>

BugInspectStale(c) ==
  /\ pc[c] = "inspect"
  /\ \E n \in lock : n.token # 0 /\ Gone(c, n)
  /\ Goto(c, "sleep")
  /\ UNCHANGED <<id, lock, lateCreate, lateRemove, nextID>>

InspectStale(c) ==
  /\ pc[c] = "inspect"
  /\ \E n \in lock : /\ n.token # 0
                     /\ Gone(c, n)
                     /\ id' = [id EXCEPT ![c] = n.id]
  /\ Goto(c, "removeStale")
  /\ UNCHANGED <<lock, lateCreate, lateRemove, nextID>>

InspectHeld(c) ==
  /\ pc[c] = "inspect"
  /\ \E n \in lock : n.token # 0 /\ (~Gone(c, n) \/ "pidReuse" \in Faults)
  /\ Goto(c, "sleep")
  /\ UNCHANGED <<id, lock, lateCreate, lateRemove, nextID>>

(* The inspect fails, or the network is no realm lock.                     *)
InspectFails(c) ==
  /\ pc[c] = "inspect"
  /\ Goto(c, "unlockFile")
  /\ UNCHANGED <<id, lock, lateCreate, lateRemove, nextID>>

RemoveStale(c) ==
  /\ pc[c] = "removeStale"
  /\ \/ lock' = WithoutID(id[c]) /\ Goto(c, "create") /\ UNCHANGED lateRemove
     \/ RemovalFails(id[c]) /\ Goto(c, "unlockFile") /\ UNCHANGED lock
  /\ UNCHANGED <<id, lateCreate, nextID>>

Wake(c) ==
  /\ pc[c] = "sleep"
  /\ Goto(c, "create")
  /\ UNCHANGED <<id, lock, lateCreate, lateRemove, nextID>>

(* The context ends while the caller waits for its next attempt.           *)
SleepEnds(c) ==
  /\ pc[c] = "sleep"
  /\ Goto(c, "unlockFile")
  /\ UNCHANGED <<id, lock, lateCreate, lateRemove, nextID>>

(* The unlock function: removeDaemonLock, then the file lock.              *)
Unlock(c) ==
  /\ pc[c] = "held"
  /\ Goto(c, "unlockFile")
  /\ \/ c \in FileOnly /\ UNCHANGED <<lock, lateRemove>>
     \/ c \notin FileOnly /\ lock' = WithoutID(id[c]) /\ UNCHANGED lateRemove
     \/ c \notin FileOnly /\ RemovalFails(id[c]) /\ UNCHANGED lock
  /\ UNCHANGED <<id, lateCreate, nextID>>

-------------------------------------------------------------------------------
(* The environment.                                                        *)

Callers(p) == {c \in Client : procOf[c] = p}

(* What the callers in P have asked the daemon for and wait for.           *)
PendingCreates(P) ==
  {[token |-> token[c], proc |-> procOf[c]] : c \in {d \in P : pc[d] = "create"}}
PendingRemovals(P) ==
  {id[c] : c \in {d \in P : \/ pc[d] \in {"undoRemove", "removeStale"}
                            \/ pc[d] = "held" /\ d \notin FileOnly}}

(* A process ends once its calls have, or is killed: the kernel closes its *)
(* files, and the daemon may still act on what it has asked for.           *)
End(p) ==
  /\ p \in alive
  /\ "kill" \in Faults \/ \A c \in Callers(p) : pc[c] = "idle"
  /\ alive' = alive \ {p}
  /\ pc' = [c \in Client |-> IF c \in Callers(p) THEN "dead" ELSE pc[c]]
  /\ flocked' = flocked \ Callers(p)
  /\ \/ UNCHANGED <<lateCreate, lateRemove>>
     \/ /\ "late" \in Faults
        /\ \E C \in SUBSET PendingCreates(Callers(p)), R \in SUBSET PendingRemovals(Callers(p)) :
             /\ lateCreate' = lateCreate \union C
             /\ lateRemove' = lateRemove \union R
  /\ UNCHANGED <<token, id, lock, nextToken, nextID>>

ForeignNetwork ==
  /\ "foreign" \in Faults
  /\ nextID <= MaxCalls
  /\ \E p \in Process : MakeLock(0, p)
  /\ UNCHANGED <<pc, token, id, flocked, alive, lateCreate, lateRemove, nextToken>>

(* docker network rm <realm>-lock, as the hint of a long wait words it.    *)
RemoveByHand ==
  /\ lock # {}
  /\ \/ "rmAny" \in Faults
     \/ "rmStale" \in Faults /\ \A n \in lock : n.proc \notin alive
  /\ lock' = {}
  /\ UNCHANGED <<pc, token, id, flocked, alive, lateCreate, lateRemove,
                 nextToken, nextID>>

-------------------------------------------------------------------------------
(* What c does by itself, without a failure or the end of its context.     *)
Step(c) ==
  \/ Flock(c) \/ UnlockFile(c)
  \/ CreateLock(c) \/ CreateRefused(c)
  \/ UndoInspect(c) \/ UndoRemove(c)
  \/ InspectReleased(c) \/ InspectStale(c) \/ InspectHeld(c)
  \/ RemoveStale(c) \/ Wake(c) \/ Unlock(c)

(* What stops c's call.                                                    *)
Stop(c) == FlockEnds(c) \/ CreateFails(c) \/ InspectFails(c) \/ SleepEnds(c)

Next ==
  \/ \E c \in Client : LockRealm(c) \/ Step(c) \/ Stop(c)
  \/ \E p \in Process : End(p)
  \/ LateCreate \/ LateRemove \/ ForeignNetwork \/ RemoveByHand

Spec == Init /\ [][Next]_vars

(* The steps of a call take their turn: the kernel grants a free flock,    *)
(* docker answers, sleeps end, and a holder's operation ends.  Calls are   *)
(* made, stopped and killed, and locks removed by hand, or not.            *)
Fairness == \A c \in Client : WF_vars(Step(c))

FairSpec == Spec /\ Fairness

-------------------------------------------------------------------------------
(* Properties.                                                             *)

(* Two calls must not overlap when they share a state directory, or when   *)
(* both take the lock on the daemon (LockRealm's comment).                 *)
Excludes ==
  {p \in Client \X Client :
     /\ p[1] # p[2]
     /\ dirOf[p[1]] = dirOf[p[2]] \/ (p[1] \notin FileOnly /\ p[2] \notin FileOnly)}

Inside == {c \in Client : pc[c] = "held"}

(* No two callers that exclude each other are between LockRealm's return   *)
(* and their unlock at once, whatever is killed, late or cancelled.        *)
MutualExclusion == \A a, b \in Inside : <<a, b>> \notin Excludes

(* Of the callers that share a state directory one at a time talks to the  *)
(* daemon about the lock (the file lock is the fast path).                 *)
PollsAlone ==
  \A a, b \in Client :
    a # b /\ dirOf[a] = dirOf[b] =>
      ~(pc[a] \in Polling \union {"held"} /\ pc[b] \in Polling \union {"held"})

(* The file lock is held by the callers past it, one per directory.        *)
FileInv ==
  /\ \A c \in Client : c \in flocked <=> pc[c] \in HasFile
  /\ \A a, b \in flocked : dirOf[a] = dirOf[b] => a = b

(* Tokens and network IDs are never used twice; an ended process calls     *)
(* nothing.                                                                *)
FreshInv ==
  /\ \A n \in lock : n.id < nextID
  /\ \A c \in Client : /\ id[c] < nextID
                       /\ token[c] < nextToken
                       /\ pc[c] \notin {"idle", "dead"} => token[c] # 0
                       /\ pc[c] # "dead" => procOf[c] \in alive
  /\ \A i \in lateRemove : i < nextID
  /\ \A a, b \in Client : token[a] = token[b] /\ token[a] # 0 => a = b

(* The network whose ID a caller removes is one it may remove.             *)
RemovalInv ==
  \A c \in Client, n \in lock :
    n.id = id[c] =>
      /\ pc[c] = "removeStale" => n.proc \notin alive
      /\ pc[c] = "undoRemove" \/ (pc[c] = "held" /\ c \notin FileOnly)
           => n.token = token[c]

(* The holders that talked to the daemon.                                  *)
Holders == {c \in Inside : c \notin FileOnly}

(* A holder's network is on the daemon, and no removal that the daemon has *)
(* still to act on is of its ID.                                           *)
HolderInv ==
  \A c \in Holders :
    /\ \E n \in lock : n.id = id[c] /\ n.token = token[c] /\ n.proc = procOf[c]
    /\ id[c] \notin lateRemove

(* The inductive invariant behind MutualExclusion.                         *)
LockInv == FileInv /\ FreshInv /\ RemovalInv /\ HolderInv

(* A caller's step takes a lock off the daemon only when that call made    *)
(* it, or its process has ended: releasing, undoing and taking over never  *)
(* hit the lock another running client took meanwhile, even after the user *)
(* removed a lock by hand.                                                 *)
LiveLockStays ==
  [][\A n \in lock \ lock', c \in Client :
       pc'[c] # pc[c] => n.token = token[c] \/ n.proc \notin alive]_vars

(* A lock of a running process is that of a call under way: a call that    *)
(* failed or was cancelled leaves none behind, also when the daemon had    *)
(* made it (without "docker" and "late").                                  *)
NoLeftover ==
  \A n \in lock :
    n.token # 0 /\ n.proc \in alive =>
      \E c \in Client : /\ token[c] = n.token
                        /\ pc[c] \in {"held", "undo", "undoRemove"}

(* A caller that waits gets the lock or gives up: a killed holder, whose   *)
(* process the waiter can check, blocks nobody.                            *)
WaitersServed ==
  \A c \in Client :
    pc[c] \in Polling \union {"flockWait"} ~> pc[c] \in {"held", "idle", "dead"}

(* The lock keeps RealmMutex's promise.                                    *)
Mutex == INSTANCE RealmMutex WITH owners <- Inside
ImplementsMutex == Mutex!Spec
===============================================================================

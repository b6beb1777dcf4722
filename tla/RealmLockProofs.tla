---------------------------- MODULE RealmLockProofs ----------------------------
(***************************************************************************)
(* Proofs about RealmLock for every set of callers, processes and hosts.   *)
(***************************************************************************)
EXTENDS RealmLock, TLAPS

(* A step keeps the types. *)
LEMMA TypeStep == TypeOK /\ [Next]_vars => TypeOK'
<1> SUFFICES ASSUME TypeOK, [Next]_vars
             PROVE  TypeOK'
  OBVIOUS
<1> USE ClientAssumption DEF TypeOK
<1>1. ASSUME NEW c \in Client, LockRealm(c)
      PROVE  TypeOK'
  BY <1>1 DEF LockRealm, AfterFile, Pc, HasFile, Polling
<1>2. ASSUME NEW c \in Client, Step(c)
      PROVE  TypeOK'
  <2>1. CASE Flock(c) 
    BY <2>1 DEF Flock, AfterFile, Pc, HasFile, Polling
  <2>2. CASE UnlockFile(c)
    BY <2>2 DEF UnlockFile, Pc, HasFile, Polling
  <2>3. CASE CreateLock(c)
    BY <2>3 DEF CreateLock, MakeLock, NewLock, NameFree, Goto, Network, Pc, HasFile, Polling
  <2>4. CASE CreateRefused(c)
    BY <2>4 DEF CreateRefused, Goto, Pc, HasFile, Polling
  <2>5. CASE UndoInspect(c)
    BY <2>5 DEF UndoInspect, Goto, Network, Pc, HasFile, Polling
  <2>6. CASE UndoRemove(c)
    BY <2>6 DEF UndoRemove, RemovalFails, WithoutID, Goto, Pc, HasFile, Polling
  <2>7. CASE InspectReleased(c) \/ InspectHeld(c) \/ Wake(c)
    BY <2>7 DEF InspectReleased, InspectHeld, Wake, Goto, Pc, HasFile, Polling
  <2>8. CASE InspectStale(c)
    BY <2>8 DEF InspectStale, Goto, Network, Pc, HasFile, Polling
  <2>9. CASE RemoveStale(c)
    <3>1. CASE lock' = WithoutID(id[c]) /\ Goto(c, "create") /\ UNCHANGED lateRemove
      BY <2>9, <3>1 DEF RemoveStale, WithoutID, Goto, Pc, HasFile, Polling
    <3>2. CASE RemovalFails(id[c]) /\ Goto(c, "unlockFile") /\ UNCHANGED lock
      BY <2>9, <3>2 DEF RemoveStale, RemovalFails, Goto, Pc, HasFile, Polling
    <3> QED
      BY <2>9, <3>1, <3>2 DEF RemoveStale
  <2>10. CASE Unlock(c)
    BY <2>10 DEF Unlock, RemovalFails, WithoutID, Goto, Pc, HasFile, Polling
  <2> QED
    BY <1>2, <2>1, <2>2, <2>3, <2>4, <2>5, <2>6, <2>7, <2>8, <2>9, <2>10 DEF Step
<1>3. ASSUME NEW c \in Client, Stop(c)
      PROVE  TypeOK'
  <2>1. CASE CreateFails(c)
    BY <2>1 DEF CreateFails, MakeLock, NewLock, NameFree, Goto, Network, Pc, HasFile, Polling
  <2>2. CASE FlockEnds(c) \/ InspectFails(c) \/ SleepEnds(c)
    BY <2>2 DEF FlockEnds, InspectFails, SleepEnds, Goto, Pc, HasFile, Polling
  <2> QED
    BY <1>3, <2>1, <2>2 DEF Stop
<1>4. ASSUME NEW p \in Process, End(p)
      PROVE  TypeOK'
  <2>1. PendingCreates(Callers(p)) \subseteq [token : Nat, proc : Process]
    BY DEF PendingCreates, Callers
  <2>2. PendingRemovals(Callers(p)) \subseteq Nat
    BY DEF PendingRemovals, Callers
  <2> QED
    BY <1>4, <2>1, <2>2 DEF End, Pc, Callers
<1>5. CASE LateCreate
  BY <1>5 DEF LateCreate, MakeLock, NewLock, NameFree, Network
<1>6. CASE LateRemove
  BY <1>6 DEF LateRemove, WithoutID
<1>7. CASE ForeignNetwork
  BY <1>7 DEF ForeignNetwork, MakeLock, NewLock, NameFree, Network
<1>8. CASE RemoveByHand
  BY <1>8 DEF RemoveByHand
<1>9. CASE UNCHANGED vars
  BY <1>9 DEF vars
<1> QED
  BY <1>1, <1>2, <1>3, <1>4, <1>5, <1>6, <1>7, <1>8, <1>9 DEF Next

(* The types stay right, and there is never a second network of the lock's *)
(* name, whatever fails.                                                   *)
THEOREM TypeCorrect == Spec => []TypeOK
<1>1. Init => TypeOK
  BY ClientAssumption DEF Init, TypeOK, Pc, HasFile, Polling
<1> QED
  BY <1>1, TypeStep, PTL DEF Spec

(* A step keeps the flock with the callers past it, one per directory.    *)
LEMMA FileStep ==
  ASSUME TypeOK, FileInv, [Next]_vars
  PROVE  FileInv'
<1> USE ClientAssumption DEF TypeOK, FileInv, Pc, HasFile, Polling
<1>1. ASSUME NEW c \in Client, LockRealm(c)
      PROVE  FileInv'
  BY <1>1 DEF LockRealm, AfterFile, FileFree
<1>2. ASSUME NEW c \in Client, Step(c)
      PROVE  FileInv'
  <2>1. CASE Flock(c)
    BY <2>1 DEF Flock, AfterFile, FileFree
  <2>2. CASE UnlockFile(c)
    BY <2>2 DEF UnlockFile
  <2>3. CASE CreateLock(c)
    BY <2>3 DEF CreateLock, MakeLock, NewLock, NameFree, Goto
  <2>4. CASE CreateRefused(c)
    BY <2>4 DEF CreateRefused, Goto
  <2>5. CASE UndoInspect(c)
    BY <2>5 DEF UndoInspect, IsOwn, Goto
  <2>6. CASE UndoRemove(c)
    BY <2>6 DEF UndoRemove, RemovalFails, WithoutID, Goto
  <2>7. CASE InspectReleased(c)
    BY <2>7 DEF InspectReleased, Goto
  <2>8. CASE InspectStale(c)
    BY <2>8 DEF InspectStale, Gone, Goto
  <2>9. CASE InspectHeld(c)
    BY <2>9 DEF InspectHeld, Goto
  <2>10. CASE RemoveStale(c)
    BY <2>10 DEF RemoveStale, RemovalFails, WithoutID, Goto
  <2>11. CASE Wake(c)
    BY <2>11 DEF Wake, Goto
  <2>12. CASE Unlock(c)
    BY <2>12 DEF Unlock, RemovalFails, WithoutID, Goto
  <2> QED
    BY <1>2, <2>1, <2>2, <2>3, <2>4, <2>5, <2>6, <2>7, <2>8, <2>9, <2>10, <2>11, <2>12 DEF Step
<1>3. ASSUME NEW c \in Client, Stop(c)
      PROVE  FileInv'
  <2>1. CASE FlockEnds(c)
    BY <2>1 DEF FlockEnds
  <2>2. CASE CreateFails(c)
    BY <2>2 DEF CreateFails, MakeLock, NewLock, NameFree, Goto
  <2>3. CASE InspectFails(c)
    BY <2>3 DEF InspectFails, Goto
  <2>4. CASE SleepEnds(c)
    BY <2>4 DEF SleepEnds, Goto
  <2> QED
    BY <1>3, <2>1, <2>2, <2>3, <2>4 DEF Stop
<1>4. ASSUME NEW p \in Process, End(p)
      PROVE  FileInv'
  BY <1>4 DEF End, Callers
<1>5. CASE LateCreate
  BY <1>5 DEF LateCreate, MakeLock, NewLock, NameFree
<1>6. CASE LateRemove
  BY <1>6 DEF LateRemove, WithoutID
<1>7. CASE ForeignNetwork
  BY <1>7 DEF ForeignNetwork, MakeLock, NewLock, NameFree
<1>8. CASE RemoveByHand
  BY <1>8 DEF RemoveByHand
<1>9. CASE UNCHANGED vars
  BY <1>9 DEF vars
<1> QED
  BY <1>1, <1>2, <1>3, <1>4, <1>5, <1>6, <1>7, <1>8, <1>9 DEF Next

(* A step uses no token and no network ID twice, and revives no process.  *)
LEMMA FreshStep ==
  ASSUME TypeOK, TypeOK', FreshInv, [Next]_vars
  PROVE  FreshInv'
<1> USE ClientAssumption DEF TypeOK, FreshInv, Pc, HasFile, Polling, Network
<1>1. ASSUME NEW c \in Client, LockRealm(c)
      PROVE  FreshInv'
  BY <1>1 DEF LockRealm, AfterFile, FileFree
<1>2. ASSUME NEW c \in Client, Step(c)
      PROVE  FreshInv'
  <2>1. CASE Flock(c)
    BY <2>1 DEF Flock, AfterFile, FileFree
  <2>2. CASE UnlockFile(c)
    BY <2>2 DEF UnlockFile
  <2>3. CASE CreateLock(c)
    BY <2>3 DEF CreateLock, MakeLock, NewLock, NameFree, Goto
  <2>4. CASE CreateRefused(c)
    BY <2>4 DEF CreateRefused, Goto
  <2>5. CASE UndoInspect(c)
    BY <2>5 DEF UndoInspect, IsOwn, Goto
  <2>6. CASE UndoRemove(c)
    BY <2>6 DEF UndoRemove, RemovalFails, WithoutID, Goto
  <2>7. CASE InspectReleased(c)
    BY <2>7 DEF InspectReleased, Goto
  <2>8. CASE InspectStale(c)
    BY <2>8 DEF InspectStale, Gone, Goto
  <2>9. CASE InspectHeld(c)
    BY <2>9 DEF InspectHeld, Goto
  <2>10. CASE RemoveStale(c)
    BY <2>10 DEF RemoveStale, RemovalFails, WithoutID, Goto
  <2>11. CASE Wake(c)
    BY <2>11 DEF Wake, Goto
  <2>12. CASE Unlock(c)
    BY <2>12 DEF Unlock, RemovalFails, WithoutID, Goto
  <2> QED
    BY <1>2, <2>1, <2>2, <2>3, <2>4, <2>5, <2>6, <2>7, <2>8, <2>9, <2>10, <2>11, <2>12 DEF Step
<1>3. ASSUME NEW c \in Client, Stop(c)
      PROVE  FreshInv'
  <2>1. CASE FlockEnds(c)
    BY <2>1 DEF FlockEnds
  <2>2. CASE CreateFails(c)
    BY <2>2 DEF CreateFails, MakeLock, NewLock, NameFree, Goto
  <2>3. CASE InspectFails(c)
    BY <2>3 DEF InspectFails, Goto
  <2>4. CASE SleepEnds(c)
    BY <2>4 DEF SleepEnds, Goto
  <2> QED
    BY <1>3, <2>1, <2>2, <2>3, <2>4 DEF Stop
<1>4. ASSUME NEW p \in Process, End(p)
      PROVE  FreshInv'
  <2>1. \A i \in PendingRemovals(Callers(p)) : i < nextID
    BY DEF PendingRemovals, Callers
  <2>2. \A i \in lateRemove' : i < nextID
    BY <1>4, <2>1 DEF End
  <2>3. \A c \in Client : /\ pc'[c] \notin {"idle", "dead"} => token[c] # 0
                          /\ pc'[c] # "dead" => procOf[c] \in alive'
    BY <1>4 DEF End, Callers
  <2> QED
    BY <1>4, <2>2, <2>3 DEF End
<1>5. CASE LateCreate
  BY <1>5 DEF LateCreate, MakeLock, NewLock, NameFree
<1>6. CASE LateRemove
  BY <1>6 DEF LateRemove, WithoutID
<1>7. CASE ForeignNetwork
  BY <1>7 DEF ForeignNetwork, MakeLock, NewLock, NameFree
<1>8. CASE RemoveByHand
  BY <1>8 DEF RemoveByHand
<1>9. CASE UNCHANGED vars
  BY <1>9 DEF vars
<1> QED
  BY <1>1, <1>2, <1>3, <1>4, <1>5, <1>6, <1>7, <1>8, <1>9 DEF Next

(* A step keeps what a caller is about to remove its own, or a dead one's. *)
LEMMA RemovalStep ==
  ASSUME TypeOK, FreshInv, RemovalInv, [Next]_vars
  PROVE  RemovalInv'
<1> USE ClientAssumption DEF TypeOK, FreshInv, RemovalInv, Pc, HasFile, Polling, Network
<1>1. ASSUME NEW c \in Client, LockRealm(c)
      PROVE  RemovalInv'
  BY <1>1 DEF LockRealm, AfterFile, FileFree
<1>2. ASSUME NEW c \in Client, Step(c)
      PROVE  RemovalInv'
  <2>1. CASE Flock(c)
    BY <2>1 DEF Flock, AfterFile, FileFree
  <2>2. CASE UnlockFile(c)
    BY <2>2 DEF UnlockFile
  <2>3. CASE CreateLock(c)
    BY <2>3 DEF CreateLock, MakeLock, NewLock, NameFree, Goto
  <2>4. CASE CreateRefused(c)
    BY <2>4 DEF CreateRefused, Goto
  <2>5. CASE UndoInspect(c)
    BY <2>5 DEF UndoInspect, IsOwn, Goto
  <2>6. CASE UndoRemove(c)
    BY <2>6 DEF UndoRemove, RemovalFails, WithoutID, Goto
  <2>7. CASE InspectReleased(c)
    BY <2>7 DEF InspectReleased, Goto
  <2>8. CASE InspectStale(c)
    BY <2>8 DEF InspectStale, Gone, Goto
  <2>9. CASE InspectHeld(c)
    BY <2>9 DEF InspectHeld, Goto
  <2>10. CASE RemoveStale(c)
    BY <2>10 DEF RemoveStale, RemovalFails, WithoutID, Goto
  <2>11. CASE Wake(c)
    BY <2>11 DEF Wake, Goto
  <2>12. CASE Unlock(c)
    BY <2>12 DEF Unlock, RemovalFails, WithoutID, Goto
  <2> QED
    BY <1>2, <2>1, <2>2, <2>3, <2>4, <2>5, <2>6, <2>7, <2>8, <2>9, <2>10, <2>11, <2>12 DEF Step
<1>3. ASSUME NEW c \in Client, Stop(c)
      PROVE  RemovalInv'
  <2>1. CASE FlockEnds(c)
    BY <2>1 DEF FlockEnds
  <2>2. CASE CreateFails(c)
    BY <2>2 DEF CreateFails, MakeLock, NewLock, NameFree, Goto
  <2>3. CASE InspectFails(c)
    BY <2>3 DEF InspectFails, Goto
  <2>4. CASE SleepEnds(c)
    BY <2>4 DEF SleepEnds, Goto
  <2> QED
    BY <1>3, <2>1, <2>2, <2>3, <2>4 DEF Stop
<1>4. ASSUME NEW p \in Process, End(p)
      PROVE  RemovalInv'
  BY <1>4 DEF End, Callers
<1>5. CASE LateCreate
  BY <1>5 DEF LateCreate, MakeLock, NewLock, NameFree
<1>6. CASE LateRemove
  BY <1>6 DEF LateRemove, WithoutID
<1>7. CASE ForeignNetwork
  BY <1>7 DEF ForeignNetwork, MakeLock, NewLock, NameFree
<1>8. CASE RemoveByHand
  BY <1>8 DEF RemoveByHand
<1>9. CASE UNCHANGED vars
  BY <1>9 DEF vars
<1> QED
  BY <1>1, <1>2, <1>3, <1>4, <1>5, <1>6, <1>7, <1>8, <1>9 DEF Next


(* What holds whatever fails and whatever is removed by hand.              *)
SafeInv == TypeOK /\ FileInv /\ FreshInv /\ RemovalInv

(* The four hold together, in every state that the code can reach.        *)
THEOREM SafeCorrect == Spec => []SafeInv
<1>1. Init => SafeInv
  BY ClientAssumption
     DEF Init, SafeInv, TypeOK, FileInv, FreshInv, RemovalInv, Pc, HasFile, Polling
<1>2. SafeInv /\ [Next]_vars => SafeInv'
  BY TypeStep, FileStep, FreshStep, RemovalStep DEF SafeInv
<1> QED
  BY <1>1, <1>2, PTL DEF Spec

(* One caller of a state directory at a time is past the file lock, so one *)
(* at a time polls the daemon.                                            *)
THEOREM PollsAloneHolds == Spec => []PollsAlone
<1>1. SafeInv => PollsAlone
  BY DEF SafeInv, FileInv, PollsAlone, HasFile
<1> QED
  BY <1>1, SafeCorrect, PTL

(* Releasing, undoing and taking over remove networks by the ID that was   *)
(* created or inspected, so they never hit a running caller's new lock.    *)
THEOREM LiveLockStaysHolds == Spec => LiveLockStays
<1>1. SafeInv /\ [Next]_vars =>
        [\A n \in lock \ lock', c \in Client :
           pc'[c] # pc[c] => n.token = token[c] \/ n.proc \notin alive]_vars
  <2> SUFFICES ASSUME SafeInv, [Next]_vars,
                      NEW n \in lock \ lock', NEW c \in Client, pc'[c] # pc[c]
               PROVE  n.token = token[c] \/ n.proc \notin alive
    BY DEF SafeInv
  <2>1. PICK d \in Client : UndoRemove(d) \/ RemoveStale(d) \/ Unlock(d)
    BY DEF Next, LockRealm, Step, Stop, Flock, UnlockFile, CreateLock, CreateRefused, UndoInspect,
       InspectReleased, InspectStale, InspectHeld, Wake, FlockEnds, CreateFails, InspectFails, SleepEnds, MakeLock, NewLock, NameFree, End, LateCreate, LateRemove, ForeignNetwork, RemoveByHand, vars, Goto
  <2>2. d = c
    BY <2>1 DEF UndoRemove, RemoveStale, Unlock, Goto, SafeInv, TypeOK
  <2>3. n.id = id[c]
    BY <2>1, <2>2 DEF UndoRemove, RemoveStale, Unlock, WithoutID
  <2> QED
    BY <2>1, <2>2, <2>3 DEF UndoRemove, RemoveStale, Unlock, SafeInv, RemovalInv
<1> QED
  BY <1>1, SafeCorrect, PTL DEF Spec, LiveLockStays

(* As long as nobody removes a live lock by hand, a step keeps each        *)
(* holder's network on the daemon.                                         *)
LEMMA HolderStep ==
  ASSUME "rmAny" \notin Faults, SafeInv, HolderInv, [Next]_vars
  PROVE  HolderInv'
<1> USE ClientAssumption DEF SafeInv, TypeOK, FreshInv, RemovalInv, HolderInv, Holders, Inside, Pc, HasFile, Polling, Network
<1>1. ASSUME NEW c \in Client, LockRealm(c)
      PROVE  HolderInv'
  BY <1>1 DEF LockRealm, AfterFile, FileFree
<1>2. ASSUME NEW c \in Client, Step(c)
      PROVE  HolderInv'
  <2>1. CASE Flock(c)
    BY <2>1 DEF Flock, AfterFile, FileFree
  <2>2. CASE UnlockFile(c)
    BY <2>2 DEF UnlockFile
  <2>3. CASE CreateLock(c)
    BY <2>3 DEF CreateLock, MakeLock, NewLock, NameFree, Goto
  <2>4. CASE CreateRefused(c)
    BY <2>4 DEF CreateRefused, Goto
  <2>5. CASE UndoInspect(c)
    BY <2>5 DEF UndoInspect, IsOwn, Goto
  <2>6. CASE UndoRemove(c)
    <3>1. \A d \in Holders : id[d] # id[c]
      BY <2>6 DEF UndoRemove
    <3> QED
      BY <2>6, <3>1 DEF UndoRemove, RemovalFails, WithoutID, Goto
  <2>7. CASE InspectReleased(c)
    BY <2>7 DEF InspectReleased, Goto
  <2>8. CASE InspectStale(c)
    BY <2>8 DEF InspectStale, Gone, Goto
  <2>9. CASE InspectHeld(c)
    BY <2>9 DEF InspectHeld, Goto
  <2>10. CASE RemoveStale(c)
    <3>1. \A d \in Holders : id[d] # id[c]
      BY <2>10 DEF RemoveStale
    <3> QED
      BY <2>10, <3>1 DEF RemoveStale, RemovalFails, WithoutID, Goto
  <2>11. CASE Wake(c)
    BY <2>11 DEF Wake, Goto
  <2>12. CASE Unlock(c)
    <3>1. \A d \in Holders \ {c} : c \notin FileOnly => id[d] # id[c]
      BY <2>12 DEF Unlock
    <3> QED
      BY <2>12, <3>1 DEF Unlock, RemovalFails, WithoutID, Goto
  <2> QED
    BY <1>2, <2>1, <2>2, <2>3, <2>4, <2>5, <2>6, <2>7, <2>8, <2>9, <2>10, <2>11, <2>12 DEF Step
<1>3. ASSUME NEW c \in Client, Stop(c)
      PROVE  HolderInv'
  <2>1. CASE FlockEnds(c)
    BY <2>1 DEF FlockEnds
  <2>2. CASE CreateFails(c)
    BY <2>2 DEF CreateFails, MakeLock, NewLock, NameFree, Goto
  <2>3. CASE InspectFails(c)
    BY <2>3 DEF InspectFails, Goto
  <2>4. CASE SleepEnds(c)
    BY <2>4 DEF SleepEnds, Goto
  <2> QED
    BY <1>3, <2>1, <2>2, <2>3, <2>4 DEF Stop
<1>4. ASSUME NEW p \in Process, End(p)
      PROVE  HolderInv'
  <2>1. \A d \in Holders : d \notin Callers(p) => id[d] \notin PendingRemovals(Callers(p))
    BY DEF PendingRemovals, Callers
  <2>2. /\ pc' = [c \in Client |-> IF c \in Callers(p) THEN "dead" ELSE pc[c]]
        /\ flocked' = flocked \ Callers(p) /\ Callers(p) \subseteq Client
        /\ \/ lateRemove' = lateRemove
           \/ \E R \in SUBSET PendingRemovals(Callers(p)) : lateRemove' = lateRemove \union R
        /\ UNCHANGED <<token, id, lock, nextToken, nextID>>
    BY <1>4 DEF End, Callers
  <2> QED
    BY <2>1, <2>2
<1>5. CASE LateCreate
  BY <1>5 DEF LateCreate, MakeLock, NewLock, NameFree
<1>6. CASE LateRemove
  BY <1>6 DEF LateRemove, WithoutID
<1>7. CASE ForeignNetwork
  BY <1>7 DEF ForeignNetwork, MakeLock, NewLock, NameFree
<1>8. CASE RemoveByHand
  BY <1>8 DEF RemoveByHand
<1>9. CASE UNCHANGED vars
  BY <1>9 DEF vars
<1> QED
  BY <1>1, <1>2, <1>3, <1>4, <1>5, <1>6, <1>7, <1>8, <1>9 DEF Next

(* LockInv is what makes the holders exclude each other: the holders of    *)
(* one directory have one file lock, and the holders of the daemon lock    *)
(* each have the one network there is, with their own token.               *)
LEMMA InvExcludes == SafeInv /\ HolderInv => MutualExclusion
<1> SUFFICES ASSUME SafeInv, HolderInv, NEW a \in Inside, NEW b \in Inside, <<a, b>> \in Excludes
             PROVE  FALSE
  BY DEF MutualExclusion
<1>1. a # b /\ a \in Client /\ b \in Client
  BY DEF Excludes, Inside
<1>2. CASE dirOf[a] = dirOf[b]
  BY <1>1, <1>2 DEF SafeInv, FileInv, HasFile, Inside
<1>3. CASE a \notin FileOnly /\ b \notin FileOnly
  <2>1. a \in Holders /\ b \in Holders
    BY <1>1, <1>3 DEF Holders
  <2>2. token[a] = token[b]
    BY <2>1 DEF HolderInv, SafeInv, TypeOK
  <2>3. token[a] # 0
    BY <1>1 DEF SafeInv, FreshInv, Inside
  <2> QED
    BY <1>1, <2>2, <2>3 DEF SafeInv, FreshInv
<1> QED
  BY <1>2, <1>3 DEF Excludes

(* The inductive invariant, under the one assumption the code leaves to    *)
(* its user: nobody removes the lock of a running command by hand.         *)
THEOREM LockInvHolds ==
  ASSUME "rmAny" \notin Faults
  PROVE  Spec => []LockInv
<1>1. Init => HolderInv
  BY DEF Init, HolderInv, Holders, Inside
<1>2. SafeInv /\ HolderInv /\ [Next]_vars => HolderInv'
  BY HolderStep
<1>3. SafeInv /\ HolderInv => LockInv
  BY DEF SafeInv, LockInv
<1> QED
  BY <1>1, <1>2, <1>3, SafeCorrect, PTL DEF Spec

(* LockRealm keeps apart the callers that share a state directory and      *)
(* those that lock the daemon, for every number of them.                   *)
THEOREM MutualExclusionHolds ==
  ASSUME "rmAny" \notin Faults
  PROVE  Spec => []MutualExclusion
<1>1. SafeInv /\ LockInv => MutualExclusion
  BY InvExcludes DEF LockInv
<1> QED
  BY <1>1, SafeCorrect, LockInvHolds, PTL

(* A step of the lock is an acquisition, a release or a stutter of the     *)
(* mutex.                                                                  *)
LEMMA InsideStep ==
  ASSUME SafeInv, [Next]_vars
  PROVE  \/ Inside' = Inside
         \/ \E c \in Client \ Inside : Inside' = Inside \union {c}
         \/ Inside' # Inside /\ Inside' \subseteq Inside
<1> USE DEF SafeInv, TypeOK, Inside
<1>1. ASSUME NEW c \in Client, UNCHANGED pc \/ \E place : pc' = [pc EXCEPT ![c] = place]
      PROVE  \/ Inside' = Inside
             \/ \E d \in Client \ Inside : Inside' = Inside \union {d}
             \/ Inside' # Inside /\ Inside' \subseteq Inside
  <2>1. CASE UNCHANGED pc
    BY <2>1
  <2>2. ASSUME NEW place, pc' = [pc EXCEPT ![c] = place]
        PROVE \/ Inside' = Inside
              \/ \E d \in Client \ Inside : Inside' = Inside \union {d}
              \/ Inside' # Inside /\ Inside' \subseteq Inside
    <3>1. CASE place # "held"
      BY <2>2, <3>1
    <3>2. CASE place = "held" /\ c \in Inside
      BY <2>2, <3>2
    <3>3. CASE place = "held" /\ c \notin Inside
      <4>1. Inside' = Inside \union {c}
        BY <2>2, <3>3
      <4> QED
        BY <3>3, <4>1
    <3> QED
      BY <3>1, <3>2, <3>3
  <2> QED
    BY <1>1, <2>1, <2>2
<1>2. ASSUME NEW c \in Client, LockRealm(c) \/ Step(c) \/ Stop(c)
      PROVE  \E place : pc' = [pc EXCEPT ![c] = place]
  BY <1>2 DEF LockRealm, Step, Stop, Flock, UnlockFile, CreateLock, CreateRefused, UndoInspect,
     UndoRemove, InspectReleased, InspectStale, InspectHeld, RemoveStale, Wake, Unlock,
     FlockEnds, CreateFails, InspectFails, SleepEnds, Goto
<1>3. ASSUME NEW p \in Process, End(p)
      PROVE  Inside' \subseteq Inside
  BY <1>3 DEF End
<1>4. CASE LateCreate \/ LateRemove \/ ForeignNetwork \/ RemoveByHand \/ UNCHANGED vars
  BY <1>4 DEF LateCreate, LateRemove, ForeignNetwork, RemoveByHand, vars
<1> QED
  BY <1>1, <1>2, <1>3, <1>4 DEF Next

(* LockRealm and the unlock function it returns are a mutex.               *)
THEOREM LockImplementsMutex ==
  ASSUME "rmAny" \notin Faults
  PROVE  Spec => ImplementsMutex
<1>1. Init => Mutex!Init
  BY DEF Init, Mutex!Init, Inside
<1>2. SafeInv /\ MutualExclusion' /\ [Next]_vars => [Mutex!Next]_Inside
  <2> SUFFICES ASSUME SafeInv, MutualExclusion', [Next]_vars
               PROVE  [Mutex!Next]_Inside
    OBVIOUS
  <2>1. ASSUME NEW c \in Client \ Inside, Inside' = Inside \union {c}
        PROVE  Mutex!Acquire(c)
    BY <2>1 DEF MutualExclusion, Mutex!Acquire, Excludes
  <2>2. ASSUME Inside' # Inside, Inside' \subseteq Inside
        PROVE  Mutex!Release(Inside \ Inside')
    BY <2>2 DEF Mutex!Release
  <2> QED
    BY <2>1, <2>2, InsideStep DEF Mutex!Next
<1> QED
  BY <1>1, <1>2, SafeCorrect, MutualExclusionHolds, PTL DEF Spec, ImplementsMutex, Mutex!Spec
(* The call that made a lock still holds it, or is about to take it back.  *)
Owner(c, n) ==
  /\ c \in Client \ FileOnly /\ token[c] = n.token /\ procOf[c] = n.proc
  /\ \/ pc[c] = "undo"
     \/ pc[c] \in {"held", "undoRemove"} /\ id[c] = n.id

(* The inductive invariant behind NoLeftover: each lock of a process that  *)
(* runs has its call, which knows the ID once it has one to remove.        *)
LeftoverInv ==
  /\ lateCreate = {}
  /\ \A c \in FileOnly : pc[c] \notin Polling
  /\ \A n \in lock : n.token # 0 /\ n.proc \in alive => \E c \in Client : Owner(c, n)

(* As long as docker does what it is asked, and no later, a step keeps     *)
(* each lock with the call that made it.                                   *)
LEMMA LeftoverStep ==
  ASSUME "docker" \notin Faults, "late" \notin Faults, SafeInv, LeftoverInv, [Next]_vars
  PROVE  LeftoverInv'
<1> USE ClientAssumption
    DEF SafeInv, TypeOK, FreshInv, LeftoverInv, Owner, Pc, HasFile, Polling, Network
<1>1. ASSUME NEW c \in Client, LockRealm(c)
      PROVE  LeftoverInv'
  BY <1>1 DEF LockRealm, AfterFile
<1>2. ASSUME NEW c \in Client, Step(c)
      PROVE  LeftoverInv'
  <2>1. CASE Flock(c)
    BY <2>1 DEF Flock, AfterFile
  <2>2. CASE UnlockFile(c)
    BY <2>2 DEF UnlockFile
  <2>3. CASE CreateLock(c)
    BY <2>3 DEF CreateLock, MakeLock, NewLock, NameFree, Goto
  <2>4. CASE CreateRefused(c)
    BY <2>4 DEF CreateRefused, Goto
  <2>5. CASE UndoInspect(c)
    BY <2>5 DEF UndoInspect, IsOwn, Goto
  <2>6. CASE UndoRemove(c)
    BY <2>6 DEF UndoRemove, RemovalFails, WithoutID, Goto
  <2>7. CASE InspectReleased(c) \/ InspectHeld(c) \/ Wake(c)
    BY <2>7 DEF InspectReleased, InspectHeld, Wake, Goto
  <2>8. CASE InspectStale(c)
    BY <2>8 DEF InspectStale, Goto
  <2>9. CASE RemoveStale(c)
    BY <2>9 DEF RemoveStale, RemovalFails, WithoutID, Goto
  <2>10. CASE Unlock(c)
    BY <2>10 DEF Unlock, RemovalFails, WithoutID, Goto
  <2> QED
    BY <1>2, <2>1, <2>2, <2>3, <2>4, <2>5, <2>6, <2>7, <2>8, <2>9, <2>10 DEF Step
<1>3. ASSUME NEW c \in Client, Stop(c)
      PROVE  LeftoverInv'
  <2>1. CASE CreateFails(c)
    BY <2>1 DEF CreateFails, MakeLock, NewLock, NameFree, Goto
  <2>2. CASE FlockEnds(c) \/ InspectFails(c) \/ SleepEnds(c)
    BY <2>2 DEF FlockEnds, InspectFails, SleepEnds, Goto
  <2> QED
    BY <1>3, <2>1, <2>2 DEF Stop
<1>4. ASSUME NEW p \in Process, End(p)
      PROVE  LeftoverInv'
  BY <1>4 DEF End, Callers
<1>5. CASE LateCreate
  BY <1>5 DEF LateCreate
<1>6. CASE LateRemove
  BY <1>6 DEF LateRemove, WithoutID
<1>7. CASE ForeignNetwork
  BY <1>7 DEF ForeignNetwork, MakeLock, NewLock, NameFree
<1>8. CASE RemoveByHand
  BY <1>8 DEF RemoveByHand
<1>9. CASE UNCHANGED vars
  BY <1>9 DEF vars
<1> QED
  BY <1>1, <1>2, <1>3, <1>4, <1>5, <1>6, <1>7, <1>8, <1>9 DEF Next

(* A call that failed, was cancelled or has released its lock leaves no    *)
(* network of a running process behind, whatever its user removes by hand, *)
(* under the assumption on docker that the property's comment names.       *)
THEOREM NoLeftoverHolds ==
  ASSUME "docker" \notin Faults, "late" \notin Faults
  PROVE  Spec => []NoLeftover
<1>1. Init => LeftoverInv
  BY ClientAssumption DEF Init, LeftoverInv, Polling
<1>2. SafeInv /\ LeftoverInv /\ [Next]_vars => LeftoverInv'
  BY LeftoverStep
<1>3. LeftoverInv => NoLeftover
  BY DEF LeftoverInv, NoLeftover, Owner
<1> QED
  BY <1>1, <1>2, <1>3, SafeCorrect, PTL DEF Spec
===============================================================================

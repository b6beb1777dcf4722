------------------------------ MODULE RealmMutex ------------------------------
(***************************************************************************)
(* What the realm lock of pkg/state promises its callers, without how it   *)
(* is kept: of the callers that exclude each other, one at a time changes  *)
(* the realm.  RealmLock implements this module.                           *)
(***************************************************************************)
CONSTANTS
  Client,     \* the callers of state.LockRealm
  Excludes    \* <<a, b>>: the calls of a and b must not overlap

VARIABLE owners   \* the callers between LockRealm's return and their unlock

Init == owners = {}

(* LockRealm returns to c: nobody it excludes is inside.                   *)
Acquire(c) ==
  /\ c \notin owners
  /\ \A o \in owners : <<c, o>> \notin Excludes
  /\ owners' = owners \union {c}

(* Callers leave: one unlocks, or a killed process takes all of its own    *)
(* with it.                                                                *)
Release(gone) ==
  /\ gone # {}
  /\ owners' = owners \ gone

Next ==
  \/ \E c \in Client : Acquire(c)
  \/ \E gone \in SUBSET owners : Release(gone)

Spec == Init /\ [][Next]_owners
===============================================================================

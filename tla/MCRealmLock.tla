------------------------------ MODULE MCRealmLock ------------------------------
(* Instances of RealmLock for TLC.                                         *)
EXTENDS RealmLock, TLC

CONSTANTS c1, c2, c3, c4, p1, p2, p3

(* Three commands: c1 and c2 of one user, c3 another user's; c1 and c3 run *)
(* on one host, c2 in a container or elsewhere.                            *)
ProcOf == (c1 :> p1) @@ (c2 :> p2) @@ (c3 :> p3)
TwoDirs == (c1 :> "d1") @@ (c2 :> "d1") @@ (c3 :> "d2")
TwoHosts == (p1 :> "host") @@ (p2 :> "container") @@ (p3 :> "host")

(* One host: c1 and c4 are goroutines of one process, c2 is another        *)
(* process of that user's, and c3 another user's.                          *)
GoroutineProcOf == ProcOf @@ (c4 :> p1)
GoroutineDirs == TwoDirs @@ (c4 :> "d1")
OneHost == [p \in {p1, p2, p3} |-> "host"]
===============================================================================

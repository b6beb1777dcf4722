------------------------------ MODULE MCLifecycle -------------------------------
(* Instances of Lifecycle for TLC: cluster a with two nodes, or one, and     *)
(* cluster b with one.                                                       *)
EXTENDS Lifecycle

CONSTANTS a, b, a1, a2, b1

MCCluster == {a, b}
MCName == {a1, a2, b1}
MCSmall == {a1, b1}
MCClusterOf == [n \in MCName |-> IF n = b1 THEN b ELSE a]
MCSmallOf == [n \in MCSmall |-> IF n = b1 THEN b ELSE a]
MCFaults == {"fail", "done", "kill", "reboot"}
MCFails == {"fail"}
===============================================================================

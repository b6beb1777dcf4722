------------------------------- MODULE MCStore -------------------------------
(***************************************************************************)
(* Two machines of sind ui for TLC in one run, each of which keeps its     *)
(* part of the store.  A behaviour is one of the machine that `machine'    *)
(* names; the other one rests, with no step of its own due.                *)
(*                                                                         *)
(* TaskRunner: two tasks, one of which writes an event log, or that one    *)
(* alone, or a command in a terminal, with logs that may be silent.  The   *)
(* store keeps one ended task, so that the older is dropped while its run  *)
(* is still in the log.                                                    *)
(* Collector: one cluster, which the store does not know yet.              *)
(***************************************************************************)
EXTENDS TaskRunner, Collector

CONSTANTS t1, t2, o1

VARIABLE machine

MCCasts == {{t1, t2}, {t1}, {o1}}
MCLulls == {{t1}, {o1}}

everything == <<machine, vars, collectVars>>

\* A store that knows the cluster as it is.
AtRest ==
    /\ cluster = 0 /\ changed = 0 /\ stream = "up" /\ breaks = 0
    /\ sindBus = FALSE /\ statusBus = "no"
    /\ lister = "idle" /\ listed = TRUE /\ topic = FALSE
    /\ page = "none" /\ visits = 0 /\ resume = FALSE /\ fresh = FALSE /\ wake = FALSE
    /\ seen = TRUE /\ due = "no" /\ reading = Idle /\ stored = 0

Begin ==
    /\ Init
    /\ \/ machine = "tasks" /\ AtRest
       \/ machine = "collectors" /\ CollectInit /\ cast = {o1}

Advance ==
    /\ UNCHANGED machine
    /\ \/ machine = "tasks" /\ Next /\ UNCHANGED collectVars
       \/ machine = "collectors" /\ CollectNext /\ UNCHANGED vars

Machines == Begin /\ [][Advance]_everything /\ Fairness /\ CollectFairness
=============================================================================

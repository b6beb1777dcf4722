----------------------------- MODULE MCReadyWait -----------------------------
(***************************************************************************)
(* A node whose wait runs the container probe and two unit probes, with    *)
(* channels small enough to be full.                                       *)
(***************************************************************************)
EXTENDS ReadyWait

CONSTANTS sshd, munge, none

MCUnits == {sshd, munge}
MCProbeUnit == <<none, sshd, munge>>
=============================================================================

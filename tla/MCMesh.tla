--------------------------------- MODULE MCMesh ---------------------------------
(* Instances of Mesh for TLC.                                                *)
EXTENDS Mesh

CONSTANT n1

MCName == {n1}
MCFaults == AllFaults
MCKills == {"kill"}
===============================================================================

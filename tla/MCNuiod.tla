------------------------------ MODULE MCNuiod ------------------------------
(***************************************************************************)
(* Instances of the daemon for TLC: cpu 0 belongs to node 0, the others to *)
(* node 1.                                                                 *)
(***************************************************************************)
EXTENDS NuiodProperties

const_NodeOf == [c \in Cpu |-> IF c = 0 THEN 0 ELSE 1]
=============================================================================

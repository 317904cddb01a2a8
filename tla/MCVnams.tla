------------------------------ MODULE MCVnams ------------------------------
(***************************************************************************)
(* An instance of daemon and strategy for TLC: two nodes, cpu 0 belongs to *)
(* node 0, the others to node 1.  Both VMs have the same home and the first*)
(* one may be I/O intensive.                                               *)
(***************************************************************************)
EXTENDS Vnams

const_NodeOf == [c \in Cpu |-> IF c = 0 THEN 0 ELSE 1]

const_Lat == [m \in Node |-> <<m, 1 - m>>]

const_Loads ==
  {[d \in Dom |-> [home |-> h, pps |-> IF d = 1 THEN p ELSE 0, idle |-> FALSE]] :
     h \in Node, p \in Pps}
=============================================================================

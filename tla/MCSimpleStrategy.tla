-------------------------- MODULE MCSimpleStrategy --------------------------
(***************************************************************************)
(* Instances of the strategy for TLC.  Distances between nodes are those   *)
(* of a ring, ties going to the lower node: every node is its own nearest. *)
(***************************************************************************)
EXTENDS SimpleStrategyProperties, SequencesExt

Dist(m, n) ==
  LET d == IF m < n THEN n - m ELSE m - n
  IN  IF d <= Cardinality(Node) - d THEN d ELSE Cardinality(Node) - d

const_Lat ==
  [m \in Node |->
     SetToSortSeq(Node, LAMBDA a, b :
        Dist(m, a) < Dist(m, b) \/ (Dist(m, a) = Dist(m, b) /\ a < b))]
=============================================================================

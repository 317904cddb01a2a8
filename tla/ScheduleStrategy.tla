-------------------------- MODULE ScheduleStrategy --------------------------
(***************************************************************************)
(* The interface between the daemon and a scheduling strategy              *)
(* (include/ScheduleStrategy.h): schedule() is given the VMs the daemon    *)
(* knows and returns decisions, each naming one of those VMs and the NUMA  *)
(* node its vCPU should run on.  Nuiod::perform looks every decision's VM  *)
(* up in vm_infos_map and moves it once, so it relies on decisions naming  *)
(* known VMs and naming no VM twice.                                       *)
(***************************************************************************)
EXTENDS Integers

CONSTANT Node    \* numbers of the NUMA nodes

ASSUME NodeAssumption == Node \subseteq Nat /\ 0 \in Node

\* Decision.h: mem_node_id always equals cpu_node_id and is never read.
Decision(V) == [dom : V, node : Node]

\* What schedule() may return for the VMs V.  The order of the decisions is
\* left open: perform handles them one by one.
Schedules(V) ==
  {S \in SUBSET Decision(V) : \A a, b \in S : a.dom = b.dom => a = b}
=============================================================================

------------------------------- MODULE Vnams -------------------------------
(***************************************************************************)
(* The daemon with its real strategy: between the refresh of a pass and    *)
(* its perform, Nuiod.tla's abstract Schedule becomes one whole call of    *)
(* SimpleStrategy, made with the records the daemon has just then.         *)
(*                                                                         *)
(* What the strategy asks of a VM (its home node, its rate, whether its    *)
(* cpu is idle) is fixed for a behaviour, to see where the daemon settles. *)
(* The call reads nothing but its arguments, so what happens on the host   *)
(* meanwhile may as well happen before it.                                 *)
(***************************************************************************)
EXTENDS NuiodProperties

CONSTANTS
  NetNode, Lat, Pps, Idle, io_threshold,
  Loads    \* bound: what the VMs may ask of the strategy

VARIABLES
  load,          \* per domain: home node, rate and idleness
  spc, sacts, vm_infos, rest, vm_state, vmStateMap, vm_on_node, node_vm_vec,
  max_vm_idx, min_load_node, flag, turns

S == INSTANCE SimpleStrategy WITH Vm <- Dom, pc <- spc, acts <- sacts

strategyVars ==
  <<vm_infos, spc, rest, vm_state, vmStateMap, vm_on_node, node_vm_vec, max_vm_idx,
    min_load_node, flag, sacts, turns>>

allVars == <<vars, strategyVars, load>>

\* What SimpleStrategy assumes of its constants.
ASSUME StrategyAssumption ==
  /\ Node = 0..(Cardinality(Node) - 1) /\ IsFiniteSet(Node)
  /\ NetNode \in Node
  /\ Lat \in [Node -> Seq(Node)]
  /\ \A m, n \in Node : \E i \in DOMAIN Lat[m] : Lat[m][i] = n
  /\ Idle \subseteq BOOLEAN
  /\ Pps \subseteq Nat /\ io_threshold \in Nat
ASSUME LoadsAssumption == Loads \subseteq [Dom -> S!VmInfo]

VnamsTypeOK ==
  /\ S!TypeOK
  /\ load \in Loads
  /\ spc # "idle" => pc = "schedule" /\ DOMAIN vm_infos = vms

VnamsInit ==
  /\ Init
  /\ S!Init
  /\ load \in Loads

-----------------------------------------------------------------------------
\* Mutant: schedule is called before the mapping is refreshed.
CallStrategy_Early ==
  /\ pc = "refresh"
  /\ spc = "idle"
  /\ S!Call([d \in vms |-> load[d]])
  /\ UNCHANGED <<vars, load>>

\* schedule(vm_infos_map, ...) is called.  The home of a VM that was never
\* given one is whatever its VM_info happened to contain, if that is a node.
CallStrategy ==
  /\ pc = "schedule"
  /\ spc = "idle"
  /\ S!Call([d \in vms |-> load[d]])
  /\ UNCHANGED <<vars, load>>

RunStrategy ==
  /\ S!Body
  /\ UNCHANGED <<vars, load>>

\* schedule returns; its decisions go to perform.
StrategyReturns ==
  /\ S!Return
  /\ acts' = sacts
  /\ pc' = "perform"
  /\ UNCHANGED <<hostVars, mapVars, initVars, placed, todo, load>>

\* Everything else the daemon does.
DaemonStep ==
  /\ IF pc = "schedule" THEN spc = "idle" /\ ScheduleHomeless
                        ELSE InitNext \/ CallbackNext \/ PassNext
  /\ UNCHANGED <<strategyVars, load>>

AnyHostStep ==
  /\ pc # "schedule"
  /\ HostStep
  /\ UNCHANGED <<strategyVars, load>>

VnamsNext == CallStrategy \/ RunStrategy \/ StrategyReturns \/ DaemonStep \/ AnyHostStep

VnamsSpec == VnamsInit /\ [][VnamsNext]_allVars

Repins(d) == \E a \in acts : a.dom = d /\ PerformPin(a) /\ UNCHANGED <<strategyVars, load>>

Obeys(d) ==
  /\ vcpu[d] \notin affinity[d]
  /\ SchedulerMove(d)
  /\ UNCHANGED <<pc, mapVars, initVars, passVars, todo, strategyVars, load>>

(***************************************************************************)
(* The main loop goes on; of the pins libvirt is asked for, not all fail   *)
(* for ever; and Linux does move a pinned vCPU to its cpu.                 *)
(***************************************************************************)
FairVnams ==
  /\ VnamsSpec
  /\ WF_allVars(CallStrategy \/ RunStrategy \/ StrategyReturns \/ DaemonStep)
  /\ \A d \in Dom : SF_allVars(Repins(d)) /\ WF_allVars(Obeys(d))

-----------------------------------------------------------------------------
(***************************************************************************)
(* What strategy and daemon promise together.                              *)
(***************************************************************************)

\* The daemon with its real strategy is the daemon of Nuiod.tla: the strategy
\* gives perform what ScheduleStrategy.tla promises, so that all that is true
\* of Nuiod is true here.
ImplementsDaemon == Spec

\* While what the VMs need stays the same, the daemon settles: from some pass
\* on it moves no VM any more, and every VM the strategy wants on some node is
\* recorded there or has no free cpu there to move to.
Settles ==
  <>[]/\ placed = [d \in Dom |-> NoCpu]
      /\ pc = "perform" =>
           \A a \in acts : CurrentNode(a.dom) = a.node \/ FreeCpus(a.node) = {}

=============================================================================

--------------------------- MODULE SimpleStrategy ---------------------------
(***************************************************************************)
(* SimpleStrategy::schedule (src/SimpleStrategy.cpp): one call, from the   *)
(* daemon's VMs to a list of decisions.  analyze first sorts the VMs into  *)
(* a list per NUMA node, then moves VMs between the lists until it calls   *)
(* them balanced, then turns the lists into decisions.                     *)
(*                                                                         *)
(* One step is one VM of the classifying loop or one iteration of the      *)
(* balancing loop.  A node's list<int> is a sequence of VM ids.  Three     *)
(* local variables of the code are operators here, because each is always  *)
(* read off node_vm_vec: high_load_node, max_vm_cnt and min_vm_cnt.        *)
(***************************************************************************)
EXTENDS ScheduleStrategy, Sequences, FiniteSets

CONSTANTS
  Vm,            \* ids that VMs in vm_infos_map may have
  NetNode,       \* netdev_numanode
  Lat,           \* per node: all nodes, itself included, nearest first
  Pps,           \* bound: smoothed packets per second a VM may show
  Idle,          \* bound: may a VM's cpu be idle?
  io_threshold   \* the strategy's own; the configured one never reaches it

ASSUME VmAssumption == Vm \subseteq Nat /\ IsFiniteSet(Vm)
ASSUME NodeRange == IsFiniteSet(Node) /\ Node = 0..(Cardinality(Node) - 1)
ASSUME NetNodeAssumption == NetNode \in Node
ASSUME LatAssumption ==
  /\ Lat \in [Node -> Seq(Node)]
  /\ \A m, n \in Node : \E i \in DOMAIN Lat[m] : Lat[m][i] = n
ASSUME IdleAssumption == Idle \subseteq BOOLEAN
ASSUME PpsAssumption == Pps \subseteq Nat /\ io_threshold \in Nat

VARIABLES
  vm_infos,      \* the input: home node, pps and idleness of each VM
  pc,
  rest,          \* VMs the classifying loop has yet to visit
  vm_state,      \* the local VM_state, which no iteration initialises
  vmStateMap,    \* VM -> state; "none" is a missing key
  vm_on_node,    \* node -> list of the VMs to run there
  node_vm_vec,   \* nodes with the lengths of their lists, fewest VMs first
  max_vm_idx,    \* index into node_vm_vec
  min_load_node,
  flag,          \* first: is any VM counted?  then: was there an iteration?
  acts,          \* the decisions
  turns          \* history: iterations of the balancing loop so far

loopVars == <<node_vm_vec, max_vm_idx, min_load_node>>
vars == <<vm_infos, pc, rest, vm_state, vmStateMap, vm_on_node, loopVars, flag, acts,
          turns>>

\* Of a VM whose cpu is idle neither home nor rate is ever used: one record
\* stands for all of them.
VmInfo ==
  [home : Node, pps : Pps, idle : Idle \ {TRUE}] \cup
  [home : {0}, pps : {0}, idle : Idle \ {FALSE}]

\* The map schedule is given.  Ids are only compared, so the first k of them
\* stand for any k.
VmInfos == UNION {[{v \in Vm : v <= k} -> VmInfo] : k \in Vm \cup {-1}}

State == {"IO_STAT", "OTHER_STAT", "IDLE_STAT"}

NodeCount == [node : Node, cnt : Nat]

TypeOK ==
  /\ DOMAIN vm_infos \subseteq Vm
  /\ \A v \in DOMAIN vm_infos : vm_infos[v] \in VmInfo
  /\ pc \in {"idle", "classify", "balance", "single", "decide", "done"}
  /\ rest \subseteq DOMAIN vm_infos
  /\ vm_state \in State
  /\ vmStateMap \in [Vm -> State \cup {"none"}]
  /\ vm_on_node \in [Node -> Seq(Vm)]
  /\ node_vm_vec \in Seq(NodeCount)
  /\ pc \in {"balance", "single"} => max_vm_idx \in DOMAIN node_vm_vec
  /\ min_load_node \in Node
  /\ flag \in BOOLEAN
  /\ acts \subseteq Decision(DOMAIN vm_infos)
  /\ turns \in Nat

\* No call of schedule has been made yet, or the last one is over.
Init ==
  /\ vm_infos = <<>>
  /\ pc = "idle"
  /\ rest = {}
  /\ vm_state = "OTHER_STAT"
  /\ vmStateMap = [v \in Vm |-> "none"]
  /\ vm_on_node = [n \in Node |-> <<>>]
  /\ node_vm_vec = <<>>
  /\ max_vm_idx = 0
  /\ min_load_node = 0
  /\ flag = FALSE
  /\ acts = {}
  /\ turns = 0

\* schedule is called with the VMs infos.  vm_state starts as whatever the
\* stack holds.
Call(infos) ==
  /\ pc = "idle"
  /\ vm_infos' = infos
  /\ pc' = "classify"
  /\ rest' = DOMAIN infos
  /\ vm_state' \in {"OTHER_STAT", "IDLE_STAT"}
  /\ UNCHANGED <<vmStateMap, vm_on_node, loopVars, flag, acts, turns>>

\* schedule returns its decisions; its locals are gone.
Return ==
  /\ pc = "done"
  /\ vm_infos' = <<>>
  /\ pc' = "idle"
  /\ rest' = {}
  /\ vm_state' = "OTHER_STAT"
  /\ vmStateMap' = [v \in Vm |-> "none"]
  /\ vm_on_node' = [n \in Node |-> <<>>]
  /\ node_vm_vec' = <<>>
  /\ max_vm_idx' = 0
  /\ min_load_node' = 0
  /\ flag' = FALSE
  /\ acts' = {}
  /\ turns' = 0

-----------------------------------------------------------------------------
(***************************************************************************)
(* The lists.                                                              *)
(***************************************************************************)
Elems(s) == {s[i] : i \in DOMAIN s}

\* s without its i-th element: list::erase.
Erase(s, i) == SubSeq(s, 1, i - 1) \o SubSeq(s, i + 1, Len(s))

\* Mutant: the VM stays in its old list.
Moved_Copied(from, i, to) ==
  [vm_on_node EXCEPT ![to] = Append(@, vm_on_node[from][i])]

\* Mutant: the first VM of the list is erased, not the one found.
Moved_WrongErase(from, i, to) ==
  LET erased == [vm_on_node EXCEPT ![from] = Erase(@, 1)]
  IN  [erased EXCEPT ![to] = Append(@, vm_on_node[from][i])]

\* Move the i-th VM of node from's list to the end of node to's list.
Moved(from, i, to) ==
  LET erased == [vm_on_node EXCEPT ![from] = Erase(@, i)]
  IN  [erased EXCEPT ![to] = Append(@, vm_on_node[from][i])]

\* Reading vmStateMap[v] through operator[] gives a missing key the enum's
\* first value.
StateOf(v) == IF vmStateMap[v] = "none" THEN "IO_STAT" ELSE vmStateMap[v]

\* The places of a list that hold a VM of the given state.
Places(n, state) == {i \in DOMAIN vm_on_node[n] : StateOf(vm_on_node[n][i]) = state}

IsFirst(i, places) == i \in places /\ \A j \in places : i <= j

\* All orders of the nodes.
Orders ==
  {p \in [1..Cardinality(Node) -> Node] : \A n \in Node : \E i \in DOMAIN p : p[i] = n}

Counted(lists, p) == [i \in DOMAIN p |-> [node |-> p[i], cnt |-> Len(lists[p[i]])]]

\* Mutant: the sort is missing.
SortedVecs_Unsorted(lists) == {Counted(lists, p) : p \in Orders}

\* What std::sort may leave: ascending counts, ties in any order.
SortedVecs(lists) ==
  {vec \in {Counted(lists, p) : p \in Orders} :
     \A i \in 2..Len(vec) : vec[i - 1].cnt <= vec[i].cnt}

high_load_node == node_vm_vec[max_vm_idx].node
max_vm_cnt == node_vm_vec[max_vm_idx].cnt
min_vm_cnt == node_vm_vec[1].cnt

\* Mutant: max_vm_idx is the number of nodes, one past the last index.
Rebuild_PastEnd(lists) ==
  /\ node_vm_vec' \in SortedVecs(lists)
  /\ max_vm_idx' = Len(node_vm_vec') + 1
  /\ min_load_node' = node_vm_vec'[1].node

\* node_vm_vec filled and sorted anew, and all that is read off it.
Rebuild(lists) ==
  /\ node_vm_vec' \in SortedVecs(lists)
  /\ max_vm_idx' = Len(node_vm_vec')
  /\ min_load_node' = node_vm_vec'[1].node

-----------------------------------------------------------------------------
(***************************************************************************)
(* Classifying: analyzeIOState, then the idle test.                        *)
(***************************************************************************)

\* A rate equal to the threshold leaves the map alone.
IOState(pps) ==
  IF pps > io_threshold THEN "IO_STAT"
  ELSE IF pps < io_threshold THEN "OTHER_STAT" ELSE "none"

Visit(v) ==
  /\ pc = "classify"
  /\ v \in rest
  /\ \A w \in rest : v <= w
  /\ rest' = rest \ {v}
  /\ vmStateMap' = [vmStateMap EXCEPT ![v] =
                      IF vm_infos[v].idle THEN "IDLE_STAT" ELSE IOState(vm_infos[v].pps)]
  /\ UNCHANGED <<vm_infos, pc, loopVars, acts, turns>>

\* vm_state keeps IDLE_STAT from one iteration to the next: nothing resets it.
ClassifySkips(v) ==
  /\ Visit(v)
  /\ vm_infos[v].idle \/ vm_state = "IDLE_STAT"
  /\ vm_state' = "IDLE_STAT"
  /\ UNCHANGED <<vm_on_node, flag>>

ClassifyCounts(v) ==
  /\ Visit(v)
  /\ ~(vm_infos[v].idle \/ vm_state = "IDLE_STAT")
  /\ vm_on_node' = [vm_on_node EXCEPT ![vm_infos[v].home] = Append(@, v)]
  /\ flag' = TRUE
  /\ UNCHANGED vm_state

NoneCounted ==
  /\ pc = "classify"
  /\ rest = {}
  /\ ~flag
  /\ pc' = "done"
  /\ UNCHANGED <<vm_infos, turns, rest, vm_state, vmStateMap, vm_on_node, loopVars, flag, acts>>

Sort ==
  /\ pc = "classify"
  /\ rest = {}
  /\ flag
  /\ Rebuild(vm_on_node)
  /\ flag' = FALSE
  /\ pc' = "balance"
  /\ UNCHANGED <<vm_infos, turns, rest, vm_state, vmStateMap, vm_on_node, acts>>

-----------------------------------------------------------------------------
(***************************************************************************)
(* Balancing.                                                              *)
(***************************************************************************)

\* The difference is of unsigned numbers: below zero it is huge.
Unbalanced == max_vm_cnt > 1 /\ max_vm_cnt - min_vm_cnt \notin {0, 1}

\* Mutant: the netdev node is treated like any other.
OnSmallNetdevNode_Never == FALSE

OnSmallNetdevNode == high_load_node = NetNode /\ max_vm_cnt <= 2

Iterate ==
  /\ pc = "balance"
  /\ Unbalanced
  /\ flag' = TRUE
  /\ turns' = turns + 1
  /\ UNCHANGED <<vm_infos, pc, rest, vm_state, vmStateMap, acts>>

\* Mutant: the nearest node, however busy it is.
Target_Nearest == Lat[high_load_node][2]

\* Mutant: the list of the nearest nodes begins with the node itself.
Target_Itself == Lat[high_load_node][1]

\* Where a VM of the high load node goes: the nearest node with the fewest
\* VMs, or the node the search before last left in min_load_node.
Target ==
  LET near == Lat[high_load_node]
      hits == {i \in DOMAIN near : Len(vm_on_node[near[i]]) = min_vm_cnt}
  IN  IF hits = {} THEN min_load_node ELSE near[CHOOSE i \in hits : IsFirst(i, hits)]

\* Only I/O intensive VMs on the netdev node: look at the next lower node.
SkipNetdevNode ==
  /\ Iterate
  /\ OnSmallNetdevNode
  /\ Places(NetNode, "OTHER_STAT") = {}
  /\ max_vm_idx' = IF max_vm_idx = 1 THEN 1 ELSE max_vm_idx - 1
  /\ UNCHANGED <<vm_on_node, node_vm_vec, min_load_node>>

\* node_vm_vec is left as it was.
MoveOffNetdevNode ==
  /\ Iterate
  /\ OnSmallNetdevNode
  /\ \E i \in DOMAIN vm_on_node[NetNode] :
       /\ IsFirst(i, Places(NetNode, "OTHER_STAT"))
       /\ vm_on_node' = Moved(NetNode, i, Target)
  /\ min_load_node' = Target
  /\ UNCHANGED <<node_vm_vec, max_vm_idx>>

\* Mutant: node_vm_vec is not rebuilt after the move.
MoveOffHighLoadNode_Stale ==
  /\ Iterate
  /\ ~OnSmallNetdevNode
  /\ LET high == high_load_node
         io == Places(high, "IO_STAT")
         toNetdev == io # {} /\ NetNode # high /\ Len(vm_on_node[NetNode]) = min_vm_cnt
     IN  \E i \in DOMAIN vm_on_node[high] :
           /\ IF io = {} THEN i = 1 ELSE IsFirst(i, io)
           /\ vm_on_node' = Moved(high, i, IF toNetdev THEN NetNode ELSE Target)
  /\ UNCHANGED loopVars

\* The first I/O intensive VM moves, or else the first one of the list.
MoveOffHighLoadNode ==
  /\ Iterate
  /\ ~OnSmallNetdevNode
  /\ LET high == high_load_node
         io == Places(high, "IO_STAT")
         toNetdev == io # {} /\ NetNode # high /\ Len(vm_on_node[NetNode]) = min_vm_cnt
     IN  \E i \in DOMAIN vm_on_node[high] :
           /\ IF io = {} THEN i = 1 ELSE IsFirst(i, io)
           /\ vm_on_node' = Moved(high, i, IF toNetdev THEN NetNode ELSE Target)
  /\ Rebuild(vm_on_node')

Balanced ==
  /\ pc = "balance"
  /\ ~Unbalanced
  /\ pc' = IF flag THEN "decide" ELSE "single"
  /\ UNCHANGED <<vm_infos, turns, rest, vm_state, vmStateMap, vm_on_node, loopVars, flag, acts>>

-----------------------------------------------------------------------------
(***************************************************************************)
(* No iteration was needed, but the netdev node may be free.               *)
(***************************************************************************)
NetdevNodeFree ==
  /\ max_vm_cnt = 1
  /\ vm_on_node[NetNode] = <<>>
  /\ StateOf(vm_on_node[high_load_node][1]) = "IO_STAT"

UseNetdevNode ==
  /\ pc = "single"
  /\ vm_on_node' = IF NetdevNodeFree THEN Moved(high_load_node, 1, NetNode)
                                     ELSE vm_on_node
  /\ pc' = "decide"
  /\ UNCHANGED <<vm_infos, turns, rest, vm_state, vmStateMap, loopVars, flag, acts>>

Decide ==
  /\ pc = "decide"
  /\ acts' = UNION {{[dom |-> v, node |-> n] : v \in Elems(vm_on_node[n])} : n \in Node}
  /\ pc' = "done"
  /\ UNCHANGED <<vm_infos, turns, rest, vm_state, vmStateMap, vm_on_node, loopVars, flag>>

Body ==
  \/ \E v \in Vm : ClassifySkips(v) \/ ClassifyCounts(v)
  \/ NoneCounted
  \/ Sort
  \/ SkipNetdevNode
  \/ MoveOffNetdevNode
  \/ MoveOffHighLoadNode
  \/ Balanced
  \/ UseNetdevNode
  \/ Decide

Next == (pc = "idle" /\ \E infos \in VmInfos : Call(infos)) \/ Body \/ Return

Spec == Init /\ [][Next]_vars

=============================================================================

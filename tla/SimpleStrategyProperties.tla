---------------------- MODULE SimpleStrategyProperties ----------------------
(***************************************************************************)
(* What a call of SimpleStrategy::schedule promises, and what its comments *)
(* promise beyond that.                                                    *)
(***************************************************************************)
EXTENDS SimpleStrategy

Listed == UNION {Elems(vm_on_node[n]) : n \in Node}

Load(n) == Len(vm_on_node[n])

\* How many of the counted VMs have their memory on node n: the load of n
\* before any VM was moved.
HomeLoad(n) == Cardinality({v \in Listed : vm_infos[v].home = n})

\* The interface perform relies on: every decision is about a VM of the input,
\* and no VM gets two, however often balancing moved it between the lists.
DecidesOnce == acts \in Schedules(DOMAIN vm_infos)

\* Balancing loses no VM and invents none: the counted VMs are those decided.
LosesNoVm == [][pc \notin {"classify", "done"} => Listed' = Listed]_vars

\* The loop never takes a VM from a list it believes to be long but which is
\* empty (it would dereference end()), although node_vm_vec is not rebuilt
\* after a move off the netdev node.
TakesFromNonEmpty ==
  pc = "balance" /\ Unbalanced /\ ~OnSmallNetdevNode => Load(high_load_node) > 0

\* Moving VMs makes no node busier than the busiest was to begin with.
NeverRaisesPeak ==
  pc = "done" => \A n \in Node : \E m \in Node : Load(n) <= HomeLoad(m)

\* An I/O intensive VM at home on a netdev node of at most two VMs stays.
NetdevVmsStay ==
  pc = "done" /\ HomeLoad(NetNode) <= 2 =>
    \A v \in Listed :
      vm_infos[v].home = NetNode /\ StateOf(v) = "IO_STAT" => v \in Elems(vm_on_node[NetNode])

\* The nodes other than the netdev node end within one VM of each other.
OthersLevel ==
  pc = "done" => \A m, n \in Node \ {NetNode} : Load(m) <= Load(n) + 1

\* The balancing loop ends, and soon: it makes at most one iteration per
\* counted VM and one that skips the netdev node.  No VM moves back and forth.
LoopBounded == turns <= Cardinality(Listed) + 1

-----------------------------------------------------------------------------
(***************************************************************************)
(* What comments say and the code does not keep.                           *)
(***************************************************************************)

\* SimpleStrategy.cpp:108 "do not count the idle vm": all others are counted.
\* (That some VM is counted leaves out runs in which vm_state starts as idle.)
NonIdleCounted ==
  pc = "done" /\ Listed # {} => \A v \in DOMAIN vm_infos : vm_infos[v].idle \/ v \in Listed

=============================================================================

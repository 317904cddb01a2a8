--------------------- MODULE SimpleStrategyBalanceProofs ---------------------
(***************************************************************************)
(* Theorems about the balancing loop of SimpleStrategy::schedule, for any  *)
(* number of nodes and VMs: it ends within one iteration per counted VM    *)
(* and one more, makes no node busier than the busiest was, leaves I/O     *)
(* intensive VMs on a small netdev node, and levels the other nodes.       *)
(***************************************************************************)
EXTENDS SimpleStrategyProofs

-----------------------------------------------------------------------------
(***************************************************************************)
(* The invariant.  Until VMs leave a small netdev node the counts in       *)
(* node_vm_vec are true, and a node that was given a VM is among the least *)
(* busy.  From then on (Stale) the count of the netdev node is too high    *)
(* and those of the nodes it gave to are too low, but only there, and only *)
(* while a count of zero is the lowest one.                                *)
(***************************************************************************)
Home(v) == vm_infos[v].home

\* A VM is on node n that has its memory elsewhere.
Received(n) == \E v \in Elems(vm_on_node[n]) : Home(v) # n

Nodes == Len(node_vm_vec)

VecShape ==
  /\ Nodes >= 1
  /\ \A n \in Node : \E i \in 1..Nodes : node_vm_vec[i].node = n
  /\ \A i, j \in 1..Nodes : node_vm_vec[i].node = node_vm_vec[j].node => i = j
  /\ \A i, j \in 1..Nodes : i <= j => node_vm_vec[i].cnt <= node_vm_vec[j].cnt

SmallNetdev ==
  /\ Nodes > 1
  /\ node_vm_vec[Nodes] = [node |-> NetNode, cnt |-> 2]
  /\ min_vm_cnt = 0

\* No node that was given a VM has two VMs more than another.
Settled == \A m, n \in Node : Received(m) => Load(m) <= Load(n) + 1

\* The counts are true.
Fresh ==
  /\ \A i \in 1..Nodes : node_vm_vec[i].cnt = Load(node_vm_vec[i].node)
  /\ Settled
  /\ max_vm_idx = Nodes \/ (SmallNetdev /\ max_vm_idx = Nodes - 1)

Covered == Load(NetNode) = 0 /\ \A k \in Node \ {NetNode} : Load(k) >= 1

StaleCount(n, cnt) ==
  \/ Load(n) = cnt /\ (Received(n) => cnt <= 1)
  \/ cnt = 0 /\ Load(n) = 1
  \/ cnt = 0 /\ Load(n) = 2 /\ Covered

\* VMs have left a small netdev node since.
Stale ==
  /\ SmallNetdev
  /\ max_vm_idx \in {Nodes, Nodes - 1}
  /\ Load(NetNode) <= 1 /\ ~Received(NetNode) /\ HomeLoad(NetNode) >= 2
  /\ \A i \in 1..(Nodes - 1) : StaleCount(node_vm_vec[i].node, node_vm_vec[i].cnt)
  /\ \E i \in 1..(Nodes - 1) : node_vm_vec[i] = [node |-> min_load_node, cnt |-> 0]
  /\ Load(min_load_node) >= 1 /\ Received(min_load_node)

Balancing ==
  pc \in {"balance", "single"} =>
    /\ VecShape
    /\ Fresh \/ Stale
    /\ flag = FALSE \/ pc = "single" => Fresh /\ max_vm_idx = Nodes

AtHome ==
  pc \in {"idle", "classify"} =>
    /\ \A n \in Node : ~Received(n)
    /\ flag = FALSE => Listed = {}

Level == \A m, n \in Node \ {NetNode} : Load(m) <= Load(n) + 1

Peak == \A n \in Node : \E m \in Node : Load(n) <= HomeLoad(m)

Stay ==
  HomeLoad(NetNode) <= 2 =>
    \A v \in Listed :
      Home(v) = NetNode /\ StateOf(v) = "IO_STAT" => v \in Elems(vm_on_node[NetNode])

\* VMs away from home.
Away == {v \in Listed : v \notin Elems(vm_on_node[Home(v)])}

\* VMs left alone by the others of their node.
Left ==
  {v \in Listed : /\ Home(v) # NetNode
                  /\ v \in Elems(vm_on_node[Home(v)])
                  /\ Load(Home(v)) = 1}

Measure ==
  /\ pc \notin {"balance", "single", "decide", "done"} => turns = 0
  /\ turns <= Cardinality(Listed) + 1
  /\ pc = "balance" =>
    \/ turns <= Cardinality(Away)
    \/ /\ \A n \in Node : Load(n) <= 2
       /\ turns <= Cardinality(Away) + Cardinality(Left) + (IF max_vm_idx < Nodes THEN 1 ELSE 0)

BalanceInv ==
  /\ AtHome
  /\ Balancing
  /\ pc \in {"single", "decide", "done"} => Level
  /\ Peak
  /\ Stay
  /\ Measure

-----------------------------------------------------------------------------
(***************************************************************************)
(* Counting VMs.                                                           *)
(***************************************************************************)
LEMMA ListFacts ==
  ASSUME StrategyInv
  PROVE  /\ vm_on_node \in Lists /\ Distinct(vm_on_node)
         /\ Listed \subseteq Vm /\ IsFiniteSet(Listed) /\ Cardinality(Listed) \in Nat
         /\ \A n \in Node : /\ vm_on_node[n] \in Seq(Vm) /\ Load(n) \in Nat
                            /\ DOMAIN vm_on_node[n] = 1..Load(n)
                            /\ Elems(vm_on_node[n]) \subseteq Listed
         /\ NetNode \in Node
<1>1. vm_on_node \in Lists /\ Distinct(vm_on_node) /\ NetNode \in Node
  BY NodeFacts DEF StrategyInv, TypeOK, Lists
<1>2. Listed \subseteq Vm
  BY DEF StrategyInv, TypeOK
<1>3. IsFiniteSet(Listed)
  BY <1>2, VmAssumption, FS_Subset
<1>4. Cardinality(Listed) \in Nat
  BY <1>3, FS_CardinalityType
<1>5. \A n \in Node : /\ vm_on_node[n] \in Seq(Vm) /\ Load(n) \in Nat
                      /\ DOMAIN vm_on_node[n] = 1..Load(n)
  BY <1>1 DEF Lists, Load
<1>6. \A n \in Node : Elems(vm_on_node[n]) \subseteq Listed
  BY DEF Listed
<1> QED
  BY <1>1, <1>2, <1>3, <1>4, <1>5, <1>6

\* A VM is on one node only.
LEMMA OneNode ==
  ASSUME StrategyInv, NEW m \in Node, NEW n \in Node, NEW v,
         v \in Elems(vm_on_node[m]), v \in Elems(vm_on_node[n])
  PROVE  m = n
  BY ListFacts DEF Elems, Distinct

LEMMA HomeLoadType ==
  ASSUME StrategyInv, NEW n
  PROVE  HomeLoad(n) \in Nat
<1>1. {v \in Listed : vm_infos[v].home = n} \in SUBSET Listed
  OBVIOUS
<1>2. IsFiniteSet({v \in Listed : vm_infos[v].home = n})
  BY <1>1, ListFacts, FS_Subset
<1> QED
  BY <1>2, FS_CardinalityType DEF HomeLoad

\* All VMs of a node that was given none are at home.
LEMMA LoadAtHome ==
  ASSUME StrategyInv, NEW n \in Node, ~Received(n)
  PROVE  Load(n) <= HomeLoad(n)
<1> DEFINE s == vm_on_node[n]
           T == {v \in Listed : vm_infos[v].home = n}
<1>1. s \in Seq(Vm) /\ Load(n) \in Nat /\ DOMAIN s = 1..Load(n) /\ s \in [1..Load(n) -> Vm]
  BY ListFacts DEF Load
<1>2. \A i \in 1..Load(n) : s[i] \in T
  BY <1>1, ListFacts DEF Received, Home, Elems
<1>3. \A i, j \in 1..Load(n) : s[i] = s[j] => i = j
  BY <1>1, ListFacts DEF Distinct
<1>4. IsFiniteSet(T)
  <2>1. T \in SUBSET Listed
    OBVIOUS
  <2> QED
    BY <2>1, ListFacts, FS_Subset
<1> HIDE DEF s, T
<1>5. s \in Injection(1..Load(n), T)
  <2>1. s \in [1..Load(n) -> T]
    BY <1>1, <1>2
  <2> QED
    BY <2>1, <1>3 DEF Injection, IsInjective
<1>6. Cardinality(1..Load(n)) <= Cardinality(T)
  BY <1>4, <1>5, FS_Injection
<1>7. Cardinality(1..Load(n)) = Load(n)
  <2>1. PICK k \in Nat : k = Load(n)
    BY <1>1
  <2>2. Cardinality(1..k) = IF 1 > k THEN 0 ELSE k - 1 + 1
    BY FS_Interval
  <2>3. Cardinality(1..k) = k
    BY <2>2
  <2> QED
    BY <2>1, <2>3
<1> QED
  BY <1>6, <1>7 DEF HomeLoad, T

\* What moving a VM does to a node's VMs and to its load.
MoveDone(from, i, to) ==
  LET v == vm_on_node[from][i]
  IN  /\ v \in Elems(vm_on_node[from])
      /\ \A n \in Node : Elems(vm_on_node'[n]) =
           IF n = to THEN Elems(vm_on_node[n]) \cup {v} ELSE Elems(vm_on_node[n]) \ {v}
      /\ \A n \in Node : Len(vm_on_node'[n]) =
           IF n = from THEN Load(n) - 1 ELSE IF n = to THEN Load(n) + 1 ELSE Load(n)
      /\ \A n \in Node \ {from, to} : vm_on_node'[n] = vm_on_node[n]

LEMMA MoveEffect ==
  ASSUME StrategyInv, NEW from \in Node, NEW i \in DOMAIN vm_on_node[from], NEW to \in Node,
         from # to, vm_on_node' = Moved(from, i, to), vm_infos' = vm_infos
  PROVE  MoveDone(from, i, to)
<1> DEFINE v == vm_on_node[from][i]
           s == vm_on_node[from]
           t == vm_on_node[to]
<1>1. /\ s \in Seq(Vm) /\ t \in Seq(Vm) /\ i \in DOMAIN s /\ v \in Vm
      /\ Len(s) = Load(from) /\ Len(t) = Load(to) /\ Load(from) \in Nat /\ Load(to) \in Nat
      /\ vm_on_node \in Lists
  BY ListFacts DEF Load
<1>2. /\ Erase(s, i) \in Seq(Vm) /\ Len(Erase(s, i)) = Len(s) - 1
      /\ \A j \in 1..(Len(s) - 1) : Erase(s, i)[j] = IF j < i THEN s[j] ELSE s[j + 1]
  BY <1>1, EraseProperties
<1>3. /\ Append(t, v) \in Seq(Vm) /\ Len(Append(t, v)) = Len(t) + 1
      /\ \A j \in 1..Len(t) : Append(t, v)[j] = t[j]
      /\ Append(t, v)[Len(t) + 1] = v
  BY <1>1, AppendProperties
<1>4. /\ vm_on_node'[from] = Erase(s, i)
      /\ vm_on_node'[to] = Append(t, v)
      /\ \A n \in Node \ {from, to} : vm_on_node'[n] = vm_on_node[n]
  BY <1>1 DEF Moved, Lists
<1>5. v \in Elems(s)
  BY <1>1 DEF Elems
<1>6. Elems(Append(t, v)) = Elems(t) \cup {v}
  <2>1. DOMAIN t = 1..Len(t) /\ DOMAIN Append(t, v) = 1..(Len(t) + 1) /\ Len(t) \in Nat
    BY <1>1, <1>3
  <2>2. ASSUME NEW w \in Elems(Append(t, v)) PROVE w \in Elems(t) \cup {v}
    <3>1. PICK j \in 1..(Len(t) + 1) : w = Append(t, v)[j]
      BY <2>1 DEF Elems
    <3>2. CASE j \in 1..Len(t)
      BY <1>3, <2>1, <3>1, <3>2 DEF Elems
    <3>3. CASE j = Len(t) + 1
      BY <1>3, <3>1, <3>3
    <3> QED
      BY <2>1, <3>2, <3>3
  <2>3. ASSUME NEW w \in Elems(t) PROVE w \in Elems(Append(t, v))
    <3>1. PICK j \in 1..Len(t) : w = t[j]
      BY <2>1 DEF Elems
    <3>2. j \in DOMAIN Append(t, v) /\ w = Append(t, v)[j]
      BY <1>3, <2>1, <3>1
    <3> QED
      BY <3>2 DEF Elems
  <2>4. Len(t) + 1 \in DOMAIN Append(t, v)
    BY <2>1
  <2>5. v \in Elems(Append(t, v))
    BY <1>3, <2>4 DEF Elems
  <2> QED
    BY <2>2, <2>3, <2>5
<1>7. Elems(Erase(s, i)) = Elems(s) \ {v}
  <2>1. DOMAIN s = 1..Len(s) /\ DOMAIN Erase(s, i) = 1..(Len(s) - 1) /\ Len(s) \in Nat
    BY <1>1, <1>2
  <2>2. \A j, k \in 1..Len(s) : s[j] = s[k] => j = k
    BY <2>1, ListFacts DEF Distinct
  <2>3. ASSUME NEW w \in Elems(Erase(s, i)) PROVE w \in Elems(s) \ {v}
    <3>1. PICK j \in 1..(Len(s) - 1) : w = Erase(s, i)[j]
      BY <2>1 DEF Elems
    <3>2. PICK k \in 1..Len(s) : w = s[k] /\ k # i
      <4>1. CASE j < i
        BY <1>2, <2>1, <3>1, <4>1
      <4>2. CASE ~(j < i)
        <5>1. w = s[j + 1] /\ j + 1 \in 1..Len(s) /\ j + 1 # i
          BY <1>1, <1>2, <2>1, <3>1, <4>2
        <5> QED
          BY <5>1
      <4> QED
        BY <4>1, <4>2
    <3>3. w \in Elems(s)
      BY <2>1, <3>2 DEF Elems
    <3>4. w # v
      BY <1>1, <2>1, <2>2, <3>2
    <3> QED
      BY <3>3, <3>4
  <2>4. ASSUME NEW w \in Elems(s), w # v PROVE w \in Elems(Erase(s, i))
    <3>1. PICK k \in 1..Len(s) : w = s[k]
      BY <2>1 DEF Elems
    <3>2. k # i
      BY <2>4, <3>1
    <3>3. \E j \in 1..(Len(s) - 1) : Erase(s, i)[j] = w
      <4>1. CASE k < i
        <5>1. k \in 1..(Len(s) - 1)
          BY <1>1, <2>1, <4>1
        <5> QED
          BY <1>2, <3>1, <4>1, <5>1
      <4>2. CASE k > i
        <5>1. k - 1 \in 1..(Len(s) - 1) /\ ~(k - 1 < i) /\ (k - 1) + 1 = k
          BY <1>1, <2>1, <4>2
        <5>2. Erase(s, i)[k - 1] = s[k]
          BY <1>2, <5>1
        <5> QED
          BY <3>1, <5>1, <5>2
      <4> QED
        BY <1>1, <2>1, <3>2, <4>1, <4>2
    <3> QED
      BY <2>1, <3>3 DEF Elems
  <2> QED
    BY <2>3, <2>4
<1>8. ASSUME NEW n \in Node, n # from PROVE v \notin Elems(vm_on_node[n])
  BY <1>5, <1>8, OneNode
<1>9. ASSUME NEW n \in Node
      PROVE  Elems(vm_on_node'[n]) =
               IF n = to THEN Elems(vm_on_node[n]) \cup {v} ELSE Elems(vm_on_node[n]) \ {v}
  <2>1. CASE n = from
    BY <1>4, <1>7, <2>1
  <2>2. CASE n = to
    BY <1>4, <1>6, <2>2
  <2>3. CASE n \notin {from, to}
    BY <1>4, <1>8, <2>3
  <2> QED
    BY <2>1, <2>2, <2>3
<1>10. ASSUME NEW n \in Node
       PROVE  Len(vm_on_node'[n]) =
                IF n = from THEN Load(n) - 1 ELSE IF n = to THEN Load(n) + 1 ELSE Load(n)
  BY <1>1, <1>2, <1>3, <1>4 DEF Load
<1> QED
  BY <1>4, <1>5, <1>9, <1>10 DEF MoveDone

-----------------------------------------------------------------------------
(***************************************************************************)
(* node_vm_vec and the node a VM goes to.                                  *)
(***************************************************************************)

\* What std::sort leaves is sorted between any two places.
LEMMA SortedThroughout ==
  ASSUME NEW k \in Nat, NEW f \in [1..k -> Nat], \A i \in 2..k : f[i - 1] <= f[i],
         NEW i \in 1..k, NEW j \in 1..k, i <= j
  PROVE  f[i] <= f[j]
<1> DEFINE T == {l \in i..k : f[l] < f[i]}
<1> SUFFICES ASSUME T # {} PROVE FALSE
  <2>1. j \in i..k /\ f[i] \in Nat /\ f[j] \in Nat
    OBVIOUS
  <2>2. j \notin T
    OBVIOUS
  <2> HIDE DEF T
  <2>3. ~(f[j] < f[i])
    BY <2>1, <2>2 DEF T
  <2> QED
    BY <2>1, <2>3
<1>1. T \subseteq Nat
  OBVIOUS
<1> HIDE DEF T
<1>2. PICK l \in T : IsFirst(l, T)
  BY <1>1, FirstExists
<1>3. l \in i..k /\ f[l] < f[i] /\ f[i] \in Nat /\ f[l] \in Nat
  BY <1>2 DEF T
<1>4. l # i /\ l - 1 \in i..k /\ l \in 2..k
  BY <1>3
<1>5. f[l - 1] <= f[l] /\ f[l - 1] \in Nat
  BY <1>4
<1>6. l - 1 \in T
  BY <1>3, <1>4, <1>5 DEF T
<1> QED
  BY <1>2, <1>3, <1>6 DEF IsFirst

\* After a rebuild every node is in node_vm_vec once, by ascending counts.
LEMMA RebuiltShape ==
  ASSUME vm_on_node' \in Lists, Rebuild(vm_on_node')
  PROVE  /\ node_vm_vec' \in Seq(NodeCount)
         /\ VecShape'
         /\ max_vm_idx' = Nodes'
         /\ \A i \in 1..Nodes' : node_vm_vec'[i].cnt = Len(vm_on_node'[node_vm_vec'[i].node])
<1> DEFINE k == Cardinality(Node)
           vec == node_vm_vec'
           lists == vm_on_node'
<1>1. k \in Nat \ {0} /\ IsFiniteSet(Node)
  BY NodeFacts, NodeRange
<1>2. PICK p \in Orders : vec = Counted(lists, p)
  BY DEF Rebuild, SortedVecs
<1>3. p \in [1..k -> Node] /\ \A n \in Node : \E i \in DOMAIN p : p[i] = n
  BY <1>2 DEF Orders
<1>4. \A i \in 2..Len(vec) : vec[i - 1].cnt <= vec[i].cnt
  BY DEF Rebuild, SortedVecs
<1> HIDE DEF k
<1>5. vec = [i \in 1..k |-> [node |-> p[i], cnt |-> Len(lists[p[i]])]]
  BY <1>2, <1>3 DEF Counted
<1>6. \A i \in 1..k : vec[i].node = p[i] /\ vec[i].cnt = Len(lists[p[i]])
  BY <1>5
<1>7. \A i \in 1..k : p[i] \in Node /\ Len(lists[p[i]]) \in Nat
  BY <1>3 DEF Lists
<1>8. vec \in Seq(NodeCount) /\ Len(vec) = k
  <2>1. \A i \in 1..k : [node |-> p[i], cnt |-> Len(lists[p[i]])] \in NodeCount
    BY <1>7 DEF NodeCount
  <2> QED
    BY <1>1, <1>5, <2>1
<1>9. max_vm_idx' = Len(vec)
  BY DEF Rebuild
<1> HIDE DEF vec, lists
<1>10. \A i, j \in 1..k : p[i] = p[j] => i = j
  <2>1. p \in Surjection(1..k, Node)
    BY <1>3 DEF Surjection
  <2>2. IsFiniteSet(1..k) /\ Cardinality(1..k) = k
    <3>1. IsFiniteSet(1..k) /\ Cardinality(1..k) = IF 1 > k THEN 0 ELSE k - 1 + 1
      BY <1>1, FS_Interval
    <3> QED
      BY <1>1, <3>1
  <2>3. p \in Injection(1..k, Node)
    BY <2>1, <2>2, FS_SurjSameCardinalityImpliesInj DEF k
  <2> QED
    BY <2>3 DEF Injection, IsInjective
<1>11. ASSUME NEW i \in 1..k, NEW j \in 1..k, i <= j PROVE vec[i].cnt <= vec[j].cnt
  <2> DEFINE f == [l \in 1..k |-> vec[l].cnt]
  <2>1. f \in [1..k -> Nat]
    BY <1>6, <1>7
  <2>2. \A l \in 2..k : f[l - 1] <= f[l]
    BY <1>1, <1>4, <1>8
  <2>3. f[i] = vec[i].cnt /\ f[j] = vec[j].cnt
    OBVIOUS
  <2> HIDE DEF f
  <2>4. f[i] <= f[j]
    BY <1>1, <1>11, <2>1, <2>2, SortedThroughout
  <2> QED
    BY <2>3, <2>4
<1>12. \A n \in Node : \E i \in 1..k : vec[i].node = n
  BY <1>3, <1>6
<1>13. \A i, j \in 1..k : vec[i].node = vec[j].node => i = j
  BY <1>6, <1>10
<1>14. \A i \in 1..k : vec[i].cnt = Len(lists[vec[i].node])
  BY <1>6
<1>15. VecShape'
  BY <1>1, <1>8, <1>11, <1>12, <1>13 DEF VecShape, Nodes, vec
<1> QED
  BY <1>8, <1>9, <1>14, <1>15 DEF Nodes, vec, lists

\* node_vm_vec as the invariant describes it.
LEMMA VecFacts ==
  ASSUME StrategyInv, pc \in {"balance", "single"}, VecShape
  PROVE  /\ Nodes \in Nat /\ Nodes >= 1
         /\ max_vm_idx \in 1..Nodes
         /\ \A i \in 1..Nodes : /\ node_vm_vec[i] \in NodeCount
                                /\ node_vm_vec[i].node \in Node /\ node_vm_vec[i].cnt \in Nat
         /\ min_vm_cnt \in Nat /\ max_vm_cnt \in Nat /\ high_load_node \in Node
         /\ min_vm_cnt <= max_vm_cnt
         /\ min_load_node \in Node
         /\ NetNode \in Node
<1>1. node_vm_vec \in Seq(NodeCount) /\ max_vm_idx \in DOMAIN node_vm_vec
  BY DEF StrategyInv, TypeOK
<1>2. Nodes \in Nat /\ Nodes >= 1 /\ max_vm_idx \in 1..Nodes
  BY <1>1 DEF VecShape, Nodes
<1>3. \A i \in 1..Nodes : node_vm_vec[i] \in NodeCount
  BY <1>1 DEF Nodes
<1>4. \A i \in 1..Nodes : node_vm_vec[i].node \in Node /\ node_vm_vec[i].cnt \in Nat
  BY <1>3 DEF NodeCount
<1>5. 1 \in 1..Nodes /\ 1 <= max_vm_idx
  BY <1>2
<1>6. node_vm_vec[1].cnt <= node_vm_vec[max_vm_idx].cnt
  BY <1>2, <1>5 DEF VecShape
<1> QED
  BY <1>2, <1>3, <1>4, <1>5, <1>6, NodeFacts DEF min_vm_cnt, max_vm_cnt, high_load_node, StrategyInv, TypeOK

\* The target has the lowest count for a load, or no node has.
LEMMA TargetLoad ==
  ASSUME high_load_node \in Node, min_load_node \in Node
  PROVE  /\ Target \in Node
         /\ \/ Load(Target) = min_vm_cnt
            \/ Target = min_load_node /\ \A n \in Node : Load(n) # min_vm_cnt
<1> DEFINE near == Lat[high_load_node]
           hits == {i \in DOMAIN near : Len(vm_on_node[near[i]]) = min_vm_cnt}
           least == CHOOSE i \in hits : IsFirst(i, hits)
<1>1. near \in Seq(Node) /\ \A n \in Node : \E i \in DOMAIN near : near[i] = n
  BY LatAssumption
<1>2. hits \subseteq Nat
  BY <1>1
<1>3. Target = IF hits = {} THEN min_load_node ELSE near[least]
  BY DEF Target
<1>4. ASSUME hits # {}
      PROVE  Len(vm_on_node[near[least]]) = min_vm_cnt
  <2>1. \E i \in hits : IsFirst(i, hits)
    BY <1>2, <1>4, FirstExists
  <2>2. least \in hits
    BY <2>1
  <2> HIDE DEF least, near
  <2> QED
    BY <2>2
<1>5. ASSUME hits = {}
      PROVE  \A n \in Node : Len(vm_on_node[n]) # min_vm_cnt
  BY <1>1, <1>5
<1> HIDE DEF hits, least, near
<1> QED
  BY <1>3, <1>4, <1>5, TargetIsNode DEF Load

\* While the counts are true the first of them is the lowest load, and the
\* last the highest.
LEMMA FreshFacts ==
  ASSUME StrategyInv, pc \in {"balance", "single"}, VecShape,
         \A i \in 1..Nodes : node_vm_vec[i].cnt = Load(node_vm_vec[i].node)
  PROVE  /\ \A n \in Node : min_vm_cnt <= Load(n) /\ Load(n) <= node_vm_vec[Nodes].cnt
         /\ \E n \in Node : Load(n) = min_vm_cnt
         /\ Load(high_load_node) = max_vm_cnt
<1>1. /\ Nodes \in Nat /\ Nodes >= 1 /\ max_vm_idx \in 1..Nodes
      /\ \A i \in 1..Nodes : node_vm_vec[i].node \in Node /\ node_vm_vec[i].cnt \in Nat
  BY VecFacts
<1>2. 1 \in 1..Nodes /\ Nodes \in 1..Nodes
  BY <1>1
<1>3. ASSUME NEW n \in Node
      PROVE  min_vm_cnt <= Load(n) /\ Load(n) <= node_vm_vec[Nodes].cnt
  <2>1. PICK i \in 1..Nodes : node_vm_vec[i].node = n
    BY DEF VecShape
  <2>2. 1 <= i /\ i <= Nodes
    BY <1>1
  <2>3. node_vm_vec[1].cnt <= node_vm_vec[i].cnt /\ node_vm_vec[i].cnt <= node_vm_vec[Nodes].cnt
    BY <1>2, <2>2 DEF VecShape
  <2>4. node_vm_vec[i].cnt = Load(n)
    BY <2>1
  <2> QED
    BY <2>3, <2>4 DEF min_vm_cnt
<1>4. node_vm_vec[1].node \in Node /\ Load(node_vm_vec[1].node) = min_vm_cnt
  BY <1>1, <1>2 DEF min_vm_cnt
<1> QED
  BY <1>1, <1>3, <1>4 DEF high_load_node, max_vm_cnt

-----------------------------------------------------------------------------
(***************************************************************************)
(* One iteration: what a move does to the counts.                          *)
(***************************************************************************)
LEMMA MoveFacts ==
  ASSUME StrategyInv, NEW from \in Node, NEW i \in DOMAIN vm_on_node[from], NEW to \in Node,
         from # to, vm_on_node' = Moved(from, i, to), UNCHANGED <<vm_infos, rest>>
  PROVE  /\ vm_on_node' \in Lists
         /\ Listed' = Listed
         /\ \A n : HomeLoad(n)' = HomeLoad(n)
         /\ \A n \in Node : Load(n)' =
              IF n = from THEN Load(n) - 1 ELSE IF n = to THEN Load(n) + 1 ELSE Load(n)
         /\ \A n \in Node : Received(n)' => n = to \/ Received(n)
         /\ ~Received(from) => Received(to)' /\ Home(vm_on_node[from][i]) = from
<1> DEFINE v == vm_on_node[from][i]
<1>1. /\ v \in Elems(vm_on_node[from])
      /\ \A n \in Node : Elems(vm_on_node'[n]) =
           IF n = to THEN Elems(vm_on_node[n]) \cup {v} ELSE Elems(vm_on_node[n]) \ {v}
      /\ \A n \in Node : Len(vm_on_node'[n]) =
           IF n = from THEN Load(n) - 1 ELSE IF n = to THEN Load(n) + 1 ELSE Load(n)
  <2>1. MoveDone(from, i, to)
    BY MoveEffect
  <2> QED
    BY <2>1 DEF MoveDone
<1>2. vm_on_node' \in Lists /\ Listed' = Listed
  <2>1. /\ Moved(from, i, to) \in Lists
        /\ Members(Moved(from, i, to)) = Listed
    BY ListFacts, MovedKeepsMembers
  <2>2. Listed' = Members(vm_on_node')
    BY DEF Listed, Members, Elems
  <2> QED
    BY <2>1, <2>2
<1>3. \A n : HomeLoad(n)' = HomeLoad(n)
  BY <1>2 DEF HomeLoad
<1>4. \A w : Home(w)' = Home(w)
  BY DEF Home
<1>5. \A n \in Node : Received(n)' <=> \E w \in Elems(vm_on_node'[n]) : Home(w) # n
  BY <1>4 DEF Received, Elems
<1> HIDE DEF v
<1>6. \A n \in Node : Received(n)' => n = to \/ Received(n)
  BY <1>1, <1>5 DEF Received
<1>7. ASSUME ~Received(from) PROVE Received(to)' /\ Home(v) = from
  <2>1. Home(v) = from
    BY <1>1, <1>7 DEF Received
  <2>2. v \in Elems(vm_on_node'[to])
    BY <1>1
  <2> QED
    BY <1>5, <2>1, <2>2
<1> QED
  BY <1>1, <1>2, <1>3, <1>6, <1>7 DEF Load, v

\* A stale count is of use: no load is over two, and none below its count but
\* that of the netdev node.
LEMMA StaleFacts ==
  ASSUME StrategyInv, pc \in {"balance", "single"}, VecShape, Stale
  PROVE  /\ \A n \in Node : Load(n) <= 2
         /\ \A n \in Node \ {NetNode} : Load(n) = 2 /\ Received(n) => Covered
         /\ min_load_node \in Node \ {NetNode}
         /\ Load(min_load_node) \in {1, 2}
         /\ Load(min_load_node) = 2 => Covered
         /\ \A i \in 1..(Nodes - 1) : node_vm_vec[i].node # NetNode /\ node_vm_vec[i].cnt <= 2
         /\ \A n \in Node \ {NetNode} : \E i \in 1..(Nodes - 1) : node_vm_vec[i].node = n
<1>1. /\ Nodes \in Nat /\ Nodes >= 1
      /\ \A i \in 1..Nodes : node_vm_vec[i].node \in Node /\ node_vm_vec[i].cnt \in Nat
  BY VecFacts
<1>2. node_vm_vec[Nodes].node = NetNode /\ node_vm_vec[Nodes].cnt = 2 /\ Nodes \in 1..Nodes
  BY <1>1 DEF Stale, SmallNetdev
<1>3. ASSUME NEW i \in 1..(Nodes - 1)
      PROVE  i \in 1..Nodes /\ node_vm_vec[i].node # NetNode /\ node_vm_vec[i].cnt <= 2
  <2>1. i \in 1..Nodes /\ i # Nodes /\ i <= Nodes
    BY <1>1
  <2> QED
    BY <1>2, <2>1 DEF VecShape
<1>4. ASSUME NEW n \in Node \ {NetNode}
      PROVE  \E i \in 1..(Nodes - 1) : node_vm_vec[i].node = n
  <2>1. PICK i \in 1..Nodes : node_vm_vec[i].node = n
    BY DEF VecShape
  <2>2. i # Nodes
    BY <1>2, <2>1
  <2>3. i \in 1..(Nodes - 1)
    BY <1>1, <2>2
  <2> QED
    BY <2>1, <2>3
<1>5. \A n \in Node : Load(n) \in Nat
  BY ListFacts
<1>6. ASSUME NEW n \in Node \ {NetNode}
      PROVE  Load(n) <= 2 /\ (Load(n) = 2 /\ Received(n) => Covered)
  <2>1. PICK i \in 1..(Nodes - 1) : node_vm_vec[i].node = n
    BY <1>4
  <2>2. StaleCount(n, node_vm_vec[i].cnt)
    BY <2>1 DEF Stale
  <2>3. node_vm_vec[i].cnt \in Nat /\ node_vm_vec[i].cnt <= 2
    BY <1>1, <1>3
  <2> QED
    BY <1>5, <2>2, <2>3 DEF StaleCount
<1>7. /\ min_load_node \in Node \ {NetNode} /\ StaleCount(min_load_node, 0)
      /\ Load(min_load_node) >= 1
  <2>1. PICK i \in 1..(Nodes - 1) : node_vm_vec[i] = [node |-> min_load_node, cnt |-> 0]
    BY DEF Stale
  <2>2. StaleCount(node_vm_vec[i].node, node_vm_vec[i].cnt)
    BY DEF Stale
  <2>3. node_vm_vec[i].node = min_load_node /\ node_vm_vec[i].cnt = 0
    BY <2>1
  <2> QED
    BY <1>1, <1>3, <2>2, <2>3 DEF Stale
<1>8. Load(min_load_node) \in {1, 2} /\ (Load(min_load_node) = 2 => Covered)
  BY <1>5, <1>7 DEF StaleCount
<1>9. Load(NetNode) <= 2
  BY <1>5, NodeFacts DEF Stale
<1> QED
  BY <1>3, <1>4, <1>6, <1>7, <1>8, <1>9

LEMMA UnbalancedMeans ==
  ASSUME StrategyInv, pc = "balance", VecShape, Unbalanced
  PROVE  min_vm_cnt + 2 <= max_vm_cnt
  BY VecFacts DEF Unbalanced

\* The list MoveOffHighLoadNode takes a VM from, and the one it appends it to.
LEMMA HighMoveIs ==
  ASSUME StrategyInv, VecShape, MoveOffHighLoadNode
  PROVE  /\ pc = "balance" /\ Unbalanced /\ ~OnSmallNetdevNode
         /\ UNCHANGED <<vm_infos, rest, vmStateMap>>
         /\ pc' = "balance" /\ flag' = TRUE /\ turns' = turns + 1
         /\ Rebuild(vm_on_node')
         /\ \E i \in DOMAIN vm_on_node[high_load_node], to \in Node :
              /\ vm_on_node' = Moved(high_load_node, i, to)
              /\ \/ Load(to) = min_vm_cnt
                 \/ to = min_load_node /\ \A n \in Node : Load(n) # min_vm_cnt
<1>1. /\ pc = "balance" /\ Unbalanced /\ ~OnSmallNetdevNode
      /\ UNCHANGED <<vm_infos, rest, vmStateMap>>
      /\ pc' = "balance" /\ flag' = TRUE /\ turns' = turns + 1
      /\ Rebuild(vm_on_node')
  BY DEF MoveOffHighLoadNode, Iterate
<1>2. high_load_node \in Node /\ min_load_node \in Node /\ NetNode \in Node
  BY <1>1, VecFacts
<1>3. PICK i \in DOMAIN vm_on_node[high_load_node], to \in {NetNode, Target} :
        /\ vm_on_node' = Moved(high_load_node, i, to)
        /\ to = Target \/ Len(vm_on_node[NetNode]) = min_vm_cnt
  BY DEF MoveOffHighLoadNode
<1>4. /\ Target \in Node
      /\ \/ Load(Target) = min_vm_cnt
         \/ Target = min_load_node /\ \A n \in Node : Load(n) # min_vm_cnt
  BY <1>2, TargetLoad
<1>5. Len(vm_on_node[NetNode]) = Load(NetNode)
  BY DEF Load
<1>6. \/ Load(to) = min_vm_cnt
      \/ to = min_load_node /\ \A n \in Node : Load(n) # min_vm_cnt
  BY <1>3, <1>4, <1>5
<1>7. to \in Node
  BY <1>2, <1>3, <1>4
<1> QED
  BY <1>1, <1>3, <1>6, <1>7

\* A node whose VMs are all at home gives one, and not to raise the peak.
Gives(from, i, to) ==
  /\ from \in Node /\ to \in Node /\ i \in DOMAIN vm_on_node[from] /\ from # to
  /\ vm_on_node' = Moved(from, i, to)
  /\ ~Received(from)
  /\ Load(to) < Load(from) \/ (Load(to) <= 1 /\ HomeLoad(NetNode) >= 2)
  /\ (\A n \in Node : Load(n) <= 2) => Load(to) = 0 \/ (Load(to) = 1 /\ Received(to))

LEMMA HighMoveFresh ==
  ASSUME StrategyInv, VecShape, Fresh, MoveOffHighLoadNode
  PROVE  \E from, to, i : /\ Gives(from, i, to)
                          /\ from = NetNode => Load(from) > 2
                          /\ Load(from) >= 2
                          /\ Settled'
<1> DEFINE from == high_load_node
<1>1. /\ pc = "balance" /\ Unbalanced /\ ~OnSmallNetdevNode /\ UNCHANGED <<vm_infos, rest>>
      /\ from \in Node
      /\ min_vm_cnt \in Nat /\ max_vm_cnt \in Nat /\ min_vm_cnt + 2 <= max_vm_cnt
  BY HighMoveIs, VecFacts, UnbalancedMeans
<1>2. PICK i \in DOMAIN vm_on_node[from], to \in Node :
        /\ vm_on_node' = Moved(from, i, to)
        /\ \/ Load(to) = min_vm_cnt
           \/ to = min_load_node /\ \A n \in Node : Load(n) # min_vm_cnt
  BY HighMoveIs
<1>3. /\ \A n \in Node : min_vm_cnt <= Load(n) /\ Load(n) \in Nat
      /\ Load(from) = max_vm_cnt
      /\ \E n \in Node : Load(n) = min_vm_cnt
  BY <1>1, FreshFacts, ListFacts DEF Fresh
<1>4. Load(to) = min_vm_cnt /\ from # to
  BY <1>1, <1>2, <1>3
<1>5. ~Received(from)
  BY <1>1, <1>3 DEF Fresh, Settled
<1>6. from = NetNode => Load(from) > 2
  BY <1>1, <1>3 DEF OnSmallNetdevNode
<1> HIDE DEF from
<1>7. /\ \A n \in Node : Load(n)' =
              IF n = from THEN Load(n) - 1 ELSE IF n = to THEN Load(n) + 1 ELSE Load(n)
      /\ \A n \in Node : Received(n)' => n = to \/ Received(n)
  BY <1>1, <1>2, <1>4, MoveFacts
<1>8. Settled'
  <2> SUFFICES ASSUME NEW m \in Node, NEW n \in Node, Received(m)'
               PROVE  Load(m)' <= Load(n)' + 1
    BY DEF Settled
  <2>1. min_vm_cnt <= Load(n)' /\ Load(n)' \in Nat
    BY <1>1, <1>3, <1>7
  <2>2. Load(m)' <= min_vm_cnt + 1
    <3>1. CASE m = to
      BY <1>3, <1>4, <1>7, <3>1
    <3>2. CASE m # to
      <4>1. Received(m) /\ m # from
        BY <1>5, <1>7, <3>2
      <4>2. Load(m) <= min_vm_cnt + 1
        BY <1>3, <4>1 DEF Fresh, Settled
      <4> QED
        BY <1>7, <3>2, <4>1, <4>2
    <3> QED
      BY <3>1, <3>2
  <2>3. Load(m)' \in Nat
    BY <1>1, <1>3, <1>7
  <2> QED
    BY <1>1, <2>1, <2>2, <2>3
<1>9. (\A n \in Node : Load(n) <= 2) => Load(to) = 0
  BY <1>1, <1>3, <1>4
<1>10. Load(from) >= 2 /\ Load(to) < Load(from)
  BY <1>1, <1>3, <1>4
<1>11. Gives(from, i, to)
  BY <1>1, <1>2, <1>4, <1>5, <1>9, <1>10 DEF Gives
<1> QED
  BY <1>6, <1>8, <1>9, <1>10, <1>11

LEMMA HighMoveStale ==
  ASSUME StrategyInv, VecShape, Stale, MoveOffHighLoadNode
  PROVE  \E from, to, i : /\ Gives(from, i, to)
                          /\ from # NetNode
                          /\ Load(from) = 2
                          /\ Settled'
<1> DEFINE from == high_load_node
<1>1. /\ pc = "balance" /\ Unbalanced /\ ~OnSmallNetdevNode /\ UNCHANGED <<vm_infos, rest>>
      /\ from \in Node /\ Nodes \in Nat /\ max_vm_idx \in 1..Nodes
      /\ min_vm_cnt = 0 /\ max_vm_cnt \in Nat /\ max_vm_cnt >= 2
  BY HighMoveIs, VecFacts, UnbalancedMeans DEF Stale, SmallNetdev
<1>2. PICK i \in DOMAIN vm_on_node[from], to \in Node :
        /\ vm_on_node' = Moved(from, i, to)
        /\ \/ Load(to) = 0
           \/ to = min_load_node /\ \A n \in Node : Load(n) # 0
  BY <1>1, HighMoveIs
<1>3. /\ \A n \in Node : Load(n) <= 2 /\ Load(n) \in Nat
      /\ \A n \in Node \ {NetNode} : Load(n) = 2 /\ Received(n) => Covered
      /\ min_load_node \in Node \ {NetNode} /\ Load(min_load_node) \in {1, 2}
      /\ Load(min_load_node) = 2 => Covered
      /\ \A j \in 1..(Nodes - 1) : node_vm_vec[j].node # NetNode /\ node_vm_vec[j].cnt <= 2
      /\ NetNode \in Node
  BY <1>1, StaleFacts, ListFacts
<1>4. max_vm_idx = Nodes - 1 /\ max_vm_idx \in 1..(Nodes - 1)
  <2>1. max_vm_idx # Nodes
    BY <1>1 DEF Stale, SmallNetdev, OnSmallNetdevNode, high_load_node, max_vm_cnt
  <2> QED
    BY <1>1, <2>1 DEF Stale
<1>5. from # NetNode /\ max_vm_cnt = 2
  BY <1>1, <1>3, <1>4 DEF high_load_node, max_vm_cnt
<1>6. StaleCount(from, 2)
  BY <1>4, <1>5 DEF Stale, high_load_node, max_vm_cnt
<1>7. Load(from) = 2 /\ ~Received(from)
  BY <1>6 DEF StaleCount
<1> HIDE DEF from
<1>8. \/ Load(to) = 0
      \/ Load(to) = 1 /\ to = min_load_node /\ \A n \in Node : Load(n) >= 1
  <2>1. Load(to) # 0 => \A n \in Node : Load(n) >= 1
    BY <1>2, <1>3
  <2>2. ASSUME Load(to) # 0 PROVE ~Covered
    BY <1>2, <1>3, <2>2 DEF Covered
  <2> QED
    BY <1>2, <1>3, <2>1, <2>2
<1>9. from # to
  BY <1>7, <1>8
<1>10. /\ \A n \in Node : Load(n)' =
               IF n = from THEN Load(n) - 1 ELSE IF n = to THEN Load(n) + 1 ELSE Load(n)
       /\ \A n \in Node : Received(n)' => n = to \/ Received(n)
  BY <1>1, <1>2, <1>9, MoveFacts
<1>11. Settled'
  <2> SUFFICES ASSUME NEW m \in Node, NEW n \in Node, Received(m)'
               PROVE  Load(m)' <= Load(n)' + 1
    BY DEF Settled
  <2>1. Load(m)' \in Nat /\ Load(n)' \in Nat
    BY <1>3, <1>7, <1>9, <1>10
  <2>2. CASE Load(to) # 0
    <3>1. Load(n)' >= 1
      BY <1>3, <1>7, <1>8, <1>10, <2>2
    <3>2. Load(m)' <= 2
      BY <1>3, <1>7, <1>8, <1>10, <2>2
    <3> QED
      BY <2>1, <3>1, <3>2
  <2>3. CASE Load(to) = 0 /\ Load(m)' <= 1
    BY <2>1, <2>3
  <2>4. CASE Load(to) = 0 /\ Load(m)' > 1
    <3>1. m # to /\ m # from /\ Load(m) = 2 /\ Received(m)
      BY <1>3, <1>7, <1>9, <1>10, <2>4
    <3>2. m # NetNode
      BY <3>1 DEF Stale
    <3>3. Covered
      BY <1>3, <3>1, <3>2
    <3>4. to = NetNode
      BY <2>4, <3>3 DEF Covered
    <3>5. Load(n)' >= 1
      BY <1>3, <1>7, <1>9, <1>10, <2>4, <3>3, <3>4 DEF Covered
    <3>6. Load(m)' = 2
      BY <1>10, <3>1
    <3> QED
      BY <2>1, <3>5, <3>6
  <2> QED
    BY <2>1, <2>2, <2>3, <2>4
<1>12. Load(to) = 0 \/ (Load(to) = 1 /\ Received(to))
  BY <1>8 DEF Stale
<1>13. Load(to) < Load(from)
  BY <1>7, <1>8
<1>14. Gives(from, i, to)
  BY <1>1, <1>2, <1>7, <1>9, <1>12, <1>13 DEF Gives
<1> QED
  BY <1>5, <1>7, <1>8, <1>11, <1>14 DEF from

\* A small netdev node with the highest of true counts.
LEMMA SmallFresh ==
  ASSUME StrategyInv, pc = "balance", VecShape, Fresh, Unbalanced, OnSmallNetdevNode
  PROVE  /\ SmallNetdev /\ max_vm_idx = Nodes
         /\ \A n \in Node : Load(n) <= 2
         /\ Load(NetNode) = 2 /\ ~Received(NetNode) /\ HomeLoad(NetNode) >= 2
<1>1. /\ min_vm_cnt \in Nat /\ max_vm_cnt \in Nat /\ min_vm_cnt + 2 <= max_vm_cnt
      /\ Nodes \in Nat /\ Nodes >= 1 /\ max_vm_idx \in 1..Nodes /\ NetNode \in Node
      /\ \A i \in 1..Nodes : node_vm_vec[i] \in NodeCount
  BY VecFacts, UnbalancedMeans
<1>2. max_vm_cnt = 2 /\ min_vm_cnt = 0 /\ high_load_node = NetNode
  BY <1>1 DEF OnSmallNetdevNode
<1>3. max_vm_idx = Nodes
  <2>1. CASE SmallNetdev /\ max_vm_idx = Nodes - 1
    <3>1. node_vm_vec[Nodes].node = NetNode /\ node_vm_vec[max_vm_idx].node = NetNode
      BY <1>2, <2>1 DEF SmallNetdev, high_load_node
    <3>2. Nodes \in 1..Nodes
      BY <1>1
    <3> QED
      BY <1>1, <3>1, <3>2 DEF VecShape
  <2> QED
    BY <2>1 DEF Fresh
<1>4. node_vm_vec[Nodes] \in NodeCount /\ node_vm_vec[Nodes].node = NetNode
      /\ node_vm_vec[Nodes].cnt = 2
  BY <1>1, <1>2, <1>3 DEF high_load_node, max_vm_cnt
<1>5. node_vm_vec[Nodes] = [node |-> NetNode, cnt |-> 2]
  BY <1>4 DEF NodeCount
<1>6. Nodes > 1
  BY <1>1, <1>2, <1>3 DEF min_vm_cnt, max_vm_cnt
<1>7. /\ \A n \in Node : Load(n) <= 2
      /\ \E n \in Node : Load(n) = 0
      /\ Load(NetNode) = 2
  BY <1>2, <1>4, FreshFacts DEF Fresh
<1>8. ~Received(NetNode)
  BY <1>1, <1>7 DEF Fresh, Settled
<1>9. HomeLoad(NetNode) >= 2
  BY <1>1, <1>7, <1>8, LoadAtHome, HomeLoadType
<1> QED
  BY <1>2, <1>3, <1>5, <1>6, <1>7, <1>8, <1>9 DEF SmallNetdev

LEMMA SmallStale ==
  ASSUME StrategyInv, pc = "balance", VecShape, Stale, OnSmallNetdevNode
  PROVE  max_vm_idx = Nodes
<1>1. \A i \in 1..(Nodes - 1) : node_vm_vec[i].node # NetNode
  BY StaleFacts
<1>2. Nodes \in Nat /\ max_vm_idx \in 1..Nodes
  BY VecFacts
<1> QED
  BY <1>1, <1>2 DEF OnSmallNetdevNode, high_load_node, Stale

\* The list MoveOffNetdevNode appends a VM to.
LEMMA NetdevMoveIs ==
  ASSUME StrategyInv, VecShape, MoveOffNetdevNode
  PROVE  /\ pc = "balance" /\ Unbalanced /\ OnSmallNetdevNode
         /\ UNCHANGED <<vm_infos, rest, vmStateMap, node_vm_vec, max_vm_idx>>
         /\ pc' = "balance" /\ flag' = TRUE /\ turns' = turns + 1
         /\ Target \in Node /\ min_load_node' = Target
         /\ \E i \in DOMAIN vm_on_node[NetNode] :
              /\ vm_on_node' = Moved(NetNode, i, Target)
              /\ StateOf(vm_on_node[NetNode][i]) = "OTHER_STAT"
         /\ \/ Load(Target) = min_vm_cnt
            \/ Target = min_load_node /\ \A n \in Node : Load(n) # min_vm_cnt
<1>1. /\ pc = "balance" /\ Unbalanced /\ OnSmallNetdevNode
      /\ UNCHANGED <<vm_infos, rest, vmStateMap, node_vm_vec, max_vm_idx>>
      /\ pc' = "balance" /\ flag' = TRUE /\ turns' = turns + 1
      /\ min_load_node' = Target
      /\ \E i \in DOMAIN vm_on_node[NetNode] :
           /\ vm_on_node' = Moved(NetNode, i, Target)
           /\ StateOf(vm_on_node[NetNode][i]) = "OTHER_STAT"
  BY DEF MoveOffNetdevNode, Iterate, IsFirst, Places
<1>2. high_load_node \in Node /\ min_load_node \in Node
  BY <1>1, VecFacts
<1> QED
  BY <1>1, <1>2, TargetLoad

LEMMA NetdevMoveFresh ==
  ASSUME StrategyInv, VecShape, Fresh, MoveOffNetdevNode
  PROVE  \E i, to : /\ Gives(NetNode, i, to)
                    /\ StateOf(vm_on_node[NetNode][i]) = "OTHER_STAT"
                    /\ \A n \in Node : Load(n) <= 2
                    /\ Stale'
<1>0. PICK to \in Node : to = Target
  BY NetdevMoveIs
<1>1. /\ pc = "balance" /\ Unbalanced /\ OnSmallNetdevNode
      /\ UNCHANGED <<vm_infos, rest, vmStateMap, node_vm_vec, max_vm_idx>>
      /\ to \in Node /\ min_load_node' = to
  BY <1>0, NetdevMoveIs
<1>2. PICK i \in DOMAIN vm_on_node[NetNode] :
        /\ vm_on_node' = Moved(NetNode, i, to)
        /\ StateOf(vm_on_node[NetNode][i]) = "OTHER_STAT"
  BY <1>0, NetdevMoveIs
<1>3. \/ Load(to) = min_vm_cnt
      \/ to = min_load_node /\ \A n \in Node : Load(n) # min_vm_cnt
  BY <1>0, NetdevMoveIs
<1>4. /\ SmallNetdev /\ max_vm_idx = Nodes
      /\ \A n \in Node : Load(n) <= 2 /\ Load(n) \in Nat
      /\ Load(NetNode) = 2 /\ ~Received(NetNode) /\ HomeLoad(NetNode) >= 2
  BY <1>1, SmallFresh, ListFacts
<1>5. /\ \E n \in Node : Load(n) = min_vm_cnt
      /\ min_vm_cnt = 0 /\ NetNode \in Node /\ Nodes \in Nat
      /\ \A j \in 1..Nodes : /\ node_vm_vec[j] \in NodeCount
                             /\ node_vm_vec[j].node \in Node /\ node_vm_vec[j].cnt \in Nat
  BY <1>1, <1>4, FreshFacts, VecFacts DEF Fresh, SmallNetdev
<1>6. Load(to) = 0 /\ to # NetNode
  BY <1>3, <1>4, <1>5
<1>7. /\ \A n : HomeLoad(n)' = HomeLoad(n)
      /\ \A n \in Node : Load(n)' =
           IF n = NetNode THEN Load(n) - 1 ELSE IF n = to THEN Load(n) + 1 ELSE Load(n)
      /\ \A n \in Node : Received(n)' => n = to \/ Received(n)
      /\ Received(to)'
  BY <1>1, <1>2, <1>4, <1>5, <1>6, MoveFacts
<1>8. Gives(NetNode, i, to)
  BY <1>1, <1>2, <1>4, <1>5, <1>6 DEF Gives
<1>9. ASSUME NEW j \in 1..(Nodes - 1)
      PROVE  StaleCount(node_vm_vec[j].node, node_vm_vec[j].cnt)'
  <2>0. PICK n, c : n = node_vm_vec[j].node /\ c = node_vm_vec[j].cnt
    OBVIOUS
  <2>1. j \in 1..Nodes /\ j # Nodes /\ Nodes \in 1..Nodes
    BY <1>5
  <2>2. n \in Node /\ c = Load(n)
    BY <1>5, <2>0, <2>1 DEF Fresh
  <2>3. n # NetNode
    <3>1. node_vm_vec[Nodes].node = NetNode
      BY <1>4 DEF SmallNetdev
    <3> QED
      BY <2>0, <2>1, <3>1 DEF VecShape
  <2>4. n = node_vm_vec'[j].node /\ c = node_vm_vec'[j].cnt
    BY <1>1, <2>0
  <2>5. CASE n = to
    <3>1. c = 0 /\ Load(n)' = 1
      BY <1>6, <1>7, <2>2, <2>3, <2>5
    <3>2. StaleCount(n, c)'
      BY <3>1 DEF StaleCount
    <3> QED
      BY <2>4, <3>2
  <2>6. CASE n # to
    <3>1. Load(n)' = c
      BY <1>7, <2>2, <2>3, <2>6
    <3>2. Received(n)' => c <= 1
      <4>1. ASSUME Received(n) PROVE Load(n) <= 1
        BY <1>5, <2>2, <4>1 DEF Fresh, Settled
      <4> QED
        BY <1>7, <2>2, <2>6, <4>1
    <3>3. StaleCount(n, c)'
      BY <3>1, <3>2 DEF StaleCount
    <3> QED
      BY <2>4, <3>3
  <2> QED
    BY <2>5, <2>6
<1>10. \E j \in 1..(Nodes - 1) : node_vm_vec[j] = [node |-> to, cnt |-> 0]
  <2>1. PICK j \in 1..Nodes : node_vm_vec[j].node = to
    BY <1>1 DEF VecShape
  <2>2. j # Nodes
    BY <1>4, <1>6, <2>1 DEF SmallNetdev
  <2>3. node_vm_vec[j].cnt = 0 /\ node_vm_vec[j] \in NodeCount
    BY <1>5, <1>6, <2>1 DEF Fresh
  <2>4. node_vm_vec[j] = [node |-> to, cnt |-> 0]
    BY <2>1, <2>3 DEF NodeCount
  <2>5. j \in 1..(Nodes - 1)
    BY <1>5, <2>2
  <2> QED
    BY <2>4, <2>5
<1>11. SmallNetdev' /\ Nodes' = Nodes
  BY <1>1, <1>4 DEF SmallNetdev, Nodes, min_vm_cnt
<1>12. Load(NetNode)' <= 1 /\ Load(to)' >= 1
  BY <1>1, <1>4, <1>5, <1>6, <1>7
<1>13. ~Received(NetNode)'
  BY <1>4, <1>5, <1>6, <1>7
<1>14. Load(min_load_node)' >= 1 /\ Received(min_load_node)'
  BY <1>1, <1>7, <1>12 DEF Load, Received, Elems, Home
<1>15. Stale'
  BY <1>1, <1>4, <1>7, <1>9, <1>10, <1>11, <1>12, <1>13, <1>14 DEF Stale
<1> QED
  BY <1>2, <1>4, <1>8, <1>15

LEMMA NetdevMoveStale ==
  ASSUME StrategyInv, VecShape, Stale, MoveOffNetdevNode
  PROVE  \E i, to : /\ Gives(NetNode, i, to)
                    /\ StateOf(vm_on_node[NetNode][i]) = "OTHER_STAT"
                    /\ \A n \in Node : Load(n) <= 2
                    /\ Stale'
<1>0. PICK to \in Node : to = Target
  BY NetdevMoveIs
<1>1. /\ pc = "balance" /\ Unbalanced /\ OnSmallNetdevNode
      /\ UNCHANGED <<vm_infos, rest, vmStateMap, node_vm_vec, max_vm_idx>>
      /\ to \in Node /\ min_load_node' = to
  BY <1>0, NetdevMoveIs
<1>2. PICK i \in DOMAIN vm_on_node[NetNode] :
        /\ vm_on_node' = Moved(NetNode, i, to)
        /\ StateOf(vm_on_node[NetNode][i]) = "OTHER_STAT"
  BY <1>0, NetdevMoveIs
<1>3. \/ Load(to) = min_vm_cnt
      \/ to = min_load_node /\ \A n \in Node : Load(n) # min_vm_cnt
  BY <1>0, NetdevMoveIs
<1>4. /\ \A n \in Node : Load(n) <= 2 /\ Load(n) \in Nat
      /\ min_load_node \in Node \ {NetNode} /\ Load(min_load_node) \in {1, 2}
      /\ Load(min_load_node) = 2 => Covered
      /\ \A j \in 1..(Nodes - 1) : node_vm_vec[j].node # NetNode
      /\ min_vm_cnt = 0 /\ NetNode \in Node /\ Nodes \in Nat
      /\ \A j \in 1..Nodes : /\ node_vm_vec[j] \in NodeCount
                             /\ node_vm_vec[j].node \in Node /\ node_vm_vec[j].cnt \in Nat
      /\ ~Received(NetNode) /\ HomeLoad(NetNode) >= 2
  BY <1>1, StaleFacts, ListFacts, VecFacts DEF Stale, SmallNetdev
<1>5. Load(NetNode) = 1
  <2>1. DOMAIN vm_on_node[NetNode] = 1..Load(NetNode)
    BY <1>4, ListFacts
  <2>2. Load(NetNode) >= 1
    BY <1>2, <1>4, <2>1
  <2> QED
    BY <1>4, <2>2 DEF Stale
<1>6. /\ Load(to) = 0 \/ (Load(to) = 1 /\ to = min_load_node /\ \A n \in Node : Load(n) >= 1)
      /\ to # NetNode
  BY <1>1, <1>3, <1>4, <1>5 DEF Covered
<1>7. /\ \A n : HomeLoad(n)' = HomeLoad(n)
      /\ \A n \in Node : Load(n)' =
           IF n = NetNode THEN Load(n) - 1 ELSE IF n = to THEN Load(n) + 1 ELSE Load(n)
      /\ \A n \in Node : Received(n)' => n = to \/ Received(n)
      /\ Received(to)'
  BY <1>1, <1>2, <1>4, <1>6, MoveFacts
<1>8. Gives(NetNode, i, to)
  <2>1. Load(to) = 0 \/ (Load(to) = 1 /\ Received(to))
    BY <1>6 DEF Stale
  <2> QED
    BY <1>1, <1>2, <1>4, <1>6, <2>1 DEF Gives
<1>9. ASSUME NEW j \in 1..(Nodes - 1)
      PROVE  /\ StaleCount(node_vm_vec[j].node, node_vm_vec[j].cnt)'
             /\ node_vm_vec[j].node = to => node_vm_vec[j] = [node |-> to, cnt |-> 0]
  <2>0. PICK n, c : n = node_vm_vec[j].node /\ c = node_vm_vec[j].cnt
    OBVIOUS
  <2>1. j \in 1..Nodes
    BY <1>4
  <2>2. n \in Node /\ c \in Nat /\ n # NetNode /\ node_vm_vec[j] \in NodeCount
    BY <1>4, <2>0, <2>1
  <2>3. StaleCount(n, c)
    BY <2>0 DEF Stale
  <2>4. n = node_vm_vec'[j].node /\ c = node_vm_vec'[j].cnt
    BY <1>1, <2>0
  <2>5. ASSUME n = min_load_node PROVE c = 0
    <3>1. PICK l \in 1..(Nodes - 1) : node_vm_vec[l] = [node |-> min_load_node, cnt |-> 0]
      BY DEF Stale
    <3>2. l \in 1..Nodes /\ node_vm_vec[l].node = node_vm_vec[j].node
      BY <1>4, <2>0, <2>5, <3>1
    <3>3. l = j
      BY <2>1, <3>2 DEF VecShape
    <3> QED
      BY <2>0, <3>1, <3>3
  <2>6. CASE n = to
    <3>1. c = 0
      BY <1>4, <1>6, <2>2, <2>3, <2>5, <2>6 DEF StaleCount
    <3>2. Load(n)' = Load(to) + 1
      BY <1>7, <2>2, <2>6
    <3>3. Load(to) = 1 => Covered'
      <4>1. ASSUME Load(to) = 1, NEW k \in Node \ {NetNode} PROVE Load(k)' >= 1
        BY <1>4, <1>6, <1>7, <4>1
      <4>2. Load(NetNode)' = 0
        BY <1>4, <1>5, <1>7
      <4> QED
        BY <4>1, <4>2 DEF Covered
    <3>4. StaleCount(n, c)'
      BY <1>6, <3>1, <3>2, <3>3 DEF StaleCount
    <3>5. node_vm_vec[j] = [node |-> to, cnt |-> 0]
      BY <2>0, <2>2, <2>6, <3>1 DEF NodeCount
    <3> QED
      BY <2>4, <3>4, <3>5
  <2>7. CASE n # to
    <3>1. Load(n)' = Load(n)
      BY <1>7, <2>2, <2>7
    <3>2. Received(n)' => Received(n)
      BY <1>7, <2>2, <2>7
    <3>3. ~Covered
      BY <1>5 DEF Covered
    <3>4. StaleCount(n, c)'
      BY <2>3, <3>1, <3>2, <3>3 DEF StaleCount
    <3> QED
      BY <2>0, <2>4, <2>7, <3>4
  <2> QED
    BY <2>6, <2>7
<1>10. \E j \in 1..(Nodes - 1) : node_vm_vec[j] = [node |-> to, cnt |-> 0]
  <2>1. \E j \in 1..(Nodes - 1) : node_vm_vec[j].node = to
    BY <1>1, <1>6, StaleFacts
  <2> QED
    BY <2>1, <1>9
<1>11. SmallNetdev' /\ Nodes' = Nodes
  BY <1>1 DEF Stale, SmallNetdev, Nodes, min_vm_cnt
<1>12. Load(NetNode)' <= 1 /\ Load(to)' >= 1
  BY <1>1, <1>4, <1>5, <1>6, <1>7
<1>13. ~Received(NetNode)'
  BY <1>4, <1>6, <1>7
<1>14. Load(min_load_node)' >= 1 /\ Received(min_load_node)'
  BY <1>1, <1>7, <1>12 DEF Load, Received, Elems, Home
<1>15. Stale'
  BY <1>1, <1>4, <1>7, <1>9, <1>10, <1>11, <1>12, <1>13, <1>14 DEF Stale
<1> QED
  BY <1>2, <1>4, <1>8, <1>15

-----------------------------------------------------------------------------
(***************************************************************************)
(* One iteration: peak, the netdev node's VMs, and the bound on the loop.  *)
(***************************************************************************)
NoneReceived == \A n \in Node : ~Received(n)

LEMMA HomeIsNode ==
  ASSUME StrategyInv, NEW v \in Listed
  PROVE  Home(v) \in Node
<1>1. v \in DOMAIN vm_infos /\ vm_infos[v] \in VmInfo
  BY DEF StrategyInv, TypeOK
<1> QED
  BY <1>1, NodeFacts DEF Home, VmInfo

LEMMA HomePeakAndStay == StrategyInv /\ NoneReceived => Peak /\ Stay
<1> SUFFICES ASSUME StrategyInv, NoneReceived PROVE Peak /\ Stay
  OBVIOUS
<1>1. Peak
  BY LoadAtHome DEF Peak, NoneReceived
<1>2. ASSUME NEW v \in Listed, Home(v) = NetNode PROVE v \in Elems(vm_on_node[NetNode])
  <2>1. PICK n \in Node : v \in Elems(vm_on_node[n])
    BY DEF Listed
  <2>2. Home(v) = n
    BY <2>1 DEF NoneReceived, Received
  <2> QED
    BY <1>2, <2>1, <2>2
<1> QED
  BY <1>1, <1>2 DEF Stay

LEMMA MoveKeepsPeak ==
  ASSUME StrategyInv, Peak,
         NEW from \in Node, NEW i \in DOMAIN vm_on_node[from], NEW to \in Node,
         from # to, vm_on_node' = Moved(from, i, to), UNCHANGED <<vm_infos, rest>>,
         Load(to) < Load(from) \/ (Load(to) <= 1 /\ HomeLoad(NetNode) >= 2)
  PROVE  Peak'
<1>1. /\ \A n : HomeLoad(n)' = HomeLoad(n)
      /\ \A n \in Node : Load(n)' =
           IF n = from THEN Load(n) - 1 ELSE IF n = to THEN Load(n) + 1 ELSE Load(n)
  BY MoveFacts
<1>2. NetNode \in Node /\ \A n \in Node : Load(n) \in Nat /\ HomeLoad(n) \in Nat
  BY ListFacts, HomeLoadType
<1>3. ASSUME NEW n \in Node PROVE \E m \in Node : Load(n)' <= HomeLoad(m)
  <2>1. PICK m \in Node : Load(n) <= HomeLoad(m)
    BY DEF Peak
  <2>2. PICK k \in Node : Load(from) <= HomeLoad(k)
    BY DEF Peak
  <2>3. CASE n # to
    <3>1. Load(n)' <= Load(n) /\ Load(n)' \in Int
      BY <1>1, <1>2, <2>3
    <3>2. Load(n)' <= HomeLoad(m)
      BY <1>2, <2>1, <3>1
    <3> QED
      BY <3>2
  <2>4. CASE n = to
    <3>1. Load(n)' = Load(to) + 1
      BY <1>1, <2>4
    <3>2. Load(n)' <= HomeLoad(k) \/ Load(n)' <= HomeLoad(NetNode)
      BY <1>2, <2>2, <3>1
    <3> QED
      BY <1>2, <3>2
  <2> QED
    BY <2>3, <2>4
<1> QED
  BY <1>1, <1>3 DEF Peak

LEMMA MoveKeepsStay ==
  ASSUME StrategyInv, Stay,
         NEW from \in Node, NEW i \in DOMAIN vm_on_node[from], NEW to \in Node,
         from # to, vm_on_node' = Moved(from, i, to), UNCHANGED <<vm_infos, rest, vmStateMap>>,
         \/ from # NetNode
         \/ HomeLoad(NetNode) > 2
         \/ StateOf(vm_on_node[from][i]) = "OTHER_STAT"
  PROVE  Stay'
<1>1. /\ \A n : HomeLoad(n)' = HomeLoad(n)
      /\ Listed' = Listed
  BY MoveFacts
<1>2. MoveDone(from, i, to)
  <2>1. vm_infos' = vm_infos
    OBVIOUS
  <2> QED
    BY <2>1, MoveEffect
<1>3. \A v : Home(v)' = Home(v) /\ StateOf(v)' = StateOf(v)
  BY DEF Home, StateOf
<1>4. HomeLoad(NetNode) \in Nat /\ NetNode \in Node
  BY HomeLoadType, ListFacts
<1>5. ASSUME HomeLoad(NetNode) <= 2, NEW v \in Listed,
             Home(v) = NetNode, StateOf(v) = "IO_STAT"
      PROVE  v \in Elems(vm_on_node'[NetNode])
  <2>1. v \in Elems(vm_on_node[NetNode])
    BY <1>5 DEF Stay
  <2>2. v # vm_on_node[from][i]
    <3>1. CASE from # NetNode
      BY <1>2, <1>4, <2>1, <3>1, OneNode DEF MoveDone
    <3>2. CASE from = NetNode
      BY <1>4, <1>5, <3>2
    <3> QED
      BY <3>1, <3>2
  <2> QED
    BY <1>2, <1>4, <2>1, <2>2 DEF MoveDone
<1>6. ASSUME NEW n PROVE Elems(vm_on_node[n])' = Elems(vm_on_node'[n])
  BY DEF Elems
<1> QED
  BY <1>1, <1>3, <1>5, <1>6 DEF Stay

Sized ==
  /\ Away \subseteq Listed /\ IsFiniteSet(Away) /\ Cardinality(Away) \in Nat
  /\ Left \subseteq Listed /\ IsFiniteSet(Left) /\ Cardinality(Left) \in Nat
  /\ Cardinality(Listed) \in Nat
  /\ Cardinality(Away) + Cardinality(Left) <= Cardinality(Listed)

LEMMA Sizes == StrategyInv => Sized
<1> SUFFICES ASSUME StrategyInv PROVE Sized
  OBVIOUS
<1>1. Away \subseteq Listed /\ Left \subseteq Listed /\ Away \cap Left = {}
  BY DEF Away, Left
<1>2. IsFiniteSet(Listed) /\ Cardinality(Listed) \in Nat
  BY ListFacts
<1>3. IsFiniteSet(Away) /\ IsFiniteSet(Left)
  BY <1>1, <1>2, FS_Subset
<1>4. Cardinality(Away) \in Nat /\ Cardinality(Left) \in Nat
  BY <1>3, FS_CardinalityType
<1>5. Cardinality(Away \cup Left) = Cardinality(Away) + Cardinality(Left) - Cardinality({})
  BY <1>1, <1>3, FS_Union
<1>6. Cardinality({}) = 0
  BY FS_EmptySet
<1>7. Cardinality(Away \cup Left) <= Cardinality(Listed)
  BY <1>1, <1>2, FS_Subset
<1> QED
  BY <1>1, <1>2, <1>3, <1>4, <1>5, <1>6, <1>7 DEF Sized

\* A VM that moves was at home, and is away from then on.
LEMMA MoveAway ==
  ASSUME StrategyInv, NEW from \in Node, NEW i \in DOMAIN vm_on_node[from], NEW to \in Node,
         from # to, vm_on_node' = Moved(from, i, to), UNCHANGED <<vm_infos, rest>>,
         ~Received(from)
  PROVE  Cardinality(Away)' = Cardinality(Away) + 1
<1> DEFINE v == vm_on_node[from][i]
<1>1. Listed' = Listed /\ Home(v) = from
  BY MoveFacts
<1>2. MoveDone(from, i, to)
  <2>1. vm_infos' = vm_infos
    OBVIOUS
  <2> QED
    BY <2>1, MoveEffect
<1>3. v \in Listed /\ v \in Elems(vm_on_node[from]) /\ v \notin Elems(vm_on_node'[from])
  BY <1>2, ListFacts DEF MoveDone
<1>4. \A w : Home(w)' = Home(w)
  BY DEF Home
<1>5. \A n \in Node : \A w : w # v => (w \in Elems(vm_on_node'[n]) <=> w \in Elems(vm_on_node[n]))
  BY <1>2 DEF MoveDone
<1> HIDE DEF v
<1>6. Away' = {w \in Listed : w \notin Elems(vm_on_node'[Home(w)])}
  BY <1>1, <1>4 DEF Away, Elems
<1>7. Away' = Away \cup {v}
  BY <1>1, <1>3, <1>5, <1>6, HomeIsNode DEF Away
<1>8. v \notin Away
  BY <1>1, <1>3 DEF Away
<1>9. Cardinality(Away \cup {v}) = Cardinality(Away) + 1
  BY <1>8, Sizes, FS_AddElement DEF Sized
<1>10. Cardinality(Away)' = Cardinality(Away')
  OBVIOUS
<1> QED
  BY <1>7, <1>9, <1>10

\* Of two VMs at home the one that does not move is left alone.
LEMMA MoveLeft ==
  ASSUME StrategyInv, NEW from \in Node, NEW i \in DOMAIN vm_on_node[from], NEW to \in Node,
         from # to, vm_on_node' = Moved(from, i, to), UNCHANGED <<vm_infos, rest>>,
         ~Received(from), from = NetNode \/ Load(from) = 2,
         Load(to) = 0 \/ (Load(to) = 1 /\ Received(to))
  PROVE  /\ Cardinality(Left)' >= Cardinality(Left)
         /\ from # NetNode => Cardinality(Left)' >= Cardinality(Left) + 1
<1> DEFINE v == vm_on_node[from][i]
<1>1. /\ Listed' = Listed
      /\ \A n \in Node : Load(n)' =
           IF n = from THEN Load(n) - 1 ELSE IF n = to THEN Load(n) + 1 ELSE Load(n)
  BY MoveFacts
<1>2. MoveDone(from, i, to)
  <2>1. vm_infos' = vm_infos
    OBVIOUS
  <2> QED
    BY <2>1, MoveEffect
<1>3. v \in Elems(vm_on_node[from])
  BY <1>2 DEF MoveDone
<1>4. \A w : Home(w)' = Home(w)
  BY DEF Home
<1>5. \A n \in Node : \A w : w # v => (w \in Elems(vm_on_node'[n]) <=> w \in Elems(vm_on_node[n]))
  BY <1>2 DEF MoveDone
<1>6. Left' = {w \in Listed : /\ Home(w) # NetNode
                              /\ w \in Elems(vm_on_node'[Home(w)])
                              /\ Len(vm_on_node'[Home(w)]) = 1}
  BY <1>1, <1>4 DEF Left, Elems, Load
<1>7. \A n \in Node : Len(vm_on_node'[n]) = Load(n)'
  BY DEF Load
<1>8. ASSUME NEW w \in Left PROVE w \in Left' /\ Home(w) # from
  <2> DEFINE h == Home(w)
  <2>1. w \in Listed /\ h # NetNode /\ w \in Elems(vm_on_node[h]) /\ Load(h) = 1 /\ h \in Node
    BY HomeIsNode DEF Left
  <2>2. h # from
    BY <2>1
  <2>3. h # to
    <3> SUFFICES ASSUME h = to PROVE FALSE
      OBVIOUS
    <3>1. PICK u \in Elems(vm_on_node[to]) : Home(u) # to
      BY <2>1 DEF Received
    <3>2. DOMAIN vm_on_node[to] = 1..1
      BY <2>1, ListFacts
    <3>3. u = vm_on_node[to][1] /\ w = vm_on_node[to][1]
      BY <2>1, <3>2 DEF Elems
    <3> QED
      BY <3>1, <3>3
  <2>4. w # v
    BY <1>3, <2>1, <2>2, OneNode
  <2>5. Len(vm_on_node'[h]) = 1
    BY <1>1, <1>7, <2>1, <2>2, <2>3
  <2>6. w \in Elems(vm_on_node'[h])
    BY <1>5, <2>1, <2>4
  <2> QED
    BY <1>6, <2>1, <2>2, <2>5, <2>6
<1>9. Left' \subseteq Listed /\ IsFiniteSet(Listed) /\ IsFiniteSet(Left) /\ Cardinality(Left) \in Nat
  BY <1>6, ListFacts, Sizes DEF Sized
<1>10. IsFiniteSet(Left')
  BY <1>9, FS_Subset
<1>11. Left \subseteq Left' /\ Cardinality(Left) <= Cardinality(Left')
  BY <1>8, <1>10, FS_Subset
<1>12. ASSUME from # NetNode PROVE Cardinality(Left) + 1 <= Cardinality(Left')
  <2>1. DOMAIN vm_on_node[from] = 1..2 /\ Load(from) = 2
    BY <1>12, ListFacts
  <2>2. PICK j \in DOMAIN vm_on_node[from] : j # i
    BY <2>1
  <2> DEFINE w == vm_on_node[from][j]
  <2>3. w \in Elems(vm_on_node[from]) /\ w # v
    BY <2>2, ListFacts DEF Elems, Distinct
  <2> HIDE DEF w, v
  <2>4. Home(w) = from /\ w \in Listed
    BY <2>3, ListFacts DEF Received
  <2>5. w \in Elems(vm_on_node'[from]) /\ Len(vm_on_node'[from]) = 1
    <3>1. w \in Elems(vm_on_node'[from])
      BY <1>5, <2>3
    <3>2. Load(from)' = 1
      BY <1>1, <2>1
    <3> QED
      BY <1>7, <3>1, <3>2
  <2>6. w \in Left'
    BY <1>6, <1>12, <2>4, <2>5
  <2>7. w \notin Left
    BY <2>1, <2>4 DEF Left
  <2>8. Cardinality(Left \cup {w}) = Cardinality(Left) + 1
    BY <1>9, <2>7, FS_AddElement
  <2>9. Left \cup {w} \in SUBSET Left'
    BY <1>11, <2>6
  <2>10. Cardinality(Left \cup {w}) <= Cardinality(Left')
    BY <1>10, <2>9, FS_Subset
  <2> QED
    BY <2>8, <2>10
<1>13. Cardinality(Left)' = Cardinality(Left') /\ Cardinality(Left') \in Nat
  BY <1>10, FS_CardinalityType
<1> QED
  BY <1>9, <1>11, <1>12, <1>13

-----------------------------------------------------------------------------
(***************************************************************************)
(* The steps.                                                              *)
(***************************************************************************)

\* A step that keeps the lists and the input keeps what is said of them.
LEMMA ListsKept ==
  ASSUME vm_infos' = vm_infos, vm_on_node' = vm_on_node
  PROVE  /\ Listed' = Listed /\ Away' = Away /\ Left' = Left
         /\ Peak => Peak'
         /\ Level => Level'
         /\ Settled => Settled'
         /\ Stay /\ vmStateMap' = vmStateMap => Stay'
         /\ \A n : Load(n)' = Load(n)
         /\ \A n : HomeLoad(n)' = HomeLoad(n)
         /\ \A n : Received(n)' <=> Received(n)
<1>1. Listed' = Listed
  BY DEF Listed, Elems
<1>2. /\ \A n : Load(n)' = Load(n)
      /\ \A n : Elems(vm_on_node[n])' = Elems(vm_on_node[n])
      /\ \A v : Home(v)' = Home(v)
  BY DEF Load, Elems, Home
<1>3. \A n : HomeLoad(n)' = HomeLoad(n)
  BY <1>1 DEF HomeLoad
<1>4. \A n : Received(n)' <=> Received(n)
  BY DEF Received, Elems, Home
<1>5. Away' = Away /\ Left' = Left
  BY <1>1 DEF Away, Left, Elems, Home, Load
<1>6. Peak => Peak'
  BY <1>2, <1>3 DEF Peak
<1>7. Level => Level'
  BY <1>2 DEF Level
<1>8. Settled => Settled'
  BY <1>2, <1>4 DEF Settled
<1>9. Stay /\ vmStateMap' = vmStateMap => Stay'
  BY <1>1, <1>3 DEF Stay, Home, StateOf, Elems
<1> QED
  BY <1>1, <1>2, <1>3, <1>4, <1>5, <1>6, <1>7, <1>8, <1>9

LEMMA NothingListed ==
  StrategyInv /\ Listed = {} => NoneReceived /\ Level /\ \A n \in Node : Load(n) = 0
<1> SUFFICES ASSUME StrategyInv, Listed = {}
             PROVE  NoneReceived /\ Level /\ \A n \in Node : Load(n) = 0
  OBVIOUS
<1>1. ASSUME NEW n \in Node PROVE Load(n) = 0 /\ ~Received(n)
  <2>1. /\ Elems(vm_on_node[n]) = {} /\ Load(n) \in Nat
        /\ DOMAIN vm_on_node[n] = 1..Load(n)
    BY ListFacts
  <2>2. 1 \notin 1..Load(n)
    BY <2>1 DEF Elems
  <2> QED
    BY <2>1, <2>2 DEF Received
<1> QED
  BY <1>1 DEF NoneReceived, Level

\* Before balancing the invariant is that no VM is away from home.
LEMMA BeforeBalancing ==
  StrategyInv /\ pc \in {"idle", "classify"} /\ turns = 0 /\ AtHome => BalanceInv
<1> SUFFICES ASSUME StrategyInv, pc \in {"idle", "classify"}, turns = 0, AtHome
             PROVE  BalanceInv
  OBVIOUS
<1>1. Peak /\ Stay
  BY HomePeakAndStay DEF AtHome, NoneReceived
<1>2. Measure
  BY Sizes DEF Measure, Sized
<1> QED
  BY <1>1, <1>2 DEF BalanceInv, Balancing

LEMMA OutsideBalance ==
  StrategyInv /\ pc \in {"idle", "classify"} /\ turns = 0 /\ Listed = {} => BalanceInv
  BY BeforeBalancing, NothingListed DEF AtHome, NoneReceived

LEMMA ClassifyBalance ==
  ASSUME StrategyInv, BalanceInv, NEW v \in Vm, ClassifySkips(v) \/ ClassifyCounts(v),
         StrategyInv'
  PROVE  BalanceInv'
<1>1. /\ pc = "classify" /\ pc' = pc /\ turns' = turns /\ vm_infos' = vm_infos
      /\ v \in DOMAIN vm_infos /\ vm_infos[v] \in VmInfo
  BY DEF ClassifySkips, ClassifyCounts, Visit, StrategyInv, TypeOK
<1>2. turns = 0 /\ (\A n \in Node : ~Received(n)) /\ (flag = FALSE => Listed = {})
  BY <1>1 DEF BalanceInv, Measure, AtHome
<1>3. (pc \in {"idle", "classify"})' /\ (turns = 0)'
  BY <1>1, <1>2
<1>4. CASE ClassifySkips(v)
  <2>1. vm_on_node' = vm_on_node /\ flag' = flag
    BY <1>4 DEF ClassifySkips
  <2>2. AtHome'
    BY <1>1, <1>2, <2>1, ListsKept DEF AtHome
  <2> QED
    BY <1>3, <2>2, BeforeBalancing, PTL
<1>5. CASE ClassifyCounts(v)
  <2> DEFINE h == vm_infos[v].home
  <2>1. vm_on_node' = [vm_on_node EXCEPT ![h] = Append(@, v)] /\ flag' = TRUE
    BY <1>5 DEF ClassifyCounts
  <2>2. h \in Node /\ vm_on_node[h] \in Seq(Vm) /\ vm_on_node \in Lists
    BY <1>1, NodeFacts, ListFacts DEF VmInfo
  <2>3. \A w : Home(w)' = Home(w)
    BY <1>1 DEF Home
  <2>4. ASSUME NEW n \in Node, NEW w \in Elems(vm_on_node'[n]) PROVE Home(w) = n
    <3>1. CASE n # h
      BY <1>2, <2>1, <2>2, <2>4, <3>1 DEF Received, Lists
    <3>2. CASE n = h
      <4>1. vm_on_node'[n] = Append(vm_on_node[h], v)
        BY <2>1, <2>2, <3>2 DEF Lists
      <4>2. PICK j \in 1..(Len(vm_on_node[h]) + 1) : w = Append(vm_on_node[h], v)[j]
        BY <2>2, <2>4, <4>1 DEF Elems
      <4>3. w = v \/ w \in Elems(vm_on_node[h])
        BY <2>2, <4>2 DEF Elems
      <4> QED
        BY <1>2, <2>2, <3>2, <4>3 DEF Received, Home
    <3> QED
      BY <3>1, <3>2
  <2>5. \A n \in Node : ~Received(n)'
    BY <2>3, <2>4 DEF Received, Elems
  <2>6. AtHome'
    BY <2>1, <2>5 DEF AtHome
  <2> QED
    BY <1>3, <2>6, BeforeBalancing, PTL
<1> QED
  BY <1>4, <1>5

LEMMA SortBalance ==
  ASSUME StrategyInv, BalanceInv, Sort, StrategyInv'
  PROVE  BalanceInv'
<1>1. /\ pc = "classify" /\ pc' = "balance" /\ turns' = turns /\ flag' = FALSE
      /\ vm_infos' = vm_infos /\ vm_on_node' = vm_on_node /\ vmStateMap' = vmStateMap
      /\ Rebuild(vm_on_node')
  BY DEF Sort
<1>2. turns = 0 /\ \A n \in Node : ~Received(n)
  BY <1>1 DEF BalanceInv, Measure, AtHome
<1>3. /\ VecShape' /\ max_vm_idx' = Nodes'
      /\ \A i \in 1..Nodes' : node_vm_vec'[i].cnt = Len(vm_on_node'[node_vm_vec'[i].node])
  BY <1>1, ListFacts, RebuiltShape
<1>4. Settled'
  BY <1>1, <1>2, ListsKept DEF Settled
<1>5. Balancing'
  BY <1>1, <1>3, <1>4 DEF Balancing, Fresh, Load
<1>6. Peak' /\ Stay'
  BY <1>1, ListsKept DEF BalanceInv
<1>7. Sized'
  BY Sizes, PTL
<1>8. Measure'
  BY <1>1, <1>2, <1>7 DEF Measure, Sized
<1> QED
  BY <1>1, <1>5, <1>6, <1>8 DEF BalanceInv, AtHome

\* The steps to the end that move nothing.
LEMMA EndBalance ==
  ASSUME StrategyInv, BalanceInv, UNCHANGED <<vm_infos, vm_on_node, vmStateMap, turns>>,
         pc' \in {"decide", "done"}, Level
  PROVE  BalanceInv'
<1>1. vm_infos' = vm_infos /\ vm_on_node' = vm_on_node /\ vmStateMap' = vmStateMap
  OBVIOUS
<1>2. Peak' /\ Stay' /\ Level' /\ Listed' = Listed
  BY <1>1, ListsKept DEF BalanceInv
<1>3. Measure'
  BY <1>2 DEF BalanceInv, Measure
<1> QED
  BY <1>2, <1>3 DEF BalanceInv, AtHome, Balancing

\* When the loop ends the nodes other than the netdev node are level, whether
\* node_vm_vec is true by then or not.
LEMMA LevelWhenBalanced ==
  ASSUME StrategyInv, BalanceInv, pc = "balance", ~Unbalanced
  PROVE  Level
<1>1. VecShape /\ (Fresh \/ Stale)
  BY DEF BalanceInv, Balancing
<1>2. /\ Nodes \in Nat /\ Nodes >= 1 /\ max_vm_idx \in 1..Nodes
      /\ \A i \in 1..Nodes : node_vm_vec[i].node \in Node /\ node_vm_vec[i].cnt \in Nat
      /\ min_vm_cnt \in Nat /\ max_vm_cnt \in Nat /\ min_vm_cnt <= max_vm_cnt
      /\ max_vm_cnt = node_vm_vec[max_vm_idx].cnt
  BY <1>1, VecFacts DEF max_vm_cnt
<1>3. max_vm_cnt <= 1 \/ max_vm_cnt <= min_vm_cnt + 1
  BY <1>2 DEF Unbalanced
<1>4. \A n \in Node : Load(n) \in Nat
  BY ListFacts
<1>5. CASE Fresh /\ max_vm_idx = Nodes
  <2>1. \A n \in Node : min_vm_cnt <= Load(n) /\ Load(n) <= max_vm_cnt
    BY <1>1, <1>2, <1>5, FreshFacts DEF Fresh
  <2>2. ASSUME NEW m \in Node, NEW n \in Node PROVE Load(m) <= Load(n) + 1
    BY <1>2, <1>3, <1>4, <2>1
  <2> QED
    BY <2>2 DEF Level
<1>6. CASE Fresh /\ SmallNetdev /\ max_vm_idx = Nodes - 1
  <2>1. node_vm_vec[Nodes].node = NetNode /\ max_vm_cnt <= 1
    BY <1>2, <1>3, <1>6 DEF SmallNetdev
  <2>2. ASSUME NEW m \in Node \ {NetNode} PROVE Load(m) <= 1
    <3>1. PICK i \in 1..Nodes : node_vm_vec[i].node = m
      BY <1>1 DEF VecShape
    <3>2. i # Nodes
      BY <2>1, <3>1
    <3>3. i <= max_vm_idx
      BY <1>2, <1>6, <3>2
    <3>4. node_vm_vec[i].cnt <= max_vm_cnt
      BY <1>1, <1>2, <3>3 DEF VecShape
    <3>5. Load(m) = node_vm_vec[i].cnt
      BY <1>6, <3>1 DEF Fresh
    <3> QED
      BY <1>2, <2>1, <3>4, <3>5
  <2>3. ASSUME NEW m \in Node \ {NetNode}, NEW n \in Node PROVE Load(m) <= Load(n) + 1
    BY <1>4, <2>2
  <2> QED
    BY <2>3 DEF Level
<1>7. CASE Stale
  <2>1. /\ SmallNetdev /\ node_vm_vec[Nodes].cnt = 2 /\ min_vm_cnt = 0
        /\ max_vm_idx \in {Nodes, Nodes - 1}
    BY <1>7 DEF Stale, SmallNetdev
  <2>2. max_vm_idx = Nodes - 1 /\ max_vm_cnt <= 1
    BY <1>2, <1>3, <2>1
  <2>3. ASSUME NEW m \in Node \ {NetNode}, NEW n \in Node \ {NetNode}
        PROVE  Load(m) <= Load(n) + 1
    <3>1. PICK i \in 1..(Nodes - 1) : node_vm_vec[i].node = m
      BY <1>1, <1>7, StaleFacts
    <3>2. i \in 1..Nodes /\ i <= max_vm_idx
      BY <1>2, <2>2
    <3>3. node_vm_vec[i].cnt <= max_vm_cnt
      BY <1>1, <1>2, <3>2 DEF VecShape
    <3>4. node_vm_vec[i].cnt <= 1
      BY <1>2, <2>2, <3>2, <3>3
    <3>5. StaleCount(m, node_vm_vec[i].cnt)
      BY <1>7, <3>1 DEF Stale
    <3>6. Load(m) <= 1 \/ (Load(m) = 2 /\ Load(n) >= 1)
      BY <1>2, <3>2, <3>4, <3>5 DEF StaleCount, Covered
    <3> QED
      BY <1>4, <3>6
  <2> QED
    BY <2>3 DEF Level
<1> QED
  BY <1>1, <1>5, <1>6, <1>7 DEF Fresh

LEMMA BalancedBalance ==
  ASSUME StrategyInv, BalanceInv, Balanced
  PROVE  BalanceInv'
<1>1. /\ pc = "balance" /\ ~Unbalanced /\ pc' = IF flag THEN "decide" ELSE "single"
      /\ vm_infos' = vm_infos /\ vm_on_node' = vm_on_node /\ vmStateMap' = vmStateMap
      /\ node_vm_vec' = node_vm_vec /\ max_vm_idx' = max_vm_idx
      /\ min_load_node' = min_load_node /\ turns' = turns /\ flag' = flag
  BY DEF Balanced, loopVars
<1>2. Level
  BY <1>1, LevelWhenBalanced
<1>3. CASE pc' = "decide"
  <2>1. UNCHANGED <<vm_infos, vm_on_node, vmStateMap, turns>>
    BY <1>1
  <2> QED
    BY <1>2, <1>3, <2>1, EndBalance
<1>4. CASE pc' = "single"
  <2>1. flag = FALSE
    BY <1>4 DEF Balanced, StrategyInv, TypeOK
  <2>2. VecShape /\ Fresh /\ max_vm_idx = Nodes
    BY <1>1, <2>1 DEF BalanceInv, Balancing
  <2>3. VecShape' /\ Nodes' = Nodes
    BY <1>1, <2>2 DEF VecShape, Nodes
  <2>4. Settled'
    BY <1>1, <2>2, ListsKept DEF Fresh
  <2>5. \A i \in 1..Nodes' : node_vm_vec'[i].cnt = Len(vm_on_node'[node_vm_vec'[i].node])
    BY <1>1, <2>2, <2>3 DEF Fresh, Load
  <2>6. max_vm_idx' = Nodes'
    BY <1>1, <2>2, <2>3
  <2>7. Fresh'
    BY <2>4, <2>5, <2>6 DEF Fresh, Load
  <2>8. Peak' /\ Stay' /\ Level' /\ Listed' = Listed
    BY <1>1, <1>2, ListsKept DEF BalanceInv
  <2>9. Measure'
    BY <1>1, <1>4, <2>8 DEF BalanceInv, Measure
  <2> QED
    BY <1>4, <2>3, <2>6, <2>7, <2>8, <2>9 DEF BalanceInv, AtHome, Balancing
<1> QED
  BY <1>1, <1>3, <1>4

LEMMA SkipBalance ==
  ASSUME StrategyInv, BalanceInv, SkipNetdevNode, StrategyInv'
  PROVE  BalanceInv'
<1>1. /\ pc = "balance" /\ pc' = "balance" /\ Unbalanced /\ OnSmallNetdevNode
      /\ vm_infos' = vm_infos /\ vm_on_node' = vm_on_node /\ vmStateMap' = vmStateMap
      /\ node_vm_vec' = node_vm_vec /\ min_load_node' = min_load_node
      /\ turns' = turns + 1 /\ flag' = TRUE
      /\ max_vm_idx' = IF max_vm_idx = 1 THEN 1 ELSE max_vm_idx - 1
  BY DEF SkipNetdevNode, Iterate
<1>2. VecShape /\ (Fresh \/ Stale)
  BY <1>1 DEF BalanceInv, Balancing
<1>3. Nodes \in Nat /\ max_vm_idx \in 1..Nodes
  BY <1>1, <1>2, VecFacts
<1>4. SmallNetdev /\ Nodes > 1 /\ max_vm_idx = Nodes /\ \A n \in Node : Load(n) <= 2
  <2>1. CASE Fresh
    BY <1>1, <1>2, <2>1, SmallFresh DEF SmallNetdev
  <2>2. CASE Stale
    BY <1>1, <1>2, <2>2, SmallStale, StaleFacts DEF Stale, SmallNetdev
  <2> QED
    BY <1>2, <2>1, <2>2
<1>5. Nodes' = Nodes /\ VecShape' /\ SmallNetdev'
  BY <1>1, <1>2, <1>4 DEF Nodes, VecShape, SmallNetdev, min_vm_cnt
<1>6. max_vm_idx' = Nodes' - 1 /\ max_vm_idx' < Nodes'
  BY <1>1, <1>3, <1>4, <1>5
<1>7. /\ Listed' = Listed /\ Away' = Away /\ Left' = Left /\ Peak' /\ Stay'
      /\ \A n : Load(n)' = Load(n)
      /\ \A n : HomeLoad(n)' = HomeLoad(n)
      /\ \A n : Received(n)' <=> Received(n)
      /\ Settled => Settled'
  BY <1>1, ListsKept DEF BalanceInv
<1>8. Fresh' \/ Stale'
  <2> USE DEF Load, Received, Home, Elems
  <2>1. CASE Fresh
    <3>1. node_vm_vec' = node_vm_vec /\ vm_on_node' = vm_on_node
      BY <1>1
    <3>2. \A i \in 1..Nodes : node_vm_vec[i].cnt = Len(vm_on_node[node_vm_vec[i].node])
      BY <2>1 DEF Fresh
    <3>3. \A i \in 1..Nodes' : node_vm_vec'[i].cnt = Len(vm_on_node'[node_vm_vec'[i].node])
      BY <1>5, <3>1, <3>2
    <3>4. Settled'
      BY <1>7, <2>1 DEF Fresh
    <3> QED
      BY <1>5, <1>6, <3>3, <3>4 DEF Fresh
  <2>2. CASE Stale
    <3>1. /\ vm_infos' = vm_infos /\ vm_on_node' = vm_on_node
          /\ node_vm_vec' = node_vm_vec /\ min_load_node' = min_load_node
      BY <1>1
    <3>2. \A n, c : StaleCount(n, c) => StaleCount(n, c)'
      BY <3>1 DEF StaleCount, Covered
    <3>3. \A i \in 1..(Nodes - 1) : StaleCount(node_vm_vec[i].node, node_vm_vec[i].cnt)'
      BY <2>2, <3>1, <3>2 DEF Stale
    <3>4. /\ Load(NetNode)' <= 1 /\ ~Received(NetNode)' /\ HomeLoad(NetNode)' >= 2
          /\ Load(min_load_node)' >= 1 /\ Received(min_load_node)'
      BY <1>7, <2>2, <3>1 DEF Stale
    <3>5. \E i \in 1..(Nodes - 1) : node_vm_vec[i] = [node |-> min_load_node, cnt |-> 0]
      BY <2>2 DEF Stale
    <3> QED
      BY <1>5, <1>6, <3>1, <3>3, <3>4, <3>5 DEF Stale
  <2> QED
    BY <1>2, <2>1, <2>2
<1>9. Balancing'
  <2>1. flag' # FALSE /\ pc' # "single"
    BY <1>1
  <2> QED
    BY <1>5, <1>8, <2>1 DEF Balancing
<1>10. Sized /\ turns \in Nat
  BY Sizes DEF StrategyInv, TypeOK
<1>11. \/ turns <= Cardinality(Away)
       \/ turns <= Cardinality(Away) + Cardinality(Left)
  BY <1>1, <1>3, <1>4, <1>10 DEF BalanceInv, Measure, Sized
<1>12. turns' <= Cardinality(Away') + Cardinality(Left') + 1
  BY <1>1, <1>7, <1>10, <1>11 DEF Sized
<1>13. turns' <= Cardinality(Listed') + 1
  BY <1>7, <1>10, <1>12, <1>1 DEF Sized
<1>14. Measure'
  BY <1>1, <1>4, <1>6, <1>7, <1>12, <1>13 DEF Measure
<1> QED
  BY <1>1, <1>7, <1>9, <1>14 DEF BalanceInv, AtHome

\* What a move keeps, whichever of the two steps makes it.
LEMMA AfterMove ==
  ASSUME StrategyInv, StrategyInv', BalanceInv, pc = "balance", pc' = "balance",
         NEW from, NEW i, NEW to, Gives(from, i, to),
         vm_infos' = vm_infos, rest' = rest, vmStateMap' = vmStateMap, turns' = turns + 1,
         \/ from # NetNode
         \/ HomeLoad(NetNode) > 2
         \/ StateOf(vm_on_node[from][i]) = "OTHER_STAT",
         \/ from = NetNode /\ max_vm_idx' = max_vm_idx /\ Nodes' = Nodes
         \/ from # NetNode /\ Load(from) >= 2
         \/ Load(from) > 2
  PROVE  Peak' /\ Stay' /\ Measure'
<1>1. /\ from \in Node /\ to \in Node /\ i \in DOMAIN vm_on_node[from] /\ from # to
      /\ vm_on_node' = Moved(from, i, to) /\ ~Received(from)
      /\ Load(to) < Load(from) \/ (Load(to) <= 1 /\ HomeLoad(NetNode) >= 2)
      /\ (\A n \in Node : Load(n) <= 2) => Load(to) = 0 \/ (Load(to) = 1 /\ Received(to))
  BY DEF Gives
<1>2. UNCHANGED <<vm_infos, rest>> /\ UNCHANGED <<vm_infos, rest, vmStateMap>>
  OBVIOUS
<1>3. Peak'
  <2>1. Peak
    BY DEF BalanceInv
  <2> QED
    BY <1>1, <1>2, <2>1, MoveKeepsPeak
<1>4. Stay'
  <2>1. Stay
    BY DEF BalanceInv
  <2> QED
    BY <1>1, <1>2, <2>1, MoveKeepsStay
<1>5. /\ Listed' = Listed
      /\ \A n \in Node : Load(n)' =
           IF n = from THEN Load(n) - 1 ELSE IF n = to THEN Load(n) + 1 ELSE Load(n)
  BY <1>1, <1>2, MoveFacts
<1>6. Cardinality(Away)' = Cardinality(Away) + 1
  BY <1>1, <1>2, MoveAway
<1>7. Sized /\ Sized' /\ turns \in Nat /\ \A n \in Node : Load(n) \in Nat
  <2>1. Sized /\ turns \in Nat /\ \A n \in Node : Load(n) \in Nat
    BY Sizes, ListFacts DEF StrategyInv, TypeOK
  <2>2. Sized'
    BY Sizes, PTL
  <2> QED
    BY <2>1, <2>2
<1> DEFINE e == IF max_vm_idx < Nodes THEN 1 ELSE 0
<1>8. \/ turns <= Cardinality(Away)
      \/ /\ \A n \in Node : Load(n) <= 2
         /\ turns <= Cardinality(Away) + Cardinality(Left) + e
  BY DEF BalanceInv, Measure
<1>9. \/ turns' <= Cardinality(Away)'
      \/ /\ \A n \in Node : Load(n)' <= 2
         /\ turns' <= Cardinality(Away)' + Cardinality(Left)' + e'
  <2>1. CASE turns <= Cardinality(Away)
    BY <1>6, <1>7, <2>1 DEF Sized
  <2>2. CASE /\ \A n \in Node : Load(n) <= 2
             /\ turns <= Cardinality(Away) + Cardinality(Left) + e
    <3>1. from = NetNode \/ Load(from) = 2
      BY <1>1, <1>7, <2>2
    <3>2. Load(to) = 0 \/ (Load(to) = 1 /\ Received(to))
      BY <1>1, <2>2
    <3>3. /\ Cardinality(Left)' >= Cardinality(Left)
          /\ from # NetNode => Cardinality(Left)' >= Cardinality(Left) + 1
      BY <1>1, <1>2, <3>1, <3>2, MoveLeft
    <3>4. \A n \in Node : Load(n)' <= 2
      BY <1>1, <1>5, <1>7, <2>2, <3>2
    <3>5. CASE from # NetNode
      <4>1. e \in 0..1 /\ e' \in 0..1
        OBVIOUS
      <4> HIDE DEF e
      <4>2. turns' <= Cardinality(Away)' + Cardinality(Left)' + e'
        BY <1>6, <1>7, <2>2, <3>3, <3>5, <4>1 DEF Sized
      <4> QED
        BY <3>4, <4>2
    <3>6. CASE from = NetNode
      <4>1. max_vm_idx' = max_vm_idx /\ Nodes' = Nodes
        BY <1>1, <1>7, <2>2, <3>6
      <4>2. e' = e /\ e \in 0..1
        BY <4>1
      <4> HIDE DEF e
      <4>3. turns' <= Cardinality(Away)' + Cardinality(Left)' + e'
        BY <1>6, <1>7, <2>2, <3>3, <4>2 DEF Sized
      <4> QED
        BY <3>4, <4>3
    <3> QED
      BY <3>5, <3>6
  <2> QED
    BY <1>8, <2>1, <2>2
<1>10. turns' <= Cardinality(Listed)' + 1
  <2>1. e' \in 0..1
    OBVIOUS
  <2> HIDE DEF e
  <2> QED
    BY <1>7, <1>9, <2>1 DEF Sized
<1>11. Measure'
  BY <1>9, <1>10 DEF Measure
<1> QED
  BY <1>3, <1>4, <1>11

LEMMA NetdevBalance ==
  ASSUME StrategyInv, BalanceInv, MoveOffNetdevNode, StrategyInv'
  PROVE  BalanceInv'
<1>1. /\ pc = "balance" /\ pc' = "balance" /\ turns' = turns + 1 /\ flag' = TRUE
      /\ vm_infos' = vm_infos /\ rest' = rest /\ vmStateMap' = vmStateMap
      /\ node_vm_vec' = node_vm_vec /\ max_vm_idx' = max_vm_idx
  BY DEF MoveOffNetdevNode, Iterate
<1>2. VecShape /\ (Fresh \/ Stale)
  BY <1>1 DEF BalanceInv, Balancing
<1>3. PICK i, to : /\ Gives(NetNode, i, to)
                   /\ StateOf(vm_on_node[NetNode][i]) = "OTHER_STAT"
                   /\ Stale'
  BY <1>2, NetdevMoveFresh, NetdevMoveStale
<1>4. Nodes' = Nodes /\ VecShape'
  BY <1>1, <1>2 DEF Nodes, VecShape
<1>5. Peak' /\ Stay' /\ Measure'
  BY <1>1, <1>3, <1>4, AfterMove
<1>6. Balancing'
  <2>1. flag' # FALSE /\ pc' # "single"
    BY <1>1
  <2> QED
    BY <1>3, <1>4, <2>1 DEF Balancing
<1> QED
  BY <1>1, <1>5, <1>6 DEF BalanceInv, AtHome

LEMMA HighBalance ==
  ASSUME StrategyInv, BalanceInv, MoveOffHighLoadNode, StrategyInv'
  PROVE  BalanceInv'
<1>1. /\ pc = "balance" /\ pc' = "balance" /\ turns' = turns + 1 /\ flag' = TRUE
      /\ vm_infos' = vm_infos /\ rest' = rest /\ vmStateMap' = vmStateMap
      /\ Rebuild(vm_on_node')
  BY DEF MoveOffHighLoadNode, Iterate
<1>2. VecShape /\ (Fresh \/ Stale)
  BY <1>1 DEF BalanceInv, Balancing
<1>3. PICK from, to, i : /\ Gives(from, i, to)
                         /\ from = NetNode => Load(from) > 2
                         /\ Load(from) >= 2
                         /\ Settled'
  <2>1. CASE Fresh
    BY <1>2, <2>1, HighMoveFresh
  <2>2. CASE Stale
    <3>1. PICK from, to, i : /\ Gives(from, i, to)
                             /\ from # NetNode
                             /\ Load(from) = 2
                             /\ Settled'
      BY <1>2, <2>2, HighMoveStale
    <3>2. Load(from) >= 2
      BY <3>1
    <3> QED
      BY <3>1, <3>2
  <2> QED
    BY <1>2, <2>1, <2>2
<1>4. from # NetNode \/ HomeLoad(NetNode) > 2
  <2>1. CASE from = NetNode
    <3>1. Load(NetNode) <= HomeLoad(NetNode) /\ NetNode \in Node
      BY <1>3, <2>1, LoadAtHome DEF Gives
    <3> QED
      BY <1>3, <2>1, <3>1, ListFacts, HomeLoadType
  <2> QED
    BY <2>1
<1>5. Peak' /\ Stay' /\ Measure'
  BY <1>1, <1>3, <1>4, AfterMove
<1>6. vm_on_node' \in Lists
  BY DEF StrategyInv, TypeOK, Lists
<1>7. /\ VecShape' /\ max_vm_idx' = Nodes'
      /\ \A i_1 \in 1..Nodes' :
           node_vm_vec'[i_1].cnt = Len(vm_on_node'[node_vm_vec'[i_1].node])
  BY <1>1, <1>6, RebuiltShape
<1>8. Fresh'
  BY <1>3, <1>7 DEF Fresh, Load
<1>9. Balancing'
  <2>1. flag' # FALSE /\ pc' # "single"
    BY <1>1
  <2> QED
    BY <1>7, <1>8, <2>1 DEF Balancing
<1> QED
  BY <1>1, <1>5, <1>9 DEF BalanceInv, AtHome

LEMMA UseNetdevBalance ==
  ASSUME StrategyInv, BalanceInv, UseNetdevNode
  PROVE  BalanceInv'
<1>1. /\ pc = "single" /\ pc' = "decide" /\ turns' = turns
      /\ vm_infos' = vm_infos /\ rest' = rest /\ vmStateMap' = vmStateMap
      /\ vm_on_node' = IF NetdevNodeFree THEN Moved(high_load_node, 1, NetNode)
                                         ELSE vm_on_node
  BY DEF UseNetdevNode
<1>2. VecShape /\ Fresh /\ max_vm_idx = Nodes /\ Level
  BY <1>1 DEF BalanceInv, Balancing
<1>3. CASE ~NetdevNodeFree
  <2>1. UNCHANGED <<vm_infos, vm_on_node, vmStateMap, turns>>
    BY <1>1, <1>3
  <2> QED
    BY <1>1, <1>2, <2>1, EndBalance
<1>4. CASE NetdevNodeFree
  <2>1. PICK high \in Node : high = high_load_node
    BY <1>1, <1>2, VecFacts
  <2>2. Load(high) = 1 /\ Load(NetNode) = 0 /\ NetNode \in Node
    <3>1. Load(high_load_node) = max_vm_cnt
      BY <1>1, <1>2, FreshFacts DEF Fresh
    <3>2. Len(<<>>) = 0
      OBVIOUS
    <3> QED
      BY <1>4, <2>1, <3>1, <3>2, ListFacts DEF NetdevNodeFree, Load
  <2>3. \A n \in Node : Load(n) \in Nat /\ Load(n) <= 1
    <3>1. \A n \in Node : Load(n) <= node_vm_vec[Nodes].cnt
      BY <1>1, <1>2, FreshFacts DEF Fresh
    <3>2. node_vm_vec[Nodes].cnt = 1
      BY <1>2, <1>4 DEF NetdevNodeFree, max_vm_cnt
    <3> QED
      BY <3>1, <3>2, ListFacts
  <2>4. high # NetNode /\ 1 \in DOMAIN vm_on_node[high]
    BY <2>2, ListFacts
  <2>5. vm_on_node' = Moved(high, 1, NetNode)
    BY <1>1, <1>4, <2>1
  <2>6. UNCHANGED <<vm_infos, rest>> /\ UNCHANGED <<vm_infos, rest, vmStateMap>>
    BY <1>1
  <2>7. /\ Listed' = Listed
        /\ \A n \in Node : Load(n)' =
             IF n = high THEN Load(n) - 1 ELSE IF n = NetNode THEN Load(n) + 1 ELSE Load(n)
    BY <2>2, <2>4, <2>5, <2>6, MoveFacts
  <2>8. Peak /\ Stay
    BY DEF BalanceInv
  <2>9. Peak'
    <3>1. Load(NetNode) < Load(high)
      BY <2>2
    <3> QED
      BY <2>2, <2>4, <2>5, <2>6, <2>8, <3>1, MoveKeepsPeak
  <2>10. Stay'
    BY <2>2, <2>4, <2>5, <2>6, <2>8, MoveKeepsStay
  <2>11. Level'
    <3>1. ASSUME NEW n \in Node PROVE Load(n)' \in 0..1
      <4>1. n # NetNode /\ n # high => Load(n)' = Load(n)
        BY <2>7
      <4>2. n = high => Load(n)' = 0
        BY <2>2, <2>7
      <4>3. n = NetNode => Load(n)' = 1
        BY <2>2, <2>4, <2>7
      <4>4. Load(n) \in 0..1
        BY <2>3
      <4> QED
        BY <4>1, <4>2, <4>3, <4>4
    <3>2. \A m, n \in Node : Load(m)' <= Load(n)' + 1
      BY <3>1
    <3> QED
      BY <3>2 DEF Level
  <2>12. Measure'
    BY <1>1, <2>7 DEF BalanceInv, Measure
  <2> QED
    BY <1>1, <2>9, <2>10, <2>11, <2>12 DEF BalanceInv, AtHome, Balancing
<1> QED
  BY <1>3, <1>4

LEMMA BalanceInitially == Init => BalanceInv
<1> SUFFICES ASSUME Init PROVE BalanceInv
  OBVIOUS
<1>1. StrategyInv
  BY StrategyInitially
<1>2. pc = "idle" /\ turns = 0
  BY DEF Init
<1>3. Listed = {}
  BY <1>1, <1>2 DEF StrategyInv
<1> QED
  BY <1>1, <1>2, <1>3, OutsideBalance

LEMMA NextBalance ==
  ASSUME StrategyInv, BalanceInv, [Next]_vars
  PROVE  BalanceInv'
<1>1. StrategyInv'
  BY NextKeeps
<1>2. CASE Return
  <2>1. (pc \in {"idle", "classify"})' /\ (turns = 0)'
    BY <1>2 DEF Return
  <2>2. (Listed = {})'
    BY <1>1, <1>2 DEF Return, StrategyInv
  <2> QED
    BY <1>1, <2>1, <2>2, OutsideBalance, PTL
<1>3. ASSUME NEW infos \in VmInfos, pc = "idle", Call(infos) PROVE BalanceInv'
  <2>1. (pc \in {"idle", "classify"})' /\ (turns = 0)'
    BY <1>3 DEF Call, BalanceInv, Measure
  <2>2. (Listed = {})'
    BY <1>3 DEF Call, StrategyInv, Listed
  <2> QED
    BY <1>1, <2>1, <2>2, OutsideBalance, PTL
<1>4. ASSUME NEW v \in Vm, ClassifySkips(v) \/ ClassifyCounts(v) PROVE BalanceInv'
  BY <1>1, <1>4, ClassifyBalance
<1>5. CASE NoneCounted
  <2>1. flag = FALSE /\ pc = "classify" /\ pc' = "done"
    BY <1>5 DEF NoneCounted, StrategyInv, TypeOK
  <2>2. UNCHANGED <<vm_infos, vm_on_node, vmStateMap, turns>>
    BY <1>5 DEF NoneCounted
  <2>3. Level
    BY <2>1, NothingListed DEF BalanceInv, AtHome
  <2> QED
    BY <2>1, <2>2, <2>3, EndBalance
<1>6. CASE Sort
  BY <1>1, <1>6, SortBalance
<1>7. CASE SkipNetdevNode
  BY <1>1, <1>7, SkipBalance
<1>8. CASE MoveOffNetdevNode
  BY <1>1, <1>8, NetdevBalance
<1>9. CASE MoveOffHighLoadNode
  BY <1>1, <1>9, HighBalance
<1>10. CASE Balanced
  BY <1>10, BalancedBalance
<1>11. CASE UseNetdevNode
  BY <1>11, UseNetdevBalance
<1>12. CASE Decide
  <2>1. UNCHANGED <<vm_infos, vm_on_node, vmStateMap, turns>> /\ pc' = "done"
    BY <1>12 DEF Decide
  <2>2. Level
    BY <1>12 DEF Decide, BalanceInv
  <2> QED
    BY <2>1, <2>2, EndBalance
<1>13. CASE UNCHANGED vars
  <2>1. /\ vm_infos' = vm_infos /\ vm_on_node' = vm_on_node /\ vmStateMap' = vmStateMap
        /\ pc' = pc /\ flag' = flag /\ turns' = turns
        /\ node_vm_vec' = node_vm_vec /\ max_vm_idx' = max_vm_idx
        /\ min_load_node' = min_load_node
    BY <1>13 DEF vars, loopVars
  <2>2. Peak' /\ Stay' /\ (Level => Level') /\ Listed' = Listed
    BY <2>1, ListsKept DEF BalanceInv
  <2>3. AtHome'
    BY <2>1, ListsKept DEF BalanceInv, AtHome
  <2>4. Measure'
    BY <2>1 DEF BalanceInv, Measure, Away, Left, Listed, Elems, Home, Load, Nodes
  <2>5. Balancing'
    <3>1. /\ Nodes' = Nodes /\ (VecShape => VecShape') /\ (SmallNetdev => SmallNetdev')
          /\ Settled => Settled'
      BY <2>1, ListsKept DEF Nodes, VecShape, SmallNetdev, min_vm_cnt
    <3>2. Fresh => Fresh'
      BY <2>1, <3>1 DEF Fresh, Load
    <3>3. \A n, c : StaleCount(n, c) => StaleCount(n, c)'
      BY <2>1 DEF StaleCount, Covered, Load, Received, Home, Elems
    <3>4. Stale => Stale'
      BY <2>1, <3>1, <3>3, ListsKept DEF Stale, Load, Received, Home, Elems
    <3> QED
      BY <2>1, <3>1, <3>2, <3>4 DEF BalanceInv, Balancing
  <2> QED
    BY <2>1, <2>2, <2>3, <2>4, <2>5 DEF BalanceInv
<1> QED
  BY <1>2, <1>3, <1>4, <1>5, <1>6, <1>7, <1>8, <1>9, <1>10, <1>11, <1>12, <1>13
  DEF Next, Body

-----------------------------------------------------------------------------
(***************************************************************************)
(* The theorems.                                                           *)
(***************************************************************************)

\* What the balancing loop of analyze keeps from its first iteration to the
\* decisions, with node_vm_vec true or not.
THEOREM BalanceInvariant == Spec => []BalanceInv
<1>1. StrategyInv /\ BalanceInv /\ [Next]_vars => BalanceInv'
  BY NextBalance
<1> QED
  BY BalanceInitially, StrategyInvariant, <1>1, PTL DEF Spec

\* The balancing loop makes at most one iteration per counted VM, and one that
\* skips the netdev node: it ends, and no VM moves back and forth.
THEOREM LoopEndsSoon == Spec => []LoopBounded
<1>1. BalanceInv => LoopBounded
  BY DEF BalanceInv, Measure, LoopBounded
<1> QED
  BY BalanceInvariant, <1>1, PTL

\* The decisions make no node busier than the busiest node was before them,
\* although moves off the netdev node go by counts that are out of date.
THEOREM PeakNotRaised == Spec => []NeverRaisesPeak
<1>1. BalanceInv => NeverRaisesPeak
  BY DEF BalanceInv, Peak, NeverRaisesPeak
<1> QED
  BY BalanceInvariant, <1>1, PTL

\* The I/O intensive VMs of a netdev node with at most two VMs stay there.
THEOREM SmallNetdevKeepsVms == Spec => []NetdevVmsStay
<1>1. BalanceInv => NetdevVmsStay
  BY DEF BalanceInv, Stay, NetdevVmsStay, Home
<1> QED
  BY BalanceInvariant, <1>1, PTL

\* schedule leaves the nodes other than the netdev node within one VM of each
\* other.
THEOREM OthersEndLevel == Spec => []OthersLevel
<1>1. BalanceInv => OthersLevel
  BY DEF BalanceInv, Level, OthersLevel
<1> QED
  BY BalanceInvariant, <1>1, PTL
=============================================================================

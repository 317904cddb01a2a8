------------------------ MODULE SimpleStrategyProofs ------------------------
(***************************************************************************)
(* Theorems about SimpleStrategy::schedule: its lists of VMs never hold a  *)
(* VM twice, balancing neither loses nor invents one, and the decisions    *)
(* are what ScheduleStrategy.tla promises the daemon.                      *)
(***************************************************************************)
EXTENDS SimpleStrategyProperties, SequenceTheorems, FiniteSetTheorems,
        WellFoundedInduction, TLAPS

-----------------------------------------------------------------------------
(***************************************************************************)
(* Lists of VMs per node.                                                  *)
(***************************************************************************)
Lists == [Node -> Seq(Vm)]

\* The VMs in the lists; those of vm_on_node are Listed.
Members(lists) == UNION {Elems(lists[n]) : n \in Node}

\* No VM is in two places.
Distinct(lists) ==
  \A m, n \in Node : \A i \in DOMAIN lists[m], j \in DOMAIN lists[n] :
    lists[m][i] = lists[n][j] => m = n /\ i = j

LEMMA MembersAre ==
  ASSUME NEW lists, NEW v
  PROVE  v \in Members(lists) <=> \E n \in Node : \E i \in DOMAIN lists[n] : lists[n][i] = v
  BY DEF Members, Elems

LEMMA EraseProperties ==
  ASSUME NEW V, NEW s \in Seq(V), NEW i \in DOMAIN s
  PROVE  /\ Erase(s, i) \in Seq(V)
         /\ Len(Erase(s, i)) = Len(s) - 1
         /\ \A j \in 1..(Len(s) - 1) : Erase(s, i)[j] = IF j < i THEN s[j] ELSE s[j + 1]
<1> DEFINE front == SubSeq(s, 1, i - 1)
           back == SubSeq(s, i + 1, Len(s))
<1>1. i \in 1..Len(s) /\ Len(s) \in Nat /\ \A j \in 1..Len(s) : s[j] \in V
  OBVIOUS
<1>2. /\ front \in Seq(V) /\ Len(front) = i - 1
      /\ \A j \in 1..(i - 1) : front[j] = s[j]
  <2>1. \A j \in 1..(i - 1) : s[j] \in V
    BY <1>1
  <2>2. /\ front \in Seq(V)
        /\ Len(front) = IF 1 <= i - 1 THEN i - 1 - 1 + 1 ELSE 0
        /\ \A j \in 1..(i - 1 - 1 + 1) : front[j] = s[1 + j - 1]
    BY <1>1, <2>1, SubSeqProperties
  <2> QED
    BY <1>1, <2>2
<1>3. /\ back \in Seq(V) /\ Len(back) = Len(s) - i
      /\ \A j \in 1..(Len(s) - i) : back[j] = s[i + j]
  <2>1. \A j \in (i + 1)..Len(s) : s[j] \in V
    BY <1>1
  <2>2. /\ back \in Seq(V)
        /\ Len(back) = IF i + 1 <= Len(s) THEN Len(s) - (i + 1) + 1 ELSE 0
        /\ \A j \in 1..(Len(s) - (i + 1) + 1) : back[j] = s[i + 1 + j - 1]
    BY <1>1, <2>1, SubSeqProperties
  <2> QED
    BY <1>1, <2>2
<1>4. /\ front \o back \in Seq(V)
      /\ Len(front \o back) = Len(front) + Len(back)
      /\ \A j \in 1..(Len(front) + Len(back)) :
           (front \o back)[j] = IF j <= Len(front) THEN front[j] ELSE back[j - Len(front)]
  BY <1>2, <1>3, ConcatProperties
<1> HIDE DEF front, back
<1>5. Erase(s, i) = front \o back
  BY DEF Erase, front, back
<1>6. ASSUME NEW j \in 1..(Len(s) - 1)
      PROVE  (front \o back)[j] = IF j < i THEN s[j] ELSE s[j + 1]
  <2>1. CASE j < i
    BY <1>1, <1>2, <1>3, <1>4, <2>1
  <2>2. CASE ~(j < i)
    <3>1. (front \o back)[j] = back[j - (i - 1)]
      <4>1. j \in 1..(Len(front) + Len(back)) /\ ~(j <= Len(front)) /\ Len(front) = i - 1
        BY <1>1, <1>2, <1>3, <2>2
      <4> QED
        BY <4>1, <1>4
    <3>2. j - (i - 1) \in 1..(Len(s) - i) /\ i + (j - (i - 1)) = j + 1
      BY <1>1, <2>2
    <3>3. back[j - (i - 1)] = s[i + (j - (i - 1))]
      BY <3>2, <1>3
    <3> QED
      BY <3>1, <3>2, <3>3, <2>2
  <2> QED
    BY <2>1, <2>2
<1>7. Len(front \o back) = Len(s) - 1
  BY <1>1, <1>2, <1>3, <1>4
<1> QED
  BY <1>4, <1>5, <1>6, <1>7

\* list::erase of one VM: the others stay, in their places, and it is gone.
LEMMA EraseFromLists ==
  ASSUME NEW lists \in Lists, Distinct(lists), NEW n \in Node, NEW i \in DOMAIN lists[n]
  PROVE  LET erased == [lists EXCEPT ![n] = Erase(@, i)]
         IN  /\ erased \in Lists
             /\ Distinct(erased)
             /\ Members(erased) = Members(lists) \ {lists[n][i]}
<1> DEFINE erased == [lists EXCEPT ![n] = Erase(@, i)]
           s == lists[n]
           old(m, k) == IF m # n \/ k < i THEN k ELSE k + 1
<1>1. s \in Seq(Vm) /\ i \in 1..Len(s) /\ Len(s) \in Nat
  BY DEF Lists
<1>2. /\ Erase(s, i) \in Seq(Vm)
      /\ DOMAIN Erase(s, i) = 1..(Len(s) - 1)
      /\ \A j \in 1..(Len(s) - 1) : Erase(s, i)[j] = IF j < i THEN s[j] ELSE s[j + 1]
  BY <1>1, EraseProperties
<1>3. erased \in Lists /\ erased[n] = Erase(s, i) /\ \A m \in Node \ {n} : erased[m] = lists[m]
  BY <1>2 DEF Lists
<1>4. ASSUME NEW m \in Node, NEW k \in DOMAIN erased[m]
      PROVE  /\ old(m, k) \in DOMAIN lists[m]
             /\ erased[m][k] = lists[m][old(m, k)]
             /\ m = n => old(m, k) # i
  <2>1. CASE m = n
    BY <1>1, <1>2, <1>3, <2>1
  <2>2. CASE m # n
    BY <1>3, <2>2
  <2> QED
    BY <2>1, <2>2
<1>5. ASSUME NEW m \in Node, NEW k \in DOMAIN lists[m], m = n => k # i
      PROVE  \E j \in DOMAIN erased[m] : erased[m][j] = lists[m][k]
  <2>1. CASE m = n /\ k < i
    <3>1. k \in 1..(Len(s) - 1)
      BY <1>1, <2>1
    <3> QED
      BY <1>2, <1>3, <2>1, <3>1
  <2>2. CASE m = n /\ k > i
    <3>1. k - 1 \in 1..(Len(s) - 1) /\ ~(k - 1 < i) /\ (k - 1) + 1 = k
      BY <1>1, <2>2
    <3>2. erased[m][k - 1] = s[k]
      BY <1>2, <1>3, <2>2, <3>1
    <3> QED
      BY <1>2, <1>3, <2>2, <3>1, <3>2
  <2>3. CASE m # n
    BY <1>3, <2>3
  <2>4. m = n => k \in Int /\ i \in Int
    BY <1>1
  <2> QED
    BY <1>5, <2>1, <2>2, <2>3, <2>4
<1> HIDE DEF erased
<1>6. Distinct(erased)
  <2> SUFFICES ASSUME NEW l \in Node, NEW m \in Node,
                      NEW j \in DOMAIN erased[l], NEW k \in DOMAIN erased[m],
                      erased[l][j] = erased[m][k]
               PROVE  l = m /\ j = k
    BY DEF Distinct
  <2>1. l = m /\ old(l, j) = old(m, k)
    BY <1>4 DEF Distinct
  <2>2. j \in Int /\ k \in Int /\ i \in Int
    <3>1. erased[l] \in Seq(Vm) /\ erased[m] \in Seq(Vm)
      BY <1>3 DEF Lists
    <3> QED
      BY <3>1, <1>1
  <2> QED
    BY <2>1, <2>2
<1>7. ASSUME NEW v
      PROVE  v \in Members(erased) <=> v \in Members(lists) /\ v # lists[n][i]
  <2>1. ASSUME v \in Members(erased) PROVE v \in Members(lists) /\ v # lists[n][i]
    <3>1. PICK m \in Node : \E k \in DOMAIN erased[m] : erased[m][k] = v
      BY <2>1, MembersAre
    <3>2. PICK k \in DOMAIN erased[m] : erased[m][k] = v
      BY <3>1
    <3>3. old(m, k) \in DOMAIN lists[m] /\ lists[m][old(m, k)] = v /\ (m = n => old(m, k) # i)
      BY <3>2, <1>4
    <3> HIDE DEF old
    <3>4. v \in Members(lists)
      BY <3>3, MembersAre
    <3>5. v # lists[n][i]
      BY <3>3 DEF Distinct
    <3> QED
      BY <3>4, <3>5
  <2>2. ASSUME v \in Members(lists), v # lists[n][i] PROVE v \in Members(erased)
    <3>1. PICK m \in Node : \E k \in DOMAIN lists[m] : lists[m][k] = v
      BY <2>2, MembersAre
    <3>2. PICK k \in DOMAIN lists[m] : lists[m][k] = v
      BY <3>1
    <3>3. \E j \in DOMAIN erased[m] : erased[m][j] = v
      BY <3>2, <2>2, <1>5
    <3> QED
      BY <3>3, MembersAre
  <2> QED
    BY <2>1, <2>2
<1>8. Members(erased) = Members(lists) \ {lists[n][i]}
  BY <1>7
<1> QED
  BY <1>3, <1>6, <1>8 DEF erased

\* list::push_back of a VM that is in no list.
LEMMA AppendToLists ==
  ASSUME NEW lists \in Lists, Distinct(lists), NEW n \in Node,
         NEW v \in Vm, v \notin Members(lists)
  PROVE  LET longer == [lists EXCEPT ![n] = Append(@, v)]
         IN  /\ longer \in Lists
             /\ Distinct(longer)
             /\ Members(longer) = Members(lists) \cup {v}
<1> DEFINE longer == [lists EXCEPT ![n] = Append(@, v)]
           s == lists[n]
<1>1. s \in Seq(Vm) /\ Len(s) \in Nat /\ DOMAIN s = 1..Len(s)
  BY DEF Lists
<1>2. /\ Append(s, v) \in Seq(Vm)
      /\ DOMAIN Append(s, v) = 1..(Len(s) + 1)
      /\ \A i \in 1..Len(s) : Append(s, v)[i] = s[i]
      /\ Append(s, v)[Len(s) + 1] = v
  BY <1>1, AppendProperties
<1>3. longer \in Lists /\ longer[n] = Append(s, v) /\ \A m \in Node \ {n} : longer[m] = lists[m]
  BY <1>2 DEF Lists
<1>4. ASSUME NEW m \in Node, NEW k \in DOMAIN longer[m]
      PROVE  \/ k \in DOMAIN lists[m] /\ longer[m][k] = lists[m][k]
             \/ m = n /\ k = Len(s) + 1 /\ longer[m][k] = v
  <2>1. CASE m = n
    BY <1>1, <1>2, <1>3, <2>1
  <2>2. CASE m # n
    BY <1>3, <2>2
  <2> QED
    BY <2>1, <2>2
<1>5. ASSUME NEW m \in Node, NEW k \in DOMAIN lists[m]
      PROVE  k \in DOMAIN longer[m] /\ longer[m][k] = lists[m][k]
  BY <1>1, <1>2, <1>3
<1>6. Len(s) + 1 \in DOMAIN longer[n] /\ longer[n][Len(s) + 1] = v
  BY <1>1, <1>2, <1>3
<1> HIDE DEF longer
<1>7. \A m \in Node : \A k \in DOMAIN lists[m] : lists[m][k] # v
  BY MembersAre
<1>8. Distinct(longer)
  BY <1>4, <1>7 DEF Distinct
<1>9. \A w : w \in Members(longer) <=> w \in Members(lists) \/ w = v
  BY <1>4, <1>5, <1>6, MembersAre
<1> QED
  BY <1>3, <1>8, <1>9 DEF longer

\* A VM moves from one list to the end of another, or of the same.
LEMMA MovedKeepsMembers ==
  ASSUME vm_on_node \in Lists, Distinct(vm_on_node),
         NEW from \in Node, NEW i \in DOMAIN vm_on_node[from], NEW to \in Node
  PROVE  /\ Moved(from, i, to) \in Lists
         /\ Distinct(Moved(from, i, to))
         /\ Members(Moved(from, i, to)) = Listed
<1> DEFINE v == vm_on_node[from][i]
           erased == [vm_on_node EXCEPT ![from] = Erase(@, i)]
<1>1. v \in Vm
  BY DEF Lists
<1>2. /\ erased \in Lists
      /\ Distinct(erased)
      /\ Members(erased) = Members(vm_on_node) \ {v}
  BY EraseFromLists
<1>3. v \in Members(vm_on_node)
  BY MembersAre
<1>4. Moved(from, i, to) = [erased EXCEPT ![to] = Append(@, v)]
  BY DEF Moved
<1> HIDE DEF v, erased
<1>5. /\ [erased EXCEPT ![to] = Append(@, v)] \in Lists
      /\ Distinct([erased EXCEPT ![to] = Append(@, v)])
      /\ Members([erased EXCEPT ![to] = Append(@, v)]) = Members(erased) \cup {v}
  BY <1>1, <1>2, AppendToLists
<1>6. Members(vm_on_node) = Listed
  BY DEF Members, Listed
<1> QED
  BY <1>2, <1>3, <1>4, <1>5, <1>6

-----------------------------------------------------------------------------
(***************************************************************************)
(* What is read off the sorted nodes.                                      *)
(***************************************************************************)
LEMMA FirstExists ==
  ASSUME NEW T, T \subseteq Nat, T # {}
  PROVE  \E i \in T : IsFirst(i, T)
<1> DEFINE R == {ss \in Nat \X Nat : ss[1] < ss[2]}
<1>1. IsWellFoundedOn(R, Nat)
  BY NatLessThanWellFounded DEF OpToRel
<1> HIDE DEF R
<1>2. PICK i \in T : \A j \in T : <<j, i>> \notin R
  BY <1>1, WFMin
<1>3. \A j \in T : ~(j < i)
  BY <1>2 DEF R
<1> QED
  BY <1>3 DEF IsFirst

LEMMA NodeFacts ==
  /\ Node \subseteq Nat /\ 0 \in Node
  /\ Cardinality(Node) \in Nat \ {0}
  /\ NetNode \in Node
<1>1. Cardinality(Node) \in Nat
  BY NodeRange, FS_CardinalityType
<1> QED
  BY <1>1, NodeAssumption, NodeRange, NetNodeAssumption

LEMMA TargetIsNode ==
  ASSUME high_load_node \in Node, min_load_node \in Node
  PROVE  Target \in Node
<1> DEFINE near == Lat[high_load_node]
           hits == {i \in DOMAIN near : Len(vm_on_node[near[i]]) = min_vm_cnt}
           least == CHOOSE i \in hits : IsFirst(i, hits)
<1>1. near \in Seq(Node)
  BY LatAssumption
<1>2. hits \subseteq Nat
  BY <1>1
<1>3. ASSUME hits # {}
      PROVE  near[least] \in Node
  <2>1. \E i \in hits : IsFirst(i, hits)
    BY <1>2, <1>3, FirstExists
  <2>2. least \in DOMAIN near
    BY <2>1
  <2> HIDE DEF least, near
  <2> QED
    BY <1>1, <2>2
<1> QED
  BY <1>3 DEF Target

\* node_vm_vec has an entry for every node, and the counts are true of the
\* lists it was filled from.
LEMMA RebuildProperties ==
  ASSUME NEW lists \in Lists, Rebuild(lists)
  PROVE  /\ node_vm_vec' \in Seq(NodeCount)
         /\ max_vm_idx' \in DOMAIN node_vm_vec'
         /\ min_load_node' \in Node
         /\ \A i \in DOMAIN node_vm_vec' :
              node_vm_vec'[i].cnt = Len(lists[node_vm_vec'[i].node])
<1> DEFINE k == Cardinality(Node)
<1>1. k \in Nat \ {0}
  BY NodeFacts
<1>2. PICK p \in Orders : node_vm_vec' = Counted(lists, p)
  BY DEF Rebuild, SortedVecs
<1>3. p \in [1..k -> Node]
  BY <1>2 DEF Orders
<1> HIDE DEF k
<1>4. node_vm_vec' = [i \in 1..k |-> [node |-> p[i], cnt |-> Len(lists[p[i]])]]
  BY <1>2, <1>3 DEF Counted
<1>5. \A i \in 1..k : [node |-> p[i], cnt |-> Len(lists[p[i]])] \in NodeCount
  BY <1>3 DEF NodeCount, Lists
<1>6. node_vm_vec' \in Seq(NodeCount) /\ Len(node_vm_vec') = k
  BY <1>1, <1>4, <1>5
<1>7. max_vm_idx' \in DOMAIN node_vm_vec' /\ 1 \in DOMAIN node_vm_vec'
  BY <1>1, <1>4, <1>6 DEF Rebuild
<1>8. min_load_node' \in Node
  BY <1>3, <1>4, <1>7 DEF Rebuild
<1> QED
  BY <1>4, <1>6, <1>7, <1>8

-----------------------------------------------------------------------------
(***************************************************************************)
(* The invariant.  A VM is counted once, when the classifying loop visits  *)
(* it, and no list holds a VM twice.  Until the first iteration of the     *)
(* balancing loop node_vm_vec tells the lengths of the lists, which is     *)
(* what lets UseNetdevNode take the first VM of a list.                    *)
(***************************************************************************)
CountsTrue ==
  pc = "single" \/ (pc = "balance" /\ flag = FALSE) =>
    \A i \in DOMAIN node_vm_vec : node_vm_vec[i].cnt = Len(vm_on_node[node_vm_vec[i].node])

StrategyInv ==
  /\ TypeOK
  /\ DecidesOnce
  /\ Distinct(vm_on_node)
  /\ Listed \subseteq DOMAIN vm_infos \ rest
  /\ CountsTrue
  /\ pc = "idle" => acts = {} /\ Listed = {}

\* What the steps of the strategy share: all that happens to the lists is
\* that they hold the same VMs, or one more.
LEMMA NoDecisions ==
  ASSUME NEW V
  PROVE  {} \in Schedules(V)
  BY DEF Schedules

LEMMA EmptyLists ==
  ASSUME NEW lists, lists = [n \in Node |-> <<>>]
  PROVE  lists \in Lists /\ Distinct(lists) /\ Members(lists) = {}
<1>1. \A n \in Node : DOMAIN lists[n] = {}
  <2>1. DOMAIN <<>> = {}
    OBVIOUS
  <2>2. \A n \in Node : lists[n] = <<>>
    OBVIOUS
  <2> QED
    BY <2>1, <2>2
<1>2. lists \in Lists
  BY DEF Lists
<1>3. Distinct(lists)
  BY <1>1 DEF Distinct
<1>4. \A v : v \notin Members(lists)
  BY <1>1, MembersAre
<1> QED
  BY <1>2, <1>3, <1>4

LEMMA NoCall ==
  ASSUME pc = "idle", vm_infos = <<>>, rest = {}, vm_state = "OTHER_STAT",
         vmStateMap = [v \in Vm |-> "none"], vm_on_node = [n \in Node |-> <<>>],
         node_vm_vec = <<>>, max_vm_idx = 0, min_load_node = 0, flag = FALSE,
         acts = {}, turns = 0
  PROVE  StrategyInv
<1>1. vm_on_node \in Lists /\ Distinct(vm_on_node) /\ Listed = {}
  BY EmptyLists DEF Listed, Members
<1>2. DOMAIN vm_infos = {} /\ node_vm_vec \in Seq(NodeCount)
  OBVIOUS
<1>3. acts \subseteq Decision({}) /\ DecidesOnce
  BY <1>2, NoDecisions DEF DecidesOnce
<1>4. TypeOK
  BY <1>1, <1>2, <1>3, NodeFacts DEF TypeOK, State, Lists
<1> QED
  BY <1>1, <1>2, <1>3, <1>4 DEF StrategyInv, CountsTrue

LEMMA StrategyInitially == Init => StrategyInv
  BY NoCall DEF Init

LEMMA ReturnKeeps == Return => StrategyInv'
<1> SUFFICES ASSUME Return PROVE StrategyInv'
  OBVIOUS
<1>1. vm_on_node' \in Lists /\ Distinct(vm_on_node') /\ Listed' = {}
  BY EmptyLists DEF Return, Listed, Members
<1>2. DOMAIN vm_infos' = {} /\ node_vm_vec' \in Seq(NodeCount)
  BY DEF Return
<1>3. acts' \subseteq Decision({}) /\ DecidesOnce'
  BY <1>2, NoDecisions DEF Return, DecidesOnce
<1>4. TypeOK'
  BY <1>1, <1>2, <1>3, NodeFacts DEF Return, TypeOK, State, Lists
<1> QED
  BY <1>1, <1>2, <1>3, <1>4 DEF Return, StrategyInv, CountsTrue

\* A call may be made with any map, not only with those of VmInfos.
LEMMA CallKeeps ==
  ASSUME StrategyInv, NEW infos, Call(infos),
         DOMAIN infos \subseteq Vm, \A v \in DOMAIN infos : infos[v] \in VmInfo
  PROVE  StrategyInv'
<1>1. TypeOK'
  BY DEF StrategyInv, TypeOK, Call, State, loopVars
<1>2. Listed' = {} /\ acts' = {}
  BY DEF StrategyInv, Call, Listed, loopVars
<1>3. DecidesOnce'
  BY <1>2, NoDecisions DEF DecidesOnce
<1> QED
  BY <1>1, <1>2, <1>3 DEF StrategyInv, Call, CountsTrue

\* What a step that moves a VM does to the lists.
LEMMA MoveKeeps ==
  ASSUME StrategyInv, NEW from \in Node, NEW i \in DOMAIN vm_on_node[from], NEW to \in Node,
         vm_on_node' = Moved(from, i, to), UNCHANGED <<vm_infos, rest>>
  PROVE  /\ vm_on_node' \in Lists
         /\ Distinct(vm_on_node)'
         /\ Listed' = Listed
         /\ Listed' \subseteq DOMAIN vm_infos' \ rest'
<1>1. vm_on_node \in Lists /\ Distinct(vm_on_node)
  BY DEF StrategyInv, TypeOK, Lists
<1>2. /\ Moved(from, i, to) \in Lists
      /\ Distinct(Moved(from, i, to))
      /\ Members(Moved(from, i, to)) = Listed
  BY <1>1, MovedKeepsMembers
<1>3. Listed' = Members(vm_on_node')
  BY DEF Listed, Members, Elems
<1>4. Distinct(vm_on_node)'
  BY <1>2 DEF Distinct
<1> QED
  BY <1>2, <1>3, <1>4 DEF StrategyInv

LEMMA HighLoadNode ==
  ASSUME StrategyInv, pc \in {"balance", "single"}
  PROVE  high_load_node \in Node /\ min_load_node \in Node
<1>1. node_vm_vec \in Seq(NodeCount) /\ max_vm_idx \in DOMAIN node_vm_vec
  BY DEF StrategyInv, TypeOK
<1>2. node_vm_vec[max_vm_idx] \in NodeCount
  BY <1>1
<1> QED
  BY <1>2 DEF StrategyInv, TypeOK, high_load_node, NodeCount

LEMMA ClassifyKeeps ==
  ASSUME StrategyInv, NEW v \in Vm, ClassifySkips(v) \/ ClassifyCounts(v)
  PROVE  StrategyInv'
<1> USE DEF StrategyInv
<1>1. /\ v \in rest /\ v \in DOMAIN vm_infos /\ vm_infos[v] \in VmInfo
      /\ pc = "classify" /\ pc' = pc /\ vm_infos' = vm_infos /\ acts' = acts
      /\ rest' = rest \ {v}
  BY DEF ClassifySkips, ClassifyCounts, Visit, TypeOK
<1>2. /\ vmStateMap' \in [Vm -> State \cup {"none"}]
      /\ node_vm_vec' = node_vm_vec /\ max_vm_idx' = max_vm_idx
      /\ min_load_node' = min_load_node /\ turns' = turns
  BY DEF ClassifySkips, ClassifyCounts, Visit, TypeOK, State, IOState, loopVars
<1>3. vm_state' \in State /\ flag' \in BOOLEAN
  BY DEF ClassifySkips, ClassifyCounts, TypeOK, State
<1>4. /\ vm_on_node' \in Lists
      /\ Distinct(vm_on_node)'
      /\ Listed' \subseteq DOMAIN vm_infos' \ rest'
  <2>1. CASE ClassifySkips(v)
    BY <2>1, <1>1 DEF ClassifySkips, TypeOK, Lists, Distinct, Listed
  <2>2. CASE ClassifyCounts(v)
    <3>1. vm_infos[v].home \in Node
      BY <1>1, NodeFacts DEF VmInfo
    <3>2. vm_on_node \in Lists /\ Distinct(vm_on_node) /\ v \notin Members(vm_on_node)
      BY <1>1 DEF TypeOK, Lists, Listed, Members
    <3>3. vm_on_node' = [vm_on_node EXCEPT ![vm_infos[v].home] = Append(@, v)]
      BY <2>2 DEF ClassifyCounts
    <3>4. /\ vm_on_node' \in Lists
          /\ Distinct(vm_on_node')
          /\ Members(vm_on_node') = Members(vm_on_node) \cup {v}
      BY <3>1, <3>2, <3>3, AppendToLists
    <3>5. Listed' = Members(vm_on_node') /\ Listed = Members(vm_on_node)
      BY DEF Listed, Members, Elems
    <3> QED
      BY <1>1, <3>4, <3>5 DEF Distinct
  <2> QED
    BY <2>1, <2>2
<1>5. TypeOK'
  BY <1>1, <1>2, <1>3, <1>4 DEF TypeOK, Lists
<1>6. DecidesOnce'
  BY <1>1 DEF DecidesOnce
<1> QED
  BY <1>1, <1>4, <1>5, <1>6 DEF CountsTrue

LEMMA SortKeeps ==
  ASSUME StrategyInv, Sort
  PROVE  StrategyInv'
<1> USE DEF StrategyInv
<1>1. /\ vm_on_node' = vm_on_node /\ vm_infos' = vm_infos /\ acts' = acts /\ rest' = rest
      /\ pc' = "balance" /\ flag' = FALSE /\ vm_on_node \in Lists
  BY DEF Sort, TypeOK, Lists
<1>2. /\ node_vm_vec' \in Seq(NodeCount)
      /\ max_vm_idx' \in DOMAIN node_vm_vec'
      /\ min_load_node' \in Node
      /\ \A i \in DOMAIN node_vm_vec' :
           node_vm_vec'[i].cnt = Len(vm_on_node[node_vm_vec'[i].node])
  BY <1>1, RebuildProperties DEF Sort
<1>3. TypeOK'
  BY <1>1, <1>2 DEF Sort, TypeOK
<1>4. CountsTrue'
  BY <1>1, <1>2 DEF CountsTrue
<1>5. DecidesOnce' /\ Distinct(vm_on_node)' /\ Listed' = Listed
  BY <1>1 DEF DecidesOnce, Distinct, Listed
<1> QED
  BY <1>1, <1>3, <1>4, <1>5

\* An iteration of the balancing loop, whichever VM it moves.
LEMMA IterateKeeps ==
  ASSUME StrategyInv, Iterate,
         vm_on_node' \in Lists, Distinct(vm_on_node)', Listed' = Listed,
         node_vm_vec' \in Seq(NodeCount), max_vm_idx' \in DOMAIN node_vm_vec',
         min_load_node' \in Node
  PROVE  StrategyInv' /\ Listed' = Listed
<1> USE DEF StrategyInv
<1>1. /\ pc' = "balance" /\ flag' = TRUE /\ rest' = rest /\ vm_infos' = vm_infos
      /\ acts' = acts /\ turns' \in Nat
  BY DEF Iterate, TypeOK
<1>2. TypeOK'
  BY <1>1 DEF Iterate, TypeOK, Lists
<1>3. CountsTrue' /\ DecidesOnce'
  BY <1>1 DEF CountsTrue, DecidesOnce
<1> QED
  BY <1>1, <1>2, <1>3

LEMMA BalanceKeeps ==
  ASSUME StrategyInv, SkipNetdevNode \/ MoveOffNetdevNode \/ MoveOffHighLoadNode
  PROVE  StrategyInv' /\ Listed' = Listed
<1>1. /\ Iterate /\ pc = "balance" /\ vm_infos' = vm_infos /\ rest' = rest
      /\ vm_on_node \in Lists /\ Distinct(vm_on_node)
      /\ node_vm_vec \in Seq(NodeCount) /\ max_vm_idx \in DOMAIN node_vm_vec
  BY DEF SkipNetdevNode, MoveOffNetdevNode, MoveOffHighLoadNode, Iterate, StrategyInv,
         TypeOK, Lists
<1>2. /\ high_load_node \in Node /\ min_load_node \in Node
      /\ Target \in Node /\ NetNode \in Node
  BY <1>1, HighLoadNode, TargetIsNode, NodeFacts
<1>3. CASE SkipNetdevNode
  <2>1. vm_on_node' = vm_on_node /\ node_vm_vec' = node_vm_vec /\ min_load_node' = min_load_node
    BY <1>3 DEF SkipNetdevNode
  <2>2. max_vm_idx' = IF max_vm_idx = 1 THEN 1 ELSE max_vm_idx - 1
    BY <1>3 DEF SkipNetdevNode
  <2>3. max_vm_idx' \in DOMAIN node_vm_vec'
    BY <1>1, <2>1, <2>2
  <2>4. Distinct(vm_on_node)' /\ Listed' = Listed
    BY <1>1, <2>1 DEF Distinct, Listed
  <2> QED
    BY <1>1, <1>2, <2>1, <2>3, <2>4, IterateKeeps
<1>4. CASE MoveOffNetdevNode
  <2>1. PICK i \in DOMAIN vm_on_node[NetNode] : vm_on_node' = Moved(NetNode, i, Target)
    BY <1>4 DEF MoveOffNetdevNode
  <2>2. vm_on_node' \in Lists /\ Distinct(vm_on_node)' /\ Listed' = Listed
    BY <1>1, <1>2, <2>1, MoveKeeps
  <2>3. /\ node_vm_vec' = node_vm_vec /\ max_vm_idx' = max_vm_idx /\ min_load_node' = Target
    BY <1>4 DEF MoveOffNetdevNode
  <2> QED
    BY <1>1, <1>2, <2>2, <2>3, IterateKeeps
<1>5. CASE MoveOffHighLoadNode
  <2>1. PICK i \in DOMAIN vm_on_node[high_load_node], to \in {NetNode, Target} :
          vm_on_node' = Moved(high_load_node, i, to)
    BY <1>5 DEF MoveOffHighLoadNode
  <2>2. vm_on_node' \in Lists /\ Distinct(vm_on_node)' /\ Listed' = Listed
    BY <1>1, <1>2, <2>1, MoveKeeps
  <2>3. Rebuild(vm_on_node')
    BY <1>5 DEF MoveOffHighLoadNode
  <2>4. /\ node_vm_vec' \in Seq(NodeCount)
        /\ max_vm_idx' \in DOMAIN node_vm_vec'
        /\ min_load_node' \in Node
    BY <2>2, <2>3, RebuildProperties
  <2> QED
    BY <1>1, <2>2, <2>4, IterateKeeps
<1> QED
  BY <1>3, <1>4, <1>5

\* The steps that change pc only, or nothing the lists are made of.
LEMMA PcKeeps ==
  ASSUME StrategyInv, NoneCounted \/ Balanced
  PROVE  StrategyInv' /\ Listed' = Listed
<1> USE DEF StrategyInv
<1>1. /\ vm_on_node' = vm_on_node /\ vm_infos' = vm_infos /\ acts' = acts /\ rest' = rest
      /\ node_vm_vec' = node_vm_vec /\ flag' = flag
      /\ pc' \in {"done", "decide", "single"}
  BY DEF NoneCounted, Balanced, loopVars
<1>2. pc' = "single" => pc = "balance" /\ flag = FALSE
  BY DEF NoneCounted, Balanced, TypeOK
<1>3. TypeOK'
  BY <1>1, <1>2 DEF NoneCounted, Balanced, TypeOK, loopVars
<1>4. CountsTrue'
  BY <1>1, <1>2 DEF CountsTrue
<1>5. DecidesOnce' /\ Distinct(vm_on_node)' /\ Listed' = Listed
  BY <1>1 DEF DecidesOnce, Distinct, Listed
<1> QED
  BY <1>1, <1>3, <1>4, <1>5

LEMMA SingleKeeps ==
  ASSUME StrategyInv, UseNetdevNode
  PROVE  StrategyInv' /\ Listed' = Listed
<1> USE DEF StrategyInv
<1>1. /\ pc = "single" /\ pc' = "decide" /\ vm_infos' = vm_infos /\ acts' = acts
      /\ rest' = rest /\ vm_on_node \in Lists /\ high_load_node \in Node /\ NetNode \in Node
  BY HighLoadNode, NodeFacts DEF UseNetdevNode, TypeOK, Lists
<1>2. /\ vm_on_node' \in Lists /\ Distinct(vm_on_node)' /\ Listed' = Listed
      /\ Listed' \subseteq DOMAIN vm_infos' \ rest'
  <2>1. CASE NetdevNodeFree
    <3>1. Len(vm_on_node[high_load_node]) = 1
      BY <1>1, <2>1 DEF NetdevNodeFree, CountsTrue, TypeOK, max_vm_cnt, high_load_node
    <3>2. vm_on_node[high_load_node] \in Seq(Vm)
      BY <1>1 DEF Lists
    <3>3. 1 \in DOMAIN vm_on_node[high_load_node]
      BY <3>1, <3>2
    <3>4. vm_on_node' = Moved(high_load_node, 1, NetNode)
      BY <2>1 DEF UseNetdevNode
    <3> QED
      BY <1>1, <3>3, <3>4, MoveKeeps
  <2>2. CASE ~NetdevNodeFree
    BY <1>1, <2>2 DEF UseNetdevNode, Distinct, Listed
  <2> QED
    BY <2>1, <2>2
<1>3. TypeOK'
  BY <1>1, <1>2 DEF UseNetdevNode, TypeOK, Lists, loopVars
<1> QED
  BY <1>1, <1>2, <1>3 DEF CountsTrue, DecidesOnce

\* One decision for each VM of each list.
LEMMA DecideKeeps ==
  ASSUME StrategyInv, Decide
  PROVE  StrategyInv' /\ Listed' = Listed
<1> USE DEF StrategyInv
<1>1. /\ pc' = "done" /\ vm_infos' = vm_infos /\ rest' = rest /\ vm_on_node' = vm_on_node
      /\ acts' = UNION {{[dom |-> v, node |-> n] : v \in Elems(vm_on_node[n])} : n \in Node}
  BY DEF Decide
<1>2. ASSUME NEW a \in acts'
      PROVE  \E n \in Node : \E i \in DOMAIN vm_on_node[n] :
               a = [dom |-> vm_on_node[n][i], node |-> n]
  BY <1>1, <1>2 DEF Elems
<1>3. ASSUME NEW a \in acts' PROVE a \in Decision(DOMAIN vm_infos)
  <2>1. PICK n \in Node : \E i \in DOMAIN vm_on_node[n] :
               a = [dom |-> vm_on_node[n][i], node |-> n]
    BY <1>2
  <2>2. PICK i \in DOMAIN vm_on_node[n] : a = [dom |-> vm_on_node[n][i], node |-> n]
    BY <2>1
  <2>3. vm_on_node[n][i] \in Listed
    BY DEF Listed, Elems
  <2> QED
    BY <2>2, <2>3 DEF Decision
<1>4. ASSUME NEW a \in acts', NEW b \in acts', a.dom = b.dom PROVE a = b
  <2>1. PICK m \in Node : \E i \in DOMAIN vm_on_node[m] :
               a = [dom |-> vm_on_node[m][i], node |-> m]
    BY <1>2
  <2>2. PICK n \in Node : \E i \in DOMAIN vm_on_node[n] :
               b = [dom |-> vm_on_node[n][i], node |-> n]
    BY <1>2
  <2>3. m = n
    BY <1>4, <2>1, <2>2 DEF Distinct
  <2> QED
    BY <1>4, <2>1, <2>2, <2>3
<1>5. acts' \subseteq Decision(DOMAIN vm_infos') /\ DecidesOnce'
  BY <1>1, <1>3, <1>4 DEF DecidesOnce, Schedules
<1>6. TypeOK'
  BY <1>1, <1>5 DEF Decide, TypeOK, loopVars
<1>7. Distinct(vm_on_node)' /\ Listed' = Listed
  BY <1>1 DEF Distinct, Listed
<1> QED
  BY <1>1, <1>5, <1>6, <1>7 DEF CountsTrue

\* Within a call the invariant holds, and only classifying lists a VM.
LEMMA BodyKeeps ==
  ASSUME StrategyInv, Body
  PROVE  StrategyInv' /\ (pc # "classify" => Listed' = Listed)
<1>1. ASSUME NEW v \in Vm, ClassifySkips(v) \/ ClassifyCounts(v)
      PROVE  StrategyInv' /\ pc = "classify"
  BY <1>1, ClassifyKeeps DEF ClassifySkips, ClassifyCounts, Visit
<1>2. CASE Sort
  BY <1>2, SortKeeps DEF Sort
<1>3. CASE NoneCounted \/ Balanced
  BY <1>3, PcKeeps
<1>4. CASE SkipNetdevNode \/ MoveOffNetdevNode \/ MoveOffHighLoadNode
  BY <1>4, BalanceKeeps
<1>5. CASE UseNetdevNode
  BY <1>5, SingleKeeps
<1>6. CASE Decide
  BY <1>6, DecideKeeps
<1> QED
  BY <1>1, <1>2, <1>3, <1>4, <1>5, <1>6 DEF Body

\* Between Call and Return the input stays.
LEMMA BodyKeepsInput ==
  Body => pc # "idle" /\ pc' # "idle" /\ vm_infos' = vm_infos
  BY DEF Body, ClassifySkips, ClassifyCounts, Visit, NoneCounted, Sort, SkipNetdevNode,
         MoveOffNetdevNode, MoveOffHighLoadNode, Iterate, Balanced, UseNetdevNode, Decide

LEMMA StutterKeeps ==
  ASSUME StrategyInv, UNCHANGED vars
  PROVE  StrategyInv' /\ Listed' = Listed
<1>1. TypeOK'
  BY DEF vars, loopVars, StrategyInv, TypeOK
<1>2. DecidesOnce' /\ CountsTrue'
  BY DEF vars, loopVars, StrategyInv, DecidesOnce, CountsTrue
<1>3. Distinct(vm_on_node)' /\ Listed' = Listed
  BY DEF vars, StrategyInv, Distinct, Listed
<1> QED
  BY <1>1, <1>2, <1>3 DEF vars, StrategyInv

LEMMA NextKeeps ==
  ASSUME StrategyInv, [Next]_vars
  PROVE  StrategyInv' /\ (pc \notin {"classify", "done"} => Listed' = Listed)
<1>1. ASSUME NEW infos \in VmInfos, pc = "idle", Call(infos)
      PROVE  StrategyInv' /\ Listed' = Listed
  <2>1. DOMAIN infos \subseteq Vm /\ \A v \in DOMAIN infos : infos[v] \in VmInfo
    BY DEF VmInfos
  <2>2. Listed' = Listed
    BY <1>1 DEF Call, Listed
  <2> QED
    BY <1>1, <2>1, <2>2, CallKeeps
<1>2. CASE Return
  BY <1>2, ReturnKeeps DEF Return
<1> QED
  BY <1>1, <1>2, BodyKeeps, StutterKeeps DEF Next

-----------------------------------------------------------------------------
\* The invariant holds throughout: in particular every index into node_vm_vec
\* is one of its places, and every target of a move is a node.
THEOREM StrategyInvariant == Spec => []StrategyInv
<1>1. StrategyInv /\ [Next]_vars => StrategyInv'
  BY NextKeeps
<1> QED
  BY StrategyInitially, <1>1, PTL DEF Spec

\* The strategy's variables keep their types.
THEOREM StrategyTyped == Spec => []TypeOK
<1>1. StrategyInv => TypeOK
  BY DEF StrategyInv
<1> QED
  BY StrategyInvariant, <1>1, PTL

\* schedule keeps the contract perform relies on: decisions are about VMs of
\* the input, at most one about each.
THEOREM OneDecisionEach == Spec => []DecidesOnce
<1>1. StrategyInv => DecidesOnce
  BY DEF StrategyInv
<1> QED
  BY StrategyInvariant, <1>1, PTL

\* From the end of classifying to the decisions no VM is lost or invented,
\* however often it is moved.
THEOREM NoVmLost == Spec => LosesNoVm
<1>1. StrategyInv /\ [Next]_vars => [pc \notin {"classify", "done"} => Listed' = Listed]_vars
  BY NextKeeps
<1> QED
  BY StrategyInvariant, <1>1, PTL DEF Spec, LosesNoVm

-----------------------------------------------------------------------------
(***************************************************************************)
(* TakesFromNonEmpty.  node_vm_vec goes stale when a VM leaves a netdev    *)
(* node of at most two VMs, and only that node's count is then too high:   *)
(* the lists of the others can only have grown since.                      *)
(***************************************************************************)
SameCount ==
  \A i, j \in DOMAIN node_vm_vec :
    node_vm_vec[i].node = node_vm_vec[j].node => node_vm_vec[i].cnt = node_vm_vec[j].cnt

Reliable(e) == e.node # NetNode \/ e.cnt > 2

CountsLow ==
  pc = "balance" =>
    /\ SameCount
    /\ \A i \in DOMAIN node_vm_vec :
         Reliable(node_vm_vec[i]) => node_vm_vec[i].cnt <= Load(node_vm_vec[i].node)

LEMMA MovedLengths ==
  ASSUME vm_on_node \in Lists, NEW from \in Node, NEW i \in DOMAIN vm_on_node[from],
         NEW to \in Node, NEW n \in Node, n # from
  PROVE  Len(Moved(from, i, to)[n]) >= Len(vm_on_node[n])
<1> DEFINE v == vm_on_node[from][i]
<1>1. vm_on_node[n] \in Seq(Vm) /\ v \in Vm /\ Len(vm_on_node[n]) \in Nat
  BY DEF Lists
<1>2. Len(Append(vm_on_node[n], v)) = Len(vm_on_node[n]) + 1
  BY <1>1, AppendProperties
<1>3. Moved(from, i, to)[n] = IF n = to THEN Append(vm_on_node[n], v) ELSE vm_on_node[n]
  BY DEF Moved, Lists
<1> QED
  BY <1>1, <1>2, <1>3

\* After a rebuild the counts are those of the lists.
LEMMA RebuiltCountsLow ==
  ASSUME vm_on_node' \in Lists, Rebuild(vm_on_node')
  PROVE  CountsLow'
<1>1. /\ node_vm_vec' \in Seq(NodeCount)
      /\ \A i \in DOMAIN node_vm_vec' :
           node_vm_vec'[i].cnt = Len(vm_on_node'[node_vm_vec'[i].node])
  BY RebuildProperties
<1>2. SameCount'
  BY <1>1 DEF SameCount
<1>3. ASSUME NEW i \in DOMAIN node_vm_vec'
      PROVE  node_vm_vec'[i].cnt <= Len(vm_on_node'[node_vm_vec'[i].node])
  <2>1. node_vm_vec'[i] \in NodeCount
    BY <1>1
  <2> QED
    BY <1>1, <2>1 DEF NodeCount
<1> QED
  BY <1>2, <1>3 DEF CountsLow, Load

LEMMA NetdevMoveCountsLow ==
  ASSUME StrategyInv, CountsLow, MoveOffNetdevNode
  PROVE  CountsLow'
<1>1. /\ pc = "balance" /\ vm_on_node \in Lists
      /\ node_vm_vec' = node_vm_vec /\ node_vm_vec \in Seq(NodeCount)
      /\ max_vm_idx \in DOMAIN node_vm_vec
      /\ node_vm_vec[max_vm_idx].node = NetNode /\ node_vm_vec[max_vm_idx].cnt <= 2
  BY DEF MoveOffNetdevNode, Iterate, StrategyInv, TypeOK, Lists, OnSmallNetdevNode,
         high_load_node, max_vm_cnt
<1>2. PICK i \in DOMAIN vm_on_node[NetNode] : vm_on_node' = Moved(NetNode, i, Target)
  BY DEF MoveOffNetdevNode
<1>3. NetNode \in Node /\ Target \in Node
  BY <1>1, HighLoadNode, TargetIsNode, NodeFacts
<1>4. SameCount /\ SameCount'
  BY <1>1 DEF CountsLow, SameCount
<1>5. ASSUME NEW j \in DOMAIN node_vm_vec, Reliable(node_vm_vec[j])
      PROVE  node_vm_vec[j].cnt <= Len(vm_on_node'[node_vm_vec[j].node])
  <2> DEFINE e == node_vm_vec[j]
  <2>1. e \in NodeCount
    BY <1>1
  <2> HIDE DEF e
  <2>2. e.node \in Node /\ e.cnt \in Nat
    BY <2>1 DEF NodeCount
  <2>3. e.node # NetNode
    <3>1. e.node = NetNode => e.cnt = node_vm_vec[max_vm_idx].cnt
      BY <1>1, <1>4 DEF SameCount, e
    <3> QED
      BY <1>1, <1>5, <2>2, <3>1 DEF Reliable, e
  <2>4. e.cnt <= Len(vm_on_node[e.node])
    BY <1>1, <1>5 DEF CountsLow, Load, e
  <2>5. Len(Moved(NetNode, i, Target)[e.node]) >= Len(vm_on_node[e.node])
    BY <1>1, <1>3, <2>2, <2>3, MovedLengths
  <2>6. /\ Len(vm_on_node[e.node]) \in Nat
        /\ Len(Moved(NetNode, i, Target)[e.node]) \in Nat
    BY <1>1, <1>2, <2>2, <1>3, MoveKeeps DEF Lists, MoveOffNetdevNode, Iterate
  <2>7. e.cnt <= Len(vm_on_node'[e.node])
    BY <1>2, <2>2, <2>4, <2>5, <2>6
  <2> QED
    BY <2>7 DEF e
<1> QED
  BY <1>1, <1>4, <1>5 DEF CountsLow, Load

LEMMA NextKeepsCountsLow ==
  ASSUME StrategyInv, CountsLow, [Next]_vars
  PROVE  CountsLow'
<1>1. CASE Sort \/ MoveOffHighLoadNode
  <2>1. Rebuild(vm_on_node')
    BY <1>1 DEF Sort, MoveOffHighLoadNode
  <2>2. StrategyInv'
    BY NextKeeps
  <2> QED
    BY <2>1, <2>2, RebuiltCountsLow DEF StrategyInv, TypeOK, Lists
<1>2. CASE MoveOffNetdevNode
  BY <1>2, NetdevMoveCountsLow
<1>3. CASE SkipNetdevNode \/ UNCHANGED vars
  <2>1. pc' = pc /\ node_vm_vec' = node_vm_vec /\ vm_on_node' = vm_on_node
    BY <1>3 DEF SkipNetdevNode, Iterate, vars, loopVars
  <2> QED
    BY <2>1 DEF CountsLow, SameCount, Load
<1>4. CASE \/ \E infos \in VmInfos : Call(infos)
           \/ Return
           \/ \E v \in Vm : ClassifySkips(v) \/ ClassifyCounts(v)
           \/ NoneCounted \/ Balanced \/ UseNetdevNode \/ Decide
  <2>1. pc' # "balance"
    BY <1>4 DEF Call, Return, ClassifySkips, ClassifyCounts, Visit, NoneCounted, Balanced,
                UseNetdevNode, Decide
  <2> QED
    BY <2>1 DEF CountsLow
<1> QED
  BY <1>1, <1>2, <1>3, <1>4 DEF Next, Body

\* The balancing loop never dereferences the end of an empty list, stale as
\* its counts may be.
THEOREM NeverTakesFromEmpty == Spec => []TakesFromNonEmpty
<1>1. Init => CountsLow
  BY DEF Init, CountsLow
<1>2. StrategyInv /\ CountsLow /\ [Next]_vars => CountsLow'
  BY NextKeepsCountsLow
<1>3. ASSUME StrategyInv, CountsLow PROVE TakesFromNonEmpty
  <2> SUFFICES ASSUME pc = "balance", Unbalanced, ~OnSmallNetdevNode
               PROVE  Load(high_load_node) > 0
    BY DEF TakesFromNonEmpty
  <2> DEFINE e == node_vm_vec[max_vm_idx]
  <2>1. max_vm_idx \in DOMAIN node_vm_vec /\ e \in NodeCount
    BY <1>3 DEF StrategyInv, TypeOK
  <2>2. Reliable(e) /\ e.cnt > 1 /\ e.cnt \in Nat /\ e.node \in Node
    BY <2>1 DEF Unbalanced, OnSmallNetdevNode, Reliable, max_vm_cnt, high_load_node, NodeCount
  <2>3. e.cnt <= Len(vm_on_node[e.node])
    BY <1>3, <2>1, <2>2 DEF CountsLow, Load
  <2>4. Len(vm_on_node[e.node]) \in Nat
    BY <1>3, <2>2 DEF StrategyInv, TypeOK
  <2> QED
    BY <2>2, <2>3, <2>4 DEF Load, high_load_node
<1> QED
  BY StrategyInvariant, <1>1, <1>2, <1>3, PTL DEF Spec

=============================================================================

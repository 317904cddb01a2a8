---------------------------- MODULE VnamsProofs ----------------------------
(***************************************************************************)
(* The daemon with its real strategy implements the daemon of Nuiod.tla.   *)
(***************************************************************************)
EXTENDS Vnams, NuiodProofs

\* The strategy of Vnams, with what is proved about it.
P == INSTANCE SimpleStrategyProofs WITH Vm <- Dom, pc <- spc, acts <- sacts

-----------------------------------------------------------------------------
(***************************************************************************)
(* Both instances have the same actions.                                   *)
(***************************************************************************)
LEMMA SameInit == S!Init <=> P!Init
  BY DEF S!Init, P!Init

LEMMA SameCall == ASSUME NEW infos PROVE S!Call(infos) <=> P!Call(infos)
  BY DEF S!Call, P!Call, S!loopVars, P!loopVars

LEMMA SameReturn == S!Return <=> P!Return
  BY DEF S!Return, P!Return

LEMMA SameBody == S!Body <=> P!Body
  BY DEF S!Body, P!Body, S!ClassifySkips, P!ClassifySkips, S!ClassifyCounts, P!ClassifyCounts,
     S!Visit, P!Visit, S!IOState, P!IOState, S!NoneCounted, P!NoneCounted, S!Sort, P!Sort,
     S!Rebuild, P!Rebuild, S!SortedVecs, P!SortedVecs, S!Counted, P!Counted, S!Orders, P!Orders,
     S!Cardinality, P!Cardinality, S!SkipNetdevNode, P!SkipNetdevNode,
     S!MoveOffNetdevNode, P!MoveOffNetdevNode, S!MoveOffHighLoadNode, P!MoveOffHighLoadNode,
     S!Iterate, P!Iterate, S!Unbalanced, P!Unbalanced, S!OnSmallNetdevNode, P!OnSmallNetdevNode,
     S!high_load_node, P!high_load_node, S!max_vm_cnt, P!max_vm_cnt, S!min_vm_cnt, P!min_vm_cnt,
     S!Places, P!Places, S!StateOf, P!StateOf, S!IsFirst, P!IsFirst, S!Target, P!Target,
     S!Moved, P!Moved, S!Erase, P!Erase, S!Balanced, P!Balanced, S!NetdevNodeFree, P!NetdevNodeFree,
     S!UseNetdevNode, P!UseNetdevNode, S!Decide, P!Decide, S!Elems, P!Elems,
     S!loopVars, P!loopVars

LEMMA SameInfos == S!VmInfo = P!VmInfo
  BY DEF S!VmInfo, P!VmInfo

-----------------------------------------------------------------------------
(***************************************************************************)
(* What a step of the strategy keeps, for the constants of Vnams.          *)
(***************************************************************************)
LEMMA StrategyFacts ==
  /\ P!Init => P!StrategyInv
  /\ P!Return => P!StrategyInv'
  /\ P!StrategyInv /\ P!Body => P!StrategyInv'
  /\ P!StrategyInv /\ UNCHANGED strategyVars => P!StrategyInv'
<1> USE DomAssumption, NodeAssumption, StrategyAssumption
    DEF P!IsFiniteSet, P!Cardinality, IsFiniteSet, Cardinality
<1>1. P!Init => P!StrategyInv
  BY P!StrategyInitially DEF P!StrategyInitially
<1>2. P!Return => P!StrategyInv'
  BY P!ReturnKeeps DEF P!ReturnKeeps
<1>3. P!StrategyInv /\ P!Body => P!StrategyInv'
  BY P!BodyKeeps DEF P!BodyKeeps
<1>4. ASSUME P!StrategyInv, UNCHANGED strategyVars PROVE P!StrategyInv'
  <2>1. P!vars' = P!vars
    BY <1>4 DEF strategyVars, P!vars, P!loopVars
  <2> QED
    BY <1>4, <2>1, P!StutterKeeps DEF P!StutterKeeps
<1> QED
  BY <1>1, <1>2, <1>3, <1>4

LEMMA CallFacts ==
  ASSUME P!StrategyInv, load \in Loads, vms \subseteq Dom, S!Call([d \in vms |-> load[d]])
  PROVE  P!StrategyInv'
<1> DEFINE infos == [d \in vms |-> load[d]]
<1>1. DOMAIN infos \subseteq Dom /\ \A v \in DOMAIN infos : infos[v] \in P!VmInfo
  BY LoadsAssumption, SameInfos
<1>2. P!Call(infos)
  BY SameCall
<1> HIDE DEF infos
<1> QED
  BY DomAssumption, NodeAssumption, StrategyAssumption, <1>1, <1>2, P!CallKeeps
  DEF P!CallKeeps, P!IsFiniteSet, P!Cardinality, IsFiniteSet, Cardinality

-----------------------------------------------------------------------------
(***************************************************************************)
(* The inductive invariant: while a call is under way the daemon waits for *)
(* it, and its input are the VMs the daemon knows.                         *)
(***************************************************************************)
VnamsInv ==
  /\ TypeOK
  /\ P!StrategyInv
  /\ load \in Loads
  /\ spc # "idle" => pc = "schedule" /\ DOMAIN vm_infos = vms

\* The decisions of a finished call are what perform is promised.
LEMMA ReturnsSchedule ==
  ASSUME VnamsInv, StrategyReturns
  PROVE  Schedule
<1>1. spc = "done"
  BY DEF StrategyReturns, S!Return
<1>2. sacts \in P!Schedules(vms)
  BY <1>1 DEF VnamsInv, P!StrategyInv, P!DecidesOnce
<1>3. P!Schedules(vms) = Schedules(vms)
  BY DEF P!Schedules, Schedules, P!Decision, Decision
<1> QED
  BY <1>1, <1>2, <1>3 DEF Schedule, StrategyReturns, VnamsInv

\* Every step is a step of Nuiod.tla or changes none of its variables.
LEMMA StepIsDaemons ==
  ASSUME VnamsInv, [VnamsNext]_allVars
  PROVE  [Next]_vars
<1>1. CASE CallStrategy \/ RunStrategy \/ UNCHANGED allVars
  BY <1>1 DEF CallStrategy, RunStrategy, allVars
<1>2. CASE StrategyReturns
  BY <1>2, ReturnsSchedule DEF Next, PassNext
<1>3. CASE DaemonStep
  BY <1>3 DEF DaemonStep, Next, PassNext
<1>4. CASE AnyHostStep
  BY <1>4 DEF AnyHostStep, Next
<1> QED
  BY <1>1, <1>2, <1>3, <1>4 DEF VnamsNext

LEMMA VnamsInvInit == VnamsInit => VnamsInv
<1> SUFFICES ASSUME VnamsInit PROVE VnamsInv
  OBVIOUS
<1>1. P!StrategyInv
  BY SameInit, StrategyFacts DEF VnamsInit
<1>2. TypeOK
  BY TypeInit DEF VnamsInit
<1> QED
  BY <1>1, <1>2 DEF VnamsInit, VnamsInv, S!Init

LEMMA VnamsInvStep ==
  ASSUME VnamsInv, [VnamsNext]_allVars
  PROVE  VnamsInv'
<1>1. TypeOK'
  BY StepIsDaemons, TypeOfInit, TypeOfCallback, TypeOfPass, TypeOfHost DEF VnamsInv, Next
<1>2. CASE CallStrategy
  <2>1. P!StrategyInv'
    BY <1>2, CallFacts DEF CallStrategy, VnamsInv, TypeOK
  <2> QED
    BY <1>1, <1>2, <2>1 DEF CallStrategy, VnamsInv, S!Call, vars, mapVars
<1>3. CASE RunStrategy
  <2>1. P!Body
    BY <1>3, SameBody DEF RunStrategy
  <2>2. P!StrategyInv'
    BY <2>1, StrategyFacts DEF VnamsInv
  <2>3. spc # "idle" /\ vm_infos' = vm_infos
    BY <2>1, P!BodyKeepsInput, DomAssumption, NodeAssumption, StrategyAssumption
    DEF P!BodyKeepsInput, P!IsFiniteSet, P!Cardinality, IsFiniteSet, Cardinality
  <2> QED
    BY <1>1, <1>3, <2>2, <2>3 DEF RunStrategy, VnamsInv, vars, mapVars
<1>4. CASE StrategyReturns
  <2>1. P!StrategyInv' /\ spc' = "idle"
    BY <1>4, SameReturn, StrategyFacts DEF StrategyReturns, S!Return
  <2> QED
    BY <1>1, <1>4, <2>1 DEF StrategyReturns, VnamsInv
<1>5. CASE DaemonStep \/ AnyHostStep
  <2>1. UNCHANGED strategyVars /\ UNCHANGED load
    BY <1>5 DEF DaemonStep, AnyHostStep
  <2>2. spc = "idle"
    BY <1>5 DEF DaemonStep, AnyHostStep, VnamsInv
  <2> QED
    BY <1>1, <2>1, <2>2, StrategyFacts DEF VnamsInv, strategyVars
<1>6. CASE UNCHANGED allVars
  <2>1. UNCHANGED strategyVars
    BY <1>6 DEF allVars
  <2> QED
    BY <1>1, <1>6, <2>1, StrategyFacts
    DEF VnamsInv, allVars, strategyVars, vars, mapVars
<1> QED
  BY <1>2, <1>3, <1>4, <1>5, <1>6 DEF VnamsNext

-----------------------------------------------------------------------------
\* Whatever TLAPS proves about Nuiod's daemon is true of it with its real
\* strategy: schedule's decisions are about VMs the daemon knows and about
\* each at most once, although the two maps of VMs are built independently.
THEOREM StrategyFitsDaemon == VnamsSpec => ImplementsDaemon
<1>1. VnamsInit => Init
  BY DEF VnamsInit
<1>2. VnamsInv /\ [VnamsNext]_allVars => [Next]_vars
  BY StepIsDaemons
<1>3. VnamsInv /\ [VnamsNext]_allVars => VnamsInv'
  BY VnamsInvStep
<1> QED
  BY <1>1, <1>2, <1>3, VnamsInvInit, PTL DEF VnamsSpec, ImplementsDaemon, Spec

LEMMA SameType == P!TypeOK <=> S!TypeOK
  BY SameInfos DEF P!TypeOK, S!TypeOK, P!State, S!State, P!NodeCount, S!NodeCount,
                   P!Decision, S!Decision

\* Daemon and strategy together keep their types: in particular a call of
\* schedule runs only while the daemon waits for it, on the VMs it knows then.
THEOREM VnamsTyped == VnamsSpec => []VnamsTypeOK
<1>1. VnamsInv => VnamsTypeOK
  BY SameType DEF VnamsInv, VnamsTypeOK, P!StrategyInv
<1>2. VnamsInv /\ [VnamsNext]_allVars => VnamsInv'
  BY VnamsInvStep
<1> QED
  BY <1>1, <1>2, VnamsInvInit, PTL DEF VnamsSpec

=============================================================================

---------------------------- MODULE NuiodProofs ----------------------------
(***************************************************************************)
(* Theorems about the daemon, for all sets of domains, cpus and nodes.     *)
(***************************************************************************)
EXTENDS NuiodProperties, FiniteSetTheorems, SequenceTheorems, TLAPS

\* What a step needs to know of the constants.
LEMMA ConstantFacts ==
  /\ Dom \subseteq Nat /\ IsFiniteSet(Dom)
  /\ Cpu \subseteq Nat
  /\ NoCpu \notin Cpu /\ NoVM \notin Dom
  /\ NodeOf \in [Cpu -> Node] /\ Node \subseteq Nat /\ 0 \in Node
BY DomAssumption, CpuAssumption, NodeAssumption, NodeOfAssumption DEF NoCpu, NoVM

-----------------------------------------------------------------------------
(***************************************************************************)
(* The host                                                                *)
(***************************************************************************)
QueueEntry == [dom : Dom, event : Event]

\* A lifecycle event leaves the queue well-formed.
LEMMA NotifyType ==
  ASSUME events \in Seq(QueueEntry), NEW d \in Dom, NEW e \in Event, Notify(d, e)
  PROVE  events' \in Seq(QueueEntry)
<1>1. [dom |-> d, event |-> e] \in QueueEntry
  BY DEF QueueEntry
<1> QED
  BY <1>1 DEF Notify

\* No step of the host leaves its type.
LEMMA HostStepType ==
  ASSUME HostTypeOK, HostNext
  PROVE  HostTypeOK'
<1> USE ConstantFacts DEF HostTypeOK, Phase, Event, QueueEntry
<1>1. PICK d \in Dom :
        \/ DomainStart(d) \/ DomainSuspend(d) \/ DomainResume(d)
        \/ DomainPMSuspend(d) \/ DomainWakeup(d)
        \/ DomainHalt(d, "SHUTDOWN") \/ DomainHalt(d, "CRASHED")
        \/ DomainEnd(d) \/ SchedulerMove(d)
  BY DEF HostNext
<1>2. CASE DomainStart(d)
  BY <1>2, NotifyType DEF DomainStart
<1>3. ASSUME NEW from, NEW to \in Phase, NEW e \in Event, Become(d, from, to, e)
      PROVE  HostTypeOK'
  BY <1>3, NotifyType DEF Become
<1>4. CASE DomainEnd(d)
  BY <1>4, NotifyType DEF DomainEnd
<1>5. CASE SchedulerMove(d)
  BY <1>5 DEF SchedulerMove
<1> QED
  BY <1>1, <1>2, <1>3, <1>4, <1>5
     DEF DomainSuspend, DomainResume, DomainPMSuspend, DomainWakeup, DomainHalt

\* Delivering the oldest event leaves a well-formed queue and a known domain.
LEMMA DispatchType ==
  ASSUME HostTypeOK, NEW d, NEW e, Dispatch(d, e)
  PROVE  HostTypeOK' /\ d \in Dom /\ e \in Event
BY HeadTailProperties DEF HostTypeOK, Dispatch

\* The calls of the daemon leave the host's type.
LEMMA CallType ==
  ASSUME HostTypeOK
  PROVE  /\ Register => HostTypeOK'
         /\ \A d \in Dom, c \in Cpu : PinVcpu(d, c) => HostTypeOK'
         /\ UNCHANGED hostVars => HostTypeOK'
         /\ \A d \in Dom : VcpuAnswers(d) \subseteq Cpu \cup {NoCpu}
<1> USE ConstantFacts DEF HostTypeOK
<1>1. Register => HostTypeOK'
  BY DEF Register
<1>2. \A d \in Dom, c \in Cpu : PinVcpu(d, c) => HostTypeOK'
  BY DEF PinVcpu
<1>3. UNCHANGED hostVars => HostTypeOK'
  BY DEF hostVars
<1>4. \A d \in Dom : VcpuAnswers(d) \subseteq Cpu \cup {NoCpu}
  BY DEF VcpuAnswers
<1> QED
  BY <1>1, <1>2, <1>3, <1>4

-----------------------------------------------------------------------------
(***************************************************************************)
(* Type correctness                                                        *)
(***************************************************************************)
LEMMA NoDecisions == ASSUME NEW V PROVE {} \in Schedules(V)
BY DEF Schedules

LEMMA FewerDecisions ==
  ASSUME NEW V, NEW S \in Schedules(V), NEW a \in S
  PROVE  S \ {a} \in Schedules(V) /\ a.dom \in V /\ a.node \in Node
BY DEF Schedules, Decision

LEMMA TypeInit == Init => TypeOK
<1> SUFFICES ASSUME Init PROVE TypeOK
  OBVIOUS
<1>1. HostTypeOK
  <2>1. phase \in [Dom -> {"off", "running"}] => phase \in [Dom -> Phase]
    BY DEF Phase
  <2>2. events = <<>> => events \in Seq([dom : Dom, event : Event])
    OBVIOUS
  <2>3. affinity = [d \in Dom |-> Cpu] => affinity \in [Dom -> SUBSET Cpu]
    OBVIOUS
  <2> QED
    BY <2>1, <2>2, <2>3 DEF Init, HostInit, HostTypeOK
<1>2. acts \in Schedules(vms)
  BY NoDecisions DEF Init
<1> QED
  BY <1>1, <1>2, ConstantFacts DEF Init, TypeOK, InitPc, LoopPc, DeadPc, VmEventState

\* init and init_vminfo keep the type.
LEMMA TypeOfInit == TypeOK /\ InitNext => TypeOK'
<1> SUFFICES ASSUME TypeOK, InitNext PROVE TypeOK'
  OBVIOUS
<1> USE ConstantFacts DEF TypeOK, InitPc, LoopPc, DeadPc, mapVars, initVars, passVars
<1>1. CASE RegisterCallback
  BY <1>1, CallType DEF RegisterCallback
<1>2. CASE NumOfDomains
  <2>1. Cardinality(ActiveDoms) \in Nat
    BY FS_Subset, FS_CardinalityType DEF ActiveDoms
  <2> QED
    BY <1>2, <2>1, CallType DEF NumOfDomains
<1>3. ASSUME NEW S \in SUBSET ActiveDoms, VisitOnly(S) PROVE TypeOK'
  BY <1>3, CallType DEF VisitOnly, ActiveDoms
<1>4. ASSUME NEW d \in Dom, InitVm(d) PROVE TypeOK'
  <2>1. HostTypeOK' /\ VcpuAnswers(d) \subseteq Cpu \cup {NoCpu}
    BY <1>4, CallType DEF InitVm
  <2>2. acts = {} /\ {} \in Schedules(vms')
    BY <1>4, NoDecisions DEF InitVm
  <2> QED
    BY <1>4, <2>1, <2>2 DEF InitVm, set_vm_info, MapInsert, VmEventState
<1>5. ASSUME NEW d \in Dom, InitVmNull(d) PROVE TypeOK'
  BY <1>5, CallType DEF InitVmNull
<1>6. CASE InitDone
  BY <1>6, CallType DEF InitDone
<1>7. CASE InitFails
  BY <1>7, CallType DEF InitFails
<1>8. CASE NumOfDomainsFails
  BY <1>8, CallType DEF NumOfDomainsFails
<1> QED
  BY <1>1, <1>2, <1>3, <1>4, <1>5, <1>6, <1>7, <1>8
     DEF InitNext, ListDomains, ListDomainsFails

\* The callback keeps the type.
LEMMA TypeOfCallback == TypeOK /\ CallbackNext => TypeOK'
<1> SUFFICES ASSUME TypeOK, NEW d \in Dom, NEW e \in Event,
                    \/ EventStarted(d) \/ EventStartedNull(d) \/ EventRemovesVm(d, e)
                    \/ EventChangesState(d, e) \/ EventIgnored(d, e)
             PROVE  TypeOK'
  BY DEF CallbackNext, Event
<1> USE ConstantFacts DEF TypeOK, InitPc, LoopPc, DeadPc, mapVars, initVars, passVars
<1>1. HostTypeOK' /\ pc = "events" /\ UNCHANGED <<initVars, passVars, todo>>
  BY DispatchType DEF InCallback, EventStarted, EventStartedNull, EventRemovesVm,
                      EventChangesState, EventIgnored
<1>2. acts = {} /\ acts' = {} /\ {} \in Schedules(vms')
  BY <1>1, NoDecisions
<1>3. CASE EventStarted(d)
  BY <1>1, <1>2, <1>3, CallType
     DEF EventStarted, set_vm_info, MapInsert, VmEventState, Event
<1>4. CASE EventStartedNull(d)
  BY <1>1, <1>2, <1>4 DEF EventStartedNull
<1>5. CASE EventRemovesVm(d, e)
  BY <1>1, <1>2, <1>5 DEF EventRemovesVm, remove_vm, EraseOwn, VmEventState
<1>6. CASE EventChangesState(d, e)
  BY <1>1, <1>2, <1>6 DEF EventChangesState, VmEventState
<1>7. CASE EventIgnored(d, e)
  BY <1>1, <1>2, <1>7 DEF EventIgnored
<1> QED
  BY <1>3, <1>4, <1>5, <1>6, <1>7

\* A pass of the main loop keeps the type.
LEMMA TypeOfPass == TypeOK /\ PassNext => TypeOK'
<1> SUFFICES ASSUME TypeOK, PassNext PROVE TypeOK'
  OBVIOUS
<1> USE ConstantFacts DEF TypeOK, InitPc, LoopPc, DeadPc, mapVars, initVars, passVars
<1>1. CASE EventLoopReturns
  BY <1>1, CallType DEF EventLoopReturns
<1>2. ASSUME NEW d \in Dom, RefreshVm(d) PROVE TypeOK'
  BY <1>2, CallType DEF RefreshVm, change_cpu_vm_mapping, EraseOwn
<1>3. CASE RefreshDone
  BY <1>3, CallType DEF RefreshDone
<1>4. CASE Schedule
  BY <1>4, CallType DEF Schedule
<1>5. CASE ScheduleHomeless
  BY <1>5, CallType DEF ScheduleHomeless
<1>6. ASSUME NEW a \in acts, PerformSkip(a) \/ PerformPinFails(a) PROVE TypeOK'
  <2>1. acts' \in Schedules(vms)
    BY <1>6, FewerDecisions DEF PerformSkip, PerformPinFails
  <2> QED
    BY <1>6, <2>1, CallType DEF PerformSkip, PerformPinFails
<1>7. ASSUME NEW a \in acts, PerformPin(a) PROVE TypeOK'
  <2>1. acts' \in Schedules(vms) /\ a.dom \in Dom
    BY <1>7, FewerDecisions DEF PerformPin
  <2>2. PICK c \in Cpu : /\ PinVcpu(a.dom, c)
                         /\ change_cpu_vm_mapping(a.dom, c)
                         /\ placed' = [placed EXCEPT ![a.dom] = c]
    BY <1>7 DEF PerformPin, FreeCpus
  <2> QED
    BY <1>7, <2>1, <2>2, CallType DEF PerformPin, change_cpu_vm_mapping, EraseOwn
<1>8. CASE PerformDone
  BY <1>8, CallType DEF PerformDone
<1>9. CASE MonitorThrows
  BY <1>9, CallType DEF MonitorThrows
<1> QED
  BY <1>1, <1>2, <1>3, <1>4, <1>5, <1>6, <1>7, <1>8, <1>9 DEF PassNext

\* A step of the host keeps the type, and so does a stuttering step.
LEMMA TypeOfHost == TypeOK /\ (HostStep \/ UNCHANGED vars) => TypeOK'
BY HostStepType, CallType DEF HostStep, TypeOK, vars, mapVars, initVars, passVars

\* The daemon's variables keep their types.  Beyond the domains of the maps
\* this says that every decision still to be performed names a known VM and
\* that no VM has two: no lifecycle event reaches the daemon between schedule
\* and the end of perform.
THEOREM TypeCorrect == Spec => []TypeOK
<1>1. TypeOK /\ [Next]_vars => TypeOK'
  BY TypeOfInit, TypeOfCallback, TypeOfPass, TypeOfHost DEF Next
<1> QED
  BY TypeInit, <1>1, PTL DEF Spec

-----------------------------------------------------------------------------
(***************************************************************************)
(* The two maps.  MappingConsistent is inductive together with TypeOK.     *)
(***************************************************************************)

\* The maps change in four places only.
LEMMA MapSteps ==
  ASSUME TypeOK, [Next]_vars
  PROVE  \/ UNCHANGED <<vms, real_cpu_no, cpu_vm_mapping, reinit>>
         \/ \E d \in Dom, cpu \in Cpu \cup {NoCpu}, homed \in BOOLEAN,
               state \in VmEventState : set_vm_info(d, cpu, homed, state)
         \/ \E d \in Dom : remove_vm(d)
         \/ \E d \in vms, c \in Cpu :
              change_cpu_vm_mapping(d, c) /\ UNCHANGED <<vms, reinit>>
<1> USE DEF mapVars
<1>1. CASE InitNext
  <2>1. ASSUME NEW d \in Dom, InitVm(d)
        PROVE  \E cpu \in Cpu \cup {NoCpu}, homed \in BOOLEAN, state \in VmEventState :
                 set_vm_info(d, cpu, homed, state)
    BY <2>1, CallType DEF TypeOK, InitVm, VmEventState
  <2> QED
    BY <1>1, <2>1 DEF InitNext, RegisterCallback, NumOfDomains, NumOfDomainsFails,
                      ListDomains, ListDomainsFails, VisitOnly, InitVmNull,
                      InitDone, InitFails
<1>2. CASE CallbackNext
  <2>1. ASSUME NEW d \in Dom, EventStarted(d)
        PROVE  \E cpu \in Cpu \cup {NoCpu}, homed \in BOOLEAN, state \in VmEventState :
                 set_vm_info(d, cpu, homed, state)
    BY <2>1, CallType DEF TypeOK, EventStarted, VmEventState, Event
  <2> QED
    BY <1>2, <2>1 DEF CallbackNext, EventStartedNull, EventRemovesVm,
                      EventChangesState, EventIgnored
<1>3. CASE PassNext
  <2>1. ASSUME NEW d \in Dom, RefreshVm(d)
        PROVE  \/ UNCHANGED <<vms, real_cpu_no, cpu_vm_mapping, reinit>>
               \/ \E c \in Cpu : /\ d \in vms
                                /\ change_cpu_vm_mapping(d, c)
                                /\ UNCHANGED <<vms, reinit>>
    BY <2>1, CallType DEF TypeOK, RefreshVm
  <2>2. ASSUME NEW a \in acts, PerformPin(a)
        PROVE  \E d \in vms, c \in Cpu :
                 change_cpu_vm_mapping(d, c) /\ UNCHANGED <<vms, reinit>>
    <3>1. a.dom \in vms
      BY FewerDecisions DEF TypeOK
    <3> QED
      BY <2>2, <3>1 DEF PerformPin, FreeCpus
  <2> QED
    BY <1>3, <2>1, <2>2 DEF PassNext, EventLoopReturns, RefreshDone, Schedule,
                            MonitorThrows, ScheduleHomeless, PerformSkip,
                            PerformPinFails, PerformDone
<1>4. CASE HostStep \/ UNCHANGED vars
  BY <1>4 DEF HostStep, vars
<1> QED
  BY <1>1, <1>2, <1>3, <1>4 DEF Next

LEMMA MappingStep ==
  ASSUME TypeOK, MappingConsistent, [Next]_vars
  PROVE  MappingConsistent'
<1> USE ConstantFacts DEF TypeOK, MappingConsistent
<1>1. CASE UNCHANGED <<vms, real_cpu_no, cpu_vm_mapping, reinit>>
  BY <1>1
<1>2. ASSUME NEW d \in Dom, NEW cpu \in Cpu \cup {NoCpu}, NEW homed \in BOOLEAN,
             NEW state \in VmEventState, set_vm_info(d, cpu, homed, state)
      PROVE  MappingConsistent'
  BY <1>2 DEF set_vm_info, MapInsert
<1>3. ASSUME NEW d \in Dom, remove_vm(d)
      PROVE  MappingConsistent'
  BY <1>3 DEF remove_vm, EraseOwn
<1>4. ASSUME NEW d \in vms, NEW c \in Cpu,
             change_cpu_vm_mapping(d, c), UNCHANGED <<vms, reinit>>
      PROVE  MappingConsistent'
  BY <1>4 DEF change_cpu_vm_mapping, EraseOwn
<1> QED
  BY MapSteps, <1>1, <1>2, <1>3, <1>4

\* cpu_vm_mapping never names a VM that is not known, nor a cpu its VM has
\* left, unless a second STARTED event overwrote that VM's record.
THEOREM MapsAgree == Spec => []MappingConsistent
<1>1. Init => MappingConsistent
  BY DEF Init, MappingConsistent
<1>2. TypeOK /\ MappingConsistent /\ [Next]_vars => MappingConsistent'
  BY MappingStep
<1> QED
  BY <1>1, <1>2, TypeCorrect, PTL DEF Spec

\* No VM's entry in cpu_vm_mapping is erased on behalf of another VM.
THEOREM EntriesErasedByOwner == Spec => ErasesOwnEntry
<1> DEFINE Kept ==
      \A c \in Cpu, d \in vms :
        cpu_vm_mapping[c] = d /\ cpu_vm_mapping'[c] = NoVM =>
          d \notin vms' \/ real_cpu_no'[d] # c
<1>1. TypeOK /\ [Next]_vars => [Kept]_vars
  <2> SUFFICES ASSUME TypeOK, [Next]_vars PROVE Kept
    OBVIOUS
  <2> USE ConstantFacts DEF TypeOK
  <2>1. CASE UNCHANGED <<vms, real_cpu_no, cpu_vm_mapping, reinit>>
    BY <2>1
  <2>2. ASSUME NEW d \in Dom, NEW cpu \in Cpu \cup {NoCpu}, NEW homed \in BOOLEAN,
               NEW state \in VmEventState, set_vm_info(d, cpu, homed, state)
        PROVE  Kept
    BY <2>2 DEF set_vm_info, MapInsert
  <2>3. ASSUME NEW d \in Dom, remove_vm(d)
        PROVE  Kept
    BY <2>3 DEF remove_vm, EraseOwn
  <2>4. ASSUME NEW d \in vms, NEW c \in Cpu,
               change_cpu_vm_mapping(d, c), UNCHANGED <<vms, reinit>>
        PROVE  Kept
    BY <2>4 DEF change_cpu_vm_mapping, EraseOwn
  <2> QED
    BY MapSteps, <2>1, <2>2, <2>3, <2>4
<1> QED
  BY <1>1, TypeCorrect, PTL DEF Spec, ErasesOwnEntry

-----------------------------------------------------------------------------
(***************************************************************************)
(* The daemon and the host: what a pass of the main loop has pinned, and   *)
(* which domains the daemon knows.                                         *)
(***************************************************************************)

\* A domain that has started never is "off" again, and the host itself leaves
\* the affinity of an active domain alone.
LEMMA HostKeepsStarted ==
  ASSUME HostTypeOK, HostNext, NEW d \in Dom, phase[d] # "off"
  PROVE  /\ phase'[d] # "off"
         /\ Active(d)' => Active(d) /\ affinity'[d] = affinity[d]
<1> USE DEF HostTypeOK, Active
<1>1. PICK x \in Dom :
        \/ DomainStart(x) \/ DomainSuspend(x) \/ DomainResume(x)
        \/ DomainPMSuspend(x) \/ DomainWakeup(x)
        \/ DomainHalt(x, "SHUTDOWN") \/ DomainHalt(x, "CRASHED")
        \/ DomainEnd(x) \/ SchedulerMove(x)
  BY DEF HostNext
<1>2. CASE DomainStart(x)
  BY <1>2 DEF DomainStart
<1>3. CASE DomainSuspend(x) \/ DomainResume(x)
  BY <1>3 DEF DomainSuspend, DomainResume, Become
<1>4. CASE DomainPMSuspend(x) \/ DomainWakeup(x)
  BY <1>4 DEF DomainPMSuspend, DomainWakeup, Become
<1>5. CASE DomainHalt(x, "SHUTDOWN") \/ DomainHalt(x, "CRASHED")
  BY <1>5 DEF DomainHalt, Become
<1>6. CASE DomainEnd(x)
  BY <1>6 DEF DomainEnd
<1>7. CASE SchedulerMove(x)
  BY <1>7 DEF SchedulerMove
<1> QED
  BY <1>1, <1>2, <1>3, <1>4, <1>5, <1>6, <1>7

-----------------------------------------------------------------------------
(***************************************************************************)
(* Placements.  PassKeepsPlacements is not inductive: that a pinned VM     *)
(* keeps its cpu rests on no decision about it being left, and that it     *)
(* keeps its affinity on its having started.                               *)
(***************************************************************************)
Placement(d) ==
  placed[d] # NoCpu =>
    /\ real_cpu_no[d] = placed[d]
    /\ cpu_vm_mapping[placed[d]] = d
    /\ phase[d] # "off"
    /\ Active(d) => affinity[d] = {placed[d]}
    /\ \A a \in acts : a.dom # d

Placements == \A d \in Dom : Placement(d)

LEMMA PlacementsStep ==
  ASSUME TypeOK, TypeOK', Placements, [Next]_vars
  PROVE  Placements'
<1> SUFFICES ASSUME NEW d \in Dom, placed'[d] # NoCpu
             PROVE  Placement(d)'
  BY DEF Placements, Placement
<1> USE ConstantFacts DEF TypeOK
<1>1. pc' = "perform"
  OBVIOUS
<1>2. CASE pc # "perform"
  <2>1. placed[d] = NoCpu
    BY <1>2
  <2>2. UNCHANGED placed
    BY <1>1, <1>2
       DEF Next, InitNext, RegisterCallback, NumOfDomains, NumOfDomainsFails,
           ListDomains, ListDomainsFails, VisitOnly, InitVm, InitVmNull, InitDone,
           InitFails, CallbackNext, EventStarted, EventStartedNull, EventRemovesVm,
           EventChangesState, EventIgnored, InCallback, PassNext, EventLoopReturns,
           RefreshVm, RefreshDone, Schedule, MonitorThrows, ScheduleHomeless,
           PerformSkip, PerformPinFails, PerformPin, PerformDone, HostStep, passVars, vars
  <2> QED
    BY <2>1, <2>2
<1>3. CASE pc = "perform"
  <2>1. \/ \E a \in acts : PerformSkip(a) \/ PerformPinFails(a) \/ PerformPin(a)
        \/ HostStep
        \/ UNCHANGED vars
    BY <1>1, <1>3
       DEF Next, InitNext, RegisterCallback, NumOfDomains, NumOfDomainsFails,
           ListDomains, ListDomainsFails, VisitOnly, InitVm, InitVmNull, InitDone,
           InitFails, CallbackNext, EventStarted, EventStartedNull, EventRemovesVm,
           EventChangesState, EventIgnored, InCallback, PassNext, EventLoopReturns,
           RefreshVm, RefreshDone, Schedule, MonitorThrows, ScheduleHomeless, PerformDone
  <2>2. ASSUME NEW a \in acts, PerformSkip(a) \/ PerformPinFails(a)
        PROVE  Placement(d)'
    BY <2>2 DEF PerformSkip, PerformPinFails, hostVars, mapVars, Placements, Placement,
                Active
  <2>3. ASSUME NEW a \in acts, PerformPin(a)
        PROVE  Placement(d)'
    <3>1. PICK c \in Cpu :
            /\ cpu_vm_mapping[c] = NoVM
            /\ PinVcpu(a.dom, c)
            /\ change_cpu_vm_mapping(a.dom, c)
            /\ placed' = [placed EXCEPT ![a.dom] = c]
      BY <2>3 DEF PerformPin, FreeCpus
    <3>2. /\ a.dom \in Dom
          /\ acts' = acts \ {a}
          /\ \A b \in acts' : b.dom # a.dom
      BY <2>3 DEF PerformPin, Schedules, Decision
    <3>3. CASE d = a.dom
      BY <3>1, <3>2, <3>3
         DEF PinVcpu, change_cpu_vm_mapping, EraseOwn, Placement, Active, HostTypeOK
    <3>4. CASE d # a.dom
      <4>1. placed'[d] = placed[d] /\ placed[d] \in Cpu
        BY <3>1, <3>2, <3>4
      <4>2. real_cpu_no'[d] = real_cpu_no[d]
        BY <3>1, <3>4 DEF change_cpu_vm_mapping
      <4>3. cpu_vm_mapping'[placed[d]] = d
        <5> DEFINE erased == EraseOwn(cpu_vm_mapping, a.dom)
        <5>1. cpu_vm_mapping[placed[d]] = d /\ placed[d] # c
          BY <3>1, <4>1 DEF Placements, Placement
        <5>2. erased \in [Cpu -> Dom \cup {NoVM}] /\ erased[placed[d]] = d
          BY <3>2, <3>4, <4>1, <5>1 DEF EraseOwn
        <5>3. cpu_vm_mapping' = [erased EXCEPT ![c] = a.dom]
          BY <3>1 DEF change_cpu_vm_mapping
        <5> HIDE DEF erased
        <5> QED
          BY <4>1, <5>1, <5>2, <5>3
      <4>4. phase'[d] = phase[d] /\ affinity'[d] = affinity[d]
        BY <3>1, <3>4 DEF PinVcpu, HostTypeOK
      <4> QED
        BY <3>2, <4>1, <4>2, <4>3, <4>4 DEF Placements, Placement, Active
    <3> QED
      BY <3>3, <3>4
  <2>4. CASE HostStep
    BY <2>4, HostKeepsStarted DEF HostStep, mapVars, passVars, Placements, Placement
  <2>5. CASE UNCHANGED vars
    BY <2>5 DEF vars, hostVars, mapVars, passVars, Placements, Placement, Active
  <2> QED
    BY <2>1, <2>2, <2>3, <2>4, <2>5
<1> QED
  BY <1>2, <1>3

\* No decision of a pass undoes another: what perform pinned stays recorded,
\* mapped and pinned until the pass ends, for any number of VMs, cpus and
\* decisions, and wherever domains end or vCPUs move meanwhile.
THEOREM PlacementsKept == Spec => []PassKeepsPlacements
<1>1. Init => Placements
  BY DEF Init, Placements, Placement
<1>2. TypeOK /\ TypeOK' /\ Placements /\ [Next]_vars => Placements'
  BY PlacementsStep
<1>3. Placements => PassKeepsPlacements
  BY DEF Placements, Placement, PassKeepsPlacements
<1> QED
  BY <1>1, <1>2, <1>3, TypeCorrect, PTL DEF Spec

-----------------------------------------------------------------------------
(***************************************************************************)
(* Knowing every domain.  NoVmMissed is not inductive: a removal must not  *)
(* hit an active domain, for which every STOPPED event in the queue has to *)
(* be about a domain that has ended, and a start must be announced, for    *)
(* which the callback has to be registered.                                *)
(***************************************************************************)
StoppedAreGone ==
  \A i \in 1..Len(events) :
    events[i].event = "STOPPED" => phase[events[i].dom] = "gone"

Listens == pc \notin {"connect"} \cup DeadPc => listening

Watched == StoppedAreGone /\ Listens /\ NoVmMissed

\* A queued event stays queued when another is appended or delivered.
LEMMA StaysPending ==
  ASSUME HostTypeOK, NEW d \in Dom, NEW e, Pending(d, e)
  PROVE  /\ \A x \in Dom, f \in Event : Notify(x, f) /\ listening => Pending(d, e)'
         /\ \A x \in Dom, f \in Event :
              Dispatch(x, f) /\ (x # d \/ f # e) => Pending(d, e)'
<1> USE DEF HostTypeOK
<1>1. PICK i \in 1..Len(events) : events[i] = [dom |-> d, event |-> e]
  BY DEF Pending
<1>2. ASSUME NEW x \in Dom, NEW f \in Event, Notify(x, f), listening
      PROVE  Pending(d, e)'
  <2>1. /\ Len(events') = Len(events) + 1
        /\ events'[i] = events[i]
    BY <1>1, <1>2 DEF Notify
  <2> QED
    BY <1>1, <2>1 DEF Pending
<1>3. ASSUME NEW x \in Dom, NEW f \in Event, Dispatch(x, f), x # d \/ f # e
      PROVE  Pending(d, e)'
  <2>1. events # <<>> /\ events[1] = [dom |-> x, event |-> f] /\ events' = Tail(events)
    BY <1>3 DEF Dispatch
  <2>2. i # 1
    BY <1>1, <1>3, <2>1
  <2>3. /\ Len(events') = Len(events) - 1
        /\ events'[i - 1] = events[i]
    BY <1>1, <2>1, <2>2, HeadTailProperties
  <2> QED
    BY <1>1, <2>2, <2>3 DEF Pending
<1> QED
  BY <1>2, <1>3

\* What the host's steps mean for a listening daemon.
LEMMA HostAnnounces ==
  ASSUME HostTypeOK, HostNext, StoppedAreGone
  PROVE  /\ StoppedAreGone'
         /\ listening' = listening
         /\ listening => \A d \in Dom :
              /\ Active(d)' => Active(d) \/ Pending(d, "STARTED")'
              /\ Pending(d, "STARTED") => Pending(d, "STARTED")'
<1> USE DEF HostTypeOK
<1>1. PICK x \in Dom :
        \/ DomainStart(x) \/ DomainSuspend(x) \/ DomainResume(x)
        \/ DomainPMSuspend(x) \/ DomainWakeup(x)
        \/ DomainHalt(x, "SHUTDOWN") \/ DomainHalt(x, "CRASHED")
        \/ DomainEnd(x) \/ SchedulerMove(x)
  BY DEF HostNext
<1>2. ASSUME NEW e \in Event, NEW to \in Phase, Notify(x, e),
             phase' = [phase EXCEPT ![x] = to],
             phase[x] # "gone", e = "STOPPED" => to = "gone"
      PROVE  StoppedAreGone'
  <2> SUFFICES ASSUME NEW i \in 1..Len(events'), events'[i].event = "STOPPED"
               PROVE  phase'[events'[i].dom] = "gone"
    BY DEF StoppedAreGone
  <2>1. CASE i \in 1..Len(events) /\ events'[i] = events[i]
    <3>1. events[i] \in [dom : Dom, event : Event]
      BY <2>1, ElementOfSeq
    <3>2. events[i].dom \in Dom /\ phase[events[i].dom] = "gone"
      BY <2>1, <3>1 DEF StoppedAreGone
    <3> QED
      BY <1>2, <2>1, <3>2
  <2>2. CASE events'[i] = [dom |-> x, event |-> e]
    BY <1>2, <2>2
  <2> QED
    BY <1>2, <2>1, <2>2 DEF Notify
<1>3. ASSUME NEW e \in Event, Notify(x, e), listening, NEW d \in Dom, Pending(d, "STARTED")
      PROVE  Pending(d, "STARTED")'
  BY <1>3, StaysPending
<1>4. ASSUME Notify(x, "STARTED"), listening
      PROVE  Pending(x, "STARTED")'
  <2>1. /\ Len(events') = Len(events) + 1 /\ Len(events) \in Nat
        /\ events'[Len(events')] = [dom |-> x, event |-> "STARTED"]
    BY <1>4 DEF Notify
  <2> QED
    BY <2>1 DEF Pending
<1>5. CASE DomainStart(x)
  BY <1>2, <1>3, <1>4, <1>5 DEF DomainStart, Active, Event, Phase
<1>6. ASSUME NEW from, NEW to \in Phase, NEW e \in Event, Become(x, from, to, e),
             from \subseteq {"running", "paused", "asleep"}, e # "STOPPED"
      PROVE  /\ StoppedAreGone'
             /\ listening' = listening
             /\ listening => \A d \in Dom :
                  /\ Active(d)' => Active(d)
                  /\ Pending(d, "STARTED") => Pending(d, "STARTED")'
  BY <1>2, <1>3, <1>6 DEF Become, Active
<1>7. CASE DomainEnd(x)
  BY <1>2, <1>3, <1>7 DEF DomainEnd, Active, Event, Phase
<1>8. CASE SchedulerMove(x)
  BY <1>8 DEF SchedulerMove, StoppedAreGone, Active, Pending
<1>9. CASE DomainSuspend(x) \/ DomainResume(x)
  BY <1>6, <1>9 DEF DomainSuspend, DomainResume, Phase, Event
<1>10. CASE DomainPMSuspend(x) \/ DomainWakeup(x)
  BY <1>6, <1>10 DEF DomainPMSuspend, DomainWakeup, Phase, Event
<1>11. CASE DomainHalt(x, "SHUTDOWN") \/ DomainHalt(x, "CRASHED")
  BY <1>6, <1>11 DEF DomainHalt, Phase, Event
<1> QED
  BY <1>1, <1>5, <1>7, <1>8, <1>9, <1>10, <1>11

LEMMA WatchedStep ==
  ASSUME TypeOK, TypeOK', Watched, [Next]_vars
  PROVE  Watched'
<1> USE ConstantFacts DEF TypeOK, Watched
<1>1. CASE InitNext
  <2> USE DEF InitPc, LoopPc, DeadPc, Listens
  <2>1. CASE RegisterCallback \/ NumOfDomains \/ InitFails \/ InitDone
    BY <1>1, <2>1
       DEF RegisterCallback, NumOfDomains, InitFails, InitDone, Register, StoppedAreGone,
           NoVmMissed, hostVars, mapVars, initVars, Active, ActiveDoms, Pending
  <2>2. ASSUME NEW S \in SUBSET ActiveDoms, VisitOnly(S) PROVE Watched'
    BY <2>2 DEF VisitOnly, StoppedAreGone, NoVmMissed, hostVars, mapVars, Active,
                ActiveDoms, Pending
  <2>3. ASSUME NEW d \in Dom, InitVm(d) PROVE Watched'
    BY <2>3 DEF InitVm, set_vm_info, StoppedAreGone, NoVmMissed, hostVars, Active,
                ActiveDoms, Pending
  <2>4. ASSUME NEW d \in Dom, InitVmNull(d) PROVE Watched'
    BY <2>4 DEF InitVmNull, StoppedAreGone, NoVmMissed, hostVars
  <2>5. CASE NumOfDomainsFails
    BY <2>5 DEF NumOfDomainsFails, StoppedAreGone, NoVmMissed, hostVars
  <2> QED
    BY <1>1, <2>1, <2>2, <2>3, <2>4, <2>5 DEF InitNext, ListDomains, ListDomainsFails
<1>2. ASSUME NEW d \in Dom, NEW e \in Event,
             \/ (EventStarted(d) \/ EventStartedNull(d)) /\ e = "STARTED"
             \/ EventRemovesVm(d, e) \/ EventChangesState(d, e) \/ EventIgnored(d, e)
      PROVE  Watched'
  <2>1. pc = "events" /\ Dispatch(d, e) /\ UNCHANGED unlisted
    BY <1>2 DEF EventStarted, EventStartedNull, EventRemovesVm, EventChangesState,
                EventIgnored, InCallback, initVars
  <2>2. StoppedAreGone'
    BY <2>1, HeadTailProperties DEF Dispatch, StoppedAreGone, HostTypeOK
  <2>3. Listens'
    BY <1>2, <2>1 DEF Listens, Dispatch, DeadPc, EventStarted, EventStartedNull,
                      EventRemovesVm, EventChangesState, EventIgnored, InCallback
  <2>4. \A x \in Dom : Active(x)' <=> Active(x)
    BY <2>1 DEF Dispatch, Active
  <2>5. \A x \in ActiveDoms \ unlisted : x \in vms \/ Pending(x, "STARTED")
    BY <2>1 DEF NoVmMissed, LoopPc
  <2>6. \A x \in Dom : Pending(x, "STARTED") /\ (x # d \/ e # "STARTED")
                        => Pending(x, "STARTED")'
    BY <2>1, StaysPending DEF Event
  <2>7. e = "STOPPED" => ~Active(d)
    BY <2>1 DEF Dispatch, StoppedAreGone, Active, HostTypeOK
  <2>8. CASE EventStartedNull(d)
    BY <2>2, <2>3, <2>8 DEF EventStartedNull, NoVmMissed, LoopPc
  <2>9. CASE EventStarted(d)
    <3>1. vms' = vms \cup {d} /\ pc' = "events"
      BY <2>1, <2>9 DEF EventStarted, set_vm_info
    <3> QED
      BY <2>1, <2>2, <2>3, <2>4, <2>5, <2>6, <3>1 DEF NoVmMissed, ActiveDoms
  <2>10. CASE EventRemovesVm(d, e)
    <3>1. vms' = vms \ {d} /\ e = "STOPPED" /\ pc' = "events"
      BY <2>1, <2>10 DEF EventRemovesVm, remove_vm, TurnedOff
    <3> QED
      BY <2>1, <2>2, <2>3, <2>4, <2>5, <2>6, <2>7, <3>1 DEF NoVmMissed, ActiveDoms
  <2>11. CASE EventChangesState(d, e) \/ EventIgnored(d, e)
    <3>1. vms' = vms /\ e # "STARTED" /\ pc' = "events"
      BY <2>1, <2>11 DEF EventChangesState, EventIgnored, HandledEvents, mapVars
    <3> QED
      BY <2>1, <2>2, <2>3, <2>4, <2>5, <2>6, <3>1 DEF NoVmMissed, ActiveDoms
  <2> QED
    BY <1>2, <2>8, <2>9, <2>10, <2>11
<1>3. CASE PassNext
  <2>1. /\ UNCHANGED <<vms, unlisted>>
        /\ UNCHANGED <<phase, listening, events>>
        /\ pc \in LoopPc
    BY <1>3 DEF PassNext, EventLoopReturns, RefreshVm, RefreshDone, Schedule,
                MonitorThrows, ScheduleHomeless, PerformSkip, PerformPinFails, PerformPin,
                PerformDone, PinVcpu, hostVars, mapVars, initVars, LoopPc
  <2> QED
    BY <2>1 DEF LoopPc, DeadPc, StoppedAreGone, Listens, NoVmMissed, Active, ActiveDoms,
                Pending
<1>4. CASE HostStep
  <2>1. UNCHANGED <<pc, vms, unlisted, todo>> /\ pc \notin DeadPc
    BY <1>4 DEF HostStep, mapVars, initVars
  <2>2. StoppedAreGone' /\ Listens'
    BY <1>4, <2>1, HostAnnounces DEF HostStep, Listens
  <2>3. CASE pc \in LoopPc \cup {"initvm"}
    <3>1. listening
      BY <2>3 DEF Listens, LoopPc, DeadPc
    <3> QED
      BY <1>4, <2>1, <2>2, <2>3, <3>1, HostAnnounces DEF HostStep, NoVmMissed, ActiveDoms
  <2> QED
    BY <2>1, <2>2, <2>3 DEF NoVmMissed
<1>5. CASE UNCHANGED vars
  BY <1>5 DEF vars, hostVars, mapVars, initVars, StoppedAreGone, Listens, NoVmMissed,
              Active, ActiveDoms, Pending
<1> QED
  BY <1>1, <1>2, <1>3, <1>4, <1>5 DEF Next, CallbackNext, Event

\* From the listing on every active domain, but for those that already ran then
\* and virConnectListDomains did not return, is known to the daemon, about to
\* be visited, or announced in the queue: registering before listing leaves no
\* gap, and a removal never hits an active domain.
THEOREM EveryVmWatched == Spec => []NoVmMissed
<1>1. Init => Watched
  BY DEF Init, HostInit, Watched, StoppedAreGone, Listens, NoVmMissed, LoopPc
<1>2. TypeOK /\ TypeOK' /\ Watched /\ [Next]_vars => Watched'
  BY WatchedStep
<1>3. Watched => NoVmMissed
  BY DEF Watched
<1> QED
  BY <1>1, <1>2, <1>3, TypeCorrect, PTL DEF Spec

-----------------------------------------------------------------------------
(***************************************************************************)
(* The daemon implements the registry.  A step that forgets a VM answers a *)
(* STOPPED event, which by StoppedAreGone is about an ended domain; a step *)
(* that learns of one has just looked it up.                               *)
(***************************************************************************)
Ended == {d \in Dom : phase[d] = "gone"}

\* The host's steps begin a domain, end one, or leave all three sets alone.
LEMMA HostStepsRegistry ==
  ASSUME TypeOK, HostStep
  PROVE  Registry!RegistryNext \/ UNCHANGED <<ActiveDoms, Ended, vms>>
<1> USE DEF TypeOK, HostTypeOK
<1>1. UNCHANGED vms /\ HostNext
  BY DEF HostStep, mapVars
<1>2. ASSUME NEW d \in Dom, DomainStart(d)
      PROVE  Registry!Begin(d)
  BY <1>1, <1>2 DEF DomainStart, Registry!Begin, ActiveDoms, Active
<1>3. ASSUME NEW d \in Dom, DomainEnd(d)
      PROVE  Registry!End(d)
  BY <1>1, <1>3 DEF DomainEnd, Registry!End, ActiveDoms, Active
<1>4. ASSUME NEW d \in Dom, NEW from, NEW to, NEW e, Become(d, from, to, e),
             from \subseteq {"running", "paused", "asleep"},
             to \in {"running", "paused", "asleep", "halting"}
      PROVE  UNCHANGED <<ActiveDoms, Ended>>
  <2>1. phase' = [phase EXCEPT ![d] = to] /\ phase[d] \in from
    BY <1>4 DEF Become
  <2> QED
    BY <1>4, <2>1 DEF ActiveDoms, Active, Ended
<1>5. ASSUME NEW d \in Dom,
             \/ DomainSuspend(d) \/ DomainResume(d) \/ DomainPMSuspend(d)
             \/ DomainWakeup(d)
             \/ DomainHalt(d, "SHUTDOWN") \/ DomainHalt(d, "CRASHED")
      PROVE  UNCHANGED <<ActiveDoms, Ended>>
  BY <1>4, <1>5 DEF DomainSuspend, DomainResume, DomainPMSuspend, DomainWakeup, DomainHalt
<1>6. ASSUME NEW d \in Dom, SchedulerMove(d)
      PROVE  UNCHANGED <<ActiveDoms, Ended>>
  BY <1>6 DEF SchedulerMove, ActiveDoms, Active, Ended
<1> QED
  BY <1>1, <1>2, <1>3, <1>5, <1>6 DEF HostNext, Registry!RegistryNext

LEMMA RegistryStep ==
  ASSUME TypeOK, Watched, [Next]_vars
  PROVE  Registry!RegistryNext \/ UNCHANGED <<ActiveDoms, Ended, vms>>
<1> USE DEF TypeOK, HostTypeOK, Watched
<1>1. CASE InitNext
  <2>1. CASE \/ RegisterCallback \/ NumOfDomains \/ NumOfDomainsFails
             \/ ListDomains \/ ListDomainsFails \/ InitDone \/ InitFails
    BY <2>1 DEF RegisterCallback, NumOfDomains, NumOfDomainsFails, ListDomains,
                ListDomainsFails, VisitOnly, InitDone, InitFails, Register,
                hostVars, mapVars, ActiveDoms, Active, Ended
  <2>2. ASSUME NEW d \in Dom, InitVm(d)
        PROVE  Registry!Learn(d) \/ UNCHANGED <<ActiveDoms, Ended, vms>>
    BY <2>2 DEF InitVm, set_vm_info, hostVars, ActiveDoms, Active, Ended, Registry!Learn
  <2>3. ASSUME NEW d \in Dom, InitVmNull(d)
        PROVE  UNCHANGED <<ActiveDoms, Ended, vms>>
    BY <2>3 DEF InitVmNull, hostVars, mapVars, ActiveDoms, Active, Ended
  <2> QED
    BY <1>1, <2>1, <2>2, <2>3 DEF InitNext, Registry!RegistryNext
<1>2. ASSUME NEW d \in Dom, NEW e \in Event,
             \/ (EventStarted(d) \/ EventStartedNull(d)) /\ e = "STARTED"
             \/ EventRemovesVm(d, e) \/ EventChangesState(d, e) \/ EventIgnored(d, e)
      PROVE  Registry!RegistryNext \/ UNCHANGED <<ActiveDoms, Ended, vms>>
  <2>1. Dispatch(d, e)
    BY <1>2 DEF EventStarted, EventStartedNull, EventRemovesVm, EventChangesState,
                EventIgnored, InCallback
  <2>2. UNCHANGED phase
    BY <2>1 DEF Dispatch
  <2>3. UNCHANGED <<ActiveDoms, Ended>>
    BY <2>2 DEF ActiveDoms, Active, Ended
  <2>4. CASE EventStarted(d)
    <3>1. d \in ActiveDoms /\ vms' = vms \cup {d}
      BY <2>4 DEF EventStarted, set_vm_info, ActiveDoms
    <3>2. d \notin vms => Registry!Learn(d)
      BY <2>3, <3>1 DEF Registry!Learn, Ended
    <3> QED
      BY <2>3, <3>1, <3>2 DEF Registry!RegistryNext
  <2>5. CASE EventRemovesVm(d, e)
    <3>1. e = "STOPPED" /\ d \in vms /\ vms' = vms \ {d}
      BY <2>5 DEF EventRemovesVm, TurnedOff, remove_vm
    <3>2. phase[d] = "gone"
      <4>1. Len(events) >= 1 /\ events[1].dom = d /\ events[1].event = "STOPPED"
        BY <2>1, <3>1, HeadTailProperties DEF Dispatch
      <4> QED
        BY <4>1 DEF StoppedAreGone
    <3>3. Registry!Forget(d)
      BY <2>3, <3>1, <3>2 DEF Registry!Forget, Ended
    <3> QED
      BY <3>3 DEF Registry!RegistryNext
  <2>6. CASE EventStartedNull(d) \/ EventChangesState(d, e) \/ EventIgnored(d, e)
    BY <2>3, <2>6 DEF EventStartedNull, EventChangesState, EventIgnored, mapVars
  <2> QED
    BY <1>2, <2>4, <2>5, <2>6
<1>3. CASE PassNext
  <2>1. UNCHANGED <<phase, vms>>
    BY <1>3 DEF PassNext, EventLoopReturns, RefreshVm, RefreshDone, Schedule,
                MonitorThrows, ScheduleHomeless, PerformSkip, PerformPinFails, PerformPin,
                PerformDone, PinVcpu, hostVars, mapVars
  <2> QED
    BY <2>1 DEF ActiveDoms, Active, Ended
<1>4. CASE HostStep
  BY <1>4, HostStepsRegistry
<1>5. CASE UNCHANGED vars
  BY <1>5 DEF vars, hostVars, mapVars, ActiveDoms, Active, Ended
<1> QED
  BY <1>1, <1>2, <1>3, <1>4, <1>5 DEF Next, CallbackNext, Event

\* Every behaviour of the daemon is one of the registry: a domain becomes known
\* only while it is alive, and is forgotten only after its end.
THEOREM DaemonImplementsRegistry == Spec => ImplementsRegistry
<1>1. Init => Registry!RegistryInit
  BY DEF Init, HostInit, Registry!RegistryInit, ActiveDoms
<1>2. TypeOK /\ Watched /\ [Next]_vars => [Registry!RegistryNext]_(Registry!registryVars)
  BY RegistryStep DEF Registry!registryVars, Ended
<1>3. Init => Watched
  BY DEF Init, HostInit, Watched, StoppedAreGone, Listens, NoVmMissed, LoopPc
<1>4. TypeOK /\ TypeOK' /\ Watched /\ [Next]_vars => Watched'
  BY WatchedStep
<1> QED
  BY <1>1, <1>2, <1>3, <1>4, TypeCorrect, PTL
     DEF Spec, ImplementsRegistry, Registry!RegistrySpec

=============================================================================

------------------------------- MODULE Nuiod -------------------------------
(***************************************************************************)
(* The daemon (src/Nuiod.cpp): start-up, then passes of its main loop      *)
(*                                                                         *)
(*   events -> refresh -> (monitor) -> schedule -> perform -> events ...   *)
(*                                                                         *)
(* The main thread runs alone, but every libvirt call is a point at which  *)
(* domains start, stop and move, so each such call is a step of its own    *)
(* and the host (Libvirt.tla) may act between any two.                     *)
(*                                                                         *)
(* std::map becomes a total function: cpu_vm_mapping[c] = NoVM is a        *)
(* missing key; vm_infos_map has the keys `vms', and its fields are the    *)
(* functions real_cpu_no and vm_event_state and the set homeless.          *)
(***************************************************************************)
EXTENDS Libvirt, ScheduleStrategy

CONSTANT NodeOf    \* cpu_node_mapping, filled by init_numa_info and constant

ASSUME NodeOfAssumption == NodeOf \in [Cpu -> Node]

NoVM == -1

VARIABLES
  pc,              \* where the main thread is
  vms,             \* the keys of vm_infos_map
  real_cpu_no,     \* VM_info.real_cpu_no, NoCpu if not known
  vm_event_state,  \* VM_info.vm_event_state
  homeless,        \* VMs whose mem_main_node_id was never assigned
  cpu_vm_mapping,  \* cpu number -> VM id
  dom_num,         \* size of the running_dom_ids array during init_vminfo
  todo,            \* VMs the loop of init_vminfo or of refresh still visits
  failed,          \* has some set_vm_info of init_vminfo returned -1?
  acts,            \* decisions perform has yet to handle
  placed,          \* history: where this pass pinned each VM, or NoCpu
  reinit,          \* history: VMs whose VM_info a STARTED event overwrote
  unlisted         \* history: running VMs virConnectListDomains did not return

mapVars == <<vms, real_cpu_no, vm_event_state, homeless, cpu_vm_mapping, reinit>>
initVars == <<dom_num, failed, unlisted>>
passVars == <<acts, placed>>
vars == <<hostVars, pc, mapVars, initVars, passVars, todo>>

InitPc == {"connect", "count", "list", "initvm"}
LoopPc == {"events", "refresh", "schedule", "perform"}
DeadPc == {"exited", "crashed"}

VmEventState == Event \cup {"UNDEFINED"}

TypeOK ==
  /\ HostTypeOK
  /\ pc \in InitPc \cup LoopPc \cup DeadPc
  /\ vms \subseteq Dom
  /\ real_cpu_no \in [Dom -> Cpu \cup {NoCpu}]
  /\ vm_event_state \in [Dom -> VmEventState]
  /\ homeless \subseteq vms
  /\ cpu_vm_mapping \in [Cpu -> Dom \cup {NoVM}]
  /\ dom_num \in Nat
  /\ todo \subseteq Dom
  /\ pc = "refresh" => todo \subseteq vms
  /\ failed \in BOOLEAN
  /\ acts \in Schedules(vms)
  /\ pc # "perform" => acts = {} /\ placed = [d \in Dom |-> NoCpu]
  /\ placed \in [Dom -> Cpu \cup {NoCpu}]
  /\ reinit \subseteq Dom
  /\ unlisted \subseteq Dom

Init ==
  /\ HostInit
  /\ pc = "connect"
  /\ vms = {}
  /\ real_cpu_no = [d \in Dom |-> NoCpu]
  /\ vm_event_state = [d \in Dom |-> "UNDEFINED"]
  /\ homeless = {}
  /\ cpu_vm_mapping = [c \in Cpu |-> NoVM]
  /\ dom_num = 0
  /\ todo = {}
  /\ failed = FALSE
  /\ acts = {}
  /\ placed = [d \in Dom |-> NoCpu]
  /\ reinit = {}
  /\ unlisted = {}

-----------------------------------------------------------------------------
(***************************************************************************)
(* The two maps.                                                           *)
(***************************************************************************)

\* std::map::insert keeps the entry it finds: a cpu that already belongs to
\* another VM stays with that VM.
MapInsert(m, c, d) ==
  IF c = NoCpu \/ m[c] # NoVM THEN m ELSE [m EXCEPT ![c] = d]

\* Mutant: the old entry is not erased.
EraseOwn_Never(m, d) == m

\* Mutant: the old entry is erased even if it is another VM's by now.
EraseOwn_Any(m, d) ==
  IF real_cpu_no[d] # NoCpu THEN [m EXCEPT ![real_cpu_no[d]] = NoVM] ELSE m

\* Erase the entry of d's recorded cpu, unless it is another VM's by now.
EraseOwn(m, d) ==
  IF real_cpu_no[d] # NoCpu /\ m[real_cpu_no[d]] = d
    THEN [m EXCEPT ![real_cpu_no[d]] = NoVM]
    ELSE m

change_cpu_vm_mapping(d, c) ==
  /\ cpu_vm_mapping' = [EraseOwn(cpu_vm_mapping, d) EXCEPT ![c] = d]
  /\ real_cpu_no' = [real_cpu_no EXCEPT ![d] = c]

\* A fresh VM_info for d: cpu is what virDomainGetVcpus said, homed whether
\* numa_maps showed any page, state the event state it is left with.
set_vm_info(d, cpu, homed, state) ==
  /\ vms' = vms \cup {d}
  /\ real_cpu_no' = [real_cpu_no EXCEPT ![d] = cpu]
  /\ cpu_vm_mapping' = MapInsert(cpu_vm_mapping, cpu, d)
  /\ vm_event_state' = [vm_event_state EXCEPT ![d] = state]
  /\ homeless' = IF homed THEN homeless \ {d} ELSE homeless \cup {d}
  /\ reinit' = IF d \in vms THEN reinit \cup {d} ELSE reinit

\* Mutant: part of a removed VM's data is left behind.
remove_vm_Partly(d) ==
  /\ cpu_vm_mapping' = EraseOwn(cpu_vm_mapping, d)
  /\ vms' = vms \ {d}
  /\ UNCHANGED <<homeless, real_cpu_no, vm_event_state, reinit>>

remove_vm(d) ==
  /\ cpu_vm_mapping' = EraseOwn(cpu_vm_mapping, d)
  /\ vms' = vms \ {d}
  /\ homeless' = homeless \ {d}
  /\ real_cpu_no' = [real_cpu_no EXCEPT ![d] = NoCpu]
  /\ vm_event_state' = [vm_event_state EXCEPT ![d] = "UNDEFINED"]
  /\ UNCHANGED reinit

-----------------------------------------------------------------------------
(***************************************************************************)
(* init and init_vminfo                                                    *)
(***************************************************************************)

\* Mutant: the return value of the registration is stored, no callback is set.
RegisterCallback_Unset ==
  /\ pc = "connect"
  /\ pc' = "count"
  /\ UNCHANGED <<hostVars, mapVars, initVars, passVars, todo>>

\* The callback is registered before the domains are listed.
RegisterCallback ==
  /\ pc = "connect"
  /\ Register
  /\ pc' = "count"
  /\ UNCHANGED <<mapVars, initVars, passVars, todo>>

NumOfDomains ==
  /\ pc = "count"
  /\ dom_num' = Cardinality(ActiveDoms)
  /\ pc' = "list"
  /\ UNCHANGED <<hostVars, mapVars, failed, unlisted, passVars, todo>>

\* virConnectNumOfDomains returns -1, and new int[-1] throws.
NumOfDomainsFails ==
  /\ pc = "count"
  /\ pc' = "crashed"
  /\ UNCHANGED <<hostVars, mapVars, initVars, passVars, todo>>

\* The loop of init_vminfo will visit the domains S.  The daemon hears of the
\* others only if their STARTED event is still to come.
VisitOnly(S) ==
  /\ pc = "list"
  /\ todo' = S
  /\ unlisted' = {d \in ActiveDoms \ S : ~Pending(d, "STARTED")}
  /\ dom_num' = 0
  /\ pc' = "initvm"
  /\ UNCHANGED <<hostVars, mapVars, failed, passVars>>

\* virConnectListDomains fills at most dom_num entries, in no set order.
ListDomains ==
  \E S \in SUBSET ActiveDoms :
    /\ IF Cardinality(ActiveDoms) <= dom_num
         THEN S = ActiveDoms
         ELSE Cardinality(S) = dom_num
    /\ VisitOnly(S)

\* virConnectListDomains returns -1: the loop runs zero times, nothing counts
\* as failed, and init_vminfo returns 0.
ListDomainsFails == VisitOnly({})

\* Mutant: a failed look-up leaves the record in the map.
InitVm_Unchecked(d) ==
  /\ pc = "initvm"
  /\ d \in todo
  /\ set_vm_info(d, vcpu[d], TRUE, "UNDEFINED")
  /\ todo' = todo \ {d}
  /\ UNCHANGED <<hostVars, pc, failed, dom_num, unlisted, passVars>>

\* One listed domain; ok is false if some other part of its VM_info (name,
\* pid file, domain xml) could not be set.
InitVm(d) ==
  /\ pc = "initvm"
  /\ d \in todo
  /\ Active(d)
  /\ \E cpu \in VcpuAnswers(d), homed, ok \in BOOLEAN :
       /\ set_vm_info(d, cpu, homed, "UNDEFINED")
       /\ failed' = (failed \/ cpu = NoCpu \/ ~ok)
  /\ todo' = todo \ {d}
  /\ UNCHANGED <<hostVars, pc, dom_num, unlisted, passVars>>

\* virDomainLookupByID returns NULL, as it must for a domain that ended after
\* it was listed; so does virDomainGetName, and set_vm_info passes the NULL to
\* strlen.
InitVmNull(d) ==
  /\ pc = "initvm"
  /\ d \in todo
  /\ pc' = "crashed"
  /\ UNCHANGED <<hostVars, mapVars, initVars, passVars, todo>>

InitDone ==
  /\ pc = "initvm"
  /\ todo = {}
  /\ ~failed
  /\ pc' = "events"
  /\ UNCHANGED <<hostVars, mapVars, initVars, passVars, todo>>

\* set_vm_info failed for some VM, or another part of init did, before the
\* registration or after the last VM: start calls exit(1).
InitFails ==
  /\ pc = "connect" \/ (pc = "initvm" /\ todo = {})
  /\ pc' = "exited"
  /\ UNCHANGED <<hostVars, mapVars, initVars, passVars, todo>>

-----------------------------------------------------------------------------
(***************************************************************************)
(* virVMEventCallBack, called from within virEventRunDefaultImpl           *)
(***************************************************************************)
HandledEvents == {"SUSPENDED", "RESUMED", "STOPPED", "SHUTDOWN", "CRASHED"}

InCallback(d, e) ==
  /\ pc = "events"
  /\ Dispatch(d, e)
  /\ UNCHANGED <<initVars, passVars, todo>>

EventStarted(d) ==
  /\ InCallback(d, "STARTED")
  /\ Active(d)
  /\ \E cpu \in VcpuAnswers(d), homed \in BOOLEAN :
       set_vm_info(d, cpu, homed, "STARTED")
  /\ UNCHANGED pc

\* The look-up returns NULL, as it must for a domain that ended before its
\* event was dispatched.
EventStartedNull(d) ==
  /\ InCallback(d, "STARTED")
  /\ pc' = "crashed"
  /\ UNCHANGED mapVars

\* Mutant: the first event of a shutdown already removes the VM.
TurnedOff_Early(d, e) == e \in {"SHUTDOWN", "STOPPED"}

\* Mutant: the state that a clean shutdown leaves is not considered.
TurnedOff_StoppedOnly(d, e) == e = "STOPPED" /\ vm_event_state[d] = "STOPPED"

TurnedOff(d, e) ==
  e = "STOPPED" /\ vm_event_state[d] \in {"SHUTDOWN", "STOPPED"}

EventRemovesVm(d, e) ==
  /\ InCallback(d, e)
  /\ e \in HandledEvents
  /\ d \in vms
  /\ TurnedOff(d, e)
  /\ remove_vm(d)
  /\ UNCHANGED pc

EventChangesState(d, e) ==
  /\ InCallback(d, e)
  /\ e \in HandledEvents
  /\ d \in vms
  /\ ~TurnedOff(d, e)
  /\ vm_event_state' = [vm_event_state EXCEPT ![d] = e]
  /\ UNCHANGED <<pc, vms, real_cpu_no, homeless, cpu_vm_mapping, reinit>>

\* An unknown VM, or an event the callback does not handle.
EventIgnored(d, e) ==
  /\ InCallback(d, e)
  /\ e # "STARTED"
  /\ e \in HandledEvents => d \notin vms
  /\ UNCHANGED <<pc, mapVars>>

\* virEventRunDefaultImpl returns; refresh_cpu_mapping starts.  It may leave
\* events undelivered: those it only just read are dispatched by a later call.
EventLoopReturns ==
  /\ pc = "events"
  /\ pc' = "refresh"
  /\ todo' = vms
  /\ UNCHANGED <<hostVars, mapVars, initVars, passVars>>

-----------------------------------------------------------------------------
(***************************************************************************)
(* One pass: refresh_cpu_mapping, schedule, perform                        *)
(***************************************************************************)

\* One VM of refresh_cpu_mapping; the map is walked in ascending key order.
RefreshVm(d) ==
  /\ pc = "refresh"
  /\ d \in todo
  /\ \A e \in todo : d <= e
  /\ \E ret \in VcpuAnswers(d) :
       IF ret = NoCpu \/ ret = real_cpu_no[d]
         THEN UNCHANGED <<cpu_vm_mapping, real_cpu_no>>
         ELSE change_cpu_vm_mapping(d, ret)
  /\ todo' = todo \ {d}
  /\ UNCHANGED <<hostVars, pc, vms, vm_event_state, homeless, reinit, initVars,
                 passVars>>

RefreshDone ==
  /\ pc = "refresh"
  /\ todo = {}
  /\ pc' = "schedule"
  /\ UNCHANGED <<hostVars, mapVars, initVars, passVars, todo>>

\* In between monitor runs.  Its samples reach the strategy only (IOMonitor,
\* CpuMonitor), but monitorPerfEvent throws when its popen fails, and nothing
\* up to main catches that.
MonitorThrows ==
  /\ pc = "refresh"
  /\ todo = {}
  /\ vms # {}
  /\ pc' = "crashed"
  /\ UNCHANGED <<hostVars, mapVars, initVars, passVars, todo>>

\* strategy->schedule, as its interface leaves it.
Schedule ==
  /\ pc = "schedule"
  /\ acts' \in Schedules(vms)
  /\ pc' = "perform"
  /\ UNCHANGED <<hostVars, mapVars, initVars, placed, todo>>

\* The strategy indexes its node lists with an unassigned mem_main_node_id.
ScheduleHomeless ==
  /\ pc = "schedule"
  /\ homeless # {}
  /\ pc' = "crashed"
  /\ UNCHANGED <<hostVars, mapVars, initVars, passVars, todo>>

\* Mutant: cpu_node_mapping was never filled, operator[] reads 0.
CurrentNode_Unfilled(d) == 0

\* cpu_node_mapping[-1] is created by operator[] and reads 0.
CurrentNode(d) == IF real_cpu_no[d] = NoCpu THEN 0 ELSE NodeOf[real_cpu_no[d]]

\* Mutant: any cpu of the node is taken for free.
FreeCpus_Any(n) == {c \in Cpu : NodeOf[c] = n}

\* Cpus of the node which cpu_vm_mapping gives to no VM.  perform takes the
\* least loaded one; loads are left open here, so it takes any.
FreeCpus(n) == {c \in Cpu : NodeOf[c] = n /\ cpu_vm_mapping[c] = NoVM}

\* The VM already is on the node of its decision, or no cpu there is free.
PerformSkip(a) ==
  /\ pc = "perform"
  /\ a \in acts
  /\ CurrentNode(a.dom) = a.node \/ FreeCpus(a.node) = {}
  /\ acts' = acts \ {a}
  /\ UNCHANGED <<hostVars, pc, mapVars, initVars, placed, todo>>

\* virDomainPinVcpu may fail at any time, and fails for a domain that ended.
\* A pass that could not read /proc/stat knows no cpus and ends the same way.
PerformPinFails(a) ==
  /\ pc = "perform"
  /\ a \in acts
  /\ CurrentNode(a.dom) # a.node
  /\ FreeCpus(a.node) # {}
  /\ acts' = acts \ {a}
  /\ UNCHANGED <<hostVars, pc, mapVars, initVars, placed, todo>>

PerformPin(a) ==
  /\ pc = "perform"
  /\ a \in acts
  /\ CurrentNode(a.dom) # a.node
  /\ \E c \in FreeCpus(a.node) :
       /\ PinVcpu(a.dom, c)
       /\ change_cpu_vm_mapping(a.dom, c)
       /\ placed' = [placed EXCEPT ![a.dom] = c]
  /\ acts' = acts \ {a}
  /\ UNCHANGED <<pc, vms, vm_event_state, homeless, reinit, initVars, todo>>

\* perform returns, the daemon sleeps, the next pass begins.
PerformDone ==
  /\ pc = "perform"
  /\ acts = {}
  /\ pc' = "events"
  /\ placed' = [d \in Dom |-> NoCpu]
  /\ UNCHANGED <<hostVars, mapVars, initVars, acts, todo>>

-----------------------------------------------------------------------------
InitNext ==
  \/ RegisterCallback
  \/ NumOfDomains
  \/ NumOfDomainsFails
  \/ ListDomains
  \/ ListDomainsFails
  \/ \E d \in Dom : InitVm(d) \/ InitVmNull(d)
  \/ InitDone
  \/ InitFails

CallbackNext ==
  \E d \in Dom :
    \/ EventStarted(d)
    \/ EventStartedNull(d)
    \/ \E e \in Event :
         EventRemovesVm(d, e) \/ EventChangesState(d, e) \/ EventIgnored(d, e)

PassNext ==
  \/ EventLoopReturns
  \/ \E d \in Dom : RefreshVm(d)
  \/ RefreshDone
  \/ MonitorThrows
  \/ Schedule
  \/ ScheduleHomeless
  \/ \E a \in acts : PerformSkip(a) \/ PerformPinFails(a) \/ PerformPin(a)
  \/ PerformDone

\* What happens on the host after the daemon's end is of no interest here.
HostStep ==
  /\ pc \notin DeadPc
  /\ HostNext
  /\ UNCHANGED <<pc, mapVars, initVars, passVars, todo>>

Next == InitNext \/ CallbackNext \/ PassNext \/ HostStep

Spec == Init /\ [][Next]_vars

(***************************************************************************)
(* The main loop never waits for anything but libvirt, and libvirt         *)
(* dispatches an event it has read on its next iteration at the latest:    *)
(* the callback's turn keeps coming back, without staying enabled.         *)
(***************************************************************************)
FairSpec ==
  /\ Spec
  /\ WF_vars(InitNext)
  /\ WF_vars(PassNext)
  /\ SF_vars(CallbackNext)

=============================================================================

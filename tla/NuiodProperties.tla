-------------------------- MODULE NuiodProperties --------------------------
(***************************************************************************)
(* What the daemon's two maps promise about the host, and what they do     *)
(* not.                                                                    *)
(***************************************************************************)
EXTENDS Nuiod

\* cpu_vm_mapping and VM_info.real_cpu_no agree: an entry c -> d means that d
\* is a known VM recorded on cpu c.  Inserting, overwriting, moving and
\* removing in any order keep this, except for the entries of a VM whose
\* VM_info a second STARTED event replaced without erasing its old entry.
MappingConsistent ==
  \A c \in Cpu :
    cpu_vm_mapping[c] \notin reinit \cup {NoVM} =>
      /\ cpu_vm_mapping[c] \in vms
      /\ real_cpu_no[cpu_vm_mapping[c]] = c

\* No running VM is missed: registering the callback before listing the
\* domains leaves no gap, so from the listing on every active domain is
\* known, about to be visited, or announced by a STARTED event still to be
\* delivered.  Removal needs two events and never hits a VM that still runs.
\* Exempt are the domains virConnectListDomains did not return, because the
\* array was too small by then or because it failed: see InitReportsFailure.
NoVmMissed ==
  pc \in LoopPc \cup {"initvm"} =>
    \A d \in ActiveDoms \ unlisted :
      \/ d \in vms
      \/ pc = "initvm" /\ d \in todo
      \/ Pending(d, "STARTED")

\* Within one pass no decision undoes another: each VM that perform pinned
\* still owns its cpu in cpu_vm_mapping when the pass ends, so two VMs of a
\* pass never share a cpu.
PassKeepsPlacements ==
  pc = "perform" =>
    \A d \in Dom :
      placed[d] # NoCpu =>
        /\ real_cpu_no[d] = placed[d]
        /\ cpu_vm_mapping[placed[d]] = d
        /\ Active(d) => affinity[d] = {placed[d]}

\* The "Attention!!!" of change_cpu_vm_mapping and of the callback: a VM's
\* entry disappears only when that VM itself moves or is removed.  Other VMs
\* that were recorded on the cpu before leave it alone.
ErasesOwnEntry ==
  [][\A c \in Cpu, d \in vms :
       cpu_vm_mapping[c] = d /\ cpu_vm_mapping'[c] = NoVM =>
         d \notin vms' \/ real_cpu_no'[d] # c]_vars

\* A VM whose guest shut down is eventually forgotten: the STOPPED event that
\* follows its SHUTDOWN event removes it (unless the daemon ends first).
ShutdownForgotten ==
  \A d \in Dom :
    (d \in vms /\ vm_event_state[d] = "SHUTDOWN" /\ phase[d] = "gone")
      ~> (d \notin vms \/ pc \in DeadPc)

\* No active domain stays unknown for good: the callback or init_vminfo learns
\* of it, unless it ends first, the daemon does, or the listing left it out.
ActiveLearned ==
  \A d \in Dom :
    (Active(d) /\ pc \in LoopPc /\ d \notin unlisted)
      ~> (d \in vms \/ ~Active(d) \/ pc \in DeadPc)

Registry ==
  INSTANCE VmRegistry WITH
    alive <- ActiveDoms,
    ended <- {d \in Dom : phase[d] = "gone"},
    known <- vms

\* The daemon implements the registry: whatever way a domain is noticed, it is
\* learnt of while it is alive, and remove_vm only ever hits one that ended,
\* however late its events are delivered.
ImplementsRegistry == Registry!RegistrySpec

-----------------------------------------------------------------------------
(***************************************************************************)
(* What comments of the code say and the code does not keep.               *)
(***************************************************************************)

\* Nuiod.h:96: vm_infos_map is "Containing all running vm": once all events
\* are delivered nothing else is in it.
OnlyRunningVms == pc \in LoopPc /\ events = <<>> => \A d \in vms : Active(d)

\* Nuiod.cpp:680: perform picks a "cpu which is not assigned to other VM".
PicksUnassignedCpu ==
  [][\A d \in Dom, c \in Cpu :
       placed[d] = NoCpu /\ placed'[d] = c =>
         \A e \in vms \ {d} : real_cpu_no[e] # c]_vars

\* Nuiod.cpp:335: init_vminfo returns "-1 if failed, 0 if succeed": failures of
\* libvirt are reported.  A domain that cannot be looked up does not end the
\* daemon, and with domains running that the listing left out, and no event
\* will announce, init_vminfo does not succeed.
InitReportsFailure ==
  [][pc = "initvm" => pc' # "crashed" /\ (pc' = "events" => unlisted = {})]_vars

=============================================================================

------------------------------ MODULE Libvirt ------------------------------
(***************************************************************************)
(* The host as the daemon meets it: the domains libvirt runs, the physical *)
(* cpu each domain's only vCPU last ran on, the affinity the daemon or     *)
(* libvirt gave it, and the lifecycle events libvirt has queued for the    *)
(* daemon's callback.  None of this is code of the repository; it is what  *)
(* Nuiod.cpp relies on when it calls virConnectListDomains,                *)
(* virDomainLookupByID, virDomainGetVcpus, virDomainPinVcpu and            *)
(* virEventRunDefaultImpl.                                                 *)
(***************************************************************************)
EXTENDS Integers, Sequences, FiniteSets

CONSTANTS
  Dom,         \* domain ids; libvirt hands out a fresh, larger one per start
  Cpu,         \* physical cpu numbers
  Happens,     \* bound: the kinds of lifecycle event that may occur
  MaxPending   \* bound on the events queued and not yet delivered

Event == {"STARTED", "SUSPENDED", "RESUMED", "SHUTDOWN", "STOPPED", "CRASHED",
          "PMSUSPENDED"}

ASSUME DomAssumption == Dom \subseteq Nat /\ IsFiniteSet(Dom)
ASSUME CpuAssumption == Cpu \subseteq Nat
ASSUME HappensAssumption == Happens \subseteq Event
ASSUME MaxPendingAssumption == MaxPending \in Nat \ {0}

NoCpu == -1    \* the -1 that virDomainGetVcpus' failure becomes

VARIABLES
  phase,       \* life of each domain: "off" before its start, "gone" after
  vcpu,        \* the physical cpu on which its vCPU last ran, if it lives
  affinity,    \* the physical cpus on which its vCPU may run
  listening,   \* has the daemon registered its event callback?
  events       \* events not yet delivered, oldest first

hostVars == <<phase, vcpu, affinity, listening, events>>

Phase == {"off", "running", "paused", "asleep", "halting", "gone"}

\* A domain libvirt lists, looks up by id, and answers for.
Active(d) == phase[d] \in {"running", "paused", "asleep", "halting"}

ActiveDoms == {d \in Dom : Active(d)}

\* Is an event e of domain d waiting for the callback?
Pending(d, e) == \E i \in 1..Len(events) : events[i] = [dom |-> d, event |-> e]

HostTypeOK ==
  /\ phase \in [Dom -> Phase]
  /\ vcpu \in [Dom -> Cpu \cup {NoCpu}]
  /\ affinity \in [Dom -> SUBSET Cpu]
  /\ listening \in BOOLEAN
  /\ events \in Seq([dom : Dom, event : Event])

HostInit ==
  /\ phase \in [Dom -> {"off", "running"}]
  /\ \A d, e \in Dom : d < e /\ phase[d] = "off" => phase[e] = "off"
  /\ vcpu \in [Dom -> Cpu \cup {NoCpu}]
  /\ \A d \in Dom : Active(d) <=> vcpu[d] # NoCpu
  /\ affinity = [d \in Dom |-> Cpu]
  /\ listening = FALSE
  /\ events = <<>>

-----------------------------------------------------------------------------
(***************************************************************************)
(* Domain lifecycle.  An event is queued only for a registered callback.   *)
(***************************************************************************)
Notify(d, e) ==
  /\ e \in Happens
  /\ Len(events) < MaxPending
  /\ events' = IF listening THEN Append(events, [dom |-> d, event |-> e])
                            ELSE events

Become(d, from, to, e) ==
  /\ phase[d] \in from
  /\ phase' = [phase EXCEPT ![d] = to]
  /\ Notify(d, e)
  /\ UNCHANGED <<vcpu, affinity, listening>>

\* A domain starts: libvirt gives it the next id, Linux places its vCPU.
DomainStart(d) ==
  /\ phase[d] = "off"
  /\ \A e \in Dom : e < d => phase[e] # "off"
  /\ phase' = [phase EXCEPT ![d] = "running"]
  /\ \E c \in Cpu : vcpu' = [vcpu EXCEPT ![d] = c]
  /\ Notify(d, "STARTED")
  /\ UNCHANGED <<affinity, listening>>

DomainSuspend(d) == Become(d, {"running"}, "paused", "SUSPENDED")

DomainResume(d) == Become(d, {"paused"}, "running", "RESUMED")

\* The guest suspends to RAM; its wakeup is reported as STARTED (WAKEUP).
DomainPMSuspend(d) == Become(d, {"running"}, "asleep", "PMSUSPENDED")

DomainWakeup(d) == Become(d, {"asleep"}, "running", "STARTED")

\* The guest powers off or panics; QEMU has not ended yet.
DomainHalt(d, e) == Become(d, {"running"}, "halting", e)

\* QEMU has ended: after a halt, or because the host destroyed the domain.
DomainEnd(d) ==
  /\ Active(d)
  /\ phase' = [phase EXCEPT ![d] = "gone"]
  /\ vcpu' = [vcpu EXCEPT ![d] = NoCpu]
  /\ affinity' = [affinity EXCEPT ![d] = Cpu]
  /\ Notify(d, "STOPPED")
  /\ UNCHANGED listening

\* The Linux scheduler runs the vCPU on some cpu of its affinity.
SchedulerMove(d) ==
  /\ phase[d] \in {"running", "halting"}
  /\ \E c \in affinity[d] : vcpu' = [vcpu EXCEPT ![d] = c]
  /\ UNCHANGED <<phase, affinity, listening, events>>

HostNext ==
  \E d \in Dom :
    \/ DomainStart(d)
    \/ DomainSuspend(d)
    \/ DomainResume(d)
    \/ DomainPMSuspend(d)
    \/ DomainWakeup(d)
    \/ DomainHalt(d, "SHUTDOWN")
    \/ DomainHalt(d, "CRASHED")
    \/ DomainEnd(d)
    \/ SchedulerMove(d)

-----------------------------------------------------------------------------
(***************************************************************************)
(* What the daemon's calls return or do.                                   *)
(***************************************************************************)

\* virDomainGetVcpus: the vCPU's cpu, or a failure (always one if inactive).
VcpuAnswers(d) == {vcpu[d], NoCpu}

\* virConnectDomainEventRegister.
Register ==
  /\ listening' = TRUE
  /\ UNCHANGED <<phase, vcpu, affinity, events>>

\* virDomainPinVcpu of an active domain; the vCPU moves when it next runs.
PinVcpu(d, c) ==
  /\ Active(d)
  /\ affinity' = [affinity EXCEPT ![d] = {c}]
  /\ UNCHANGED <<phase, vcpu, listening, events>>

\* The oldest event leaves libvirt's queue for the callback.
Dispatch(d, e) ==
  /\ events # <<>>
  /\ Head(events) = [dom |-> d, event |-> e]
  /\ events' = Tail(events)
  /\ UNCHANGED <<phase, vcpu, affinity, listening>>

=============================================================================

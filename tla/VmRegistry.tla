----------------------------- MODULE VmRegistry -----------------------------
(***************************************************************************)
(* What the daemon's vm_infos_map promises about the domains of the host,  *)
(* whatever events, look-ups and maps bring it about: a domain becomes     *)
(* known while it is alive, at most once, and is forgotten only after its  *)
(* end.  Nuiod implements this (NuiodProperties!ImplementsRegistry).       *)
(***************************************************************************)
CONSTANT Dom

VARIABLES
  alive,   \* domains that run on the host
  ended,   \* domains that ran once; an id is never used again
  known    \* keys of vm_infos_map

registryVars == <<alive, ended, known>>

RegistryInit ==
  /\ alive \subseteq Dom
  /\ ended = {}
  /\ known = {}

Begin(d) ==
  /\ d \notin alive \cup ended
  /\ alive' = alive \cup {d}
  /\ UNCHANGED <<ended, known>>

End(d) ==
  /\ d \in alive
  /\ alive' = alive \ {d}
  /\ ended' = ended \cup {d}
  /\ UNCHANGED known

Learn(d) ==
  /\ d \in alive \ known
  /\ known' = known \cup {d}
  /\ UNCHANGED <<alive, ended>>

Forget(d) ==
  /\ d \in known \cap ended
  /\ known' = known \ {d}
  /\ UNCHANGED <<alive, ended>>

RegistryNext == \E d \in Dom : Begin(d) \/ End(d) \/ Learn(d) \/ Forget(d)

RegistrySpec == RegistryInit /\ [][RegistryNext]_registryVars

=============================================================================

---------------------------- MODULE NumaLatency ----------------------------
(***************************************************************************)
(* Start-up of the daemon across restarts: Nuiod::init runs                *)
(* cal_numa_lat_thread beside its own work and joins it.  The thread takes *)
(* the latency matrix from /etc/nuiod.latency, or measures it and creates  *)
(* that file for the next start.  The process may end at any moment: init  *)
(* may fail while the thread works, or a signal may arrive.  The file      *)
(* stays as it was left.                                                   *)
(*                                                                         *)
(* numa_latency is written row by row, so its entries are numbered 1..N*N. *)
(***************************************************************************)
EXTENDS Integers, Sequences

CONSTANTS
  numa_number,   \* NUMA nodes of this host
  other_number,  \* those of the host that an older file was made on
  MaxBoots       \* bound on the starts of the daemon

ASSUME NumaNumberAssumption == numa_number \in Nat \ {0}
ASSUME OtherNumberAssumption == other_number \in Nat \ {0, numa_number}
ASSUME MaxBootsAssumption == MaxBoots \in Nat \ {0}

Entries == numa_number * numa_number

Entry == 1..Entries

\* What get_numa_latency returns: a latency, the 0 of a clock that was never
\* calibrated, the -1 of a failed measurement.
Result == {"latency", "zero", "failed"}

\* Or the content of a double that new[] handed out and nobody assigned.
Value == Result \cup {"garbage"}

\* The file: its first number (0 if none could be read), then its entries.
File == [num : Nat \cup {-1}, vals : Seq(Value)]

NoFile == [num |-> -1, vals |-> <<>>]
Empty == [num |-> 0, vals |-> <<>>]

VARIABLES
  disk,          \* /etc/nuiod.latency
  boots,
  main,          \* where the main thread is
  thread,        \* where cal_numa_lat_thread is
  numa_latency,
  measured,      \* entries measured so far in this boot
  buffer,        \* what the FILE opened for writing will hold once flushed
  misread        \* history: has this boot failed to read what the file holds?

vars == <<disk, boots, main, thread, numa_latency, measured, buffer, misread>>

TypeOK ==
  /\ disk \in File
  /\ boots \in 0..MaxBoots
  /\ main \in {"off", "init", "join", "running"}
  /\ thread \in {"none", "nodes", "open", "measure", "create", "write", "done", "failed"}
  /\ numa_latency \in [Entry -> Value]
  /\ measured \in 0..Entries
  /\ buffer \in File
  /\ misread \in BOOLEAN

\* A file that was written to its end on a host with n nodes.
Written(n) == [num |-> n, vals |-> [i \in 1..(n * n) |-> "latency"]]

\* Before the first start: no file, one from a host with other nodes, or one
\* that this host has kept from earlier.
Init ==
  /\ disk \in {NoFile, Written(other_number), Written(numa_number)}
  /\ boots = 0
  /\ main = "off"
  /\ thread = "none"
  /\ numa_latency = [e \in Entry |-> "garbage"]
  /\ measured = 0
  /\ buffer = Empty
  /\ misread = FALSE

-----------------------------------------------------------------------------
(***************************************************************************)
(* The main thread: start and init                                         *)
(***************************************************************************)
Start ==
  /\ main = "off"
  /\ boots < MaxBoots
  /\ boots' = boots + 1
  /\ main' = "init"
  /\ thread' = "nodes"
  /\ UNCHANGED <<disk, numa_latency, measured, buffer, misread>>

\* parse_conf, the callbacks, init_vminfo, init_cpu_monitor, netdev_numanode.
InitSucceeds ==
  /\ main = "init"
  /\ main' = "join"
  /\ UNCHANGED <<disk, boots, thread, numa_latency, measured, buffer, misread>>

\* Mutant: the result of the thread is used without waiting for its end.
Join_NoWait ==
  /\ main = "join"
  /\ main' = "running"
  /\ UNCHANGED <<disk, boots, thread, numa_latency, measured, buffer, misread>>

Join ==
  /\ main = "join"
  /\ thread = "done"
  /\ main' = "running"
  /\ UNCHANGED <<disk, boots, thread, numa_latency, measured, buffer, misread>>

-----------------------------------------------------------------------------
(***************************************************************************)
(* The end of the process.  exit() flushes an open FILE, a kill does not.  *)
(***************************************************************************)
Ended ==
  /\ main' = "off"
  /\ thread' = "none"
  /\ numa_latency' = [e \in Entry |-> "garbage"]
  /\ measured' = 0
  /\ buffer' = Empty
  /\ misread' = FALSE
  /\ UNCHANGED boots

Exit ==
  /\ disk' = IF thread = "write" THEN buffer ELSE disk
  /\ Ended

\* Some step of init failed, or the thread did: start calls exit(1).
InitFails ==
  /\ main = "init" \/ (main = "join" /\ thread = "failed")
  /\ Exit

\* A signal whose handler get_numa_latency installed: sigint_handler exits.
SignalExits ==
  /\ thread \in {"measure", "create", "write"} \/ measured > 0
  /\ Exit

\* SIGKILL, or a signal without a handler.
Killed ==
  /\ main # "off"
  /\ UNCHANGED disk
  /\ Ended

-----------------------------------------------------------------------------
(***************************************************************************)
(* The thread: init_numa_info, init_numa_latency, cal_and_create_numa_lat  *)
(***************************************************************************)
GetNodeCpus ==
  /\ thread = "nodes"
  /\ thread' \in {"open", "failed"}
  /\ UNCHANGED <<disk, boots, main, numa_latency, measured, buffer, misread>>

\* The file is there and its first number is that of this host.
Matches(f) == f.num = numa_number

\* No fscanf is checked: an entry for which the file holds no more number, or
\* that an error keeps it from reading, stays unassigned.
ReadFile ==
  /\ thread = "open"
  /\ Matches(disk)
  /\ \E n \in 0..Len(disk.vals) :
       /\ numa_latency' =
            [e \in Entry |-> IF e <= n THEN disk.vals[e] ELSE numa_latency[e]]
       /\ misread' = (n < Len(disk.vals))
  /\ thread' = "done"
  /\ UNCHANGED <<disk, boots, main, measured, buffer>>

\* Mutant: the file is measured and written anew at every start.
NothingToRead_Always ==
  /\ thread = "open"
  /\ thread' = "measure"
  /\ UNCHANGED <<disk, boots, main, numa_latency, measured, buffer, misread>>

\* Mutant: the missing file is not handled, only one of another host.
NothingToRead_OtherHost ==
  /\ thread = "open"
  /\ disk # NoFile
  /\ ~Matches(disk)
  /\ thread' = "measure"
  /\ UNCHANGED <<disk, boots, main, numa_latency, measured, buffer, misread>>

\* The file is missing or another host's.  Or fopen or the first fscanf fails
\* on one that matches, which the code takes for the same.
NothingToRead ==
  /\ thread = "open"
  /\ misread' = Matches(disk)
  /\ thread' = "measure"
  /\ UNCHANGED <<disk, boots, main, numa_latency, measured, buffer>>

\* Mutant: the loop over the entries runs once too often.
MoreToMeasure_Inclusive == thread = "measure" /\ measured \in Entry \cup {0}

MoreToMeasure == thread = "measure" /\ measured + 1 \in Entry

\* get_numa_latency for the next pair of nodes.
Measure(v) ==
  /\ MoreToMeasure
  /\ measured' = measured + 1
  /\ numa_latency' = [numa_latency EXCEPT ![measured + 1] = v]
  /\ UNCHANGED <<disk, boots, main, thread, buffer, misread>>

AllMeasured ==
  /\ thread = "measure"
  /\ ~MoreToMeasure
  /\ thread' = "create"
  /\ UNCHANGED <<disk, boots, main, numa_latency, measured, buffer, misread>>

\* fopen for writing truncates the file at once.
CreateFile ==
  /\ thread = "create"
  /\ disk' = Empty
  /\ buffer' = Empty
  /\ thread' = "write"
  /\ UNCHANGED <<boots, main, numa_latency, measured, misread>>

CannotCreate ==
  /\ thread = "create"
  /\ thread' = "done"
  /\ UNCHANGED <<disk, boots, main, numa_latency, measured, buffer, misread>>

\* One fprintf: the number of nodes first, then entry after entry.
PrintNumber ==
  /\ thread = "write"
  /\ buffer.num = 0
  /\ buffer' = [buffer EXCEPT !.num = numa_number]
  /\ UNCHANGED <<disk, boots, main, thread, numa_latency, measured, misread>>

PrintEntry ==
  /\ thread = "write"
  /\ buffer.num # 0
  /\ Len(buffer.vals) + 1 \in Entry
  /\ buffer' = [buffer EXCEPT !.vals = Append(@, numa_latency[Len(@) + 1])]
  /\ UNCHANGED <<disk, boots, main, thread, numa_latency, measured, misread>>

CloseFile ==
  /\ thread = "write"
  /\ Len(buffer.vals) + 1 \notin Entry
  /\ disk' = buffer
  /\ thread' = "done"
  /\ UNCHANGED <<boots, main, numa_latency, measured, buffer, misread>>

-----------------------------------------------------------------------------
MainNext == InitSucceeds \/ Join

FileNext ==
  \/ GetNodeCpus
  \/ ReadFile
  \/ NothingToRead
  \/ AllMeasured
  \/ CreateFile
  \/ CannotCreate
  \/ PrintNumber
  \/ PrintEntry
  \/ CloseFile

Next ==
  \/ Start \/ MainNext \/ InitFails \/ SignalExits \/ Killed
  \/ FileNext
  \/ \E v \in Result : Measure(v)

Spec == Init /\ [][Next]_vars

-----------------------------------------------------------------------------
(***************************************************************************)
(* Properties                                                              *)
(***************************************************************************)
Complete(f) == Matches(f) /\ Len(f.vals) = Entries

\* A matrix is as complete as its source: the running daemon has an
\* unassigned entry only if it read a file that was cut short, or could not
\* read a whole one to its end; a matrix it measured has none.
GarbageOnlyFromCutFile ==
  main = "running" /\ (\E e \in Entry : numa_latency[e] = "garbage") =>
    measured = 0 /\ Matches(disk) /\ (Complete(disk) => misread)

\* No start that can read a complete file damages it, whenever the process
\* ends.  One that cannot read it takes it for missing: it truncates it, but
\* only with every entry measured.
CompleteFileKept ==
  [][Complete(disk) /\ disk' # disk =>
       misread /\ measured = Entries]_vars

\* Waiting for the thread ends: with the daemon running, or with its end.
JoinReturns == (main = "join") ~> (main \in {"running", "off"})


=============================================================================

------------------------- MODULE LatencyProbeProofs -------------------------
(***************************************************************************)
(* Theorems about the start-up.  The first ones are about the latency      *)
(* matrix and its file (Spec), for any number of nodes and of starts.  The *)
(* others are about get_numa_latency inside the start-up (LatencySpec):    *)
(* the whole call is one step of NumaLatency, so what is proved of the     *)
(* matrix and its file holds of the detailed program as well.              *)
(***************************************************************************)
EXTENDS LatencyProbe, MgenProofs, SequenceTheorems

Assigned(e) == numa_latency[e] # "garbage"

NoGarbage(f) == \A i \in 1..Len(f.vals) : f.vals[i] # "garbage"

(***************************************************************************)
(* What the two properties rest on: the thread measures only if no usable  *)
(* file is there or it could not read it, opens the file for writing only  *)
(* with a full matrix, and is done, once the daemon runs.                  *)
(***************************************************************************)
LatencyInv ==
  /\ TypeOK
  /\ NoGarbage(disk) /\ NoGarbage(buffer)
  /\ main = "off" => thread = "none" /\ measured = 0
  /\ thread \in {"nodes", "open"} => measured = 0
  /\ thread \in {"measure", "create"} => misread \/ ~Matches(disk)
  /\ thread = "create" => measured = Entries
  /\ thread = "write" => disk = Empty
  /\ thread = "measure" => \A e \in Entry : e <= measured => Assigned(e)
  /\ thread \in {"create", "write"} => \A e \in Entry : Assigned(e)
  /\ thread = "done" /\ (\E e \in Entry : ~Assigned(e)) =>
       measured = 0 /\ Matches(disk) /\ (Complete(disk) => misread)
  /\ main = "running" => thread = "done"

LEMMA EntryFacts ==
  /\ numa_number \in Nat /\ numa_number > 0
  /\ Entries \in Nat /\ Entries > 0
  /\ Entry = 1..Entries
<1>1. numa_number \in Nat /\ numa_number > 0
  BY NumaNumberAssumption
<1>2. Entries \in Nat /\ Entries > 0
  BY <1>1 DEF Entries
<1> QED
  BY <1>1, <1>2 DEF Entry

LEMMA FileFacts == NoFile \in File /\ Empty \in File /\ ~Matches(Empty)
BY EntryFacts DEF NoFile, Empty, File, Matches

LEMMA LatencyInit == Init => LatencyInv
<1> SUFFICES ASSUME Init PROVE LatencyInv
  OBVIOUS
<1>1. ASSUME NEW n \in Nat, disk = Written(n) PROVE disk \in File /\ NoGarbage(disk)
  <2> DEFINE s == [i \in 1..(n * n) |-> "latency"]
  <2>1. n * n \in Nat
    OBVIOUS
  <2>2. s \in Seq(Value) /\ Len(s) = n * n
    BY <2>1 DEF Value, Result
  <2> QED
    BY <1>1, <2>1, <2>2 DEF Written, File, NoGarbage
<1>2. disk \in File /\ NoGarbage(disk)
  <2>1. disk = NoFile => disk \in File /\ NoGarbage(disk)
    BY FileFacts DEF NoGarbage, NoFile
  <2> QED
    BY <1>1, <2>1, NumaNumberAssumption, OtherNumberAssumption DEF Init
<1>3. TypeOK
  <2>1. misread \in BOOLEAN
    BY DEF Init
  <2> QED
    BY <1>2, <2>1, FileFacts, EntryFacts, MaxBootsAssumption DEF Init, TypeOK, Value
<1>4. NoGarbage(buffer)
  BY DEF Init, NoGarbage, Empty
<1> QED
  BY <1>2, <1>3, <1>4 DEF Init, LatencyInv

\* However the process ends, the file is one that LatencyInv allows.
LEMMA EndKeepsInv ==
  ASSUME LatencyInv, Exit \/ Killed
  PROVE  LatencyInv'
<1>1. disk' \in {disk, buffer} /\ NoGarbage(disk') /\ disk' \in File
  BY DEF Exit, Killed, LatencyInv, TypeOK
<1>2. misread' \in BOOLEAN
  BY DEF Exit, Killed, Ended
<1> QED
  BY <1>1, <1>2, FileFacts, EntryFacts
     DEF Exit, Killed, Ended, LatencyInv, TypeOK, NoGarbage, Matches, Empty, Value

LEMMA ReadKeepsInv ==
  ASSUME LatencyInv, ReadFile
  PROVE  LatencyInv'
<1> USE EntryFacts DEF LatencyInv, TypeOK
<1>1. disk.vals \in Seq(Value) /\ Len(disk.vals) \in Nat
  BY DEF File
<1>2. \A e \in Entry : e <= Len(disk.vals) => disk.vals[e] \in Value
  BY <1>1, ElementOfSeq
<1>3. numa_latency' \in [Entry -> Value]
  BY <1>2 DEF ReadFile
<1>4. ASSUME NEW e \in Entry, ~Assigned(e)', Complete(disk) PROVE misread'
  <2>1. PICK n \in 0..Len(disk.vals) :
          /\ numa_latency' =
               [x \in Entry |-> IF x <= n THEN disk.vals[x] ELSE numa_latency[x]]
          /\ misread' = (n < Len(disk.vals))
    BY DEF ReadFile
  <2>2. e > n
    BY <1>1, <1>4, <2>1 DEF Assigned, NoGarbage
  <2>3. Len(disk.vals) = Entries
    BY <1>4 DEF Complete
  <2>4. n < Len(disk.vals)
    BY <2>2, <2>3
  <2> QED
    BY <2>1, <2>4
<1>5. misread' \in BOOLEAN
  BY DEF ReadFile
<1> QED
  BY <1>3, <1>4, <1>5 DEF ReadFile, Matches, Complete

LEMMA PrintKeepsInv ==
  ASSUME LatencyInv, PrintNumber \/ PrintEntry
  PROVE  LatencyInv'
<1> USE EntryFacts DEF LatencyInv, TypeOK
<1>1. CASE PrintNumber
  BY <1>1 DEF PrintNumber, File, NoGarbage, Assigned
<1>2. CASE PrintEntry
  <2> DEFINE v == numa_latency[Len(buffer.vals) + 1]
  <2>1. /\ buffer.vals \in Seq(Value)
        /\ v \in Value /\ v # "garbage"
        /\ buffer' = [buffer EXCEPT !.vals = Append(buffer.vals, v)]
    BY <1>2 DEF PrintEntry, File, Assigned
  <2> HIDE DEF v
  <2>2. buffer'.vals = Append(buffer.vals, v) /\ buffer' \in File
    <3>1. Append(buffer.vals, v) \in Seq(Value)
      BY <2>1
    <3>2. buffer \in [num : Nat \cup {-1}, vals : Seq(Value)]
      BY DEF File
    <3> DEFINE longer == Append(buffer.vals, v)
    <3> HIDE DEF longer
    <3>3. buffer' = [buffer EXCEPT !.vals = longer] /\ longer \in Seq(Value)
      BY <2>1, <3>1 DEF longer
    <3>4. buffer'.vals = longer /\ buffer' \in File
      BY <3>2, <3>3 DEF File
    <3> QED
      BY <3>4 DEF longer
  <2>3. NoGarbage(buffer')
    BY <2>1, <2>2 DEF NoGarbage
  <2> QED
    BY <1>2, <2>2, <2>3 DEF PrintEntry, Assigned
<1> QED
  BY <1>1, <1>2

LEMMA LatencyStep ==
  ASSUME LatencyInv, [Next]_vars
  PROVE  LatencyInv'
<1> USE EntryFacts DEF LatencyInv, TypeOK
<1>1. CASE Start
  BY <1>1, MaxBootsAssumption DEF Start
<1>2. CASE InitSucceeds \/ Join
  BY <1>2 DEF InitSucceeds, Join, Assigned
<1>3. CASE InitFails \/ SignalExits \/ Killed
  BY <1>3, EndKeepsInv DEF InitFails, SignalExits
<1>4. CASE GetNodeCpus \/ NothingToRead
  <2>1. misread' \in BOOLEAN
    BY <1>4 DEF GetNodeCpus, NothingToRead, Matches
  <2>2. thread' = "measure" => misread' \/ ~Matches(disk)
    BY <1>4 DEF GetNodeCpus, NothingToRead
  <2> QED
    BY <1>4, <2>1, <2>2 DEF GetNodeCpus, NothingToRead, Matches, Assigned
<1>5. CASE ReadFile
  BY <1>5, ReadKeepsInv
<1>6. ASSUME NEW v \in Result, Measure(v) PROVE LatencyInv'
  <2>1. measured \in Nat /\ measured + 1 \in Entry /\ measured' \in 0..Entries
    BY <1>6 DEF Measure, MoreToMeasure
  <2>2. numa_latency' \in [Entry -> Value] /\ v # "garbage"
    BY <1>6 DEF Measure, MoreToMeasure, Value, Result
  <2>3. ASSUME NEW e \in Entry, e <= measured' PROVE Assigned(e)'
    <3>1. CASE e = measured + 1
      BY <1>6, <2>1, <2>2, <3>1 DEF Measure, MoreToMeasure, Assigned
    <3>2. CASE e # measured + 1
      BY <1>6, <2>1, <2>3, <3>2 DEF Measure, MoreToMeasure, Assigned
    <3> QED
      BY <3>1, <3>2
  <2>4. TypeOK'
    BY <1>6, <2>1, <2>2 DEF Measure, MoreToMeasure
  <2>5. NoGarbage(disk)' /\ NoGarbage(buffer)' /\ (misread \/ ~Matches(disk))'
    BY <1>6 DEF Measure, MoreToMeasure, NoGarbage, Matches
  <2>6. thread' = "measure" /\ main' # "running" /\ main' # "off"
    BY <1>6 DEF Measure, MoreToMeasure
  <2> QED
    BY <2>3, <2>4, <2>5, <2>6
<1>7. CASE AllMeasured
  BY <1>7 DEF AllMeasured, MoreToMeasure, Assigned
<1>8. CASE CreateFile
  BY <1>8, FileFacts DEF CreateFile, Assigned, NoGarbage, Empty
<1>9. CASE CannotCreate
  BY <1>9 DEF CannotCreate, Assigned
<1>10. CASE PrintNumber \/ PrintEntry
  BY <1>10, PrintKeepsInv
<1>11. CASE CloseFile
  BY <1>11 DEF CloseFile, Assigned
<1>12. CASE UNCHANGED vars
  BY <1>12 DEF vars, Assigned
<1> QED
  BY <1>1, <1>2, <1>3, <1>4, <1>5, <1>6, <1>7, <1>8, <1>9, <1>10, <1>11, <1>12
     DEF Next, MainNext, FileNext

\* The invariant of the latency thread and its file holds throughout.
THEOREM LatencyInvariant == Spec => []LatencyInv
BY LatencyInit, LatencyStep, PTL DEF Spec

\* The start-up keeps its types: no entry of the matrix is written out of range,
\* whenever the process ends.
THEOREM LatencyTyped == Spec => []TypeOK
BY LatencyInvariant, PTL DEF LatencyInv

\* A running daemon has an unassigned latency only if it read a file that was
\* cut short, or could not read a whole one to its end; a matrix it measured is
\* complete.
THEOREM GarbageHasOneSource == Spec => []GarbageOnlyFromCutFile
<1>1. LatencyInv => GarbageOnlyFromCutFile
  BY DEF LatencyInv, GarbageOnlyFromCutFile, Assigned
<1> QED
  BY <1>1, LatencyInvariant, PTL

\* A complete latency file is never touched by a start that can read it,
\* whenever and however the process ends; one that cannot read it truncates it
\* only with all entries measured.
THEOREM CompleteFilesSurvive == Spec => CompleteFileKept
<1> DEFINE Kept == Complete(disk) /\ disk' # disk =>
                     misread /\ measured = Entries
<1>1. LatencyInv /\ [Next]_vars => [Kept]_vars
  <2> SUFFICES ASSUME LatencyInv, Next, Complete(disk), disk' # disk
               PROVE  misread /\ measured = Entries
    BY DEF vars
  <2>1. thread # "write"
    BY FileFacts DEF LatencyInv, Complete
  <2>2. thread = "create"
    BY <2>1 DEF Next, Start, MainNext, InitSucceeds, Join, InitFails, SignalExits, Exit,
                Killed, FileNext, GetNodeCpus, ReadFile, NothingToRead, Measure,
                MoreToMeasure, AllMeasured, CreateFile, CannotCreate,
                PrintNumber, PrintEntry, CloseFile
  <2> QED
    BY <2>2 DEF LatencyInv, Complete
<1> QED
  BY <1>1, LatencyInvariant, PTL DEF Spec, CompleteFileKept

-----------------------------------------------------------------------------
(***************************************************************************)
(* The call touches the matrix while the thread waits for it and only then *)
(* (ProbeTypeOK); a process whose handlers are installed has at least      *)
(* begun to measure; the clock is running once a latency was found.        *)
(***************************************************************************)
Clocked ==
  /\ (\E e \in 1..measured : numa_latency[e] = "latency") => calibrated
  /\ step \in {"calibrate", "create", "fill", "read"} => ret = "failed"
  /\ step = "release" /\ ret = "latency" => calibrated
  /\ step = "release" /\ ret = "zero" => ~calibrated

ProbeInv ==
  /\ ProbeTypeOK
  /\ OwnBufferOnly
  /\ handlers => thread = "measure" \/ measured > 0
  /\ Clocked
  /\ ZerosFirst

LEMMA ProbeInitially == ProbeInit => ProbeInv
<1> SUFFICES ASSUME ProbeInit PROVE ProbeInv
  OBVIOUS
<1>1. measured = 0 /\ handlers = FALSE /\ step = "idle" /\ s_buf = "null" /\ ret = "failed"
      /\ calibrated = FALSE
  BY DEF ProbeInit, Init
<1>2. ZerosFirst /\ Clocked
  BY <1>1 DEF ZerosFirst, Clocked
<1> QED
  BY <1>1, <1>2 DEF ProbeInv, ProbeTypeOK, OwnBufferOnly, Result

\* A result enters the matrix behind all others.
LEMMA MeasureKeepsOrder ==
  ASSUME LatencyInv, ProbeInv, NEW v \in Result, MoreToMeasure, Measure(v),
         v = "zero" => ~calibrated, v = "latency" => calibrated,
         UNCHANGED calibrated
  PROVE  /\ ZerosFirst'
         /\ (\E e \in 1..measured' : numa_latency'[e] = "latency") => calibrated'
<1> USE EntryFacts DEF LatencyInv, TypeOK
<1>1. /\ measured \in Nat /\ measured' = measured + 1
      /\ measured + 1 \in Entry
      /\ \A e \in 1..measured : e \in Entry /\ numa_latency'[e] = numa_latency[e]
      /\ numa_latency'[measured + 1] = v
  BY DEF Measure, MoreToMeasure
<1>2. \A e \in 1..measured' : e \in 1..measured \/ e = measured + 1
  BY <1>1
<1>3. (\E e \in 1..measured : numa_latency[e] = "latency") => calibrated
  BY DEF ProbeInv, Clocked
<1>4. (\E e \in 1..measured' : numa_latency'[e] = "latency") => calibrated'
  BY <1>1, <1>2, <1>3
<1>5. ASSUME NEW e \in 1..measured', NEW f \in 1..measured',
             e < f, numa_latency'[e] = "latency"
      PROVE  numa_latency'[f] # "zero"
  <2>1. e \in 1..measured
    BY <1>1, <1>5
  <2>2. CASE f \in 1..measured
    BY <1>1, <1>5, <2>1, <2>2 DEF ProbeInv, ZerosFirst
  <2>3. CASE f = measured + 1
    BY <1>1, <1>3, <1>5, <2>1, <2>3
  <2> QED
    BY <1>2, <2>2, <2>3
<1> QED
  BY <1>4, <1>5 DEF ZerosFirst

LEMMA ProbeKeepsInv ==
  ASSUME LatencyInv, ProbeInv, ProbeNext
  PROVE  ProbeInv'
<1> USE DEF ProbeInv, ProbeTypeOK, OwnBufferOnly, Clocked, Result
<1>1. CASE Enter
  BY <1>1 DEF Enter, MoreToMeasure, vars, ZerosFirst
<1>2. CASE Calibrate
  BY <1>2 DEF Calibrate, MoreToMeasure, vars, ZerosFirst
<1>3. CASE CreateBuffer \/ Filled
  BY <1>3 DEF CreateBuffer, Filled, MoreToMeasure, vars, ZerosFirst
<1>4. CASE Fill
  BY <1>4 DEF Fill, MoreToMeasure, vars, probeVars, ZerosFirst
<1>5. CASE Read
  BY <1>5 DEF Read, MoreToMeasure, vars, ZerosFirst
<1>6. CASE CreateFails \/ Release
  <2>1. /\ Measure(ret) /\ MoreToMeasure /\ step' = "idle"
        /\ UNCHANGED <<calibrated, handlers, ret>>
        /\ s_buf' \in {"null", "freed"}
    BY <1>6 DEF CreateFails, Release
  <2>2. ret = "zero" => ~calibrated
    BY <1>6 DEF CreateFails, Release
  <2>3. ret = "latency" => calibrated
    BY <1>6 DEF CreateFails, Release
  <2>4. measured' > 0
    BY <2>1, EntryFacts DEF LatencyInv, TypeOK, Measure
  <2> QED
    BY <2>1, <2>2, <2>3, <2>4, MeasureKeepsOrder
<1>7. CASE EnterFails
  <2>1. /\ Measure("failed") /\ MoreToMeasure /\ step = "idle"
        /\ handlers' \in BOOLEAN /\ ret' = "failed"
        /\ UNCHANGED <<step, s_buf, calibrated>>
    BY <1>7 DEF EnterFails, Measure
  <2>2. measured' > 0
    BY <2>1, EntryFacts DEF LatencyInv, TypeOK, Measure
  <2> QED
    BY <2>1, <2>2, MeasureKeepsOrder
<1> QED
  BY <1>1, <1>2, <1>3, <1>4, <1>5, <1>6, <1>7 DEF ProbeNext

LEMMA RestKeepsInv ==
  ASSUME LatencyInv, ProbeInv, RestNext
  PROVE  ProbeInv'
<1> USE DEF LatencyInv
<1>1. UNCHANGED <<step, s_buf, calibrated, handlers, ret>>
  BY DEF RestNext, probeVars
<1>2. CASE Start
  <2>1. measured = 0 /\ thread = "none" /\ UNCHANGED <<measured, numa_latency>>
    BY <1>2 DEF Start
  <2> QED
    BY <1>1, <2>1 DEF ProbeInv, ProbeTypeOK, OwnBufferOnly, Clocked, ZerosFirst,
                      MoreToMeasure
<1>3. CASE MainNext
  BY <1>1, <1>3 DEF MainNext, InitSucceeds, Join, ProbeInv, ProbeTypeOK, OwnBufferOnly,
                    Clocked, ZerosFirst, MoreToMeasure
<1>4. CASE ReadFile
  <2>1. measured = 0 /\ measured' = 0 /\ thread = "open"
    BY <1>4 DEF ReadFile
  <2> QED
    BY <1>1, <2>1 DEF ProbeInv, ProbeTypeOK, OwnBufferOnly, Clocked, ZerosFirst,
                      MoreToMeasure
<1>5. CASE AllMeasured
  <2>1. measured > 0 /\ UNCHANGED <<measured, numa_latency>> /\ ~MoreToMeasure
    BY <1>5, EntryFacts DEF AllMeasured, MoreToMeasure, TypeOK
  <2> QED
    BY <1>1, <2>1 DEF ProbeInv, ProbeTypeOK, OwnBufferOnly, Clocked, ZerosFirst
<1>6. CASE \/ GetNodeCpus \/ NothingToRead \/ CreateFile \/ CannotCreate
           \/ PrintNumber \/ PrintEntry \/ CloseFile
  <2>1. thread # "measure" /\ UNCHANGED <<measured, numa_latency>>
    BY <1>6 DEF GetNodeCpus, NothingToRead, CreateFile, CannotCreate, PrintNumber,
                PrintEntry, CloseFile
  <2> QED
    BY <1>1, <2>1 DEF ProbeInv, ProbeTypeOK, OwnBufferOnly, Clocked, ZerosFirst,
                      MoreToMeasure
<1> QED
  BY <1>2, <1>3, <1>4, <1>5, <1>6 DEF RestNext, FileNext

LEMMA ProbeStep ==
  ASSUME LatencyInv, ProbeInv, [LatencyNext]_allVars
  PROVE  ProbeInv'
<1>1. CASE HandleSignal \/ ProcessEnds
  <2>1. ProcessGone /\ measured' = 0
    BY <1>1 DEF HandleSignal, ProcessEnds, InitFails, Killed, Exit, Ended
  <2>2. ZerosFirst' /\ Clocked'
    BY <2>1 DEF ProcessGone, ZerosFirst, Clocked
  <2> QED
    BY <2>1, <2>2 DEF ProcessGone, ProbeInv, ProbeTypeOK, OwnBufferOnly, Result
<1>2. CASE UNCHANGED allVars
  BY <1>2 DEF allVars, vars, probeVars, ProbeInv, ProbeTypeOK, OwnBufferOnly, Clocked,
              ZerosFirst, MoreToMeasure
<1> QED
  BY <1>1, <1>2, ProbeKeepsInv, RestKeepsInv DEF LatencyNext

\* Whatever fails in a call, and wherever a signal ends it, the call is at most
\* one step of the start-up.
LEMMA ProbeRefines ==
  ASSUME LatencyInv, ProbeInv, [LatencyNext]_allVars
  PROVE  [Next]_vars
<1>1. CASE ProbeNext
  <2>1. CASE CreateFails \/ Release
    BY <2>1 DEF CreateFails, Release, ProbeInv, ProbeTypeOK, Next
  <2>3. CASE EnterFails
    BY <2>3 DEF EnterFails, Result, Next
  <2>2. CASE Enter \/ Calibrate \/ CreateBuffer \/ Fill \/ Filled \/ Read
    BY <2>2 DEF Enter, Calibrate, CreateBuffer, Fill, Filled, Read
  <2> QED
    BY <1>1, <2>1, <2>2, <2>3 DEF ProbeNext
<1>2. CASE RestNext
  BY <1>2 DEF RestNext, Next
<1>3. CASE HandleSignal
  <2>1. Exit => SignalExits
    BY <1>3 DEF HandleSignal, SignalExits, ProbeInv
  <2>2. Ended /\ UNCHANGED disk => Killed
    BY <1>3 DEF HandleSignal, Killed
  <2> QED
    BY <1>3, <2>1, <2>2 DEF HandleSignal, Next
<1>4. CASE ProcessEnds
  BY <1>4 DEF ProcessEnds, Next
<1>5. CASE UNCHANGED allVars
  BY <1>5 DEF allVars
<1> QED
  BY <1>1, <1>2, <1>3, <1>4, <1>5 DEF LatencyNext

\* The invariants of the start-up and of the probe hold throughout.
THEOREM ProbeInvariant == LatencySpec => [](LatencyInv /\ ProbeInv)
<1>1. ProbeInit => LatencyInv /\ ProbeInv
  BY LatencyInit, ProbeInitially DEF ProbeInit
<1>2. LatencyInv /\ ProbeInv /\ [LatencyNext]_allVars => LatencyInv' /\ ProbeInv'
  BY ProbeStep, ProbeRefines, LatencyStep
<1> QED
  BY <1>1, <1>2, PTL DEF LatencySpec

\* The variables of start-up and probe keep their types: in particular
\* get_numa_latency runs only for a pair that is still to be measured.
THEOREM ProbeTyped == LatencySpec => [](TypeOK /\ ProbeTypeOK)
<1>1. LatencyInv /\ ProbeInv => TypeOK /\ ProbeTypeOK
  BY DEF LatencyInv, ProbeInv
<1> QED
  BY ProbeInvariant, <1>1, PTL

\* The start-up with the whole of get_numa_latency implements the start-up in
\* which a measurement is one step: so every theorem about NumaLatency, such as
\* CompleteFilesSurvive, holds of it too.
THEOREM ProbeImplementsStartup == LatencySpec => ImplementsStartup
<1>1. ProbeInit => Init
  BY DEF ProbeInit
<1>2. LatencyInv /\ ProbeInv /\ [LatencyNext]_allVars => [Next]_vars
  BY ProbeRefines
<1> QED
  BY <1>1, <1>2, ProbeInvariant, PTL DEF LatencySpec, Spec, ImplementsStartup

\* A call fills, reads and releases the buffer it has made itself and leaves none
\* behind, whatever fails in it; and none that was freed is filled or read.
THEOREM BufferIsOwn == LatencySpec => []OwnBufferOnly
BY ProbeInvariant, PTL DEF ProbeInv

\* For any number of nodes and any failures: once a pair of nodes has got a
\* latency, no later pair gets the 0 of a clock that does not run.
THEOREM ClockKept == LatencySpec => []ZerosFirst
BY ProbeInvariant, PTL DEF ProbeInv

-----------------------------------------------------------------------------
(***************************************************************************)
(* The buffer of every call.  A buffer that is discarded starts again from *)
(* a state that satisfies the invariant of MgenProofs, and the time is     *)
(* taken only on one that is finished.                                     *)
(***************************************************************************)
CallInv ==
  /\ BufferInv
  /\ step = "read" => buf_pc = "done"

LEMMA StartedBuffer == BufferInit => BufferInv
BY FreshBuffer DEF BufferInit

LEMMA ProbeKeepsBuffer ==
  ASSUME BufferInv, [LatencyNext]_allVars
  PROVE  BufferInv'
<1>1. CASE Discard
  <2>1. BufferInit'
    BY <1>1 DEF Discard, BufferInit
  <2> QED
    BY <2>1, StartedBuffer, PTL
<1>2. CASE BufferNext \/ UNCHANGED bufferVars
  BY <1>2, BufferStep
<1>3. Discard \/ BufferNext \/ UNCHANGED bufferVars
  BY DEF LatencyNext, ProbeNext, Enter, EnterFails, Calibrate, CreateBuffer,
         CreateFails, Fill, Filled, Read, Release, RestNext, HandleSignal, ProcessEnds,
         ProcessGone, allVars
<1> QED
  BY <1>1, <1>2, <1>3

LEMMA CallStep ==
  ASSUME CallInv, [LatencyNext]_allVars
  PROVE  CallInv'
<1>1. BufferInv'
  BY ProbeKeepsBuffer DEF CallInv
<1>2. ASSUME step' = "read" PROVE buf_pc' = "done"
  <2>1. CASE Filled
    BY <2>1 DEF Filled, bufferVars
  <2>2. CASE ~Filled
    <3>1. step = "read" /\ UNCHANGED bufferVars
      BY <1>2, <2>2 DEF LatencyNext, ProbeNext, Enter, EnterFails, Calibrate,
         CreateBuffer, CreateFails, Fill, Read, Release, RestNext, HandleSignal,
         ProcessEnds, ProcessGone, allVars,
         probeVars
    <3> QED
      BY <3>1 DEF CallInv, bufferVars
  <2> QED
    BY <2>1, <2>2
<1> QED
  BY <1>1, <1>2 DEF CallInv

\* The invariant of the buffer holds in every call of get_numa_latency.
THEOREM CallInvariant == LatencySpec => []CallInv
<1>1. ProbeInit => CallInv
  BY StartedBuffer DEF ProbeInit, CallInv
<1>2. CallInv /\ [LatencyNext]_allVars => CallInv'
  BY CallStep
<1> QED
  BY <1>1, <1>2, PTL DEF LatencySpec

\* In every call the buffer's variables keep their types: a pointer that
\* rand_buf_init writes stands in the buffer, or one line past its end.
THEOREM BufferTyped == LatencySpec => []BufferTypeOK
<1>1. CallInv => BufferTypeOK
  BY DEF CallInv, BufferInv
<1> QED
  BY CallInvariant, <1>1, PTL

\* Every call of the daemon, not only the first, draws one chain through all
\* elements of a block.
THEOREM EveryCallChains == LatencySpec => []OneChain
<1>1. CallInv => OneChain
  BY DEF CallInv, BufferInv, ChainInv
<1> QED
  BY CallInvariant, <1>1, PTL

\* Every call takes the time on a buffer whose pointers lead through all of its
\* lines before they come back, for blocks of any size and any number of them.
THEOREM EveryCallReadsAll == LatencySpec => []ReadsWholeBuffer
<1>1. CallInv => ReadsWholeBuffer
  BY BufferVisited DEF CallInv, ReadsWholeBuffer
<1> QED
  BY CallInvariant, <1>1, PTL

=============================================================================

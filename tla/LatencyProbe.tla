---------------------------- MODULE LatencyProbe ----------------------------
(***************************************************************************)
(* get_numa_latency (src/mgen.cpp) inside the daemon's start-up: what      *)
(* NumaLatency takes for one step, Measure(v), is here the whole call,     *)
(* from the signal handlers to buf_release.  The buffer it fills is that   *)
(* of Mgen.  Each call leaves its statics behind for the next: the clock,  *)
(* the handlers, and s_buf, which still points at the buffer that was      *)
(* freed.                                                                  *)
(***************************************************************************)
EXTENDS NumaLatency, Mgen

VARIABLES
  step,        \* where get_numa_latency is, "idle" between its calls
  s_buf,       \* what s_buf points at
  calibrated,  \* is s_clkofns not zero any more?
  handlers,    \* are the signal handlers installed?
  ret

probeVars == <<step, s_buf, calibrated, handlers, ret>>
allVars == <<vars, bufferVars, probeVars>>

ProbeTypeOK ==
  /\ step \in {"idle", "calibrate", "create", "fill", "read", "release"}
  /\ s_buf \in {"null", "live", "freed"}
  /\ calibrated \in BOOLEAN
  /\ handlers \in BOOLEAN
  /\ ret \in Result
  /\ step # "idle" => MoreToMeasure /\ handlers

ProbeInit ==
  /\ Init
  /\ BufferInit
  /\ step = "idle"
  /\ s_buf = "null"
  /\ calibrated = FALSE
  /\ handlers = FALSE
  /\ ret = "failed"

-----------------------------------------------------------------------------
(***************************************************************************)
(* get_numa_latency                                                        *)
(***************************************************************************)

\* The handlers are installed before anything else.
Enter ==
  /\ step = "idle"
  /\ MoreToMeasure
  /\ step' = "calibrate"
  /\ handlers' = TRUE
  /\ ret' = "failed"
  /\ UNCHANGED <<vars, bufferVars, s_buf, calibrated>>

\* A handler cannot be installed: the call gives up before it has a buffer.
\* If s_buf still points at that of an earlier call, it is released once more;
\* which does nothing, unless its addresses are in use again by then: what
\* becomes of that is left to Killed.
EnterFails ==
  /\ step = "idle"
  /\ Measure("failed")
  /\ handlers' \in {handlers, TRUE}
  /\ ret' = "failed"
  /\ UNCHANGED <<bufferVars, step, s_buf, calibrated>>

\* Mutant: the clock is cleared before it is calibrated.
Calibrate_Cleared ==
  /\ step = "calibrate"
  /\ calibrated' \in BOOLEAN
  /\ step' = "create"
  /\ UNCHANGED <<vars, bufferVars, s_buf, handlers, ret>>

\* From /proc/cpuinfo, or else from sysfs, or else by counting: if all three
\* fail the clock stays as an earlier call left it.
Calibrate ==
  /\ step = "calibrate"
  /\ calibrated' \in {calibrated, TRUE}
  /\ step' = "create"
  /\ UNCHANGED <<vars, bufferVars, s_buf, handlers, ret>>

CreateBuffer ==
  /\ step = "create"
  /\ s_buf' = "live"
  /\ step' = "fill"
  /\ UNCHANGED <<vars, bufferVars, calibrated, handlers, ret>>

\* Mutant: s_buf keeps the pointer of the last call, and L_EXIT0 releases it.
CreateFails_KeepsPointer ==
  /\ step = "create"
  /\ step' = IF s_buf = "null" THEN "idle" ELSE "release"
  /\ IF s_buf = "null" THEN Measure(ret) ELSE UNCHANGED vars
  /\ UNCHANGED <<bufferVars, s_buf, calibrated, handlers, ret>>

\* The node has no memory left: s_buf becomes NULL, nothing is released.
CreateFails ==
  /\ step = "create"
  /\ s_buf' = "null"
  /\ Measure(ret)
  /\ step' = "idle"
  /\ UNCHANGED <<bufferVars, calibrated, handlers, ret>>

\* One step of rand_array_init or rand_buf_init.
Fill ==
  /\ step = "fill"
  /\ BufferNext
  /\ UNCHANGED <<vars, probeVars>>

Filled ==
  /\ step = "fill"
  /\ buf_pc = "done"
  /\ step' = "read"
  /\ UNCHANGED <<vars, bufferVars, s_buf, calibrated, handlers, ret>>

\* Mutant: without a clock the result is never assigned.
Read_Unset ==
  /\ step = "read"
  /\ ret' \in {"failed", IF calibrated THEN "latency" ELSE "garbage"}
  /\ step' = "release"
  /\ UNCHANGED <<vars, bufferVars, s_buf, calibrated, handlers>>

\* dependent_read returns -1 if it cannot bind the thread to the cpu.  Without
\* a clock it runs for no time, reads nothing and returns 0.
Read ==
  /\ step = "read"
  /\ ret' \in {"failed", IF calibrated THEN "latency" ELSE "zero"}
  /\ step' = "release"
  /\ UNCHANGED <<vars, bufferVars, s_buf, calibrated, handlers>>

\* The buffer is gone, s_buf is not reset, and the result gets its place in
\* the matrix.  The next call starts with a chain drawn anew.
Release ==
  /\ step = "release"
  /\ s_buf' = "freed"
  /\ Measure(ret)
  /\ Discard
  /\ step' = "idle"
  /\ UNCHANGED <<calibrated, handlers, ret>>

ProbeNext ==
  \/ Enter
  \/ EnterFails
  \/ Calibrate
  \/ CreateBuffer
  \/ CreateFails
  \/ Fill
  \/ Filled
  \/ Read
  \/ Release

-----------------------------------------------------------------------------
(***************************************************************************)
(* The rest of the process.                                                *)
(***************************************************************************)
\* The statics are those of a process newly loaded.
ProcessGone ==
  /\ Discard
  /\ step' = "idle"
  /\ s_buf' = "null"
  /\ calibrated' = FALSE
  /\ handlers' = FALSE
  /\ ret' = "failed"

\* sigint_handler releases whatever s_buf points at, then exits.  While the
\* thread still reads the buffer, or after it was freed once, that may fault
\* before exit has flushed the file.
HandleSignal ==
  /\ handlers
  /\ main # "off"
  /\ Exit \/ (s_buf # "null" /\ Ended /\ UNCHANGED disk)
  /\ ProcessGone

ProcessEnds == (InitFails \/ Killed) /\ ProcessGone

RestNext == (Start \/ MainNext \/ FileNext) /\ UNCHANGED <<bufferVars, probeVars>>

LatencyNext == ProbeNext \/ RestNext \/ HandleSignal \/ ProcessEnds

LatencySpec == ProbeInit /\ [][LatencyNext]_allVars

\* Both threads get their turns, init gives up when the thread failed, and
\* rand() keeps drawing free elements other than the last one.
FairSpec ==
  /\ LatencySpec
  /\ WF_allVars(ProbeNext)
  /\ WF_allVars(FileNext /\ UNCHANGED <<bufferVars, probeVars>>)
  /\ WF_allVars(MainNext /\ UNCHANGED <<bufferVars, probeVars>>)
  /\ WF_allVars(InitFails /\ ProcessGone)

-----------------------------------------------------------------------------
(***************************************************************************)
(* Properties                                                              *)
(***************************************************************************)

\* The whole call is what NumaLatency takes for one step: no failure of it
\* leaves an entry of the matrix out, assigns it twice or assigns garbage.
ImplementsStartup == Spec

\* A call fills and reads the buffer it has made itself, and releases it: none
\* is left behind, and none that an earlier call has freed is ever filled or
\* read.  s_buf dangles between the calls all the same, and a call that fails
\* before it makes its own buffer releases that address again (EnterFails).
OwnBufferOnly == (s_buf = "live") <=> step \in {"fill", "read", "release"}

\* A clock that was calibrated once serves all later calls: the zeros of a
\* matrix come before its latencies, and a pair of nodes measured after a
\* latency is never taken for the nearest.
ZerosFirst ==
  \A e, f \in 1..measured :
    e < f /\ numa_latency[e] = "latency" => numa_latency[f] # "zero"

\* The time is taken on a closed chain: the reads never leave the buffer, nor
\* settle in a short cycle that fits into a cache.
ReadsWholeBuffer == step = "read" => buf_pc = "done" /\ VisitsEveryLine

\* The random drawing ends, so each call gets its buffer ready.
Ready == (step = "fill") ~> (step = "read" \/ main = "off")

=============================================================================

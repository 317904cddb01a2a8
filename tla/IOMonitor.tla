------------------------------ MODULE IOMonitor ------------------------------
(***************************************************************************)
(* How the daemon judges the network rate of one VM: monitorIO             *)
(* (src/IOMonitor.cpp) samples the counters of the VM's VF once a pass,    *)
(* analyzeIOState (src/SimpleStrategy.cpp) smooths the last two rates and  *)
(* compares the result with the threshold.                                 *)
(*                                                                         *)
(* The counters are files, opened one after the other while packets go on  *)
(* arriving.  Any fopen may fail; a VM without a VF is one whose fopen     *)
(* always fails.  Any fscanf may find nothing, unnoticed: the VM_info      *)
(* keeps the old counter and the call goes on.  Time is counted in ticks,  *)
(* a timestamp as its age.  The byte counters are left out, and their      *)
(* files only kept as a reason to fail: no decision depends on KB_per_sec. *)
(***************************************************************************)
EXTENDS Integers

CONSTANTS
  Width,         \* the counters are modulo Width: 2^64 in the code
  Epoch,         \* the age of a timestamp of 0
  MaxAge,        \* bound: ticks between two complete samples
  MaxPassed,     \* bound: packets in one direction between two complete samples
  Traffic,       \* bound: the directions in which packets may pass in one tick
  MaxTrouble,    \* bound: calls that fail, fscanfs that find nothing, resets
  io_threshold   \* packets per tick

Dir == {"rx", "tx"}

\* A sample's packets must fit the width, or no subtraction could tell them.
ASSUME BoundsAssumption ==
  /\ {Epoch, MaxAge} \subseteq Nat /\ MaxAge < Epoch
  /\ MaxPassed \in Nat \ {0} /\ 2 * MaxPassed < Width
ASSUME WidthAssumption == Width \in Nat
ASSUME TroubleAssumption == MaxTrouble \in Nat
ASSUME ThresholdAssumption == io_threshold \in Nat
ASSUME TrafficAssumption == Traffic \subseteq SUBSET Dir

VARIABLES
  counter,     \* the VF's rx_packets and tx_packets
  packets,     \* VM_info.rx_packets and tx_packets
  last,        \* monitorIO's last_rx_packets and last_tx_packets
  age,         \* of VM_info.io_timestamp_usec
  pps,         \* VM_info.packets_per_sec
  pps_history, \* VM_info.packets_per_sec_history
  pc,          \* where monitorIO is
  got,         \* history: counters this call has found in their files
  passed,      \* history: packets since the read of the last complete sample
  fresh,       \* history: those of them that passed since this call's read
  owed,        \* history: packets of earlier samples that no rate has counted
  span,        \* history: ticks since the last complete sample
  spoilt,      \* history: counters stored before the VF was reset
  trouble,     \* how much of MaxTrouble has happened
  torn,        \* history: has this call subtracted such a counter?
  skewed,      \* history: counters some of whose packets no rate will count
  real         \* history: what really happened in the last two samples

histVars == <<got, passed, fresh, owed, span, spoilt, trouble, torn, skewed, real>>
vars == <<counter, packets, last, age, pps, pps_history, pc, histVars>>

\* A rate is a number of packets over a number of ticks.  No two samples are
\* taken in one tick: a time of zero stands for a double nobody assigned.
Garbage == [pkts |-> 0, time |-> 0]

\* A sample: the packets of its period, those its rate is due to carry (the
\* same, if each fscanf found its counter), the time, and whether the rate
\* carries all of them.
Unknown == [pkts |-> 0, due |-> 0, time |-> 0, exact |-> FALSE]

\* A counter of which nothing is stored yet owes whatever the VF has counted.
All == Width - 1

TypeOK ==
  /\ counter \in [Dir -> 0..(Width - 1)]
  /\ packets \in [Dir -> 0..(Width - 1)]
  /\ last \in [Dir -> 0..(Width - 1)]
  /\ age \in 1..MaxAge \cup {0, Epoch}
  /\ pps = Garbage \/ (pps.time > 0 /\ pps.pkts \in 0..(Width - 1))
  /\ pps_history = Garbage \/ pps_history.time > 0
  /\ pc \in {"sleep", "tx", "bytes"}
  /\ span \in 0..MaxAge \cup {Epoch}
  /\ spoilt \subseteq Dir
  /\ owed \in [Dir -> 0..MaxPassed \cup {All}]

\* A VM_info the constructor just made, for a VF that has been counting.
Init ==
  /\ counter \in {[d \in Dir |-> n] : n \in {0, Width - 1}}
  /\ packets = [d \in Dir |-> 0]
  /\ last = [d \in Dir |-> 0]
  /\ age = Epoch
  /\ pps = Garbage
  /\ pps_history = Garbage
  /\ pc = "sleep"
  /\ got = {}
  /\ passed = [d \in Dir |-> 0]
  /\ fresh = [d \in Dir |-> 0]
  /\ owed = [d \in Dir |-> All]
  /\ span = Epoch
  /\ spoilt = {}
  /\ trouble = 0
  /\ torn = FALSE
  /\ skewed = Dir
  /\ real = <<Unknown, Unknown>>

-----------------------------------------------------------------------------
(***************************************************************************)
(* The VF and the clock.                                                   *)
(***************************************************************************)
Later(a) == IF a = Epoch THEN Epoch ELSE a + 1

\* The packets still to be counted, but for those before the first sample.
Uncounted(d) == passed[d] + (IF owed[d] = All THEN 0 ELSE owed[d])

\* A tick, in which a packet may pass in each direction of D.
Tick(D) ==
  /\ age < MaxAge \/ age = Epoch
  /\ span < MaxAge \/ span = Epoch
  /\ \A d \in D : Uncounted(d) < MaxPassed /\ (span = Epoch => fresh[d] = 0)
  /\ counter' = [d \in Dir |-> IF d \in D THEN (counter[d] + 1) % Width ELSE counter[d]]
  /\ passed' = IF span = Epoch THEN passed
               ELSE [d \in Dir |-> IF d \in D THEN passed[d] + 1 ELSE passed[d]]
  /\ fresh' = IF pc = "sleep" THEN fresh
              ELSE [d \in Dir |-> IF d \in D THEN fresh[d] + 1 ELSE fresh[d]]
  /\ age' = Later(age)
  /\ span' = Later(span)
  /\ UNCHANGED <<packets, last, pps, pps_history, pc, got, owed, spoilt, trouble, torn,
                 skewed, real>>

Trouble ==
  /\ trouble < MaxTrouble
  /\ trouble' = trouble + 1

\* The VF is reset, by its guest or by the host.
VfReset ==
  /\ Trouble
  /\ counter' = [d \in Dir |-> 0]
  /\ spoilt' = Dir
  /\ UNCHANGED <<packets, last, age, pps, pps_history, pc, got, passed, fresh, owed,
                 span, torn, skewed, real>>

\* A STARTED event: set_vm_info replaces the VM_info.
SetVmInfo ==
  /\ pc = "sleep"
  /\ packets' = [d \in Dir |-> 0]
  /\ age' = Epoch
  /\ pps' = Garbage
  /\ pps_history' = Garbage
  /\ passed' = [d \in Dir |-> 0]
  /\ owed' = [d \in Dir |-> All]
  /\ span' = Epoch
  /\ spoilt' = {}
  /\ skewed' = Dir
  /\ real' = <<Unknown, Unknown>>
  /\ UNCHANGED <<counter, last, pc, got, fresh, trouble, torn>>

-----------------------------------------------------------------------------
(***************************************************************************)
(* monitorIO.                                                              *)
(***************************************************************************)
\* What fscanf finds goes into the VM_info at once, whatever happens to the
\* rest of the call.
Found(d) ==
  /\ packets' = [packets EXCEPT ![d] = counter[d]]
  /\ got' = got \cup {d}
  /\ torn' = (torn \/ d \in spoilt)
  /\ spoilt' = spoilt \ {d}
  /\ UNCHANGED trouble

\* Its result is not looked at: without a number the old counter stays.
FoundNothing ==
  /\ Trouble
  /\ UNCHANGED <<packets, got, torn, spoilt>>

Read(d) ==
  /\ Found(d) \/ FoundNothing
  /\ fresh' = [fresh EXCEPT ![d] = 0]
  /\ UNCHANGED <<counter, age, pps, pps_history, passed, owed, span, skewed, real>>

\* Mutant: two calls in one tick.
ReadRx_NoSleep ==
  /\ pc = "sleep"
  /\ pc' = "tx"
  /\ last' = packets
  /\ Read("rx")

\* The call begins.  If the first file cannot be opened nothing changes.
ReadRx ==
  /\ pc = "sleep"
  /\ age > 0
  /\ pc' = "tx"
  /\ last' = packets
  /\ Read("rx")

ReadTx ==
  /\ pc = "tx"
  /\ pc' = "bytes"
  /\ UNCHANGED last
  /\ Read("tx")

\* Mutant: the timestamp is taken before the files are opened.
OpenFails_Stamped ==
  /\ pc # "sleep"
  /\ Trouble
  /\ pc' = "sleep"
  /\ age' = 0
  /\ last' = [d \in Dir |-> 0]
  /\ got' = {}
  /\ skewed' = skewed \cup got
  /\ torn' = FALSE
  /\ fresh' = [d \in Dir |-> 0]
  /\ UNCHANGED <<counter, packets, pps, pps_history, passed, owed, span, spoilt, real>>

\* A file cannot be opened: monitorIO returns -1.
OpenFails ==
  /\ pc # "sleep"
  /\ Trouble
  /\ pc' = "sleep"
  /\ last' = [d \in Dir |-> 0]
  /\ got' = {}
  /\ skewed' = skewed \cup got
  /\ torn' = FALSE
  /\ fresh' = [d \in Dir |-> 0]
  /\ UNCHANGED <<counter, packets, age, pps, pps_history, passed, owed, span, spoilt,
                 real>>

\* All arithmetic on counters is unsigned.
Since(d) == (packets[d] - last[d]) % Width

\* Packets that no rate has counted when this call has read the counter d.
Owing(d) == IF owed[d] = All THEN All ELSE owed[d] + passed[d] - fresh[d]

Due(d) == IF d \in got THEN Owing(d) ELSE 0

\* What this sample should say: packets counted once, over the time since the
\* last complete one.
Truth ==
  IF torn THEN Unknown
  ELSE [pkts  |-> IF span = Epoch THEN All
                  ELSE passed["rx"] - fresh["rx"] + passed["tx"] - fresh["tx"],
        due   |-> Due("rx") + Due("tx"),
        time  |-> span,
        exact |-> got \cap skewed = {}]

\* All files are read: the timestamp and the rates.
Sampled ==
  /\ pc = "bytes"
  /\ pc' = "sleep"
  /\ age' = 0
  /\ pps_history' = pps
  /\ pps' = [pkts |-> (Since("rx") + Since("tx")) % Width, time |-> age]
  /\ last' = [d \in Dir |-> 0]
  /\ passed' = fresh
  /\ fresh' = [d \in Dir |-> 0]
  /\ owed' = [d \in Dir |-> IF d \in got THEN 0 ELSE Owing(d)]
  /\ got' = {}
  /\ span' = 0
  /\ skewed' = skewed \ got
  /\ real' = <<Truth, real[1]>>
  /\ torn' = FALSE
  /\ UNCHANGED <<counter, packets, spoilt, trouble>>

Next ==
  \/ \E D \in Traffic : Tick(D)
  \/ VfReset
  \/ SetVmInfo
  \/ ReadRx
  \/ ReadTx
  \/ OpenFails
  \/ Sampled

Spec == Init /\ [][Next]_vars

-----------------------------------------------------------------------------
(***************************************************************************)
(* analyzeIOState.                                                         *)
(***************************************************************************)
\* r is lower than s.
Slower(r, s) == r.pkts * s.time < s.pkts * r.time

\* Mutant: the weights do not add up to one.
Smoothed_Unweighted ==
  [pkts |-> 40 * pps_history.pkts * pps.time + 85 * pps.pkts * pps_history.time,
   time |-> 100 * pps.time * pps_history.time]

\* A falling rate is smoothed by SMOOTH_DEC_FACTOR, any other by SMOOTH_FACTOR.
Smoothed ==
  LET factor == IF Slower(pps, pps_history) THEN 85 ELSE 40
  IN  [pkts |-> factor * pps_history.pkts * pps.time
                  + (100 - factor) * pps.pkts * pps_history.time,
       time |-> 100 * pps.time * pps_history.time]

Threshold == [pkts |-> io_threshold, time |-> 1]

IOState ==
  IF Slower(Threshold, Smoothed) THEN "IO_STAT"
  ELSE IF Slower(Smoothed, Threshold) THEN "OTHER_STAT" ELSE "none"

-----------------------------------------------------------------------------
(***************************************************************************)
(* What the samples and the verdict promise.                               *)
(***************************************************************************)

\* Every packet is in the rate of its period, or of the first later sample
\* whose fscanf finds the counter: none is counted twice, none that arrived
\* between two reads is lost, and counters may wrap.  A call that fails halfway
\* only makes the next rate too low (its packets are lost, its time is not).
\* Exempt are samples over which the VF was reset.
RatesReal ==
  \A i \in 1..2 :
    LET r == IF i = 1 THEN pps ELSE pps_history
    IN  real[i].time # 0 =>
          /\ r.time = real[i].time
          /\ r.pkts <= real[i].due
          /\ real[i].exact => r.pkts = real[i].due

\* The verdict needs two real samples, and then is no invention of the
\* smoothing: a VM is I/O intensive only if it was in one of the two periods,
\* or a rate carries packets of an earlier one; it is not only if it was not in
\* one of the two, or a rate lacks packets.  What preceded them, an
\* uninitialised rate or a reset of the VF, is forgotten.
VerdictSound ==
  \A s \in {IOState} :
    pc = "sleep" /\ real[1].time # 0 /\ real[2].time # 0 =>
      /\ s = "IO_STAT" =>
           \E i \in 1..2 : Slower(Threshold, real[i]) \/ real[i].due > real[i].pkts
      /\ s = "OTHER_STAT" =>
           \E i \in 1..2 :
             Slower(real[i], Threshold) \/ ~real[i].exact \/ real[i].due < real[i].pkts

=============================================================================

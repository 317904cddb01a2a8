----------------------------- MODULE CpuMonitor -----------------------------
(***************************************************************************)
(* One line of /proc/stat and what Cpu_monitor (src/Cpu_monitor.cpp) makes *)
(* of it: the usage of the cpu the line stands for, which perform sorts    *)
(* cpus by and the strategy takes for the usage of the VM on that cpu.     *)
(*                                                                         *)
(* Four counters stand for the ten: of those that are checked before they  *)
(* are subtracted, total_user and total_guest; of those that are not,      *)
(* total_iowait, which the kernel lets decrease, and total_idle.  The      *)
(* percent is a pair: busy jiffies over all jiffies.                       *)
(***************************************************************************)
EXTENDS Integers

CONSTANTS
  Width,     \* the counters are modulo Width: 2^64 in the code
  MaxJiffies \* bound: jiffies between two samples

ASSUME WidthAssumption == {Width, MaxJiffies} \subseteq Nat \ {0} /\ 2 * MaxJiffies < Width

Counter == {"user", "guest", "iowait", "idle"}
Checked == {"user", "guest"}

VARIABLES
  stat,      \* the counters of the line
  stored,    \* the Cpu_stat of the line
  usage,     \* this line's entry of cpu_usage in this pass of the main loop
  spent,     \* history: jiffies since the last sample, per counter
  disturbed  \* history: what else befell the line since the last sample

vars == <<stat, stored, usage, spent, disturbed>>

None == [busy |-> 0, total |-> -1]     \* the pass has not looked yet
Empty == [busy |-> 0, total |-> -2]    \* the vector is empty
Skipped == [busy |-> 0, total |-> 1]
Zero == [k \in Counter |-> 0]

TypeOK ==
  /\ stat \in [Counter -> 0..(Width - 1)]
  /\ stored \in [Counter -> 0..(Width - 1)]
  /\ usage \in {None, Empty} \/ (usage.busy \in 0..(Width - 1) /\ usage.total \in 0..(Width - 1))
  /\ spent \in [Counter -> 0..MaxJiffies]
  /\ disturbed \subseteq {"wrap", "dip", "shift"}

\* init_cpu_monitor.
Init ==
  /\ stat \in {[k \in Counter |-> n] : n \in {0, Width - 1}}
  /\ stored = stat
  /\ usage = None
  /\ spent = Zero
  /\ disturbed = {}

-----------------------------------------------------------------------------
(***************************************************************************)
(* The kernel, between two samples.                                        *)
(***************************************************************************)
Jiffies == spent["user"] + spent["iowait"] + spent["idle"]

\* A jiffy goes by; one spent in a guest is counted as user time as well.
Jiffy(kind) ==
  LET K == IF kind = "guest" THEN Checked ELSE {kind}
  IN  /\ usage = None
      /\ Jiffies < MaxJiffies
      /\ stat' = [k \in Counter |-> IF k \in K THEN (stat[k] + 1) % Width ELSE stat[k]]
      /\ spent' = [k \in Counter |-> IF k \in K THEN spent[k] + 1 ELSE spent[k]]
      /\ disturbed' = disturbed \cup
           (IF \E k \in K \cap Checked : stat[k] = Width - 1 THEN {"wrap"} ELSE {})
      /\ UNCHANGED <<stored, usage>>

\* The iowait counter is known to step back.
IowaitDips ==
  /\ usage = None
  /\ "dip" \notin disturbed
  /\ stat["iowait"] > 0
  /\ stat' = [stat EXCEPT !["iowait"] = @ - 1]
  /\ disturbed' = disturbed \cup {"dip"}
  /\ UNCHANGED <<stored, usage, spent>>

\* A cpu goes off or on: the lines after its own move up or down, so that this
\* one now is another cpu's.
LineShifts ==
  /\ usage = None
  /\ "shift" \notin disturbed
  /\ stat' \in {[k \in Counter |-> n] : n \in {0, Width - 1}}
  /\ disturbed' = disturbed \cup {"shift"}
  /\ UNCHANGED <<stored, usage, spent>>

-----------------------------------------------------------------------------
(***************************************************************************)
(* get_cpu_usage.                                                          *)
(***************************************************************************)

\* usage is cleared before /proc/stat is opened.
OpenFails ==
  /\ usage = None
  /\ usage' = Empty
  /\ UNCHANGED <<stat, stored, spent, disturbed>>

\* A counter that stepped back is taken for an overflow.
Overflow == \E k \in Checked : stat[k] < stored[k]

\* Mutant: the operands are swapped.
Since_Swapped(k) == (stored[k] - stat[k]) % Width

Since(k) == (stat[k] - stored[k]) % Width

\* Mutant: differences are signed.
Busy_Signed == stat["user"] - stored["user"] + Since("guest") + Since("iowait")

Busy == (Since("user") + Since("guest") + Since("iowait")) % Width

\* Mutant: a line that is skipped is not stored.
Sample_NotStored ==
  /\ usage = None
  /\ usage' = IF Overflow THEN Skipped
              ELSE [busy |-> Busy, total |-> (Busy + Since("idle")) % Width]
  /\ stored' = IF Overflow THEN stored ELSE stat
  /\ spent' = Zero
  /\ disturbed' = {}
  /\ UNCHANGED stat

\* The line is stored whatever becomes of it.
Sample ==
  /\ usage = None
  /\ usage' = IF Overflow THEN Skipped
              ELSE [busy |-> Busy, total |-> (Busy + Since("idle")) % Width]
  /\ stored' = stat
  /\ spent' = Zero
  /\ disturbed' = {}
  /\ UNCHANGED stat

\* The pass is over; the next one clears the vector.
PassEnds ==
  /\ usage # None
  /\ usage' = None
  /\ UNCHANGED <<stat, stored, spent, disturbed>>

Next ==
  \/ \E kind \in Counter : Jiffy(kind)
  \/ IowaitDips
  \/ LineShifts
  \/ OpenFails
  \/ Sample
  \/ PassEnds

Spec == Init /\ [][Next]_vars

-----------------------------------------------------------------------------
(***************************************************************************)
(* What a sample promises.                                                 *)
(***************************************************************************)
InUse == spent["user"] + spent["iowait"]

\* Usage is about the time since the last sample that worked, whichever of the
\* counters wrapped and whatever became of the samples before: it is exactly
\* the share of busy jiffies while no guest runs, and guest time, counted
\* twice, only raises it.
UsageTrue ==
  [][Sample /\ disturbed = {} =>
       /\ usage'.total = Jiffies + spent["guest"]
       /\ usage'.busy = InUse + spent["guest"]
       /\ InUse * usage'.total <= usage'.busy * Jiffies]_vars

\* A percent above 100 has one of two causes: iowait stepped back, or the line
\* has become another cpu's.  A wrapping counter is not one.
PercentBounded ==
  [][Sample /\ usage'.busy > usage'.total => disturbed \cap {"dip", "shift"} # {}]_vars

=============================================================================

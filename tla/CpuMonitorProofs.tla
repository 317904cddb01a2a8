-------------------------- MODULE CpuMonitorProofs --------------------------
(***************************************************************************)
(* What a sample of Cpu_monitor promises, for counters of every width.     *)
(***************************************************************************)
EXTENDS CpuMonitor, TLAPS

\* Arithmetic modulo Width.
LEMMA ModSmall ==
  ASSUME NEW w \in Nat, NEW x \in 0..(w - 1)
  PROVE  x % w = x
  BY SMT

LEMMA ModNegative ==
  ASSUME NEW w \in Nat, NEW x \in 1..w
  PROVE  (-x) % w = w - x
  BY SMT

LEMMA ModItself ==
  ASSUME NEW w \in Nat \ {0}
  PROVE  w % w = 0
  BY SMT

LEMMA ModRange ==
  ASSUME NEW w \in Nat \ {0}, NEW x \in Int
  PROVE  x % w \in 0..(w - 1)
  BY SMT

-----------------------------------------------------------------------------
(***************************************************************************)
(* The inductive invariant.  A counter is its stored value and the jiffies *)
(* since, less Width if it wrapped; of the checked counters a wrap is on   *)
(* record.  No counter wraps twice between two samples: MaxJiffies is less *)
(* than Width.                                                             *)
(***************************************************************************)
Apart(k) == stat[k] - stored[k]

CpuInv ==
  /\ TypeOK
  /\ spent["guest"] <= spent["user"]
  /\ Jiffies <= MaxJiffies
  /\ disturbed \cap {"dip", "shift"} = {} =>
       /\ \A k \in Counter : Apart(k) \in {spent[k], spent[k] - Width}
       /\ "wrap" \notin disturbed => \A k \in Checked : Apart(k) = spent[k]

LEMMA CpuInvInit == Init => CpuInv
<1> SUFFICES ASSUME Init PROVE CpuInv
  OBVIOUS
<1>1. 0 \in 0..MaxJiffies /\ Width \in Nat /\ Width > 0 /\ MaxJiffies \in Nat
  BY WidthAssumption
<1>2. stat \in [Counter -> 0..(Width - 1)]
  BY <1>1 DEF Init
<1>3. spent \in [Counter -> 0..MaxJiffies] /\ \A k \in Counter : spent[k] = 0
  BY <1>1 DEF Init, Zero
<1>4. TypeOK
  BY <1>1, <1>2, <1>3 DEF Init, TypeOK
<1>5. \A k \in Counter : Apart(k) = spent[k]
  BY <1>1, <1>2, <1>3 DEF Init, Apart
<1> QED
  BY <1>1, <1>3, <1>4, <1>5 DEF CpuInv, Jiffies, Counter, Checked

LEMMA JiffyKeeps ==
  ASSUME CpuInv, NEW kind \in Counter, Jiffy(kind)
  PROVE  CpuInv'
<1> DEFINE K == IF kind = "guest" THEN Checked ELSE {kind}
<1>1. Width \in Nat /\ MaxJiffies \in Nat /\ 2 * MaxJiffies < Width
  BY WidthAssumption
<1>2. /\ stat \in [Counter -> 0..(Width - 1)] /\ stored \in [Counter -> 0..(Width - 1)]
      /\ spent \in [Counter -> 0..MaxJiffies]
      /\ spent["guest"] <= spent["user"] /\ Jiffies < MaxJiffies
  BY DEF CpuInv, TypeOK, Jiffy
<1>3. K \subseteq Counter /\ K # {}
  BY DEF Counter, Checked
<1>4. /\ stat' = [k \in Counter |-> IF k \in K THEN (stat[k] + 1) % Width ELSE stat[k]]
      /\ spent' = [k \in Counter |-> IF k \in K THEN spent[k] + 1 ELSE spent[k]]
      /\ disturbed' = disturbed \cup
           (IF \E k \in K \cap Checked : stat[k] = Width - 1 THEN {"wrap"} ELSE {})
      /\ stored' = stored /\ usage' = usage
  BY DEF Jiffy
<1>5. /\ "guest" \in K => "user" \in K
      /\ "user" \in K => "iowait" \notin K /\ "idle" \notin K
      /\ "iowait" \in K => "user" \notin K /\ "idle" \notin K /\ "guest" \notin K
      /\ "idle" \in K => "user" \notin K /\ "iowait" \notin K /\ "guest" \notin K
  BY DEF Counter, Checked
<1> HIDE DEF K
<1>6. \A k \in Counter : spent[k] \in 0..MaxJiffies
  BY <1>2
<1>7. \A k \in {"user", "guest", "iowait", "idle"} :
        spent'[k] = IF k \in K THEN spent[k] + 1 ELSE spent[k]
  BY <1>4 DEF Counter
<1>8. spent'["guest"] <= spent'["user"] /\ Jiffies' <= MaxJiffies
      /\ \A k \in Counter : spent'[k] \in 0..MaxJiffies
  <2>1. /\ spent["user"] \in Nat /\ spent["guest"] \in Nat
        /\ spent["iowait"] \in Nat /\ spent["idle"] \in Nat
    BY <1>2 DEF Counter
  <2>2. spent["user"] + spent["iowait"] + spent["idle"] < MaxJiffies
    BY <1>2 DEF Jiffies
  <2>3. spent'["guest"] <= spent'["user"]
    BY <1>1, <1>2, <1>5, <1>7, <2>1
  <2>4. spent'["user"] + spent'["iowait"] + spent'["idle"] <= MaxJiffies
    BY <1>1, <1>5, <1>7, <2>1, <2>2
  <2>5. \A k \in Counter : spent'[k] \in 0..MaxJiffies
    BY <1>1, <1>2, <1>5, <1>7, <2>1, <2>2 DEF Counter
  <2> QED
    BY <2>3, <2>4, <2>5 DEF Jiffies
<1>9. ASSUME NEW k \in Counter, k \in K
      PROVE  /\ stat[k] = Width - 1 => stat'[k] = 0
             /\ stat[k] # Width - 1 => stat'[k] = stat[k] + 1
  <2>1. stat[k] \in 0..(Width - 1) /\ stat'[k] = (stat[k] + 1) % Width
    BY <1>2, <1>4, <1>9
  <2>2. CASE stat[k] = Width - 1
    BY <1>1, <2>1, <2>2, ModItself
  <2>3. CASE stat[k] # Width - 1
    BY <1>1, <2>1, <2>3, ModSmall
  <2> QED
    BY <1>1, <2>1, <2>2, <2>3
<1>10. ASSUME NEW k \in Counter, k \notin K PROVE stat'[k] = stat[k]
  BY <1>4, <1>10
<1>11. stat' \in [Counter -> 0..(Width - 1)]
  <2>1. \A k \in Counter : stat'[k] \in 0..(Width - 1)
    BY <1>1, <1>2, <1>9, <1>10
  <2> QED
    BY <1>4, <2>1
<1>12. spent' \in [Counter -> 0..MaxJiffies]
  BY <1>4, <1>8
<1>13. TypeOK'
  BY <1>4, <1>11, <1>12 DEF CpuInv, TypeOK
<1>14. ASSUME disturbed' \cap {"dip", "shift"} = {}
       PROVE  /\ \A k \in Counter : Apart(k)' \in {spent'[k], spent'[k] - Width}
              /\ "wrap" \notin disturbed' => \A k \in Checked : Apart(k)' = spent'[k]
  <2>1. disturbed \cap {"dip", "shift"} = {}
    BY <1>4, <1>14
  <2>2. /\ \A k \in Counter : Apart(k) \in {spent[k], spent[k] - Width}
        /\ "wrap" \notin disturbed => \A k \in Checked : Apart(k) = spent[k]
    BY <2>1 DEF CpuInv
  <2>3. ASSUME NEW k \in Counter
        PROVE  stat'[k] - stored'[k] \in {spent'[k], spent'[k] - Width}
    <3>1. stat[k] \in 0..(Width - 1) /\ stored[k] \in 0..(Width - 1) /\ stored' = stored
          /\ spent[k] \in 0..MaxJiffies
      BY <1>2, <1>4
    <3>2. stat[k] - stored[k] \in {spent[k], spent[k] - Width}
      BY <2>2 DEF Apart
    <3>3. CASE k \in K
      <4>1. spent'[k] = spent[k] + 1 /\ spent'[k] \in 0..MaxJiffies
        BY <1>4, <1>8, <3>3
      <4> QED
        BY <1>1, <1>9, <3>1, <3>2, <3>3, <4>1
    <3>4. CASE k \notin K
      BY <1>4, <1>10, <3>1, <3>2, <3>4
    <3> QED
      BY <3>3, <3>4
  <2>4. ASSUME "wrap" \notin disturbed', NEW k \in Checked
        PROVE  stat'[k] - stored'[k] = spent'[k]
    <3>1. "wrap" \notin disturbed /\ (k \in K => stat[k] # Width - 1)
      BY <1>4, <2>4
    <3>2. k \in Counter
      BY DEF Counter, Checked
    <3>3. stat[k] - stored[k] = spent[k]
      BY <2>2, <3>1 DEF Apart
    <3>4. stat[k] \in 0..(Width - 1) /\ stored[k] \in 0..(Width - 1) /\ stored' = stored
          /\ spent[k] \in 0..MaxJiffies
      BY <1>2, <1>4, <3>2
    <3>5. CASE k \in K
      BY <1>1, <1>4, <1>9, <3>1, <3>2, <3>3, <3>4, <3>5
    <3>6. CASE k \notin K
      BY <1>4, <1>10, <3>2, <3>3, <3>4, <3>6
    <3> QED
      BY <3>5, <3>6
  <2> QED
    BY <2>3, <2>4 DEF Apart
<1> QED
  BY <1>8, <1>13, <1>14 DEF CpuInv

\* The other steps of the kernel are on record.
LEMMA DisturbanceKeeps ==
  ASSUME CpuInv, IowaitDips \/ LineShifts
  PROVE  CpuInv'
<1>1. Width \in Nat /\ Width > 0 /\ stat \in [Counter -> 0..(Width - 1)]
  BY WidthAssumption DEF CpuInv, TypeOK
<1>2. stat' \in [Counter -> 0..(Width - 1)]
  <2>1. CASE IowaitDips
    <3>1. stat["iowait"] - 1 \in 0..(Width - 1)
      BY <1>1, <2>1 DEF IowaitDips, Counter
    <3> QED
      BY <1>1, <2>1, <3>1 DEF IowaitDips
  <2>2. CASE LineShifts
    BY <1>1, <2>2 DEF LineShifts
  <2> QED
    BY <2>1, <2>2
<1>3. /\ disturbed' \subseteq {"wrap", "dip", "shift"} /\ disturbed' \cap {"dip", "shift"} # {}
      /\ UNCHANGED <<stored, usage, spent>>
  BY DEF IowaitDips, LineShifts, CpuInv, TypeOK
<1>4. TypeOK'
  BY <1>2, <1>3 DEF CpuInv, TypeOK
<1> QED
  BY <1>3, <1>4 DEF CpuInv, Jiffies

LEMMA SampleKeeps ==
  ASSUME CpuInv, Sample
  PROVE  CpuInv'
<1>1. Width \in Nat \ {0} /\ MaxJiffies \in Nat
  BY WidthAssumption
<1>2. /\ stat \in [Counter -> 0..(Width - 1)] /\ stored \in [Counter -> 0..(Width - 1)]
      /\ stat' = stat /\ stored' = stat /\ spent' = Zero /\ disturbed' = {}
  BY DEF CpuInv, TypeOK, Sample
<1>3. \A k \in Counter : Since(k) \in 0..(Width - 1)
  BY <1>1, <1>2, ModRange DEF Since
<1>4. Busy \in 0..(Width - 1) /\ (Busy + Since("idle")) % Width \in 0..(Width - 1)
  <2>1. \A k \in {"user", "guest", "iowait", "idle"} : Since(k) \in 0..(Width - 1)
    BY <1>3 DEF Counter
  <2>2. Since("user") + Since("guest") + Since("iowait") \in Int
    BY <1>1, <2>1
  <2>3. Busy \in 0..(Width - 1)
    BY <1>1, <2>2, ModRange DEF Busy
  <2>4. Busy + Since("idle") \in Int
    BY <1>1, <2>1, <2>3
  <2> QED
    BY <1>1, <2>3, <2>4, ModRange
<1>5. 2 * MaxJiffies < Width
  BY WidthAssumption
<1>6. spent' \in [Counter -> 0..MaxJiffies] /\ \A k \in Counter : spent'[k] = 0
  BY <1>1, <1>2 DEF Zero
<1>7. TypeOK'
  <2>1. CASE Overflow
    <3>1. 0 \in 0..(Width - 1) /\ 1 \in 0..(Width - 1)
      BY <1>1, <1>5, WidthAssumption
    <3>2. usage'.busy = 0 /\ usage'.total = 1
      BY <2>1 DEF Sample, Skipped
    <3> QED
      BY <1>2, <1>6, <3>1, <3>2 DEF TypeOK
  <2>2. CASE ~Overflow
    BY <1>2, <1>4, <1>6, <2>2 DEF TypeOK, Sample
  <2> QED
    BY <2>1, <2>2
<1>8. \A k \in Counter : stat'[k] - stored'[k] = spent'[k]
  BY <1>1, <1>2, <1>6
<1> QED
  BY <1>1, <1>6, <1>7, <1>8 DEF CpuInv, Jiffies, Counter, Checked, Apart

LEMMA CpuInvStep ==
  ASSUME CpuInv, [Next]_vars
  PROVE  CpuInv'
<1>1. CASE OpenFails \/ PassEnds \/ UNCHANGED vars
  <2>1. UNCHANGED <<stat, stored, spent, disturbed>> /\ (usage' = usage \/ usage' \in {None, Empty})
    BY <1>1 DEF OpenFails, PassEnds, vars
  <2>2. TypeOK'
    BY <2>1 DEF CpuInv, TypeOK
  <2> QED
    BY <2>1, <2>2 DEF CpuInv, Jiffies, Apart
<1> QED
  BY <1>1, JiffyKeeps, DisturbanceKeeps, SampleKeeps DEF Next

\* Every counter is known from its stored value and the jiffies since.
THEOREM CpuInvariant == Spec => []CpuInv
  BY CpuInvInit, CpuInvStep, PTL DEF Spec

\* The line's counters and the usages computed from them stay in range.
THEOREM CpuTyped == Spec => []TypeOK
<1>1. CpuInv => TypeOK
  BY DEF CpuInv
<1> QED
  BY CpuInvariant, <1>1, PTL

-----------------------------------------------------------------------------
(***************************************************************************)
(* Unsigned subtraction undoes a wrap, so a sample sees the jiffies spent. *)
(***************************************************************************)
LEMMA SeesSpent ==
  ASSUME CpuInv, disturbed \cap {"dip", "shift"} = {}
  PROVE  /\ \A k \in Counter : Since(k) = spent[k] /\ spent[k] \in Nat
         /\ Busy = InUse + spent["guest"]
         /\ (Busy + Since("idle")) % Width = Jiffies + spent["guest"]
         /\ InUse \in Nat /\ Jiffies \in Nat /\ InUse <= Jiffies
<1>1. Width \in Nat \ {0} /\ MaxJiffies \in Nat /\ 2 * MaxJiffies < Width
  BY WidthAssumption
<1>2. ASSUME NEW k \in Counter
      PROVE  Since(k) = spent[k] /\ spent[k] \in 0..MaxJiffies
  <2>1. stat[k] \in 0..(Width - 1) /\ stored[k] \in 0..(Width - 1) /\ spent[k] \in 0..MaxJiffies
    BY DEF CpuInv, TypeOK
  <2>2. stat[k] - stored[k] \in {spent[k], spent[k] - Width}
    BY DEF CpuInv, Apart
  <2>3. CASE stat[k] - stored[k] = spent[k]
    <3>1. spent[k] \in 0..(Width - 1)
      BY <1>1, <2>1
    <3> QED
      BY <1>1, <2>1, <2>3, <3>1, ModSmall DEF Since
  <2>4. CASE stat[k] - stored[k] = spent[k] - Width
    <3>1. Width - spent[k] \in 1..Width /\ stat[k] - stored[k] = -(Width - spent[k])
      BY <1>1, <2>1, <2>4
    <3>2. (-(Width - spent[k])) % Width = Width - (Width - spent[k])
      BY <1>1, <3>1, ModNegative
    <3> QED
      BY <1>1, <2>1, <3>1, <3>2 DEF Since
  <2> QED
    BY <2>1, <2>2, <2>3, <2>4
<1>3. \A k \in {"user", "guest", "iowait", "idle"} :
        Since(k) = spent[k] /\ spent[k] \in Nat
  BY <1>1, <1>2 DEF Counter
<1>4. /\ spent["user"] + spent["iowait"] + spent["idle"] <= MaxJiffies
      /\ spent["guest"] <= spent["user"]
  BY DEF CpuInv, Jiffies
<1>5. spent["user"] + spent["guest"] + spent["iowait"] \in 0..(Width - 1)
  BY <1>1, <1>3, <1>4
<1>6. Busy = spent["user"] + spent["guest"] + spent["iowait"]
  BY <1>1, <1>3, <1>5, ModSmall DEF Busy
<1>7. Busy + Since("idle") \in 0..(Width - 1)
  BY <1>1, <1>3, <1>4, <1>6
<1>8. (Busy + Since("idle")) % Width = Busy + Since("idle")
  BY <1>1, <1>7, ModSmall
<1> QED
  BY <1>1, <1>2, <1>3, <1>4, <1>6, <1>8 DEF InUse, Jiffies

LEMMA SampleIsTrue ==
  ASSUME CpuInv, Sample, disturbed = {}
  PROVE  /\ usage'.total = Jiffies + spent["guest"]
         /\ usage'.busy = InUse + spent["guest"]
         /\ InUse * usage'.total <= usage'.busy * Jiffies
<1>1. Width \in Nat /\ MaxJiffies \in Nat
  BY WidthAssumption
<1>2. ~Overflow
  <2> SUFFICES ASSUME NEW k \in Checked PROVE ~(stat[k] < stored[k])
    BY DEF Overflow
  <2>1. k \in Counter
    BY DEF Checked, Counter
  <2>2. stat[k] \in 0..(Width - 1) /\ stored[k] \in 0..(Width - 1) /\ spent[k] \in 0..MaxJiffies
    BY <2>1 DEF CpuInv, TypeOK
  <2>3. stat[k] - stored[k] = spent[k]
    BY DEF CpuInv, Apart
  <2> QED
    BY <1>1, <2>2, <2>3
<1>3. usage' = [busy |-> Busy, total |-> (Busy + Since("idle")) % Width]
  BY <1>2 DEF Sample
<1>4. /\ usage'.total = Jiffies + spent["guest"]
      /\ usage'.busy = InUse + spent["guest"]
  BY <1>3, SeesSpent
<1>5. spent["guest"] \in Nat /\ InUse \in Nat /\ Jiffies \in Nat /\ InUse <= Jiffies
  BY SeesSpent DEF Counter
<1>6. ASSUME NEW i \in Nat, NEW j \in Nat, NEW g \in Nat, i <= j
      PROVE  i * (j + g) <= (i + g) * j
  <2>1. i * g <= g * j
    BY <1>6
  <2>2. i * (j + g) = i * j + i * g /\ (i + g) * j = i * j + g * j
    OBVIOUS
  <2>3. i * j \in Nat /\ i * g \in Nat /\ g * j \in Nat
    OBVIOUS
  <2> HIDE <1>6
  <2> QED
    BY <2>1, <2>2, <2>3
<1> QED
  BY <1>4, <1>5, <1>6

\* The usage of a line that only its own cpu counted in is that of the time
\* since the last sample, and guest time only raises it.
THEOREM UsageIsTrue == Spec => UsageTrue
<1> DEFINE A ==
      Sample /\ disturbed = {} =>
        /\ usage'.total = Jiffies + spent["guest"]
        /\ usage'.busy = InUse + spent["guest"]
        /\ InUse * usage'.total <= usage'.busy * Jiffies
<1>1. CpuInv /\ [Next]_vars => [A]_vars
  BY SampleIsTrue
<1> QED
  BY CpuInvariant, <1>1, PTL DEF Spec, UsageTrue

\* No wrap makes a percent exceed 100.
THEOREM PercentsBounded == Spec => PercentBounded
<1> DEFINE A ==
      Sample /\ usage'.busy > usage'.total => disturbed \cap {"dip", "shift"} # {}
<1>1. ASSUME CpuInv, Sample, disturbed \cap {"dip", "shift"} = {}
      PROVE  ~(usage'.busy > usage'.total)
  <2>1. CASE Overflow
    BY <1>1, <2>1 DEF Sample, Skipped
  <2>2. CASE ~Overflow
    <3>1. usage' = [busy |-> Busy, total |-> (Busy + Since("idle")) % Width]
      BY <1>1, <2>2 DEF Sample
    <3>2. usage'.busy = InUse + spent["guest"] /\ usage'.total = Jiffies + spent["guest"]
      BY <1>1, <3>1, SeesSpent
    <3>3. spent["guest"] \in Nat /\ InUse \in Nat /\ Jiffies \in Nat /\ InUse <= Jiffies
      BY <1>1, SeesSpent DEF Counter
    <3> QED
      BY <3>2, <3>3
  <2> QED
    BY <2>1, <2>2
<1>2. CpuInv /\ [Next]_vars => [A]_vars
  BY <1>1
<1> QED
  BY CpuInvariant, <1>2, PTL DEF Spec, PercentBounded

=============================================================================

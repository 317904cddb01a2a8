--------------------------- MODULE IOMonitorProofs ---------------------------
(***************************************************************************)
(* Theorems about monitorIO and analyzeIOState: for counters of every      *)
(* width, every threshold and every load the bounds admit, the rates are   *)
(* those of their periods and the verdict follows from them.               *)
(***************************************************************************)
EXTENDS IOMonitor, TLAPS

LEMMA Bounds ==
  /\ Width \in Nat \ {0} /\ MaxAge \in Nat /\ MaxPassed \in Nat /\ io_threshold \in Nat
  /\ Epoch \in Nat /\ MaxAge < Epoch /\ 2 * MaxPassed < Width
  /\ 0 < MaxPassed /\ All \in Nat /\ All = Width - 1 /\ MaxPassed < All
  BY BoundsAssumption, WidthAssumption, ThresholdAssumption DEF All

-----------------------------------------------------------------------------
(***************************************************************************)
(* Counters that wrap.                                                     *)
(***************************************************************************)
Value == 0..(Width - 1)

\* How far b has to count to become a.
Gap(a, b) == IF a >= b THEN a - b ELSE a - b + Width

\* Gap is the code's unsigned subtraction.
LEMMA GapIsDifference ==
  ASSUME NEW a \in Value, NEW b \in Value
  PROVE  (a - b) % Width = Gap(a, b) /\ Gap(a, b) \in Value
<1>1. Width \in Nat \ {0}
  BY Bounds
<1>2. \A w \in Nat \ {0} : \A x, y \in 0..(w - 1) :
        (x - y) % w = IF x >= y THEN x - y ELSE x - y + w
  BY SMT
<1> QED
  BY <1>1, <1>2 DEF Gap, Value

LEMMA Increment ==
  ASSUME NEW a \in Value
  PROVE  /\ (a + 1) % Width = IF a = Width - 1 THEN 0 ELSE a + 1
         /\ (a + 1) % Width \in Value
<1>1. Width \in Nat \ {0}
  BY Bounds
<1>2. \A w \in Nat \ {0} : \A x \in 0..(w - 1) :
        (x + 1) % w = IF x = w - 1 THEN 0 ELSE x + 1
  BY SMT
<1> QED
  BY <1>1, <1>2 DEF Value

\* One more packet, one more in the gap, unless it was as wide as can be.
LEMMA GapGrows ==
  ASSUME NEW a \in Value, NEW b \in Value, Gap(a, b) < Width - 1
  PROVE  Gap((a + 1) % Width, b) = Gap(a, b) + 1
<1>1. (a + 1) % Width = IF a = Width - 1 THEN 0 ELSE a + 1
  BY Increment
<1>2. Width \in Nat \ {0}
  BY Bounds
<1> QED
  BY <1>1, <1>2 DEF Gap, Value

\* The sum of two small differences does not wrap.
LEMMA SumFits ==
  ASSUME NEW a \in 0..MaxPassed, NEW b \in 0..MaxPassed
  PROVE  (a + b) % Width = a + b
<1>1. \A w \in Nat \ {0} : \A x \in 0..(w - 1) : x % w = x
  BY SMT
<1>2. Width \in Nat \ {0} /\ a + b \in 0..(Width - 1)
  BY Bounds
<1> QED
  BY <1>1, <1>2

-----------------------------------------------------------------------------
(***************************************************************************)
(* The invariant.  A counter this call has found is as far ahead of its    *)
(* stored value as packets have passed since; any other is at most as far  *)
(* ahead as packets are still to be counted, and exactly so unless a call  *)
(* that failed has stored some of them; what was stored when the call      *)
(* began was behind what it has found by what the sample owes; and where   *)
(* the call found nothing, nothing was stored.                             *)
(***************************************************************************)
ReadDirs == CASE pc = "sleep" -> {} [] pc = "tx" -> {"rx"} [] OTHER -> Dir

Sample == [pkts : Int, due : Int, time : Int, exact : BOOLEAN]

Shape ==
  /\ counter \in [Dir -> Value] /\ packets \in [Dir -> Value] /\ last \in [Dir -> Value]
  /\ passed \in [Dir -> 0..MaxPassed] /\ fresh \in [Dir -> 0..MaxPassed]
  /\ owed \in [Dir -> 0..MaxPassed \cup {All}]
  /\ span \in 0..MaxAge \cup {Epoch} /\ age = span
  /\ pc \in {"sleep", "tx", "bytes"} /\ (pc # "sleep" => age > 0)
  /\ got \subseteq ReadDirs
  /\ spoilt \subseteq Dir /\ torn \in BOOLEAN /\ skewed \subseteq Dir
  /\ pps \in [pkts : Value, time : Nat] /\ pps_history \in [pkts : Value, time : Nat]
  /\ pps = Garbage \/ pps.time > 0
  /\ pps_history = Garbage \/ pps_history.time > 0
  /\ real = <<real[1], real[2]>> /\ real[1] \in Sample /\ real[2] \in Sample

Counting(d) ==
  /\ span # Epoch => fresh[d] <= passed[d]
  /\ pc = "sleep" => fresh[d] = 0 /\ torn = FALSE
  /\ pc = "tx" => last["tx"] = packets["tx"]
  /\ owed[d] + passed[d] <= MaxPassed \/ (owed[d] = All /\ d \in skewed)
  /\ span = Epoch => owed[d] = All
  /\ d \notin spoilt /\ d \in got => Gap(counter[d], packets[d]) = fresh[d]
  /\ d \notin spoilt /\ d \notin got =>
       /\ Gap(counter[d], packets[d]) <= owed[d] + passed[d]
       /\ d \notin skewed => Gap(counter[d], packets[d]) = owed[d] + passed[d]
  /\ torn = FALSE /\ d \in got =>
       /\ Gap(packets[d], last[d]) <= Owing(d)
       /\ d \notin skewed => Gap(packets[d], last[d]) = Owing(d)
  /\ d \in ReadDirs \ got => last[d] = packets[d]

IOInv ==
  /\ Shape
  /\ \A d \in Dir : Counting(d)
  /\ RatesReal

\* What RatesReal says of one rate.
Agrees(rate, sample) ==
  sample.time # 0 =>
    /\ rate.time = sample.time
    /\ rate.pkts <= sample.due
    /\ sample.exact => rate.pkts = sample.due

LEMMA RatesRealIs ==
  RatesReal <=> Agrees(pps, real[1]) /\ Agrees(pps_history, real[2])
<1> DEFINE rate(i) == IF i = 1 THEN pps ELSE pps_history
<1>1. RatesReal <=> \A i \in 1..2 : Agrees(rate(i), real[i])
  BY DEF RatesReal, Agrees
<1>2. rate(1) = pps /\ rate(2) = pps_history
  OBVIOUS
<1> HIDE DEF rate
<1>3. \A i \in 1..2 : i = 1 \/ i = 2
  OBVIOUS
<1> QED
  BY <1>1, <1>2, <1>3

LEMMA IOInitially == Init => IOInv
<1> SUFFICES ASSUME Init PROVE IOInv
  OBVIOUS
<1>1. 0 \in Value /\ Width - 1 \in Value /\ 0 \in 0..MaxPassed /\ Epoch \in Nat
  BY Bounds DEF Value
<1>2. Shape
  <2>1. Unknown \in Sample /\ Garbage \in [pkts : Value, time : Nat]
    BY <1>1 DEF Unknown, Garbage, Sample
  <2>2. real = <<real[1], real[2]>> /\ real[1] \in Sample /\ real[2] \in Sample
    BY <2>1 DEF Init
  <2>3. counter \in [Dir -> Value]
    BY <1>1 DEF Init
  <2>4. /\ packets \in [Dir -> Value] /\ last \in [Dir -> Value]
        /\ passed \in [Dir -> 0..MaxPassed] /\ fresh \in [Dir -> 0..MaxPassed]
        /\ owed \in [Dir -> 0..MaxPassed \cup {All}]
    BY <1>1 DEF Init
  <2>5. /\ span = Epoch /\ age = Epoch /\ pc = "sleep" /\ spoilt = {} /\ got = {}
        /\ torn = FALSE /\ skewed = Dir /\ pps = Garbage /\ pps_history = Garbage
    BY DEF Init
  <2> QED
    BY <2>1, <2>2, <2>3, <2>4, <2>5 DEF Shape
<1>3. ASSUME NEW d \in Dir PROVE Counting(d)
  <2>1. Gap(counter[d], packets[d]) \in Value
    BY <1>2, GapIsDifference DEF Shape
  <2>2. Gap(counter[d], packets[d]) <= owed[d] + passed[d]
    BY <2>1, Bounds DEF Init, Value
  <2> QED
    BY <2>2 DEF Init, Counting, ReadDirs
<1>4. RatesReal
  BY RatesRealIs DEF Init, Agrees, Unknown
<1> QED
  BY <1>2, <1>3, <1>4 DEF IOInv

LEMMA TickKeeps ==
  ASSUME IOInv, NEW D \in Traffic, Tick(D)
  PROVE  IOInv'
<1> DEFINE next(d) == (counter[d] + 1) % Width
<1>1. /\ Shape /\ \A d \in Dir : Counting(d)
      /\ D \subseteq Dir
  BY TrafficAssumption DEF IOInv
<1>2. /\ counter' = [d \in Dir |-> IF d \in D THEN next(d) ELSE counter[d]]
      /\ passed' = IF span = Epoch THEN passed
                   ELSE [d \in Dir |-> IF d \in D THEN passed[d] + 1 ELSE passed[d]]
      /\ fresh' = IF pc = "sleep" THEN fresh
                  ELSE [d \in Dir |-> IF d \in D THEN fresh[d] + 1 ELSE fresh[d]]
      /\ age' = Later(age) /\ span' = Later(span)
      /\ packets' = packets /\ last' = last /\ pps' = pps /\ pps_history' = pps_history
      /\ pc' = pc /\ got' = got /\ owed' = owed /\ spoilt' = spoilt /\ torn' = torn
      /\ skewed' = skewed /\ real' = real
      /\ age < MaxAge \/ age = Epoch
      /\ \A d \in D : Uncounted(d) < MaxPassed /\ (span = Epoch => fresh[d] = 0)
  BY DEF Tick
<1> HIDE DEF next
<1>3. /\ counter \in [Dir -> Value] /\ packets \in [Dir -> Value] /\ last \in [Dir -> Value]
      /\ passed \in [Dir -> 0..MaxPassed] /\ fresh \in [Dir -> 0..MaxPassed]
      /\ owed \in [Dir -> 0..MaxPassed \cup {All}]
      /\ span \in 0..MaxAge \cup {Epoch} /\ age = span
  BY <1>1 DEF Shape
<1>4. /\ span' \in 0..MaxAge \cup {Epoch} /\ age' = span' /\ (age > 0 => age' > 0)
      /\ span' = Epoch <=> span = Epoch
  BY <1>2, <1>3, Bounds DEF Later
<1>5. ASSUME NEW d \in Dir
      PROVE  /\ counter'[d] = IF d \in D THEN next(d) ELSE counter[d]
             /\ passed'[d] = IF span # Epoch /\ d \in D THEN passed[d] + 1 ELSE passed[d]
             /\ fresh'[d] = IF pc # "sleep" /\ d \in D THEN fresh[d] + 1 ELSE fresh[d]
  BY <1>2, <1>3
<1>6. ASSUME NEW d \in Dir
      PROVE  /\ counter[d] \in Value /\ packets[d] \in Value /\ last[d] \in Value
             /\ passed[d] \in 0..MaxPassed /\ fresh[d] \in 0..MaxPassed
             /\ next(d) \in Value /\ owed[d] \in Nat
             /\ d \in D => /\ passed[d] < MaxPassed
                           /\ owed[d] # All => owed[d] + passed[d] < MaxPassed
  <2>1. owed[d] \in Nat
    BY <1>3, Bounds
  <2>2. d \in D => passed[d] + (IF owed[d] = All THEN 0 ELSE owed[d]) < MaxPassed
    BY <1>2 DEF Uncounted
  <2> QED
    BY <1>3, <2>1, <2>2, Increment, Bounds DEF next
<1>7. ASSUME NEW d \in Dir
      PROVE  counter'[d] \in Value /\ passed'[d] \in 0..MaxPassed /\ fresh'[d] \in 0..MaxPassed
  <2>1. d \in D => fresh[d] < MaxPassed
    BY <1>1, <1>2, <1>6, Bounds DEF Counting
  <2> QED
    BY <1>2, <1>5, <1>6, <2>1, Bounds
<1>8. /\ counter' \in [Dir -> Value] /\ passed' \in [Dir -> 0..MaxPassed]
      /\ fresh' \in [Dir -> 0..MaxPassed]
  BY <1>2, <1>3, <1>7
<1>9. Shape'
  <2>1. ReadDirs' = ReadDirs
    BY <1>2 DEF ReadDirs
  <2> QED
    BY <1>1, <1>2, <1>4, <1>8, <2>1 DEF Shape
<1>10. ASSUME NEW d \in Dir PROVE Counting(d)'
  <2>1. Counting(d)
    BY <1>1
  <2>2. ReadDirs' = ReadDirs
    BY <1>2 DEF ReadDirs
  <2>3. d \in ReadDirs => pc # "sleep"
    BY DEF ReadDirs
  <2>4. (span' # Epoch => fresh'[d] <= passed'[d]) /\ (pc' = "sleep" => fresh'[d] = 0)
    <3>1. span # Epoch => fresh[d] <= passed[d]
      BY <2>1 DEF Counting
    <3>2. pc = "sleep" => fresh[d] = 0
      BY <2>1 DEF Counting
    <3> QED
      BY <1>2, <1>4, <1>5, <1>6, <3>1, <3>2
  <2>5. ASSUME d \in D, Gap(counter[d], packets[d]) \in 0..MaxPassed
        PROVE  Gap(counter'[d], packets[d]) = Gap(counter[d], packets[d]) + 1
    <3>1. Gap(counter[d], packets[d]) < Width - 1
      BY <2>5, Bounds
    <3> QED
      BY <1>5, <1>6, <2>5, <3>1, GapGrows DEF next
  <2>6. d \in got => d \in ReadDirs
    BY <1>1 DEF Shape
  <2>7. ASSUME d \notin spoilt, d \in got
        PROVE  Gap(counter'[d], packets[d]) = fresh'[d]
    <3>1. Gap(counter[d], packets[d]) = fresh[d]
      BY <2>1, <2>7 DEF Counting
    <3> QED
      BY <1>5, <1>6, <2>3, <2>5, <2>6, <2>7, <3>1
  <2>8. /\ owed[d] # All => span # Epoch /\ owed[d] + passed[d] <= MaxPassed
        /\ owed[d] = All => d \in skewed
    BY <1>6, <2>1, Bounds DEF Counting
  <2>9. ASSUME d \notin spoilt, d \notin got
        PROVE  /\ Gap(counter'[d], packets[d]) <= owed[d] + passed'[d]
               /\ d \notin skewed => Gap(counter'[d], packets[d]) = owed[d] + passed'[d]
    <3>1. /\ Gap(counter[d], packets[d]) <= owed[d] + passed[d]
          /\ d \notin skewed => Gap(counter[d], packets[d]) = owed[d] + passed[d]
      BY <2>1, <2>9 DEF Counting
    <3>2. Gap(counter[d], packets[d]) \in Value /\ Gap(counter'[d], packets[d]) \in Value
      BY <1>6, <1>7, GapIsDifference
    <3>3. CASE owed[d] = All
      BY <1>7, <2>8, <3>2, <3>3, Bounds DEF Value
    <3>4. CASE owed[d] # All
      <4>1. Gap(counter[d], packets[d]) \in 0..MaxPassed
        BY <1>6, <2>8, <3>1, <3>2, <3>4, Bounds DEF Value
      <4> QED
        BY <1>5, <1>6, <2>5, <2>8, <3>1, <3>4, <4>1, Bounds
    <3> QED
      BY <3>3, <3>4
  <2>10. owed[d] + passed'[d] <= MaxPassed \/ (owed[d] = All /\ d \in skewed)
    <3>1. CASE owed[d] = All
      BY <2>8, <3>1
    <3>2. CASE owed[d] # All /\ d \in D
      BY <1>5, <1>6, <2>8, <3>2, Bounds
    <3>3. CASE d \notin D
      BY <1>5, <2>1, <3>3 DEF Counting
    <3> QED
      BY <3>1, <3>2, <3>3
  <2>11. d \in got => Owing(d)' = Owing(d)
    <3>1. d \in got /\ owed[d] # All => passed'[d] - fresh'[d] = passed[d] - fresh[d]
      BY <1>5, <1>6, <2>3, <2>6, <2>8
    <3>2. Owing(d)' = IF owed[d] = All THEN All ELSE owed[d] + passed'[d] - fresh'[d]
      BY <1>2 DEF Owing, All
    <3> QED
      BY <1>6, <1>7, <3>1, <3>2 DEF Owing
  <2> QED
    BY <1>2, <1>4, <2>1, <2>2, <2>4, <2>7, <2>9, <2>10, <2>11 DEF Counting, All
<1>11. RatesReal'
  BY <1>2 DEF IOInv, RatesReal
<1> QED
  BY <1>9, <1>10, <1>11 DEF IOInv

LEMMA VfResetKeeps ==
  ASSUME IOInv, VfReset
  PROVE  IOInv'
<1>1. Shape'
  BY Bounds DEF IOInv, Shape, ReadDirs, VfReset, Value, All
<1>2. ASSUME NEW d \in Dir PROVE Counting(d)'
  BY DEF IOInv, Counting, Owing, ReadDirs, VfReset, All
<1>3. RatesReal'
  BY DEF IOInv, RatesReal, VfReset
<1> QED
  BY <1>1, <1>2, <1>3 DEF IOInv

LEMMA SetVmInfoKeeps ==
  ASSUME IOInv, SetVmInfo
  PROVE  IOInv'
<1>1. Shape'
  <2>1. Unknown \in Sample /\ Garbage \in [pkts : Value, time : Nat] /\ 0 \in Value
    BY Bounds DEF Unknown, Garbage, Sample, Value
  <2>2. (real = <<real[1], real[2]>> /\ real[1] \in Sample /\ real[2] \in Sample)'
    BY <2>1 DEF SetVmInfo
  <2>3. /\ packets' \in [Dir -> Value] /\ passed' \in [Dir -> 0..MaxPassed]
        /\ owed' \in [Dir -> 0..MaxPassed \cup {All}]
    BY <2>1, Bounds DEF SetVmInfo
  <2> QED
    BY <2>1, <2>2, <2>3 DEF IOInv, Shape, ReadDirs, SetVmInfo, All
<1>2. ASSUME NEW d \in Dir PROVE Counting(d)'
  <2>1. counter[d] \in Value /\ packets'[d] = 0 /\ 0 \in Value
    BY Bounds DEF IOInv, Shape, SetVmInfo, Value
  <2>2. Gap(counter[d], packets'[d]) <= All
    <3>1. Gap(counter[d], packets'[d]) \in Value
      BY <2>1, GapIsDifference
    <3> QED
      BY <3>1, Bounds DEF Value
  <2> QED
    BY <2>2, Bounds DEF IOInv, Shape, Counting, ReadDirs, SetVmInfo, All
<1>3. RatesReal'
  <2>1. real'[1] = Unknown /\ real'[2] = Unknown
    BY DEF SetVmInfo
  <2> QED
    BY <2>1 DEF RatesReal, Unknown
<1> QED
  BY <1>1, <1>2, <1>3 DEF IOInv

\* What has been read is level with what is stored.
LEMMA GapOfEqual ==
  ASSUME NEW a \in Value
  PROVE  Gap(a, a) = 0
  BY Bounds DEF Gap, Value

\* A counter that is found is level with what is stored, and as far ahead of
\* what was stored as its sample owes; one that is not is stored as before.
LEMMA ReadKeeps ==
  ASSUME IOInv, ReadRx \/ ReadTx
  PROVE  IOInv'
<1> DEFINE r == IF pc = "sleep" THEN "rx" ELSE "tx"
<1>1. /\ Shape /\ \A d \in Dir : Counting(d)
      /\ r \in Dir
  BY DEF IOInv, Dir
<1>2. /\ fresh' = [fresh EXCEPT ![r] = 0]
      /\ counter' = counter /\ age' = age /\ pps' = pps /\ pps_history' = pps_history
      /\ passed' = passed /\ owed' = owed /\ span' = span /\ skewed' = skewed
      /\ real' = real
      /\ last' = IF pc = "sleep" THEN packets ELSE last
      /\ pc \in {"sleep", "tx"} /\ pc' = (IF pc = "sleep" THEN "tx" ELSE "bytes")
      /\ pc = "sleep" => age > 0
      /\ Found(r) \/ FoundNothing
  BY DEF ReadRx, ReadTx, Read
<1>3. r \notin ReadDirs /\ r \notin got /\ ReadDirs' = ReadDirs \cup {r}
  BY <1>1, <1>2 DEF ReadDirs, Dir, Shape
<1>4. /\ Found(r) => /\ packets' = [packets EXCEPT ![r] = counter[r]]
                     /\ got' = got \cup {r}
                     /\ torn' = (torn \/ r \in spoilt)
                     /\ spoilt' = spoilt \ {r}
      /\ FoundNothing => packets' = packets /\ got' = got /\ torn' = torn /\ spoilt' = spoilt
  BY DEF Found, FoundNothing
<1> HIDE DEF r
<1>5. Shape'
  <2>1. packets' \in [Dir -> Value]
    BY <1>1, <1>2, <1>4 DEF Shape
  <2>2. last' \in [Dir -> Value]
    BY <1>1, <1>2 DEF Shape
  <2>3. fresh' \in [Dir -> 0..MaxPassed]
    BY <1>1, <1>2, Bounds DEF Shape
  <2>4. torn' \in BOOLEAN /\ spoilt' \subseteq Dir
    BY <1>1, <1>2, <1>4 DEF Shape
  <2>5. got' \subseteq ReadDirs'
    BY <1>1, <1>2, <1>3, <1>4 DEF Shape
  <2>6. pc' \in {"sleep", "tx", "bytes"} /\ age' > 0
    BY <1>1, <1>2 DEF Shape
  <2>7. /\ counter' \in [Dir -> Value] /\ passed' \in [Dir -> 0..MaxPassed]
        /\ owed' \in [Dir -> 0..MaxPassed \cup {All'}]
        /\ span' \in 0..MaxAge \cup {Epoch} /\ age' = span' /\ skewed' \subseteq Dir
    BY <1>1, <1>2 DEF Shape, All
  <2>8. /\ pps' \in [pkts : Value, time : Nat] /\ pps_history' \in [pkts : Value, time : Nat]
        /\ pps' = Garbage \/ pps'.time > 0
        /\ pps_history' = Garbage \/ pps_history'.time > 0
        /\ real' = <<real'[1], real'[2]>> /\ real'[1] \in Sample /\ real'[2] \in Sample
    BY <1>1, <1>2 DEF Shape
  <2> QED
    BY <2>1, <2>2, <2>3, <2>4, <2>5, <2>6, <2>7, <2>8 DEF Shape
<1>6. ASSUME NEW d \in Dir PROVE Counting(d)'
  <2>1. Counting(d) /\ Counting(r)
    BY <1>1
  <2>2. /\ counter[d] \in Value /\ packets[d] \in Value /\ owed[d] \in Nat
        /\ passed[d] \in 0..MaxPassed /\ fresh[d] \in 0..MaxPassed
        /\ fresh'[d] = IF d = r THEN 0 ELSE fresh[d]
    BY <1>1, <1>2, Bounds DEF Shape
  <2>3. /\ span' # Epoch => fresh'[d] <= passed'[d]
        /\ pc' # "sleep"
        /\ owed'[d] + passed'[d] <= MaxPassed \/ (owed'[d] = All' /\ d \in skewed')
        /\ span' = Epoch => owed'[d] = All'
    BY <1>2, <2>1, <2>2 DEF Counting, All
  <2>4. pc' = "tx" => last'["tx"] = packets'["tx"]
    <3>1. pc' = "tx" => r = "rx" /\ last' = packets
      BY <1>2 DEF r
    <3>2. r = "rx" => packets'["tx"] = packets["tx"]
      BY <1>1, <1>2, <1>4 DEF Shape, Dir
    <3> QED
      BY <3>1, <3>2
  <2>5. Owing(d)' = IF owed[d] = All THEN All ELSE owed[d] + passed[d] - fresh'[d]
    BY <1>2 DEF Owing, All
  <2>6. CASE d = r
    <3>1. last'[d] = packets[d]
      <4>1. CASE pc = "sleep"
        BY <1>2, <4>1
      <4>2. CASE pc = "tx"
        BY <1>2, <2>1, <2>6, <4>2 DEF Counting, r
      <4> QED
        BY <1>2, <4>1, <4>2
    <3>2. d \notin spoilt => /\ Gap(counter[d], packets[d]) <= owed[d] + passed[d]
                             /\ d \notin skewed =>
                                  Gap(counter[d], packets[d]) = owed[d] + passed[d]
      BY <1>3, <2>1, <2>6 DEF Counting
    <3>3. CASE Found(r)
      <4>1. packets'[d] = counter[d] /\ d \in got'
        BY <1>1, <1>4, <2>6, <3>3 DEF Shape
      <4>2. Gap(counter'[d], packets'[d]) = fresh'[d]
        BY <1>2, <2>2, <2>6, <4>1, GapOfEqual
      <4>3. ASSUME torn' = FALSE
            PROVE  /\ Gap(packets'[d], last'[d]) <= Owing(d)'
                   /\ d \notin skewed' => Gap(packets'[d], last'[d]) = Owing(d)'
        <5>1. d \notin spoilt
          BY <1>4, <2>6, <3>3, <4>3
        <5>2. Gap(counter[d], packets[d]) \in Value
          BY <2>2, GapIsDifference
        <5>3. Owing(d)' = IF owed[d] = All THEN All ELSE owed[d] + passed[d]
          BY <2>2, <2>5, <2>6
        <5>4. Gap(packets'[d], last'[d]) = Gap(counter[d], packets[d])
          BY <3>1, <4>1
        <5>5. CASE owed[d] = All
          <6>1. d \in skewed'
            BY <1>2, <2>1, <2>2, <5>5, Bounds DEF Counting
          <6> QED
            BY <5>2, <5>3, <5>4, <5>5, <6>1, Bounds DEF Value
        <5>6. CASE owed[d] # All
          BY <1>2, <3>2, <5>1, <5>3, <5>4, <5>6
        <5> QED
          BY <5>5, <5>6
      <4> QED
        BY <2>3, <2>4, <4>1, <4>2, <4>3 DEF Counting
    <3>4. CASE FoundNothing
      <4>1. packets' = packets /\ d \notin got' /\ spoilt' = spoilt
        BY <1>3, <1>4, <2>6, <3>4
      <4>2. d \notin spoilt' =>
              /\ Gap(counter'[d], packets'[d]) <= owed'[d] + passed'[d]
              /\ d \notin skewed' => Gap(counter'[d], packets'[d]) = owed'[d] + passed'[d]
        BY <1>2, <3>2, <4>1
      <4> QED
        BY <2>3, <2>4, <3>1, <4>1, <4>2 DEF Counting
    <3> QED
      BY <1>2, <3>3, <3>4
  <2>7. CASE d # r
    <3>1. d \in ReadDirs' <=> d \in ReadDirs
      BY <1>3, <2>7
    <3>2. d \in ReadDirs => pc # "sleep"
      BY DEF ReadDirs
    <3>3. torn' = FALSE => torn = FALSE
      BY <1>1, <1>2, <1>4 DEF Shape
    <3>4. /\ packets'[d] = packets[d]
          /\ d \in got' <=> d \in got
          /\ d \in spoilt' <=> d \in spoilt
      BY <1>1, <1>2, <1>4, <2>7 DEF Shape
    <3>5. d \in ReadDirs => last'[d] = last[d]
      BY <1>2, <3>2
    <3>6. d \in got => d \in ReadDirs
      BY <1>1 DEF Shape
    <3>7. Owing(d)' = Owing(d) /\ fresh'[d] = fresh[d]
      BY <2>2, <2>5, <2>7 DEF Owing
    <3>8. /\ d \notin spoilt' /\ d \in got' => Gap(counter'[d], packets'[d]) = fresh'[d]
          /\ d \notin spoilt' /\ d \notin got' =>
               /\ Gap(counter'[d], packets'[d]) <= owed'[d] + passed'[d]
               /\ d \notin skewed' => Gap(counter'[d], packets'[d]) = owed'[d] + passed'[d]
      BY <1>2, <2>1, <3>4, <3>7 DEF Counting
    <3>9. torn' = FALSE /\ d \in got' =>
            /\ Gap(packets'[d], last'[d]) <= Owing(d)'
            /\ d \notin skewed' => Gap(packets'[d], last'[d]) = Owing(d)'
      BY <1>2, <2>1, <3>3, <3>4, <3>5, <3>6, <3>7 DEF Counting
    <3>10. d \in ReadDirs' \ got' => last'[d] = packets'[d]
      BY <2>1, <3>1, <3>4, <3>5 DEF Counting
    <3> QED
      BY <2>3, <2>4, <3>8, <3>9, <3>10 DEF Counting
  <2> QED
    BY <2>6, <2>7
<1>7. RatesReal'
  BY <1>2 DEF IOInv, RatesReal
<1> QED
  BY <1>5, <1>6, <1>7 DEF IOInv

\* A call that fails leaves the counters it has found stored, with the packets
\* they stand for in no sample.
LEMMA OpenFailsKeeps ==
  ASSUME IOInv, OpenFails
  PROVE  IOInv'
<1>1. Shape /\ \A d \in Dir : Counting(d)
  BY DEF IOInv
<1>2. Shape'
  <2>1. 0 \in Value /\ 0 \in 0..MaxPassed
    BY Bounds DEF Value
  <2>2. got' \subseteq ReadDirs' /\ skewed' \subseteq Dir
    BY <1>1 DEF Shape, ReadDirs, OpenFails, Dir
  <2>3. last' \in [Dir -> Value] /\ fresh' \in [Dir -> 0..MaxPassed]
    BY <2>1 DEF OpenFails
  <2> QED
    BY <1>1, <2>2, <2>3 DEF Shape, OpenFails, All
<1>3. ASSUME NEW d \in Dir PROVE Counting(d)'
  <2>1. Counting(d)
    BY <1>1
  <2>2. /\ passed[d] \in 0..MaxPassed /\ fresh[d] \in 0..MaxPassed /\ owed[d] \in Nat
        /\ Gap(counter[d], packets[d]) \in Value
    BY <1>1, GapIsDifference, Bounds DEF Shape
  <2>3. d \notin spoilt =>
          /\ Gap(counter[d], packets[d]) <= owed[d] + passed[d]
          /\ d \notin skewed \cup got => Gap(counter[d], packets[d]) = owed[d] + passed[d]
    <3>1. CASE owed[d] = All
      <4>1. d \in skewed
        BY <2>1, <2>2, <3>1, Bounds DEF Counting
      <4> QED
        BY <2>2, <3>1, <4>1, Bounds DEF Value
    <3>2. CASE owed[d] # All
      <4>1. fresh[d] <= passed[d]
        BY <2>1, <3>2 DEF Counting
      <4>2. d \notin spoilt /\ d \in got => Gap(counter[d], packets[d]) = fresh[d]
        BY <2>1 DEF Counting
      <4>3. d \notin spoilt /\ d \notin got =>
              /\ Gap(counter[d], packets[d]) <= owed[d] + passed[d]
              /\ d \notin skewed => Gap(counter[d], packets[d]) = owed[d] + passed[d]
        BY <2>1 DEF Counting
      <4> QED
        BY <2>2, <4>1, <4>2, <4>3, Bounds
    <3> QED
      BY <3>1, <3>2
  <2>4. owed[d] + passed[d] <= MaxPassed \/ (owed[d] = All /\ d \in skewed)
    BY <2>1 DEF Counting
  <2>5. span = Epoch => owed[d] = All
    BY <2>1 DEF Counting
  <2>6. /\ counter' = counter /\ packets' = packets /\ passed' = passed /\ owed' = owed
        /\ span' = span /\ spoilt' = spoilt /\ skewed' = skewed \cup got /\ got' = {}
        /\ torn' = FALSE /\ pc' = "sleep" /\ fresh'[d] = 0 /\ ReadDirs' = {}
    BY DEF OpenFails, ReadDirs
  <2> QED
    BY <2>2, <2>3, <2>4, <2>5, <2>6 DEF Counting, All
<1>4. RatesReal'
  BY DEF IOInv, RatesReal, OpenFails
<1> QED
  BY <1>2, <1>3, <1>4 DEF IOInv

\* The new sample is true.
LEMMA SampleIsReal ==
  ASSUME IOInv, Sampled
  PROVE  pps'.pkts \in Value /\ Agrees(pps', Truth)
<1> DEFINE sum == Since("rx") + Since("tx")
<1>1. /\ Shape /\ \A d \in Dir : Counting(d)
      /\ pc = "bytes" /\ pps' = [pkts |-> sum % Width, time |-> age]
  BY DEF IOInv, Sampled
<1>2. ASSUME NEW d \in Dir
      PROVE  /\ Since(d) = Gap(packets[d], last[d]) /\ Since(d) \in Value
             /\ d \in ReadDirs
             /\ passed[d] \in 0..MaxPassed /\ fresh[d] \in 0..MaxPassed
             /\ packets[d] \in Value
  BY <1>1, GapIsDifference DEF Shape, Since, ReadDirs
<1>3. pps'.pkts = sum % Width /\ pps'.time = span /\ sum \in Int
  BY <1>1, <1>2 DEF Shape, Dir, Value
<1>4. pps'.pkts \in Value
  <2>1. \A w \in Nat \ {0} : \A x \in Int : x % w \in 0..(w - 1)
    BY SMT
  <2> HIDE DEF sum
  <2> QED
    BY <1>3, <2>1, Bounds DEF Value
<1>5. ASSUME NEW d \in Dir
      PROVE  /\ Due(d) \in Nat
             /\ Due(d) <= MaxPassed \/ (Due(d) = All /\ d \in got \cap skewed)
             /\ torn = FALSE => /\ Since(d) <= Due(d)
                                /\ d \notin got \cap skewed => Since(d) = Due(d)
  <2>1. Counting(d)
    BY <1>1
  <2>2. CASE d \notin got
    <3>1. Since(d) = 0
      BY <1>2, <2>1, <2>2, GapOfEqual DEF Counting
    <3> QED
      BY <2>2, <3>1, Bounds DEF Due
  <2>3. CASE d \in got
    <3>1. Due(d) = Owing(d)
      BY <2>3 DEF Due
    <3>2. Due(d) \in Nat /\ (Due(d) <= MaxPassed \/ (Due(d) = All /\ d \in skewed))
      <4>1. CASE owed[d] = All
        <5>1. d \in skewed
          BY <1>2, <2>1, <4>1, Bounds DEF Counting
        <5> QED
          BY <3>1, <4>1, <5>1, Bounds DEF Owing
      <4>2. CASE owed[d] # All
        <5>1. owed[d] \in 0..MaxPassed
          BY <1>1, <4>2 DEF Shape
        <5>2. fresh[d] <= passed[d] /\ owed[d] + passed[d] <= MaxPassed
          BY <2>1, <4>2 DEF Counting
        <5>3. Due(d) = owed[d] + passed[d] - fresh[d]
          BY <3>1, <4>2 DEF Owing
        <5> QED
          BY <1>2, <5>1, <5>2, <5>3, Bounds
      <4> QED
        BY <4>1, <4>2
    <3> QED
      BY <1>2, <2>1, <2>3, <3>1, <3>2 DEF Counting
  <2> QED
    BY <2>2, <2>3
<1>6. "rx" \in Dir /\ "tx" \in Dir /\ got \subseteq Dir
  BY <1>1 DEF Dir, Shape, ReadDirs
<1>7. torn = FALSE =>
        Truth.time = span /\ Truth.due = Due("rx") + Due("tx")
          /\ Truth.exact = (got \cap skewed = {})
  BY DEF Truth
<1>8. CASE torn = FALSE /\ \A d \in Dir : Due(d) <= MaxPassed
  <2>1. ASSUME NEW d \in Dir PROVE Since(d) \in 0..MaxPassed
    <3>1. Since(d) \in Value /\ Since(d) <= Due(d) /\ Due(d) <= MaxPassed /\ Due(d) \in Nat
      BY <1>2, <1>5, <1>8
    <3> QED
      BY <3>1, Bounds DEF Value
  <2>2. sum % Width = sum
    BY <1>6, <2>1, SumFits
  <2>3. sum <= Truth.due /\ (Truth.exact => sum = Truth.due)
    <3>1. /\ Due("rx") \in Nat /\ Due("tx") \in Nat
          /\ Since("rx") \in 0..MaxPassed /\ Since("tx") \in 0..MaxPassed
          /\ Since("rx") <= Due("rx") /\ Since("tx") <= Due("tx")
      BY <1>5, <1>6, <1>8, <2>1
    <3>2. Truth.exact => Since("rx") = Due("rx") /\ Since("tx") = Due("tx")
      BY <1>5, <1>6, <1>7, <1>8
    <3> QED
      BY <1>7, <1>8, <3>1, <3>2, Bounds
  <2> QED
    BY <1>3, <1>4, <1>7, <1>8, <2>2, <2>3 DEF Agrees
<1>9. CASE torn = FALSE /\ \E d \in Dir : ~(Due(d) <= MaxPassed)
  <2>1. PICK d \in Dir : Due(d) = All /\ d \in got \cap skewed
    BY <1>5, <1>9
  <2>2. Truth.due >= All /\ ~Truth.exact
    <3>1. Due("rx") \in Nat /\ Due("tx") \in Nat /\ (d = "rx" \/ d = "tx")
      BY <1>5, <1>6 DEF Dir
    <3>2. Truth.exact = FALSE
      BY <1>7, <1>9, <2>1
    <3>3. Truth.due >= All
      BY <1>7, <1>9, <2>1, <3>1, Bounds
    <3> QED
      BY <3>2, <3>3
  <2>3. Truth.due \in Int
    <3>1. Due("rx") \in Nat /\ Due("tx") \in Nat
      BY <1>5, <1>6
    <3> QED
      BY <1>7, <1>9, <3>1
  <2> QED
    BY <1>3, <1>4, <1>7, <1>9, <2>2, <2>3, Bounds DEF Agrees, Value
<1>10. CASE torn = TRUE
  <2>1. Truth = Unknown
    BY <1>10 DEF Truth
  <2> QED
    BY <1>4, <2>1 DEF Unknown, Agrees
<1>11. torn \in BOOLEAN
  BY <1>1 DEF Shape
<1> QED
  BY <1>4, <1>8, <1>9, <1>10, <1>11

LEMMA SampledKeeps ==
  ASSUME IOInv, Sampled
  PROVE  IOInv'
<1>1. Shape /\ RatesReal /\ pc = "bytes" /\ \A d \in Dir : Counting(d)
  BY DEF IOInv, Sampled
<1>2. pps'.pkts \in Value /\ pps' = [pkts |-> pps'.pkts, time |-> age]
  BY SampleIsReal DEF Sampled
<1>3. ASSUME NEW d \in Dir
      PROVE  /\ passed[d] \in 0..MaxPassed /\ fresh[d] \in 0..MaxPassed
             /\ owed[d] \in 0..MaxPassed \cup {All} /\ owed[d] \in Nat
             /\ Owing(d) \in 0..MaxPassed \cup {All}
             /\ owed[d] # All => Owing(d) + fresh[d] = owed[d] + passed[d]
  <2>1. /\ passed[d] \in 0..MaxPassed /\ fresh[d] \in 0..MaxPassed
        /\ owed[d] \in 0..MaxPassed \cup {All}
    BY <1>1 DEF Shape
  <2>2. owed[d] # All => fresh[d] <= passed[d] /\ owed[d] + passed[d] <= MaxPassed
    BY <1>1 DEF Counting
  <2> QED
    BY <2>1, <2>2, Bounds DEF Owing
<1>4. Truth \in Sample
  <2>1. \A d \in Dir : passed[d] \in Int /\ fresh[d] \in Int /\ Due(d) \in Int
    BY <1>3, Bounds DEF Due
  <2>2. span \in Int /\ (got \cap skewed = {}) \in BOOLEAN
    BY <1>1, Bounds DEF Shape
  <2>3. All \in Int /\ "rx" \in Dir /\ "tx" \in Dir
    BY Bounds DEF Dir
  <2> QED
    BY <2>1, <2>2, <2>3 DEF Truth, Unknown, Sample
<1>5. real' = <<Truth, real[1]>> /\ real[1] \in Sample
  BY <1>1 DEF Sampled, Shape
<1>6. real' = <<real'[1], real'[2]>> /\ real'[1] = Truth /\ real'[2] = real[1]
  BY <1>5
<1>7. /\ counter' = counter /\ packets' = packets /\ passed' = fresh /\ spoilt' = spoilt
      /\ pc' = "sleep" /\ got' = {} /\ ReadDirs' = {} /\ span' = 0 /\ age' = 0
      /\ torn' = FALSE /\ skewed' = skewed \ got
      /\ \A d \in Dir : fresh'[d] = 0 /\ owed'[d] = IF d \in got THEN 0 ELSE Owing(d)
  BY DEF Sampled, ReadDirs
<1>8. Shape'
  <2>1. pps' \in [pkts : Value, time : Nat] /\ pps'.time > 0
    BY <1>1, <1>2, Bounds DEF Shape
  <2>2. 0 \in Value /\ 0 \in 0..MaxPassed /\ 0 \in 0..MaxAge
    BY Bounds DEF Value
  <2>3. owed' \in [Dir -> 0..MaxPassed \cup {All}]
    BY <1>3, <2>2 DEF Sampled
  <2>4. last' \in [Dir -> Value] /\ fresh' \in [Dir -> 0..MaxPassed]
    BY <2>2 DEF Sampled
  <2>5. pps_history' = pps
    BY DEF Sampled
  <2>6. real' = <<real'[1], real'[2]>> /\ real'[1] \in Sample /\ real'[2] \in Sample
    BY <1>4, <1>5, <1>6
  <2> QED
    BY <1>1, <1>7, <2>1, <2>2, <2>3, <2>4, <2>5, <2>6 DEF Shape, All
<1>9. ASSUME NEW d \in Dir PROVE Counting(d)'
  <2>1. Counting(d)
    BY <1>1
  <2>2. d \in ReadDirs
    BY <1>1 DEF ReadDirs
  <2>3. owed'[d] + fresh[d] <= MaxPassed \/ (owed'[d] = All /\ d \in skewed \ got)
    <3>1. CASE d \in got
      BY <1>3, <1>7, <3>1, Bounds
    <3>2. CASE d \notin got /\ owed[d] = All
      BY <1>3, <1>7, <2>1, <3>2, Bounds DEF Owing, Counting
    <3>3. CASE d \notin got /\ owed[d] # All
      BY <1>3, <1>7, <2>1, <3>3 DEF Counting
    <3> QED
      BY <3>1, <3>2, <3>3
  <2>4. d \notin spoilt =>
          /\ Gap(counter[d], packets[d]) <= owed'[d] + fresh[d]
          /\ d \notin skewed \ got => Gap(counter[d], packets[d]) = owed'[d] + fresh[d]
    <3>1. CASE d \in got
      BY <1>3, <1>7, <2>1, <3>1, Bounds DEF Counting
    <3>2. CASE d \notin got /\ owed[d] = All
      <4>1. Gap(counter[d], packets[d]) \in Value /\ owed'[d] = All /\ d \in skewed
        BY <1>1, <1>3, <1>7, <2>1, <3>2, GapIsDifference, Bounds DEF Owing, Counting, Shape
      <4> QED
        BY <1>3, <3>2, <4>1, Bounds DEF Value
    <3>3. CASE d \notin got /\ owed[d] # All
      BY <1>3, <1>7, <2>1, <3>3 DEF Counting
    <3> QED
      BY <3>1, <3>2, <3>3
  <2>5. 0 # Epoch => fresh'[d] <= passed'[d]
    BY <1>3, <1>7
  <2>6. Epoch # 0
    BY Bounds
  <2> QED
    BY <1>7, <2>3, <2>4, <2>5, <2>6 DEF Counting, All
<1>10. RatesReal'
  <2>1. pps_history' = pps
    BY DEF Sampled
  <2>2. Agrees(pps, real[1])
    BY <1>1, RatesRealIs
  <2>3. Agrees(pps', Truth)
    BY SampleIsReal
  <2>4. \A i \in 1..2 : IF i = 1 THEN Agrees(pps', real'[1]) ELSE Agrees(pps_history', real'[i])
    BY <1>6, <2>1, <2>2, <2>3
  <2> QED
    BY <2>4 DEF RatesReal, Agrees
<1> QED
  BY <1>8, <1>9, <1>10 DEF IOInv

LEMMA IONextKeeps ==
  ASSUME IOInv, [Next]_vars
  PROVE  IOInv'
<1>1. CASE UNCHANGED vars
  <2>1. Shape'
    BY <1>1 DEF IOInv, Shape, ReadDirs, All, vars, histVars
  <2>2. (\A d \in Dir : Counting(d))'
    BY <1>1 DEF IOInv, Counting, Owing, ReadDirs, All, vars, histVars
  <2>3. RatesReal'
    BY <1>1 DEF IOInv, RatesReal, vars, histVars
  <2> QED
    BY <2>1, <2>2, <2>3 DEF IOInv
<1> QED
  BY <1>1, TickKeeps, VfResetKeeps, SetVmInfoKeeps, ReadKeeps, OpenFailsKeeps, SampledKeeps
     DEF Next

\* What is stored and what has passed stay in step, for counters of every width.
THEOREM IOInvariant == Spec => []IOInv
  BY IOInitially, IONextKeeps, PTL DEF Spec

\* monitorIO's variables keep their types: in particular no rate has a time of
\* zero unless nobody assigned it.
THEOREM IOTyped == Spec => []TypeOK
<1>1. IOInv => TypeOK
  BY DEF IOInv, Shape, TypeOK, Value
<1> QED
  BY IOInvariant, <1>1, PTL

\* Every rate carries the packets of its period, and those that earlier empty
\* reads left over, whatever wraps, fails or passes between the reads of one
\* call; it lacks some only after a call that failed.
THEOREM RatesAreReal == Spec => []RatesReal
<1>1. IOInv => RatesReal
  BY DEF IOInv
<1> QED
  BY IOInvariant, <1>1, PTL

-----------------------------------------------------------------------------
(***************************************************************************)
(* The verdict.  Rates are fractions: the smoothed one lies between the    *)
(* two it is made of, so it cannot pass the threshold without one of them. *)
(***************************************************************************)

\* What p packets in s ticks come to, weighted and over t ticks more, if they
\* are no more, or no fewer, than th a tick.
LEMMA Weighted ==
  ASSUME NEW f \in Nat, NEW p \in Nat, NEW s \in Nat, NEW t \in Nat, NEW th \in Nat
  PROVE  /\ f * p * t \in Nat /\ f * (th * s) * t \in Nat
         /\ p <= th * s => f * p * t <= f * (th * s) * t
         /\ p >= th * s => f * p * t >= f * (th * s) * t
<1>1. \A a, b, c \in Nat : a <= b => a * c <= b * c /\ c * a <= c * b
  BY SMT
<1>2. \A a, b \in Nat : a * b \in Nat
  BY SMT
<1>3. th * s \in Nat /\ f * p \in Nat /\ f * (th * s) \in Nat
  BY <1>2
<1>4. f * p * t \in Nat /\ f * (th * s) * t \in Nat
  BY <1>2, <1>3
<1>5. ASSUME p <= th * s PROVE f * p * t <= f * (th * s) * t
  <2>1. f * p <= f * (th * s)
    BY <1>1, <1>3, <1>5
  <2> QED
    BY <1>1, <1>3, <2>1
<1>6. ASSUME p >= th * s PROVE f * p * t >= f * (th * s) * t
  <2>1. f * (th * s) <= f * p
    BY <1>1, <1>3, <1>6
  <2>2. f * (th * s) * t <= f * p * t
    BY <1>1, <1>3, <2>1
  <2> QED
    BY <1>4, <2>2
<1> QED
  BY <1>4, <1>5, <1>6

LEMMA WeightsAddUp ==
  ASSUME NEW f \in 0..100, NEW s \in Nat, NEW t \in Nat, NEW th \in Nat
  PROVE  /\ f * (th * s) * t + (100 - f) * (th * t) * s = th * (100 * t * s)
         /\ th * (100 * t * s) \in Nat
<1>1. \A a, b \in Nat : a * b \in Nat
  BY SMT
<1>2. PICK x \in Nat : x = th * s * t
  BY <1>1
<1>3. f * (th * s) * t = f * x
  BY <1>2
<1>4. (100 - f) * (th * t) * s = (100 - f) * x
  BY <1>2
<1>5. th * (100 * t * s) = 100 * x
  BY <1>2
<1>6. f * x + (100 - f) * x = 100 * x
  BY <1>2
<1> QED
  BY <1>2, <1>3, <1>4, <1>5, <1>6

\* The smoothed rate is over the threshold only if one of the two is, and
\* under it only if one of the two is.
LEMMA SmoothedBetween ==
  ASSUME pps \in [pkts : Nat, time : Nat], pps_history \in [pkts : Nat, time : Nat]
  PROVE  /\ Slower(Threshold, Smoothed) =>
              Slower(Threshold, pps) \/ Slower(Threshold, pps_history)
         /\ Slower(Smoothed, Threshold) =>
              Slower(pps, Threshold) \/ Slower(pps_history, Threshold)
<1> DEFINE f == IF Slower(pps, pps_history) THEN 85 ELSE 40
           th == io_threshold
           p == pps.pkts
           t == pps.time
           q == pps_history.pkts
           s == pps_history.time
<1>1. f \in Nat /\ 100 - f \in Nat /\ f \in 0..100 /\ th \in Nat
  BY Bounds
<1>2. p \in Nat /\ t \in Nat /\ q \in Nat /\ s \in Nat
  OBVIOUS
<1>3. Smoothed.pkts = f * q * t + (100 - f) * p * s /\ Smoothed.time = 100 * t * s
  BY DEF Smoothed
<1>4. Threshold.pkts = th /\ Threshold.time = 1
  BY DEF Threshold
<1>5. /\ Slower(Threshold, pps) <=> th * t < p
      /\ Slower(Threshold, pps_history) <=> th * s < q
      /\ Slower(pps, Threshold) <=> p < th * t
      /\ Slower(pps_history, Threshold) <=> q < th * s
  <2>1. th * t \in Nat /\ th * s \in Nat
    BY <1>1, <1>2
  <2>2. \A a \in Nat : a * 1 = a
    BY SMT
  <2> HIDE DEF f, th, p, q, s, t
  <2>3. p * 1 = p /\ q * 1 = q
    BY <1>2, <2>2
  <2> QED
    BY <1>4, <2>3 DEF Slower, p, q, s, t
<1> DEFINE sum == f * q * t + (100 - f) * p * s
           all == 100 * t * s
<1>6. /\ Slower(Threshold, Smoothed) <=> th * all < sum * 1
      /\ Slower(Smoothed, Threshold) <=> sum * 1 < th * all
  BY <1>3, <1>4 DEF Slower
<1> HIDE DEF f, th, p, q, s, t
<1>7. /\ f * q * t \in Nat /\ f * (th * s) * t \in Nat
      /\ q <= th * s => f * q * t <= f * (th * s) * t
      /\ q >= th * s => f * q * t >= f * (th * s) * t
  BY <1>1, <1>2, Weighted
<1>8. /\ (100 - f) * p * s \in Nat /\ (100 - f) * (th * t) * s \in Nat
      /\ p <= th * t => (100 - f) * p * s <= (100 - f) * (th * t) * s
      /\ p >= th * t => (100 - f) * p * s >= (100 - f) * (th * t) * s
  BY <1>1, <1>2, Weighted
<1>9. /\ f * (th * s) * t + (100 - f) * (th * t) * s = th * all
      /\ th * all \in Nat
  BY <1>1, <1>2, WeightsAddUp
<1>10. th * s \in Nat /\ th * t \in Nat
  BY <1>1, <1>2
<1> DEFINE a == f * q * t
           b == (100 - f) * p * s
           c == f * (th * s) * t
           d == (100 - f) * (th * t) * s
           e == th * all
           u == th * s
           v == th * t
<1>11. /\ a \in Nat /\ b \in Nat /\ c \in Nat /\ d \in Nat /\ e \in Nat /\ u \in Nat /\ v \in Nat
       /\ (q <= u => a <= c) /\ (q >= u => a >= c)
       /\ (p <= v => b <= d) /\ (p >= v => b >= d)
       /\ c + d = e /\ sum = a + b
  BY <1>7, <1>8, <1>9, <1>10
<1>12. /\ Slower(Threshold, Smoothed) <=> e < sum * 1
       /\ Slower(Smoothed, Threshold) <=> sum * 1 < e
       /\ Slower(Threshold, pps) <=> v < p
       /\ Slower(Threshold, pps_history) <=> u < q
       /\ Slower(pps, Threshold) <=> p < v
       /\ Slower(pps_history, Threshold) <=> q < u
  BY <1>5, <1>6
<1> HIDE DEF a, b, c, d, e, u, v, sum
<1>13. sum \in Nat /\ sum * 1 = sum
  BY <1>11
<1> QED
  BY <1>2, <1>11, <1>12, <1>13

\* What analyzeIOState says of a VM is true of one of its last two samples,
\* unless one of them carries an earlier one's packets or lacks its own.
THEOREM VerdictIsSound == Spec => []VerdictSound
<1>1. ASSUME IOInv PROVE VerdictSound
  <2>1. /\ pps \in [pkts : Nat, time : Nat] /\ pps_history \in [pkts : Nat, time : Nat]
        /\ real[1] \in Sample /\ real[2] \in Sample
    BY <1>1, Bounds DEF IOInv, Shape, Value
  <2>2. Agrees(pps, real[1]) /\ Agrees(pps_history, real[2])
    BY <1>1, RatesRealIs DEF IOInv
  <2>3. ASSUME NEW r \in [pkts : Nat, time : Nat], NEW w \in Sample, Agrees(r, w), w.time # 0
        PROVE  /\ Slower(Threshold, r) => Slower(Threshold, w) \/ w.due > w.pkts
               /\ Slower(r, Threshold) =>
                    Slower(w, Threshold) \/ ~w.exact \/ w.due < w.pkts
    <3>1. /\ r.pkts \in Nat /\ w.pkts \in Int /\ w.due \in Int
          /\ r.time = w.time /\ r.pkts <= w.due
          /\ w.exact => r.pkts = w.due
      BY <2>3 DEF Agrees, Sample
    <3>2. io_threshold * r.time \in Int
      BY Bounds
    <3>3. Threshold.pkts = io_threshold /\ Threshold.time = 1
      BY DEF Threshold
    <3>4. \A a \in Int : a * 1 = a
      BY SMT
    <3>5. /\ Slower(Threshold, r) <=> io_threshold * r.time < r.pkts
          /\ Slower(Threshold, w) <=> io_threshold * r.time < w.pkts
          /\ Slower(r, Threshold) <=> r.pkts < io_threshold * r.time
          /\ Slower(w, Threshold) <=> w.pkts < io_threshold * r.time
      BY <3>1, <3>3, <3>4 DEF Slower
    <3> QED
      BY <3>1, <3>2, <3>5
  <2>4. /\ IOState = "IO_STAT" => Slower(Threshold, Smoothed)
        /\ IOState = "OTHER_STAT" => Slower(Smoothed, Threshold)
    BY DEF IOState
  <2> DEFINE over(i) == Slower(Threshold, real[i]) \/ real[i].due > real[i].pkts
             under(i) ==
               Slower(real[i], Threshold) \/ ~real[i].exact \/ real[i].due < real[i].pkts
  <2>5. ASSUME real[1].time # 0, real[2].time # 0
        PROVE  /\ IOState = "IO_STAT" => \E i \in 1..2 : over(i)
               /\ IOState = "OTHER_STAT" => \E i \in 1..2 : under(i)
    <3>1. /\ Slower(Threshold, pps) => over(1)
          /\ Slower(pps, Threshold) => under(1)
      BY <2>1, <2>2, <2>3, <2>5
    <3>2. /\ Slower(Threshold, pps_history) => over(2)
          /\ Slower(pps_history, Threshold) => under(2)
      BY <2>1, <2>2, <2>3, <2>5
    <3> HIDE DEF over, under
    <3>3. 1 \in 1..2 /\ 2 \in 1..2
      BY SMT
    <3> QED
      BY <2>1, <2>4, <3>1, <3>2, <3>3, SmoothedBetween
  <2> QED
    BY <2>5 DEF VerdictSound
<1> QED
  BY IOInvariant, <1>1, PTL

=============================================================================

----------------------------- MODULE MgenProofs -----------------------------
(***************************************************************************)
(* Theorems about the latency probe's buffer, for blocks of any size and   *)
(* any number of them.                                                     *)
(***************************************************************************)
EXTENDS Mgen, FiniteSetTheorems, WellFoundedInduction, TLAPS

(***************************************************************************)
(* OneChain speaks of the finished chain.  The invariant behind it says    *)
(* what is true while elements are drawn: those linked so far, and index,  *)
(* are numbered by place without repeat, index has the largest number, and *)
(* each linked element points at the one with the next number.             *)
(***************************************************************************)
ChainType ==
  /\ s_rand_arr \in [Elem -> -1..RAND_ARRAY_SIZE]
  /\ index \in Elem
  /\ place \in [Elem -> Nat]

OnChain(i) == s_rand_arr[i] # INVALID_RAND \/ i = index

Growing ==
  buf_pc = "link" =>
    /\ s_rand_arr[index] = INVALID_RAND
    /\ OnChain(0) /\ place[0] = 0
    /\ \A i \in Elem : OnChain(i) => place[i] <= place[index]
    /\ \A i, j \in Elem : OnChain(i) /\ OnChain(j) /\ place[i] = place[j] => i = j
    /\ \A i \in Elem :
         s_rand_arr[i] # INVALID_RAND =>
           /\ s_rand_arr[i] \in Elem
           /\ OnChain(s_rand_arr[i])
           /\ place[s_rand_arr[i]] = place[i] + 1

ChainInv == ChainType /\ Growing /\ OneChain

LEMMA SizeFacts ==
  /\ RAND_ARRAY_SIZE \in Nat /\ RAND_ARRAY_SIZE > 0
  /\ 0 \in Elem /\ RAND_ARRAY_SIZE \notin Elem /\ INVALID_RAND \notin Elem
  /\ Elem \subseteq -1..RAND_ARRAY_SIZE /\ Elem \subseteq Int
BY SizeAssumption DEF Elem, INVALID_RAND

LEMMA ChainInit == BufferInit => ChainInv
BY SizeFacts DEF BufferInit, ChainInv, ChainType, Growing, OnChain, OneChain, INVALID_RAND

\* A draw either hits index, which changes no link, or puts a new element at
\* the end of the chain; the draw that leaves nothing free closes the chain.
LEMMA DrawKeepsChain ==
  ASSUME ChainInv, NEW r \in Elem, Draw(r)
  PROVE  ChainInv'
<1> USE SizeFacts DEF ChainInv, ChainType
<1> DEFINE linked == Linked(r)
<1>1. buf_pc = "link" /\ s_rand_arr[r] = INVALID_RAND /\ s_rand_arr[index] = INVALID_RAND
  BY DEF Draw, Free, Growing
<1>2. /\ index' \in Elem
      /\ place' \in [Elem -> Nat]
      /\ linked \in [Elem -> -1..RAND_ARRAY_SIZE]
  BY DEF Draw, Linked
<1> DEFINE On(i) == linked[i] # INVALID_RAND \/ i = index'
<1>3. /\ linked[index'] = INVALID_RAND
      /\ On(0) /\ place'[0] = 0
      /\ \A i \in Elem : On(i) => place'[i] <= place'[index']
      /\ \A i, j \in Elem : On(i) /\ On(j) /\ place'[i] = place'[j] => i = j
      /\ \A i \in Elem :
           linked[i] # INVALID_RAND =>
             /\ linked[i] \in Elem
             /\ On(linked[i])
             /\ place'[linked[i]] = place'[i] + 1
  <2>1. CASE r = index
    <3>1. linked = s_rand_arr /\ index' = index /\ place' = place
      BY <2>1 DEF Draw, Linked, CanLink
    <3> QED
      BY <1>1, <3>1 DEF Growing, OnChain
  <2>2. CASE r # index
    <3>1. /\ linked = [s_rand_arr EXCEPT ![index] = r]
          /\ index' = r
          /\ place' = [place EXCEPT ![r] = place[index] + 1]
      BY <1>1, <2>2 DEF Draw, Linked, CanLink
    <3>2. ~OnChain(r)
      BY <1>1, <2>2 DEF OnChain
    <3>3. \A i \in Elem : On(i) <=> OnChain(i) \/ i = r
      BY <1>1, <3>1 DEF OnChain
    <3>4. \A i \in Elem : OnChain(i) => place'[i] = place[i] /\ place[i] <= place[index]
      BY <1>1, <3>1, <3>2 DEF Growing
    <3>5. place'[r] = place[index] + 1
      BY <3>1
    <3>6. On(0) /\ place'[0] = 0
      BY <1>1, <3>3, <3>4 DEF Growing
    <3>7. \A i \in Elem : On(i) => place'[i] <= place'[index']
      BY <3>1, <3>3, <3>4, <3>5
    <3>8. ASSUME NEW i \in Elem, NEW j \in Elem, On(i), On(j), place'[i] = place'[j]
          PROVE  i = j
      BY <1>1, <3>3, <3>4, <3>5, <3>8 DEF Growing
    <3>9. ASSUME NEW i \in Elem, linked[i] # INVALID_RAND
          PROVE  /\ linked[i] \in Elem
                 /\ On(linked[i])
                 /\ place'[linked[i]] = place'[i] + 1
      <4>1. CASE i = index
        BY <2>2, <3>1, <3>5, <4>1
      <4>2. CASE i # index
        <5>1. s_rand_arr[i] # INVALID_RAND /\ linked[i] = s_rand_arr[i]
          BY <3>1, <3>9, <4>2
        <5> QED
          BY <1>1, <3>3, <3>4, <5>1 DEF Growing, OnChain
      <4> QED
        BY <4>1, <4>2
    <3>10. linked[index'] = INVALID_RAND
      BY <1>1, <2>2, <3>1
    <3> HIDE DEF On, linked
    <3> QED
      BY <3>6, <3>7, <3>8, <3>9, <3>10
  <2> QED
    BY <2>1, <2>2
<1>4. CASE last_free_elem(linked)
  <2>1. /\ s_rand_arr' = [linked EXCEPT ![index'] = RAND_ARRAY_SIZE]
        /\ buf_pc' = "copy"
    BY <1>4 DEF Draw
  <2>2. \A i \in Elem : On(i)
    BY <1>2, <1>3, <1>4 DEF last_free_elem, Free
  <2> HIDE DEF linked
  <2>3. OneChain'
    BY <1>2, <1>3, <2>1, <2>2 DEF OneChain
  <2> QED
    BY <1>2, <2>1, <2>3 DEF Growing
<1>5. CASE ~last_free_elem(linked)
  <2>1. s_rand_arr' = linked /\ buf_pc' = "link"
    BY <1>1, <1>5 DEF Draw
  <2> HIDE DEF linked
  <2> QED
    BY <1>2, <1>3, <2>1 DEF Growing, OnChain, OneChain
<1> QED
  BY <1>4, <1>5

LEMMA ChainStep == ChainInv /\ [BufferNext]_bufferVars => ChainInv'
<1> SUFFICES ASSUME ChainInv, [BufferNext]_bufferVars PROVE ChainInv'
  OBVIOUS
<1>1. ASSUME NEW r \in Elem, Draw(r) PROVE ChainInv'
  BY <1>1, DrawKeepsChain
<1>2. CASE Copy \/ CopyDone \/ Close \/ UNCHANGED bufferVars
  BY <1>2 DEF Copy, CopyDone, Close, bufferVars, ChainInv, ChainType, Growing, OnChain,
              OneChain
<1> QED
  BY <1>1, <1>2 DEF BufferNext

\* rand_array_init links all elements of a block into one chain from element
\* 0, whatever rand() draws and however many elements there are.
THEOREM ChainIsOne == BufferSpec => []OneChain
BY ChainInit, ChainStep, PTL DEF BufferSpec, ChainInv

-----------------------------------------------------------------------------
(***************************************************************************)
(* The numbers of the chain.  The draws leave no number out, so the last   *)
(* element of the closed chain has the number RAND_ARRAY_SIZE - 1.         *)
(***************************************************************************)
Numbered ==
  /\ \A i \in Elem : OnChain(i) => place[i] <= place[index]
  /\ \A k \in 0..place[index] : \E i \in Elem : OnChain(i) /\ place[i] = k

LEMMA NumberedInit == BufferInit => Numbered
BY SizeFacts DEF BufferInit, Numbered, OnChain, INVALID_RAND

LEMMA DrawKeepsNumbered ==
  ASSUME ChainInv, Numbered, NEW r \in Elem, Draw(r)
  PROVE  Numbered'
<1> USE SizeFacts DEF ChainInv, ChainType
<1> DEFINE linked == Linked(r)
<1>1. buf_pc = "link" /\ s_rand_arr[r] = INVALID_RAND /\ s_rand_arr[index] = INVALID_RAND
  BY DEF Draw, Free, Growing
<1>2. index' \in Elem /\ linked \in [Elem -> -1..RAND_ARRAY_SIZE]
  BY DEF Draw, Linked
<1>3. s_rand_arr' = linked \/ s_rand_arr' = [linked EXCEPT ![index'] = RAND_ARRAY_SIZE]
  BY DEF Draw
<1>4. \A i \in Elem : OnChain(i)' <=> linked[i] # INVALID_RAND \/ i = index'
  <2> HIDE DEF linked
  <2> QED
    BY <1>2, <1>3 DEF OnChain
<1>5. CASE r = index
  <2>1. linked = s_rand_arr /\ index' = index /\ place' = place
    BY <1>5 DEF Draw, Linked, CanLink
  <2>2. \A i \in Elem : OnChain(i)' <=> OnChain(i)
    BY <1>4, <2>1 DEF OnChain
  <2> QED
    BY <2>1, <2>2 DEF Numbered
<1>6. CASE r # index
  <2>1. /\ linked = [s_rand_arr EXCEPT ![index] = r]
        /\ index' = r
        /\ place' = [place EXCEPT ![r] = place[index] + 1]
    BY <1>1, <1>6 DEF Draw, Linked, CanLink
  <2>2. ~OnChain(r)
    BY <1>1, <1>6 DEF OnChain
  <2>3. \A i \in Elem : OnChain(i)' <=> OnChain(i) \/ i = r
    BY <1>1, <1>4, <2>1 DEF OnChain
  <2>4. place'[r] = place[index] + 1 /\ \A i \in Elem \ {r} : place'[i] = place[i]
    BY <2>1
  <2>5. \A i \in Elem : OnChain(i)' => place'[i] <= place'[index']
    BY <2>1, <2>2, <2>3, <2>4 DEF Numbered
  <2>6. ASSUME NEW k \in 0..place'[index']
        PROVE  \E i \in Elem : OnChain(i)' /\ place'[i] = k
    <3>1. CASE k \in 0..place[index]
      <4>1. PICK i \in Elem : OnChain(i) /\ place[i] = k
        BY <3>1 DEF Numbered
      <4>2. i # r
        BY <2>2, <4>1
      <4> QED
        BY <2>3, <2>4, <4>1, <4>2
    <3>2. CASE k = place[index] + 1
      BY <2>3, <2>4, <3>2
    <3> QED
      BY <2>1, <2>4, <3>1, <3>2
  <2> QED
    BY <2>5, <2>6 DEF Numbered
<1> QED
  BY <1>5, <1>6

\* The chain is closed: what rand_buf_init copies.
LEMMA ClosedChain ==
  ASSUME ChainInv, Numbered, buf_pc # "link"
  PROVE  /\ place[0] = 0
         /\ place[index] = RAND_ARRAY_SIZE - 1
         /\ \A i \in Elem : place[i] \in Elem
         /\ \A i, j \in Elem : place[i] = place[j] => i = j
         /\ \A k \in Elem : \E i \in Elem : place[i] = k
         /\ s_rand_arr[index] = RAND_ARRAY_SIZE
         /\ \A i \in Elem \ {index} : /\ s_rand_arr[i] \in Elem
                                      /\ place[s_rand_arr[i]] = place[i] + 1
<1> USE SizeFacts DEF ChainInv, ChainType
<1>1. /\ place[0] = 0
      /\ \A i, j \in Elem : place[i] = place[j] => i = j
      /\ \A i \in Elem :
           \/ s_rand_arr[i] \in Elem /\ place[s_rand_arr[i]] = place[i] + 1
           \/ s_rand_arr[i] = RAND_ARRAY_SIZE /\ i = index
  BY DEF OneChain
<1>2. \A i \in Elem : OnChain(i)
  BY <1>1 DEF OnChain
<1>3. PICK m \in Nat : m = place[index]
  OBVIOUS
<1>4. /\ \A i \in Elem : place[i] \in 0..m
      /\ \A k \in 0..m : \E i \in Elem : place[i] = k
  BY <1>2, <1>3 DEF Numbered
<1>5. m = RAND_ARRAY_SIZE - 1
  <2>1. place \in Bijection(Elem, 0..m)
    <3>1. place \in [Elem -> 0..m]
      BY <1>4
    <3> QED
      BY <1>1, <1>4, <3>1 DEF Bijection, Injection, IsInjective, Surjection
  <2>2. IsFiniteSet(Elem) /\ Cardinality(Elem) = RAND_ARRAY_SIZE
    <3>1. 0 \in Int /\ RAND_ARRAY_SIZE - 1 \in Int
      OBVIOUS
    <3>2. /\ IsFiniteSet(0..(RAND_ARRAY_SIZE - 1))
          /\ Cardinality(0..(RAND_ARRAY_SIZE - 1)) =
               IF 0 > RAND_ARRAY_SIZE - 1 THEN 0 ELSE (RAND_ARRAY_SIZE - 1) - 0 + 1
      BY <3>1, FS_Interval
    <3> QED
      BY <3>2 DEF Elem
  <2>3. Cardinality(0..m) = m + 1
    <3>1. Cardinality(0..m) = IF 0 > m THEN 0 ELSE m - 0 + 1
      BY FS_Interval
    <3> QED
      BY <3>1
  <2>4. Cardinality(Elem) = Cardinality(0..m)
    BY <2>1, <2>2, FS_Bijection DEF ExistsBijection
  <2> QED
    BY <2>2, <2>3, <2>4
<1>6. 0..m = Elem
  BY <1>5 DEF Elem
<1>7. s_rand_arr[index] = RAND_ARRAY_SIZE
  <2>1. \A i \in Elem : place[i] <= m
    BY <1>4
  <2> QED
    BY <1>1, <1>3, <2>1
<1> QED
  BY <1>1, <1>3, <1>4, <1>5, <1>6, <1>7

-----------------------------------------------------------------------------
(***************************************************************************)
(* The lines of the buffer: line l is element l % RAND_ARRAY_SIZE of block *)
(* l \div RAND_ARRAY_SIZE.                                                 *)
(***************************************************************************)
Lines == nblk * RAND_ARRAY_SIZE

LEMMA DivMod ==
  ASSUME NEW n \in Nat, n > 0, NEW a \in Nat
  PROVE  a \div n \in Nat /\ a % n \in 0..(n - 1) /\ a = (a \div n) * n + (a % n)
OBVIOUS

LEMMA DivModUnique ==
  ASSUME NEW n \in Nat, n > 0, NEW q \in Nat, NEW r \in 0..(n - 1)
  PROVE  (q * n + r) \div n = q /\ (q * n + r) % n = r
OBVIOUS

LEMMA BlockBelow ==
  ASSUME NEW n \in Nat, NEW q \in Nat, NEW s \in Nat, q < s
  PROVE  q * n \in Nat /\ q * n + n <= s * n
<1>1. PICK d \in Nat : s = q + 1 + d
  OBVIOUS
<1>2. s * n = q * n + n + d * n /\ d * n \in Nat /\ q * n \in Nat
  BY <1>1
<1> QED
  BY <1>2

LEMMA LineParts ==
  ASSUME NEW l \in Line
  PROVE  /\ l \in Nat /\ l < Lines
         /\ l \div RAND_ARRAY_SIZE \in Nat /\ l \div RAND_ARRAY_SIZE < nblk
         /\ l % RAND_ARRAY_SIZE \in Elem
         /\ l = (l \div RAND_ARRAY_SIZE) * RAND_ARRAY_SIZE + (l % RAND_ARRAY_SIZE)
<1> DEFINE q == l \div RAND_ARRAY_SIZE
           r == l % RAND_ARRAY_SIZE
<1>1. nblk \in Nat /\ RAND_ARRAY_SIZE \in Nat /\ RAND_ARRAY_SIZE > 0 /\ Lines \in Nat
  BY SizeFacts, BlkAssumption DEF Lines
<1>2. l \in Nat /\ l < Lines
  BY <1>1 DEF Line, Lines
<1>3. q \in Nat /\ r \in 0..(RAND_ARRAY_SIZE - 1) /\ l = q * RAND_ARRAY_SIZE + r
  BY <1>1, <1>2, DivMod
<1> HIDE DEF q, r
<1>4. q < nblk
  <2> SUFFICES ASSUME nblk <= q PROVE FALSE
    BY <1>1, <1>3
  <2>1. nblk * RAND_ARRAY_SIZE <= q * RAND_ARRAY_SIZE
    <3>1. CASE nblk = q
      BY <1>1, <3>1
    <3>2. CASE nblk < q
      BY <1>1, <1>3, <3>2, BlockBelow
    <3> QED
      BY <1>1, <1>3, <3>1, <3>2
  <2> QED
    BY <1>1, <1>2, <1>3, <2>1 DEF Lines
<1> QED
  BY <1>2, <1>3, <1>4 DEF q, r, Elem

LEMMA LineAt ==
  ASSUME NEW q \in Nat, q < nblk, NEW r \in Elem
  PROVE  /\ q * RAND_ARRAY_SIZE \in Nat
         /\ q * RAND_ARRAY_SIZE + r \in Line
         /\ q * RAND_ARRAY_SIZE + RAND_ARRAY_SIZE <= Lines
         /\ (q * RAND_ARRAY_SIZE + r) \div RAND_ARRAY_SIZE = q
         /\ (q * RAND_ARRAY_SIZE + r) % RAND_ARRAY_SIZE = r
<1>1. nblk \in Nat /\ RAND_ARRAY_SIZE \in Nat /\ RAND_ARRAY_SIZE > 0 /\ r \in 0..(RAND_ARRAY_SIZE - 1)
  BY SizeFacts, BlkAssumption DEF Elem
<1>2. q * RAND_ARRAY_SIZE \in Nat /\ q * RAND_ARRAY_SIZE + RAND_ARRAY_SIZE <= Lines
  BY <1>1, BlockBelow DEF Lines
<1>3. (q * RAND_ARRAY_SIZE + r) \div RAND_ARRAY_SIZE = q
  BY <1>1, DivModUnique
<1>4. (q * RAND_ARRAY_SIZE + r) % RAND_ARRAY_SIZE = r
  BY <1>1, DivModUnique
<1>5. q * RAND_ARRAY_SIZE + r \in Line
  BY <1>1, <1>2 DEF Line, Lines
<1> QED
  BY <1>2, <1>3, <1>4, <1>5

-----------------------------------------------------------------------------
(***************************************************************************)
(* What the loop of rand_buf_init has written, and where end points.       *)
(***************************************************************************)
Block(l) == (l \div RAND_ARRAY_SIZE) * RAND_ARRAY_SIZE
Next_line(l) == Block(l) + s_rand_arr[l % RAND_ARRAY_SIZE]

\* The line that ends the chain of the last block.
LastLine == (nblk - 1) * RAND_ARRAY_SIZE + index

Copied == \A l \in Line : l < p => buf[l] = Next_line(l)

EndFound ==
  /\ \A l \in Line : l < p /\ l % RAND_ARRAY_SIZE = index => end # -1 /\ l <= end
  /\ end # -1 => end \in Line /\ end < p /\ end % RAND_ARRAY_SIZE = index

BufferInv ==
  /\ BufferTypeOK
  /\ ChainInv
  /\ Numbered
  /\ buf_pc = "link" => p = 0 /\ end = -1
  /\ buf_pc \in {"copy", "close"} => Copied /\ EndFound
  /\ buf_pc = "close" => p = Lines
  /\ buf_pc = "done" => \A l \in Line : buf[l] = IF l = LastLine THEN 0 ELSE Next_line(l)

LEMMA SizesAre ==
  /\ Lines \in Nat /\ Lines > 0
  /\ Line = 0..(Lines - 1)
  /\ 0 \in Line /\ -1 \notin Line
<1>1. nblk \in Nat /\ nblk > 0 /\ RAND_ARRAY_SIZE \in Nat /\ RAND_ARRAY_SIZE > 0
  BY SizeFacts, BlkAssumption
<1>2. Lines \in Nat /\ Lines > 0
  BY <1>1 DEF Lines
<1> QED
  BY <1>2 DEF Line, Lines

LEMMA FreshBuffer ==
  ASSUME buf_pc = "link", s_rand_arr = [i \in Elem |-> INVALID_RAND], index = 0,
         buf = [l \in Line |-> -1], p = 0, end = -1, place = [i \in Elem |-> 0]
  PROVE  BufferInv
<1>1. BufferInit
  BY DEF BufferInit
<1>2. -1 \in -1..Lines /\ -1 \in -1..RAND_ARRAY_SIZE
  BY SizesAre, SizeFacts
<1>3. BufferTypeOK
  BY <1>2, SizesAre, SizeFacts DEF BufferTypeOK, Lines, INVALID_RAND
<1> QED
  BY <1>1, <1>3, ChainInit, NumberedInit DEF BufferInv

LEMMA DrawKeepsBuffer ==
  ASSUME BufferInv, NEW r \in Elem, Draw(r)
  PROVE  BufferInv'
<1>1. ChainInv' /\ Numbered'
  BY DrawKeepsChain, DrawKeepsNumbered DEF BufferInv
<1>2. /\ buf_pc = "link" /\ buf_pc' \in {"link", "copy"}
      /\ buf' = buf /\ p' = p /\ end' = end /\ p = 0 /\ end = -1
  BY DEF Draw, BufferInv
<1>3. BufferTypeOK'
  BY <1>1, <1>2 DEF BufferInv, BufferTypeOK, ChainInv, ChainType
<1>4. Copied' /\ EndFound'
  BY <1>2, SizesAre DEF Copied, EndFound
<1> QED
  BY <1>1, <1>2, <1>3, <1>4 DEF BufferInv

LEMMA CopyKeepsBuffer ==
  ASSUME BufferInv, Copy
  PROVE  BufferInv'
<1>1. /\ buf_pc = "copy" /\ p \in Line /\ p' = p + 1
      /\ end' = IF s_rand_arr[p % RAND_ARRAY_SIZE] = RAND_ARRAY_SIZE THEN p ELSE end
      /\ buf' = [buf EXCEPT ![p] = Next_line(p)]
      /\ buf_pc' = buf_pc /\ s_rand_arr' = s_rand_arr /\ index' = index /\ place' = place
  BY DEF Copy, Next_line, Block, blk_start
<1>2. BufferTypeOK /\ ChainInv /\ Numbered /\ Copied /\ EndFound
  BY <1>1 DEF BufferInv
<1> DEFINE j == p % RAND_ARRAY_SIZE
<1>3. /\ p \in Nat /\ p < Lines /\ Lines \in Nat /\ j \in Elem
      /\ p \div RAND_ARRAY_SIZE \in Nat /\ p \div RAND_ARRAY_SIZE < nblk
      /\ buf \in [Line -> -1..Lines] /\ end \in Line \cup {-1}
      /\ index \in Elem /\ RAND_ARRAY_SIZE \in Nat
  BY <1>1, <1>2, LineParts, SizesAre, SizeFacts DEF BufferTypeOK, Lines
<1>4. /\ s_rand_arr[index] = RAND_ARRAY_SIZE
      /\ \A i \in Elem \ {index} : s_rand_arr[i] \in Elem
  BY <1>1, <1>2, ClosedChain
<1>5. s_rand_arr[j] = RAND_ARRAY_SIZE <=> j = index
  BY <1>3, <1>4, SizeFacts
<1>6. Next_line(p) \in 0..Lines
  <2>1. Block(p) \in Nat /\ Block(p) + RAND_ARRAY_SIZE <= Lines
    BY <1>3, SizeFacts, LineAt DEF Block
  <2>2. s_rand_arr[j] \in 0..RAND_ARRAY_SIZE
    BY <1>3, <1>4 DEF Elem
  <2> QED
    BY <1>3, <2>1, <2>2 DEF Next_line
<1> HIDE DEF j
<1>7. BufferTypeOK'
  <2>1. buf' \in [Line -> -1..Lines] /\ p' \in 0..Lines /\ end' \in Line \cup {-1}
    BY <1>1, <1>3, <1>6
  <2> QED
    BY <1>1, <1>2, <2>1 DEF BufferTypeOK, Lines
<1>8. ChainInv' /\ Numbered'
  BY <1>1, <1>2 DEF ChainInv, ChainType, Growing, OnChain, OneChain, Numbered
<1>9. Copied'
  <2>1. \A l : Next_line(l)' = Next_line(l)
    BY <1>1 DEF Next_line, Block
  <2>2. ASSUME NEW l \in Line, l < p + 1 PROVE buf'[l] = Next_line(l)
    <3>1. l \in Nat
      BY LineParts
    <3>2. CASE l < p
      BY <1>1, <1>2, <1>3, <3>1, <3>2 DEF Copied
    <3>3. CASE l = p
      BY <1>1, <1>3, <3>3
    <3> QED
      BY <1>3, <2>2, <3>1, <3>2, <3>3
  <2> QED
    BY <1>1, <2>1, <2>2 DEF Copied
<1>10. EndFound'
  <2>1. end' = IF j = index THEN p ELSE end
    BY <1>1, <1>5 DEF j
  <2>2. ASSUME NEW l \in Line, l < p + 1, l % RAND_ARRAY_SIZE = index
        PROVE  end' # -1 /\ l <= end'
    <3>1. l \in Nat
      BY LineParts
    <3>2. CASE l = p
      BY <1>3, <2>1, <2>2, <3>2 DEF j
    <3>3. CASE l # p
      BY <1>2, <1>3, <2>1, <2>2, <3>1, <3>3 DEF EndFound
    <3> QED
      BY <3>2, <3>3
  <2>3. ASSUME end' # -1
        PROVE  end' \in Line /\ end' < p + 1 /\ end' % RAND_ARRAY_SIZE = index
    <3>1. CASE j = index
      BY <1>1, <1>3, <2>1, <3>1 DEF j
    <3>2. CASE j # index
      <4>1. end \in Line /\ end < p /\ end % RAND_ARRAY_SIZE = index
        BY <1>2, <2>1, <2>3, <3>2 DEF EndFound
      <4>2. end \in Nat
        BY <4>1, LineParts
      <4> QED
        BY <1>3, <2>1, <3>2, <4>1, <4>2
    <3> QED
      BY <3>1, <3>2
  <2> QED
    BY <1>1, <2>2, <2>3 DEF EndFound
<1> QED
  BY <1>1, <1>7, <1>8, <1>9, <1>10 DEF BufferInv

\* The last line that ends its block's chain is that of the last block.
LEMMA EndIsLast ==
  ASSUME BufferInv, buf_pc = "close"
  PROVE  end = LastLine /\ LastLine \in Line
<1>1. /\ BufferTypeOK /\ ChainInv /\ Numbered /\ EndFound /\ p = Lines
      /\ Lines \in Nat /\ index \in Elem
      /\ nblk \in Nat /\ nblk > 0 /\ RAND_ARRAY_SIZE \in Nat
  BY SizesAre, SizeFacts, BlkAssumption DEF BufferInv, BufferTypeOK
<1>2. nblk - 1 \in Nat /\ nblk - 1 < nblk
  BY <1>1
<1>3. LastLine \in Line /\ LastLine % RAND_ARRAY_SIZE = index
  BY <1>1, <1>2, LineAt DEF LastLine
<1>4. LastLine < p /\ LastLine \in Nat
  BY <1>1, <1>3, LineParts
<1>5. end # -1 /\ LastLine <= end
  BY <1>1, <1>3, <1>4 DEF EndFound
<1>6. end \in Line /\ end % RAND_ARRAY_SIZE = index
  BY <1>1, <1>5 DEF EndFound
<1>7. PICK q \in Nat : q < nblk /\ end = q * RAND_ARRAY_SIZE + index
  BY <1>6, LineParts
<1>8. end <= LastLine
  <2>1. CASE q = nblk - 1
    BY <1>1, <1>4, <1>7, <2>1 DEF LastLine
  <2>2. CASE q < nblk - 1
    <3>1. /\ q * RAND_ARRAY_SIZE \in Nat /\ (nblk - 1) * RAND_ARRAY_SIZE \in Nat
          /\ q * RAND_ARRAY_SIZE + RAND_ARRAY_SIZE <= (nblk - 1) * RAND_ARRAY_SIZE
      BY <1>1, <1>2, <2>2, BlockBelow, LineAt
    <3>2. index \in Nat
      BY <1>1 DEF Elem
    <3> QED
      BY <1>1, <1>7, <3>1, <3>2 DEF LastLine
  <2> QED
    BY <1>1, <1>7, <2>1, <2>2
<1>9. end \in Nat
  BY <1>6, LineParts
<1> QED
  BY <1>3, <1>4, <1>5, <1>8, <1>9

LEMMA BufferStep ==
  ASSUME BufferInv, [BufferNext]_bufferVars
  PROVE  BufferInv'
<1>1. ASSUME NEW r \in Elem, Draw(r) PROVE BufferInv'
  BY <1>1, DrawKeepsBuffer
<1>2. CASE Copy
  BY <1>2, CopyKeepsBuffer
<1>3. CASE CopyDone \/ UNCHANGED bufferVars
  <2>1. /\ s_rand_arr' = s_rand_arr /\ index' = index /\ buf' = buf /\ p' = p
        /\ end' = end /\ place' = place
    BY <1>3 DEF CopyDone, bufferVars
  <2>2. \/ buf_pc = "copy" /\ buf_pc' = "close" /\ p \notin Line
        \/ buf_pc' = buf_pc
    BY <1>3 DEF CopyDone, bufferVars
  <2>3. BufferTypeOK' /\ ChainInv' /\ Numbered'
    BY <2>1, <2>2 DEF BufferInv, BufferTypeOK, ChainInv, ChainType, Growing, OnChain, OneChain,
                      Numbered
  <2>4. Copied => Copied'
    BY <2>1 DEF Copied, Next_line, Block
  <2>5. EndFound => EndFound'
    BY <2>1 DEF EndFound
  <2>6. p \notin Line => p = Lines
    BY SizesAre DEF BufferInv, BufferTypeOK, Lines
  <2>7. LastLine' = LastLine /\ \A l : Next_line(l)' = Next_line(l)
    BY <2>1 DEF LastLine, Next_line, Block
  <2> QED
    BY <2>1, <2>2, <2>3, <2>4, <2>5, <2>6, <2>7 DEF BufferInv
<1>4. CASE Close
  <2>1. /\ buf_pc = "close" /\ buf_pc' = "done"
        /\ s_rand_arr' = s_rand_arr /\ index' = index /\ p' = p
        /\ end' = end /\ place' = place
        /\ buf' = IF end = -1 THEN buf ELSE [buf EXCEPT ![end] = 0]
    BY <1>4 DEF Close
  <2>2. end = LastLine /\ LastLine \in Line /\ end # -1
    BY <2>1, EndIsLast, SizesAre
  <2>3. /\ BufferTypeOK /\ buf \in [Line -> -1..Lines] /\ 0 \in -1..Lines
        /\ Copied /\ p = Lines
    BY <2>1, SizesAre DEF BufferInv, BufferTypeOK, Lines
  <2>4. BufferTypeOK'
    <3>1. buf' \in [Line -> -1..Lines]
      BY <2>1, <2>2, <2>3
    <3> QED
      BY <2>1, <2>3, <3>1 DEF BufferTypeOK, Lines
  <2>5. ChainInv' /\ Numbered'
    BY <2>1 DEF BufferInv, ChainInv, ChainType, Growing, OnChain, OneChain, Numbered
  <2>6. LastLine' = LastLine /\ \A l : Next_line(l)' = Next_line(l)
    BY <2>1 DEF LastLine, Next_line, Block
  <2>7. ASSUME NEW l \in Line PROVE buf'[l] = IF l = LastLine THEN 0 ELSE Next_line(l)
    <3>1. l < p
      BY <2>3, LineParts
    <3> QED
      BY <2>1, <2>2, <2>3, <3>1 DEF Copied
  <2> QED
    BY <2>1, <2>4, <2>5, <2>6, <2>7 DEF BufferInv
<1> QED
  BY <1>1, <1>2, <1>3, <1>4 DEF BufferNext

-----------------------------------------------------------------------------
(***************************************************************************)
(* Reading the finished buffer.  The k-th read stands at the element with  *)
(* number k % RAND_ARRAY_SIZE of its block: no induction over the reads is *)
(* needed to see that this is a solution of walk's equation.               *)
(***************************************************************************)
At(n) == CHOOSE i \in Elem : place[i] = n
Visit(k) == Block(k) + At(k % RAND_ARRAY_SIZE)

LEMMA AtFacts ==
  ASSUME BufferInv, buf_pc = "done"
  PROVE  /\ \A n \in Elem : At(n) \in Elem /\ place[At(n)] = n
         /\ \A i \in Elem : place[i] \in Elem /\ At(place[i]) = i
         /\ At(0) = 0
         /\ At(RAND_ARRAY_SIZE - 1) = index
         /\ s_rand_arr[index] = RAND_ARRAY_SIZE
         /\ \A n \in Elem : n + 1 \in Elem => At(n) # index /\ s_rand_arr[At(n)] = At(n + 1)
         /\ index \in Elem
<1>1. /\ place[0] = 0
      /\ place[index] = RAND_ARRAY_SIZE - 1
      /\ \A i \in Elem : place[i] \in Elem
      /\ \A i, j \in Elem : place[i] = place[j] => i = j
      /\ \A k \in Elem : \E i \in Elem : place[i] = k
      /\ s_rand_arr[index] = RAND_ARRAY_SIZE
      /\ \A i \in Elem \ {index} : /\ s_rand_arr[i] \in Elem
                                   /\ place[s_rand_arr[i]] = place[i] + 1
      /\ index \in Elem
  BY ClosedChain DEF BufferInv, ChainInv, ChainType
<1>2. \A n \in Elem : At(n) \in Elem /\ place[At(n)] = n
  BY <1>1 DEF At
<1>3. \A i \in Elem : At(place[i]) = i
  BY <1>1, <1>2
<1>4. At(0) = 0 /\ At(RAND_ARRAY_SIZE - 1) = index
  BY <1>1, <1>3, SizeFacts
<1>5. ASSUME NEW n \in Elem, n + 1 \in Elem
      PROVE  At(n) # index /\ s_rand_arr[At(n)] = At(n + 1)
  <2>1. At(n) # index
    <3>1. n # RAND_ARRAY_SIZE - 1
      BY <1>5, SizeFacts DEF Elem
    <3> QED
      BY <1>1, <1>2, <3>1
  <2>2. s_rand_arr[At(n)] \in Elem /\ place[s_rand_arr[At(n)]] = n + 1
    BY <1>1, <1>2, <2>1
  <2> QED
    BY <1>3, <2>1, <2>2
<1> QED
  BY <1>1, <1>2, <1>3, <1>4, <1>5

LEMMA NextVisit ==
  ASSUME BufferInv, buf_pc = "done", NEW k \in Line
  PROVE  /\ Visit(k) \in Line
         /\ k + 1 \in Line => buf[Visit(k)] = Visit(k + 1)
         /\ k + 1 \notin Line => buf[Visit(k)] = 0
<1> DEFINE q == k \div RAND_ARRAY_SIZE
           r == k % RAND_ARRAY_SIZE
<1>1. /\ q \in Nat /\ q < nblk /\ r \in Elem /\ k = q * RAND_ARRAY_SIZE + r
      /\ k \in Nat /\ k < Lines
  BY LineParts
<1>2. Visit(k) = q * RAND_ARRAY_SIZE + At(r)
  BY DEF Visit, Block
<1> HIDE DEF q, r
<1>3. /\ RAND_ARRAY_SIZE \in Nat /\ RAND_ARRAY_SIZE > 0 /\ nblk \in Nat /\ nblk > 0
      /\ Lines \in Nat /\ q * RAND_ARRAY_SIZE \in Nat
      /\ r \in 0..(RAND_ARRAY_SIZE - 1) /\ index \in Elem /\ index \in Int
  BY <1>1, SizesAre, SizeFacts, BlkAssumption, AtFacts, LineAt DEF Elem
<1>4. At(r) \in Elem /\ At(r) \in Int
  BY <1>1, AtFacts, SizeFacts
<1>5. /\ Visit(k) \in Line
      /\ Visit(k) \div RAND_ARRAY_SIZE = q
      /\ Visit(k) % RAND_ARRAY_SIZE = At(r)
  BY <1>1, <1>2, <1>4, LineAt
<1>6. buf[Visit(k)] = IF Visit(k) = LastLine THEN 0 ELSE Next_line(Visit(k))
  BY <1>5 DEF BufferInv
<1>7. Next_line(Visit(k)) = q * RAND_ARRAY_SIZE + s_rand_arr[At(r)]
  BY <1>5 DEF Next_line, Block
<1>8. /\ nblk - 1 \in Nat /\ nblk - 1 < nblk
      /\ LastLine \div RAND_ARRAY_SIZE = nblk - 1 /\ LastLine % RAND_ARRAY_SIZE = index
  BY <1>3, LineAt DEF LastLine
<1>9. CASE r # RAND_ARRAY_SIZE - 1
  <2>1. r + 1 \in Elem
    BY <1>3, <1>9 DEF Elem
  <2>2. k + 1 = q * RAND_ARRAY_SIZE + (r + 1)
    BY <1>1, <1>3
  <2>3. /\ k + 1 \in Line
        /\ (k + 1) \div RAND_ARRAY_SIZE = q /\ (k + 1) % RAND_ARRAY_SIZE = r + 1
    BY <1>1, <2>1, <2>2, LineAt
  <2>4. Visit(k + 1) = q * RAND_ARRAY_SIZE + At(r + 1)
    BY <2>3 DEF Visit, Block
  <2>5. At(r) # index /\ s_rand_arr[At(r)] = At(r + 1)
    BY <1>1, <2>1, AtFacts
  <2>6. Visit(k) # LastLine
    BY <1>5, <1>8, <2>5
  <2> QED
    BY <1>5, <1>6, <1>7, <2>3, <2>4, <2>5, <2>6
<1>10. CASE r = RAND_ARRAY_SIZE - 1
  <2>1. At(r) = index /\ s_rand_arr[At(r)] = RAND_ARRAY_SIZE
    BY <1>10, AtFacts
  <2>2. CASE q = nblk - 1
    <3>1. Visit(k) = LastLine
      BY <1>2, <2>1, <2>2 DEF LastLine
    <3>2. k + 1 = (nblk - 1) * RAND_ARRAY_SIZE + RAND_ARRAY_SIZE
      BY <1>1, <1>3, <1>10, <2>2
    <3>3. (nblk - 1) * RAND_ARRAY_SIZE + RAND_ARRAY_SIZE = Lines
      BY <1>3 DEF Lines
    <3>4. k + 1 \notin Line
      BY <1>3, <3>2, <3>3, SizesAre
    <3> QED
      BY <1>5, <1>6, <3>1, <3>4
  <2>3. CASE q # nblk - 1
    <3>1. q + 1 \in Nat /\ q + 1 < nblk
      BY <1>1, <1>3, <2>3
    <3>2. (q + 1) * RAND_ARRAY_SIZE = q * RAND_ARRAY_SIZE + RAND_ARRAY_SIZE
      BY <1>1, <1>3
    <3>3. k + 1 = (q + 1) * RAND_ARRAY_SIZE + 0
      BY <1>1, <1>3, <1>10, <3>2
    <3>4. /\ k + 1 \in Line
          /\ (k + 1) \div RAND_ARRAY_SIZE = q + 1 /\ (k + 1) % RAND_ARRAY_SIZE = 0
      BY <3>1, <3>3, SizeFacts, LineAt
    <3>5. Visit(k + 1) = (q + 1) * RAND_ARRAY_SIZE + 0
      BY <3>4, AtFacts DEF Visit, Block
    <3>6. Visit(k) # LastLine
      BY <1>5, <1>8, <2>3
    <3>7. buf[Visit(k)] = q * RAND_ARRAY_SIZE + RAND_ARRAY_SIZE
      BY <1>6, <1>7, <2>1, <3>6
    <3> QED
      BY <1>3, <1>5, <3>2, <3>4, <3>5, <3>7
  <2> QED
    BY <2>2, <2>3
<1> QED
  BY <1>9, <1>10

LEMMA VisitsAll ==
  ASSUME BufferInv, buf_pc = "done"
  PROVE  /\ Visit(0) = 0
         /\ \A l \in Line : \E k \in Line : Visit(k) = l
<1>1. Visit(0) = 0
  <2>1. 0 \in Nat /\ 0 < nblk /\ 0 \in Elem /\ RAND_ARRAY_SIZE \in Nat
    BY BlkAssumption, SizeFacts
  <2>2. 0 * RAND_ARRAY_SIZE + 0 = 0 /\ 0 * RAND_ARRAY_SIZE = 0
    BY <2>1
  <2>3. 0 \div RAND_ARRAY_SIZE = 0 /\ 0 % RAND_ARRAY_SIZE = 0
    BY <2>1, <2>2, LineAt
  <2> QED
    BY <2>2, <2>3, AtFacts DEF Visit, Block
<1>2. ASSUME NEW l \in Line PROVE \E k \in Line : Visit(k) = l
  <2>1. PICK q \in Nat, i \in Elem : q < nblk /\ l = q * RAND_ARRAY_SIZE + i
    BY LineParts
  <2>2. place[i] \in Elem /\ At(place[i]) = i
    BY AtFacts
  <2>3. PICK k \in Line : k \div RAND_ARRAY_SIZE = q /\ k % RAND_ARRAY_SIZE = place[i]
    BY <2>1, <2>2, LineAt
  <2>4. Visit(k) = l
    BY <2>1, <2>2, <2>3 DEF Visit, Block
  <2> QED
    BY <2>4
<1> QED
  BY <1>1, <1>2

\* A function on Nat that satisfies walk's equation: round and round.
LEMMA WalkEquation ==
  ASSUME BufferInv, buf_pc = "done"
  PROVE  /\ walk[0] = 0
         /\ \A k \in Nat : walk[k + 1] = buf[walk[k]]
<1> DEFINE w == [k \in Nat |-> Visit(k % Lines)]
<1>1. Lines \in Nat /\ Lines > 0
  BY SizesAre
<1>2. w[0] = 0
  BY <1>1, VisitsAll
<1>3. ASSUME NEW k \in Nat, k # 0 PROVE w[k] = buf[w[k - 1]]
  <2> DEFINE m == (k - 1) % Lines
             d == (k - 1) \div Lines
  <2>1. k - 1 \in Nat /\ d \in Nat /\ m \in 0..(Lines - 1) /\ k - 1 = d * Lines + m
    BY <1>1, <1>3, DivMod
  <2>2. w[k - 1] = Visit(m) /\ w[k] = Visit(k % Lines)
    BY <2>1
  <2> HIDE DEF m, d
  <2>3. m \in Line /\ Line = 0..(Lines - 1)
    BY <2>1, SizesAre
  <2>4. CASE m + 1 \in Line
    <3>1. k = d * Lines + (m + 1) /\ m + 1 \in 0..(Lines - 1)
      BY <1>1, <2>1, <2>3, <2>4
    <3>2. k % Lines = m + 1
      BY <1>1, <2>1, <3>1, DivModUnique
    <3> QED
      BY <2>2, <2>3, <2>4, <3>2, NextVisit
  <2>5. CASE m + 1 \notin Line
    <3>1. m = Lines - 1
      BY <1>1, <2>1, <2>3, <2>5
    <3>2. k = (d + 1) * Lines + 0 /\ d + 1 \in Nat /\ 0 \in 0..(Lines - 1)
      BY <1>1, <2>1, <3>1
    <3>3. k % Lines = 0
      BY <1>1, <3>2, DivModUnique
    <3> QED
      BY <2>2, <2>3, <2>5, <3>3, NextVisit, VisitsAll
  <2> QED
    BY <2>4, <2>5
<1>4. w = [k \in Nat |-> IF k = 0 THEN 0 ELSE buf[w[k - 1]]]
  <2>1. \A k \in Nat : w[k] = IF k = 0 THEN 0 ELSE buf[w[k - 1]]
    BY <1>2, <1>3
  <2>2. w = [k \in Nat |-> w[k]]
    OBVIOUS
  <2> HIDE DEF w
  <2> QED
    BY <2>1, <2>2
<1> HIDE DEF w
<1>5. walk = [k \in Nat |-> IF k = 0 THEN 0 ELSE buf[walk[k - 1]]]
  BY <1>4 DEF walk
<1>6. walk[0] = 0
  BY <1>5
<1>7. ASSUME NEW k \in Nat PROVE walk[k + 1] = buf[walk[k]]
  <2>1. k + 1 \in Nat /\ k + 1 # 0 /\ (k + 1) - 1 = k
    OBVIOUS
  <2> QED
    BY <1>5, <2>1
<1> QED
  BY <1>6, <1>7

\* The first read that stood elsewhere would follow one that stood right.
LEMMA WalkVisits ==
  ASSUME BufferInv, buf_pc = "done", NEW k \in Line
  PROVE  walk[k] = Visit(k)
<1> DEFINE T == {n \in Line : walk[n] # Visit(n)}
           less == {ss \in Nat \X Nat : ss[1] < ss[2]}
<1> SUFFICES ASSUME T # {} PROVE FALSE
  OBVIOUS
<1>1. T \subseteq Nat
  BY SizesAre
<1>2. IsWellFoundedOn(less, Nat)
  BY NatLessThanWellFounded DEF OpToRel
<1> HIDE DEF less, T
<1>3. PICK n \in T : \A m \in T : <<m, n>> \notin less
  BY <1>1, <1>2, WFMin
<1>4. n \in Line /\ walk[n] # Visit(n) /\ n \in Nat
  BY <1>1, <1>3 DEF T
<1>5. n # 0
  BY <1>4, WalkEquation, VisitsAll
<1>6. n - 1 \in Nat /\ n - 1 \in Line /\ (n - 1) + 1 = n /\ n - 1 < n
  BY <1>4, <1>5, SizesAre
<1>7. n - 1 \notin T
  BY <1>3, <1>4, <1>6 DEF less
<1>8. walk[n - 1] = Visit(n - 1)
  BY <1>6, <1>7 DEF T
<1>9. walk[n] = buf[Visit(n - 1)]
  BY <1>6, <1>8, WalkEquation
<1> QED
  BY <1>4, <1>6, <1>9, NextVisit

LEMMA BufferVisited == BufferInv => VisitsEveryLine
<1> SUFFICES ASSUME BufferInv, buf_pc = "done"
             PROVE  /\ {walk[k] : k \in 0..(Lines - 1)} = Line
                    /\ walk[Lines] = 0
  BY DEF VisitsEveryLine, Lines
<1>1. Lines \in Nat /\ Lines > 0 /\ Line = 0..(Lines - 1)
  BY SizesAre
<1>2. \A k \in Line : walk[k] = Visit(k) /\ Visit(k) \in Line
  BY WalkVisits, NextVisit
<1>3. {walk[k] : k \in Line} = Line
  BY <1>2, VisitsAll
<1>4. Lines - 1 \in Nat /\ Lines - 1 \in Line /\ (Lines - 1) + 1 = Lines /\ Lines \notin Line
  BY <1>1
<1>5. walk[Lines] = 0
  BY <1>2, <1>4, WalkEquation, NextVisit
<1> QED
  BY <1>1, <1>3, <1>5

\* What rand_array_init and rand_buf_init keep, for any draws.
THEOREM BufferInvariant == BufferSpec => []BufferInv
<1>1. BufferInit => BufferInv
  BY FreshBuffer DEF BufferInit
<1> QED
  BY <1>1, BufferStep, PTL DEF BufferSpec

\* The finished buffer is one cycle through all its lines, whatever rand() drew
\* and however many blocks there are.
THEOREM BufferIsOneCycle == BufferSpec => []VisitsEveryLine
BY BufferInvariant, BufferVisited, PTL

=============================================================================

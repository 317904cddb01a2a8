-------------------------------- MODULE Mgen --------------------------------
(***************************************************************************)
(* The latency probe's buffer (src/mgen.cpp).  dependent_read measures a   *)
(* node's memory latency by following pointers, one per cache line, through *)
(* a buffer.  The figure means something only if the pointers lead through *)
(* all lines before they come back.  rand_array_init draws a random order  *)
(* of RAND_ARRAY_SIZE lines, and rand_buf_init lays one copy of it after   *)
(* the other into the buffer.                                              *)
(*                                                                         *)
(* Lines of the buffer are numbered from 0; a pointer is a line's number.  *)
(***************************************************************************)
EXTENDS Integers

CONSTANTS
  RAND_ARRAY_SIZE,   \* lines in one block
  nblk               \* blocks in the buffer

ASSUME SizeAssumption == RAND_ARRAY_SIZE \in Nat \ {0}
ASSUME BlkAssumption == nblk \in Nat \ {0}

INVALID_RAND == -1

Elem == 0..(RAND_ARRAY_SIZE - 1)
Line == 0..(nblk * RAND_ARRAY_SIZE - 1)

VARIABLES
  buf_pc,       \* how far the buffer is
  s_rand_arr,   \* element -> the next one; RAND_ARRAY_SIZE ends the chain
  index,        \* the element rand_array_init is about to link
  buf,          \* line -> the line it points to
  p,            \* the line rand_buf_init is about to write
  end,          \* the last line seen that ends its block's chain, -1 for NULL
  place         \* history: how far down the chain each linked element is

bufferVars == <<buf_pc, s_rand_arr, index, buf, p, end, place>>

BufferTypeOK ==
  /\ buf_pc \in {"link", "copy", "close", "done"}
  /\ s_rand_arr \in [Elem -> -1..RAND_ARRAY_SIZE]
  /\ index \in Elem
  /\ buf \in [Line -> -1..(nblk * RAND_ARRAY_SIZE)]
  /\ p \in 0..(nblk * RAND_ARRAY_SIZE)
  /\ end \in Line \cup {-1}
  /\ place \in [Elem -> Nat]

BufferInit ==
  /\ buf_pc = "link"
  /\ s_rand_arr = [i \in Elem |-> INVALID_RAND]
  /\ index = 0
  /\ buf = [l \in Line |-> -1]
  /\ p = 0
  /\ end = -1
  /\ place = [i \in Elem |-> 0]

\* The buffer is freed: the next one is filled from the start.
Discard ==
  /\ buf_pc' = "link"
  /\ s_rand_arr' = [i \in Elem |-> INVALID_RAND]
  /\ index' = 0
  /\ buf' = [l \in Line |-> -1]
  /\ p' = 0
  /\ end' = -1
  /\ place' = [i \in Elem |-> 0]

-----------------------------------------------------------------------------
(***************************************************************************)
(* rand_array_init                                                         *)
(***************************************************************************)
Free(arr) == {i \in Elem : arr[i] = INVALID_RAND}

\* Mutant: the loop waits for no element to be free.
last_free_elem_None(arr) == Free(arr) = {}

\* Exactly one element of arr is free.
last_free_elem(arr) == \E i \in Elem : Free(arr) = {i}

\* Mutant: the element drawn may be the one it is to follow.
CanLink_Self(r) == s_rand_arr[index] = INVALID_RAND

\* r, drawn by the inner loop, can go behind index.
CanLink(r) == s_rand_arr[index] = INVALID_RAND /\ index # r

Linked(r) == IF CanLink(r) THEN [s_rand_arr EXCEPT ![index] = r] ELSE s_rand_arr

Draw(r) ==
  /\ buf_pc = "link"
  /\ r \in Free(s_rand_arr)
  /\ index' = IF CanLink(r) THEN r ELSE index
  /\ place' = IF CanLink(r) THEN [place EXCEPT ![r] = place[index] + 1] ELSE place
  /\ IF last_free_elem(Linked(r))
       THEN /\ s_rand_arr' = [Linked(r) EXCEPT ![index'] = RAND_ARRAY_SIZE]
            /\ buf_pc' = "copy"
       ELSE /\ s_rand_arr' = Linked(r)
            /\ UNCHANGED buf_pc
  /\ UNCHANGED <<buf, p, end>>

-----------------------------------------------------------------------------
(***************************************************************************)
(* rand_buf_init                                                           *)
(***************************************************************************)
blk_start == (p \div RAND_ARRAY_SIZE) * RAND_ARRAY_SIZE

\* Mutant: the loop runs past the buffer's end.
Copy_PastEnd ==
  /\ buf_pc = "copy"
  /\ p <= nblk * RAND_ARRAY_SIZE
  /\ LET j == p % RAND_ARRAY_SIZE
     IN  /\ end' = IF s_rand_arr[j] = RAND_ARRAY_SIZE THEN p ELSE end
         /\ buf' = [buf EXCEPT ![p] = blk_start + s_rand_arr[j]]
  /\ p' = p + 1
  /\ UNCHANGED <<buf_pc, s_rand_arr, index, place>>

\* Write one line's pointer.  The end of a block's chain points one block's
\* length past the block's start, at the next block.
Copy ==
  /\ buf_pc = "copy"
  /\ p \in Line
  /\ LET j == p % RAND_ARRAY_SIZE
     IN  /\ end' = IF s_rand_arr[j] = RAND_ARRAY_SIZE THEN p ELSE end
         /\ buf' = [buf EXCEPT ![p] = blk_start + s_rand_arr[j]]
  /\ p' = p + 1
  /\ UNCHANGED <<buf_pc, s_rand_arr, index, place>>

CopyDone ==
  /\ buf_pc = "copy"
  /\ p \notin Line
  /\ buf_pc' = "close"
  /\ UNCHANGED <<s_rand_arr, index, buf, p, end, place>>

\* Mutant: the last element of the chain points back at its own block.
Close_SameBlock ==
  /\ buf_pc = "close"
  /\ buf' = [buf EXCEPT ![end] = (end \div RAND_ARRAY_SIZE) * RAND_ARRAY_SIZE]
  /\ buf_pc' = "done"
  /\ UNCHANGED <<s_rand_arr, index, p, end, place>>

\* The end of the last block's chain points back at the start.
Close ==
  /\ buf_pc = "close"
  /\ buf' = IF end = -1 THEN buf ELSE [buf EXCEPT ![end] = 0]
  /\ buf_pc' = "done"
  /\ UNCHANGED <<s_rand_arr, index, p, end, place>>

BufferNext ==
  \/ \E r \in Elem : Draw(r)
  \/ Copy
  \/ CopyDone
  \/ Close

BufferSpec == BufferInit /\ [][BufferNext]_bufferVars

-----------------------------------------------------------------------------
(***************************************************************************)
(* Properties                                                              *)
(***************************************************************************)

\* rand_array_init links all elements of a block into one chain that starts
\* at element 0: place numbers the elements along it without gap or repeat.
OneChain ==
  buf_pc # "link" =>
    /\ place[0] = 0
    /\ \A i, j \in Elem : place[i] = place[j] => i = j
    /\ \A i \in Elem :
         \/ s_rand_arr[i] \in Elem /\ place[s_rand_arr[i]] = place[i] + 1
         \/ s_rand_arr[i] = RAND_ARRAY_SIZE /\ i = index

\* Where the k-th read of buf_read finds itself, starting from the buffer.
walk[k \in Nat] == IF k = 0 THEN 0 ELSE buf[walk[k - 1]]

\* Following the pointers from the start visits every line of the buffer, and
\* comes back to the start only then: the reads never settle in a short cycle
\* that fits into a cache.
VisitsEveryLine ==
  buf_pc = "done" =>
    LET n == nblk * RAND_ARRAY_SIZE
    IN  /\ {walk[k] : k \in 0..(n - 1)} = Line
        /\ walk[n] = 0

=============================================================================

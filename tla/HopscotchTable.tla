--------------------------- MODULE HopscotchTable ---------------------------
(***************************************************************************)
(* SimpleHashTable with USE_HOPSCOTCH (src/include/SimpleHashTable.h) as   *)
(* SimpleHashSet::hashSet fills it: reserve(size), then hopscotchInsert of *)
(* the list's last id and pop_back until the list is empty.  The calls of  *)
(* hopscotchInsert, hopscotchTryInsert and hopscotchReconstruct recurse    *)
(* into one another, so they are frames of an explicit call stack; one     *)
(* step runs one frame up to its next call or return.  Afterwards the      *)
(* lookups contains (scalar or AVX512) and vector_lookup are operators on  *)
(* the table.  reserve draws a_hash, b_hash from rand_r; every value is    *)
(* allowed.  Hashes are computed in W-bit words (32 in the code).          *)
(***************************************************************************)
EXTENDS Integers, Sequences, SequencesExt

CONSTANTS
  Key,             \* vertex ids, all below 2^W
  Inputs,          \* the lists hashSet may be called on (distinct ids)
  W,               \* the word width of hashFunction
  HS_BUCKET_SIZE,  \* 16 in the code
  VECTOR_SIZE,     \* 16 with AVX512, 1 without
  nAttempts,       \* hopscotchInsert's retry bound: 10
  MaxCapacity,     \* model bound on the table size, at most 2^W; a
                   \* rebuild past it is disabled and shows as a deadlock
  AVX              \* TRUE when contains is the AVX512 one

EMPTY_KEY == -1
INVAL_KEY == -2
\* What a load past the allocation may read.
Garbage == Key \cup {EMPTY_KEY, INVAL_KEY}

VARIABLES
  input, pending,       \* the list hashed, and what is left of it
  capacity, M_hash, a_hash, b_hash,
  array, num_of_elems,
  stack,                \* frames of hopscotchInsert / hopscotchReconstruct
  phase                 \* "hashing", "hashed", "exited" (exit(1))

vars == <<input, pending, capacity, M_hash, a_hash, b_hash, array,
          num_of_elems, stack, phase>>

phys_capacity == capacity + VECTOR_SIZE - 1

\* 32 - __builtin_clz(n): the number of bits of n > 0.
Bits(n) == CHOOSE k \in 0..W + 2 : 2^k > n /\ 2^k <= 2 * n

\* 32 - __builtin_clz(2*cap-1) of lines 79 and 87: for cap = 0 the size_t
\* 2*cap-1 wraps to all ones, its low 32 bits have no leading zero, and
\* the result is W.
ClzWidth(cap) == IF cap = 0 THEN W ELSE Bits(2 * cap - 1)

\* 1 << m of line 79.  For m = W the shift is undefined; the build's x86
\* SHL takes the count mod 32, so reserve(0) gets capacity 1.
ShiftOne(m) == 2^(m % W)

hashFunction(el) == ((el * a_hash + b_hash) % 2^W) \div 2^(W - M_hash)

distance(first, second) ==
  IF first >= second THEN first - second ELSE first - second + capacity

ReserveOK(cap) == 2^Bits(2 * cap - 1) <= MaxCapacity

\* Mutant: phys_capacity one slot too large.
ReservePhysPlusOne(cap) ==
  LET m == Bits(2 * cap - 1) IN
  /\ capacity' = 2^m /\ M_hash' = m
  /\ a_hash' \in {a \in 1..2^W - 1 : a % 2 = 1}
  /\ b_hash' \in 0..2^(W - m) - 1
  /\ array' = [i \in 0..2^m + VECTOR_SIZE - 1 |->
                 IF i < 2^m THEN EMPTY_KEY ELSE INVAL_KEY]
  /\ num_of_elems' = 0

\* reserve(cap), lines 79-96: a fresh table for cap ids, new hash
\* parameters.
Reserve(cap) ==
  LET m == Bits(2 * cap - 1) IN
  /\ capacity' = 2^m /\ M_hash' = m
  /\ a_hash' \in {a \in 1..2^W - 1 : a % 2 = 1}
  /\ b_hash' \in 0..2^(W - m) - 1
  /\ array' = [i \in 0..2^m + VECTOR_SIZE - 2 |->
                 IF i < 2^m THEN EMPTY_KEY ELSE INVAL_KEY]
  /\ num_of_elems' = 0

IsKey(v) == v \notin {EMPTY_KEY, INVAL_KEY}
Stored == {i \in 0..capacity - 1 : IsKey(array[i])}

\* Lines 167-171: from the home slot, the first empty slot or el itself;
\* after capacity probes pos is back at the home slot.
Probe(el) ==
  LET h == hashFunction(el)
      stop == {k \in 0..capacity - 1 :
                 array[(h + k) % capacity] \in {EMPTY_KEY, el}}
  IN IF stop = {} THEN h ELSE (h + Min(stop)) % capacity

\* Mutant: an id may be moved to any slot up to HS_BUCKET_SIZE from home.
MayMoveLoose(pos, v) == distance(pos, hashFunction(v)) <= HS_BUCKET_SIZE

\* Line 179: the id in a slot may move to the empty slot pos.
MayMove(pos, v) == distance(pos, hashFunction(v)) <= HS_BUCKET_SIZE - 1

\* Lines 174-186: move the empty slot back towards init until it is in
\* the neighbourhood; <<array, pos, success>>.  Every move copies an id
\* forward and makes its old slot the new pos.
RECURSIVE Displace(_, _, _)
Displace(arr, pos, init) ==
  IF distance(pos, init) < HS_BUCKET_SIZE THEN <<arr, pos, TRUE>>
  ELSE LET start == (pos - HS_BUCKET_SIZE + 1) % capacity
           js == {k \in 0..HS_BUCKET_SIZE - 2 :
                    MayMove(pos, arr[(start + k) % capacity])}
       IN IF js = {} THEN <<arr, pos, FALSE>>
          ELSE LET j == (start + Min(js)) % capacity
               IN Displace([arr EXCEPT ![pos] = arr[j]], j, init)

InsFrame(el) == [f |-> "ins", el |-> el, cnt |-> 0, st |-> "try"]
RecFrame == [f |-> "rec", old |-> array, i |-> 0]
Top == stack[Len(stack)]
SetTop(fr) == [stack EXCEPT ![Len(stack)] = fr]

-----------------------------------------------------------------------------
\* hashSet, lines 63-64: reserve(elems.size()).
Init ==
  /\ input \in Inputs /\ pending = input
  /\ LET m == ClzWidth(Len(input))
         cap == ShiftOne(m) IN
     /\ capacity = cap /\ M_hash = m
     /\ a_hash \in {a \in 1..2^W - 1 : a % 2 = 1}
     /\ b_hash \in 0..2^(W - m) - 1
     /\ array = [i \in 0..cap + VECTOR_SIZE - 2 |->
                   IF i < cap THEN EMPTY_KEY ELSE INVAL_KEY]
  /\ num_of_elems = 0 /\ stack = <<>> /\ phase = "hashing"

\* hashSet, lines 65-72: hopscotchInsert(elems.back()); elems.pop_back().
HashSetStep ==
  /\ phase = "hashing" /\ stack = <<>> /\ pending # <<>>
  /\ stack' = <<InsFrame(Last(pending))>>
  /\ pending' = Front(pending)
  /\ UNCHANGED <<input, capacity, M_hash, a_hash, b_hash, array, num_of_elems, phase>>

\* Line 73: isHashed = true.
HashSetEnd ==
  /\ phase = "hashing" /\ stack = <<>> /\ pending = <<>>
  /\ phase' = "hashed"
  /\ UNCHANGED <<input, pending, capacity, M_hash, a_hash, b_hash, array,
                 num_of_elems, stack>>

\* hopscotchTryInsert (lines 162-190).  On failure it calls
\* hopscotchReconstruct on the array as the moves left it (line 184).
TryInsert ==
  /\ phase = "hashing" /\ stack # <<>> /\ Top.f = "ins" /\ Top.st = "try"
  /\ LET el == Top.el
         pos == Probe(el)
         d == Displace(array, pos, hashFunction(el))
     IN IF array[pos] = el
        THEN /\ stack' = Front(stack)
             /\ UNCHANGED <<capacity, M_hash, a_hash, b_hash, array, num_of_elems>>
        ELSE IF d[3]
        THEN /\ array' = [d[1] EXCEPT ![d[2]] = el]
             /\ num_of_elems' = num_of_elems + 1
             /\ stack' = Front(stack)
             /\ UNCHANGED <<capacity, M_hash, a_hash, b_hash>>
        ELSE /\ ReserveOK(capacity)
             /\ Reserve(capacity)
             /\ stack' = Append(SetTop([Top EXCEPT !.st = "rec"]),
                                [f |-> "rec", old |-> d[1], i |-> 0])
  /\ UNCHANGED <<input, pending, phase>>

\* hopscotchInsert, line 158: after a failed try, hopscotchReconstruct
\* and the next attempt.  After the last attempt the program exits
\* (line 159), and what that last rebuild does is never seen.
RetryInsert ==
  /\ phase = "hashing" /\ stack # <<>> /\ Top.f = "ins" /\ Top.st = "rec"
  /\ IF Top.cnt + 1 < nAttempts
     THEN /\ ReserveOK(capacity)
          /\ Reserve(capacity)
          /\ stack' = Append(SetTop([Top EXCEPT !.cnt = @ + 1, !.st = "try"]),
                             RecFrame)
          /\ UNCHANGED phase
     ELSE /\ phase' = "exited"
          /\ UNCHANGED <<capacity, M_hash, a_hash, b_hash, array,
                         num_of_elems, stack>>
  /\ UNCHANGED <<input, pending>>

\* Mutant: the loop index of the re-insert loop is not advanced.
ReconstructStuck ==
  /\ phase = "hashing" /\ stack # <<>> /\ Top.f = "rec"
  /\ LET ks == {j \in DOMAIN Top.old : j >= Top.i /\ IsKey(Top.old[j])}
     IN IF ks = {}
        THEN stack' = Front(stack)
        ELSE stack' = Append(SetTop([Top EXCEPT !.i = Min(ks)]),
                             InsFrame(Top.old[Min(ks)]))
  /\ UNCHANGED <<input, pending, capacity, M_hash, a_hash, b_hash, array,
                 num_of_elems, phase>>

\* hopscotchReconstruct, lines 196-199: re-insert the next id of the old
\* array, or delete[] it and return.
Reconstruct ==
  /\ phase = "hashing" /\ stack # <<>> /\ Top.f = "rec"
  /\ LET ks == {j \in DOMAIN Top.old : j >= Top.i /\ IsKey(Top.old[j])}
     IN IF ks = {}
        THEN stack' = Front(stack)
        ELSE stack' = Append(SetTop([Top EXCEPT !.i = Min(ks) + 1]),
                             InsFrame(Top.old[Min(ks)]))
  /\ UNCHANGED <<input, pending, capacity, M_hash, a_hash, b_hash, array,
                 num_of_elems, phase>>

Terminating == phase \in {"hashed", "exited"} /\ UNCHANGED vars

Next == HashSetStep \/ HashSetEnd \/ TryInsert \/ RetryInsert \/ Reconstruct
          \/ Terminating

Spec == Init /\ [][Next]_vars /\ WF_vars(Next)

-----------------------------------------------------------------------------
(* Lookups on the hashed set.                                              *)

\* Mutant: the probe wraps at the physical end, into the INVAL slots.
NextSlotPhys(pos) == (pos + 1) % phys_capacity

\* Line 109: the next probe position.
NextSlot(pos) == (pos + 1) % capacity

\* Mutant: the loop runs number_of_attempts - 1 times.
RECURSIVE ScanScalarShort(_, _, _)
ScanScalarShort(el, pos, n) ==
  IF n <= 1 \/ array[pos] = EMPTY_KEY THEN FALSE
  ELSE array[pos] = el \/ ScanScalarShort(el, NextSlot(pos), n - 1)

\* Scalar contains, lines 104-110: number_of_attempts = HS_BUCKET_SIZE
\* probes, stopping at an empty slot.
RECURSIVE ScanScalar(_, _, _)
ScanScalar(el, pos, n) ==
  IF n = 0 \/ array[pos] = EMPTY_KEY THEN FALSE
  ELSE array[pos] = el \/ ScanScalar(el, NextSlot(pos), n - 1)

\* AVX512 contains, lines 119-129: number_of_attempts / VECTOR_SIZE + 1
\* loads of VECTOR_SIZE slots from pos; the next load starts VECTOR_SIZE on,
\* or at 0 once past capacity.  A lane at or past phys_capacity reads
\* outside the array, any value.  The set of results the build can give.
RECURSIVE ScanAvx(_, _, _)
ScanAvx(el, pos, n) ==
  IF n = 0 THEN {FALSE}
  ELSE LET lanes == pos..pos + VECTOR_SIZE - 1
           oob == {i \in lanes : i >= phys_capacity}
       IN UNION {LET v == [i \in lanes |-> IF i \in oob THEN g[i] ELSE array[i]]
                 IN IF \E i \in lanes : v[i] = el THEN {TRUE}
                    ELSE IF \E i \in lanes : v[i] = EMPTY_KEY THEN {FALSE}
                    ELSE ScanAvx(el, IF pos + VECTOR_SIZE > capacity THEN 0
                                     ELSE pos + VECTOR_SIZE, n - 1)
                 : g \in [oob -> Garbage]}

\* contains(el) of the build: line 101 / 115 return false on an empty table.
contains(el) ==
  IF num_of_elems = 0 THEN {FALSE}
  ELSE IF AVX THEN ScanAvx(el, hashFunction(el), HS_BUCKET_SIZE \div VECTOR_SIZE + 1)
  ELSE {ScanScalar(el, hashFunction(el), HS_BUCKET_SIZE)}

\* vector_lookup for one lane, lines 134-145: the gathered home slot
\* decides, else contains(el, home).
VectorLookup(el) ==
  LET p == hashFunction(el) IN
  IF num_of_elems = 0 THEN {FALSE}
  ELSE IF array[p] = el THEN {TRUE}
  ELSE IF array[p] = EMPTY_KEY THEN {FALSE}
  ELSE ScanAvx(el, p, HS_BUCKET_SIZE \div VECTOR_SIZE + 1)

-----------------------------------------------------------------------------
(* Properties.                                                             *)

TypeOK ==
  /\ input \in Inputs /\ pending \in Seq(Key)
  /\ capacity \in {2^m : m \in 0..W} /\ M_hash \in 0..W
  /\ array \in [0..phys_capacity - 1 -> Garbage]
  /\ num_of_elems \in 0..capacity
  /\ \A i \in DOMAIN stack : stack[i].f \in {"ins", "rec"}
  /\ phase \in {"hashing", "hashed", "exited"}

\* The hopscotch invariant every lookup relies on: between inserts, each
\* id sits fewer than HS_BUCKET_SIZE slots after its home, also after
\* displacements and after reconstructions with new hash parameters.
NeighbourhoodInvariant ==
  stack = <<>> =>
    \A i \in Stored : distance(i, hashFunction(array[i])) < HS_BUCKET_SIZE

\* Spec: promoting a set to hashed form changes no membership result.
\* Once hashSet has returned, contains answers exactly the ids of the list
\* and size() is the list's size, whatever displacements, failed tries
\* and nested reconstructions happened on the way.
HashSetPreservesMembership ==
  phase = "hashed" =>
    /\ num_of_elems = Len(input)
    /\ \A k \in Key : contains(k) = {k \in ToSet(input)}

\* Spec: the SIMD lookups (contains, vector_lookup) give the membership
\* result the scalar contains gives.
LookupsAgree ==
  phase = "hashed" =>
    \A k \in Key : contains(k) = {k \in ToSet(input)} /\ VectorLookup(k) = contains(k)

\* hashSet returns: no hopscotchInsert gives up with exit(1).
HashSetCompletes == <>(phase = "hashed")
=============================================================================

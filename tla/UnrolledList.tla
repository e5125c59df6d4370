---------------------------- MODULE UnrolledList ----------------------------
(***************************************************************************)
(* UnrolledList (src/include/UnrolledList.h, src/src/UnrolledList.cpp):    *)
(* the unsorted representation of SET_IMPL.  A list is a chain of buckets  *)
(* of ELEMS_IN_BUCKET slots; offset is the slot of the last element in the *)
(* tail bucket.  Slots past offset keep whatever they last held: a new     *)
(* bucket is filled with INVAL bytes, pop_back only moves offset.  The     *)
(* iterator (iter, iter_offs) is used the way MainBKTask::SpawnTask uses   *)
(* it on cand_task: get_next, then end_iter, on a list no longer modified. *)
(***************************************************************************)
EXTENDS Integers, Sequences, SequencesExt

CONSTANTS
  Key,              \* vertex ids
  ELEMS_IN_BUCKET,  \* 16 in the code (BUCKET_SIZE / sizeof(KeyType))
  AVX,              \* TRUE when built with USE_AVX512
  RemoveAbsent,     \* whether callers may remove an id that is not there
  Other             \* the ids of the hashed set the list is intersected with

EMPTY_KEY == -1
INVAL_KEY == -2     \* 0xEEEEEEEE: negative, never a vertex id

Slot == 0..ELEMS_IN_BUCKET - 1
NewBucket == [o \in Slot |-> INVAL_KEY]   \* Bucket(): memset(INVAL_BYTE)

VARIABLES
  buckets,       \* head .. tail; <<>> is head = NULL
  offset,
  num_of_elems,
  iter,          \* 0 is NULL, else the index of the bucket
  iter_offs,
  phase,         \* "build", "iterate" (get_next called), "done"
  returned,      \* the ids the caller got from get_next
  call           \* the last method called and its argument

vars == <<buckets, offset, num_of_elems, iter, iter_offs, phase, returned, call>>

tail == Len(buckets)   \* the index of the tail bucket
Val(pos) == buckets[pos[1]][pos[2]]

\* The positions for_each visits: from the head until (tail, offset + 1).
RECURSIVE Walk(_, _)
Walk(p, o) ==
  IF p > tail \/ (p = tail /\ o = offset + 1) THEN <<>>
  ELSE <<<<p, o>>>> \o IF o + 1 = ELEMS_IN_BUCKET THEN Walk(p + 1, 0)
                                                  ELSE Walk(p, o + 1)

LivePos == IF buckets = <<>> \/ num_of_elems = 0 THEN <<>> ELSE Walk(1, 0)

\* for_each: the ids in list order.
ForEach == [i \in DOMAIN LivePos |-> Val(LivePos[i])]

\* Every slot of every bucket, as the AVX512 scan with END_MASK = 0xFFFF
\* loads them.
AllPos == [i \in 1..tail * ELEMS_IN_BUCKET |->
             <<(i - 1) \div ELEMS_IN_BUCKET + 1, (i - 1) % ELEMS_IN_BUCKET>>]

\* Mutant: the scalar scan reads every slot, stale ones included.
FindInAll(el) ==
  LET hits == {i \in DOMAIN AllPos : Val(AllPos[i]) = el}
  IN IF hits = {} THEN <<0, -1>> ELSE AllPos[Min(hits)]

\* find_element: the first matching slot, or (NULL, -1).
FindElement(el) ==
  LET scan == IF AVX THEN AllPos ELSE LivePos
      hits == {i \in DOMAIN scan : Val(scan[i]) = el}
  IN IF hits = {} THEN <<0, -1>> ELSE scan[Min(hits)]

\* Mutant: offset is set one past the last slot of the new tail.
PopBackOffsetFull(b, off) ==
  IF off = 0
  THEN IF Len(b) = 1 THEN <<<<>>, 0>> ELSE <<Front(b), ELEMS_IN_BUCKET>>
  ELSE <<b, off - 1>>

\* Mutant: the emptied tail bucket is dropped but offset restarts at 0.
PopBackOffsetZero(b, off) ==
  IF off = 0
  THEN IF Len(b) = 1 THEN <<<<>>, 0>> ELSE <<Front(b), 0>>
  ELSE <<b, off - 1>>

\* pop_back on (buckets, offset): the new pair.
PopBackState(b, off) ==
  IF off = 0
  THEN IF Len(b) = 1 THEN <<<<>>, 0>> ELSE <<Front(b), ELEMS_IN_BUCKET - 1>>
  ELSE <<b, off - 1>>

-----------------------------------------------------------------------------
(* SimpleHashSet::intersect and intersection_size (SimpleHashSet.h) on     *)
(* this list and a hashed set `other`, whose contains / vector_lookup is   *)
(* taken as exact membership in Other (HopscotchTable checks the table).  *)

\* The scalar build, lines 108-113 and 141-146: for_each, keep what
\* other->contains.
Intersect == SelectSeq(ForEach, LAMBDA x : x \in Other)

\* exclude, lines 92-97: for_each, keep what other does not contain.
Exclude == SelectSeq(ForEach, LAMBDA x : x \notin Other)

\* Mutant: the tail bucket is loaded with END_MASK like the others.
ListEndMaskFull(off) == Slot

\* list_end_mask = (1 << (offset + 1)) - 1: the lanes 0..offset.
ListEndMask(off) == 0..off

\* The lanes of bucket p that vector_lookup may report: tmp_end_mask,
\* END_MASK (every slot) except on the tail.  One 16-lane window per
\* bucket, as VECTOR_SIZE = ELEMS_IN_BUCKET.
Lanes(p) == IF p = tail THEN ListEndMask(offset) ELSE Slot

\* The lanes of bucket p set in found_mask.
FoundLanes(p) == {i \in Lanes(p) : buckets[p][i] \in Other}

\* The AVX512 build, lines 115-137: walk the buckets from head, push the
\* found lanes of each.
RECURSIVE AvxIntersectFrom(_)
AvxIntersectFrom(p) ==
  IF p > tail THEN <<>>
  ELSE [i \in 1..Cardinality(FoundLanes(p)) |->
          buckets[p][CHOOSE l \in FoundLanes(p) :
                       Cardinality({m \in FoundLanes(p) : m < l}) = i - 1]]
       \o AvxIntersectFrom(p + 1)
AvxIntersect == AvxIntersectFrom(1)

\* Lines 148-167: the popcount of every found_mask.
RECURSIVE AvxIntersectionSizeFrom(_)
AvxIntersectionSizeFrom(p) ==
  IF p > tail THEN 0
  ELSE Cardinality(FoundLanes(p)) + AvxIntersectionSizeFrom(p + 1)

-----------------------------------------------------------------------------
Init ==
  /\ buckets = <<>> /\ offset = 0 /\ num_of_elems = 0
  /\ iter = 0 /\ iter_offs = 0
  /\ phase = "build" /\ returned = <<>> /\ call = <<"none", 0>>

\* push_back: callers add an id the set does not hold.
PushBack(el) ==
  /\ phase = "build" /\ el \notin ToSet(ForEach)
  /\ IF buckets = <<>>
     THEN /\ buckets' = <<[NewBucket EXCEPT ![0] = el]>>
          /\ offset' = 0
     ELSE IF offset = ELEMS_IN_BUCKET - 1
     THEN /\ buckets' = Append(buckets, [NewBucket EXCEPT ![0] = el])
          /\ offset' = 0
     ELSE /\ buckets' = [buckets EXCEPT ![tail][offset + 1] = el]
          /\ offset' = offset + 1
  /\ num_of_elems' = num_of_elems + 1
  /\ call' = <<"push_back", el>>
  /\ UNCHANGED <<iter, iter_offs, phase, returned>>

\* remove: the last id is copied over the found slot, then pop_back.
RemoveEl(el) ==
  /\ phase = "build"
  /\ el \in IF RemoveAbsent THEN Key ELSE ToSet(ForEach)
  /\ LET loc == FindElement(el)
         moved == [buckets EXCEPT ![loc[1]][loc[2]] = buckets[tail][offset]]
         after == PopBackState(moved, offset)
     IN IF loc[2] = -1
        THEN UNCHANGED <<buckets, offset, num_of_elems>>
        ELSE /\ buckets' = after[1] /\ offset' = after[2]
             /\ num_of_elems' = num_of_elems - 1
  /\ call' = <<"remove", el>>
  /\ UNCHANGED <<iter, iter_offs, phase, returned>>

\* pop_back, as SimpleHashSet::hashSet calls it on a non-empty list.
PopBack ==
  /\ phase = "build" /\ num_of_elems > 0
  /\ LET after == PopBackState(buckets, offset)
     IN buckets' = after[1] /\ offset' = after[2]
  /\ num_of_elems' = num_of_elems - 1
  /\ call' = <<"pop_back", 0>>
  /\ UNCHANGED <<iter, iter_offs, phase, returned>>

\* copy_list (UnrolledList.cpp 92-103): one new bucket per bucket, every
\* slot copied, stale ones included.
CopyBuckets(b) == [i \in DOMAIN b |-> [o \in Slot |-> b[i][o]]]

\* Mutant: the copy starts with offset 0.
CopyListNoOffset ==
  /\ phase = "build"
  /\ buckets' = CopyBuckets(buckets)
  /\ offset' = 0 /\ num_of_elems' = num_of_elems
  /\ iter' = 0 /\ iter_offs' = 0
  /\ call' = <<"copy", 0>>
  /\ UNCHANGED <<phase, returned>>

\* new Clique(R) in LoopIteration (BronKerboschTBB.cpp 269), after which
\* the child's copy is the list pushed to: the copy constructor (lines
\* 97-107) takes offset and num_of_elems, resets the iterator and
\* copies the buckets.
CopyList ==
  /\ phase = "build"
  /\ buckets' = CopyBuckets(buckets)
  /\ offset' = offset /\ num_of_elems' = num_of_elems
  /\ iter' = 0 /\ iter_offs' = 0
  /\ call' = <<"copy", 0>>
  /\ UNCHANGED <<phase, returned>>

\* Mutant: the end is one slot past the last element.
EndIterLate(it, io) == buckets = <<>> \/ (it = tail /\ io = offset + 1)

\* end_iter: head is NULL, or the iterator is on the last element.
EndIter(it, io) == buckets = <<>> \/ (it = tail /\ io = offset)

\* The iterator's step in get_next: to the head first, else one slot on.
Advance(it, io) ==
  IF it = 0 THEN <<1, 0>>
  ELSE IF io + 1 = ELEMS_IN_BUCKET THEN <<it + 1, 0>> ELSE <<it, io + 1>>

\* SpawnTask lines 104-117: get_next; -1 ends the task's loop, otherwise
\* the id is used and end_iter decides whether the task re-executes.
GetNext ==
  /\ phase \in {"build", "iterate"}
  /\ IF EndIter(iter, iter_offs)
     THEN /\ phase' = "done"
          /\ UNCHANGED <<iter, iter_offs, returned>>
     ELSE LET nx == Advance(iter, iter_offs)
          IN /\ iter' = nx[1] /\ iter_offs' = nx[2]
             /\ returned' = Append(returned, buckets[nx[1]][nx[2]])
             /\ phase' = IF EndIter(nx[1], nx[2]) THEN "done"
                                                           ELSE "iterate"
  /\ call' = <<"get_next", 0>>
  /\ UNCHANGED <<buckets, offset, num_of_elems>>

Done == phase = "done" /\ UNCHANGED vars

Next == (\E el \in Key : PushBack(el) \/ RemoveEl(el)) \/ PopBack \/ CopyList \/ GetNext \/ Done

Spec == Init /\ [][Next]_vars /\ WF_vars(GetNext)

-----------------------------------------------------------------------------
(* Properties.                                                             *)

TypeOK ==
  /\ buckets \in Seq([Slot -> Key \cup {INVAL_KEY}])
  /\ offset \in Slot /\ num_of_elems \in Nat
  /\ iter \in 0..tail /\ iter_offs \in Slot
  /\ phase \in {"build", "iterate", "done"}
  /\ returned \in Seq(Key)
  /\ call \in {"none", "push_back", "remove", "pop_back", "copy", "get_next"} \X (Key \cup {0})

\* size() is what the engine compares with PX_threshold and what hashSet
\* pops: it equals the number of ids for_each visits, after any sequence
\* of push_back, remove and pop_back that crosses bucket boundaries.
SizeMatchesContents == num_of_elems = Len(ForEach)

\* The vectorised intersect and intersection_size that the AVX512 build
\* compiles (utils.h defines USE_AVX512 and USE_VECTOR_LOOKUP) give the
\* ids and the count of the scalar for_each-and-contains, in list order,
\* whatever stale ids remove and pop_back left in the tail bucket: P' and
\* X' of LoopIteration and getPivot's scores rest on it (spec 8, set
\* algebra: intersect(A,B) is A filtered by B, and with exclude(A,B) it
\* partitions A, as StartTask's cand and LoopIteration's P' assume).
AvxIntersectAgrees ==
  /\ AvxIntersect = Intersect
  /\ AvxIntersectionSizeFrom(1) = Len(Intersect)
  /\ Len(AvxIntersect) + Len(Exclude) = Len(ForEach)
  /\ ToSet(AvxIntersect) \cup ToSet(Exclude) = ToSet(ForEach)

\* The list implements the unsorted vertex set: seen through for_each,
\* every push_back, remove and pop_back is the abstract append,
\* swap-remove and drop-last, and the get_next / end_iter protocol of
\* SpawnTask hands out every id of cand_task once, in list order, and
\* then ends the task's loop (VertexList's fairness makes it end).
VL == INSTANCE VertexList WITH seq <- ForEach
ImplementsVertexList == VL!Spec
=============================================================================

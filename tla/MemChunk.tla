------------------------------ MODULE MemChunk ------------------------------
(***************************************************************************)
(* The per-task arena sets_chunk (src/include/MemChunk.h) of a MainBKTask  *)
(* running with -o, and the tasks that allocate from and release into it: *)
(* the task itself (StartTask, LoopIteration, SequentialRun, SpawnTask's   *)
(* end, Continuation) and the children it spawns, whose P' and X' it       *)
(* carved from its own chunk.  MemChunk::allocations is a plain long:      *)
(* ++ and -- are a load and a store, and a store may land between another  *)
(* thread's load and store.                                                *)
(*                                                                         *)
(* Each thread runs a queue of micro-steps (todo); the actions that model  *)
(* the engine's handlers enqueue the steps their code performs, in order. *)
(* A carved set is an object id; the sets of the task that are not carved  *)
(* from this chunk (its own P_task and X_task) are left out.               *)
(***************************************************************************)
EXTENDS Integers, FiniteSets, Sequences

CONSTANTS
  MaxCand,   \* the most candidates a task of the run iterates over
  BlockLines, \* dynamic_block_size (-b), in 64-byte lines
  Setups     \* records: cands, the task's candidates; thresh and
             \* mem_thresh, the values main read for --thresh, --mem-thresh

ASSUME /\ MaxCand \in Nat \ {0} /\ BlockLines \in Nat \ {0}
       /\ Setups \subseteq [cands : 1..MaxCand, thresh : Nat, mem_thresh : Nat]

Parent == 0
Child == 1..MaxCand
Thread == {Parent} \cup Child


Cand == <<"cand", 0>>
PSet(k) == <<"P", k>>
XSet(k) == <<"X", k>>
\* The sets a SequentialRun one level down carves: its cand and the P''
\* and X'' of its one iteration.
InnerCand(k) == <<"cand", k>>
InnerP(k) == <<"P2", k>>
InnerX(k) == <<"X2", k>>
Obj == {Cand} \cup UNION {{PSet(k), XSet(k), InnerCand(k), InnerP(k), InnerX(k)} : k \in Child}
\* The first list bucket of child k's X_task, which X->add_elem (line 252)
\* creates in the chunk X_task came from (UnrolledList.cpp:6).
XBucket(k) == <<"Xbucket", k>>
Region == Obj \cup {XBucket(c) : c \in Child}
NoAddr == <<0, 0>>

VARIABLES
  allocations, \* MemChunk::allocations
  nblocks,     \* number_of_blocks: the blocks of dynamic_block_list
  free_index,  \* MemChunk::free_index, in 64-byte lines
  addr,        \* addr[o]: <<block, line>> get_address returned for o
  live,        \* sets carved from the chunk and not yet given to delete_set
  dangling,    \* sets whose memory delete_dynamic_blocks has freed
  todo,        \* todo[t]: the micro-steps thread t has still to run
  reg,         \* reg[t]: the value thread t loaded from allocations
  pc,          \* pc[t]: the handler thread t runs next
  k,           \* the parent's next candidate
  faults,      \* memory errors committed
  setup        \* the command line and the task of this run

vars == <<allocations, nblocks, free_index, addr, live, dangling, todo, reg, pc, k, faults, setup>>

NCand == setup.cands
PX_threshold == setup.thresh
mem_threshold == setup.mem_thresh

\* The task carves from sets_chunk when |P|+|X| < mem_threshold, and spawns
\* a child when |P'|+|X'| >= PX_threshold.  P' and X' are subsets of P and
\* X, so a child receives sets from this chunk only if the two bounds
\* leave room between them.
ChunkedSpawn == PX_threshold < mem_threshold

-----------------------------------------------------------------------------
(* Micro-steps.                                                            *)

Load == [op |-> "load"]
StoreInc == [op |-> "store_inc"]
StoreDec == [op |-> "store_dec"]
GaCheck == [op |-> "ga_check"]
GaLoad(o) == [op |-> "ga_load", obj |-> o]
GaStore == [op |-> "ga_store"]
Use(o) == [op |-> "use", obj |-> o]
Drop(o) == [op |-> "drop", obj |-> o]

\* Mutant: free_index is not advanced past the object.
GetAddressNoBump(o) == <<GaCheck, GaLoad(o)>>

\* get_address(size) for o: the check of line 32 with the new block of
\* lines 33-39; pointer = back().first + free_index (line 41); then
\* free_index += index_increment (line 42), a load and a store.  Every
\* object is rounded up to one 64-byte line.
GetAddress(o) == <<GaCheck, GaLoad(o), GaStore>>

\* create_set(chunk): placement new at get_address.  The buckets that
\* intersect then pushes into the new set come from the same thread's
\* next get_address calls; one call stands for them.
Carve(o) == GetAddress(o)

\* increment_allocations(): allocations++.
IncrementAllocations == <<Load, StoreInc>>

\* Mutant: delete_set releases twice.
DeleteSetTwice(o) == <<Drop(o), Load, StoreDec, Load, StoreDec>>

\* delete_set on a set with my_chunk: the set is given up, then
\* my_chunk->decrement_allocations().
DeleteSet(o) == <<Drop(o), Load, StoreDec>>

\* if(--allocations == 0) delete_dynamic_blocks(); on the value this
\* thread computed.
ReachedZero(v) == v = 0

\* StartTask, non-terminal, |P|+|X| < mem_threshold: increment, then cand
\* is created in the chunk by P->exclude.
StartTaskOps == IncrementAllocations \o Carve(Cand)

\* Mutant: one increment for the two sets the iteration carves.
LoopIterationOneInc(c) ==
  <<Use(Cand)>> \o IncrementAllocations \o Carve(PSet(c)) \o Carve(XSet(c))

\* cand_task->get_next(), then LoopIteration's two increments, each before
\* the set it pays for is carved by intersect.
LoopIterationOps(c) ==
  <<Use(Cand)>> \o IncrementAllocations \o Carve(PSet(c))
                \o IncrementAllocations \o Carve(XSet(c))

\* The sequential branch.  SequentialRun's StartTask reads P' and X'; if
\* P' is empty it deletes them (line 181).  Otherwise it carves cand' in
\* the chunk (|P'|+|X'| < |P|+|X|), runs the LoopIteration of a
\* candidate, whose own SequentialRun ends at once, and deletes cand', P'
\* and X' (line 159).
SequentialRunOps(c, leaf) ==
  <<Use(PSet(c)), Use(XSet(c))>> \o
  IF leaf
  THEN DeleteSet(PSet(c)) \o DeleteSet(XSet(c))
  ELSE IncrementAllocations \o Carve(InnerCand(c)) \o <<Use(InnerCand(c))>>
       \o IncrementAllocations \o Carve(InnerP(c))
       \o IncrementAllocations \o Carve(InnerX(c))
       \o <<Use(InnerP(c)), Use(InnerX(c))>>
       \o DeleteSet(InnerP(c)) \o DeleteSet(InnerX(c))
       \o DeleteSet(InnerCand(c)) \o DeleteSet(PSet(c)) \o DeleteSet(XSet(c))

\* A child: its StartTask and loop read P_task and X_task; at its end
\* (lines 113/120 or 181) it deletes them into the chunk they came from.
\* When the child moves a candidate into an X_task that has no bucket yet
\* (X' was empty), add_elem takes one from the parent's chunk.
ChildOps(c, grows) ==
  <<Use(PSet(c)), Use(XSet(c))>>
    \o (IF grows THEN GetAddress(XBucket(c)) ELSE << >>)
    \o DeleteSet(PSet(c)) \o DeleteSet(XSet(c))

\* Mutant: cand_task is not deleted when the candidates run out.
FinishOpsKeepCand == <<>>

\* SpawnTask once cand_task has ended: delete_set(cand_task).
FinishOps == DeleteSet(Cand)

-----------------------------------------------------------------------------
(* Handlers: enabled when the thread has no micro-step left.               *)

Idle(t) == todo[t] = <<>>

Enqueue(t, ops, next) ==
  /\ todo' = [todo EXCEPT ![t] = ops]
  /\ pc' = [pc EXCEPT ![t] = next]

\* First execute of the task: StartTask with the chunk.
StartTask ==
  /\ pc[Parent] = "start" /\ Idle(Parent)
  /\ Enqueue(Parent, StartTaskOps, "loop")
  /\ UNCHANGED <<allocations, nblocks, free_index, addr, live, dangling, reg, k, faults, setup>>

\* One re-execution: LoopIteration on candidate k, then the sequential
\* branch or the spawn of child k.
LoopIteration ==
  /\ pc[Parent] = "loop" /\ Idle(Parent) /\ k <= NCand
  /\ \/ /\ ChunkedSpawn
        /\ todo' = [todo EXCEPT ![Parent] = LoopIterationOps(k)]
        /\ pc' = [pc EXCEPT ![k] = "spawned"]
     \/ \E leaf \in BOOLEAN :
          /\ todo' = [todo EXCEPT ![Parent] =
                         LoopIterationOps(k) \o SequentialRunOps(k, leaf)]
          /\ UNCHANGED pc
  /\ k' = k + 1
  /\ UNCHANGED <<allocations, nblocks, free_index, addr, live, dangling, reg, faults, setup>>

\* cand_task has ended: the sets are deleted, the task becomes a
\* continuation.
Finish ==
  /\ pc[Parent] = "loop" /\ Idle(Parent) /\ k > NCand
  /\ Enqueue(Parent, FinishOps, "cont")
  /\ UNCHANGED <<allocations, nblocks, free_index, addr, live, dangling, reg, k, faults, setup>>

\* A spawned child runs once the LoopIteration that returned it is over:
\* the parent has no micro-step of iteration c left.
ChildRun(c) ==
  /\ pc[c] = "spawned" /\ Idle(c)
  /\ ~(pc[Parent] = "loop" /\ k = c + 1 /\ ~Idle(Parent))
  /\ \E grows \in BOOLEAN : Enqueue(c, ChildOps(c, grows), "done")
  /\ UNCHANGED <<allocations, nblocks, free_index, addr, live, dangling, reg, k, faults, setup>>

\* Continuation, after every child completed: delete sets_chunk.  The
\* destructor is empty, so blocks still held are never freed.
Continuation ==
  /\ pc[Parent] = "cont" /\ Idle(Parent)
  /\ \A c \in Child : pc[c] \in {"idle", "done"}
  /\ pc' = [pc EXCEPT ![Parent] = "done"]
  /\ UNCHANGED <<allocations, nblocks, free_index, addr, live, dangling, todo, reg, k, faults, setup>>

-----------------------------------------------------------------------------
(* Micro-steps of MemChunk.                                                *)

\* The first micro-step of thread t.
Exec(t) ==
  /\ todo[t] # <<>>
  /\ LET s == Head(todo[t])
     IN CASE s.op = "load" ->
               /\ reg' = [reg EXCEPT ![t] = allocations]
               /\ UNCHANGED <<allocations, nblocks, free_index, addr, live, dangling, faults>>
          [] s.op = "store_inc" ->
               /\ allocations' = reg[t] + 1
               /\ UNCHANGED <<nblocks, free_index, addr, live, dangling, reg, faults>>
          [] s.op = "store_dec" ->
               \* decrement_allocations, and delete_dynamic_blocks at zero
               /\ allocations' = reg[t] - 1
               /\ IF ReachedZero(reg[t] - 1)
                  THEN /\ nblocks' = 0 /\ free_index' = 0
                       /\ dangling' = dangling \cup live
                  ELSE UNCHANGED <<nblocks, free_index, dangling>>
               /\ UNCHANGED <<addr, live, reg, faults>>
          [] s.op = "ga_check" ->
               /\ IF nblocks = 0 \/ free_index + 1 >= BlockLines
                  THEN nblocks' = nblocks + 1 /\ free_index' = 0
                  ELSE UNCHANGED <<nblocks, free_index>>
               /\ UNCHANGED <<allocations, addr, live, dangling, reg, faults>>
          [] s.op = "ga_load" ->
               \* back() of an emptied list is undefined
               /\ reg' = [reg EXCEPT ![t] = free_index]
               /\ addr' = [addr EXCEPT ![s.obj] = <<nblocks, free_index>>]
               /\ live' = IF s.obj \in Obj THEN live \cup {s.obj} ELSE live
               /\ faults' = IF nblocks = 0 THEN faults \cup {"no_block"} ELSE faults
               /\ UNCHANGED <<allocations, nblocks, free_index, dangling>>
          [] s.op = "ga_store" ->
               /\ free_index' = reg[t] + 1
               /\ UNCHANGED <<allocations, nblocks, addr, live, dangling, reg, faults>>
          [] s.op = "use" ->
               /\ faults' = IF s.obj \in dangling
                            THEN faults \cup {"use_after_free"} ELSE faults
               /\ UNCHANGED <<allocations, nblocks, free_index, addr, live, dangling, reg>>
          [] s.op = "drop" ->
               /\ live' = live \ {s.obj}
               /\ UNCHANGED <<allocations, nblocks, free_index, addr, dangling, reg, faults>>
  /\ todo' = [todo EXCEPT ![t] = Tail(@)]
  /\ UNCHANGED <<pc, k, setup>>

Terminating ==
  /\ pc[Parent] = "done"
  /\ UNCHANGED vars

Init ==
  /\ allocations = 0
  /\ nblocks = 0 /\ free_index = 0
  /\ addr = [o \in Region |-> NoAddr]
  /\ live = {}
  /\ dangling = {}
  /\ todo = [t \in Thread |-> <<>>]
  /\ reg = [t \in Thread |-> 0]
  /\ pc = [t \in Thread |-> IF t = Parent THEN "start" ELSE "idle"]
  /\ k = 1
  /\ faults = {}
  /\ setup \in Setups

Next ==
  \/ StartTask
  \/ LoopIteration
  \/ Finish
  \/ \E c \in Child : ChildRun(c)
  \/ Continuation
  \/ \E t \in Thread : Exec(t)
  \/ Terminating

\* Every ready TBB task and every started handler runs on.
Spec == Init /\ [][Next]_vars /\ WF_vars(Next)

-----------------------------------------------------------------------------
(* Properties.                                                             *)

TypeOK ==
  /\ allocations \in Nat
  /\ nblocks \in Nat /\ free_index \in Nat
  /\ addr \in [Region -> Nat \X Nat]
  /\ live \subseteq Obj /\ dangling \subseteq Obj
  /\ \A t \in Thread : reg[t] \in Int
  /\ pc[Parent] \in {"start", "loop", "cont", "done"}
  /\ \A c \in Child : pc[c] \in {"idle", "spawned", "done"}
  /\ k \in 1..NCand + 1
  /\ faults \subseteq {"use_after_free", "no_block"}
  /\ setup \in Setups

\* No thread is inside increment-then-carve or release-then-decrement:
\* its next micro-step, if any, is a use, a release, or the load of an
\* increment.
Settled(t) ==
  \/ todo[t] = <<>>
  \/ Head(todo[t]).op \in {"use", "drop"}
  \/ Head(todo[t]).op = "load" /\ todo[t][2].op = "store_inc"

\* Spec 4.1: the live-allocation counter equals the number of sets carved
\* from the chunk and not yet released, whenever no update is in flight,
\* as long as only the task's own thread touches the counter (no child
\* receives sets from the chunk; when one does, a lost update breaks it).
CounterTracksLiveSets ==
  ~ChunkedSpawn /\ (\A t \in Thread : Settled(t)) => allocations = Cardinality(live)

\* The memory of a set the task still holds is its own: delete_dynamic_blocks
\* never frees it, and get_address never hands it, or the first bucket of a
\* child's X_task, to another object.
LiveSetMemoryExclusive ==
  LET held == live \cup {XBucket(c) : c \in {d \in Child : XSet(d) \in live /\ addr[XBucket(d)] # NoAddr}}
  IN /\ dangling \cap live = {}
     /\ \A o1, o2 \in held : o1 # o2 => addr[o1] # addr[o2]

\* When the task is done, the chunk's blocks have been freed: deleting
\* sets_chunk in Continuation does not leak them, when no child received
\* sets from the chunk.
ArenaReleasedWhenTaskDone == ~ChunkedSpawn /\ pc[Parent] = "done" => nblocks = 0
=============================================================================

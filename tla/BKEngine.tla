------------------------------ MODULE BKEngine ------------------------------
(***************************************************************************)
(* The parallel Bron-Kerbosch engine of src/src/BronKerboschTBB.cpp and    *)
(* src/src/BKTask.cpp: MainBKTask objects run by the TBB scheduler, the    *)
(* SequentialRun recursion inside one task, and the reference-counted      *)
(* GraphGuard objects through which tasks share induced subgraphs.         *)
(*                                                                         *)
(* A task is a record; its sequential recursion is an explicit stack of    *)
(* frames (frame 1 holds R_task/P_task/X_task/cand_task, frame i > 1 one   *)
(* active SequentialRun).  Every step of a task is one action, so steps of *)
(* different tasks interleave as they do on different worker threads.      *)
(* Sets of vertices are TLA+ sets: the list order of SET_IMPL only decides *)
(* which of several equally good pivots or which next candidate is taken,  *)
(* and the model lets it be any of them.  A GraphGuard keeps its count and *)
(* whether it has been deleted; the induced subgraph it owns answers every *)
(* adjacency query the engine asks of it exactly as the input graph does   *)
(* (see README), so adjacency is always taken from Edge.                   *)
(***************************************************************************)
EXTENDS Integers, FiniteSets, Sequences, Bags, CommandLine

CONSTANTS
  Vertex,           \* vertex ids of the input graph (integers)
  Edge,             \* undirected edges, two-element subsets of Vertex
  Position,         \* getNodePosition: vertex -> index in vertexOrdering
  degeneracyOrd,    \* --ord 0
  degreeOrd,        \* --ord 1 (both FALSE: --ord 2)
  PX_threshold,     \* --thresh, the sequential-branch threshold t_t
  MaxClqArgs,       \* the --max-clq options main may be given
  SArgs             \* the -s options main may be given

ASSUME PX_threshold \in Nat
ASSUME \A a \in MaxClqArgs \cup SArgs : IsArg(a)

VARIABLES
  subgraphBased, \* the global main set from -s, fixed for the whole run
  max_clq_size,  \* the global main set from --max-clq, likewise
  tasks,         \* MainBKTask objects, in creation order
  guards,        \* GraphGuard objects; guard 1 is the one of the input graph
  liveSets,      \* SET_IMPL objects allocated and not yet passed to delete_set
  found,         \* bag of the cliques R counted in the histogram
  faults,        \* memory errors and failed assertions some step committed
  ended          \* BronKerboschDegeneracy has returned

vars == <<subgraphBased, max_clq_size, tasks, guards, liveSets, found, faults, ended>>

Null == 0       \* a NULL task or guard pointer
RootGuard == 1  \* new GraphGuard(this) in BronKerboschDegeneracy

N(v) == {u \in Vertex : {u, v} \in Edge}
Degree(v) == Cardinality(N(v))

-----------------------------------------------------------------------------
(* Shared memory: the guards and their reference counts.  A step works on  *)
(* a record w of the shared variables so that the several calls one code   *)
(* path makes can be composed in the order the code makes them.            *)

World == [guards |-> guards, found |-> found, liveSets |-> liveSets,
          faults |-> faults]

SetWorld(w) ==
  /\ guards' = w.guards
  /\ found' = w.found
  /\ liveSets' = w.liveSets
  /\ faults' = w.faults

\* Dereferencing gg->graph (or locking gg->RefCountMutex) of guard g.
Touch(w, g) ==
  IF g = Null \/ w.guards[g].freed
  THEN [w EXCEPT !.faults = @ \cup {"use_after_free"}]
  ELSE w

\* GraphGuard::inc_graph_ref_count
IncRef(w, g) ==
  LET w1 == Touch(w, g)
  IN IF g = Null THEN w1 ELSE [w1 EXCEPT !.guards[g].rc = @ + 1]

\* GraphGuard::dec_graph_ref_count: the decrement that takes the count to
\* zero deletes the graph and the guard.
DecRef(w, g) ==
  LET w1 == Touch(w, g)
  IN IF g = Null THEN w1
     ELSE [w1 EXCEPT !.guards[g] = [rc |-> @.rc - 1,
                                    freed |-> @.freed \/ @.rc - 1 <= 0]]

\* The pointer passed by reference to dec_graph_ref_count after the call.
AfterDec(w, g) == IF g # Null /\ w.guards[g].freed THEN Null ELSE g

NewGuard(w) ==
  [w EXCEPT !.guards = Append(@, [rc |-> 1, freed |-> FALSE])]

-----------------------------------------------------------------------------
(* Graph queries.                                                          *)

\* create_root_sets: does neighbour u of root vertex v go to P?
InRootP(u, v) ==
  IF degeneracyOrd THEN Position[u] > Position[v]
  ELSE \/ degreeOrd /\ Degree(u) > Degree(v)
       \/ ~degreeOrd /\ Degree(u) < Degree(v)
       \/ Degree(u) = Degree(v) /\ u > v

RootP(v) == {u \in N(v) : InRootP(u, v)}
\* Mutant: every neighbour that is not in P is dropped instead of going to X.
RootXEmpty(v) == {}

RootX(v) == N(v) \ RootP(v)

Score(v, P) == Cardinality(N(v) \cap P)

TopScored(P, X) ==
  LET m == CHOOSE s \in {Score(v, P) : v \in P \cup X} :
             \A v \in P \cup X : Score(v, P) <= s
  IN {v \in P \cup X : Score(v, P) = m}

\* Graph::getPivot: start from P's first element with score 0, scan X then
\* P and keep the first strictly better one.
GetPivot(P, X) ==
  LET best == TopScored(P, X)
  IN IF \A v \in best : Score(v, P) = 0 THEN P
     ELSE IF best \cap X # {} THEN best \cap X ELSE best

\* pivot_node as createHpxSubgraph computes it: scan P then X from -1.
SubgraphPivot(P, X) ==
  LET best == TopScored(P, X)
  IN IF best \cap P # {} THEN best \cap P ELSE best

-----------------------------------------------------------------------------
(* Task records.                                                           *)

Frame(R, P, X, cand, gg) == [R |-> R, P |-> P, X |-> X, cand |-> cand, gg |-> gg]

\* MainBKTask(int vertex, ...) as spawned by RootIterBKTask::SpawnTask.
RootTask(v, s) ==
  [new_vertex |-> v, parent |-> Null, pc |-> "new", stack |-> <<>>,
   graphg |-> RootGuard, NewGraph |-> s # 0, seqSpawned |-> FALSE]

\* The child LoopIteration creates with new(allocate_child()) MainBKTask.
ChildTask(t, R, P, X, gg, v) ==
  [new_vertex |-> v, parent |-> t, pc |-> "new",
   stack |-> <<Frame(R, P, X, {}, Null)>>,
   graphg |-> gg, NewGraph |-> subgraphBased > 1, seqSpawned |-> FALSE]

\* The guard frame d of task tk works on: graphg at level 0, the
\* SequentialRun parameter gg above it.
FrameGG(tk, d) == IF d = 1 THEN tk.graphg ELSE tk.stack[d].gg

-----------------------------------------------------------------------------
(* MainBKTask::StartTask.  tk carries the task's fields, level0 says       *)
(* whether gg is the task's own graphg (the call from SpawnTask) or the    *)
(* local parameter of SequentialRun.  The result is the set of outcomes,   *)
(* one per pivot the code can pick.                                        *)

\* The reference a terminal StartTask gives back.
TerminalRelease(tk) ==
  LET isRootSg == tk.parent = Null /\ ~tk.seqSpawned
  IN (subgraphBased = 3 \/ (subgraphBased = 2 /\ ~tk.seqSpawned)) /\ ~isRootSg

\* Mutant: candidates drawn from X as well as P.
CandidatesWithX(P, X, p) == (P \cup X) \ N(p)

\* cand = P->exclude(graph->getAdjacentNodes(pivot), ...)
Candidates(P, X, p) == P \ N(p)

\* graph->pivot_node (line 213): the pivot createHpxSubgraph has just
\* computed for P and X, or, when this call built no subgraph, the field of
\* the graph gg already holds.  That is the input graph's, whose pivot_node
\* keeps the -1 of its constructor (Graph.h 77): a subgraph is only ever
\* built by the createGraph branch.  A -1 fails assert(pivot != -1)
\* (line 214); without assertions getAdjacentNodes(-1) reads before the
\* adjacency array, and the model goes on as if it had read an empty list.
PivotNode(created, P, X) == IF created THEN SubgraphPivot(P, X) ELSE {-1}

StartTask(w, tk, R, P, X, gg, level0) ==
  LET isRootSg == tk.parent = Null /\ ~tk.seqSpawned
  IN
  IF P = {} THEN
    LET w1 == [w EXCEPT !.found = IF X = {} THEN @ (+) SetToBag({R}) ELSE @,
                        !.liveSets = @ - 2]
        rel == TerminalRelease(tk)
        w2 == IF rel THEN DecRef(w1, gg) ELSE w1
        g2 == IF rel THEN AfterDec(w2, gg) ELSE gg
    IN {[w |-> w2, end |-> TRUE, gg |-> g2, cand |-> {},
         graphg |-> IF level0 THEN g2 ELSE tk.graphg,
         NewGraph |-> tk.NewGraph /\ tk.seqSpawned]}
  ELSE IF max_clq_size # -1 /\ Cardinality(R) >= max_clq_size THEN
    {[w |-> w, end |-> TRUE, gg |-> gg, cand |-> {},
      graphg |-> tk.graphg, NewGraph |-> tk.NewGraph]}
  ELSE
    LET createGraph == \/ subgraphBased = 1 /\ isRootSg
                       \/ subgraphBased = 2 /\ ~tk.seqSpawned /\ tk.NewGraph
                       \/ subgraphBased = 3
        new == Len(w.guards) + 1
        w1 == IF createGraph THEN NewGuard(Touch(w, gg)) ELSE w
        w2 == IF createGraph /\ ~isRootSg /\ subgraphBased # 1
              THEN DecRef(w1, gg) ELSE w1
        g == IF createGraph THEN new ELSE gg
        pivots == IF (tk.NewGraph /\ level0) \/ subgraphBased = 3
                  THEN PivotNode(createGraph, P, X) ELSE GetPivot(P, X)
        w3 == [Touch(w2, g) EXCEPT !.liveSets = @ + 1]
    IN {[w |-> IF p = -1 THEN [w3 EXCEPT !.faults = @ \cup {"no_pivot"}]
               ELSE w3,
         end |-> FALSE, gg |-> g, cand |-> Candidates(P, X, p),
         graphg |-> IF level0 \/ (createGraph /\ subgraphBased # 3)
                    THEN g ELSE tk.graphg,
         NewGraph |-> tk.NewGraph] : p \in pivots}

-----------------------------------------------------------------------------
(* MainBKTask::LoopIteration, as helpers.                                  *)

\* Mutant: the vertex leaves P but is never added to X.
MoveToXDropsX(f, v) == [f EXCEPT !.P = @ \ {v}, !.cand = @ \ {v}]

\* P->del_elem(vertex); X->add_elem(vertex), and the iterator moving on.
MoveToX(f, v) == [f EXCEPT !.P = @ \ {v}, !.X = @ \cup {v}, !.cand = @ \ {v}]

\* Mutant: the child is handed the guard without a reference of its own.
SpawnRefMissing(w, gg) == w

\* The reference a spawned child takes on the frame's graph.
SpawnRef(w, gg) == IF subgraphBased > 1 THEN IncRef(w, gg) ELSE w

\* Mutant: SequentialRun starts without a reference of its own.
SeqRefMissing(w, gg) == w

\* The reference SequentialRun takes on the frame's graph.
SeqRef(w, gg) == IF subgraphBased = 3 THEN IncRef(w, gg) ELSE w

-----------------------------------------------------------------------------
(* Actions.                                                                *)

\* First execute() of a task: SpawnTask with newTask set, up to StartTask.
Start(t) ==
  LET tk == tasks[t]
      isRoot == tk.parent = Null
      fr == IF isRoot
            THEN Frame({tk.new_vertex}, RootP(tk.new_vertex),
                       RootX(tk.new_vertex), {}, Null)
            ELSE tk.stack[1]
      w0 == [World EXCEPT !.liveSets = @ + (IF isRoot THEN 2 ELSE 0)]
  IN /\ tk.pc = "new"
     /\ \E o \in StartTask(w0, tk, fr.R, fr.P, fr.X, tk.graphg, TRUE) :
          /\ SetWorld(o.w)
          /\ tasks' = [tasks EXCEPT ![t] =
                [@ EXCEPT !.pc = IF o.end THEN "cont" ELSE "run",
                          !.stack = IF o.end THEN <<>>
                                    ELSE <<[fr EXCEPT !.cand = o.cand]>>,
                          !.graphg = o.graphg,
                          !.NewGraph = o.NewGraph]]
     /\ UNCHANGED <<subgraphBased, max_clq_size, ended>>

\* One LoopIteration on the innermost frame: at level 0 from SpawnTask
\* (cand_task->get_next()), above it from SequentialRun's for_each.
Iterate(t) ==
  LET tk == tasks[t]
      d == Len(tk.stack)
      f == tk.stack[d]
      gg == FrameGG(tk, d)
  IN /\ tk.pc = "run"
     /\ \E v \in f.cand :
          LET Pn == f.P \cap N(v)
              Xn == f.X \cap N(v)
              R1 == f.R \cup {v}
              w1 == [Touch(World, gg) EXCEPT !.liveSets = @ + 2]
          IN IF Cardinality(Pn) + Cardinality(Xn) < PX_threshold
             THEN LET tk1 == [tk EXCEPT !.seqSpawned = TRUE,
                                        !.stack[d] = MoveToX(f, v)]
                  IN \E o \in StartTask(SeqRef(w1, gg), tk1, R1, Pn, Xn, gg, FALSE) :
                       /\ SetWorld(o.w)
                       /\ tasks' = [tasks EXCEPT ![t] =
                            [tk1 EXCEPT !.graphg = o.graphg,
                                        !.NewGraph = o.NewGraph,
                                        !.stack = IF o.end THEN @
                                          ELSE Append(@, Frame(R1, Pn, Xn, o.cand, o.gg))]]
             ELSE /\ SetWorld(SpawnRef(w1, gg))
                  /\ tasks' = Append([tasks EXCEPT ![t].stack[d] = MoveToX(f, v)],
                                     ChildTask(t, R1, Pn, Xn, gg, v))
     /\ UNCHANGED <<subgraphBased, max_clq_size, ended>>

\* End of SequentialRun: its candidates are exhausted.
SeqReturn(t) ==
  LET tk == tasks[t]
      d == Len(tk.stack)
      f == tk.stack[d]
      w1 == [World EXCEPT !.liveSets = @ - 3]
  IN /\ tk.pc = "run"
     /\ d > 1
     /\ f.cand = {}
     /\ SetWorld(IF subgraphBased = 3 THEN DecRef(w1, f.gg) ELSE w1)
     /\ tasks' = [tasks EXCEPT ![t].stack = SubSeq(@, 1, d - 1)]
     /\ UNCHANGED <<subgraphBased, max_clq_size, ended>>

\* Mutant: only the always-policy gives the task's subgraph back.
FinishReleaseOnly3(tk) == subgraphBased = 3

\* The reference SpawnTask gives back once cand_task is exhausted.
FinishRelease(tk) ==
  subgraphBased = 3 \/ (subgraphBased = 2 /\ tk.NewGraph)

\* SpawnTask after the last candidate (or with none): free P, X and cand,
\* give back the task's graph, recycle as a continuation.
Finish(t) ==
  LET tk == tasks[t]
      w1 == [World EXCEPT !.liveSets = @ - 3]
      w2 == IF FinishRelease(tk) THEN DecRef(w1, tk.graphg) ELSE w1
  IN /\ tk.pc = "run"
     /\ Len(tk.stack) = 1
     /\ tk.stack[1].cand = {}
     /\ SetWorld(w2)
     /\ tasks' = [tasks EXCEPT ![t] =
          [@ EXCEPT !.pc = "cont", !.stack = <<>>,
                    !.graphg = IF FinishRelease(tk)
                               THEN AfterDec(w2, tk.graphg) ELSE @]]
     /\ UNCHANGED <<subgraphBased, max_clq_size, ended>>

\* MainBKTask::Continuation, run by TBB once every child has completed.
Continuation(t) ==
  LET tk == tasks[t]
      rel == subgraphBased = 1 /\ tk.NewGraph
  IN /\ tk.pc = "cont"
     /\ \A c \in 1..Len(tasks) : tasks[c].parent = t => tasks[c].pc = "done"
     /\ SetWorld(IF rel THEN DecRef(World, tk.graphg) ELSE World)
     /\ tasks' = [tasks EXCEPT ![t].pc = "done"]
     /\ UNCHANGED <<subgraphBased, max_clq_size, ended>>

\* spawn_root_and_wait returns; BronKerboschDegeneracy deletes its guard.
RunEnd ==
  /\ ~ended
  /\ \A t \in 1..Len(tasks) : tasks[t].pc = "done"
  /\ faults' = IF guards[RootGuard].freed THEN faults \cup {"double_free"}
               ELSE faults
  /\ ended' = TRUE
  /\ UNCHANGED <<subgraphBased, max_clq_size, tasks, guards, liveSets, found>>

\* The program has exited.
Terminating == ended /\ UNCHANGED vars

Init ==
  /\ \E s \in SArgs : subgraphBased = SubgraphBased(s)
  /\ \E m \in MaxClqArgs : max_clq_size = MaxClqSize(m)
  /\ tasks = [i \in 1..Cardinality(Vertex) |->
               RootTask(CHOOSE v \in Vertex : Position[v] = i - 1, subgraphBased)]
  /\ guards = <<[rc |-> 1, freed |-> FALSE]>>
  /\ liveSets = 0
  /\ found = EmptyBag
  /\ faults = {}
  /\ ended = FALSE

Next ==
  \/ \E t \in 1..Len(tasks) : Start(t)
  \/ \E t \in 1..Len(tasks) : Iterate(t)
  \/ \E t \in 1..Len(tasks) : SeqReturn(t)
  \/ \E t \in 1..Len(tasks) : Finish(t)
  \/ \E t \in 1..Len(tasks) : Continuation(t)
  \/ RunEnd
  \/ Terminating

\* The TBB pool runs every spawned task eventually; no task blocks.
Spec == Init /\ [][Next]_vars /\ WF_vars(Next)

-----------------------------------------------------------------------------
(* Properties.                                                             *)

TaskPC == {"new", "run", "cont", "done"}

TypeOK ==
  /\ subgraphBased \in {SubgraphBased(s) : s \in SArgs}
  /\ max_clq_size \in {MaxClqSize(m) : m \in MaxClqArgs}
  /\ \A t \in 1..Len(tasks) :
       /\ tasks[t].pc \in TaskPC
       /\ tasks[t].parent \in 0..Len(tasks)
       /\ tasks[t].graphg \in 0..Len(guards)
       /\ \A i \in 1..Len(tasks[t].stack) :
            /\ tasks[t].stack[i].P \cup tasks[t].stack[i].X \subseteq Vertex
            /\ tasks[t].stack[i].cand \subseteq tasks[t].stack[i].P
  /\ \A g \in 1..Len(guards) : guards[g].rc \in Int /\ guards[g].freed \in BOOLEAN
  /\ liveSets \in Int
  /\ IsABag(found)
  /\ faults \subseteq {"use_after_free", "double_free", "no_pivot"}
  /\ ended \in BOOLEAN

\* No task ever dereferences, locks or releases a GraphGuard that a
\* dec_graph_ref_count has already deleted, the guard of the input graph
\* is deleted only by BronKerboschDegeneracy (the reference counts the
\* subgraph policies maintain are never short by one), and StartTask never
\* takes the pivot_node of a graph that has none (assert(pivot != -1)):
\* whatever main left in subgraphBased and max_clq_size.
MemorySafety == faults = {}

\* When the run has returned, every set delete_set was owed has been
\* deleted and every induced subgraph (with its guard) has been destroyed.
NoLeakAtEnd ==
  ended => /\ liveSets = 0
           /\ \A g \in 2..Len(guards) : guards[g].freed
=============================================================================

------------------------- MODULE DegeneracyOrdering -------------------------
(***************************************************************************)
(* Graph::degeneracyOrdering (src/src/Graph.cpp): bucket-by-degree peeling *)
(* of the graph initFromFile has built.  One step is one iteration of the  *)
(* curnode loop: pop a vertex from the lowest non-empty bucket, record it  *)
(* at position curnode of vertexOrdering, and move each neighbour that is  *)
(* still in a bucket one bucket down.  It runs on the graph GraphLoad     *)
(* leaves, as main calls it after initFromFile, so one run checks both on *)
(* every file of Files.                                                    *)
(***************************************************************************)
EXTENDS GraphLoad, HpxSubgraph

VARIABLES
  degArray,         \* degArray[i]: vertices currently in bucket i
  nodeDegrees,      \* nodeDegrees[v]: the bucket v was last put in
  degen,            \* the largest bucket index popped so far
  curnode,          \* the loop counter
  degeneracy,       \* the member set on return, -1 before
  faults            \* assertions of the function that failed

vars == <<loadVars, degArray, nodeDegrees, degen, curnode, degeneracy, faults>>
orderVars == <<degArray, nodeDegrees, degen, curnode, degeneracy, faults>>

Positions == 0..nodeNo - 1

\* adjList[v]->size() of the hashed list: the number of distinct neighbours.
Degree(v) == Cardinality(N(v))

Buckets == 0..maxdeg

\* Mutant: the scan keeps going and takes the highest bucket.
LastNonEmpty(ne) == Max(ne)

\* The bucket scan `for(i = 0; i < maxdeg+1; i++) if(!degArray[i].empty())
\* ... break;`: the lowest non-empty bucket.
FirstNonEmpty(ne) == Min(ne)

\* Mutant: the iterator test dropped, popped neighbours are moved too.
StillQueuedAll(v) == N(v)

\* The neighbours of nextNode the for_each finds in the bucket their
\* nodeDegrees names, i.e. those not yet popped.
StillQueued(v) == {n \in N(v) : n \in degArray[nodeDegrees[n]]}

\* Mutant: the neighbour is re-inserted into the bucket it was in.
MoveDownStays(d) == d

\* The bucket a queued neighbour moves to: degIndex-1.
MoveDown(d) == d - 1

-----------------------------------------------------------------------------
Init ==
  /\ LoadInit
  /\ degArray = << >> /\ nodeDegrees = << >>
  /\ degen = 0 /\ curnode = 0 /\ degeneracy = -1 /\ faults = {}

\* The loader's steps leave the ordering's variables alone.
Load == (ReadLine \/ EndOfFile) /\ UNCHANGED orderVars

\* main calls degeneracyOrdering() on the loaded graph.  Lines 81-90:
\* every vertex goes to the bucket of its degree.  A degree outside
\* 0..maxdeg fails assert(list->size() < maxdeg+1).
StartOrdering ==
  /\ phase = "loaded"
  /\ phase' = "ordering"
  /\ degArray' = [i \in Buckets |-> {v \in Vertex : Degree(v) = i}]
  /\ nodeDegrees' = [v \in Vertex |-> Degree(v)]
  /\ faults' = IF \E v \in Vertex : Degree(v) >= maxdeg + 1
                THEN {"bucket_assert"} ELSE {}
  /\ UNCHANGED <<file, pos, firstRow, adjList, maxdeg, nodeNo, vertexOrdering,
                 backwardsMapping, degen, curnode, degeneracy>>

\* Lines 92-114: one iteration of the curnode loop.  When every bucket is
\* empty the inner loop finds nothing and curnode still advances.
Peel ==
  /\ phase = "ordering" /\ curnode < nodeNo
  /\ LET ne == {i \in Buckets : degArray[i] # {}}
     IN IF ne = {}
        THEN /\ curnode' = curnode + 1
             /\ UNCHANGED <<degArray, nodeDegrees, vertexOrdering,
                            backwardsMapping, degen>>
        ELSE LET i == FirstNonEmpty(ne)
             IN \E nextNode \in degArray[i] :
                  LET moved == StillQueued(nextNode)
                      nd == [n \in Vertex |-> IF n \in moved
                                              THEN MoveDown(nodeDegrees[n])
                                              ELSE nodeDegrees[n]]
                  IN /\ degArray' = [j \in Buckets |->
                                       ((degArray[j] \ {nextNode}) \ moved)
                                       \cup {n \in moved : nd[n] = j}]
                     /\ nodeDegrees' = nd
                     /\ vertexOrdering' = [vertexOrdering EXCEPT ![curnode] = nextNode]
                     /\ backwardsMapping' = [backwardsMapping EXCEPT ![nextNode] = curnode]
                     /\ degen' = Max({degen, i})
                     /\ curnode' = curnode + 1
  /\ UNCHANGED <<file, pos, firstRow, adjList, maxdeg, nodeNo, phase,
                 degeneracy, faults>>

\* Lines 116-117: degeneracy = degen; return.
Return ==
  /\ phase = "ordering" /\ curnode = nodeNo
  /\ degeneracy = -1
  /\ degeneracy' = degen
  /\ UNCHANGED <<loadVars, degArray, nodeDegrees, degen, curnode, faults>>

\* main goes on to BronKerboschDegeneracy.
Terminating == degeneracy # -1 /\ UNCHANGED vars

Next == Load \/ StartOrdering \/ Peel \/ Return \/ Terminating

Spec == Init /\ [][Next]_vars /\ WF_vars(Next)

-----------------------------------------------------------------------------
(* Properties.                                                             *)

TypeOK ==
  /\ \A i \in DOMAIN file : file[i].kind \in {"comment", "pair", "triple", "short"}
  /\ pos \in 1..Len(file) + 1 /\ firstRow \in BOOLEAN
  /\ \A v \in Vertex : ToSet(adjList[v]) \subseteq Vertex
  /\ maxdeg \in Int /\ nodeNo \in Int
  /\ phase \in {"load", "loaded", "ordering"}
  /\ phase = "ordering" =>
       /\ degArray \in [Buckets -> SUBSET Vertex]
       /\ nodeDegrees \in [Vertex -> Nat]
       /\ vertexOrdering \in [Positions -> Vertex]
       /\ backwardsMapping \in [Vertex -> Positions]
  /\ curnode \in 0..Max({nodeNo, 0})
  /\ degen \in Nat /\ degeneracy \in Int
  /\ faults \subseteq {"bucket_assert"}

Popped == {vertexOrdering[p] : p \in 0..curnode - 1}

\* What the buckets promise the peeling: every vertex not yet popped sits
\* in exactly the bucket of its number of not-yet-popped neighbours, and
\* no popped vertex is left in a bucket.  A stale nodeDegrees entry or a
\* neighbour moved twice breaks it several pops after the faulty step.
BucketsTrackResidualDegree ==
  phase = "ordering" /\ faults = {} =>
    /\ \A v \in Vertex \ Popped :
         /\ nodeDegrees[v] = Cardinality(N(v) \ Popped)
         /\ \A j \in Buckets : v \in degArray[j] <=> j = nodeDegrees[v]
    /\ \A j \in Buckets : degArray[j] \cap Popped = {}

\* The reference definition: the largest minimum degree of an induced
\* subgraph.
GraphDegeneracy ==
  Max({Min({Cardinality(N(v) \cap S) : v \in S}) : S \in SUBSET Vertex \ {{}}})

LaterNeighbours(v) == {u \in N(v) : backwardsMapping[u] > backwardsMapping[v]}

\* Spec 8: once the function has returned, vertexOrdering is a permutation
\* with backwardsMapping its inverse, the reported degeneracy is the
\* graph's degeneracy, and no vertex has more later neighbours than that.
\* This is what create_root_sets relies on to bound every root P.
IsDegeneracyOrdering ==
  degeneracy # -1 =>
    /\ \A p \in Positions : backwardsMapping[vertexOrdering[p]] = p
    /\ degeneracy = GraphDegeneracy
    /\ \A v \in Vertex : Cardinality(LaterNeighbours(v)) <= degeneracy

\* |N(v) \cap P|, the score getPivot and createHpxSubgraph maximise.
PivotScore(P, v) == Cardinality(N(v) \cap P)

\* What the engine model (BKEngine) assumes of createHpxSubgraph, for every
\* disjoint P and X of the loaded graph: the subgraph answers every query
\* the engine makes as the input graph does (a P vertex has its neighbours
\* in P and X, an X vertex those in P, and X vertices are never adjacent),
\* and pivot_node is one of the vertices SubgraphPivot allows, a best
\* scored vertex of P, else of X.  It is about the two loops of
\* createHpxSubgraph, the back edges the X loop adds and the pivot scan.
SubgraphAnswersAsInput ==
  phase = "loaded" =>
    \A P \in SUBSET Vertex : \A X \in SUBSET (Vertex \ P) :
      LET g == CreateHpxSubgraph([v \in Vertex |-> N(v)],
                                 IterationOrder(P), IterationOrder(X))
          S == HashedAdj(g)
          best == {v \in P \cup X :
                     \A u \in P \cup X : PivotScore(P, u) <= PivotScore(P, v)}
      IN /\ DOMAIN S = P \cup X
         /\ \A v \in P : S[v] = N(v) \cap (P \cup X)
         /\ \A x \in X : S[x] = N(x) \cap P
         /\ P \cup X # {} =>
              g.pivot_node \in (IF best \cap P # {} THEN best \cap P ELSE best)

\* The function's assertions hold.
AssertionsHold == faults = {}
=============================================================================

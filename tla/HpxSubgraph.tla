----------------------------- MODULE HpxSubgraph -----------------------------
(***************************************************************************)
(* Graph::createHpxSubgraph (src/src/Graph.cpp) on a graph given by its    *)
(* hashed adjacency sets Nbr, and the Graph fields it writes (Graph.h).    *)
(* P and X are the two unhashed lists, in their for_each order.  The      *)
(* result is the subgraph's fields: nodeNo, the adjacency lists in push    *)
(* order, edgeNo, maxdeg and pivot_node, and the local max_neighbors.      *)
(***************************************************************************)
EXTENDS Integers, Sequences, SequencesExt, Functions

\* new Graph(numberOfElems, NULL, mem_type), Graph.h 67-73, and the local
\* max_neighbors = -1 of line 24.
NewGraph(n) ==
  [nodeNo |-> n, adj |-> << >>, edgeNo |-> 0, maxdeg |-> -1,
   pivot_node |-> -1, max_neighbors |-> -1]

\* setAdjacentNodes(node, alist), Graph.h 105-109.
SetAdjacentNodes(g, node, alist) ==
  [g EXCEPT !.adj = (node :> alist) @@ @,
            !.edgeNo = @ + Len(alist),
            !.maxdeg = IF Len(alist) > @ THEN Len(alist) ELSE @]

\* P->intersect(getAdjacentNodes(node)): the ids of P, in P's order, that
\* the hashed neighbour set holds (SimpleHashSet.h 108-137).
Overlapping(Nbr, P, node) == SelectSeq(P, LAMBDA y : y \in Nbr[node])

\* Lines 29-32 and 40-44: a strictly larger overlap makes node the pivot.
TrackPivot(g, node, sz) ==
  IF sz > g.max_neighbors
  THEN [g EXCEPT !.max_neighbors = sz, !.pivot_node = node]
  ELSE g

\* One iteration of the P loop, lines 26-33.
PStep(Nbr, P, g, node) ==
  LET ov == Overlapping(Nbr, P, node)
  IN TrackPivot(SetAdjacentNodes(g, node, ov), node, Len(ov))

\* Mutant: the X node is not added to the lists of its P neighbours.
XStepNoBackEdge(Nbr, P, g, node) ==
  LET ov == Overlapping(Nbr, P, node)
  IN TrackPivot(SetAdjacentNodes(g, node, ov), node, Len(ov))

\* Lines 46-52: list->add_elem(node) on the list of every xnode of the
\* overlap, with edgeNo and maxdeg following it.
AddBackEdges(g, node, ov) ==
  FoldLeft(LAMBDA h, xnode :
             [h EXCEPT !.adj[xnode] = Append(@, node),
                       !.edgeNo = @ + 1,
                       !.maxdeg = IF Len(h.adj[xnode]) + 1 > @
                                  THEN Len(h.adj[xnode]) + 1 ELSE @],
           g, ov)

\* One iteration of the X loop, lines 36-53.
XStep(Nbr, P, g, node) ==
  LET ov == Overlapping(Nbr, P, node)
  IN AddBackEdges(TrackPivot(SetAdjacentNodes(g, node, ov), node, Len(ov)),
                  node, ov)

\* createHpxSubgraph(current_node, P, X), lines 18-63: the P loop, the X
\* loop, then hashSet on every list (a hashed list answers as the set of
\* its ids; HopscotchTable checks that).
CreateHpxSubgraph(Nbr, P, X) ==
  LET g0 == NewGraph(Len(P) + Len(X))
      gP == FoldLeft(LAMBDA g, node : PStep(Nbr, P, g, node), g0, P)
  IN FoldLeft(LAMBDA g, node : XStep(Nbr, P, g, node), gP, X)

\* The subgraph's hashed adjacency sets.
HashedAdj(g) == [v \in DOMAIN g.adj |-> ToSet(g.adj[v])]
=============================================================================

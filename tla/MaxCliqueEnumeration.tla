------------------------ MODULE MaxCliqueEnumeration ------------------------
(***************************************************************************)
(* What the enumeration engine promises (spec.md section 8, first bullet): *)
(* every maximal clique of the input graph is reported to the histogram    *)
(* exactly once, nothing else is ever reported, and the run ends after all *)
(* of them have been reported.  Discovery order is left open.              *)
(***************************************************************************)
EXTENDS FiniteSets, Bags

CONSTANTS
  Vertex,   \* vertex ids of the graph
  Edge      \* undirected edges, each a two-element subset of Vertex

VARIABLES
  reported, \* bag of the cliques reported so far
  finished  \* the enumeration has returned

vars == <<reported, finished>>

IsClique(C) == \A u, v \in C : u # v => {u, v} \in Edge

\* The maximal cliques: cliques to which no further vertex can be added.
MaxCliques ==
  { C \in SUBSET Vertex :
      /\ C # {}
      /\ IsClique(C)
      /\ \A v \in Vertex \ C : ~IsClique(C \cup {v}) }

Init ==
  /\ reported = EmptyBag
  /\ finished = FALSE

Report(C) ==
  /\ ~finished
  /\ ~BagIn(C, reported)
  /\ reported' = reported (+) SetToBag({C})
  /\ UNCHANGED finished

Finish ==
  /\ ~finished
  /\ BagToSet(reported) = MaxCliques
  /\ finished' = TRUE
  /\ UNCHANGED reported

Next == (\E C \in MaxCliques : Report(C)) \/ Finish

\* The steps alone: what may be reported, and when the run may end.
SafetySpec == Init /\ [][Next]_vars

Spec == SafetySpec /\ WF_vars(Next)
=============================================================================

----------------------------- MODULE MCBKEngine -----------------------------
(***************************************************************************)
(* Model-checking instances of BKEngine, one graph per question.           *)
(*                                                                         *)
(* K4: the complete graph on {0,1,2,3}.  With PX_threshold = 2 root task 0 *)
(* spawns a child (|P'| + |X'| = 2), the child recurses sequentially with  *)
(* a non-empty P, so SequentialRun frames nest inside a spawned task, and  *)
(* the other root tasks take their pivot from X.                           *)
(*                                                                         *)
(* Bowtie: the triangles {0,1,2} and {0,3,4} sharing vertex 0, processed  *)
(* in inverse degree order (--ord 2).  Its maximal cliques are {0,1,2} and *)
(* {0,3,4}.  Root task 0 starts with P = {1,2,3,4}; whatever its pivot,    *)
(* two of its candidates are adjacent, so the move of each candidate from  *)
(* P to X matters.  With PX_threshold = 2 every branch of root task 0      *)
(* goes through nested SequentialRun frames; roots 1 and 3 take their      *)
(* pivot from X and find no candidate.                                     *)
(***************************************************************************)
EXTENDS BKEngine

\* -s given with each policy of spec.md section 4.3 (0 never, 1 outer
\* level, 2 per task, 3 always); --max-clq not given.
MCPolicies == {<<0>>, <<1>>, <<2>>, <<3>>}
MCNoArg == {<< >>}

\* -s 1 or a value outside 0..3, which main keeps; --max-clq 1 or absent.
MCRootPolicies == {<<1>>, <<-1>>, <<5>>}
MCRootMaxClq == {<<1>>, << >>}

\* --max-clq 2.
MCMaxClq2 == {<<2>>}

K4Vertex == 0..3
K4Edge == {{0, 1}, {0, 2}, {0, 3}, {1, 2}, {1, 3}, {2, 3}}
\* Every ordering is a degeneracy ordering of K4.
K4Position == [v \in K4Vertex |-> v]

BowtieVertex == 0..4
BowtieEdge == {{0, 1}, {0, 2}, {1, 2}, {0, 3}, {0, 4}, {3, 4}}
\* Only the order of the root tasks: the degree ordering does not read it.
BowtiePosition == [v \in BowtieVertex |-> v]

Abs == INSTANCE MaxCliqueEnumeration WITH reported <- found, finished <- ended

\* Every maximal clique is counted in the histogram exactly once, nothing
\* else is ever counted, and the run ends (spec.md section 8), whatever
\* interleaving of tasks, pivot ties and candidate order the code meets.
EnumeratesMaxCliques == Abs!Spec

\* The same without the promise that the run ends: no count is added for a
\* set that is not a maximal clique or for a clique already counted, and
\* BronKerboschDegeneracy returns only once every maximal clique is counted.
EnumerationSafety == Abs!SafetySpec
=============================================================================

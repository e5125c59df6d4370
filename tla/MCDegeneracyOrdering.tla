------------------------ MODULE MCDegeneracyOrdering ------------------------
(* Loading and ordering every graph over five vertices, and a few files   *)
(* with headers, comments, repeated and reversed lines.                   *)
EXTENDS DegeneracyOrdering

MCVertex == 0..4

\* An uninitialised int: a zeroed slot, or an id no line of the file names.
MCUninit == {0, 9}
MCPairSeq == << {0, 1}, {0, 2}, {0, 3}, {0, 4}, {1, 2},
                {1, 3}, {1, 4}, {2, 3}, {2, 4}, {3, 4} >>
MCPairs == {MCPairSeq[i] : i \in 1..10}

\* A file that names every vertex with a self-loop line, then lists the
\* edges of E once each, smaller id first.
EdgeLine(e) == Pair(Min(e), Max(e))
FileOf(E) ==
  [v \in 1..5 |-> Pair(v - 1, v - 1)]
    \o [i \in 1..Len(SelectSeq(MCPairSeq, LAMBDA e : e \in E)) |->
          EdgeLine(SelectSeq(MCPairSeq, LAMBDA e : e \in E)[i])]

\* Files as they come: comments, a header whose count matches, a weight
\* as a later line's third token, an edge given in both directions and
\* repeated, a comment as a last line without a newline.
MCOddFiles ==
  { << Pair(0, 1), Pair(1, 0), Pair(1, 2), Comment, Pair(2, 1), Pair(0, 1) >>,
    << Comment, Triple(3, 3, 2), Pair(0, 1), Pair(1, 2), Triple(2, 0, 5) >>,
    << Pair(3, 4), Pair(4, 2), NoNewline(Comment) >> }

\* Every graph with at least one edge, and the odd files.
MCFiles == {FileOf(E) : E \in SUBSET MCPairs \ {{}}} \cup MCOddFiles

\* A file whose every line is a self-loop.
MCSelfLoopsOnly == { << Pair(0, 0), Pair(1, 1), Pair(2, 2) >> }

\* A Matrix Market file whose header counts four vertices where the lines
\* name three; a file whose last edge line has no newline after it; a
\* file that ends with a blank line.
MCMisreadFiles ==
  { << Comment, Triple(4, 4, 3), Pair(2, 1), Pair(3, 2), Pair(1, 3) >>,
    << Pair(0, 1), Pair(1, 2), NoNewline(Pair(2, 0)) >>,
    << Pair(0, 1), Pair(1, 2), Short(<< >>) >> }
\* Each of them alone.
MCHeaderMismatchFile == { << Comment, Triple(4, 4, 3), Pair(2, 1), Pair(3, 2), Pair(1, 3) >> }
MCLastLineFile == { << Pair(0, 1), Pair(1, 2), NoNewline(Pair(2, 0)) >> }
MCBlankLineFile == { << Pair(0, 1), Pair(1, 2), Short(<< >>) >> }
=============================================================================

------------------------------ MODULE GraphLoad ------------------------------
(***************************************************************************)
(* Graph::initFromFile and Graph::addEdge (src/src/Graph.cpp,              *)
(* src/include/Graph.h): the graph main builds with `new Graph` and        *)
(* initFromFile(path).  A file is a sequence of lines, each a comment or   *)
(* the first two or three whitespace-separated integers of the line, and   *)
(* whether a newline ends it; the text itself is abstracted.  One step     *)
(* reads one line; the step at end of file runs lines 141-157: nodeNo, the *)
(* initial vertexOrdering and the hashing of every adjacency list.         *)
(***************************************************************************)
EXTENDS Integers, Sequences, SequencesExt, FiniteSets

CONSTANTS
  Files,     \* the input files to load
  Uninit     \* the values an uninitialised int local can hold

Comment == [kind |-> "comment", toks |-> << >>, nl |-> TRUE]
Pair(u, v) == [kind |-> "pair", toks |-> <<u, v>>, nl |-> TRUE]
Triple(a, b, c) == [kind |-> "triple", toks |-> <<a, b, c>>, nl |-> TRUE]
\* A line that is not a comment and has fewer than two integers: blank,
\* or a single number.
Short(toks) == [kind |-> "short", toks |-> toks, nl |-> TRUE]
\* The same line as the last one of a file that does not end in a newline.
NoNewline(line) == [line EXCEPT !.nl = FALSE]

VARIABLES
  file,             \* the file being read
  pos,              \* the index of the next line getline returns
  firstRow,         \* no data line has been read yet
  adjList,          \* vertex -> its list of neighbours, in push_back order
  maxdeg,           \* the largest list size addEdge has seen, -1 at first
  nodeNo,           \* -1, the header's count, then adjList.size()
  vertexOrdering,   \* position -> vertex, once loaded
  backwardsMapping, \* vertex -> position, once loaded
  phase             \* "load", "loaded" (lists hashed), then the caller's

loadVars == <<file, pos, firstRow, adjList, maxdeg, nodeNo, vertexOrdering, phase,
              backwardsMapping>>

\* Mutant: the `if(v == w) return;` of line 97 is left out.
AddEdgeLoops(adj, md, v, w) ==
  LET a0 == adj @@ [x \in {v, w} |-> <<>>]
      a1 == [a0 EXCEPT ![v] = Append(@, w)]
      a2 == [a1 EXCEPT ![w] = Append(@, v)]
  IN <<a2, Max({md, Len(a2[v]), Len(a2[w])})>>

\* addEdge(v, w), lines 94-103: create the two lists if missing; a
\* self-loop stops there; otherwise push each end onto the other's list
\* and raise maxdeg to the new list sizes.  <<adjList, maxdeg>> after it.
AddEdge(adj, md, v, w) ==
  LET a0 == adj @@ [x \in {v, w} |-> <<>>]
      a1 == [a0 EXCEPT ![v] = Append(@, w)]
      a2 == [a1 EXCEPT ![w] = Append(@, v)]
  IN IF v = w THEN <<a0, md>>
     ELSE <<a2, Max({md, Len(a2[v]), Len(a2[w])})>>

\* Lines 131-137: the first data line is the header when the stream has a
\* third token and it is not -1.
IsHeader(line) ==
  line.kind = "triple" /\ line.toks[3] # -1

\* The order of the range-for over the unordered_map adjList, lines
\* 147-151: the standard leaves it unspecified; ascending ids here.
IterationOrder(vs) ==
  [i \in 1..Cardinality(vs) |-> CHOOSE v \in vs : Cardinality({u \in vs : u < v}) = i - 1]

LoadInit ==
  /\ file \in Files
  /\ pos = 1 /\ firstRow = TRUE
  /\ adjList = << >> /\ maxdeg = -1 /\ nodeNo = -1
  /\ vertexOrdering = << >> /\ backwardsMapping = << >>
  /\ phase = "load"

\* getline(graphFile, line) reaches the end of the file, line 126: there
\* is no line left, or the line it read was not ended by a newline.
AtEof == pos > Len(file) \/ (pos \in DOMAIN file /\ ~file[pos].nl)

\* `ss >> first >> second`, line 130: the i-th integer of the line.  When
\* none is left the stream's sentry fails and nothing is written, so the
\* local `int first, second;` keeps an indeterminate value u.
Extracted(line, i, u) == IF i <= Len(line.toks) THEN line.toks[i] ELSE u

\* One pass of the while loop, lines 125-139, on a line getline returned
\* without reaching the end of the file.  A short line leaves the stream
\* at its end, so it is never a header (line 134) and goes to addEdge.
ReadLine ==
  /\ phase = "load" /\ ~AtEof
  /\ \E u1, u2 \in Uninit :
     LET line == file[pos]
         header == firstRow /\ IsHeader(line)
         g == AddEdge(adjList, maxdeg, Extracted(line, 1, u1), Extracted(line, 2, u2))
     IN IF line.kind = "comment"
        THEN UNCHANGED <<firstRow, adjList, maxdeg, nodeNo>>
        ELSE /\ firstRow' = FALSE
             /\ IF header
                THEN /\ nodeNo' = line.toks[1]
                     /\ UNCHANGED <<adjList, maxdeg>>
                ELSE /\ adjList' = g[1] /\ maxdeg' = g[2]
                     /\ UNCHANGED nodeNo
  /\ pos' = pos + 1
  /\ UNCHANGED <<file, vertexOrdering, backwardsMapping, phase>>

\* getline at the end of the file, lines 126 and 141-157: the loop breaks
\* (dropping the line read, if any).  `if(nodeNo = -1)`
\* assigns -1 and is always taken, so nodeNo becomes adjList.size()
\* whatever the header said, and the assert of line 142 always holds.
\* hashSet then turns every list into a set (SimpleHashSet::hashSet).
EndOfFile ==
  /\ phase = "load" /\ AtEof
  /\ LET vs == DOMAIN adjList
         ord == IterationOrder(vs)
     IN /\ nodeNo' = Cardinality(vs)
        /\ vertexOrdering' = [p \in 0..Len(ord) - 1 |-> ord[p + 1]]
        /\ backwardsMapping' = [v \in vs |-> SelectInSeq(ord, LAMBDA x : x = v) - 1]
  /\ phase' = "loaded"
  /\ UNCHANGED <<file, pos, firstRow, adjList, maxdeg>>

-----------------------------------------------------------------------------
(* What the loaded graph is: the hashed lists as sets.                     *)

Vertex == DOMAIN adjList
N(v) == ToSet(adjList[v])

\* Spec "Input file": an optional header line, the first data line when it
\* has a third token, gives the vertex count; every other data line is an
\* edge, inserted symmetrically, self-loops ignored.
\* A line with fewer than two integers names no edge.
IsData(l) == l.kind \in {"pair", "triple"}
FirstDataLine(f) ==
  {i \in DOMAIN f : IsData(f[i]) /\ \A j \in 1..i - 1 : ~IsData(f[j])}
HeaderLines(f) == {i \in FirstDataLine(f) : f[i].kind = "triple"}
DataLines(f) ==
  {f[i] : i \in {j \in DOMAIN f : IsData(f[j])} \ HeaderLines(f)}
FileVertices(f) == UNION {{l.toks[1], l.toks[2]} : l \in DataLines(f)}
FileNeighbours(f, v) ==
  {w \in FileVertices(f) \ {v} :
     \E l \in DataLines(f) : {l.toks[1], l.toks[2]} = {v, w}}

\* Once the file is read, the graph is the one the file specifies: every id
\* a data line names is a vertex, and the adjacency sets are exactly the
\* file's edges, symmetric and free of self-loops, however often and in
\* whichever direction a line repeats them, and with comments around them;
\* nodeNo counts those vertices, and a header agrees with that count (spec
\* "Errors": a mismatch is fatal, so no load completes with one).  It is
\* about the line loop of initFromFile, addEdge and the nodeNo of line 141.
LoadedGraphMatchesFile ==
  phase # "load" =>
    /\ Vertex = FileVertices(file)
    /\ \A v \in Vertex : N(v) = FileNeighbours(file, v)
    /\ nodeNo = Cardinality(Vertex)
    /\ \A i \in HeaderLines(file) : file[i].toks[1] = Cardinality(Vertex)
=============================================================================

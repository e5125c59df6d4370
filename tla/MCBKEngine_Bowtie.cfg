\* Root task 0 with four candidates, two of them adjacent, through nested SequentialRun frames, every subgraph policy.
CONSTANTS
  Vertex <- BowtieVertex
  Edge <- BowtieEdge
  Position <- BowtiePosition
  degeneracyOrd = FALSE
  degreeOrd = FALSE
  PX_threshold = 2
  MaxClqArgs <- MCNoArg
  SArgs <- MCPolicies

SPECIFICATION Spec
INVARIANT MemorySafety NoLeakAtEnd
PROPERTY EnumerationSafety

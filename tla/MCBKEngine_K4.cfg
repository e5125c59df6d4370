\* Nested SequentialRun frames inside spawned tasks, every subgraph policy.
CONSTANTS
  Vertex <- K4Vertex
  Edge <- K4Edge
  Position <- K4Position
  degeneracyOrd = TRUE
  degreeOrd = FALSE
  PX_threshold = 2
  MaxClqArgs <- MCNoArg
  SArgs <- MCPolicies

SPECIFICATION Spec
INVARIANT TypeOK MemorySafety NoLeakAtEnd
PROPERTY EnumeratesMaxCliques

\* --max-clq 2: tasks that stop at the size cap with P non-empty, every subgraph policy.
CONSTANTS
  Vertex <- K4Vertex
  Edge <- K4Edge
  Position <- K4Position
  degeneracyOrd = TRUE
  degreeOrd = FALSE
  PX_threshold = 2
  MaxClqArgs <- MCMaxClq2
  SArgs <- MCPolicies

SPECIFICATION Spec
INVARIANT NoLeakAtEnd

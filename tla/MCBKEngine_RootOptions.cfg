\* --max-clq 1 with -s 1: a root task stops at |R| = 1 before it builds its subgraph; -s -1 or 5 without --max-clq: no subgraph is built and the root task reads the input graph's pivot_node.
CONSTANTS
  Vertex <- BowtieVertex
  Edge <- BowtieEdge
  Position <- BowtiePosition
  degeneracyOrd = FALSE
  degreeOrd = FALSE
  PX_threshold = 1
  MaxClqArgs <- MCRootMaxClq
  SArgs <- MCRootPolicies

SPECIFICATION Spec
INVARIANT MemorySafety

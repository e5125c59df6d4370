\* AVX512 build, removing only ids the list holds, as the engine's
\* P_task->del_elem(vertex) does for a vertex of cand, a subset of P.
CONSTANTS
  Key <- MCKey
  ELEMS_IN_BUCKET <- MCElemsInBucket
  AVX = TRUE
  RemoveAbsent = FALSE
  Other <- MCOther
SPECIFICATION Spec
INVARIANTS TypeOK SizeMatchesContents AvxIntersectAgrees
PROPERTIES ImplementsVertexList

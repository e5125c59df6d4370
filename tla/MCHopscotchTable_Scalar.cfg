\* Scalar build: hashSet on every list of up to three ids.
CONSTANTS
  Key <- MCKey
  Inputs <- MCInputs
  W <- MCW
  HS_BUCKET_SIZE = 2
  VECTOR_SIZE = 1
  nAttempts = 10
  MaxCapacity = 32
  AVX = FALSE
SPECIFICATION Spec
INVARIANTS TypeOK NeighbourhoodInvariant HashSetPreservesMembership
PROPERTIES HashSetCompletes

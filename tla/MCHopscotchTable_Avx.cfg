\* AVX512 build: contains and vector_lookup on every hashed list.
CONSTANTS
  Key <- MCKey
  Inputs <- MCInputs
  W <- MCW
  HS_BUCKET_SIZE = 2
  VECTOR_SIZE = 2
  nAttempts = 10
  MaxCapacity = 32
  AVX = TRUE
SPECIFICATION Spec
INVARIANT LookupsAgree

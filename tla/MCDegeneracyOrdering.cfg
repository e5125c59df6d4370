\* Loading and degeneracy ordering of all 1023 non-empty graphs over five
\* vertices, and of files with headers, comments and repeated lines.
CONSTANTS
  Files <- MCFiles
  Uninit <- MCUninit
SPECIFICATION Spec
INVARIANT TypeOK LoadedGraphMatchesFile BucketsTrackResidualDegree IsDegeneracyOrdering SubgraphAnswersAsInput

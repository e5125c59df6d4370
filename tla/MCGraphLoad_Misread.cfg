\* Files the spec reads differently from initFromFile: a header count that
\* does not match the lines, a last line without a newline, and a blank last line.
CONSTANTS
  Files <- MCMisreadFiles
  Uninit <- MCUninit
SPECIFICATION Spec
INVARIANT LoadedGraphMatchesFile

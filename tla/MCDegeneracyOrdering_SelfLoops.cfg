\* A graph file whose every line is a self-loop: maxdeg stays -1.
CONSTANTS
  Files <- MCSelfLoopsOnly
  Uninit <- MCUninit
SPECIFICATION Spec
INVARIANT AssertionsHold

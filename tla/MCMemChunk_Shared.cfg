\* Two children receive sets from their parent's chunk (--thresh 2 --mem-thresh 30).
CONSTANTS
  MaxCand = 2
  BlockLines = 3
  Setups <- MCSharedSetups
SPECIFICATION Spec
INVARIANT LiveSetMemoryExclusive

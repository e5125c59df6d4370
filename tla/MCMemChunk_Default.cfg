\* Arena of a task under the default thresholds, whose every set is consumed by its own sequential branches, and of a task with one child that receives P' and X' from the chunk (--thresh 2 --mem-thresh 30).
CONSTANTS
  MaxCand = 3
  BlockLines = 3
  Setups <- MCSetups
SPECIFICATION Spec
INVARIANT TypeOK CounterTracksLiveSets LiveSetMemoryExclusive ArenaReleasedWhenTaskDone

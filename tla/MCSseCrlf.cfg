SPECIFICATION Spec
CONSTANTS
  Streams <- MCTwoEvents
  MaxReads = 3
  SplitLineEnds = TRUE
INVARIANT
  NoFrameLost

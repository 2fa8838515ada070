SPECIFICATION Spec
CONSTANTS
  Streams <- MCStreams
  MaxReads = 3
  SplitLineEnds = FALSE
INVARIANTS
  EventsFaithful
  CutsUnseen
  UsageAccounted
  BatchedReplyFaithful

SPECIFICATION Spec
CONSTANTS
  Pieces <- MCPieces
  Source <- MCSource
  MaxRead = 3
  BodyLimit = 2
INVARIANTS
  TypeOK
  OrderedDelivery
  ClosedOnce
  HonestEnd
  UsageSettledAtEnd
  ErrorBodyBounded
  AnswerAfterRelease
PROPERTIES
  NoEmitAfterClose
  EveryStreamReleased
  ImplementsDelivery

SPECIFICATION Spec
CONSTANTS
  MaxRecords = 3
  MaxObservations = 4
  Threads = {t1, t2, t3}
  Torn = Torn
  Answers <- MCAnswers
  Queries <- MCQueries
  Nows <- MCNows
  RecentRows = 2
SYMMETRY Symmetry
INVARIANTS
  TypeOK
  KeptInOrder
  Durable
  TokensAsCarried
  TotalsAddUp
  BucketsInTime

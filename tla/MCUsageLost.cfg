SPECIFICATION Spec
CONSTANTS
  MaxRecords = 2
  MaxObservations = 4
  Threads = {t1, t2}
  Torn = Torn
  Answers <- MCAnswers
  Queries = {}
  Nows = {}
  RecentRows = 2
PROPERTY
  RecordsSurviveReloads

SPECIFICATION Spec
CONSTANTS
  None = None
  EnvSecret = ""
  Families <- Families2
  ImageIds = {"image"}
  Configs <- MCConfigs
  Files <- MCFiles
  Replies <- MCReplies
  NewKey = "n"
  NewName <- Renamed
  Resolvers = {r1}
  Fetchers = {f1}
  MaxRows = 4
  MaxWork = 1
INVARIANTS
  TestsWhatIsSaved
  CatalogWhole
PROPERTIES
  RoundTrip
  SaveHitsItsBlock
  SavedOverBlock
  KeysSurvive

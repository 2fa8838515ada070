SPECIFICATION Spec
CONSTANTS
  None = None
  EnvSecret = ""
  Families <- Families2
  ImageIds = {"image"}
  Configs <- MCConfigs
  Files <- MCFiles
  Replies <- MCReplies
  NewKey = "n"
  NewName <- Renamed
  Resolvers = {r1}
  Fetchers = {}
  MaxRows = 4
  MaxWork = 2
PROPERTIES
  RowsKeepTheirKeys

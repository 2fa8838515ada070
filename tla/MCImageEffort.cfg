SPECIFICATION Spec
CONSTANTS
  None = None
  EnvSecret = ""
  Configs <- MCConfigs
  Requests <- MCRequests
  Catalog <- MCCatalog
INVARIANT ImagesLeftAlone

SPECIFICATION Spec
CONSTANTS
  None = None
  EnvSecret = ""
  Configs <- Keys
  Requests <- MCRequests
  Catalog <- MCCatalog
INVARIANT KeysApart

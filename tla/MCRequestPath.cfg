SPECIFICATION Spec
CONSTANTS
  None = None
  EnvSecret = ""
  Configs <- Selectors
  Requests <- MCRequests
  Catalog <- MCCatalog
INVARIANTS
  TypeOK
  SignatureVerifies
  KeyStaysWithProvider
  IdentitiesApart
  ModelAgrees
  EffortRespected
  RouteFollowsRequest
  GlobFaithful
PROPERTIES
  IdentityCarried
  MatchedIsIntercepted

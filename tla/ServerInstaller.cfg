CONSTANTS
  Ids = {1, 2}
  None = None
  Requests <- MCRequests
  OtherRestarts = TRUE
  MaxInstalls = 3
  MaxFailures = 1
  MaxKills = 1
  MaxCalls = 1
SPECIFICATION Spec
INVARIANTS
  TypeOK
  FailedInstallRestores
  CommittedAgrees
  OneProviderServing
  RetainsProvider

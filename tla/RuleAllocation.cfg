CONSTANTS
  RULE_ROLES <- MCRoles
  NewRole = "review"
  CUSTOM_MIN = 1
  CUSTOM_MAX = 6
  DefaultStart = 2
  Requests <- MCRequests
  MaxForeign = 3
SPECIFICATION Spec
INVARIANTS
  TypeOK
  AllocatedIdsAreFree
  LowestIdsFirst
  RefusesOnlyWithoutRoom
PROPERTY InstalledIdsAreKept

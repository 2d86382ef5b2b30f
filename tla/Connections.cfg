CONSTANTS
  Jobs = {1, 2}
  Origins = {1, 2}
  ConnIds = {1, 2, 3, 4, 5, 6}
  Pieces = 2
  MaxTries = 1
  RefreshBudget = 1
  MaxRedirects = 2
  MaxLive = 2
  H3 = {1}
  MaxUpsets = 2
  MaxProbes = 2
SPECIFICATION Spec
INVARIANTS ConnectionsTypeOK LoadExact
PROPERTIES NoAbort EndsOrStranded
CHECK_DEADLOCK FALSE

CONSTANTS
  Jobs = {1, 2}
  Origins = {1}
  ConnIds = {1, 2, 3, 4, 5, 6}
  Pieces = 1
  MaxTries = 1
  RefreshBudget = 1
  MaxRedirects = 2
  MaxLive = 2
  H3 = {}
  MaxUpsets = 0
  MaxProbes = 2
SPECIFICATION Spec
PROPERTY HandlerReturns
CHECK_DEADLOCK FALSE

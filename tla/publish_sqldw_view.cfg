SPECIFICATION Spec
CONSTANTS
  Projects <- SqlDwViews
  Keys = {k1, k2}
  MaxVersion = 2
  Bad = {2}
  Clients = {c1}
  Retries = 1
  MaxRuns = 2
INVARIANTS UndisturbedRunsSucceed
CHECK_DEADLOCK FALSE

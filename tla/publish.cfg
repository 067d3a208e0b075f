SPECIFICATION Spec
CONSTANTS
  Projects <- SmallProjects
  Keys = {k1, k2}
  MaxVersion = 2
  Bad = {2}
  Clients = {c1}
  Retries = 1
  MaxRuns = 3
INVARIANTS OneRowPerKey UndisturbedRunsSucceed
PROPERTIES SuccessGivesTheQuery RowsSurvive AssertionsTellTheTruth
CHECK_DEADLOCK FALSE

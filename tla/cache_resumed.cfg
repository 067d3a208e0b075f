SPECIFICATION Spec
CONSTANTS
  src = src
  top = top
  out = out
  Sources <- OnlySource
  Actions <- TopAndOut
  ViewSets <- TopMayBeAView
  DepTargets <- ChainDeps
  Incremental <- OnlyTop
  Hermetic <- TopAndOut
  Streamed <- OnlySource
  MaxWrites = 4
  MaxRuns = 3
  MaxEdits = 0
PROPERTIES RunsAfterItsInputs
CHECK_DEADLOCK FALSE

SPECIFICATION Spec
CONSTANTS
  src = src
  top = top
  out = out
  Sources <- OnlySource
  Actions <- TopAndOut
  ViewSets <- TopMayBeAView
  DepTargets <- ChainDeps
  Incremental <- OnlyTop
  Hermetic <- TopAndOut
  Streamed <- OnlySource
  MaxWrites = 5
  MaxRuns = 3
  MaxEdits = 1
INVARIANTS RecordsAreConservative UnchangedIsSkipped
PROPERTIES SkipsAreFresh
CHECK_DEADLOCK FALSE

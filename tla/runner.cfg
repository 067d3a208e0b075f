SPECIFICATION Spec
CONSTANTS
  a = a
  b = b
  c = c
  d = d
  t = t
  x = x
  s = s
  Actions <- Four
  Deps <- JoinDeps
  Tasks <- JoinTasks
  SchemaOf <- TwoSchemas
  Described <- OnlyA
  CacheCandidates <- OnlyA
  Retries = 1
  Clients = 2
  UseRunCache = TRUE
  HasTimeout = TRUE
  MaxResumes = 2
INVARIANTS TypeOK DependenciesFirst SuccessMeansTasksDone TasksTriedInOrder SkipHasCause VerdictTruthful NothingLeftRunning SchemasBeforeActions
PROPERTIES ResultsFrozen RunsTheDag
CHECK_DEADLOCK FALSE

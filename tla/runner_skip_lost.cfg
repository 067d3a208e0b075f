SPECIFICATION Spec
CONSTANTS
  a = a
  b = b
  c = c
  d = d
  t = t
  x = x
  s = s
  Actions <- Three
  Deps <- ChainDeps
  Tasks <- StatementTasks
  SchemaOf <- OneSchema
  Described <- OnlyA
  CacheCandidates <- None
  Retries = 0
  Clients = 2
  UseRunCache = FALSE
  HasTimeout = FALSE
  MaxResumes = 0
INVARIANTS EveryActionHasAResult
CHECK_DEADLOCK FALSE

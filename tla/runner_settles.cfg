SPECIFICATION FairSpec
CONSTANTS
  a = a
  b = b
  c = c
  d = d
  t = t
  x = x
  s = s
  Actions <- Three
  Deps <- ForkDeps
  Tasks <- ForkTasks
  SchemaOf <- TwoSchemas
  Described <- OnlyA
  CacheCandidates <- None
  Retries = 1
  Clients = 1
  UseRunCache = TRUE
  HasTimeout = TRUE
  MaxResumes = 1
PROPERTIES EventuallySettles
CHECK_DEADLOCK FALSE

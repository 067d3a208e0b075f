SPECIFICATION FairWarehouseSpec
CONSTANTS
  Statements = {s1, s2}
  Concurrency = 1
  MaxRows = 2
  RowLimit = 1
  MaxAttempts = 2
  Locks = {l1, l2}
  Length = 1
  PgRetries = 1
  MaxClients = 1
  Connections = {1, 2}
  Paths <- SmallPaths
  CallsMade <- SmallCalls
  MaxChanges = 1
INVARIANTS WholeResults HeardCancelIsFinal ClientsAreNotShared NoClientIsLost MetadataWasTrue DescriptionsArrive EvaluationsMatch TypesAgree
PROPERTIES WarehouseSettles
CHECK_DEADLOCK FALSE

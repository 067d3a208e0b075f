SPECIFICATION ServicesSpec
CONSTANTS
  Gets = {"g1", "g3"}
  Clients = {"c1", "c2"}
  ClientOf <- SmallClientOf
  MaxVersion = 2
  MaxInvalidations = 1
  MaxBreaks = 1
  Sockets = {"s1", "s2"}
  Suites = {"outer", "inner"}
  Tests = {"t1", "t2"}
  Parts <- SmallParts
  Retries = 1
  Results <- SmallResults
  UpperCase <- SmallUpperCase
  Cells <- Values
INVARIANTS CalculationErrorWins
CHECK_DEADLOCK FALSE

SPECIFICATION Spec
CONSTANTS
  ProjectConfigs <- SmallConfigs
  Sources <- SmallSources
  LateCalls <- SmallCalls
  MaxSteps = 3
  RunConfigs <- SmallRuns
  MaxNesting = 6
  Codes <- SmallTexts
INVARIANTS CleanGraphsAreSound TextNamesDependencies AssertionsFollowTheirTable SelectionIsClosed TreeIsTheCode StatementsEvaluate FormattingKeepsMeaning
CHECK_DEADLOCK FALSE

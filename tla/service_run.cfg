SPECIFICATION FairSpec
CONSTANTS
  PageCounts = {1, 4, 5, 100}
  Cases <- InstanceCases
  Answers <- InstanceAnswers
  MaxWriteFailures = 1
CHECK_DEADLOCK FALSE
INVARIANTS
  TypeOK
  LedgerTellsTheWork
  UnbilledIsOneCall
  BudgetReadsBack
  SuggestedMaximumSuffices
PROPERTIES
  UsageIsBilled
  WorkEnds
  ImplementsSession

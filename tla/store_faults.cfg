SPECIFICATION FairSpec
CONSTANTS
  t1 = t1
  t2 = t2
  t3 = t3
  Transactions <- ThreeTransactions
  NoFile = NoFile
  Torn = Torn
  MaxCrashes = 2
  MaxFailures = 2
CHECK_DEADLOCK FALSE
INVARIANTS
  TypeOK
  DoneIsDurable
  FailedLeavesNoTrace
  ReadersSeeDurableData
  CallOrder
  StoreInv
PROPERTIES
  KeepsAtomicity
  EveryCallAnswered

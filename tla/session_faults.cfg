SPECIFICATION FairSpec
CONSTANTS
  s1 = s1
  s2 = s2
  n1 = n1
  n2 = n2
  alice = alice
  Sessions <- OneSession
  Nonces <- TwoNonces
  NoNonce = NoNonce
  Payers <- OnePayer
  PayerOf <- SameWallet
  MinCharge = 2
  ServiceMax = 4
  BaseFee = 1
  Prices <- ChargesAndCredit
  PlanLength = 2
  InitialBalance = 5
  SessionLimit = 3
  MaxDaily = 4
  RailMode = "external"
  MaxCredit = 2
  MaxCrashes = 2
  MaxWriteFailures = 2
CHECK_DEADLOCK FALSE
INVARIANTS
  TypeOK
  ChargeMatchesLedger
  ChargedOnce
  DeliveredIsPaidWork
  OutcomeCanBeRecorded
  SessionInv
  OnlyFailedWritesDenyMoney
PROPERTIES
  KeepsPromise
  RunEnds
  SettlingRunDelivers

SPECIFICATION FairSpec
CONSTANTS
  s1 = s1
  s2 = s2
  n1 = n1
  n2 = n2
  alice = alice
  Sessions <- OneSession
  Nonces <- TwoNonces
  NoNonce = NoNonce
  Payers <- OnePayer
  PayerOf <- SameWallet
  MinCharge = 1
  ServiceMax = 2
  BaseFee = 1
  Prices <- OneCharge
  PlanLength = 1
  InitialBalance = 3
  SessionLimit = 2
  MaxDaily = 4
  RailMode = "demo"
  MaxCredit = 0
  MaxCrashes = 1
  MaxWriteFailures = 0
CHECK_DEADLOCK FALSE
PROPERTY SettledIsDelivered

SPECIFICATION Spec
CONSTANTS
  None = None
  k1 = k1
  k2 = k2
  k3 = k3
  Keys <- ThreeKeys
  PriceLists <- ThreePriceLists
  VersionOf <- ListsAreVersions
  Cap = 5
  MaxQuantity = 4
  MaxRestarts = 2
CHECK_DEADLOCK FALSE
SYMMETRY KeySymmetry
INVARIANTS
  TypeOK
  AgreementTypeOK
  KeyBilledOnce
  BilledAtRate
  ChargeCoversUsage
  SettledAsAgreed
  AcceptedTermsSettle
  ReceiptAgrees

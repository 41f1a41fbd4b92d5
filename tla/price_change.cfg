SPECIFICATION Spec
CONSTANTS
  None = None
  k1 = k1
  k2 = k2
  k3 = k3
  Keys <- TwoKeys
  PriceLists <- ThreePriceLists
  VersionOf <- ListsAreVersions
  Cap = 5
  MaxQuantity = 2
  MaxRestarts = 2
CHECK_DEADLOCK FALSE
SYMMETRY KeySymmetry
INVARIANT PricedAsOffered

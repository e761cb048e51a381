SPECIFICATION Spec
CONSTANTS
  s0 = s0
  a1 = a1
  b1 = b1
  c2 = c2
  a0 = a0
  c1 = c1
  None = None
  Tx <- PairTx
  NonceOf <- PairNonceOf
  MaxNonce = 1
  Undecodable = {}
  Baseline = 0
  MaxBuilds = 1
  MaxCrashes = 1
PROPERTY
  BuiltInTurn
CHECK_DEADLOCK FALSE

SPECIFICATION Spec
CONSTANTS
  s0 = s0
  a1 = a1
  b1 = b1
  c2 = c2
  a0 = a0
  c1 = c1
  None = None
  Tx <- RivalTx
  NonceOf <- RivalNonceOf
  MaxNonce = 2
  Undecodable = {}
  Baseline = 1
  MaxBuilds = 1
  MaxCrashes = 1
INVARIANTS
  OneNativePerNonce
  WrittenAhead
  FinalizedIsSolid
  NoOrphanedClaim
  RefusedNeverSent
  OneOutAtATime
PROPERTIES
  KeepsLedger
  SettledForGood
CHECK_DEADLOCK FALSE
SYMMETRY Symmetry

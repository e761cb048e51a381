SPECIFICATION Spec
CONSTANTS
  t0 = t0
  u0 = u0
  t1 = t1
  t2 = t2
  None = None
  Tx <- MCTx
  NonceOf <- MCNonceOf
  MaxNonce = 2
  Baseline = 0
  MaxSubmits = 2
INVARIANTS
  NobodyStranded
PROPERTIES
  ReleasedInTurn
  VerdictsJustified
  EventuallySettled
CHECK_DEADLOCK FALSE

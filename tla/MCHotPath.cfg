CONSTANTS
  Callers = {c1, c2}
  Modulus = 4
  MaxVersions = 2
SPECIFICATION HotSpec
SYMMETRY Symmetry
CHECK_DEADLOCK FALSE
INVARIANTS
  OneTransactionPerNonce
  NoNonceLost

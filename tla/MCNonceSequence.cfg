CONSTANTS
  Callers = {c1, c2, c3}
  Modulus = 3
SPECIFICATION Spec
INVARIANTS
  DistinctNonces
  NoncesAccounted
PROPERTIES
  ImplementsCounter
  AdvanceReturns

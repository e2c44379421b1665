CONSTANTS
  Relays = {r1, r2, r3}
SPECIFICATION Spec
INVARIANTS
  AcceptedIsInAPool
  RejectedIsNowhere
PROPERTIES
  ImplementsSubmission
  AcceptanceReturns
  GoroutinesEnd

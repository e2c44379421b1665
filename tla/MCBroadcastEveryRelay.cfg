CONSTANTS
  Relays = {r1, r2}
SPECIFICATION Spec
INVARIANTS
  EveryRelayReached

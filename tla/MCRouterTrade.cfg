\* 10 basis points make a whole.
CONSTANTS
  BPSTotal = 10
  O1MaxBaseFeeBPS = 2
  O1MaxTotalFeeBPS = 9
  BagsV4HookFeeBPS = 3
  BaseFees = {1}
  StartFees = {9, 10}
  Windows = {3}
  LaunchTimes = {1}
  MaxTime = 4
  MaxAmount = 2
  MaxOut = 2
  Slippages = {0, 3, 11}
  Deadlines = {0, 3}
  Expirations = {3}
  Lengths = {0, 33}
  MaxUint160 = 2
  MaxUint256 = 65535
SPECIFICATION TradeSpec
INVARIANTS
  QuoteHoldsLater
  NeverTaxedAway
  TradeWithinLimits
  NoNeedlessRevert

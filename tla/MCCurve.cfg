CONSTANTS
  MaxUint = 3000
  BPS = 40
  OnePct = 2
  Supplies = {1, 17}
  Phantoms = {3}
  Thresholds = {0, 4, 9}
  FeeRates = {0, 5}
  TaxRates = {0, 3}
  SnipeRates = {0, 3, 39}
  ShareRates = {14, 40}
  Amounts = {1, 4, 11, 60, 180}
SPECIFICATION Spec
INVARIANTS
  BooksBalance
  ProductHolds
  SoldOutIsFunded
  QuoteWithinBudget
  MinTokensFitsFill
PROPERTIES
  NoRoundTripProfit
CHECK_DEADLOCK FALSE

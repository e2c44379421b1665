CONSTANTS
  MaxTick = 6
  WordSize = 2
  Slack = 0
  MaxLiquidity = 7
  Pools <- MCPools
  Amounts = {3, 12}
  StepCosts = {1}
  StepOuts = {0, 3}
  BPS = 10
  CutRates = {0, 4, 7}
SPECIFICATION Spec
INVARIANTS
  TypeOK
  LiquidityMatchesTick
  IterationsSuffice

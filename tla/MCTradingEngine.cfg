SPECIFICATION FairEngine
CONSTANTS
  s1 = s1
  Symbols <- OneSymbol
  NoPrice = NoPrice
  Prices <- MCPrices
  Volumes <- None
  Fees <- None
  MaxHeld = 0
  MaxFills = 0
  InitialCapital = 40
  MaxDrawdownPct = 30
  MaxConcentrationPct = 60
  MaxGrossPct = 70
  RiskPct = 50
  Multipliers <- MCMultipliers
  UnitSlip = 4
  UnitFee = 1
  MaxBars = 4
CHECK_DEADLOCK FALSE
INVARIANT FilledNextBar
INVARIANT EndsFlat
PROPERTY RunEnds

SPECIFICATION LiveSpec
CONSTANTS
  crypto = crypto
  forex = forex
  n1 = n1
  Symbols <- Listed
  Names <- OneName
  NameOf <- MCNameOf
  DefaultOf <- MCDefaultOf
  NoSymbol = NoSymbol
  NoPrice = NoPrice
  Prices <- OnePrice
  Volumes <- MCVolumes
  Fees = {}
  MaxHeld = 0
  MaxFills = 0
  InitialCapital = 20
  MaxDrawdownPct = 50
  MaxConcentrationPct = 40
  MaxGrossPct = 60
  MaxRemembered = 2
  MaxOrders = 2
  MaxTrades = 3
  MaxDeliveries = 4
  MaxRestarts = 1
CHECK_DEADLOCK FALSE
INVARIANT AppliedOncePerWindow
INVARIANT BookedWhereOrdered
INVARIANT FillsReachTheirReader

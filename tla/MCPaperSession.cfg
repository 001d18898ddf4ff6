SPECIFICATION SessionSpec
CONSTANTS
  s1 = s1
  s2 = s2
  f1 = f1
  f2 = f2
  c1 = c1
  h1 = h1
  h2 = h2
  Symbols <- OneSymbol
  BrokerSymbols <- OneSymbol
  Feeds <- TwoFeeds
  Closers <- OneCloser
  Halts <- OneHalt
  Tasks <- TasksA
  NoTask = NoTask
  NoPrice = NoPrice
  Prices <- MCPrices
  Volumes <- MCVolumes
  Fees <- NoFees
  MaxHeld = 0
  MaxFills = 0
  InitialCapital = 20
  StartBalance = 20
  StartPrice = 9
  Slip = 4
  FlatFee = 1
  MaxDrawdownPct = 30
  MaxConcentrationPct = 50
  MaxGrossPct = 60
  MaxClientOrders = 2
  MaxOrders = 3
SYMMETRY TaskSymmetry
CHECK_DEADLOCK FALSE
INVARIANT BooksAgree
INVARIANT HaltIsFinal
INVARIANT ApprovedConcentrationHolds

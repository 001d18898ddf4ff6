SPECIFICATION PortfolioSpec
CONSTANTS
  s1 = s1
  s2 = s2
  Symbols <- MCSymbols
  Prices <- MCPrices
  Volumes <- MCVolumes
  Fees <- MCFees
  InitialCapital = 20
  NoPrice = NoPrice
  MaxHeld = 3
  MaxFills = 4
SYMMETRY Symmetry
INVARIANT RealizedPnlExplainsCash
INVARIANT EquityIsExplained
PROPERTY ImplementsFillLedger

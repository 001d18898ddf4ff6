SPECIFICATION LiveSpec
CONSTANTS
  s1 = s1
  f1 = f1
  f2 = f2
  h1 = h1
  h2 = h2
  Symbols <- OneSymbol
  Instruments <- OneSymbol
  Feeds <- TwoFeeds
  Callers <- TwoFeeds
  Halts <- OneHalt
  Sellers <- OneHalt
  NoTask = NoTask
  NoPrice = NoPrice
  NoQuote = NoQuote
  Names = {"gold"}
  NameOf <- MCNameOf
  NoFeature = NoFeature
  NoPolicy = NoPolicy
  Sites <- MCSites
  Prices = {2}
  Quotes <- MCQuotes
  Signals <- MCSignals
  Policies <- MCPolicies
  Latencies <- MCLatencies
  Volumes = {}
  Fees = {}
  MaxHeld = 0
  MaxFills = 0
  InitialCapital = 60
  MaxDrawdownPct = 10
  MaxConcentrationPct = 40
  MaxGrossPct = 100
  MaxSpread = 5
  MaxLatency = 200
  MaxContracts = 2
  MaxDials = 1
  MaxAsks = 2
SYMMETRY LiveSymmetry
CHECK_DEADLOCK FALSE
INVARIANT UntoldStopsItsLoop
INVARIANT ExposureIsWhatWasTold
INVARIANT HaltStopsBuying
INVARIANT NoRealMoneyInDemo
INVARIANT ReportsClaimOnlySales
PROPERTY OrdersOnlyOnSoundMarket

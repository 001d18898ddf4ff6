SPECIFICATION Spec
CONSTANTS
  AccountLists <- MCAccountLists
  AccountIds = {"d1", "r"}
  Anybody = Anybody
  Trades = 2
  PriceMoves <- MCPriceMoves
  Fees <- MCFees
  Residues <- MCResidues
  DisplayStep = 4
  MaxTickets = 3
  Prices <- MCPrices
  Commissions <- MCCommissions
  Slippages <- MCSlippages
  Margins = {1, 2}
  MinRatios <- MCMinRatios
  MaxHorizon = 2
  MaxPrices = 5
  Calendars <- MCCalendars
  Observations <- MCObservations
  Tuesdays <- MCTuesdays
  PValues = {10, 30, 40}
  RowCounts = {29, 30}
  MaxTests = 3
  NoValue = NoValue
  Lengths = {0, 6, 10, 14}
  Horizon = 2
  BurnIn = 1
  MinRows = 3
  Window = 4
  Stride = 2
  Batch = 3
  MaxRuns = 2
  NoModel = NoModel
  SlowPeriod = 2
  RsiPeriod = 3
  Lookback = 2
  Closes = {1, 2}
  MaxBarsSeen = 6
  Configurations <- MCConfigurations
  Histories = {1, 3, 5, 11}
  Tearsheets <- MCTearsheets
  TradeCounts = {29, 30}
  RuinPcts = {0, 3, 20}
  TermFrom <- MCTermFrom
  Markets = 2
  NoTrades = NoTrades
  EconomicTerms <- MCEconomicTerms
  Factors <- MCFactors
  MaxExperiments = 1
  NotMeasured = NotMeasured
  SeriesLengths <- MCSeriesLengths
  Holes <- MCHoles
  Correlations <- MCCorrelations
  Lags = {1, 3}
  Coverages = {4, 5}
  MaxScores = 1
  BarPrices <- MCBarPrices
  StartingCapital = 250
  SlippageBps = 1000
  CommissionBps = 1000
  MaxBars = 6
  MaxOrders = 6
  Predictions <- MCPredictions
  SafetyMargin = 1
CHECK_DEADLOCK FALSE
INVARIANT UnclosedIsLastAndSaid
INVARIANT InferredIsTheTruth
INVARIANT GateAgreesWithBroker
INVARIANT ViableCostIsTheLimit
INVARIANT PeriodsAreTheRuns
INVARIANT OnlyTheHeadLooksAhead
INVARIANT ReportedIsControlled
INVARIANT LoadedWasJudgedApart
INVARIANT SignalsFollowTrend
INVARIANT ApprovedSurvived
INVARIANT VerdictsSpendRowsOnce
INVARIANT DecompositionIsTheAccount

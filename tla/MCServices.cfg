SPECIFICATION Spec
CONSTANTS
  Horizon = 3
  Requests <- MCRequests
  Datasets <- MCDatasets
  Models <- MCModels
  NoOne = NoOne
  EconomicTerms <- MCEconomic
  Factors <- MCFactors
  MaxExperiments = 2
  NotMeasured = NotMeasured
  Instruments <- MCInstruments
  Experiences <- MCExperiences
  MaxCrashes = 2
  LastCandle = 7
  Weekend <- MCWeekend
  PageSize = 2
  TargetCount = 4
  BarPrices <- MCBarPrices
  StartingCapital = 100
  SlippageBps = 500
  CommissionBps = 500
  MaxBars = 4
  MaxOrders = 6
CHECK_DEADLOCK FALSE
INVARIANT OverlappingSyncsLeaveNoHole
INVARIANT OnlyTheLastUnfinished
INVARIANT DataHasItsManifest
INVARIANT ActivePolicyLoads
INVARIANT PromotedPassedOutOfSample
INVARIANT MemoryIsFaithful
INVARIANT PagesLeaveNoHole
INVARIANT CapitalExplained

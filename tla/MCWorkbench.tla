---------------------------- MODULE MCWorkbench ----------------------------
EXTENDS Workbench

\* live round trips
Listed(id, type, status) == [id |-> id, type |-> type, status |-> status]
MCAccountLists ==
    {<<Listed("d1", "demo", "active"), Listed("r", "real", "active")>>,
     <<Listed("d1", "demo", "active"), Listed("d2", "demo", "active")>>,
     <<Listed("r", "real", "active")>>, <<>>}
\* the cost measured
MCPriceMoves == {-9, -2, 0, 1, 5}
MCFees == {3, 6, 9}
MCResidues == {0, 1, 3}
\* tradability: slippage, commission and windows that tie
MCPrices == {50, 100, 104, 110}
MCCommissions == {1, 5}
MCSlippages == {0, 4}
MCMinRatios == {34, 50, 100}
\* feature research: a calendar with weekends and a holiday
MCCalendars == {{5, 8, 9, 10, 11, 12, 15, 16}, {1, 2, 3, 4, 5, 8}}
MCObservations == {{8, 9, 11, 12}, {1, 2, 3, 4}}
MCTuesdays == {{2, 9}, {3}}
\* segments: a test segment of 11, 15, 28 and 32 rows (one more than 30 % of 90); features with holes at the head,
\* in the middle and over the whole training segment; a t of exactly 2
MCSeriesLengths == {34, 50, 90, 104}
MCHoles == {{}, 1..28, 36..40, {r \in 1..104 : r % 2 = 0}}
MCCorrelations == {-90, -50, 0, 50, 70, 90}
\* decomposition: prices and rates for which a commission is a whole number
MCBarPrices == {100, 200}
MCPredictions == {-4000, 0, 4000}
\* campaigns
Tearsheet(s, w, n, d) == [sharpe |-> s, win |-> w, net |-> n, drawdown |-> d]
MCTearsheets ==
    {Tearsheet(90, 60, 20, 3), Tearsheet(-20, NoTrades, 0, 0), Tearsheet(10, 30, 10, 12)}
MCTermFrom == [points \in {50, 88, 98} |-> CASE points = 50 -> 0 [] points = 88 -> 10 [] OTHER -> 20]
MCEconomicTerms == {0, 50, 88, 98}
MCFactors == {0, 60, 80, 90, 97, 100}
MCConfigurations ==
    {<<"walk_forward", "hold_out", "monte_carlo", "benchmark">>,
     <<"hold_out", "walk_forward", "benchmark">>, <<"multi_market", "benchmark">>}
=============================================================================

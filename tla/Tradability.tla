---------------------------- MODULE Tradability ----------------------------
(***************************************************************************)
(* Is a market worth trading at a horizon?  The prices of its bars come    *)
(* one by one.  Measured on them: the windows whose move pays a round      *)
(* trip, the highest cost that would leave enough of them, and how long an *)
(* oracle that follows the signal holds a position.  Costs are in percent; *)
(* a move is kept as its two prices, so that nothing is rounded.           *)
(***************************************************************************)
EXTENDS Integers, Sequences, FiniteSets, SequencesExt

CONSTANTS Prices,        \* prices a bar can close at
          Commissions, Slippages,   \* percent, of one leg
          Margins,       \* safety margins
          MinRatios,     \* percent of the windows an instrument must leave tradable
          MaxHorizon,
          MaxPrices      \* bound

ASSUME TradabilityAssumption ==
    /\ Prices \subseteq Nat \ {0} /\ Commissions \cup Slippages \subseteq 0..99
    /\ Margins \subseteq Nat \ {0} /\ MinRatios \subseteq 1..100
    /\ MaxHorizon \in Nat \ {0} /\ MaxPrices \in Nat

VARIABLES prices,     \* of the bars so far
          horizon, commission, slippage, margin, minRatio,   \* of this measure
          side, held, periods   \* oracle_holding_periods, over the complete windows so far

gateVars == <<prices, horizon, commission, slippage, margin, minRatio, side, held, periods>>

GateInit ==
    /\ prices = <<>> /\ horizon \in 1..MaxHorizon
    /\ commission \in Commissions /\ slippage \in Slippages
    /\ margin \in Margins /\ minRatio \in MinRatios
    /\ side = 0 /\ held = 0 /\ periods = <<>>
-----------------------------------------------------------------------------
Size(n) == IF n < 0 THEN -n ELSE n

\* Slip: the position will have to be closed too.
BreakevenOfOneLeg == (commission + slippage) * margin

\* TransactionCostModel.breakeven_return.
Breakeven == 2 * (commission + slippage) * margin

\* The complete windows: the first and the last price of each.
Windows == [i \in 1..(Len(prices) - horizon) |-> <<prices[i], prices[i + horizon]>>]

Covers(window, cost) == 100 * Size(window[2] - window[1]) >= cost * window[1]

\* MLStrategy.generate_signals, for who knows the return of the window.
TargetExposure(window) ==
    IF ~Covers(window, Breakeven) THEN 0
    ELSE IF window[2] >= window[1] THEN 1 ELSE -1

\* tradable_window_ratio, as the windows it counts.
TradableWindows == {i \in DOMAIN Windows : Covers(Windows[i], Breakeven)}

\* Slip: the share asked is rounded down.
ViableRankBelow == IF Len(Windows) * minRatio < 100 THEN 1 ELSE (Len(Windows) * minRatio) \div 100

\* max_viable_round_trip_cost: the move, in decreasing order, of the last window
\* that the share asked needs.
ViableRank == (Len(Windows) * minRatio + 99) \div 100
LargerMove(v, w) == Size(v[2] - v[1]) * w[1] > Size(w[2] - w[1]) * v[1]
MovesMore(i, j) == \/ LargerMove(Windows[i], Windows[j])
                   \/ ~LargerMove(Windows[j], Windows[i]) /\ i < j
ViableWindow ==
    Windows[CHOOSE j \in DOMAIN Windows :
              Cardinality({i \in DOMAIN Windows : MovesMore(i, j)}) = ViableRank - 1]

\* Slip: a reversal goes on holding.
HoldThroughReversal(target) ==
    IF (target # 0) = (side # 0)
    THEN side' = target /\ held' = held + 1 /\ periods' = periods
    ELSE /\ periods' = IF side = 0 THEN periods ELSE Append(periods, held)
         /\ side' = target /\ held' = 1

\* One turn of the loop of oracle_holding_periods.
Hold(target) ==
    IF target = side
    THEN side' = side /\ held' = held + 1 /\ periods' = periods
    ELSE /\ periods' = IF side = 0 THEN periods ELSE Append(periods, held)
         /\ side' = target /\ held' = 1

\* What the function returns: the position still open counts.
HoldingPeriods == IF side = 0 THEN periods ELSE Append(periods, held)

\* The next bar; from the horizon on, it completes a window.
NextPrice(p) ==
    /\ Len(prices) < MaxPrices
    /\ prices' = Append(prices, p)
    /\ IF Len(prices) < horizon
       THEN UNCHANGED <<side, held, periods>>
       ELSE Hold(TargetExposure(<<prices'[Len(prices') - horizon], p>>))
    /\ UNCHANGED <<horizon, commission, slippage, margin, minRatio>>

GateNext == \E p \in Prices : NextPrice(p)

GateSpec == GateInit /\ [][GateNext]_gateVars
-----------------------------------------------------------------------------
GateTypeOK ==
    /\ prices \in Seq(Prices) /\ horizon \in 1..MaxHorizon
    /\ side \in {-1, 0, 1} /\ held \in Nat /\ periods \in Seq(Nat \ {0})

\* What SimulatedBroker leaves of a round trip over a window, per unit and times
\* 100^2: slippage moves both prices against the order, and each fill is charged.
Bought(w) == w[2] * (100 - slippage) * (100 - commission)
             - w[1] * (100 + slippage) * (100 + commission)
Sold(w) == w[1] * (100 - slippage) * (100 - commission)
           - w[2] * (100 + slippage) * (100 + commission)

\* The threshold of the gate, a sum of percentages of the entry price, is not
\* the broker's own arithmetic, which charges the exit at the exit price.  Without a
\* safety margin, a rise it refuses would have lost; with any, a fall it accepts
\* pays for itself: what the gate says of a horizon holds of the account as well.
GateAgreesWithBroker ==
    \A i \in DOMAIN Windows :
        /\ margin = 1 /\ i \notin TradableWindows => Bought(Windows[i]) < 0
        /\ i \in TradableWindows /\ Windows[i][2] < Windows[i][1] => Sold(Windows[i]) >= 0

\* The cost max_viable_round_trip_cost answers leaves the share of tradable
\* windows asked, and any higher cost does not: also when windows tie and when
\* the share is not a whole number of them.
ViableCostIsTheLimit ==
    Windows # <<>> =>
    LET AtLeast == {i \in DOMAIN Windows : ~LargerMove(ViableWindow, Windows[i])}
        Above == {i \in DOMAIN Windows : LargerMove(Windows[i], ViableWindow)}
    IN  /\ 100 * Cardinality(AtLeast) >= minRatio * Len(Windows)
        /\ 100 * Cardinality(Above) < minRatio * Len(Windows)

\* The holding periods are the longest runs of one side: as many as the oracle
\* opens positions, a reversal opening one, and together as long as there are
\* tradable windows ("'% temps' doit égaler '% fen.'").
PeriodsAreTheRuns ==
    LET target == [i \in DOMAIN Windows |-> TargetExposure(Windows[i])]
        Opened == {i \in DOMAIN target : target[i] # 0 /\ (i = 1 \/ target[i - 1] # target[i])}
    IN  /\ Len(HoldingPeriods) = Cardinality(Opened)
        /\ FoldLeft(LAMBDA sum, period : sum + period, 0, HoldingPeriods)
           = Cardinality(TradableWindows)
=============================================================================

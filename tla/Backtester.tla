----------------------------- MODULE Backtester -----------------------------
(***************************************************************************)
(* The vectorised Backtester: bars of features, the signals of a strategy  *)
(* at each, orders sized by FixedFractionalSizer, checked by the risk      *)
(* manager, filled by SimulatedBroker with slippage and commission, and    *)
(* the account it keeps of one symbol: capital, position, average price.   *)
(* Amounts are integers: rounding is not the code's.                       *)
(***************************************************************************)
EXTENDS Money

CONSTANTS BarPrices,       \* prices of the bars
          StartingCapital,
          SlippageBps, CommissionBps,
          MaxBars, MaxOrders   \* bounds

ASSUME BacktestAssumption ==
    /\ BarPrices \subseteq Nat \ {0} /\ StartingCapital \in Nat
    /\ SlippageBps \in 0..10000 /\ CommissionBps \in 0..10000

VARIABLES barPrice,   \* the bar being processed; 0 before the first
          ruined,     \* its signals are not looked at any more
          barCount, orderCount,
          position, averagePrice, capital,
          equity,     \* the last point of the equity curve
          \* history
          cash        \* what was received minus what was paid

backtestVars == <<barPrice, ruined, barCount, orderCount, position, averagePrice, capital,
                  equity, cash>>

Lesser(m, n) == IF m < n THEN m ELSE n

BacktestInit ==
    /\ barPrice = 0 /\ ruined = FALSE /\ barCount = 0 /\ orderCount = 0
    /\ position = 0 /\ averagePrice = 0 /\ capital = StartingCapital
    /\ equity = StartingCapital /\ cash = StartingCapital
-----------------------------------------------------------------------------
\* The next bar: the position is marked to its price.  A ruined account goes on.
BacktestBar(p) ==
    /\ barCount < MaxBars /\ barCount' = barCount + 1
    /\ barPrice' = p /\ ruined' = FALSE
    /\ equity' = capital + (p - averagePrice) * position
    /\ UNCHANGED <<orderCount, position, averagePrice, capital, cash>>

\* FixedFractionalSizer.size: 95 % of the realized capital.
Sized == (capital * 95) \div (100 * barPrice)

\* The quantity that makes the position the target: negative targets for shorts,
\* and, once ruined, for longs; the sign of the difference is dropped.
OrderQuantity(direction) ==
    CASE direction = 1 -> Abs(Sized - position)
      [] direction = -1 -> Abs(-Sized - position)
      [] OTHER -> Abs(position)

\* SimulatedBroker.execute_order.
FillPrice(side) == (barPrice * (10000 + side * SlippageBps)) \div 10000
Commission(side, quantity) == (FillPrice(side) * quantity * CommissionBps) \div 10000

\* Slip: the whole fill is taken to close something.
RealizedPnlOfFill(side, quantity) ==
    IF position > 0 /\ side < 0 THEN (FillPrice(side) - averagePrice) * quantity
    ELSE IF position < 0 /\ side > 0 THEN (averagePrice - FillPrice(side)) * quantity
    ELSE 0

\* compute_realized_pnl of what the fill closes.
RealizedPnl(side, quantity) ==
    IF position > 0 /\ side < 0
    THEN (FillPrice(side) - averagePrice) * Lesser(position, quantity)
    ELSE IF position < 0 /\ side > 0
    THEN (averagePrice - FillPrice(side)) * Lesser(-position, quantity)
    ELSE 0

\* _process_fill.  run() never adds to a position: no average is computed.
ProcessFill(side, quantity) ==
    LET target == position + side * quantity IN
    /\ capital' = capital + RealizedPnl(side, quantity) - Commission(side, quantity)
    /\ averagePrice' = IF target = 0 THEN 0
                       ELSE IF position = 0 \/ (position > 0) # (target > 0) THEN FillPrice(side)
                       ELSE averagePrice
    /\ position' = target
    /\ cash' = cash - side * quantity * FillPrice(side) - Commission(side, quantity)
    /\ ruined' = (capital' < 0)

\* A signal of the bar: to be long, short or out, for who is not yet.  The risk
\* manager may reject the order, and one without quantity is not filled.
BacktestSignal(direction) ==
    LET side == IF direction # 0 THEN direction ELSE IF position > 0 THEN -1 ELSE 1
        quantity == OrderQuantity(direction) IN
    /\ barPrice # 0 /\ ~ruined /\ orderCount < MaxOrders
    /\ IF direction = 0 THEN position # 0 ELSE direction * position <= 0
    /\ quantity > 0
    /\ orderCount' = orderCount + 1
    /\ ProcessFill(side, quantity)
    /\ UNCHANGED <<barPrice, barCount, equity>>

BacktestNext ==
    \/ \E p \in BarPrices : BacktestBar(p)
    \/ \E direction \in {-1, 0, 1} : BacktestSignal(direction)

BacktestSpec == BacktestInit /\ [][BacktestNext]_backtestVars
-----------------------------------------------------------------------------
\* Amounts are integers; what has no position has no average price.
BacktestTypeOK ==
    /\ barPrice \in BarPrices \cup {0} /\ ruined \in BOOLEAN
    /\ {barCount, orderCount, position, averagePrice, capital, equity, cash} \subseteq Int
    /\ position = 0 => averagePrice = 0

\* The capital of the account, kept by realized profits, is what the fills
\* brought and cost plus the position at its average price: across openings,
\* closings, reversals and the partial closings of a ruined account no profit is
\* counted twice or lost.
CapitalExplained == capital = cash + position * averagePrice
=============================================================================

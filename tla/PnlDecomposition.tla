-------------------------- MODULE PnlDecomposition --------------------------
(***************************************************************************)
(* Was it the signal or the toll?  diagnose_pnl_decomposition runs the     *)
(* Backtester with MLStrategy, whose thresholds come from the cost model,  *)
(* and splits the result, from trades_history alone, into what the market  *)
(* gave and what the commissions took; then it says whether there is an    *)
(* edge.                                                                   *)
(*                                                                         *)
(* The strategy keeps no state: a position is held while the prediction    *)
(* points its way, whatever the horizon it was made for.                   *)
(***************************************************************************)
EXTENDS Backtester, Sequences, FiniteSets, SequencesExt

CONSTANTS Predictions,   \* expected returns, in basis points
          SafetyMargin

ASSUME DecompositionAssumption ==
    Predictions \subseteq Int /\ SafetyMargin \in Nat \ {0}

\* The code's amounts are not integers: the unit is so small that what is charged on
\* any fill is a whole number of them.
ASSUME CommissionsAreWhole ==
    \A p \in BarPrices, side \in {-1, 1} :
        (((p * (10000 + side * SlippageBps)) \div 10000) * CommissionBps) % 10000 = 0

VARIABLES decided,   \* the strategy has answered for this bar
          executions,    \* trades_history
          tolls      \* history: the commissions charged

pnlVars == <<backtestVars, decided, executions, tolls>>

\* MLStrategy.from_cost_model: the cost of a round trip, and never zero.
EntryThreshold == 2 * (CommissionBps + SlippageBps) * SafetyMargin

PnlInit ==
    /\ BacktestInit /\ EntryThreshold > 0
    /\ decided = TRUE /\ executions = <<>> /\ tolls = 0
-----------------------------------------------------------------------------
\* generate_signals: the exposure wanted; within the thresholds, none.
WantedExposure(prediction) ==
    IF prediction >= EntryThreshold THEN 1 ELSE IF prediction <= -EntryThreshold THEN -1 ELSE 0

PnlBar(p) == BacktestBar(p) /\ decided' = FALSE /\ UNCHANGED <<executions, tolls>>

\* Slip: what the fill cost is left out of its line.
TradeLineGross(side, quantity) ==
    [turnover |-> quantity * FillPrice(side), pnl |-> RealizedPnl(side, quantity)]

\* The line _process_fill adds to trades_history.
TradeLine(side, quantity) ==
    [turnover |-> quantity * FillPrice(side),
     pnl |-> RealizedPnl(side, quantity) - Commission(side, quantity)]

\* At most one signal per bar; when the inference fails there is none, and the
\* position is kept.
Decide(prediction) ==
    LET direction == WantedExposure(prediction)
        side == IF direction # 0 THEN direction ELSE IF position > 0 THEN -1 ELSE 1
        quantity == OrderQuantity(direction) IN
    /\ ~decided /\ decided' = TRUE
    /\ BacktestSignal(direction)
    /\ executions' = Append(executions, TradeLine(side, quantity))
    /\ tolls' = tolls + Commission(side, quantity)

PnlNext == (\E p \in BarPrices : PnlBar(p)) \/ (\E r \in Predictions : Decide(r))

PnlSpec == PnlInit /\ [][PnlNext]_pnlVars
-----------------------------------------------------------------------------
\* decompose_pnl: net, turnover, and gross, the net with its toll given back.
SumOver(f(_)) ==
    FoldLeft(LAMBDA sum, amount : sum + amount, 0,
             [i \in DOMAIN executions |-> f(executions[i])])
NetPnl == LET Pnl(trade) == trade.pnl IN SumOver(Pnl)
TotalTurnover == LET Turnover(trade) == trade.turnover IN SumOver(Turnover)
GrossOf(trade) == trade.pnl + (trade.turnover * CommissionBps) \div 10000
GrossPnl == NetPnl + (TotalTurnover * CommissionBps) \div 10000

\* gross_t_stat above 2, squared and without its divisions: S^2 (n - 1) > 4 (n Q - S^2),
\* with S the sum and Q the sum of squares.  Without dispersion there is no t.
Distinguishable ==
    LET n == Len(executions)
        Square(trade) == GrossOf(trade) * GrossOf(trade)
        spread == n * SumOver(Square) - GrossPnl * GrossPnl IN
    n >= 2 /\ spread > 0 /\ GrossPnl * GrossPnl * (n - 1) > 4 * spread

\* The verdict of main.
EdgeVerdict ==
    IF GrossPnl <= 0 THEN "no edge" ELSE IF Distinguishable THEN "edge" ELSE "not shown"

PnlTypeOK ==
    /\ BacktestTypeOK /\ decided \in BOOLEAN /\ tolls \in Int
    /\ executions \in Seq([turnover : Int, pnl : Int])

\* The lines of the history explain the account without a look at it: their net is
\* what the capital gained (reconcile), and turnover times the rate is what was
\* charged ("une identité, pas une estimation"), through reversals, partial
\* closings and ruin.  And the verdict is no accident of a few trades: an edge
\* needs three executions that gained before their toll.
DecompositionIsTheAccount ==
    /\ capital = StartingCapital + NetPnl
    /\ TotalTurnover * CommissionBps = 10000 * tolls
    /\ EdgeVerdict = "edge" =>
          Cardinality({i \in DOMAIN executions : GrossOf(executions[i]) > 0}) >= 3
=============================================================================

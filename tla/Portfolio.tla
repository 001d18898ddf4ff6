------------------------------ MODULE Portfolio ------------------------------
(***************************************************************************)
(* The risk engine's portfolio, src/src/aegis_trade/engine/portfolio.py:   *)
(* cash, one signed position per symbol with its average entry price, the  *)
(* realized PnL of closed trades, mark-to-market equity and its peak.      *)
(*                                                                         *)
(* Prices, averages and money are integers: the unit is the last digit a   *)
(* Decimal keeps, and the one division of the module (the weighted average *)
(* entry price) rounds to it, half to even, as Python's default context    *)
(* does with its 28th digit.  A symbol absent from `_positions` has volume *)
(* 0 and average 0; the curve `_equity_curve` is kept as its maximum       *)
(* `peak`, which is all that its readers take from it; the list            *)
(* `_closed_trades_pnl` is kept as its sum per symbol.                     *)
(***************************************************************************)
EXTENDS Money, FiniteSetsExt

CONSTANTS Symbols,         \* instruments
          InitialCapital,  \* Portfolio(initial_capital)
          NoPrice,         \* the instrument has never been observed
          Prices,          \* bar closes and fill prices of the environment
          Volumes,         \* absolute volumes of the environment's fills
          Fees,            \* commissions of the environment's fills
          MaxHeld,         \* bound: |position| after a fill
          MaxFills         \* bound: number of fills

ASSUME PortfolioAssumption ==
    /\ IsFiniteSet(Symbols)
    /\ InitialCapital \in Nat
    /\ NoPrice \notin Nat
    /\ Prices \subseteq Nat \ {0}
    /\ Volumes \subseteq Nat \ {0}
    /\ Fees \subseteq Nat
    /\ MaxHeld \in Nat
    /\ MaxFills \in Nat

VARIABLES cash, equity, peak,
          vol, avg, realized, lastPrice,
          \* history variables, read by the properties only
          flow,            \* signed cash the fills of a symbol brought in
          fees,            \* commissions paid so far
          slack,           \* units averaged so far, half a quantum of rounding each
          fills            \* fills so far

bookVars == <<cash, equity, peak, vol, avg, realized, lastPrice>>
historyVars == <<flow, fees, slack, fills>>
portfolioVars == <<bookVars, historyVars>>
-----------------------------------------------------------------------------
Open == {s \in Symbols : vol[s] # 0}
Priced == {s \in Symbols : lastPrice[s] # NoPrice}

\* compute_realized_pnl: the quantity is absolute, the side carries the sign.
RealizedPnl(entry, exit, closed, isLong) ==
    (IF isLong THEN exit - entry ELSE entry - exit) * closed

\* compute_equity over the positions that have an observed price.
MarkToMarket(c, v, last) ==
    c + MapThenSumSet(LAMBDA s : v[s] * last[s],
                      {s \in Symbols : v[s] # 0 /\ last[s] # NoPrice})

\* The loop of _update_equity: the unrealized PnL shown for one position.
Unrealized(s) ==
    IF s \notin Priced THEN 0
    ELSE IF vol[s] > 0 THEN (lastPrice[s] - avg[s]) * vol[s]
                       ELSE (avg[s] - lastPrice[s]) * Abs(vol[s])

\* build_snapshot: what the dashboard is shown.  An open position that has not been
\* observed is left out of the exposures.
Snapshot ==
    LET seen == Open \cap Priced
        Notional(s) == vol[s] * lastPrice[s] IN
    [balance |-> cash, equity |-> equity, positions |-> Cardinality(Open),
     gross |-> MapThenSumSet(LAMBDA s : Abs(Notional(s)), seen),
     net |-> MapThenSumSet(Notional, seen),
     floating |-> MapThenSumSet(Unrealized, seen)]
-----------------------------------------------------------------------------
\* The five outcomes of a fill of q signed units at price p on a book entry
\* [v, a, r, out]: volume, average, realized PnL added, cash taken out.
Opened(q, p) == [v |-> q, a |-> p, r |-> 0, out |-> q * p]

\* Slip: the average of an increased position keeps the old entry price.
IncreasedStaleAverage(v, a, q, p) == [v |-> v + q, a |-> a, r |-> 0, out |-> q * p]

Increased(v, a, q, p) ==
    [v |-> v + q,
     a |-> RoundDiv(Abs(v) * a + Abs(q) * p, Abs(v + q)),
     r |-> 0,
     out |-> q * p]

Reduced(v, a, q, p) ==
    [v |-> v + q,
     a |-> IF v + q = 0 THEN 0 ELSE a,
     r |-> RealizedPnl(a, p, Abs(q), v > 0),
     out |-> q * p]

\* Slip: a reversal pays for the new leg and forgets the cash of the closed one.
ReversedUnsettled(v, a, q, p) ==
    [v |-> q + v, a |-> p, r |-> RealizedPnl(a, p, Abs(v), v > 0), out |-> (q + v) * p]

Reversed(v, a, q, p) ==
    [v |-> q + v,
     a |-> p,
     r |-> RealizedPnl(a, p, Abs(v), v > 0),
     out |-> (-v) * p + (q + v) * p]

Increasing(v, q) == (v > 0 /\ q > 0) \/ (v < 0 /\ q < 0)

FillOutcome(v, a, q, p) ==
    IF v = 0 THEN Opened(q, p)
    ELSE IF Increasing(v, q) THEN Increased(v, a, q, p)
    ELSE IF Abs(q) <= Abs(v) THEN Reduced(v, a, q, p)
    ELSE Reversed(v, a, q, p)

\* Slip: the mark-to-market reads the prices known before the event.
UpdateEquityStale ==
    /\ equity' = MarkToMarket(cash', vol', lastPrice)
    /\ peak' = Max({peak, equity'})

\* _update_equity: mark to market, then append to the curve.
UpdateEquity ==
    /\ equity' = MarkToMarket(cash', vol', lastPrice')
    /\ peak' = Max({peak, equity'})

\* on_fill_event
OnFill(s, q, p, c) ==
    /\ LET o == FillOutcome(vol[s], avg[s], q, p)
       IN  /\ cash' = cash - c - o.out
           /\ vol' = [vol EXCEPT ![s] = o.v]
           /\ avg' = [avg EXCEPT ![s] = o.a]
           /\ realized' = [realized EXCEPT ![s] = @ + o.r]
           /\ slack' = [slack EXCEPT ![s] =
                           @ + IF Increasing(vol[s], q) THEN Abs(o.v) ELSE 0]
    /\ UNCHANGED lastPrice
    /\ UpdateEquity
    /\ flow' = [flow EXCEPT ![s] = @ - q * p]
    /\ fees' = fees + c
    /\ fills' = fills + 1

\* on_market_event
OnMarket(s, p) ==
    /\ lastPrice' = [lastPrice EXCEPT ![s] = p]
    /\ UNCHANGED <<cash, vol, avg, realized, historyVars>>
    /\ UpdateEquity

PortfolioInit ==
    /\ cash = InitialCapital /\ equity = InitialCapital /\ peak = InitialCapital
    /\ vol = [s \in Symbols |-> 0]
    /\ avg = [s \in Symbols |-> 0]
    /\ realized = [s \in Symbols |-> 0]
    /\ lastPrice = [s \in Symbols |-> NoPrice]
    /\ flow = [s \in Symbols |-> 0]
    /\ slack = [s \in Symbols |-> 0]
    /\ fees = 0
    /\ fills = 0

SignedVolumes == Volumes \cup {-v : v \in Volumes}

Fill(s, q, p, c) ==
    /\ fills < MaxFills
    /\ Abs(vol[s] + q) <= MaxHeld
    /\ OnFill(s, q, p, c)

PortfolioNext ==
    \/ \E s \in Symbols, q \in SignedVolumes, p \in Prices, c \in Fees : Fill(s, q, p, c)
    \/ \E s \in Symbols, p \in Prices : OnMarket(s, p)

PortfolioSpec == PortfolioInit /\ [][PortfolioNext]_portfolioVars
-----------------------------------------------------------------------------
BookTypeOK ==
    /\ cash \in Int /\ fees \in Nat /\ fills \in Nat
    /\ vol \in [Symbols -> Int]
    /\ avg \in [Symbols -> Nat]
    /\ realized \in [Symbols -> Int]
    /\ lastPrice \in [Symbols -> Prices \cup {NoPrice}]
    /\ flow \in [Symbols -> Int]
    /\ slack \in [Symbols -> Nat]

PortfolioTypeOK ==
    /\ BookTypeOK
    /\ equity \in Int
    /\ peak \in Int

\* What averaging has lost of a symbol's PnL: the cash its fills moved, plus
\* its position at entry price, minus the PnL booked for its closed trades.
Residue(s) == flow[s] + vol[s] * avg[s] - realized[s]

\* Realized PnL is not invented by the path taken: however a position was
\* opened, increased, partially closed and reversed, the PnL booked in
\* _closed_trades_pnl and the entry cost still on the book explain the cash
\* the fills moved, up to half a quantum per unit held at each averaging.
RealizedPnlExplainsCash ==
    \A s \in Symbols : 2 * Abs(Residue(s)) <= slack[s]

\* The equity the kill switch reads is the one the dashboard can explain, at any
\* moment a snapshot is taken: it is the balance plus the net exposure shown, even
\* with a position that has not been observed; and when all have, it is the initial
\* capital minus commissions plus the realized and the floating PnL, up to the
\* averaging residue.
EquityIsExplained ==
    /\ Snapshot.equity = Snapshot.balance + Snapshot.net
    /\ Open \subseteq Priced =>
        2 * Abs(Snapshot.equity - (InitialCapital - fees + Snapshot.floating
                                   + MapThenSumSet(LAMBDA s : realized[s], Symbols)))
            <= MapThenSumSet(LAMBDA s : slack[s], Symbols)

\* The five branches of on_fill_event are one ledger entry each: a reversal is
\* a close and an opening that together move exactly the fill's notional.
Ledger == INSTANCE FillLedger WITH
    Instruments <- Symbols, Opening <- InitialCapital, Quantities <- SignedVolumes,
    FillPrices <- Prices, Commissions <- Fees, balance <- cash, holding <- vol
ImplementsFillLedger == Ledger!Spec
=============================================================================

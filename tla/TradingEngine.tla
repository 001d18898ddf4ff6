---------------------------- MODULE TradingEngine ----------------------------
(***************************************************************************)
(* The event-driven engine: TradingEngine.run (engine/core.py) with its    *)
(* SimulatedBroker (engine/broker.py), its risk engine, BasicRiskEngine    *)
(* (engine/risk.py) or AiDecisionEngine (engine/ai_decision_engine.py),    *)
(* and a Portfolio or a PortfolioEngine (engine/portfolio.py), which asks  *)
(* the GlobalRiskManager about every order.                                *)
(*                                                                         *)
(* run() is one synchronous loop.  A step here is one bar taken from the   *)
(* feed, one event taken from the queue, or one position liquidated at the *)
(* end.  The strategy is the choice of at most one signal per bar, the     *)
(* council the choice of a size multiplier, 0 when it says WAIT.           *)
(***************************************************************************)
EXTENDS RiskGate, Sequences

CONSTANTS RiskPct,      \* percentage of the equity one entry is sized to
          Multipliers,  \* percentages the council may scale a size by
          UnitSlip,     \* SimulatedBroker._slippage_per_unit
          UnitFee,      \* SimulatedBroker._commission_per_unit
          MaxBars       \* bound: bars of the feed

ASSUME EngineAssumption ==
    /\ RiskPct \in Nat /\ UnitSlip \in Nat /\ UnitFee \in Nat /\ MaxBars \in Nat
    /\ Multipliers \subseteq Nat

VARIABLES phase,      \* "running", "closing" (the final liquidation), "over",
                      \* or "failed": an exception has left run()
          queue,      \* _queue
          pending,    \* _pending_orders
          latest,     \* _latest_market_event, <<>> before the first bar
          bars,       \* bars queued so far
          toClose,    \* positions the final liquidation has still to close
          riskEngine, \* "basic" or "council"
          governed    \* the portfolio is a PortfolioEngine

engineVars == <<portfolioVars, halted, phase, queue, pending, latest, bars, toClose,
                riskEngine, governed>>
setup == <<halted, riskEngine, governed>>

Intents == {"enter_long", "enter_short", "exit_long", "exit_short"}
\* `bar` of an order and of its fill is the bar the order was decided on.
MarketEvents == [kind : {"market"}, sym : Symbols, open : Prices, close : Prices]
SignalEvents == [kind : {"signal"}, sym : Symbols, intent : Intents]
OrderEvents == [kind : {"order"}, sym : Symbols, qty : Int, bar : Nat]
FillEvents == [kind : {"fill"}, sym : Symbols, qty : Int, px : Int, bar : Nat]
AuditEvents == [kind : {"audit"}]
Events == MarketEvents \cup SignalEvents \cup OrderEvents \cup FillEvents \cup AuditEvents

EngineInit ==
    /\ PortfolioInit
    /\ halted = FALSE
    /\ phase = "running"
    /\ queue = <<>> /\ pending = <<>> /\ latest = <<>>
    /\ bars = 0
    /\ toClose = {}
    /\ riskEngine \in {"basic", "council"}
    /\ governed \in BOOLEAN
-----------------------------------------------------------------------------
\* SimulatedBroker.on_order_event: at the open of the bar, whose instrument it
\* does not compare with the order's, against the order by the slippage.
Execute(o, open) ==
    [kind |-> "fill", sym |-> o.sym, qty |-> o.qty,
     px |-> IF o.qty > 0 THEN open + UnitSlip ELSE open - UnitSlip,
     bar |-> o.bar]

\* FillEvent refuses to be built at a price that is not positive.
Fillable(orders, open) == \A i \in DOMAIN orders : Execute(orders[i], open).px > 0

\* Slip: the orders executed stay pending.
NextBarKeepsPending(s, open, close) ==
    /\ phase = "running" /\ queue = <<>> /\ bars < MaxBars
    /\ IF Fillable(pending, open)
       THEN /\ bars' = bars + 1
            /\ queue' = Append([i \in DOMAIN pending |-> Execute(pending[i], open)],
                               [kind |-> "market", sym |-> s, open |-> open, close |-> close])
            /\ UNCHANGED <<pending, phase>>
       ELSE phase' = "failed" /\ UNCHANGED <<queue, pending, bars>>
    /\ UNCHANGED <<portfolioVars, setup, latest, toClose>>

\* The next bar of the feed: the orders of the bar before are executed at its
\* open, their fills and then the bar are queued.
NextBar(s, open, close) ==
    /\ phase = "running" /\ queue = <<>> /\ bars < MaxBars
    /\ IF Fillable(pending, open)
       THEN /\ bars' = bars + 1
            /\ queue' = Append([i \in DOMAIN pending |-> Execute(pending[i], open)],
                               [kind |-> "market", sym |-> s, open |-> open, close |-> close])
            /\ pending' = <<>>
            /\ UNCHANGED phase
       ELSE phase' = "failed" /\ UNCHANGED <<queue, pending, bars>>
    /\ UNCHANGED <<portfolioVars, setup, latest, toClose>>

Popped(kind) == phase = "running" /\ queue # <<>> /\ Head(queue).kind = kind

\* A bar: portfolio, strategy, risk engine's own history; a signal is queued.
HandleMarket(signals) ==
    /\ Popped("market")
    /\ latest' = Head(queue)
    /\ OnMarket(Head(queue).sym, Head(queue).close)
    /\ queue' = Tail(queue) \o signals
    /\ UNCHANGED <<setup, phase, pending, bars, toClose>>

\* equity * risk_pct * multiplier / price, rounded to the smallest volume.
TargetVolume(s, m) == RoundDiv(equity * RiskPct * m, 10000 * lastPrice[s])

Leg(s, q) == [kind |-> "order", sym |-> s, qty |-> q, bar |-> bars]

\* From flat, one order; from the other side, a close and an opening.
Entry(s, side, target) ==
    IF vol[s] = 0 THEN <<Leg(s, side * target)>>
    ELSE IF side * vol[s] < 0 THEN <<Leg(s, -vol[s]), Leg(s, side * target)>>
    ELSE <<>>

Exit(s, side) == IF side * vol[s] > 0 THEN <<Leg(s, -vol[s])>> ELSE <<>>

\* on_signal_event: without a price or a size there is no order; only the council's
\* engine lets an exit pass before it looks at either.
OrdersFor(sig, m) ==
    LET sized == lastPrice[sig.sym] # NoPrice /\ TargetVolume(sig.sym, m) > 0
        side == IF sig.intent \in {"enter_long", "exit_long"} THEN 1 ELSE -1
    IN  IF sig.intent \in {"exit_long", "exit_short"}
        THEN IF sized \/ riskEngine = "council" THEN Exit(sig.sym, side) ELSE <<>>
        ELSE IF sized THEN Entry(sig.sym, side, TargetVolume(sig.sym, m)) ELSE <<>>

HandleSignal(m) ==
    /\ Popped("signal")
    /\ riskEngine = "basic" => m = 100
    /\ queue' = Tail(queue) \o OrdersFor(Head(queue), m)
    /\ UNCHANGED <<portfolioVars, setup, phase, pending, latest, bars, toClose>>

Approved(o) == ~governed \/ ValidateOrder(o.sym, o.qty, lastPrice, equity, peak)

\* Slip: the order itself is queued for the audit, not an AuditEvent.
HandleOrderRequeued ==
    /\ Popped("order")
    /\ IF Approved(Head(queue))
       THEN pending' = Append(pending, Head(queue)) /\ queue' = Tail(queue)
       ELSE queue' = Append(Tail(queue), Head(queue)) /\ UNCHANGED pending
    /\ UNCHANGED <<portfolioVars, setup, phase, latest, bars, toClose>>

\* process_order; a plain Portfolio has none and every order is kept.
HandleOrder ==
    /\ Popped("order")
    /\ IF Approved(Head(queue))
       THEN pending' = Append(pending, Head(queue)) /\ queue' = Tail(queue)
       ELSE queue' = Append(Tail(queue), [kind |-> "audit"]) /\ UNCHANGED pending
    /\ UNCHANGED <<portfolioVars, setup, phase, latest, bars, toClose>>

HandleFill ==
    /\ Popped("fill")
    /\ LET f == Head(queue) IN OnFill(f.sym, f.qty, f.px, UnitFee * Abs(f.qty))
    /\ queue' = Tail(queue)
    /\ UNCHANGED <<setup, phase, pending, latest, bars, toClose>>

HandleAudit ==
    /\ Popped("audit")
    /\ queue' = Tail(queue)
    /\ UNCHANGED <<portfolioVars, setup, phase, pending, latest, bars, toClose>>

\* Slip: only long positions are liquidated.
FeedOverLongOnly ==
    /\ phase = "running" /\ queue = <<>>
    /\ toClose' = IF latest = <<>> THEN {} ELSE {s \in Open : vol[s] > 0}
    /\ phase' = IF toClose' = {} THEN "over" ELSE "closing"
    /\ UNCHANGED <<portfolioVars, setup, queue, pending, latest, bars>>

\* The feed has no more bars; orders still pending are forgotten.
FeedOver ==
    /\ phase = "running" /\ queue = <<>>
    /\ toClose' = IF latest = <<>> THEN {} ELSE Open
    /\ phase' = IF toClose' = {} THEN "over" ELSE "closing"
    /\ UNCHANGED <<portfolioVars, setup, queue, pending, latest, bars>>

\* One position of the snapshot: executed at the open of the last bar, applied
\* to the portfolio without the queue, the risk engine or the gate.
CloseOne(s) ==
    /\ phase = "closing" /\ s \in toClose
    /\ LET f == Execute(Leg(s, -vol[s]), latest.open)
       IN  IF f.px > 0
           THEN /\ OnFill(s, f.qty, f.px, UnitFee * Abs(f.qty))
                /\ toClose' = toClose \ {s}
                /\ phase' = IF toClose' = {} THEN "over" ELSE "closing"
           ELSE phase' = "failed" /\ UNCHANGED <<portfolioVars, toClose>>
    /\ UNCHANGED <<setup, queue, pending, latest, bars>>

Signals(s) == {<<>>} \cup {<<[kind |-> "signal", sym |-> s, intent |-> i]>> : i \in Intents}

EngineNext ==
    \/ \E s \in Symbols, open, close \in Prices : NextBar(s, open, close)
    \/ Popped("market") /\ \E signals \in Signals(Head(queue).sym) : HandleMarket(signals)
    \/ \E m \in Multipliers \cup {0, 100} : HandleSignal(m)
    \/ HandleOrder
    \/ HandleFill
    \/ HandleAudit
    \/ FeedOver
    \/ \E s \in Symbols : CloseOne(s)

EngineSpec == EngineInit /\ [][EngineNext]_engineVars

\* run() is one thread that does nothing but this, over a dataset that ends.
FairEngine == EngineSpec /\ WF_engineVars(EngineNext)
-----------------------------------------------------------------------------
QueueTypeOK ==
    /\ phase \in {"running", "closing", "over", "failed"}
    /\ queue \in Seq(Events)
    /\ pending \in Seq(OrderEvents)
    /\ bars \in Nat

EngineTypeOK ==
    /\ PortfolioTypeOK
    /\ QueueTypeOK
    /\ latest \in {<<>>} \cup MarketEvents
    /\ toClose \subseteq Symbols
    /\ riskEngine \in {"basic", "council"} /\ governed \in BOOLEAN /\ halted \in BOOLEAN

\* An order is executed on the bar after the one it was decided on, never on its
\* own (look-ahead), never later, never twice: what is pending was decided on the
\* current bar, and the fills in the queue stem from the bar before it.
FilledNextBar ==
    /\ \A i \in DOMAIN pending : pending[i].bar = bars
    /\ \A i \in DOMAIN queue : queue[i].kind = "fill" => queue[i].bar = bars - 1

\* test_engine: "The engine must have closed all positions at the end"; what the
\* report calls the final equity is then cash.
EndsFlat == phase = "over" => Open = {} /\ equity = cash

\* The queue of every bar drains, refused orders included, and run() returns or
\* raises.
RunEnds == <>(phase \in {"over", "failed"})
=============================================================================

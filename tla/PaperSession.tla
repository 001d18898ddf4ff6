---------------------------- MODULE PaperSession ----------------------------
(***************************************************************************)
(* A paper-trading session: the PaperTradingOrchestrator                   *)
(* (application/paper_trading/orchestrator.py) with its risk gate and its  *)
(* risk portfolio, the PaperBroker, and the API's handlers: start and stop *)
(* of the strategy, manual close of a position, kill switch.               *)
(*                                                                         *)
(* Every task of the event loop that can be inside submit_order is a       *)
(* member of Tasks: the feed loops start() creates, one per call of        *)
(* start(), the close requests, and the kill switches.  The council is the *)
(* choice of a signed volume, or of no order; the instruments are those    *)
(* the close handler can name (asset class "forex").                       *)
(***************************************************************************)
EXTENDS RiskGate, PaperBroker

CONSTANTS Feeds, Closers, Halts,
          MaxClientOrders      \* bound: orders of feeds and closers

ASSUME SessionAssumption ==
    /\ BrokerSymbols = Symbols
    /\ Tasks = Feeds \cup Closers \cup Halts
    /\ Feeds \cap Closers = {} /\ Halts \cap (Feeds \cup Closers) = {}
    /\ MaxClientOrders \in Nat

VARIABLES isRunning,
          feedTask,   \* _market_feed_task, NoTask before the first start
          mode,       \* of a feed loop or a kill switch: "absent", "live" or "over"
          todo,       \* close_all_positions: the signed volumes left to close
          atHalt,     \* history: orders created when the kill switch was engaged
          approval,   \* history: the price and equity the gate approved an order at
          lastTold,   \* history: the order of the last fill told to the portfolio
          overlapped  \* history: orders that shared their flight with another
                      \* client order of the same symbol

controlVars == <<isRunning, feedTask, mode>>
historyOfSession == <<atHalt, approval, lastTold, overlapped>>
sessionVars == <<portfolioVars, halted, brokerVars, controlVars, todo, historyOfSession>>

Clients == Feeds \cup Closers
OrdersOf(T) == {i \in Made : order[i].by \in T}
InFlight == {cur[t] : t \in {u \in Tasks : InCall(u)}}
Waiting(f) == mode[f] = "live" /\ ~InCall(f)

SessionInit ==
    /\ PortfolioInit
    /\ halted = FALSE
    /\ BrokerInit
    /\ isRunning = FALSE
    /\ feedTask = NoTask
    /\ mode = [t \in Feeds \cup Halts |-> "absent"]
    /\ todo = [h \in Halts |-> [s \in Symbols |-> 0]]
    /\ atHalt = MaxOrders
    /\ approval = [i \in OrderIds |-> [px |-> 0, eq |-> 0]]
    /\ lastTold = [s \in Symbols |-> 0]
    /\ overlapped = {}
-----------------------------------------------------------------------------
\* start: no test for a loop that is already running.
Start(f) ==
    /\ mode[f] = "absent"
    /\ isRunning' = TRUE
    /\ feedTask' = f
    /\ mode' = [mode EXCEPT ![f] = "live"]
    /\ UNCHANGED <<portfolioVars, halted, brokerVars, todo, historyOfSession>>

\* stop: only the last task created is cancelled, and CancelledError surfaces
\* at whichever await of the broker it stands.
Stop ==
    /\ feedTask # NoTask
    /\ isRunning \/ mode[feedTask] # "over"
    /\ isRunning' = FALSE
    /\ mode' = [mode EXCEPT ![feedTask] = "over"]
    /\ cur' = [cur EXCEPT ![feedTask] = 0]
    /\ UNCHANGED <<portfolioVars, halted, accountVars, market, order, created, feedTask,
                   todo, historyOfSession>>

\* Orders of the symbol already in flight when client task t submits another.
Overlap(s) == {i \in InFlight \cap OrdersOf(Clients) : order[i].sym = s}

\* PaperTradingOrchestrator.submit_order up to its first await, for an order the
\* gate lets through; table is the caller's latest_prices.
ClientSubmit(t, s, q, table) ==
    LET prices == ResolvePrices(s, table)
    IN  /\ Cardinality(OrdersOf(Clients)) < MaxClientOrders
        /\ ValidateOrder(s, q, prices, equity', peak')
        /\ SubmitOn(order, t, s, q)
        /\ approval' = [approval EXCEPT ![created + 1] = [px |-> prices[s], eq |-> equity']]
        /\ overlapped' = IF Overlap(s) = {} THEN overlapped
                         ELSE overlapped \cup Overlap(s) \cup {created + 1}

Quoted(s, p) == [x \in Symbols |-> IF x = s THEN p ELSE NoPrice]

\* What _process_bar does before it decides: the portfolio, then the broker,
\* learn the price.
Observe(s, p) == OnMarket(s, p) /\ market' = p

\* A bar on which the council does not act, or whose order the gate refuses:
\* OrderRejectedByRisk is caught by the loop.
QuietBar(f, s, p) ==
    /\ Waiting(f) /\ isRunning
    /\ Observe(s, p)
    /\ UNCHANGED <<halted, accountVars, callVars, controlVars, todo, historyOfSession>>

\* A bar on which the council orders q and the gate approves.
OrderBar(f, s, p, q) ==
    /\ Waiting(f) /\ isRunning
    /\ Observe(s, p)
    /\ ClientSubmit(f, s, q, Quoted(s, p))
    /\ UNCHANGED <<halted, accountVars, controlVars, todo, atHalt, lastTold>>

\* Any other exception of _process_bar, once the price is observed: the loop
\* clears is_running and dies.
BarFails(f, s, p) ==
    /\ Waiting(f) /\ isRunning
    /\ Observe(s, p)
    /\ isRunning' = FALSE
    /\ mode' = [mode EXCEPT ![f] = "over"]
    /\ UNCHANGED <<halted, accountVars, callVars, feedTask, todo, historyOfSession>>

\* The feed has no more bars or raises, outside the loop's try; or a bar arrives
\* after stop(), at a loop stop() did not cancel.
FeedEnds(f) ==
    /\ Waiting(f)
    /\ mode' = [mode EXCEPT ![f] = "over"]
    /\ UNCHANGED <<portfolioVars, halted, brokerVars, isRunning, feedTask, todo, historyOfSession>>

\* POST /positions/{symbol}/close.  The monitoring engine's entry for a symbol is
\* what the last PositionEvent said, volume and average price; a short position
\* has a negative quantity, of which OrderEvent refuses to be built.
CloseRequest(c, s) ==
    /\ ~InCall(c)
    /\ held[s] > 0
    /\ UNCHANGED <<portfolioVars, market>>
    /\ ClientSubmit(c, s, -held[s], Quoted(s, entry[s]))
    /\ UNCHANGED <<halted, accountVars, controlVars, todo, atHalt, lastTold>>

-----------------------------------------------------------------------------
\* close_all_positions from one of its submissions to the next, with the signed
\* volumes left to close and the order book at that point: the broker is called
\* directly, not through the gate.
Liquidate(h, left, orders) ==
    \/ /\ \A s \in Symbols : left[s] = 0
       /\ mode' = [mode EXCEPT ![h] = "over"]
       /\ todo' = [todo EXCEPT ![h] = left]
       /\ order' = orders
       /\ cur' = [cur EXCEPT ![h] = 0]
       /\ UNCHANGED created
    \/ \E s \in Symbols :
          /\ left[s] # 0
          /\ mode' = [mode EXCEPT ![h] = "live"]
          /\ todo' = [todo EXCEPT ![h] = [left EXCEPT ![s] = 0]]
          /\ SubmitOn(orders, h, s, -left[s])

\* Slip: the halt flag is raised by the last return instead of up front.
HaltStartLate(h) ==
    /\ mode[h] = "absent"
    /\ Liquidate(h, held, order)
    /\ halted' = (mode'[h] = "over")
    /\ atHalt' = IF halted THEN atHalt ELSE created
    /\ UNCHANGED <<portfolioVars, accountVars, market, isRunning, feedTask,
                   approval, lastTold, overlapped>>

\* POST /kill-switch: emergency_halt raises the flag; cancel_all_orders cancels
\* nothing; close_all_positions works from a snapshot of the positions.
HaltStart(h) ==
    /\ mode[h] = "absent"
    /\ halted' = TRUE
    /\ Liquidate(h, held, order)
    /\ atHalt' = IF halted THEN atHalt ELSE created
    /\ UNCHANGED <<portfolioVars, accountVars, market, isRunning, feedTask,
                   approval, lastTold, overlapped>>

\* The report of a closing order is counted, and not applied to the portfolio.
HaltReturn(h) ==
    /\ Returning(h)
    /\ Liquidate(h, todo[h], Returned(h))
    /\ UNCHANGED <<portfolioVars, halted, accountVars, market, isRunning, feedTask,
                   historyOfSession>>

-----------------------------------------------------------------------------
\* The end of the orchestrator's submit_order, on the report of a client's order.
ClientReturn(t) ==
    /\ order' = Returned(t)
    /\ cur' = [cur EXCEPT ![t] = 0]
    /\ UNCHANGED <<halted, accountVars, market, created, todo, atHalt, approval, overlapped>>

\* Slip: the portfolio is told the price the order was approved at.
ClientToldQuoted(t) ==
    LET o == order[cur[t]]
    IN  /\ At(t, "filled") /\ o.px > 0
        /\ OnFill(o.sym, o.qty, approval[cur[t]].px, FlatFee)
        /\ lastTold' = [lastTold EXCEPT ![o.sym] = cur[t]]
        /\ ClientReturn(t)
        /\ UNCHANGED controlVars

\* The fill is applied to the risk portfolio.
ClientTold(t) ==
    LET o == order[cur[t]]
    IN  /\ At(t, "filled") /\ o.px > 0
        /\ OnFill(o.sym, o.qty, o.px, FlatFee)
        /\ lastTold' = [lastTold EXCEPT ![o.sym] = cur[t]]
        /\ ClientReturn(t)
        /\ UNCHANGED controlVars

\* The broker refused: no fill in the report.
ClientRefused(t) ==
    /\ At(t, "rejected")
    /\ ClientReturn(t)
    /\ UNCHANGED <<portfolioVars, controlVars, lastTold>>

\* Slippage took the price to zero or below: FillEvent refuses to be built, after
\* the broker has executed; a feed loop dies of it.
ClientUnbookable(t) ==
    /\ At(t, "filled") /\ order[cur[t]].px <= 0
    /\ ClientReturn(t)
    /\ IF t \in Feeds
       THEN isRunning' = FALSE /\ mode' = [mode EXCEPT ![t] = "over"] /\ UNCHANGED feedTask
       ELSE UNCHANGED controlVars
    /\ UNCHANGED <<portfolioVars, lastTold>>

InsideBroker(t) ==
    /\ BrokerStep(t)
    /\ UNCHANGED <<portfolioVars, halted, controlVars, todo, historyOfSession>>

TaskStep(t) ==
    \/ InsideBroker(t)
    \/ t \in Clients /\ (ClientTold(t) \/ ClientRefused(t) \/ ClientUnbookable(t))
    \/ t \in Halts /\ HaltReturn(t)

FeedStep(f) ==
    \/ Start(f)
    \/ FeedEnds(f)
    \/ \E s \in Symbols, p \in Prices :
          \/ QuietBar(f, s, p)
          \/ BarFails(f, s, p)
          \/ \E q \in SignedVolumes : OrderBar(f, s, p, q)

SessionNext ==
    \/ \E f \in Feeds : FeedStep(f)
    \/ Stop
    \/ \E c \in Closers, s \in Symbols : CloseRequest(c, s)
    \/ \E h \in Halts : HaltStart(h)
    \/ \E t \in Tasks : TaskStep(t)

SessionSpec == SessionInit /\ [][SessionNext]_sessionVars

\* The event loop runs every task that is ready, latencies are finite and the
\* publisher's callbacks return: a task inside the broker goes on.
FairSession == SessionSpec /\ \A t \in Tasks : WF_sessionVars(TaskStep(t))
-----------------------------------------------------------------------------
SessionTypeOK ==
    /\ PortfolioTypeOK
    /\ BrokerTypeOK
    /\ halted \in BOOLEAN /\ isRunning \in BOOLEAN
    /\ feedTask \in Feeds \cup {NoTask}
    /\ mode \in [Feeds \cup Halts -> {"absent", "live", "over"}]
    /\ todo \in [Halts -> [Symbols -> Int]]
    /\ atHalt \in 0 .. MaxOrders
    /\ approval \in [OrderIds -> [px : Nat, eq : Int]]
    /\ lastTold \in [Symbols -> 0 .. created]
    /\ overlapped \subseteq Made

Debited == {i \in Made : order[i].at \in {"debited", "moved", "filled", "reported"}}
Moved == {i \in Made : order[i].at \in {"moved", "filled", "reported"}}
\* Fills the risk portfolio has been told of.
Told == {i \in OrdersOf(Clients) : order[i].at = "reported" /\ order[i].px > 0}
\* Orders whose task was cancelled inside the broker.
Abandoned == {i \in Made \ InFlight : order[i].at \notin {"reported", "refused"}}

\* The broker's account and the risk portfolio are two books kept by two
\* components, one written at the awaits of submit_order, the other when it
\* returns.  At every step they differ by exactly the fills the portfolio was
\* not told of: those in flight, those of a cancelled task, those whose price a
\* FillEvent refuses, and the kill switch's.  Nothing is told twice, at another
\* price or for an order the broker did not execute.
BooksAgree ==
    /\ \A s \in Symbols :
          held[s] = vol[s] + MapThenSumSet(LAMBDA i : order[i].qty,
                                           {i \in Moved \ Told : order[i].sym = s})
    /\ usd - StartBalance = cash - InitialCapital
          - MapThenSumSet(LAMBDA i : order[i].qty * order[i].px + FlatFee, Debited \ Told)

\* Once the kill switch is engaged no order but its own is ever created, whoever
\* was about to submit and whatever is started, stopped or closed afterwards.
HaltIsFinal == \A i \in Made : i > atHalt => order[i].by \in Halts

\* The gate decides on the portfolio it reads before the broker's awaits.  An
\* order that shared its flight with no other of its symbol leaves the position
\* it was approved for: its concentration, at the price and equity the gate saw,
\* is within the limit.
ApprovedConcentrationHolds ==
    \A s \in Symbols :
        lastTold[s] \notin {0} \cup overlapped =>
            WithinConcentration(vol[s], approval[lastTold[s]].px, approval[lastTold[s]].eq)

\* Every order that enters submit_order gets a report, unless its task is
\* cancelled in there.
EveryOrderIsSettled ==
    \A i \in OrderIds :
        i \in Made ~> (order[i].at \in {"reported", "refused"} \/ i \in Abandoned)

\* The kill switch gets to the end of its liquidation, refused orders included.
HaltCompletes == \A h \in Halts : mode[h] = "live" ~> mode[h] = "over"
-----------------------------------------------------------------------------
Quiet == InFlight = {}

\* emergency_halt: "Blocks all future orders, cancels pending orders, and closes
\* open positions" - once it has returned and every task has settled,
\* none of them cancelled, the broker's account is flat.
HaltLeavesBrokerFlat ==
    (Quiet /\ Abandoned = {} /\ \E h \in Halts : mode[h] = "over") => \A s \in Symbols : held[s] = 0

\* close_all_positions goes through submit_order "pour que soldes, positions et
\* journal d'exécution restent cohérents": with no call in flight, every order
\* debited from the balance is in the positions and in the journal.
SubmissionKeepsAccountConsistent ==
    Quiet => \A i \in Debited : order[i].at = "reported"

\* "une tâche asyncio qui meurt en silence est pire qu'un arrêt visible (le
\* système croirait trader)": is_running says that a feed loop is alive.
RunningMeansFeedAlive == isRunning => \E f \in Feeds : mode[f] = "live"

\* _is_opening_order: "Determines if an order increases the absolute position
\* size" - the drawdown guard, which refuses what it designates, never lets a
\* client enlarge a position while the drawdown limit is reached.
DrawdownBlocksGrowth ==
    [][ LET o == order'[created']
        IN  (created' # created /\ o.by \in Clients /\ DrawdownReached(equity', peak'))
            => Abs(vol'[o.sym] + o.qty) <= Abs(vol'[o.sym]) ]_sessionVars
=============================================================================

# Aegis Quant OS in TLA+

A verification project for the Python trading system under `src/` (package
`src/src/aegis_trade`, quoted below without that prefix; `scripts/` is
`src/scripts`). The modules model the code that moves money (the risk portfolio,
the risk gate, the paper, Deriv and vn.py gateways, the asyncio session that lets
several tasks use them at once, the two backtesting engines), the services that
feed it (market data, features, datasets, memory, policies, experiments) and the
research programs whose verdicts decide what is traded. TLC checks them on small
instances; TLAPS proves the central facts for all values of the constants.

Contents: 1 inventory · 2 modules · 3 model and code · 4 runs · 5 bounds ·
6 fairness · 7 proofs · 8 disagreements with the documentation · 9 not modelled ·
10 what is left.

## 1. Inventory

The system is an asyncio FastAPI process. One `PaperTradingOrchestrator` runs a
feed loop; HTTP handlers use the same objects from other tasks. Nothing is locked:
atomicity is what lies between two awaits. There are threads only in the vn.py
adapter and in `asyncio.to_thread` calls that touch no shared state. The services
and the research programs are processes of their own that meet the session
through files only.

**Risk portfolio** (`engine/portfolio.py`). State: cash, equity and its curve,
signed positions with average prices, realized PnLs, last prices. Operations:
`on_fill_event`, `on_market_event`. Called by the orchestrator, the engine and the
vn.py gateway; read by the gate. Hard: a fill has four cases (open, increase,
reduce, reverse), averages are rounded, equity must be marked with the price and
position of the same event. Correct when cash, book and booked PnL explain each
other after any sequence of fills.

**Risk gate** (`engine/risk_gate.py`, `engine/global_risk.py`). State: the halt
flag. Operations: `authorize` (prices, then halt, equity, drawdown, concentration,
gross exposure), `emergency_halt`. Reads the portfolio; drives the broker's
liquidation. Hard: it decides on a portfolio that orders in flight will change,
and the halt races with them. Correct when nothing is created after the halt and an
approved order leaves an exposure within the limits.

**Paper broker** (`infrastructure/paper/broker.py`, `paper/models.py`). State: an
account of its own (USD, positions), one market price. Operations:
`update_market_price`, `submit_order`, `cancel_all_orders`,
`close_all_positions`. `submit_order` awaits the publisher four times and sleeps
the latency. Hard: several calls interleave; a call may be cancelled inside.
Correct when the account and the risk portfolio differ by exactly the fills the
portfolio has not been told.

**Orchestrator** (`application/paper_trading/orchestrator.py`). State:
`is_running`, task references. Operations: `start`, `stop`, the feed loop
(`_process_bar`), `submit_order`, fill feedback. Hard: `start` twice, `stop` at an
await of the broker, a loop that dies. Correct when each submission ends in a
report and the flag tells the truth.

**API control handlers** (`api/routers/positions.py`, `risk.py`, `system.py`).
Start/stop, close a position (an order built from the monitoring engine's copy of
the position), kill switch. Concurrent with the loop.

**Report repository** (`infrastructure/paper/repositories.py`). Reports by order
id; ids of close requests are `CLOSE-<seconds>`. Correct when no report replaces
another.

**Deriv gateways** (`infrastructure/paper/deriv_gateway.py`). State: the API's
connection, whether its account was confirmed to be virtual, the last quotations.
Operations: `connect`, `submit_order`, `cancel_all_orders`, `close_all_positions`.
Hard: a purchase that succeeds with an incomplete answer; a liquidation that fails
half way; a confirmation that outlives its connection. Correct when no loop goes on
trading beside a contract it was not told of, and no demo order spends real money.

**Event-driven engine** (`engine/core.py`, `risk.py`, `ai_decision_engine.py`,
`broker.py`, `strategy.py`).
State: event queue, pending orders, portfolio. One bar at a time: execute the
pending orders, mark, signal, size, validate. Hard: several orders of a bar are
validated on the same portfolio; pending orders of one symbol meet a bar of
another; the last orders are dropped. Correct when the queue drains and orders
are executed at most once, one bar later.

**Vectorised backtester and simulated broker** (`engine/backtester.py`,
`infrastructure/brokers`, `infrastructure/portfolio`, `infrastructure/risk`).
State: capital, position and average price of one symbol. Hard: fills that close a
part, all, or more than the position, an account that is ruined and goes on.
Correct when its capital is explained by its fills.

**vn.py live execution** (`infrastructure/live/vnpy`, `providers/vnpy_adapter.py`).
State: a bounded window of applied trade ids, a queue of fills, known symbols.
Hard: redelivered trades, a trade remembered before it is applied, callbacks of
another thread, a restart. Correct when each trade is applied once, to the symbol
that was ordered.

**Monitoring engine** (`application/monitoring`). State: account, position, order
and risk snapshots built from events; nothing calls `process_event`.

**WebSocket manager, event bus** (`api/ws`, `core/events`). State: lists of
connections and handlers; nothing calls `broadcast`.

**Council of agents** (`application/council`, `engine/*decision*`). No state but the
rolling features it reads: spread and last latency. Operations: eight votes, their
weighting, vetoes, conflict resolution, sizing. Hard: the features are those of an
earlier tick. Correct when an order leaves only on a market it looked at.

**Capital tiers** (`domain/capital.py`). A latch: inactive once its drawdown is
reached.

**Market-data pipeline and caches** (`infrastructure/data`,
`infrastructure/cache`, `providers`). State: stored history, cache. `fetch` asks
the provider for what lies after the last stored timestamp; the Deriv history is
downloaded backwards, page by page. Hard: unfinished bars, short answers, crashes
inside a write. Correct when the history has no hole that was not the provider's.

**Feature pipeline** (`infrastructure/features`). Rows
computed from the last stored one on, through two caches. Correct when no row but
the last describes an unfinished bar.

**Dataset repository** (`dataset`), **policy checkpoints** (`infrastructure/rl`,
`application/reinforcement_learning`), **experience memory** (`application/memory`,
`infrastructure/memory`), **reflection** (`application/reflection`). Files written
in several steps; a crash between two of them, or within one. Correct when a
restart finds what was announced and nothing else in its place.

**Validation** (`application/validation`, `engine/scoring_engine.py`) and
**research and experiments** (`application/research`, `infrastructure/research`).
State: the results of the campaigns, the registry's files. Hard: campaigns that
raise, scores that average over what ran. Correct when what is promoted was tested
out of sample and survived.

**Strategies** (`engine/strategy.py`, `strategies`, `application/strategy`). State: averages,
windows, the last signal. Hard: signals are edges, and a missed edge is a position
kept against the trend.

**Model training** (`scripts/train_qlib_model.py`,
`scripts/train_multi_asset_lightgbm.py`, `providers/qlib`, the fine-tuning in
`providers/kronos`). State: the two files of the model. Hard: labels that look across the
split, a crash between the files.

**Live cost measurement** (`scripts/measure_deriv_live_round_trip.py`,
`scripts/measure_deriv_round_trip_cost.py`). Real orders on a demo account, past the
risk gate; and the cost inferred from displayed tickets. Hard: every failure between
a purchase and its sale.

**Feature searches** (`scripts/run_*feature_research.py`,
`scripts/evaluate_horizon_cost_gate.py`), **tradability and decomposition
diagnostics** (`domain/costs.py`, `domain/tradability.py`,
`scripts/diagnose_pnl_decomposition.py`). Sequential. Hard: boundaries, ties,
overlaps, values that look ahead.

**LLM client and caches**, **settings and prompts**, **API reads and
security**, **frontend, deployment, remaining scripts**. Text, HTTP and rendering:
no protocol among actors that these modules could say more about than their code
does.

PROJECT.json lists the hazards of this code at their lines, with the property that
catches each.

## 2. Modules

| Module | Models |
|---|---|
| `Money` | absolute value, rounding division of decimals, the 70 % cut of a series as floats compute it |
| `FillLedger` | abstract: what a portfolio promises, one entry per fill |
| `Portfolio` | `engine/portfolio.py`; implements `FillLedger` |
| `RiskGate` | `risk_gate.py`, `global_risk.py`; extends `Portfolio` |
| `PaperBroker` | `broker.py`, `paper/models.py`: account and `submit_order` cut at its awaits |
| `PaperSession` | composes `RiskGate` and `PaperBroker` with the orchestrator and the API handlers |
| `TradingEngine` | `engine/core.py` with `broker.py`, `risk.py`, `ai_decision_engine.py`; extends `RiskGate` |
| `VnPyFills` | `infrastructure/live/vnpy`: routing, mapper, deduplicated trades, ticks, restart; extends `RiskGate` |
| `VnPyAdapter` | `providers/vnpy_adapter.py`, the other consumer of vn.py's trades; extends `VnPyFills` |
| `DerivGateway` | `deriv_gateway.py`, both classes, and the Deriv API (external) |
| `Council` | `application/council`: votes, weights, vetoes, size; pure operators |
| `LiveSession` | composes `RiskGate`, `DerivGateway`, `Council` with the orchestrator, the feature provider and the kill switch |
| `DataLake` | market-data pipeline over storage and cache, feature pipeline over both |
| `Archives` | dataset repository; policy training, checkpoints and active pointer |
| `ResearchLab` | score, experiment runner, registry files, promotions |
| `ExperienceMemory` | trade observer, memory manager, vector store and its two files |
| `HistoryPages` | `providers/deriv/historical_data.py`: paginated download |
| `Backtester` | `engine/backtester.py` with sizer and simulated broker |
| `Services` | composes the six above |
| `LiveRoundTrip` | `measure_deriv_live_round_trip.py`: account, session, each call of a round trip |
| `CostMeasure` | `measure_deriv_round_trip_cost.py`: side and cost from displayed tickets |
| `Tradability` | `domain/costs.py`, `domain/tradability.py` |
| `FeatureResearch` | macro and positioning series on bars, tests, Benjamini-Hochberg |
| `SegmentResearch` | segmented rank correlations (`research_engine.py` and two scripts), the gate of a horizon |
| `ModelTraining` | three training pipelines, the files of a model, their loading |
| `SignalStreams` | the seven event-driven strategies |
| `PnlDecomposition` | `diagnose_pnl_decomposition.py` with `MLStrategy`; extends `Backtester` |
| `Campaigns` | validation runner and validators; extends `ResearchLab` |
| `Workbench` | composes the nine above, from `LiveRoundTrip` on |
| `MCPortfolio`, `MCPaperSession`, `MCTradingEngine`, `MCVnPy`, `MCLive`, `MCServices`, `MCWorkbench` | instances for TLC |
| `SumsAndRanks` | no model: lemmas on sums over sets and sequences, maxima, products, ranks in an order |
| `Portfolio_proofs`, `PaperSession_proofs`, `TradingEngine_proofs`, `VnPyFills_proofs`, `LiveSession_proofs`, `Services_proofs`, `Workbench_proofs` | theorems |

A definition whose comment begins with "Slip" is not the program: it is a
plausible bug in the definition that follows it, kept so that each property can be
seen to fail when the code is wrong in that way (PROJECT.json "mutants").

## 3. Model and code

**Portfolio.** `cash`, `vol`, `avg`, `realized`, `equity`, `peak`, `lastPrice`
are `Portfolio.cash`, `_positions[s].volume` and `.average_price`,
`sum(_closed_trades_pnl)`, `equity`, the maximum of `_equity_curve`,
`_latest_prices`. `OnFill` is the whole of `on_fill_event`, `_update_equity`
included; `FillOutcome` chooses among `Opened`, `Increased`, `Reduced`,
`Reversed`. Decimals are integers; the average price is rounded (`RoundDiv`),
as `Decimal` division is. `flow`, `fees`, `slack`, `fills` are history: the cash
moved by fills, commissions, the rounding allowed so far, a count.

**RiskGate.** `ValidateOrder` is `validate_order` guard by guard; ratios are
compared by cross-multiplication. The manager is the one `api/deps.py` builds,
with no capital allocation. `ResolvePrices` completes the caller's table for the
order's symbol only, so `GrossAfter` counts other positions as the code does.

**PaperBroker.** `order[i].at` is where the call for order `i` stands, `cur[t]`
the order task `t` is submitting. Each action runs from one await to the next:
`SubmitOn` (SUBMITTED published), `Accept` (margin check), `Debit` (latency,
price, commission, USD), `MovePosition`, `MarkFilled`, then the caller's
continuation runs in the same step as the return (`Returned`). `market` is one
price for all instruments, as in the code.

**PaperSession.** Tasks are feed loops (one per call of `start`), close requests
and kill switches. `Start`, `Stop`, `QuietBar`, `OrderBar`, `BarFails`,
`FeedEnds` are the orchestrator; `CloseRequest`, `HaltStart`, `HaltReturn` the
handlers; `ClientTold`, `ClientRefused`, `ClientUnbookable` the end of
`submit_order` with the fill booked, refused by the broker, or refused by
`FillEvent` because slippage took its price to zero or below. `Stop` cancels only
the task last created, at whichever await it stands: its order stays for ever at
its stage (`Abandoned`). `Liquidate` submits directly to the broker, from a
snapshot, one position after the other, and the risk portfolio is not told.
History: `atHalt` (orders made before the halt), `approval` (price and equity at
the decision), `lastTold`, `overlapped`.

**TradingEngine.** `queue`, `pending`, `latest` are `_queue`, `_pending_orders`,
`_latest_market_event`. `run` is one synchronous loop, cut into one action per bar
(`NextBar`: execute what is pending at its open, queue fills, then the bar), per
event taken from the queue (`HandleMarket`, `HandleSignal`, `HandleOrder`,
`HandleFill`, `HandleAudit`), and per position of the final liquidation (`FeedOver`,
`CloseOne`). `phase` "failed" is the exception of a `FillEvent` at a price that is
not positive, which leaves `run`. A strategy is the choice of at most one signal per
bar, the most any strategy of the repository returns; a council is the choice of a size
multiplier, 0 for WAIT or for a history too short. The risk engine and whether the
portfolio is a `PortfolioEngine` are chosen in `EngineInit`. The `bar` of an
order is history: the bar it was decided on.

Composition. The broker and the orchestrator are composed as
`docs/PAPER_TRADING_SEQUENCE.md` draws them, with a publisher that may suspend.
There the council and the policy are the choice of an order, or none. The
dashboard's snapshot loop only reads; what it shows is `Snapshot`, an operator of
`Portfolio`. The instruments are those of asset class "forex", the class the close
handler gives every symbol. The process `api/deps.py` builds today, with a Deriv
gateway and the council, is `LiveSession`.

**VnPyFills, VnPyAdapter.** `order` and `trade` are vn.py's, external: it executes
an order in one or more trades and delivers each late, in any order and again.
`known` is the mapper's table, `window` and `ids` the deque and the set of
remembered trades. `SendOrder`, `Deliver` (`on_trade` whole), `Tick`, `Restart`,
which loses what the process holds and nothing of vn.py's. A handler has one await,
its last; `told` differs from `applied` by the publications that raised. The adapter
is another wiring (`wiring`, fixed at the start): its `poll_fills` copies and clears
in two steps, between which vn.py's thread may append.

**DerivGateway, Council, LiveSession.** `site` is the installation: which class was
built, what the token's account is, whether the package is there. `Connect` and
`AuthorizeReply` are the halves of `connect`; `Bar` is `_process_bar` from
`observe_market` to its first await: context, verdict, gate, then `QuietBar`,
`RefusedBar` (the gateway raises and the loop dies of it), `SentBar`, or `StubBar`
(no connection: filled at once). `DerivBuys` is Deriv's side; `BuyReturns` and
`BuyFails` what the loop gets. `cancel_all_orders` and `close_all_positions` are the
same code twice, the phases of `sale`. Indicators are the choice of where the price
stands for each agent; spread and latency are state, because their age matters.
`lastTick` is kept by the symbol's name, as the gateway keeps it, and the provider's
spread by the symbol: two asset classes of one name share a quotation (`TickFor`) and
not a spread. History: `asks`, `atHalt`, `told`, `lastExec`.

**DataLake.** Time is counted in bars; a store maps each to what was known of it,
"forming" or "closed". `FetchBars` and `FetchFeatures` are whole calls (they are
synchronous); `LakeCrash` may cut the file being written. History: `withheld`,
`apart`, `featuresApart`.

**Archives, ResearchLab, ExperienceMemory.** Files are absent, torn or whole; writes
in sequence are separate actions, with a crash between or within them. A score is
kept as the factors of its product. A vector is the experience it was made of. History
of the memory: `unsaved`, the experiences built since the last `_persist` that ended;
`orphaned`, those of them the process died with; `lost`, what was announced before a
restart that found a file cut and began with an empty memory.

**HistoryPages, Backtester.** `FetchPage` is one turn of the loop, with any page
the server may give: candles in a row that reach back to the cursor or beyond it, with
newer ones sent again; or nothing, or a part of what is known, at any time. `silent` is
history: an answer brought nothing while there was more. `RequestFails` is a lost
connection or an error of the API, which leaves what was received or nothing.
`BacktestBar` and `BacktestSignal` are one turn of the bar loop
and one signal in it; `cash` is history.

**LiveRoundTrip.** `step` is the call the script is in; each is sent, then answered,
refused, answered with nonsense, cut off, or interrupted. `Raise` is what an
exception does at each place: a sale of last resort while a contract is held.

**CostMeasure, Tradability.** Amounts are displayed rounded (`Shown`); moves are kept
as two prices and compared by cross-multiplication, so that the model rounds nothing.

**FeatureResearch, SegmentResearch.** A value laid over a bar stands for the day it
was observed; a correlation is a percentage the data may give; which rows each
figure is measured on is exact.

**ModelTraining.** A value stands for the bars it was computed from.
`Supervised`, `MultiAsset`, `Kronos` are the three ways to split, the last of which
fits nothing on fewer windows than a `Batch`; `booster` and `sidecar` the files, of no
model when a crash cut them. `Cut` is `int(n * 0.7)` as floats give it
(`SeventyPercent`): one less than the quotient at 90, 170, 180.

**SignalStreams.** Of two averages only their order is kept, which a bar can change
at will; of prices only how they compare.

**PnlDecomposition.** `executions` is `trades_history`; `GrossPnl`, `TotalTurnover`,
`Distinguishable` and `EdgeVerdict` are `decompose_pnl`, `gross_t_stat` and the
verdict.

**Campaigns.** `todo` are the campaigns left. Each is a step, the walk-forward one
step per fold; a backtest may raise in each, where the code catches it or not.

**Services, Workbench.** Their parts share no state, so a behaviour follows one of
them (`focus`) instead of the product of all; the inputs of the others are fixed.
Nothing is lost: `EachServiceIsKept` and `EachProgramIsKept` prove that the
composition implements the specification of each part.

## 4. Runs

| Run | Question | Result |
|---|---|---|
| `portfolio` | do cash, book, PnL, equity and the dashboard's snapshot explain each other over opens, increases, partial closes, reversals on two instruments? is each fill one ledger entry? | hold, 92,364 states |
| `session` | two loops, one close request, one kill switch, start and stop at any time: `BooksAgree`, `HaltIsFinal`, `ApprovedConcentrationHolds` | hold, 649,511 states |
| `session_liveness` | two instruments under fairness: `EveryOrderIsSettled`, `HaltCompletes` | hold, 105,300 states |
| `engine` | backtests of up to four bars: `FilledNextBar`, `EndsFlat`, `RunEnds` | hold, 47,703 states |
| `vnpy` | trades late, reordered, redelivered, across a restart: applied once, on the symbol ordered, and seen by who reads them? | hold, 2,174,474 states |
| `live` | council, gate and Deriv gateway under lost and refused answers: what is bought, on whose account, on which market, and who knows? | hold, 2,015,792 states |
| `services` | what do delta syncs, pages, scores, crashes and a ruined backtest leave behind? | hold, 449,928 states |
| `workbench` | can the research programs be believed? | hold, 1,364,021 states |
| `halt_flat` | is the account flat once the kill switch is over and all settled? | violated |
| `stop_account` | with no call in flight, is each debited order in positions and journal? | violated |
| `running_alive` | does `is_running` mean a loop is alive? | violated |
| `drawdown_growth` | does the drawdown guard refuse every enlargement of a position? | violated |

`BooksAgree` is the strongest statement about the paper session: two books, written
by two components at different awaits, differ at every step by exactly the fills not
told. `ApprovedConcentrationHolds` says under which condition check-then-act is
sound: an order that shared its flight with no other of its symbol leaves the
position it was approved for. For orders that do share their flight it is false,
which is why `overlapped` is in the statement.

Several statements name what the code can lose, so that they say neither more nor
less than it keeps. A contract bought and never told is not impossible; it stops the
loop that bought it (`UntoldStopsItsLoop`). Requests already sent to Deriv at the
kill switch may still buy, one for each loop (`HaltStopsBuying`). A window of
`max_remembered_trades` applied trades protects against a repetition, no more
(`AppliedOncePerWindow`). The polled adapter loses the fills that race its poll and
no other (`FillsReachTheirReader`). A delta sync that starts after what is stored
leaves a hole; one that overlaps does not (`OverlappingSyncsLeaveNoHole`). The
memory answers with another experience only in place of one the process died before
saving, and forgets only when a file was cut (`MemoryIsFaithful`). A download of history
that ends short is complete unless a request failed or an answer brought nothing
(`PagesLeaveNoHole`). The head of a macro series looks ahead, and nothing else
does (`OnlyTheHeadLooksAhead`). The search reports a subset of what the step-up
procedure of Benjamini and Hochberg would (`ReportedIsControlled`).

The `workbench` properties are about verdicts. `ApprovedSurvived`: an approved
strategy replayed every bar, with no fold that raised. `LoadedWasJudgedApart`: a
model that loads was judged on bars after all those it was fitted on, labels included.
`VerdictsSpendRowsOnce`: a feature that survives would survive on returns that share
no bar. `GateAgreesWithBroker`, `ViableCostIsTheLimit`, `PeriodsAreTheRuns`: the
tradability of a horizon agrees with the broker's arithmetic, ties and partial
windows included. `DecompositionIsTheAccount`: gross and toll, recomputed from the
lines of the history, are the account's. `InferredIsTheTruth`: rounded tickets never
point to the wrong side. `UnclosedIsLastAndSaid`: no failure of a real round trip
leaves an open contract unsaid, but the two cases it names. `SignalsFollowTrend`: a
crossing is not missed when averages touch.

Each module has one type invariant (`...TypeOK`); the ones the proofs need are proved
as parts of the inductive invariants (section 7). They are not among the properties
of the runs, which are spent on what could be wrong; adding the name to a cfg checks
them (`ServicesTypeOK` and `WorkbenchTypeOK` join those of the parts).

## 5. Bounds

`MaxFills` 4 and `MaxHeld` 3 in `portfolio`: four fills suffice for open,
increase, partial close with a rounded average, reversal. `Prices` {4, 9} and
`Slip` 4 in the session: a sale can fill at zero (the refused `FillEvent`), and a
capital of 20 makes margin, both exposure limits and the drawdown limit bite
within two orders of one or two units. `MaxClientOrders` 2, `MaxOrders` 3 (4 with
two instruments, whose liquidation needs two): two client orders are what an
overlap needs, and the kill switch always has room for its own. One kill switch,
so that "over" means that its liquidation is. Feeds are symmetric and permuted
(safety runs only); `drawdown_growth` uses volumes {1, 3} and capital 40 so that a
reversal passes the exposure limits. In `engine`, four bars are an entry, its fill,
a reversal and its fill; slippage 4 equals the lower price, so a sale can fail the
run; the limits (concentration 60 %, gross 70 %, drawdown 30 %) refuse some entries
and not others, and the multipliers 50 and 150 size above and below them. There is
one instrument, because a dataset has one.

`vnpy`: two symbols that share a name, a window of two trades and three trades, so
that one leaves the window; four deliveries, of which one at least is a repetition;
one restart. `live`: two loops, so that a request can be on its way while another
loop asks; two contracts, one connection, one tight and one wide quotation, a fast
and a slow execution; indicators that agree, half disagree and sell; a policy that
doubles the size. Its capital makes both a full and a doubled order meet the limits.
It has one symbol, since with two the run outgrows its time: two symbols of one name
are in the theorem `OrdersOnlyEverOnSoundMarket` only.

`services`: three bars are a hole between two; requests that overlap and one that
does not; two datasets, two policies, two experiments (a torn one beside a good
one); three experiences and two crashes, which is what a number given twice needs;
seven times with a week-end in the middle and one at the end, pages of two; prices
and costs that ruin a short account. `workbench`: histories of a few bars around
each split (a model that cannot be fitted, one row, several; 90, where the cut is one
less than the quotient; Kronos windows below, at and above a batch of 3), row counts of 29 and
30 around the thresholds of the code, segments of 11, 15 and 32 rows with features
missing at the head, in the middle and over a whole segment, a t of exactly 2,
windows that tie, five prices with horizons of one and two, three tickets, two round
trips with two interrupts, a calendar with week-ends and a holiday. Prices and rates
of the decomposition make commissions whole numbers, as the identity is about
the code's reals, not about rounding.

`CHECK_DEADLOCK FALSE` in all but `portfolio`, because these systems really stop: a
backtest and a script end, and a session whose orders are used up and whose feeds
have ended has nothing left to do. `RunEnds` says that the engine stops nowhere
else. `portfolio` goes on with market events, so deadlock is checked there.

## 6. Fairness

`FairSession` is weak fairness of each task's step inside the broker and nothing
else. The event loop runs every ready task, latencies are finite sleeps and the
publisher's callbacks return, so a call in `submit_order` goes on. Nothing obliges a bar
to arrive, a client to ask, or a feed to end. `FairEngine` is weak fairness of the
engine's whole next-state relation: `run` is a single thread that does nothing
else, and the dataset it iterates over is finite.

## 7. Proofs

`SumsAndRanks` is the theory the others share. The models sum by folds, and what a fold
computes cannot be proved by the library's induction theorems, which take an operator;
the module argues by well-foundedness on the subsets of a finite set (`BySmallerSets`),
quantifying over sets instead of predicates. From it: sums over finite sets (`SumOf`,
with `SumWithout`, `SumChange`, `SumPlus`, `SumBound`, `SumOfPart`); a fold of a set or
of a sequence is such a sum (`FoldIsSum`), and what it becomes when the sequence grows
(`FoldOfAppend`); the maximum of a finite set; a product of percentages is at most each
of them (`PercentagesProduct`); and, of the elements of a finite set in a strict
order, that the rank of one, the number of those before it, grows along the order and
takes each value once (`RanksGrow`, `RanksDiffer`, `RanksAreTaken`).

`Portfolio_proofs`, for any instruments, prices, volumes, fees, and number of
fills:

* `RealizedPnlAlwaysExplained`: `PortfolioSpec => []RealizedPnlExplainsCash`. The
  property sums over instruments and is not inductive; the inductive fact adds
  the types and the absence of an entry price where nothing is held. Each of the
  four kinds of fill is a lemma.
* `PortfolioImplementsLedger`: `PortfolioSpec` implements `FillLedger!Spec`:
  initial states map to initial states, a fill is one ledger entry (a reversal is
  the two legs together), a market event is a stutter.
* `EquityAlwaysExplained`: `PortfolioSpec => []EquityIsExplained`. `EquityInv`
  adds that the equity is marked with the prices and positions of the last event, and
  that the balance is what the fills moved.
* `AnyPortfolioIsSound`: the three results hold of any program that moves the
  portfolio by fills of whole units at a price and by observed prices (`PortfolioEvent`),
  whatever else it does and whichever prices and volumes it chooses.

So every program that owns a portfolio has the three of them, as a theorem of its own,
once its steps are shown to be such events. That is where the work is, since a program
fills what it stored earlier:

| Theorem | What the program's invariant adds |
|---|---|
| `BacktestAccountIsSound` | orders queued and fills pending are of whole units at a price, and what is left to close is open (`WholeInv`) |
| `SessionAccountIsSound` | no order is for nothing (`OrdersReal`), on top of the types and debts of `LedgersInv` |
| `LiveAccountIsSound` | a loop that is buying is not buying nothing (`CallsReal`), on top of `ExposureInv` |
| `VnPyAccountIsSound` | the trades of vn.py are whole. A restart opens the account anew, so the first two results hold throughout, and the ledger is not implemented across restarts |

`PaperSession_proofs`, for any set of tasks and bounds:

* `BrokerStaysTyped`: the account, the order book and the calls keep their types
  under every interleaving (with the types of the liquidation's list, which feeds
  the broker volumes).
* `KillSwitchIsFinal`: `SessionSpec => []HaltIsFinal`. The invariant `HaltInv`
  adds: before the halt `atHalt` is the bound on orders, after it at most the number
  created. A lemma classifies each step: it creates no order, or a halt's
  order, or a client's order while not halted.
* `BooksAlwaysAgree`. What an order still owes the risk portfolio, in units and in
  money, is a function of its record alone, and a step changes one record: the sums
  over all orders change by what that order owed. `LedgersInv` adds that a task in
  `submit_order` is at work on an order of its own.
* `ApprovedConcentrationAlwaysHolds`. A check-then-act argument: the property is about
  an order that has ended, so `ApprovalInv` says that while the order is in flight and
  nobody else has touched its symbol, the approval still holds of the position as it is
  (`ApprovedInFlight`), and that two client orders of one symbol in flight are both
  known as such (`SharersAreKnown`).

`TradingEngine_proofs`, for any instruments, sizes, limits and length of the feed:

* `OrdersFillOnNextBar`: `EngineSpec => []FilledNextBar`. The invariant adds that
  an order in the queue was decided on the current bar, and the
  sequence types without which `Head`, `Tail` and `Append` say nothing.
* `AlwaysEndsFlat`. `FlatInv` follows the closing loop: what is still open is still to be
  closed, at prices that exist, and the equity is the marked one, so that with nothing
  open it is the cash.

`VnPyFills_proofs`, for any names, window and numbers of trades and restarts:

* `TradesAppliedOncePerWindow` and `FillsBookedWhereOrdered`. `GatewayInv` relates
  three pieces of state: the deque and the set of remembered trades are one window,
  the last trades applied (`WindowIsRecent`); and the mapper knows, of every name
  ordered in this life, a symbol that was ordered.
* `FillsAlwaysReachTheirReader`, for either wiring of a process. With the gateway, a
  trade is published at most as often as it was applied (`CountsInv`); with the adapter,
  the list is in the order of the deliveries, after what was handed out, and between copy
  and clear it is the copy and then what raced it (`QueueInv`). `LiveInv` is the
  disjunction: no process mixes the two.

`LiveSession_proofs`, for any loops, halts, quotations, signals and policies:

* `HaltStopsBuyingAlways`, `UntoldAlwaysStopsItsLoop`, `NeverRealMoneyInDemo`, from
  one invariant, `SessionInv`. They are not inductive alone: what Deriv may buy
  depends on what a call has sent, so the invariant adds that orders are numbered as
  they leave (`AsksAreBounded`), that a loop waits for a deal that exists
  (`CallsOwnTheirDeals`), and that nothing is sent on an account that was not
  confirmed (`OnlyConfirmedSends`).
* `ExposureIsAlwaysWhatWasTold`. `ExposureInv`: a loop that waits for an answer waits
  for a deal of its own, untold, of the side and size it asked for
  (`CallsMatchTheirDeals`), so that what a reply adds to the portfolio is what the sum
  over the told deals gains (`VolumesAreSums`).
* `OrdersOnlyEverOnSoundMarket`, of every step, for any names. `MarketInv`: a quotation
  the gateway holds under a symbol's name is that symbol's, with the spread the provider
  has, or a namesake's, which the statement excepts; the provider's latency is the last
  execution's; and a lemma about the
  council, `OrdersAreNotVetoed`: whatever the votes and weights sum to, a verdict other
  than WAIT was not vetoed.
* `ReportsAlwaysClaimOnlySales`, for a finite set of kill switches (the counts are
  summed over it), also several at once. `ClaimsInv`: the claims are at most the
  contracts sold; a contract is counted in the step that sells it, and what is sold stays
  sold.

`Services_proofs`, for any values of the constants:

* `EachServiceIsKept`: the composition implements the specification of each part, by
  step refinement; so `ServicesSafe`, that everything below holds of the composition,
  the specification the run checks.
* `NoHoleAlways`, `OnlyTheLastUnfinishedAlways` (of bars and of rows). The rows are
  computed from cached answers, so the invariant first says what a cache may hold:
  an answer given in the past (`CacheSound`). What extends a history keeps older
  answers sound.
* `DataHasItsManifestAlways`, `ActivePolicyLoadsAlways`; `PromotedPassedAlways` (the
  arithmetic of the product of factors); `CapitalExplainedAlways` (through reversals and
  ruin).
* `MemoryIsFaithfulAlways`, also after a restart between the two writes. `MemoryInv`: index
  and table agree, in memory and on disk, but for vectors of experiences not saved yet or
  orphaned (`Fits`); a file that is whole holds what was announced and not dropped
  (`Kept`); and what will be announced is already held (`Owed`).
* `PagesLeaveNoHoleAlways`. `PagesInv`: the cursor separates the candles received from the
  others and, once it has moved, never stands in a week-end, so that a page that reaches it closes the gap
  whatever it repeats.

`Workbench_proofs`, for any values of the constants:

* `EachProgramIsKept` and `WorkbenchSafe`, as for the services.
* `InferredIsAlwaysTheTruth`: no ticket contradicts the side taken; the two displays
  together hide at most one step, and the floor leaves one.
* `SignalsAlwaysFollowTrend`: a strategy of crossings has spoken only after its warm-up.
* `LoadedAlwaysJudgedApart`: only approved models are written, and only the one being
  judged can become approved; a file cut is of none. Of the cut of a
  series it is enough that it is whole (`SeventyPercentFact`). `UnclosedAlwaysLastAndSaid`: where the script stands
  determines which contract may be open.
* `GateAlwaysAgreesWithBroker`: the types of the prices (`GateInv`); the rest is arithmetic.
* `ViableCostAlwaysTheLimit`: the code sorts the moves and takes one by its index. The
  order of the windows by move is strict, so an index in the sort is a rank, and the
  windows the cost covers are counted by it.
* `PeriodsAlwaysTheRuns`. `RunsInv`: the periods counted so far are as many as the windows
  that open a position (`Opens`), and their lengths sum to the tradable windows. A new
  price adds one window, and the lemmas say what it does to either side.
* `OnlyTheHeadLooksAheadAlways`: what `Latest` and `Earliest` choose in finite sets of days
  (`ResearchInv`).
* `ReportedAlwaysControlled`. `CorrectionInv`: the verdicts are the correction of the tests
  as they are, which do not change any more; then the rank of a test by p-value bounds
  how many tests are at least as good, ties included.
* `VerdictsAlwaysSpendRowsOnce`. `SegmentInv`: train rows end a lag before test rows begin,
  and a score that survives has the count and the t it needs; rows taken every `lag`-th
  in order are at least `lag` apart, because ranks grow along the order.
* `DecompositionAlwaysTheAccount`. `PnlInv`: the sums over the history are the capital,
  the turnover and the tolls, and its first line has gained nothing. For the edge, an
  inequality between squares: amounts of which at most two are not zero sum to too
  little for a t of 2.
* `ApprovedAlwaysSurvived`. `SurvivalInv`: the campaigns left have no verdict yet, those
  with a verdict have one, and the folds have replayed exactly the bars before the
  next; so the score is taken over one sound verdict per campaign.

Assumptions are the named ASSUMEs of the modules: constants are naturals, sets of
tasks are disjoint, a percentage is one. TLC evaluates them in every run. Four say more
than that: `DerivAssumption`, that a quotation has 0 < bid <= ask (`Tick` refuses any
other, `domain/core.py:117`) and every symbol a name; `CommissionsAreWhole`, that the unit of money of
`PnlDecomposition` is small enough for commissions to be whole; `CampaignsAssumption`,
that no configuration lists a campaign twice (those of the code do not); and
`PagesAssumption`, a page and a target of at least one candle.

Only model-checked: the liveness properties `HaltCompletes`, `EveryOrderIsSettled` and
`RunEnds`, since fairness and ENABLED are out of the prover's reach. Every safety
property of the passing runs is a theorem.

## 8. Disagreements with the documentation

The four violation runs are listed under "findings" with the lines they
contradict. Others, met while modelling, without a run; the models follow the code:

* The docstring of `SimulatedBroker` (`engine/broker.py`) says fills use the latest
  close; the code uses the open, and so does `Execute`.
* `docs/PAPER_TRADING_SEQUENCE.md` draws FILLED before the account and position
  events; the code publishes account, position, then FILLED.
* `scripts/run_h4_d1_feature_research.py:147` says "pas de lookahead"; line 167 fills
  the head of a macro series backwards (`Lay`, and the exception in
  `OnlyTheHeadLooksAhead`).
* The same script, and its copy for positioning, compares each test with the
  threshold of its own rank: fewer rejections than the step-up procedure it names.
* `run_macro_feature_research.py` takes a t of exactly 2 for significant, the engine
  does not (`Survives`, `SurvivesMacro`).
* `scripts/measure_deriv_live_round_trip.py` says that a failed round trip does not
  invalidate the ones before; on anything but a `DerivApiError` it ends without
  writing them (`Leave`).
* `scripts/diagnose_pnl_decomposition.py` charges its `--commission-rate`, which its
  help calls the cost of a round trip, on each leg; compares a gross result that
  already contains slippage with a cost that contains it again; and calls its t over
  executions an upper bound of the one over round trips, which it is not, since
  openings count as executions that gained nothing.
* `scripts/train_multi_asset_lightgbm.py` labels and standardizes before it splits;
  it saves no model, which is why `LoadedWasJudgedApart` holds.
* `LightGBMModel.load` reads a booster and a sidecar and compares nothing: after a crash
  between the two writes of a second approved model, files of two models load together.
  Each was approved, which is all `LoadedWasJudgedApart` says.
* The docstring of `ScoringEngine` (`engine/scoring_engine.py:73`) says that a score of
  75, the one that approves, needs all four campaigns; three can reach it.
  `PromotedPassedOutOfSample` claims the two out-of-sample ones only.
* The log of `engine/backtester.py:232` says that ruin stops the simulation; the
  `False` returned after it only leaves the loop over the signals of that bar, and the run
  goes on with the next one.
* `HaltReport` (`engine/global_risk.py:33`) says that `cancel_error` and `close_error` are
  set when the gateway failed. Both Deriv gateways swallow the exceptions of the API
  (`Propagates` is FALSE), so both stay None and a liquidation abandoned half way reads
  as one that is complete. No run says so, as it is plain from the `try`; what the counts
  of that report may still claim is `ReportsClaimOnlySales`.
* `DerivGateway._last_price` says the price is the one expected for the order; it is
  looked up by `symbol.name`, while the feature provider keeps spreads by the whole
  symbol, so an order can be executed at the quotation of a namesake of another asset
  class (the exception in `OrdersOnlyOnSoundMarket`).
* `providers/deriv/historical_data.py:211` moves a cursor out of the week-end when a page
  is empty; line 250 has already moved it, so the branch is never taken. And an answer
  that brings nothing ends the download as "épuisé" even where older candles exist
  (`silent`).
* One of the two memory files cut by a crash empties the whole memory at the next start
  (`faiss_store.py:38`), and what is saved then overwrites the file that was whole.

## 9. Not modelled

* Limit prices (a limit only enters the broker's margin check; no caller sets one),
  percentage and random models of slippage, latency and commission (one constant
  model of each; the latency is the interleaving), the metrics of `Portfolio` and the
  tear sheets (floats and pandas), the dashboard fields handlers set.
* Monitoring engine, WebSocket manager: nothing in `src` feeds them. If
  something did, a position would never close in the snapshot, because no event says
  "closed" (`application/monitoring/engine.py:128`).
* Report repository: a dictionary no decision reads. Ids of close requests have a
  resolution of one second (`api/routers/positions.py:44`), so two in a second
  overwrite one another's report.
* Capital tiers: `api/deps.py` builds the risk manager without an allocation.
* The panel of language models (`agents`), LLM client, prompts, reflections' text:
  answers and caches that steer no order.
* The Kronos network under `providers/kronos/shiyu_model` (vendored), indicators,
  regressions, embeddings, rewards: float computations; the models take their
  outcome as a choice.
* HTTP providers, normalizers, MT5 and OpenBB adapters, codecs: pure I/O.
* Frontend, deployment, audits, downloads, demonstration scripts, read-only
  handlers, settings and logging.

Everything else of section 1 is modelled at least in part; PROJECT.json says, for each
component, what is left out.

## 10. What is left

1. `TradingEngine` with two instruments, once the repository has a dataset of two:
   pending orders would meet a bar of another symbol.
2. `Monitoring` fed by the broker's events, once something feeds it.
3. Two concurrent kill switches in the TLC instances (`api/routers/risk.py:20`): both
   sessions take any number, and the theorems hold for any number, but the runs use one.
4. A ledger per life of the vn.py process, so that its account implements one too.

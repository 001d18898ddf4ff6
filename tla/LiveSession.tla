---------------------------- MODULE LiveSession ----------------------------
(***************************************************************************)
(* A session as api/deps.py wires it: the PaperTradingOrchestrator with    *)
(* the council, the feature provider, the risk gate and portfolio, and a   *)
(* Deriv gateway as its broker; the API's start, stop and kill switch; the *)
(* ticks an embedding program feeds to observe_tick.                       *)
(*                                                                         *)
(* The close request of the API finds no position to close here: the Deriv *)
(* gateway publishes no PositionEvent.  So the clients of submit_order are *)
(* the feed loops.                                                         *)
(***************************************************************************)
EXTENDS RiskGate, DerivGateway, Council

CONSTANTS Feeds, Halts, NoTask,
          Signals,      \* what the indicators say: records [ema, rsi, band]
          Policies,     \* active policies, NoPolicy included
          Latencies,    \* of an execution, in ms
          MaxAsks       \* bound: orders submitted to the gateway

ASSUME LiveAssumption ==
    /\ Instruments = Symbols /\ Symbols # {}
    /\ Callers = Feeds /\ Sellers = Halts
    /\ NoTask \notin Feeds
    /\ \A pol \in Policies : pol = NoPolicy \/ pol.risk \in Nat
    /\ Latencies \subseteq Nat /\ MaxAsks \in Nat

VARIABLES spread,     \* RollingFeatureProvider._spreads
          latency,    \* _latency_ms
          isRunning, feedTask,
          mode,       \* of a feed loop: "absent", "live" or "over"
          asks,       \* history: orders submitted so far
          atHalt,     \* history: asks when the kill switch was engaged
          told,       \* history: deals whose fill reached the portfolio
          lastExec    \* history: latency of the last execution reported

controlVars == <<isRunning, feedTask, mode>>
providerVars == <<spread, latency>>
historyOfLive == <<asks, atHalt, told, lastExec>>
liveVars == <<portfolioVars, halted, gatewayVars, providerVars, controlVars, historyOfLive>>

LiveInit ==
    /\ PortfolioInit /\ halted = FALSE
    /\ GatewayInit
    /\ spread = [s \in Symbols |-> NoFeature] /\ latency = NoFeature
    /\ isRunning = FALSE /\ feedTask = NoTask
    /\ mode = [f \in Feeds |-> "absent"]
    /\ asks = 0 /\ atHalt = MaxAsks /\ told = {} /\ lastExec = 0

Dies(f) == isRunning' = FALSE /\ mode' = [mode EXCEPT ![f] = "over"] /\ UNCHANGED feedTask
-----------------------------------------------------------------------------
Start(f) ==
    /\ mode[f] = "absent"
    /\ isRunning' = TRUE /\ feedTask' = f
    /\ mode' = [mode EXCEPT ![f] = "live"]
    /\ UNCHANGED <<portfolioVars, halted, gatewayVars, providerVars, historyOfLive>>

\* stop cancels the last task created, inside api.buy if it stands there: what
\* Deriv does with the request is no longer anybody's business.
Stop ==
    /\ feedTask # NoTask
    /\ isRunning \/ mode[feedTask] = "live"
    /\ isRunning' = FALSE
    /\ mode' = [mode EXCEPT ![feedTask] = "over"]
    /\ UNCHANGED <<portfolioVars, halted, gatewayVars, providerVars, feedTask, historyOfLive>>

\* Slip: the broker gets the quotation and the feature provider does not.
ObserveTickBrokerOnly(s, k) ==
    /\ GatewayTick(s, k)
    /\ UNCHANGED <<portfolioVars, halted, connection, deal, call, sale, providerVars,
                   controlVars, historyOfLive>>

\* observe_tick: the provider's spread, by symbol, and the broker's price, by the
\* symbol's name, in one call.
ObserveTick(s, k) ==
    /\ spread' = [spread EXCEPT ![s] = k.ask - k.bid]
    /\ GatewayTick(s, k)
    /\ UNCHANGED <<portfolioVars, halted, connection, deal, call, sale, latency,
                   controlVars, historyOfLive>>

-----------------------------------------------------------------------------
\* The context of _process_bar: no memory score, no forecaster.
Context(s, sig) ==
    [ema |-> sig.ema, rsi |-> sig.rsi, band |-> sig.band,
     spread |-> spread[s], latency |-> latency, held |-> vol[s],
     score |-> 0, preferred |-> 0, avoid |-> 0, forecast |-> "none"]

\* observe_market, then a fill of q at px when the bar's order is executed with
\* no connection, before anything else runs: two points of the equity curve.
BarAndFill(s, p, q, px) ==
    LET last == [lastPrice EXCEPT ![s] = p]
        o == FillOutcome(vol[s], avg[s], q, px)
    IN  /\ lastPrice' = last
        /\ cash' = cash - o.out
        /\ vol' = [vol EXCEPT ![s] = o.v]
        /\ avg' = [avg EXCEPT ![s] = o.a]
        /\ realized' = [realized EXCEPT ![s] = @ + o.r]
        /\ slack' = [slack EXCEPT ![s] = @ + IF Increasing(vol[s], q) THEN Abs(o.v) ELSE 0]
        /\ equity' = MarkToMarket(cash', vol', last)
        /\ peak' = Max({peak, MarkToMarket(cash, vol, last), equity'})
        /\ flow' = [flow EXCEPT ![s] = @ - q * px]
        /\ fills' = fills + 1
        /\ UNCHANGED fees

\* The order of the bar, in quarters of the base volume, once the gate has seen
\* it on the portfolio as observe_market leaves it; 0 when there is none.
Decided(s, p, sig, policy) ==
    LET q == OrderVolume(Verdict(Context(s, sig), policy))
        eq == MarkToMarket(cash, vol, [lastPrice EXCEPT ![s] = p])
        table == [x \in Symbols |-> IF x = s THEN p ELSE NoPrice]
    IN  IF q # 0 /\ ValidateOrder(s, q, table, eq, Max({peak, eq})) THEN q ELSE 0

\* A bar with no order, or whose order the gate refuses.
QuietBar(s, p) ==
    /\ OnMarket(s, p)
    /\ UNCHANGED <<halted, gatewayVars, providerVars, controlVars, historyOfLive>>

\* The gateway raises: the loop dies of it, the price is observed.
RefusedBar(f, s, p) ==
    /\ CannotExecute(s)
    /\ OnMarket(s, p)
    /\ Dies(f)
    /\ UNCHANGED <<halted, gatewayVars, providerVars, historyOfLive>>

\* The order is sent to Deriv and the loop waits.
SentBar(f, s, p, q) ==
    /\ ~CannotExecute(s)
    /\ OnMarket(s, p)
    /\ Buying(f, s, q, asks + 1)
    /\ asks' = asks + 1
    /\ UNCHANGED <<halted, connection, lastTick, sale, providerVars, controlVars,
                   atHalt, told, lastExec>>

\* The order is filled at the last quotation, at once.
StubBar(f, s, p, q) ==
    /\ ~CannotExecute(s)
    /\ Len(deal) < MaxContracts
    /\ StubDeal(f, s, q, asks + 1)
    /\ BarAndFill(s, p, q, ExecutionPrice(s, q))
    /\ asks' = asks + 1
    /\ told' = told \cup {Len(deal) + 1}
    /\ latency' = 0 /\ lastExec' = 0
    /\ UNCHANGED <<halted, connection, lastTick, sale, spread, controlVars, atHalt>>

\* _process_bar
Bar(f, s, p, sig, policy) ==
    /\ mode[f] = "live" /\ isRunning /\ call[f].at = "idle"
    /\ asks < MaxAsks
    /\ LET q == Decided(s, p, sig, policy)
       IN  \/ q = 0 /\ QuietBar(s, p)
           \/ q # 0 /\ (RefusedBar(f, s, p) \/ SentBar(f, s, p, q) \/ StubBar(f, s, p, q))

-----------------------------------------------------------------------------
Hangs(f) == mode[f] = "live"

\* Slip: a reply without a price is logged and the loop goes on.
BuyFailsQuietly(f) ==
    /\ Hangs(f) /\ call[f].at \in {"bought", "refused"}
    /\ call' = [call EXCEPT ![f] = Idle]
    /\ UNCHANGED <<portfolioVars, halted, connection, lastTick, deal, sale, providerVars,
                   controlVars, historyOfLive>>

\* api.buy raises (refused, or the answer is lost), or the reply has no
\* buy_price: submit_order raises, and the feed loop dies.
BuyFails(f) ==
    /\ Hangs(f) /\ call[f].at \in {"bought", "refused"}
    /\ call' = [call EXCEPT ![f] = Idle]
    /\ Dies(f)
    /\ UNCHANGED <<portfolioVars, halted, connection, lastTick, deal, sale, providerVars,
                   historyOfLive>>

\* Slip: the side of the fill is lost.
BuyReturnsUnsigned(f, px, ms) ==
    /\ Hangs(f) /\ call[f].at = "bought"
    /\ OnFill(call[f].sym, Abs(call[f].q), px, 0)
    /\ latency' = ms /\ lastExec' = ms
    /\ told' = told \cup {call[f].deal}
    /\ call' = [call EXCEPT ![f] = Idle]
    /\ UNCHANGED <<halted, connection, lastTick, deal, sale, spread, controlVars, asks, atHalt>>

\* The reply has a price, what the contract cost: the latency is observed, the
\* fill applied.
BuyReturns(f, px, ms) ==
    /\ Hangs(f) /\ call[f].at = "bought"
    /\ OnFill(call[f].sym, call[f].q, px, 0)
    /\ latency' = ms /\ lastExec' = ms
    /\ told' = told \cup {call[f].deal}
    /\ call' = [call EXCEPT ![f] = Idle]
    /\ UNCHANGED <<halted, connection, lastTick, deal, sale, spread, controlVars, asks, atHalt>>

\* Slip: the flag is raised when the liquidation is over.
HaltLate(h) ==
    /\ sale[h].at = "absent"
    /\ halted' = (api = "none")
    /\ atHalt' = IF atHalt = MaxAsks THEN asks ELSE atHalt
    /\ sale' = Liquidation(h)
    /\ UNCHANGED <<portfolioVars, connection, lastTick, deal, call, providerVars,
                   controlVars, asks, told, lastExec>>

\* POST /kill-switch: the flag, then cancel_all_orders and close_all_positions.
Halt(h) ==
    /\ sale[h].at = "absent"
    /\ halted' = TRUE
    /\ atHalt' = IF halted THEN atHalt ELSE asks
    /\ sale' = Liquidation(h)
    /\ UNCHANGED <<portfolioVars, connection, lastTick, deal, call, providerVars,
                   controlVars, asks, told, lastExec>>

GatewayStep ==
    /\ \/ Connect \/ AuthorizeReply
       \/ \E f \in Feeds : DerivBuys(f)
       \/ \E i \in OpenContracts : Expire(i)
       \/ \E h \in Halts : LiquidationStep(h)
    /\ UNCHANGED <<portfolioVars, halted, providerVars, controlVars, historyOfLive>>

FeedEnds(f) ==
    /\ mode[f] = "live" /\ call[f].at = "idle"
    /\ mode' = [mode EXCEPT ![f] = "over"]
    /\ UNCHANGED <<portfolioVars, halted, gatewayVars, providerVars, isRunning, feedTask,
                   historyOfLive>>

LiveNext ==
    \/ \E f \in Feeds : Start(f) \/ FeedEnds(f) \/ BuyFails(f)
    \/ \E f \in Feeds, px \in Prices, ms \in Latencies : BuyReturns(f, px, ms)
    \/ \E f \in Feeds, s \in Symbols, p \in Prices, sig \in Signals, pol \in Policies :
          Bar(f, s, p, sig, pol)
    \/ \E s \in Symbols, k \in Quotes : ObserveTick(s, k)
    \/ Stop
    \/ \E h \in Halts : Halt(h)
    \/ GatewayStep

LiveSpec == LiveInit /\ [][LiveNext]_liveVars
-----------------------------------------------------------------------------
LiveTypeOK ==
    /\ PortfolioTypeOK
    /\ halted \in BOOLEAN /\ confirmed \in BOOLEAN /\ isRunning \in BOOLEAN
    /\ api \in {"none", "open"} /\ dial \in {"idle", "authorising"}
    /\ dials \in 0 .. MaxDials
    /\ lastTick \in [Names -> Ticks \cup {NoQuote}]
    /\ deal \in Seq([sym : Symbols, q : Int, by : Feeds, ask : 1 .. MaxAsks,
                     at : {"open", "sold", "expired", "stub"}])
    /\ call \in [Feeds -> [at : {"idle", "sent", "bought", "refused"}, sym : Symbols,
                           q : Int, ask : 0 .. MaxAsks, deal : 0 .. Len(deal)]]
    /\ sale \in [Halts -> [at : {"absent", "listing1", "selling1", "listing2", "selling2", "over"},
                           left : SUBSET DOMAIN deal, count : Nat,
                           error : BOOLEAN, reported : BOOLEAN]]
    /\ spread \in [Symbols -> Int \cup {NoFeature}]
    /\ latency \in Latencies \cup {0, NoFeature}
    /\ mode \in [Feeds -> {"absent", "live", "over"}]
    /\ feedTask \in Feeds \cup {NoTask}
    /\ told \subseteq DOMAIN deal

\* A contract Deriv has opened and the risk portfolio ignores is either still
\* in flight, or has stopped the loop that bought it: no loop goes on trading on
\* an exposure that is short of a contract.
UntoldStopsItsLoop ==
    \A i \in DOMAIN deal \ told :
        mode[deal[i].by] = "over" \/ (call[deal[i].by].at = "bought" /\ call[deal[i].by].deal = i)

\* The portfolio holds the orders executed and reported, at the side and size
\* the council gave them, whatever has become of the contracts since.
ExposureIsWhatWasTold ==
    \A s \in Symbols :
        vol[s] = MapThenSumSet(LAMBDA i : deal[i].q, {i \in told : deal[i].sym = s})

\* After the kill switch Deriv opens no contract but for the requests that were
\* already on their way, one at most for each loop.
HaltStopsBuying ==
    \A i \in DOMAIN deal : deal[i].ask <= atHalt

\* The demo class never buys a contract with real money, whatever the order of
\* connections, refusals and orders.
NoRealMoneyInDemo == Contracts # {} => site.live \/ site.virtual

\* The order that leaves in this step is one on s.
Leaves(s) ==
    \/ \E f \in Feeds : call'[f].ask = asks' /\ call'[f].sym = s
    \/ deal' # deal /\ deal'[Len(deal')].sym = s

\* The council's market is the broker's: an order leaves for the gateway only if
\* the quotation it will be executed at has an acceptable spread and the last
\* execution was not slow, whatever the policy.  The quotation of a namesake, which
\* the gateway takes for the symbol's own, is not the one the council saw.
OrdersOnlyOnSoundMarket ==
    [][ asks' # asks => \E s \in Symbols :
            /\ Leaves(s) /\ TickFor(s) # NoQuote
            /\ TickFor(s).sym = s => TickFor(s).ask - TickFor(s).bid <= MaxSpread
            /\ lastExec <= MaxLatency ]_liveVars

\* A liquidation lists the open contracts twice, while they are sold, expire or stay:
\* the contracts that reports claim were sold, each once.
ReportsClaimOnlySales ==
    MapThenSumSet(LAMBDA h : sale[h].count, Halts)
        <= Cardinality({i \in DOMAIN deal : deal[i].at = "sold"})
=============================================================================

------------------------------ MODULE VnPyFills ------------------------------
(***************************************************************************)
(* The vn.py execution gateway (infrastructure/live/vnpy/execution.py)     *)
(* with its symbol mapper (mapper.py), in front of the real Portfolio and  *)
(* behind the real risk gate.                                              *)
(*                                                                         *)
(* vn.py itself is external: it executes an order in one or more trades    *)
(* and may deliver each EVENT_TRADE late, in any order, and again after a  *)
(* reconnection.  A restart of the process loses everything the gateway    *)
(* and the portfolio hold, and nothing of what vn.py holds.  A handler     *)
(* runs to its last await in one step, and nothing changes after it; a     *)
(* publisher that raises is the other outcome of that await.               *)
(***************************************************************************)
EXTENDS RiskGate, Sequences, SequencesExt

CONSTANTS Names,          \* what vn.py knows of an instrument
          NameOf,         \* the name of a domain Symbol(name, asset_class)
          DefaultOf,      \* Symbol(name, default_asset_class)
          NoSymbol,       \* the mapper does not know the name
          MaxRemembered,  \* max_remembered_trades
          MaxOrders, MaxTrades, MaxDeliveries, MaxRestarts  \* bounds

ASSUME VnPyAssumption ==
    /\ NameOf \in [Symbols -> Names]
    /\ DefaultOf \in [Names -> Symbols]
    /\ NoSymbol \notin Symbols
    /\ MaxRemembered \in Nat /\ MaxOrders \in Nat /\ MaxTrades \in Nat
    /\ MaxDeliveries \in Nat /\ MaxRestarts \in Nat

VARIABLES order,    \* vn.py: the orders routed, [sym, q, life]
          trade,    \* vn.py: the trades executed, [of, q, px]
          known,    \* VnPySymbolMapper._known
          window,   \* _applied_trade_order
          ids,      \* _applied_trade_ids
          \* history
          life,     \* restarts so far
          arrived,  \* EVENT_TRADE deliveries so far
          applied,  \* this life: what reached the portfolio, [t, s]
          told      \* this life: the trades whose fill was published

gatewayVars == <<known, window, ids>>
vnpyVars == <<portfolioVars, halted, order, trade, gatewayVars, life, arrived, applied, told>>

OrderOf(t) == order[trade[t].of]
NameTraded(t) == NameOf[OrderOf(t).sym]
Left(i) == order[i].q - FoldSet(LAMBDA t, sum : sum + trade[t].q, 0,
                                {t \in DOMAIN trade : trade[t].of = i})

VnPyInit ==
    /\ PortfolioInit /\ halted = FALSE
    /\ order = <<>> /\ trade = <<>>
    /\ known = [n \in Names |-> NoSymbol]
    /\ window = <<>> /\ ids = {}
    /\ life = 0 /\ arrived = 0 /\ applied = <<>> /\ told = <<>>
-----------------------------------------------------------------------------
\* from_vnpy_symbol, of the name before the dot.
FromVnPy(n) == IF known[n] = NoSymbol THEN DefaultOf[n] ELSE known[n]

\* Slip: the mapper never learns the symbol of an outgoing order.
ToVnPyForgetful(s) == UNCHANGED known

\* to_vnpy_symbol registers what it translates; the last of a name wins.
ToVnPy(s) == known' = [known EXCEPT ![NameOf[s]] = s]

\* send_order; table is the caller's latest_prices.  A refusal changes nothing.
SendOrder(s, q, table) ==
    /\ Len(order) < MaxOrders
    /\ ValidateOrder(s, q, ResolvePrices(s, table), equity, peak)
    /\ ToVnPy(s)
    /\ order' = Append(order, [sym |-> s, q |-> q, life |-> life])
    /\ UNCHANGED <<portfolioVars, halted, trade, window, ids, life, arrived, applied, told>>

\* External: vn.py executes part or all of what is left of an order.
Execute(i, q, p) ==
    /\ Len(trade) < MaxTrades
    /\ Abs(q) <= Abs(Left(i)) /\ Increasing(Left(i), q)
    /\ trade' = Append(trade, [of |-> i, q |-> q, px |-> p])
    /\ UNCHANGED <<portfolioVars, halted, order, gatewayVars, life, arrived, applied, told>>

\* Slip: pop() for popleft(): the identity just added is the one forgotten.
RememberPopsNewest(t) ==
    IF Len(window) >= MaxRemembered THEN UNCHANGED <<window, ids>>
    ELSE window' = Append(window, t) /\ ids' = ids \cup {t}

\* _remember_trade: one identity in, at most one out.
Remember(t) ==
    LET longer == Append(window, t)
    IN  IF Len(longer) > MaxRemembered
        THEN window' = Tail(longer) /\ ids' = (ids \cup {t}) \ {Head(longer)}
        ELSE window' = longer /\ ids' = ids \cup {t}

\* on_trade: a duplicate returns None; the fill is remembered, applied, then
\* published, unless the publisher raises.
OnTrade(t) ==
    IF t \in ids THEN UNCHANGED <<portfolioVars, gatewayVars, applied, told>>
    ELSE LET s == FromVnPy(NameTraded(t))
         IN  /\ Remember(t)
             /\ OnFill(s, trade[t].q, trade[t].px, 0)
             /\ applied' = Append(applied, [t |-> t, s |-> s])
             /\ told' \in {told, Append(told, t)}
             /\ UNCHANGED known

Deliver(t) ==
    /\ arrived < MaxDeliveries /\ arrived' = arrived + 1
    /\ OnTrade(t)
    /\ UNCHANGED <<halted, order, trade, life>>

\* VnPyMarketGateway.on_tick: the bar is published for the symbol the mapper
\* gives the name, and the portfolio marks itself with it.
Tick(n, p) ==
    /\ OnMarket(FromVnPy(n), p)
    /\ UNCHANGED <<halted, order, trade, gatewayVars, life, arrived, applied, told>>

\* A new process: the portfolio as __init__ leaves it.
FreshPortfolio ==
    LET zero == [s \in Symbols |-> 0]
    IN  /\ cash' = InitialCapital /\ equity' = InitialCapital /\ peak' = InitialCapital
        /\ vol' = zero /\ avg' = zero /\ realized' = zero /\ flow' = zero /\ slack' = zero
        /\ lastPrice' = [s \in Symbols |-> NoPrice]
        /\ fees' = 0 /\ fills' = 0

Restart ==
    /\ life < MaxRestarts /\ life' = life + 1
    /\ FreshPortfolio /\ halted' = FALSE
    /\ known' = [n \in Names |-> NoSymbol]
    /\ window' = <<>> /\ ids' = {} /\ applied' = <<>> /\ told' = <<>>
    /\ UNCHANGED <<order, trade, arrived>>

Quote(s, p) == [x \in Symbols |-> IF x = s THEN p ELSE NoPrice]

VnPyNext ==
    \/ \E s \in Symbols, q \in SignedVolumes, p \in Prices \cup {NoPrice} :
           SendOrder(s, q, Quote(s, p))
    \/ \E i \in DOMAIN order, q \in SignedVolumes, p \in Prices : Execute(i, q, p)
    \/ \E t \in DOMAIN trade : Deliver(t)
    \/ \E n \in Names, p \in Prices : Tick(n, p)
    \/ Restart

VnPySpec == VnPyInit /\ [][VnPyNext]_vnpyVars
-----------------------------------------------------------------------------
VnPyTypeOK ==
    /\ PortfolioTypeOK /\ halted \in BOOLEAN
    /\ order \in Seq([sym : Symbols, q : Int, life : Nat])
    /\ trade \in Seq([of : DOMAIN order, q : Int, px : Prices])
    /\ known \in [Names -> Symbols \cup {NoSymbol}]
    /\ window \in Seq(DOMAIN trade) /\ ids \subseteq DOMAIN trade
    /\ life \in Nat /\ arrived \in Nat
    /\ applied \in Seq([t : DOMAIN trade, s : Symbols])
    /\ told \in Seq(DOMAIN trade)

\* The set and the deque of remembered trades are one window: the last
\* max_remembered_trades trades applied.
WindowIsRecent ==
    LET k == Len(applied) - Len(window)
    IN  /\ Len(window) <= MaxRemembered
        /\ k >= 0 /\ (k > 0 => Len(window) = MaxRemembered)
        /\ \A i \in 1..Len(window) : window[i] = applied[k + i].t
        /\ ids = {window[i] : i \in 1..Len(window)}

\* "Les 5 derniers restent protégés contre une répétition immédiate": a trade
\* delivered again is not applied again before max_remembered_trades others
\* have been, however deliveries repeat and overtake each other.
AppliedOncePerWindow ==
    \A i, j \in DOMAIN applied :
        i < j /\ applied[i].t = applied[j].t => j - i > MaxRemembered

OrderedInThisLife(n) ==
    {s \in Symbols : NameOf[s] = n /\ \E j \in DOMAIN order : order[j].sym = s /\ order[j].life = life}

\* No phantom position: unless one name was ordered under two asset classes, a
\* fill of an order of this life is booked on the very symbol of the order.
\* (A fill of an order from before the restart is booked on the default class.)
BookedWhereOrdered ==
    \A i \in DOMAIN applied, s \in Symbols :
        /\ OrderOf(applied[i].t).sym = s /\ OrderOf(applied[i].t).life = life
        /\ OrderedInThisLife(NameOf[s]) = {s}
        => applied[i].s = s

\* A fill is published at most as often as it was applied.
PublishedOnlyIfApplied ==
    \A t \in DOMAIN trade :
        Cardinality({i \in DOMAIN told : told[i] = t})
            <= Cardinality({i \in DOMAIN applied : applied[i].t = t})
=============================================================================

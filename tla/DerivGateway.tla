---------------------------- MODULE DerivGateway ----------------------------
(***************************************************************************)
(* DerivGateway and LiveDerivGateway (infrastructure/paper/                *)
(* deriv_gateway.py) in front of the Deriv API, which is external: an      *)
(* account, connections that are authorised or not, and contracts that are *)
(* bought, sold, or expire by themselves after five ticks.                 *)
(*                                                                         *)
(* A call of the gateway is cut at its awaits.  The orchestrator's side of *)
(* submit_order (the gate before it, the portfolio after it) is the        *)
(* composing module's.                                                     *)
(***************************************************************************)
EXTENDS Integers, Sequences, FiniteSets

CONSTANTS Sites,                 \* the installations considered, see site
          Instruments, Quotes,   \* quotes are records [bid, ask]
          NoQuote,
          Names, NameOf,         \* Symbol.name, which leaves out the asset class
          Callers,               \* tasks that submit orders
          Sellers,               \* tasks that liquidate
          MaxContracts, MaxDials \* bounds

Tick(s, k) == [sym |-> s, bid |-> k.bid, ask |-> k.ask]
Ticks == {Tick(s, k) : s \in Instruments, k \in Quotes}

\* A Tick is refused without positive prices, or with a bid above its ask.
ASSUME DerivAssumption ==
    /\ Sites \subseteq [live : BOOLEAN, virtual : BOOLEAN, sdk : BOOLEAN]
    /\ \A k \in Quotes : k \in [bid : Nat, ask : Nat] /\ 0 < k.bid /\ k.bid <= k.ask
    /\ NoQuote \notin Ticks
    /\ NameOf \in [Instruments -> Names]
    /\ Callers \cap Sellers = {}
    /\ MaxContracts \in Nat /\ MaxDials \in Nat

VARIABLES site,       \* [live, virtual, sdk]: the class built, the account of the
                      \* token, whether the deriv_api package is installed
          api,        \* self.api: "none" or "open"; whether Deriv has authorised
                      \* the connection is for its answers to tell
          confirmed,  \* _is_virtual_confirmed
          dial,       \* connect(): "idle" or "authorising"
          dials,      \* bound: calls of connect()
          lastTick,   \* _last_ticks, by name: the last Tick of any symbol of it
          deal,       \* the orders executed: [sym, q, by, ask, at], where at is
                      \* "open", "sold", "expired", or "stub" for a simulated fill
          call,       \* the callers' api.buy: [at, sym, q, ask, deal]
          sale        \* the liquidations: [at, left, count, error, reported]

connection == <<site, api, confirmed, dial, dials>>
gatewayVars == <<connection, lastTick, deal, call, sale>>

Idle == [at |-> "idle", sym |-> CHOOSE s \in Instruments : TRUE, q |-> 0, ask |-> 0, deal |-> 0]
NotSelling == [at |-> "absent", left |-> {}, count |-> 0, error |-> FALSE, reported |-> FALSE]

\* Both constructors refuse the environment of the other.
GatewayInit ==
    /\ site \in Sites
    /\ api = "none" /\ confirmed = FALSE /\ dial = "idle" /\ dials = 0
    /\ lastTick = [n \in Names |-> NoQuote]
    /\ deal = <<>>
    /\ call = [t \in Callers |-> Idle]
    /\ sale = [h \in Sellers |-> NotSelling]
-----------------------------------------------------------------------------
\* connect up to its await: without the package a stub, or a refusal, in which
\* self.api stays None; otherwise self.api is replaced by a new connection, and
\* the confirmation of an earlier one is kept.
Connect ==
    /\ dial = "idle" /\ dials < MaxDials
    /\ dials' = dials + 1
    /\ IF site.sdk THEN dial' = "authorising" /\ api' = "open" ELSE UNCHANGED <<dial, api>>
    /\ UNCHANGED <<site, confirmed, lastTick, deal, call, sale>>

\* authorize answers with the accounts of the token, or raises.  The token's own
\* account may be missing from account_list: it is then not taken for virtual.
AuthorizeReply ==
    /\ dial = "authorising"
    /\ dial' = "idle"
    /\ \/ UNCHANGED confirmed
       \/ \E listed \in BOOLEAN :
             confirmed' = (confirmed \/ (site.virtual /\ listed) = ~site.live)
    /\ UNCHANGED <<site, api, dials, lastTick, deal, call, sale>>

GatewayTick(s, k) == lastTick' = [lastTick EXCEPT ![NameOf[s]] = Tick(s, k)]
\* _last_ticks.get(symbol.name): a tick of s, or of its namesake.
TickFor(s) == lastTick[NameOf[s]]

\* _last_price: ask at a purchase, bid at a sale.
ExecutionPrice(s, q) == IF q > 0 THEN TickFor(s).ask ELSE TickFor(s).bid

\* Slip: the test of the confirmation is dropped.
CannotExecuteUnchecked(s) == TickFor(s) = NoQuote

\* submit_order raises before anything is sent: SecurityError on a connection
\* that was not confirmed, NoMarketDataError without a quotation.
CannotExecute(s) == (api # "none" /\ ~confirmed) \/ TickFor(s) = NoQuote

\* submit_order up to api.buy, a CALL for a purchase, a PUT for a sale.
Buying(t, s, q, ask) ==
    /\ api # "none"
    /\ call' = [call EXCEPT ![t] = [at |-> "sent", sym |-> s, q |-> q, ask |-> ask, deal |-> 0]]
    /\ UNCHANGED deal

\* Without a connection the order is filled at the last quotation.
StubDeal(t, s, q, ask) ==
    /\ api = "none"
    /\ deal' = Append(deal, [sym |-> s, q |-> q, by |-> t, ask |-> ask, at |-> "stub"])
    /\ UNCHANGED call

Contracts == {i \in DOMAIN deal : deal[i].at # "stub"}
OpenContracts == {i \in DOMAIN deal : deal[i].at = "open"}

\* External: Deriv opens the contract or refuses, for lack of authorisation or of
\* anything else, whether or not somebody still waits for the answer.
DerivBuys(t) ==
    /\ call[t].at = "sent"
    /\ \/ /\ Len(deal) < MaxContracts
          /\ deal' = Append(deal, [sym |-> call[t].sym, q |-> call[t].q, by |-> t,
                                   ask |-> call[t].ask, at |-> "open"])
          /\ call' = [call EXCEPT ![t].at = "bought", ![t].deal = Len(deal) + 1]
       \/ call' = [call EXCEPT ![t].at = "refused"] /\ UNCHANGED deal
    /\ UNCHANGED <<connection, lastTick, sale>>

\* External: a contract of five ticks ends by itself.
Expire(i) ==
    /\ deal[i].at = "open"
    /\ deal' = [deal EXCEPT ![i].at = "expired"]
    /\ UNCHANGED <<connection, lastTick, call, sale>>
-----------------------------------------------------------------------------
\* cancel_all_orders, then close_all_positions: the same code twice, and both
\* sell.  "listing" and "selling" carry the phase.
Over(x) == [x EXCEPT !.at = "over", !.left = {}]
NextPhase(x) == IF x.at \in {"listing1", "selling1"}
                THEN [x EXCEPT !.at = "listing2", !.left = {}] ELSE Over(x)

\* What reaches emergency_halt of an exception of the API: the gateway logs it
\* and returns its count.
Propagates == FALSE

\* A phase that fails; error is a history of it, reported what HaltReport says.
Failed(x) == [NextPhase(x) EXCEPT !.error = TRUE, !.reported = @ \/ Propagates]

\* Without a connection both are mocks that return at once.
Liquidation(h) == [sale EXCEPT ![h] = IF api = "none" THEN Over(@) ELSE [@ EXCEPT !.at = "listing1"]]

\* api.portfolio() answers with the open contracts, or raises: swallowed, and
\* the count so far is what the phase returns.
PortfolioReply(h) ==
    /\ sale[h].at \in {"listing1", "listing2"}
    /\ \/ sale' = [sale EXCEPT ![h] =
             IF OpenContracts = {} THEN NextPhase(@)
             ELSE [sale[h] EXCEPT !.at = IF @ = "listing1" THEN "selling1" ELSE "selling2",
                                  !.left = OpenContracts]]
       \/ sale' = [sale EXCEPT ![h] = Failed(@)]
    /\ UNCHANGED <<connection, lastTick, deal, call>>

\* Slip: a sale is counted before it is asked for.
SellReplyCountedFirst(h) ==
    \E i \in sale[h].left :
       /\ IF deal[i].at = "open"
          THEN deal' = [deal EXCEPT ![i].at = "sold"]
          ELSE UNCHANGED deal
       /\ sale' = [sale EXCEPT ![h] =
             LET counted == [@ EXCEPT !.count = @ + 1, !.left = @ \ {i}]
             IN  IF deal' = deal THEN Failed(counted)
                 ELSE IF counted.left = {} THEN NextPhase(counted) ELSE counted]
       /\ UNCHANGED <<connection, lastTick, call>>

\* One api.sell: the contract is sold and counted; or the call raises (the
\* contract is no longer open, or the answer is lost after or before the sale)
\* and the rest of the list is abandoned.
SellReply(h) ==
    \E i \in sale[h].left :
       LET open == deal[i].at = "open"
           sold == [deal EXCEPT ![i].at = "sold"]
           counted == [sale[h] EXCEPT !.count = @ + 1, !.left = @ \ {i}]
       IN  /\ \/ /\ open
                 /\ deal' = sold
                 /\ sale' = [sale EXCEPT ![h] =
                       IF counted.left = {} THEN NextPhase(counted) ELSE counted]
              \/ /\ deal' \in {deal} \cup (IF open THEN {sold} ELSE {})
                 /\ sale' = [sale EXCEPT ![h] = Failed(@)]
           /\ UNCHANGED <<connection, lastTick, call>>

LiquidationStep(h) == PortfolioReply(h) \/ SellReply(h)
=============================================================================

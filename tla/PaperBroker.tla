----------------------------- MODULE PaperBroker -----------------------------
(***************************************************************************)
(* PaperBroker (infrastructure/paper/broker.py): its own account and the   *)
(* coroutine submit_order, cut at its awaits.  Several tasks may be inside *)
(* submit_order at once; asyncio runs one of them at a time and switches   *)
(* only at an await, so one action below is the code from one await that   *)
(* can suspend to the next.  `at` is where the call for an order stands:   *)
(*                                                                         *)
(*   submitted  SUBMITTED is being published                               *)
(*   accepted   ACCEPTED is being published, then the latency is slept     *)
(*   debited    the USD balance is written, AccountEvent being published   *)
(*   moved      the position is written, PositionEvent being published     *)
(*   filled     FILLED is being published                                  *)
(*   rejected   REJECTED is being published                                *)
(*   reported, refused   the report is saved and returned to the caller    *)
(*                                                                         *)
(* The caller's continuation runs in the same step as the return, so the   *)
(* module that composes the broker with its callers uses Returned in its   *)
(* own actions.  Only market orders exist; slippage is a constant against the  *)
(* order and the commission is flat, the models of paper/models.py.        *)
(***************************************************************************)
EXTENDS Money

CONSTANTS Tasks,         \* coroutines that may call submit_order
          BrokerSymbols,
          StartBalance,  \* USD of the account
          StartPrice,    \* _current_market_price before the first bar
          Slip,          \* ConstantSlippageModel.slippage_amount
          FlatFee,       \* FixedCommissionModel.flat_fee
          MaxOrders,     \* bound: orders created
          NoTask

ASSUME BrokerAssumption ==
    /\ StartBalance \in Nat /\ StartPrice \in Nat /\ Slip \in Nat /\ FlatFee \in Nat
    /\ MaxOrders \in Nat
    /\ NoTask \notin Tasks
    /\ BrokerSymbols # {}

VARIABLES usd,           \* account.balances["USD"].available (and .total)
          held,          \* account.positions[s].volume
          entry,         \* account.positions[s].average_price
          market,        \* _current_market_price: one price, whatever the symbol
          order,         \* the PaperOrder numbered i in creation order
          created,       \* how many there are
          cur            \* the order a task is submitting, 0 outside the call

accountVars == <<usd, held, entry>>
callVars == <<order, created, cur>>
brokerVars == <<accountVars, market, callVars>>

OrderIds == 1 .. MaxOrders
Made == 1 .. created
Stages == {"none", "submitted", "accepted", "debited", "moved", "filled", "rejected",
           "reported", "refused"}

\* `by` is the task that submits, qty is signed, px is the execution price.
Orders == [by : Tasks \cup {NoTask}, sym : BrokerSymbols, qty : Int, px : Int, at : Stages]
Blank == [by |-> NoTask, sym |-> CHOOSE s \in BrokerSymbols : TRUE, qty |-> 0, px |-> 0,
          at |-> "none"]

BrokerInit ==
    /\ usd = StartBalance
    /\ held = [s \in BrokerSymbols |-> 0]
    /\ entry = [s \in BrokerSymbols |-> 0]
    /\ market = StartPrice
    /\ order = [i \in OrderIds |-> Blank]
    /\ created = 0
    /\ cur = [t \in Tasks |-> 0]

\* A task builds a PaperOrder of q signed units and enters submit_order, which
\* runs up to the publication of SUBMITTED; orders is the book it is added to.
SubmitOn(orders, t, s, q) ==
    /\ created < MaxOrders
    /\ created' = created + 1
    /\ order' = [orders EXCEPT ![created + 1] =
                    [by |-> t, sym |-> s, qty |-> q, px |-> 0, at |-> "submitted"]]
    /\ cur' = [cur EXCEPT ![t] = created + 1]

InCall(t) == cur[t] # 0
At(t, stage) == InCall(t) /\ order[cur[t]].at = stage
Enter(t, stage) == order' = [order EXCEPT ![cur[t]].at = stage]

\* The margin check: a purchase must be covered at the current market price,
\* before latency, slippage and commission.
Affordable(o) == o.qty > 0 => usd >= o.qty * market

\* Slip: an order the balance cannot cover is held instead of refused.
AcceptOrHold(t) ==
    /\ At(t, "submitted")
    /\ Affordable(order[cur[t]])
    /\ Enter(t, "accepted")
    /\ UNCHANGED <<accountVars, market, created, cur>>

Accept(t) ==
    /\ At(t, "submitted")
    /\ Enter(t, IF Affordable(order[cur[t]]) THEN "accepted" ELSE "rejected")
    /\ UNCHANGED <<accountVars, market, created, cur>>

ExecutionPrice(o) == IF o.qty > 0 THEN market + Slip ELSE market - Slip

\* After the latency: price, commission, and the balance half of _apply_fill.
Debit(t) ==
    /\ At(t, "accepted")
    /\ LET o == order[cur[t]]
           px == ExecutionPrice(o)
       IN  /\ usd' = usd - o.qty * px - FlatFee
           /\ order' = [order EXCEPT ![cur[t]] = [o EXCEPT !.px = px, !.at = "debited"]]
    /\ UNCHANGED <<held, entry, market, created, cur>>

\* Average price of the account's position: a sale leaves it, a purchase
\* averages over the signed volume and resets it when nothing is left long.
EntryAfter(o) ==
    LET v == held[o.sym] + o.qty
    IN  IF o.qty < 0 THEN entry[o.sym]
        ELSE IF v > 0 THEN RoundDiv(held[o.sym] * entry[o.sym] + o.qty * o.px, v)
        ELSE 0

\* The position half of _apply_fill, after AccountEvent is out.
MovePosition(t) ==
    /\ At(t, "debited")
    /\ LET o == order[cur[t]]
       IN  /\ held' = [held EXCEPT ![o.sym] = @ + o.qty]
           /\ entry' = [entry EXCEPT ![o.sym] = EntryAfter(o)]
    /\ Enter(t, "moved")
    /\ UNCHANGED <<usd, market, created, cur>>

MarkFilled(t) ==
    /\ At(t, "moved")
    /\ Enter(t, "filled")
    /\ UNCHANGED <<accountVars, market, created, cur>>

\* Slip: only an executed order returns.
ReturningFilled(t) == At(t, "filled")

\* The book once the report of t's order is saved and submit_order returns it.
Returning(t) == At(t, "filled") \/ At(t, "rejected")
Returned(t) ==
    [order EXCEPT ![cur[t]].at = IF At(t, "filled") THEN "reported" ELSE "refused"]

BrokerStep(t) == Accept(t) \/ Debit(t) \/ MovePosition(t) \/ MarkFilled(t)
-----------------------------------------------------------------------------
BrokerTypeOK ==
    /\ usd \in Int /\ market \in Nat
    /\ held \in [BrokerSymbols -> Int]
    /\ entry \in [BrokerSymbols -> Int]
    /\ created \in 0 .. MaxOrders
    /\ order \in [OrderIds -> Orders]
    /\ cur \in [Tasks -> 0 .. created]
=============================================================================

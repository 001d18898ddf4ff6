------------------------ MODULE PaperSession_proofs ------------------------
(***************************************************************************)
(* The kill switch is final, and the broker's account and the risk         *)
(* portfolio differ by the orders in flight, for any number of feeds,      *)
(* clients, kill switches, instruments and orders.                         *)
(*                                                                         *)
(* HaltIsFinal is not inductive: it says nothing of a session that is not  *)
(* halted, nor of which orders exist when the flag is raised.  HaltInv     *)
(* adds that atHalt keeps its initial value, the largest order number,     *)
(* until the flag is raised; that orders keep their author is a fact of    *)
(* each step, which needs the type of the order book.                      *)
(*                                                                         *)
(* BooksAgree sums over the orders.  What each of them still owes the      *)
(* portfolio is a function of its record alone, a step changes one record, *)
(* so a sum changes by what that order owed; LedgersInv adds that a task   *)
(* is at work on an order of its own, so that two tasks share none.        *)
(*                                                                         *)
(* ApprovedConcentrationHolds is about an order that has ended; what makes *)
(* it true is that, while the order is in flight and no other client has   *)
(* touched its symbol, its approval still holds (ApprovalInv).             *)
(***************************************************************************)
EXTENDS PaperSession, Portfolio_proofs, TLAPS

\* The state types the order book depends on.
CallTypeOK ==
    /\ BrokerTypeOK
    /\ todo \in [Halts -> [Symbols -> Int]]
    /\ atHalt \in 0 .. MaxOrders

HaltInv ==
    /\ CallTypeOK
    /\ halted \in BOOLEAN
    /\ ~halted => atHalt = MaxOrders
    /\ HaltIsFinal

\* What a step may do to the order book: no order is created, and those there
\* are keep their author.
NothingCreated ==
    /\ created' = created
    /\ cur' \in [Tasks -> 0 .. created]
    /\ order' \in [OrderIds -> Orders]
    /\ \A i \in OrderIds : order'[i].by = order[i].by

\* Or the next order is created, with the task t as its author.
CreatedBy(t) ==
    /\ created < MaxOrders
    /\ created' = created + 1
    /\ cur' \in [Tasks -> 0 .. created']
    /\ order' \in [OrderIds -> Orders]
    /\ \A i \in Made : order'[i].by = order[i].by
    /\ order'[created'].by = t

-----------------------------------------------------------------------------
\* The division of the broker's average price yields an integer.
LEMMA RoundDivInteger ==
    ASSUME NEW a \in Int, NEW b \in Nat \ {0}
    PROVE  RoundDiv(a, b) \in Int
  BY DEF RoundDiv

\* Orders that exist are orders of the book.
LEMMA MadeAreIds == ASSUME CallTypeOK PROVE Made \subseteq OrderIds
  BY BrokerAssumption DEF CallTypeOK, BrokerTypeOK, Made, OrderIds

\* The order a task is submitting exists.
LEMMA SubmittingMade ==
    ASSUME CallTypeOK, NEW t \in Tasks, InCall(t)
    PROVE  cur[t] \in Made
<1>1. cur[t] \in 0 .. created /\ cur[t] # 0 /\ created \in Int
  BY BrokerAssumption DEF CallTypeOK, BrokerTypeOK, InCall
<1> QED
  BY <1>1 DEF Made

\* An order moved to another stage of submit_order keeps its author.
LEMMA StageKeepsAuthor ==
    ASSUME CallTypeOK, NEW i \in OrderIds, NEW stage \in Stages
    PROVE  LET after == [order EXCEPT ![i].at = stage]
           IN  /\ after \in [OrderIds -> Orders]
               /\ \A k \in OrderIds : after[k].by = order[k].by
<1>1. order \in [OrderIds -> Orders]
  BY DEF CallTypeOK, BrokerTypeOK
<1>2. /\ [order[i] EXCEPT !.at = stage] \in Orders
      /\ [order[i] EXCEPT !.at = stage].by = order[i].by
  BY <1>1 DEF Orders
<1> QED
  BY <1>1, <1>2

\* A task that submits is the author of the one order created.
LEMMA SubmitCreates ==
    ASSUME CallTypeOK, NEW t \in Tasks, NEW s \in Symbols, NEW q \in Int, NEW orders,
           orders \in [OrderIds -> Orders],
           \A i \in OrderIds : orders[i].by = order[i].by,
           SubmitOn(orders, t, s, q)
    PROVE  CreatedBy(t)
<1> DEFINE new == [by |-> t, sym |-> s, qty |-> q, px |-> 0, at |-> "submitted"]
<1>1. created \in Nat /\ created + 1 \in OrderIds /\ created + 1 \notin Made
  BY BrokerAssumption DEF CallTypeOK, BrokerTypeOK, OrderIds, Made, SubmitOn
<1>2. new \in Orders
  BY SessionAssumption DEF Orders, Stages
<1>3. order' = [orders EXCEPT ![created + 1] = new]
  BY DEF SubmitOn
<1>4. order' \in [OrderIds -> Orders]
  BY <1>1, <1>2, <1>3
<1>5. order'[created + 1].by = t
  BY <1>1, <1>3
<1>6. \A i \in Made : order'[i].by = order[i].by
  <2> SUFFICES ASSUME NEW i \in Made PROVE order'[i].by = order[i].by
    OBVIOUS
  <2>1. i \in OrderIds /\ i # created + 1
    BY <1>1, MadeAreIds
  <2> QED
    BY <1>3, <2>1
<1>7. cur' \in [Tasks -> 0 .. created']
  <2>1. cur' = [cur EXCEPT ![t] = created + 1] /\ created' = created + 1
    BY DEF SubmitOn
  <2>2. cur \in [Tasks -> 0 .. created + 1]
    BY <1>1 DEF CallTypeOK, BrokerTypeOK
  <2> QED
    BY <1>1, <2>1, <2>2
<1> QED
  BY <1>4, <1>5, <1>6, <1>7 DEF SubmitOn, CreatedBy

\* Inside submit_order no order is created, and the account keeps its type.
LEMMA BrokerCreatesNothing ==
    ASSUME CallTypeOK, NEW t \in Tasks, BrokerStep(t)
    PROVE  NothingCreated /\ BrokerTypeOK'
<1>1. created' = created /\ cur' = cur /\ market' = market
  BY DEF BrokerStep, Accept, Debit, MovePosition, MarkFilled
<1>2. cur[t] \in OrderIds
  BY SubmittingMade, MadeAreIds DEF BrokerStep, Accept, Debit, MovePosition, MarkFilled, At
<1>3. order \in [OrderIds -> Orders] /\ order[cur[t]] \in Orders
  BY <1>2 DEF CallTypeOK, BrokerTypeOK
<1>4. order[cur[t]].qty \in Int /\ order[cur[t]].px \in Int /\ order[cur[t]].sym \in BrokerSymbols
  BY <1>3 DEF Orders
<1>5. CASE Debit(t)
  <2> DEFINE px == ExecutionPrice(order[cur[t]])
             new == [order[cur[t]] EXCEPT !.px = px, !.at = "debited"]
  <2>1. px \in Int
    BY BrokerAssumption DEF ExecutionPrice, CallTypeOK, BrokerTypeOK
  <2>2. order' = [order EXCEPT ![cur[t]] = new]
    BY <1>5 DEF Debit
  <2>3. new \in Orders /\ new.by = order[cur[t]].by
    BY <1>3, <2>1 DEF Orders, Stages
  <2>4. order' \in [OrderIds -> Orders] /\ \A k \in OrderIds : order'[k].by = order[k].by
    BY <1>2, <1>3, <2>2, <2>3
  <2>5. usd' = usd - order[cur[t]].qty * px - FlatFee
    BY <1>5 DEF Debit
  <2>6. usd' \in Int
    BY <1>4, <2>1, <2>5, BrokerAssumption DEF CallTypeOK, BrokerTypeOK
  <2>7. held' = held /\ entry' = entry
    BY <1>5 DEF Debit
  <2> QED
    BY <1>1, <2>4, <2>6, <2>7 DEF NothingCreated, CallTypeOK, BrokerTypeOK
<1>6. CASE Accept(t) \/ MovePosition(t) \/ MarkFilled(t)
  <2>1. PICK stage \in Stages : order' = [order EXCEPT ![cur[t]].at = stage]
    BY <1>6 DEF Accept, MovePosition, MarkFilled, Enter, Stages
  <2>2. order' \in [OrderIds -> Orders] /\ \A k \in OrderIds : order'[k].by = order[k].by
    BY <1>2, <2>1, StageKeepsAuthor
  <2>3. usd' \in Int
    BY <1>6 DEF Accept, MovePosition, MarkFilled, accountVars, CallTypeOK, BrokerTypeOK
  <2>4. held' \in [BrokerSymbols -> Int] /\ entry' \in [BrokerSymbols -> Int]
    <3>1. CASE MovePosition(t)
      <4> DEFINE o == order[cur[t]]
      <4>1. EntryAfter(o) \in Int
        BY <1>4, RoundDivInteger DEF EntryAfter, CallTypeOK, BrokerTypeOK
      <4>2. /\ held' = [held EXCEPT ![o.sym] = held[o.sym] + o.qty]
            /\ entry' = [entry EXCEPT ![o.sym] = EntryAfter(o)]
        BY <3>1 DEF MovePosition
      <4> QED
        BY <1>4, <4>1, <4>2 DEF CallTypeOK, BrokerTypeOK
    <3>2. CASE Accept(t) \/ MarkFilled(t)
      BY <3>2 DEF Accept, MarkFilled, accountVars, CallTypeOK, BrokerTypeOK
    <3> QED
      BY <1>6, <3>1, <3>2
  <2> QED
    BY <1>1, <2>2, <2>3, <2>4 DEF NothingCreated, CallTypeOK, BrokerTypeOK
<1> QED
  BY <1>5, <1>6 DEF BrokerStep
-----------------------------------------------------------------------------
\* A step that leaves the calls into the broker alone creates nothing.
LEMMA IdleCreatesNothing ==
    ASSUME CallTypeOK, UNCHANGED callVars
    PROVE  NothingCreated
  BY DEF CallTypeOK, BrokerTypeOK, NothingCreated, callVars

\* A report that is saved keeps its order's author.
LEMMA ReturnKeepsAuthor ==
    ASSUME CallTypeOK, NEW t \in Tasks, InCall(t)
    PROVE  /\ Returned(t) \in [OrderIds -> Orders]
           /\ \A k \in OrderIds : Returned(t)[k].by = order[k].by
<1>1. cur[t] \in OrderIds
  BY SubmittingMade, MadeAreIds
<1> DEFINE stage == IF At(t, "filled") THEN "reported" ELSE "refused"
<1>2. stage \in Stages
  BY DEF Stages
<1>3. Returned(t) = [order EXCEPT ![cur[t]].at = stage]
  BY DEF Returned
<1> HIDE DEF stage
<1> QED
  BY <1>1, <1>2, <1>3, StageKeepsAuthor

\* From one submission of close_all_positions to the next, at most one order is
\* created, by the kill switch itself.
LEMMA LiquidationCreates ==
    ASSUME CallTypeOK, NEW h \in Halts, NEW left \in [Symbols -> Int], NEW orders,
           orders \in [OrderIds -> Orders],
           \A i \in OrderIds : orders[i].by = order[i].by,
           Liquidate(h, left, orders)
    PROVE  (NothingCreated \/ CreatedBy(h)) /\ todo' \in [Halts -> [Symbols -> Int]]
<1>1. h \in Tasks
  BY SessionAssumption
<1>2. CASE \A s \in Symbols : left[s] = 0
  <2>1. /\ order' = orders
        /\ cur' = [cur EXCEPT ![h] = 0]
        /\ created' = created
        /\ todo' = [todo EXCEPT ![h] = left]
    BY <1>2 DEF Liquidate
  <2>2. cur \in [Tasks -> 0 .. created] /\ 0 \in 0 .. created
    BY BrokerAssumption DEF CallTypeOK, BrokerTypeOK
  <2>3. cur' \in [Tasks -> 0 .. created]
    BY <2>1, <2>2
  <2> QED
    BY <2>1, <2>3 DEF NothingCreated, CallTypeOK
<1>3. CASE ~ \A s \in Symbols : left[s] = 0
  <2>1. PICK s \in Symbols :
            /\ todo' = [todo EXCEPT ![h] = [left EXCEPT ![s] = 0]]
            /\ SubmitOn(orders, h, s, -left[s])
    BY <1>3 DEF Liquidate
  <2>2. -left[s] \in Int
    OBVIOUS
  <2>3. CreatedBy(h)
    BY <1>1, <2>1, <2>2, SubmitCreates
  <2>4. todo' \in [Halts -> [Symbols -> Int]]
    BY <2>1 DEF CallTypeOK
  <2> QED
    BY <2>3, <2>4
<1> QED
  BY <1>2, <1>3

\* The gate: a client that creates an order does it in a session not halted.
LEMMA ClientCreates ==
    ASSUME CallTypeOK, NEW t \in Clients, NEW s \in Symbols, NEW q \in Int, NEW table,
           ClientSubmit(t, s, q, table)
    PROVE  CreatedBy(t) /\ ~halted
<1>1. t \in Tasks
  BY SessionAssumption DEF Clients
<1>2. SubmitOn(order, t, s, q) /\ ~halted
  BY DEF ClientSubmit, ValidateOrder
<1>3. order \in [OrderIds -> Orders]
  BY DEF CallTypeOK, BrokerTypeOK
<1> QED
  BY <1>1, <1>2, <1>3, SubmitCreates

\* What each kind of step does to the order book and to the halt flag.
NobodySubmits == NothingCreated /\ UNCHANGED <<halted, atHalt>>
ClientSubmits == ~halted /\ UNCHANGED <<halted, atHalt>> /\ \E t \in Clients : CreatedBy(t)
HaltGoesOn ==
    /\ UNCHANGED <<halted, atHalt>>
    /\ NothingCreated \/ \E h \in Halts : CreatedBy(h)
HaltEngages ==
    /\ halted' = TRUE
    /\ atHalt' = IF halted THEN atHalt ELSE created
    /\ NothingCreated \/ \E h \in Halts : CreatedBy(h)
StepKind == NobodySubmits \/ ClientSubmits \/ HaltGoesOn \/ HaltEngages

\* The kinds keep the types the book depends on.
LEMMA KindKeepsCallTypes ==
    ASSUME CallTypeOK, StepKind,
           usd' \in Int, market' \in Nat,
           held' \in [BrokerSymbols -> Int], entry' \in [BrokerSymbols -> Int],
           todo' \in [Halts -> [Symbols -> Int]]
    PROVE  CallTypeOK'
<1>1. NothingCreated \/ \E t \in Tasks : CreatedBy(t)
  BY SessionAssumption DEF StepKind, NobodySubmits, ClientSubmits, HaltGoesOn, HaltEngages, Clients
<1>2. created' \in 0 .. MaxOrders /\ cur' \in [Tasks -> 0 .. created']
  BY <1>1, BrokerAssumption DEF NothingCreated, CreatedBy, CallTypeOK, BrokerTypeOK
<1>3. order' \in [OrderIds -> Orders]
  BY <1>1 DEF NothingCreated, CreatedBy
<1>4. atHalt' \in 0 .. MaxOrders
  BY DEF StepKind, NobodySubmits, ClientSubmits, HaltGoesOn, HaltEngages, CallTypeOK, BrokerTypeOK
<1> QED
  BY <1>2, <1>3, <1>4 DEF CallTypeOK, BrokerTypeOK

\* The kinds keep the kill switch final.
LEMMA KindKeepsHaltFinal ==
    ASSUME HaltInv, StepKind
    PROVE  /\ halted' \in BOOLEAN
           /\ ~halted' => atHalt' = MaxOrders
           /\ HaltIsFinal'
<1>1. created \in Nat /\ created <= MaxOrders /\ atHalt \in Nat /\ MaxOrders \in Nat
  BY BrokerAssumption DEF HaltInv, CallTypeOK, BrokerTypeOK
<1>2. Made \subseteq OrderIds
  BY MadeAreIds DEF HaltInv
<1>3. \A i \in Made : i > atHalt => order[i].by \in Halts
  BY DEF HaltInv, HaltIsFinal
<1>4. CASE NobodySubmits
  BY <1>1, <1>2, <1>3, <1>4 DEF NobodySubmits, NothingCreated, HaltInv, HaltIsFinal, Made
<1>5. CASE ClientSubmits
  <2>1. atHalt' = MaxOrders /\ created' <= MaxOrders /\ created' \in Nat
    BY <1>1, <1>5 DEF ClientSubmits, CreatedBy, HaltInv
  <2> QED
    BY <1>1, <1>5, <2>1 DEF ClientSubmits, HaltInv, HaltIsFinal, Made
<1>6. CASE HaltGoesOn
  <2>1. CASE NothingCreated
    BY <1>1, <1>2, <1>3, <1>6, <2>1 DEF HaltGoesOn, NothingCreated, HaltInv, HaltIsFinal, Made
  <2>2. CASE \E h \in Halts : CreatedBy(h)
    BY <1>1, <1>2, <1>3, <1>6, <2>2 DEF HaltGoesOn, CreatedBy, HaltInv, HaltIsFinal, Made
  <2> QED
    BY <1>6, <2>1, <2>2 DEF HaltGoesOn
<1>7. CASE HaltEngages
  <2>1. halted' = TRUE /\ atHalt' = IF halted THEN atHalt ELSE created
    BY <1>7 DEF HaltEngages
  <2>2. \A i \in Made : i > atHalt' => order[i].by \in Halts
    BY <1>1, <1>3, <2>1 DEF Made
  <2>3. CASE NothingCreated
    BY <1>1, <1>2, <2>1, <2>2, <2>3 DEF NothingCreated, HaltIsFinal, Made
  <2>4. CASE \E h \in Halts : CreatedBy(h)
    BY <1>1, <1>2, <2>1, <2>2, <2>4 DEF CreatedBy, HaltIsFinal, Made
  <2> QED
    BY <1>7, <2>1, <2>3, <2>4 DEF HaltEngages
<1> QED
  BY <1>4, <1>5, <1>6, <1>7 DEF StepKind
-----------------------------------------------------------------------------
\* The part of the state the order book's types depend on, after a step.
AccountTyped ==
    /\ usd' \in Int /\ market' \in Nat
    /\ held' \in [BrokerSymbols -> Int] /\ entry' \in [BrokerSymbols -> Int]
    /\ todo' \in [Halts -> [Symbols -> Int]]

\* Start, stop, bars and close requests.
LEMMA FeedAndApiSteps ==
    ASSUME CallTypeOK,
           \/ \E f \in Feeds : FeedStep(f)
           \/ Stop
           \/ \E c \in Closers, s \in Symbols : CloseRequest(c, s)
    PROVE  StepKind /\ AccountTyped
<1> USE SessionAssumption, PortfolioAssumption
<1>1. CASE Stop
  <2>1. /\ UNCHANGED <<halted, accountVars, market, order, created, todo, atHalt>>
        /\ cur' = [cur EXCEPT ![feedTask] = 0]
    BY <1>1 DEF Stop, historyOfSession
  <2>2. cur' \in [Tasks -> 0 .. created]
    <3>1. cur \in [Tasks -> 0 .. created] /\ 0 \in 0 .. created
      BY BrokerAssumption DEF CallTypeOK, BrokerTypeOK
    <3> QED
      BY <2>1, <3>1
  <2>3. NobodySubmits
    BY <2>1, <2>2 DEF NobodySubmits, NothingCreated, CallTypeOK, BrokerTypeOK
  <2> QED
    BY <2>1, <2>3 DEF StepKind, AccountTyped, accountVars, CallTypeOK, BrokerTypeOK
<1>2. CASE \E c \in Closers, s \in Symbols : CloseRequest(c, s)
  <2>1. PICK c \in Closers, s \in Symbols : CloseRequest(c, s)
    BY <1>2
  <2>2. /\ ClientSubmit(c, s, -held[s], Quoted(s, entry[s]))
        /\ UNCHANGED <<halted, accountVars, market, todo, atHalt>>
    BY <2>1 DEF CloseRequest
  <2>3. -held[s] \in Int /\ c \in Clients
    BY DEF CallTypeOK, BrokerTypeOK, Clients
  <2>4. CreatedBy(c) /\ ~halted
    BY <2>2, <2>3, ClientCreates
  <2> QED
    BY <2>2, <2>3, <2>4
    DEF ClientSubmits, StepKind, AccountTyped, accountVars, CallTypeOK, BrokerTypeOK
<1>3. CASE \E f \in Feeds : FeedStep(f)
  <2>1. PICK f \in Feeds : FeedStep(f)
    BY <1>3
  <2>2. CASE Start(f) \/ FeedEnds(f)
    <3>1. UNCHANGED <<halted, brokerVars, todo, atHalt>>
      BY <2>2 DEF Start, FeedEnds, historyOfSession
    <3>2. NothingCreated
      BY <3>1, IdleCreatesNothing DEF brokerVars
    <3> QED
      BY <3>1, <3>2 DEF StepKind, NobodySubmits, AccountTyped, brokerVars, accountVars,
                        CallTypeOK, BrokerTypeOK
  <2>3. ASSUME NEW s \in Symbols, NEW p \in Prices, QuietBar(f, s, p) \/ BarFails(f, s, p)
        PROVE  StepKind /\ AccountTyped
    <3>1. UNCHANGED <<halted, accountVars, callVars, todo, atHalt>> /\ market' = p
      BY <2>3 DEF QuietBar, BarFails, Observe, historyOfSession
    <3>2. NothingCreated
      BY <3>1, IdleCreatesNothing
    <3> QED
      BY <3>1, <3>2 DEF StepKind, NobodySubmits, AccountTyped, accountVars,
                        CallTypeOK, BrokerTypeOK
  <2>4. ASSUME NEW s \in Symbols, NEW p \in Prices, NEW q \in SignedVolumes,
               OrderBar(f, s, p, q)
        PROVE  StepKind /\ AccountTyped
    <3>1. /\ ClientSubmit(f, s, q, Quoted(s, p))
          /\ UNCHANGED <<halted, accountVars, todo, atHalt>>
          /\ market' = p
      BY <2>4 DEF OrderBar, Observe
    <3>2. q \in Int /\ f \in Clients
      BY DEF SignedVolumes, Clients
    <3>3. CreatedBy(f) /\ ~halted
      BY <3>1, <3>2, ClientCreates
    <3> QED
      BY <3>1, <3>2, <3>3
      DEF ClientSubmits, StepKind, AccountTyped, accountVars, CallTypeOK, BrokerTypeOK
  <2> QED
    BY <2>1, <2>2, <2>3, <2>4 DEF FeedStep
<1> QED
  BY <1>1, <1>2, <1>3

\* Steps inside the broker, returns to a client, and the kill switch's.
LEMMA TaskAndHaltSteps ==
    ASSUME CallTypeOK,
           (\E h \in Halts : HaltStart(h)) \/ (\E t \in Tasks : TaskStep(t))
    PROVE  StepKind /\ AccountTyped
<1> USE SessionAssumption
<1>0. order \in [OrderIds -> Orders]
  BY DEF CallTypeOK, BrokerTypeOK
<1>1. CASE \E h \in Halts : HaltStart(h)
  <2>1. PICK h \in Halts : HaltStart(h)
    BY <1>1
  <2>2. held \in [Symbols -> Int]
    BY DEF CallTypeOK, BrokerTypeOK
  <2>3. Liquidate(h, held, order)
    BY <2>1 DEF HaltStart
  <2>4. (NothingCreated \/ CreatedBy(h)) /\ todo' \in [Halts -> [Symbols -> Int]]
    BY <1>0, <2>2, <2>3, LiquidationCreates
  <2> QED
    BY <2>1, <2>4 DEF HaltStart, HaltEngages, StepKind, AccountTyped, accountVars,
                      CallTypeOK, BrokerTypeOK
<1>2. CASE \E t \in Tasks : TaskStep(t)
  <2>1. PICK t \in Tasks : TaskStep(t)
    BY <1>2
  <2>2. CASE InsideBroker(t)
    <3>1. BrokerStep(t) /\ UNCHANGED <<halted, todo, atHalt>>
      BY <2>2 DEF InsideBroker, historyOfSession
    <3>2. NothingCreated /\ BrokerTypeOK'
      BY <3>1, BrokerCreatesNothing
    <3> QED
      BY <3>1, <3>2 DEF NobodySubmits, StepKind, AccountTyped, CallTypeOK, BrokerTypeOK
  <2>3. CASE ClientTold(t) \/ ClientRefused(t) \/ ClientUnbookable(t)
    <3>1. ClientReturn(t) /\ InCall(t)
      BY <2>3 DEF ClientTold, ClientRefused, ClientUnbookable, At
    <3>2. /\ order' = Returned(t)
          /\ cur' = [cur EXCEPT ![t] = 0]
          /\ UNCHANGED <<halted, accountVars, market, created, todo, atHalt>>
      BY <3>1 DEF ClientReturn
    <3>3. cur' \in [Tasks -> 0 .. created]
      BY <3>2, BrokerAssumption DEF CallTypeOK, BrokerTypeOK
    <3>4. NothingCreated
      BY <3>1, <3>2, <3>3, ReturnKeepsAuthor DEF NothingCreated
    <3> QED
      BY <3>2, <3>4 DEF NobodySubmits, StepKind, AccountTyped, accountVars,
                        CallTypeOK, BrokerTypeOK
  <2>4. CASE t \in Halts /\ HaltReturn(t)
    <3>1. /\ InCall(t)
          /\ Liquidate(t, todo[t], Returned(t))
          /\ UNCHANGED <<halted, accountVars, market, atHalt>>
      BY <2>4 DEF HaltReturn, Returning, At, historyOfSession
    <3>2. todo[t] \in [Symbols -> Int]
      BY <2>4 DEF CallTypeOK
    <3>3. (NothingCreated \/ CreatedBy(t)) /\ todo' \in [Halts -> [Symbols -> Int]]
      BY <2>4, <3>1, <3>2, ReturnKeepsAuthor, LiquidationCreates
    <3> QED
      BY <2>4, <3>1, <3>3 DEF HaltGoesOn, StepKind, AccountTyped, accountVars,
                        CallTypeOK, BrokerTypeOK
  <2> QED
    BY <2>1, <2>2, <2>3, <2>4 DEF TaskStep
<1> QED
  BY <1>1, <1>2

\* HaltInv holds of a session that has not started.
LEMMA HaltInitial == SessionInit => HaltInv
<1> SUFFICES ASSUME SessionInit PROVE HaltInv
  OBVIOUS
<1> USE SessionAssumption, BrokerAssumption
<1>1. Blank \in Orders
  BY DEF Blank, Orders, Stages
<1>2. created = 0 /\ MaxOrders \in Nat
  BY DEF SessionInit, BrokerInit
<1>3. BrokerTypeOK
  BY <1>1, <1>2 DEF SessionInit, BrokerInit, BrokerTypeOK, OrderIds
<1>4. HaltIsFinal
  BY <1>2 DEF HaltIsFinal, Made
<1>5. todo \in [Halts -> [Symbols -> Int]]
  BY DEF SessionInit
<1>6. halted = FALSE /\ atHalt = MaxOrders /\ MaxOrders \in 0 .. MaxOrders
  BY <1>2 DEF SessionInit
<1> QED
  BY <1>3, <1>4, <1>5, <1>6 DEF HaltInv, CallTypeOK

\* HaltInv is inductive.
LEMMA HaltInductive == HaltInv /\ [SessionNext]_sessionVars => HaltInv'
<1> SUFFICES ASSUME HaltInv, [SessionNext]_sessionVars PROVE HaltInv'
  OBVIOUS
<1>0. CallTypeOK
  BY DEF HaltInv
<1>1. CASE SessionNext
  <2>1. StepKind /\ AccountTyped
    BY <1>0, <1>1, FeedAndApiSteps, TaskAndHaltSteps DEF SessionNext
  <2>2. CallTypeOK'
    BY <1>0, <2>1, KindKeepsCallTypes DEF AccountTyped
  <2> QED
    BY <2>1, <2>2, KindKeepsHaltFinal DEF HaltInv
<1>2. CASE UNCHANGED sessionVars
  BY <1>2 DEF sessionVars, brokerVars, accountVars, callVars, controlVars, historyOfSession,
              HaltInv, CallTypeOK, BrokerTypeOK, HaltIsFinal, Made
<1> QED
  BY <1>1, <1>2

\* The kill switch is final: whatever is submitted, started, stopped, closed or
\* cancelled after emergency_halt, only the liquidation creates orders.
THEOREM KillSwitchIsFinal == SessionSpec => []HaltIsFinal
<1>1. HaltInv => HaltIsFinal
  BY DEF HaltInv
<1> QED
  BY <1>1, HaltInitial, HaltInductive, PTL DEF SessionSpec

\* The broker's account, its order book and its calls keep their types under
\* every interleaving of the session's tasks.
THEOREM BrokerStaysTyped == SessionSpec => []BrokerTypeOK
<1>1. HaltInv => BrokerTypeOK
  BY DEF HaltInv, CallTypeOK
<1> QED
  BY <1>1, HaltInitial, HaltInductive, PTL DEF SessionSpec
-----------------------------------------------------------------------------
\* What an order has done to the account's positions and to its balance that the
\* risk portfolio was not told.
ToldOf(o) == o.by \in Clients /\ o.at = "reported" /\ o.px > 0
UnitsOf(o, s) ==
    IF o.at \in {"moved", "filled", "reported"} /\ ~ToldOf(o) /\ o.sym = s THEN o.qty ELSE 0
PaidOf(o) ==
    IF o.at \in {"debited", "moved", "filled", "reported"} /\ ~ToldOf(o)
    THEN o.qty * o.px + FlatFee ELSE 0

Unit(i, s) == IF i \in Made THEN UnitsOf(order[i], s) ELSE 0
Paid(i) == IF i \in Made THEN PaidOf(order[i]) ELSE 0
Units(s) == [i \in OrderIds |-> Unit(i, s)]
Payments == [i \in OrderIds |-> Paid(i)]

\* The two books, and the numbers in them.
BookNumbers == cash \in Int /\ vol \in [Symbols -> Int] /\ avg \in [Symbols -> Int]
PositionsAgree == \A s \in Symbols : held[s] = vol[s] + SumOf(Units(s), OrderIds)
BalancesAgree == usd - StartBalance = cash - InitialCapital - SumOf(Payments, OrderIds)
\* A task submits its own order.
OwnOrders == \A t \in Tasks : InCall(t) => order[cur[t]].by = t

LedgersInv ==
    /\ CallTypeOK
    /\ BookNumbers
    /\ OwnOrders
    /\ PositionsAgree
    /\ BalancesAgree

\* What an order owes is a number.
LEMMA OwedTypes ==
    ASSUME NEW o \in Orders, NEW s
    PROVE  UnitsOf(o, s) \in Int /\ PaidOf(o) \in Int
<1>1. o.qty \in Int /\ o.px \in Int /\ FlatFee \in Int
  BY BrokerAssumption DEF Orders
<1>2. o.qty * o.px + FlatFee \in Int
  BY <1>1
<1> QED
  BY <1>1, <1>2 DEF UnitsOf, PaidOf

LEMMA OwedTyped ==
    ASSUME CallTypeOK, NEW s
    PROVE  \A i \in OrderIds : Unit(i, s) \in Int /\ Paid(i) \in Int
<1>1. order \in [OrderIds -> Orders]
  BY DEF CallTypeOK, BrokerTypeOK
<1>2. \A i \in OrderIds : UnitsOf(order[i], s) \in Int /\ PaidOf(order[i]) \in Int
  BY <1>1, OwedTypes
<1> QED
  BY <1>2 DEF Unit, Paid

LEMMA OrderIdsFinite == IsFiniteSet(OrderIds)
BY BrokerAssumption, FS_Interval DEF OrderIds

\* A step that changes what no order owes, and neither book.
LEMMA NothingOwed ==
    ASSUME PositionsAgree, BalancesAgree,
           \A i \in OrderIds : Paid(i)' = Paid(i) /\ \A s \in Symbols : Unit(i, s)' = Unit(i, s),
           usd' = usd, held' = held, cash' = cash, vol' = vol
    PROVE  PositionsAgree' /\ BalancesAgree'
<1>1. ASSUME NEW s \in Symbols PROVE SumOf(Units(s)', OrderIds) = SumOf(Units(s), OrderIds)
  <2> DEFINE F == Units(s)
             G == Units(s)'
  <2>1. \A i \in OrderIds : F[i] = G[i]
    BY DEF Units
  <2> HIDE DEF F, G
  <2>2. SumOf(F, OrderIds) = SumOf(G, OrderIds)
    BY <2>1, OrderIdsFinite, SumSame
  <2> QED
    BY <2>2 DEF F, G
<1>2. SumOf(Payments', OrderIds) = SumOf(Payments, OrderIds)
  <2> DEFINE F == Payments
             G == Payments'
  <2>1. \A i \in OrderIds : F[i] = G[i]
    BY DEF Payments
  <2> HIDE DEF F, G
  <2>2. SumOf(F, OrderIds) = SumOf(G, OrderIds)
    BY <2>1, OrderIdsFinite, SumSame
  <2> QED
    BY <2>2 DEF F, G
<1>3. OrderIds' = OrderIds
  BY DEF OrderIds
<1> QED
  BY <1>1, <1>2, <1>3 DEF PositionsAgree, BalancesAgree

\* A step that changes what one order owes.
LEMMA OneOwed ==
    ASSUME CallTypeOK, order' \in [OrderIds -> Orders], NEW k \in OrderIds,
           \A i \in OrderIds \ {k} :
               Paid(i)' = Paid(i) /\ \A s \in Symbols : Unit(i, s)' = Unit(i, s)
    PROVE  /\ SumOf(Payments', OrderIds) = SumOf(Payments, OrderIds) - Paid(k) + Paid(k)'
           /\ \A s \in Symbols : SumOf(Units(s)', OrderIds)
                                    = SumOf(Units(s), OrderIds) - Unit(k, s) + Unit(k, s)'
           /\ SumOf(Payments, OrderIds) \in Int
           /\ \A s \in Symbols : SumOf(Units(s), OrderIds) \in Int
<1>1. \A i \in OrderIds : Paid(i)' \in Int /\ \A s \in Symbols : Unit(i, s)' \in Int
  <2>1. \A i \in OrderIds : /\ PaidOf(order'[i]) \in Int
                            /\ \A s \in Symbols : UnitsOf(order'[i], s) \in Int
    BY OwedTypes
  <2> QED
    BY <2>1 DEF Paid, Unit
<1>2. \A i \in OrderIds : Paid(i) \in Int /\ \A s \in Symbols : Unit(i, s) \in Int
  BY OwedTyped
<1>3. /\ SumOf(Payments', OrderIds) = SumOf(Payments, OrderIds) - Paid(k) + Paid(k)'
      /\ SumOf(Payments, OrderIds) \in Int
  <2> DEFINE F == Payments
             G == Payments'
  <2>1. \A i \in OrderIds : F[i] = Paid(i) /\ G[i] = Paid(i)'
    BY DEF Payments, OrderIds
  <2> HIDE DEF F, G
  <2>2. /\ \A i \in OrderIds : F[i] \in Int /\ G[i] \in Int
        /\ \A i \in OrderIds \ {k} : F[i] = G[i]
    BY <1>1, <1>2, <2>1
  <2>3. SumOf(G, OrderIds) = SumOf(F, OrderIds) - F[k] + G[k] /\ SumOf(F, OrderIds) \in Int
    BY <2>2, OrderIdsFinite, SumChange, SumTyped
  <2> QED
    BY <2>1, <2>3 DEF F, G
<1>4. ASSUME NEW s \in Symbols
      PROVE  /\ SumOf(Units(s)', OrderIds) = SumOf(Units(s), OrderIds) - Unit(k, s) + Unit(k, s)'
             /\ SumOf(Units(s), OrderIds) \in Int
  <2> DEFINE F == Units(s)
             G == Units(s)'
  <2>1. \A i \in OrderIds : F[i] = Unit(i, s) /\ G[i] = Unit(i, s)'
    BY DEF Units, OrderIds
  <2> HIDE DEF F, G
  <2>2. /\ \A i \in OrderIds : F[i] \in Int /\ G[i] \in Int
        /\ \A i \in OrderIds \ {k} : F[i] = G[i]
    BY <1>1, <1>2, <2>1
  <2>3. SumOf(G, OrderIds) = SumOf(F, OrderIds) - F[k] + G[k] /\ SumOf(F, OrderIds) \in Int
    BY <2>2, OrderIdsFinite, SumChange, SumTyped
  <2> QED
    BY <2>1, <2>3 DEF F, G
<1> QED
  BY <1>3, <1>4

\* Two records of an order that owe the same.
OwesTheSame(a, b) == PaidOf(a) = PaidOf(b) /\ \A s \in Symbols : UnitsOf(a, s) = UnitsOf(b, s)
NothingNewOwed ==
    \A i \in OrderIds : Paid(i)' = Paid(i) /\ \A s \in Symbols : Unit(i, s)' = Unit(i, s)

\* A new order owes nothing yet.
LEMMA SubmissionOwesNothing ==
    ASSUME CallTypeOK, NEW t, NEW s, NEW q, NEW orders \in [OrderIds -> Orders],
           \A i \in OrderIds : OwesTheSame(orders[i], order[i]),
           SubmitOn(orders, t, s, q)
    PROVE  NothingNewOwed
<1>1. created \in Nat /\ created' = created + 1 /\ created + 1 \in OrderIds
  BY BrokerAssumption DEF SubmitOn, CallTypeOK, BrokerTypeOK, OrderIds
<1> DEFINE new == [by |-> t, sym |-> s, qty |-> q, px |-> 0, at |-> "submitted"]
<1>2. order' = [orders EXCEPT ![created + 1] = new]
  BY DEF SubmitOn
<1>3. PaidOf(new) = 0 /\ \A x \in Symbols : UnitsOf(new, x) = 0
  BY DEF PaidOf, UnitsOf
<1> HIDE DEF new
<1>4. ASSUME NEW i \in OrderIds
      PROVE  Paid(i)' = Paid(i) /\ \A x \in Symbols : Unit(i, x)' = Unit(i, x)
  <2>1. CASE i = created + 1
    <3>1. order'[i] = new /\ i \notin Made
      BY <1>1, <1>2, <2>1 DEF Made
    <3> QED
      BY <1>3, <3>1 DEF Paid, Unit
  <2>2. CASE i # created + 1
    <3>1. order'[i] = orders[i] /\ (i \in Made' <=> i \in Made)
      BY <1>1, <1>2, <2>2 DEF Made, OrderIds
    <3>2. OwesTheSame(order'[i], order[i])
      BY <3>1
    <3> QED
      BY <3>1, <3>2 DEF Paid, Unit, OwesTheSame
  <2> QED
    BY <2>1, <2>2
<1> QED
  BY <1>4 DEF NothingNewOwed

\* A step that only replaces orders by what owes the same.
LEMMA ReplacementOwesNothing ==
    ASSUME created' = created, \A i \in OrderIds : OwesTheSame(order'[i], order[i])
    PROVE  NothingNewOwed
BY DEF NothingNewOwed, OwesTheSame, Paid, Unit, Made

\* A stage of the call entered without consequence for the books.
LEMMA StageOwesNothing ==
    ASSUME CallTypeOK, NEW k \in OrderIds, NEW stage \in Stages,
           \/ order[k].at = "submitted" /\ stage \in {"accepted", "rejected"}
           \/ order[k].at = "moved" /\ stage = "filled"
           \/ order[k].at = "rejected" /\ stage = "refused"
           \/ /\ order[k].at = "filled" /\ stage = "reported"
              /\ order[k].by \notin Clients \/ ~(order[k].px > 0)
    PROVE  LET after == [order EXCEPT ![k].at = stage]
           IN  \A i \in OrderIds : OwesTheSame(after[i], order[i])
<1> DEFINE after == [order EXCEPT ![k].at = stage]
           new == [order[k] EXCEPT !.at = stage]
<1>1. order \in [OrderIds -> Orders]
  BY DEF CallTypeOK, BrokerTypeOK
<1>2. order[k] \in Orders
  BY <1>1
<1>3. /\ new.by = order[k].by /\ new.sym = order[k].sym /\ new.qty = order[k].qty
      /\ new.px = order[k].px /\ new.at = stage
  BY <1>2 DEF Orders
<1>4. after = [order EXCEPT ![k] = new]
  OBVIOUS
<1> HIDE DEF new, after
<1>5. ToldOf(new) <=> ToldOf(order[k])
  BY <1>3 DEF ToldOf
<1>6. OwesTheSame(new, order[k])
  BY <1>3, <1>5 DEF OwesTheSame, PaidOf, UnitsOf
<1>7. ASSUME NEW i \in OrderIds PROVE OwesTheSame(after[i], order[i])
  <2>1. CASE i = k
    BY <1>1, <1>4, <1>6, <2>1
  <2>2. CASE i # k
    <3>1. after[i] = order[i]
      BY <1>1, <1>4, <2>2
    <3> QED
      BY <3>1 DEF OwesTheSame
  <2> QED
    BY <2>1, <2>2
<1> QED
  BY <1>7 DEF after
-----------------------------------------------------------------------------
\* Where the tasks stand after a step: where they stood, out of the call, or at an
\* order of their own.
CursorsFollow ==
    \A u \in Tasks : \/ cur'[u] \in {0, cur[u]}
                     \/ cur'[u] = created' /\ order'[created'].by = u

LEMMA OwnOrdersKept ==
    ASSUME CallTypeOK, OwnOrders, StepKind, CursorsFollow
    PROVE  OwnOrders'
<1>1. \A i \in Made : order'[i].by = order[i].by
  BY MadeAreIds DEF StepKind, NobodySubmits, ClientSubmits, HaltGoesOn, HaltEngages,
                    NothingCreated, CreatedBy
<1>2. ASSUME NEW u \in Tasks, InCall(u)' PROVE order'[cur'[u]].by = u
  <2>1. CASE cur'[u] \in {0, cur[u]}
    <3>1. cur'[u] = cur[u] /\ InCall(u)
      BY <1>2, <2>1 DEF InCall
    <3> QED
      BY <1>1, <3>1, SubmittingMade DEF OwnOrders
  <2>2. CASE cur'[u] = created' /\ order'[created'].by = u
    BY <2>2
  <2> QED
    BY <2>1, <2>2 DEF CursorsFollow
<1> QED
  BY <1>2 DEF OwnOrders

LEMMA SubmissionFollows ==
    ASSUME CallTypeOK, NEW t \in Tasks, NEW s, NEW q, NEW orders \in [OrderIds -> Orders],
           SubmitOn(orders, t, s, q)
    PROVE  CursorsFollow
<1> DEFINE new == [by |-> t, sym |-> s, qty |-> q, px |-> 0, at |-> "submitted"]
<1>1. created' = created + 1 /\ created + 1 \in OrderIds
  BY BrokerAssumption DEF SubmitOn, CallTypeOK, BrokerTypeOK, OrderIds
<1>2. order' = [orders EXCEPT ![created + 1] = new] /\ cur' = [cur EXCEPT ![t] = created + 1]
  BY DEF SubmitOn
<1>3. order'[created'].by = t
  BY <1>1, <1>2
<1>4. cur'[t] = created' /\ \A u \in Tasks : u # t => cur'[u] = cur[u]
  BY <1>1, <1>2 DEF CallTypeOK, BrokerTypeOK
<1> QED
  BY <1>3, <1>4 DEF CursorsFollow

LEMMA StandingFollows ==
    ASSUME CallTypeOK, NEW t, cur' = cur \/ cur' = [cur EXCEPT ![t] = 0]
    PROVE  CursorsFollow
BY DEF CursorsFollow, CallTypeOK, BrokerTypeOK

\* What the steps that neither pay nor move nor tell do to the books: nothing.
BooksRest ==
    /\ NothingNewOwed /\ CursorsFollow
    /\ usd' = usd /\ held' = held /\ cash' = cash /\ vol' = vol /\ avg' = avg

LEMMA NothingChangedOwesNothing ==
    ASSUME order' = order, created' = created
    PROVE  NothingNewOwed
BY DEF NothingNewOwed, Paid, Unit, Made

LEMMA LiquidationOwesNothing ==
    ASSUME CallTypeOK, NEW h \in Halts, NEW left, NEW orders \in [OrderIds -> Orders],
           \A i \in OrderIds : OwesTheSame(orders[i], order[i]),
           Liquidate(h, left, orders)
    PROVE  NothingNewOwed /\ CursorsFollow
<1>1. h \in Tasks
  BY SessionAssumption
<1>2. CASE order' = orders /\ cur' = [cur EXCEPT ![h] = 0] /\ created' = created
  BY <1>2, ReplacementOwesNothing, StandingFollows
<1>3. CASE \E s \in Symbols : SubmitOn(orders, h, s, -left[s])
  BY <1>1, <1>3, SubmissionOwesNothing, SubmissionFollows
<1> QED
  BY <1>2, <1>3 DEF Liquidate

LEMMA SameOwedOfSame == \A i \in OrderIds : OwesTheSame(order[i], order[i])
BY DEF OwesTheSame

LEMMA FeedAndApiBooksRest ==
    ASSUME CallTypeOK,
           \/ \E f \in Feeds : FeedStep(f)
           \/ Stop
           \/ \E c \in Closers, s \in Symbols : CloseRequest(c, s)
    PROVE  BooksRest
<1>0. order \in [OrderIds -> Orders]
  BY DEF CallTypeOK, BrokerTypeOK
<1>a. ASSUME NEW t \in Clients, NEW s, NEW q, SubmitOn(order, t, s, q)
      PROVE  NothingNewOwed /\ CursorsFollow
  <2>1. t \in Tasks
    BY SessionAssumption DEF Clients
  <2> QED
    BY <1>0, <1>a, <2>1, SameOwedOfSame, SubmissionOwesNothing, SubmissionFollows
<1>1. CASE Stop
  <2>1. /\ order' = order /\ created' = created /\ cur' = [cur EXCEPT ![feedTask] = 0]
        /\ usd' = usd /\ held' = held /\ cash' = cash /\ vol' = vol /\ avg' = avg
    BY <1>1 DEF Stop, accountVars, portfolioVars, bookVars
  <2> QED
    BY <2>1, NothingChangedOwesNothing, StandingFollows DEF BooksRest
<1>2. ASSUME NEW c \in Closers, NEW s \in Symbols, CloseRequest(c, s) PROVE BooksRest
  <2>1. /\ SubmitOn(order, c, s, -held[s]) /\ c \in Clients
        /\ usd' = usd /\ held' = held /\ cash' = cash /\ vol' = vol /\ avg' = avg
    BY <1>2 DEF CloseRequest, ClientSubmit, Clients, accountVars, portfolioVars, bookVars
  <2> QED
    BY <1>a, <2>1 DEF BooksRest
<1>3. ASSUME NEW f \in Feeds, Start(f) \/ FeedEnds(f) PROVE BooksRest
  <2>1. /\ order' = order /\ created' = created /\ cur' = cur
        /\ usd' = usd /\ held' = held /\ cash' = cash /\ vol' = vol /\ avg' = avg
    BY <1>3 DEF Start, FeedEnds, brokerVars, callVars, accountVars, portfolioVars, bookVars
  <2> QED
    BY <2>1, NothingChangedOwesNothing, StandingFollows DEF BooksRest
<1>4. ASSUME NEW f \in Feeds, NEW s \in Symbols, NEW p \in Prices,
             QuietBar(f, s, p) \/ BarFails(f, s, p)
      PROVE  BooksRest
  <2>1. /\ order' = order /\ created' = created /\ cur' = cur
        /\ usd' = usd /\ held' = held /\ cash' = cash /\ vol' = vol /\ avg' = avg
    BY <1>4 DEF QuietBar, BarFails, Observe, OnMarket, callVars, accountVars
  <2> QED
    BY <2>1, NothingChangedOwesNothing, StandingFollows DEF BooksRest
<1>5. ASSUME NEW f \in Feeds, NEW s \in Symbols, NEW p \in Prices, NEW q \in SignedVolumes,
             OrderBar(f, s, p, q)
      PROVE  BooksRest
  <2>1. /\ SubmitOn(order, f, s, q) /\ f \in Clients
        /\ usd' = usd /\ held' = held /\ cash' = cash /\ vol' = vol /\ avg' = avg
    BY <1>5 DEF OrderBar, Observe, OnMarket, ClientSubmit, Clients, accountVars
  <2> QED
    BY <1>a, <2>1 DEF BooksRest
<1> QED
  BY <1>1, <1>2, <1>3, <1>4, <1>5 DEF FeedStep

\* The stages that are neither a payment nor a move, the refusals, the reports that
\* cannot be booked, and the kill switch's.
LEMMA OtherTaskBooksRest ==
    ASSUME CallTypeOK, OwnOrders,
           \/ \E h \in Halts : HaltStart(h) \/ HaltReturn(h)
           \/ \E t \in Tasks : \/ InsideBroker(t) /\ (Accept(t) \/ MarkFilled(t))
                               \/ t \in Clients /\ (ClientRefused(t) \/ ClientUnbookable(t))
    PROVE  BooksRest
<1>0. order \in [OrderIds -> Orders]
  BY DEF CallTypeOK, BrokerTypeOK
<1>a. ASSUME NEW t \in Tasks, InCall(t) PROVE cur[t] \in OrderIds /\ order[cur[t]].by = t
  BY <1>a, SubmittingMade, MadeAreIds DEF OwnOrders
<1>1. ASSUME NEW h \in Halts, HaltStart(h) PROVE BooksRest
  <2>1. /\ Liquidate(h, held, order)
        /\ usd' = usd /\ held' = held /\ cash' = cash /\ vol' = vol /\ avg' = avg
    BY <1>1 DEF HaltStart, accountVars, portfolioVars, bookVars
  <2> QED
    BY <1>0, <2>1, SameOwedOfSame, LiquidationOwesNothing DEF BooksRest
<1>2. ASSUME NEW h \in Halts, HaltReturn(h) PROVE BooksRest
  <2>1. /\ Liquidate(h, todo[h], Returned(h)) /\ Returning(h)
        /\ usd' = usd /\ held' = held /\ cash' = cash /\ vol' = vol /\ avg' = avg
    BY <1>2 DEF HaltReturn, accountVars, portfolioVars, bookVars
  <2>2. h \in Tasks /\ h \notin Clients /\ InCall(h)
    BY <2>1, SessionAssumption DEF Clients, Returning, At
  <2>3. cur[h] \in OrderIds /\ order[cur[h]].by \notin Clients
    BY <1>a, <2>2
  <2>4. Returned(h) \in [OrderIds -> Orders]
    BY <2>2, ReturnKeepsAuthor
  <2>5. \A i \in OrderIds : OwesTheSame(Returned(h)[i], order[i])
    <3> DEFINE stage == IF At(h, "filled") THEN "reported" ELSE "refused"
    <3>1. /\ stage \in Stages
          /\ \/ order[cur[h]].at = "rejected" /\ stage = "refused"
             \/ order[cur[h]].at = "filled" /\ stage = "reported"
      BY <2>1 DEF Returning, At, Stages
    <3>2. Returned(h) = [order EXCEPT ![cur[h]].at = stage]
      BY DEF Returned
    <3> HIDE DEF stage
    <3> QED
      BY <2>3, <3>1, <3>2, StageOwesNothing
  <2> QED
    BY <2>1, <2>4, <2>5, LiquidationOwesNothing DEF BooksRest
<1>3. ASSUME NEW t \in Tasks, InsideBroker(t), Accept(t) \/ MarkFilled(t) PROVE BooksRest
  <2>1. PICK stage \in Stages :
           /\ order' = [order EXCEPT ![cur[t]].at = stage] /\ InCall(t)
           /\ \/ order[cur[t]].at = "submitted" /\ stage \in {"accepted", "rejected"}
              \/ order[cur[t]].at = "moved" /\ stage = "filled"
    BY <1>3 DEF Accept, MarkFilled, Enter, At, Stages
  <2>2. /\ created' = created /\ cur' = cur
        /\ usd' = usd /\ held' = held /\ cash' = cash /\ vol' = vol /\ avg' = avg
    BY <1>3 DEF InsideBroker, Accept, MarkFilled, accountVars, portfolioVars, bookVars
  <2>3. \A i \in OrderIds : OwesTheSame(order'[i], order[i])
    BY <1>a, <2>1, StageOwesNothing
  <2> QED
    BY <2>2, <2>3, ReplacementOwesNothing, StandingFollows DEF BooksRest
<1>4. ASSUME NEW t \in Tasks, t \in Clients, ClientRefused(t) \/ ClientUnbookable(t)
      PROVE  BooksRest
  <2> DEFINE stage == IF At(t, "filled") THEN "reported" ELSE "refused"
  <2>1. /\ order' = [order EXCEPT ![cur[t]].at = stage] /\ InCall(t) /\ stage \in Stages
        /\ \/ order[cur[t]].at = "rejected" /\ stage = "refused"
           \/ order[cur[t]].at = "filled" /\ stage = "reported" /\ order[cur[t]].px <= 0
    BY <1>4 DEF ClientRefused, ClientUnbookable, ClientReturn, Returned, At, Stages
  <2>2. /\ created' = created /\ cur' = [cur EXCEPT ![t] = 0]
        /\ usd' = usd /\ held' = held /\ cash' = cash /\ vol' = vol /\ avg' = avg
    BY <1>4 DEF ClientRefused, ClientUnbookable, ClientReturn, accountVars, portfolioVars, bookVars
  <2> HIDE DEF stage
  <2>3. cur[t] \in OrderIds /\ order[cur[t]].px \in Int
    BY <1>0, <1>a, <2>1 DEF Orders
  <2>4. \A i \in OrderIds : OwesTheSame(order'[i], order[i])
    <3>1. order[cur[t]].px <= 0 => ~(order[cur[t]].px > 0)
      BY <2>3
    <3> QED
      BY <2>1, <2>3, <3>1, StageOwesNothing
  <2> QED
    BY <2>2, <2>4, ReplacementOwesNothing, StandingFollows DEF BooksRest
<1> QED
  BY <1>1, <1>2, <1>3, <1>4

\* The balance is paid: the account is ahead of the portfolio by that much.
LEMMA PaymentIsOwed ==
    ASSUME LedgersInv, CallTypeOK', NEW t \in Tasks, Debit(t), cash' = cash, vol' = vol
    PROVE  PositionsAgree' /\ BalancesAgree' /\ CursorsFollow
<1>2. PICK k \in OrderIds : k = cur[t] /\ k \in Made
  BY SubmittingMade, MadeAreIds DEF LedgersInv, Debit, At
<1> DEFINE o == order[k]
           px == ExecutionPrice(o)
           new == [o EXCEPT !.px = px, !.at = "debited"]
<1>1. /\ InCall(t) /\ o.at = "accepted"
      /\ usd' = usd - o.qty * px - FlatFee /\ held' = held
      /\ order' = [order EXCEPT ![k] = new] /\ created' = created /\ cur' = cur
  BY <1>2 DEF Debit, At
<1>3. order \in [OrderIds -> Orders] /\ o \in Orders /\ order' \in [OrderIds -> Orders]
  BY <1>2 DEF LedgersInv, CallTypeOK, BrokerTypeOK
<1>4. /\ o.qty \in Int /\ px \in Int /\ FlatFee \in Int
      /\ new.by = o.by /\ new.sym = o.sym /\ new.qty = o.qty /\ new.px = px /\ new.at = "debited"
  BY <1>3, BrokerAssumption DEF LedgersInv, CallTypeOK, BrokerTypeOK, Orders, ExecutionPrice
<1> HIDE DEF o, px, new
<1>5. \A i \in OrderIds \ {k} :
          Paid(i)' = Paid(i) /\ \A s \in Symbols : Unit(i, s)' = Unit(i, s)
  BY <1>1, <1>3 DEF Paid, Unit, Made
<1>6. Paid(k) = 0 /\ Paid(k)' = o.qty * px + FlatFee
  <2>1. order[k] = o /\ order'[k] = new /\ k \in Made'
    BY <1>1, <1>2, <1>3 DEF o, Made
  <2> QED
    BY <1>1, <1>2, <1>4, <2>1 DEF Paid, PaidOf, ToldOf
<1>7. \A s \in Symbols : Unit(k, s) = 0 /\ Unit(k, s)' = 0
  <2>1. order[k] = o /\ order'[k] = new /\ k \in Made'
    BY <1>1, <1>2, <1>3 DEF o, Made
  <2> QED
    BY <1>1, <1>2, <1>4, <2>1 DEF Unit, UnitsOf
<1>8. /\ SumOf(Payments', OrderIds) = SumOf(Payments, OrderIds) - Paid(k) + Paid(k)'
      /\ \A s \in Symbols : SumOf(Units(s)', OrderIds)
                               = SumOf(Units(s), OrderIds) - Unit(k, s) + Unit(k, s)'
      /\ SumOf(Payments, OrderIds) \in Int
      /\ \A s \in Symbols : SumOf(Units(s), OrderIds) \in Int
  BY <1>2, <1>3, <1>5, OneOwed DEF LedgersInv
<1> DEFINE notional == o.qty * px
<1>9. notional \in Int
  BY <1>4
<1> HIDE DEF notional
<1>10. OrderIds' = OrderIds
  BY DEF OrderIds
<1>11. PositionsAgree'
  <2>1. \A s \in Symbols : SumOf(Units(s)', OrderIds) = SumOf(Units(s), OrderIds)
    BY <1>7, <1>8
  <2> QED
    BY <1>1, <1>10, <2>1 DEF LedgersInv, PositionsAgree
<1>12. BalancesAgree'
  <2>1. /\ usd' = usd - notional - FlatFee
        /\ SumOf(Payments', OrderIds) = SumOf(Payments, OrderIds) - 0 + (notional + FlatFee)
    BY <1>1, <1>6, <1>8 DEF notional
  <2>2. usd \in Int /\ cash \in Int /\ StartBalance \in Int /\ InitialCapital \in Int
    BY BrokerAssumption, PortfolioAssumption
    DEF LedgersInv, CallTypeOK, BrokerTypeOK, BookNumbers
  <2>3. usd - StartBalance = cash - InitialCapital - SumOf(Payments, OrderIds)
    BY DEF LedgersInv, BalancesAgree
  <2>4. usd' - StartBalance = cash' - InitialCapital - SumOf(Payments', OrderIds)
    BY <1>4, <1>8, <1>9, <2>1, <2>2, <2>3
  <2> QED
    BY <1>10, <2>4 DEF BalancesAgree
<1> QED
  BY <1>1, <1>11, <1>12, StandingFollows DEF LedgersInv

\* The position is moved: the account is ahead of the portfolio by that much.
LEMMA MoveIsOwed ==
    ASSUME LedgersInv, CallTypeOK', NEW t \in Tasks, MovePosition(t), cash' = cash, vol' = vol
    PROVE  PositionsAgree' /\ BalancesAgree' /\ CursorsFollow
<1>2. PICK k \in OrderIds : k = cur[t] /\ k \in Made
  BY SubmittingMade, MadeAreIds DEF LedgersInv, MovePosition, At
<1> DEFINE o == order[k]
           new == [o EXCEPT !.at = "moved"]
<1>1. /\ o.at = "debited" /\ usd' = usd
      /\ held' = [held EXCEPT ![o.sym] = held[o.sym] + o.qty]
      /\ order' = [order EXCEPT ![k] = new] /\ created' = created /\ cur' = cur
  BY <1>2 DEF MovePosition, At, Enter
<1>3. order \in [OrderIds -> Orders] /\ o \in Orders /\ order' \in [OrderIds -> Orders]
  BY <1>2 DEF LedgersInv, CallTypeOK, BrokerTypeOK
<1>4. /\ o.qty \in Int /\ o.px \in Int /\ o.sym \in Symbols
      /\ new.by = o.by /\ new.sym = o.sym /\ new.qty = o.qty /\ new.px = o.px /\ new.at = "moved"
  BY <1>3, SessionAssumption DEF Orders
<1> HIDE DEF o, new
<1>5. \A i \in OrderIds \ {k} :
          Paid(i)' = Paid(i) /\ \A s \in Symbols : Unit(i, s)' = Unit(i, s)
  BY <1>1, <1>3 DEF Paid, Unit, Made
<1>6. Paid(k)' = Paid(k)
  <2>1. order[k] = o /\ order'[k] = new /\ k \in Made'
    BY <1>1, <1>2, <1>3 DEF o, Made
  <2> QED
    BY <1>1, <1>2, <1>4, <2>1 DEF Paid, PaidOf, ToldOf
<1>7. \A s \in Symbols : Unit(k, s) = 0 /\ Unit(k, s)' = IF s = o.sym THEN o.qty ELSE 0
  <2>1. order[k] = o /\ order'[k] = new /\ k \in Made'
    BY <1>1, <1>2, <1>3 DEF o, Made
  <2> QED
    BY <1>1, <1>2, <1>4, <2>1 DEF Unit, UnitsOf, ToldOf
<1>8. /\ SumOf(Payments', OrderIds) = SumOf(Payments, OrderIds) - Paid(k) + Paid(k)'
      /\ \A s \in Symbols : SumOf(Units(s)', OrderIds)
                               = SumOf(Units(s), OrderIds) - Unit(k, s) + Unit(k, s)'
      /\ SumOf(Payments, OrderIds) \in Int
      /\ \A s \in Symbols : SumOf(Units(s), OrderIds) \in Int
  BY <1>2, <1>3, <1>5, OneOwed DEF LedgersInv
<1>9. Paid(k) \in Int
  BY <1>2, OwedTyped DEF LedgersInv
<1>10. OrderIds' = OrderIds
  BY DEF OrderIds
<1>11. PositionsAgree'
  <2>1. ASSUME NEW s \in Symbols PROVE held'[s] = vol'[s] + SumOf(Units(s)', OrderIds)
    <3>1. /\ held[s] \in Int /\ vol[s] \in Int
          /\ held'[s] = held[s] + IF s = o.sym THEN o.qty ELSE 0
      BY <1>1, <1>4, SessionAssumption DEF LedgersInv, CallTypeOK, BrokerTypeOK, BookNumbers
    <3>2. held[s] = vol[s] + SumOf(Units(s), OrderIds)
      BY DEF LedgersInv, PositionsAgree
    <3> QED
      BY <1>4, <1>7, <1>8, <3>1, <3>2
  <2> QED
    BY <1>10, <2>1 DEF PositionsAgree
<1>12. BalancesAgree'
  <2>1. SumOf(Payments', OrderIds) = SumOf(Payments, OrderIds)
    BY <1>6, <1>8, <1>9
  <2> QED
    BY <1>1, <1>10, <2>1 DEF LedgersInv, BalancesAgree
<1> QED
  BY <1>1, <1>11, <1>12, StandingFollows DEF LedgersInv

\* The portfolio is told: neither is ahead by that order any more.
LEMMA TellingSettles ==
    ASSUME LedgersInv, CallTypeOK', NEW t \in Tasks, t \in Clients, ClientTold(t)
    PROVE  PositionsAgree' /\ BalancesAgree' /\ BookNumbers' /\ CursorsFollow
<1>2. PICK k \in OrderIds : k = cur[t] /\ k \in Made /\ order[k].by = t
  BY SubmittingMade, MadeAreIds DEF LedgersInv, OwnOrders, ClientTold, At
<1> DEFINE o == order[k]
           new == [o EXCEPT !.at = "reported"]
<1>1. /\ o.at = "filled" /\ o.px > 0 /\ usd' = usd /\ held' = held
      /\ OnFill(o.sym, o.qty, o.px, FlatFee)
      /\ created' = created /\ cur' = [cur EXCEPT ![t] = 0]
  BY <1>2 DEF ClientTold, ClientReturn, At, accountVars
<1>1a. order' = [order EXCEPT ![k] = new]
  BY <1>2 DEF ClientTold, ClientReturn, Returned, At
<1>3. order \in [OrderIds -> Orders] /\ o \in Orders /\ order' \in [OrderIds -> Orders]
  BY <1>2 DEF LedgersInv, CallTypeOK, BrokerTypeOK
<1>4. /\ o.qty \in Int /\ o.px \in Int /\ o.sym \in Symbols /\ FlatFee \in Int
      /\ new.by = o.by /\ new.px = o.px /\ new.at = "reported"
  BY <1>3, SessionAssumption, BrokerAssumption DEF Orders
<1>4a. o.by \in Clients
  BY <1>2
<1> HIDE DEF o, new
<1>5. \A i \in OrderIds \ {k} :
          Paid(i)' = Paid(i) /\ \A s \in Symbols : Unit(i, s)' = Unit(i, s)
  BY <1>1, <1>1a, <1>3 DEF Paid, Unit, Made
<1>5a. order[k] = o /\ order'[k] = new /\ k \in Made'
  BY <1>1, <1>1a, <1>2, <1>3 DEF o, Made
<1>5b. ToldOf(new) /\ ~ToldOf(o)
  BY <1>1, <1>4, <1>4a DEF ToldOf
<1>6. Paid(k) = o.qty * o.px + FlatFee /\ Paid(k)' = 0
  BY <1>1, <1>2, <1>5a, <1>5b DEF Paid, PaidOf
<1>7. \A s \in Symbols : Unit(k, s)' = 0 /\ Unit(k, s) = IF s = o.sym THEN o.qty ELSE 0
  BY <1>1, <1>2, <1>5a, <1>5b DEF Unit, UnitsOf
<1>8. /\ SumOf(Payments', OrderIds) = SumOf(Payments, OrderIds) - Paid(k) + Paid(k)'
      /\ \A s \in Symbols : SumOf(Units(s)', OrderIds)
                               = SumOf(Units(s), OrderIds) - Unit(k, s) + Unit(k, s)'
      /\ SumOf(Payments, OrderIds) \in Int
      /\ \A s \in Symbols : SumOf(Units(s), OrderIds) \in Int
  BY <1>2, <1>3, <1>5, OneOwed DEF LedgersInv
<1> DEFINE notional == o.qty * o.px
           f == FillOutcome(vol[o.sym], avg[o.sym], o.qty, o.px)
<1>9. notional \in Int
  BY <1>4
<1>9a. /\ vol[o.sym] \in Int /\ f.v = vol[o.sym] + o.qty /\ f.out = notional /\ f.a \in Int
  <2>1. vol[o.sym] \in Int /\ avg[o.sym] \in Int
    BY <1>4 DEF LedgersInv, BookNumbers
  <2>2. \A w \in Int, e \in Int :
            /\ FillOutcome(w, e, o.qty, o.px).v = w + o.qty
            /\ FillOutcome(w, e, o.qty, o.px).out = o.qty * o.px
            /\ FillOutcome(w, e, o.qty, o.px).a \in Int
    BY <1>4, OutcomeTyped
  <2> QED
    BY <2>1, <2>2
<1>9b. /\ cash' = cash - FlatFee - f.out
       /\ vol' = [vol EXCEPT ![o.sym] = f.v] /\ avg' = [avg EXCEPT ![o.sym] = f.a]
  BY <1>1 DEF OnFill
<1> HIDE DEF notional, f
<1>9c. /\ cash' = cash - FlatFee - notional /\ vol' = [vol EXCEPT ![o.sym] = vol[o.sym] + o.qty]
  BY <1>9a, <1>9b
<1>10. OrderIds' = OrderIds
  BY DEF OrderIds
<1>11. PositionsAgree'
  <2>1. ASSUME NEW s \in Symbols PROVE held'[s] = vol'[s] + SumOf(Units(s)', OrderIds)
    <3>1. /\ held[s] \in Int /\ vol[s] \in Int /\ held'[s] = held[s]
          /\ vol'[s] = vol[s] + IF s = o.sym THEN o.qty ELSE 0
      BY <1>1, <1>4, <1>9c, SessionAssumption
      DEF LedgersInv, CallTypeOK, BrokerTypeOK, BookNumbers
    <3>2. held[s] = vol[s] + SumOf(Units(s), OrderIds)
      BY DEF LedgersInv, PositionsAgree
    <3> QED
      BY <1>4, <1>7, <1>8, <3>1, <3>2
  <2> QED
    BY <1>10, <2>1 DEF PositionsAgree
<1>12. BalancesAgree'
  <2>1. SumOf(Payments', OrderIds) = SumOf(Payments, OrderIds) - (notional + FlatFee) + 0
    BY <1>6, <1>8 DEF notional
  <2>2. usd \in Int /\ cash \in Int /\ StartBalance \in Int /\ InitialCapital \in Int
    BY BrokerAssumption, PortfolioAssumption
    DEF LedgersInv, CallTypeOK, BrokerTypeOK, BookNumbers
  <2>3. usd - StartBalance = cash - InitialCapital - SumOf(Payments, OrderIds)
    BY DEF LedgersInv, BalancesAgree
  <2>4. usd' - StartBalance = cash' - InitialCapital - SumOf(Payments', OrderIds)
    BY <1>1, <1>4, <1>8, <1>9, <1>9c, <2>1, <2>2, <2>3
  <2> QED
    BY <1>10, <2>4 DEF BalancesAgree
<1>13. BookNumbers'
  BY <1>4, <1>9, <1>9a, <1>9b DEF LedgersInv, BookNumbers
<1> QED
  BY <1>1, <1>11, <1>12, <1>13, StandingFollows DEF LedgersInv

LEMMA LedgersInductive == LedgersInv /\ [SessionNext]_sessionVars => LedgersInv'
<1> SUFFICES ASSUME LedgersInv, [SessionNext]_sessionVars PROVE LedgersInv'
  OBVIOUS
<1>1. CallTypeOK /\ OwnOrders
  BY DEF LedgersInv
<1>2. CASE SessionNext
  <2>1. StepKind /\ AccountTyped
    BY <1>1, <1>2, FeedAndApiSteps, TaskAndHaltSteps DEF SessionNext
  <2>2. CallTypeOK'
    BY <1>1, <2>1, KindKeepsCallTypes DEF AccountTyped
  <2>3. ASSUME BooksRest PROVE LedgersInv'
    <3>1. PositionsAgree' /\ BalancesAgree'
      BY <2>3, NothingOwed DEF BooksRest, NothingNewOwed, LedgersInv
    <3>2. OwnOrders'
      BY <1>1, <2>1, <2>3, OwnOrdersKept DEF BooksRest
    <3>3. BookNumbers'
      BY <2>3 DEF BooksRest, BookNumbers, LedgersInv
    <3> QED
      BY <2>2, <3>1, <3>2, <3>3 DEF LedgersInv
  <2>4. ASSUME NEW t \in Tasks, InsideBroker(t), Debit(t) \/ MovePosition(t)
        PROVE  LedgersInv'
    <3>1. cash' = cash /\ vol' = vol /\ avg' = avg
      BY <2>4 DEF InsideBroker, portfolioVars, bookVars
    <3>2. PositionsAgree' /\ BalancesAgree' /\ CursorsFollow
      BY <2>2, <2>4, <3>1, PaymentIsOwed, MoveIsOwed
    <3>3. OwnOrders'
      BY <1>1, <2>1, <3>2, OwnOrdersKept
    <3>4. BookNumbers'
      BY <3>1 DEF BookNumbers, LedgersInv
    <3> QED
      BY <2>2, <3>2, <3>3, <3>4 DEF LedgersInv
  <2>5. ASSUME NEW t \in Tasks, t \in Clients, ClientTold(t) PROVE LedgersInv'
    <3>1. PositionsAgree' /\ BalancesAgree' /\ BookNumbers' /\ CursorsFollow
      BY <2>2, <2>5, TellingSettles
    <3>2. OwnOrders'
      BY <1>1, <2>1, <3>1, OwnOrdersKept
    <3> QED
      BY <2>2, <3>1, <3>2 DEF LedgersInv
  <2>6. CASE \/ \E f \in Feeds : FeedStep(f)
             \/ Stop
             \/ \E c \in Closers, s \in Symbols : CloseRequest(c, s)
    BY <1>1, <2>3, <2>6, FeedAndApiBooksRest
  <2>7. CASE \E h \in Halts : HaltStart(h)
    BY <1>1, <2>3, <2>7, OtherTaskBooksRest
  <2>8. ASSUME NEW t \in Tasks, TaskStep(t) PROVE LedgersInv'
    <3>1. CASE InsideBroker(t) /\ (Accept(t) \/ MarkFilled(t))
      BY <1>1, <2>3, <3>1, OtherTaskBooksRest
    <3>2. CASE t \in Clients /\ (ClientRefused(t) \/ ClientUnbookable(t))
      BY <1>1, <2>3, <3>2, OtherTaskBooksRest
    <3>3. CASE t \in Halts /\ HaltReturn(t)
      BY <1>1, <2>3, <3>3, OtherTaskBooksRest
    <3> QED
      BY <2>4, <2>5, <2>8, <3>1, <3>2, <3>3 DEF TaskStep, InsideBroker, BrokerStep
  <2> QED
    BY <1>2, <2>6, <2>7, <2>8 DEF SessionNext
<1>3. CASE UNCHANGED sessionVars
  <2>1. /\ order' = order /\ created' = created /\ cur' = cur
        /\ usd' = usd /\ held' = held /\ cash' = cash /\ vol' = vol /\ avg' = avg
    BY <1>3 DEF sessionVars, brokerVars, callVars, accountVars, portfolioVars, bookVars
  <2>2. PositionsAgree' /\ BalancesAgree'
    BY <2>1, NothingChangedOwesNothing, NothingOwed DEF NothingNewOwed, LedgersInv
  <2>3. CallTypeOK'
    BY <1>1, <1>3 DEF sessionVars, brokerVars, accountVars, callVars, historyOfSession,
                      CallTypeOK, BrokerTypeOK
  <2>4. BookNumbers' /\ OwnOrders'
    BY <2>1 DEF BookNumbers, OwnOrders, InCall, LedgersInv
  <2> QED
    BY <2>2, <2>3, <2>4 DEF LedgersInv
<1> QED
  BY <1>2, <1>3

\* A session starts with two books that agree, and no order.
LEMMA LedgersInitial == SessionInit => LedgersInv
<1> SUFFICES ASSUME SessionInit PROVE LedgersInv
  OBVIOUS
<1>1. CallTypeOK
  BY HaltInitial DEF HaltInv
<1>2. created = 0 /\ \A t \in Tasks : cur[t] = 0
  BY DEF SessionInit, BrokerInit
<1>3. /\ cash = InitialCapital /\ usd = StartBalance
      /\ vol = [s \in Symbols |-> 0] /\ avg = [s \in Symbols |-> 0]
      /\ held = [s \in Symbols |-> 0]
  BY SessionAssumption DEF SessionInit, BrokerInit, PortfolioInit
<1>4. InitialCapital \in Int /\ StartBalance \in Int
  BY PortfolioAssumption, BrokerAssumption
<1>5. \A i \in OrderIds : Paid(i) = 0 /\ \A s \in Symbols : Unit(i, s) = 0
  BY <1>2 DEF Paid, Unit, Made
<1>6. \A s \in Symbols : SumOf(Units(s), OrderIds) = 0
  <2> SUFFICES ASSUME NEW s \in Symbols PROVE SumOf(Units(s), OrderIds) = 0
    OBVIOUS
  <2>1. \A i \in OrderIds : Units(s)[i] = 0 /\ Units(s)[i] \in Int
    BY <1>5 DEF Units
  <2> QED
    BY <2>1, OrderIdsFinite, SumOfPart, SumEmpty
<1>7. SumOf(Payments, OrderIds) = 0
  <2>1. \A i \in OrderIds : Payments[i] = 0 /\ Payments[i] \in Int
    BY <1>5 DEF Payments
  <2> QED
    BY <2>1, OrderIdsFinite, SumOfPart, SumEmpty
<1>8. PositionsAgree
  BY <1>3, <1>6 DEF PositionsAgree
<1>9. BalancesAgree
  BY <1>3, <1>4, <1>7 DEF BalancesAgree
<1>10. OwnOrders
  BY <1>2 DEF OwnOrders, InCall
<1>11. BookNumbers
  BY <1>3, <1>4 DEF BookNumbers
<1> QED
  BY <1>1, <1>8, <1>9, <1>10, <1>11 DEF LedgersInv
-----------------------------------------------------------------------------
\* The folds of BooksAgree are sums of what the orders owe.
LEMMA FoldOfQuantities ==
    ASSUME NEW T, IsFiniteSet(T)
    PROVE  MapThenSumSet(LAMBDA i : order[i].qty, T) = SumOf([i \in T |-> order[i].qty], T)
<1> DEFINE F == [i \in T |-> order[i].qty]
           Step(h) == [s \in SUBSET T |->
                          IF s = {} THEN 0
                          ELSE LET x == CHOOSE y \in s : TRUE IN order[x].qty + h[s \ {x}]]
<1>1. MapThenSumSet(LAMBDA i : order[i].qty, T) = (CHOOSE h : h = Step(h))[T]
  BY DEF MapThenSumSet, MapThenFoldSet
<1>2. ASSUME NEW h PROVE Step(h) = [s \in SUBSET T |-> Folded(F, h, s)]
  <2>1. ASSUME NEW s \in SUBSET T
        PROVE  Step(h)[s] = Folded(F, h, s)
    <3>1. s # {} => Picked(s) \in T
      BY PickedFact
    <3> QED
      BY <3>1 DEF Folded, Picked
  <2> QED
    BY <2>1
<1> HIDE DEF Step, F
<1>3. \E h : h = Step(h)
  <2>1. PICK h : Sums(F, T, h)
    BY AllSummed DEF Summed
  <2> QED
    BY <1>2, <2>1 DEF Sums
<1> DEFINE k == CHOOSE h : h = Step(h)
<1>4. k = Step(k)
  BY <1>3
<1> HIDE DEF k
<1>5. Sums(F, T, k)
  BY <1>2, <1>4 DEF Sums
<1>6. k[T] = SumOf(F, T)
  BY <1>5, AllSummed, SumOfSums
<1> QED
  BY <1>1, <1>6 DEF F, k

LEMMA FoldOfPayments ==
    ASSUME NEW T, IsFiniteSet(T)
    PROVE  MapThenSumSet(LAMBDA i : order[i].qty * order[i].px + FlatFee, T)
              = SumOf([i \in T |-> order[i].qty * order[i].px + FlatFee], T)
<1> DEFINE F == [i \in T |-> order[i].qty * order[i].px + FlatFee]
           Step(h) == [s \in SUBSET T |->
                          IF s = {} THEN 0
                          ELSE LET x == CHOOSE y \in s : TRUE
                               IN  (order[x].qty * order[x].px + FlatFee) + h[s \ {x}]]
<1>1. MapThenSumSet(LAMBDA i : order[i].qty * order[i].px + FlatFee, T)
        = (CHOOSE h : h = Step(h))[T]
  BY DEF MapThenSumSet, MapThenFoldSet
<1>2. ASSUME NEW h PROVE Step(h) = [s \in SUBSET T |-> Folded(F, h, s)]
  <2>1. ASSUME NEW s \in SUBSET T
        PROVE  Step(h)[s] = Folded(F, h, s)
    <3>1. s # {} => Picked(s) \in T
      BY PickedFact
    <3> QED
      BY <3>1 DEF Folded, Picked
  <2> QED
    BY <2>1
<1> HIDE DEF Step, F
<1>3. \E h : h = Step(h)
  <2>1. PICK h : Sums(F, T, h)
    BY AllSummed DEF Summed
  <2> QED
    BY <1>2, <2>1 DEF Sums
<1> DEFINE k == CHOOSE h : h = Step(h)
<1>4. k = Step(k)
  BY <1>3
<1> HIDE DEF k
<1>5. Sums(F, T, k)
  BY <1>2, <1>4 DEF Sums
<1>6. k[T] = SumOf(F, T)
  BY <1>5, AllSummed, SumOfSums
<1> QED
  BY <1>1, <1>6 DEF F, k

LEMMA LedgersExplain == LedgersInv => BooksAgree
<1> SUFFICES ASSUME LedgersInv PROVE BooksAgree
  OBVIOUS
<1>1. /\ IsFiniteSet(OrderIds) /\ Made \subseteq OrderIds
      /\ \A i \in OrderIds : Paid(i) \in Int /\ \A s \in Symbols : Unit(i, s) \in Int
  BY OrderIdsFinite, MadeAreIds, OwedTyped DEF LedgersInv
<1>2. \A i \in Made : i \in Told <=> ToldOf(order[i])
  BY DEF Told, ToldOf, OrdersOf
<1>3. ASSUME NEW s \in Symbols
      PROVE  MapThenSumSet(LAMBDA i : order[i].qty, {i \in Moved \ Told : order[i].sym = s})
                = SumOf(Units(s), OrderIds)
  <2> DEFINE Ahead == {i \in Moved \ Told : order[i].sym = s}
             W == [i \in Ahead |-> order[i].qty]
  <2>1. Ahead \in SUBSET OrderIds
    BY <1>1 DEF Moved
  <2>2. IsFiniteSet(Ahead)
    BY <1>1, <2>1, FS_Subset
  <2>3. \A i \in Ahead : W[i] = Units(s)[i]
    BY <1>1, <1>2, <2>1 DEF Units, Unit, UnitsOf, Moved
  <2>4. \A i \in OrderIds \ Ahead : Units(s)[i] = 0
    BY <1>2 DEF Units, Unit, UnitsOf, Moved
  <2>5. \A i \in OrderIds : Units(s)[i] \in Int
    BY <1>1 DEF Units
  <2> HIDE DEF Ahead
  <2>6. MapThenSumSet(LAMBDA i : order[i].qty, Ahead) = SumOf(W, Ahead)
    BY <2>2, FoldOfQuantities
  <2> HIDE DEF W
  <2>7. SumOf(W, Ahead) = SumOf(Units(s), Ahead)
    BY <2>2, <2>3, SumSame
  <2>8. SumOf(Units(s), OrderIds) = SumOf(Units(s), Ahead)
    BY <1>1, <2>1, <2>4, <2>5, SumOfPart
  <2> QED
    BY <2>6, <2>7, <2>8 DEF Ahead
<1>4. MapThenSumSet(LAMBDA i : order[i].qty * order[i].px + FlatFee, Debited \ Told)
         = SumOf(Payments, OrderIds)
  <2> DEFINE Ahead == Debited \ Told
             W == [i \in Ahead |-> order[i].qty * order[i].px + FlatFee]
  <2>1. Ahead \in SUBSET OrderIds
    BY <1>1 DEF Debited
  <2>2. IsFiniteSet(Ahead)
    BY <1>1, <2>1, FS_Subset
  <2>3. \A i \in Ahead : W[i] = Payments[i]
    BY <1>1, <1>2, <2>1 DEF Payments, Paid, PaidOf, Debited
  <2>4. \A i \in OrderIds \ Ahead : Payments[i] = 0
    BY <1>2 DEF Payments, Paid, PaidOf, Debited
  <2>5. \A i \in OrderIds : Payments[i] \in Int
    BY <1>1 DEF Payments
  <2> HIDE DEF Ahead
  <2>6. MapThenSumSet(LAMBDA i : order[i].qty * order[i].px + FlatFee, Ahead) = SumOf(W, Ahead)
    BY <2>2, FoldOfPayments
  <2> HIDE DEF W
  <2>7. SumOf(W, Ahead) = SumOf(Payments, Ahead)
    BY <2>2, <2>3, SumSame
  <2>8. SumOf(Payments, OrderIds) = SumOf(Payments, Ahead)
    BY <1>1, <2>1, <2>4, <2>5, SumOfPart
  <2> QED
    BY <2>6, <2>7, <2>8 DEF Ahead
<1> QED
  BY <1>3, <1>4 DEF BooksAgree, LedgersInv, PositionsAgree, BalancesAgree

\* The broker's account and the risk portfolio differ at every step by exactly the
\* fills that the portfolio was not told of, however calls interleave, whichever
\* task is cancelled and whenever the kill switch is pulled.
THEOREM BooksAlwaysAgree == SessionSpec => []BooksAgree
<1> QED
  BY LedgersInitial, LedgersInductive, LedgersExplain, PTL DEF SessionSpec
-----------------------------------------------------------------------------
(* Check-then-act.  Between the gate's verdict and the fill the position of *)
(* the order's symbol changes only by the fill of another client order in   *)
(* flight, and then both are in overlapped.                                 *)

\* The position an order leaves, were it filled now, is within the limit the gate
\* tested it on.
StillApproved(i) ==
    WithinConcentration(vol[order[i].sym] + order[i].qty, approval[i].px, approval[i].eq)

ApprovedInFlight ==
    \A t \in Clients : InCall(t) /\ cur[t] \notin overlapped => StillApproved(cur[t])

SharersAreKnown ==
    \A t, u \in Clients :
        t # u /\ InCall(t) /\ InCall(u) /\ order[cur[t]].sym = order[cur[u]].sym
            => cur[t] \in overlapped

ApprovalInv ==
    /\ LedgersInv
    /\ DOMAIN approval = OrderIds /\ approval = [i \in OrderIds |-> approval[i]]
    /\ lastTold \in [Symbols -> 0 .. created]
    /\ ApprovedInFlight
    /\ SharersAreKnown
    /\ ApprovedConcentrationHolds

\* What an order asks for is never changed.
IntentKept(orders) ==
    \A i \in Made : orders[i].sym = order[i].sym /\ orders[i].qty = order[i].qty

LEMMA StageKeepsIntent ==
    ASSUME CallTypeOK, NEW k, NEW stage
    PROVE  IntentKept([order EXCEPT ![k].at = stage])
<1>1. order \in [OrderIds -> Orders] /\ Made \subseteq OrderIds
  BY MadeAreIds DEF CallTypeOK, BrokerTypeOK
<1>2. \A i \in Made : order[i] \in Orders
  BY <1>1
<1> QED
  BY <1>1, <1>2 DEF IntentKept, Orders

LEMMA SubmissionKeepsIntent ==
    ASSUME CallTypeOK, NEW t, NEW s, NEW q, NEW orders \in [OrderIds -> Orders],
           IntentKept(orders), SubmitOn(orders, t, s, q)
    PROVE  IntentKept(order')
<1>1. created + 1 \notin Made /\ Made \subseteq OrderIds
  BY MadeAreIds, BrokerAssumption DEF CallTypeOK, BrokerTypeOK, Made
<1>2. \A i \in Made : order'[i] = orders[i]
  BY <1>1 DEF SubmitOn
<1> QED
  BY <1>2 DEF IntentKept

\* A step after which no client has a new order, and the portfolio has no new fill.
NothingApproved ==
    /\ UNCHANGED <<vol, approval, lastTold, overlapped>>
    /\ \A t \in Clients : cur'[t] \in {0, cur[t]}
    /\ created' \in Nat /\ created <= created'
    /\ IntentKept(order')

LEMMA ApprovalsRest ==
    ASSUME ApprovalInv, LedgersInv', NothingApproved
    PROVE  ApprovalInv'
<1>1. \A t \in Clients : InCall(t)' => InCall(t) /\ cur'[t] = cur[t] /\ cur[t] \in Made
  BY SubmittingMade, SessionAssumption
  DEF NothingApproved, InCall, ApprovalInv, LedgersInv, Clients
<1>2. \A t \in Clients : InCall(t)' => /\ order'[cur[t]].sym = order[cur[t]].sym
                                      /\ order'[cur[t]].qty = order[cur[t]].qty
  BY <1>1 DEF NothingApproved, IntentKept
<1>3. ApprovedInFlight'
  <2> SUFFICES ASSUME NEW t \in Clients, InCall(t)', cur'[t] \notin overlapped'
               PROVE  StillApproved(cur[t])'
    BY <1>1 DEF ApprovedInFlight
  <2>1. StillApproved(cur[t])
    BY <1>1 DEF ApprovalInv, ApprovedInFlight, NothingApproved
  <2> QED
    BY <1>1, <1>2, <2>1 DEF StillApproved, NothingApproved, WithinConcentration
<1>4. SharersAreKnown'
  BY <1>1, <1>2 DEF ApprovalInv, SharersAreKnown, NothingApproved
<1>5. ApprovedConcentrationHolds'
  BY DEF ApprovalInv, ApprovedConcentrationHolds, NothingApproved, WithinConcentration
<1>6. lastTold' \in [Symbols -> 0 .. created']
  BY DEF ApprovalInv, NothingApproved, LedgersInv, CallTypeOK, BrokerTypeOK
<1>7. OrderIds' = OrderIds
  BY DEF OrderIds
<1> QED
  BY <1>3, <1>4, <1>5, <1>6, <1>7 DEF ApprovalInv, NothingApproved

\* A client submits an order the gate approved on the position of the moment.
LEMMA ApprovedSubmission ==
    ASSUME ApprovalInv, LedgersInv', NEW t \in Clients, NEW s \in Symbols, NEW q \in Int,
           NEW table, ClientSubmit(t, s, q, table), vol' = vol, lastTold' = lastTold
    PROVE  ApprovalInv'
<1> DEFINE k == created + 1
           px == ResolvePrices(s, table)[s]
<1>0. CallTypeOK /\ t \in Tasks /\ Clients \subseteq Tasks
  BY SessionAssumption DEF ApprovalInv, LedgersInv, Clients
<1>1. /\ SubmitOn(order, t, s, q)
      /\ WithinConcentration(vol[s] + q, px, equity')
      /\ approval' = [approval EXCEPT ![k] = [px |-> px, eq |-> equity']]
      /\ overlapped' = IF Overlap(s) = {} THEN overlapped
                       ELSE overlapped \cup Overlap(s) \cup {k}
  BY DEF ClientSubmit, ValidateOrder
<1>2. /\ created \in Nat /\ k \in OrderIds /\ k \notin Made /\ Made \subseteq OrderIds
      /\ created' = k
  BY <1>0, <1>1, MadeAreIds, BrokerAssumption
  DEF CallTypeOK, BrokerTypeOK, Made, OrderIds, SubmitOn
<1>3. /\ order' = [order EXCEPT ![k] =
                      [by |-> t, sym |-> s, qty |-> q, px |-> 0, at |-> "submitted"]]
      /\ cur' = [cur EXCEPT ![t] = k]
      /\ order \in [OrderIds -> Orders] /\ cur \in [Tasks -> 0 .. created]
  BY <1>0, <1>1 DEF SubmitOn, CallTypeOK, BrokerTypeOK
<1> HIDE DEF px
<1>4. /\ order'[k].sym = s /\ order'[k].qty = q
      /\ approval'[k].px = px /\ approval'[k].eq = equity'
      /\ \A i \in Made : order'[i] = order[i] /\ approval'[i] = approval[i]
      /\ cur'[t] = k /\ \A u \in Clients : u # t => cur'[u] = cur[u]
      /\ overlapped \subseteq overlapped'
  <2>1. DOMAIN approval = OrderIds /\ approval = [i \in OrderIds |-> approval[i]]
    BY DEF ApprovalInv
  <2>2. \A i \in Made : i # k /\ i \in OrderIds
    BY <1>2
  <2>3. approval'[k] = [px |-> px, eq |-> equity']
    BY <1>1, <1>2, <2>1
  <2>4. order'[k] = [by |-> t, sym |-> s, qty |-> q, px |-> 0, at |-> "submitted"]
    BY <1>2, <1>3
  <2>5. \A i \in Made : order'[i] = order[i] /\ approval'[i] = approval[i]
    BY <1>1, <1>3, <2>1, <2>2
  <2>6. cur'[t] = k /\ \A u \in Clients : u # t => cur'[u] = cur[u]
    BY <1>0, <1>3
  <2> QED
    BY <1>1, <2>3, <2>4, <2>5, <2>6
<1>5. WithinConcentration(vol'[order'[k].sym] + order'[k].qty, approval'[k].px, approval'[k].eq)
  BY <1>1, <1>4
<1>6. \A u \in Clients : u # t /\ InCall(u)' =>
          InCall(u) /\ cur[u] \in Made /\ cur'[u] = cur[u] /\ order'[cur[u]] = order[cur[u]]
  BY <1>0, <1>4, SubmittingMade DEF InCall
<1>7. ApprovedInFlight'
  <2> SUFFICES ASSUME NEW u \in Clients, InCall(u)', cur'[u] \notin overlapped'
               PROVE  WithinConcentration(vol'[order'[cur'[u]].sym] + order'[cur'[u]].qty,
                                          approval'[cur'[u]].px, approval'[cur'[u]].eq)
    BY DEF ApprovedInFlight, StillApproved, WithinConcentration
  <2>1. CASE u = t
    BY <1>4, <1>5, <2>1
  <2>2. CASE u # t
    <3>1. StillApproved(cur[u])
      BY <1>4, <1>6, <2>2 DEF ApprovalInv, ApprovedInFlight
    <3> QED
      BY <1>4, <1>6, <2>2, <3>1 DEF StillApproved
  <2> QED
    BY <2>1, <2>2
<1>8. ASSUME NEW u \in Clients, u # t, InCall(u)', order'[cur'[u]].sym = s
      PROVE  cur'[u] \in overlapped' /\ k \in overlapped'
  <2>1. InCall(u) /\ cur[u] \in Made /\ cur'[u] = cur[u] /\ order[cur[u]].sym = s
    BY <1>6, <1>8
  <2>2. order[cur[u]].by = u
    BY <1>0, <2>1 DEF ApprovalInv, LedgersInv, OwnOrders
  <2>3. cur[u] \in Overlap(s)
    BY <1>0, <2>1, <2>2 DEF Overlap, InFlight, OrdersOf
  <2> QED
    BY <1>1, <2>1, <2>3
<1>9. SharersAreKnown'
  <2> SUFFICES ASSUME NEW u \in Clients, NEW w \in Clients, u # w, InCall(u)', InCall(w)',
                      order'[cur'[u]].sym = order'[cur'[w]].sym
               PROVE  cur'[u] \in overlapped'
    BY DEF SharersAreKnown
  <2>1. CASE u = t
    BY <1>4, <1>8, <2>1
  <2>2. CASE w = t
    BY <1>4, <1>8, <2>2
  <2>3. CASE u # t /\ w # t
    <3>1. cur[u] \in overlapped
      BY <1>6, <2>3 DEF ApprovalInv, SharersAreKnown
    <3> QED
      BY <1>4, <2>3, <3>1
  <2> QED
    BY <2>1, <2>2, <2>3
<1>10. ApprovedConcentrationHolds'
  <2> SUFFICES ASSUME NEW x \in Symbols, lastTold[x] \notin {0} \cup overlapped'
               PROVE  WithinConcentration(vol[x], approval'[lastTold[x]].px,
                                          approval'[lastTold[x]].eq)
    BY DEF ApprovedConcentrationHolds, WithinConcentration
  <2>1. lastTold[x] \in Made
    BY <1>2 DEF ApprovalInv, Made
  <2>2. WithinConcentration(vol[x], approval[lastTold[x]].px, approval[lastTold[x]].eq)
    BY <1>4 DEF ApprovalInv, ApprovedConcentrationHolds
  <2> QED
    BY <1>4, <2>1, <2>2
<1>11. lastTold' \in [Symbols -> 0 .. created']
  BY <1>2 DEF ApprovalInv
<1>12. (DOMAIN approval = OrderIds /\ approval = [i \in OrderIds |-> approval[i]])'
  <2>1. OrderIds' = OrderIds
    BY DEF OrderIds
  <2>2. DOMAIN approval = OrderIds /\ approval = [i \in OrderIds |-> approval[i]]
    BY DEF ApprovalInv
  <2> QED
    BY <1>1, <2>1, <2>2
<1> QED
  BY <1>7, <1>9, <1>10, <1>11, <1>12 DEF ApprovalInv

\* The portfolio is told of a fill: the position is the one the order was approved for
\* and, if others of its symbol are in flight, none of them shared it unknown.
LEMMA ApprovedFill ==
    ASSUME ApprovalInv, LedgersInv', NEW t \in Clients, ClientTold(t)
    PROVE  ApprovalInv'
<1>0. CallTypeOK /\ t \in Tasks /\ Clients \subseteq Tasks
  BY SessionAssumption DEF ApprovalInv, LedgersInv, Clients
<1>1. PICK k \in OrderIds : k = cur[t] /\ k \in Made
  BY <1>0, SubmittingMade, MadeAreIds DEF ClientTold, At
<1>2. /\ InCall(t) /\ OnFill(order[k].sym, order[k].qty, order[k].px, FlatFee)
      /\ lastTold' = [lastTold EXCEPT ![order[k].sym] = k]
      /\ UNCHANGED <<created, approval, overlapped>>
      /\ cur' = [cur EXCEPT ![t] = 0]
  BY <1>1 DEF ClientTold, ClientReturn, At
<1>3. order' = [order EXCEPT ![k].at = "reported"]
  BY <1>1 DEF ClientTold, ClientReturn, Returned, At
<1>4. IntentKept(order')
  BY <1>0, <1>3, StageKeepsIntent
<1>5. PICK s \in Symbols, q \in Int, p \in Int : s = order[k].sym /\ q = order[k].qty /\ p = order[k].px
  <2>1. order[k] \in Orders
    BY <1>0 DEF CallTypeOK, BrokerTypeOK
  <2> QED
    BY <2>1, SessionAssumption DEF Orders
<1>6. vol' = [vol EXCEPT ![s] = vol[s] + q]
  <2>1. vol' = [vol EXCEPT ![s] = FillOutcome(vol[s], avg[s], q, p).v]
    BY <1>2, <1>5 DEF OnFill
  <2>2. \A w \in Int, e \in Int : /\ FillOutcome(w, e, q, p).v = w + q
                                  /\ FillOutcome(w, e, q, p).out = q * p
                                  /\ FillOutcome(w, e, q, p).a \in Int
    BY <1>5, OutcomeTyped
  <2>3. vol[s] \in Int /\ avg[s] \in Int
    BY DEF ApprovalInv, LedgersInv, BookNumbers
  <2> QED
    BY <2>1, <2>2, <2>3
<1>7. /\ vol'[s] = vol[s] + q /\ lastTold'[s] = k
      /\ \A x \in Symbols : x # s => vol'[x] = vol[x] /\ lastTold'[x] = lastTold[x]
  BY <1>2, <1>5, <1>6 DEF ApprovalInv, LedgersInv, BookNumbers
<1>8. \A u \in Clients : InCall(u)' =>
          /\ u # t /\ InCall(u) /\ cur'[u] = cur[u] /\ cur[u] \in Made
          /\ order'[cur[u]].sym = order[cur[u]].sym /\ order'[cur[u]].qty = order[cur[u]].qty
          /\ order[cur[u]].sym \in Symbols
  <2> SUFFICES ASSUME NEW u \in Clients, InCall(u)'
               PROVE  /\ u # t /\ InCall(u) /\ cur'[u] = cur[u] /\ cur[u] \in Made
                      /\ order'[cur[u]].sym = order[cur[u]].sym
                      /\ order'[cur[u]].qty = order[cur[u]].qty
                      /\ order[cur[u]].sym \in Symbols
    OBVIOUS
  <2>1. cur \in [Tasks -> 0 .. created]
    BY <1>0 DEF CallTypeOK, BrokerTypeOK
  <2>2. u # t /\ InCall(u) /\ cur'[u] = cur[u]
    BY <1>0, <1>2, <2>1 DEF InCall
  <2>3. cur[u] \in Made /\ cur[u] \in OrderIds
    BY <1>0, <2>2, SubmittingMade, MadeAreIds
  <2>4. order[cur[u]] \in Orders
    BY <1>0, <2>3 DEF CallTypeOK, BrokerTypeOK
  <2> QED
    BY <1>4, <2>2, <2>3, <2>4, SessionAssumption DEF IntentKept, Orders
<1>9. ApprovedInFlight'
  <2> SUFFICES ASSUME NEW u \in Clients, InCall(u)', cur'[u] \notin overlapped'
               PROVE  WithinConcentration(vol'[order'[cur'[u]].sym] + order'[cur'[u]].qty,
                                          approval'[cur'[u]].px, approval'[cur'[u]].eq)
    BY DEF ApprovedInFlight, StillApproved, WithinConcentration
  <2>1. order[cur[u]].sym # s
    BY <1>1, <1>2, <1>5, <1>8 DEF ApprovalInv, SharersAreKnown
  <2>2. StillApproved(cur[u])
    BY <1>2, <1>8 DEF ApprovalInv, ApprovedInFlight
  <2> QED
    BY <1>2, <1>7, <1>8, <2>1, <2>2 DEF StillApproved
<1>10. SharersAreKnown'
  BY <1>2, <1>8 DEF ApprovalInv, SharersAreKnown
<1>11. ApprovedConcentrationHolds'
  <2> SUFFICES ASSUME NEW x \in Symbols, lastTold'[x] \notin {0} \cup overlapped
               PROVE  WithinConcentration(vol'[x], approval[lastTold'[x]].px,
                                          approval[lastTold'[x]].eq)
    BY <1>2 DEF ApprovedConcentrationHolds, WithinConcentration
  <2>1. CASE x = s
    <3>1. StillApproved(k)
      BY <1>1, <1>2, <1>7, <2>1 DEF ApprovalInv, ApprovedInFlight
    <3> QED
      BY <1>5, <1>7, <2>1, <3>1 DEF StillApproved
  <2>2. CASE x # s
    BY <1>7, <2>2 DEF ApprovalInv, ApprovedConcentrationHolds
  <2> QED
    BY <2>1, <2>2
<1>12. lastTold' \in [Symbols -> 0 .. created']
  <2>1. k \in 0 .. created
    BY <1>1 DEF Made
  <2> QED
    BY <1>2, <2>1 DEF ApprovalInv
<1>13. (DOMAIN approval = OrderIds /\ approval = [i \in OrderIds |-> approval[i]])'
  <2>1. OrderIds' = OrderIds
    BY DEF OrderIds
  <2>2. DOMAIN approval = OrderIds /\ approval = [i \in OrderIds |-> approval[i]]
    BY DEF ApprovalInv
  <2> QED
    BY <1>2, <2>1, <2>2
<1> QED
  BY <1>9, <1>10, <1>11, <1>12, <1>13 DEF ApprovalInv

\* From one submission of the liquidation to the next, clients stand where they stood.
LEMMA LiquidationApprovesNothing ==
    ASSUME CallTypeOK, NEW h \in Halts, NEW left, NEW orders \in [OrderIds -> Orders],
           IntentKept(orders), Liquidate(h, left, orders),
           UNCHANGED <<vol, approval, lastTold, overlapped>>
    PROVE  NothingApproved
<1>0. h \in Tasks /\ h \notin Clients /\ Clients \subseteq Tasks /\ created \in Nat
      /\ cur \in [Tasks -> 0 .. created]
  BY SessionAssumption, BrokerAssumption DEF Clients, CallTypeOK, BrokerTypeOK
<1>1. CASE order' = orders /\ cur' = [cur EXCEPT ![h] = 0] /\ created' = created
  BY <1>0, <1>1 DEF NothingApproved
<1>2. CASE \E s \in Symbols : SubmitOn(orders, h, s, -left[s])
  <2>1. PICK s \in Symbols : SubmitOn(orders, h, s, -left[s])
    BY <1>2
  <2>2. IntentKept(order')
    BY <2>1, SubmissionKeepsIntent
  <2>3. created' = created + 1 /\ cur' = [cur EXCEPT ![h] = created + 1]
    BY <2>1 DEF SubmitOn
  <2> QED
    BY <1>0, <2>2, <2>3 DEF NothingApproved
<1> QED
  BY <1>1, <1>2 DEF Liquidate

LEMMA IntentOfSame == IntentKept(order)
BY DEF IntentKept

LEMMA ApprovalInductive == ApprovalInv /\ [SessionNext]_sessionVars => ApprovalInv'
<1> SUFFICES ASSUME ApprovalInv, [SessionNext]_sessionVars PROVE ApprovalInv'
  OBVIOUS
<1>0. LedgersInv'
  BY LedgersInductive DEF ApprovalInv
<1>1. /\ CallTypeOK /\ created \in Nat /\ cur \in [Tasks -> 0 .. created]
      /\ order \in [OrderIds -> Orders] /\ Clients \subseteq Tasks
  BY SessionAssumption, BrokerAssumption
  DEF ApprovalInv, LedgersInv, CallTypeOK, BrokerTypeOK, Clients
<1>2. ASSUME UNCHANGED <<vol, approval, lastTold, overlapped, created>>, IntentKept(order'),
             NEW t, cur' = cur \/ cur' = [cur EXCEPT ![t] = 0]
      PROVE  ApprovalInv'
  <2>1. NothingApproved
    BY <1>1, <1>2 DEF NothingApproved
  <2> QED
    BY <1>0, <2>1, ApprovalsRest
<1>3. CASE Stop
  <2>1. /\ UNCHANGED <<vol, approval, lastTold, overlapped, created, order>>
        /\ cur' = [cur EXCEPT ![feedTask] = 0]
    BY <1>3 DEF Stop, portfolioVars, bookVars, historyOfSession
  <2> QED
    BY <1>2, <2>1, IntentOfSame
<1>4. ASSUME NEW c \in Closers, NEW s \in Symbols, CloseRequest(c, s) PROVE ApprovalInv'
  <2>1. /\ ClientSubmit(c, s, -held[s], Quoted(s, entry[s])) /\ c \in Clients
        /\ vol' = vol /\ lastTold' = lastTold
    BY <1>4 DEF CloseRequest, Clients, portfolioVars, bookVars
  <2>2. -held[s] \in Int
    BY <1>1, SessionAssumption DEF CallTypeOK, BrokerTypeOK
  <2> QED
    BY <1>0, <2>1, <2>2, ApprovedSubmission
<1>5. ASSUME NEW f \in Feeds, Start(f) \/ FeedEnds(f) PROVE ApprovalInv'
  <2>1. UNCHANGED <<vol, approval, lastTold, overlapped, created, order, cur>>
    BY <1>5 DEF Start, FeedEnds, portfolioVars, bookVars, brokerVars, callVars, historyOfSession
  <2> QED
    BY <1>2, <2>1, IntentOfSame
<1>6. ASSUME NEW f \in Feeds, NEW s \in Symbols, NEW p \in Prices,
             QuietBar(f, s, p) \/ BarFails(f, s, p)
      PROVE  ApprovalInv'
  <2>1. UNCHANGED <<vol, approval, lastTold, overlapped, created, order, cur>>
    BY <1>6 DEF QuietBar, BarFails, Observe, OnMarket, callVars, historyOfSession
  <2> QED
    BY <1>2, <2>1, IntentOfSame
<1>7. ASSUME NEW f \in Feeds, NEW s \in Symbols, NEW p \in Prices, NEW q \in SignedVolumes,
             OrderBar(f, s, p, q)
      PROVE  ApprovalInv'
  <2>1. /\ ClientSubmit(f, s, q, Quoted(s, p)) /\ f \in Clients
        /\ vol' = vol /\ lastTold' = lastTold
    BY <1>7 DEF OrderBar, Observe, OnMarket, Clients
  <2>2. q \in Int
    BY PortfolioAssumption DEF SignedVolumes
  <2> QED
    BY <1>0, <2>1, <2>2, ApprovedSubmission
<1>8. ASSUME NEW h \in Halts, HaltStart(h) PROVE ApprovalInv'
  <2>1. /\ Liquidate(h, held, order) /\ UNCHANGED <<vol, approval, lastTold, overlapped>>
    BY <1>8 DEF HaltStart, portfolioVars, bookVars
  <2> QED
    BY <1>0, <1>1, <2>1, IntentOfSame, LiquidationApprovesNothing, ApprovalsRest
<1>9. ASSUME NEW t \in Tasks, TaskStep(t) PROVE ApprovalInv'
  <2>1. CASE InsideBroker(t)
    <3>1. UNCHANGED <<vol, approval, lastTold, overlapped, created, cur>>
      BY <2>1 DEF InsideBroker, BrokerStep, Accept, Debit, MovePosition, MarkFilled,
                  portfolioVars, bookVars, historyOfSession
    <3>2. CASE Debit(t)
      <4>1. cur[t] \in OrderIds /\ Made \subseteq OrderIds
        BY <1>1, <3>2, SubmittingMade, MadeAreIds DEF Debit, At
      <4>2. PICK k \in OrderIds : k = cur[t]
        BY <4>1
      <4>3. order[k] \in Orders
        BY <1>1
      <4> DEFINE new == [order[k] EXCEPT !.px = ExecutionPrice(order[k]), !.at = "debited"]
      <4>4. new.sym = order[k].sym /\ new.qty = order[k].qty
        BY <4>3 DEF Orders
      <4>5. order' = [order EXCEPT ![k] = new]
        BY <3>2, <4>2 DEF Debit
      <4> HIDE DEF new
      <4>6. IntentKept(order')
        BY <1>1, <4>1, <4>4, <4>5 DEF IntentKept
      <4> QED
        BY <1>2, <3>1, <4>6
    <3>3. CASE Accept(t) \/ MovePosition(t) \/ MarkFilled(t)
      <4>1. PICK stage : order' = [order EXCEPT ![cur[t]].at = stage]
        BY <3>3 DEF Accept, MovePosition, MarkFilled, Enter
      <4>2. IntentKept(order')
        BY <1>1, <4>1, StageKeepsIntent
      <4> QED
        BY <1>2, <3>1, <4>2
    <3> QED
      BY <2>1, <3>2, <3>3 DEF InsideBroker, BrokerStep
  <2>2. CASE t \in Clients /\ ClientTold(t)
    BY <1>0, <2>2, ApprovedFill
  <2>3. CASE t \in Clients /\ (ClientRefused(t) \/ ClientUnbookable(t))
    <3>1. /\ UNCHANGED <<vol, approval, lastTold, overlapped, created>>
          /\ order' = Returned(t) /\ cur' = [cur EXCEPT ![t] = 0]
      BY <2>3 DEF ClientRefused, ClientUnbookable, ClientReturn, portfolioVars, bookVars
    <3>2. IntentKept(order')
      BY <1>1, <3>1, StageKeepsIntent DEF Returned
    <3> QED
      BY <1>2, <3>1, <3>2
  <2>4. CASE t \in Halts /\ HaltReturn(t)
    <3>1. /\ Liquidate(t, todo[t], Returned(t)) /\ InCall(t)
          /\ UNCHANGED <<vol, approval, lastTold, overlapped>>
      BY <2>4 DEF HaltReturn, Returning, At, portfolioVars, bookVars, historyOfSession
    <3>2. IntentKept(Returned(t)) /\ Returned(t) \in [OrderIds -> Orders]
      BY <1>1, <3>1, StageKeepsIntent, ReturnKeepsAuthor DEF Returned
    <3> QED
      BY <1>0, <1>1, <2>4, <3>1, <3>2, LiquidationApprovesNothing, ApprovalsRest
  <2> QED
    BY <1>9, <2>1, <2>2, <2>3, <2>4 DEF TaskStep
<1>10. CASE UNCHANGED sessionVars
  <2>1. UNCHANGED <<vol, approval, lastTold, overlapped, created, order, cur>>
    BY <1>10 DEF sessionVars, portfolioVars, bookVars, brokerVars, callVars, historyOfSession
  <2> QED
    BY <1>2, <2>1, IntentOfSame
<1> QED
  BY <1>3, <1>4, <1>5, <1>6, <1>7, <1>8, <1>9, <1>10 DEF SessionNext, FeedStep

LEMMA ApprovalInitial == SessionInit => ApprovalInv
<1> SUFFICES ASSUME SessionInit PROVE ApprovalInv
  OBVIOUS
<1>1. LedgersInv
  BY LedgersInitial
<1>2. /\ created = 0 /\ \A t \in Tasks : cur[t] = 0
      /\ approval = [i \in OrderIds |-> [px |-> 0, eq |-> 0]]
      /\ lastTold = [s \in Symbols |-> 0]
  BY DEF SessionInit, BrokerInit
<1>3. Clients \subseteq Tasks
  BY SessionAssumption DEF Clients
<1> QED
  BY <1>1, <1>2, <1>3
  DEF ApprovalInv, ApprovedInFlight, SharersAreKnown, ApprovedConcentrationHolds, InCall

\* The gate decides before the broker's awaits, on a position that others change: an
\* order that shared its flight with no other client order of its symbol still
\* leaves, when its fill is applied, the position it was approved for.
THEOREM ApprovedConcentrationAlwaysHolds == SessionSpec => []ApprovedConcentrationHolds
<1>1. ApprovalInv => ApprovedConcentrationHolds
  BY DEF ApprovalInv
<1> QED
  BY <1>1, ApprovalInitial, ApprovalInductive, PTL DEF SessionSpec
-----------------------------------------------------------------------------
(* The risk portfolio of a session is an account like any other: what the   *)
(* session does to it is fills of whole units at a price, and prices.       *)

\* No order is for nothing.
OrdersReal == \A i \in Made : order[i].qty # 0

LEMMA IntentKeepsReal ==
    ASSUME OrdersReal, created' = created, IntentKept(order')
    PROVE  OrdersReal'
BY DEF OrdersReal, IntentKept, Made

LEMMA SubmissionKeepsReal ==
    ASSUME CallTypeOK, OrdersReal, NEW t, NEW s, NEW q, q # 0,
           NEW orders \in [OrderIds -> Orders], IntentKept(orders), SubmitOn(orders, t, s, q)
    PROVE  OrdersReal'
<1>1. created \in Nat /\ created' = created + 1 /\ created + 1 \in OrderIds
  BY BrokerAssumption DEF SubmitOn, CallTypeOK, BrokerTypeOK, OrderIds
<1>2. order'[created + 1].qty = q
  BY <1>1 DEF SubmitOn
<1>3. IntentKept(order')
  BY SubmissionKeepsIntent
<1> QED
  BY <1>1, <1>2, <1>3 DEF OrdersReal, IntentKept, Made

LEMMA LiquidationKeepsReal ==
    ASSUME CallTypeOK, OrdersReal, NEW h, NEW left \in [Symbols -> Int],
           NEW orders \in [OrderIds -> Orders], IntentKept(orders), Liquidate(h, left, orders)
    PROVE  OrdersReal'
<1>1. CASE order' = orders /\ created' = created
  BY <1>1, IntentKeepsReal
<1>2. ASSUME NEW s \in Symbols, left[s] # 0, SubmitOn(orders, h, s, -left[s])
      PROVE  OrdersReal'
  <2>1. -left[s] # 0
    BY <1>2
  <2> QED
    BY <1>2, <2>1, SubmissionKeepsReal
<1> QED
  BY <1>1, <1>2 DEF Liquidate

LEMMA SessionMovesPortfolio ==
    ASSUME LedgersInv, OrdersReal, [SessionNext]_sessionVars
    PROVE  OrdersReal' /\ [PortfolioEvent]_portfolioVars
<1>0. /\ CallTypeOK /\ order \in [OrderIds -> Orders] /\ held \in [Symbols -> Int]
      /\ todo \in [Halts -> [Symbols -> Int]]
  BY SessionAssumption DEF LedgersInv, CallTypeOK, BrokerTypeOK
<1>1. CASE Stop
  <2>1. UNCHANGED <<portfolioVars, order, created>>
    BY <1>1 DEF Stop
  <2> QED
    BY <2>1, IntentOfSame, IntentKeepsReal
<1>2. ASSUME NEW c \in Closers, NEW s \in Symbols, CloseRequest(c, s)
      PROVE  OrdersReal' /\ [PortfolioEvent]_portfolioVars
  <2>1. SubmitOn(order, c, s, -held[s]) /\ held[s] > 0 /\ UNCHANGED portfolioVars
    BY <1>2 DEF CloseRequest, ClientSubmit
  <2>2. -held[s] # 0
    BY <1>0, <2>1
  <2> QED
    BY <1>0, <2>1, <2>2, IntentOfSame, SubmissionKeepsReal
<1>3. ASSUME NEW f \in Feeds, Start(f) \/ FeedEnds(f)
      PROVE  OrdersReal' /\ [PortfolioEvent]_portfolioVars
  <2>1. UNCHANGED <<portfolioVars, order, created>>
    BY <1>3 DEF Start, FeedEnds, brokerVars, callVars
  <2> QED
    BY <2>1, IntentOfSame, IntentKeepsReal
<1>4. ASSUME NEW f \in Feeds, NEW s \in Symbols, NEW p \in Prices,
             QuietBar(f, s, p) \/ BarFails(f, s, p)
      PROVE  OrdersReal' /\ [PortfolioEvent]_portfolioVars
  <2>1. OnMarket(s, p) /\ UNCHANGED <<order, created>>
    BY <1>4 DEF QuietBar, BarFails, Observe, callVars
  <2> QED
    BY <2>1, IntentOfSame, IntentKeepsReal DEF PortfolioEvent
<1>5. ASSUME NEW f \in Feeds, NEW s \in Symbols, NEW p \in Prices, NEW q \in SignedVolumes,
             OrderBar(f, s, p, q)
      PROVE  OrdersReal' /\ [PortfolioEvent]_portfolioVars
  <2>1. OnMarket(s, p) /\ SubmitOn(order, f, s, q)
    BY <1>5 DEF OrderBar, Observe, ClientSubmit
  <2>2. q # 0
    BY PortfolioAssumption DEF SignedVolumes
  <2> QED
    BY <1>0, <2>1, <2>2, IntentOfSame, SubmissionKeepsReal DEF PortfolioEvent
<1>6. ASSUME NEW h \in Halts, HaltStart(h)
      PROVE  OrdersReal' /\ [PortfolioEvent]_portfolioVars
  <2>1. Liquidate(h, held, order) /\ UNCHANGED portfolioVars
    BY <1>6 DEF HaltStart
  <2> QED
    BY <1>0, <2>1, IntentOfSame, LiquidationKeepsReal
<1>7. ASSUME NEW t \in Tasks, InsideBroker(t)
      PROVE  OrdersReal' /\ [PortfolioEvent]_portfolioVars
  <2>1. created' = created /\ UNCHANGED portfolioVars
    BY <1>7 DEF InsideBroker, BrokerStep, Accept, Debit, MovePosition, MarkFilled
  <2>2. CASE Debit(t)
    <3>1. InCall(t)
      BY <2>2 DEF Debit, At
    <3>2. PICK k \in OrderIds : k = cur[t]
      BY <1>0, <3>1, SubmittingMade, MadeAreIds
    <3>3. order[k] \in Orders /\ Made \subseteq OrderIds
      BY <1>0, MadeAreIds
    <3> DEFINE new == [order[k] EXCEPT !.px = ExecutionPrice(order[k]), !.at = "debited"]
    <3>4. new.sym = order[k].sym /\ new.qty = order[k].qty
      BY <3>3 DEF Orders
    <3>5. order' = [order EXCEPT ![k] = new]
      BY <2>2, <3>2 DEF Debit
    <3> HIDE DEF new
    <3>6. IntentKept(order')
      BY <1>0, <3>3, <3>4, <3>5 DEF IntentKept
    <3> QED
      BY <2>1, <3>6, IntentKeepsReal
  <2>3. CASE Accept(t) \/ MovePosition(t) \/ MarkFilled(t)
    <3>1. PICK stage : order' = [order EXCEPT ![cur[t]].at = stage]
      BY <2>3 DEF Accept, MovePosition, MarkFilled, Enter
    <3>2. IntentKept(order')
      BY <1>0, <3>1, StageKeepsIntent
    <3> QED
      BY <2>1, <3>2, IntentKeepsReal
  <2> QED
    BY <1>7, <2>2, <2>3 DEF InsideBroker, BrokerStep
<1>8. ASSUME NEW t \in Clients, ClientTold(t) \/ ClientRefused(t) \/ ClientUnbookable(t)
      PROVE  OrdersReal' /\ [PortfolioEvent]_portfolioVars
  <2>1. order' = Returned(t) /\ created' = created
    BY <1>8 DEF ClientTold, ClientRefused, ClientUnbookable, ClientReturn
  <2>2. OrdersReal'
    BY <1>0, <2>1, StageKeepsIntent, IntentKeepsReal DEF Returned
  <2>3. CASE ClientTold(t)
    <3>1. t \in Tasks /\ InCall(t)
      BY <2>3, SessionAssumption DEF ClientTold, At, Clients
    <3>2. PICK k \in Made : k = cur[t]
      BY <1>0, <3>1, SubmittingMade
    <3>3. order[k].sym \in Symbols /\ order[k].qty \in Int \ {0} /\ order[k].px \in Int
      <4>1. order[k] \in Orders
        BY <1>0, MadeAreIds
      <4> QED
        BY <4>1, SessionAssumption DEF Orders, OrdersReal
    <3>4. OnFill(order[k].sym, order[k].qty, order[k].px, FlatFee) /\ order[k].px > 0
      BY <2>3, <3>2 DEF ClientTold
    <3>5. order[k].px \in Nat \ {0} /\ FlatFee \in Nat
      BY <3>3, <3>4, BrokerAssumption
    <3>6. PortfolioEvent
      BY <3>3, <3>4, <3>5, FillIsEvent
    <3> QED
      BY <2>2, <3>6
  <2>4. CASE ClientRefused(t) \/ ClientUnbookable(t)
    BY <2>2, <2>4 DEF ClientRefused, ClientUnbookable
  <2> QED
    BY <1>8, <2>3, <2>4
<1>9. ASSUME NEW h \in Halts, HaltReturn(h)
      PROVE  OrdersReal' /\ [PortfolioEvent]_portfolioVars
  <2>1. Liquidate(h, todo[h], Returned(h)) /\ InCall(h) /\ UNCHANGED portfolioVars
    BY <1>9 DEF HaltReturn, Returning, At
  <2>2. h \in Tasks
    BY SessionAssumption
  <2>3. IntentKept(Returned(h)) /\ Returned(h) \in [OrderIds -> Orders]
    BY <1>0, <2>1, <2>2, StageKeepsIntent, ReturnKeepsAuthor DEF Returned
  <2>4. todo[h] \in [Symbols -> Int]
    BY <1>0
  <2> QED
    BY <1>0, <2>1, <2>3, <2>4, LiquidationKeepsReal
<1>10. CASE UNCHANGED sessionVars
  <2>1. UNCHANGED <<portfolioVars, order, created>>
    BY <1>10 DEF sessionVars, brokerVars, callVars
  <2> QED
    BY <2>1, IntentOfSame, IntentKeepsReal
<1> QED
  BY <1>1, <1>2, <1>3, <1>4, <1>5, <1>6, <1>7, <1>8, <1>9, <1>10
  DEF SessionNext, FeedStep, TaskStep

\* Whatever the tasks of a session interleave to, its risk portfolio explains its
\* realized PnL and its equity, the number the drawdown guard and the kill switch
\* read, and implements the ledger.
THEOREM SessionAccountIsSound ==
    SessionSpec => /\ []RealizedPnlExplainsCash
                   /\ []EquityIsExplained
                   /\ AnyLedger!Spec
<1>1. SessionInit => LedgersInv /\ OrdersReal /\ PortfolioInit
  <2>1. SessionInit => PortfolioInit /\ created = 0
    BY DEF SessionInit, BrokerInit
  <2>2. created = 0 => OrdersReal
    BY DEF OrdersReal, Made
  <2> QED
    BY <2>1, <2>2, LedgersInitial
<1>2. LedgersInv /\ OrdersReal /\ [SessionNext]_sessionVars
        => LedgersInv' /\ OrdersReal' /\ [PortfolioEvent]_portfolioVars
  BY LedgersInductive, SessionMovesPortfolio
<1>3. SessionSpec => AnyPortfolio
  BY <1>1, <1>2, PTL DEF SessionSpec, AnyPortfolio
<1> QED
  BY <1>3, AnyPortfolioIsSound
=============================================================================

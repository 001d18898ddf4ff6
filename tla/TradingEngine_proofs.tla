------------------------ MODULE TradingEngine_proofs ------------------------
(***************************************************************************)
(* Orders of the event-driven engine are executed on the bar after the one *)
(* they were decided on, and a run ends with no open position, for every   *)
(* feed, strategy, council, risk engine and portfolio.                     *)
(*                                                                         *)
(* For the first theorem the quantity of an order does not matter, and the *)
(* queue is a sequence over whatever it holds.  For the second it does: a  *)
(* closing order must be for the whole position, and the fill it gives     *)
(* must be one the portfolio accepts, so the queue is given its events.    *)
(***************************************************************************)
EXTENDS TradingEngine, Portfolio_proofs, TLAPS

IsSequence(q) == q \in Seq({q[i] : i \in 1 .. Len(q)})

\* An event of the queue while bar b is handled.
Timely(e, b) ==
    /\ e.kind = "order" => e.bar = b
    /\ e.kind = "fill" => e.bar = b - 1

TimelyQueue(q, b) == IsSequence(q) /\ \A i \in 1 .. Len(q) : Timely(q[i], b)

\* Orders kept for the next bar while bar b is handled.
TimelyOrders(q, b) == IsSequence(q) /\ \A i \in 1 .. Len(q) : q[i].bar = b

TimeInv ==
    /\ bars \in Nat
    /\ TimelyQueue(queue, bars)
    /\ TimelyOrders(pending, bars)
-----------------------------------------------------------------------------
\* Any sequence is a sequence over its own elements.
LEMMA OverItsElements == ASSUME NEW S, NEW q \in Seq(S) PROVE IsSequence(q)
BY DEF IsSequence

\* What Tail does to a sequence.
LEMMA TailElements ==
    ASSUME NEW q, IsSequence(q), q # <<>>
    PROVE  /\ IsSequence(Tail(q))
           /\ Len(Tail(q)) = Len(q) - 1 /\ Len(q) \in Nat \ {0}
           /\ \A i \in 1 .. Len(q) - 1 : Tail(q)[i] = q[i + 1]
<1> DEFINE S == {q[i] : i \in 1 .. Len(q)}
<1>1. q \in Seq(S)
  BY DEF IsSequence
<1> HIDE DEF S
<1>2. Tail(q) \in Seq(S)
  BY <1>1
<1>3. IsSequence(Tail(q))
  BY <1>2, OverItsElements
<1> QED BY <1>1, <1>3

\* What Append does to a sequence.
LEMMA AppendElements ==
    ASSUME NEW q, IsSequence(q), NEW e
    PROVE  /\ IsSequence(Append(q, e))
           /\ Len(Append(q, e)) = Len(q) + 1 /\ Len(q) \in Nat
           /\ \A i \in 1 .. Len(q) : Append(q, e)[i] = q[i]
           /\ Append(q, e)[Len(q) + 1] = e
<1> DEFINE S == {q[i] : i \in 1 .. Len(q)}
           T == S \cup {e}
<1>1. q \in Seq(S)
  BY DEF IsSequence
<1> HIDE DEF S
<1>2. q \in Seq(T) /\ e \in T
  BY <1>1
<1> HIDE DEF T
<1>3. Append(q, e) \in Seq(T)
  BY <1>2
<1>4. IsSequence(Append(q, e))
  BY <1>3, OverItsElements
<1> QED BY <1>2, <1>4

\* What concatenation does to two sequences.
LEMMA ConcatElements ==
    ASSUME NEW q, IsSequence(q), NEW r, IsSequence(r)
    PROVE  /\ IsSequence(q \o r)
           /\ Len(q \o r) = Len(q) + Len(r) /\ Len(q) \in Nat /\ Len(r) \in Nat
           /\ \A i \in 1 .. Len(q) + Len(r) :
                 (q \o r)[i] = IF i <= Len(q) THEN q[i] ELSE r[i - Len(q)]
<1> DEFINE S == {q[i] : i \in 1 .. Len(q)}
           R == {r[i] : i \in 1 .. Len(r)}
           T == S \cup R
<1>1. q \in Seq(S) /\ r \in Seq(R)
  BY DEF IsSequence
<1> HIDE DEF S, R
<1>2. q \in Seq(T) /\ r \in Seq(T)
  BY <1>1
<1> HIDE DEF T
<1>3. q \o r \in Seq(T)
  BY <1>2
<1>4. IsSequence(q \o r)
  BY <1>3, OverItsElements
<1> QED BY <1>2, <1>4
-----------------------------------------------------------------------------
\* Taking the first event leaves a timely queue.
LEMMA TimelyTail ==
    ASSUME NEW q, NEW b \in Nat, TimelyQueue(q, b), q # <<>>
    PROVE  TimelyQueue(Tail(q), b) /\ Timely(Head(q), b)
<1>1. /\ IsSequence(Tail(q))
      /\ Len(Tail(q)) = Len(q) - 1 /\ Len(q) \in Nat \ {0}
      /\ \A i \in 1 .. Len(q) - 1 : Tail(q)[i] = q[i + 1]
  BY TailElements DEF TimelyQueue
<1>2. ASSUME NEW i \in 1 .. Len(Tail(q)) PROVE Timely(Tail(q)[i], b)
  BY <1>1 DEF TimelyQueue
<1>3. Head(q) = q[1]
  BY DEF TimelyQueue, IsSequence
<1> QED BY <1>1, <1>2, <1>3 DEF TimelyQueue

\* Queueing timely events leaves a timely queue.
LEMMA TimelyConcat ==
    ASSUME NEW q, NEW r, NEW b \in Nat, TimelyQueue(q, b), TimelyQueue(r, b)
    PROVE  TimelyQueue(q \o r, b)
<1>1. /\ IsSequence(q \o r)
      /\ Len(q \o r) = Len(q) + Len(r) /\ Len(q) \in Nat /\ Len(r) \in Nat
      /\ \A i \in 1 .. Len(q) + Len(r) :
            (q \o r)[i] = IF i <= Len(q) THEN q[i] ELSE r[i - Len(q)]
  BY ConcatElements DEF TimelyQueue
<1>2. ASSUME NEW i \in 1 .. Len(q \o r) PROVE Timely((q \o r)[i], b)
  <2>1. CASE i <= Len(q)
    BY <1>1, <2>1 DEF TimelyQueue
  <2>2. CASE ~(i <= Len(q))
    <3>1. i - Len(q) \in 1 .. Len(r)
      BY <1>1, <2>2
    <3> QED BY <1>1, <2>2, <3>1 DEF TimelyQueue
  <2> QED BY <2>1, <2>2
<1> QED BY <1>1, <1>2 DEF TimelyQueue

\* So does appending one timely event.
LEMMA TimelyAppend ==
    ASSUME NEW q, NEW e, NEW b \in Nat, TimelyQueue(q, b), Timely(e, b)
    PROVE  TimelyQueue(Append(q, e), b)
<1>1. /\ IsSequence(Append(q, e))
      /\ Len(Append(q, e)) = Len(q) + 1 /\ Len(q) \in Nat
      /\ \A i \in 1 .. Len(q) : Append(q, e)[i] = q[i]
      /\ Append(q, e)[Len(q) + 1] = e
  BY AppendElements DEF TimelyQueue
<1>2. ASSUME NEW i \in 1 .. Len(Append(q, e)) PROVE Timely(Append(q, e)[i], b)
  <2>1. CASE i = Len(q) + 1
    BY <1>1, <2>1
  <2>2. CASE i # Len(q) + 1
    BY <1>1, <2>2 DEF TimelyQueue
  <2> QED BY <2>1, <2>2
<1> QED BY <1>1, <1>2 DEF TimelyQueue

\* An order kept on its own bar is kept in time.
LEMMA TimelyKept ==
    ASSUME NEW q, NEW e, NEW b \in Nat, TimelyOrders(q, b), e.bar = b
    PROVE  TimelyOrders(Append(q, e), b)
<1>1. /\ IsSequence(Append(q, e))
      /\ Len(Append(q, e)) = Len(q) + 1 /\ Len(q) \in Nat
      /\ \A i \in 1 .. Len(q) : Append(q, e)[i] = q[i]
      /\ Append(q, e)[Len(q) + 1] = e
  BY AppendElements DEF TimelyOrders
<1>2. ASSUME NEW i \in 1 .. Len(Append(q, e)) PROVE Append(q, e)[i].bar = b
  <2>1. CASE i = Len(q) + 1
    BY <1>1, <2>1
  <2>2. CASE i # Len(q) + 1
    BY <1>1, <2>2 DEF TimelyOrders
  <2> QED BY <2>1, <2>2
<1> QED BY <1>1, <1>2 DEF TimelyOrders

\* No events, one event, two events.
LEMMA ShortQueues ==
    ASSUME NEW b \in Nat
    PROVE  /\ TimelyQueue(<<>>, b) /\ TimelyOrders(<<>>, b)
           /\ \A e : Timely(e, b) => TimelyQueue(<<e>>, b)
           /\ \A e, f : Timely(e, b) /\ Timely(f, b) => TimelyQueue(<<e, f>>, b)
<1>1. TimelyQueue(<<>>, b) /\ TimelyOrders(<<>>, b)
  BY DEF TimelyQueue, TimelyOrders, IsSequence
<1>2. ASSUME NEW e, Timely(e, b) PROVE TimelyQueue(<<e>>, b)
  <2>1. <<e>> \in Seq({e}) /\ Len(<<e>>) = 1 /\ <<e>>[1] = e
    OBVIOUS
  <2>2. IsSequence(<<e>>)
    BY <2>1, OverItsElements
  <2> QED BY <1>2, <2>1, <2>2 DEF TimelyQueue
<1>3. ASSUME NEW e, NEW f, Timely(e, b), Timely(f, b) PROVE TimelyQueue(<<e, f>>, b)
  <2>1. <<e, f>> \in Seq({e, f}) /\ Len(<<e, f>>) = 2 /\ <<e, f>>[1] = e /\ <<e, f>>[2] = f
    OBVIOUS
  <2>2. IsSequence(<<e, f>>)
    BY <2>1, OverItsElements
  <2> QED BY <1>3, <2>1, <2>2 DEF TimelyQueue
<1> QED BY <1>1, <1>2, <1>3
-----------------------------------------------------------------------------
\* The orders of a signal are decided on the current bar.
LEMMA SignalOrdersTimely ==
    ASSUME bars \in Nat, NEW sig, NEW m
    PROVE  TimelyQueue(OrdersFor(sig, m), bars)
<1>1. \A s, q : Timely(Leg(s, q), bars)
  BY DEF Leg, Timely
<1>2. ASSUME NEW s, NEW side PROVE TimelyQueue(Exit(s, side), bars)
  <2>1. CASE side * vol[s] > 0
    BY <1>1, <2>1, ShortQueues DEF Exit
  <2>2. CASE ~(side * vol[s] > 0)
    BY <2>2, ShortQueues DEF Exit
  <2> QED BY <2>1, <2>2
<1>3. ASSUME NEW s, NEW side, NEW target PROVE TimelyQueue(Entry(s, side, target), bars)
  <2>1. CASE vol[s] = 0
    BY <1>1, <2>1, ShortQueues DEF Entry
  <2>2. CASE vol[s] # 0 /\ side * vol[s] < 0
    BY <1>1, <2>2, ShortQueues DEF Entry
  <2>3. CASE vol[s] # 0 /\ ~(side * vol[s] < 0)
    BY <2>3, ShortQueues DEF Entry
  <2> QED BY <2>1, <2>2, <2>3
<1>4. TimelyQueue(<<>>, bars)
  BY ShortQueues
<1> QED BY <1>2, <1>3, <1>4 DEF OrdersFor

\* The fills of the orders pending become timely when the next bar is taken.
LEMMA ExecutionTimely ==
    ASSUME TimeInv, NEW open
    PROVE  TimelyQueue([i \in DOMAIN pending |-> Execute(pending[i], open)], bars + 1)
<1> DEFINE F == [i \in DOMAIN pending |-> Execute(pending[i], open)]
           R == {Execute(pending[i], open) : i \in DOMAIN pending}
<1>1. DOMAIN pending = 1 .. Len(pending) /\ Len(pending) \in Nat
  BY DEF TimeInv, TimelyOrders, IsSequence
<1>2. F \in Seq(R) /\ Len(F) = Len(pending)
  BY <1>1
<1>3. IsSequence(F)
  BY <1>2, OverItsElements
<1>4. ASSUME NEW i \in 1 .. Len(F) PROVE Timely(F[i], bars + 1)
  <2>1. F[i] = Execute(pending[i], open) /\ pending[i].bar = bars
    BY <1>1, <1>2 DEF TimeInv, TimelyOrders
  <2>2. F[i].kind = "fill" /\ F[i].bar = bars
    BY <2>1 DEF Execute
  <2> QED BY <2>2 DEF Timely, TimeInv
<1> QED BY <1>3, <1>4 DEF TimelyQueue

\* The bar is queued behind the fills it executes, and nothing stays pending.
LEMMA BarTimely ==
    ASSUME TimeInv, NEW s, NEW open, NEW close, NextBar(s, open, close)
    PROVE  TimeInv'
<1>1. CASE Fillable(pending, open)
  <2>1. /\ bars' = bars + 1 /\ pending' = <<>>
        /\ queue' = Append([i \in DOMAIN pending |-> Execute(pending[i], open)],
                           [kind |-> "market", sym |-> s, open |-> open, close |-> close])
    BY <1>1 DEF NextBar
  <2>2. bars + 1 \in Nat
    BY DEF TimeInv
  <2>3. Timely([kind |-> "market", sym |-> s, open |-> open, close |-> close], bars + 1)
    BY DEF Timely
  <2>4. TimelyQueue(queue', bars + 1)
    BY <2>1, <2>2, <2>3, ExecutionTimely, TimelyAppend
  <2>5. TimelyOrders(<<>>, bars + 1)
    BY <2>2, ShortQueues
  <2> QED BY <2>1, <2>2, <2>4, <2>5 DEF TimeInv
<1>2. CASE ~Fillable(pending, open)
  BY <1>2 DEF NextBar, TimeInv
<1> QED BY <1>1, <1>2

\* Every step of run() keeps the time of orders and fills.
LEMMA TimeInductive == TimeInv /\ [EngineNext]_engineVars => TimeInv'
<1> SUFFICES ASSUME TimeInv, [EngineNext]_engineVars PROVE TimeInv'
  OBVIOUS
<1>a. bars \in Nat
  BY DEF TimeInv
<1>t. ASSUME queue # <<>> PROVE TimelyQueue(Tail(queue), bars) /\ Timely(Head(queue), bars)
  BY <1>t, <1>a, TimelyTail DEF TimeInv
<1>1. CASE \E s \in Symbols, open, close \in Prices : NextBar(s, open, close)
  BY <1>1, BarTimely
<1>2. ASSUME Popped("market"), NEW signals \in Signals(Head(queue).sym), HandleMarket(signals)
      PROVE  TimeInv'
  <2>1. TimelyQueue(signals, bars)
    <3>1. CASE signals = <<>>
      BY <1>a, <3>1, ShortQueues
    <3>2. CASE signals # <<>>
      <4>1. PICK i \in Intents :
               signals = <<[kind |-> "signal", sym |-> Head(queue).sym, intent |-> i]>>
        BY <3>2 DEF Signals
      <4>2. Timely([kind |-> "signal", sym |-> Head(queue).sym, intent |-> i], bars)
        BY DEF Timely
      <4> QED BY <1>a, <4>1, <4>2, ShortQueues
    <3> QED BY <3>1, <3>2
  <2>2. TimelyQueue(Tail(queue) \o signals, bars)
    BY <1>a, <1>t, <1>2, <2>1, TimelyConcat DEF Popped
  <2> QED BY <1>2, <2>2 DEF HandleMarket, TimeInv
<1>3. ASSUME NEW m, HandleSignal(m) PROVE TimeInv'
  <2>1. TimelyQueue(Tail(queue) \o OrdersFor(Head(queue), m), bars)
    BY <1>a, <1>t, <1>3, SignalOrdersTimely, TimelyConcat DEF HandleSignal, Popped
  <2> QED BY <1>3, <2>1 DEF HandleSignal, TimeInv
<1>4. CASE HandleOrder
  <2>1. queue # <<>> /\ Head(queue).kind = "order"
    BY <1>4 DEF HandleOrder, Popped
  <2>2. TimelyQueue(Tail(queue), bars) /\ Head(queue).bar = bars
    BY <1>t, <2>1 DEF Timely
  <2>3. CASE Approved(Head(queue))
    <3>1. pending' = Append(pending, Head(queue)) /\ queue' = Tail(queue) /\ bars' = bars
      BY <1>4, <2>3 DEF HandleOrder
    <3>2. TimelyOrders(Append(pending, Head(queue)), bars)
      BY <1>a, <2>2, TimelyKept DEF TimeInv
    <3> QED BY <1>a, <2>2, <3>1, <3>2 DEF TimeInv
  <2>4. CASE ~Approved(Head(queue))
    <3>1. /\ pending' = pending /\ bars' = bars
          /\ queue' = Append(Tail(queue), [kind |-> "audit"])
      BY <1>4, <2>4 DEF HandleOrder
    <3>2. Timely([kind |-> "audit"], bars)
      BY DEF Timely
    <3>3. TimelyQueue(Append(Tail(queue), [kind |-> "audit"]), bars)
      BY <1>a, <2>2, <3>2, TimelyAppend
    <3> QED BY <3>1, <3>3 DEF TimeInv
  <2> QED BY <2>3, <2>4
<1>5. CASE HandleFill
  BY <1>t, <1>5 DEF HandleFill, Popped, TimeInv
<1>6. CASE HandleAudit
  BY <1>t, <1>6 DEF HandleAudit, Popped, TimeInv
<1>7. CASE FeedOver
  BY <1>7 DEF FeedOver, TimeInv
<1>8. ASSUME NEW s, CloseOne(s) PROVE TimeInv'
  BY <1>8 DEF CloseOne, TimeInv
<1>9. CASE UNCHANGED engineVars
  BY <1>9 DEF engineVars, TimeInv
<1> QED BY <1>1, <1>2, <1>3, <1>4, <1>5, <1>6, <1>7, <1>8, <1>9 DEF EngineNext

\* A backtest starts with nothing queued.
LEMMA TimeInitial == EngineInit => TimeInv
<1> SUFFICES ASSUME EngineInit PROVE TimeInv
  OBVIOUS
<1>1. bars = 0 /\ queue = <<>> /\ pending = <<>>
  BY DEF EngineInit
<1> QED BY <1>1, ShortQueues DEF TimeInv

\* Whatever the strategy signals and the council decides, an order is executed on
\* the bar after the one it was decided on: no look-ahead, no second execution.
THEOREM OrdersFillOnNextBar == EngineSpec => []FilledNextBar
<1>1. TimeInv => FilledNextBar
  <2> SUFFICES ASSUME TimeInv PROVE FilledNextBar
    OBVIOUS
  <2>1. DOMAIN pending = 1 .. Len(pending) /\ DOMAIN queue = 1 .. Len(queue)
    BY DEF TimeInv, TimelyQueue, TimelyOrders, IsSequence
  <2> QED BY <2>1 DEF TimeInv, TimelyQueue, TimelyOrders, Timely, FilledNextBar
<1> QED BY <1>1, TimeInitial, TimeInductive, PTL DEF EngineSpec
-----------------------------------------------------------------------------
\* The portfolio's numbers are numbers, and the equity was marked at the last event.
Marked ==
    /\ cash \in Int /\ vol \in [Symbols -> Int] /\ avg \in [Symbols -> Int]
    /\ lastPrice \in [Symbols -> Prices \cup {NoPrice}]
    /\ equity \in Int /\ equity = MarkToMarket(cash, vol, lastPrice)

\* Before the first bar is handled there is nothing but bars to handle.
Beginning == latest = <<>> => pending = <<>> /\ queue \in Seq(MarketEvents) /\ Open = {}

\* What the final liquidation has still to close is all that is open.
Ending ==
    /\ phase = "closing" => Open \subseteq toClose /\ latest \in MarketEvents
    /\ phase = "over" => Open = {}

FlatInv ==
    /\ Marked
    /\ bars \in Nat /\ queue \in Seq(Events) /\ pending \in Seq(OrderEvents)
    /\ latest \in {<<>>} \cup MarketEvents /\ toClose \subseteq Symbols
    /\ Beginning
    /\ Ending

\* Prices of the environment are integers.
LEMMA PriceTypes == \A p \in Prices : p \in Int
BY PortfolioAssumption

\* What is open and priced, marked, is an integer; marked flat, it is the cash.
LEMMA MarkTyped ==
    \A c \in Int, v \in [Symbols -> Int], l \in [Symbols -> Prices \cup {NoPrice}] :
        MarkToMarket(c, v, l) \in Int
<1> SUFFICES ASSUME NEW c \in Int, NEW v \in [Symbols -> Int],
                    NEW l \in [Symbols -> Prices \cup {NoPrice}]
             PROVE  MarkToMarket(c, v, l) \in Int
  OBVIOUS
<1> DEFINE Shown == {s \in Symbols : v[s] # 0 /\ l[s] # NoPrice}
           W == [s \in Shown |-> v[s] * l[s]]
<1>1. IsFiniteSet(Shown)
  BY PortfolioAssumption, FS_Subset
<1>2. ASSUME NEW s \in Shown PROVE W[s] \in Int
  <2>1. v[s] \in Int
    OBVIOUS
  <2>2. l[s] \in Prices
    OBVIOUS
  <2>3. l[s] \in Int
    BY <2>2, PriceTypes
  <2> QED
    BY <2>1, <2>3
<1> HIDE DEF Shown
<1>3. MapThenSumSet(LAMBDA s : v[s] * l[s], Shown) = SumOf(W, Shown)
  BY <1>1, FoldOfNotional
<1> HIDE DEF W
<1>4. SumOf(W, Shown) \in Int
  BY <1>1, <1>2, SumTyped
<1> DEFINE net == SumOf(W, Shown)
<1> HIDE DEF net
<1>5. MapThenSumSet(LAMBDA s : v[s] * l[s], Shown) = net
  BY <1>3 DEF net
<1>6. MarkToMarket(c, v, l) = c + net
  BY <1>5 DEF MarkToMarket, Shown
<1>7. net \in Int
  BY <1>4 DEF net
<1> QED
  BY <1>6, <1>7

LEMMA MarkFlat ==
    \A c \in Int : \A v, l : (\A s \in Symbols : v[s] = 0) => MarkToMarket(c, v, l) = c
<1> SUFFICES ASSUME NEW c \in Int, NEW v, NEW l, \A s \in Symbols : v[s] = 0
             PROVE  MarkToMarket(c, v, l) = c
  OBVIOUS
<1> DEFINE Shown == {s \in Symbols : v[s] # 0 /\ l[s] # NoPrice}
           W == [s \in Shown |-> v[s] * l[s]]
<1>1. Shown = {}
  OBVIOUS
<1>2. IsFiniteSet(Shown) /\ \A f : SumOf(f, Shown) = 0
  <2> HIDE DEF Shown
  <2> QED
    BY <1>1, FS_EmptySet, SumEmpty
<1> HIDE DEF Shown
<1>3. MapThenSumSet(LAMBDA s : v[s] * l[s], Shown) = SumOf(W, Shown)
  BY <1>2, FoldOfNotional
<1> HIDE DEF W
<1>4. MapThenSumSet(LAMBDA s : v[s] * l[s], Shown) = 0
  BY <1>2, <1>3
<1>5. MarkToMarket(c, v, l) = c + 0
  BY <1>4 DEF MarkToMarket, Shown
<1> QED
  BY <1>5

\* A fill keeps the numbers numbers and marks the equity.
LEMMA FillMarks ==
    ASSUME Marked, NEW s \in Symbols, NEW q \in Int, NEW p \in Int, NEW c \in Int,
           OnFill(s, q, p, c)
    PROVE  /\ Marked'
           /\ \A r \in Symbols : r # s => vol'[r] = vol[r]
           /\ q = -vol[s] => vol'[s] = 0
<1> DEFINE o == FillOutcome(vol[s], avg[s], q, p)
<1>1. vol[s] \in Int /\ avg[s] \in Int
  BY DEF Marked
<1>2. o.v \in Int /\ o.a \in Int /\ o.out \in Int /\ (q = -vol[s] => o.v = 0)
  <2>1. o.v = vol[s] + q /\ o.a \in Int /\ o.out \in Int
    <3>1. \A w \in Int, e \in Int : /\ FillOutcome(w, e, q, p).v = w + q
                                    /\ FillOutcome(w, e, q, p).out = q * p
                                    /\ FillOutcome(w, e, q, p).a \in Int
      BY OutcomeTyped
    <3>2. q * p \in Int
      OBVIOUS
    <3> QED
      BY <1>1, <3>1, <3>2
  <2> HIDE DEF o
  <2> QED
    BY <1>1, <2>1
<1>3. /\ cash' = cash - c - o.out /\ lastPrice' = lastPrice
      /\ vol' = [vol EXCEPT ![s] = o.v] /\ avg' = [avg EXCEPT ![s] = o.a]
      /\ equity' = MarkToMarket(cash', vol', lastPrice')
  BY DEF OnFill, UpdateEquity
<1> HIDE DEF o
<1>4. /\ cash' \in Int /\ vol' \in [Symbols -> Int] /\ avg' \in [Symbols -> Int]
      /\ lastPrice' \in [Symbols -> Prices \cup {NoPrice}]
  BY <1>2, <1>3 DEF Marked
<1>5. MarkToMarket(cash', vol', lastPrice') \in Int
  BY <1>4, MarkTyped
<1>6. vol'[s] = o.v /\ \A r \in Symbols : r # s => vol'[r] = vol[r]
  BY <1>2, <1>3 DEF Marked
<1> QED
  BY <1>2, <1>3, <1>4, <1>5, <1>6 DEF Marked

LEMMA MarketMarks ==
    ASSUME Marked, NEW s \in Symbols, NEW p \in Prices, OnMarket(s, p)
    PROVE  Marked' /\ vol' = vol
<1>1. /\ cash' = cash /\ vol' = vol /\ avg' = avg
      /\ lastPrice' = [lastPrice EXCEPT ![s] = p]
      /\ equity' = MarkToMarket(cash', vol', lastPrice')
  BY DEF OnMarket, UpdateEquity
<1>2. /\ cash' \in Int /\ vol' \in [Symbols -> Int] /\ avg' \in [Symbols -> Int]
      /\ lastPrice' \in [Symbols -> Prices \cup {NoPrice}]
  BY <1>1 DEF Marked
<1>3. MarkToMarket(cash', vol', lastPrice') \in Int
  BY <1>2, MarkTyped
<1> QED
  BY <1>1, <1>2, <1>3 DEF Marked
-----------------------------------------------------------------------------
\* An event is what its kind says.
LEMMA EventKinds ==
    \A e \in Events :
        /\ e.kind = "market" => e \in MarketEvents
        /\ e.kind = "signal" => e \in SignalEvents
        /\ e.kind = "order" => e \in OrderEvents
        /\ e.kind = "fill" => e \in FillEvents
<1> SUFFICES ASSUME NEW e \in Events
             PROVE  /\ e.kind = "market" => e \in MarketEvents
                    /\ e.kind = "signal" => e \in SignalEvents
                    /\ e.kind = "order" => e \in OrderEvents
                    /\ e.kind = "fill" => e \in FillEvents
  OBVIOUS
<1>1. CASE e \in MarketEvents
  BY <1>1 DEF MarketEvents
<1>2. CASE e \in SignalEvents
  BY <1>2 DEF SignalEvents
<1>3. CASE e \in OrderEvents
  BY <1>3 DEF OrderEvents
<1>4. CASE e \in FillEvents
  BY <1>4 DEF FillEvents
<1>5. CASE e \in AuditEvents
  BY <1>5 DEF AuditEvents
<1> QED
  BY <1>1, <1>2, <1>3, <1>4, <1>5 DEF Events

LEMMA MarketFields ==
    \A e \in MarketEvents : /\ e.kind = "market" /\ e.sym \in Symbols
                            /\ e.open \in Prices /\ e.close \in Prices /\ e # <<>>
<1> SUFFICES ASSUME NEW e \in MarketEvents
             PROVE  /\ e.kind = "market" /\ e.sym \in Symbols
                    /\ e.open \in Prices /\ e.close \in Prices /\ e # <<>>
  OBVIOUS
<1>1. /\ e.kind = "market" /\ e.sym \in Symbols /\ e.open \in Prices /\ e.close \in Prices
      /\ DOMAIN e = {"kind", "sym", "open", "close"}
  BY DEF MarketEvents
<1>2. DOMAIN <<>> = 1 .. 0
  OBVIOUS
<1>3. e # <<>>
  BY <1>1, <1>2
<1> QED
  BY <1>1, <1>3

\* The first event of a queue, and the rest.
LEMMA QueueParts ==
    \A S, q : q \in Seq(S) /\ q # <<>> => Head(q) \in S /\ Tail(q) \in Seq(S)
OBVIOUS

\* The orders of a signal have a symbol and whole quantities.
LEMMA OrdersTyped ==
    ASSUME Marked, bars \in Nat, NEW sig \in SignalEvents, NEW m \in Int
    PROVE  OrdersFor(sig, m) \in Seq(OrderEvents)
<1>1. sig.sym \in Symbols
  BY DEF SignalEvents
<1> DEFINE s == sig.sym
<1>2. \A q \in Int : Leg(s, q) \in OrderEvents
  BY <1>1 DEF Leg, OrderEvents
<1>3. vol[s] \in Int
  BY <1>1 DEF Marked
<1>4. ASSUME NEW side \in {1, -1} PROVE Exit(s, side) \in Seq(OrderEvents)
  <2>1. Leg(s, -vol[s]) \in OrderEvents
    BY <1>2, <1>3
  <2> QED
    BY <2>1 DEF Exit
<1>5. ASSUME lastPrice[s] # NoPrice PROVE TargetVolume(s, m) \in Int
  <2>1. lastPrice[s] \in Prices
    BY <1>1, <1>5 DEF Marked
  <2>2. lastPrice[s] \in Nat \ {0} /\ equity \in Int /\ RiskPct \in Nat
    BY <2>1, PortfolioAssumption, EngineAssumption DEF Marked
  <2>3. 10000 * lastPrice[s] \in Nat \ {0}
    BY <2>2
  <2>4. equity * RiskPct * m \in Int
    BY <2>2
  <2>5. TargetVolume(s, m) = RoundDiv(equity * RiskPct * m, 10000 * lastPrice[s])
    BY DEF TargetVolume
  <2> DEFINE num == equity * RiskPct * m
             den == 10000 * lastPrice[s]
  <2>6. TargetVolume(s, m) = RoundDiv(num, den) /\ num \in Int /\ den \in Nat \ {0}
    BY <2>3, <2>4, <2>5
  <2> HIDE DEF num, den
  <2> QED
    BY <2>6, RoundDivError
<1>6. ASSUME NEW side \in {1, -1}, NEW target \in Int
      PROVE  Entry(s, side, target) \in Seq(OrderEvents)
  <2>1. -vol[s] \in Int /\ side * target \in Int
    BY <1>3
  <2>2. Leg(s, -vol[s]) \in OrderEvents /\ Leg(s, side * target) \in OrderEvents
    BY <1>2, <2>1
  <2> QED
    BY <2>2 DEF Entry
<1>7. <<>> \in Seq(OrderEvents)
  OBVIOUS
<1>8. CASE sig.intent \in {"exit_long", "exit_short"}
  <2>1. OrdersFor(sig, m) \in {<<>>, Exit(s, 1), Exit(s, -1)}
    BY <1>8 DEF OrdersFor
  <2> QED
    BY <1>4, <1>7, <2>1
<1>9. CASE sig.intent \notin {"exit_long", "exit_short"}
  <2>1. CASE lastPrice[s] # NoPrice
    <3>1. OrdersFor(sig, m) \in {<<>>, Entry(s, 1, TargetVolume(s, m)),
                                 Entry(s, -1, TargetVolume(s, m))}
      BY <1>9 DEF OrdersFor
    <3> QED
      BY <1>5, <1>6, <1>7, <2>1, <3>1
  <2>2. CASE lastPrice[s] = NoPrice
    <3>1. OrdersFor(sig, m) = <<>>
      BY <1>9, <2>2 DEF OrdersFor
    <3> QED
      BY <1>7, <3>1
  <2> QED
    BY <2>1, <2>2
<1> QED
  BY <1>8, <1>9

\* The fills of the orders pending.
LEMMA FillsTyped ==
    ASSUME pending \in Seq(OrderEvents), NEW open \in Prices
    PROVE  /\ [i \in DOMAIN pending |-> Execute(pending[i], open)] \in Seq(FillEvents)
           /\ pending = <<>> =>
                [i \in DOMAIN pending |-> Execute(pending[i], open)] = <<>>
<1>1. ASSUME NEW i \in DOMAIN pending PROVE Execute(pending[i], open) \in FillEvents
  <2>1. pending[i] \in OrderEvents
    OBVIOUS
  <2>2. /\ pending[i].sym \in Symbols /\ pending[i].qty \in Int /\ pending[i].bar \in Nat
    BY <2>1 DEF OrderEvents
  <2>3. open + UnitSlip \in Int /\ open - UnitSlip \in Int
    BY PriceTypes, EngineAssumption
  <2> QED
    BY <2>2, <2>3 DEF Execute, FillEvents
<1>2. [i \in DOMAIN pending |-> Execute(pending[i], open)] \in Seq(FillEvents)
  <2>1. DOMAIN pending = 1 .. Len(pending) /\ Len(pending) \in Nat
    OBVIOUS
  <2> QED
    BY <1>1, <2>1
<1>3. pending = <<>> => [i \in DOMAIN pending |-> Execute(pending[i], open)] = <<>>
  OBVIOUS
<1> QED
  BY <1>2, <1>3

\* A bar taken from the feed.
LEMMA BarKeepsFlat ==
    ASSUME FlatInv, NEW s \in Symbols, NEW open \in Prices, NEW close \in Prices,
           NextBar(s, open, close)
    PROVE  FlatInv'
<1>0. /\ cash' = cash /\ vol' = vol /\ avg' = avg /\ lastPrice' = lastPrice /\ equity' = equity
      /\ latest' = latest /\ toClose' = toClose /\ phase = "running" /\ queue = <<>>
      /\ MarkToMarket(cash', vol', lastPrice') = MarkToMarket(cash, vol, lastPrice)
  BY DEF NextBar, portfolioVars, bookVars
<1>1. Marked' /\ Open' = Open
  BY <1>0 DEF FlatInv, Marked, Open
<1>2. CASE Fillable(pending, open)
  <2> DEFINE fillsDue == [i \in DOMAIN pending |-> Execute(pending[i], open)]
             bar == [kind |-> "market", sym |-> s, open |-> open, close |-> close]
  <2>1. /\ bars' = bars + 1 /\ pending' = <<>> /\ queue' = Append(fillsDue, bar)
        /\ phase' = "running"
    BY <1>0, <1>2 DEF NextBar
  <2>2. fillsDue \in Seq(FillEvents) /\ (pending = <<>> => fillsDue = <<>>)
    BY FillsTyped DEF FlatInv
  <2>3. bar \in MarketEvents
    BY DEF MarketEvents
  <2> HIDE DEF fillsDue, bar
  <2>4. FillEvents \subseteq Events /\ MarketEvents \subseteq Events
    BY DEF Events
  <2>5. fillsDue \in Seq(Events) /\ bar \in Events
    BY <2>2, <2>3, <2>4
  <2>6. queue' \in Seq(Events) /\ pending' \in Seq(OrderEvents) /\ bars' \in Nat
    BY <2>1, <2>5 DEF FlatInv
  <2>7. Append(<<>>, bar) \in Seq(MarketEvents)
    BY <2>3
  <2>8. Beginning'
    BY <1>0, <1>1, <2>1, <2>2, <2>7 DEF FlatInv, Beginning
  <2>9. Ending'
    BY <2>1 DEF Ending
  <2> QED
    BY <1>0, <1>1, <2>6, <2>8, <2>9 DEF FlatInv
<1>3. CASE ~Fillable(pending, open)
  <2>1. phase' = "failed" /\ queue' = queue /\ pending' = pending /\ bars' = bars
    BY <1>3 DEF NextBar
  <2>2. Beginning' /\ Ending'
    BY <1>0, <1>1, <2>1 DEF FlatInv, Beginning, Ending
  <2> QED
    BY <1>0, <1>1, <2>1, <2>2 DEF FlatInv
<1> QED
  BY <1>2, <1>3

\* What an event leaves when it is not a bar: at the beginning there is none.
LEMMA NotTheBeginning ==
    ASSUME FlatInv, queue # <<>>, Head(queue).kind # "market"
    PROVE  latest # <<>>
<1> SUFFICES ASSUME latest = <<>> PROVE FALSE
  OBVIOUS
<1>1. queue \in Seq(MarketEvents)
  BY DEF FlatInv, Beginning
<1>2. Head(queue) \in MarketEvents
  BY <1>1, QueueParts
<1> QED
  BY <1>2, MarketFields

LEMMA MarketKeepsFlat ==
    ASSUME FlatInv, Popped("market"), NEW signals \in Signals(Head(queue).sym),
           HandleMarket(signals)
    PROVE  FlatInv'
<1>1. /\ queue # <<>> /\ phase = "running" /\ Head(queue) \in MarketEvents
      /\ Tail(queue) \in Seq(Events)
  BY QueueParts, EventKinds DEF Popped, FlatInv
<1>2. /\ latest' = Head(queue) /\ OnMarket(Head(queue).sym, Head(queue).close)
      /\ queue' = Tail(queue) \o signals
      /\ phase' = phase /\ pending' = pending /\ bars' = bars /\ toClose' = toClose
  BY DEF HandleMarket
<1>3. Head(queue).sym \in Symbols /\ Head(queue).close \in Prices /\ Head(queue) # <<>>
  BY <1>1, MarketFields
<1>4. Marked' /\ vol' = vol
  BY <1>2, <1>3, MarketMarks DEF FlatInv
<1>5. signals \in Seq(Events)
  <2>1. ASSUME NEW i \in Intents,
               signals = <<[kind |-> "signal", sym |-> Head(queue).sym, intent |-> i]>>
        PROVE  signals \in Seq(Events)
    <3>1. [kind |-> "signal", sym |-> Head(queue).sym, intent |-> i] \in SignalEvents
      BY <1>3 DEF SignalEvents
    <3>2. [kind |-> "signal", sym |-> Head(queue).sym, intent |-> i] \in Events
      BY <3>1 DEF Events
    <3> QED
      BY <2>1, <3>2
  <2>2. CASE signals = <<>>
    BY <2>2
  <2> QED
    BY <2>1, <2>2 DEF Signals
<1>6. queue' \in Seq(Events)
  BY <1>1, <1>2, <1>5
<1>7. Beginning' /\ Ending'
  BY <1>1, <1>2, <1>3 DEF Beginning, Ending
<1> QED
  BY <1>1, <1>2, <1>4, <1>6, <1>7 DEF FlatInv

\* A step of the queue that leaves the portfolio and the positions alone.
LEMMA QueueStepKeepsFlat ==
    ASSUME FlatInv, phase = "running", latest # <<>>,
           UNCHANGED <<portfolioVars, phase, latest, bars, toClose>>,
           queue' \in Seq(Events), pending' \in Seq(OrderEvents)
    PROVE  FlatInv'
<1>1. /\ cash' = cash /\ vol' = vol /\ avg' = avg /\ lastPrice' = lastPrice /\ equity' = equity
      /\ latest' = latest /\ toClose' = toClose /\ bars' = bars /\ phase' = phase
      /\ MarkToMarket(cash', vol', lastPrice') = MarkToMarket(cash, vol, lastPrice)
  BY DEF portfolioVars, bookVars
<1>2. Marked'
  BY <1>1 DEF FlatInv, Marked
<1>3. Beginning' /\ Ending'
  BY <1>1 DEF Beginning, Ending
<1> QED
  BY <1>1, <1>2, <1>3 DEF FlatInv

LEMMA SignalKeepsFlat ==
    ASSUME FlatInv, NEW m \in Multipliers \cup {0, 100}, HandleSignal(m)
    PROVE  FlatInv'
<1>1. /\ queue # <<>> /\ phase = "running" /\ Head(queue).kind = "signal"
      /\ queue' = Tail(queue) \o OrdersFor(Head(queue), m) /\ pending' = pending
      /\ UNCHANGED <<portfolioVars, phase, latest, bars, toClose>>
  BY DEF HandleSignal, Popped
<1>2. Head(queue) \in SignalEvents /\ Tail(queue) \in Seq(Events)
  BY <1>1, QueueParts, EventKinds DEF FlatInv
<1>3. m \in Int
  BY EngineAssumption
<1>4. OrdersFor(Head(queue), m) \in Seq(OrderEvents)
  BY <1>2, <1>3, OrdersTyped DEF FlatInv
<1>5. OrdersFor(Head(queue), m) \in Seq(Events)
  <2>1. OrderEvents \subseteq Events
    BY DEF Events
  <2> QED
    BY <1>4, <2>1
<1>6. queue' \in Seq(Events) /\ pending' \in Seq(OrderEvents)
  BY <1>1, <1>2, <1>5 DEF FlatInv
<1>7. latest # <<>>
  BY <1>1, NotTheBeginning
<1> QED
  BY <1>1, <1>6, <1>7, QueueStepKeepsFlat

LEMMA OrderKeepsFlat ==
    ASSUME FlatInv, HandleOrder
    PROVE  FlatInv'
<1>1. /\ queue # <<>> /\ phase = "running" /\ Head(queue).kind = "order"
      /\ UNCHANGED <<portfolioVars, phase, latest, bars, toClose>>
      /\ \/ pending' = Append(pending, Head(queue)) /\ queue' = Tail(queue)
         \/ queue' = Append(Tail(queue), [kind |-> "audit"]) /\ pending' = pending
  BY DEF HandleOrder, Popped
<1>2. Head(queue) \in OrderEvents /\ Tail(queue) \in Seq(Events)
  BY <1>1, QueueParts, EventKinds DEF FlatInv
<1>3. [kind |-> "audit"] \in Events
  BY DEF Events, AuditEvents
<1>4. queue' \in Seq(Events) /\ pending' \in Seq(OrderEvents)
  <2>1. pending \in Seq(OrderEvents)
    BY DEF FlatInv
  <2>2. Append(pending, Head(queue)) \in Seq(OrderEvents)
    BY <1>2, <2>1
  <2>3. Append(Tail(queue), [kind |-> "audit"]) \in Seq(Events)
    BY <1>2, <1>3
  <2> QED
    BY <1>1, <1>2, <2>1, <2>2, <2>3, Zenon
<1>5. latest # <<>>
  BY <1>1, NotTheBeginning
<1> QED
  BY <1>1, <1>4, <1>5, QueueStepKeepsFlat

LEMMA FillKeepsFlat ==
    ASSUME FlatInv, HandleFill
    PROVE  FlatInv'
<1> DEFINE f == Head(queue)
<1>1. /\ queue # <<>> /\ phase = "running" /\ f.kind = "fill"
      /\ OnFill(f.sym, f.qty, f.px, UnitFee * Abs(f.qty))
      /\ queue' = Tail(queue)
      /\ UNCHANGED <<phase, pending, latest, bars, toClose>>
  BY DEF HandleFill, Popped
<1>2. f \in FillEvents /\ Tail(queue) \in Seq(Events)
  BY <1>1, QueueParts, EventKinds DEF FlatInv
<1>3. latest # <<>>
  BY <1>1, NotTheBeginning
<1> HIDE DEF f
<1>4. f.sym \in Symbols /\ f.qty \in Int /\ f.px \in Int
  BY <1>2 DEF FillEvents
<1>5. UnitFee * Abs(f.qty) \in Int
  <2>1. Abs(f.qty) \in Int /\ UnitFee \in Int
    BY <1>4, EngineAssumption DEF Abs
  <2> QED
    BY <2>1
<1>6. Marked'
  BY <1>1, <1>4, <1>5, FillMarks DEF FlatInv
<1>7. Beginning' /\ Ending'
  BY <1>1, <1>3 DEF Beginning, Ending
<1> QED
  BY <1>1, <1>2, <1>6, <1>7 DEF FlatInv

LEMMA CloseKeepsFlat ==
    ASSUME FlatInv, NEW s \in Symbols, CloseOne(s)
    PROVE  FlatInv'
<1> DEFINE f == Execute(Leg(s, -vol[s]), latest.open)
<1>1. phase = "closing" /\ s \in toClose /\ latest \in MarketEvents /\ Open \subseteq toClose
  BY DEF CloseOne, FlatInv, Ending
<1>2. UNCHANGED <<queue, pending, latest, bars>>
  BY DEF CloseOne
<1>3. f.qty = -vol[s] /\ vol[s] \in Int /\ -vol[s] \in Int /\ f.px \in Int
  <2>1. vol[s] \in Int /\ latest.open \in Int
    BY <1>1, MarketFields, PriceTypes DEF FlatInv, Marked
  <2> QED
    BY <2>1, EngineAssumption DEF Execute, Leg
<1>4. latest # <<>>
  BY <1>1, MarketFields
<1>5. CASE f.px > 0
  <2>1. /\ OnFill(s, f.qty, f.px, UnitFee * Abs(f.qty)) /\ toClose' = toClose \ {s}
        /\ phase' = IF toClose' = {} THEN "over" ELSE "closing"
    BY <1>5 DEF CloseOne
  <2> HIDE DEF f
  <2>2. UnitFee * Abs(f.qty) \in Int
    <3>1. Abs(f.qty) \in Int /\ UnitFee \in Int
      BY <1>3, EngineAssumption DEF Abs
    <3> QED
      BY <3>1
  <2>3. f.qty \in Int /\ f.px \in Int
    BY <1>3
  <2>4. /\ Marked' /\ vol'[s] = 0
        /\ \A r \in Symbols : r # s => vol'[r] = vol[r]
    BY <1>3, <2>1, <2>2, <2>3, FillMarks DEF FlatInv
  <2>5. Open' \subseteq toClose'
    BY <1>1, <2>1, <2>4 DEF Open
  <2>6. Beginning' /\ Ending'
    BY <1>1, <1>2, <1>4, <2>1, <2>5 DEF Beginning, Ending
  <2> QED
    BY <1>2, <2>1, <2>4, <2>6 DEF FlatInv
<1>6. CASE ~(f.px > 0)
  <2>1. phase' = "failed" /\ UNCHANGED <<portfolioVars, toClose>>
    BY <1>6 DEF CloseOne
  <2>2. /\ cash' = cash /\ vol' = vol /\ avg' = avg /\ lastPrice' = lastPrice /\ equity' = equity
        /\ MarkToMarket(cash', vol', lastPrice') = MarkToMarket(cash, vol, lastPrice)
    BY <2>1 DEF portfolioVars, bookVars
  <2>3. Marked'
    BY <2>2 DEF FlatInv, Marked
  <2>4. Beginning' /\ Ending'
    BY <1>2, <1>4, <2>1 DEF Beginning, Ending
  <2> QED
    BY <1>2, <2>1, <2>3, <2>4 DEF FlatInv
<1> QED
  BY <1>5, <1>6

LEMMA FlatInductive == FlatInv /\ [EngineNext]_engineVars => FlatInv'
<1> SUFFICES ASSUME FlatInv, [EngineNext]_engineVars PROVE FlatInv'
  OBVIOUS
<1>1. CASE \E s \in Symbols, open, close \in Prices : NextBar(s, open, close)
  BY <1>1, BarKeepsFlat
<1>2. CASE Popped("market") /\ \E signals \in Signals(Head(queue).sym) : HandleMarket(signals)
  BY <1>2, MarketKeepsFlat
<1>3. CASE \E m \in Multipliers \cup {0, 100} : HandleSignal(m)
  BY <1>3, SignalKeepsFlat
<1>4. CASE HandleOrder
  BY <1>4, OrderKeepsFlat
<1>5. CASE HandleFill
  BY <1>5, FillKeepsFlat
<1>6. CASE HandleAudit
  <2>1. /\ queue # <<>> /\ phase = "running" /\ Head(queue).kind = "audit"
        /\ queue' = Tail(queue) /\ pending' = pending
        /\ UNCHANGED <<portfolioVars, phase, latest, bars, toClose>>
    BY <1>6 DEF HandleAudit, Popped
  <2>2. queue' \in Seq(Events) /\ pending' \in Seq(OrderEvents)
    BY <2>1, QueueParts DEF FlatInv
  <2>3. latest # <<>>
    BY <2>1, NotTheBeginning
  <2> QED
    BY <2>1, <2>2, <2>3, QueueStepKeepsFlat
<1>7. CASE FeedOver
  <2>1. /\ cash' = cash /\ vol' = vol /\ avg' = avg /\ lastPrice' = lastPrice /\ equity' = equity
        /\ latest' = latest /\ bars' = bars /\ queue' = queue /\ pending' = pending
        /\ toClose' = (IF latest = <<>> THEN {} ELSE Open)
        /\ phase' = (IF toClose' = {} THEN "over" ELSE "closing")
        /\ MarkToMarket(cash', vol', lastPrice') = MarkToMarket(cash, vol, lastPrice)
    BY <1>7 DEF FeedOver, portfolioVars, bookVars
  <2>2. Marked' /\ Open' = Open
    BY <2>1 DEF FlatInv, Marked, Open
  <2>3. Open \subseteq toClose' /\ toClose' \subseteq Symbols
    BY <2>1 DEF FlatInv, Beginning, Open
  <2>4. Beginning'
    BY <2>1, <2>2 DEF FlatInv, Beginning
  <2>5. Ending'
    BY <2>1, <2>2, <2>3 DEF FlatInv, Ending
  <2> QED
    BY <2>1, <2>2, <2>3, <2>4, <2>5 DEF FlatInv
<1>8. CASE \E s \in Symbols : CloseOne(s)
  BY <1>8, CloseKeepsFlat
<1>9. CASE UNCHANGED engineVars
  <2>1. /\ cash' = cash /\ vol' = vol /\ avg' = avg /\ lastPrice' = lastPrice /\ equity' = equity
        /\ latest' = latest /\ bars' = bars /\ queue' = queue /\ pending' = pending
        /\ toClose' = toClose /\ phase' = phase
        /\ MarkToMarket(cash', vol', lastPrice') = MarkToMarket(cash, vol, lastPrice)
    BY <1>9 DEF engineVars, portfolioVars, bookVars
  <2>2. Marked' /\ Open' = Open
    BY <2>1 DEF FlatInv, Marked, Open
  <2> QED
    BY <2>1, <2>2 DEF FlatInv, Beginning, Ending
<1> QED
  BY <1>1, <1>2, <1>3, <1>4, <1>5, <1>6, <1>7, <1>8, <1>9 DEF EngineNext

\* A backtest starts flat, its equity the capital.
LEMMA FlatInitial == EngineInit => FlatInv
<1> SUFFICES ASSUME EngineInit PROVE FlatInv
  OBVIOUS
<1>1. PortfolioInit
  BY DEF EngineInit
<1>2. InitialCapital \in Int
  BY PortfolioAssumption
<1>3. \A s \in Symbols : vol[s] = 0
  BY <1>1 DEF PortfolioInit
<1>4. cash = InitialCapital /\ equity = InitialCapital
  BY <1>1 DEF PortfolioInit
<1>5. MarkToMarket(cash, vol, lastPrice) = cash
  BY <1>2, <1>3, <1>4, MarkFlat
<1>6. /\ vol \in [Symbols -> Int] /\ avg \in [Symbols -> Int]
      /\ lastPrice \in [Symbols -> Prices \cup {NoPrice}]
  BY <1>1 DEF PortfolioInit
<1>7. Marked
  BY <1>2, <1>4, <1>5, <1>6 DEF Marked
<1>8. /\ bars = 0 /\ queue = <<>> /\ pending = <<>> /\ latest = <<>> /\ toClose = {}
      /\ phase = "running"
  BY DEF EngineInit
<1>9. Beginning /\ Ending
  BY <1>3, <1>8 DEF Beginning, Ending, Open
<1> QED
  BY <1>7, <1>8, <1>9 DEF FlatInv

\* However many bars, orders and refusals, run() returns with every position closed
\* and an equity that is its cash.
THEOREM AlwaysEndsFlat == EngineSpec => []EndsFlat
<1>1. FlatInv => EndsFlat
  <2> SUFFICES ASSUME FlatInv, phase = "over" PROVE Open = {} /\ equity = cash
    BY DEF EndsFlat
  <2>1. Open = {} /\ cash \in Int /\ equity = MarkToMarket(cash, vol, lastPrice)
    BY DEF FlatInv, Ending, Marked
  <2>2. \A s \in Symbols : vol[s] = 0
    BY <2>1 DEF Open
  <2>3. MarkToMarket(cash, vol, lastPrice) = cash
    BY <2>1, <2>2, MarkFlat
  <2> QED
    BY <2>1, <2>3
<1> QED BY <1>1, FlatInitial, FlatInductive, PTL DEF EngineSpec
-----------------------------------------------------------------------------
\* No order and no fill is for nothing, and no fill is free: what the queue and the
\* broker hold when the portfolio's account is looked at.
WholeOrders == {e \in OrderEvents : e.qty # 0}
WholeFills == {e \in FillEvents : e.qty # 0 /\ e.px > 0}
WholeEvents == {e \in Events : /\ e.kind = "order" => e \in WholeOrders
                               /\ e.kind = "fill" => e \in WholeFills}

WholeInv ==
    /\ FlatInv
    /\ queue \in Seq(WholeEvents)
    /\ pending \in Seq(WholeOrders)
    /\ phase = "closing" => \A s \in toClose : vol[s] # 0

\* What may be queued.
LEMMA WholeParts ==
    /\ WholeOrders \subseteq WholeEvents /\ WholeFills \subseteq WholeEvents
    /\ MarketEvents \subseteq WholeEvents /\ SignalEvents \subseteq WholeEvents
    /\ [kind |-> "audit"] \in WholeEvents
<1>1. \A e \in OrderEvents : e.kind = "order" /\ e \in Events
  BY DEF OrderEvents, Events
<1>2. \A e \in FillEvents : e.kind = "fill" /\ e \in Events
  BY DEF FillEvents, Events
<1>3. \A e \in MarketEvents : e.kind = "market" /\ e \in Events
  BY DEF MarketEvents, Events
<1>4. \A e \in SignalEvents : e.kind = "signal" /\ e \in Events
  BY DEF SignalEvents, Events
<1>5. [kind |-> "audit"] \in Events
  BY DEF AuditEvents, Events
<1> QED
  BY <1>1, <1>2, <1>3, <1>4, <1>5 DEF WholeEvents, WholeOrders, WholeFills

\* A signal is answered with orders for whole units: an entry is sized, a close is
\* for a position there is.
LEMMA OrdersWhole ==
    ASSUME Marked, bars \in Nat, NEW sig \in SignalEvents, NEW m \in Int
    PROVE  OrdersFor(sig, m) \in Seq(WholeOrders)
<1> DEFINE s == sig.sym
           target == TargetVolume(s, m)
<1>1. s \in Symbols
  BY DEF SignalEvents
<1>2. \A q \in Int : q # 0 => Leg(s, q) \in WholeOrders
  BY <1>1 DEF Leg, OrderEvents, WholeOrders
<1>3. vol[s] \in Int
  BY <1>1 DEF Marked
<1>4. <<>> \in Seq(WholeOrders)
  OBVIOUS
<1>5. ASSUME NEW side \in {1, -1} PROVE Exit(s, side) \in Seq(WholeOrders)
  <2>1. side * vol[s] > 0 => Leg(s, -vol[s]) \in WholeOrders
    BY <1>2, <1>3
  <2> QED
    BY <1>4, <2>1 DEF Exit
<1>6. ASSUME lastPrice[s] # NoPrice PROVE target \in Int
  <2>1. lastPrice[s] \in Prices
    BY <1>1, <1>6 DEF Marked
  <2>2. lastPrice[s] \in Nat \ {0} /\ equity \in Int /\ RiskPct \in Nat
    BY <2>1, PortfolioAssumption, EngineAssumption DEF Marked
  <2> DEFINE num == equity * RiskPct * m
             den == 10000 * lastPrice[s]
  <2>3. target = RoundDiv(num, den) /\ num \in Int /\ den \in Nat \ {0}
    BY <2>2 DEF TargetVolume
  <2> HIDE DEF num, den
  <2> QED
    BY <2>3, RoundDivError
<1>7. ASSUME NEW side \in {1, -1}, NEW t \in Int, t > 0
      PROVE  Entry(s, side, t) \in Seq(WholeOrders)
  <2>1. side * t \in Int /\ side * t # 0
    BY <1>7
  <2>2. Leg(s, side * t) \in WholeOrders
    BY <1>2, <2>1
  <2>3. side * vol[s] < 0 => Leg(s, -vol[s]) \in WholeOrders
    BY <1>2, <1>3
  <2> QED
    BY <1>4, <2>2, <2>3 DEF Entry
<1> HIDE DEF target
<1>8. OrdersFor(sig, m) \in {<<>>, Exit(s, 1), Exit(s, -1)}
        \/ (/\ lastPrice[s] # NoPrice /\ target > 0
            /\ OrdersFor(sig, m) \in {Entry(s, 1, target), Entry(s, -1, target)})
  BY DEF OrdersFor, target
<1> QED
  BY <1>4, <1>5, <1>6, <1>7, <1>8

\* The fills of pending orders are for whole units at a price.
LEMMA FillsWhole ==
    ASSUME pending \in Seq(WholeOrders), NEW open \in Prices, Fillable(pending, open)
    PROVE  [i \in DOMAIN pending |-> Execute(pending[i], open)] \in Seq(WholeFills)
<1>1. ASSUME NEW i \in DOMAIN pending PROVE Execute(pending[i], open) \in WholeFills
  <2>1. pending[i] \in WholeOrders
    OBVIOUS
  <2>2. /\ pending[i].sym \in Symbols /\ pending[i].qty \in Int /\ pending[i].bar \in Nat
        /\ pending[i].qty # 0
    BY <2>1 DEF WholeOrders, OrderEvents
  <2>3. open + UnitSlip \in Int /\ open - UnitSlip \in Int
    BY PriceTypes, EngineAssumption
  <2>4. Execute(pending[i], open).px > 0
    BY DEF Fillable
  <2>5. Execute(pending[i], open) \in FillEvents
    BY <2>2, <2>3 DEF Execute, FillEvents
  <2>6. Execute(pending[i], open).qty # 0
    BY <2>2 DEF Execute
  <2> QED
    BY <2>4, <2>5, <2>6 DEF WholeFills
<1>2. DOMAIN pending = 1 .. Len(pending) /\ Len(pending) \in Nat
  OBVIOUS
<1> QED
  BY <1>1, <1>2

\* A commission is not negative.
LEMMA CommissionTyped == \A q \in Int : UnitFee * Abs(q) \in Nat
<1> SUFFICES ASSUME NEW q \in Int PROVE UnitFee * Abs(q) \in Nat
  OBVIOUS
<1>1. Abs(q) \in Nat /\ UnitFee \in Nat
  BY EngineAssumption DEF Abs
<1> QED
  BY <1>1

\* A step of the queue that leaves the portfolio alone.
LEMMA QueueStepKeepsWhole ==
    ASSUME WholeInv, FlatInv', phase = "running", UNCHANGED <<portfolioVars, phase>>,
           queue' \in Seq(WholeEvents), pending' \in Seq(WholeOrders)
    PROVE  WholeInv' /\ [PortfolioEvent]_portfolioVars
BY DEF WholeInv

LEMMA WholeStep ==
    ASSUME WholeInv, FlatInv', [EngineNext]_engineVars
    PROVE  WholeInv' /\ [PortfolioEvent]_portfolioVars
<1>0. Marked /\ bars \in Nat
  BY DEF WholeInv, FlatInv
<1>1. ASSUME NEW s \in Symbols, NEW open \in Prices, NEW close \in Prices,
             NextBar(s, open, close)
      PROVE  WholeInv' /\ [PortfolioEvent]_portfolioVars
  <2> DEFINE fillsDue == [i \in DOMAIN pending |-> Execute(pending[i], open)]
             bar == [kind |-> "market", sym |-> s, open |-> open, close |-> close]
  <2>1. UNCHANGED portfolioVars
    BY <1>1 DEF NextBar
  <2>2. CASE Fillable(pending, open)
    <3>1. pending' = <<>> /\ queue' = Append(fillsDue, bar) /\ phase' = phase
          /\ phase = "running"
      BY <1>1, <2>2 DEF NextBar
    <3>2. fillsDue \in Seq(WholeFills)
      BY <2>2, FillsWhole DEF WholeInv
    <3>3. bar \in MarketEvents
      BY DEF MarketEvents
    <3> HIDE DEF fillsDue, bar
    <3>4. fillsDue \in Seq(WholeEvents) /\ bar \in WholeEvents
      BY <3>2, <3>3, WholeParts
    <3>5. queue' \in Seq(WholeEvents) /\ pending' \in Seq(WholeOrders)
      BY <3>1, <3>4
    <3> QED
      BY <2>1, <3>1, <3>5, QueueStepKeepsWhole
  <2>3. CASE ~Fillable(pending, open)
    <3>1. phase' = "failed" /\ queue' = queue /\ pending' = pending
      BY <1>1, <2>3 DEF NextBar
    <3> QED
      BY <2>1, <3>1 DEF WholeInv
  <2> QED
    BY <2>2, <2>3
<1>2. ASSUME Popped("market"), NEW signals \in Signals(Head(queue).sym), HandleMarket(signals)
      PROVE  WholeInv' /\ [PortfolioEvent]_portfolioVars
  <2>1. /\ queue # <<>> /\ phase = "running" /\ Head(queue) \in MarketEvents
        /\ Tail(queue) \in Seq(WholeEvents)
    BY <1>2, QueueParts, EventKinds DEF Popped, WholeInv, FlatInv
  <2>2. /\ OnMarket(Head(queue).sym, Head(queue).close)
        /\ queue' = Tail(queue) \o signals /\ phase' = phase /\ pending' = pending
    BY <1>2 DEF HandleMarket
  <2>3. Head(queue).sym \in Symbols /\ Head(queue).close \in Prices
    BY <2>1, MarketFields
  <2>4. signals \in Seq(WholeEvents)
    <3>1. ASSUME NEW i \in Intents,
                 signals = <<[kind |-> "signal", sym |-> Head(queue).sym, intent |-> i]>>
          PROVE  signals \in Seq(WholeEvents)
      <4>1. [kind |-> "signal", sym |-> Head(queue).sym, intent |-> i] \in SignalEvents
        BY <2>3 DEF SignalEvents
      <4>2. [kind |-> "signal", sym |-> Head(queue).sym, intent |-> i] \in WholeEvents
        BY <4>1, WholeParts
      <4> QED
        BY <3>1, <4>2
    <3>2. CASE signals = <<>>
      BY <3>2
    <3> QED
      BY <1>2, <3>1, <3>2 DEF Signals
  <2>5. queue' \in Seq(WholeEvents)
    BY <2>1, <2>2, <2>4
  <2>6. WholeInv'
    BY <2>1, <2>2, <2>5 DEF WholeInv
  <2>7. PortfolioEvent
    BY <2>2, <2>3 DEF PortfolioEvent
  <2> QED
    BY <2>6, <2>7
<1>3. ASSUME NEW m \in Multipliers \cup {0, 100}, HandleSignal(m)
      PROVE  WholeInv' /\ [PortfolioEvent]_portfolioVars
  <2>1. /\ queue # <<>> /\ phase = "running" /\ Head(queue).kind = "signal"
        /\ queue' = Tail(queue) \o OrdersFor(Head(queue), m) /\ pending' = pending
        /\ UNCHANGED <<portfolioVars, phase>>
    BY <1>3 DEF HandleSignal, Popped
  <2>2. Head(queue) \in SignalEvents /\ Tail(queue) \in Seq(WholeEvents)
    BY <2>1, QueueParts, EventKinds DEF WholeInv, FlatInv
  <2>3. m \in Int
    BY EngineAssumption
  <2>4. OrdersFor(Head(queue), m) \in Seq(WholeOrders)
    BY <1>0, <2>2, <2>3, OrdersWhole
  <2>5. OrdersFor(Head(queue), m) \in Seq(WholeEvents)
    BY <2>4, WholeParts
  <2>6. queue' \in Seq(WholeEvents) /\ pending' \in Seq(WholeOrders)
    BY <2>1, <2>2, <2>5 DEF WholeInv
  <2> QED
    BY <2>1, <2>6, QueueStepKeepsWhole
<1>4. CASE HandleOrder
  <2>1. /\ queue # <<>> /\ phase = "running" /\ Head(queue).kind = "order"
        /\ UNCHANGED <<portfolioVars, phase>>
        /\ \/ pending' = Append(pending, Head(queue)) /\ queue' = Tail(queue)
           \/ queue' = Append(Tail(queue), [kind |-> "audit"]) /\ pending' = pending
    BY <1>4 DEF HandleOrder, Popped
  <2>2. pending \in Seq(WholeOrders) /\ queue \in Seq(WholeEvents)
    BY DEF WholeInv
  <2>3. Head(queue) \in WholeEvents /\ Tail(queue) \in Seq(WholeEvents)
    BY <2>1, <2>2, QueueParts
  <2>4. Head(queue) \in WholeOrders
    BY <2>1, <2>3 DEF WholeEvents
  <2>5. Append(pending, Head(queue)) \in Seq(WholeOrders)
    BY <2>2, <2>4
  <2>6. Append(Tail(queue), [kind |-> "audit"]) \in Seq(WholeEvents)
    BY <2>3, WholeParts
  <2>7. queue' \in Seq(WholeEvents) /\ pending' \in Seq(WholeOrders)
    BY <2>1, <2>2, <2>3, <2>5, <2>6, Zenon
  <2> QED
    BY <2>1, <2>7, QueueStepKeepsWhole
<1>5. CASE HandleFill
  <2> DEFINE f == Head(queue)
  <2>1. /\ queue # <<>> /\ phase = "running" /\ f.kind = "fill"
        /\ OnFill(f.sym, f.qty, f.px, UnitFee * Abs(f.qty))
        /\ queue' = Tail(queue) /\ phase' = phase /\ pending' = pending
    BY <1>5 DEF HandleFill, Popped
  <2>2. f \in WholeEvents /\ Tail(queue) \in Seq(WholeEvents)
    BY <2>1, QueueParts DEF WholeInv
  <2> HIDE DEF f
  <2>3. f \in WholeFills
    BY <2>1, <2>2 DEF WholeEvents
  <2>4. f.sym \in Symbols /\ f.qty \in Int \ {0} /\ f.px \in Nat \ {0}
    BY <2>3 DEF WholeFills, FillEvents
  <2>5. UnitFee * Abs(f.qty) \in Nat
    BY <2>4, CommissionTyped
  <2>6. PortfolioEvent
    BY <2>1, <2>4, <2>5, FillIsEvent
  <2>7. WholeInv'
    BY <2>1, <2>2 DEF WholeInv
  <2> QED
    BY <2>6, <2>7
<1>6. CASE HandleAudit
  <2>1. /\ queue # <<>> /\ phase = "running" /\ queue' = Tail(queue) /\ pending' = pending
        /\ UNCHANGED <<portfolioVars, phase>>
    BY <1>6 DEF HandleAudit, Popped
  <2>2. queue' \in Seq(WholeEvents) /\ pending' \in Seq(WholeOrders)
    BY <2>1, QueueParts DEF WholeInv
  <2> QED
    BY <2>1, <2>2, QueueStepKeepsWhole
<1>7. CASE FeedOver
  <2>1. /\ UNCHANGED portfolioVars /\ queue' = queue /\ pending' = pending
        /\ toClose' = (IF latest = <<>> THEN {} ELSE Open)
    BY <1>7 DEF FeedOver
  <2>2. vol' = vol
    BY <2>1 DEF portfolioVars, bookVars
  <2>3. \A s \in toClose' : vol'[s] # 0
    BY <2>1, <2>2 DEF Open
  <2> QED
    BY <2>1, <2>3 DEF WholeInv
<1>8. ASSUME NEW s \in Symbols, CloseOne(s)
      PROVE  WholeInv' /\ [PortfolioEvent]_portfolioVars
  <2> DEFINE f == Execute(Leg(s, -vol[s]), latest.open)
  <2>1. /\ phase = "closing" /\ s \in toClose /\ latest \in MarketEvents
        /\ toClose \subseteq Symbols
    BY <1>8 DEF CloseOne, WholeInv, FlatInv, Ending
  <2>2. queue' = queue /\ pending' = pending
    BY <1>8 DEF CloseOne
  <2>3. vol[s] \in Int \ {0}
    BY <1>0, <2>1 DEF WholeInv, Marked
  <2>4. f.qty = -vol[s] /\ f.px \in Int
    <3>1. latest.open \in Int
      BY <2>1, MarketFields, PriceTypes
    <3> QED
      BY <2>3, <3>1, EngineAssumption DEF Execute, Leg
  <2>5. CASE f.px > 0
    <3>1. /\ OnFill(s, f.qty, f.px, UnitFee * Abs(f.qty)) /\ toClose' = toClose \ {s}
      BY <1>8, <2>5 DEF CloseOne
    <3> HIDE DEF f
    <3>2. f.qty \in Int \ {0} /\ f.px \in Nat \ {0}
      BY <2>3, <2>4, <2>5
    <3>3. UnitFee * Abs(f.qty) \in Nat
      BY <3>2, CommissionTyped
    <3>4. PortfolioEvent
      BY <3>1, <3>2, <3>3, FillIsEvent
    <3>5. \A r \in Symbols : r # s => vol'[r] = vol[r]
      <4>1. f.qty \in Int /\ f.px \in Int /\ UnitFee * Abs(f.qty) \in Int
        BY <3>2, <3>3
      <4> QED
        BY <1>0, <3>1, <4>1, FillMarks
    <3>6. \A r \in toClose' : vol'[r] # 0
      BY <2>1, <3>1, <3>5 DEF WholeInv
    <3> QED
      BY <2>2, <3>4, <3>6 DEF WholeInv
  <2>6. CASE ~(f.px > 0)
    <3>1. phase' = "failed" /\ UNCHANGED portfolioVars
      BY <1>8, <2>6 DEF CloseOne
    <3> QED
      BY <2>2, <3>1 DEF WholeInv
  <2> QED
    BY <2>5, <2>6
<1>9. CASE UNCHANGED engineVars
  <2>1. /\ UNCHANGED portfolioVars /\ queue' = queue /\ pending' = pending /\ phase' = phase
        /\ toClose' = toClose /\ vol' = vol
    BY <1>9 DEF engineVars, portfolioVars, bookVars
  <2> QED
    BY <2>1 DEF WholeInv
<1> QED
  BY <1>1, <1>2, <1>3, <1>4, <1>5, <1>6, <1>7, <1>8, <1>9 DEF EngineNext

LEMMA WholeInitial == EngineInit => WholeInv /\ PortfolioInit
<1> SUFFICES ASSUME EngineInit PROVE WholeInv /\ PortfolioInit
  OBVIOUS
<1>1. queue = <<>> /\ pending = <<>> /\ phase = "running" /\ PortfolioInit
  BY DEF EngineInit
<1> QED
  BY <1>1, FlatInitial DEF WholeInv

\* A backtest moves its portfolio by fills of whole units at a price and by observed
\* prices only: its cash, its realized PnL and its equity are explained at every step,
\* with the orders, the slippage, the fees and the closing of the run.
THEOREM BacktestAccountIsSound ==
    EngineSpec => /\ []RealizedPnlExplainsCash
                  /\ []EquityIsExplained
                  /\ AnyLedger!Spec
<1>1. WholeInv /\ [EngineNext]_engineVars => WholeInv' /\ [PortfolioEvent]_portfolioVars
  <2>1. WholeInv => FlatInv
    BY DEF WholeInv
  <2> QED
    BY <2>1, FlatInductive, WholeStep
<1>2. EngineSpec => AnyPortfolio
  BY <1>1, WholeInitial, PTL DEF EngineSpec, AnyPortfolio
<1> QED
  BY <1>2, AnyPortfolioIsSound
=============================================================================

-------------------------- MODULE Portfolio_proofs --------------------------
(***************************************************************************)
(* The portfolio's accounting, and the decomposition of its equity on the  *)
(* dashboard, hold for every set of symbols, every price, volume and       *)
(* commission, and every number of fills: of Portfolio alone, and of       *)
(* AnyPortfolio, which is what the programs that run a portfolio make of   *)
(* it, whose fills come from a broker.                                     *)
(***************************************************************************)
EXTENDS Portfolio, SumsAndRanks, TLAPS

\* Rounding to the nearest integer loses at most half a unit of each divided one.
LEMMA RoundDivError ==
    ASSUME NEW a \in Int, NEW b \in Nat \ {0}
    PROVE  /\ RoundDiv(a, b) \in Int
           /\ 2 * (b * RoundDiv(a, b) - a) <= b
           /\ 2 * (a - b * RoundDiv(a, b)) <= b
<1> DEFINE f == a \div b
           r == a % b
<1>1. f \in Int /\ r \in 0 .. b - 1 /\ a = b * f + r
  OBVIOUS
<1> HIDE DEF f, r
<1>2. RoundDiv(a, b) = IF 2 * r < b \/ (2 * r = b /\ f % 2 = 0) THEN f ELSE f + 1
  BY DEF RoundDiv, f, r
<1>3. b * (f + 1) = b * f + b
  BY <1>1
<1>4. CASE 2 * r < b \/ (2 * r = b /\ f % 2 = 0)
  BY <1>1, <1>2, <1>4
<1>5. CASE ~(2 * r < b \/ (2 * r = b /\ f % 2 = 0))
  <2>1. 2 * r >= b
    BY <1>1, <1>5
  <2> QED BY <2>1, <1>1, <1>2, <1>3, <1>5
<1> QED BY <1>4, <1>5

\* One fill of a book entry: the position moves by the fill's quantity, the cash
\* taken out is the fill's notional, and the PnL booked differs from the change
\* in entry cost only by the rounding of an average.
RoundingOf(v, a, q, p, o) == o.v * o.a - q * p - o.r - v * a

Books(v, a, q, p, o) ==
    /\ o.v = v + q /\ o.out = q * p
    /\ o.a \in Nat /\ o.r \in Int
    /\ o.v = 0 => o.a = 0
    /\ ~Increasing(v, q) => RoundingOf(v, a, q, p, o) = 0
    /\ Increasing(v, q) => /\ 2 * RoundingOf(v, a, q, p, o) <= Abs(o.v)
                           /\ -(2 * RoundingOf(v, a, q, p, o)) <= Abs(o.v)

\* Each of the four branches of on_fill_event is such a fill.
LEMMA FillOutcomeBooks ==
    \A v \in Int, a \in Nat, q \in Int \ {0}, p \in Nat \ {0} :
        (v = 0 => a = 0) => Books(v, a, q, p, FillOutcome(v, a, q, p))
<1> SUFFICES ASSUME NEW v \in Int, NEW a \in Nat, NEW q \in Int \ {0}, NEW p \in Nat \ {0},
                    v = 0 => a = 0
             PROVE  Books(v, a, q, p, FillOutcome(v, a, q, p))
  OBVIOUS
<1> DEFINE o == FillOutcome(v, a, q, p)
           d == o.v * o.a - q * p - o.r - v * a
<1> USE DEF Books, RoundingOf
<1>1. CASE v = 0
  <2>1. o = Opened(q, p) /\ ~Increasing(v, q)
    BY <1>1 DEF FillOutcome, Increasing
  <2>2. o.v = q /\ o.a = p /\ o.r = 0 /\ o.out = q * p
    BY <2>1 DEF Opened
  <2>3. v * a = 0
    BY <1>1
  <2>4. d = 0
    BY <2>2, <2>3
  <2> QED BY <1>1, <2>1, <2>2, <2>4
<1>2. CASE v # 0 /\ Increasing(v, q)
  <2>1. o = Increased(v, a, q, p)
    BY <1>2 DEF FillOutcome
  <2> DEFINE n == Abs(v + q)
             t == Abs(v) * a + Abs(q) * p
  <2>2. n \in Nat \ {0} /\ t \in Nat
    BY <1>2 DEF Increasing, Abs
  <2>3. /\ RoundDiv(t, n) \in Int
        /\ 2 * (n * RoundDiv(t, n) - t) <= n
        /\ 2 * (t - n * RoundDiv(t, n)) <= n
    <3> HIDE DEF n, t
    <3> QED BY <2>2, RoundDivError
  <2> DEFINE m == RoundDiv(t, n)
  <2>4. o.v = v + q /\ o.a = m /\ o.r = 0 /\ o.out = q * p
    BY <2>1 DEF Increased
  <2>5. m >= 0
    <3>1. SUFFICES ASSUME m < 0 PROVE FALSE
      BY <2>3
    <3>2. n * m <= -n
      BY <2>2, <2>3, <3>1
    <3> QED BY <2>2, <2>3, <3>2
  <2>6. CASE v > 0
    <3>1. q > 0 /\ n = v + q /\ t = v * a + q * p
      BY <1>2, <2>6 DEF Increasing, Abs
    <3>2. d = n * m - t
      BY <2>4, <3>1, <2>3
    <3> QED BY <1>2, <2>2, <2>3, <2>4, <2>5, <3>1, <3>2
  <2>7. CASE v < 0
    <3>1. q < 0 /\ n = -(v + q) /\ t = (-v) * a + (-q) * p
      BY <1>2, <2>7 DEF Increasing, Abs
    <3>2. d = t - n * m
      BY <2>4, <3>1, <2>3
    <3> QED BY <1>2, <2>2, <2>3, <2>4, <2>5, <3>1, <3>2
  <2> QED BY <1>2, <2>6, <2>7
<1>3. CASE v # 0 /\ ~Increasing(v, q) /\ Abs(q) <= Abs(v)
  <2>1. o = Reduced(v, a, q, p)
    BY <1>3 DEF FillOutcome
  <2>2. o.v = v + q /\ o.a = (IF v + q = 0 THEN 0 ELSE a) /\ o.out = q * p
        /\ o.r = RealizedPnl(a, p, Abs(q), v > 0)
    BY <2>1 DEF Reduced
  <2>3. o.v * o.a = (v + q) * a
    BY <2>2
  <2>4. o.r = (a - p) * q
    <3>1. CASE v > 0
      BY <1>3, <2>2, <3>1 DEF RealizedPnl, Abs, Increasing
    <3>2. CASE v < 0
      BY <1>3, <2>2, <3>2 DEF RealizedPnl, Abs, Increasing
    <3> QED BY <1>3, <3>1, <3>2
  <2>5. d = 0
    BY <2>3, <2>4
  <2> QED BY <1>3, <2>2, <2>4, <2>5
<1>4. CASE v # 0 /\ ~Increasing(v, q) /\ ~(Abs(q) <= Abs(v))
  <2>1. o = Reversed(v, a, q, p)
    BY <1>4 DEF FillOutcome
  <2>2. o.v = v + q /\ o.a = p /\ o.out = (-v) * p + (q + v) * p
        /\ o.r = RealizedPnl(a, p, Abs(v), v > 0)
    BY <2>1 DEF Reversed
  <2>3. o.r = (p - a) * v
    <3>1. CASE v > 0
      BY <1>4, <2>2, <3>1 DEF RealizedPnl, Abs
    <3>2. CASE v < 0
      BY <1>4, <2>2, <3>2 DEF RealizedPnl, Abs
    <3> QED BY <1>4, <3>1, <3>2
  <2>4. o.out = q * p
    BY <2>2
  <2>5. d = 0
    BY <2>2, <2>3
  <2>6. v + q # 0
    BY <1>4 DEF Abs
  <2> QED BY <1>4, <2>2, <2>3, <2>4, <2>5, <2>6
<1> QED BY <1>1, <1>2, <1>3, <1>4

-----------------------------------------------------------------------------
\* The inductive invariant: types, and a closed position keeps no entry price,
\* so that the next opening starts from an empty entry.
BookInv ==
    /\ BookTypeOK
    /\ \A s \in Symbols : vol[s] = 0 => avg[s] = 0
    /\ RealizedPnlExplainsCash

\* What happens to a portfolio, whatever runs it: a fill of whole units, at a price and
\* a commission that FillEvent accepts, by itself or right after a market event of its
\* symbol, or a market event.
Booked(s, q, p, c) ==
    LET o == FillOutcome(vol[s], avg[s], q, p)
    IN  /\ cash' = cash - c - o.out
        /\ vol' = [vol EXCEPT ![s] = o.v]
        /\ avg' = [avg EXCEPT ![s] = o.a]
        /\ realized' = [realized EXCEPT ![s] = @ + o.r]
        /\ slack' = [slack EXCEPT ![s] = @ + IF Increasing(vol[s], q) THEN Abs(o.v) ELSE 0]
        /\ equity' = MarkToMarket(cash', vol', lastPrice')
        /\ flow' = [flow EXCEPT ![s] = @ - q * p]
        /\ fees' = fees + c
        /\ fills' = fills + 1
        /\ lastPrice' = lastPrice \/ \E now \in Prices : lastPrice' = [lastPrice EXCEPT ![s] = now]

PortfolioEvent ==
    \/ \E s \in Symbols, q \in Int \ {0}, p \in Nat \ {0}, c \in Nat : Booked(s, q, p, c)
    \/ \E s \in Symbols, p \in Prices : OnMarket(s, p)
AnyPortfolio == PortfolioInit /\ [][PortfolioEvent]_portfolioVars

LEMMA FillIsBooked ==
    ASSUME NEW s, NEW q, NEW p, NEW c, OnFill(s, q, p, c)
    PROVE  Booked(s, q, p, c)
BY DEF OnFill, UpdateEquity, Booked

LEMMA FillIsEvent ==
    ASSUME NEW s \in Symbols, NEW q \in Int \ {0}, NEW p \in Nat \ {0}, NEW c \in Nat,
           OnFill(s, q, p, c)
    PROVE  PortfolioEvent
BY FillIsBooked DEF PortfolioEvent

LEMMA SignedAreWhole == \A q \in SignedVolumes : q \in Int \ {0}
<1> SUFFICES ASSUME NEW q \in SignedVolumes PROVE q \in Int \ {0}
  OBVIOUS
<1>1. \A v \in Volumes : v \in Nat \ {0}
  BY PortfolioAssumption
<1>2. CASE q \in Volumes
  BY <1>1, <1>2
<1>3. CASE q \in {-v : v \in Volumes}
  <2>1. PICK v \in Volumes : q = -v
    BY <1>3
  <2>2. v \in Nat \ {0}
    BY <1>1
  <2> QED
    BY <2>1, <2>2
<1> QED
  BY <1>2, <1>3 DEF SignedVolumes

\* Such are the events of Portfolio's own environment.
LEMMA EventsOfPortfolio == PortfolioNext => PortfolioEvent
<1> SUFFICES ASSUME PortfolioNext PROVE PortfolioEvent
  OBVIOUS
<1>1. Volumes \subseteq Nat \ {0} /\ Prices \subseteq Nat \ {0} /\ Fees \subseteq Nat
  BY PortfolioAssumption
<1>2. ASSUME NEW s \in Symbols, NEW q \in SignedVolumes, NEW p \in Prices, NEW c \in Fees,
             Fill(s, q, p, c)
      PROVE  PortfolioEvent
  <2>1. OnFill(s, q, p, c)
    BY <1>2 DEF Fill
  <2>2. q \in Int \ {0} /\ p \in Nat \ {0} /\ c \in Nat
    BY <1>1, SignedAreWhole
  <2> QED
    BY <2>1, <2>2, FillIsEvent
<1> QED
  BY <1>2 DEF PortfolioNext, PortfolioEvent

\* The entry a fill meets is typed, with no entry price where nothing is held.
LEMMA FillInputs ==
    ASSUME BookInv, NEW s \in Symbols
    PROVE  vol[s] \in Int /\ avg[s] \in Nat /\ (vol[s] = 0 => avg[s] = 0)
BY DEF BookInv, BookTypeOK

\* on_fill_event keeps the books: types, the empty entry of a closed position, and
\* the residue, which moves by the rounding of this fill only.
LEMMA FillKeepsBook ==
    ASSUME BookInv, NEW s \in Symbols, NEW q \in Int \ {0}, NEW p \in Nat \ {0},
           NEW c \in Nat, Booked(s, q, p, c)
    PROVE  BookInv'
<1> DEFINE o == FillOutcome(vol[s], avg[s], q, p)
           d == RoundingOf(vol[s], avg[s], q, p, o)
<1>1. /\ q \in Int \ {0} /\ p \in Nat \ {0} /\ c \in Nat
      /\ vol[s] \in Int /\ avg[s] \in Nat /\ (vol[s] = 0 => avg[s] = 0)
  BY FillInputs
<1>a. Books(vol[s], avg[s], q, p, o)
  BY <1>1, FillOutcomeBooks
<1> HIDE DEF o
<1>2. /\ o.v = vol[s] + q /\ o.out = q * p
      /\ o.a \in Nat /\ o.r \in Int
      /\ o.v = 0 => o.a = 0
      /\ ~Increasing(vol[s], q) => d = 0
      /\ Increasing(vol[s], q) => 2 * d <= Abs(o.v) /\ -(2 * d) <= Abs(o.v)
  BY <1>a DEF Books
<1>b. o.v \in Int /\ d \in Int
  BY <1>1, <1>2 DEF RoundingOf
<1> HIDE DEF d
<1>3. /\ cash' = cash - c - o.out
      /\ vol' = [vol EXCEPT ![s] = o.v]
      /\ avg' = [avg EXCEPT ![s] = o.a]
      /\ realized' = [realized EXCEPT ![s] = @ + o.r]
      /\ slack' = [slack EXCEPT ![s] = @ + IF Increasing(vol[s], q) THEN Abs(o.v) ELSE 0]
      /\ flow' = [flow EXCEPT ![s] = @ - q * p]
      /\ fees' = fees + c /\ fills' = fills + 1 /\ lastPrice' \in [Symbols -> Prices \cup {NoPrice}]
  BY DEF Booked, BookInv, BookTypeOK, o
<1>4. Abs(o.v) \in Nat
  BY <1>b DEF Abs
<1>5. BookTypeOK'
  BY <1>1, <1>2, <1>3, <1>4 DEF BookInv, BookTypeOK
<1>6. ASSUME NEW x \in Symbols PROVE (vol[x] = 0 => avg[x] = 0)'
  BY <1>1, <1>2, <1>3 DEF BookInv, BookTypeOK
<1>7. ASSUME NEW x \in Symbols PROVE (2 * Abs(Residue(x)) <= slack[x])'
  <2>1. CASE x # s
    BY <1>3, <2>1 DEF BookInv, BookTypeOK, RealizedPnlExplainsCash, Residue, Abs
  <2>2. CASE x = s
    <3>1. /\ Residue(s)' = flow[s] - q * p + o.v * o.a - (realized[s] + o.r)
          /\ slack'[s] = slack[s] + IF Increasing(vol[s], q) THEN Abs(o.v) ELSE 0
      BY <1>3 DEF BookInv, BookTypeOK, Residue
    <3>2. Residue(s)' = Residue(s) + d
      BY <3>1, <1>1, <1>2 DEF d, BookInv, BookTypeOK, Residue, RoundingOf
    <3>3. 2 * Abs(Residue(s)) <= slack[s] /\ Residue(s) \in Int /\ slack[s] \in Nat
      BY <1>1 DEF BookInv, BookTypeOK, RealizedPnlExplainsCash, Residue
    <3> QED BY <2>2, <3>1, <3>2, <3>3, <1>2, <1>4, <1>b DEF Abs
  <2> QED BY <2>1, <2>2
<1> QED BY <1>5, <1>6, <1>7 DEF BookInv, RealizedPnlExplainsCash

\* Seen from outside, on_fill_event moves cash by the notional and the commission
\* and the position by the quantity, whichever branch it takes.
LEMMA FillMovesLedger ==
    ASSUME BookInv, NEW s \in Symbols, NEW q \in Int \ {0}, NEW p \in Nat \ {0},
           NEW c \in Nat, Booked(s, q, p, c)
    PROVE  cash' = cash - (q * p) - c /\ vol' = [vol EXCEPT ![s] = @ + q]
<1> DEFINE o == FillOutcome(vol[s], avg[s], q, p)
<1>1. /\ q \in Int \ {0} /\ p \in Nat \ {0} /\ c \in Nat
      /\ vol[s] \in Int /\ avg[s] \in Nat /\ (vol[s] = 0 => avg[s] = 0)
  BY FillInputs
<1>2. Books(vol[s], avg[s], q, p, o)
  BY <1>1, FillOutcomeBooks
<1>3. cash' = cash - c - o.out /\ vol' = [vol EXCEPT ![s] = o.v]
  BY DEF Booked
<1> HIDE DEF o
<1>4. o.v = vol[s] + q /\ o.out = q * p
  BY <1>2 DEF Books
<1>5. cash' = cash - (q * p) - c
  BY <1>1, <1>3, <1>4 DEF BookInv, BookTypeOK
<1> QED BY <1>3, <1>4, <1>5

\* Every event the portfolio handles, fill or market price, keeps the invariant.
LEMMA BookInductive == BookInv /\ [PortfolioEvent]_portfolioVars => BookInv'
<1> SUFFICES ASSUME BookInv, [PortfolioEvent]_portfolioVars PROVE BookInv'
  OBVIOUS
<1>1. CASE \E s \in Symbols, q \in Int \ {0}, p \in Nat \ {0}, c \in Nat : Booked(s, q, p, c)
  BY <1>1, FillKeepsBook
<1>2. ASSUME NEW s \in Symbols, NEW p \in Prices, OnMarket(s, p) PROVE BookInv'
  BY <1>2 DEF OnMarket, historyVars, BookInv, BookTypeOK, RealizedPnlExplainsCash, Residue, Abs
<1>3. CASE UNCHANGED portfolioVars
  BY <1>3 DEF portfolioVars, bookVars, historyVars, BookInv, BookTypeOK,
              RealizedPnlExplainsCash, Residue, Abs
<1> QED BY <1>1, <1>2, <1>3 DEF PortfolioEvent

\* A new Portfolio satisfies the invariant.
LEMMA BookInitial == PortfolioInit => BookInv
<1> SUFFICES ASSUME PortfolioInit PROVE BookInv
  OBVIOUS
<1>1. ASSUME NEW s \in Symbols PROVE Residue(s) = 0 /\ slack[s] = 0
  BY DEF PortfolioInit, Residue
<1>2. RealizedPnlExplainsCash
  BY <1>1 DEF RealizedPnlExplainsCash, Abs
<1> QED BY <1>2, PortfolioAssumption DEF PortfolioInit, BookInv, BookTypeOK

\* Whatever fills arrive, in whatever order and number, the PnL booked for the
\* closed trades (_closed_trades_pnl) explains the cash that moved.
THEOREM RealizedPnlAlwaysExplained == PortfolioSpec => []RealizedPnlExplainsCash
<1>1. BookInv => RealizedPnlExplainsCash
  BY DEF BookInv
<1> QED BY <1>1, BookInitial, BookInductive, EventsOfPortfolio, PTL DEF PortfolioSpec

\* on_fill_event, with its five branches, implements the one-line ledger: every
\* fill moves position and cash by its own quantity and notional, reversals too.
THEOREM PortfolioImplementsLedger == PortfolioSpec => ImplementsFillLedger
<1>1. PortfolioInit => Ledger!Init
  BY DEF PortfolioInit, Ledger!Init
<1>2. BookInv /\ [PortfolioNext]_portfolioVars => [Ledger!Next]_Ledger!ledgerVars
  <2> SUFFICES ASSUME BookInv, [PortfolioNext]_portfolioVars
               PROVE  [Ledger!Next]_Ledger!ledgerVars
    OBVIOUS
  <2>1. ASSUME NEW s \in Symbols, NEW q \in SignedVolumes, NEW p \in Prices, NEW c \in Fees,
               Fill(s, q, p, c)
        PROVE  Ledger!Execute(s, q, p, c)
    <3>1. q \in Int \ {0} /\ p \in Nat \ {0} /\ c \in Nat
      BY SignedAreWhole, PortfolioAssumption
    <3> QED
      BY <2>1, <3>1, FillIsBooked, FillMovesLedger DEF Fill, Ledger!Execute
  <2>2. ASSUME NEW s \in Symbols, NEW p \in Prices, OnMarket(s, p)
        PROVE  UNCHANGED Ledger!ledgerVars
    BY <2>2 DEF OnMarket, Ledger!ledgerVars
  <2>3. CASE UNCHANGED portfolioVars
    BY <2>3 DEF portfolioVars, bookVars, Ledger!ledgerVars
  <2> QED BY <2>1, <2>2, <2>3 DEF PortfolioNext, Ledger!Next
<1> QED BY <1>1, <1>2, BookInitial, BookInductive, EventsOfPortfolio, PTL
        DEF PortfolioSpec, ImplementsFillLedger, Ledger!Spec
-----------------------------------------------------------------------------
\* The folds of the portfolio are such sums: of a function,
LEMMA FoldOfFunction ==
    ASSUME NEW T, IsFiniteSet(T), NEW f
    PROVE  MapThenSumSet(LAMBDA s : f[s], T) = SumOf(f, T)
<1> DEFINE F == f
           Step(h) == [s \in SUBSET T |->
                          IF s = {} THEN 0
                          ELSE LET x == CHOOSE y \in s : TRUE IN f[x] + h[s \ {x}]]
<1>1. MapThenSumSet(LAMBDA s : f[s], T) = (CHOOSE h : h = Step(h))[T]
  BY DEF MapThenSumSet, MapThenFoldSet
<1>2. ASSUME NEW h PROVE Step(h) = [s \in SUBSET T |-> Folded(F, h, s)]
  <2>1. ASSUME NEW s \in SUBSET T
        PROVE  Step(h)[s] = Folded(F, h, s)
    <3>1. s # {} => Picked(s) \in T
      BY PickedFact
    <3> QED
      BY <3>1 DEF Folded, Picked
  <2> QED
    BY <2>1
<1> HIDE DEF Step, F
<1>3. \E h : h = Step(h)
  <2>1. PICK h : Sums(F, T, h)
    BY AllSummed DEF Summed
  <2> QED
    BY <1>2, <2>1 DEF Sums
<1> DEFINE k == CHOOSE h : h = Step(h)
<1>4. k = Step(k)
  BY <1>3
<1> HIDE DEF k
<1>5. Sums(F, T, k)
  BY <1>2, <1>4 DEF Sums
<1>6. k[T] = SumOf(F, T)
  BY <1>5, AllSummed, SumOfSums
<1> QED
  BY <1>1, <1>6 DEF F, k

\* of what positions are worth,
LEMMA FoldOfNotional ==
    ASSUME NEW T, IsFiniteSet(T), NEW v, NEW p
    PROVE  MapThenSumSet(LAMBDA s : v[s] * p[s], T) = SumOf([s \in T |-> v[s] * p[s]], T)
<1> DEFINE F == [s \in T |-> v[s] * p[s]]
           Step(h) == [s \in SUBSET T |->
                          IF s = {} THEN 0
                          ELSE LET x == CHOOSE y \in s : TRUE IN v[x] * p[x] + h[s \ {x}]]
<1>1. MapThenSumSet(LAMBDA s : v[s] * p[s], T) = (CHOOSE h : h = Step(h))[T]
  BY DEF MapThenSumSet, MapThenFoldSet
<1>2. ASSUME NEW h PROVE Step(h) = [s \in SUBSET T |-> Folded(F, h, s)]
  <2>1. ASSUME NEW s \in SUBSET T
        PROVE  Step(h)[s] = Folded(F, h, s)
    <3>1. s # {} => Picked(s) \in T
      BY PickedFact
    <3> QED
      BY <3>1 DEF Folded, Picked
  <2> QED
    BY <2>1
<1> HIDE DEF Step, F
<1>3. \E h : h = Step(h)
  <2>1. PICK h : Sums(F, T, h)
    BY AllSummed DEF Summed
  <2> QED
    BY <1>2, <2>1 DEF Sums
<1> DEFINE k == CHOOSE h : h = Step(h)
<1>4. k = Step(k)
  BY <1>3
<1> HIDE DEF k
<1>5. Sums(F, T, k)
  BY <1>2, <1>4 DEF Sums
<1>6. k[T] = SumOf(F, T)
  BY <1>5, AllSummed, SumOfSums
<1> QED
  BY <1>1, <1>6 DEF F, k

\* and of what they have gained.
LEMMA FoldOfUnrealized ==
    ASSUME NEW T, IsFiniteSet(T)
    PROVE  MapThenSumSet(Unrealized, T) = SumOf([s \in T |-> Unrealized(s)], T)
<1> DEFINE F == [s \in T |-> Unrealized(s)]
           Step(h) == [s \in SUBSET T |->
                          IF s = {} THEN 0
                          ELSE LET x == CHOOSE y \in s : TRUE IN Unrealized(x) + h[s \ {x}]]
<1>1. MapThenSumSet(Unrealized, T) = (CHOOSE h : h = Step(h))[T]
  BY DEF MapThenSumSet, MapThenFoldSet
<1>2. ASSUME NEW h PROVE Step(h) = [s \in SUBSET T |-> Folded(F, h, s)]
  <2>1. ASSUME NEW s \in SUBSET T
        PROVE  Step(h)[s] = Folded(F, h, s)
    <3>1. s # {} => Picked(s) \in T
      BY PickedFact
    <3> QED
      BY <3>1 DEF Folded, Picked
  <2> QED
    BY <2>1
<1> HIDE DEF Step, F
<1>3. \E h : h = Step(h)
  <2>1. PICK h : Sums(F, T, h)
    BY AllSummed DEF Summed
  <2> QED
    BY <1>2, <2>1 DEF Sums
<1> DEFINE k == CHOOSE h : h = Step(h)
<1>4. k = Step(k)
  BY <1>3
<1> HIDE DEF k
<1>5. Sums(F, T, k)
  BY <1>2, <1>4 DEF Sums
<1>6. k[T] = SumOf(F, T)
  BY <1>5, AllSummed, SumOfSums
<1> QED
  BY <1>1, <1>6 DEF F, k
-----------------------------------------------------------------------------
Worth(s) == IF s \in Open \cap Priced THEN vol[s] * lastPrice[s] ELSE 0
Gained(s) == IF s \in Open \cap Priced THEN Unrealized(s) ELSE 0
Worths == [s \in Symbols |-> Worth(s)]
Gains == [s \in Symbols |-> Gained(s)]
Residues == [s \in Symbols |-> Residue(s)]

\* The equity was marked with the prices and positions of the last event, and the
\* balance is what the fills moved.
EquityInv ==
    /\ BookInv
    /\ equity = MarkToMarket(cash, vol, lastPrice)
    /\ cash = InitialCapital - fees + SumOf(flow, Symbols)

LEMMA EquityInitial == PortfolioInit => EquityInv
<1> SUFFICES ASSUME PortfolioInit PROVE EquityInv
  OBVIOUS
<1> DEFINE Seen == {s \in Symbols : vol[s] # 0 /\ lastPrice[s] # NoPrice}
<1>1. Seen = {}
  BY DEF PortfolioInit
<1>2. IsFiniteSet(Seen) /\ SumOf([s \in Seen |-> vol[s] * lastPrice[s]], Seen) = 0
  <2>1. \A f : SumOf(f, {}) = 0
    BY SumEmpty
  <2> HIDE DEF Seen
  <2>2. SumOf([s \in Seen |-> vol[s] * lastPrice[s]], Seen)
          = SumOf([s \in Seen |-> vol[s] * lastPrice[s]], {})
    BY <1>1
  <2> QED
    BY <1>1, <2>1, <2>2, FS_EmptySet
<1>3. equity = InitialCapital /\ cash = InitialCapital /\ fees = 0 /\ InitialCapital \in Int
  BY PortfolioAssumption DEF PortfolioInit
<1>4. MarkToMarket(cash, vol, lastPrice) = cash + 0
  <2> HIDE DEF Seen
  <2>1. MapThenSumSet(LAMBDA s : vol[s] * lastPrice[s], Seen) = 0
    BY <1>2, FoldOfNotional
  <2> QED
    BY <2>1 DEF MarkToMarket, Seen
<1>5. SumOf(flow, Symbols) = 0
  <2>1. \A x \in Symbols : flow[x] \in Int /\ flow[x] = 0
    BY DEF PortfolioInit
  <2> QED
    BY <2>1, SumOfPart, SumEmpty, PortfolioAssumption
<1>6. BookInv
  BY BookInitial
<1> QED
  BY <1>3, <1>4, <1>5, <1>6 DEF EquityInv

LEMMA EquityInductive == EquityInv /\ [PortfolioEvent]_portfolioVars => EquityInv'
<1> SUFFICES ASSUME EquityInv, [PortfolioEvent]_portfolioVars PROVE EquityInv'
  OBVIOUS
<1>1. BookInv /\ BookInv'
  BY BookInductive DEF EquityInv
<1>2. ASSUME NEW s \in Symbols, NEW q \in Int \ {0}, NEW p \in Nat \ {0}, NEW c \in Nat,
             Booked(s, q, p, c)
      PROVE  EquityInv'
  <2>1. cash' = cash - (q * p) - c
    BY <1>1, <1>2, FillMovesLedger
  <2>2. /\ equity' = MarkToMarket(cash', vol', lastPrice')
        /\ flow' = [flow EXCEPT ![s] = @ - q * p] /\ fees' = fees + c
    BY <1>2 DEF Booked
  <2>3. q * p \in Int /\ c \in Int
    <3>1. q \in Int /\ p \in Int /\ c \in Int
      OBVIOUS
    <3> QED
      BY <3>1
  <2>4. flow \in [Symbols -> Int] /\ flow' \in [Symbols -> Int] /\ cash \in Int /\ fees \in Int
    BY <1>1 DEF BookInv, BookTypeOK
  <2>5. SumOf(flow', Symbols) = SumOf(flow, Symbols) - flow[s] + flow'[s]
    <3>1. /\ \A y \in Symbols : flow[y] \in Int /\ flow'[y] \in Int
          /\ \A y \in Symbols \ {s} : flow[y] = flow'[y]
      BY <2>2, <2>4
    <3>2. IsFiniteSet(Symbols)
      BY PortfolioAssumption
    <3> QED
      BY <3>1, <3>2, SumChange
  <2>6. SumOf(flow, Symbols) \in Int
    BY <2>4, SumTyped, PortfolioAssumption
  <2>7. flow'[s] = flow[s] - q * p /\ flow[s] \in Int
    BY <2>2, <2>4
  <2> DEFINE notional == q * p
  <2> HIDE DEF notional
  <2>8. cash' = InitialCapital - fees' + SumOf(flow', Symbols)
    BY <2>1, <2>2, <2>3, <2>4, <2>5, <2>6, <2>7, PortfolioAssumption DEF EquityInv
  <2> QED
    BY <1>1, <2>2, <2>8 DEF EquityInv
<1>3. ASSUME NEW s \in Symbols, NEW p \in Prices, OnMarket(s, p)
      PROVE  EquityInv'
  BY <1>1, <1>3 DEF OnMarket, UpdateEquity, historyVars, EquityInv
<1>4. CASE UNCHANGED portfolioVars
  BY <1>1, <1>4 DEF portfolioVars, bookVars, historyVars, EquityInv
<1> QED
  BY <1>2, <1>3, <1>4 DEF PortfolioEvent

\* What a position is worth, has gained, and has lost to rounding are integers.
LEMMA PositionTypes ==
    ASSUME BookInv, NEW s \in Symbols
    PROVE  /\ Worth(s) \in Int /\ Gained(s) \in Int /\ Residue(s) \in Int
           /\ flow[s] \in Int /\ realized[s] \in Int /\ slack[s] \in Int
           /\ (s \in Priced => vol[s] * lastPrice[s] \in Int)
           /\ (vol[s] # 0 => s \in Priced)
                 => Worth(s) + flow[s] = (Gained(s) + realized[s]) + Residue(s)
<1>1. /\ vol[s] \in Int /\ avg[s] \in Int /\ flow[s] \in Int /\ realized[s] \in Int
      /\ slack[s] \in Int
  BY DEF BookInv, BookTypeOK
<1>2. s \in Priced => lastPrice[s] \in Int
  <2>1. lastPrice[s] \in Prices \cup {NoPrice} /\ Prices \subseteq Nat
    <3>1. lastPrice \in [Symbols -> Prices \cup {NoPrice}]
      BY DEF BookInv, BookTypeOK
    <3>2. Prices \subseteq Nat
      BY PortfolioAssumption
    <3> QED
      BY <3>1, <3>2
  <2>2. s \in Priced => lastPrice[s] # NoPrice
    BY DEF Priced
  <2>3. s \in Priced => lastPrice[s] \in Nat
    BY <2>1, <2>2, Zenon
  <2> QED
    BY <2>3
<1>3. Residue(s) = (flow[s] + vol[s] * avg[s]) - realized[s] /\ vol[s] * avg[s] \in Int
  BY <1>1 DEF Residue
<1>4. CASE s \in Open \cap Priced
  <2>1. lastPrice[s] \in Int /\ s \in Priced /\ vol[s] # 0
    BY <1>2, <1>4 DEF Open
  <2>2. vol[s] * lastPrice[s] \in Int /\ Worth(s) = vol[s] * lastPrice[s]
    BY <1>1, <1>4, <2>1 DEF Worth
  <2>3. Gained(s) = vol[s] * lastPrice[s] - vol[s] * avg[s]
    <3>1. Gained(s) = IF vol[s] > 0 THEN (lastPrice[s] - avg[s]) * vol[s]
                      ELSE (avg[s] - lastPrice[s]) * (-vol[s])
      BY <1>1, <1>4, <2>1 DEF Gained, Unrealized, Abs
    <3>2. /\ (lastPrice[s] - avg[s]) * vol[s] = vol[s] * lastPrice[s] - vol[s] * avg[s]
          /\ (avg[s] - lastPrice[s]) * (-vol[s]) = vol[s] * lastPrice[s] - vol[s] * avg[s]
      BY <1>1, <2>1
    <3> QED
      BY <3>1, <3>2
  <2> QED
    BY <1>1, <1>3, <2>2, <2>3
<1>5. CASE s \notin Open \cap Priced
  <2>1. Worth(s) = 0 /\ Gained(s) = 0
    BY <1>5 DEF Worth, Gained
  <2>2. (vol[s] # 0 => s \in Priced) => vol[s] = 0
    BY <1>5 DEF Open
  <2>3. vol[s] = 0 => vol[s] * avg[s] = 0
    BY <1>1
  <2> QED
    BY <1>1, <1>2, <1>3, <2>1, <2>2, <2>3
<1> QED
  BY <1>4, <1>5

\* The folds of the snapshot, as sums over all symbols.
LEMMA SnapshotSums ==
    ASSUME EquityInv
    PROVE  /\ Snapshot.equity = cash + SumOf(Worths, Symbols)
           /\ Snapshot.balance = cash /\ Snapshot.net = SumOf(Worths, Symbols)
           /\ Snapshot.floating = SumOf(Gains, Symbols)
<1> DEFINE Seen == Open \cap Priced
<1>1. IsFiniteSet(Symbols) /\ IsFiniteSet(Seen) /\ Seen \in SUBSET Symbols
  BY PortfolioAssumption, FS_Subset DEF Open
<1>2. SumOf([s \in Seen |-> vol[s] * lastPrice[s]], Seen) = SumOf(Worths, Symbols)
  <2>1. SumOf([s \in Seen |-> vol[s] * lastPrice[s]], Seen) = SumOf(Worths, Seen)
    BY <1>1, SumSame DEF Worths, Worth
  <2>2. \A x \in Symbols : Worths[x] \in Int
    BY PositionTypes DEF Worths, EquityInv
  <2>3. \A x \in Symbols \ Seen : Worths[x] = 0
    BY DEF Worths, Worth
  <2> QED
    BY <1>1, <2>1, <2>2, <2>3, SumOfPart
<1>3. SumOf([s \in Seen |-> Unrealized(s)], Seen) = SumOf(Gains, Symbols)
  <2>1. SumOf([s \in Seen |-> Unrealized(s)], Seen) = SumOf(Gains, Seen)
    BY <1>1, SumSame DEF Gains, Gained
  <2>2. \A x \in Symbols : Gains[x] \in Int
    BY PositionTypes DEF Gains, EquityInv
  <2>3. \A x \in Symbols \ Seen : Gains[x] = 0
    BY DEF Gains, Gained
  <2> QED
    BY <1>1, <2>1, <2>2, <2>3, SumOfPart
<1>4. MapThenSumSet(LAMBDA s : vol[s] * lastPrice[s], Seen) = SumOf(Worths, Symbols)
  BY <1>1, <1>2, FoldOfNotional
<1>5. MapThenSumSet(Unrealized, Seen) = SumOf(Gains, Symbols)
  BY <1>1, <1>3, FoldOfUnrealized
<1>6. equity = cash + SumOf(Worths, Symbols)
  <2>1. {s \in Symbols : vol[s] # 0 /\ lastPrice[s] # NoPrice} = Seen
    BY DEF Open, Priced
  <2> QED
    BY <1>4, <2>1 DEF EquityInv, MarkToMarket
<1> QED
  BY <1>4, <1>5, <1>6 DEF Snapshot

\* What is within half a bound for each symbol is within half of it in sum.
LEMMA SumWithin ==
    ASSUME NEW T, IsFiniteSet(T), NEW R, NEW K,
           \A x \in T : /\ R[x] \in Int /\ K[x] \in Int
                        /\ 2 * R[x] <= K[x] /\ -(2 * R[x]) <= K[x]
    PROVE  2 * SumOf(R, T) <= SumOf(K, T) /\ -(2 * SumOf(R, T)) <= SumOf(K, T)
<1> DEFINE D == [x \in T |-> 2 * R[x]]
           N == [x \in T |-> -(2 * R[x])]
           Z == [x \in T |-> 0]
<1>1. \A x \in T : /\ R[x] \in Int /\ D[x] \in Int /\ N[x] \in Int /\ K[x] \in Int
                   /\ D[x] = R[x] + R[x] /\ Z[x] = D[x] + N[x]
                   /\ D[x] <= K[x] /\ N[x] <= K[x] /\ Z[x] \in Int /\ Z[x] = 0
  OBVIOUS
<1> HIDE DEF D, N, Z
<1>2. SumOf(D, T) = SumOf(R, T) + SumOf(R, T)
  BY <1>1, SumPlus
<1>3. SumOf(Z, T) = SumOf(D, T) + SumOf(N, T)
  BY <1>1, SumPlus
<1>4. SumOf(Z, T) = 0
  <2>1. SumOf(Z, T) = SumOf(Z, {})
    BY <1>1, SumOfPart
  <2> QED
    BY <2>1, SumEmpty
<1>5. SumOf(D, T) <= SumOf(K, T) /\ SumOf(N, T) <= SumOf(K, T)
  BY <1>1, SumBound
<1>6. SumOf(R, T) \in Int /\ SumOf(D, T) \in Int /\ SumOf(N, T) \in Int /\ SumOf(K, T) \in Int
  BY <1>1, SumTyped
<1> QED
  BY <1>2, <1>3, <1>4, <1>5, <1>6

\* With every open position priced, the equity minus its explanation is the sum of
\* the residues.
LEMMA ResiduesRemain ==
    ASSUME EquityInv, Open \subseteq Priced
    PROVE  /\ SumOf(Worths, Symbols) + SumOf(flow, Symbols)
                = (SumOf(Gains, Symbols) + SumOf(realized, Symbols)) + SumOf(Residues, Symbols)
           /\ \A F \in {Worths, Gains, Residues, flow, realized, slack} :
                  SumOf(F, Symbols) \in Int
<1> DEFINE Moved == [s \in Symbols |-> Worth(s) + flow[s]]
           Earned == [s \in Symbols |-> Gained(s) + realized[s]]
<1>1. IsFiniteSet(Symbols) /\ BookInv
  BY PortfolioAssumption DEF EquityInv
<1>2. ASSUME NEW s \in Symbols
      PROVE  /\ Worths[s] \in Int /\ Gains[s] \in Int /\ Residues[s] \in Int
             /\ flow[s] \in Int /\ realized[s] \in Int /\ slack[s] \in Int
             /\ Moved[s] \in Int /\ Earned[s] \in Int
             /\ Moved[s] = Worths[s] + flow[s] /\ Earned[s] = Gains[s] + realized[s]
             /\ Moved[s] = Earned[s] + Residues[s]
  <2>1. vol[s] # 0 => s \in Priced
    BY DEF Open
  <2>2. /\ Worth(s) \in Int /\ Gained(s) \in Int /\ Residue(s) \in Int
        /\ flow[s] \in Int /\ realized[s] \in Int /\ slack[s] \in Int
        /\ Worth(s) + flow[s] = (Gained(s) + realized[s]) + Residue(s)
    BY <1>1, <2>1, PositionTypes
  <2>3. Worths[s] = Worth(s) /\ Gains[s] = Gained(s) /\ Residues[s] = Residue(s)
    BY DEF Worths, Gains, Residues
  <2> QED
    BY <2>2, <2>3
<1> HIDE DEF Moved, Earned
<1>3. SumOf(Moved, Symbols) = SumOf(Worths, Symbols) + SumOf(flow, Symbols)
  BY <1>1, <1>2, SumPlus
<1>4. SumOf(Earned, Symbols) = SumOf(Gains, Symbols) + SumOf(realized, Symbols)
  BY <1>1, <1>2, SumPlus
<1>5. SumOf(Moved, Symbols) = SumOf(Earned, Symbols) + SumOf(Residues, Symbols)
  BY <1>1, <1>2, SumPlus
<1>6. ASSUME NEW F \in {Worths, Gains, Residues, flow, realized, slack}
      PROVE  SumOf(F, Symbols) \in Int
  <2>1. \A s \in Symbols : F[s] \in Int
    BY <1>2, <1>6
  <2> QED
    BY <1>1, <2>1, SumTyped
<1> QED
  BY <1>3, <1>4, <1>5, <1>6

LEMMA EquityExplains == EquityInv => EquityIsExplained
<1> SUFFICES ASSUME EquityInv PROVE EquityIsExplained
  OBVIOUS
<1>1. /\ Snapshot.equity = cash + SumOf(Worths, Symbols)
      /\ Snapshot.balance = cash /\ Snapshot.net = SumOf(Worths, Symbols)
      /\ Snapshot.floating = SumOf(Gains, Symbols)
  BY SnapshotSums
<1>2. ASSUME Open \subseteq Priced
      PROVE  2 * Abs(Snapshot.equity - (InitialCapital - fees + Snapshot.floating
                                        + SumOf(realized, Symbols)))
                <= SumOf(slack, Symbols)
  <2> DEFINE worth == SumOf(Worths, Symbols)
             moved == SumOf(flow, Symbols)
             gain == SumOf(Gains, Symbols)
             booked == SumOf(realized, Symbols)
             lost == SumOf(Residues, Symbols)
             bound == SumOf(slack, Symbols)
  <2>1. /\ worth + moved = (gain + booked) + lost
        /\ worth \in Int /\ moved \in Int /\ gain \in Int /\ booked \in Int /\ lost \in Int
        /\ bound \in Int
    BY <1>2, ResiduesRemain
  <2>2. cash = InitialCapital - fees + moved /\ fees \in Int /\ InitialCapital \in Int
    BY PortfolioAssumption DEF EquityInv, BookInv, BookTypeOK
  <2>3. 2 * lost <= bound /\ -(2 * lost) <= bound
    <3>1. ASSUME NEW s \in Symbols
          PROVE  /\ Residues[s] \in Int /\ slack[s] \in Int
                 /\ 2 * Residues[s] <= slack[s] /\ -(2 * Residues[s]) <= slack[s]
      <4>1. Residue(s) \in Int /\ slack[s] \in Int /\ Residues[s] = Residue(s)
        BY PositionTypes DEF EquityInv, Residues
      <4>2. 2 * Abs(Residue(s)) <= slack[s]
        BY DEF EquityInv, BookInv, RealizedPnlExplainsCash
      <4> QED
        BY <4>1, <4>2 DEF Abs
    <3> QED
      BY <3>1, SumWithin, PortfolioAssumption
  <2> HIDE DEF worth, moved, gain, booked, lost, bound
  <2>4. (cash + worth) - (InitialCapital - fees + gain + booked) = lost
    BY <2>1, <2>2
  <2>5. 2 * Abs(lost) <= bound
    BY <2>1, <2>3 DEF Abs
  <2>6. Snapshot.equity = cash + worth /\ Snapshot.floating = gain
    BY <1>1 DEF worth, gain
  <2>7. 2 * Abs(Snapshot.equity - (InitialCapital - fees + Snapshot.floating + booked)) <= bound
    BY <2>4, <2>5, <2>6
  <2> QED
    BY <2>7 DEF booked, bound
<1>3. /\ MapThenSumSet(LAMBDA s : realized[s], Symbols) = SumOf(realized, Symbols)
      /\ MapThenSumSet(LAMBDA s : slack[s], Symbols) = SumOf(slack, Symbols)
  BY FoldOfFunction, PortfolioAssumption
<1> QED
  BY <1>1, <1>2, <1>3 DEF EquityIsExplained

\* The equity that the kill switch reads is always the one that the dashboard's numbers
\* explain: the balance plus the net exposure shown and, with every open position
\* priced, the capital minus the commissions plus the realized and floating PnL, up
\* to what averaging has rounded away.
THEOREM EquityAlwaysExplained == PortfolioSpec => []EquityIsExplained
<1> QED
  BY EquityInitial, EquityInductive, EquityExplains, EventsOfPortfolio, PTL DEF PortfolioSpec

\* The same of a portfolio run by another program: its realized PnL and its equity are
\* explained, and it implements the ledger.
AnyLedger == INSTANCE FillLedger WITH
    Instruments <- Symbols, Opening <- InitialCapital, Quantities <- Int \ {0},
    FillPrices <- Nat \ {0}, Commissions <- Nat, balance <- cash, holding <- vol

THEOREM AnyPortfolioIsSound ==
    AnyPortfolio => /\ []RealizedPnlExplainsCash
                    /\ []EquityIsExplained
                    /\ AnyLedger!Spec
<1>1. PortfolioInit => AnyLedger!Init
  BY DEF PortfolioInit, AnyLedger!Init
<1>2. BookInv /\ [PortfolioEvent]_portfolioVars => [AnyLedger!Next]_AnyLedger!ledgerVars
  <2> SUFFICES ASSUME BookInv, [PortfolioEvent]_portfolioVars
               PROVE  [AnyLedger!Next]_AnyLedger!ledgerVars
    OBVIOUS
  <2>1. ASSUME NEW s \in Symbols, NEW q \in Int \ {0}, NEW p \in Nat \ {0}, NEW c \in Nat,
               Booked(s, q, p, c)
        PROVE  AnyLedger!Execute(s, q, p, c)
    BY <2>1, FillMovesLedger DEF AnyLedger!Execute
  <2>2. ASSUME NEW s \in Symbols, NEW p \in Prices, OnMarket(s, p)
        PROVE  UNCHANGED AnyLedger!ledgerVars
    BY <2>2 DEF OnMarket, AnyLedger!ledgerVars
  <2>3. CASE UNCHANGED portfolioVars
    BY <2>3 DEF portfolioVars, bookVars, AnyLedger!ledgerVars
  <2> QED BY <2>1, <2>2, <2>3 DEF PortfolioEvent, AnyLedger!Next
<1>3. EquityInv => BookInv /\ RealizedPnlExplainsCash
  BY DEF EquityInv, BookInv
<1> QED
  BY <1>1, <1>2, <1>3, EquityInitial, EquityInductive, EquityExplains, PTL
  DEF AnyPortfolio, AnyLedger!Spec

\* Whatever a fill of whole units is, the position moves by its quantity and the cash
\* by its notional.
LEMMA OutcomeTyped ==
    ASSUME NEW v \in Int, NEW a \in Int, NEW q \in Int, NEW p \in Int
    PROVE  /\ FillOutcome(v, a, q, p).v = v + q
           /\ FillOutcome(v, a, q, p).out = q * p
           /\ FillOutcome(v, a, q, p).a \in Int
<1> DEFINE o == FillOutcome(v, a, q, p)
<1>0. q * p \in Int /\ (-v) * p + (q + v) * p = q * p
  OBVIOUS
<1>1. CASE v = 0
  BY <1>0, <1>1 DEF FillOutcome, Opened
<1>2. CASE v # 0 /\ Increasing(v, q)
  <2>1. o = Increased(v, a, q, p)
    BY <1>2 DEF FillOutcome
  <2>2. Abs(v) * a + Abs(q) * p \in Int /\ Abs(v + q) \in Nat \ {0}
    <3>1. Abs(v) \in Int /\ Abs(q) \in Int /\ Abs(v + q) \in Nat \ {0}
      BY <1>2 DEF Abs, Increasing
    <3> QED
      BY <3>1
  <2>3. RoundDiv(Abs(v) * a + Abs(q) * p, Abs(v + q)) \in Int
    BY <2>2, RoundDivError
  <2> QED
    BY <1>0, <2>1, <2>3 DEF Increased
<1>3. CASE v # 0 /\ ~Increasing(v, q) /\ Abs(q) <= Abs(v)
  BY <1>0, <1>3 DEF FillOutcome, Reduced
<1>4. CASE v # 0 /\ ~Increasing(v, q) /\ ~(Abs(q) <= Abs(v))
  <2>1. o = Reversed(v, a, q, p)
    BY <1>4 DEF FillOutcome
  <2>2. o.v = q + v /\ o.a = p /\ o.out = (-v) * p + (q + v) * p
    BY <2>1 DEF Reversed
  <2> HIDE DEF o
  <2>3. o.out = q * p
    BY <1>0, <2>2, Zenon
  <2>4. o.v = v + q /\ o.a \in Int
    BY <2>2
  <2> QED
    BY <2>3, <2>4 DEF o
<1> QED
  BY <1>1, <1>2, <1>3, <1>4
=============================================================================

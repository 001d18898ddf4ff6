--------------------------- MODULE SignalStreams ---------------------------
(***************************************************************************)
(* The event-driven strategies: what each tells the engine as bars come.   *)
(* Of two moving averages only their order is kept, which a bar can change *)
(* at will, and of prices only how they compare.  A bar of another symbol  *)
(* is looked at by the strategies of engine/strategy.py only.              *)
(***************************************************************************)
EXTENDS Integers, Sequences

CONSTANTS SlowPeriod,   \* observations before a crossing is told
          RsiPeriod,
          Lookback,     \* bars of Return5
          Closes,       \* prices, for Return5
          MaxBarsSeen   \* bound

ASSUME SignalStreamsAssumption ==
    {SlowPeriod, RsiPeriod, Lookback, MaxBarsSeen} \subseteq Nat \ {0} /\ Closes \subseteq Nat \ {0}

Filtering == {"ema_cross", "composite_macro", "macro_dxy"}
Unfiltered == {"engine_ema_cross", "rsi_ema", "return5", "buy_and_hold"}

VARIABLES strategy,
          observed,   \* bars it has looked at
          order,      \* sign of fast minus slow average, at the last of them
          closes,     \* the last closes, for Return5
          intent,     \* the last signal: 1, -1 or 0; only return5 and buy_and_hold keep it
          seen_bars,  \* bars of the feed
          move        \* history: sign of the last Return5 that was not 0

streamVars == <<strategy, observed, order, closes, intent, seen_bars, move>>

StreamInit ==
    /\ strategy \in Filtering \cup Unfiltered
    /\ observed = 0 /\ order = 0 /\ closes = <<>> /\ intent = 0 /\ seen_bars = 0 /\ move = 0

Sign(n) == IF n > 0 THEN 1 ELSE IF n < 0 THEN -1 ELSE 0
-----------------------------------------------------------------------------
\* Slip: averages that touch have not crossed.
CrossedStrictly(next) ==
    IF order < 0 /\ next > 0 THEN 1 ELSE IF order > 0 /\ next < 0 THEN -1 ELSE 0

Crossed(next) ==
    IF order <= 0 /\ next > 0 THEN 1 ELSE IF order >= 0 /\ next < 0 THEN -1 ELSE 0

WarmUp == IF strategy = "rsi_ema" /\ RsiPeriod > SlowPeriod THEN RsiPeriod ELSE SlowPeriod

\* The filters of a crossing: the side of 50 the RSI is on, the trend of the dollar
\* (0 when flat or unknown).
Confirmed(cross, rsi, dollar) ==
    CASE strategy = "rsi_ema" -> rsi = cross
      [] strategy = "composite_macro" -> dollar = -cross
      [] OTHER -> TRUE

\* A bar of the three strategies of crossing averages.
CrossBar(next, rsi, dollar) ==
    LET cross == Crossed(next) IN
    /\ strategy \in {"ema_cross", "composite_macro", "engine_ema_cross", "rsi_ema"}
    /\ observed = 0 => next = 0
    /\ order' = next
    /\ intent' = IF observed + 1 > WarmUp /\ observed > 0 /\ cross # 0
                    /\ Confirmed(cross, rsi, dollar)
                 THEN cross ELSE intent
    /\ UNCHANGED <<closes, move>>

\* Return5MomentumStrategy: a signal when the sign of the return changes.
ReturnBar(close) ==
    LET window == Append(closes, close)
        full == IF Len(window) > Lookback + 1 THEN Tail(window) ELSE window
        return == IF Len(full) = Lookback + 1 THEN Sign(full[Lookback + 1] - full[1]) ELSE 0
    IN  /\ strategy = "return5" /\ closes' = full
        /\ move' = IF return # 0 THEN return ELSE move
        /\ intent' = IF return # 0 /\ return # intent THEN return ELSE intent
        /\ UNCHANGED order

\* MacroDxyStrategy: at every bar whose dollar momentum is known.
DollarBar(dollar) ==
    /\ strategy = "macro_dxy"
    /\ intent' = IF dollar # 0 THEN dollar ELSE intent
    /\ UNCHANGED <<order, closes, move>>

\* BuyAndHoldStrategy.
HoldBar ==
    /\ strategy = "buy_and_hold" /\ intent' = 1 /\ UNCHANGED <<order, closes, move>>

Observe ==
    /\ seen_bars < MaxBarsSeen /\ seen_bars' = seen_bars + 1
    /\ observed' = observed + 1 /\ UNCHANGED strategy
    /\ \/ \E next, rsi, dollar \in {-1, 0, 1} : CrossBar(next, rsi, dollar)
       \/ \E close \in Closes : ReturnBar(close)
       \/ \E dollar \in {-1, 0, 1} : DollarBar(dollar)
       \/ HoldBar

\* A bar of a symbol that is not the strategy's.
Ignore ==
    /\ strategy \in Filtering /\ seen_bars < MaxBarsSeen /\ seen_bars' = seen_bars + 1
    /\ UNCHANGED <<strategy, observed, order, closes, intent, move>>

StreamNext == Observe \/ Ignore

StreamSpec == StreamInit /\ [][StreamNext]_streamVars
-----------------------------------------------------------------------------
StreamTypeOK ==
    /\ {observed, seen_bars} \subseteq Nat /\ Len(closes) <= Lookback + 1
    /\ {order, intent, move} \subseteq {-1, 0, 1}

\* Once a strategy of unfiltered crossings has spoken, the averages are never on
\* the other side of its last signal, however they touched and part again; and
\* the last signal of return5 is the direction of the last return that had one.
\* A position opened on a signal is not left behind by a trend that turned.
SignalsFollowTrend ==
    /\ strategy \in {"ema_cross", "engine_ema_cross"} /\ intent # 0 => order \in {0, intent}
    /\ strategy = "return5" => intent = move
=============================================================================

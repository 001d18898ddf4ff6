------------------------------- MODULE MCLive -------------------------------
\* One instrument, two quotations of which one is too wide, a fast and a slow
\* execution; indicators that agree, that half disagree (a quarter size) and
\* that sell; a policy that doubles the size at the lowest threshold.
EXTENDS LiveSession, TLC
CONSTANTS s1, f1, f2, h1, h2
OneSymbol == {s1}
MCNameOf == [s \in Symbols |-> "gold"]
OneFeed == {f1}
TwoFeeds == {f1, f2}
OneHalt == {h1}
TwoHalts == {h1, h2}
MCSites == {[live |-> FALSE, virtual |-> FALSE, sdk |-> TRUE],
            [live |-> FALSE, virtual |-> TRUE, sdk |-> TRUE],
            [live |-> TRUE, virtual |-> FALSE, sdk |-> FALSE]}
MCPrices == {2, 3}
Tight == [bid |-> 2, ask |-> 3]
Wide == [bid |-> 2, ask |-> 9]
MCQuotes == {Tight, Wide}
MCSignals == {[ema |-> "above", rsi |-> "mid", band |-> "in"],
              [ema |-> "above", rsi |-> "overbought", band |-> "in"],
              [ema |-> "none", rsi |-> "none", band |-> "over"]}
MCPolicies == {NoPolicy, [risk |-> 2, adjustment |-> -50, weights |-> [k \in PolicyKeys |-> 8]]}
MCLatencies == {50, 300}
LiveSymmetry == Permutations(TwoFeeds) \cup Permutations(TwoHalts)
=============================================================================

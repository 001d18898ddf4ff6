--------------------------- MODULE MCPaperSession ---------------------------
\* Small sessions.  Slippage equals the lower price, so that a sale can be
\* filled at zero; the margin and both exposure limits are within reach of two
\* orders of one or two units.
EXTENDS PaperSession, TLC
CONSTANTS s1, s2, f1, f2, c1, h1, h2
OneSymbol == {s1}
TwoSymbols == {s1, s2}
MCPrices == {4, 9}
MCVolumes == {1, 2}
OddVolumes == {1, 3}
NoFees == {}
OneFeed == {f1}
TwoFeeds == {f1, f2}
OneCloser == {c1}
OneHalt == {h1}
TwoHalts == {h1, h2}
TasksA == TwoFeeds \cup OneCloser \cup OneHalt
TasksB == OneFeed \cup OneCloser \cup OneHalt
TaskSymmetry == Permutations(TwoFeeds)
=============================================================================

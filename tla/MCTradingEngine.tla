--------------------------- MODULE MCTradingEngine ---------------------------
\* Small backtests: one instrument, as a dataset has; slippage equals the lower
\* price, so that a sale can have no legal fill; the limits refuse some entries.
EXTENDS TradingEngine
CONSTANT s1
OneSymbol == {s1}
MCPrices == {4, 9}
MCMultipliers == {50, 150}
None == {}
=============================================================================

----------------------------- MODULE MCPortfolio -----------------------------
\* Two symbols, up to four fills of one or two units: every branch of a fill is
\* reached, after every other, with averages that do not divide evenly.
EXTENDS Portfolio, TLC
CONSTANTS s1, s2
MCSymbols == {s1, s2}
MCPrices == {3, 4}
MCVolumes == {1, 2}
MCFees == {1}
Symmetry == Permutations(MCSymbols)
=============================================================================

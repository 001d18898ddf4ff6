------------------------------- MODULE MCVnPy -------------------------------
\* Two domain symbols share a name, as BTCUSDT of class crypto and of class
\* forex would; the window holds two trades, a third pushes the first out.
EXTENDS VnPyAdapter
CONSTANTS crypto, forex, n1
Listed == {crypto, forex}
OneName == {n1}
MCNameOf == [s \in Listed |-> n1]
MCDefaultOf == [n \in OneName |-> crypto]
OnePrice == {2}
MCVolumes == {1, 2}
=============================================================================

-------------------------- MODULE MCTradeLifecycle --------------------------
EXTENDS TradeLifecycle, TLC

CONSTANTS k1, k2

Symmetry == Permutations(Signals)

\* Bound: the operator's close is followed with one signal, two signals
\* without one.
OneAlone == closes > 0 => \E k \in Signals : exec[k].pc = "idle"
=============================================================================

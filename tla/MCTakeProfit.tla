----------------------------- MODULE MCTakeProfit -----------------------------
EXTENDS TakeProfit

\* Between break-even and 1R, and beyond both targets: with gaps, every order of
\* the 1R, TP1 and TP2 events.
MCPrices == {2, 6}

MCScenarios == {<<"scalping", "installed", 1>>, <<"intraday", "installed", 0>>,
                <<"scalping", "entering", 0>>}
=============================================================================

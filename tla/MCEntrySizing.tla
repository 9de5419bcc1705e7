---------------------------- MODULE MCEntrySizing ---------------------------
(***************************************************************************)
(* TLC instance of EntrySizing: a price step is 10 bps of the price.       *)
(***************************************************************************)
EXTENDS EntrySizing

\* The stop is off the price grid; at the signal's price the contract's least
\* quantity loses more than the budget, within the tolerance.
Wide   == [symbol |-> "ETH", type |-> "scalping", direction |-> "long",
           entry |-> 4050, stop |-> 4005]
Tight  == [symbol |-> "SOL", type |-> "intraday", direction |-> "short",
           entry |-> 4000, stop |-> 4020]     \* too dear for the worker
Far    == [symbol |-> "SOL", type |-> "scalping", direction |-> "short",
           entry |-> 4000, stop |-> 4040]
Beyond == [symbol |-> "ETH", type |-> "scalping", direction |-> "long",
           entry |-> 4000, stop |-> 4020]     \* the stop on the wrong side

MCCaller   == {"worker", "page"}
MCWorker   == {"worker"}
MCSymbol   == {"ETH", "SOL"}
MCSignals  == {Wide, Tight, Far, Beyond}
MCContract == [ETH |-> [step |-> 1, minQty |-> 7, minNotional |-> 20],
               SOL |-> [step |-> 3, minQty |-> 6, minNotional |-> 24000]]
MCHeld     == {0, 18000, 19990}
MCDrifts   == {-8, -4, 0, 4}
MCSpreads  == {4, 24}
MCPaid     == {5, 20}
=============================================================================

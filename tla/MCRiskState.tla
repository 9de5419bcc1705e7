---------------------------- MODULE MCRiskState ----------------------------
(***************************************************************************)
(* TLC instances of RiskState: positions of one symbol, and a clock whose  *)
(* two points lie on either side of midnight in Dhaka.                     *)
(***************************************************************************)
EXTENDS RiskState, TLC

CONSTANTS k1, k2, s1, r1, r2

MCOneKey     == {k1}
MCTwoKeys    == {k1, k2}
MCSymbol     == {s1}
MCSymbolOf   == [k \in Recovered |-> s1]
MCRefresher  == {r1, r2}
MCOneRefresher == {r1}
MCDayOf      == [t \in 0 .. MaxTime |-> t]
MCOutcomes   == {-1, 0, 1}
MCSymmetry   == Permutations(MCRefresher)
=============================================================================

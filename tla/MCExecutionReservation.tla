----------------------- MODULE MCExecutionReservation -----------------------
(***************************************************************************)
(* TLC instances of ExecutionReservation: two concurrent calls, signals on *)
(* one or two symbols, and a recovered position nobody reserved.           *)
(***************************************************************************)
EXTENDS ExecutionReservation, TLC

CONSTANTS k1, k2, k3, k4, x1, s1, s2, s3, c1, c2, r1

MCTwoSignals   == {k1, k2}
MCFourSignals  == {k1, k2, k3, k4}
MCRecovered    == {x1}
MCSymbol       == {s1, s2, s3}
MCSymbolOf     == [k \in Key |-> IF k \in {k1, k2} THEN s1
                                 ELSE IF k = k3 THEN s2 ELSE s3]
MCOwnSymbolOf  == [k \in Key |-> k]
MCReopenable   == {k1}
MCCaller       == {c1, c2}
MCOneCaller    == {c1}
MCRefresher    == {r1}
MCDayOf        == [t \in 0 .. MaxTime |-> 0]
MCOutcomes     == {-1, 0}
MCSymmetry     == Permutations(Caller)
=============================================================================

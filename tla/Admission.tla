----------------------------- MODULE Admission -----------------------------
(***************************************************************************)
(* What app/execution_reservation.py promises, as one atomic step: a key   *)
(* is admitted once, never under the hard stop, never beside an admitted   *)
(* key of its symbol, and never beyond the active-trade limit.             *)
(***************************************************************************)
EXTENDS Integers, FiniteSets

CONSTANTS Signal, Symbol, SymbolOf, ActiveLimit

VARIABLES
    held,       \* admitted keys that still hold their slot
    used,       \* keys that have a journal row
    hardStop    \* the daily-loss circuit breaker

Init ==
    /\ held = {}
    /\ used = {}
    /\ hardStop \in BOOLEAN

\* Admission: the execution key and the slot in one step.
Admit(k) ==
    /\ ~hardStop
    /\ k \notin used
    /\ \A j \in held : SymbolOf[j] # SymbolOf[k]
    /\ Cardinality(held) < ActiveLimit
    /\ held' = held \cup {k}
    /\ used' = used \cup {k}
    /\ UNCHANGED hardStop

\* A trade that ends gives its slot back; its key stays used.
Release(k) ==
    /\ k \in held
    /\ held' = held \ {k}
    /\ UNCHANGED <<used, hardStop>>

SetHardStop ==
    /\ hardStop' \in BOOLEAN
    /\ UNCHANGED <<held, used>>

Next == (\E k \in Signal : Admit(k) \/ Release(k)) \/ SetHardStop

Spec == Init /\ [][Next]_<<held, used, hardStop>>
=============================================================================

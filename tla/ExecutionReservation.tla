------------------------ MODULE ExecutionReservation ------------------------
(***************************************************************************)
(* app/execution_reservation.py reserve_execution_capacity, one action per *)
(* statement that reads or writes the database, called concurrently by the *)
(* trading loop and by HTTP handlers, and interleaved with the refreshes   *)
(* of RiskState and with what the rest of the system does to the journal.  *)
(* PostgreSQL (READ COMMITTED) honours SELECT ... FOR UPDATE on the risk   *)
(* row; SQLite, allowed for development, ignores it (RowLocks = FALSE).    *)
(***************************************************************************)
EXTENDS RiskState

CONSTANTS
    Caller,       \* concurrent execute_signal calls
    ActiveLimit,  \* ACTIVE_TRADE_LIMIT
    Cooldown,     \* LOSS_COOLDOWN_MINUTES, in ticks
    RowLocks      \* does the database honour FOR UPDATE

ASSUME ReservationAssumption ==
    /\ ActiveLimit \in Nat \ {0}
    /\ Cooldown \in Nat
    /\ RowLocks \in BOOLEAN
    /\ Nobody \notin Caller

VARIABLES
    call,   \* per-caller progress and local values
    held    \* history: admitted keys whose row has blocked ever since

reservationVars == <<call, held>>
allVars         == <<vars, reservationVars>>

CallPc == {"idle", "validated", "unique", "locked", "cooled", "admitting"}

Resting == [pc |-> "idle", key |-> Nobody, at |-> 0, seen |-> InitialState]

ReservationTypeOK ==
    /\ TypeOK
    /\ rowLock \in Caller \cup {Nobody}
    /\ call \in [Caller -> [pc   : CallPc,
                            key  : Signal \cup {Nobody},
                            at   : Time,
                            seen : StateRow]]
    /\ \A c \in Caller : call[c].pc # "idle" => call[c].key \in Signal
    /\ held \subseteq Signal

-----------------------------------------------------------------------------
SymbolActive(k) == \E j \in Blocking : SymbolOf[j] = SymbolOf[k]

\* Mutant of SlotsFull: off by one.
SlotsOverfull == Cardinality(Blocking) > ActiveLimit

SlotsFull == Cardinality(Blocking) >= ActiveLimit

\* _cooldown_until of the latest closed row lies ahead.
CoolingDown(k, at) ==
    \E j \in RecentClose(SymbolOf[k]) : at < rows[j].closedAt + Cooldown

ReservationInit ==
    /\ Init
    /\ call = [c \in Caller |-> Resting]
    /\ held = {}

\* The session is closed: the caller rests, and the lock is dropped.
Return(c) ==
    /\ call' = [call EXCEPT ![c] = Resting]
    /\ rowLock' = IF rowLock = c THEN Nobody ELSE rowLock

\* Mutant of Validate: the caller loses the execution key.
ValidateKeyless(c, k) ==
    /\ call[c].pc = "idle"
    /\ ~state.breaker /\ state.equity /\ ~SymbolActive(k)
    /\ call' = [call EXCEPT ![c].pc = "validated"]
    /\ UNCHANGED <<vars, held>>

\* validate_trade accepts the signal on the refreshed state it read; sizing,
\* approval and exchange calls follow before the reservation begins.
Validate(c, k) ==
    /\ call[c].pc = "idle"
    /\ ~state.breaker
    /\ state.equity
    /\ ~SymbolActive(k)
    /\ ~SlotsFull
    /\ state.available >= 1
    /\ call' = [call EXCEPT ![c].pc = "validated", ![c].key = k]
    /\ UNCHANGED <<vars, held>>

\* The clock is read, and a key that has a row is turned away.
CheckDuplicate(c) ==
    /\ call[c].pc = "validated"
    /\ call' = IF rows[call[c].key].status # "absent"
                 THEN [call EXCEPT ![c] = Resting]
                 ELSE [call EXCEPT ![c].pc = "unique", ![c].at = now]
    /\ UNCHANGED <<vars, held>>

\* Mutant of LockState: the breaker is not read again under the lock.
LockStateUnchecked(c) ==
    /\ call[c].pc = "unique"
    /\ rowLock = Nobody
    /\ call' = [call EXCEPT ![c].pc = "locked", ![c].seen = state]
    /\ rowLock' = c
    /\ UNCHANGED <<journalVars, state, riskLock, ref, cache, botVars, held>>

\* SELECT ... FOR UPDATE of the risk row, then the breaker.
LockState(c) ==
    /\ call[c].pc = "unique"
    /\ RowLocks => rowLock = Nobody
    /\ IF state.breaker
         THEN Return(c)
         ELSE /\ call' = [call EXCEPT ![c].pc = "locked", ![c].seen = state]
              /\ rowLock' = IF RowLocks THEN c ELSE rowLock
    /\ UNCHANGED <<journalVars, state, riskLock, ref, cache, botVars, held>>

\* The re-entry cooldown, from a query of its own.
ReadCooldown(c) ==
    /\ call[c].pc = "locked"
    /\ IF CoolingDown(call[c].key, call[c].at)
         THEN Return(c)
         ELSE call' = [call EXCEPT ![c].pc = "cooled"] /\ UNCHANGED rowLock
    /\ UNCHANGED <<journalVars, state, riskLock, ref, cache, botVars, held>>

\* The open rows, from another query, and the risk the locked row offers.
ReadOpenRows(c) ==
    /\ call[c].pc = "cooled"
    /\ IF SymbolActive(call[c].key) \/ SlotsFull \/ call[c].seen.available < 1
         THEN Return(c)
         ELSE call' = [call EXCEPT ![c].pc = "admitting"] /\ UNCHANGED rowLock
    /\ UNCHANGED <<journalVars, state, riskLock, ref, cache, botVars, held>>

\* Mutant of Commit: the row is written without the unique constraint.
CommitUpsert(c) ==
    /\ call[c].pc = "admitting"
    /\ Insert(call[c].key, FALSE)
    /\ state' = Flush(state, call[c].seen,
                      [call[c].seen EXCEPT !.available = Positive(@ - 1)])
    /\ held' = held \cup {call[c].key}
    /\ Return(c)
    /\ UNCHANGED <<now, riskLock, ref, cache, botVars>>

\* Commit: the unique execution key decides between the row and a rollback.
Commit(c) ==
    LET k     == call[c].key
        seen  == call[c].seen
        taken == [seen EXCEPT !.available = Positive(@ - 1)]
    IN  /\ call[c].pc = "admitting"
        /\ IF rows[k].status = "absent"
             THEN /\ Insert(k, FALSE)
                  /\ state' = Flush(state, seen, taken)
                  /\ held' = held \cup {k}
             ELSE UNCHANGED <<rows, state, held>>
        /\ Return(c)
        /\ UNCHANGED <<now, riskLock, ref, cache, botVars>>

CallerStep(c) ==
    \/ \E k \in Signal : Validate(c, k)
    \/ CheckDuplicate(c)
    \/ LockState(c)
    \/ ReadCooldown(c)
    \/ ReadOpenRows(c)
    \/ Commit(c)

RiskStep == RiskNext /\ UNCHANGED reservationVars

\* A row that stops blocking gives up its admission.
RowStep ==
    /\ JournalStep
    /\ held' = {k \in held : rows'[k].status = "blocking"}
    /\ UNCHANGED call

ReservationNext == (\E c \in Caller : CallerStep(c)) \/ RiskStep \/ RowStep

ReservationSpec == ReservationInit /\ [][ReservationNext]_allVars

\* The scheduling of RiskState, and a reservation once begun returns.
ReservationFairness ==
    /\ \A r \in Refresher :
         WF_allVars(RefresherStep(r) /\ UNCHANGED reservationVars)
    /\ WF_allVars(StartWrite /\ UNCHANGED reservationVars)
    /\ \A c \in Caller : WF_allVars(call[c].pc # "idle" /\ CallerStep(c))

FairReservationSpec == ReservationSpec /\ ReservationFairness

-----------------------------------------------------------------------------
(* Properties.                                                             *)

\* At most ActiveLimit admitted trades hold a slot, and no two of them are on
\* one symbol, however calls, closes and recovered positions interleave.
CapacityHeld ==
    /\ Cardinality(held) <= ActiveLimit
    /\ \A j, k \in held : j # k => SymbolOf[j] # SymbolOf[k]

\* No trade is admitted under the hard stop: a refresh that trips the breaker
\* waits for the row lock of a reservation that has read it off.
NoAdmissionUnderHardStop ==
    [][held' \subseteq held \/ (~state.breaker /\ ~state'.breaker)]_allVars

\* Each reservation acts as one atomic admission.
A == INSTANCE Admission WITH
       used <- Present \cap Signal, hardStop <- state.breaker

ImplementsAdmission == A!Spec
=============================================================================

---------------------------- MODULE JournalRows ----------------------------
(***************************************************************************)
(* The trade_journal table as the admission path and the risk engine see   *)
(* it.  A row is one execution of one signal, or one exchange position     *)
(* that reconciliation recovered without a row of its own.                 *)
(*                                                                         *)
(* The thirteen CAPACITY_BLOCKING_STATUSES of app/trade_state.py are one   *)
(* value, "blocking": every query modelled here asks only for membership.  *)
(* A confirmed fill shows as opened (opened_at is not null).  P&L is in    *)
(* units of one trade's risk (RISK_PROFILES fix both engines at the same   *)
(* fraction of day-start equity), and closedAt is a point of a bounded     *)
(* clock that DayOf maps to Dhaka calendar days.                           *)
(***************************************************************************)
EXTENDS Integers, FiniteSets

CONSTANTS
    Signal,       \* execution keys that go through the reservation
    Recovered,    \* keys of rows reconciliation creates for stray positions
    Symbol,       \* trading symbols
    SymbolOf,     \* the symbol of every key
    MaxTime,      \* bound: the clock stops here
    DayOf,        \* the operational (Asia/Dhaka) day of a point in time
    SyncLag,      \* bound: how late a close may be written to the journal
    Outcomes,     \* realized P&L a close may carry, in trade-risk units
    Reopenable    \* keys whose terminal row a stale writer may overwrite

Key  == Signal \cup Recovered
Time == 0 .. MaxTime

ASSUME KeyAssumption ==
    /\ IsFiniteSet(Key)
    /\ Signal \cap Recovered = {}
    /\ SymbolOf \in [Key -> Symbol]
    /\ Outcomes \subseteq {-1, 0, 1}
    /\ Reopenable \subseteq Key

ASSUME ClockAssumption ==
    /\ MaxTime \in Nat
    /\ SyncLag \in Nat
    /\ DayOf \in [Time -> Nat]
    /\ \A s, t \in Time : s <= t => DayOf[s] <= DayOf[t]

VARIABLES
    rows,   \* the journal: one record per key, "absent" until inserted
    now     \* the wall clock

journalVars == <<rows, now>>

RowStatus == {"absent", "blocking", "closed", "execution_failed"}

Row == [status   : RowStatus,
        opened   : BOOLEAN,      \* opened_at is not null
        since    : Time,         \* when the row was inserted
        closedAt : Time,         \* closed_at, meaningful once closed
        pnl      : {-1, 0, 1},   \* authoritative realized P&L, 0 = none or estimate
        id       : Nat]          \* the autoincrement primary key

NoRow == [status |-> "absent", opened |-> FALSE, since |-> 0,
          closedAt |-> 0, pnl |-> 0, id |-> 0]

JournalTypeOK ==
    /\ rows \in [Key -> Row]
    /\ now \in Time

-----------------------------------------------------------------------------
Present  == {k \in Key : rows[k].status # "absent"}
Blocking == {k \in Key : rows[k].status = "blocking"}

\* Closed rows the re-entry query selects for a symbol (opened and closed).
ClosedOf(s) ==
    {k \in Key : /\ SymbolOf[k] = s
                 /\ rows[k].status = "closed"
                 /\ rows[k].opened}

\* ORDER BY id DESC LIMIT 1, as a set of at most one key.
RecentClose(s) ==
    {k \in ClosedOf(s) : \A j \in ClosedOf(s) : rows[j].id <= rows[k].id}

\* calculate_daily_pnl_from_journal: closed rows of that day, in risk units.
DayNet(day) ==
    LET closedThatDay == {k \in Key : /\ rows[k].status = "closed"
                                      /\ DayOf[rows[k].closedAt] = day}
    IN  Cardinality({k \in closedThatDay : rows[k].pnl = 1})
          - Cardinality({k \in closedThatDay : rows[k].pnl = -1})

-----------------------------------------------------------------------------
JournalInit ==
    /\ rows = [k \in Key |-> NoRow]
    /\ now = 0

\* INSERT INTO trade_journal; execution_key and journal_id are unique.
Insert(k, opened) ==
    rows' = [rows EXCEPT ![k] = [NoRow EXCEPT !.status = "blocking",
                                              !.opened = opened,
                                              !.since  = now,
                                              !.id     = Cardinality(Present) + 1]]

\* _recover_exchange_position: a position nobody claims gets an active row.
RecoverPosition(k) ==
    /\ k \in Recovered
    /\ rows[k].status = "absent"
    /\ Insert(k, TRUE)
    /\ UNCHANGED now

\* The executor records a confirmed fill.
ConfirmFill(k) ==
    /\ rows[k].status = "blocking"
    /\ ~rows[k].opened
    /\ rows' = [rows EXCEPT ![k].opened = TRUE]
    /\ UNCHANGED now

\* _fail_before_order: no order reached the exchange.
FailBeforeOrder(k) ==
    /\ k \in Signal
    /\ rows[k].status = "blocking"
    /\ ~rows[k].opened
    /\ rows' = [rows EXCEPT ![k].status = "execution_failed"]
    /\ UNCHANGED now

\* Mutant of CloseRow: the close time is rounded up to the next tick.
CloseRowRoundedUp(k, at, pnl) ==
    /\ rows[k].status = "blocking"
    /\ rows[k].since <= at
    /\ at <= now
    /\ rows' = [rows EXCEPT ![k].status = "closed",
                            ![k].closedAt = at + 1,
                            ![k].pnl = pnl]
    /\ UNCHANGED now

\* A close is written: by a close workflow or by reconciliation, with the
\* exchange's close time, which may lie before the write.
CloseRow(k, at, pnl) ==
    /\ rows[k].status = "blocking"
    /\ rows[k].since <= at
    /\ now - SyncLag <= at
    /\ at <= now
    /\ rows' = [rows EXCEPT ![k].status = "closed",
                            ![k].closedAt = at,
                            ![k].pnl = pnl]
    /\ UNCHANGED now

\* update_trade_entry has no version check: reconciliation can write the
\* status it computed from an older read over a row that is already terminal.
StaleReopen(k) ==
    /\ k \in Reopenable
    /\ rows[k].status \in {"closed", "execution_failed"}
    /\ rows' = [rows EXCEPT ![k].status = "blocking"]
    /\ UNCHANGED now

Tick ==
    /\ now < MaxTime
    /\ now' = now + 1
    /\ UNCHANGED rows

\* What the rest of the system does to the journal.
JournalNext ==
    \/ \E k \in Key : \/ RecoverPosition(k)
                      \/ ConfirmFill(k)
                      \/ FailBeforeOrder(k)
                      \/ StaleReopen(k)
                      \/ \E at \in Time, pnl \in Outcomes : CloseRow(k, at, pnl)
    \/ Tick
=============================================================================

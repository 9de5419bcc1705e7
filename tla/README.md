# DayForge verification project

TLA+ models of the trading back end under `app/`: what decides whether a trade
may be opened and how large it is, what the journal and the risk row hold while
several loops and HTTP handlers change them at once, who protects an open trade
and takes its profit, where the figures of a close come from, who notices that
exchange and application disagree, and what the stop switches really stop.
TLC checks the models on small instances; TLAPS proves the safety of every
module for every value of the constants, and liveness stays with TLC.

## The system

DayForge is one FastAPI process (`app/main.py`) with background tasks whose
blocking parts run in worker threads, a SQL database (PostgreSQL in
production, SQLite for development), and the Bybit exchange.

| Part | Source | State it keeps | Operations | Talks to |
|---|---|---|---|---|
| Trade journal | `journal.py`, `models.py`, `trade_state.py` | `trade_journal` rows, one per execution or recovered position | reserve, update, close, append event; updates are last-writer-wins | everybody |
| Daily-loss risk state | `risk.py`, patched by `batch1_execution_safety.py` | one `risk_runtime_state` row, `_risk_lock`, a ten-second verdict cache | refresh from the journal, apply the daily-loss authority | journal, bot controls |
| Execution reservation | `execution_reservation.py` | none of its own; locks the risk row | reserve a key, a slot and risk | journal, risk row |
| Execution pipeline | `execution_service.py`, `execution_core.py`, `risk_execution.py` | in-memory list of active trades | validate, size, approve, reserve, set leverage, order, confirm fill, protect, emergency close | exchange, journal, reservation |
| Risk approval | `authoritative_risk_engine.py` | set of consumed decision ids | issue, verify, consume a signed token | pipeline |
| Reconciliation | `authoritative_reconciliation.py` and helpers; the older `reconciliation.py` | `_reconciliation_lock`, the authoritative snapshot | match positions to rows, recover strays, close vanished ones exactly or by estimate | exchange, journal, active list |
| Trade management, native take profit | `trade_management*.py`, `native_profit_*.py` | `management` record inside each trade | staged partial exits, break even, trailing, time stops | exchange, journal, active list |
| Operator close | `active_trade_control.py` | close workflow status of a trade | request, confirm, time out | exchange, journal |
| Close evidence and P&L sync | `close_fill_sync.py`, `risk_sync.py`, `exchange_journal_backfill.py` | ledger columns of journal rows | aggregate fills, repair, backfill | exchange, journal |
| Bot controls | `bot_controls.py`, `batch2_authority.py` | `bot_runtime_config` row | start, stop, emergency stop, resume, `can_execute` | risk row, watchdog block |
| Background worker | `background_worker.py` | scan queue of size one | trading loop, scanner loop, two-second profit monitor | all of the above |
| Watchdog | `runtime_watchdog.py`, `runtime_guard.py` | consecutive-mismatch counter (row), execution block (memory) | compare exchange and application | bot controls |
| Private WebSocket | `bybit_websocket.py` | an event, the status | wake the reconciliation supervisor on position updates | reconciliation |
| Sizing and costs | `position_sizing.py`, `trading_costs.py`, `market_quality.py` | none | quantity from budget, costs, minima and caps | exchange data, active list |
| Scanner, strategies | `scanner*.py`, `signal_pipeline.py`, `strategy.py` | scan lock, universe, latest snapshot | compute signals | exchange data |
| HTTP API, metrics, front end, back test | `main.py`, `metrics.py`, `frontend/`, ... | none that matters here | routing and reporting | |

What makes it hard: the loops and the handlers share two database rows and one
in-memory list and mostly take no lock; a refresh is two transactions around a
cached verdict; the day rolls over between any two statements; the exchange may
accept an order whose response is lost; journal writes after an order are best
effort; and the process may restart anywhere. `PROJECT.json` lists these
hazards, each at its line.

What makes each part correct:

* *Risk state*: the hard stop of a day is never lost within the day, is cleared
  only by a later day, is tripped only by that day's losses, and stops the bot.
* *Reservation*: at most `ACTIVE_TRADE_LIMIT` admitted trades, one per symbol,
  one per execution key, none under the hard stop, none inside the re-entry
  cooldown; each call behaves as one atomic step.
* *Pipeline and reconciliation*: one journal row per position, a live position
  always has a blocking row, a vanished one is eventually closed.
* *Sizing*: a kept position risks no more than it may after the real fill, and
  concurrent entries do not pile up beyond the exposure cap.
* *Take profit*: what is recorded as protected is protected on the exchange,
  the native orders are not doubled, the rest of the trade ends behind its stop.
* *Close evidence*: a row's profit is its own trade's, and whole; it settles.
* *Supervision*: a naked position ends up blocking entries, a settled one does
  not, and no update goes unnoticed.
* *Controls*: a closed row lets nobody start another order; automatic orders
  are built on fresh signals; the scanner survives its failures.

## Modules

| Module | Models | EXTENDS |
|---|---|---|
| `JournalRows` | the journal as the admission path and the risk engine read it, and what the rest of the system does to it | |
| `RiskState` | `refresh_risk_state` with the daily-loss authority, start and stop of the bot | `JournalRows` |
| `Admission` | abstract: what a reservation promises, as one step | |
| `ExecutionReservation` | `reserve_execution_capacity`, one action per statement, composed with `RiskState` | `RiskState` |
| `TradeLifecycle` | one symbol from reservation to settled row: execution, exchange, reconciliation, operator close, restart | |
| `LegacyReconciliation` | the second reconciler beside it | `TradeLifecycle` |
| `EntryControl` | from a scan to an order: scanner loop, queue, trading loop, `/bot/start`, `/execute`, the operator's controls, the life of an approval | |
| `EntrySizing` | the numbers of an entry: gates, quantity, the checks repeated on the fill | |
| `TakeProfit` | native orders, the two-second monitor and `manage_open_trades` over one management record | |
| `CloseEvidence` | two lagging ledgers and the four passes that copy them into the journal | |
| `Supervision` | trading loop, watchdog, `/watchdog/run-now` and WebSocket supervisor over list, counter and block | |
| `RiskStateProofs`, `ExecutionReservationProofs`, `TradeLifecycleProofs`, `EntrySizingProofs`, `EntryControlProofs`, `TakeProfitProofs`, `CloseEvidenceProofs`, `SupervisionProofs` | theorems and their proofs | the module and `TLAPS` |
| `MC...` | instances for TLC | the module |

`ExecutionReservation` composes reservations with `RiskState` and the journal,
`LegacyReconciliation` composes the two reconcilers. The others each take one
record several actors write (the management state, the journal row of a close,
the list and the block, the bot row) with all of its writers, and reduce what
lies beyond it to the effect it has there; the module comments name the module
that models it.

### JournalRows

`rows[k]` is the journal row of key `k`: an execution key (`Signal`) or the key
of a row reconciliation creates for a position nobody claims (`Recovered`). The
thirteen statuses of `CAPACITY_BLOCKING_STATUSES` are the single value
`"blocking"`, because every query modelled asks only for membership; what is
kept apart is whether `opened_at` is set (the cooldown query asks), the close
time, the authoritative P&L and the row id. P&L is counted in units of one
trade's risk: `RISK_PROFILES` gives both engines the same fraction of day-start
equity, so the comparisons with the daily limit and the risk pool are
comparisons of such multiples. An estimated close has P&L 0, since the audit
leaves estimates out.

Actions: `RecoverPosition`, `ConfirmFill`, `FailBeforeOrder`, `CloseRow`,
`StaleReopen` (a writer without a version check puts a blocking status back
over a terminal row; only keys in `Reopenable`) and `Tick`. The clock is
bounded by `MaxTime` and `DayOf` maps it to days in Dhaka.

### RiskState

`state` is the risk row reduced to the columns a decision reads. A refresher
`r` walks through `ref[r].pc`:

    idle -RefreshStart-> waiting -RefreshLoad-> loaded -RefreshCompute->
    computed -RefreshCommit-> committed -RefreshStopsBot-> snapshot
    -ReadAuthority-> authority -ApplyLoad-> applying -ApplyCommit->
    applied -ApplyStopsBot-> idle

`RefreshStart` reads the clock before `_risk_lock` is asked for, as the code
does; the lock (`riskLock`) covers load, compute and commit only.
`Recomputed` and `WithAuthority` are the two rows the two transactions write,
and `Flush` is what SQLAlchemy does with them: only columns that differ from
the loaded row are written. A transaction that writes waits for `rowLock`, the
row lock a reservation holds; one with nothing to write does not. An audit ends
`"ok"`, `"inconsistent"` or `"unavailable"` (`ReadFaults`), and the last two
fail closed. `cache` is `_AUTHORITY_CACHE` without its ten-second expiry: any
verdict of the same day may be reused.

`StartCheck` and `StartWrite` are the two transactions of `start_bot`; a breaker
that cannot be read counts as off there (`bot_controls.py:226`), so a start may
pass it. `StopBot` is an operator's `stop_bot`. Start calls are bounded by `MaxStarts`.

The row is created once and survives restarts, so initially the day's equity is
known or not, and no breaker is on.

### ExecutionReservation

A caller `c` walks `idle -Validate-> validated -CheckDuplicate-> unique
-LockState-> locked -ReadCooldown-> cooled -ReadOpenRows-> admitting -Commit->
idle`; every early `return` of the code is the other branch of an action and
releases the lock. `Validate` is `validate_trade` on the state the caller has
refreshed; time passes between it and the reservation. Under READ COMMITTED
each query sees what is committed when it runs; `RowLocks = FALSE` is a
database that ignores `FOR UPDATE`, as SQLite does: two reservations of one
symbol may then both commit, so the runs and the theorems take `RowLocks`. `held` is a history variable: the admitted
keys whose row has been blocking ever since.

`ImplementsAdmission` maps `held`, the keys that have a row and the breaker to
the abstract `Admission`, where a key is admitted in one step.

### TradeLifecycle

One symbol and direction; a position carries the key of the order that opened
it. `row[t]` is the journal row of trade `t` and `mem[t]` its copy in
`_active_trades`, each a status and the two pieces of `exchange_metadata`
reconciliation reads back: how old `close_pending_since` is (`since`) and
whether the exchange identity was recorded (`identified`). `"estimated"` is a
closed row with `close_pnl_is_estimate`. Four kinds of process work on them:

* `execute_signal`, by signal, through `exec[k].pc`:
  `reserved -PlaceOrder-> placed | asking`, `asking -LookUpOrder-> placed | done`,
  `placed -ConfirmFill-> confirmed | hardClosing`, `confirmed -PersistFill->
  protected | closing -Activate-> managing -FinishSetup-> done | hardClosing`,
  and `closing -EmergencyClose-> recording -RecordEmergency-> done`. Writes
  through `_safe_update_trade_entry` may be lost (`WriteFaults`).
* One reconciliation cycle at a time (`recon`): `ReconcileStart` reads the
  candidates, `FetchOrders` and `FetchPositions` the exchange, `MatchPosition`
  and `SettleUnmatched` write what was read back over the rows, `PublishTrades`
  replaces the in-memory list.
* The operator's close (`operator`), with its stale copy of the trade in
  `entry`.
* The exchange: an accepted order fills or dies, a position is closed.

`Crash` ends every call under way; `mem` is loaded again from the journal's
exchange-active rows, as `on_startup` does. Time is only the retry window:
`WindowPasses` lets an hour go by while nothing is under way, which no call
lasts. Two assumptions about the exchange are the code's own: an order look-up
that finds nothing is right, and a market order is not still open after an
hour. Writes of the reconciler and of the operator's request succeed; a failed
one ends their call with an exception and is as if the call stopped there.

`LegacyReconciliation` adds `legacy`, a cycle of `reconciliation.py` in the
same steps but without the lock, from the in-memory list only, writing statuses
only.

### EntryControl

The row `bot_runtime_config` (`bot`), the blocks kept elsewhere (`block`), the
scan that holds `_scanner_running`, the one-place queue, and three callers: the
trading loop, `/bot/start` and `/execute`. A caller walks `gate -> gated ->
next -> check -> checked -> quote -> approved` and back for each signal of its
batch; `can_execute` is two reads (`ReadsRow`, `ReadsBlocks`), and an unreadable
breaker reads as off. `/bot/start` is three transactions and then scans on its
own, outside the scanner's flag. Time is kept as ages: `Tick` lets a unit pass
for every signal and approval in flight. `entered` is a history variable,
orders since the row last closed. The signature and the field comparisons of an
approval never fail, because the token does not leave the call that issued it;
its expiry is `ttl`, and consuming it ends the signal.

### EntrySizing

`attempt[c]` walks `preflight (automatic calls) -> gate -> start -> read ->
quoted -> sized -> reserved -> filled -> protected -> costed`; any step may
fail. `Size` is `calculate_position_size`; `FillFits` and `CostsFit` are the two
checks on the real fill; the position ends `"kept"`, `"degraded"` (its profile
is not verified, but stop and target are) or is closed at once, which may fail
and leave it `"unsafe"`. All arithmetic is exact: money in units of 1/10000, so
that basis points stay whole, margin in 1/20, the reciprocal of the highest
leverage. The price moves within `Drifts` between any two steps, and what the
market charges may differ from what was assumed. A fill may be partial, down to
one step, and has a positive price. `seen` is the margin the
caller read from the exchange; several may read before any of them orders, and
neither the reservation nor the checks on the fill look at margin again.

### TakeProfit

One long trade; prices are measured from the entry, quantities in lots. `trade`
is the management record in memory and journal, which are written together.
The entry, the monitor (`watch`, with the profit-lock and intraday guards) and
`manage_open_trades` (`manager`) each copy the record, talk to the exchange and
write the whole copy back, so every update can be lost. `MergePosition` is what
reconciliation does to the record; `Restart` starts the threads afresh from the
journal. `Placed` is what a native order may meet: accepted, refused, or
accepted with the answer lost; whoever placed it then cancels the orders it
knows of, and the entry closes the position besides. A scenario bounds the
failed calls, cancelled orders and restarts.

### CloseEvidence

`book` is the fills of one symbol, `logged` and `priced` how much of it the
transaction log and the closed P&L show. `row[t]` is the journal row of an
earlier trade that is over and of the open one, `mem` the open trade's entry in
the list of active trades. Each pass reads its copy and its ledger first and
writes afterwards. Reconciliation goes `rest -ReconcileReads-> match
-ReconcileSees-> settle -ReconcileSettles-> publish -ReconcilePublishes->
settled` under its lock. It lists the entry before the rows and
`_dedupe_candidates` keeps the later of two equal times, so its candidate is
the row while that is unresolved and the list's entry otherwise (`Candidate`).
The partial-close sync works from the list alone and writes to the row whatever
has become of it; `late` is a history variable, TRUE once it has written over a
closed row. Repair and backfill work from the rows. `Closes` may close one lot
(a target) or all, with an order whose id the row knows or does not know.
`WindowPasses` ends the retry window, after which reconciliation estimates.

Assumed: the re-entry cooldown outlasts the ledgers' lag, one cycle of the
worker and the passes in flight, so that no third trade of the symbol opens
while the figures of the first are still moving; and the BDT day the close is
looked up under is fixed for the behaviour, either before or after the entry.
Failing reads of journal and positions, which end a reconciliation, are in
`TradeLifecycle`.

### Supervision

One position (`flat`, `bare` or `safe`), the list of active trades (`listed`),
the watchdog's row (`config`, `cycles`) and its block in memory (`guard`). The
worker and an operator reconcile and run watchdog cycles that read the
position, judge it against a counter read before, and write block and counter
one after the other. The operator's reconciler takes no lock and knows only the
trades listed when it began: `OperatorReads` keeps that list (`had`),
`OperatorFetches` reads the position, `OperatorRechecks` asks once more for a
listed trade without one, and `OperatorPublishes` puts the list back without
what is missing. It never adds a trade, and what another reconciliation added
meanwhile is lost. The WebSocket sets `event` on an update and the supervisor
waits for it, clears it, sleeps and reconciles. `SupervisorDies` is a failing
`get_execution_mode` outside the `try`.

## Runs

| Run | Checks | Result |
|---|---|---|
| `RiskState` | `TypeOK`, `BreakerSticky`, `LimitSeenMeansBreakerOn` | holds |
| `HardStop` | `NoAdmissionUnderHardStop`, `BreakerStopsBot` | holds |
| `Reservation` | `ReservationTypeOK`, `CapacityHeld`, `ImplementsAdmission` | holds |
| `Lifecycle` | `TypeOK`, `ExposureIsReserved`, `OneExposure` | holds |
| `LifecycleLive` | `ExposureIsReserved`, `PositionIsManaged`, `TradesSettle` | holds |
| `LegacyPending` | `ExposureStaysReserved` | violated |
| `EntryControl` | `TypeOK`, `OneLateEntry`, `FreshEntries`, `ScannerRecovers` | holds |
| `EntrySizing` | `TypeOK`, `KeptWithinRisk`, `ExposureWithinCap`, `SizingIsExact` | holds |
| `TakeProfit` | `TypeOK`, `RecordedProtectionIsReal`, `StagesAreReal`, `NativeOwnsTargets`, `RestIsProtected`, `ProfitIsLocked` | holds |
| `TakeProfitTick` | `StagesFollowOrders` | violated |
| `CloseEvidence` | `TypeOK`, `EvidenceIsOwn`, `CloseIsWhole`, `PartialsSettle`, `ClosesSettle` | holds |
| `Supervision` | `TypeOK`, `ChangeIsRequested`, `NakedPositionBlocks`, `SettledUnblocks` | holds |

Bounds and why they are enough. Two refreshers are the least that overlap, and
the effects are pairwise (one transaction against another). Two clock points on
either side of midnight contain every way a refresh can straddle a day. One
journal key with outcomes -1, 0, 1 and a limit of one unit lets the limit be
hit by a close, missed by an earlier read, and offset by nothing. For the
reservation, two concurrent callers, four signals on three symbols and two
slots give both a race for one symbol and a race for the last slot, a recovered
position takes a slot nobody reserved, and one terminal row may be reopened.
`RiskPool = 3` there keeps the risk row's `available` column small; in the code
the pool is 25 trade risks against at most five trades, so that gate never
decides. `SyncLag = 0` because the lag of a close only moves it between days,
which the clock does already.

`Lifecycle` has two signals of one symbol, so that a new entry meets the remains
of the old one, and one close request; the constraint `OneAlone` of
`MCTradeLifecycle` follows the request with one of the two signals only, because
both together take more than minutes. `LifecycleLive` adds the restart and the
lost journal writes, to one signal without a close request. The safety
properties are theorems for every number of signals, restarts and requests, in
every combination; the liveness properties are checked in this one. A close request
beside the restart takes minutes: without lost writes, one signal, one request
and one restart have 571,634 states, in which `TradesSettle` holds; the run
keeps `MaxCloses = 0`.

`EntryControl`: an age limit of one tick, approvals of two and two signals to a
batch let a signal go stale in the scan, in the queue, behind another and under
approval. Each way to an order runs beside the scanner and the controls on its
own; the callers share only the row, and the theorems take all three at once.
`EntrySizing`: two callers, two symbols and two attempts, with a wide stop off
the price grid whose least quantity passes the budget within the tolerance, a
stop too tight for the automatic call's fee preflight, one on
the wrong side, contracts whose minimum quantity and minimum notional both bite,
other positions that leave all of the cap, a tenth of it and almost nothing,
fees below and far above the estimate, and drifts that hurt and help.
`TakeProfit`: eight lots give TP1 half and TP2 a quarter, as the code does; two
prices, between break-even and 1R and beyond both targets, give with gaps every
order of the 1R, TP1 and TP2 events, and the stop is below both. One failed
call, cancelled order or restart with the orders of a scalping trade installed;
none in the other two scenarios, the intraday trade and the trade still being
set up, whose races need no fault. `CloseEvidence`: two lots allow one partial
close; two actors, one fill of lag. `Supervision`: tolerance two, the least at
which a counter counts, and two faults, the least that can undo each other's
cure; the socket and the operator each beside the loop, never both: the three
together have 1,102,998 states without any fault, in which the properties hold,
and too many with faults.

`CHECK_DEADLOCK FALSE` is given where clock, keys, calls or attempts are
bounded, or a trade is followed to its end, so that a behaviour may come to
rest; `EntryControl` and `Supervision` never do, and TLC checks it.

Every property of a passing run has a mutant in the modules, a plausible slip
in the mapped code (`RecomputedForgetful`, `SlotsOverfull`, ...), under which
TLC finds it violated.

### What the violated properties show

`LegacyPending`. The reconciler behind `POST /watchdog/run-now` writes
`"pending"` over the row of an open order. No other code knows that status: it
does not block the symbol and no cycle reconciles it. If the execution has
ended (its emergency close failed), nothing corrects the row.

`TakeProfitTick`. `enforce_intraday_protection` compares quantities with the
price tick (`tolerance = max(tick_size, ...)`, `intraday_protection_guard.py:89`)
where the monitor takes the quantity step (`native_profit_orders.py:186`). The
run has eight lots and a tick of a hundred, as a price tick of 0.1 and a
quantity step of 0.001 give: the first guard cycle records TP1 and TP2 of the
untouched position as done, with both native orders live, and moves or trails
the stop accordingly. With a tick of 0 the same property holds in the whole
state space of `TakeProfit`.

### Known departures

The models contain the following, each seen in a behaviour of its model. They
are not kept as runs, because a property would only say that the code does not
do what it plainly does; each is a hazard in `PROJECT.json`, and some shape the
statement of a property that holds.

* A refresh captures the day, waits for `_risk_lock` over midnight, and after
  another refresh has moved the row to the new day and tripped its breaker,
  resets the row to yesterday with the hard stop cleared (`risk.py:353`).
  `BreakerSticky` is therefore about one day.
* A verdict computed before midnight is applied to a row already on the next
  day: the new day starts with a hard stop (`batch1_execution_safety.py:303`).
* Cooldown and open rows are two queries; a trade that closes between them is in
  neither answer (`execution_reservation.py:117`).
* Candidates are read before positions, so an entry reserved and filled in
  between gets a recovered row beside its own (`authoritative_reconciliation.py:42`).
  `TradesSettle` shows that both settle.
* `close_pending_since` outlives the cycle that finds the position again and
  dates the next close, which is then estimated without one retry
  (`authoritative_reconciliation.py:182`).
* The partial-close sync copies a listed trade, asks the exchange, and writes
  its figures over the row (`risk_sync.py:97`). If another pass closed the row
  meanwhile, the closed row is left with the partial figures, without keys and
  without the estimate flag; it is not incomplete, so the repair passes it by
  (`close_fill_sync.py:80`), and the backfill adds the whole close as a second
  row; only a trade that is still listed is reconciled again. `ClosesSettle` promises the whole
  figures of every other close; for one written over late (`late`) it says only
  that it is closed.
* The backfill closes a row whose trade is still listed; the next
  reconciliation finds the list's entry, not the row, as its candidate and puts
  the row back to pending until it settles again
  (`authoritative_reconciliation.py:42`).
* The operator's reconciler publishes the list it read when it began: an open
  position that was listed meanwhile is taken off again until the next locked
  reconciliation (`reconciliation.py:175`). Requests that overlap the loop
  for ever make list and block alternate, hence the premise of
  `SettledUnblocks`.
* A native order whose answer was lost is not cancelled with the other
  (`native_profit_orders.py:84`). If the monitor was adopting the trade, it
  stays at the exchange unknown to the application, beside the mark-price exits.
* A row closed by reconciliation has no record keys, and after TP1 its quantity
  differs, so the backfill may insert the same close as a second row
  (`exchange_journal_backfill.py:334`; its docstring calls it idempotent).
* Entries under way together each fit the exposure cap and together pass it;
  the reservation does not look at margin. `ExposureWithinCap` bounds the excess
  by the entries that overlap.
* A degraded position is kept without a second look at its reward
  (`risk_execution.py:123`), hence the two halves of `KeptWithinRisk`.
* `MergePosition` publishes the exchange's stop as the trade's `stop_loss`
  (`reconciliation_helpers.py:158`). Once it is at break-even without fees the
  trade has no risk left, and intraday trailing is refused from then on.
* One cancelled native order degrades the trade to mark-price exits while the
  other is live (`trade_management_rules.py:67`), which is why
  `NativeOwnsTargets` is about trades that have lost no order. A TP2 that fills
  after TP1 was cancelled marks TP1 as done (`native_profit_reconcile.py:240`):
  `StagesAreReal` allows what the tolerance infers.
* The monitor may adopt a trade whose entry is still installing the same
  orders; the entry's are then refused and it closes a healthy trade
  (`execution.py:195`).
* Two error paths end a loop for good: a failed read of the execution mode
  (`bybit_websocket.py:260`, `144`) and three failed ticker fetches
  (`background_worker.py:160`). `ChangeIsRequested` and `ScannerRecovers` name
  them as premises; the worker's own cycles make up for the first.
* `/bot/start` clears an emergency stop pressed after it began, and
  `POST /execute` does not look at the age of its signal.

### Fairness

`BreakerStopsBot` needs that a refresher which began goes on, and begins again:
`auto_trading_loop` refreshes in every cycle whether or not the bot is running
(`app/background_worker.py:284` precedes the `can_execute` check), and its
thread is scheduled. It needs that `start_bot` returns and that a reservation
returns, since both are straight-line code. All are weak fairness. Nothing is
assumed of the operator, of trades closing, or of the journal being readable.

`FairSpec` of `TradeLifecycle`: executions, cycles and close requests under way
go on and the trading loop starts cycles again (weak fairness); an accepted
order fills or dies; `FetchOrders` and `FetchPositions` are strongly fair, since
a fetch may fail any number of times but not for ever; and time passes
(`WindowPasses`, strongly fair because cycles interrupt the hour). A position
is never assumed to close, nor an exact close to be found.

`EntryControl`: the scanner loop turns, scans end one way or the other (every
call of the exchange client has a timeout), the trading loop goes on; all weak.
`TakeProfit`: entry, monitor and manager each go on (weak); nothing of the
market. `RestIsProtected` and `ProfitIsLocked` say as premises that the price
settles and, `WritersSeparate`, that the two loops do not collide for ever:
with periods of two and of several seconds they meet, but not every time, and
if they did each could lose the other's retry. `CloseEvidence` and
`Supervision`: the loop, the supervisors and a request under way go on, ledgers
show every fill in the end and the window passes (weak); taking the
reconciliation lock is strongly fair for the worker, since the supervisor
sleeps between two of its own passes and a lock that is free again and again is
taken. Nobody has to trade, call or connect. For a protected position
`SettledUnblocks` says as premise that the operator's requests do not overlap
locked reconciliations for ever: `/watchdog/run-now` is pressed by hand, and each
press undoes at most one addition.

## Proofs

The theorems about the risk state and the reservation hold for every set of
refreshers, callers, signals and symbols, every clock bound, day map, risk pool
and active limit allowed by the assumptions `KeyAssumption`, `ClockAssumption`, `RiskAssumption` and
`ReservationAssumption`. The finiteness of the key set is needed because
journals are counted.

* `TypeCorrect`, `ReservationTypeCorrect`: one lemma per action.
* `BreakerIsSticky` and `LimitSeenIsEnforced` rest on `HardStopInv`: while a
  refresher is inside its first transaction it holds `riskLock`, and a breaker
  it loaded as on is still on in the row. That is what makes the column-wise
  flush harmless: the only writer that clears the breaker is the holder of the
  mutex, and every other writer only sets it. `BreakerSticky` alone is not
  inductive, because a flush compares with a row loaded several steps earlier.
* `CapacityIsHeld`, `ReservationRefinesAdmission` and `HardStopAdmitsNothing`
  assume `RowLocks` and rest on `AdmissionInv`: at most one caller is past
  `LockState` and it is the holder of `rowLock`; every admitted key still has a
  blocking row; a caller about to commit has seen no open row on its symbol and
  a free slot, and only reservations add admitted keys. The row's breaker
  equals what that caller read, since a flush that changes it waits for the
  lock.

* `RiskIsKept` (`EntrySizing`) rests on `EntryInv`: callers whose order is out
  have reserved different symbols (`OwnSymbol`), so the position a caller checks
  is its own, and what `CostsFit` found stays true until the profile is
  installed (`Checked`). The profile moves the target only, which the loss at
  the stop does not depend on; that is why the check need not be repeated for a
  degraded position's risk. `SizingAssumption` is used only for the symbols of
  signals: the argument needs no bound on prices, drifts or fees.
* `SizingStaysExact` (`EntrySizing`): a caller that has its quote has an integer
  price with valid geometry (`Quoted`), so a unit loses at least one at its stop
  (`UnitLosesAtStop`); loss and reward are linear in the quantity
  (`LinearInQuantity`), and the code's quotient rounded down is the largest
  multiple within the budget (`FlooredIsLargest`). `SizeIsExact` compares it with
  every quantity the exchange accepts. The proof corrected the property, which
  said that nothing is admitted where no quantity fits the budget: a minimum
  quantity whose loss is above it by at most the thousandth of
  `position_sizing.py:197` is. The property now says that this quantity is the
  least the exchange accepts, and the instance has such a contract. The code tests
  that prices are positive, and a contract's least quantity is a multiple of its
  step (`SizingAssumption`), else rounding it would go below it.
* `SizingTypesHold` (`EntrySizing`) rests on `Typed`: the types, and that a
  caller with a quantity has at least one step of it, which fits the cap above
  what the caller saw. Margins are products of a positive quantity and price,
  and a sum of naturals over a finite set is a natural.
* `ExposureStaysWithinCap` (`EntrySizing`). The property is not inductive: it
  does not say which entries overlap, and the state does not record it.
  `Accounted` says that some history (`Told`) explains the state: an order of
  the reads, for each open position the read of the caller that opened it, and
  for each read the positions it missed because they were filled later. What a
  caller saw covers all it did not miss (`ReadersFit`), each open position fitted
  the cap above what its opener knew (`OpenFit`), and what a caller missed or
  may still miss is fewer than the callers. A read gets the next rank and misses
  nothing; a fill adds its position to what the readers after it missed, and one
  caller fewer is waiting; a close only takes margin away. The position with
  the last read then knew all but the ones it missed, and these are `together`
  (`CapFromAccount`). The history is existentially quantified in the invariant
  instead of being a variable of the model, so TLC runs the property and not
  `Accounted` itself. Both theorems need lemmas about sums (`SumIs` to
  `SumAtMost`), proved from the definition of the community module's fold by a
  smallest counterexample where one would use induction. `SizingAssumption`
  says that callers and symbols are finite, as worker, HTTP handlers and listed
  contracts are, and that there is a caller and a signal.

* `EntryTypeCorrect`, `OneLateEntryHolds` and `EntriesAreFresh`
  (`EntryControl`): the invariant `Late` says that no entry was counted while
  the row is open, and that a caller which has entered since it closed is not
  past the row check of another signal; `Fresh` that the age of an approved
  signal and the rest of its approval's life never add up to more than the two
  limits. `OneLateEntry` alone is not inductive: it does not exclude a second
  caller-local signal that has already passed.

* `WakeUpsKept`, `LockedTakeTurns` (`Supervision`): `ChangeIsRequested` is
  inductive once the set of actors is known to stay the same (`WakeInv`). It
  rests on the order of the supervisor's steps: the event is cleared before the
  fetch, so a change either finds the supervisor about to look or sets the event
  again, and a channel that comes up asks once for what it did not see.
  `LockInv` adds the types; that two cycles never overlap needs the guard of the
  lock in every action that enters one.
* `LifecycleTypeCorrect`, `ExposureStaysReserved`, `OneExposureHolds`
  (`TradeLifecycle`) rest on `ExposureInv`. What must never happen is that the
  last blocking row of a live order or position is settled, and no actor sees
  the exchange and the row at the same time. So the invariant speaks of what
  each one has read: a cycle that holds a candidate read its orders and its
  positions before the position could disappear (`FetchedBefore`), spares every
  row whose exposure it found (`CycleSpares`), an operator who was told the
  position is flat was told so when it was (`FlatBefore`), copies in memory go
  back to a row (`CopiesTraced`), and an execution that has not ended keeps its
  own row blocking (`EnteringBlocks`). The assumption added to the module is that the key
  of a recovered row is no execution key, as the code's `recovered-` prefix makes it.
* `EvidenceTypeCorrect`, `EvidenceStaysOwn`, `ClosesAreWhole` (`CloseEvidence`)
  rest on `EvidenceInv`: the fills come in whole trades one after the other, the
  lots closed never exceed the lots entered, every record a row, the list's entry
  or a copy in flight counts is a closing fill of its own trade, and a backfilled row is all
  of one. A pass counts the fills between two places of a ledger that others
  move, so the proof is about sets of fills: lots are counted with `Cardinality`
  and the lemmas `Share...` say what union, subset and append do to them.
* `TakeProfitTypeCorrect`, `ProtectionIsReal`, `StagesStayNearlyReal`,
  `StagesStayReal`, `TargetsAreOwned` (`TakeProfit`) rest on `ProfitInv`. The record
  is overwritten by copies of any age, so nothing can be said of it that is not
  said of every copy: `CopyTrue` holds of the record, the monitor's copy and the
  manager's. It stays true of an old copy because the exchange only moves one
  way (`Moved`): the size never grows, fills and cancellations are final, and no
  writer asks for a scalping stop below break-even (`StopHolds`) once decided.
  No bound on failed calls or restarts is used. Quantities are compared with the
  quantity step or the price tick, hence `Slack`, the larger of them;
  `StagesStayReal` needs `Tick <= Step`, and `TakeProfitTick` shows why.
  `TakeProfitAssumption` says that there is a price, for the initial state.

Only model-checked: `BreakerStopsBot`, `ScannerRecovers`, `PositionIsManaged`, `TradesSettle`,
`RestIsProtected`, `ProfitIsLocked`, `PartialsSettle`, `ClosesSettle`,
`NakedPositionBlocks` and `SettledUnblocks` (liveness, out of the prover's
reach); the violated properties.

## Not modelled

* The strategies (`strategy.py`, `scanner_logic.py`, `signal_pipeline.py`, the
  engines' rules) are numeric functions of candles without state between calls;
  to the models a signal is given. Back test, front end, reporting,
  authentication and metrics change nothing the models hold.
* The REST client is I/O: its failures and lost answers are the modules'
  nondeterminism.
* Of the close evidence, the repair behind `GET /portfolio`
  (`main.py:696`), `ledger_audit.py` and `order_identity_autopersist.py`; failing
  queries of sync and backfill, which end the pass without a write; a crash in
  the middle of a worker iteration.
* Symbol cooldowns kept in the risk row, trade counts and audit evidence are
  columns no modelled decision reads. `incident_dedupe.py` and the readiness
  reports describe, and decide nothing.
* Short trades in `TakeProfit`, which mirror the long ones; more than one trade
  of a symbol at once, which `OneExposure` excludes.

## Open ends

Eight hazards have no property. Six of them are among the departures named above,
where a property would only restate that it fails. The overwritten
`available_risk` is in the model, but with the constants of `risk.py` it never
decides an admission. The close request over a row settled meanwhile is in
`Lifecycle`, where it breaks nothing because its statuses block like every other;
that it settles again was checked outside the runs (see the bounds).
`PROJECT.json` names each at its line.

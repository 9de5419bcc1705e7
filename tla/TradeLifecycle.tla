--------------------------- MODULE TradeLifecycle ---------------------------
(***************************************************************************)
(* One symbol from the reservation of an entry to the settled journal row: *)
(* execute_signal (execution_service.py inside risk_execution.py), the     *)
(* reconciliation loops, an operator's close request, the exchange, and a  *)
(* restart of the process.  One action per journal write or exchange call. *)
(*                                                                         *)
(* A position has the key of the order that opened it.  Recovered(k) is    *)
(* the key reconciliation derives for position k when it matches no row.   *)
(***************************************************************************)
EXTENDS Naturals

CONSTANTS
    Signals,       \* execution keys of one symbol and direction
    None,          \* no position, no trade
    WriteFaults,   \* may a best-effort journal write fail
    MaxCrashes,    \* bound on restarts
    MaxCloses      \* bound on operator close requests

Recovered(k) == <<"recovered", k>>

\* Reconciliation's journal ids are not execution keys.
ASSUME LifecycleAssumption ==
    /\ None \notin Signals
    /\ \A j, k \in Signals : Recovered(j) # k
    /\ WriteFaults \in BOOLEAN
    /\ MaxCrashes \in Nat
    /\ MaxCloses \in Nat

VARIABLES
    row,       \* journal row of each trade
    mem,       \* the in-memory list _active_trades
    exec,      \* progress of execute_signal, by signal
    recon,     \* progress of reconcile_exchange_and_local_state
    operator,  \* progress of request_market_close
    order,     \* the entry order of each signal, at the exchange
    position,  \* the open position, or None
    absence,   \* how long a position that existed has been closed
    crashes, closes

vars == <<row, mem, exec, recon, operator, order, position, absence,
          crashes, closes>>

exchange == <<order, position, absence>>
bounds   == <<crashes, closes>>

Trades       == Signals \cup {Recovered(k) : k \in Signals}
PositionOf(t) == CHOOSE k \in Signals : t \in {k, Recovered(k)}

\* trade_state.py CAPACITY_BLOCKING_STATUSES (= RECONCILABLE_STATUSES).
BlockingStatus ==
    {"pending_execution", "order_submitted", "fill_confirmation_pending",
     "order_filled", "active", "close_requested", "close_uncertain",
     "execution_uncertain", "emergency_close_failed",
     "reconciliation_pending", "close_pending_sync"}

\* EXCHANGE_ACTIVE_STATUSES; "active" stands for partial_fill too.
ActiveStatus == {"active", "close_requested", "close_uncertain"}

\* "estimated" is status closed with close_pnl_is_estimate set.
Settled == {"execution_failed", "closed", "estimated"}

Status == {"absent", "pending"} \cup BlockingStatus \cup Settled

\* close_pending_since: unset, or how far back it lies: less or more than
\* reconciliation_retry_window_seconds.
Age == {"none", "recent", "expired"}

\* A row or an in-memory trade: status, and of exchange_metadata what
\* reconciliation reads back (close_pending_since, exchange_identity).
Entry == [status : Status, since : Age, identified : BOOLEAN]

Fresh(s) == [status |-> s, since |-> "none", identified |-> FALSE]
Absent   == Fresh("absent")
Known(e) == e.status # "absent"

Older(a) == IF a = "recent" THEN "expired" ELSE a

-----------------------------------------------------------------------------
(* Journal and in-memory list.                                             *)

Write(t, e) == row' = [row EXCEPT ![t] = e]

\* _safe_update_trade_entry whose result is not looked at.
WriteBestEffort(t, e) == Write(t, e) \/ (WriteFaults /\ UNCHANGED row)

\* _add_active_trade_once
AddOnce(t, e) == mem' = IF Known(mem[t]) THEN mem ELSE [mem EXCEPT ![t] = e]

\* update_active_trade
Update(t, e) == mem' = IF Known(mem[t]) THEN [mem EXCEPT ![t] = e] ELSE mem

Forget(t) == mem' = [mem EXCEPT ![t] = Absent]

Reconcilable(t) == row[t].status \in BlockingStatus

\* get_active_trades and get_open_trade_history, deduplicated: of two copies
\* with one timestamp the journal's wins.
Candidate(t) == IF Reconcilable(t) THEN row[t] ELSE mem[t]

ReconIdle == [pc   |-> "idle",
              seen |-> [t \in Trades |-> Absent],
              keep |-> [t \in Trades |-> Absent],
              todo |-> {},
              orders |-> {},
              position |-> None]

ReconState == [pc : {"idle", "started", "ordered", "positioned", "settling"},
               seen : [Trades -> Entry],       \* candidates still as read
               keep : [Trades -> Entry],       \* trades to publish
               todo : SUBSET Trades,           \* candidates without a position
               orders : SUBSET Signals,        \* open orders, as fetched
               position : Signals \cup {None}] \* the position, as fetched

OperatorIdle == [pc |-> "idle", trade |-> None, entry |-> Absent]

ExecPc == {"idle", "reserved", "asking", "placed", "confirmed", "protected",
           "managing", "closing", "hardClosing", "recording",
           "hardRecording", "done"}

TypeOK ==
    /\ row \in [Trades -> Entry]
    /\ mem \in [Trades -> Entry]
    /\ exec \in [Signals -> [pc : ExecPc, status : Status]]
    /\ recon \in ReconState
    /\ operator \in [pc : {"idle", "found", "flat", "open", "reserved",
                           "accepted", "rejected", "uncertain"},
                     trade : Trades \cup {None}, entry : Entry]
    /\ order \in [Signals -> {"none", "accepted", "filled", "dead"}]
    /\ position \in Signals \cup {None}
    /\ absence \in [Signals -> Age]
    /\ crashes \in 0..MaxCrashes
    /\ closes \in 0..MaxCloses

Init ==
    /\ row = [t \in Trades |-> Absent]
    /\ mem = [t \in Trades |-> Absent]
    /\ exec = [k \in Signals |-> [pc |-> "idle", status |-> "absent"]]
    /\ recon = ReconIdle
    /\ operator = OperatorIdle
    /\ order = [k \in Signals |-> "none"]
    /\ position = None
    /\ absence = [k \in Signals |-> "none"]
    /\ crashes = 0
    /\ closes = 0

-----------------------------------------------------------------------------
(* The exchange.                                                           *)

ClosePosition ==
    /\ position' = None
    /\ absence' = IF position = None THEN absence
                  ELSE [absence EXCEPT ![position] = "recent"]
    /\ UNCHANGED order

\* A fill opens the position, or adds to one that is open.
OrderFills(k) ==
    /\ order[k] = "accepted"
    /\ order' = [order EXCEPT ![k] = "filled"]
    /\ position' = IF position = None THEN k ELSE position
    /\ UNCHANGED <<row, mem, exec, recon, operator, absence, bounds>>

OrderDies(k) ==
    /\ order[k] = "accepted"
    /\ order' = [order EXCEPT ![k] = "dead"]
    /\ UNCHANGED <<row, mem, exec, recon, operator, position, absence, bounds>>

\* Stop loss, take profit, liquidation, or a close made on the exchange.
PositionCloses ==
    /\ position # None
    /\ ClosePosition
    /\ UNCHANGED <<row, mem, exec, recon, operator, bounds>>

\* Nothing is under way for a whole retry window: an hour is longer than any
\* execution, reconciliation or close request, and than a market order lives.
WindowPasses ==
    /\ \A k \in Signals : order[k] # "accepted" /\ exec[k].pc \in {"idle", "done"}
    /\ recon.pc = "idle"
    /\ operator.pc = "idle"
    /\ row' = [t \in Trades |-> [row[t] EXCEPT !.since = Older(@)]]
    /\ mem' = [t \in Trades |-> [mem[t] EXCEPT !.since = Older(@)]]
    /\ absence' = [k \in Signals |-> Older(absence[k])]
    /\ <<row, mem, absence>>' # <<row, mem, absence>>
    /\ UNCHANGED <<exec, recon, operator, order, position, bounds>>

-----------------------------------------------------------------------------
(* execute_signal, from the reservation on.                                *)

Goto(k, pc) == exec' = [exec EXCEPT ![k].pc = pc]

\* reserve_execution_capacity admits one trade per symbol (ExecutionReservation).
Reserve(k) ==
    /\ exec[k].pc = "idle"
    /\ ~Known(row[k])
    /\ \A t \in Trades : ~Reconcilable(t)
    /\ Write(k, Fresh("pending_execution"))
    /\ Goto(k, "reserved")
    /\ UNCHANGED <<mem, recon, operator, exchange, bounds>>

\* Mutant of FailBeforeOrder: a status trade_state.py does not know.
FailBeforeOrderAsFailed(k) ==
    /\ WriteBestEffort(k, Fresh("failed"))
    /\ Goto(k, "done")
    /\ UNCHANGED mem

FailBeforeOrder(k) ==
    /\ WriteBestEffort(k, Fresh("execution_failed"))
    /\ Goto(k, "done")
    /\ UNCHANGED mem

ConfigureLeverageFails(k) ==
    /\ exec[k].pc = "reserved"
    /\ FailBeforeOrder(k)
    /\ UNCHANGED <<recon, operator, exchange, bounds>>

\* order_identity_autopersist: the accepted order's identity goes to the row,
\* the rest of which is kept.
PersistOrderIdentity(k) ==
    WriteBestEffort(k, [row[k] EXCEPT !.status =
                           IF @ = "pending_execution" THEN "order_submitted"
                                                      ELSE @])

PlaceOrder(k) ==
    /\ exec[k].pc = "reserved"
    /\ order[k] = "none"
    /\ \/ /\ order' = [order EXCEPT ![k] = "accepted"]
          /\ PersistOrderIdentity(k)
          /\ Goto(k, "placed")
       \* ExchangeError: rejected, or accepted and the answer is lost
       \/ /\ \E s \in {"accepted", "dead"} : order' = [order EXCEPT ![k] = s]
          /\ Goto(k, "asking")
          /\ UNCHANGED row
    /\ UNCHANGED <<mem, recon, operator, position, absence, bounds>>

\* Mutant of LookUpOrder: a lookup that fails counts as "no such order".
LookUpTrusted(k) ==
    /\ exec[k].pc = "asking"
    /\ \/ order[k] # "dead" /\ Goto(k, "placed") /\ UNCHANGED <<row, mem>>
       \/ FailBeforeOrder(k)
    /\ UNCHANGED <<recon, operator, exchange, bounds>>

\* _recover_order_by_link_id and its three answers.
LookUpOrder(k) ==
    /\ exec[k].pc = "asking"
    /\ \/ order[k] # "dead" /\ Goto(k, "placed") /\ UNCHANGED <<row, mem>>
       \/ order[k] = "dead" /\ FailBeforeOrder(k)
       \/ /\ WriteBestEffort(k, Fresh("execution_uncertain"))
          /\ AddOnce(k, Fresh("execution_uncertain"))
          /\ Goto(k, "done")
    /\ UNCHANGED <<recon, operator, exchange, bounds>>

\* _confirm_fill believes the order, or any position of the symbol and side.
ConfirmFill(k) ==
    /\ exec[k].pc = "placed"
    /\ \/ /\ order[k] = "filled" \/ position # None
          /\ Goto(k, "confirmed")
          /\ UNCHANGED <<row, mem>>
       \/ /\ WriteBestEffort(k, Fresh("fill_confirmation_pending"))
          /\ AddOnce(k, Fresh("fill_confirmation_pending"))
          /\ Goto(k, "hardClosing")
    /\ UNCHANGED <<recon, operator, exchange, bounds>>

\* The fill is persisted and the stop attached and read back from the open
\* position; a lost write, an invalid protection geometry, an actual fill beyond
\* the risk budget and a failed attachment lead to the emergency close.
PersistFill(k) ==
    /\ exec[k].pc = "confirmed"
    /\ \/ /\ Write(k, Fresh("order_filled"))
          /\ \/ position # None /\ Goto(k, "protected")
             \/ Goto(k, "closing")
       \/ Goto(k, "closing") /\ UNCHANGED row
    /\ UNCHANGED <<mem, recon, operator, exchange, bounds>>

Activate(k) ==
    /\ exec[k].pc = "protected"
    /\ WriteBestEffort(k, Fresh("active"))
    /\ AddOnce(k, Fresh("active"))
    /\ Goto(k, "managing")
    /\ UNCHANGED <<recon, operator, exchange, bounds>>

\* risk_execution: the management profile and native orders are installed, or
\* the trade is kept active under its stop, or fill costs force a close.
FinishSetup(k) ==
    /\ exec[k].pc = "managing"
    /\ \/ /\ WriteBestEffort(k, Fresh("active"))
          /\ Update(k, Fresh("active"))
          /\ Goto(k, "done")
       \/ Goto(k, "hardClosing") /\ UNCHANGED <<row, mem>>
    /\ UNCHANGED <<recon, operator, exchange, bounds>>

\* _emergency_close: a reduce-only order, refused where there is no position;
\* an error may also be the lost answer of a close that happened.
EmergencyClose(k) ==
    /\ exec[k].pc \in {"closing", "hardClosing"}
    /\ \E s \in {"close_pending_sync", "emergency_close_failed"} :
          /\ s = "close_pending_sync" => position # None
          /\ \/ ClosePosition
             \/ s = "emergency_close_failed" /\ UNCHANGED exchange
          /\ exec' = [exec EXCEPT ![k] =
                        [pc     |-> IF @.pc = "closing" THEN "recording"
                                                        ELSE "hardRecording",
                         status |-> s]]
    /\ UNCHANGED <<row, mem, recon, operator, bounds>>

\* The rest of _emergency_close_pending_sync; _hard_safety_close also updates
\* a copy already in memory.
RecordEmergency(k) ==
    /\ exec[k].pc \in {"recording", "hardRecording"}
    /\ LET e == Fresh(exec[k].status)
       IN  /\ WriteBestEffort(k, e)
           /\ IF exec[k].pc = "recording" THEN AddOnce(k, e)
                                          ELSE mem' = [mem EXCEPT ![k] = e]
    /\ exec' = [exec EXCEPT ![k] = [pc |-> "done", status |-> "absent"]]
    /\ UNCHANGED <<recon, operator, exchange, bounds>>

Execute(k) ==
    \/ ConfigureLeverageFails(k) \/ PlaceOrder(k) \/ LookUpOrder(k)
    \/ ConfirmFill(k) \/ PersistFill(k) \/ Activate(k)
    \/ FinishSetup(k) \/ EmergencyClose(k) \/ RecordEmergency(k)

-----------------------------------------------------------------------------
(* Reconciliation: authoritative_reconciliation.py, one cycle at a time     *)
(* under _reconciliation_lock.                                             *)

ReconcileStart ==
    /\ recon.pc = "idle"
    /\ recon' = [recon EXCEPT
                   !.pc = "started",
                   !.seen = [t \in Trades |-> Candidate(t)]]
    /\ UNCHANGED <<row, mem, exec, operator, exchange, bounds>>

FetchOrders ==
    /\ recon.pc = "started"
    /\ recon' = [recon EXCEPT
                   !.pc = "ordered",
                   !.orders = {k \in Signals : order[k] = "accepted"}]
    /\ UNCHANGED <<row, mem, exec, operator, exchange, bounds>>

FetchPositions ==
    /\ recon.pc = "ordered"
    /\ recon' = [recon EXCEPT
                   !.pc = "positioned",
                   !.position = position,
                   !.todo = {t \in Trades : Known(recon.seen[t])}]
    /\ UNCHANGED <<row, mem, exec, operator, exchange, bounds>>

\* Orders or positions cannot be fetched: nothing changes.
FetchFails ==
    /\ recon.pc \in {"started", "ordered"}
    /\ recon' = ReconIdle
    /\ UNCHANGED <<row, mem, exec, operator, exchange, bounds>>

\* _match_candidate: by recorded exchange identity, else by symbol and side.
Matching(seen) ==
    LET known      == {t \in Trades : Known(seen[t])}
        identified == {t \in known : seen[t].identified}
    IN  IF identified # {} THEN identified ELSE known

\* Mutant of Merged: the status the journal holds is kept.
MergedUnpromoted(e) == [e EXCEPT !.identified = TRUE]

\* _merge_position
Merged(e) == [e EXCEPT !.status = IF @ \in {"close_requested", "close_uncertain"}
                                  THEN @ ELSE "active",
                       !.identified = TRUE]

\* An open position goes to a matching candidate, else to its recovered row,
\* created or, when it exists, taken as it is.
MatchPosition ==
    /\ recon.pc = "positioned"
    /\ LET seen  == recon.seen
           stray == Recovered(recon.position)
       IN  IF recon.position = None
           THEN recon' = [recon EXCEPT !.pc = "settling"] /\ UNCHANGED row
           ELSE \E t \in IF Matching(seen) # {} THEN Matching(seen) ELSE {stray} :
                   LET e == Merged(IF Known(seen[t]) THEN seen[t] ELSE row[t])
                   IN  /\ Write(t, e)
                       /\ recon' = [recon EXCEPT !.pc = "settling",
                                                 !.position = None,
                                                 !.seen[t] = Absent,
                                                 !.keep[t] = e,
                                                 !.todo = @ \ {t}]
    /\ UNCHANGED <<mem, exec, operator, exchange, bounds>>

\* fetch_exact_close_result can find the close of a position once it exists.
ExactCloseKnown(t) == absence[PositionOf(t)] # "none"

\* An exact close: close_trade when the trade is in memory, otherwise
\* _persist_exact_close.
CloseExactly(t, e) ==
    /\ Write(t, [e EXCEPT !.status = "closed"])
    /\ Forget(t)

\* Mutant of SettleUnmatched: the retry window starts again with every cycle.
SettleUnmatchedRestarting(t) ==
    /\ recon.pc = "settling"
    /\ t \in recon.todo
    /\ LET e == recon.seen[t]
       IN  \/ recon.orders = {} /\ ExactCloseKnown(t) /\ CloseExactly(t, e)
          \/ /\ Write(t, [e EXCEPT !.status = "close_pending_sync",
                                    !.since = "recent"])
             /\ UNCHANGED mem
    /\ recon' = [recon EXCEPT !.todo = @ \ {t}, !.seen[t] = Absent]
    /\ UNCHANGED <<exec, operator, exchange, bounds>>

\* One candidate without a position.
SettleUnmatched(t) ==
    /\ recon.pc = "settling"
    /\ t \in recon.todo
    /\ LET e     == recon.seen[t]
           since == IF e.since = "none" THEN "recent" ELSE e.since
           stale == [e EXCEPT !.status = "close_pending_sync", !.since = since]
       IN  IF recon.orders # {}
           THEN /\ Write(t, [e EXCEPT !.status = "reconciliation_pending"])
                /\ UNCHANGED mem
           ELSE \/ ExactCloseKnown(t) /\ CloseExactly(t, e)
                \/ /\ Write(t, IF since = "expired"
                               THEN [stale EXCEPT !.status = "estimated"]
                               ELSE stale)
                   /\ UNCHANGED mem
    /\ recon' = [recon EXCEPT !.todo = @ \ {t}, !.seen[t] = Absent]
    /\ UNCHANGED <<exec, operator, exchange, bounds>>

\* replace_active_trades keeps the exchange-active trades of this cycle and
\* drops whatever was added to the list meanwhile.
Published(keep) == [t \in Trades |-> IF keep[t].status \in ActiveStatus
                                      THEN keep[t] ELSE Absent]

PublishTrades ==
    /\ recon.pc = "settling"
    /\ recon.todo = {}
    /\ mem' = Published(recon.keep)
    /\ recon' = ReconIdle
    /\ UNCHANGED <<row, exec, operator, exchange, bounds>>

Reconcile ==
    \/ ReconcileStart \/ FetchOrders \/ FetchPositions
    \/ MatchPosition \/ PublishTrades
    \/ \E t \in Trades : SettleUnmatched(t)

-----------------------------------------------------------------------------
(* request_market_close (active_trade_control.py).                         *)

UnsafeToClose ==
    {"pending_execution", "order_submitted", "execution_uncertain",
     "emergency_close_failed", "close_requested", "close_uncertain",
     "close_pending_sync"}

\* _find_open_trade prefers the copy in memory.
OpenTrade(t) == IF Known(mem[t]) THEN mem[t]
                ELSE IF Reconcilable(t) THEN row[t] ELSE Absent

OperatorAt(pc) == operator' = [operator EXCEPT !.pc = pc]

FindTrade(t) ==
    /\ operator.pc = "idle"
    /\ closes < MaxCloses
    /\ Known(OpenTrade(t))
    /\ OpenTrade(t).status \notin UnsafeToClose
    /\ operator' = [pc |-> "found", trade |-> t, entry |-> OpenTrade(t)]
    /\ closes' = closes + 1
    /\ UNCHANGED <<row, mem, exec, recon, exchange, crashes>>

CheckPosition ==
    /\ operator.pc = "found"
    /\ OperatorAt(IF position = None THEN "flat" ELSE "open")
    /\ UNCHANGED <<row, mem, exec, recon, exchange, bounds>>

\* _sync_already_closed_position: close_trade, unlike reconciliation, leaves
\* the row of a trade alone that is not in memory.
SyncClosed ==
    /\ operator.pc = "flat"
    /\ LET t == operator.trade
           e == operator.entry
       IN  \/ /\ ExactCloseKnown(t)
              /\ IF Known(mem[t]) THEN CloseExactly(t, e)
                                  ELSE UNCHANGED <<row, mem>>
           \/ LET pending == [e EXCEPT !.status = "close_pending_sync"]
              IN  Write(t, pending) /\ Update(t, pending)
    /\ operator' = OperatorIdle
    /\ UNCHANGED <<exec, recon, exchange, bounds>>

\* Mark the trade in the journal and in memory with what the request has read.
Mark(s) ==
    LET e == [operator.entry EXCEPT !.status = s]
    IN  Write(operator.trade, e) /\ Update(operator.trade, e)

\* The request is persisted before the order is sent.
ReserveClose ==
    /\ operator.pc = "open"
    /\ Mark("close_requested")
    /\ OperatorAt("reserved")
    /\ UNCHANGED <<exec, recon, exchange, bounds>>

\* The reduce-only order, and the lookup after an error.
SubmitClose ==
    /\ operator.pc = "reserved"
    /\ \/ /\ position # None
          /\ ClosePosition
          /\ \E pc \in {"accepted", "uncertain"} : OperatorAt(pc)
       \/ /\ \E pc \in {"rejected", "uncertain"} : OperatorAt(pc)
          /\ UNCHANGED exchange
    /\ UNCHANGED <<row, mem, exec, recon, bounds>>

RecordSubmission ==
    /\ \/ operator.pc = "accepted"  /\ Mark("close_requested")
       \/ operator.pc = "rejected"  /\ Mark("active")
       \/ operator.pc = "uncertain" /\ Mark("close_uncertain")
    /\ operator' = OperatorIdle
    /\ UNCHANGED <<exec, recon, exchange, bounds>>

\* Any call of the request's that fails before the order is sent.
CloseRequestFails ==
    /\ operator.pc \in {"found", "open"}
    /\ operator' = OperatorIdle
    /\ UNCHANGED <<row, mem, exec, recon, exchange, bounds>>

CloseRequest ==
    \/ CheckPosition \/ SyncClosed \/ ReserveClose \/ SubmitClose
    \/ RecordSubmission

-----------------------------------------------------------------------------
\* The process restarts: every call under way is gone, and the list is what
\* on_startup loads from the journal, get_active_trade_history.
Crash ==
    /\ crashes < MaxCrashes
    /\ crashes' = crashes + 1
    /\ mem' = Published(row)
    /\ exec' = [k \in Signals |->
                  IF exec[k].pc = "idle" THEN exec[k]
                  ELSE [pc |-> "done", status |-> "absent"]]
    /\ recon' = ReconIdle
    /\ operator' = OperatorIdle
    /\ UNCHANGED <<row, exchange, closes>>

Steps ==
    \/ \E k \in Signals : Reserve(k) \/ Execute(k) \/ OrderFills(k) \/ OrderDies(k)
    \/ PositionCloses
    \/ Reconcile \/ FetchFails
    \/ \E t \in Trades : FindTrade(t)
    \/ CloseRequest \/ CloseRequestFails

Next == Steps \/ WindowPasses \/ Crash

Spec == Init /\ [][Next]_vars

\* Calls under way and orders at the exchange get on; the reconciliation loop
\* keeps running and does not fail forever; time passes.
Fairness ==
    /\ \A k \in Signals : /\ WF_vars(Execute(k))
                          /\ WF_vars(OrderFills(k) \/ OrderDies(k))
    /\ SF_vars(FetchOrders)
    /\ SF_vars(FetchPositions)
    /\ WF_vars(Reconcile)
    /\ WF_vars(CloseRequest)
    /\ SF_vars(WindowPasses)

FairSpec == Spec /\ Fairness

-----------------------------------------------------------------------------
(* Properties.                                                             *)

\* trade_state.py: a blocking row stands for an open position or for "an
\* execution that must remain reserved until the exchange outcome is known".
\* So while an order may still be sent, is out, or has its position open, some
\* row of the symbol blocks, whatever failed, was lost or was restarted, and
\* however the reconciler and the operator's request interleave.
ExposureIsReserved ==
    (\/ position # None
     \/ \E k \in Signals : order[k] = "accepted" \/ exec[k].pc = "reserved")
        => \E t \in Trades : Reconcilable(t)

\* A signal's entry is never in the market together with another's of the
\* symbol, orders whose answer was lost included.
OneExposure ==
    \A j, k \in Signals :
        order[j] = "accepted" /\ (order[k] = "accepted" \/ position = k) => j = k

\* README_RUNTIME_UPDATE.md: Active Trades and the exchange must converge.  A
\* position that stays open comes to be in the list that trade management works
\* from, although executions, reconciliations and restarts overwrite that list.
PositionIsManaged ==
    \A k \in Signals :
        position = k ~> \/ position # k
                        \/ \E t \in {k, Recovered(k)} : mem[t].status \in ActiveStatus

\* A position that was closed, and an execution that never opened one, end
\* with settled rows only, a recovered one included, and no late writer brings
\* the trade back for good.
TradesSettle ==
    \A k \in Signals :
        (exec[k].pc = "done" /\ order[k] # "accepted" /\ position # k)
            ~> [](\A t \in {k, Recovered(k)} :
                     ~Known(mem[t]) /\ row[t].status \in Settled \cup {"absent"})
=============================================================================

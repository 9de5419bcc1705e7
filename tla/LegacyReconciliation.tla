------------------------ MODULE LegacyReconciliation ------------------------
(***************************************************************************)
(* The trade lifecycle with the reconciler of reconciliation.py in it: the *)
(* POST /watchdog/run-now handler of main.py still calls that one, without *)
(* _reconciliation_lock, while every other caller was moved to             *)
(* authoritative_reconciliation.py.                                        *)
(***************************************************************************)
EXTENDS TradeLifecycle

VARIABLE legacy   \* progress of reconciliation.reconcile_state

allVars == <<vars, legacy>>

LegacyTypeOK == legacy \in ReconState

LegacyInit == Init /\ legacy = ReconIdle

\* It works from the in-memory list alone.
LegacyStart ==
    /\ legacy.pc = "idle"
    /\ legacy' = [legacy EXCEPT !.pc = "started", !.seen = mem]
    /\ UNCHANGED vars

LegacyFetchOrders ==
    /\ legacy.pc = "started"
    /\ legacy' = [legacy EXCEPT
                    !.pc = "ordered",
                    !.orders = {k \in Signals : order[k] = "accepted"}]
    /\ UNCHANGED vars

LegacyFetchPositions ==
    /\ legacy.pc = "ordered"
    /\ legacy' = [legacy EXCEPT
                    !.pc = "settling",
                    !.position = position,
                    !.todo = {t \in Trades : Known(legacy.seen[t])}]
    /\ UNCHANGED vars

LegacyFetchFails ==
    /\ legacy.pc \in {"started", "ordered"}
    /\ legacy' = ReconIdle
    /\ UNCHANGED vars

LegacyDone(t) == legacy' = [legacy EXCEPT !.todo = @ \ {t}, !.seen[t] = Absent]

\* _persist_reconciliation_event: of the trade only the status is written.
LegacyKeep(t, s) ==
    /\ Write(t, [row[t] EXCEPT !.status = s])
    /\ legacy' = [legacy EXCEPT !.todo = @ \ {t}, !.seen[t] = Absent,
                                !.keep[t] = [legacy.seen[t] EXCEPT !.status = s]]
    /\ UNCHANGED mem

\* The position of the symbol, its order by order_id (which an uncertain
\* execution does not have), a second look at the positions, the exact close;
\* of a trade that has left the list meanwhile the close is not written.
LegacySettle(t) ==
    /\ legacy.pc = "settling"
    /\ t \in legacy.todo
    /\ LET e       == legacy.seen[t]
           ordered == t \in legacy.orders /\ e.status # "execution_uncertain"
           open    == legacy.position # None \/ (~ordered /\ position # None)
       IN  \/ open /\ LegacyKeep(t, "active")
           \/ ~open /\ ordered /\ LegacyKeep(t, "pending")
           \/ /\ ~open /\ ~ordered
              /\ ExactCloseKnown(t)
              /\ IF Known(mem[t]) THEN CloseExactly(t, e)
                                  ELSE UNCHANGED <<row, mem>>
              /\ LegacyDone(t)
           \/ /\ ~open /\ ~ordered
              /\ Write(t, [e EXCEPT !.status = "close_pending_sync"])
              /\ LegacyDone(t)
              /\ UNCHANGED mem
    /\ UNCHANGED <<exec, recon, operator, exchange, bounds>>

LegacyPublish ==
    /\ legacy.pc = "settling"
    /\ legacy.todo = {}
    /\ mem' = Published(legacy.keep)
    /\ legacy' = ReconIdle
    /\ UNCHANGED <<row, exec, recon, operator, exchange, bounds>>

LegacyReconcile ==
    \/ LegacyStart \/ LegacyFetchOrders \/ LegacyFetchPositions
    \/ LegacyFetchFails \/ LegacyPublish
    \/ \E t \in Trades : LegacySettle(t)

LegacyNext ==
    \/ LegacyReconcile
    \/ Crash /\ legacy' = ReconIdle
    \/ Steps /\ UNCHANGED legacy
    \/ legacy.pc = "idle" /\ WindowPasses /\ UNCHANGED legacy

LegacySpec == LegacyInit /\ [][LegacyNext]_allVars

\* trade_state.py:5-6, "Rows in these states represent an exchange-confirmed
\* open position or an execution that must remain reserved until the exchange
\* outcome is known": the property ExposureIsReserved of TradeLifecycle, with
\* the second reconciler running.
ExposureStaysReserved == ExposureIsReserved
=============================================================================

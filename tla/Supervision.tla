---------------------------- MODULE Supervision ----------------------------
(***************************************************************************)
(* Who keeps the list of active trades and the execution block true to the *)
(* exchange: the trading loop (app/background_worker.py), the runtime      *)
(* watchdog with its in-memory block (app/runtime_watchdog.py,             *)
(* app/runtime_guard.py), the operator's POST /watchdog/run-now and the    *)
(* private WebSocket with its reconciliation supervisor                    *)
(* (app/bybit_websocket.py).  They share the list, the block, the          *)
(* mismatch counter of one row, and a reconciliation lock that the         *)
(* operator's reconciler does not take.                                    *)
(***************************************************************************)
EXTENDS Integers, FiniteSets

CONSTANTS
    Tolerance,    \* mismatch_tolerance_cycles
    MaxFaults,    \* bound: failed calls, crashes and restarts
    Setups        \* which of "socket" and "operator" take part

ASSUME SupervisionAssumption ==
    /\ Tolerance \in 1 .. 10
    /\ MaxFaults \in Nat
    /\ Setups \subseteq SUBSET {"socket", "operator"}

VARIABLES
    exchange,   \* the position: none, without or with stop and target
    listed,     \* the app's list of active trades has it
    config,     \* watchdog row: enabled in safe_stop mode, or disabled
    cycles,     \* watchdog row: consecutive_mismatch_cycles
    guard,      \* _state["blocked"]: lost with the process
    actor,      \* progress and local values of the three
    channel,    \* the private WebSocket
    event,      \* the asyncio.Event of request_reconciliation
    faults,     \* faults so far
    setup,      \* the actors that take part
    unseen      \* history: a change no socket reconciliation has looked at

vars == <<exchange, listed, config, cycles, guard, actor, channel, event,
          faults, setup, unseen>>

Actor     == {"worker", "operator", "socket"}
Positions == {"flat", "bare", "safe"}
Keep      == -1    \* _persist_result without a counter

Resting == [pc |-> "rest", had |-> FALSE, saw |-> "flat", count |-> Keep,
            block |-> FALSE]

\* The locked reconciliations: all but the operator's.
Locked == {a \in {"worker", "socket"} : actor[a].pc = "reconciling"}

TypeOK ==
    /\ exchange \in Positions
    /\ config \in {"safe_stop", "disabled"}
    /\ cycles \in 0 .. Tolerance
    /\ {listed, guard, event, unseen} \subseteq BOOLEAN
    /\ actor \in [Actor ->
         [pc    : {"rest", "asked", "reconciling", "rechecked", "watch",
                   "fetched", "judged", "guarded", "trade", "dead"},
          had   : BOOLEAN,
          saw   : Positions,
          count : {Keep} \cup 0 .. Tolerance,
          block : BOOLEAN]]
    /\ channel \in {"none", "subscribed", "up", "dead", "lost"}
    /\ faults \in 0 .. MaxFaults
    /\ Cardinality(Locked) <= 1

Init ==
    /\ exchange \in Positions
    /\ listed = FALSE
    /\ config = "safe_stop"
    /\ cycles = 0
    /\ guard = FALSE
    /\ actor = [a \in Actor |-> Resting]
    /\ channel = "none"
    /\ event = FALSE
    /\ faults = 0
    /\ setup \in Setups
    /\ unseen = FALSE

Goto(a, pc) == actor' = [actor EXCEPT ![a] = [Resting EXCEPT !.pc = pc]]

Fault == faults < MaxFaults /\ faults' = faults + 1

-----------------------------------------------------------------------------
(* The exchange and the channel.                                           *)

\* A fill, a close, or a stop set or lost; the channel, if up, reports it.
PositionChanges ==
    /\ exchange' \in Positions \ {exchange}
    /\ event' = (event \/ channel \in {"subscribed", "up"})
    /\ unseen' = TRUE
    /\ UNCHANGED <<listed, config, cycles, guard, actor, channel, faults, setup>>

\* Mutant of Requests: connecting asks for no reconciliation.
RequestsNothing ==
    /\ channel = "subscribed"
    /\ channel' = "up"
    /\ UNCHANGED <<exchange, listed, config, cycles, guard, actor, event,
                   faults, setup, unseen>>

\* The supervisor is back from its connecting thread: request_reconciliation.
Requests ==
    /\ channel = "subscribed"
    /\ channel' = "up"
    /\ event' = TRUE
    /\ UNCHANGED <<exchange, listed, config, cycles, guard, actor, faults,
                   setup, unseen>>

Connects ==
    /\ "socket" \in setup
    /\ channel = "none"
    /\ channel' = "subscribed"
    /\ UNCHANGED <<exchange, listed, config, cycles, guard, actor, event,
                   faults, setup, unseen>>

Drops ==
    /\ channel = "up"
    /\ channel' = "dead"
    /\ Fault
    /\ UNCHANGED <<exchange, listed, config, cycles, guard, actor, event,
                   setup, unseen>>

\* The health check finds the socket dead and closes the client.
ClosesDead ==
    /\ channel = "dead"
    /\ channel' = "none"
    /\ UNCHANGED <<exchange, listed, config, cycles, guard, actor, event,
                   faults, setup, unseen>>

-----------------------------------------------------------------------------
(* Reconciliation: fetch the position, then replace the list.              *)

\* Mutant of Fetches: the lock is not taken.
FetchesUnlocked(a, from) ==
    /\ actor[a].pc = from
    /\ actor' = [actor EXCEPT ![a].pc = "reconciling", ![a].saw = exchange]

\* The lock is taken and the position fetched.
Fetches(a, from) ==
    /\ actor[a].pc = from
    /\ Locked = {}
    /\ actor' = [actor EXCEPT ![a].pc = "reconciling", ![a].saw = exchange]

WorkerReconciles ==
    /\ Fetches("worker", "rest")
    /\ UNCHANGED <<exchange, listed, config, cycles, guard, channel, event,
                   faults, setup, unseen>>

\* Event.wait returns: the event is cleared before anything is read.
Wakes ==
    /\ actor["socket"].pc = "rest"
    /\ event
    /\ event' = FALSE
    /\ Goto("socket", "watch")
    /\ UNCHANGED <<exchange, listed, config, cycles, guard, channel, faults,
                   setup, unseen>>

\* ... or RECONCILIATION_IDLE_SECONDS pass.
Idles ==
    /\ "socket" \in setup
    /\ actor["socket"].pc = "rest"
    /\ ~event
    /\ Goto("socket", "watch")
    /\ UNCHANGED <<exchange, listed, config, cycles, guard, channel, event,
                   faults, setup, unseen>>

SocketReconciles ==
    /\ Fetches("socket", "watch")
    /\ unseen' = FALSE
    /\ UNCHANGED <<exchange, listed, config, cycles, guard, channel, event,
                   faults, setup>>

After(a) == IF a = "socket" THEN "rest" ELSE "watch"

\* Mutant of Publishes: the event is cleared after the reconciliation.
PublishesThenClears(a) ==
    /\ a # "operator" /\ actor[a].pc = "reconciling"
    /\ listed' = (actor[a].saw # "flat")
    /\ Goto(a, After(a))
    /\ event' = (event /\ a # "socket")
    /\ UNCHANGED <<exchange, config, cycles, guard, channel, faults, setup,
                   unseen>>

\* replace_active_trades with what was fetched, trades not listed included.
Publishes(a) ==
    /\ a # "operator" /\ actor[a].pc = "reconciling"
    /\ listed' = (actor[a].saw # "flat")
    /\ Goto(a, After(a))
    /\ UNCHANGED <<exchange, config, cycles, guard, channel, event, faults,
                   setup, unseen>>

\* A fetch fails: the list stays, the request is not repeated.
ReconcileFails(a) ==
    /\ actor[a].pc = "reconciling"
    /\ Fault
    /\ Goto(a, After(a))
    /\ UNCHANGED <<exchange, listed, config, cycles, guard, channel, event,
                   setup, unseen>>

-----------------------------------------------------------------------------
(* POST /watchdog/run-now: the reconciler of reconciliation.py, which does  *)
(* not take the lock and knows no trades but those listed when it began.    *)

OperatorReads ==
    /\ "operator" \in setup
    /\ actor["operator"].pc = "rest"
    /\ actor' = [actor EXCEPT !["operator"].pc = "asked",
                              !["operator"].had = listed]
    /\ UNCHANGED <<exchange, listed, config, cycles, guard, channel, event,
                   faults, setup, unseen>>

OperatorFetches ==
    /\ actor["operator"].pc = "asked"
    /\ actor' = [actor EXCEPT !["operator"].pc = "reconciling",
                              !["operator"].saw = exchange]
    /\ UNCHANGED <<exchange, listed, config, cycles, guard, channel, event,
                   faults, setup, unseen>>

Missing == actor["operator"].had /\ actor["operator"].saw = "flat"

\* A listed trade without a position is looked up once more; a look-up that
\* fails leaves it without one.
OperatorRechecks ==
    /\ actor["operator"].pc = "reconciling"
    /\ Missing
    /\ \/ /\ actor' = [actor EXCEPT !["operator"].pc = "rechecked",
                                    !["operator"].saw = exchange]
          /\ UNCHANGED faults
       \/ /\ actor' = [actor EXCEPT !["operator"].pc = "rechecked"]
          /\ Fault
    /\ UNCHANGED <<exchange, listed, config, cycles, guard, channel, event,
                   setup, unseen>>

\* The list as it was read, without the trades that have no position: what
\* another reconciliation has added meanwhile is lost.
OperatorPublishes ==
    /\ \/ actor["operator"].pc = "rechecked"
       \/ actor["operator"].pc = "reconciling" /\ ~Missing
    /\ listed' = (actor["operator"].had /\ actor["operator"].saw # "flat")
    /\ Goto("operator", "watch")
    /\ UNCHANGED <<exchange, config, cycles, guard, channel, event, faults,
                   setup, unseen>>

-----------------------------------------------------------------------------
(* run_watchdog_cycle of the trading loop and of the operator.             *)

Watchers == {"worker", "operator"}

\* Configuration, counter and position are read; when disabled, neither.
CycleReads(a) ==
    /\ actor[a].pc = "watch"
    /\ actor' = [actor EXCEPT ![a] =
         IF config = "disabled"
           THEN [Resting EXCEPT !.pc = "judged"]
           ELSE [Resting EXCEPT !.pc = "fetched", !.saw = exchange,
                                !.count = cycles]]
    /\ UNCHANGED <<exchange, listed, config, cycles, guard, channel, event,
                   faults, setup, unseen>>

\* The findings after the ledger audit, against the list of that moment:
\* critical ones, only a lesser one, or none.
Findings(a) ==
    IF actor[a].saw = "bare" \/ (actor[a].saw # "flat") # listed
      THEN "critical"
      ELSE "none"

Counted(n, finding) ==
    IF finding = "none" THEN 0
    ELSE IF n < Tolerance THEN n + 1 ELSE Tolerance

CycleJudgesAs(a, finding) ==
    LET n == Counted(actor[a].count, finding)
    IN  actor' = [actor EXCEPT ![a] =
          [Resting EXCEPT !.pc = "judged", !.count = n,
             !.block = finding = "critical" /\ n >= Tolerance]]

CycleJudges(a) ==
    /\ actor[a].pc = "fetched"
    /\ CycleJudgesAs(a, Findings(a))
    /\ UNCHANGED <<exchange, listed, config, cycles, guard, channel, event,
                   faults, setup, unseen>>

\* A call of the cycle failed: wallet and positions are critical, open
\* orders and ledger are not.
CycleJudgesFailure(a, finding) ==
    /\ actor[a].pc = "fetched"
    /\ Fault
    /\ CycleJudgesAs(a, IF Findings(a) = "critical" THEN "critical"
                                                    ELSE finding)
    /\ UNCHANGED <<exchange, listed, config, cycles, guard, channel, event,
                   setup, unseen>>

\* Mutant of CycleGuards: a block, once set, is never taken back.
CycleGuardsOnce(a) ==
    /\ actor[a].pc = "judged"
    /\ guard' = (guard \/ actor[a].block)
    /\ actor' = [actor EXCEPT ![a].pc = "guarded", ![a].block = FALSE]
    /\ UNCHANGED <<exchange, listed, config, cycles, channel, event, faults,
                   setup, unseen>>

\* set_watchdog_execution_block.
CycleGuards(a) ==
    /\ actor[a].pc = "judged"
    /\ guard' = actor[a].block
    /\ actor' = [actor EXCEPT ![a].pc = "guarded", ![a].block = FALSE]
    /\ UNCHANGED <<exchange, listed, config, cycles, channel, event, faults,
                   setup, unseen>>

Done(a) == IF a = "worker" THEN "trade" ELSE "rest"

\* Mutant of CyclePersists: the counter is never written.
CyclePersistsNoCount(a) ==
    /\ actor[a].pc = "guarded"
    /\ Goto(a, Done(a))
    /\ UNCHANGED <<exchange, listed, config, cycles, guard, channel, event,
                   faults, setup, unseen>>

\* _persist_result: the counter of the copy, whatever the row has by now.
CyclePersists(a) ==
    /\ actor[a].pc = "guarded"
    /\ cycles' = IF actor[a].count = Keep THEN cycles ELSE actor[a].count
    /\ Goto(a, Done(a))
    /\ UNCHANGED <<exchange, listed, config, guard, channel, event, faults,
                   setup, unseen>>

\* The queue wait and the batch, which other modules model.
WorkerTrades ==
    /\ actor["worker"].pc = "trade"
    /\ Goto("worker", "rest")
    /\ UNCHANGED <<exchange, listed, config, cycles, guard, channel, event,
                   faults, setup, unseen>>

\* An exception ends the iteration or the request.
Crashes(a) ==
    /\ actor[a].pc # "rest"
    /\ Fault
    /\ Goto(a, "rest")
    /\ UNCHANGED <<exchange, listed, config, cycles, guard, channel, event,
                   setup, unseen>>

\* get_execution_mode, read outside the try of both supervisors, raises: the
\* task ends and nothing starts it again.
SupervisorDies ==
    /\ Fault
    /\ \/ /\ actor["socket"].pc = "watch"
          /\ Goto("socket", "dead")
          /\ UNCHANGED channel
       \/ /\ channel \in {"none", "dead"}
          /\ channel' = "lost"
          /\ UNCHANGED actor
    /\ UNCHANGED <<exchange, listed, config, cycles, guard, event, setup,
                   unseen>>

\* A restart forgets the block, not the row; the list is the journal's.
Restarts ==
    /\ Fault
    /\ guard' = FALSE
    /\ listed' \in BOOLEAN
    /\ actor' = [a \in Actor |-> Resting]
    /\ channel' = "none"
    /\ event' = FALSE
    /\ UNCHANGED <<exchange, config, cycles, setup, unseen>>

\* POST /watchdog/config.
UpdateConfig ==
    /\ "operator" \in setup
    /\ config' \in {"safe_stop", "disabled"} \ {config}
    /\ UNCHANGED <<exchange, listed, cycles, guard, actor, channel, event,
                   faults, setup, unseen>>

Cycle(a) == CycleReads(a) \/ CycleJudges(a) \/ CycleGuards(a) \/ CyclePersists(a)

WorkerStep ==
    WorkerReconciles \/ Publishes("worker") \/ Cycle("worker") \/ WorkerTrades

OperatorStep ==
    OperatorFetches \/ OperatorRechecks \/ OperatorPublishes \/ Cycle("operator")

SocketStep == Wakes \/ Idles \/ SocketReconciles \/ Publishes("socket")

FaultStep ==
    \/ Drops
    \/ Restarts
    \/ SupervisorDies
    \/ \E a \in Actor : ReconcileFails(a)
    \/ \E a \in Watchers : Crashes(a)
    \/ \E a \in Watchers, f \in {"minor", "critical"} : CycleJudgesFailure(a, f)

Next ==
    \/ PositionChanges
    \/ Connects \/ Requests \/ ClosesDead
    \/ WorkerStep
    \/ OperatorReads \/ OperatorStep
    \/ SocketStep
    \/ FaultStep
    \/ UpdateConfig

Spec == Init /\ [][Next]_vars

\* The loop and the supervisors are tasks of one process, the operator's
\* request a thread of it; a reconciliation that waits for the lock gets it,
\* for the supervisor sleeps between two of its own.  Nobody has to call,
\* connect or change anything.
FairSpec ==
    /\ Spec
    /\ WF_vars(WorkerStep) /\ SF_vars(WorkerReconciles)
    /\ WF_vars(OperatorStep)
    /\ WF_vars(SocketStep)

-----------------------------------------------------------------------------
(* Properties.                                                             *)

\* No wake-up is lost: while the channel is up, a change of the position that
\* no socket reconciliation has looked at has one requested or about to begin
\* (unless the supervisor's task is gone).
ChangeIsRequested ==
    unseen /\ channel = "up" =>
        event \/ actor["socket"].pc \in {"watch", "dead"}

\* A position left without stop or target blocks new execution for good, as
\* long as the watchdog is on: overlapping cycles, stale counters, failures
\* and restarts delay the block and do not undo it for ever.
NakedPositionBlocks ==
    <>[](exchange = "bare" /\ config = "safe_stop") => <>[]guard

\* Once the exchange settles with no position, or with a protected one that the
\* operator's reconciler is not reconciling beside a locked one for ever, the
\* list catches up and the block goes: nobody has to release it.  (Without the
\* lock, a request that began with an empty list takes an open position off the
\* list again, and requests that overlap the loop may do so every time.)
Unlocked == actor["operator"].pc \in {"asked", "reconciling", "rechecked"}

SettledUnblocks ==
    /\ <>[](exchange = "flat") => <>[](~guard /\ ~listed)
    /\ <>[](exchange = "safe" /\ ~(Unlocked /\ Locked # {}))
         => <>[](~guard /\ listed)
=============================================================================

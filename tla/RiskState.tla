----------------------------- MODULE RiskState -----------------------------
(***************************************************************************)
(* app/risk.py refresh_risk_state as app/batch1_execution_safety.py        *)
(* installs it: every caller recomputes the single risk_runtime_state row  *)
(* from the journal under _risk_lock and then, outside that lock, applies  *)
(* the daily-loss authority in a second transaction.  Callers (the trading *)
(* loop, HTTP handlers, the executor) are the Refreshers.                  *)
(*                                                                         *)
(* SQLAlchemy writes only the attributes whose value differs from the one  *)
(* loaded, so a commit is a column-wise merge (Flush), and a transaction   *)
(* with nothing to write does not wait for the row's lock.  Locals a       *)
(* handler does not read again are reset, to keep the state space small.   *)
(***************************************************************************)
EXTENDS JournalRows

CONSTANTS
    Refresher,    \* concurrent callers of refresh_risk_state
    RiskPool,     \* BASE_RISK_POOL_RATIO in trade-risk units
    LossLimit,    \* DAILY_NET_LOSS_LIMIT_RATIO in trade-risk units
    ReadFaults,   \* may a query of the journal fail
    MaxStarts,    \* bound: start_bot calls by the operator
    Nobody        \* no holder of a lock

ASSUME RiskAssumption ==
    /\ RiskPool \in Nat
    /\ LossLimit \in Nat \ {0}
    /\ ReadFaults \in BOOLEAN
    /\ MaxStarts \in Nat
    /\ Nobody \notin Refresher

VARIABLES
    state,      \* risk_runtime_state, row id = 1
    rowLock,    \* who holds SELECT ... FOR UPDATE on that row
    riskLock,   \* who holds the process mutex _risk_lock
    ref,        \* per-refresher progress and local values
    cache,      \* _AUTHORITY_CACHE
    running,    \* bot_runtime_config.bot_status = "running"
    starting,   \* what a start_bot call in progress has decided
    starts      \* start_bot calls so far

botVars  == <<running, starting, starts>>
riskVars == <<state, rowLock, riskLock, ref, cache, botVars>>
vars     == <<journalVars, riskVars>>

Day == {DayOf[t] : t \in Time}

StateRow == [day       : Day,
             equity    : BOOLEAN,   \* day_start_equity is known
             net       : Int,       \* realized_pnl_today
             available : Int,       \* available_risk
             breaker   : BOOLEAN]   \* circuit_breaker_active

\* A verdict of get_daily_loss_authority; day -1 is no verdict yet.
Authority == [day : Day \cup {-1}, ok : BOOLEAN, net : Int]

NoAuthority == [day |-> -1, ok |-> FALSE, net |-> 0]

RefPc == {"idle", "waiting", "loaded", "computed", "committed",
          "snapshot", "authority", "applying", "applied"}

Local == [pc       : RefPc,
          at       : Time,        \* the captured clock
          observed : BOOLEAN,     \* the caller passed an account equity
          drawdown : BOOLEAN,     \* that equity is down by the loss limit
          loaded   : StateRow,    \* the row as this transaction read it
          new      : StateRow,    \* the row it writes, then its snapshot
          live     : Int,         \* live_risk of the snapshot
          auth     : Authority]

RiskTypeOK ==
    /\ state \in StateRow
    /\ riskLock \in Refresher \cup {Nobody}
    /\ ref \in [Refresher -> Local]
    /\ cache \in Authority
    /\ running \in BOOLEAN
    /\ starting \in {"no", "allowed", "refused"}
    /\ starts \in 0 .. MaxStarts

TypeOK == JournalTypeOK /\ RiskTypeOK

-----------------------------------------------------------------------------
Positive(n) == IF n > 0 THEN n ELSE 0

\* calculate_risk_capacity: available risk from realized P&L and live risk.
Capacity(equity, net, live) ==
    IF equity THEN Positive(Positive(RiskPool + net) - live) ELSE 0

\* How the audit of the journal ends: an inconsistent row or a failed query.
Audit == {"ok"} \cup (IF ReadFaults THEN {"inconsistent", "unavailable"} ELSE {})

\* The open rows counted before the audit; none when the query failed.
LiveSeen(audit) == IF audit = "unavailable" THEN 0 ELSE Cardinality(Blocking)

LimitHit(equity, net) == equity /\ net <= -LossLimit

\* Mutant of Recomputed: the breaker is recomputed without its former value.
RecomputedForgetful(loaded, day, observed, drawdown, audit) ==
    LET equity == observed \/ (loaded.day = day /\ loaded.equity)
        net    == IF audit = "ok" THEN DayNet(day) ELSE 0
        live   == LiveSeen(audit)
    IN  [day |-> day, equity |-> equity, net |-> net,
         available |-> Capacity(equity, net, live),
         breaker   |-> audit # "ok" \/ LimitHit(equity, net)]

\* The row refresh_risk_state writes, from the row it loaded and the journal;
\* an audit that is not ok fails closed.
Recomputed(loaded, day, observed, drawdown, audit) ==
    LET newDay == loaded.day # day
        known  == ~newDay /\ loaded.equity
        equity == observed \/ known
        net    == IF audit = "ok" THEN DayNet(day)
                  ELSE IF newDay THEN 0 ELSE loaded.net
        live   == LiveSeen(audit)
    IN  [day       |-> day,
         equity    |-> equity,
         net       |-> net,
         available |-> Capacity(equity, net, live),
         breaker   |-> \/ ~newDay /\ loaded.breaker
                       \/ audit # "ok"
                       \/ LimitHit(equity, net)
                       \/ known /\ drawdown]

\* The row apply_daily_loss_authority writes over the one it loaded.
WithAuthority(loaded, equity, live, auth) ==
    IF auth.ok
      THEN [loaded EXCEPT !.net       = auth.net,
                          !.available = Capacity(equity, auth.net, live),
                          !.equity    = @ \/ equity,
                          !.breaker   = @ \/ LimitHit(equity, auth.net)]
      ELSE [loaded EXCEPT !.breaker = TRUE]

\* An ORM flush: only columns that differ from the loaded row are written.
Flush(current, loaded, new) ==
    [c \in DOMAIN current |-> IF new[c] = loaded[c] THEN current[c] ELSE new[c]]

InitialState == [day |-> DayOf[0], equity |-> FALSE, net |-> 0,
                 available |-> 0, breaker |-> FALSE]

Idle == [pc |-> "idle", at |-> 0, observed |-> FALSE, drawdown |-> FALSE,
         loaded |-> InitialState, new |-> InitialState, live |-> 0,
         auth |-> NoAuthority]

\* The row survives restarts: a bot starts with the day's equity known or not.
RiskInit ==
    /\ \E equity \in BOOLEAN :
         state = [InitialState EXCEPT !.equity    = equity,
                                      !.available = Capacity(equity, 0, 0)]
    /\ rowLock = Nobody
    /\ riskLock = Nobody
    /\ ref = [r \in Refresher |-> Idle]
    /\ cache = NoAuthority
    /\ running = FALSE
    /\ starting = "no"
    /\ starts = 0

Init == JournalInit /\ RiskInit

-----------------------------------------------------------------------------
(* refresh_risk_state, in the order of its statements.                     *)

\* The clock is read before _risk_lock is requested.
RefreshStart(r, observed, drawdown) ==
    /\ ref[r].pc = "idle"
    /\ drawdown => observed
    /\ ref' = [ref EXCEPT ![r] = [Idle EXCEPT !.pc = "waiting",
                                             !.at = now,
                                             !.observed = observed,
                                             !.drawdown = drawdown]]
    /\ UNCHANGED <<journalVars, state, rowLock, riskLock, cache, botVars>>

\* Mutant of RefreshLoad: the mutex around the transaction is dropped.
RefreshLoadUnlocked(r) ==
    /\ ref[r].pc = "waiting"
    /\ ref' = [ref EXCEPT ![r].pc = "loaded", ![r].loaded = state]
    /\ UNCHANGED <<journalVars, state, rowLock, riskLock, cache, botVars>>

\* _risk_lock is taken and the state row loaded with a plain SELECT.
RefreshLoad(r) ==
    /\ ref[r].pc = "waiting"
    /\ riskLock = Nobody
    /\ riskLock' = r
    /\ ref' = [ref EXCEPT ![r].pc = "loaded", ![r].loaded = state]
    /\ UNCHANGED <<journalVars, state, rowLock, cache, botVars>>

\* One query for the journal; the new row and the snapshot follow from it.
RefreshCompute(r, audit) ==
    /\ ref[r].pc = "loaded"
    /\ ref' = [ref EXCEPT
                 ![r].pc       = "computed",
                 ![r].at       = 0,
                 ![r].observed = FALSE,
                 ![r].drawdown = FALSE,
                 ![r].live     = LiveSeen(audit),
                 ![r].new      = Recomputed(ref[r].loaded, DayOf[ref[r].at],
                                            ref[r].observed, ref[r].drawdown, audit)]
    /\ UNCHANGED <<journalVars, state, rowLock, riskLock, cache, botVars>>

\* Commit: the UPDATE waits for a reservation's row lock, _risk_lock is left.
RefreshCommit(r) ==
    /\ ref[r].pc = "computed"
    /\ rowLock = Nobody \/ ref[r].new = ref[r].loaded
    /\ state' = Flush(state, ref[r].loaded, ref[r].new)
    /\ riskLock' = Nobody
    /\ ref' = [ref EXCEPT
                 ![r].pc     = "committed",
                 ![r].loaded = InitialState,
                 ![r].new    = [InitialState EXCEPT !.equity  = ref[r].new.equity,
                                                    !.breaker = ref[r].new.breaker]]
    /\ UNCHANGED <<journalVars, rowLock, cache, botVars>>

\* Mutant of RefreshStopsBot: the refresh leaves the bot as it is.
RefreshLeavesBot(r) ==
    /\ ref[r].pc = "committed"
    /\ ref' = [ref EXCEPT ![r].pc = "snapshot", ![r].new.breaker = FALSE]
    /\ UNCHANGED <<journalVars, state, rowLock, riskLock, cache, botVars>>

\* A snapshot with the breaker on stops the bot, in a transaction of its own.
RefreshStopsBot(r) ==
    /\ ref[r].pc = "committed"
    /\ running' = (running /\ ~ref[r].new.breaker)
    /\ ref' = [ref EXCEPT ![r].pc = "snapshot", ![r].new.breaker = FALSE]
    /\ UNCHANGED <<journalVars, state, rowLock, riskLock, cache, starting, starts>>

\* get_daily_loss_authority reads the clock again: the cached verdict of the
\* day or a new one, which is "not ok" when the journal cannot be read.
ReadAuthority(r) ==
    LET today  == DayOf[now]
        fresh  == [day |-> today, ok |-> TRUE, net |-> DayNet(today)]
        failed == [day |-> today, ok |-> FALSE, net |-> 0]
    IN  /\ ref[r].pc = "snapshot"
        /\ \E verdict \in {fresh} \cup (IF ReadFaults THEN {failed} ELSE {})
                                 \cup (IF cache.day = today THEN {cache} ELSE {}) :
             /\ ref' = [ref EXCEPT ![r].pc   = "authority",
                                   ![r].auth = verdict]
             /\ cache' = verdict
        /\ UNCHANGED <<journalVars, state, rowLock, riskLock, botVars>>

\* apply_daily_loss_authority loads the row in a second transaction, without
\* _risk_lock and without FOR UPDATE ...
ApplyLoad(r) ==
    /\ ref[r].pc = "authority"
    /\ ref' = [ref EXCEPT ![r].pc     = "applying",
                          ![r].loaded = state,
                          ![r].new    = WithAuthority(state, ref[r].new.equity,
                                                      ref[r].live, ref[r].auth),
                          ![r].live   = 0]
    /\ UNCHANGED <<journalVars, state, rowLock, riskLock, cache, botVars>>

\* ... and writes the authority's P&L and verdict, whatever day the row is on.
ApplyCommit(r) ==
    /\ ref[r].pc = "applying"
    /\ rowLock = Nobody \/ ref[r].new = ref[r].loaded
    /\ state' = Flush(state, ref[r].loaded, ref[r].new)
    /\ ref' = [ref EXCEPT ![r] = [Idle EXCEPT !.pc = "applied",
                                             !.auth.ok = ref[r].auth.ok]]
    /\ UNCHANGED <<journalVars, rowLock, riskLock, cache, botVars>>

\* The breaker read back after the apply commit decides on a second stop_bot;
\* an unavailable authority returns before it.
ApplyStopsBot(r) ==
    /\ ref[r].pc = "applied"
    /\ running' = (running /\ ~(ref[r].auth.ok /\ state.breaker))
    /\ ref' = [ref EXCEPT ![r] = Idle]
    /\ UNCHANGED <<journalVars, state, rowLock, riskLock, cache, starting, starts>>

-----------------------------------------------------------------------------
\* start_bot reads the breaker, which counts as off when it cannot be read,
\* then writes the bot status.
StartCheck ==
    /\ starting = "no"
    /\ starts < MaxStarts
    /\ starts' = starts + 1
    /\ \E unread \in {FALSE, ReadFaults} :
         starting' = IF state.breaker /\ ~unread THEN "refused" ELSE "allowed"
    /\ UNCHANGED <<journalVars, state, rowLock, riskLock, ref, cache, running>>

StartWrite ==
    /\ starting # "no"
    /\ running' = (starting = "allowed")
    /\ starting' = "no"
    /\ UNCHANGED <<journalVars, state, rowLock, riskLock, ref, cache, starts>>

\* stop_bot on an operator's request.
StopBot ==
    /\ running
    /\ running' = FALSE
    /\ UNCHANGED <<journalVars, state, rowLock, riskLock, ref, cache, starting, starts>>

RefresherStep(r) ==
    \/ \E observed, drawdown \in BOOLEAN : RefreshStart(r, observed, drawdown)
    \/ RefreshLoad(r)
    \/ \E audit \in Audit : RefreshCompute(r, audit)
    \/ RefreshCommit(r)
    \/ RefreshStopsBot(r)
    \/ ReadAuthority(r)
    \/ ApplyLoad(r)
    \/ ApplyCommit(r)
    \/ ApplyStopsBot(r)

OperatorStep == StartCheck \/ StartWrite \/ StopBot

JournalStep == JournalNext /\ UNCHANGED riskVars

RiskNext == (\E r \in Refresher : RefresherStep(r)) \/ OperatorStep

Next == RiskNext \/ JournalStep

Spec == Init /\ [][Next]_vars

-----------------------------------------------------------------------------
(* Properties.                                                             *)

\* A hard stop is sticky: whatever refreshes and authority checks overlap,
\* the breaker is never cleared while the row stays on the same day.
BreakerSticky ==
    [][state.breaker /\ ~state'.breaker => state'.day # state.day]_vars

\* A refresh that found the day's loss at its limit leaves the breaker on
\* when it commits, although the flush skips columns it did not change.
LimitSeenMeansBreakerOn ==
    [][\A r \in Refresher :
         ref[r].pc = "computed" /\ ref'[r].pc = "committed" /\ ref[r].new.breaker
           => state'.breaker]_vars

\* The breaker stops the bot, also when a start_bot that passed its check
\* before the loss writes "running" after it.
BreakerStopsBot == state.breaker ~> (~running \/ ~state.breaker)
=============================================================================

------------------------------ MODULE TakeProfit ------------------------------
(***************************************************************************)
(* Profit taking and stop protection of ONE open long trade.  Three        *)
(* writers share its management state: the entry that installs the native  *)
(* TP1/TP2 orders, the two-second monitor (native_profit_reconcile, then   *)
(* the profit-lock and intraday guards) and manage_open_trades.  Each      *)
(* copies the state, talks to the exchange and writes the WHOLE copy back. *)
(*                                                                         *)
(* Prices are measured from the entry (0) and quantities in lots.  Memory  *)
(* and the journal row are written together and kept as one record.  A     *)
(* native order fills as a whole.                                          *)
(***************************************************************************)
EXTENDS Integers, FiniteSets

CONSTANTS
    Scenarios,    \* triples of a profile, "scalping" or "intraday", a start, with
                  \* the orders "installed" and seen by the monitor, or "entering",
                  \* managed while its entry is still installing them, and a bound on
                  \* the failed exchange calls, cancelled orders and restarts
    Initial,      \* the filled quantity
    Step, Tick,   \* quantity step and price tick, both used as QUANTITY tolerances
    Risk,         \* distance of the initial stop
    BreakEven,    \* break_even_price: the entry plus the observed fees
    TP1, TP2, Target,
    Prices,       \* the prices at which the position can still be open
    None

ASSUME TakeProfitAssumption ==
    /\ Scenarios \subseteq {"scalping", "intraday"} \X {"installed", "entering"} \X Nat
    /\ Initial \in Nat /\ Initial >= 4 /\ Step \in Nat /\ Tick \in Nat
    /\ Risk \in Nat \ {0} /\ BreakEven \in Nat
    /\ TP1 \in Nat /\ TP2 \in Nat /\ Target \in Nat
    /\ BreakEven < TP1 /\ TP1 < TP2 /\ TP2 < Target
    /\ Prices \subseteq (-Risk .. Target) /\ Prices # {}
    /\ None \notin Int

VARIABLES
    profile, start,   \* fixed by the initial state
    size, mark, stop, \* the exchange: open quantity, price, stop of the position
    order,            \* the exchange: status of the two native orders
    trade,            \* memory and journal: the management state and stop_loss
    entry,            \* where the entry's installation is
    watch,            \* the monitor thread: place, copy, decision
    manager,          \* manage_open_trades: place, copy, decision
    faults            \* how many more calls may fail

exchange == <<size, stop, order>>
vars == <<profile, start, size, mark, stop, order, trade, entry, watch, manager,
          faults>>

Stages == {1, 2}
Q1 == Initial \div 2
Q2 == Initial \div 4
Qty(k) == IF k = 1 THEN Q1 ELSE Q2
Price(k) == IF k = 1 THEN TP1 ELSE TP2
Better(a, b) == IF a > b THEN a ELSE b
Abs(n) == IF n < 0 THEN -n ELSE n

\* A stop below every price the model visits counts as the lowest one (a bound).
Floor == -Risk - 1
Stops == Floor .. Target
Statuses == {"none", "live", "filled", "cancelled"}

\* native_tp_enabled and native_tp_degraded, tp1_done, tp2_done, break_even_set,
\* trailing_stop, profit_lock_stop (set or not), the stages whose stop a guard
\* has verified, and the order statuses last stored.
Management == [native : BOOLEAN, degraded : BOOLEAN, tp1 : BOOLEAN, tp2 : BOOLEAN,
               be : BOOLEAN, trail : Stops \cup {None}, lock : BOOLEAN,
               verified : SUBSET Stages, seen : [Stages -> Statuses]]
NoManagement == [native |-> FALSE, degraded |-> FALSE, tp1 |-> FALSE, tp2 |-> FALSE,
                 be |-> FALSE, trail |-> None, lock |-> FALSE,
                 verified |-> {}, seen |-> [k \in Stages |-> "none"]]

\* What a thread holds between two steps: the copy of the management state and
\* what it decided from the prices it read.
Watching(pc, m) == [pc |-> pc, m |-> m, stop |-> None, stages |-> {}, changed |-> FALSE]
NoWatch == Watching("idle", NoManagement)
Managing(pc, m) == [pc |-> pc, m |-> m, act |-> "none", stop |-> None]
NoManager == Managing("idle", NoManagement)
Acts == {"none", "hold", "full_close", "break_even", "trailing", "lock", "trail", "tp1", "tp2"}

TypeOK ==
    /\ \E scenario \in Scenarios : /\ profile = scenario[1] /\ start = scenario[2]
                                   /\ faults \in 0 .. scenario[3]
    /\ size \in 0 .. Initial /\ mark \in Prices /\ stop \in Stops
    /\ order \in [Stages -> Statuses]
    /\ trade \in [m : Management, ref : Stops]
    /\ entry \in {"tp1", "tp2", "save", "done"}
    /\ watch \in [pc : {"idle", "adopt", "adopt2", "early", "tp1", "tp2", "save", "guard",
                        "protect", "guardsave"},
                  m : Management, stop : Stops \cup {None}, stages : SUBSET Stages,
                  changed : BOOLEAN]
    /\ manager \in [pc : {"idle", "act", "protect", "save"}, m : Management, act : Acts,
                    stop : Stops \cup {None}]

Init ==
    /\ \E scenario \in Scenarios :
          profile = scenario[1] /\ start = scenario[2] /\ faults = scenario[3]
    /\ size = Initial /\ stop = -Risk
    /\ mark = CHOOSE p \in Prices : \A q \in Prices : p <= q
    /\ order = [k \in Stages |-> IF start = "installed" THEN "live" ELSE "none"]
    /\ trade = [m |-> [NoManagement EXCEPT !.native = start = "installed", !.seen = order],
                ref |-> -Risk]
    /\ entry = IF start = "entering" THEN "tp1" ELSE "done"
    /\ watch = NoWatch /\ manager = NoManager

-----------------------------------------------------------------------------
(* Calculations of trade_management_profiles.                              *)

\* trailing_stop: one risk below the mark price, the risk being the distance
\* of the RECORDED stop_loss from the entry.
Trailing(price, ref) == Better(price - Abs(ref), Floor)
\* post_tp2_stop
PostTP2(price, ref) == IF profile = "scalping" THEN TP1 ELSE Trailing(price, ref)
\* progress_r >= 1
OneR(price, ref) == ref # 0 /\ price >= Abs(ref)

\* The position is as small as after the fills: position-size inference.
Shrunk(q, tolerance) == size <= Initial - q + tolerance
Done(m) == {k \in Stages : IF k = 1 THEN m.tp1 ELSE m.tp2}
\* Mutant: TP2 inferred from its own quantity.
InferredAlone(tolerance) == {k \in Stages : Shrunk(Qty(k), tolerance)}
Inferred(tolerance) == {k \in Stages : Shrunk(IF k = 1 THEN Q1 ELSE Q1 + Q2, tolerance)}

-----------------------------------------------------------------------------
(* Exchange calls.                                                         *)

Fault == faults > 0
Gone(s) == IF s = 0 THEN [k \in Stages |-> IF order[k] = "live" THEN "cancelled" ELSE order[k]]
           ELSE order

\* set_trading_stop, with the verification or not: the exchange refuses a stop
\* at or above the price, and an answer may be lost with the stop set or not.
SetStop(s) ==
    IF size = 0 THEN {[stop |-> stop, ok |-> FALSE, cost |-> 0]}
    ELSE (IF s < mark THEN {[stop |-> s, ok |-> TRUE, cost |-> 0]}
          ELSE {[stop |-> stop, ok |-> FALSE, cost |-> 0]})
         \cup (IF Fault /\ s # stop
               THEN {[stop |-> l, ok |-> FALSE, cost |-> 1] : l \in {stop} \cup {x \in {s} : s < mark}}
               ELSE {})

\* Mutant: the planned quantity is closed, not the smaller of it and what is left.
MarketCloseUnbounded(q) == {[size |-> size - q, ok |-> TRUE, cost |-> 0]}

\* A reduce-only market close of quantity q: filled, refused, or filled with
\* the answer lost.
MarketClose(q) ==
    IF size = 0 THEN {[size |-> 0, ok |-> FALSE, cost |-> 0]}
    ELSE LET left == IF q >= size THEN 0 ELSE size - q
         IN {[size |-> left, ok |-> TRUE, cost |-> 0]}
            \cup (IF Fault THEN {[size |-> l, ok |-> FALSE, cost |-> 1] : l \in {left, size}}
                  ELSE {})

\* A reduce-only limit order under its deterministic link id.  The exchange
\* takes a link id once; an answer may be lost with the order taken or not.
Placed(k) ==
    (IF order[k] = "none" /\ size > 0 THEN {[order |-> "live", ok |-> TRUE, cost |-> 0]}
     ELSE {[order |-> order[k], ok |-> FALSE, cost |-> 0]})
    \cup (IF Fault /\ order[k] = "none"
          THEN {[order |-> o, ok |-> FALSE, cost |-> 1] :
                  o \in {"none"} \cup (IF size > 0 THEN {"live"} ELSE {})}
          ELSE {})

-----------------------------------------------------------------------------
(* The market.                                                             *)

\* The price moves, with gaps; the stop and the runner target close the rest.
PriceMoves ==
    /\ size > 0
    /\ \E p \in Prices \cup {Target, Floor} :
          /\ p # mark
          /\ size' = IF p <= stop \/ p >= Target THEN 0 ELSE size
          /\ mark' = IF p \in Prices THEN p ELSE mark
          /\ order' = Gone(size')
    /\ UNCHANGED <<profile, start, stop, trade, entry, watch, manager, faults>>

OrderFills(k) ==
    /\ order[k] = "live" /\ mark >= Price(k) /\ (k = 2 => order[1] # "live")
    /\ size' = IF size > Qty(k) THEN size - Qty(k) ELSE 0
    /\ order' = [Gone(size') EXCEPT ![k] = "filled"]
    /\ UNCHANGED <<profile, start, mark, stop, trade, entry, watch, manager, faults>>

OrderCancelled(k) ==
    /\ order[k] = "live" /\ Fault
    /\ order' = [order EXCEPT ![k] = "cancelled"]
    /\ faults' = faults - 1
    /\ UNCHANGED <<profile, start, size, mark, stop, trade, entry, watch, manager>>

\* Authoritative reconciliation publishes the position's current stop as the
\* trade's stop_loss; the first time only (a bound).
MergePosition ==
    /\ size > 0 /\ trade.ref # stop /\ trade.ref = -Risk
    /\ trade' = [trade EXCEPT !.ref = stop]
    /\ UNCHANGED <<profile, start, exchange, mark, entry, watch, manager, faults>>

Restart ==
    /\ Fault /\ (watch.pc # "idle" \/ manager.pc # "idle") /\ entry = "done"
    /\ watch' = NoWatch /\ manager' = NoManager /\ faults' = faults - 1
    /\ UNCHANGED <<profile, start, exchange, mark, trade, entry>>

-----------------------------------------------------------------------------
(* The entry: install_native_profit_orders and what follows it.            *)

Installed(m) == [m EXCEPT !.native = TRUE, !.degraded = FALSE,
                         !.seen = [k \in Stages |-> "none"]]

\* A refused order: the orders placed so far are cancelled and the position
\* that could not be set up is closed at market.
EntryInstalls(k) ==
    /\ entry = IF k = 1 THEN "tp1" ELSE "tp2"
    /\ \E r \in Placed(k) :
          /\ faults' = faults - r.cost
          /\ IF r.ok
             THEN /\ order' = [order EXCEPT ![k] = "live"]
                  /\ entry' = IF k = 1 THEN "tp2" ELSE "save"
                  /\ UNCHANGED size
             ELSE /\ order' = [j \in Stages |->
                                 IF order[j] = "live" \/ (j = k /\ r.order = "live")
                                 THEN "cancelled" ELSE order[j]]
                  /\ entry' = "done" /\ size' = 0
    /\ UNCHANGED <<profile, start, mark, stop, trade, watch, manager>>

EntrySaves ==
    /\ entry = "save" /\ entry' = "done"
    /\ trade' = [trade EXCEPT !.m = Installed(NoManagement)]
    /\ UNCHANGED <<profile, start, exchange, mark, watch, manager, faults>>

-----------------------------------------------------------------------------
(* The monitor: native_profit_reconcile, then the guard of the profile.    *)

\* _eligible_for_adoption
Adoptable == ~trade.m.tp1 /\ ~trade.m.tp2 /\ size = Initial

\* get_active_trades and safe_fetch_positions: what the cycle does follows from
\* this position and this price.
WatchReads ==
    /\ watch.pc = "idle" /\ size > 0
    /\ watch' = IF trade.m.native \/ Adoptable
                THEN [pc |-> IF trade.m.native THEN "early" ELSE "adopt", m |-> trade.m,
                      stop |-> IF trade.m.tp2 THEN None ELSE PostTP2(mark, trade.ref),
                      stages |-> Inferred(Step) \ Done(trade.m),
                      changed |-> profile = "scalping" /\ ~trade.m.be /\ OneR(mark, trade.ref)]
                ELSE Watching("guard", NoManagement)
    /\ UNCHANGED <<profile, start, exchange, mark, trade, entry, manager, faults>>

\* Adoption installs both orders; a refusal cancels the one known to be placed
\* and leaves the trade to the mark-price fallback.
WatchAdopts(k) ==
    /\ watch.pc = IF k = 1 THEN "adopt" ELSE "adopt2"
    /\ \E r \in Placed(k) :
          /\ faults' = faults - r.cost
          /\ IF r.ok
             THEN /\ order' = [order EXCEPT ![k] = "live"]
                  /\ IF k = 1
                     THEN watch' = [watch EXCEPT !.pc = "adopt2"] /\ UNCHANGED trade
                     ELSE /\ watch' = [watch EXCEPT !.pc = "early", !.m = Installed(watch.m)]
                          /\ trade' = [trade EXCEPT !.m = Installed(watch.m)]
             ELSE /\ order' = [j \in Stages |->
                                 IF j = k THEN r.order
                                 ELSE IF k = 2 /\ order[1] = "live" THEN "cancelled"
                                 ELSE order[j]]
                  /\ watch' = Watching("guard", NoManagement) /\ UNCHANGED trade
    /\ UNCHANGED <<profile, start, size, mark, stop, entry, manager>>

\* Mutant: an unverified stop is recorded.
WatchEarlyBreakEvenUnverified ==
    /\ watch.pc = "early"
    /\ IF watch.changed
       THEN \E r \in SetStop(BreakEven) :
               /\ stop' = r.stop /\ faults' = faults - r.cost
               /\ watch' = [watch EXCEPT !.pc = "tp1", !.m.be = TRUE]
       ELSE watch' = [watch EXCEPT !.pc = "tp1"] /\ UNCHANGED <<stop, faults>>
    /\ UNCHANGED <<profile, start, size, mark, order, trade, entry, manager>>

\* Scalping reaches 1R: break-even before any target.
WatchEarlyBreakEven ==
    /\ watch.pc = "early"
    /\ IF watch.changed
       THEN \E r \in SetStop(BreakEven) :
               /\ stop' = r.stop /\ faults' = faults - r.cost
               /\ watch' = [watch EXCEPT !.pc = "tp1", !.m.be = r.ok]
       ELSE watch' = [watch EXCEPT !.pc = "tp1"] /\ UNCHANGED <<stop, faults>>
    /\ UNCHANGED <<profile, start, size, mark, order, trade, entry, manager>>

\* The cycle ends; it writes its copy back only if it changed it.
WatchEnds(m, changed) == watch' = IF changed THEN Watching("save", m)
                                  ELSE Watching("guard", NoManagement)

\* The statuses of both orders, as far as the lookups answer, degradation, and
\* the fill of TP1.
WatchTP1 ==
    /\ watch.pc = "tp1"
    /\ \E answered \in {S \in SUBSET Stages : S = Stages \/ Fault} :
          LET cost == IF answered = Stages THEN 0 ELSE 1
              open == answered \ Done(watch.m)
              filled == watch.stages \cup {k \in open : order[k] = "filled"}
              lost == \E k \in open : order[k] = "cancelled"
              m == [watch.m EXCEPT !.degraded = @ \/ lost,
                      !.seen = [k \in Stages |-> IF k \in answered THEN order[k] ELSE @[k]]]
              Goes(n) == IF 2 \in filled
                         THEN watch' = [watch EXCEPT !.pc = "tp2", !.stages = filled, !.m = n]
                         ELSE WatchEnds(n, watch.changed \/ n # watch.m)
          IN IF 1 \in filled
             THEN \E r \in SetStop(BreakEven) :
                     /\ faults >= r.cost + cost
                     /\ stop' = r.stop /\ faults' = faults - r.cost - cost
                     /\ Goes([m EXCEPT !.tp1 = TRUE, !.be = r.ok])
             ELSE Goes(m) /\ faults' = faults - cost /\ UNCHANGED stop
    /\ UNCHANGED <<profile, start, size, mark, order, trade, entry, manager>>

\* The fill of TP2: the stop goes to TP1 (scalping) or starts to trail.
WatchTP2 ==
    /\ watch.pc = "tp2"
    /\ \E r \in SetStop(watch.stop) :
          /\ stop' = r.stop /\ faults' = faults - r.cost
          /\ WatchEnds([watch.m EXCEPT !.tp1 = TRUE, !.tp2 = TRUE, !.be = @ \/ r.ok,
                           !.lock = IF profile = "scalping" THEN r.ok ELSE @,
                           !.trail = IF profile = "intraday" /\ r.ok THEN watch.stop
                                     ELSE None], TRUE)
    /\ UNCHANGED <<profile, start, size, mark, order, trade, entry, manager>>

\* _persist_management_state: the whole copy.
WatchSaves ==
    /\ watch.pc = "save"
    /\ trade' = [trade EXCEPT !.m = watch.m]
    /\ watch' = Watching("guard", NoManagement)
    /\ UNCHANGED <<profile, start, exchange, mark, entry, manager, faults>>

\* Mutants: no clamp to break-even; a runner locked at break-even.
GuardStopUnclamped(tp2) ==
    IF profile = "scalping" THEN TP1
    ELSE IF tp2 THEN Better(Trailing(mark, trade.ref), stop) ELSE BreakEven
GuardStopTooLow(tp2) == BreakEven

\* The stop a guard asks for: TP1 for a scalping runner; for an intraday one,
\* after TP2, a trailing stop, clamped to break-even and never worse than the
\* stop it read.
GuardStop(tp2) ==
    IF profile = "scalping" THEN TP1
    ELSE IF tp2 THEN Better(Better(Trailing(mark, trade.ref), BreakEven), stop)
    ELSE BreakEven

\* What a guard records of a stop it confirmed or set, or failed to set.
Guarded(m, ok, at) ==
    LET stage == IF m.tp2 THEN {2} ELSE {1}
        n == [m EXCEPT !.verified = IF ok THEN @ \cup stage ELSE @ \ stage]
    IN IF profile = "scalping" THEN [n EXCEPT !.lock = ok, !.trail = None]
       ELSE IF m.tp2 THEN [n EXCEPT !.be = @ \/ ok, !.trail = IF ok THEN at ELSE None]
       ELSE [n EXCEPT !.be = ok]

\* Both guards read the trade and the position afresh, infer the fills and
\* compare the stop they found with the one they want.
GuardReads ==
    /\ watch.pc = "guard"
    /\ LET done(tolerance) == Inferred(tolerance) \cup Done(trade.m)
           scalps == profile = "scalping" /\ trade.m.native /\ 2 \in done(Step)
           stored == {k \in Stages : trade.m.seen[k] = "filled"}
           tick == IF trade.m.native THEN Tick ELSE 0  \* stored by the installation
           guards == profile = "intraday" /\ done(tick) \cup stored # {}
           tp2 == scalps \/ 2 \in done(tick) \cup stored
           want == GuardStop(tp2)
           m == [trade.m EXCEPT !.tp1 = TRUE, !.tp2 = tp2]
           settled == IF scalps THEN stop = want ELSE stop >= want
           news == \/ scalps /\ (2 \notin m.verified \/ ~m.lock \/ m.trail # None)
                   \/ guards /\ (Done(m) # Done(trade.m) \/ (IF tp2 THEN 2 ELSE 1) \notin m.verified)
       IN watch' = IF size = 0 \/ ~(scalps \/ guards) \/ (settled /\ ~news) THEN NoWatch
                   ELSE IF settled THEN Watching("guardsave", Guarded(m, TRUE, stop))
                   ELSE [Watching("protect", m) EXCEPT !.stop = want]
    /\ UNCHANGED <<profile, start, exchange, mark, trade, entry, manager, faults>>

\* enforce_scalping_tp2_profit_locks and enforce_intraday_protection.
GuardProtects ==
    /\ watch.pc = "protect"
    /\ \E r \in SetStop(watch.stop) :
          /\ stop' = r.stop /\ faults' = faults - r.cost
          /\ watch' = Watching("guardsave", Guarded(watch.m, r.ok, watch.stop))
    /\ UNCHANGED <<profile, start, size, mark, order, trade, entry, manager>>

GuardSaves ==
    /\ watch.pc = "guardsave"
    /\ trade' = [trade EXCEPT !.m = watch.m]
    /\ watch' = NoWatch
    /\ UNCHANGED <<profile, start, exchange, mark, entry, manager, faults>>

-----------------------------------------------------------------------------
(* manage_open_trades: the slower loop, and POST /trade-management/run.    *)

\* Mutant: mark-price polling goes on beside the native orders.
FallbackAlways(m) == TRUE

\* Native orders own the targets of a trade unless it has none or is degraded.
Fallback(m) == ~m.native \/ m.degraded

\* evaluate_management_action.  The trade's age is an input: over an hour a
\* trade without progress, over max_hold_seconds any trade is closed.
Decision(m, age) ==
    LET risk == trade.ref # 0
    IN CASE age = "expired" -> "full_close"
         [] age # "expired" /\ ~risk -> "hold"
         [] age = "stagnant" /\ risk /\ 4 * mark < Abs(trade.ref) -> "full_close"
         [] OTHER ->
            IF ~m.be /\ (m.tp1 \/ (profile = "scalping" /\ OneR(mark, trade.ref)))
            THEN "break_even"
            ELSE IF m.tp2 /\ profile = "intraday" /\ m.trail = None THEN "trailing"
            ELSE IF m.tp2 /\ profile = "scalping" /\ ~m.lock THEN "lock"
            ELSE IF Fallback(m) /\ mark >= TP1 /\ ~m.tp1 THEN "tp1"
            ELSE IF Fallback(m) /\ mark >= TP2 /\ m.tp1 /\ ~m.tp2 THEN "tp2"
            ELSE IF m.tp2 /\ profile = "intraday" THEN "trail" ELSE "hold"

\* The stop that goes with a decision.
DecidedStop(act) ==
    CASE act \in {"break_even", "tp1"} -> BreakEven
      [] act \in {"lock", "tp2"} -> PostTP2(mark, trade.ref)
      [] act \in {"trailing", "trail"} -> Trailing(mark, trade.ref)
      [] OTHER -> None

\* The copy, the position and the ticker, and the decision they lead to.
ManagerReads ==
    /\ manager.pc = "idle" /\ size > 0
    /\ \E age \in {"young", "stagnant", "expired"} :
          /\ age = "stagnant" => profile = "intraday"
          /\ LET act == Decision(trade.m, age)
             IN manager' = IF act = "hold" THEN Managing("save", trade.m)
                            ELSE [pc |-> "act", m |-> trade.m, act |-> act,
                                  stop |-> DecidedStop(act)]
    /\ UNCHANGED <<profile, start, exchange, mark, trade, entry, watch, faults>>

Unmanaged == UNCHANGED <<profile, start, mark, entry, watch>>

\* The close of what is left; the trade's way out is TradeLifecycle's subject.
ManagerClosesFully ==
    /\ manager.pc = "act" /\ manager.act = "full_close"
    /\ \E r \in MarketClose(Initial) :
          /\ size' = r.size /\ order' = Gone(r.size) /\ faults' = faults - r.cost
          /\ manager' = NoManager
    /\ Unmanaged /\ UNCHANGED <<stop, trade>>

\* A protection retry or a trailing update; a failed one saves nothing.
ManagerMovesStop ==
    /\ manager.pc = "act" /\ manager.act \in {"break_even", "trailing", "lock", "trail"}
    /\ LET m == manager.m
           s == manager.stop
       IN IF manager.act = "trail" /\ s <= m.trail
          THEN manager' = NoManager /\ UNCHANGED <<stop, faults>>
          ELSE \E r \in SetStop(s) :
                  /\ stop' = r.stop /\ faults' = faults - r.cost
                  /\ IF ~r.ok THEN manager' = NoManager
                     ELSE manager' = Managing("save", CASE manager.act = "break_even" -> [m EXCEPT !.be = TRUE]
                                                [] manager.act = "lock" -> [m EXCEPT !.lock = TRUE, !.trail = None]
                                                [] OTHER -> [m EXCEPT !.trail = s])
    /\ Unmanaged /\ UNCHANGED <<size, order, trade>>

\* The mark-price fallback closes a part at market ...
ManagerTakesProfit(k) ==
    /\ manager.pc = "act" /\ manager.act = IF k = 1 THEN "tp1" ELSE "tp2"
    /\ \E r \in MarketClose(Qty(k)) :
          /\ size' = r.size /\ order' = Gone(r.size) /\ faults' = faults - r.cost
          /\ IF r.ok THEN manager' = [manager EXCEPT !.pc = "protect", !.m.tp1 = @ \/ k = 1,
                                                          !.m.tp2 = @ \/ k = 2]
             ELSE manager' = NoManager
    /\ Unmanaged /\ UNCHANGED <<stop, trade>>

\* ... and moves the stop.
ManagerProtects ==
    /\ manager.pc = "protect"
    /\ \E r \in SetStop(manager.stop) :
          /\ stop' = r.stop /\ faults' = faults - r.cost
          /\ manager' = Managing("save",
                IF manager.act = "tp1" THEN [manager.m EXCEPT !.be = r.ok]
                ELSE [manager.m EXCEPT
                        !.lock = IF profile = "scalping" THEN r.ok ELSE @,
                        !.trail = IF profile = "intraday" /\ r.ok THEN manager.stop ELSE None])
    /\ Unmanaged /\ UNCHANGED <<size, order, trade>>

\* _save_trade_state: the whole copy goes back, for a hold as well.
ManagerSaves ==
    /\ manager.pc = "save"
    /\ trade' = [trade EXCEPT !.m = manager.m]
    /\ manager' = NoManager
    /\ UNCHANGED <<profile, start, exchange, mark, entry, watch, faults>>

-----------------------------------------------------------------------------
Market == \/ PriceMoves \/ MergePosition \/ Restart
          \/ \E k \in Stages : OrderFills(k) \/ OrderCancelled(k)
Entry == EntrySaves \/ \E k \in Stages : EntryInstalls(k)
Watch == \/ WatchReads \/ WatchEarlyBreakEven \/ WatchTP1 \/ WatchTP2 \/ WatchSaves
         \/ GuardReads \/ GuardProtects \/ GuardSaves
         \/ \E k \in Stages : WatchAdopts(k)
Manage == \/ ManagerReads \/ ManagerClosesFully \/ ManagerMovesStop
          \/ ManagerProtects \/ ManagerSaves
          \/ \E k \in Stages : ManagerTakesProfit(k)

\* The way of a closed trade out of memory is TradeLifecycle's subject.
Next == size > 0 /\ (Market \/ Entry \/ Watch \/ Manage)
Spec == Init /\ [][Next]_vars

\* The monitor runs every two seconds, the trading loop every few; each runs
\* to its end.  Nothing is assumed of the market or of the exchange.
Fairness == WF_vars(Entry) /\ WF_vars(Watch) /\ WF_vars(Manage)
FairSpec == Spec /\ Fairness

-----------------------------------------------------------------------------
(* Properties.                                                             *)

Open == size > 0

\* A scalping trade whose break-even is recorded has a stop at break-even or
\* better on the exchange, however the three writers overwrite each other.
RecordedProtectionIsReal ==
    profile = "scalping" /\ Open /\ trade.m.be => stop >= BreakEven

\* Stages are recorded as done only when that much of the position is gone, up
\* to the quantity step that the inference tolerates.
StagesAreReal ==
    (\A k \in Stages : order[k] # "cancelled") =>
    /\ Open /\ trade.m.tp1 => Shrunk(Q1, Step)
    /\ Open /\ trade.m.tp2 => Shrunk(Q1 + Q2, Step)

\* "The order status is authoritative. Position-size inference is used only as a
\* restart-safe fallback when the exchange order history is delayed"
\* (native_profit_orders.py:153): of a trade set up at entry that has lost none
\* of its orders, no stage is recorded as done before its order has filled.
StagesFollowOrders ==
    start = "installed" /\ Open /\ (\A k \in Stages : order[k] # "cancelled")
        => \A k \in Done(trade.m) : order[k] = "filled"

\* "Mark-price polling must never submit a duplicate partial market close while
\* those orders are live" (trade_management_rules.py).
SubmitsDuplicate ==
    \E k \in Stages : /\ manager.pc = "act" /\ manager'.pc = "protect" /\ order[k] = "live"
                      /\ manager.act = IF k = 1 THEN "tp1" ELSE "tp2"

\* That holds of a trade whose entry had installed both orders and that has lost
\* none of them.
NativeOwnsTargets ==
    [][start = "installed" /\ (\A k \in Stages : order[k] # "cancelled")
          => ~SubmitsDuplicate]_vars

\* A price that jumps at every attempt can refuse every stop.
PriceSettles == <>[][mark' = mark]_vars

\* Collisions of the two writers can starve every retry.
WritersSeparate == <>[](watch.pc = "idle" \/ manager.pc = "idle")

\* After the native TP1 fill of a trade set up at entry the rest comes to stand
\* behind a break-even stop, whatever fails once and however the writers have
\* overwritten each other so far, unless it closes or the price is already below.
RestIsProtected ==
    PriceSettles /\ WritersSeparate =>
        ((order[1] = "filled" /\ start = "installed")
            ~> (~Open \/ stop >= BreakEven \/ mark <= BreakEven))

\* After the TP2 fill of a scalping trade the stop comes to TP1.
ProfitIsLocked ==
    PriceSettles /\ WritersSeparate =>
        ((order[2] = "filled" /\ start = "installed" /\ profile = "scalping")
            ~> (~Open \/ stop >= TP1 \/ mark <= TP1))
=============================================================================

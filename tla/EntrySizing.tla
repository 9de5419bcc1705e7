---------------------------- MODULE EntrySizing ----------------------------
(***************************************************************************)
(* The numbers of an entry: the profile's runner target, the gates on fees *)
(* and spread, the quantity computed from risk budget, costs and exchange  *)
(* minima (app/position_sizing.py, app/trading_costs.py, app/risk.py), and *)
(* the checks repeated on the real fill, after which the position is kept, *)
(* kept without profit orders, or closed (app/execution_service.py,        *)
(* app/execution.py, app/risk_execution.py).  Callers enter concurrently   *)
(* from account data each read on its own.                                 *)
(*                                                                         *)
(* Prices, quantities and the account are integers; money is in 1/10000,   *)
(* so that costs in basis points stay exact, and margin in 1/20, the       *)
(* reciprocal of the highest leverage.  The market moves freely within the *)
(* given drifts between any two steps.                                     *)
(***************************************************************************)
EXTENDS Integers, FiniteSets, FiniteSetsExt, Functions

CONSTANTS
    Caller, Worker,   \* who executes; the worker's calls are automatic
    Symbol,
    Signals,          \* what they execute: symbol, type, direction, prices
    Tick,             \* price step of the contracts
    Contract,         \* quantity step, least quantity, least notional
    Equity,
    HeldMargins,      \* margin of the positions that are already open
    FeeBps, SlipBps,  \* execution_taker_fee_bps, execution_slippage_bps
    PaidBps,          \* entry fees the exchange may charge and report
    Drifts, Spreads,  \* moves of the price, distances of bid and ask
    MaxAttempts       \* bound: entries attempted

ASSUME SizingAssumption ==
    /\ IsFiniteSet(Caller) /\ IsFiniteSet(Symbol) /\ Worker \subseteq Caller
    /\ Caller # {} /\ Signals # {}
    /\ {Tick, Equity, MaxAttempts} \subseteq Nat \ {0}
    /\ {FeeBps, SlipBps} \subseteq Nat
    /\ PaidBps \subseteq Nat \ {0} /\ HeldMargins \subseteq Nat
    /\ Drifts \subseteq Int /\ Spreads \subseteq Nat
    /\ Signals \subseteq [symbol : Symbol, type : {"scalping", "intraday"},
                          direction : {"long", "short"},
                          entry : Nat \ {0}, stop : Nat \ {0}]
    /\ \A s \in Symbol : Contract[s] \in [step : Nat \ {0}, minQty : Nat,
                                          minNotional : Nat]
    /\ \A s \in Symbol : Contract[s].minQty % Contract[s].step = 0

VARIABLES
    attempt,   \* each caller's progress and local values
    attempts,  \* how many were begun
    reserved,  \* symbols with a live journal row
    position,  \* the exchange's position in each symbol
    active,    \* required_margin of the active trades in memory, in 1/20
    held       \* margin of the other positions

vars == <<attempt, attempts, reserved, position, active, held>>

-----------------------------------------------------------------------------
(* Profiles and arithmetic *)

Bps == 10000
Profile ==
    [scalping |-> [minRR |-> 15, runner |-> 25, leverage |-> 20,
                   marginPct |-> 15, notionalPct |-> 400, minStopBps |-> 15],
     intraday |-> [minRR |-> 20, runner |-> 30, leverage |-> 10,
                   marginPct |-> 25, notionalPct |-> 500, minStopBps |-> 30]]

Risk   == (Bps * Equity) \div 100         \* RISK_PROFILES: 1 % of equity
Budget == (Risk * 90) \div 100            \* execution_risk_headroom_ratio
Tolerated(amount) == amount + amount \div 1000
ExposureCap == (20 * Equity) \div 2       \* CAPITAL_EXPOSURE_CAP, in 1/20

Distance(a, b) == IF a > b THEN a - b ELSE b - a
Floored(value, step) == (value \div step) * step

ValidGeometry(direction, entry, stop, target) ==
    /\ entry > 0 /\ stop > 0 /\ target > 0
    /\ \/ direction = "long"  /\ stop < entry /\ entry < target
       \/ direction = "short" /\ target < entry /\ entry < stop

PriceAtR(direction, entry, stop, tenths) ==
    LET reward == (Distance(entry, stop) * tenths) \div 10 IN
    IF direction = "long" THEN entry + reward ELSE entry - reward

RunnerTarget(s, entry, stop) ==
    PriceAtR(s.direction, entry, stop, Profile[s.type].runner)

\* Losing at the stop and winning at the target, entry fee and costs included.
EntryFee(entry, qty, bps) == entry * qty * bps
ExitCosts(entry, exit, qty) == qty * (exit * (FeeBps + SlipBps) + entry * SlipBps)
NetRisk(entry, stop, qty, bps) ==
    Distance(entry, stop) * qty * Bps + EntryFee(entry, qty, bps)
        + ExitCosts(entry, stop, qty)
NetReward(entry, target, qty, bps) ==
    Distance(entry, target) * qty * Bps - EntryFee(entry, qty, bps)
        - ExitCosts(entry, target, qty)

Worth(s, entry, stop, target, qty, bps) ==
    /\ NetReward(entry, target, qty, bps) > 0
    /\ 10 * NetReward(entry, target, qty, bps)
         >= Profile[s.type].minRR * NetRisk(entry, stop, qty, bps)

Margin(s, qty, entry) == qty * entry * (20 \div Profile[s.type].leverage)

-----------------------------------------------------------------------------
(* calculate_position_size: the quantity, 0 when it is refused *)

WideStop(s, entry) ==
    Distance(entry, s.stop) * Bps >= Profile[s.type].minStopBps * entry

BudgetQuantity(s, entry) ==
    Floored(Budget \div NetRisk(entry, s.stop, 1, FeeBps), Contract[s.symbol].step)

\* Raised to the least quantity, then to the least notional, rounded down.
Raised(s, entry) ==
    LET c    == Contract[s.symbol]
        sure == IF BudgetQuantity(s, entry) < c.minQty THEN Floored(c.minQty, c.step)
                ELSE BudgetQuantity(s, entry)
    IN IF sure * entry < c.minNotional THEN Floored(c.minNotional \div entry, c.step)
       ELSE sure

\* Mutant of WithinBudget: against the risk amount, without the headroom.
WithinRiskAmount(s, entry, qty) ==
    NetRisk(entry, s.stop, qty, FeeBps) <= Tolerated(Risk)

WithinBudget(s, entry, qty) ==
    NetRisk(entry, s.stop, qty, FeeBps) <= Tolerated(Budget)

NotionalFits(s, entry, qty) ==
    100 * qty * entry <= Profile[s.type].notionalPct * Equity

MarginFits(s, margin, current, available) ==
    /\ margin <= ExposureCap - current
    /\ 100 * margin <= 95 * available
    /\ 100 * margin <= Profile[s.type].marginPct * 20 * Equity

\* Mutant of CurrentMargin: only the trades the program opened itself.
MarginOfTrades(seen) == SumFunction(active)

\* Positions as they were read; the trades in memory when there were none.
CurrentMargin(seen) ==
    IF seen > 0 THEN seen ELSE SumFunction(active)

Size(s, entry, target, seen) ==
    LET qty == Raised(s, entry) IN
    IF /\ ValidGeometry(s.direction, entry, s.stop, target)
       /\ WideStop(s, entry)
       /\ Worth(s, entry, s.stop, target, 1, FeeBps)
       /\ BudgetQuantity(s, entry) > 0 /\ qty > 0
       /\ qty * entry >= Contract[s.symbol].minNotional
       /\ NotionalFits(s, entry, qty)
       /\ WithinBudget(s, entry, qty)
       /\ Worth(s, entry, s.stop, target, qty, FeeBps)
       /\ MarginFits(s, Margin(s, qty, entry), CurrentMargin(seen), 20 * Equity - seen)
    THEN qty ELSE 0

\* execution_max_round_trip_fee_risk_ratio: a tenth of the risk.
FeesFit(s, entry, qty) ==
    10 * qty * (entry + s.stop) * FeeBps <= Risk

SpreadFits(bid, ask) == 20000 * (ask - bid) <= 50 * (ask + bid)

RewardsRisk(s, entry, stop, target) ==
    /\ ValidGeometry(s.direction, entry, stop, target)
    /\ 10 * Distance(target, entry) >= Profile[s.type].minRR * Distance(entry, stop)

-----------------------------------------------------------------------------
(* State *)

AnySignal == CHOOSE s \in Signals : TRUE
Idle == [phase |-> "idle", signal |-> AnySignal,
         seen |-> 0, quote |-> 0, qty |-> 0]
NoPosition == [state |-> "none", signal |-> AnySignal,
               quote |-> 0, fill |-> 0, qty |-> 0, fee |-> 0, target |-> 0]

Phase == {"idle", "preflight", "gate", "start", "read", "quoted", "sized",
          "reserved", "filled", "protected", "costed"}

Init ==
    /\ attempt = [c \in Caller |-> Idle]
    /\ attempts = 0
    /\ reserved = {}
    /\ position = [s \in Symbol |-> NoPosition]
    /\ active = [s \in Symbol |-> 0]
    /\ held \in {20 * m : m \in HeldMargins}

PositionMargin(p) == Margin(p.signal, p.qty, p.fill)
ExchangeMargin == held + SumFunction([s \in Symbol |-> PositionMargin(position[s])])

\* What the checks on the fill use: the stop on the price grid, the fee paid
\* when the exchange reports one.
Stop(s) == Floored(s.stop, Tick)
SignalTarget(s) == RunnerTarget(s, s.entry, s.stop)
FeeOf(p) == IF p.fee = 0 THEN FeeBps ELSE p.fee

At(c, phase) == attempt[c].phase = phase
Goes(c, new) == attempt' = [attempt EXCEPT ![c] = new]
GivesUp(c)   == Goes(c, Idle)

-----------------------------------------------------------------------------
(* Before the order *)

Begins(c) ==
    /\ At(c, "idle") /\ attempts < MaxAttempts
    /\ attempts' = attempts + 1
    /\ \E s \in Signals :
          Goes(c, [Idle EXCEPT !.phase = IF c \in Worker THEN "preflight" ELSE "gate",
                               !.signal = s])
    /\ UNCHANGED <<reserved, position, active, held>>

\* An exchange call fails, or the limits of risk, day or bot refuse.
Refused(c) ==
    /\ attempt[c].phase \in {"preflight", "gate", "start", "read", "quoted", "sized"}
    /\ GivesUp(c)
    /\ UNCHANGED <<attempts, reserved, position, active, held>>

\* validate_trade, as far as it looks at the signal.
Validated(s, entry) ==
    /\ RewardsRisk(s, entry, s.stop, SignalTarget(s))
    /\ s.symbol \notin reserved

FeePreflight(c) ==
    LET s   == attempt[c].signal
        qty == Size(s, s.entry, SignalTarget(s), ExchangeMargin)
    IN /\ At(c, "preflight")
       /\ IF Validated(s, s.entry) /\ qty > 0 /\ FeesFit(s, s.entry, qty)
          THEN Goes(c, [attempt[c] EXCEPT !.phase = "gate"])
          ELSE GivesUp(c)
       /\ UNCHANGED <<attempts, reserved, position, active, held>>

SpreadGate(c) ==
    /\ At(c, "gate")
    /\ \E drift \in Drifts, spread \in Spreads :
          LET bid == attempt[c].signal.entry + drift IN
          IF SpreadFits(bid, bid + spread)
          THEN Goes(c, [attempt[c] EXCEPT !.phase = "start"])
          ELSE GivesUp(c)
    /\ UNCHANGED <<attempts, reserved, position, active, held>>

ReadsAccount(c) ==
    /\ At(c, "start")
    /\ Goes(c, [attempt[c] EXCEPT !.phase = "read", !.seen = ExchangeMargin])
    /\ UNCHANGED <<attempts, reserved, position, active, held>>

Quotes(c) ==
    /\ At(c, "read")
    /\ \E drift \in Drifts :
          LET s == attempt[c].signal IN
          IF Validated(s, s.entry + drift)
          THEN Goes(c, [attempt[c] EXCEPT !.phase = "quoted", !.quote = s.entry + drift])
          ELSE GivesUp(c)
    /\ UNCHANGED <<attempts, reserved, position, active, held>>

Sizes(c) ==
    LET s   == attempt[c].signal
        qty == Size(s, attempt[c].quote, SignalTarget(s), attempt[c].seen)
    IN /\ At(c, "quoted")
       /\ IF qty > 0 /\ ValidGeometry(s.direction, attempt[c].quote, Stop(s), SignalTarget(s))
          THEN Goes(c, [attempt[c] EXCEPT !.phase = "sized", !.qty = qty])
          ELSE GivesUp(c)
       /\ UNCHANGED <<attempts, reserved, position, active, held>>

\* reserve_execution_capacity: one live row per symbol, nothing about margin.
Reserves(c) ==
    LET s == attempt[c].signal.symbol IN
    /\ At(c, "sized")
    /\ IF s \in reserved
       THEN GivesUp(c) /\ UNCHANGED reserved
       ELSE /\ reserved' = reserved \cup {s}
            /\ Goes(c, [attempt[c] EXCEPT !.phase = "reserved"])
    /\ UNCHANGED <<attempts, position, active, held>>

-----------------------------------------------------------------------------
(* The order and the checks on its fill *)

\* Leverage is not set, or the order is not accepted.
OrderFails(c) ==
    /\ At(c, "reserved")
    /\ reserved' = reserved \ {attempt[c].signal.symbol}
    /\ GivesUp(c)
    /\ UNCHANGED <<attempts, position, active, held>>

Fills(c) ==
    LET a == attempt[c] IN
    /\ At(c, "reserved")
    /\ \E drift \in Drifts, fee \in PaidBps \cup {0}, qty \in {a.qty, Contract[a.signal.symbol].step} :
          /\ a.quote + drift > 0
          /\ position' = [position EXCEPT ![a.signal.symbol] =
                [state |-> "new", signal |-> a.signal, quote |-> a.quote,
                 fill |-> a.quote + drift, qty |-> qty, fee |-> fee,
                 target |-> SignalTarget(a.signal)]]
    /\ Goes(c, [a EXCEPT !.phase = "filled"])
    /\ UNCHANGED <<attempts, reserved, active, held>>

Activated(c) ==
    LET a == attempt[c] IN
    active' = [active EXCEPT ![a.signal.symbol] = Margin(a.signal, a.qty, a.quote)]

\* _emergency_close_pending_sync: the row stays until the close is settled,
\* and so does the position when the close fails.
ClosesAtOnce(c) ==
    LET s == attempt[c].signal.symbol IN
    /\ \/ position' = [position EXCEPT ![s] = NoPosition]
       \/ position' = [position EXCEPT ![s].state = "unsafe"]
    /\ Activated(c)
    /\ GivesUp(c)

FillFits(p) ==
    /\ RewardsRisk(p.signal, p.fill, Stop(p.signal), p.target)
    /\ Distance(p.fill, Stop(p.signal)) * p.qty * Bps <= Tolerated(Risk)

ProtectionFits(p) ==
    ValidGeometry(p.signal.direction, p.fill, Stop(p.signal),
                  Floored(RunnerTarget(p.signal, p.fill, Stop(p.signal)), Tick))

\* Stop and target are attached and verified, or they are not.
Protects(c) ==
    LET p == position[attempt[c].signal.symbol] IN
    /\ At(c, "filled")
    /\ \/ /\ FillFits(p) /\ ProtectionFits(p)
          /\ Activated(c)
          /\ Goes(c, [attempt[c] EXCEPT !.phase = "protected"])
          /\ UNCHANGED position
       \/ ClosesAtOnce(c)
    /\ UNCHANGED <<attempts, reserved, held>>

\* Mutant of CostsFit: only the reward is checked again.
RewardFits(p) ==
    Worth(p.signal, p.fill, Stop(p.signal), p.target, p.qty, FeeOf(p))

\* _validate_actual_fill_costs, at the target the trade has.
CostsFit(p) ==
    /\ ValidGeometry(p.signal.direction, p.fill, Stop(p.signal), p.target)
    /\ Worth(p.signal, p.fill, Stop(p.signal), p.target, p.qty, FeeOf(p))
    /\ NetRisk(p.fill, Stop(p.signal), p.qty, FeeOf(p)) <= Tolerated(Risk)

ChecksCosts(c) ==
    /\ At(c, "protected")
    /\ IF CostsFit(position[attempt[c].signal.symbol])
       THEN /\ Goes(c, [attempt[c] EXCEPT !.phase = "costed"])
            /\ UNCHANGED <<position, active>>
       ELSE ClosesAtOnce(c)
    /\ UNCHANGED <<attempts, reserved, held>>

\* Mutant of Managed: the estimated fee is recorded as if it had been observed.
ManagedAtEstimate(p) ==
    [p EXCEPT !.target = RunnerTarget(p.signal, p.fill, Stop(p.signal)), !.fee = FeeOf(p)]

\* _apply_management_profile: the runner target of the price it filled at.
Managed(p) == [p EXCEPT !.target = RunnerTarget(p.signal, p.fill, Stop(p.signal))]

Keeps(c, p) ==
    /\ position' = [position EXCEPT ![p.signal.symbol] = p]
    /\ GivesUp(c)
    /\ UNCHANGED active

\* _keep_protected_trade_active: the profile is not verified on the exchange;
\* the verified stop and target stay, and the second check is not made.
ProfileFails(c) ==
    LET p == position[attempt[c].signal.symbol] IN
    /\ At(c, "costed")
    /\ Keeps(c, [Managed(p) EXCEPT !.state = "degraded"])
    /\ UNCHANGED <<attempts, reserved, held>>

\* Kept with the profile when the costs fit its target too; the profit orders
\* may then fail, or their record: the position stays all the same.
InstallsProfile(c) ==
    LET p == Managed(position[attempt[c].signal.symbol]) IN
    /\ At(c, "costed")
    /\ IF CostsFit(p)
       THEN Keeps(c, [p EXCEPT !.state = "kept"])
       ELSE ClosesAtOnce(c)
    /\ UNCHANGED <<attempts, reserved, held>>

\* The position of a finished entry is closed, and its row settled.
Settles(s) ==
    /\ s \in reserved
    /\ \A c \in Caller :
          attempt[c].signal.symbol = s =>
             attempt[c].phase \notin {"reserved", "filled", "protected", "costed"}
    /\ reserved' = reserved \ {s}
    /\ position' = [position EXCEPT ![s] = NoPosition]
    /\ active' = [active EXCEPT ![s] = 0]
    /\ UNCHANGED <<attempt, attempts, held>>

Next ==
    \/ \E c \in Caller :
          \/ Begins(c) \/ Refused(c)
          \/ FeePreflight(c) \/ SpreadGate(c) \/ ReadsAccount(c)
          \/ Quotes(c) \/ Sizes(c) \/ Reserves(c)
          \/ OrderFails(c) \/ Fills(c)
          \/ Protects(c) \/ ChecksCosts(c)
          \/ ProfileFails(c) \/ InstallsProfile(c)
    \/ \E s \in Symbol : Settles(s)

Spec == Init /\ [][Next]_vars

-----------------------------------------------------------------------------
(* Properties *)

\* Type invariant.
TypeOK ==
    /\ attempt \in [Caller -> [phase : Phase, signal : Signals,
                                seen : Nat, quote : Nat, qty : Nat]]
    /\ attempts \in 0 .. MaxAttempts
    /\ reserved \subseteq Symbol
    /\ position \in [Symbol -> [state : {"none", "new", "kept", "degraded", "unsafe"},
                                 signal : Signals, quote : Nat, fill : Nat,
                                 qty : Nat, fee : PaidBps \cup {0}, target : Int]]
    /\ active \in [Symbol -> Nat] /\ held \in Nat

\* A position that is kept loses no more than the risk amount at its stop,
\* the fee it paid and the costs of leaving included, whatever the price did
\* between quote and fill; and one kept with its profile still earns the
\* profile's multiple of that at the target it was given after the fill.
KeptWithinRisk ==
    \A s \in Symbol :
       LET p == position[s] IN
       /\ p.state \in {"kept", "degraded"} =>
             NetRisk(p.fill, Stop(p.signal), p.qty, FeeOf(p)) <= Tolerated(Risk)
       /\ p.state = "kept" =>
             Worth(p.signal, p.fill, Stop(p.signal), p.target, p.qty, FeeOf(p))

\* Callers size against positions read before each other's orders, and the
\* reservation does not look at margin, so the exposure cap can be passed;
\* but only by entries that were under way together: without some of them,
\* one fewer than there are callers, margin is within the cap, price drift
\* between quote and fill aside.
Committed == [s \in Symbol |-> Margin(position[s].signal, position[s].qty, position[s].quote)]
Drift == [s \in Symbol |-> Margin(position[s].signal, position[s].qty,
                                 Distance(position[s].fill, position[s].quote))]
ExposureWithinCap ==
    \E together \in SUBSET Symbol :
       /\ Cardinality(together) < Cardinality(Caller)
       /\ held + SumFunctionOnSet(Committed, Symbol \ together)
            <= Max({held, ExposureCap + SumFunction(Drift)})

\* The quantity an attempt would get is the largest the exchange accepts whose
\* loss fits the budget, if that one passes the other limits, and none
\* otherwise: rounding down and the two raises to a minimum lose no entry.
\* Where none fits, they admit at most the least quantity the exchange accepts,
\* and that only with a loss the tolerance covers.
Accepted(s, entry) ==
    LET k == Contract[s.symbol] IN
    {n \in 1 .. Tolerated(Budget) \div Bps :
        n % k.step = 0 /\ n >= k.minQty /\ n * entry >= k.minNotional}
Affordable(s, entry, amount) ==
    {n \in Accepted(s, entry) : NetRisk(entry, s.stop, n, FeeBps) <= amount}
PassesLimits(s, entry, n, seen) ==
    /\ WideStop(s, entry)
    /\ Worth(s, entry, s.stop, SignalTarget(s), n, FeeBps)
    /\ NotionalFits(s, entry, n)
    /\ MarginFits(s, Margin(s, n, entry), CurrentMargin(seen), 20 * Equity - seen)
SizingIsExact ==
    \A c \in Caller :
       At(c, "quoted") =>
          LET a    == attempt[c]
              s    == a.signal
              fits == Affordable(s, a.quote, Budget)
              size == Size(s, a.quote, SignalTarget(s), a.seen)
          IN IF fits # {}
             THEN size = IF PassesLimits(s, a.quote, Max(fits), a.seen)
                         THEN Max(fits) ELSE 0
             ELSE size > 0 =>
                    /\ size = Min(Accepted(s, a.quote))
                    /\ size \in Affordable(s, a.quote, Tolerated(Budget))
                    /\ PassesLimits(s, a.quote, size, a.seen)
=============================================================================

---------------------------- MODULE EntryControl ----------------------------
(***************************************************************************)
(* From a scan to an order: the scanner loop with its one-place queue, the *)
(* trading loop (app/background_worker.py), POST /bot/start and            *)
(* POST /execute (app/main.py), the operator's controls                    *)
(* (app/bot_controls.py), and the preflight of                             *)
(* app/execution_service.py with its short-lived approval                  *)
(* (app/authoritative_risk_engine.py).  What happens from the reservation  *)
(* on is the subject of ExecutionReservation and TradeLifecycle.           *)
(*                                                                         *)
(* Time is kept as ages: Tick lets a unit pass for every signal and        *)
(* approval in flight.  The signals of one scan share an age.              *)
(***************************************************************************)
EXTENDS Integers, FiniteSets

CONSTANTS
    MaxAge,       \* risk_signal_max_age_seconds, in ticks
    Ttl,          \* risk_approval_ttl_seconds, in ticks
    MaxSignals,   \* bound: signals of one scan
    Setups        \* which callers take part

Caller == {"worker", "start", "operator"}

ASSUME EntryAssumption ==
    /\ MaxAge \in Nat
    /\ Ttl \in Nat \ {0}
    /\ MaxSignals \in Nat
    /\ Setups \subseteq SUBSET Caller

VARIABLES
    bot,        \* the row bot_runtime_config
    block,      \* blocks kept elsewhere: watchdog (memory), breaker (risk row)
    market,     \* _public_market_authority_available
    looping,    \* the scanner loop has not ended
    scan,       \* the scan that holds _scanner_running, and its signals' age
    queue,      \* _scan_results_queue
    call,       \* progress of the three callers
    entered,    \* history: entries since the row last closed
    setup

vars == <<bot, block, market, looping, scan, queue, call, entered, setup>>

Old  == MaxAge + Ttl        \* older ages are not told apart
Ages == 0 .. Old

\* A failed scan is a result without signals: both are logged and dropped.
Results == [left : 0 .. MaxSignals, age : Ages]

\* Mutant of Result: an empty result is taken for a missing one.
ResultMissing(n, age) == [left |-> n - 1, age |-> age]

\* What the loop puts into the queue.
Result(n, age) == [left |-> n, age |-> IF n = 0 THEN 0 ELSE age]
Empty   == [left |-> -1, age |-> 0]

NoScan  == [by |-> "none", age |-> 0]
Resting == [pc |-> "rest", left |-> 0, age |-> 0, ttl |-> 0]

TypeOK ==
    /\ bot \in [running : BOOLEAN, emergency : BOOLEAN, auto : BOOLEAN]
    /\ block \in {"none", "watchdog", "breaker"}
    /\ {market, looping} \subseteq BOOLEAN
    /\ scan \in [by : {"none", "auto", "manual"}, age : Ages]
    /\ queue \in Results \cup {Empty}
    /\ call \in [Caller ->
         [pc : {"rest", "config", "resumed", "scanning", "gate", "gated",
                "next", "check", "checked", "quote", "approved"},
          left : 0 .. MaxSignals, age : Ages, ttl : 0 .. Ttl]]
    /\ entered \in [Caller -> 0 .. 2]

Init ==
    /\ bot \in {b \in [running : BOOLEAN, emergency : BOOLEAN, auto : BOOLEAN] :
                  b.emergency => ~b.running}
    /\ block = "none"
    /\ market = TRUE
    /\ looping = TRUE
    /\ scan = NoScan
    /\ queue = Empty
    /\ call = [c \in Caller |-> Resting]
    /\ entered = [c \in Caller |-> 0]
    /\ setup \in Setups

RowOpen(b) == b.running /\ b.auto /\ ~b.emergency

Older(age) == IF age < Old THEN age + 1 ELSE Old

Goto(c, pc) == call' = [call EXCEPT ![c].pc = pc]

-----------------------------------------------------------------------------
(* The operator's controls: each writes the row in one transaction.        *)

SetsBot(b) ==
    /\ bot' = b
    /\ entered' = IF RowOpen(b) THEN [c \in Caller |-> 0] ELSE entered
    /\ UNCHANGED <<block, market, looping, scan, queue, setup>>

Control ==
    /\ \/ SetsBot([bot EXCEPT !.running = FALSE])
       \/ SetsBot([bot EXCEPT !.running = FALSE, !.emergency = TRUE])
       \/ SetsBot([bot EXCEPT !.emergency = FALSE])
       \/ \E on \in BOOLEAN : SetsBot([bot EXCEPT !.auto = on])
    /\ UNCHANGED call

\* POST /bot/start: three transactions, and start_bot first reads the breaker.
StartConfigures ==
    /\ "start" \in setup
    /\ call["start"].pc = "rest"
    /\ SetsBot([bot EXCEPT !.auto = TRUE])
    /\ Goto("start", "config")

StartResumes ==
    /\ call["start"].pc = "config"
    /\ SetsBot([bot EXCEPT !.emergency = FALSE])
    /\ Goto("start", "resumed")

StartStarts ==
    /\ call["start"].pc = "resumed"
    /\ \E unread \in BOOLEAN :
         SetsBot([bot EXCEPT !.running = block # "breaker" \/ unread])
    /\ \E age \in Ages : call' = [call EXCEPT !["start"] =
         [Resting EXCEPT !.pc = "scanning", !.age = age]]

\* The watchdog and the breaker, which other modules model.
BlockChanges ==
    /\ block' \in {"none", "watchdog", "breaker"} \ {block}
    /\ UNCHANGED <<bot, market, looping, scan, queue, call, entered, setup>>

-----------------------------------------------------------------------------
(* Scanning.                                                               *)

\* One turn of auto_scanner_loop; an emergency stop pauses it.
LoopTurns ==
    /\ looping
    /\ scan.by # "auto"
    /\ ~bot.emergency
    /\ IF ~market
         THEN looping' = FALSE /\ UNCHANGED <<scan, queue>>
         ELSE /\ UNCHANGED looping
              /\ IF scan.by = "none"
                   THEN /\ \E age \in Ages : scan' = [by |-> "auto", age |-> age]
                        /\ UNCHANGED queue
                   ELSE queue' = Result(0, 0) /\ UNCHANGED scan
    /\ UNCHANGED <<bot, block, market, call, entered, setup>>

\* POST /scanner/run; refused while a scan runs.
ManualScan ==
    /\ scan.by = "none"
    /\ scan' = [NoScan EXCEPT !.by = "manual"]
    /\ UNCHANGED <<bot, block, market, looping, queue, call, entered, setup>>

\* run_scan: tickers there or not, any number of signals, or an error.
Scanned(n) == market' \in BOOLEAN /\ n \in IF market' THEN 0 .. MaxSignals ELSE {0}

\* execute_backend_scan returns and the automatic result replaces the last.
ScanEnds ==
    /\ scan.by \in {"auto", "manual"}
    /\ scan' = NoScan
    /\ \E n \in 0 .. MaxSignals :
         /\ Scanned(n)
         /\ queue' = IF scan.by = "auto" THEN Result(n, scan.age) ELSE queue
    /\ UNCHANGED <<bot, block, looping, call, entered, setup>>

\* Mutant of ScanRaises: the running flag is not released.
ScanRaisesHolding ==
    /\ scan.by # "none"
    /\ scan' = [NoScan EXCEPT !.by = "gone"]
    /\ UNCHANGED <<bot, block, market, looping, queue, call, entered, setup>>

\* Its error path raises: the flag is released, nothing is queued.
ScanRaises ==
    /\ scan.by \in {"auto", "manual"}
    /\ scan' = NoScan
    /\ UNCHANGED <<bot, block, market, looping, queue, call, entered, setup>>

\* /bot/start scans on its own, outside execute_backend_scan and its flag.
StartScans ==
    /\ call["start"].pc = "scanning"
    /\ \E n \in 0 .. MaxSignals :
         /\ Scanned(n)
         /\ call' = [call EXCEPT !["start"] =
              IF n = 0 THEN Resting ELSE [@ EXCEPT !.pc = "gate", !.left = n]]
    /\ UNCHANGED <<bot, block, looping, scan, queue, entered, setup>>

-----------------------------------------------------------------------------
(* From a result to the orders.                                            *)

\* The trading loop takes the result of the queue.
WorkerTakes ==
    /\ "worker" \in setup
    /\ call["worker"].pc = "rest"
    /\ queue # Empty
    /\ queue' = Empty
    /\ call' = [call EXCEPT !["worker"] =
         IF queue.left = 0 THEN Resting
         ELSE [Resting EXCEPT !.pc = "gate", !.left = queue.left,
                              !.age = queue.age]]
    /\ UNCHANGED <<bot, block, market, looping, scan, entered, setup>>

\* POST /execute: one signal, of any age, and no age is asked for.
OperatorExecutes ==
    /\ "operator" \in setup
    /\ call["operator"].pc = "rest"
    /\ Goto("operator", "check")
    /\ UNCHANGED <<bot, block, market, looping, scan, queue, entered, setup>>

\* can_execute reads the row ...
ReadsRow(c) ==
    /\ call[c].pc \in {"gate", "check"}
    /\ IF RowOpen(bot)
         THEN Goto(c, IF call[c].pc = "gate" THEN "gated" ELSE "checked")
         ELSE call' = [call EXCEPT ![c] =
                IF @.pc = "gate" \/ @.left = 0 THEN Resting
                                               ELSE [@ EXCEPT !.pc = "next"]]
    /\ UNCHANGED <<bot, block, market, looping, scan, queue, entered, setup>>

\* ... and then the blocks; an unreadable breaker reads as off.
ReadsBlocks(c) ==
    /\ call[c].pc \in {"gated", "checked"}
    /\ \E unread \in BOOLEAN :
         call' = [call EXCEPT ![c] =
           IF block = "none" \/ (block = "breaker" /\ unread)
             THEN [@ EXCEPT !.pc = IF call[c].pc = "gated" THEN "next" ELSE "quote"]
             ELSE IF @.pc = "gated" \/ @.left = 0 THEN Resting
                                                  ELSE [@ EXCEPT !.pc = "next"]]
    /\ UNCHANGED <<bot, block, market, looping, scan, queue, entered, setup>>

\* Mutant of Picks: the batch was let through, its signals are not checked.
PicksUnchecked(c) ==
    /\ call[c].pc = "next"
    /\ call' = [call EXCEPT ![c] =
         IF @.left = 0 THEN Resting
         ELSE [@ EXCEPT !.left = call[c].left - 1, !.ttl = 0, !.pc = "quote"]]
    /\ UNCHANGED <<bot, block, market, looping, scan, queue, entered, setup>>

\* The next signal of the batch; the trading loop skips a stale one.
Picks(c) ==
    /\ call[c].pc = "next"
    /\ call' = [call EXCEPT ![c] =
         IF @.left = 0 THEN Resting
         ELSE [@ EXCEPT !.left = call[c].left - 1, !.ttl = 0,
                 !.pc = IF c = "worker" /\ call[c].age > MaxAge THEN "next"
                                                                ELSE "check"]]
    /\ UNCHANGED <<bot, block, market, looping, scan, queue, entered, setup>>

Over(c) == call' = [call EXCEPT ![c] =
    IF @.left = 0 THEN Resting ELSE [@ EXCEPT !.pc = "next", !.ttl = 0]]

\* Mutant of Approves: the age was looked at when the signal was picked.
ApprovesAnyAge(c) ==
    /\ call[c].pc = "quote"
    /\ call' = [call EXCEPT ![c].pc = "approved", ![c].ttl = Ttl]
    /\ UNCHANGED <<bot, block, market, looping, scan, queue, entered, setup>>

\* The account, the quote and the rules allow it: issue_execution_approval.
Approves(c) ==
    /\ call[c].pc = "quote"
    /\ c # "operator" => call[c].age <= MaxAge
    /\ call' = [call EXCEPT ![c].pc = "approved", ![c].ttl = Ttl]
    /\ UNCHANGED <<bot, block, market, looping, scan, queue, entered, setup>>

\* Any refusal or failed call on the way ends this signal.
Refused(c) ==
    /\ call[c].pc \in {"check", "quote", "approved"}
    /\ Over(c)
    /\ UNCHANGED <<bot, block, market, looping, scan, queue, entered, setup>>

\* Sized, verify_risk_approval with consume, reserved.
Enters(c) ==
    /\ call[c].pc = "approved"
    /\ call[c].ttl > 0
    /\ entered' = [entered EXCEPT ![c] =
         IF RowOpen(bot) \/ @ = 2 THEN @ ELSE @ + 1]
    /\ Over(c)
    /\ UNCHANGED <<bot, block, market, looping, scan, queue, setup>>

Tick ==
    /\ scan' = IF scan.by = "auto" THEN [scan EXCEPT !.age = Older(@)] ELSE scan
    /\ queue' = IF queue.left > 0 THEN [queue EXCEPT !.age = Older(@)] ELSE queue
    /\ call' = [c \in Caller |->
         IF call[c].pc \in {"rest", "config", "resumed"} \/ c = "operator"
           THEN [call[c] EXCEPT !.ttl = IF @ > 0 THEN @ - 1 ELSE 0]
           ELSE [call[c] EXCEPT !.age = Older(@),
                                !.ttl = IF @ > 0 THEN @ - 1 ELSE 0]]
    /\ UNCHANGED <<bot, block, market, looping, entered, setup>>

\* The row survives; queue, flags, block and calls do not.
Restarts ==
    /\ block' = IF block = "watchdog" THEN "none" ELSE block
    /\ market' = TRUE
    /\ looping' = TRUE
    /\ scan' = NoScan
    /\ queue' = Empty
    /\ call' = [c \in Caller |-> Resting]
    /\ UNCHANGED <<bot, entered, setup>>

Serves(c) ==
    ReadsRow(c) \/ ReadsBlocks(c) \/ Picks(c) \/ Approves(c) \/ Refused(c) \/ Enters(c)

Next ==
    \/ Control
    \/ StartConfigures \/ StartResumes \/ StartStarts \/ StartScans
    \/ BlockChanges
    \/ LoopTurns \/ ManualScan \/ ScanEnds \/ ScanRaises
    \/ WorkerTakes \/ OperatorExecutes
    \/ \E c \in Caller : Serves(c)
    \/ Tick
    \/ Restarts

Spec == Init /\ [][Next]_vars

\* The loops are tasks of one process and their scans end, one way or the
\* other: every call of the exchange client has a timeout.
FairSpec ==
    /\ Spec
    /\ WF_vars(LoopTurns) /\ WF_vars(ScanEnds \/ ScanRaises)
    /\ WF_vars(WorkerTakes \/ Serves("worker"))

-----------------------------------------------------------------------------
(* Properties.                                                             *)

\* Emergency stop, stop and auto-trading off let each caller place at most
\* the one order it was already working on, however many signals its batch
\* still has and whatever is pressed meanwhile.
OneLateEntry ==
    ~RowOpen(bot) => \A c \in Caller : entered[c] <= 1

\* An automatic order is never built on a signal older than the age limit and
\* the life of one approval together, wherever the time went: in the scan, in
\* the queue, behind other signals of the batch or in the preflight.
FreshEntries ==
    [][\A c \in {"worker", "start"} :
         Enters(c) => call[c].age < MaxAge + Ttl]_vars

\* While the tickers keep coming, no failed, crashed or refused scan keeps
\* the scanner from starting another one.
ScannerRecovers ==
    []market /\ <>[](~bot.emergency /\ scan.by # "manual")
        => []<>(scan.by = "auto")
=============================================================================

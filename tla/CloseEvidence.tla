--------------------------- MODULE CloseEvidence ---------------------------
(***************************************************************************)
(* How a close gets its price and its profit: the exchange's two ledgers,  *)
(* closed P&L and transaction log, which show a fill some time after it    *)
(* happened, and the four passes that copy them into the journal:          *)
(* reconciliation's exact close or, an hour later, its estimate            *)
(* (app/close_fill_sync.py, app/authoritative_reconciliation.py), the      *)
(* partial-close sync (app/risk_sync.py), the repair of incomplete rows    *)
(* and the lifecycle backfill (app/exchange_journal_backfill.py).          *)
(*                                                                         *)
(* One symbol and one direction, trades one after the other, quantities in *)
(* lots.  A ledger record is the index of its fill in book.                *)
(***************************************************************************)
EXTENDS Integers, Sequences, FiniteSets, FiniteSetsExt

CONSTANTS
    Lots,      \* quantity of an entry
    MaxLag     \* bound: fills a ledger does not show yet

ASSUME EvidenceAssumption == {Lots, MaxLag} \subseteq Nat \ {0}

VARIABLES
    book,      \* the fills of the symbol
    logged,    \* how many of them the transaction log shows
    priced,    \* how far the closed P&L reaches
    today,     \* fills before the BDT day the open trade closes on
    row,       \* the journal row of each trade
    mem,       \* the open trade's entry in the list of active trades
    ledger,    \* rows created by the backfill: the fills each was built from
    elapsed,   \* the retry window of the open trade is over
    late,      \* history: a sync has written over the closed row
    actor      \* progress and local values

vars == <<book, logged, priced, today, row, mem, ledger, elapsed, late, actor>>

\* One that is over, and the one that is open or closing.
Old == 1
Now == 2
Trades == {Old, Now}

\* The worker's iteration and the websocket's reconciliation task.
Actor == {"worker", "socket"}
Index == 1 .. Len(book)

LotsIn(S) == Cardinality({p \in S \X (1 .. Lots) : p[2] <= book[p[1]].lots})
FillsOf(t)  == {i \in Index : book[i].trade = t}
ClosesOf(t) == {i \in FillsOf(t) : ~book[i].open}
Lagging == Len(book) - Min({logged, priced})

Held(t) == LotsIn(FillsOf(t) \ ClosesOf(t)) - LotsIn(ClosesOf(t))
Position == Held(Now)

\* _trade_exchange_identity: close orders are known by their ids (native
\* profit orders from the entry on, a manual close), or none is; partial: risk
\* progress; since: close_pending_since; keys: record_keys of close_sync.
Blank == [status |-> "none", qty |-> 0, counts |-> {}, estimate |-> FALSE,
          ids |-> FALSE, partial |-> FALSE, since |-> FALSE, keys |-> {}]

Blocking(r)   == r.status \in {"active", "pending"}
Incomplete(r) == r.counts = {} /\ ~r.estimate
Listed == mem.status = "active"

\* copy: the open trade as the pass read it.
Resting == [pc |-> "rest", size |-> 0, seen |-> 0, next |-> 0, copy |-> Blank]

Goto(a, pc) == actor' = [actor EXCEPT ![a] = [Resting EXCEPT !.pc = pc]]

Reads(a, pc, r, seen) ==
    actor' = [actor EXCEPT ![a] = [Resting EXCEPT !.pc = pc, !.copy = r, !.seen = seen]]

Rows == [status : {"none", "active", "pending", "closed"}, qty : 0 .. Lots,
         counts : SUBSET Index, estimate : BOOLEAN, ids : BOOLEAN,
         partial : BOOLEAN, since : BOOLEAN, keys : SUBSET Index]

TypeOK ==
    /\ book \in Seq([trade : Trades, open : BOOLEAN, lots : 1 .. Lots,
                     known : BOOLEAN])
    /\ {logged, priced} \subseteq 0 .. Len(book)
    /\ today \in {0, 3}
    /\ \A t \in Trades : row[t] \in Rows
    /\ mem \in Rows
    /\ \A L \in ledger : L \subseteq Index
    /\ {elapsed, late} \subseteq BOOLEAN
    /\ \A a \in Actor :
         /\ actor[a].pc \in {"rest", "match", "settle", "publish", "settled",
                             "sync", "synced", "repair", "repaired", "backfill"}
         /\ actor[a].size \in 0 .. Lots
         /\ {actor[a].seen, actor[a].next} \subseteq 0 .. Len(book)
         /\ actor[a].copy \in Rows
    /\ Position \in 0 .. Lots

Fill(t, open, n, known) == [trade |-> t, open |-> open, lots |-> n, known |-> known]

\* One trade is over, for the ledgers and every pass have caught up before the
\* re-entry cooldown ended: the backfill has closed its row with the log's
\* records, or has added one of its own to a row closed on closed P&L.  The
\* next has just been entered, with native profit orders or without.
Init ==
    /\ book = <<Fill(Old, TRUE, Lots, TRUE), Fill(Old, FALSE, Lots, FALSE),
                Fill(Now, TRUE, Lots, TRUE)>>
    /\ logged = 2 /\ priced = 2
    /\ \E keys \in {{}, {1, 2}}, native \in BOOLEAN :
         /\ row = <<[Blank EXCEPT !.status = "closed", !.qty = Lots, !.keys = keys,
                       !.counts = IF keys = {} THEN {2} ELSE keys],
                    [Blank EXCEPT !.status = "active", !.qty = Lots, !.ids = native]>>
         /\ mem = row[Now]
         /\ ledger = {{1, 2}} \ {keys}
         /\ today \in IF keys = {} THEN {0} ELSE {0, 3}
    /\ elapsed = FALSE
    /\ late = FALSE
    /\ actor = [a \in Actor |-> Resting]

-----------------------------------------------------------------------------
(* The exchange.                                                           *)

\* A target or the stop closes some of it: native targets have ids the row
\* knows, the stop has not.
Closes ==
    /\ Lagging < MaxLag
    /\ \E n \in 1 .. Position, known \in {FALSE, row[Now].ids} :
         book' = Append(book, Fill(Now, FALSE, n, known))
    /\ UNCHANGED <<logged, priced, today, row, mem, ledger, elapsed, late, actor>>

\* A status and the copy's metadata; the profit columns are not written.
Noted(r, status) ==
    [r EXCEPT !.status = status, !.qty = row[Now].qty, !.counts = row[Now].counts,
              !.estimate = row[Now].estimate]

\* POST /active-trades/{id}/market-close leaves its ids in the list and, with
\* the list's metadata, in the row.
ClosesByHand ==
    /\ Position > 0 /\ Lagging < MaxLag
    /\ row[Now].status = "active"
    /\ book' = Append(book, Fill(Now, FALSE, Position, TRUE))
    /\ row' = [row EXCEPT ![Now] =
                 [Noted(IF Listed THEN mem ELSE @, "active") EXCEPT !.ids = TRUE]]
    /\ mem' = [mem EXCEPT !.ids = Listed]
    /\ UNCHANGED <<logged, priced, today, ledger, elapsed, late, actor>>

Logs ==
    /\ logged < Len(book)
    /\ logged' = logged + 1
    /\ UNCHANGED <<book, priced, today, row, mem, ledger, elapsed, late, actor>>

Prices ==
    /\ priced < Len(book)
    /\ priced' = priced + 1
    /\ UNCHANGED <<book, logged, today, row, mem, ledger, elapsed, late, actor>>

\* reconciliation_retry_window_seconds after close_pending_since.
WindowPasses ==
    /\ row[Now].since /\ ~elapsed
    /\ elapsed' = TRUE
    /\ UNCHANGED <<book, logged, priced, today, row, mem, ledger, late, actor>>

-----------------------------------------------------------------------------
(* Close evidence for a row.                                               *)

\* Mutant of Target: the quantity column, which partial closes lower.
TargetRemaining(r) == r.qty

\* _initial_quantity: the largest of the row's quantity and the managed one.
Target(r) == IF r.qty > Lots THEN r.qty ELSE Lots

\* Mutant of Candidates: records from before the trade was opened.
CandidatesAnyTime(r, reach) ==
    {i \in 1 .. reach : ~book[i].open /\ (r.ids => book[i].known)}

\* Close records of the side, since opened_at, of the known orders if any is.
Candidates(r, reach) ==
    {i \in 1 .. reach :
       /\ ~book[i].open
       /\ \E j \in FillsOf(Now) : book[j].open /\ j < i
       /\ r.ids => book[i].known}

\* Taken oldest first, they add up to the whole quantity, or there is nothing.
Wholes(r, reach) ==
    LET C == Candidates(r, reach)
    IN  {S \in {{i \in C : i <= j} : j \in C} : LotsIn(S) = Target(r)}

\* fetch_exact_close_result: closed P&L, or else the log with the entry.
Evidence(r, pnl, log) ==
    LET fromPnl == {[counts |-> S, keyed |-> FALSE] : S \in Wholes(r, pnl)}
        entry   == FillsOf(Now) \ ClosesOf(Now)
    IN  IF fromPnl # {} THEN fromPnl
        ELSE {[counts |-> S \cup entry, keyed |-> TRUE] : S \in Wholes(r, log)}

\* The row after an exact close: its metadata is that of the copy it was
\* found with, its close_sync the new one.
Closed(r, e) ==
    [r EXCEPT !.status = "closed", !.counts = e.counts, !.estimate = FALSE,
              !.keys = IF e.keyed THEN e.counts ELSE {}, !.qty = row[Now].qty]

-----------------------------------------------------------------------------
(* Reconciliation, under its lock.                                         *)

\* _dedupe_candidates: of the list's entry and an unresolved row, the row.
Candidate == IF Blocking(row[Now]) THEN row[Now] ELSE mem

ReconcileReads(a) ==
    /\ actor[a].pc = "rest"
    /\ \A b \in Actor : actor[b].pc \notin {"match", "settle", "publish"}
    /\ IF Blocking(Candidate) THEN Reads(a, "match", Candidate, 0) ELSE Goto(a, "settled")
    /\ UNCHANGED <<book, logged, priced, today, row, mem, ledger, elapsed, late>>

\* safe_fetch_positions.
ReconcileSees(a) ==
    /\ actor[a].pc = "match"
    /\ actor' = [actor EXCEPT ![a].pc = "settle", ![a].size = Position]
    /\ UNCHANGED <<book, logged, priced, today, row, mem, ledger, elapsed, late>>

\* Mutant of Merged: the position is added to the row's quantity.
MergedTwice(r, size) == [Noted(r, "active") EXCEPT !.qty = @ + size]

\* _merge_position: the row follows the position.
Merged(r, size) == [Noted(r, "active") EXCEPT !.qty = size]

\* Mutant of Unmatched: after the window the row is closed as it stands.
UnmatchedUnmarked(r, pnl, log) ==
    LET E == Evidence(r, pnl, log)
    IN  IF E # {} THEN Closed(r, CHOOSE e \in E : TRUE)
        ELSE IF r.since /\ elapsed THEN Noted(r, "closed")
          ELSE [Noted(r, "pending") EXCEPT !.since = TRUE]

\* No position: the exact close, the estimate after the window, or pending.
Unmatched(r, pnl, log) ==
    LET E == Evidence(r, pnl, log)
    IN  IF E # {} THEN Closed(r, CHOOSE e \in E : TRUE)
        ELSE IF r.since /\ elapsed
          THEN [Noted(r, "closed") EXCEPT !.counts = {}, !.estimate = TRUE]
          ELSE [Noted(r, "pending") EXCEPT !.since = TRUE]

\* What becomes of the candidate in the list.
Entry(r, size) ==
    IF size > 0 THEN [r EXCEPT !.status = "active", !.qty = size] ELSE Blank

\* The candidate takes the position or is settled.  Either query may fail; the
\* second is only made when the first has nothing.  close_trade takes an exact
\* close off the list at once.
ReconcileSettles(a) ==
    LET me == actor[a]
    IN  /\ me.pc = "settle"
        /\ \E pnl \in {0, priced}, log \in {0, logged} :
             /\ row' = [row EXCEPT ![Now] =
                          IF me.size > 0 THEN Merged(me.copy, me.size)
                          ELSE Unmatched(me.copy, pnl, log)]
             /\ mem' = IF me.size = 0 /\ Evidence(me.copy, pnl, log) # {}
                         THEN Blank ELSE mem
        /\ elapsed' = (elapsed /\ me.copy.since)
        /\ Reads(a, "publish", Entry(me.copy, me.size), 0)
        /\ UNCHANGED <<book, logged, priced, today, ledger, late>>

\* replace_active_trades.
ReconcilePublishes(a) ==
    /\ actor[a].pc = "publish"
    /\ mem' = actor[a].copy
    /\ Goto(a, "settled")
    /\ UNCHANGED <<book, logged, priced, today, row, ledger, elapsed, late>>

-----------------------------------------------------------------------------
(* sync_partial_realized_pnl.                                              *)

\* _aggregate_progress_with_error: whatever of the side closed since.
Progress(seen) == {i \in ClosesOf(Now) : i <= seen}

\* Mutant of HasEvidence: the quantity is not compared.
HasEvidenceByOrder(r) == r.partial \/ \E i \in ClosesOf(Now) : r.ids /\ book[i].known

\* _has_partial_close_evidence: earlier progress, a target done or filled, or
\* a quantity below the initial one.
HasEvidence(r) ==
    r.partial \/ r.qty < Lots \/ \E i \in ClosesOf(Now) : r.ids /\ book[i].known

\* The worker goes on to the next pass, the socket waits for a message.
After(a, pc) == IF a = "worker" THEN pc ELSE "rest"

\* Closed P&L of the trade if it is listed and shows signs of a partial close;
\* the socket only syncs when an execution message woke it.
SyncReads(a) ==
    /\ actor[a].pc = "settled"
    /\ IF Listed /\ HasEvidence(mem)
         THEN Reads(a, "sync", mem, priced) ELSE Goto(a, After(a, "synced"))
    /\ UNCHANGED <<book, logged, priced, today, row, mem, ledger, elapsed, late>>

SyncSkips ==
    /\ actor["socket"].pc = "settled"
    /\ Goto("socket", "rest")
    /\ UNCHANGED <<book, logged, priced, today, row, mem, ledger, elapsed, late>>

\* Progress the copy does not have.
IsNews(r, S) ==
    /\ S # {} /\ LotsIn(S) <= Lots
    /\ ~r.partial \/ r.counts # S \/ r.qty # Lots - LotsIn(S)

\* It is written over the copy's metadata, close_sync included.
Synced(r, S, status) ==
    [r EXCEPT !.status = status, !.qty = Lots - LotsIn(S), !.counts = S,
              !.estimate = FALSE, !.partial = TRUE]

\* To the row, whatever has become of it, and to the list if it is still there.
SyncWrites(a) ==
    LET me == actor[a]
        S == Progress(me.seen)
    IN  /\ me.pc = "sync"
        /\ IF IsNews(me.copy, S)
             THEN /\ row' = [row EXCEPT ![Now] = Synced(me.copy, S, @.status)]
                  /\ mem' = IF Listed THEN Synced(me.copy, S, "active") ELSE mem
                  /\ late' = (late \/ row[Now].status = "closed")
             ELSE UNCHANGED <<row, mem, late>>
        /\ Goto(a, After(a, "synced"))
        /\ UNCHANGED <<book, logged, priced, today, ledger, elapsed>>

-----------------------------------------------------------------------------
(* repair_incomplete_journal_closes.                                       *)

RepairReads ==
    /\ actor["worker"].pc = "synced"
    /\ IF row[Now].status \in {"closed", "pending"} /\ Incomplete(row[Now])
         THEN Reads("worker", "repair", row[Now], 0) ELSE Goto("worker", "repaired")
    /\ UNCHANGED <<book, logged, priced, today, row, mem, ledger, elapsed, late>>

\* By the transaction log alone.
Repaired(r) ==
    LET E == Evidence(r, 0, logged)
    IN  IF E # {} THEN Closed(r, CHOOSE e \in E : TRUE) ELSE row[Now]

RepairWrites ==
    /\ actor["worker"].pc = "repair"
    /\ row' = [row EXCEPT ![Now] = Repaired(actor["worker"].copy)]
    /\ Goto("worker", "repaired")
    /\ UNCHANGED <<book, logged, priced, today, mem, ledger, elapsed, late>>

-----------------------------------------------------------------------------
(* backfill_exchange_journal_lifecycle.                                    *)

\* The day's log.
BackfillFetches ==
    /\ actor["worker"].pc = "repaired"
    /\ actor' = [actor EXCEPT !["worker"] =
         [Resting EXCEPT !.pc = "backfill", !.seen = logged]]
    /\ UNCHANGED <<book, logged, priced, today, row, mem, ledger, elapsed, late>>

Flat(k) == LotsIn({i \in 1 .. k : book[i].open}) = LotsIn({i \in 1 .. k : ~book[i].open})

\* The lifecycles of a stretch of the log: from an entry to the close that
\* leaves no quantity; closes whose entry is not in it are orphans.
Lifecycles(from, to) ==
    {L \in {i .. k : i \in {i \in (from + 1) .. to : book[i].open},
                     k \in {k \in (from + 1) .. to : Flat(k)}} :
       L # {} /\ \A k \in L : Flat(k) => k = Max(L)}

\* The first one after the last one handled.
Upcoming(from, to, after) ==
    LET Left == {L \in Lifecycles(from, to) : after < Min(L)}
    IN  {L \in Left : \A K \in Left : Min(L) <= Min(K)}

OpenedIn(L) == LotsIn({i \in L : book[i].open})

\* _match_existing_row: a shared record key, or else the only blocking row of
\* that quantity.  (A row's order id is never a transaction's.)
MatchedRows(L) ==
    LET keyed == {t \in Trades : row[t].keys \cap L # {}}
        open  == {t \in Trades : Blocking(row[t])}
    IN  IF keyed # {} THEN keyed
        ELSE IF Cardinality(open) = 1 THEN {t \in open : row[t].qty = OpenedIn(L)}
        ELSE {}

\* merge_backfill_updates: the row is closed with the lifecycle's records,
\* unless it is already.
Finalized(r, L) ==
    IF r.status = "closed" /\ L \subseteq r.keys THEN r
    ELSE [r EXCEPT !.status = "closed", !.counts = L, !.estimate = FALSE,
                   !.keys = r.keys \cup L]

\* The next lifecycle of the pass: skipped, its row closed, or a new row.
\* The rows were read after the log; nothing but the database lies between.
BackfillHandles ==
    /\ actor["worker"].pc = "backfill"
    /\ \E L \in Upcoming(today, actor["worker"].seen, actor["worker"].next) :
         /\ \/ /\ \E K \in ledger : K \cap L # {}
               /\ UNCHANGED <<row, ledger>>
            \/ /\ \A K \in ledger : K \cap L = {}
               /\ MatchedRows(L) = {}
               /\ ledger' = ledger \cup {L} /\ UNCHANGED row
            \/ /\ \A K \in ledger : K \cap L = {}
               /\ \E t \in MatchedRows(L) :
                    row' = [row EXCEPT ![t] = Finalized(@, L)]
               /\ UNCHANGED ledger
         /\ actor' = [actor EXCEPT !["worker"].next = Max(L)]
    /\ UNCHANGED <<book, logged, priced, today, mem, elapsed, late>>

BackfillEnds ==
    /\ actor["worker"].pc = "backfill"
    /\ Upcoming(today, actor["worker"].seen, actor["worker"].next) = {}
    /\ Goto("worker", "rest")
    /\ UNCHANGED <<book, logged, priced, today, row, mem, ledger, elapsed, late>>

-----------------------------------------------------------------------------

ReconcileGoesOn(a) ==
    ReconcileSees(a) \/ ReconcileSettles(a) \/ ReconcilePublishes(a)

WorkerStep ==
    \/ ReconcileReads("worker") \/ ReconcileGoesOn("worker")
    \/ SyncReads("worker") \/ SyncWrites("worker")
    \/ RepairReads \/ RepairWrites
    \/ BackfillFetches \/ BackfillHandles \/ BackfillEnds

SocketGoesOn ==
    \/ ReconcileGoesOn("socket")
    \/ SyncReads("socket") \/ SyncSkips \/ SyncWrites("socket")

TimePasses == Logs \/ Prices \/ WindowPasses

Next ==
    \/ Closes \/ ClosesByHand
    \/ TimePasses
    \/ WorkerStep
    \/ ReconcileReads("socket") \/ SocketGoesOn

Spec == Init /\ [][Next]_vars

\* The ledgers show every fill in the end and the window passes, the loop goes
\* on, and whoever holds the lock lets go of it.  Nobody has to trade.
FairSpec ==
    /\ Spec
    /\ WF_vars(TimePasses)
    /\ WF_vars(WorkerStep) /\ SF_vars(ReconcileReads("worker"))
    /\ WF_vars(SocketGoesOn)

-----------------------------------------------------------------------------
(* Properties.                                                             *)

\* The profit of a row is made of its own trade's fills, whichever pass put it
\* there, and a row the backfill created describes one trade.
EvidenceIsOwn ==
    /\ \A t \in Trades : row[t].counts \cup row[t].keys \subseteq FillsOf(t)
    /\ \A L \in ledger : \E t \in Trades : L = FillsOf(t)

\* "it prevents a partial close from being accepted as a complete close"
\* (close_fill_sync.py): a row is closed on exchange evidence only with all of
\* the trade's closes, although partial closes lower its quantity, ledgers
\* lag, and other passes write the same row.
CloseIsWhole ==
    [][row[Now].status # "closed" /\ row'[Now].status = "closed"
         /\ ~row'[Now].estimate
           => LotsIn({i \in row'[Now].counts : ~book[i].open}) = Lots]_vars

\* While a runner stays open, its row ends up with the remaining quantity and
\* the profit of exactly what was closed.
PartialsSettle ==
    <>[](Position > 0 /\ ClosesOf(Now) # {} =>
           row[Now].counts = ClosesOf(Now) /\ row[Now].qty = Position)

\* A trade without a position ends closed for good, whoever writes late, and
\* with all of its closes in the profit or with the estimate, unless a sync has
\* written its partial figures over the closed row.
ClosesSettle ==
    <>[](Position = 0 =>
           /\ row[Now].status = "closed"
           /\ row[Now].estimate \/ late \/ ClosesOf(Now) \subseteq row[Now].counts)
=============================================================================

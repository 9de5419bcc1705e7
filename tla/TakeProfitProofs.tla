-------------------------- MODULE TakeProfitProofs --------------------------
(***************************************************************************)
(* Proofs about the three writers of one trade's management state, for any *)
(* quantity, tolerances, levels, prices and number of failed calls: what   *)
(* the record says of protection and of completed stages is so, and the    *)
(* polling loop never duplicates a live native order.                      *)
(***************************************************************************)
EXTENDS TakeProfit, WellFoundedInduction, TLAPS

-----------------------------------------------------------------------------
(* The invariant.                                                          *)

Intact == \A k \in Stages : order[k] # "cancelled"

\* Quantities are compared with the quantity step, or with the price tick.
Slack == Better(Step, Tick)

\* What a copy of the management state says of the trade is so.
Protected(m) == profile = "scalping" /\ m.be => stop >= BreakEven

Taken(m) ==
    Intact => /\ m.tp1 => Shrunk(Q1, Slack)
              /\ m.tp2 => Shrunk(Q1 + Q2, Slack)
              /\ \A k \in Stages : m.seen[k] = "filled" => order[k] = "filled"

Owned(m) == Intact /\ start = "installed" => m.native /\ ~m.degraded

CopyTrue(m) == Protected(m) /\ Taken(m) /\ Owned(m)

\* TP2 never fills before TP1, unless TP1 was cancelled.
OrdersCount ==
    /\ order[2] \in {"live", "filled"} => order[1] # "none"
    /\ Intact => /\ order[1] = "filled" => size <= Initial - Q1
                 /\ order[2] = "filled" => size <= Initial - (Q1 + Q2)

EntrySound == entry = "tp2" => order[1] # "none"

\* A stop that somebody is about to ask for.
StopHolds(s) == profile = "scalping" /\ s # None => s >= BreakEven

\* Stages inferred from a size that has only become smaller since.
StagesHold(S) ==
    Intact => /\ 1 \in S => Shrunk(Q1, Slack)
              /\ 2 \in S => Shrunk(Q1 + Q2, Slack)

Reading == {"adopt", "adopt2", "early", "tp1", "tp2"}

WatchSound ==
    /\ watch.pc \notin {"idle", "guard"} => CopyTrue(watch.m)
    /\ StopHolds(watch.stop)
    /\ watch.pc = "adopt2" => order[1] # "none"
    /\ watch.pc \in Reading =>
         /\ 2 \in watch.stages => ~watch.m.tp2
         /\ ~watch.m.tp2 => watch.stop # None
         /\ StagesHold(watch.stages)
    /\ watch.pc = "tp2" => 2 \in watch.stages
    /\ watch.pc = "protect" => watch.stop # None

Moves == {"break_even", "trailing", "lock", "trail", "tp1", "tp2"}

ManagerSound ==
    /\ manager.pc # "idle" => CopyTrue(manager.m)
    /\ StopHolds(manager.stop)
    /\ manager.pc = "act" => manager.act \in {"full_close"} \cup Moves
    /\ manager.pc = "protect" => manager.act \in {"tp1", "tp2"}
    /\ manager.act \in Moves => manager.stop # None
    /\ manager.act = "tp2" => manager.m.tp1
    /\ manager.act \in {"tp1", "tp2"} /\ start = "installed" => ~Intact

\* The types, in parts.
Scenario == \E scenario \in Scenarios : /\ profile = scenario[1] /\ start = scenario[2]
                                        /\ faults \in 0 .. scenario[3]

ExchangeTyped ==
    size \in 0 .. Initial /\ mark \in Prices /\ stop \in Stops /\ order \in [Stages -> Statuses]

TradeTyped == trade \in [m : Management, ref : Stops]
EntryTyped == entry \in {"tp1", "tp2", "save", "done"}

WatchTyped ==
    watch \in [pc : {"idle", "adopt", "adopt2", "early", "tp1", "tp2", "save", "guard",
                     "protect", "guardsave"},
               m : Management, stop : Stops \cup {None}, stages : SUBSET Stages,
               changed : BOOLEAN]

ManagerTyped ==
    manager \in [pc : {"idle", "act", "protect", "save"}, m : Management, act : Acts,
                 stop : Stops \cup {None}]

\* Who holds which part: the exchange, the record, and the three writers.
ExchangeInv == Scenario /\ ExchangeTyped /\ OrdersCount
TradeInv == TradeTyped /\ CopyTrue(trade.m)
EntryInv == EntryTyped /\ EntrySound
WatchInv == WatchTyped /\ WatchSound
ManagerInv == ManagerTyped /\ ManagerSound

ProfitInv == ExchangeInv /\ TradeInv /\ EntryInv /\ WatchInv /\ ManagerInv

LEMMA Constants ==
    /\ Initial \in Nat /\ Initial >= 4 /\ Step \in Nat /\ Tick \in Nat /\ Slack \in Nat
    /\ Risk \in Nat /\ Risk > 0 /\ BreakEven \in Nat
    /\ TP1 \in Nat /\ TP2 \in Nat /\ Target \in Nat
    /\ BreakEven < TP1 /\ TP1 < TP2 /\ TP2 < Target
    /\ Prices \subseteq Int /\ None \notin Int
    /\ \A p \in Prices : p <= Target
    /\ Step <= Slack /\ Tick <= Slack
  BY TakeProfitAssumption DEF Slack, Better

LEMMA Quantities ==
    /\ Q1 \in Nat /\ Q2 \in Nat /\ Q1 + Q2 <= Initial /\ Q1 <= Initial /\ Q2 <= Initial
  BY Constants DEF Q1, Q2

LEMMA StopsAre ==
    /\ Floor \in Int /\ Stops \subseteq Int /\ None \notin Stops
    /\ \A s \in Int : s \in Stops <=> Floor <= s /\ s <= Target
    /\ BreakEven \in Stops /\ TP1 \in Stops /\ -Risk \in Stops
  BY Constants DEF Stops, Floor

\* There is a lowest price.
LEMMA LowestPrice == \E p \in Prices : \A q \in Prices : p <= q
  <1> DEFINE S == {n \in Nat : \E p \in Prices : n = p + Risk}
  <1>1. PICK p \in Prices : TRUE
    BY TakeProfitAssumption
  <1>2. p + Risk \in S
    BY <1>1, TakeProfitAssumption
  <1>3. PICK n \in S : \A k \in S : n <= k
    <2>1. S \subseteq Nat /\ S # {}
      BY <1>2
    <2> HIDE DEF S
    <2>2. PICK m \in S : \A k \in S : <<k, m>> \notin OpToRel(<, Nat)
      BY <2>1, WFMin, NatLessThanWellFounded, Zenon
    <2>3. \A k \in S : ~ (k < m)
      BY <2>1, <2>2, Zenon DEF OpToRel
    <2> QED
      BY <2>1, <2>3
  <1>4. PICK l \in Prices : n = l + Risk
    BY <1>3
  <1>5. ASSUME NEW q \in Prices PROVE l <= q
    <2>1. q + Risk \in S
      BY TakeProfitAssumption
    <2>2. n <= q + Risk
      BY <1>3, <2>1
    <2> QED
      BY <1>4, <2>2, Constants
  <1> QED
    BY <1>4, <1>5

LEMMA InvImpliesTypeOK == ProfitInv => TypeOK
  BY DEF ProfitInv, ExchangeInv, TradeInv, EntryInv, WatchInv, ManagerInv, TypeOK,
     Scenario, ExchangeTyped, TradeTyped, EntryTyped, WatchTyped, ManagerTyped

LEMMA InvImpliesProtection == ProfitInv => RecordedProtectionIsReal
  BY DEF ProfitInv, TradeInv, CopyTrue, Protected, RecordedProtectionIsReal

LEMMA InvImpliesStages == ProfitInv /\ Tick <= Step => StagesAreReal
  <1> SUFFICES ASSUME ProfitInv, Tick <= Step, Intact
               PROVE  /\ Open /\ trade.m.tp1 => Shrunk(Q1, Step)
                      /\ Open /\ trade.m.tp2 => Shrunk(Q1 + Q2, Step)
    BY DEF StagesAreReal, Intact
  <1>1. Slack = Step
    BY Constants DEF Slack, Better
  <1> QED
    BY <1>1 DEF ProfitInv, TradeInv, CopyTrue, Taken

-----------------------------------------------------------------------------
(* What a step of the exchange leaves true.                                *)

\* The size only falls, a stop of a scalping trade at break-even does not go
\* back below it, and fills and cancellations are final.
Moved ==
    /\ profile' = profile /\ start' = start
    /\ size \in Int /\ size' \in Int /\ size' <= size
    /\ profile = "scalping" /\ stop >= BreakEven => stop' >= BreakEven
    /\ Intact' => Intact
    /\ \A k \in Stages : order[k] = "filled" => order'[k] = "filled"
    /\ order[1] # "none" => order'[1] # "none"

\* CopyTrue and StagesHold of a value, in the next state.
CopyNext(m) ==
    /\ profile' = "scalping" /\ m.be => stop' >= BreakEven
    /\ Intact' => /\ m.tp1 => size' <= Initial - Q1 + Slack
                  /\ m.tp2 => size' <= Initial - (Q1 + Q2) + Slack
                  /\ \A k \in Stages : m.seen[k] = "filled" => order'[k] = "filled"
    /\ Intact' /\ start' = "installed" => m.native /\ ~m.degraded

StagesNext(S) ==
    Intact' => /\ 1 \in S => size' <= Initial - Q1 + Slack
               /\ 2 \in S => size' <= Initial - (Q1 + Q2) + Slack

LEMMA CopyMoves ==
    ASSUME Moved, NEW m, CopyTrue(m)
    PROVE  CopyNext(m)
  <1>1. profile' = "scalping" /\ m.be => stop' >= BreakEven
    BY DEF Moved, CopyTrue, Protected
  <1>2. ASSUME Intact' PROVE m.tp1 => size' <= Initial - Q1 + Slack
    BY <1>2, Constants, Quantities DEF Moved, CopyTrue, Taken, Shrunk
  <1>3. ASSUME Intact' PROVE m.tp2 => size' <= Initial - (Q1 + Q2) + Slack
    BY <1>3, Constants, Quantities DEF Moved, CopyTrue, Taken, Shrunk
  <1>4. ASSUME Intact', NEW k \in Stages, m.seen[k] = "filled"
        PROVE  order'[k] = "filled"
    BY <1>4 DEF Moved, CopyTrue, Taken
  <1>5. Intact' /\ start' = "installed" => m.native /\ ~m.degraded
    BY DEF Moved, CopyTrue, Owned
  <1> QED
    BY <1>1, <1>2, <1>3, <1>4, <1>5 DEF CopyNext

LEMMA StagesMove ==
    ASSUME Moved, NEW S, StagesHold(S)
    PROVE  StagesNext(S)
  BY Constants, Quantities DEF Moved, StagesHold, StagesNext, Shrunk

LEMMA TradeCopy ==
    ASSUME CopyNext(trade'.m)
    PROVE  CopyTrue(trade.m)'
  BY DEF CopyNext, CopyTrue, Protected, Taken, Owned, Shrunk

LEMMA WatchCopy ==
    ASSUME CopyNext(watch'.m)
    PROVE  CopyTrue(watch.m)'
  BY DEF CopyNext, CopyTrue, Protected, Taken, Owned, Shrunk

LEMMA ManagerCopy ==
    ASSUME CopyNext(manager'.m)
    PROVE  CopyTrue(manager.m)'
  BY DEF CopyNext, CopyTrue, Protected, Taken, Owned, Shrunk

LEMMA WatchStages ==
    ASSUME StagesNext(watch'.stages)
    PROVE  StagesHold(watch.stages)'
  BY DEF StagesNext, StagesHold, Shrunk

LEMMA NoManagementTyped == NoManagement \in Management
  BY DEF NoManagement, Management, Statuses

-----------------------------------------------------------------------------
(* What a writer that does nothing keeps.                                  *)

LEMMA TradeStays ==
    ASSUME TradeInv, Moved, trade'.m = trade.m, trade' \in [m : Management, ref : Stops]
    PROVE  TradeInv'
  <1>1. CopyNext(trade'.m)
    BY CopyMoves DEF TradeInv
  <1> QED
    BY <1>1, TradeCopy DEF TradeInv, TradeTyped

LEMMA TradeWritten ==
    ASSUME TradeInv, Moved, NEW m \in Management, CopyNext(m),
           trade' = [trade EXCEPT !.m = m]
    PROVE  TradeInv'
  <1>1. trade' \in [m : Management, ref : Stops] /\ trade'.m = m
    BY DEF TradeInv, TradeTyped
  <1>2. CopyTrue(trade.m)'
    BY <1>1, TradeCopy
  <1> QED
    BY <1>1, <1>2 DEF TradeInv, TradeTyped

LEMMA EntryStays ==
    ASSUME EntryInv, Moved, entry' = entry
    PROVE  EntryInv'
  BY DEF EntryInv, EntryTyped, EntrySound, Moved

LEMMA WatchStays ==
    ASSUME WatchInv, Moved, watch' = watch
    PROVE  WatchInv'
  <1>1. WatchTyped'
    BY DEF WatchInv, WatchTyped
  <1>2. watch.pc \notin {"idle", "guard"} => CopyTrue(watch.m)'
    BY CopyMoves, WatchCopy DEF WatchInv, WatchSound
  <1>3. StopHolds(watch.stop)'
    BY DEF WatchInv, WatchSound, StopHolds, Moved
  <1>4. watch.pc = "adopt2" => order'[1] # "none"
    BY DEF WatchInv, WatchSound, Moved
  <1>5. watch.pc \in Reading => StagesHold(watch.stages)'
    BY StagesMove, WatchStages DEF WatchInv, WatchSound
  <1>6. /\ watch.pc \in Reading => /\ 2 \in watch.stages => ~watch.m.tp2
                                   /\ ~watch.m.tp2 => watch.stop # None
        /\ watch.pc = "tp2" => 2 \in watch.stages
        /\ watch.pc = "protect" => watch.stop # None
    BY DEF WatchInv, WatchSound
  <1>7. WatchSound'
    BY <1>2, <1>3, <1>4, <1>5, <1>6 DEF WatchSound, Reading
  <1> QED
    BY <1>1, <1>7 DEF WatchInv

\* The cycle is over, or the guard comes next.
LEMMA WatchRests ==
    ASSUME watch' = NoWatch \/ watch' = Watching("guard", NoManagement)
    PROVE  WatchInv'
  <1>1. /\ watch'.pc \in {"idle", "guard"} /\ watch'.m = NoManagement
        /\ watch'.stop = None /\ watch'.stages = {} /\ watch'.changed = FALSE
        /\ watch' = [pc |-> watch'.pc, m |-> watch'.m, stop |-> watch'.stop,
                     stages |-> watch'.stages, changed |-> watch'.changed]
    BY DEF NoWatch, Watching
  <1>2. WatchTyped'
    BY <1>1, NoManagementTyped DEF WatchTyped
  <1>3. WatchSound'
    BY <1>1 DEF WatchSound, Reading, StopHolds
  <1> QED
    BY <1>2, <1>3 DEF WatchInv

\* The copy is about to be written.
LEMMA WatchCopies ==
    ASSUME NEW pc \in {"save", "guardsave"}, NEW m \in Management, CopyNext(m),
           watch' = Watching(pc, m)
    PROVE  WatchInv'
  <1>1. /\ watch'.pc = pc /\ watch'.m = m
        /\ watch'.stop = None /\ watch'.stages = {} /\ watch'.changed = FALSE
        /\ watch' = [pc |-> pc, m |-> m, stop |-> None, stages |-> {}, changed |-> FALSE]
    BY DEF Watching
  <1>2. WatchTyped'
    BY <1>1 DEF WatchTyped
  <1>3. CopyTrue(watch.m)'
    BY <1>1, WatchCopy
  <1>4. WatchSound'
    BY <1>1, <1>3 DEF WatchSound, Reading, StopHolds
  <1> QED
    BY <1>2, <1>4 DEF WatchInv

LEMMA ManagerStays ==
    ASSUME ManagerInv, Moved, manager' = manager
    PROVE  ManagerInv'
  <1>1. ManagerTyped'
    BY DEF ManagerInv, ManagerTyped
  <1>2. manager.pc # "idle" => CopyTrue(manager.m)'
    BY CopyMoves, ManagerCopy DEF ManagerInv, ManagerSound
  <1>3. StopHolds(manager.stop)'
    BY DEF ManagerInv, ManagerSound, StopHolds, Moved
  <1>4. manager.act \in {"tp1", "tp2"} /\ start' = "installed" => ~Intact'
    BY DEF ManagerInv, ManagerSound, Moved
  <1>5. /\ manager.pc = "act" => manager.act \in {"full_close"} \cup Moves
        /\ manager.pc = "protect" => manager.act \in {"tp1", "tp2"}
        /\ manager.act \in Moves => manager.stop # None
        /\ manager.act = "tp2" => manager.m.tp1
    BY DEF ManagerInv, ManagerSound
  <1>6. ManagerSound'
    BY <1>2, <1>3, <1>4, <1>5 DEF ManagerSound
  <1> QED
    BY <1>1, <1>6 DEF ManagerInv

LEMMA ManagerRests ==
    ASSUME manager' = NoManager
    PROVE  ManagerInv'
  <1>1. /\ manager'.pc = "idle" /\ manager'.act = "none" /\ manager'.stop = None
        /\ manager' = [pc |-> "idle", m |-> NoManagement, act |-> "none", stop |-> None]
    BY DEF NoManager, Managing
  <1>2. ManagerTyped'
    BY <1>1, NoManagementTyped DEF ManagerTyped, Acts
  <1>3. ManagerSound'
    BY <1>1 DEF ManagerSound, Moves, StopHolds
  <1> QED
    BY <1>2, <1>3 DEF ManagerInv

LEMMA ManagerCopies ==
    ASSUME NEW m \in Management, CopyNext(m), manager' = Managing("save", m)
    PROVE  ManagerInv'
  <1>1. /\ manager'.pc = "save" /\ manager'.act = "none" /\ manager'.stop = None
        /\ manager'.m = m
        /\ manager' = [pc |-> "save", m |-> m, act |-> "none", stop |-> None]
    BY DEF Managing
  <1>2. ManagerTyped'
    BY <1>1 DEF ManagerTyped, Acts
  <1>3. CopyTrue(manager.m)'
    BY <1>1, ManagerCopy
  <1>4. ManagerSound'
    BY <1>1, <1>3 DEF ManagerSound, Moves, StopHolds
  <1> QED
    BY <1>2, <1>4 DEF ManagerInv

-----------------------------------------------------------------------------
(* The exchange's answers.                                                 *)

LEMMA Still ==
    ASSUME ExchangeInv, UNCHANGED <<profile, start, size, mark, stop, order, faults>>
    PROVE  ExchangeInv' /\ Moved
  <1>1. Scenario'
    BY DEF ExchangeInv, Scenario
  <1>2. ExchangeTyped' /\ OrdersCount'
    BY DEF ExchangeInv, ExchangeTyped, OrdersCount, Intact
  <1>3. Moved
    BY Constants DEF ExchangeInv, ExchangeTyped, Moved, Intact
  <1> QED
    BY <1>1, <1>2, <1>3 DEF ExchangeInv

LEMMA FaultsLeft ==
    ASSUME ExchangeInv, NEW cost \in Nat, cost = 0 \/ (cost = 1 /\ Fault) \/ cost <= faults,
           faults' = faults - cost, profile' = profile, start' = start
    PROVE  Scenario'
  <1>1. PICK scenario \in Scenarios : /\ profile = scenario[1] /\ start = scenario[2]
                                      /\ faults \in 0 .. scenario[3]
    BY DEF ExchangeInv, Scenario
  <1>2. scenario[3] \in Nat
    BY TakeProfitAssumption
  <1>3. faults' \in 0 .. scenario[3]
    BY <1>1, <1>2 DEF Fault
  <1> QED
    BY <1>1, <1>3 DEF Scenario

\* A stop is set, confirmed or not, refused or lost on the way.
LEMMA SetStopAnswers ==
    ASSUME NEW s \in Stops, NEW r \in SetStop(s)
    PROVE  /\ r.stop = stop \/ r.stop = s
           /\ r.ok \in BOOLEAN /\ (r.ok => r.stop = s)
           /\ r.cost \in {0, 1} /\ (r.cost = 1 => Fault)
  <1>1. \/ r = [stop |-> stop, ok |-> FALSE, cost |-> 0]
        \/ r = [stop |-> s, ok |-> TRUE, cost |-> 0]
        \/ Fault /\ \E l \in {stop, s} : r = [stop |-> l, ok |-> FALSE, cost |-> 1]
    BY DEF SetStop
  <1>2. CASE r = [stop |-> stop, ok |-> FALSE, cost |-> 0]
    <2>1. r.stop = stop /\ ~r.ok /\ r.cost = 0
      BY <1>2
    <2>2. r.ok \in BOOLEAN
      BY <1>2
    <2> QED
      BY <2>1, <2>2
  <1>3. CASE r = [stop |-> s, ok |-> TRUE, cost |-> 0]
    <2>1. r.stop = s /\ r.cost = 0
      BY <1>3
    <2>2. r.ok \in BOOLEAN
      BY <1>3
    <2> QED
      BY <2>1, <2>2
  <1>4. CASE Fault /\ \E l \in {stop, s} : r = [stop |-> l, ok |-> FALSE, cost |-> 1]
    <2>1. r.stop \in {stop, s} /\ ~r.ok /\ r.cost = 1 /\ Fault
      BY <1>4
    <2>2. r.ok \in BOOLEAN
      BY <1>4
    <2> QED
      BY <2>1, <2>2
  <1> QED
    BY <1>1, <1>2, <1>3, <1>4

LEMMA StopIsSet ==
    ASSUME ExchangeInv, NEW s \in Stops, StopHolds(s), stop' \in {stop, s},
           Scenario', UNCHANGED <<profile, start, size, mark, order>>
    PROVE  ExchangeInv' /\ Moved
  <1>1. ExchangeTyped'
    BY DEF ExchangeInv, ExchangeTyped
  <1>2. OrdersCount'
    BY DEF ExchangeInv, OrdersCount, Intact
  <1>3. profile = "scalping" /\ stop >= BreakEven => stop' >= BreakEven
    BY StopsAre DEF StopHolds
  <1>4. Moved
    BY <1>3 DEF ExchangeInv, ExchangeTyped, Moved, Intact
  <1> QED
    BY <1>1, <1>2, <1>4 DEF ExchangeInv

\* The whole of an answer to set_trading_stop.
LEMMA StopAnswered ==
    ASSUME ExchangeInv, NEW s \in Stops, StopHolds(s), NEW r \in SetStop(s),
           stop' = r.stop, faults' = faults - r.cost,
           UNCHANGED <<profile, start, size, mark, order>>
    PROVE  ExchangeInv' /\ Moved /\ r.ok \in BOOLEAN /\ (r.ok => stop' = s)
  <1>1. /\ r.stop = stop \/ r.stop = s
        /\ r.ok \in BOOLEAN /\ (r.ok => r.stop = s)
        /\ r.cost \in {0, 1} /\ (r.cost = 1 => Fault)
    BY SetStopAnswers
  <1>2. Scenario'
    BY <1>1, FaultsLeft
  <1> QED
    BY <1>1, <1>2, StopIsSet

\* Fewer lots, and the orders that are left of a closed position go with it.
LEMMA Shrinks ==
    ASSUME ExchangeInv, size' \in 0 .. size, order' = Gone(size'), Scenario',
           mark' \in Prices, UNCHANGED <<profile, start, stop>>
    PROVE  ExchangeInv' /\ Moved
  <1>1. \A k \in Stages : \/ order'[k] = order[k]
                          \/ order[k] = "live" /\ order'[k] = "cancelled"
    BY DEF Gone, ExchangeInv, ExchangeTyped
  <1>2. size \in 0 .. Initial /\ size' \in 0 .. Initial /\ size' <= size
    BY Constants DEF ExchangeInv, ExchangeTyped
  <1>3. order' \in [Stages -> Statuses]
    BY DEF Gone, ExchangeInv, ExchangeTyped, Statuses
  <1>4. ExchangeTyped'
    BY <1>2, <1>3 DEF ExchangeInv, ExchangeTyped
  <1>5. Intact' => Intact /\ \A k \in Stages : order'[k] = order[k]
    BY <1>1 DEF Intact
  <1>6. 1 \in Stages /\ 2 \in Stages
    BY DEF Stages
  <1>7. OrdersCount'
    <2>1. order'[2] \in {"live", "filled"} => order'[1] # "none"
      BY <1>1, <1>6 DEF ExchangeInv, OrdersCount
    <2>2. ASSUME Intact'
          PROVE  /\ order'[1] = "filled" => size' <= Initial - Q1
                 /\ order'[2] = "filled" => size' <= Initial - (Q1 + Q2)
      BY <1>2, <1>5, <1>6, <2>2, Constants, Quantities DEF ExchangeInv, OrdersCount
    <2> QED
      BY <2>1, <2>2 DEF OrdersCount
  <1>8. Moved
    <2>1. \A k \in Stages : order[k] = "filled" => order'[k] = "filled"
      BY <1>1
    <2>2. order[1] # "none" => order'[1] # "none"
      BY <1>1, <1>6
    <2> QED
      BY <1>2, <1>5, <2>1, <2>2, Constants DEF Moved
  <1> QED
    BY <1>4, <1>7, <1>8 DEF ExchangeInv

\* A reduce-only market close takes the quantity or what is left of it.
LEMMA CloseAnswered ==
    ASSUME ExchangeInv, NEW q \in Nat, q <= Initial, NEW r \in MarketClose(q),
           size' = r.size, order' = Gone(r.size), faults' = faults - r.cost,
           UNCHANGED <<profile, start, mark, stop>>
    PROVE  /\ ExchangeInv' /\ Moved /\ r.ok \in BOOLEAN
           /\ r.ok => size' = 0 \/ size' = size - q
  <1>1. size \in 0 .. Initial /\ size \in Nat
    BY Constants DEF ExchangeInv, ExchangeTyped
  <1> DEFINE left == IF q >= size THEN 0 ELSE size - q
  <1>2. left \in 0 .. size /\ (left = 0 \/ left = size - q)
    BY <1>1
  <1>3. size = 0 => r = [size |-> 0, ok |-> FALSE, cost |-> 0]
    BY DEF MarketClose
  <1>4. size # 0 => \/ r = [size |-> left, ok |-> TRUE, cost |-> 0]
                    \/ Fault /\ \E l \in {left, size} : r = [size |-> l, ok |-> FALSE, cost |-> 1]
    BY DEF MarketClose
  <1> HIDE DEF left
  <1>5. /\ r.size \in 0 .. size /\ r.ok \in BOOLEAN
        /\ r.ok => r.size = left
        /\ r.cost \in {0, 1} /\ (r.cost = 1 => Fault)
    <2>1. \/ r.size = left /\ r.cost = 0
          \/ r.size \in {0, left, size} /\ ~r.ok /\ r.cost = 0
          \/ r.size \in {0, left, size} /\ ~r.ok /\ r.cost = 1 /\ Fault
      BY <1>3, <1>4
    <2>2. r.ok \in BOOLEAN
      <3>1. CASE r = [size |-> 0, ok |-> FALSE, cost |-> 0]
        BY <3>1
      <3>2. CASE r = [size |-> left, ok |-> TRUE, cost |-> 0]
        BY <3>2
      <3>3. CASE \E l \in {left, size} : r = [size |-> l, ok |-> FALSE, cost |-> 1]
        BY <3>3
      <3> QED
        BY <1>3, <1>4, <3>1, <3>2, <3>3
    <2> QED
      BY <1>1, <1>2, <2>1, <2>2
  <1>6. Scenario'
    BY <1>5, FaultsLeft
  <1>7. mark' \in Prices
    BY DEF ExchangeInv, ExchangeTyped
  <1>8. ExchangeInv' /\ Moved
    BY <1>5, <1>6, <1>7, Shrinks
  <1> QED
    BY <1>2, <1>5, <1>8

LEMMA PlacedAnswers ==
    ASSUME NEW k, NEW r \in Placed(k)
    PROVE  /\ r.ok \in BOOLEAN /\ (r.ok => order[k] = "none")
           /\ r.cost \in {0, 1} /\ (r.cost = 1 => Fault)
           /\ r.order = order[k] \/ (order[k] = "none" /\ r.order = "live")
  <1>1. \/ order[k] = "none" /\ r = [order |-> "live", ok |-> TRUE, cost |-> 0]
        \/ r = [order |-> order[k], ok |-> FALSE, cost |-> 0]
        \/ /\ Fault /\ order[k] = "none"
           /\ \E o \in {"none", "live"} : r = [order |-> o, ok |-> FALSE, cost |-> 1]
    BY DEF Placed
  <1>2. /\ \/ order[k] = "none" /\ r.cost = 0
           \/ ~r.ok /\ r.cost = 0
           \/ ~r.ok /\ r.cost = 1 /\ Fault
        /\ r.order = order[k] \/ (order[k] = "none" /\ r.order = "live")
    BY <1>1
  <1>3. r.ok \in BOOLEAN
    <2>1. CASE r = [order |-> "live", ok |-> TRUE, cost |-> 0]
      BY <2>1
    <2>2. CASE r = [order |-> order[k], ok |-> FALSE, cost |-> 0]
      BY <2>2
    <2>3. CASE \E o : r = [order |-> o, ok |-> FALSE, cost |-> 1]
      BY <2>3
    <2> QED
      BY <1>1, <2>1, <2>2, <2>3
  <1> QED
    BY <1>2, <1>3

\* A native order is placed; the second one is when the first has been.
LEMMA OrderPlaced ==
    ASSUME ExchangeInv, NEW k \in Stages, order[k] = "none", k = 2 => order[1] # "none",
           order' = [order EXCEPT ![k] = "live"], Scenario',
           UNCHANGED <<profile, start, size, mark, stop>>
    PROVE  ExchangeInv' /\ Moved /\ order'[k] # "none"
  <1>1. /\ order \in [Stages -> Statuses] /\ order'[k] = "live"
        /\ \A j \in Stages \ {k} : order'[j] = order[j]
    BY DEF ExchangeInv, ExchangeTyped
  <1>2. ExchangeTyped'
    BY <1>1 DEF ExchangeInv, ExchangeTyped, Statuses
  <1>3. Intact' => Intact
    BY <1>1 DEF Intact
  <1>4. 1 \in Stages /\ 2 \in Stages /\ (k = 1 \/ k = 2)
    BY DEF Stages
  <1>5. OrdersCount'
    BY <1>1, <1>3, <1>4 DEF ExchangeInv, OrdersCount
  <1>6. Moved
    BY <1>1, <1>3, <1>4 DEF Moved, ExchangeInv, ExchangeTyped
  <1> QED
    BY <1>1, <1>2, <1>5, <1>6 DEF ExchangeInv

\* Orders that are not done are cancelled, or one has become live though its
\* answer was lost; a position may be closed with them.
LEMMA OrdersRefused ==
    ASSUME ExchangeInv, order' \in [Stages -> Statuses],
           \A k \in Stages : \/ order'[k] = order[k]
                             \/ /\ order[k] \in {"none", "live"}
                                /\ order'[k] \in {"live", "cancelled"},
           order'[2] \in {"live", "filled"} => order'[1] # "none",
           size' \in {0, size}, Scenario', UNCHANGED <<profile, start, mark, stop>>
    PROVE  ExchangeInv' /\ Moved
  <1>2. size \in 0 .. Initial /\ size' \in 0 .. Initial /\ size' <= size
    BY Constants DEF ExchangeInv, ExchangeTyped
  <1>4. ExchangeTyped'
    BY <1>2 DEF ExchangeInv, ExchangeTyped
  <1>5. /\ Intact' => Intact
        /\ \A k \in Stages : order'[k] = "filled" <=> order[k] = "filled"
    BY DEF Intact
  <1>6. 1 \in Stages /\ 2 \in Stages
    BY DEF Stages
  <1>7. OrdersCount'
    <2>2. ASSUME Intact'
          PROVE  /\ order'[1] = "filled" => size' <= Initial - Q1
                 /\ order'[2] = "filled" => size' <= Initial - (Q1 + Q2)
      BY <1>2, <1>5, <1>6, <2>2, Constants, Quantities DEF ExchangeInv, OrdersCount
    <2> QED
      BY <2>2 DEF OrdersCount
  <1>8. Moved
    <2>2. order[1] # "none" => order'[1] # "none"
      BY <1>6
    <2> QED
      BY <1>2, <1>5, <2>2, Constants DEF Moved
  <1> QED
    BY <1>4, <1>7, <1>8 DEF ExchangeInv

\* Live orders are cancelled, all or one; a position may be closed with them.
LEMMA OrdersCancelled ==
    ASSUME ExchangeInv, order' \in [Stages -> Statuses],
           \A k \in Stages : \/ order'[k] = order[k]
                             \/ order[k] = "live" /\ order'[k] = "cancelled",
           size' \in {0, size}, Scenario', UNCHANGED <<profile, start, mark, stop>>
    PROVE  ExchangeInv' /\ Moved
  <1>1. 1 \in Stages /\ 2 \in Stages
    BY DEF Stages
  <1>2. order'[2] \in {"live", "filled"} => order'[1] # "none"
    BY <1>1 DEF ExchangeInv, OrdersCount
  <1> QED
    BY <1>2, OrdersRefused

-----------------------------------------------------------------------------
(* The market and the entry.                                               *)

LEMMA OnlyWatch ==
    ASSUME ProfitInv, ExchangeInv', Moved, TradeInv', WatchInv', UNCHANGED <<entry, manager>>
    PROVE  ProfitInv'
  BY EntryStays, ManagerStays DEF ProfitInv

LEMMA OnlyManager ==
    ASSUME ProfitInv, ExchangeInv', Moved, TradeInv', ManagerInv', UNCHANGED <<entry, watch>>
    PROVE  ProfitInv'
  BY EntryStays, WatchStays DEF ProfitInv

LEMMA TradeSame ==
    ASSUME ProfitInv, Moved, trade' = trade
    PROVE  TradeInv'
  <1>1. trade'.m = trade.m /\ trade' \in [m : Management, ref : Stops]
    BY DEF ProfitInv, TradeInv, TradeTyped
  <1> QED
    BY <1>1, TradeStays DEF ProfitInv

LEMMA OnlyExchange ==
    ASSUME ProfitInv, ExchangeInv', Moved, UNCHANGED <<trade, entry, watch, manager>>
    PROVE  ProfitInv'
  BY TradeSame, EntryStays, WatchStays, ManagerStays DEF ProfitInv

LEMMA FillKeeps ==
    ASSUME ProfitInv, NEW k \in Stages, OrderFills(k)
    PROVE  ProfitInv'
  <1>1. ExchangeInv /\ size \in 0 .. Initial /\ size \in Nat /\ order \in [Stages -> Statuses]
    BY Constants DEF ProfitInv, ExchangeInv, ExchangeTyped
  <1>2. Qty(k) \in Nat /\ (k = 1 => Qty(k) = Q1) /\ (k = 2 => Qty(k) = Q2)
    BY Quantities DEF Qty, Stages
  <1>3. /\ order[k] = "live" /\ (k = 2 => order[1] # "live")
        /\ size' = IF size > Qty(k) THEN size - Qty(k) ELSE 0
        /\ order' = [Gone(size') EXCEPT ![k] = "filled"]
        /\ UNCHANGED <<profile, start, mark, stop, trade, entry, watch, manager, faults>>
    BY DEF OrderFills
  <1>4. size' \in 0 .. Initial /\ size' <= size /\ (size' = 0 \/ size' = size - Qty(k))
    <2> DEFINE q == Qty(k)
    <2>1. q \in Nat /\ size' = IF size > q THEN size - q ELSE 0
      BY <1>2, <1>3
    <2> HIDE DEF q
    <2>2. size' \in 0 .. Initial /\ size' <= size /\ (size' = 0 \/ size' = size - q)
      BY <1>1, <2>1, Constants
    <2> QED
      BY <2>2 DEF q
  <1>5. /\ order' \in [Stages -> Statuses] /\ order'[k] = "filled"
        /\ \A j \in Stages \ {k} : \/ order'[j] = order[j]
                                   \/ order[j] = "live" /\ order'[j] = "cancelled"
    BY <1>1, <1>3 DEF Gone, Statuses
  <1>6. Intact' => Intact /\ \A j \in Stages \ {k} : order'[j] = order[j]
    BY <1>3, <1>5 DEF Intact
  <1>7. 1 \in Stages /\ 2 \in Stages /\ (k = 1 \/ k = 2)
    BY DEF Stages
  <1>8. OrdersCount'
    <2>1. order'[2] \in {"live", "filled"} => order'[1] # "none"
      BY <1>1, <1>3, <1>5, <1>7 DEF ExchangeInv, OrdersCount
    <2>2. ASSUME Intact', order'[1] = "filled" PROVE size' <= Initial - Q1
      <3>1. CASE k = 1
        BY <1>1, <1>2, <1>4, <3>1, Constants, Quantities
      <3>2. CASE k = 2
        <4>1. order[1] = "filled"
          BY <1>6, <1>7, <2>2, <3>2
        <4>2. size <= Initial - Q1
          BY <1>1, <1>6, <2>2, <4>1 DEF ExchangeInv, OrdersCount
        <4> QED
          BY <1>1, <1>4, <4>2, Constants, Quantities
      <3> QED
        BY <1>7, <3>1, <3>2
    <2>3. ASSUME Intact', order'[2] = "filled" PROVE size' <= Initial - (Q1 + Q2)
      <3>1. CASE k = 1
        <4>1. order[2] = "filled"
          BY <1>6, <1>7, <2>3, <3>1
        <4>2. size <= Initial - (Q1 + Q2)
          BY <1>1, <1>6, <2>3, <4>1 DEF ExchangeInv, OrdersCount
        <4> QED
          BY <1>1, <1>4, <4>2, Constants, Quantities
      <3>2. CASE k = 2
        <4>1. order[1] \in Statuses /\ order[1] # "live" /\ order[1] # "cancelled"
          BY <1>1, <1>3, <1>6, <1>7, <2>3, <3>2 DEF Intact
        <4>2. order[1] # "none"
          BY <1>1, <1>3, <3>2 DEF ExchangeInv, OrdersCount
        <4>3. size <= Initial - Q1
          BY <1>1, <1>6, <2>3, <4>1, <4>2 DEF ExchangeInv, OrdersCount, Statuses
        <4> QED
          BY <1>1, <1>2, <1>4, <3>2, <4>3, Constants, Quantities
      <3> QED
        BY <1>7, <3>1, <3>2
    <2> QED
      BY <2>1, <2>2, <2>3 DEF OrdersCount
  <1>9. Moved
    <2>1. \A j \in Stages : order[j] = "filled" => order'[j] = "filled"
      BY <1>3, <1>5
    <2>2. order[1] # "none" => order'[1] # "none"
      BY <1>3, <1>5, <1>7
    <2> QED
      BY <1>1, <1>3, <1>4, <1>6, <2>1, <2>2, Constants DEF Moved
  <1>10. Scenario' /\ ExchangeTyped'
    BY <1>1, <1>3, <1>4, <1>5 DEF ExchangeInv, ExchangeTyped, Scenario
  <1>11. ExchangeInv'
    BY <1>8, <1>10 DEF ExchangeInv
  <1> QED
    BY <1>3, <1>9, <1>11, OnlyExchange

LEMMA MarketKeeps ==
    ASSUME ProfitInv, Market
    PROVE  ProfitInv'
  <1>1. ExchangeInv /\ TradeInv /\ size \in Nat /\ stop \in Stops
    BY Constants DEF ProfitInv, ExchangeInv, ExchangeTyped
  <1>2. CASE PriceMoves
    <2>1. /\ size' \in 0 .. size /\ order' = Gone(size') /\ mark' \in Prices
      <3>1. mark' = mark \/ mark' \in Prices
        BY <1>2 DEF PriceMoves
      <3>2. size' = size \/ size' = 0
        BY <1>2 DEF PriceMoves
      <3>3. order' = Gone(size')
        BY <1>2 DEF PriceMoves
      <3> QED
        BY <1>1, <3>1, <3>2, <3>3 DEF ExchangeInv, ExchangeTyped
    <2>2. UNCHANGED <<profile, start, stop, trade, entry, watch, manager, faults>>
      BY <1>2 DEF PriceMoves
    <2>3. Scenario'
      BY <1>1, <2>2 DEF ExchangeInv, Scenario
    <2> QED
      BY <1>1, <2>1, <2>2, <2>3, Shrinks, OnlyExchange
  <1>3. CASE MergePosition
    <2>1. UNCHANGED <<profile, start, size, mark, stop, order, faults, entry, watch, manager>>
      BY <1>3 DEF MergePosition, exchange
    <2>2. trade' = [trade EXCEPT !.ref = stop]
      BY <1>3 DEF MergePosition
    <2>3. ExchangeInv' /\ Moved
      BY <1>1, <2>1, Still
    <2>4. trade'.m = trade.m /\ trade' \in [m : Management, ref : Stops]
      BY <1>1, <2>2 DEF TradeInv, TradeTyped
    <2> QED
      BY <1>1, <2>1, <2>3, <2>4, TradeStays, EntryStays, WatchStays, ManagerStays
         DEF ProfitInv
  <1>4. CASE Restart
    <2>1. /\ UNCHANGED <<profile, start, size, mark, stop, order, trade, entry>>
          /\ watch' = NoWatch /\ manager' = NoManager /\ faults' = faults - 1 /\ Fault
      BY <1>4 DEF Restart, exchange
    <2>2. Scenario'
      BY <1>1, <2>1, FaultsLeft
    <2>3. stop' \in {stop, BreakEven} /\ StopHolds(BreakEven) /\ BreakEven \in Stops
      BY <2>1, StopsAre, Constants DEF StopHolds
    <2>4. ExchangeInv' /\ Moved
      BY <1>1, <2>1, <2>2, <2>3, StopIsSet
    <2> QED
      BY <2>1, <2>4, TradeSame, EntryStays, WatchRests, ManagerRests DEF ProfitInv
  <1>5. ASSUME NEW k \in Stages, OrderCancelled(k) PROVE ProfitInv'
    <2>1. /\ order[k] = "live" /\ Fault /\ order' = [order EXCEPT ![k] = "cancelled"]
          /\ faults' = faults - 1
          /\ UNCHANGED <<profile, start, size, mark, stop, trade, entry, watch, manager>>
      BY <1>5 DEF OrderCancelled
    <2>2. Scenario'
      BY <1>1, <2>1, FaultsLeft
    <2>3. /\ order' \in [Stages -> Statuses]
          /\ \A j \in Stages : \/ order'[j] = order[j]
                               \/ order[j] = "live" /\ order'[j] = "cancelled"
      BY <1>1, <2>1 DEF ExchangeInv, ExchangeTyped, Statuses
    <2>4. ExchangeInv' /\ Moved
      BY <1>1, <2>1, <2>2, <2>3, OrdersCancelled
    <2> QED
      BY <2>1, <2>4, OnlyExchange
  <1> QED
    BY <1>2, <1>3, <1>4, <1>5, FillKeeps DEF Market

LEMMA InstalledIs ==
    ASSUME NEW m \in Management
    PROVE  /\ Installed(m) \in Management
           /\ Installed(m).tp1 = m.tp1 /\ Installed(m).tp2 = m.tp2 /\ Installed(m).be = m.be
           /\ Installed(m).native /\ ~Installed(m).degraded
           /\ Installed(m).seen = [k \in Stages |-> "none"]
  <1> DEFINE n == Installed(m)
  <1>1. n = [m EXCEPT !.native = TRUE, !.degraded = FALSE,
                      !.seen = [k \in Stages |-> "none"]]
    BY DEF Installed
  <1> HIDE DEF n
  <1>2. n = [native |-> TRUE, degraded |-> FALSE, tp1 |-> m.tp1, tp2 |-> m.tp2, be |-> m.be,
             trail |-> m.trail, lock |-> m.lock, verified |-> m.verified,
             seen |-> [k \in Stages |-> "none"]]
    BY <1>1 DEF Management
  <1>3. [k \in Stages |-> "none"] \in [Stages -> Statuses]
    BY DEF Statuses
  <1>4. n \in Management
    BY <1>2, <1>3 DEF Management
  <1>5. n.native /\ ~n.degraded
    BY <1>2
  <1>6. n.tp1 = m.tp1 /\ n.tp2 = m.tp2 /\ n.be = m.be /\ n.seen = [k \in Stages |-> "none"]
    BY <1>2
  <1> QED
    BY <1>4, <1>5, <1>6 DEF n

\* Orders that have just been installed are not known to be filled.
LEMMA InstalledTrue ==
    ASSUME NEW m \in Management, CopyNext(m)
    PROVE  CopyNext(Installed(m)) /\ Installed(m) \in Management
  <1> DEFINE n == Installed(m)
  <1>1. /\ n \in Management
        /\ n.tp1 = m.tp1 /\ n.tp2 = m.tp2 /\ n.be = m.be
        /\ n.native /\ ~n.degraded
        /\ n.seen = [k \in Stages |-> "none"]
    BY InstalledIs
  <1> HIDE DEF n
  <1>2. \A k \in Stages : n.seen[k] # "filled"
    BY <1>1
  <1>3. CopyNext(n)
    BY <1>1, <1>2 DEF CopyNext
  <1> QED
    BY <1>1, <1>3 DEF n

LEMMA EntryKeeps ==
    ASSUME ProfitInv, Entry
    PROVE  ProfitInv'
  <1>1. ExchangeInv /\ TradeInv /\ EntryInv
    BY DEF ProfitInv
  <1>2. CASE EntrySaves
    <2>1. /\ entry' = "done" /\ trade' = [trade EXCEPT !.m = Installed(NoManagement)]
          /\ UNCHANGED <<profile, start, size, mark, stop, order, watch, manager, faults>>
      BY <1>2 DEF EntrySaves, exchange
    <2>2. ExchangeInv' /\ Moved
      BY <1>1, <2>1, Still
    <2> DEFINE n == Installed(NoManagement)
    <2>3. /\ n \in Management
          /\ n.tp1 = FALSE /\ n.tp2 = FALSE /\ n.be = FALSE
          /\ n.native /\ ~n.degraded
          /\ n.seen = [k \in Stages |-> "none"]
      <3>1. NoManagement.tp1 = FALSE /\ NoManagement.tp2 = FALSE /\ NoManagement.be = FALSE
        BY DEF NoManagement
      <3> QED
        BY <3>1, NoManagementTyped, InstalledIs
    <2>4. trade' = [trade EXCEPT !.m = n]
      BY <2>1
    <2> HIDE DEF n
    <2>5. \A k \in Stages : n.seen[k] # "filled"
      BY <2>3
    <2>6. CopyNext(n)
      BY <2>3, <2>5 DEF CopyNext
    <2>7. TradeInv'
      BY <1>1, <2>2, <2>3, <2>4, <2>6, TradeWritten
    <2>8. EntryInv'
      BY <2>1 DEF EntryInv, EntryTyped, EntrySound
    <2> QED
      BY <2>1, <2>2, <2>7, <2>8, WatchStays, ManagerStays DEF ProfitInv
  <1>3. ASSUME NEW k \in Stages, EntryInstalls(k) PROVE ProfitInv'
    <2>1. PICK r \in Placed(k) :
            /\ faults' = faults - r.cost
            /\ IF r.ok
               THEN /\ order' = [order EXCEPT ![k] = "live"]
                    /\ entry' = IF k = 1 THEN "tp2" ELSE "save"
                    /\ UNCHANGED size
               ELSE /\ order' = [j \in Stages |->
                                   IF order[j] = "live" \/ (j = k /\ r.order = "live")
                                   THEN "cancelled" ELSE order[j]]
                    /\ entry' = "done" /\ size' = 0
      BY <1>3 DEF EntryInstalls
    <2>2. /\ entry = (IF k = 1 THEN "tp1" ELSE "tp2")
          /\ UNCHANGED <<profile, start, mark, stop, trade, watch, manager>>
      BY <1>3 DEF EntryInstalls
    <2>3. /\ r.ok \in BOOLEAN /\ (r.ok => order[k] = "none")
          /\ r.cost \in {0, 1} /\ (r.cost = 1 => Fault)
          /\ r.order = order[k] \/ (order[k] = "none" /\ r.order = "live")
      BY PlacedAnswers
    <2>4. Scenario'
      BY <1>1, <2>1, <2>2, <2>3, FaultsLeft
    <2>5. k = 1 \/ k = 2
      BY DEF Stages
    <2>6. k = 2 => order[1] # "none"
      BY <1>1, <2>2, <2>5 DEF EntryInv, EntrySound
    <2>7. CASE r.ok
      <3>1. ExchangeInv' /\ Moved /\ order'[k] # "none"
        BY <1>1, <2>1, <2>2, <2>3, <2>4, <2>6, <2>7, OrderPlaced
      <3>2. EntryInv'
        BY <2>1, <2>5, <2>7, <3>1 DEF EntryInv, EntryTyped, EntrySound
      <3> QED
        BY <2>2, <3>1, <3>2, TradeSame, WatchStays, ManagerStays DEF ProfitInv
    <2>8. CASE ~r.ok
      <3>1. /\ order' \in [Stages -> Statuses] /\ size' \in {0, size}
            /\ \A j \in Stages : \/ order'[j] = order[j]
                                 \/ /\ order[j] \in {"none", "live"}
                                    /\ order'[j] = "cancelled"
        BY <1>1, <2>1, <2>3, <2>8 DEF ExchangeInv, ExchangeTyped, Statuses
      <3>4. order'[2] \in {"live", "filled"} => order'[1] # "none"
        BY <1>1, <3>1 DEF ExchangeInv, OrdersCount, Stages
      <3>2. ExchangeInv' /\ Moved
        BY <1>1, <2>2, <2>4, <3>1, <3>4, OrdersRefused
      <3>3. EntryInv'
        BY <2>1, <2>8 DEF EntryInv, EntryTyped, EntrySound
      <3> QED
        BY <2>2, <3>2, <3>3, TradeSame, WatchStays, ManagerStays DEF ProfitInv
    <2> QED
      BY <2>3, <2>7, <2>8
  <1> QED
    BY <1>2, <1>3 DEF Entry

-----------------------------------------------------------------------------
(* The monitor.                                                            *)

LEMMA TrailingIs ==
    ASSUME ExchangeTyped, TradeTyped
    PROVE  Trailing(mark, trade.ref) \in Stops /\ Abs(trade.ref) \in Nat
  <1>1. mark \in Int /\ mark <= Target /\ trade.ref \in Int
    BY Constants, StopsAre DEF ExchangeTyped, TradeTyped
  <1>2. Abs(trade.ref) \in Nat
    BY <1>1 DEF Abs
  <1>3. Trailing(mark, trade.ref) \in Int /\ Floor <= Trailing(mark, trade.ref)
    BY <1>1, <1>2, StopsAre DEF Trailing, Better
  <1>4. Trailing(mark, trade.ref) <= Target
    BY <1>1, <1>2, StopsAre, Constants DEF Trailing, Better, Floor
  <1> QED
    BY <1>2, <1>3, <1>4, StopsAre

LEMMA PostTP2Is ==
    ASSUME ExchangeTyped, TradeTyped
    PROVE  PostTP2(mark, trade.ref) \in Stops /\ StopHolds(PostTP2(mark, trade.ref))
  BY TrailingIs, StopsAre, Constants DEF PostTP2, StopHolds

LEMMA InferredHold ==
    ASSUME ExchangeTyped, NEW tolerance \in Nat, tolerance <= Slack
    PROVE  StagesHold(Inferred(tolerance))
  <1>1. size \in Int
    BY Constants DEF ExchangeTyped
  <1> QED
    BY <1>1, Constants, Quantities DEF StagesHold, Inferred, Shrunk, Stages

\* The monitor's record, given what holds of its parts.
LEMMA WatchRecord ==
    ASSUME Moved, NEW pc \in Reading \cup {"protect"}, NEW m \in Management, CopyNext(m),
           NEW s \in Stops \cup {None}, StopHolds(s), NEW S \in SUBSET Stages,
           NEW c \in BOOLEAN,
           pc = "adopt2" => order'[1] # "none",
           pc # "protect" => /\ 2 \in S => ~m.tp2
                             /\ ~m.tp2 => s # None
                             /\ StagesNext(S),
           pc = "tp2" => 2 \in S,
           pc = "protect" => s # None,
           watch' = [pc |-> pc, m |-> m, stop |-> s, stages |-> S, changed |-> c]
    PROVE  WatchInv'
  <1>1. watch'.pc = pc /\ watch'.m = m /\ watch'.stop = s /\ watch'.stages = S
    OBVIOUS
  <1>2. WatchTyped'
    BY DEF WatchTyped, Reading
  <1>3. CopyTrue(watch.m)'
    BY <1>1, WatchCopy
  <1>4. pc # "protect" => StagesHold(watch.stages)'
    BY <1>1, WatchStages
  <1>5. StopHolds(watch.stop)'
    BY <1>1 DEF StopHolds, Moved
  <1>6. WatchSound'
    BY <1>1, <1>3, <1>4, <1>5 DEF WatchSound, Reading
  <1> QED
    BY <1>2, <1>6 DEF WatchInv

LEMMA WatchFields ==
    ASSUME WatchTyped
    PROVE  /\ watch.m \in Management /\ watch.stop \in Stops \cup {None}
           /\ watch.stages \in SUBSET Stages /\ watch.changed \in BOOLEAN
           /\ watch = [pc |-> watch.pc, m |-> watch.m, stop |-> watch.stop,
                       stages |-> watch.stages, changed |-> watch.changed]
  BY DEF WatchTyped

LEMMA WatchReadsKeeps ==
    ASSUME ProfitInv, WatchReads
    PROVE  ProfitInv'
  <1>1. ExchangeInv /\ ExchangeTyped /\ TradeInv /\ TradeTyped /\ CopyTrue(trade.m)
    BY DEF ProfitInv, ExchangeInv, TradeInv
  <1>2. UNCHANGED <<profile, start, size, mark, stop, order, faults, trade, entry, manager>>
    BY DEF WatchReads, exchange
  <1>3. ExchangeInv' /\ Moved
    BY <1>1, <1>2, Still
  <1>4. CopyNext(trade.m) /\ trade.m \in Management
    BY <1>1, <1>3, CopyMoves DEF TradeTyped
  <1> DEFINE pc == IF trade.m.native THEN "early" ELSE "adopt"
             s == IF trade.m.tp2 THEN None ELSE PostTP2(mark, trade.ref)
             S == Inferred(Step) \ Done(trade.m)
             c == profile = "scalping" /\ ~trade.m.be /\ OneR(mark, trade.ref)
  <1>5. \/ watch' = [pc |-> pc, m |-> trade.m, stop |-> s, stages |-> S, changed |-> c]
        \/ watch' = Watching("guard", NoManagement)
    BY DEF WatchReads
  <1>6. pc \in Reading \ {"adopt2", "tp2"} /\ pc # "protect"
    BY DEF Reading
  <1>7. s \in Stops \cup {None} /\ StopHolds(s) /\ (~trade.m.tp2 => s # None)
    BY <1>1, PostTP2Is, StopsAre DEF StopHolds
  <1>8. S \in SUBSET Stages /\ (2 \in S => ~trade.m.tp2)
    BY DEF Inferred, Done
  <1>9. StagesNext(S)
    <2>1. StagesNext(Inferred(Step))
      BY <1>1, <1>3, Constants, InferredHold, StagesMove
    <2> QED
      BY <2>1 DEF StagesNext
  <1>10. c \in BOOLEAN
    OBVIOUS
  <1> HIDE DEF pc, s, S, c
  <1>11. WatchInv'
    BY <1>3, <1>4, <1>5, <1>6, <1>7, <1>8, <1>9, <1>10, WatchRecord, WatchRests
  <1> QED
    BY <1>2, <1>3, <1>11, TradeSame, OnlyWatch

LEMMA WatchAdoptsKeeps ==
    ASSUME ProfitInv, NEW k \in Stages, WatchAdopts(k)
    PROVE  ProfitInv'
  <1>1. ExchangeInv /\ TradeInv /\ WatchTyped /\ WatchSound
    BY DEF ProfitInv, WatchInv
  <1>2. PICK r \in Placed(k) :
          /\ faults' = faults - r.cost
          /\ IF r.ok
             THEN /\ order' = [order EXCEPT ![k] = "live"]
                  /\ IF k = 1
                     THEN watch' = [watch EXCEPT !.pc = "adopt2"] /\ UNCHANGED trade
                     ELSE /\ watch' = [watch EXCEPT !.pc = "early", !.m = Installed(watch.m)]
                          /\ trade' = [trade EXCEPT !.m = Installed(watch.m)]
             ELSE /\ order' = [j \in Stages |->
                                 IF j = k THEN r.order
                                 ELSE IF k = 2 /\ order[1] = "live" THEN "cancelled"
                                 ELSE order[j]]
                  /\ watch' = Watching("guard", NoManagement) /\ UNCHANGED trade
    BY DEF WatchAdopts
  <1>3. /\ watch.pc = (IF k = 1 THEN "adopt" ELSE "adopt2")
        /\ UNCHANGED <<profile, start, size, mark, stop, entry, manager>>
    BY DEF WatchAdopts
  <1>4. /\ r.ok \in BOOLEAN /\ (r.ok => order[k] = "none")
        /\ r.cost \in {0, 1} /\ (r.cost = 1 => Fault)
        /\ r.order = order[k] \/ (order[k] = "none" /\ r.order = "live")
    BY PlacedAnswers
  <1>5. Scenario'
    BY <1>1, <1>2, <1>3, <1>4, FaultsLeft
  <1>6. (k = 1 \/ k = 2) /\ watch.pc \in {"adopt", "adopt2"} /\ watch.pc \in Reading
    BY <1>3 DEF Stages, Reading
  <1>7. /\ CopyTrue(watch.m) /\ StopHolds(watch.stop)
        /\ 2 \in watch.stages => ~watch.m.tp2
        /\ ~watch.m.tp2 => watch.stop # None
        /\ StagesHold(watch.stages)
        /\ k = 2 => order[1] # "none"
    BY <1>1, <1>3, <1>6 DEF WatchSound
  <1>8. /\ watch.m \in Management /\ watch.stop \in Stops \cup {None}
        /\ watch.stages \in SUBSET Stages /\ watch.changed \in BOOLEAN
        /\ watch = [pc |-> watch.pc, m |-> watch.m, stop |-> watch.stop,
                    stages |-> watch.stages, changed |-> watch.changed]
    BY <1>1, WatchFields
  <1>9. CASE r.ok
    <2>1. ExchangeInv' /\ Moved /\ order'[k] # "none"
      BY <1>1, <1>2, <1>3, <1>4, <1>5, <1>7, <1>9, OrderPlaced
    <2>2. CopyNext(watch.m) /\ StagesNext(watch.stages)
      BY <1>7, <2>1, CopyMoves, StagesMove
    <2>3. CASE k = 1
      <3>1. watch' = [pc |-> "adopt2", m |-> watch.m, stop |-> watch.stop,
                      stages |-> watch.stages, changed |-> watch.changed]
        BY <1>2, <1>8, <1>9, <2>3
      <3>2. "adopt2" \in Reading /\ order'[1] # "none"
        BY <2>1, <2>3 DEF Reading
      <3>3. WatchInv'
        BY <1>7, <1>8, <2>1, <2>2, <3>1, <3>2, WatchRecord
      <3>4. UNCHANGED trade
        BY <1>2, <1>9, <2>3
      <3> QED
        BY <1>3, <2>1, <3>3, <3>4, TradeSame, OnlyWatch
    <2>4. CASE k = 2
      <3> DEFINE n == Installed(watch.m)
      <3>1. n \in Management /\ CopyNext(n) /\ n.tp2 = watch.m.tp2
        BY <1>8, <2>2, InstalledTrue, InstalledIs
      <3>2. watch' = [watch EXCEPT !.pc = "early", !.m = n] /\ trade' = [trade EXCEPT !.m = n]
        BY <1>2, <1>9, <2>4
      <3> HIDE DEF n
      <3>3. watch' = [pc |-> "early", m |-> n, stop |-> watch.stop,
                      stages |-> watch.stages, changed |-> watch.changed]
        BY <1>8, <3>2
      <3>4. "early" \in Reading
        BY DEF Reading
      <3>5. WatchInv'
        BY <1>7, <1>8, <2>1, <2>2, <3>1, <3>3, <3>4, WatchRecord
      <3>6. TradeInv'
        BY <1>1, <2>1, <3>1, <3>2, TradeWritten
      <3> QED
        BY <1>3, <2>1, <3>5, <3>6, OnlyWatch
    <2> QED
      BY <1>6, <2>3, <2>4
  <1>10. CASE ~r.ok
    <2>1. /\ order' \in [Stages -> Statuses]
          /\ \A j \in Stages : \/ order'[j] = order[j]
                               \/ /\ order[j] \in {"none", "live"}
                                  /\ order'[j] \in {"live", "cancelled"}
      <3>1. order' = [j \in Stages |-> IF j = k THEN r.order
                        ELSE IF k = 2 /\ order[1] = "live" THEN "cancelled" ELSE order[j]]
        BY <1>2, <1>10
      <3>2. order \in [Stages -> Statuses]
        BY <1>1 DEF ExchangeInv, ExchangeTyped
      <3>3. k = 2 => \A j \in Stages \ {k} : j = 1
        BY DEF Stages
      <3>4. ASSUME NEW j \in Stages
            PROVE  /\ order'[j] \in Statuses
                   /\ \/ order'[j] = order[j]
                      \/ /\ order[j] \in {"none", "live"}
                         /\ order'[j] \in {"live", "cancelled"}
        <4>1. CASE j = k
          BY <1>4, <3>1, <3>2, <4>1 DEF Statuses
        <4>2. CASE j # k
          BY <3>1, <3>2, <3>3, <4>2 DEF Statuses
        <4> QED
          BY <4>1, <4>2
      <3> QED
        BY <3>1, <3>4
    <2>4. order'[2] \in {"live", "filled"} => order'[1] # "none"
      <3>1. 1 \in Stages /\ 2 \in Stages
        BY DEF Stages
      <3>2. /\ order'[1] = IF 1 = k THEN r.order
                           ELSE IF k = 2 /\ order[1] = "live" THEN "cancelled" ELSE order[1]
            /\ order'[2] = IF 2 = k THEN r.order ELSE order[2]
        BY <1>2, <1>6, <1>10, <3>1
      <3> QED
        BY <1>1, <1>4, <1>6, <1>7, <3>2 DEF ExchangeInv, OrdersCount
    <2>2. ExchangeInv' /\ Moved
      BY <1>1, <1>3, <1>5, <2>1, <2>4, OrdersRefused
    <2>3. WatchInv' /\ UNCHANGED trade
      BY <1>2, <1>10, WatchRests
    <2> QED
      BY <1>3, <2>2, <2>3, TradeSame, OnlyWatch
  <1> QED
    BY <1>4, <1>9, <1>10

\* A copy whose break-even flag is written with the answer of the exchange.
LEMMA BreakEvenWritten ==
    ASSUME NEW m \in Management, CopyNext(m), NEW b \in BOOLEAN,
           b => StopHolds(stop)' \/ profile' # "scalping", b => stop' # None,
           NEW n, n = [m EXCEPT !.be = b]
    PROVE  n \in Management /\ CopyNext(n) /\ n.tp1 = m.tp1 /\ n.tp2 = m.tp2
  <1>1. n = [native |-> m.native, degraded |-> m.degraded, tp1 |-> m.tp1, tp2 |-> m.tp2,
             be |-> b, trail |-> m.trail, lock |-> m.lock, verified |-> m.verified,
             seen |-> m.seen]
    BY DEF Management
  <1>2. n \in Management
    BY <1>1 DEF Management
  <1>3. /\ n.native = m.native /\ n.degraded = m.degraded /\ n.tp1 = m.tp1 /\ n.tp2 = m.tp2
        /\ n.be = b /\ n.seen = m.seen
    BY <1>1
  <1>4. CopyNext(n)
    BY <1>3 DEF CopyNext, StopHolds
  <1> QED
    BY <1>2, <1>3, <1>4

LEMMA BreakEvenStop ==
    /\ BreakEven \in Stops /\ BreakEven # None /\ StopHolds(BreakEven)
    /\ TP1 \in Stops /\ TP1 # None /\ StopHolds(TP1)
  BY StopsAre, Constants DEF StopHolds

LEMMA EarlyKeeps ==
    ASSUME ProfitInv, WatchEarlyBreakEven
    PROVE  ProfitInv'
  <1>1. ExchangeInv /\ WatchTyped /\ WatchSound /\ watch.pc = "early"
    BY DEF ProfitInv, WatchInv, WatchEarlyBreakEven
  <1>2. /\ watch.m \in Management /\ watch.stop \in Stops \cup {None}
        /\ watch.stages \in SUBSET Stages /\ watch.changed \in BOOLEAN
        /\ watch = [pc |-> watch.pc, m |-> watch.m, stop |-> watch.stop,
                    stages |-> watch.stages, changed |-> watch.changed]
    BY <1>1, WatchFields
  <1>3. /\ CopyTrue(watch.m) /\ StopHolds(watch.stop)
        /\ 2 \in watch.stages => ~watch.m.tp2
        /\ ~watch.m.tp2 => watch.stop # None
        /\ StagesHold(watch.stages)
        /\ "tp1" \in Reading
    BY <1>1 DEF WatchSound, Reading
  <1>4. UNCHANGED <<profile, start, size, mark, order, trade, entry, manager>>
    BY DEF WatchEarlyBreakEven
  <1>5. CASE watch.changed
    <2>1. PICK r \in SetStop(BreakEven) :
            /\ stop' = r.stop /\ faults' = faults - r.cost
            /\ watch' = [watch EXCEPT !.pc = "tp1", !.m.be = r.ok]
      BY <1>5 DEF WatchEarlyBreakEven
    <2>2. ExchangeInv' /\ Moved /\ r.ok \in BOOLEAN /\ (r.ok => stop' = BreakEven)
      BY <1>1, <1>4, <2>1, BreakEvenStop, StopAnswered
    <2>3. CopyNext(watch.m) /\ StagesNext(watch.stages)
      BY <1>3, <2>2, CopyMoves, StagesMove
    <2> DEFINE n == [watch.m EXCEPT !.be = r.ok]
    <2>4. n = [watch.m EXCEPT !.be = r.ok]
      OBVIOUS
    <2>5. watch' = [watch EXCEPT !.pc = "tp1", !.m = n]
      BY <2>1
    <2> HIDE DEF n
    <2>6. r.ok => StopHolds(stop)' /\ stop' # None
      BY <2>2, BreakEvenStop, Constants DEF StopHolds
    <2>7. n \in Management /\ CopyNext(n) /\ n.tp2 = watch.m.tp2
      BY <1>2, <2>2, <2>3, <2>4, <2>6, BreakEvenWritten
    <2>8. watch' = [pc |-> "tp1", m |-> n, stop |-> watch.stop,
                    stages |-> watch.stages, changed |-> watch.changed]
      BY <1>2, <2>5
    <2>9. WatchInv'
      BY <1>2, <1>3, <2>2, <2>3, <2>7, <2>8, WatchRecord
    <2> QED
      BY <1>4, <2>2, <2>9, TradeSame, OnlyWatch
  <1>6. CASE ~watch.changed
    <2>1. watch' = [watch EXCEPT !.pc = "tp1"] /\ UNCHANGED <<stop, faults>>
      BY <1>6 DEF WatchEarlyBreakEven
    <2>2. ExchangeInv' /\ Moved
      BY <1>1, <1>4, <2>1, Still
    <2>3. CopyNext(watch.m) /\ StagesNext(watch.stages)
      BY <1>3, <2>2, CopyMoves, StagesMove
    <2>4. watch' = [pc |-> "tp1", m |-> watch.m, stop |-> watch.stop,
                    stages |-> watch.stages, changed |-> watch.changed]
      BY <1>2, <2>1
    <2>5. WatchInv'
      BY <1>2, <1>3, <2>2, <2>3, <2>4, WatchRecord
    <2> QED
      BY <1>4, <2>2, <2>5, TradeSame, OnlyWatch
  <1> QED
    BY <1>2, <1>5, <1>6

\* The end of a cycle.
LEMMA WatchEndsKeeps ==
    ASSUME NEW m \in Management, CopyNext(m), NEW c, WatchEnds(m, c)
    PROVE  WatchInv'
  <1>1. \/ watch' = Watching("save", m)
        \/ watch' = Watching("guard", NoManagement)
    BY DEF WatchEnds
  <1> QED
    BY <1>1, WatchCopies, WatchRests

\* The statuses are stored as they were found, and a lost order is degradation.
LEMMA StatusesStored ==
    ASSUME order' = order, NEW m, CopyNext(m), NEW n,
           n.native = m.native, n.tp1 = m.tp1, n.tp2 = m.tp2, n.be = m.be,
           n.degraded => m.degraded \/ \E k \in Stages : order[k] = "cancelled",
           \A k \in Stages : n.seen[k] = "filled" => order[k] = "filled" \/ m.seen[k] = "filled"
    PROVE  CopyNext(n)
  <1>9. /\ profile' = "scalping" /\ n.be => stop' >= BreakEven
        /\ Intact' => /\ n.tp1 => size' <= Initial - Q1 + Slack
                      /\ n.tp2 => size' <= Initial - (Q1 + Q2) + Slack
    BY DEF CopyNext
  <1>10. ASSUME Intact', NEW k \in Stages, n.seen[k] = "filled" PROVE order'[k] = "filled"
    BY <1>10 DEF CopyNext
  <1>11. ASSUME Intact', start' = "installed" PROVE n.native /\ ~n.degraded
    BY <1>11 DEF CopyNext, Intact
  <1> QED
    BY <1>9, <1>10, <1>11 DEF CopyNext

LEMMA SavesKeeps ==
    ASSUME ProfitInv, WatchSaves \/ GuardSaves
    PROVE  ProfitInv'
  <1>1. ExchangeInv /\ TradeInv /\ WatchTyped /\ WatchSound
    BY DEF ProfitInv, WatchInv
  <1>2. /\ watch.pc \in {"save", "guardsave"} /\ trade' = [trade EXCEPT !.m = watch.m]
        /\ UNCHANGED <<profile, start, size, mark, stop, order, faults, entry, manager>>
        /\ watch' = NoWatch \/ watch' = Watching("guard", NoManagement)
    BY DEF WatchSaves, GuardSaves, exchange
  <1>3. ExchangeInv' /\ Moved
    BY <1>1, <1>2, Still
  <1>4. watch.m \in Management /\ CopyTrue(watch.m)
    BY <1>1, <1>2, WatchFields DEF WatchSound
  <1>5. CopyNext(watch.m)
    BY <1>3, <1>4, CopyMoves
  <1>6. TradeInv'
    BY <1>1, <1>2, <1>3, <1>4, <1>5, TradeWritten
  <1>7. WatchInv'
    BY <1>2, WatchRests
  <1> QED
    BY <1>2, <1>3, <1>6, <1>7, OnlyWatch

\* TP1 is recorded with the answer to its break-even stop.
LEMMA FirstTargetWritten ==
    ASSUME NEW m \in Management, CopyNext(m), NEW b \in BOOLEAN,
           b => StopHolds(stop)' /\ stop' # None,
           Intact' => size' <= Initial - Q1 + Slack,
           NEW n, n = [m EXCEPT !.tp1 = TRUE, !.be = b]
    PROVE  n \in Management /\ CopyNext(n) /\ n.tp2 = m.tp2
  <1>1. n = [native |-> m.native, degraded |-> m.degraded, tp1 |-> TRUE, tp2 |-> m.tp2,
             be |-> b, trail |-> m.trail, lock |-> m.lock, verified |-> m.verified,
             seen |-> m.seen]
    BY DEF Management
  <1>2. n \in Management
    BY <1>1 DEF Management
  <1>3. /\ n.native = m.native /\ n.degraded = m.degraded /\ n.tp2 = m.tp2
        /\ n.be = b /\ n.seen = m.seen
    BY <1>1
  <1>4. CopyNext(n)
    BY <1>3 DEF CopyNext, StopHolds
  <1> QED
    BY <1>2, <1>3, <1>4

LEMMA WatchTP1Keeps ==
    ASSUME ProfitInv, WatchTP1
    PROVE  ProfitInv'
  <1>1. ExchangeInv /\ WatchTyped /\ WatchSound /\ watch.pc = "tp1"
    BY DEF ProfitInv, WatchInv, WatchTP1
  <1>2. /\ watch.m \in Management /\ watch.stop \in Stops \cup {None}
        /\ watch.stages \in SUBSET Stages /\ watch.changed \in BOOLEAN
        /\ watch = [pc |-> watch.pc, m |-> watch.m, stop |-> watch.stop,
                    stages |-> watch.stages, changed |-> watch.changed]
    BY <1>1, WatchFields
  <1>3. /\ CopyTrue(watch.m) /\ StopHolds(watch.stop)
        /\ 2 \in watch.stages => ~watch.m.tp2
        /\ ~watch.m.tp2 => watch.stop # None
        /\ StagesHold(watch.stages)
        /\ "tp2" \in Reading
    BY <1>1 DEF WatchSound, Reading
  <1>4. UNCHANGED <<profile, start, size, mark, order, trade, entry, manager>>
    BY DEF WatchTP1
  <1>5. PICK answered \in {S \in SUBSET Stages : S = Stages \/ Fault} :
          LET cost == IF answered = Stages THEN 0 ELSE 1
              open == answered \ Done(watch.m)
              filled == watch.stages \cup {k \in open : order[k] = "filled"}
              lost == \E k \in open : order[k] = "cancelled"
              m == [watch.m EXCEPT !.degraded = @ \/ lost,
                      !.seen = [k \in Stages |-> IF k \in answered THEN order[k] ELSE @[k]]]
              Goes(n) == IF 2 \in filled
                         THEN watch' = [watch EXCEPT !.pc = "tp2", !.stages = filled, !.m = n]
                         ELSE WatchEnds(n, watch.changed \/ n # watch.m)
          IN IF 1 \in filled
             THEN \E r \in SetStop(BreakEven) :
                     /\ faults >= r.cost + cost
                     /\ stop' = r.stop /\ faults' = faults - r.cost - cost
                     /\ Goes([m EXCEPT !.tp1 = TRUE, !.be = r.ok])
             ELSE Goes(m) /\ faults' = faults - cost /\ UNCHANGED stop
    BY DEF WatchTP1
  <1> DEFINE cost == IF answered = Stages THEN 0 ELSE 1
             open == answered \ Done(watch.m)
             filled == watch.stages \cup {k \in open : order[k] = "filled"}
             d == watch.m.degraded \/ \E k \in open : order[k] = "cancelled"
             seen == [k \in Stages |-> IF k \in answered THEN order[k] ELSE watch.m.seen[k]]
             m == [watch.m EXCEPT !.degraded = d, !.seen = seen]
             Goes(n) == IF 2 \in filled
                        THEN watch' = [watch EXCEPT !.pc = "tp2", !.stages = filled, !.m = n]
                        ELSE WatchEnds(n, watch.changed \/ n # watch.m)
  <1>6. IF 1 \in filled
        THEN \E r \in SetStop(BreakEven) :
                /\ faults >= r.cost + cost
                /\ stop' = r.stop /\ faults' = faults - r.cost - cost
                /\ Goes([m EXCEPT !.tp1 = TRUE, !.be = r.ok])
        ELSE Goes(m) /\ faults' = faults - cost /\ UNCHANGED stop
    BY <1>5
  <1>7. cost \in {0, 1} /\ (cost = 1 => Fault)
    OBVIOUS
  <1>8. d \in BOOLEAN /\ (d => watch.m.degraded \/ \E k \in Stages : order[k] = "cancelled")
    OBVIOUS
  <1>9. /\ seen \in [Stages -> Statuses]
        /\ \A k \in Stages : seen[k] = "filled" =>
             order[k] = "filled" \/ watch.m.seen[k] = "filled"
    BY <1>1, <1>2 DEF ExchangeInv, ExchangeTyped, Management
  <1>10. filled \in SUBSET Stages
    BY <1>2
  <1>11. 2 \in filled => ~watch.m.tp2
    BY <1>3 DEF Done
  <1>12. m = [watch.m EXCEPT !.degraded = d, !.seen = seen]
    OBVIOUS
  <1>13. StagesHold(filled)
    <2>1. size \in Nat
      BY <1>1 DEF ExchangeInv, ExchangeTyped
    <2> QED
      BY <1>1, <1>3, <2>1, Constants, Quantities
         DEF StagesHold, ExchangeInv, OrdersCount, Shrunk
  <1> HIDE DEF cost, filled, d, seen, m
  <1>14. m = [native |-> watch.m.native, degraded |-> d, tp1 |-> watch.m.tp1,
              tp2 |-> watch.m.tp2, be |-> watch.m.be, trail |-> watch.m.trail,
              lock |-> watch.m.lock, verified |-> watch.m.verified, seen |-> seen]
    BY <1>2, <1>12 DEF Management
  <1>15. m \in Management
    BY <1>2, <1>8, <1>9, <1>14 DEF Management
  <1>16. /\ m.native = watch.m.native /\ m.tp1 = watch.m.tp1 /\ m.tp2 = watch.m.tp2
         /\ m.be = watch.m.be /\ m.degraded = d /\ m.seen = seen
    BY <1>14
  <1>17. ASSUME NEW n \in Management, CopyNext(n), n.tp2 = watch.m.tp2, Goes(n), Moved
         PROVE  WatchInv'
    <2>1. CASE 2 \in filled
      <3>1. watch' = [watch EXCEPT !.pc = "tp2", !.stages = filled, !.m = n]
        BY <1>17, <2>1
      <3>2. watch' = [pc |-> "tp2", m |-> n, stop |-> watch.stop,
                      stages |-> filled, changed |-> watch.changed]
        BY <1>2, <3>1
      <3>3. StagesNext(filled)
        BY <1>13, <1>17, StagesMove
      <3> HIDE DEF Goes
      <3>4. (2 \in filled => ~n.tp2) /\ (~n.tp2 => watch.stop # None)
        BY <1>3, <1>11, <1>17
      <3> QED
        BY <1>2, <1>3, <1>10, <1>17, <2>1, <3>2, <3>3, <3>4, WatchRecord
    <2>2. CASE 2 \notin filled
      <3>1. \/ watch' = Watching("save", n)
            \/ watch' = Watching("guard", NoManagement)
        BY <1>17, <2>2 DEF WatchEnds
      <3> HIDE DEF Goes
      <3> QED
        BY <1>17, <3>1, WatchCopies, WatchRests
    <2> QED
      BY <2>1, <2>2
  <1>18. CASE 1 \in filled
    <2>1. PICK r \in SetStop(BreakEven) :
            /\ faults >= r.cost + cost
            /\ stop' = r.stop /\ faults' = faults - r.cost - cost
            /\ Goes([m EXCEPT !.tp1 = TRUE, !.be = r.ok])
      BY <1>6, <1>18
    <2> HIDE DEF Goes
    <2>2. /\ r.stop = stop \/ r.stop = BreakEven
          /\ r.ok \in BOOLEAN /\ (r.ok => r.stop = BreakEven)
          /\ r.cost \in {0, 1}
      BY BreakEvenStop, SetStopAnswers
    <2>3. Scenario'
      <3>1. faults \in Nat
        BY <1>1, TakeProfitAssumption DEF ExchangeInv, Scenario
      <3> DEFINE both == r.cost + cost
      <3>2. both \in Nat /\ both <= faults /\ faults' = faults - both
        BY <1>7, <2>1, <2>2, <3>1
      <3> HIDE DEF both
      <3> QED
        BY <1>1, <1>4, <3>2, FaultsLeft
    <2>4. ExchangeInv' /\ Moved
      BY <1>1, <1>4, <2>1, <2>2, <2>3, BreakEvenStop, StopIsSet
    <2>5. CopyNext(watch.m)
      BY <1>3, <2>4, CopyMoves
    <2>6. m \in Management /\ CopyNext(m) /\ m.tp2 = watch.m.tp2
      BY <1>4, <1>8, <1>9, <1>15, <1>16, <2>5, StatusesStored
    <2> DEFINE n == [m EXCEPT !.tp1 = TRUE, !.be = r.ok]
    <2>7. n = [m EXCEPT !.tp1 = TRUE, !.be = r.ok]
      OBVIOUS
    <2>8. Goes(n)
      BY <2>1
    <2> HIDE DEF n
    <2>9. r.ok => StopHolds(stop)' /\ stop' # None
      BY <2>1, <2>2, BreakEvenStop, Constants DEF StopHolds
    <2>10. Intact' => size' <= Initial - Q1 + Slack
      <3>1. StagesNext(filled)
        BY <1>13, <2>4, StagesMove
      <3> QED
        BY <1>18, <3>1 DEF StagesNext
    <2>11. n \in Management /\ CopyNext(n) /\ n.tp2 = m.tp2
      BY <2>2, <2>6, <2>7, <2>9, <2>10, FirstTargetWritten
    <2>12. WatchInv'
      BY <1>17, <2>4, <2>6, <2>8, <2>11
    <2> QED
      BY <1>4, <2>4, <2>12, TradeSame, OnlyWatch
  <1>19. CASE 1 \notin filled
    <2>1. Goes(m) /\ faults' = faults - cost /\ UNCHANGED stop
      BY <1>6, <1>19
    <2> HIDE DEF Goes
    <2>2. Scenario'
      BY <1>1, <1>4, <1>7, <2>1, FaultsLeft
    <2>3. ExchangeInv' /\ Moved
      BY <1>1, <1>4, <2>1, <2>2, BreakEvenStop, StopIsSet
    <2>4. CopyNext(watch.m)
      BY <1>3, <2>3, CopyMoves
    <2>5. m \in Management /\ CopyNext(m) /\ m.tp2 = watch.m.tp2
      BY <1>4, <1>8, <1>9, <1>15, <1>16, <2>4, StatusesStored
    <2>6. WatchInv'
      BY <1>17, <2>1, <2>3, <2>5
    <2> QED
      BY <1>4, <2>3, <2>6, TradeSame, OnlyWatch
  <1> QED
    BY <1>18, <1>19

\* A copy that records stages that are gone and a break-even that is there.
LEMMA StagesWritten ==
    ASSUME NEW m, CopyNext(m), NEW n,
           n.native = m.native, n.degraded = m.degraded, n.seen = m.seen,
           n.be => m.be \/ profile' # "scalping" \/ stop' >= BreakEven,
           n.tp1 => m.tp1 \/ (Intact' => size' <= Initial - Q1 + Slack),
           n.tp2 => m.tp2 \/ (Intact' => size' <= Initial - (Q1 + Q2) + Slack)
    PROVE  CopyNext(n)
  BY DEF CopyNext

LEMMA WatchTP2Keeps ==
    ASSUME ProfitInv, WatchTP2
    PROVE  ProfitInv'
  <1>1. ExchangeInv /\ WatchTyped /\ WatchSound /\ watch.pc = "tp2"
    BY DEF ProfitInv, WatchInv, WatchTP2
  <1>2. watch.m \in Management /\ watch.stop \in Stops \cup {None}
    BY <1>1, WatchFields
  <1>3. /\ CopyTrue(watch.m) /\ StopHolds(watch.stop)
        /\ 2 \in watch.stages /\ StagesHold(watch.stages) /\ watch.stop \in Stops
    BY <1>1, <1>2 DEF WatchSound, Reading
  <1>4. UNCHANGED <<profile, start, size, mark, order, trade, entry, manager>>
    BY DEF WatchTP2
  <1>5. PICK r \in SetStop(watch.stop) :
          /\ stop' = r.stop /\ faults' = faults - r.cost
          /\ WatchEnds([watch.m EXCEPT !.tp1 = TRUE, !.tp2 = TRUE, !.be = @ \/ r.ok,
                           !.lock = IF profile = "scalping" THEN r.ok ELSE @,
                           !.trail = IF profile = "intraday" /\ r.ok THEN watch.stop
                                     ELSE None], TRUE)
    BY DEF WatchTP2
  <1>6. ExchangeInv' /\ Moved /\ r.ok \in BOOLEAN /\ (r.ok => stop' = watch.stop)
    BY <1>1, <1>3, <1>4, <1>5, StopAnswered
  <1>7. CopyNext(watch.m)
    BY <1>3, <1>6, CopyMoves
  <1> DEFINE b == watch.m.be \/ r.ok
             l == IF profile = "scalping" THEN r.ok ELSE watch.m.lock
             t == IF profile = "intraday" /\ r.ok THEN watch.stop ELSE None
             n == [watch.m EXCEPT !.tp1 = TRUE, !.tp2 = TRUE, !.be = b, !.lock = l, !.trail = t]
  <1>8. WatchEnds(n, TRUE)
    BY <1>5
  <1>9. n = [watch.m EXCEPT !.tp1 = TRUE, !.tp2 = TRUE, !.be = b, !.lock = l, !.trail = t]
    OBVIOUS
  <1>10. b \in BOOLEAN
    OBVIOUS
  <1>11. l \in BOOLEAN
    BY <1>2, <1>6 DEF Management
  <1>12. t \in Stops \cup {None}
    BY <1>3
  <1>13. b => watch.m.be \/ profile' # "scalping" \/ stop' >= BreakEven
    BY <1>3, <1>4, <1>6, StopsAre DEF StopHolds
  <1> HIDE DEF b, l, t, n
  <1>14. n = [native |-> watch.m.native, degraded |-> watch.m.degraded, tp1 |-> TRUE,
              tp2 |-> TRUE, be |-> b, trail |-> t, lock |-> l,
              verified |-> watch.m.verified, seen |-> watch.m.seen]
    BY <1>2, <1>9 DEF Management
  <1>15. n \in Management
    BY <1>2, <1>10, <1>11, <1>12, <1>14 DEF Management
  <1>16. /\ n.native = watch.m.native /\ n.degraded = watch.m.degraded
         /\ n.seen = watch.m.seen /\ n.be = b
    BY <1>14
  <1>17. Intact' => /\ size' <= Initial - Q1 + Slack
                    /\ size' <= Initial - (Q1 + Q2) + Slack
    <2>1. StagesNext(watch.stages)
      BY <1>3, <1>6, StagesMove
    <2>2. size' \in Int
      BY <1>6 DEF Moved
    <2> QED
      BY <1>3, <2>1, <2>2, Constants, Quantities DEF StagesNext
  <1>18. CopyNext(n)
    BY <1>7, <1>13, <1>16, <1>17, StagesWritten
  <1>19. WatchInv'
    BY <1>8, <1>15, <1>18, WatchEndsKeeps
  <1> QED
    BY <1>4, <1>6, <1>19, TradeSame, OnlyWatch

-----------------------------------------------------------------------------
(* The guards.                                                             *)

LEMMA GuardStopIs ==
    ASSUME ExchangeTyped, TradeTyped, NEW tp2
    PROVE  GuardStop(tp2) \in Stops /\ StopHolds(GuardStop(tp2))
  <1>1. stop \in Stops
    BY DEF ExchangeTyped
  <1> QED
    BY <1>1, TrailingIs, StopsAre, Constants DEF GuardStop, StopHolds, Better

\* What a guard writes of the stop keeps the copy true: a scalping guard leaves
\* the break-even flag alone, and nothing is claimed of an intraday one.
LEMMA GuardedIs ==
    ASSUME profile' = profile, NEW m \in Management, CopyNext(m), NEW ok \in BOOLEAN,
           NEW at \in Stops
    PROVE  Guarded(m, ok, at) \in Management /\ CopyNext(Guarded(m, ok, at))
  <1> DEFINE stage == IF m.tp2 THEN {2} ELSE {1}
             v == IF ok THEN m.verified \cup stage ELSE m.verified \ stage
             b == IF profile = "scalping" THEN m.be ELSE IF m.tp2 THEN m.be \/ ok ELSE ok
             l == IF profile = "scalping" THEN ok ELSE m.lock
             t == IF profile = "scalping" THEN None
                  ELSE IF m.tp2 THEN IF ok THEN at ELSE None ELSE m.trail
             n == [m EXCEPT !.verified = v]
  <1>1. v \in SUBSET Stages
    <2>1. m.verified \in SUBSET Stages /\ stage \in SUBSET Stages
      BY DEF Management, Stages
    <2> HIDE DEF stage
    <2> QED
      BY <2>1
  <1>2. b \in BOOLEAN
    <2>1. m.be \in BOOLEAN /\ (m.be \/ ok) \in BOOLEAN
      BY DEF Management
    <2> QED
      BY <2>1
  <1>3. l \in BOOLEAN
    BY DEF Management
  <1>4. t \in Stops \cup {None}
    BY DEF Management
  <1>5. Guarded(m, ok, at) = IF profile = "scalping" THEN [n EXCEPT !.lock = l, !.trail = t]
                             ELSE IF m.tp2 THEN [n EXCEPT !.be = b, !.trail = t]
                             ELSE [n EXCEPT !.be = b]
    BY DEF Guarded
  <1>6. n = [native |-> m.native, degraded |-> m.degraded, tp1 |-> m.tp1, tp2 |-> m.tp2,
             be |-> m.be, trail |-> m.trail, lock |-> m.lock, verified |-> v,
             seen |-> m.seen]
    <2> HIDE DEF v
    <2> QED
      BY DEF Management
  <1>7. /\ profile = "scalping" => b = m.be
        /\ profile # "scalping" => l = m.lock
        /\ profile # "scalping" /\ ~m.tp2 => t = m.trail
    OBVIOUS
  <1> DEFINE g == Guarded(m, ok, at)
  <1> HIDE DEF v, b, l, t, n
  <1>8. g = [native |-> m.native, degraded |-> m.degraded, tp1 |-> m.tp1, tp2 |-> m.tp2,
             be |-> b, trail |-> t, lock |-> l, verified |-> v, seen |-> m.seen]
    <2>1. CASE profile = "scalping"
      BY <1>5, <1>6, <1>7, <2>1
    <2>2. CASE profile # "scalping" /\ m.tp2
      BY <1>5, <1>6, <1>7, <2>2
    <2>3. CASE profile # "scalping" /\ ~m.tp2
      BY <1>5, <1>6, <1>7, <2>3
    <2> QED
      BY <2>1, <2>2, <2>3
  <1> HIDE DEF g
  <1>9. g \in Management
    BY <1>1, <1>2, <1>3, <1>4, <1>8 DEF Management
  <1>10. /\ g.native = m.native /\ g.degraded = m.degraded /\ g.seen = m.seen
         /\ g.tp1 = m.tp1 /\ g.tp2 = m.tp2 /\ g.be = b
    BY <1>8
  <1>11. CopyNext(g)
    BY <1>7, <1>10, StagesWritten
  <1> QED
    BY <1>9, <1>11 DEF g

LEMMA GuardProtectsKeeps ==
    ASSUME ProfitInv, GuardProtects
    PROVE  ProfitInv'
  <1>1. ExchangeInv /\ WatchTyped /\ WatchSound /\ watch.pc = "protect"
    BY DEF ProfitInv, WatchInv, GuardProtects
  <1>2. watch.m \in Management /\ watch.stop \in Stops \cup {None}
    BY <1>1, WatchFields
  <1>3. CopyTrue(watch.m) /\ StopHolds(watch.stop) /\ watch.stop \in Stops
    BY <1>1, <1>2 DEF WatchSound
  <1>4. UNCHANGED <<profile, start, size, mark, order, trade, entry, manager>>
    BY DEF GuardProtects
  <1>5. PICK r \in SetStop(watch.stop) :
          /\ stop' = r.stop /\ faults' = faults - r.cost
          /\ watch' = Watching("guardsave", Guarded(watch.m, r.ok, watch.stop))
    BY DEF GuardProtects
  <1>6. ExchangeInv' /\ Moved /\ r.ok \in BOOLEAN
    BY <1>1, <1>3, <1>4, <1>5, StopAnswered
  <1>7. CopyNext(watch.m)
    BY <1>3, <1>6, CopyMoves
  <1> DEFINE g == Guarded(watch.m, r.ok, watch.stop)
  <1>8. g \in Management /\ CopyNext(g)
    BY <1>2, <1>3, <1>4, <1>6, <1>7, GuardedIs
  <1>9. watch' = Watching("guardsave", g)
    BY <1>5
  <1> HIDE DEF g
  <1>10. WatchInv'
    BY <1>8, <1>9, WatchCopies
  <1> QED
    BY <1>4, <1>6, <1>10, TradeSame, OnlyWatch

\* The stages a guard infers, or has in its record, are gone.
LEMMA GuardedStagesHold ==
    ASSUME ExchangeInv, TradeInv, NEW tick \in {0, Tick}
    PROVE  StagesHold(Inferred(Step) \cup Inferred(tick) \cup Done(trade.m)
                        \cup {k \in Stages : trade.m.seen[k] = "filled"})
  <1> DEFINE stored == {k \in Stages : trade.m.seen[k] = "filled"}
  <1>1. size \in Int
    BY Constants DEF ExchangeInv, ExchangeTyped
  <1>2. StagesHold(Inferred(Step)) /\ StagesHold(Inferred(tick))
    BY Constants, InferredHold DEF ExchangeInv
  <1>3. StagesHold(Done(trade.m))
    BY DEF StagesHold, Done, TradeInv, CopyTrue, Taken
  <1>4. StagesHold(stored)
    <2>1. \A k \in stored : Intact => order[k] = "filled"
      BY DEF TradeInv, CopyTrue, Taken
    <2> HIDE DEF stored
    <2> QED
      BY <1>1, <2>1, Constants, Quantities
         DEF StagesHold, ExchangeInv, OrdersCount, Shrunk
  <1> HIDE DEF stored
  <1>5. StagesHold(Inferred(Step) \cup Inferred(tick) \cup Done(trade.m) \cup stored)
    BY <1>2, <1>3, <1>4 DEF StagesHold
  <1> QED
    BY <1>5 DEF stored

\* A guard is about to ask for a stop.
LEMMA WatchProtects ==
    ASSUME Moved, NEW m \in Management, CopyNext(m), NEW s \in Stops, StopHolds(s),
           watch' = [pc |-> "protect", m |-> m, stop |-> s, stages |-> {}, changed |-> FALSE]
    PROVE  WatchInv'
  <1>1. watch'.pc = "protect" /\ watch'.m = m /\ watch'.stop = s /\ s # None
    BY StopsAre
  <1>2. WatchTyped'
    BY DEF WatchTyped
  <1>3. CopyTrue(watch.m)'
    BY <1>1, WatchCopy
  <1>4. StopHolds(watch.stop)'
    BY <1>1 DEF StopHolds, Moved
  <1>5. WatchSound'
    BY <1>1, <1>3, <1>4 DEF WatchSound, Reading
  <1> QED
    BY <1>2, <1>5 DEF WatchInv

LEMMA GuardReadsKeeps ==
    ASSUME ProfitInv, GuardReads
    PROVE  ProfitInv'
  <1>1. /\ ExchangeInv /\ ExchangeTyped /\ TradeInv /\ TradeTyped /\ CopyTrue(trade.m)
        /\ trade.m \in Management /\ stop \in Stops
    BY DEF ProfitInv, ExchangeInv, ExchangeTyped, TradeInv, TradeTyped
  <1>2. UNCHANGED <<profile, start, size, mark, stop, order, faults, trade, entry, manager>>
    BY DEF GuardReads, exchange
  <1>3. ExchangeInv' /\ Moved
    BY <1>1, <1>2, Still
  <1>4. CopyNext(trade.m)
    BY <1>1, <1>3, CopyMoves
  <1> DEFINE tick == IF trade.m.native THEN Tick ELSE 0
             stored == {k \in Stages : trade.m.seen[k] = "filled"}
             found == Inferred(Step) \cup Inferred(tick) \cup Done(trade.m) \cup stored
             scalps == profile = "scalping" /\ trade.m.native
                         /\ 2 \in Inferred(Step) \cup Done(trade.m)
             guards == profile = "intraday" /\ (Inferred(tick) \cup Done(trade.m)) \cup stored # {}
             tp2 == scalps \/ 2 \in (Inferred(tick) \cup Done(trade.m)) \cup stored
             m == [trade.m EXCEPT !.tp1 = TRUE, !.tp2 = tp2]
             want == GuardStop(tp2)
  <1>5. \/ watch' = NoWatch
        \/ /\ scalps \/ guards
           /\ \/ watch' = Watching("guardsave", Guarded(m, TRUE, stop))
              \/ watch' = [Watching("protect", m) EXCEPT !.stop = want]
    BY DEF GuardReads
  <1>6. /\ scalps \/ guards => found # {}
        /\ tp2 => 2 \in found
        /\ found \in SUBSET Stages
        /\ tp2 \in BOOLEAN
    BY DEF Inferred, Done
  <1>7. StagesHold(found)
    BY <1>1, GuardedStagesHold
  <1>8. m = [trade.m EXCEPT !.tp1 = TRUE, !.tp2 = tp2]
    OBVIOUS
  <1>9. want \in Stops /\ StopHolds(want)
    BY <1>1, GuardStopIs
  <1> DEFINE some == scalps \/ guards
  <1> HIDE DEF stored, found, tp2, m, want, scalps, guards
  <1>10. StagesNext(found)
    BY <1>3, <1>7, StagesMove
  <1>11. some /\ Intact' => /\ size' <= Initial - Q1 + Slack
                            /\ tp2 => size' <= Initial - (Q1 + Q2) + Slack
    <2>1. size' \in Int
      BY <1>3 DEF Moved
    <2>2. some => 1 \in found \/ 2 \in found
      BY <1>6 DEF Stages
    <2> HIDE DEF some
    <2> QED
      BY <1>6, <1>10, <2>1, <2>2, Constants, Quantities DEF StagesNext
  <1>12. m = [native |-> trade.m.native, degraded |-> trade.m.degraded, tp1 |-> TRUE,
              tp2 |-> tp2, be |-> trade.m.be, trail |-> trade.m.trail,
              lock |-> trade.m.lock, verified |-> trade.m.verified, seen |-> trade.m.seen]
    BY <1>1, <1>8 DEF Management
  <1>13. m \in Management
    BY <1>1, <1>6, <1>12 DEF Management
  <1>14. /\ m.native = trade.m.native /\ m.degraded = trade.m.degraded
         /\ m.seen = trade.m.seen /\ m.be = trade.m.be /\ m.tp2 = tp2
    BY <1>12
  <1>15. some => CopyNext(m)
    <2> SUFFICES ASSUME some PROVE CopyNext(m)
      OBVIOUS
    <2>1. /\ Intact' => size' <= Initial - Q1 + Slack
          /\ m.tp2 => (Intact' => size' <= Initial - (Q1 + Q2) + Slack)
      BY <1>11, <1>14
    <2> HIDE DEF some
    <2> QED
      BY <1>4, <1>14, <2>1, StagesWritten
  <1>16. WatchInv'
    <2>1. CASE watch' = NoWatch
      BY <2>1, WatchRests
    <2>2. CASE some /\ watch' = Watching("guardsave", Guarded(m, TRUE, stop))
      <3> DEFINE g == Guarded(m, TRUE, stop)
      <3>1. g \in Management /\ CopyNext(g)
        BY <1>1, <1>2, <1>13, <1>15, <2>2, GuardedIs
      <3> HIDE DEF g
      <3>2. watch' = Watching("guardsave", g)
        BY <2>2 DEF g
      <3> QED
        BY <3>1, <3>2, WatchCopies
    <2>3. CASE some /\ watch' = [Watching("protect", m) EXCEPT !.stop = want]
      <3>1. watch' = [pc |-> "protect", m |-> m, stop |-> want, stages |-> {}, changed |-> FALSE]
        BY <2>3 DEF Watching
      <3>2. CopyNext(m)
        BY <1>15, <2>3
      <3> HIDE DEF some
      <3> QED
        BY <1>3, <1>9, <1>13, <3>1, <3>2, WatchProtects
    <2> QED
      BY <1>5, <2>1, <2>2, <2>3
  <1> QED
    BY <1>2, <1>3, <1>16, TradeSame, OnlyWatch

-----------------------------------------------------------------------------
(* manage_open_trades.                                                     *)

LEMMA DecisionIs ==
    ASSUME NEW m, NEW age \in {"young", "stagnant", "expired"}
    PROVE  /\ Decision(m, age) \in {"full_close", "hold"} \cup Moves
           /\ Decision(m, age) = "tp2" => m.tp1
           /\ Decision(m, age) \in {"tp1", "tp2"} => Fallback(m)
           /\ Decision(m, age) \in {"trailing", "trail"} => profile = "intraday"
  <1> DEFINE polled == IF ~m.be /\ (m.tp1 \/ (profile = "scalping" /\ OneR(mark, trade.ref)))
                       THEN "break_even"
                       ELSE IF m.tp2 /\ profile = "intraday" /\ m.trail = None THEN "trailing"
                       ELSE IF m.tp2 /\ profile = "scalping" /\ ~m.lock THEN "lock"
                       ELSE IF Fallback(m) /\ mark >= TP1 /\ ~m.tp1 THEN "tp1"
                       ELSE IF Fallback(m) /\ mark >= TP2 /\ m.tp1 /\ ~m.tp2 THEN "tp2"
                       ELSE IF m.tp2 /\ profile = "intraday" THEN "trail" ELSE "hold"
  <1>1. /\ polled \in {"hold"} \cup Moves
        /\ polled = "tp2" => m.tp1
        /\ polled \in {"tp1", "tp2"} => Fallback(m)
        /\ polled \in {"trailing", "trail"} => profile = "intraday"
    BY DEF Moves
  <1>2. Decision(m, age) \in {"full_close", "hold", polled}
    <2>1. CASE age = "expired"
      BY <2>1 DEF Decision
    <2>2. CASE age # "expired" /\ trade.ref = 0
      BY <2>2 DEF Decision
    <2>3. CASE age = "stagnant" /\ trade.ref # 0 /\ 4 * mark < Abs(trade.ref)
      BY <2>3 DEF Decision
    <2>4. CASE /\ age # "expired" /\ trade.ref # 0
               /\ ~(age = "stagnant" /\ trade.ref # 0 /\ 4 * mark < Abs(trade.ref))
      BY <2>4 DEF Decision
    <2> QED
      BY <2>1, <2>2, <2>3, <2>4
  <1> HIDE DEF polled
  <1> QED
    BY <1>1, <1>2

LEMMA DecidedStopIs ==
    ASSUME ExchangeTyped, TradeTyped, NEW act \in {"full_close"} \cup Moves,
           act \in {"trailing", "trail"} => profile = "intraday"
    PROVE  /\ DecidedStop(act) \in Stops \cup {None} /\ StopHolds(DecidedStop(act))
           /\ act \in Moves => DecidedStop(act) # None
  <1>1. CASE act = "full_close"
    BY <1>1 DEF DecidedStop, StopHolds, Moves
  <1>2. CASE act \in {"break_even", "tp1"}
    BY <1>2, BreakEvenStop DEF DecidedStop
  <1>3. CASE act \in {"lock", "tp2"}
    BY <1>3, PostTP2Is, StopsAre DEF DecidedStop
  <1>4. CASE act \in {"trailing", "trail"}
    BY <1>4, TrailingIs, StopsAre DEF DecidedStop, StopHolds
  <1> QED
    BY <1>1, <1>2, <1>3, <1>4 DEF Moves

LEMMA ManagerActs ==
    ASSUME Moved, NEW m \in Management, CopyNext(m), NEW act \in {"full_close"} \cup Moves,
           NEW s \in Stops \cup {None}, StopHolds(s), act \in Moves => s # None,
           act = "tp2" => m.tp1, act \in {"tp1", "tp2"} /\ start' = "installed" => ~Intact',
           manager' = [pc |-> "act", m |-> m, act |-> act, stop |-> s]
    PROVE  ManagerInv'
  <1>1. manager'.pc = "act" /\ manager'.m = m /\ manager'.act = act /\ manager'.stop = s
    OBVIOUS
  <1>2. ManagerTyped'
    BY DEF ManagerTyped, Moves, Acts
  <1>3. CopyTrue(manager.m)'
    BY <1>1, ManagerCopy
  <1>4. StopHolds(manager.stop)'
    BY <1>1 DEF StopHolds, Moved
  <1>5. ManagerSound'
    BY <1>1, <1>3, <1>4 DEF ManagerSound, Moves
  <1> QED
    BY <1>2, <1>5 DEF ManagerInv

LEMMA ManagerReadsKeeps ==
    ASSUME ProfitInv, ManagerReads
    PROVE  ProfitInv'
  <1>1. /\ ExchangeInv /\ ExchangeTyped /\ TradeTyped /\ CopyTrue(trade.m)
        /\ trade.m \in Management
    BY DEF ProfitInv, ExchangeInv, TradeInv, TradeTyped
  <1>2. UNCHANGED <<profile, start, size, mark, stop, order, faults, trade, entry, watch>>
    BY DEF ManagerReads, exchange
  <1>3. ExchangeInv' /\ Moved
    BY <1>1, <1>2, Still
  <1>4. CopyNext(trade.m)
    BY <1>1, <1>3, CopyMoves
  <1>5. PICK age \in {"young", "stagnant", "expired"} :
          manager' = IF Decision(trade.m, age) = "hold" THEN Managing("save", trade.m)
                     ELSE [pc |-> "act", m |-> trade.m, act |-> Decision(trade.m, age),
                           stop |-> DecidedStop(Decision(trade.m, age))]
    BY DEF ManagerReads
  <1> DEFINE act == Decision(trade.m, age)
             s == DecidedStop(act)
  <1>6. /\ act \in {"full_close", "hold"} \cup Moves
        /\ act = "tp2" => trade.m.tp1
        /\ act \in {"tp1", "tp2"} => Fallback(trade.m)
        /\ act \in {"trailing", "trail"} => profile = "intraday"
    BY DecisionIs
  <1>7. manager' = IF act = "hold" THEN Managing("save", trade.m)
                   ELSE [pc |-> "act", m |-> trade.m, act |-> act, stop |-> s]
    BY <1>5
  <1>8. act # "hold" => /\ s \in Stops \cup {None} /\ StopHolds(s)
                        /\ act \in Moves => s # None
    <2> HIDE DEF act
    <2> QED
      BY <1>1, <1>6, DecidedStopIs
  <1> HIDE DEF act, s
  <1>9. act \in {"tp1", "tp2"} /\ start' = "installed" => ~Intact'
    BY <1>1, <1>2, <1>3, <1>6 DEF CopyTrue, Owned, Fallback, Moved
  <1>10. ManagerInv'
    <2>1. CASE act = "hold"
      BY <1>1, <1>4, <1>7, <2>1, ManagerCopies
    <2>2. CASE act # "hold"
      BY <1>1, <1>3, <1>4, <1>6, <1>7, <1>8, <1>9, <2>2, ManagerActs
    <2> QED
      BY <2>1, <2>2
  <1> QED
    BY <1>2, <1>3, <1>10, TradeSame, OnlyManager

LEMMA ManagerFields ==
    ASSUME ManagerTyped
    PROVE  /\ manager.m \in Management /\ manager.stop \in Stops \cup {None}
           /\ manager = [pc |-> manager.pc, m |-> manager.m, act |-> manager.act,
                         stop |-> manager.stop]
  BY DEF ManagerTyped

LEMMA ManagerClosesKeeps ==
    ASSUME ProfitInv, ManagerClosesFully
    PROVE  ProfitInv'
  <1>1. PICK r \in MarketClose(Initial) :
          /\ size' = r.size /\ order' = Gone(r.size) /\ faults' = faults - r.cost
          /\ manager' = NoManager
    BY DEF ManagerClosesFully
  <1>2. UNCHANGED <<profile, start, mark, entry, watch, stop, trade>>
    BY DEF ManagerClosesFully, Unmanaged
  <1>3. ExchangeInv
    BY DEF ProfitInv
  <1>4. ExchangeInv' /\ Moved
    BY <1>1, <1>2, <1>3, Constants, CloseAnswered
  <1>5. ManagerInv'
    BY <1>1, ManagerRests
  <1> QED
    BY <1>2, <1>4, <1>5, TradeSame, OnlyManager

\* What a moved stop is recorded as.
LEMMA StopRecorded ==
    ASSUME NEW m \in Management, CopyNext(m), NEW act, NEW s \in Stops,
           profile' = profile, act = "break_even" => (profile = "scalping" => stop' >= BreakEven),
           NEW n, act = "break_even" => n = [m EXCEPT !.be = TRUE],
           act = "lock" => n = [m EXCEPT !.lock = TRUE, !.trail = None],
           act \notin {"break_even", "lock"} => n = [m EXCEPT !.trail = s]
    PROVE  n \in Management /\ CopyNext(n)
  <1> DEFINE b == act = "break_even" \/ m.be
             l == act = "lock" \/ m.lock
             t == IF act = "break_even" THEN m.trail ELSE IF act = "lock" THEN None ELSE s
  <1>1. b \in BOOLEAN /\ l \in BOOLEAN
    OBVIOUS
  <1>2. t \in Stops \cup {None}
    BY DEF Management
  <1>3. n = [native |-> m.native, degraded |-> m.degraded, tp1 |-> m.tp1, tp2 |-> m.tp2,
             be |-> b, trail |-> t, lock |-> l, verified |-> m.verified, seen |-> m.seen]
    <2>0. m.be \in BOOLEAN /\ m.lock \in BOOLEAN
      BY DEF Management
    <2>1. CASE act = "break_even"
      <3>1. n = [m EXCEPT !.be = TRUE] /\ b = TRUE /\ t = m.trail
        BY <2>1
      <3>2. l = m.lock
        BY <2>0, <2>1
      <3> HIDE DEF b, l, t
      <3> QED
        BY <3>1, <3>2 DEF Management
    <2>2. CASE act = "lock"
      <3>1. n = [m EXCEPT !.lock = TRUE, !.trail = None] /\ l = TRUE /\ t = None
        BY <2>2
      <3>2. b = m.be
        BY <2>0, <2>2
      <3> HIDE DEF b, l, t
      <3> QED
        BY <3>1, <3>2 DEF Management
    <2>3. CASE act \notin {"break_even", "lock"}
      <3>1. n = [m EXCEPT !.trail = s] /\ t = s
        BY <2>3
      <3>2. b = m.be /\ l = m.lock
        BY <2>0, <2>3
      <3> HIDE DEF b, l, t
      <3> QED
        BY <3>1, <3>2 DEF Management
    <2> QED
      BY <2>1, <2>2, <2>3
  <1>4. b => m.be \/ profile' # "scalping" \/ stop' >= BreakEven
    OBVIOUS
  <1> HIDE DEF b, l, t
  <1>5. n \in Management
    BY <1>1, <1>2, <1>3 DEF Management
  <1>6. /\ n.native = m.native /\ n.degraded = m.degraded /\ n.seen = m.seen
        /\ n.tp1 = m.tp1 /\ n.tp2 = m.tp2 /\ n.be = b
    BY <1>3
  <1>7. CopyNext(n)
    BY <1>4, <1>6, StagesWritten
  <1> QED
    BY <1>5, <1>7

LEMMA ManagerMovesKeeps ==
    ASSUME ProfitInv, ManagerMovesStop
    PROVE  ProfitInv'
  <1>1. /\ ExchangeInv /\ ManagerTyped /\ ManagerSound /\ manager.pc = "act"
        /\ manager.act \in {"break_even", "trailing", "lock", "trail"}
    BY DEF ProfitInv, ManagerInv, ManagerMovesStop
  <1>2. UNCHANGED <<profile, start, mark, entry, watch, size, order, trade>>
    BY DEF ManagerMovesStop, Unmanaged
  <1>3. /\ manager.m \in Management /\ manager.stop \in Stops
        /\ CopyTrue(manager.m) /\ StopHolds(manager.stop)
    BY <1>1, ManagerFields DEF ManagerSound, Moves
  <1>4. \/ manager' = NoManager /\ UNCHANGED <<stop, faults>>
        \/ \E r \in SetStop(manager.stop) :
             /\ stop' = r.stop /\ faults' = faults - r.cost
             /\ IF ~r.ok THEN manager' = NoManager
                ELSE manager' = Managing("save",
                       CASE manager.act = "break_even" -> [manager.m EXCEPT !.be = TRUE]
                         [] manager.act = "lock" -> [manager.m EXCEPT !.lock = TRUE, !.trail = None]
                         [] OTHER -> [manager.m EXCEPT !.trail = manager.stop])
    BY DEF ManagerMovesStop
  <1>5. CASE manager' = NoManager /\ UNCHANGED <<stop, faults>>
    <2>1. ExchangeInv' /\ Moved
      BY <1>1, <1>2, <1>5, Still
    <2>2. ManagerInv'
      BY <1>5, ManagerRests
    <2> QED
      BY <1>2, <2>1, <2>2, TradeSame, OnlyManager
  <1>6. ASSUME NEW r \in SetStop(manager.stop),
               stop' = r.stop, faults' = faults - r.cost,
               IF ~r.ok THEN manager' = NoManager
               ELSE manager' = Managing("save",
                      CASE manager.act = "break_even" -> [manager.m EXCEPT !.be = TRUE]
                        [] manager.act = "lock" -> [manager.m EXCEPT !.lock = TRUE, !.trail = None]
                        [] OTHER -> [manager.m EXCEPT !.trail = manager.stop])
        PROVE  ProfitInv'
    <2>1. ExchangeInv' /\ Moved /\ (r.ok => stop' = manager.stop)
      BY <1>1, <1>2, <1>3, <1>6, StopAnswered
    <2>2. CopyNext(manager.m)
      BY <1>3, <2>1, CopyMoves
    <2>3. CASE ~r.ok
      BY <1>2, <1>6, <2>1, <2>3, ManagerRests, TradeSame, OnlyManager
    <2>4. CASE r.ok
      <3> DEFINE n == CASE manager.act = "break_even" -> [manager.m EXCEPT !.be = TRUE]
                        [] manager.act = "lock" -> [manager.m EXCEPT !.lock = TRUE, !.trail = None]
                        [] OTHER -> [manager.m EXCEPT !.trail = manager.stop]
      <3>1. manager' = Managing("save", n)
        BY <1>6, <2>4
      <3>2. profile = "scalping" => stop' >= BreakEven
        BY <1>3, <2>1, <2>4, StopsAre DEF StopHolds
      <3>3. /\ manager.act = "break_even" => n = [manager.m EXCEPT !.be = TRUE]
            /\ manager.act = "lock" => n = [manager.m EXCEPT !.lock = TRUE, !.trail = None]
            /\ manager.act \notin {"break_even", "lock"}
                 => n = [manager.m EXCEPT !.trail = manager.stop]
        OBVIOUS
      <3> HIDE DEF n
      <3>4. n \in Management /\ CopyNext(n)
        BY <1>2, <1>3, <2>2, <3>2, <3>3, StopRecorded
      <3>5. ManagerInv'
        BY <3>1, <3>4, ManagerCopies
      <3> QED
        BY <1>2, <2>1, <3>5, TradeSame, OnlyManager
    <2> QED
      BY <2>3, <2>4
  <1> QED
    BY <1>4, <1>5, <1>6

LEMMA ManagerProtecting ==
    ASSUME Moved, NEW m \in Management, CopyNext(m), NEW act \in {"tp1", "tp2"},
           NEW s \in Stops, StopHolds(s), act = "tp2" => m.tp1,
           start' = "installed" => ~Intact',
           manager' = [pc |-> "protect", m |-> m, act |-> act, stop |-> s]
    PROVE  ManagerInv'
  <1>1. /\ manager'.pc = "protect" /\ manager'.m = m /\ manager'.act = act
        /\ manager'.stop = s /\ s # None
    BY StopsAre
  <1>2. ManagerTyped'
    BY DEF ManagerTyped, Acts
  <1>3. CopyTrue(manager.m)'
    BY <1>1, ManagerCopy
  <1>4. StopHolds(manager.stop)'
    BY <1>1 DEF StopHolds, Moved
  <1>5. ManagerSound'
    BY <1>1, <1>3, <1>4 DEF ManagerSound, Moves
  <1> QED
    BY <1>2, <1>5 DEF ManagerInv

LEMMA ManagerTakesKeeps ==
    ASSUME ProfitInv, NEW k \in Stages, ManagerTakesProfit(k)
    PROVE  ProfitInv'
  <1>1. /\ ExchangeInv /\ ManagerTyped /\ ManagerSound /\ manager.pc = "act"
        /\ manager.act = (IF k = 1 THEN "tp1" ELSE "tp2")
    BY DEF ProfitInv, ManagerInv, ManagerTakesProfit
  <1>2. UNCHANGED <<profile, start, mark, entry, watch, stop, trade>>
    BY DEF ManagerTakesProfit, Unmanaged
  <1>3. (k = 1 \/ k = 2) /\ manager.act \in {"tp1", "tp2"}
    BY <1>1 DEF Stages
  <1>4. /\ manager.m \in Management /\ manager.stop \in Stops
        /\ CopyTrue(manager.m) /\ StopHolds(manager.stop)
        /\ manager = [pc |-> manager.pc, m |-> manager.m, act |-> manager.act,
                      stop |-> manager.stop]
        /\ k = 2 => manager.m.tp1
        /\ start = "installed" => ~Intact
    BY <1>1, <1>3, ManagerFields DEF ManagerSound, Moves
  <1>5. PICK r \in MarketClose(Qty(k)) :
          /\ size' = r.size /\ order' = Gone(r.size) /\ faults' = faults - r.cost
          /\ IF r.ok THEN manager' = [manager EXCEPT !.pc = "protect", !.m.tp1 = @ \/ k = 1,
                                                          !.m.tp2 = @ \/ k = 2]
             ELSE manager' = NoManager
    BY DEF ManagerTakesProfit
  <1>6. Qty(k) \in Nat /\ Qty(k) <= Initial /\ Qty(k) = (IF k = 1 THEN Q1 ELSE Q2)
    BY Quantities DEF Qty
  <1>7. /\ ExchangeInv' /\ Moved /\ r.ok \in BOOLEAN
        /\ r.ok => size' = 0 \/ size' = size - Qty(k)
    BY <1>1, <1>2, <1>5, <1>6, CloseAnswered
  <1>8. CopyNext(manager.m)
    BY <1>4, <1>7, CopyMoves
  <1>9. CASE ~r.ok
    <2>1. ManagerInv'
      BY <1>5, <1>9, ManagerRests
    <2> QED
      BY <1>2, <1>7, <2>1, TradeSame, OnlyManager
  <1>10. CASE r.ok
    <2> DEFINE t1 == manager.m.tp1 \/ k = 1
               t2 == manager.m.tp2 \/ k = 2
               n == [manager.m EXCEPT !.tp1 = t1, !.tp2 = t2]
    <2>1. manager' = [manager EXCEPT !.pc = "protect", !.m = n]
      BY <1>4, <1>5, <1>10
    <2>2. n = [manager.m EXCEPT !.tp1 = t1, !.tp2 = t2]
      OBVIOUS
    <2>3. t1 \in BOOLEAN /\ t2 \in BOOLEAN
      OBVIOUS
    <2>4. (t1 => manager.m.tp1 \/ k = 1) /\ (t2 => manager.m.tp2 \/ k = 2)
      OBVIOUS
    <2>5. manager.act = "tp2" => t1
      BY <1>1, <1>3, <1>4
    <2> HIDE DEF t1, t2, n
    <2>6. n = [native |-> manager.m.native, degraded |-> manager.m.degraded, tp1 |-> t1,
               tp2 |-> t2, be |-> manager.m.be, trail |-> manager.m.trail,
               lock |-> manager.m.lock, verified |-> manager.m.verified,
               seen |-> manager.m.seen]
      BY <1>4, <2>2 DEF Management
    <2>7. n \in Management
      BY <1>4, <2>3, <2>6 DEF Management
    <2>8. /\ n.native = manager.m.native /\ n.degraded = manager.m.degraded
          /\ n.seen = manager.m.seen /\ n.be = manager.m.be /\ n.tp1 = t1 /\ n.tp2 = t2
      BY <2>6
    <2>9. size \in 0 .. Initial /\ size' \in Int /\ (Intact' => Intact)
      BY <1>1, <1>7 DEF ExchangeInv, ExchangeTyped, Moved
    <2>10. k = 1 => size' <= Initial - Q1 + Slack
      BY <1>6, <1>7, <1>10, <2>9, Constants, Quantities
    <2>11. k = 2 => (Intact' => size' <= Initial - (Q1 + Q2) + Slack)
      <3>1. k = 2 /\ Intact' => size <= Initial - Q1 + Slack
        BY <1>4, <2>9 DEF CopyTrue, Taken, Shrunk
      <3> QED
        BY <1>6, <1>7, <1>10, <2>9, <3>1, Constants, Quantities
    <2>12. CopyNext(n)
      BY <1>8, <2>4, <2>8, <2>10, <2>11, StagesWritten
    <2>13. manager' = [pc |-> "protect", m |-> n, act |-> manager.act, stop |-> manager.stop]
      BY <1>4, <2>1
    <2>14. start' = "installed" => ~Intact'
      BY <1>2, <1>4, <2>9
    <2>15. ManagerInv'
      BY <1>3, <1>4, <1>7, <2>5, <2>7, <2>8, <2>12, <2>13, <2>14, ManagerProtecting
    <2> QED
      BY <1>2, <1>7, <2>15, TradeSame, OnlyManager
  <1> QED
    BY <1>7, <1>9, <1>10

LEMMA ManagerProtectsKeeps ==
    ASSUME ProfitInv, ManagerProtects
    PROVE  ProfitInv'
  <1>1. /\ ExchangeInv /\ ManagerTyped /\ ManagerSound /\ manager.pc = "protect"
    BY DEF ProfitInv, ManagerInv, ManagerProtects
  <1>2. UNCHANGED <<profile, start, mark, entry, watch, size, order, trade>>
    BY DEF ManagerProtects, Unmanaged
  <1>3. /\ manager.m \in Management /\ manager.stop \in Stops
        /\ CopyTrue(manager.m) /\ StopHolds(manager.stop)
    BY <1>1, ManagerFields DEF ManagerSound, Moves
  <1>4. PICK r \in SetStop(manager.stop) :
          /\ stop' = r.stop /\ faults' = faults - r.cost
          /\ manager' = Managing("save",
                IF manager.act = "tp1" THEN [manager.m EXCEPT !.be = r.ok]
                ELSE [manager.m EXCEPT
                        !.lock = IF profile = "scalping" THEN r.ok ELSE @,
                        !.trail = IF profile = "intraday" /\ r.ok THEN manager.stop ELSE None])
    BY DEF ManagerProtects
  <1>5. ExchangeInv' /\ Moved /\ r.ok \in BOOLEAN /\ (r.ok => stop' = manager.stop)
    BY <1>1, <1>2, <1>3, <1>4, StopAnswered
  <1>6. CopyNext(manager.m)
    BY <1>3, <1>5, CopyMoves
  <1> DEFINE b == IF manager.act = "tp1" THEN r.ok ELSE manager.m.be
             l == IF manager.act # "tp1" /\ profile = "scalping" THEN r.ok ELSE manager.m.lock
             t == IF manager.act = "tp1" THEN manager.m.trail
                  ELSE IF profile = "intraday" /\ r.ok THEN manager.stop ELSE None
             n == IF manager.act = "tp1" THEN [manager.m EXCEPT !.be = b]
                  ELSE [manager.m EXCEPT !.lock = l, !.trail = t]
  <1>7. manager' = Managing("save", n)
    <2>1. CASE manager.act = "tp1"
      BY <1>4, <2>1
    <2>2. CASE manager.act # "tp1"
      BY <1>4, <2>2
    <2> QED
      BY <2>1, <2>2
  <1>8. /\ manager.act = "tp1" => n = [manager.m EXCEPT !.be = b]
        /\ manager.act # "tp1" => n = [manager.m EXCEPT !.lock = l, !.trail = t]
    OBVIOUS
  <1>9. b \in BOOLEAN
    BY <1>3, <1>5 DEF Management
  <1>10. l \in BOOLEAN
    BY <1>3, <1>5 DEF Management
  <1>11. t \in Stops \cup {None}
    BY <1>3 DEF Management
  <1>12. /\ manager.act = "tp1" => l = manager.m.lock /\ t = manager.m.trail
         /\ manager.act # "tp1" => b = manager.m.be
    OBVIOUS
  <1>13. b => manager.m.be \/ profile' # "scalping" \/ stop' >= BreakEven
    <2>1. r.ok /\ profile = "scalping" => stop' >= BreakEven
      BY <1>3, <1>5, StopsAre DEF StopHolds
    <2>2. b => manager.m.be \/ r.ok
      OBVIOUS
    <2> HIDE DEF b
    <2> QED
      BY <1>2, <2>1, <2>2
  <1> HIDE DEF b, l, t, n
  <1>14. n = [native |-> manager.m.native, degraded |-> manager.m.degraded,
              tp1 |-> manager.m.tp1, tp2 |-> manager.m.tp2, be |-> b, trail |-> t,
              lock |-> l, verified |-> manager.m.verified, seen |-> manager.m.seen]
    BY <1>3, <1>8, <1>12 DEF Management
  <1>15. n \in Management
    BY <1>3, <1>9, <1>10, <1>11, <1>14 DEF Management
  <1>16. /\ n.native = manager.m.native /\ n.degraded = manager.m.degraded
         /\ n.seen = manager.m.seen /\ n.tp1 = manager.m.tp1 /\ n.tp2 = manager.m.tp2
         /\ n.be = b
    BY <1>14
  <1>17. CopyNext(n)
    BY <1>6, <1>13, <1>16, StagesWritten
  <1>18. ManagerInv'
    BY <1>7, <1>15, <1>17, ManagerCopies
  <1> QED
    BY <1>2, <1>5, <1>18, TradeSame, OnlyManager

LEMMA ManagerSavesKeeps ==
    ASSUME ProfitInv, ManagerSaves
    PROVE  ProfitInv'
  <1>1. ExchangeInv /\ TradeInv /\ ManagerTyped /\ ManagerSound
    BY DEF ProfitInv, ManagerInv
  <1>2. /\ manager.pc = "save" /\ trade' = [trade EXCEPT !.m = manager.m]
        /\ UNCHANGED <<profile, start, size, mark, stop, order, faults, entry, watch>>
        /\ manager' = NoManager
    BY DEF ManagerSaves, exchange
  <1>3. ExchangeInv' /\ Moved
    BY <1>1, <1>2, Still
  <1>4. manager.m \in Management /\ CopyTrue(manager.m)
    BY <1>1, <1>2, ManagerFields DEF ManagerSound
  <1>5. CopyNext(manager.m)
    BY <1>3, <1>4, CopyMoves
  <1>6. TradeInv'
    BY <1>1, <1>2, <1>3, <1>4, <1>5, TradeWritten
  <1>7. ManagerInv'
    BY <1>2, ManagerRests
  <1> QED
    BY <1>2, <1>3, <1>6, <1>7, OnlyManager

-----------------------------------------------------------------------------
(* The initial states and the next-state relation.                         *)

LEMMA InitHolds == Init => ProfitInv
  <1> SUFFICES ASSUME Init PROVE ProfitInv
    OBVIOUS
  <1>1. Scenario
    BY TakeProfitAssumption DEF Init, Scenario
  <1>2. \/ order = [k \in Stages |-> "live"]
        \/ order = [k \in Stages |-> "none"]
    BY DEF Init
  <1>3. /\ order \in [Stages -> Statuses] /\ order[1] = order[2]
        /\ \A k \in Stages : order[k] \in {"live", "none"}
    BY <1>2 DEF Statuses, Stages
  <1>4. mark \in Prices
    BY LowestPrice DEF Init
  <1>5. size = Initial /\ stop = -Risk /\ stop \in Stops
    BY StopsAre DEF Init
  <1>6. ExchangeInv
    <2>1. ExchangeTyped
      BY <1>3, <1>4, <1>5, Constants DEF ExchangeTyped
    <2>2. OrdersCount
      BY <1>3 DEF OrdersCount, Stages
    <2> QED
      BY <1>1, <2>1, <2>2 DEF ExchangeInv
  <1> DEFINE b == start = "installed"
             m == [NoManagement EXCEPT !.native = b, !.seen = order]
  <1>7. m = [NoManagement EXCEPT !.native = b, !.seen = order]
    OBVIOUS
  <1>8. b \in BOOLEAN
    OBVIOUS
  <1>9. trade = [m |-> m, ref |-> -Risk]
    BY DEF Init
  <1>10. b <=> start = "installed"
    OBVIOUS
  <1> HIDE DEF m, b
  <1>11. m = [native |-> b, degraded |-> FALSE, tp1 |-> FALSE, tp2 |-> FALSE,
              be |-> FALSE, trail |-> None, lock |-> FALSE, verified |-> {}, seen |-> order]
    BY <1>7 DEF NoManagement
  <1>12. m \in Management
    BY <1>3, <1>8, <1>11 DEF Management
  <1>13. ~m.degraded /\ ~m.tp1 /\ ~m.tp2 /\ ~m.be /\ m.native = b /\ m.seen = order
    BY <1>11
  <1>14. CopyTrue(m)
    BY <1>10, <1>13 DEF CopyTrue, Protected, Taken, Owned
  <1>15. TradeInv
    <2>1. trade.m = m /\ trade \in [m : Management, ref : Stops]
      BY <1>9, <1>12, StopsAre
    <2> QED
      BY <1>14, <2>1 DEF TradeInv, TradeTyped
  <1>16. EntryInv
    BY DEF Init, EntryInv, EntryTyped, EntrySound
  <1>17. WatchInv
    <2>1. watch = [pc |-> "idle", m |-> NoManagement, stop |-> None, stages |-> {},
                   changed |-> FALSE]
      BY DEF Init, NoWatch, Watching
    <2>2. watch.pc = "idle" /\ watch.stop = None
      BY <2>1
    <2> QED
      BY <2>1, <2>2, NoManagementTyped
         DEF WatchInv, WatchTyped, WatchSound, Reading, StopHolds
  <1>18. ManagerInv
    <2>1. manager = [pc |-> "idle", m |-> NoManagement, act |-> "none", stop |-> None]
      BY DEF Init, NoManager, Managing
    <2>2. manager.pc = "idle" /\ manager.act = "none" /\ manager.stop = None
      BY <2>1
    <2> QED
      BY <2>1, <2>2, NoManagementTyped
         DEF ManagerInv, ManagerTyped, ManagerSound, Moves, Acts, StopHolds
  <1> QED
    BY <1>6, <1>15, <1>16, <1>17, <1>18 DEF ProfitInv

LEMMA NextKeeps ==
    ASSUME ProfitInv, [Next]_vars
    PROVE  ProfitInv'
  <1>1. CASE Market
    BY <1>1, MarketKeeps
  <1>2. CASE Entry
    BY <1>2, EntryKeeps
  <1>3. CASE Watch
    BY <1>3, WatchReadsKeeps, WatchAdoptsKeeps, EarlyKeeps, WatchTP1Keeps, WatchTP2Keeps,
       SavesKeeps, GuardReadsKeeps, GuardProtectsKeeps DEF Watch
  <1>4. CASE Manage
    BY <1>4, ManagerReadsKeeps, ManagerClosesKeeps, ManagerMovesKeeps, ManagerTakesKeeps,
       ManagerProtectsKeeps, ManagerSavesKeeps DEF Manage
  <1>5. CASE UNCHANGED vars
    <2>1. /\ UNCHANGED <<profile, start, size, mark, stop, order, faults>>
          /\ UNCHANGED <<trade, entry, watch, manager>>
      BY <1>5 DEF vars
    <2>2. ExchangeInv' /\ Moved
      BY <2>1, Still DEF ProfitInv
    <2> QED
      BY <2>1, <2>2, OnlyExchange
  <1> QED
    BY <1>1, <1>2, <1>3, <1>4, <1>5 DEF Next

-----------------------------------------------------------------------------
(* The theorems.                                                           *)

LEMMA InvHolds == Spec => []ProfitInv
  <1>1. ProfitInv /\ [Next]_vars => ProfitInv'
    BY NextKeeps
  <1> QED
    BY InitHolds, <1>1, PTL DEF Spec

\* Every variable keeps its type: the position never goes below nothing or above
\* the entry, and no writer asks for a stop outside the levels of the trade.
THEOREM TakeProfitTypeCorrect == Spec => []TypeOK
  BY InvHolds, InvImpliesTypeOK, PTL

\* A scalping trade whose management state says break_even_set has its stop at
\* break-even or better on the exchange, although the entry, the monitor and
\* manage_open_trades each write back the whole of an old copy: no writer moves
\* a scalping stop back below break-even, so an old copy still tells the truth.
THEOREM ProtectionIsReal == Spec => []RecordedProtectionIsReal
  BY InvHolds, InvImpliesProtection, PTL

\* What StagesAreReal says, up to the larger of the two tolerances.
StagesAreNearlyReal ==
    Intact => /\ Open /\ trade.m.tp1 => Shrunk(Q1, Slack)
              /\ Open /\ trade.m.tp2 => Shrunk(Q1 + Q2, Slack)

\* tp1_done and tp2_done are recorded only when that much of the position is
\* gone, up to the quantity step of the monitor or the price tick that the
\* intraday guard compares quantities with, whichever is larger.
THEOREM StagesStayNearlyReal == Spec => []StagesAreNearlyReal
  <1>1. ProfitInv => StagesAreNearlyReal
    BY DEF ProfitInv, TradeInv, CopyTrue, Taken, StagesAreNearlyReal
  <1> QED
    BY InvHolds, <1>1, PTL

\* Where the price tick is no larger than the quantity step they are recorded up
\* to the quantity step; where it is larger the intraday guard breaks this.
THEOREM StagesStayReal == Tick <= Step => (Spec => []StagesAreReal)
  <1> SUFFICES ASSUME Tick <= Step PROVE Spec => []StagesAreReal
    OBVIOUS
  <1>1. ProfitInv => StagesAreReal
    BY InvImpliesStages
  <1> QED
    BY InvHolds, <1>1, PTL

\* The mark-price loop never closes a part at market beside a live native order,
\* for a trade set up at entry that has lost none of its orders.
THEOREM TargetsAreOwned == Spec => NativeOwnsTargets
  <1>1. ProfitInv => (start = "installed" /\ (\A k \in Stages : order[k] # "cancelled")
                        => ~SubmitsDuplicate)
    BY DEF ProfitInv, ManagerInv, ManagerSound, SubmitsDuplicate, Intact
  <1>2. ProfitInv => [start = "installed" /\ (\A k \in Stages : order[k] # "cancelled")
                        => ~SubmitsDuplicate]_vars
    BY <1>1
  <1> QED
    BY InvHolds, <1>2, PTL DEF NativeOwnsTargets
=============================================================================

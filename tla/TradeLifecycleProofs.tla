------------------------ MODULE TradeLifecycleProofs ------------------------
(***************************************************************************)
(* Proofs that exposure stays reserved and that one entry of the symbol is *)
(* in the market at a time, for any number of signals, restarts and close  *)
(* requests, with best-effort writes that fail or not.                     *)
(***************************************************************************)
EXTENDS TradeLifecycle, TLAPS

ExecState     == [pc : ExecPc, status : Status]
OperatorState == [pc : {"idle", "found", "flat", "open", "reserved",
                        "accepted", "rejected", "uncertain"},
                  trade : Trades \cup {None}, entry : Entry]

-----------------------------------------------------------------------------
(* Types.                                                                  *)

LEMMA StatusKinds ==
    /\ BlockingStatus \subseteq Status
    /\ Settled \subseteq Status
    /\ "absent" \in Status
    /\ "absent" \notin BlockingStatus
  BY DEF Status, BlockingStatus, Settled

LEMMA FreshType ==
    ASSUME NEW s \in Status
    PROVE  Fresh(s) \in Entry
  BY DEF Fresh, Entry, Age

LEMMA AbsentType == Absent \in Entry
  BY StatusKinds, FreshType DEF Absent

LEMMA WithStatusType ==
    ASSUME NEW e \in Entry, NEW s \in Status
    PROVE  [e EXCEPT !.status = s] \in Entry
  BY DEF Entry

LEMMA ReconIdleType == ReconIdle \in ReconState
  BY AbsentType DEF ReconIdle, ReconState

LEMMA OperatorIdleType == OperatorIdle \in OperatorState
  BY AbsentType DEF OperatorIdle, OperatorState

\* Writes to the journal and to the list keep both typed.
LEMMA WriteType ==
    ASSUME TypeOK, NEW t, NEW e \in Entry,
           Write(t, e) \/ WriteBestEffort(t, e)
    PROVE  row' \in [Trades -> Entry]
  BY DEF Write, WriteBestEffort, TypeOK

LEMMA MemType ==
    ASSUME TypeOK, NEW t, NEW e \in Entry,
           AddOnce(t, e) \/ Update(t, e) \/ mem' = [mem EXCEPT ![t] = e]
    PROVE  mem' \in [Trades -> Entry]
  BY DEF AddOnce, Update, TypeOK

LEMMA GotoType ==
    ASSUME TypeOK, NEW k \in Signals, NEW pc \in ExecPc, Goto(k, pc)
    PROVE  exec' \in [Signals -> ExecState]
  BY DEF Goto, TypeOK, ExecState

LEMMA MergedType ==
    ASSUME NEW e \in Entry
    PROVE  Merged(e) \in Entry /\ Merged(e).status \in BlockingStatus
             /\ Merged(e).since = e.since
  BY DEF Merged, Entry, Status, BlockingStatus

LEMMA CloseExactlyType ==
    ASSUME TypeOK, NEW t, NEW e \in Entry, CloseExactly(t, e)
    PROVE  row' \in [Trades -> Entry] /\ mem' \in [Trades -> Entry]
  <1>1. [e EXCEPT !.status = "closed"] \in Entry
    BY StatusKinds, WithStatusType DEF Settled
  <1>2. row' \in [Trades -> Entry]
    BY <1>1, WriteType DEF CloseExactly
  <1>3. mem' \in [Trades -> Entry]
    BY AbsentType, MemType DEF CloseExactly, Forget
  <1> QED
    BY <1>2, <1>3

LEMMA ClosePositionType ==
    ASSUME TypeOK, ClosePosition
    PROVE  /\ position' \in Signals \cup {None}
           /\ absence' \in [Signals -> Age]
           /\ order' \in [Signals -> {"none", "accepted", "filled", "dead"}]
  BY DEF ClosePosition, TypeOK, Age

LEMMA TypeInit == Init => TypeOK
  <1> SUFFICES ASSUME Init PROVE TypeOK
    OBVIOUS
  <1>1. row \in [Trades -> Entry] /\ mem \in [Trades -> Entry]
    BY AbsentType DEF Init
  <1>2. exec \in [Signals -> ExecState]
    BY StatusKinds DEF Init, ExecState, ExecPc
  <1>3. recon \in ReconState /\ operator \in OperatorState
    BY ReconIdleType, OperatorIdleType DEF Init
  <1> QED
    BY <1>1, <1>2, <1>3, LifecycleAssumption
    DEF Init, TypeOK, ExecState, OperatorState, Age

LEMMA TypeMarket ==
    ASSUME TypeOK,
           \/ \E k \in Signals : OrderFills(k) \/ OrderDies(k)
           \/ PositionCloses \/ WindowPasses
    PROVE  TypeOK'
  <1>1. CASE \E k \in Signals : OrderFills(k) \/ OrderDies(k)
    BY <1>1 DEF OrderFills, OrderDies, bounds, TypeOK
  <1>2. CASE PositionCloses
    BY <1>2, ClosePositionType DEF PositionCloses, bounds, TypeOK
  <1>3. CASE WindowPasses
    <2>1. ASSUME NEW a \in Age PROVE Older(a) \in Age
      BY <2>1 DEF Older, Age
    <2>2. ASSUME NEW e \in Entry PROVE [e EXCEPT !.since = Older(@)] \in Entry
      BY <2>1, <2>2 DEF Entry
    <2>3. row' \in [Trades -> Entry] /\ mem' \in [Trades -> Entry]
      BY <1>3, <2>2 DEF WindowPasses, TypeOK
    <2>4. absence' \in [Signals -> Age]
      BY <1>3, <2>1 DEF WindowPasses, TypeOK
    <2> QED
      BY <1>3, <2>3, <2>4 DEF WindowPasses, bounds, TypeOK
  <1> QED
    BY <1>1, <1>2, <1>3

LEMMA TypeReserve ==
    ASSUME TypeOK, NEW k \in Signals, Reserve(k)
    PROVE  TypeOK'
  <1>1. k \in Trades /\ "reserved" \in ExecPc /\ "pending_execution" \in Status
    BY DEF Trades, ExecPc, Status, BlockingStatus
  <1>2. row' \in [Trades -> Entry]
    BY <1>1, FreshType, WriteType DEF Reserve
  <1>3. exec' \in [Signals -> ExecState]
    BY <1>1, GotoType DEF Reserve
  <1> QED
    BY <1>2, <1>3 DEF Reserve, TypeOK, ExecState, exchange, bounds

LEMMA TypeExecute ==
    ASSUME TypeOK, NEW k \in Signals, Execute(k)
    PROVE  TypeOK'
  <1> DEFINE Typed == /\ row' \in [Trades -> Entry]
                      /\ mem' \in [Trades -> Entry]
                      /\ exec' \in [Signals -> ExecState]
  <1>1. /\ k \in Trades
        /\ {"idle", "asking", "placed", "confirmed", "protected", "managing",
            "closing", "hardClosing", "recording", "hardRecording", "done"}
              \subseteq ExecPc
        /\ {"execution_failed", "order_submitted", "execution_uncertain",
            "fill_confirmation_pending", "order_filled", "active",
            "close_pending_sync", "emergency_close_failed", "absent"}
              \subseteq Status
    BY DEF Trades, ExecPc, Status, BlockingStatus, Settled
  <1>2. /\ row \in [Trades -> Entry] /\ mem \in [Trades -> Entry]
        /\ exec \in [Signals -> ExecState]
    BY DEF TypeOK, ExecState
  <1>3. ASSUME Typed, UNCHANGED <<recon, operator, exchange, bounds>>
        PROVE  TypeOK'
    BY <1>3 DEF TypeOK, ExecState, exchange, bounds
  <1>4. ASSUME FailBeforeOrder(k) PROVE Typed
    BY <1>1, <1>2, <1>4, FreshType, WriteType, GotoType DEF FailBeforeOrder
  <1>5. CASE ConfigureLeverageFails(k)
    BY <1>3, <1>4, <1>5 DEF ConfigureLeverageFails
  <1>6. CASE PlaceOrder(k)
    <2>1. ASSUME PersistOrderIdentity(k) PROVE row' \in [Trades -> Entry]
      <3>1. PICK s \in Status : WriteBestEffort(k, [row[k] EXCEPT !.status = s])
        BY <1>1, <1>2, <2>1 DEF PersistOrderIdentity, Entry
      <3> QED
        BY <1>1, <1>2, <3>1, WithStatusType, WriteType
    <2>2. Typed
      BY <1>1, <1>2, <1>6, <2>1, GotoType DEF PlaceOrder
    <2>3. order' \in [Signals -> {"none", "accepted", "filled", "dead"}]
      BY <1>6 DEF PlaceOrder, TypeOK
    <2> QED
      BY <1>6, <2>2, <2>3 DEF PlaceOrder, TypeOK, ExecState, bounds
  <1>7. CASE LookUpOrder(k)
    <2>1. CASE Goto(k, "placed") /\ UNCHANGED <<row, mem>>
      BY <1>1, <1>2, <1>3, <1>7, <2>1, GotoType DEF LookUpOrder
    <2>2. CASE FailBeforeOrder(k)
      BY <1>3, <1>4, <1>7, <2>2 DEF LookUpOrder
    <2>3. CASE /\ WriteBestEffort(k, Fresh("execution_uncertain"))
               /\ AddOnce(k, Fresh("execution_uncertain"))
               /\ Goto(k, "done")
      BY <1>1, <1>3, <1>7, <2>3, FreshType, WriteType, MemType, GotoType
      DEF LookUpOrder
    <2> QED
      BY <1>7, <2>1, <2>2, <2>3 DEF LookUpOrder
  <1>8. CASE ConfirmFill(k)
    <2>1. CASE Goto(k, "confirmed") /\ UNCHANGED <<row, mem>>
      BY <1>1, <1>2, <1>3, <1>8, <2>1, GotoType DEF ConfirmFill
    <2>2. CASE /\ WriteBestEffort(k, Fresh("fill_confirmation_pending"))
               /\ AddOnce(k, Fresh("fill_confirmation_pending"))
               /\ Goto(k, "hardClosing")
      BY <1>1, <1>3, <1>8, <2>2, FreshType, WriteType, MemType, GotoType
      DEF ConfirmFill
    <2> QED
      BY <1>8, <2>1, <2>2 DEF ConfirmFill
  <1>9. CASE PersistFill(k)
    <2>1. row' \in [Trades -> Entry]
      BY <1>1, <1>2, <1>9, FreshType, WriteType DEF PersistFill
    <2>2. exec' \in [Signals -> ExecState]
      BY <1>1, <1>9, GotoType DEF PersistFill
    <2> QED
      BY <1>2, <1>3, <1>9, <2>1, <2>2 DEF PersistFill
  <1>10. CASE Activate(k)
    BY <1>1, <1>3, <1>10, FreshType, WriteType, MemType, GotoType DEF Activate
  <1>11. CASE FinishSetup(k)
    <2>1. CASE /\ WriteBestEffort(k, Fresh("active"))
               /\ Update(k, Fresh("active"))
               /\ Goto(k, "done")
      BY <1>1, <1>3, <1>11, <2>1, FreshType, WriteType, MemType, GotoType
      DEF FinishSetup
    <2>2. CASE Goto(k, "hardClosing") /\ UNCHANGED <<row, mem>>
      BY <1>1, <1>2, <1>3, <1>11, <2>2, GotoType DEF FinishSetup
    <2> QED
      BY <1>11, <2>1, <2>2 DEF FinishSetup
  <1>12. CASE EmergencyClose(k)
    <2>1. PICK s \in {"close_pending_sync", "emergency_close_failed"} :
             /\ ClosePosition \/ UNCHANGED exchange
             /\ exec' = [exec EXCEPT ![k] =
                          [pc     |-> IF exec[k].pc = "closing" THEN "recording"
                                                          ELSE "hardRecording",
                           status |-> s]]
      BY <1>12 DEF EmergencyClose
    <2>2. exec' \in [Signals -> ExecState]
      BY <1>1, <1>2, <2>1 DEF ExecState
    <2>3. /\ position' \in Signals \cup {None}
          /\ absence' \in [Signals -> Age]
          /\ order' \in [Signals -> {"none", "accepted", "filled", "dead"}]
      BY <2>1, ClosePositionType DEF exchange, TypeOK
    <2> QED
      BY <1>12, <2>2, <2>3 DEF EmergencyClose, TypeOK, ExecState, bounds
  <1>13. CASE RecordEmergency(k)
    <2>1. exec[k].status \in Status
      BY <1>2 DEF ExecState
    <2>2. row' \in [Trades -> Entry] /\ mem' \in [Trades -> Entry]
      BY <1>1, <1>13, <2>1, FreshType, WriteType, MemType DEF RecordEmergency
    <2>3. exec' \in [Signals -> ExecState]
      BY <1>1, <1>2, <1>13 DEF RecordEmergency, ExecState
    <2> QED
      BY <1>3, <1>13, <2>2, <2>3 DEF RecordEmergency
  <1> QED
    BY <1>5, <1>6, <1>7, <1>8, <1>9, <1>10, <1>11, <1>12, <1>13 DEF Execute

\* What a matched position does to the cycle's state.
LEMMA MatchType ==
    ASSUME TypeOK, MatchPosition
    PROVE  recon' \in ReconState /\ row' \in [Trades -> Entry]
  <1>1. recon \in ReconState /\ row \in [Trades -> Entry]
    BY DEF TypeOK
  <1>2. CASE recon.position = None
    BY <1>1, <1>2 DEF MatchPosition, ReconState
  <1>3. CASE recon.position # None
    <2> DEFINE stray == Recovered(recon.position)
               E(t) == Merged(IF Known(recon.seen[t]) THEN recon.seen[t] ELSE row[t])
    <2>1. stray \in Trades
      BY <1>1, <1>3 DEF ReconState, Trades
    <2>2. Matching(recon.seen) \subseteq Trades
      BY DEF Matching
    <2>3. PICK t \in Trades :
             /\ Write(t, E(t))
             /\ recon' = [recon EXCEPT !.pc = "settling", !.position = None,
                                       !.seen[t] = Absent, !.keep[t] = E(t),
                                       !.todo = @ \ {t}]
      BY <1>3, <2>1, <2>2 DEF MatchPosition
    <2>4. E(t) \in Entry
      BY <1>1, MergedType DEF ReconState
    <2> HIDE DEF E
    <2>5. row' \in [Trades -> Entry]
      BY <2>3, <2>4, WriteType
    <2>6. recon' \in ReconState
      BY <1>1, <2>3, <2>4, AbsentType DEF ReconState
    <2> QED
      BY <2>5, <2>6
  <1> QED
    BY <1>2, <1>3

\* One candidate handled: it leaves the rest of the cycle.
LEMMA DoneType ==
    ASSUME TypeOK, NEW t \in Trades,
           recon' = [recon EXCEPT !.todo = @ \ {t}, !.seen[t] = Absent]
    PROVE  recon' \in ReconState
  BY AbsentType DEF TypeOK, ReconState

LEMMA TypeReconcile ==
    ASSUME TypeOK, Reconcile \/ FetchFails
    PROVE  TypeOK'
  <1>1. /\ recon \in ReconState
        /\ row \in [Trades -> Entry] /\ mem \in [Trades -> Entry]
    BY DEF TypeOK
  <1>2. ASSUME recon' \in ReconState, row' \in [Trades -> Entry],
               mem' \in [Trades -> Entry],
               UNCHANGED <<exec, operator, exchange, bounds>>
        PROVE  TypeOK'
    BY <1>2 DEF TypeOK, exchange, bounds
  <1>3. CASE ReconcileStart
    <2>1. \A t \in Trades : Candidate(t) \in Entry
      BY <1>1 DEF Candidate
    <2>2. recon' \in ReconState
      BY <1>1, <1>3, <2>1 DEF ReconcileStart, ReconState
    <2> QED
      BY <1>1, <1>2, <1>3, <2>2 DEF ReconcileStart
  <1>4. CASE FetchOrders
    <2>1. recon' \in ReconState
      BY <1>1, <1>4 DEF FetchOrders, ReconState
    <2> QED
      BY <1>1, <1>2, <1>4, <2>1 DEF FetchOrders
  <1>5. CASE FetchPositions
    <2>1. recon' \in ReconState
      BY <1>1, <1>5 DEF FetchPositions, ReconState, TypeOK
    <2> QED
      BY <1>1, <1>2, <1>5, <2>1 DEF FetchPositions
  <1>6. CASE MatchPosition
    BY <1>1, <1>2, <1>6, MatchType DEF MatchPosition
  <1>7. CASE PublishTrades
    <2>1. mem' \in [Trades -> Entry]
      BY <1>1, <1>7, AbsentType DEF PublishTrades, Published, ReconState
    <2> QED
      BY <1>1, <1>2, <1>7, <2>1, ReconIdleType DEF PublishTrades
  <1>8. ASSUME NEW t \in Trades, SettleUnmatched(t) PROVE TypeOK'
    <2> DEFINE e     == recon.seen[t]
               since == IF e.since = "none" THEN "recent" ELSE e.since
               stale == [e EXCEPT !.status = "close_pending_sync", !.since = since]
    <2>1. e \in Entry /\ since \in Age
      BY <1>1 DEF ReconState, Entry, Age
    <2>2. {"reconciliation_pending", "close_pending_sync", "estimated"} \subseteq Status
      BY DEF Status, BlockingStatus, Settled
    <2>3. stale \in Entry /\ [stale EXCEPT !.status = "estimated"] \in Entry
      BY <2>1, <2>2 DEF Entry
    <2>4. [e EXCEPT !.status = "reconciliation_pending"] \in Entry
      BY <2>1, <2>2, WithStatusType
    <2>5. row' \in [Trades -> Entry] /\ mem' \in [Trades -> Entry]
      <3>1. \/ CloseExactly(t, e)
            \/ /\ UNCHANGED mem
               /\ \/ Write(t, [e EXCEPT !.status = "reconciliation_pending"])
                  \/ Write(t, [stale EXCEPT !.status = "estimated"])
                  \/ Write(t, stale)
        BY <1>8 DEF SettleUnmatched
      <3> HIDE DEF e, since, stale
      <3> QED
        BY <1>1, <2>1, <2>3, <2>4, <3>1, CloseExactlyType, WriteType
    <2>6. recon' \in ReconState
      BY <1>8, DoneType DEF SettleUnmatched
    <2> QED
      BY <1>2, <1>8, <2>5, <2>6 DEF SettleUnmatched
  <1>9. CASE FetchFails
    BY <1>1, <1>2, <1>9, ReconIdleType DEF FetchFails
  <1> QED
    BY <1>3, <1>4, <1>5, <1>6, <1>7, <1>8, <1>9 DEF Reconcile

LEMMA TypeOperator ==
    ASSUME TypeOK,
           \/ \E t \in Trades : FindTrade(t)
           \/ CloseRequest \/ CloseRequestFails
    PROVE  TypeOK'
  <1> DEFINE Pcs == {"idle", "found", "flat", "open", "reserved",
                     "accepted", "rejected", "uncertain"}
  <1>1. /\ operator \in OperatorState
        /\ row \in [Trades -> Entry] /\ mem \in [Trades -> Entry]
    BY DEF TypeOK, OperatorState
  <1>2. ASSUME NEW pc \in Pcs, OperatorAt(pc) PROVE operator' \in OperatorState
    BY <1>1, <1>2 DEF OperatorAt, OperatorState
  <1>3. ASSUME NEW s \in Status, Mark(s)
        PROVE  row' \in [Trades -> Entry] /\ mem' \in [Trades -> Entry]
    <2> DEFINE e == [operator.entry EXCEPT !.status = s]
    <2>1. Write(operator.trade, e) /\ Update(operator.trade, e) /\ e \in Entry
      BY <1>1, <1>3, WithStatusType DEF Mark, OperatorState
    <2> HIDE DEF e
    <2> QED
      BY <2>1, WriteType, MemType
  <1>4. ASSUME operator' \in OperatorState, row' \in [Trades -> Entry],
               mem' \in [Trades -> Entry], closes' \in 0 .. MaxCloses,
               UNCHANGED <<exec, recon, exchange, crashes>>
        PROVE  TypeOK'
    BY <1>4 DEF TypeOK, OperatorState, exchange
  <1>5. closes \in 0 .. MaxCloses /\ {"close_requested", "active", "close_uncertain",
                                     "close_pending_sync"} \subseteq Status
    BY DEF TypeOK, Status, BlockingStatus
  <1>6. ASSUME NEW t \in Trades, FindTrade(t) PROVE TypeOK'
    <2>1. OpenTrade(t) \in Entry
      BY <1>1, AbsentType DEF OpenTrade
    <2>2. operator' \in OperatorState
      BY <1>6, <2>1 DEF FindTrade, OperatorState
    <2>3. closes' \in 0 .. MaxCloses
      BY <1>5, <1>6, LifecycleAssumption DEF FindTrade
    <2> QED
      BY <1>1, <1>4, <1>6, <2>2, <2>3 DEF FindTrade
  <1>7. CASE CheckPosition
    <2>1. operator' \in OperatorState
      BY <1>2, <1>7 DEF CheckPosition
    <2> QED
      BY <1>1, <1>4, <1>5, <1>7, <2>1 DEF CheckPosition, bounds
  <1>8. CASE SyncClosed
    <2> DEFINE e == operator.entry
               pending == [e EXCEPT !.status = "close_pending_sync"]
    <2>1. e \in Entry /\ pending \in Entry
      BY <1>1, <1>5, WithStatusType DEF OperatorState
    <2>2. \/ CloseExactly(operator.trade, e)
          \/ UNCHANGED <<row, mem>>
          \/ Write(operator.trade, pending) /\ Update(operator.trade, pending)
      BY <1>8 DEF SyncClosed
    <2> HIDE DEF e, pending
    <2>3. row' \in [Trades -> Entry] /\ mem' \in [Trades -> Entry]
      BY <1>1, <2>1, <2>2, CloseExactlyType, WriteType, MemType
    <2> QED
      BY <1>4, <1>5, <1>8, <2>3, OperatorIdleType DEF SyncClosed, bounds
  <1>9. CASE ReserveClose
    <2>1. operator' \in OperatorState /\ row' \in [Trades -> Entry]
            /\ mem' \in [Trades -> Entry]
      BY <1>2, <1>3, <1>5, <1>9 DEF ReserveClose
    <2> QED
      BY <1>4, <1>5, <1>9, <2>1 DEF ReserveClose, bounds
  <1>10. CASE SubmitClose
    <2>1. operator' \in OperatorState
      BY <1>2, <1>10 DEF SubmitClose
    <2>2. /\ position' \in Signals \cup {None}
          /\ absence' \in [Signals -> Age]
          /\ order' \in [Signals -> {"none", "accepted", "filled", "dead"}]
      BY <1>10, ClosePositionType DEF SubmitClose, exchange, TypeOK
    <2> QED
      BY <1>10, <2>1, <2>2 DEF SubmitClose, TypeOK, OperatorState, bounds
  <1>11. CASE RecordSubmission
    <2>1. row' \in [Trades -> Entry] /\ mem' \in [Trades -> Entry]
      BY <1>3, <1>5, <1>11 DEF RecordSubmission
    <2> QED
      BY <1>4, <1>5, <1>11, <2>1, OperatorIdleType DEF RecordSubmission, bounds
  <1>12. CASE CloseRequestFails
    BY <1>1, <1>4, <1>5, <1>12, OperatorIdleType DEF CloseRequestFails, bounds
  <1> QED
    BY <1>6, <1>7, <1>8, <1>9, <1>10, <1>11, <1>12 DEF CloseRequest

LEMMA TypeCrash ==
    ASSUME TypeOK, Crash
    PROVE  TypeOK'
  <1>1. mem' \in [Trades -> Entry]
    BY AbsentType DEF Crash, Published, TypeOK
  <1>2. exec' \in [Signals -> ExecState]
    BY StatusKinds DEF Crash, TypeOK, ExecState, ExecPc
  <1>3. crashes' \in 0 .. MaxCrashes
    BY LifecycleAssumption DEF Crash, TypeOK
  <1> QED
    BY <1>1, <1>2, <1>3, ReconIdleType, OperatorIdleType
    DEF Crash, TypeOK, ExecState, OperatorState, exchange

LEMMA TypeNext == TypeOK /\ [Next]_vars => TypeOK'
  <1> SUFFICES ASSUME TypeOK, [Next]_vars PROVE TypeOK'
    OBVIOUS
  <1>1. CASE UNCHANGED vars
    BY <1>1 DEF vars, TypeOK
  <1>2. CASE Next
    BY <1>2, TypeMarket, TypeReserve, TypeExecute, TypeReconcile, TypeOperator,
       TypeCrash DEF Next, Steps
  <1> QED
    BY <1>1, <1>2

\* Types of the rows, the list, the three workers, the exchange and the bounds.
THEOREM LifecycleTypeCorrect == Spec => []TypeOK
  <1>1. Init => TypeOK
    BY TypeInit
  <1>2. TypeOK /\ [Next]_vars => TypeOK'
    BY TypeNext
  <1> QED
    BY <1>1, <1>2, PTL DEF Spec

-----------------------------------------------------------------------------
(* The inductive invariant.                                                *)

\* The execution of k is over and its order is not out any more.
Over(k) == exec[k].pc = "done" /\ order[k] # "accepted"

\* k can still come to a position: about to send, possibly sent, or out.
Entering(k) ==
    \/ exec[k].pc = "reserved"
    \/ exec[k].pc = "asking" /\ order[k] = "dead"
    \/ order[k] = "accepted"

Live(k) == Entering(k) \/ position = k

\* What an execution, its order and its position know of each other.
OrdersAgree ==
    \A k \in Signals :
        /\ exec[k].pc \in {"idle", "reserved"} => order[k] = "none"
        /\ position = k => order[k] = "filled" /\ absence[k] = "none"
        /\ absence[k] # "none" => order[k] = "filled"
        /\ exec[k].pc \in {"recording", "hardRecording"}
              => exec[k].status \in BlockingStatus

\* A copy of k exists only once its execution started, and one whose retry
\* window has passed only once it is over.
Traced(k, e) ==
    /\ e # Absent => exec[k].pc # "idle"
    /\ e.since = "expired" => Over(k)

CopiesTraced ==
    \A k \in Signals :
        /\ Traced(k, row[k]) /\ Traced(k, mem[k])
        /\ Traced(k, recon.seen[k]) /\ Traced(k, recon.keep[k])
        /\ operator.trade = k => exec[k].pc # "idle" /\ Traced(k, operator.entry)
        /\ k \in recon.todo => exec[k].pc # "idle"

\* Until its execution is over a signal in the market blocks with its own row.
EnteringBlocks ==
    \A k \in Signals :
        Entering(k) \/ (position = k /\ ~Over(k)) => Reconcilable(k)

OneLive == \A j, k \in Signals : Live(j) /\ Live(k) => j = k

\* Afterwards some row does: reconciliation may have given the position to
\* another candidate and let the signal's own row expire.
PositionBlocks ==
    \A k \in Signals : position = k => \E t \in Trades : Reconcilable(t)

\* A cycle that fetched no position will not let the row of one opened since
\* expire ...
FetchedBefore ==
    \A k \in Signals :
        recon.pc = "positioned" /\ recon.position = None /\ position = k
            => Reconcilable(k) /\ recon.seen[k].since # "expired"

\* ... and every cycle leaves one blocking row of an open position alone.
Spares(t, k) ==
    /\ Reconcilable(t)
    /\ t \in recon.todo => t = k /\ recon.seen[k].since # "expired"

CycleSpares ==
    \A k \in Signals :
        recon.pc = "settling" /\ position = k => \E t \in Trades : Spares(t, k)

\* An operator's request that found no position leaves the row of one opened
\* since blocking, and no cycle lets it expire meanwhile.
FlatBefore ==
    \A k \in Signals :
        operator.pc = "flat" /\ position = k
            => /\ Reconcilable(k) /\ row[k].since # "expired"
               /\ recon.seen[k].since # "expired"

ExposureInv ==
    /\ TypeOK /\ OrdersAgree /\ CopiesTraced
    /\ EnteringBlocks /\ OneLive /\ PositionBlocks
    /\ FetchedBefore /\ CycleSpares /\ FlatBefore

LEMMA ExposureInit == Init => ExposureInv
  <1> SUFFICES ASSUME Init PROVE ExposureInv
    OBVIOUS
  <1>1. TypeOK
    BY TypeInit
  <1>2. /\ \A k \in Signals : /\ exec[k].pc = "idle" /\ order[k] = "none"
                              /\ absence[k] = "none" /\ position # k
                              /\ row[k] = Absent /\ mem[k] = Absent
                              /\ recon.seen[k] = Absent /\ recon.keep[k] = Absent
        /\ Absent.since = "none" /\ recon.todo = {} /\ operator.trade = None
    BY LifecycleAssumption
    DEF Init, ReconIdle, OperatorIdle, Absent, Fresh, Trades
  <1>3. OrdersAgree /\ CopiesTraced
    BY <1>2, LifecycleAssumption DEF OrdersAgree, CopiesTraced, Traced
  <1>4. EnteringBlocks /\ OneLive /\ PositionBlocks
    BY <1>2 DEF EnteringBlocks, OneLive, PositionBlocks, Entering, Live
  <1>5. FetchedBefore /\ CycleSpares /\ FlatBefore
    BY <1>2 DEF FetchedBefore, CycleSpares, FlatBefore
  <1> QED
    BY <1>1, <1>3, <1>4, <1>5 DEF ExposureInv

-----------------------------------------------------------------------------
(* What the steps can do.                                                  *)

\* PositionOf names the signal a trade belongs to.
LEMMA PositionOfSignal ==
    ASSUME NEW k \in Signals
    PROVE  PositionOf(k) = k
  BY LifecycleAssumption DEF PositionOf

\* An execution that has started stays started; one that is over stays over.
LEMMA ExecutionGoesOn ==
    ASSUME TypeOK, OrdersAgree, [Next]_vars, NEW k \in Signals
    PROVE  /\ exec[k].pc # "idle" => exec'[k].pc # "idle"
           /\ Over(k) => Over(k)'
  <1> USE DEF Over
  <1>1. exec[k] \in ExecState /\ exec \in [Signals -> ExecState]
    BY DEF TypeOK, ExecState
  <1>2. CASE UNCHANGED <<exec, order>>
    BY <1>2
  <1>3. CASE \E j \in Signals : OrderFills(j) \/ OrderDies(j)
    BY <1>3 DEF OrderFills, OrderDies, TypeOK
  <1>4. CASE \E j \in Signals : Reserve(j)
    BY <1>1, <1>4 DEF Reserve, Goto, exchange, ExecState
  <1>5. CASE \E j \in Signals : Execute(j)
    <2>1. PICK j \in Signals : Execute(j)
      BY <1>5
    <2>2. /\ exec[j].pc \notin {"idle", "done"} /\ exec'[j].pc # "idle"
          /\ j # k => exec'[k] = exec[k] /\ (order'[k] = order[k])
      BY <1>1, <2>1
      DEF Execute, ConfigureLeverageFails, PlaceOrder, LookUpOrder, ConfirmFill,
          PersistFill, Activate, FinishSetup, EmergencyClose, RecordEmergency,
          FailBeforeOrder, Goto, ClosePosition, exchange, TypeOK, ExecState
    <2> QED
      BY <2>2
  <1>6. CASE Crash
    BY <1>6 DEF Crash, exchange
  <1> QED
    BY <1>2, <1>3, <1>4, <1>5, <1>6
    DEF Next, Steps, Reconcile, CloseRequest, vars, PositionCloses, WindowPasses,
        ClosePosition, ReconcileStart, FetchOrders, FetchPositions, FetchFails,
        MatchPosition, PublishTrades, SettleUnmatched, FindTrade, CheckPosition,
        SyncClosed, ReserveClose, SubmitClose, RecordSubmission,
        CloseRequestFails, exchange, bounds

\* Who comes into the market, and how.
LEMMA OnlyReserveEnters ==
    ASSUME TypeOK, OrdersAgree, [Next]_vars, NEW k \in Signals
    PROVE  /\ Entering(k)' => Entering(k) \/ Reserve(k)
           /\ position' = k => position = k \/ (OrderFills(k) /\ position = None)
  <1> USE DEF Entering
  <1>1. /\ exec \in [Signals -> ExecState] /\ exec[k] \in ExecState
        /\ order \in [Signals -> {"none", "accepted", "filled", "dead"}]
        /\ k # None
    BY LifecycleAssumption DEF TypeOK, ExecState
  <1>2. CASE UNCHANGED <<exec, order>> /\ (position' = position \/ position' = None)
    BY <1>1, <1>2
  <1>3. ASSUME NEW j \in Signals, OrderFills(j) \/ OrderDies(j)
        PROVE  /\ Entering(k)' => Entering(k) \/ Reserve(k)
               /\ position' = k => position = k \/ (OrderFills(k) /\ position = None)
    BY <1>1, <1>3 DEF OrderFills, OrderDies
  <1>4. ASSUME NEW j \in Signals, Reserve(j)
        PROVE  /\ Entering(k)' => Entering(k) \/ Reserve(k)
               /\ position' = k => position = k
    BY <1>1, <1>4 DEF Reserve, Goto, exchange, ExecState
  <1>5. ASSUME NEW j \in Signals, Execute(j)
        PROVE  /\ Entering(k)' => Entering(k)
               /\ position' = k => position = k
    BY <1>1, <1>5
    DEF Execute, ConfigureLeverageFails, PlaceOrder, LookUpOrder, ConfirmFill,
        PersistFill, Activate, FinishSetup, EmergencyClose, RecordEmergency,
        FailBeforeOrder, Goto, ClosePosition, exchange, ExecState
  <1>6. CASE Crash
    BY <1>1, <1>6 DEF Crash, exchange
  <1> QED
    BY <1>2, <1>3, <1>4, <1>5, <1>6
    DEF Next, Steps, Reconcile, CloseRequest, vars, PositionCloses, WindowPasses,
        ClosePosition, ReconcileStart, FetchOrders, FetchPositions, FetchFails,
        MatchPosition, PublishTrades, SettleUnmatched, FindTrade, CheckPosition,
        SyncClosed, ReserveClose, SubmitClose, RecordSubmission,
        CloseRequestFails, exchange, bounds

\* A write of a blocking status lets no row go.
LEMMA BlockingWrite ==
    ASSUME TypeOK, NEW t \in Trades, Reconcilable(t), NEW u, NEW e,
           Write(u, e) \/ WriteBestEffort(u, e), e.status \in BlockingStatus
    PROVE  Reconcilable(t)'
  BY DEF Write, WriteBestEffort, Reconcilable, TypeOK

\* The three ways a blocking row can stop blocking: a failure before the order,
\* a close request that finds the exact close, and a settled candidate.
Fails(t)   == t \in Signals /\ Execute(t) /\ exec'[t].pc = "done"
                /\ (exec[t].pc = "reserved" \/ (exec[t].pc = "asking" /\ order[t] = "dead"))
Syncs(t)   == SyncClosed /\ ExactCloseKnown(t)
Settles(t) == SettleUnmatched(t)
                /\ (ExactCloseKnown(t) \/ recon.seen[t].since = "expired")

LEMMA WhoUnblocks ==
    ASSUME TypeOK, OrdersAgree, [Next]_vars,
           NEW t \in Trades, Reconcilable(t), ~Reconcilable(t)'
    PROVE  Fails(t) \/ Syncs(t) \/ Settles(t)
  <1>1. /\ row \in [Trades -> Entry] /\ exec \in [Signals -> ExecState]
        /\ recon \in ReconState /\ operator \in OperatorState
    BY DEF TypeOK, ExecState, OperatorState
  <1>2. row' # row
    BY DEF Reconcilable
  <1>3. ASSUME NEW s \in BlockingStatus
        PROVE  Fresh(s).status \in BlockingStatus
    BY DEF Fresh
  <1>4. {"pending_execution", "order_submitted", "fill_confirmation_pending",
         "order_filled", "active", "close_requested", "close_uncertain",
         "execution_uncertain", "reconciliation_pending", "close_pending_sync"}
            \subseteq BlockingStatus
    BY DEF BlockingStatus
  <1>5. CASE WindowPasses
    BY <1>1, <1>5 DEF WindowPasses, Reconcilable, Entry
  <1>6. ASSUME NEW k \in Signals, Reserve(k) PROVE FALSE
    BY <1>3, <1>4, <1>6, BlockingWrite DEF Reserve
  <1>7. ASSUME NEW k \in Signals, Execute(k) PROVE Fails(t)
    <2>1. ASSUME FailBeforeOrder(k) PROVE k = t /\ exec'[t].pc = "done"
      BY <1>1, <2>1
      DEF FailBeforeOrder, WriteBestEffort, Write, Goto, Reconcilable, ExecState
    <2>2. CASE ConfigureLeverageFails(k)
      BY <1>7, <2>1, <2>2 DEF ConfigureLeverageFails, Fails
    <2>3. CASE PlaceOrder(k)
      <3>1. PersistOrderIdentity(k)
        BY <1>2, <2>3 DEF PlaceOrder
      <3>2. row[k].status \in BlockingStatus
              => [row[k] EXCEPT !.status = IF @ = "pending_execution"
                                           THEN "order_submitted" ELSE @].status
                    \in BlockingStatus
        BY <1>1, <1>4 DEF Entry, Trades
      <3> QED
        BY <1>1, <3>1, <3>2
        DEF PersistOrderIdentity, WriteBestEffort, Write, Reconcilable
    <2>4. CASE LookUpOrder(k)
      <3>1. CASE WriteBestEffort(k, Fresh("execution_uncertain"))
        BY <1>3, <1>4, <3>1, BlockingWrite
      <3> QED
        BY <1>2, <1>7, <2>1, <2>4, <3>1 DEF LookUpOrder, Fails
    <2>5. CASE ConfirmFill(k) \/ PersistFill(k) \/ Activate(k) \/ FinishSetup(k)
      BY <1>2, <1>3, <1>4, <2>5, BlockingWrite
      DEF ConfirmFill, PersistFill, Activate, FinishSetup
    <2>6. CASE EmergencyClose(k)
      BY <1>2, <2>6 DEF EmergencyClose
    <2>7. CASE RecordEmergency(k)
      <3>1. Fresh(exec[k].status).status \in BlockingStatus
        BY <2>7 DEF RecordEmergency, OrdersAgree, Fresh
      <3>2. WriteBestEffort(k, Fresh(exec[k].status))
        BY <2>7 DEF RecordEmergency
      <3> QED
        BY <3>1, <3>2, BlockingWrite
    <2> QED
      BY <1>7, <2>2, <2>3, <2>4, <2>5, <2>6, <2>7 DEF Execute
  <1>8. CASE MatchPosition
    <2>1. PICK e0 \in Entry : \E u : Write(u, Merged(e0))
      <3>1. recon.position # None /\ Recovered(recon.position) \in Trades
        BY <1>1, <1>2, <1>8 DEF MatchPosition, ReconState, Trades
      <3>2. PICK u \in Trades : Write(u, Merged(IF Known(recon.seen[u])
                                                 THEN recon.seen[u] ELSE row[u]))
        BY <1>8, <3>1 DEF MatchPosition, Matching
      <3> QED
        BY <1>1, <3>2 DEF ReconState
    <2>2. Merged(e0).status \in BlockingStatus
      BY MergedType
    <2> HIDE DEF Merged
    <2> QED
      BY <2>1, <2>2, BlockingWrite
  <1>9. ASSUME NEW u \in Trades, SettleUnmatched(u) PROVE Settles(t)
    <2> DEFINE e     == recon.seen[u]
               since == IF e.since = "none" THEN "recent" ELSE e.since
               stale == [e EXCEPT !.status = "close_pending_sync", !.since = since]
               pend  == [e EXCEPT !.status = "reconciliation_pending"]
               clo   == [e EXCEPT !.status = "closed"]
               est   == [stale EXCEPT !.status = "estimated"]
    <2>1. e \in Entry
      BY <1>1 DEF ReconState
    <2>2. stale.status \in BlockingStatus /\ pend.status \in BlockingStatus
      BY <1>4, <2>1 DEF Entry
    <2>3. \/ ExactCloseKnown(u) /\ Write(u, clo)
          \/ Write(u, pend) \/ Write(u, stale)
          \/ since = "expired" /\ Write(u, est)
      BY <1>9 DEF SettleUnmatched, CloseExactly
    <2>4. since = "expired" => e.since = "expired"
      OBVIOUS
    <2> HIDE DEF since, stale, pend, clo, est
    <2>5. /\ ExactCloseKnown(u) \/ e.since = "expired"
          /\ Write(u, clo) \/ Write(u, est)
      BY <2>2, <2>3, <2>4, BlockingWrite
    <2>6. u = t
      BY <1>1, <2>5 DEF Write, Reconcilable
    <2> QED
      BY <1>9, <2>5, <2>6 DEF Settles
  <1>10. CASE SyncClosed
    <2> DEFINE pend == [operator.entry EXCEPT !.status = "close_pending_sync"]
               clo  == [operator.entry EXCEPT !.status = "closed"]
    <2>1. pend.status \in BlockingStatus
      BY <1>1, <1>4 DEF OperatorState, Entry
    <2>2. \/ ExactCloseKnown(operator.trade) /\ Write(operator.trade, clo)
          \/ Write(operator.trade, pend)
      BY <1>2, <1>10 DEF SyncClosed, CloseExactly
    <2> HIDE DEF pend, clo
    <2>3. ExactCloseKnown(operator.trade) /\ Write(operator.trade, clo)
      BY <2>1, <2>2, BlockingWrite
    <2>4. operator.trade = t
      BY <1>1, <2>3 DEF Write, Reconcilable
    <2> QED
      BY <1>10, <2>3, <2>4 DEF Syncs
  <1>11. CASE ReserveClose \/ RecordSubmission
    <2>1. PICK s \in BlockingStatus : Mark(s)
      BY <1>4, <1>11 DEF ReserveClose, RecordSubmission
    <2> DEFINE e == [operator.entry EXCEPT !.status = s]
    <2>2. e.status \in BlockingStatus /\ Write(operator.trade, e)
      BY <1>1, <2>1 DEF Mark, OperatorState, Entry
    <2> HIDE DEF e
    <2> QED
      BY <2>2, BlockingWrite
  <1> QED
    BY <1>2, <1>5, <1>6, <1>7, <1>8, <1>9, <1>10, <1>11
    DEF Next, Steps, Reconcile, CloseRequest, vars, PositionCloses,
        OrderFills, OrderDies, ReconcileStart, FetchOrders, FetchPositions,
        FetchFails, PublishTrades, FindTrade, CheckPosition, SubmitClose,
        CloseRequestFails, Crash, exchange, bounds

-----------------------------------------------------------------------------
(* Each part of the invariant is kept.                                     *)

LEMMA OrdersAgreeNext ==
    ASSUME TypeOK, OrdersAgree, [Next]_vars
    PROVE  OrdersAgree'
  <1> SUFFICES ASSUME NEW k \in Signals
               PROVE  /\ exec'[k].pc \in {"idle", "reserved"} => order'[k] = "none"
                      /\ position' = k => order'[k] = "filled" /\ absence'[k] = "none"
                      /\ absence'[k] # "none" => order'[k] = "filled"
                      /\ exec'[k].pc \in {"recording", "hardRecording"}
                            => exec'[k].status \in BlockingStatus
    BY DEF OrdersAgree
  <1> DEFINE Agrees == /\ exec'[k].pc \in {"idle", "reserved"} => order'[k] = "none"
                       /\ position' = k => order'[k] = "filled" /\ absence'[k] = "none"
                       /\ absence'[k] # "none" => order'[k] = "filled"
                       /\ exec'[k].pc \in {"recording", "hardRecording"}
                             => exec'[k].status \in BlockingStatus
  <1>1. /\ exec \in [Signals -> ExecState] /\ exec[k] \in ExecState
        /\ order \in [Signals -> {"none", "accepted", "filled", "dead"}]
        /\ absence \in [Signals -> Age]
        /\ position \in Signals \cup {None} /\ k # None
    BY LifecycleAssumption DEF TypeOK, ExecState
  <1>2. /\ exec[k].pc \in {"idle", "reserved"} => order[k] = "none"
        /\ position = k => order[k] = "filled" /\ absence[k] = "none"
        /\ absence[k] # "none" => order[k] = "filled"
        /\ exec[k].pc \in {"recording", "hardRecording"}
              => exec[k].status \in BlockingStatus
    BY DEF OrdersAgree
  <1>3. ASSUME ClosePosition PROVE
           /\ position' = None /\ order' = order
           /\ absence'[k] # absence[k] => position = k
    BY <1>1, <1>3 DEF ClosePosition
  <1>4. CASE UNCHANGED <<exec, order, position, absence>>
    BY <1>2, <1>4
  <1>5. ASSUME NEW j \in Signals, OrderFills(j) \/ OrderDies(j) PROVE Agrees
    BY <1>1, <1>2, <1>5 DEF OrderFills, OrderDies
  <1>6. CASE UNCHANGED exec /\ ClosePosition
    BY <1>1, <1>2, <1>3, <1>6
  <1>7. CASE WindowPasses
    <2>1. absence'[k] # "none" => absence[k] # "none"
      BY <1>1, <1>7 DEF WindowPasses, Older
    <2> QED
      BY <1>1, <1>2, <1>7, <2>1 DEF WindowPasses, Older
  <1>8. ASSUME NEW j \in Signals, Reserve(j) PROVE Agrees
    BY <1>1, <1>2, <1>8 DEF Reserve, Goto, exchange, ExecState
  <1>9. ASSUME NEW j \in Signals, Execute(j) PROVE Agrees
    <2>1. CASE PlaceOrder(j)
      BY <1>1, <1>2, <2>1 DEF PlaceOrder, Goto, ExecState
    <2>2. CASE EmergencyClose(j)
      <3>1. PICK s \in {"close_pending_sync", "emergency_close_failed"} :
               exec' = [exec EXCEPT ![j] =
                          [pc     |-> IF exec[j].pc = "closing" THEN "recording"
                                                          ELSE "hardRecording",
                           status |-> s]]
        BY <2>2 DEF EmergencyClose
      <3>2. /\ exec'[k] = exec[k] \/ exec'[k].pc \in {"recording", "hardRecording"}
            /\ exec'[k] = exec[k] \/ exec'[k].status \in BlockingStatus
        BY <1>1, <3>1 DEF BlockingStatus
      <3>3. ClosePosition \/ UNCHANGED exchange
        BY <2>2 DEF EmergencyClose
      <3> QED
        BY <1>1, <1>2, <1>3, <3>2, <3>3 DEF exchange
    <2>3. CASE RecordEmergency(j)
      BY <1>1, <1>2, <2>3 DEF RecordEmergency, exchange
    <2>4. CASE \/ ConfigureLeverageFails(j) \/ LookUpOrder(j) \/ ConfirmFill(j)
               \/ PersistFill(j) \/ Activate(j) \/ FinishSetup(j)
      BY <1>1, <1>2, <2>4
      DEF ConfigureLeverageFails, LookUpOrder, ConfirmFill, PersistFill, Activate,
          FinishSetup, FailBeforeOrder, Goto, exchange, ExecState
    <2> QED
      BY <1>9, <2>1, <2>2, <2>3, <2>4 DEF Execute
  <1>10. CASE Crash
    BY <1>1, <1>2, <1>10 DEF Crash, exchange
  <1> QED
    BY <1>4, <1>5, <1>6, <1>7, <1>8, <1>9, <1>10
    DEF Next, Steps, Reconcile, CloseRequest, vars, PositionCloses,
        ReconcileStart, FetchOrders, FetchPositions, FetchFails, MatchPosition,
        PublishTrades, SettleUnmatched, FindTrade, CheckPosition, SyncClosed,
        ReserveClose, SubmitClose, RecordSubmission, CloseRequestFails,
        exchange, bounds

LEMMA CopiesTracedNext ==
    ASSUME TypeOK, OrdersAgree, CopiesTraced, [Next]_vars
    PROVE  CopiesTraced'
  <1> SUFFICES ASSUME NEW k \in Signals
               PROVE  /\ Traced(k, row[k])' /\ Traced(k, mem[k])'
                      /\ Traced(k, recon.seen[k])' /\ Traced(k, recon.keep[k])'
                      /\ operator'.trade = k
                            => exec'[k].pc # "idle" /\ Traced(k, operator.entry)'
                      /\ k \in recon'.todo => exec'[k].pc # "idle"
    BY DEF CopiesTraced
  <1> DEFINE T(e) == /\ e # Absent => exec'[k].pc # "idle"
                     /\ e.since = "expired" => Over(k)'
             Goal == /\ T(row'[k]) /\ T(mem'[k])
                     /\ T(recon'.seen[k]) /\ T(recon'.keep[k])
                     /\ operator'.trade = k => exec'[k].pc # "idle" /\ T(operator'.entry)
                     /\ k \in recon'.todo => exec'[k].pc # "idle"
  <1>1. SUFFICES Goal
    BY DEF Traced
  <1>2. /\ row \in [Trades -> Entry] /\ mem \in [Trades -> Entry] /\ k \in Trades
        /\ exec \in [Signals -> ExecState] /\ exec[k] \in ExecState
        /\ recon \in ReconState /\ operator \in OperatorState /\ k # None
    BY LifecycleAssumption DEF TypeOK, ExecState, OperatorState, Trades
  <1>3. /\ exec[k].pc # "idle" => exec'[k].pc # "idle"
        /\ Over(k) => Over(k)'
    BY ExecutionGoesOn
  <1>4. ASSUME NEW e, Traced(k, e) PROVE T(e)
    BY <1>3, <1>4 DEF Traced
  <1>5. /\ T(row[k]) /\ T(mem[k]) /\ T(recon.seen[k]) /\ T(recon.keep[k])
        /\ operator.trade = k => exec'[k].pc # "idle" /\ T(operator.entry)
        /\ k \in recon.todo => exec'[k].pc # "idle"
    BY <1>3, <1>4 DEF CopiesTraced
  <1>6. T(Absent)
    BY DEF Absent, Fresh
  <1>7. ASSUME NEW e, NEW st, e = Fresh(st), exec'[k].pc # "idle" PROVE T(e)
    BY <1>7 DEF Fresh
  <1>8. CASE UNCHANGED <<row, mem, recon, operator>>
    BY <1>5, <1>8
  <1>9. CASE WindowPasses
    <2>1. CASE exec[k].pc = "idle"
      <3>1. row[k] = Absent /\ mem[k] = Absent
        BY <2>1 DEF CopiesTraced, Traced
      <3>2. ASSUME NEW e, e = Absent PROVE [e EXCEPT !.since = Older(@)] = Absent
        BY <3>2 DEF Absent, Fresh, Older
      <3>3. row'[k] = Absent /\ mem'[k] = Absent
        BY <1>2, <1>9, <3>1, <3>2 DEF WindowPasses
      <3> QED
        BY <1>5, <1>6, <1>9, <3>3 DEF WindowPasses
    <2>2. CASE exec[k].pc # "idle"
      <3>1. Over(k)' /\ exec'[k].pc # "idle"
        BY <1>3, <1>9, <2>2 DEF WindowPasses, Over
      <3> QED
        BY <1>5, <1>9, <3>1 DEF WindowPasses
    <2> QED
      BY <2>1, <2>2
  <1>10. ASSUME NEW j \in Signals, Reserve(j) PROVE Goal
    <2>1. j = k => exec'[k].pc # "idle"
      BY <1>2, <1>10 DEF Reserve, Goto, ExecState
    <2>2. row'[k] = IF j = k THEN Fresh("pending_execution") ELSE row[k]
      BY <1>2, <1>10 DEF Reserve, Write
    <2> HIDE DEF T
    <2> QED
      BY <1>5, <1>7, <1>10, <2>1, <2>2 DEF Reserve
  <1>11. ASSUME NEW j \in Signals, Execute(j) PROVE Goal
    <2>1. exec[j].pc # "idle"
      BY <1>11
      DEF Execute, ConfigureLeverageFails, PlaceOrder, LookUpOrder, ConfirmFill,
          PersistFill, Activate, FinishSetup, EmergencyClose, RecordEmergency
    <2>2. \/ row'[k] = row[k] \/ (j = k /\ \E s : row'[k] = Fresh(s))
          \/ (j = k /\ row'[k].since = row[k].since)
      <3>1. \/ row' = row \/ PersistOrderIdentity(j)
            \/ \E s : WriteBestEffort(j, Fresh(s)) \/ Write(j, Fresh(s))
        BY <1>11
        DEF Execute, ConfigureLeverageFails, PlaceOrder, LookUpOrder, ConfirmFill,
            PersistFill, Activate, FinishSetup, EmergencyClose, RecordEmergency,
            FailBeforeOrder
      <3>2. CASE PersistOrderIdentity(j)
        <4>1. PICK s : WriteBestEffort(j, [row[j] EXCEPT !.status = s])
          BY <3>2 DEF PersistOrderIdentity
        <4>2. j = k => [row[j] EXCEPT !.status = s].since = row[k].since
          BY <1>2 DEF Entry
        <4> QED
          BY <1>2, <4>1, <4>2 DEF WriteBestEffort, Write
      <3>3. CASE \E s : WriteBestEffort(j, Fresh(s)) \/ Write(j, Fresh(s))
        BY <1>2, <3>3 DEF WriteBestEffort, Write
      <3> QED
        BY <3>1, <3>2, <3>3
    <2>3. mem'[k] = mem[k] \/ (j = k /\ \E s : mem'[k] = Fresh(s))
      <3>1. \/ mem' = mem
            \/ \E s : \/ AddOnce(j, Fresh(s)) \/ Update(j, Fresh(s))
                       \/ mem' = [mem EXCEPT ![j] = Fresh(s)]
        <4>1. CASE RecordEmergency(j)
          BY <4>1 DEF RecordEmergency
        <4> QED
          BY <1>11, <4>1
          DEF Execute, ConfigureLeverageFails, PlaceOrder, LookUpOrder, ConfirmFill,
              PersistFill, Activate, FinishSetup, EmergencyClose, FailBeforeOrder
      <3> QED
        BY <1>2, <3>1 DEF AddOnce, Update
    <2>4. UNCHANGED <<recon, operator>>
      BY <1>11
      DEF Execute, ConfigureLeverageFails, PlaceOrder, LookUpOrder, ConfirmFill,
          PersistFill, Activate, FinishSetup, EmergencyClose, RecordEmergency
    <2>5. j = k => exec'[k].pc # "idle"
      BY <1>3, <2>1
    <2>6. T(row'[k])
      <3>1. CASE row'[k] = row[k]
        BY <1>5, <3>1
      <3>2. CASE j = k /\ \E s : row'[k] = Fresh(s)
        <4> HIDE DEF T
        <4> QED
          BY <1>7, <2>5, <3>2
      <3>3. CASE j = k /\ row'[k].since = row[k].since
        BY <1>5, <2>5, <3>3
      <3> QED
        BY <2>2, <3>1, <3>2, <3>3
    <2>7. T(mem'[k])
      <3> HIDE DEF T
      <3> QED
        BY <1>5, <1>7, <2>3, <2>5
    <2> QED
      BY <1>5, <2>4, <2>6, <2>7
  <1>12. CASE Reconcile \/ FetchFails
    <2>1. exec' = exec /\ operator' = operator
      BY <1>12
      DEF Reconcile, FetchFails, ReconcileStart, FetchOrders, FetchPositions,
          MatchPosition, PublishTrades, SettleUnmatched
    <2> DEFINE Copies == /\ T(row'[k]) /\ T(mem'[k])
                         /\ T(recon'.seen[k]) /\ T(recon'.keep[k])
                         /\ k \in recon'.todo => exec'[k].pc # "idle"
    <2>2. CASE ReconcileStart
      <3>1. /\ recon'.seen[k] = Candidate(k) /\ recon'.keep = recon.keep
            /\ recon'.todo = recon.todo
        BY <1>2, <2>2 DEF ReconcileStart, ReconState
      <3>2. T(recon'.seen[k])
        BY <1>5, <3>1 DEF Candidate
      <3> QED
        BY <1>5, <2>1, <2>2, <3>1, <3>2 DEF ReconcileStart
    <2>3. CASE FetchOrders \/ FetchPositions
      <3>1. /\ recon'.seen = recon.seen /\ recon'.keep = recon.keep
            /\ recon'.todo = recon.todo
                 \/ recon'.todo = {t \in Trades : Known(recon.seen[t])}
        BY <1>2, <2>3 DEF FetchOrders, FetchPositions, ReconState
      <3>2. Known(recon.seen[k]) => exec'[k].pc # "idle"
        BY <1>5 DEF Known, Absent, Fresh
      <3> QED
        BY <1>5, <2>1, <2>3, <3>1, <3>2 DEF FetchOrders, FetchPositions
    <2>4. CASE MatchPosition
      <3>1. CASE recon.position = None
        BY <1>2, <1>5, <2>1, <2>4, <3>1 DEF MatchPosition, ReconState
      <3>2. CASE recon.position # None
        <4> DEFINE stray == Recovered(recon.position)
                   E(t) == Merged(IF Known(recon.seen[t]) THEN recon.seen[t]
                                                          ELSE row[t])
        <4>1. PICK t \in Trades :
                 /\ t = stray \/ t \in Matching(recon.seen)
                 /\ Write(t, E(t))
                 /\ recon' = [recon EXCEPT !.pc = "settling", !.position = None,
                                           !.seen[t] = Absent, !.keep[t] = E(t),
                                           !.todo = @ \ {t}]
          <5>1. stray \in Trades
            BY <1>2, <3>2 DEF ReconState, Trades
          <5> QED
            BY <2>4, <3>2, <5>1 DEF MatchPosition, Matching
        <4>2. stray # k
          BY <1>2, <3>2, LifecycleAssumption DEF ReconState
        <4>3. t = k => Known(recon.seen[k]) /\ E(k) = Merged(recon.seen[k])
          BY <4>1, <4>2 DEF Matching
        <4>4. Merged(recon.seen[k]).since = recon.seen[k].since
          BY <1>2, MergedType DEF ReconState
        <4>5. Known(recon.seen[k]) => exec'[k].pc # "idle"
          BY <1>5 DEF Known, Absent, Fresh
        <4>6. t = k => T(E(k))
          BY <1>5, <4>3, <4>4, <4>5
        <4> HIDE DEF E, T
        <4>7. /\ row'[k] = IF t = k THEN E(k) ELSE row[k]
              /\ recon'.seen[k] = IF t = k THEN Absent ELSE recon.seen[k]
              /\ recon'.keep[k] = IF t = k THEN E(k) ELSE recon.keep[k]
              /\ recon'.todo \subseteq recon.todo
          BY <1>2, <4>1 DEF Write, ReconState
        <4>8. mem' = mem
          BY <2>4 DEF MatchPosition
        <4> QED
          BY <1>5, <1>6, <2>1, <4>6, <4>7, <4>8
      <3> QED
        BY <3>1, <3>2
    <2>5. CASE PublishTrades
      <3>1. mem'[k] = recon.keep[k] \/ mem'[k] = Absent
        BY <1>2, <2>5 DEF PublishTrades, Published
      <3>2. /\ recon'.seen[k] = Absent /\ recon'.keep[k] = Absent
            /\ recon'.todo = {} /\ row' = row
        BY <1>2, <2>5 DEF PublishTrades, ReconIdle
      <3> HIDE DEF T
      <3> QED
        BY <1>5, <1>6, <2>1, <3>1, <3>2
    <2>6. ASSUME NEW t \in Trades, SettleUnmatched(t) PROVE Copies
      <3>1. /\ recon'.seen[k] = recon.seen[k] \/ recon'.seen[k] = Absent
            /\ recon'.keep = recon.keep /\ recon'.todo \subseteq recon.todo
            /\ t \in recon.todo
        BY <1>2, <2>6 DEF SettleUnmatched, ReconState
      <3>2. mem'[k] = mem[k] \/ mem'[k] = Absent
        BY <1>2, <2>6 DEF SettleUnmatched, CloseExactly, Forget
      <3>3. row'[k] = row[k] \/ (t = k /\ (row'[k].since = recon.seen[k].since
                                            \/ row'[k].since = "recent"))
        <4>1. recon.seen[t] \in Entry
          BY <1>2 DEF ReconState
        <4>2. PICK e : /\ Write(t, e)
                       /\ e.since = recon.seen[t].since \/ e.since = "recent"
          <5> DEFINE e     == recon.seen[t]
                     since == IF e.since = "none" THEN "recent" ELSE e.since
                     stale == [e EXCEPT !.status = "close_pending_sync", !.since = since]
                     pend  == [e EXCEPT !.status = "reconciliation_pending"]
                     clo   == [e EXCEPT !.status = "closed"]
                     est   == [stale EXCEPT !.status = "estimated"]
          <5>1. /\ \A x \in {pend, clo} : x.since = e.since
                /\ \A x \in {stale, est} : x.since = e.since \/ x.since = "recent"
            BY <4>1 DEF Entry
          <5>2. Write(t, pend) \/ Write(t, clo) \/ Write(t, stale) \/ Write(t, est)
            BY <2>6 DEF SettleUnmatched, CloseExactly
          <5> HIDE DEF stale, pend, clo, est
          <5> QED
            BY <5>1, <5>2
        <4> QED
          BY <1>2, <4>2 DEF Write
      <3>4. t = k => exec'[k].pc # "idle"
        BY <1>5, <3>1
      <3>5. T(row'[k])
        BY <1>5, <3>3, <3>4
      <3>6. T(mem'[k]) /\ T(recon'.seen[k]) /\ T(recon'.keep[k])
        BY <1>5, <1>6, <3>1, <3>2
      <3> QED
        BY <1>5, <3>1, <3>5, <3>6
    <2>7. CASE FetchFails
      <3>1. /\ recon'.seen[k] = Absent /\ recon'.keep[k] = Absent
            /\ recon'.todo = {} /\ row' = row /\ mem' = mem
        BY <1>2, <2>7 DEF FetchFails, ReconIdle
      <3> HIDE DEF T
      <3> QED
        BY <1>5, <1>6, <2>1, <3>1
    <2> HIDE DEF T
    <2>8. Copies
      BY <1>12, <2>2, <2>3, <2>4, <2>5, <2>6, <2>7 DEF Reconcile
    <2> QED
      BY <1>5, <2>1, <2>8
  <1>13. CASE CloseRequest \/ CloseRequestFails \/ \E t \in Trades : FindTrade(t)
    <2>1. recon' = recon /\ exec' = exec
      BY <1>13
      DEF CloseRequest, CloseRequestFails, FindTrade, CheckPosition, SyncClosed,
          ReserveClose, SubmitClose, RecordSubmission
    <2>2. \/ operator'.trade = operator.trade /\ operator'.entry = operator.entry
          \/ operator' = OperatorIdle
          \/ operator'.trade = k => operator'.entry = OpenTrade(k) /\ Known(OpenTrade(k))
      BY <1>2, <1>13
      DEF CloseRequest, CloseRequestFails, FindTrade, CheckPosition, SyncClosed,
          ReserveClose, SubmitClose, RecordSubmission, OperatorAt, OperatorState
    <2>3. operator'.trade = k => exec'[k].pc # "idle" /\ T(operator'.entry)
      <3>1. T(OpenTrade(k)) /\ (Known(OpenTrade(k)) => OpenTrade(k) # Absent)
        BY <1>5, <1>6 DEF OpenTrade, Known, Absent, Fresh
      <3> QED
        BY <1>2, <1>5, <2>2, <3>1 DEF OperatorIdle
    <2>4. \/ row'[k] = row[k]
          \/ (operator.trade = k /\ row'[k].since = operator.entry.since)
      <3>1. row' = row \/ \E st : Write(operator.trade, [operator.entry EXCEPT !.status = st])
        BY <1>13
        DEF CloseRequest, CloseRequestFails, FindTrade, CheckPosition, SyncClosed,
            ReserveClose, SubmitClose, RecordSubmission, CloseExactly, Mark
      <3>2. \A st : [operator.entry EXCEPT !.status = st].since = operator.entry.since
        BY <1>2 DEF OperatorState, Entry
      <3> QED
        BY <1>2, <3>1, <3>2, ZenonT(60) DEF Write
    <2>5. \/ mem'[k] = mem[k] \/ mem'[k] = Absent
          \/ (operator.trade = k /\ mem'[k].since = operator.entry.since)
      <3>1. \/ mem' = mem \/ Forget(operator.trade)
            \/ \E st : Update(operator.trade, [operator.entry EXCEPT !.status = st])
        BY <1>13
        DEF CloseRequest, CloseRequestFails, FindTrade, CheckPosition, SyncClosed,
            ReserveClose, SubmitClose, RecordSubmission, CloseExactly, Mark
      <3>2. \A st : [operator.entry EXCEPT !.status = st].since = operator.entry.since
        BY <1>2 DEF OperatorState, Entry
      <3> QED
        BY <1>2, <3>1, <3>2, ZenonT(60) DEF Update, Forget
    <2>6. T(row'[k])
      BY <1>5, <2>4
    <2>7. T(mem'[k])
      BY <1>5, <1>6, <2>5
    <2> QED
      BY <1>5, <2>1, <2>3, <2>6, <2>7
  <1>14. CASE Crash
    <2>1. mem'[k] = row[k] \/ mem'[k] = Absent
      BY <1>14 DEF Crash, Published, Trades
    <2>2. /\ recon' = ReconIdle /\ operator' = OperatorIdle /\ row' = row
          /\ exec'[k].pc # "idle" <=> exec[k].pc # "idle"
      BY <1>2, <1>14 DEF Crash
    <2>3. /\ recon'.seen[k] = Absent /\ recon'.keep[k] = Absent
          /\ recon'.todo = {}
      BY <2>2 DEF ReconIdle, Trades
    <2>4. T(row'[k]) /\ T(mem'[k])
      BY <1>5, <1>6, <2>1, <2>2
    <2> QED
      BY <1>2, <1>6, <2>2, <2>3, <2>4 DEF OperatorIdle
  <1> QED
    BY <1>8, <1>9, <1>10, <1>11, <1>12, <1>13, <1>14
    DEF Next, Steps, vars, PositionCloses, OrderFills, OrderDies

\* The row of a signal in the market stops blocking in no step, unless a cycle
\* that knows it as expired settles it.
LEMMA OwnRowStays ==
    ASSUME ExposureInv, [Next]_vars, NEW k \in Signals,
           Reconcilable(k), recon.seen[k].since # "expired",
           position = k \/ (Entering(k) /\ exec'[k].pc # "done")
                        \/ order[k] = "accepted"
    PROVE  Reconcilable(k)'
  <1>1. /\ exec[k].pc = "reserved" => order[k] = "none"
        /\ position = k => order[k] = "filled" /\ absence[k] = "none"
        /\ absence[k] # "none" => order[k] = "filled"
    BY DEF ExposureInv, OrdersAgree
  <1>2. absence[k] = "none"
    BY <1>1 DEF Entering
  <1>3. ~ExactCloseKnown(k)
    BY <1>2, PositionOfSignal DEF ExactCloseKnown
  <1>4. ~Fails(k)
    BY <1>1 DEF Fails, Entering
  <1> QED
    BY <1>3, <1>4, WhoUnblocks DEF ExposureInv, Syncs, Settles, Trades

\* While a signal is in the market and not over, no copy of it is expired.
LEMMA NotExpiredYet ==
    ASSUME ExposureInv, NEW k \in Signals, ~Over(k)
    PROVE  /\ row[k].since # "expired" /\ recon.seen[k].since # "expired"
           /\ operator.trade = k => operator.entry.since # "expired"
  BY DEF ExposureInv, CopiesTraced, Traced

\* An entry that is still out is not over.
LEMMA EnteringNotOver ==
    ASSUME NEW k \in Signals, Entering(k)
    PROVE  ~Over(k)
  BY DEF Entering, Over

LEMMA EnteringBlocksNext ==
    ASSUME ExposureInv, [Next]_vars
    PROVE  EnteringBlocks'
  <1> SUFFICES ASSUME NEW k \in Signals,
                      Entering(k)' \/ (position' = k /\ ~Over(k)')
               PROVE  Reconcilable(k)'
    BY DEF EnteringBlocks
  <1>1. TypeOK /\ OrdersAgree /\ EnteringBlocks
    BY DEF ExposureInv
  <1>2. /\ Entering(k)' => Entering(k) \/ Reserve(k)
        /\ position' = k => position = k \/ (OrderFills(k) /\ position = None)
        /\ Over(k) => Over(k)'
    BY <1>1, OnlyReserveEnters, ExecutionGoesOn
  <1>3. CASE Reserve(k)
    BY <1>1, <1>3
    DEF Reserve, Write, Fresh, Reconcilable, BlockingStatus, TypeOK, Trades
  <1>4. CASE Entering(k)' /\ Entering(k)
    <2>1. Reconcilable(k) /\ recon.seen[k].since # "expired"
      BY <1>1, <1>4, NotExpiredYet, EnteringNotOver DEF EnteringBlocks
    <2>2. exec'[k].pc # "done" \/ order[k] = "accepted"
      <3>1. exec'[k].pc = "done" => order'[k] = "accepted"
        BY <1>4 DEF Entering
      <3>2. order'[k] = "accepted" /\ order[k] # "accepted" => exec'[k].pc # "done"
        <4>1. ASSUME NEW j \in Signals, PlaceOrder(j), order'[k] = "accepted",
                     order[k] # "accepted"
              PROVE  exec'[k].pc # "done"
          <5>1. j = k
            BY <1>1, <4>1 DEF PlaceOrder, TypeOK
          <5>2. Goto(k, "placed") \/ Goto(k, "asking")
            BY <4>1, <5>1 DEF PlaceOrder
          <5>3. exec \in [Signals -> ExecState]
            BY <1>1 DEF TypeOK, ExecState
          <5> QED
            BY <5>2, <5>3 DEF Goto, ExecState
        <4>2. ASSUME NEW j \in Signals, OrderFills(j) \/ OrderDies(j)
              PROVE  order'[k] = "accepted" => order[k] = "accepted"
          BY <1>1, <4>2 DEF OrderFills, OrderDies, TypeOK
        <4>3. \/ order' = order
              \/ \E j \in Signals : PlaceOrder(j) \/ OrderFills(j) \/ OrderDies(j)
          BY DEF Next, Steps, vars, PositionCloses, ClosePosition, Reserve, Execute,
                 ConfigureLeverageFails, LookUpOrder, ConfirmFill, PersistFill,
                 Activate, FinishSetup, EmergencyClose, RecordEmergency, Reconcile,
                 CloseRequest, ReconcileStart, FetchOrders, FetchPositions,
                 FetchFails, MatchPosition, PublishTrades, SettleUnmatched,
                 FindTrade, CheckPosition, SyncClosed, ReserveClose, SubmitClose,
                 RecordSubmission, CloseRequestFails, WindowPasses, Crash,
                 exchange, bounds
        <4> QED
          BY <4>1, <4>2, <4>3
      <3> QED
        BY <3>1, <3>2
    <2> QED
      BY <1>4, <2>1, <2>2, OwnRowStays
  <1>5. CASE position = k /\ ~Over(k)
    BY <1>1, <1>5, NotExpiredYet, OwnRowStays DEF EnteringBlocks
  <1>6. CASE OrderFills(k)
    <2>1. Entering(k) /\ order[k] = "accepted"
      BY <1>6 DEF OrderFills, Entering
    <2> QED
      BY <1>1, <2>1, NotExpiredYet, EnteringNotOver, OwnRowStays DEF EnteringBlocks
  <1> QED
    BY <1>2, <1>3, <1>4, <1>5, <1>6

LEMMA OneLiveNext ==
    ASSUME ExposureInv, [Next]_vars
    PROVE  OneLive'
  <1> SUFFICES ASSUME NEW j \in Signals, NEW k \in Signals, Live(j)', Live(k)'
               PROVE  j = k
    BY DEF OneLive
  <1>1. TypeOK /\ OrdersAgree /\ OneLive /\ EnteringBlocks /\ PositionBlocks
    BY DEF ExposureInv
  <1>2. ASSUME NEW i \in Signals, Live(i)' PROVE Live(i) \/ Reserve(i)
    <2>1. OrderFills(i) => Live(i)
      BY DEF OrderFills, Live, Entering
    <2> QED
      BY <1>1, <1>2, <2>1, OnlyReserveEnters DEF Live
  <1>3. ASSUME NEW i \in Signals, Reserve(i) PROVE \A n \in Signals : ~Live(n)
    <2>1. \A t \in Trades : ~Reconcilable(t)
      BY <1>3 DEF Reserve
    <2> QED
      BY <1>1, <2>1 DEF Live, EnteringBlocks, PositionBlocks, Trades
  <1>4. ASSUME Reserve(j), Reserve(k) PROVE j = k
    BY <1>1, <1>4 DEF Reserve, Goto, TypeOK
  <1> QED
    BY <1>1, <1>2, <1>3, <1>4 DEF OneLive

\* If the row that stops blocking is not the position's own, another still does.
LEMMA PositionBlocksNext ==
    ASSUME ExposureInv, [Next]_vars, EnteringBlocks'
    PROVE  PositionBlocks'
  <1> SUFFICES ASSUME NEW k \in Signals, position' = k
               PROVE  \E t \in Trades : Reconcilable(t)'
    BY DEF PositionBlocks
  <1>1. TypeOK /\ OrdersAgree
    BY DEF ExposureInv
  <1>2. CASE position # k
    <2>1. OrderFills(k)
      BY <1>1, <1>2, OnlyReserveEnters
    <2>2. Entering(k) /\ order[k] = "accepted"
      BY <2>1 DEF OrderFills, Entering
    <2> QED
      BY <2>2, NotExpiredYet, EnteringNotOver, OwnRowStays
      DEF ExposureInv, EnteringBlocks, Trades
  <1>3. CASE position = k
    <2>1. /\ order[k] = "filled" /\ absence[k] = "none"
          /\ \A t \in Trades : ~Fails(t)
      <3>1. order[k] = "filled" /\ absence[k] = "none"
        BY <1>1, <1>3 DEF OrdersAgree
      <3>2. ASSUME NEW t \in Trades, Fails(t) PROVE FALSE
        <4>1. Live(t) /\ Live(k) /\ t \in Signals
          BY <1>3, <3>2 DEF Fails, Live, Entering
        <4>2. t = k
          BY <4>1 DEF ExposureInv, OneLive
        <4> QED
          BY <1>1, <3>1, <3>2, <4>2 DEF Fails, OrdersAgree
      <3> QED
        BY <3>1, <3>2
    <2>2. PICK t \in Trades : Reconcilable(t)
      BY <1>3 DEF ExposureInv, PositionBlocks
    <2>3. CASE Reconcilable(t)'
      BY <2>3
    <2>4. CASE Syncs(t)
      <3>1. operator.pc = "flat"
        BY <2>4 DEF Syncs, SyncClosed
      <3>2. Reconcilable(k) /\ recon.seen[k].since # "expired"
        BY <1>3, <3>1 DEF ExposureInv, FlatBefore
      <3> QED
        BY <1>3, <3>2, OwnRowStays DEF Trades
    <2>5. CASE Settles(t)
      <3>1. recon.pc = "settling" /\ SettleUnmatched(t)
        BY <2>5 DEF Settles, SettleUnmatched
      <3>2. PICK u \in Trades : Spares(u, k)
        BY <1>3, <3>1 DEF ExposureInv, CycleSpares
      <3>3. CASE u = t
        <4>1. u = k /\ recon.seen[k].since # "expired" /\ Reconcilable(k)
          BY <3>1, <3>2, <3>3 DEF Spares, SettleUnmatched
        <4> QED
          BY <1>3, <4>1, OwnRowStays DEF Trades
      <3>4. CASE u # t
        <4>1. row'[u] = row[u]
          BY <1>1, <3>1, <3>4 DEF SettleUnmatched, CloseExactly, Write, TypeOK
        <4> QED
          BY <3>2, <4>1 DEF Spares, Reconcilable
      <3> QED
        BY <3>3, <3>4
    <2> QED
      BY <1>1, <2>1, <2>2, <2>3, <2>4, <2>5, WhoUnblocks
  <1> QED
    BY <1>2, <1>3

\* The open position after a step: the one before it, or one that is not over
\* yet and whose own row blocks.
LEMMA OpenedBlocks ==
    ASSUME ExposureInv, [Next]_vars, NEW k \in Signals, position' = k, position # k
    PROVE  /\ OrderFills(k) /\ Reconcilable(k)'
           /\ row[k].since # "expired" /\ recon.seen[k].since # "expired"
           /\ UNCHANGED <<row, recon, operator>>
  <1>1. OrderFills(k)
    BY OnlyReserveEnters DEF ExposureInv
  <1>2. Entering(k) /\ order[k] = "accepted"
    BY <1>1 DEF OrderFills, Entering
  <1>3. Reconcilable(k) /\ row[k].since # "expired" /\ recon.seen[k].since # "expired"
    BY <1>2, NotExpiredYet, EnteringNotOver DEF ExposureInv, EnteringBlocks
  <1>4. UNCHANGED <<row, recon, operator>>
    BY <1>1 DEF OrderFills
  <1> QED
    BY <1>1, <1>3, <1>4 DEF Reconcilable

\* The cycle moves by its own steps, and a failure or a restart drops it.
LEMMA CycleSteps ==
    ASSUME TypeOK, [Next]_vars
    PROVE  \/ recon' = recon
           \/ recon'.pc \in {"idle", "started", "ordered"}
           \/ FetchPositions /\ recon'.pc = "positioned" /\ recon'.position = position
           \/ MatchPosition
           \/ \E t \in Trades : SettleUnmatched(t)
  <1>1. recon \in ReconState
    BY DEF TypeOK
  <1>2. CASE ReconcileStart \/ FetchOrders \/ FetchPositions
    BY <1>1, <1>2 DEF ReconcileStart, FetchOrders, FetchPositions, ReconState
  <1>3. CASE PublishTrades \/ FetchFails \/ Crash
    BY <1>3 DEF PublishTrades, FetchFails, Crash, ReconIdle
  <1>4. CASE \/ \E k \in Signals : OrderFills(k) \/ OrderDies(k)
            \/ PositionCloses \/ WindowPasses
    BY <1>4 DEF OrderFills, OrderDies, PositionCloses, WindowPasses
  <1>5. CASE \E k \in Signals : Reserve(k) \/ Execute(k)
    BY <1>5
    DEF Reserve, Execute, ConfigureLeverageFails, PlaceOrder, LookUpOrder, ConfirmFill,
        PersistFill, Activate, FinishSetup, EmergencyClose, RecordEmergency
  <1>6. CASE CloseRequest \/ CloseRequestFails \/ \E t \in Trades : FindTrade(t)
    BY <1>6
    DEF CloseRequest, CloseRequestFails, FindTrade, CheckPosition, SyncClosed,
        ReserveClose, SubmitClose, RecordSubmission
  <1> QED
    BY <1>2, <1>3, <1>4, <1>5, <1>6 DEF Next, Steps, Reconcile, vars

LEMMA FetchedBeforeNext ==
    ASSUME ExposureInv, [Next]_vars
    PROVE  FetchedBefore'
  <1> SUFFICES ASSUME NEW k \in Signals, recon'.pc = "positioned",
                      recon'.position = None, position' = k
               PROVE  Reconcilable(k)' /\ recon'.seen[k].since # "expired"
    BY DEF FetchedBefore
  <1>1. recon \in ReconState /\ k # None
    BY LifecycleAssumption DEF ExposureInv, TypeOK
  <1>2. recon' = recon
    <2>1. ~FetchPositions \/ recon'.position # position
      BY <1>1 DEF FetchPositions, exchange
    <2>2. ASSUME MatchPosition PROVE recon'.pc = "settling"
      BY <1>1, <2>2 DEF MatchPosition, ReconState
    <2>3. ASSUME NEW t \in Trades, SettleUnmatched(t) PROVE recon'.pc = "settling"
      BY <1>1, <2>3 DEF SettleUnmatched, ReconState
    <2> QED
      BY <2>1, <2>2, <2>3, CycleSteps DEF ExposureInv
  <1>3. CASE position # k
    BY <1>2, <1>3, OpenedBlocks
  <1>4. CASE position = k
    <2>1. Reconcilable(k) /\ recon.seen[k].since # "expired"
      BY <1>2, <1>4 DEF ExposureInv, FetchedBefore
    <2> QED
      BY <1>2, <1>4, <2>1, OwnRowStays
  <1> QED
    BY <1>3, <1>4

LEMMA CycleSparesNext ==
    ASSUME ExposureInv, [Next]_vars
    PROVE  CycleSpares'
  <1> SUFFICES ASSUME NEW k \in Signals, recon'.pc = "settling", position' = k
               PROVE  \E t \in Trades : Spares(t, k)'
    BY DEF CycleSpares
  <1>1. /\ TypeOK /\ OrdersAgree
        /\ recon \in ReconState /\ k # None /\ k \in Trades
        /\ row \in [Trades -> Entry]
    BY LifecycleAssumption DEF ExposureInv, TypeOK, Trades
  <1>2. \/ recon' = recon \/ MatchPosition
        \/ \E t \in Trades : SettleUnmatched(t)
    BY <1>1, CycleSteps
  <1>3. CASE position # k
    BY <1>1, <1>3, OpenedBlocks DEF Spares
  <1>4. CASE position = k /\ MatchPosition
    <2>1. CASE recon.position = None
      <3>1. Reconcilable(k) /\ recon.seen[k].since # "expired"
        BY <1>4, <2>1 DEF ExposureInv, FetchedBefore, MatchPosition
      <3>2. Reconcilable(k)'
        BY <1>4, <3>1, OwnRowStays
      <3>3. recon'.seen = recon.seen
        BY <1>1, <1>4, <2>1 DEF MatchPosition, ReconState
      <3> QED
        BY <1>1, <3>1, <3>2, <3>3 DEF Spares
    <2>2. CASE recon.position # None
      <3>1. Recovered(recon.position) \in Trades
        BY <1>1, <2>2 DEF ReconState, Trades
      <3>2. PICK t \in Trades, e0 \in Entry :
               /\ Write(t, Merged(e0))
               /\ recon' = [recon EXCEPT !.pc = "settling", !.position = None,
                                         !.seen[t] = Absent, !.keep[t] = Merged(e0),
                                         !.todo = @ \ {t}]
        <4>1. PICK t \in Trades :
               LET e == Merged(IF Known(recon.seen[t]) THEN recon.seen[t] ELSE row[t])
               IN  /\ Write(t, e)
                   /\ recon' = [recon EXCEPT !.pc = "settling", !.position = None,
                                             !.seen[t] = Absent, !.keep[t] = e,
                                             !.todo = @ \ {t}]
          BY <1>4, <2>2, <3>1 DEF MatchPosition, Matching
        <4>2. (IF Known(recon.seen[t]) THEN recon.seen[t] ELSE row[t]) \in Entry
          BY <1>1 DEF ReconState
        <4> QED
          BY <4>1, <4>2
      <3>3. Merged(e0).status \in BlockingStatus
        BY MergedType
      <3> HIDE DEF Merged
      <3>4. Reconcilable(t)'
        BY <1>1, <3>2, <3>3 DEF Write, Reconcilable
      <3>5. t \notin recon'.todo
        BY <1>1, <3>2 DEF ReconState
      <3> QED
        BY <3>4, <3>5 DEF Spares
    <2> QED
      BY <2>1, <2>2
  <1>5. ASSUME position = k, NEW t \in Trades, SettleUnmatched(t)
        PROVE  \E u \in Trades : Spares(u, k)'
    <2>1. recon.pc = "settling" /\ t \in recon.todo
      BY <1>5 DEF SettleUnmatched
    <2>2. PICK u \in Trades : Spares(u, k)
      BY <1>5, <2>1 DEF ExposureInv, CycleSpares
    <2>3. recon' = [recon EXCEPT !.todo = @ \ {t}, !.seen[t] = Absent]
      BY <1>5 DEF SettleUnmatched
    <2>4. /\ recon'.todo = recon.todo \ {t}
          /\ \A v \in Trades : v # t => recon'.seen[v] = recon.seen[v]
      BY <1>1, <2>3 DEF ReconState
    <2>5. CASE u = t
      <3>1. u = k /\ recon.seen[k].since # "expired" /\ Reconcilable(k)
        BY <2>1, <2>2, <2>5 DEF Spares
      <3> QED
        BY <1>5, <2>4, <2>5, <3>1, OwnRowStays DEF Spares
    <2>6. CASE u # t
      <3>1. row'[u] = row[u]
        BY <1>1, <1>5, <2>6 DEF SettleUnmatched, CloseExactly, Write
      <3> QED
        BY <2>2, <2>4, <2>6, <3>1 DEF Spares, Reconcilable
    <2> QED
      BY <2>5, <2>6
  <1>6. CASE position = k /\ recon' = recon
    <2>1. PICK t \in Trades : Spares(t, k)
      BY <1>6 DEF ExposureInv, CycleSpares
    <2>2. CASE Reconcilable(t)'
      BY <1>6, <2>1, <2>2 DEF Spares
    <2>3. CASE Syncs(t)
      <3>1. operator.pc = "flat"
        BY <2>3 DEF Syncs, SyncClosed
      <3>2. Reconcilable(k) /\ recon.seen[k].since # "expired"
        BY <1>6, <3>1 DEF ExposureInv, FlatBefore
      <3> QED
        BY <1>1, <1>6, <3>2, OwnRowStays DEF Spares
    <2>4. ~Settles(t)
      <3>1. SettleUnmatched(t) => recon' # recon
        BY <1>1 DEF SettleUnmatched, ReconState
      <3> QED
        BY <1>6, <3>1 DEF Settles
    <2>5. ~Fails(t)
      <3>1. SUFFICES ASSUME Fails(t) PROVE FALSE
        OBVIOUS
      <3>2. Live(t) /\ Live(k) /\ t \in Signals
        BY <1>6, <3>1 DEF Fails, Live, Entering
      <3>3. t = k
        BY <3>2 DEF ExposureInv, OneLive
      <3> QED
        BY <1>1, <1>6, <3>1, <3>3 DEF Fails, OrdersAgree
    <2> QED
      BY <1>1, <2>1, <2>2, <2>3, <2>4, <2>5, WhoUnblocks DEF Spares
  <1> QED
    BY <1>2, <1>3, <1>4, <1>5, <1>6

\* Nothing but the passing of a whole window, in which no call is under way,
\* makes a copy expire.
LEMMA NothingExpires ==
    ASSUME ExposureInv, [Next]_vars, NEW k \in Signals, operator'.pc = "flat",
           UNCHANGED operator, Reconcilable(k),
           row[k].since # "expired", recon.seen[k].since # "expired"
    PROVE  row'[k].since # "expired" /\ recon'.seen[k].since # "expired"
  <1> DEFINE Goal == row'[k].since # "expired" /\ recon'.seen[k].since # "expired"
  <1>1. /\ row \in [Trades -> Entry] /\ recon \in ReconState /\ k \in Trades
        /\ exec \in [Signals -> ExecState] /\ operator \in OperatorState
    BY DEF ExposureInv, TypeOK, ExecState, OperatorState, Trades
  <1>2. \A st : Fresh(st).since # "expired" /\ Absent.since # "expired"
    BY DEF Fresh, Absent
  <1>3. ASSUME NEW t, NEW e, Write(t, e) \/ WriteBestEffort(t, e), t = k => e.since # "expired"
        PROVE  row'[k].since # "expired"
    BY <1>1, <1>3 DEF Write, WriteBestEffort
  <1>4. ASSUME NEW j \in Signals, Reserve(j) PROVE Goal
    <2>1. Write(j, Fresh("pending_execution")) /\ recon' = recon
      BY <1>4 DEF Reserve
    <2> QED
      BY <1>2, <1>3, <2>1
  <1>5. ASSUME NEW j \in Signals, Execute(j) PROVE Goal
    <2>1. recon' = recon
      BY <1>5
      DEF Execute, ConfigureLeverageFails, PlaceOrder, LookUpOrder, ConfirmFill,
          PersistFill, Activate, FinishSetup, EmergencyClose, RecordEmergency
    <2>2. \/ row' = row \/ PersistOrderIdentity(j)
          \/ \E s : WriteBestEffort(j, Fresh(s)) \/ Write(j, Fresh(s))
      BY <1>5
      DEF Execute, ConfigureLeverageFails, PlaceOrder, LookUpOrder, ConfirmFill,
          PersistFill, Activate, FinishSetup, EmergencyClose, RecordEmergency,
          FailBeforeOrder
    <2>3. CASE PersistOrderIdentity(j)
      <3>1. PICK e : WriteBestEffort(j, e) /\ (j = k => e.since = row[k].since)
        <4>1. PICK s : WriteBestEffort(j, [row[j] EXCEPT !.status = s])
          BY <2>3 DEF PersistOrderIdentity
        <4>2. j = k => [row[j] EXCEPT !.status = s].since = row[k].since
          BY <1>1 DEF Entry
        <4> QED
          BY <4>1, <4>2
      <3>2. j = k => e.since # "expired"
        BY <3>1
      <3> QED
        BY <1>3, <2>1, <3>1, <3>2
    <2>4. ASSUME NEW s, WriteBestEffort(j, Fresh(s)) \/ Write(j, Fresh(s)) PROVE Goal
      BY <1>2, <1>3, <2>1, <2>4
    <2> QED
      BY <2>1, <2>2, <2>3, <2>4
  <1>6. CASE ReconcileStart \/ FetchOrders \/ FetchPositions
    <2>1. recon'.seen[k] = recon.seen[k] \/ recon'.seen[k] = row[k]
      BY <1>1, <1>6
      DEF ReconcileStart, FetchOrders, FetchPositions, ReconState, Candidate
    <2> QED
      BY <1>6, <2>1 DEF ReconcileStart, FetchOrders, FetchPositions
  <1>7. CASE MatchPosition
    <2>1. CASE recon.position = None
      BY <1>1, <1>7, <2>1 DEF MatchPosition, ReconState
    <2>2. CASE recon.position # None
      <3> DEFINE E(t) == IF Known(recon.seen[t]) THEN recon.seen[t] ELSE row[t]
      <3>1. PICK t \in Trades :
               /\ Write(t, Merged(E(t)))
               /\ recon' = [recon EXCEPT !.pc = "settling", !.position = None,
                                         !.seen[t] = Absent, !.keep[t] = Merged(E(t)),
                                         !.todo = @ \ {t}]
        <4>1. Recovered(recon.position) \in Trades
          BY <1>1, <2>2 DEF ReconState, Trades
        <4> QED
          BY <1>7, <2>2, <4>1 DEF MatchPosition, Matching
      <3>2. E(t) \in Entry /\ (t = k => E(t).since # "expired")
        BY <1>1 DEF ReconState
      <3>3. Merged(E(t)).since = E(t).since
        BY <3>2, MergedType
      <3> HIDE DEF E
      <3>4. recon'.seen[k] = recon.seen[k] \/ recon'.seen[k] = Absent
        BY <1>1, <3>1 DEF ReconState
      <3> QED
        BY <1>2, <1>3, <3>1, <3>2, <3>3, <3>4
    <2> QED
      BY <2>1, <2>2
  <1>8. ASSUME NEW t \in Trades, SettleUnmatched(t) PROVE Goal
    <2> DEFINE e     == recon.seen[t]
               since == IF e.since = "none" THEN "recent" ELSE e.since
               stale == [e EXCEPT !.status = "close_pending_sync", !.since = since]
               pend  == [e EXCEPT !.status = "reconciliation_pending"]
               clo   == [e EXCEPT !.status = "closed"]
               est   == [stale EXCEPT !.status = "estimated"]
    <2>1. \A x \in {pend, clo, stale, est} : x.since = e.since \/ x.since = "recent"
      BY <1>1 DEF ReconState, Entry
    <2>2. Write(t, pend) \/ Write(t, clo) \/ Write(t, stale) \/ Write(t, est)
      BY <1>8 DEF SettleUnmatched, CloseExactly
    <2>3. recon'.seen[k] = recon.seen[k] \/ recon'.seen[k] = Absent
      BY <1>1, <1>8 DEF SettleUnmatched, ReconState
    <2> HIDE DEF stale, pend, clo, est
    <2> QED
      BY <1>2, <1>3, <2>1, <2>2, <2>3
  <1>9. CASE PublishTrades \/ FetchFails \/ Crash
    BY <1>1, <1>2, <1>9 DEF PublishTrades, FetchFails, Crash, ReconIdle
  <1>10. CASE CloseRequest \/ CloseRequestFails \/ \E t \in Trades : FindTrade(t)
    <2>1. FALSE
      <3>1. CASE CheckPosition
        BY <1>1, <3>1 DEF CheckPosition, OperatorAt, OperatorState
      <3>2. CASE SyncClosed \/ RecordSubmission \/ CloseRequestFails
        BY <3>2 DEF SyncClosed, RecordSubmission, CloseRequestFails, OperatorIdle
      <3>3. CASE ReserveClose \/ SubmitClose \/ \E t \in Trades : FindTrade(t)
        BY <3>3 DEF ReserveClose, SubmitClose, FindTrade
      <3> QED
        BY <1>10, <3>1, <3>2, <3>3 DEF CloseRequest
    <2> QED
      BY <2>1
  <1>11. CASE UNCHANGED <<row, recon>>
    BY <1>11
  <1> QED
    BY <1>4, <1>5, <1>6, <1>7, <1>8, <1>9, <1>10, <1>11
    DEF Next, Steps, Reconcile, vars, OrderFills, OrderDies, PositionCloses,
        WindowPasses

LEMMA FlatBeforeNext ==
    ASSUME ExposureInv, [Next]_vars
    PROVE  FlatBefore'
  <1> SUFFICES ASSUME NEW k \in Signals, operator'.pc = "flat", position' = k
               PROVE  /\ Reconcilable(k)' /\ row'[k].since # "expired"
                      /\ recon'.seen[k].since # "expired"
    BY DEF FlatBefore
  <1>1. k # None
    BY LifecycleAssumption
  <1>2. UNCHANGED operator
    <2>1. operator \in OperatorState
      BY DEF ExposureInv, TypeOK, OperatorState
    <2>2. ~CheckPosition
      BY <1>1, <2>1 DEF CheckPosition, OperatorAt, OperatorState, exchange
    <2>3. ~ReserveClose /\ ~SubmitClose
      BY <2>1 DEF ReserveClose, SubmitClose, OperatorAt, OperatorState
    <2>4. ASSUME NEW t \in Trades PROVE ~FindTrade(t)
      BY DEF FindTrade
    <2>5. ~SyncClosed /\ ~RecordSubmission /\ ~CloseRequestFails /\ ~Crash
      BY DEF SyncClosed, RecordSubmission, CloseRequestFails, Crash, OperatorIdle
    <2>6. CASE \E j \in Signals : Reserve(j) \/ Execute(j) \/ OrderFills(j) \/ OrderDies(j)
      BY <2>6
      DEF Reserve, Execute, ConfigureLeverageFails, PlaceOrder, LookUpOrder,
          ConfirmFill, PersistFill, Activate, FinishSetup, EmergencyClose,
          RecordEmergency, OrderFills, OrderDies
    <2>7. CASE Reconcile \/ FetchFails \/ PositionCloses \/ WindowPasses
      BY <2>7
      DEF Reconcile, FetchFails, ReconcileStart, FetchOrders, FetchPositions,
          MatchPosition, PublishTrades, SettleUnmatched, PositionCloses, WindowPasses
    <2> QED
      BY <2>2, <2>3, <2>4, <2>5, <2>6, <2>7 DEF Next, Steps, CloseRequest, vars
  <1>3. CASE position # k
    BY <1>3, OpenedBlocks
  <1>4. CASE position = k
    <2>1. /\ Reconcilable(k)
          /\ row[k].since # "expired" /\ recon.seen[k].since # "expired"
      BY <1>2, <1>4 DEF ExposureInv, FlatBefore
    <2> QED
      BY <1>2, <1>4, <2>1, OwnRowStays, NothingExpires
  <1> QED
    BY <1>3, <1>4

LEMMA ExposureNext == ExposureInv /\ [Next]_vars => ExposureInv'
  <1> SUFFICES ASSUME ExposureInv, [Next]_vars PROVE ExposureInv'
    OBVIOUS
  <1>1. TypeOK' /\ OrdersAgree' /\ CopiesTraced'
    BY TypeNext, OrdersAgreeNext, CopiesTracedNext DEF ExposureInv
  <1>2. EnteringBlocks' /\ OneLive'
    BY EnteringBlocksNext, OneLiveNext
  <1>3. PositionBlocks'
    BY <1>2, PositionBlocksNext
  <1>4. FetchedBefore' /\ CycleSpares' /\ FlatBefore'
    BY FetchedBeforeNext, CycleSparesNext, FlatBeforeNext
  <1> QED
    BY <1>1, <1>2, <1>3, <1>4 DEF ExposureInv

LEMMA ExposureInvHolds == Spec => []ExposureInv
  BY ExposureInit, ExposureNext, PTL DEF Spec

-----------------------------------------------------------------------------
(* The properties.                                                         *)

\* While an entry may still be sent, is out at the exchange or has its position
\* open, some journal row of the symbol blocks the next reservation: after lost
\* writes, lost answers and restarts, with a reconciliation cycle and an
\* operator's close request under way at any of their steps.
THEOREM ExposureStaysReserved == Spec => []ExposureIsReserved
  <1>1. ExposureInv => ExposureIsReserved
    <2> SUFFICES ASSUME ExposureInv,
                        \/ position # None
                        \/ \E k \in Signals : order[k] = "accepted" \/ exec[k].pc = "reserved"
                 PROVE  \E t \in Trades : Reconcilable(t)
      BY DEF ExposureIsReserved
    <2>1. CASE position # None
      BY <2>1 DEF ExposureInv, TypeOK, PositionBlocks
    <2>2. CASE \E k \in Signals : order[k] = "accepted" \/ exec[k].pc = "reserved"
      BY <2>2 DEF ExposureInv, EnteringBlocks, Entering, Trades
    <2> QED
      BY <2>1, <2>2
  <1> QED
    BY <1>1, ExposureInvHolds, PTL

\* Two signals of the symbol never have an accepted order, or one of them an
\* accepted order and the other the open position, at the same time.
THEOREM OneExposureHolds == Spec => []OneExposure
  <1>1. ExposureInv => OneExposure
    BY DEF ExposureInv, OneLive, OneExposure, Live, Entering
  <1> QED
    BY <1>1, ExposureInvHolds, PTL
=============================================================================

--------------------------- MODULE RiskStateProofs ---------------------------
(***************************************************************************)
(* Proofs about JournalRows and RiskState: type correctness, and that the  *)
(* hard stop is never cleared within a day.                                *)
(***************************************************************************)
EXTENDS RiskState, FiniteSetTheorems, TLAPS

-----------------------------------------------------------------------------
(* Lemmas about the operators of the model.                                *)

\* Any set of keys is finite, so its cardinality is a natural number.
LEMMA KeySetsFinite ==
    ASSUME NEW S \in SUBSET Key
    PROVE  IsFiniteSet(S) /\ Cardinality(S) \in Nat
  BY KeyAssumption, FS_Subset, FS_CardinalityType

LEMMA DaysAreNat == /\ Day \subseteq Nat
                    /\ 0 \in Time
                    /\ \A t \in Time : DayOf[t] \in Day /\ DayOf[t] \in Nat
  BY ClockAssumption DEF Day, Time

LEMMA DayNetType == ASSUME NEW d PROVE DayNet(d) \in Int
  <1> DEFINE C == {k \in Key : /\ rows[k].status = "closed"
                               /\ DayOf[rows[k].closedAt] = d}
  <1>1. /\ {k \in C : rows[k].pnl = 1} \in SUBSET Key
        /\ {k \in C : rows[k].pnl = -1} \in SUBSET Key
    OBVIOUS
  <1>2. /\ Cardinality({k \in C : rows[k].pnl = 1}) \in Nat
        /\ Cardinality({k \in C : rows[k].pnl = -1}) \in Nat
    BY <1>1, KeySetsFinite
  <1> QED
    BY <1>2 DEF DayNet

LEMMA CountsAreNat == Cardinality(Blocking) \in Nat /\ Cardinality(Present) \in Nat
  BY KeySetsFinite DEF Blocking, Present

LEMMA CapacityType ==
    ASSUME NEW e \in BOOLEAN, NEW n \in Int, NEW l \in Int
    PROVE  Capacity(e, n, l) \in Int
  BY RiskAssumption DEF Capacity, Positive

LEMMA RecomputedType ==
    ASSUME NEW loaded \in StateRow, NEW d \in Day,
           NEW o \in BOOLEAN, NEW w \in BOOLEAN, NEW audit \in Audit
    PROVE  Recomputed(loaded, d, o, w, audit) \in StateRow
  <1> DEFINE newDay == loaded.day # d
             known  == ~newDay /\ loaded.equity
             equity == o \/ known
             net    == IF audit = "ok" THEN DayNet(d)
                       ELSE IF newDay THEN 0 ELSE loaded.net
             live   == LiveSeen(audit)
  <1>1. equity \in BOOLEAN
    OBVIOUS
  <1>2. net \in Int
    BY DayNetType DEF StateRow
  <1>3. live \in Int
    BY CountsAreNat DEF LiveSeen
  <1>4. Capacity(equity, net, live) \in Int
    BY <1>1, <1>2, <1>3, CapacityType
  <1> HIDE DEF equity, net, live
  <1> QED
    BY <1>1, <1>2, <1>4 DEF Recomputed, StateRow, LimitHit, equity, net, live

LEMMA WithAuthorityType ==
    ASSUME NEW loaded \in StateRow, NEW e \in BOOLEAN, NEW l \in Int,
           NEW a \in Authority
    PROVE  WithAuthority(loaded, e, l, a) \in StateRow
  <1>1. a.net \in Int /\ a.ok \in BOOLEAN
    BY DEF Authority
  <1>2. Capacity(e, a.net, l) \in Int
    BY <1>1, CapacityType
  <1> QED
    BY <1>1, <1>2 DEF WithAuthority, StateRow, LimitHit

\* A flush of well-typed rows is a well-typed row, column by column.
LEMMA FlushColumns ==
    ASSUME NEW x \in StateRow, NEW y \in StateRow, NEW z \in StateRow
    PROVE  /\ Flush(x, y, z) \in StateRow
           /\ Flush(x, y, z).day = IF z.day = y.day THEN x.day ELSE z.day
           /\ Flush(x, y, z).breaker =
                 IF z.breaker = y.breaker THEN x.breaker ELSE z.breaker
  BY DEF Flush, StateRow

\* A transaction that writes nothing leaves the row as it is.
LEMMA FlushNothing ==
    ASSUME NEW x \in StateRow, NEW y \in StateRow
    PROVE  Flush(x, y, y) = x
  BY DEF Flush, StateRow

LEMMA InitialStateType == InitialState \in StateRow
  BY DaysAreNat DEF InitialState, StateRow

LEMMA IdleType == NoAuthority \in Authority /\ Idle \in Local
  <1>1. NoAuthority \in Authority
    BY DEF NoAuthority, Authority
  <1> QED
    BY <1>1, InitialStateType, DaysAreNat DEF Idle, Local, RefPc

-----------------------------------------------------------------------------
(* Type correctness.                                                       *)

LEMMA InitTypeOK == Init => TypeOK
  <1> SUFFICES ASSUME Init PROVE TypeOK
    OBVIOUS
  <1>1. JournalTypeOK
    BY DaysAreNat DEF Init, JournalInit, JournalTypeOK, NoRow, Row, RowStatus
  <1>2. state \in StateRow
    <2>1. \A e \in BOOLEAN : Capacity(e, 0, 0) \in Int
      BY CapacityType
    <2> QED
      BY <2>1, InitialStateType DEF Init, RiskInit, StateRow
  <1>3. Idle \in Local
    BY IdleType
  <1>4. ref \in [Refresher -> Local]
    BY <1>3 DEF Init, RiskInit
  <1>5. /\ riskLock \in Refresher \cup {Nobody}
        /\ cache \in Authority
        /\ running \in BOOLEAN
        /\ starting \in {"no", "allowed", "refused"}
    BY IdleType DEF Init, RiskInit
  <1>6. starts \in 0 .. MaxStarts
    BY RiskAssumption DEF Init, RiskInit
  <1> QED
    BY <1>1, <1>2, <1>4, <1>5, <1>6 DEF TypeOK, RiskTypeOK

\* Setting integer fields of a typed record.
LEMMA StampRow ==
    ASSUME NEW row \in Row, NEW t \in Time, NEW n, n \in Nat
    PROVE  [row EXCEPT !.since = t, !.id = n] \in Row
  BY DEF Row

LEMMA SnapshotLocal ==
    ASSUME NEW l \in Local, NEW w \in StateRow, NEW n, n \in Int
    PROVE  [l EXCEPT !.new = w, !.live = n] \in Local
  BY DEF Local

LEMMA InsertType ==
    ASSUME JournalTypeOK, NEW k \in Key, NEW opened \in BOOLEAN, Insert(k, opened)
    PROVE  rows' \in [Key -> Row]
  <1> DEFINE new == [NoRow EXCEPT !.status = "blocking", !.opened = opened,
                                  !.since = now, !.id = Cardinality(Present) + 1]
  <1>1. NoRow \in Row
    BY DaysAreNat DEF NoRow, Row, RowStatus
  <1> DEFINE half == [NoRow EXCEPT !.status = "blocking", !.opened = opened]
  <1>2. half \in Row
    BY <1>1 DEF Row, RowStatus
  <1> HIDE DEF half
  <1>3. [half EXCEPT !.since = now, !.id = Cardinality(Present) + 1] \in Row
    <2>1. Cardinality(Present) + 1 \in Nat
      BY CountsAreNat
    <2> QED
      BY <1>2, <2>1, StampRow DEF JournalTypeOK
  <1>4. new \in Row
    BY <1>3 DEF half
  <1> HIDE DEF new
  <1>5. rows' = [rows EXCEPT ![k] = new]
    BY DEF Insert, new
  <1> QED
    BY <1>4, <1>5 DEF JournalTypeOK

LEMMA JournalKeepsType == JournalTypeOK /\ JournalNext => JournalTypeOK'
  <1> SUFFICES ASSUME JournalTypeOK, JournalNext PROVE JournalTypeOK'
    OBVIOUS
  <1> USE DEF JournalTypeOK
  <1>1. ASSUME NEW k \in Key, RecoverPosition(k)
        PROVE  JournalTypeOK'
    BY <1>1, InsertType DEF RecoverPosition
  <1>2. ASSUME NEW k \in Key, ConfirmFill(k)
        PROVE  JournalTypeOK'
    BY <1>2 DEF ConfirmFill, Row
  <1>3. ASSUME NEW k \in Key, FailBeforeOrder(k)
        PROVE  JournalTypeOK'
    BY <1>3 DEF FailBeforeOrder, Row, RowStatus
  <1>4. ASSUME NEW k \in Key, StaleReopen(k)
        PROVE  JournalTypeOK'
    BY <1>4 DEF StaleReopen, Row, RowStatus
  <1>5. ASSUME NEW k \in Key, NEW at \in Time, NEW pnl \in Outcomes, CloseRow(k, at, pnl)
        PROVE  JournalTypeOK'
    <2>1. pnl \in {-1, 0, 1}
      BY KeyAssumption
    <2>2. [rows[k] EXCEPT !.status = "closed", !.closedAt = at, !.pnl = pnl] \in Row
      BY <2>1 DEF Row, RowStatus
    <2>3. rows' = [rows EXCEPT ![k] = [rows[k] EXCEPT !.status = "closed",
                                                     !.closedAt = at,
                                                     !.pnl = pnl]]
      BY <1>5 DEF CloseRow
    <2> QED
      BY <1>5, <2>2, <2>3 DEF CloseRow
  <1>6. ASSUME Tick
        PROVE  JournalTypeOK'
    BY <1>6, ClockAssumption DEF Tick, Time
  <1> QED
    BY <1>1, <1>2, <1>3, <1>4, <1>5, <1>6 DEF JournalNext

LEMMA RefresherKeepsType ==
    ASSUME TypeOK, NEW r \in Refresher, RefresherStep(r)
    PROVE  TypeOK'
  <1> USE DEF TypeOK, RiskTypeOK
  <1>j. UNCHANGED journalVars => JournalTypeOK'
    BY DEF JournalTypeOK, journalVars
  <1>r. /\ ref[r] \in Local
        /\ ref[r].pc \in RefPc
        /\ ref[r].at \in Time
        /\ ref[r].observed \in BOOLEAN
        /\ ref[r].drawdown \in BOOLEAN
        /\ ref[r].loaded \in StateRow
        /\ ref[r].new \in StateRow
        /\ ref[r].new.equity \in BOOLEAN
        /\ ref[r].new.breaker \in BOOLEAN
        /\ ref[r].live \in Int
        /\ ref[r].auth \in Authority
    BY DEF Local, StateRow
  <1>i. Idle \in Local
    BY IdleType
  <1>1. ASSUME NEW o \in BOOLEAN, NEW w \in BOOLEAN, RefreshStart(r, o, w)
        PROVE  TypeOK'
    <2>1. [Idle EXCEPT !.pc = "waiting", !.at = now, !.observed = o, !.drawdown = w] \in Local
      BY <1>i DEF Local, RefPc, JournalTypeOK
    <2> QED
      BY <1>1, <1>j, <2>1 DEF RefreshStart, botVars
  <1>2. ASSUME RefreshLoad(r)
        PROVE  TypeOK'
    BY <1>2, <1>j, <1>r DEF RefreshLoad, botVars, Local, RefPc
  <1>3. ASSUME NEW audit \in Audit, RefreshCompute(r, audit)
        PROVE  TypeOK'
    <2>1. Recomputed(ref[r].loaded, DayOf[ref[r].at],
                     ref[r].observed, ref[r].drawdown, audit) \in StateRow
      BY <1>r, DaysAreNat, RecomputedType
    <2>2. LiveSeen(audit) \in Int
      BY CountsAreNat DEF LiveSeen
    <2> QED
      BY <1>3, <1>j, <1>r, <2>1, <2>2, DaysAreNat DEF RefreshCompute, botVars, Local, RefPc
  <1>4. ASSUME RefreshCommit(r)
        PROVE  TypeOK'
    <2>1. state' \in StateRow
      BY <1>4, <1>r, FlushColumns DEF RefreshCommit
    <2>2. [InitialState EXCEPT !.equity  = ref[r].new.equity,
                               !.breaker = ref[r].new.breaker] \in StateRow
      BY <1>r, InitialStateType DEF StateRow
    <2> QED
      BY <1>4, <1>j, <1>r, <2>1, <2>2, InitialStateType DEF RefreshCommit, botVars, Local, RefPc
  <1>5. ASSUME RefreshStopsBot(r)
        PROVE  TypeOK'
    <2>1. [ref[r].new EXCEPT !.breaker = FALSE] \in StateRow
      BY <1>r DEF StateRow
    <2> QED
      BY <1>5, <1>j, <1>r, <2>1 DEF RefreshStopsBot, Local, RefPc
  <1>6. ASSUME ReadAuthority(r)
        PROVE  TypeOK'
    <2>1. [day |-> DayOf[now], ok |-> TRUE, net |-> DayNet(DayOf[now])] \in Authority
      BY DayNetType, DaysAreNat DEF Authority, JournalTypeOK
    <2>2. [day |-> DayOf[now], ok |-> FALSE, net |-> 0] \in Authority
      BY DaysAreNat DEF Authority, JournalTypeOK
    <2>3. PICK verdict \in Authority :
            /\ ref' = [ref EXCEPT ![r].pc = "authority", ![r].auth = verdict]
            /\ cache' = verdict
      BY <1>6, <2>1, <2>2 DEF ReadAuthority
    <2> QED
      BY <1>6, <1>j, <1>r, <2>3 DEF ReadAuthority, botVars, Local, RefPc
  <1>7. ASSUME ApplyLoad(r)
        PROVE  TypeOK'
    <2>1. WithAuthority(state, ref[r].new.equity, ref[r].live, ref[r].auth) \in StateRow
      BY <1>r, WithAuthorityType
    <2> DEFINE w == WithAuthority(state, ref[r].new.equity, ref[r].live, ref[r].auth)
    <2> DEFINE half  == [ref[r] EXCEPT !.pc = "applying", !.loaded = state]
               local == [half EXCEPT !.new = w, !.live = 0]
    <2>2. half \in Local
      BY <1>r DEF Local, RefPc
    <2> HIDE DEF half, w
    <2>w. w \in StateRow
      BY <2>1 DEF w
    <2>3. local \in Local
      <3>1. \A n : n \in Int => [half EXCEPT !.new = w, !.live = n] \in Local
        BY <2>w, <2>2, SnapshotLocal
      <3>2. 0 \in Int
        OBVIOUS
      <3> HIDE DEF local
      <3>3. [half EXCEPT !.new = w, !.live = 0] \in Local
        BY <3>1, <3>2, Zenon
      <3> QED
        BY <3>3 DEF local
    <2>4. ref' = [ref EXCEPT ![r] = local]
      BY <1>7 DEF ApplyLoad, half, w
    <2> HIDE DEF local
    <2>5. ref' \in [Refresher -> Local]
      BY <2>3, <2>4
    <2> QED
      BY <1>7, <1>j, <2>5 DEF ApplyLoad, botVars
  <1>8. ASSUME ApplyCommit(r)
        PROVE  TypeOK'
    <2>1. state' \in StateRow
      BY <1>8, <1>r, FlushColumns DEF ApplyCommit
    <2>2. [Idle EXCEPT !.pc = "applied", !.auth.ok = ref[r].auth.ok] \in Local
      <3>1. ref[r].auth.ok \in BOOLEAN
        BY <1>r DEF Authority
      <3>2. [Idle.auth EXCEPT !.ok = ref[r].auth.ok] \in Authority
        BY <1>i, <3>1 DEF Local, Authority
      <3> QED
        BY <1>i, <3>2 DEF Local, RefPc
    <2> QED
      BY <1>8, <1>j, <2>1, <2>2 DEF ApplyCommit, botVars
  <1>9. ASSUME ApplyStopsBot(r)
        PROVE  TypeOK'
    BY <1>9, <1>j, <1>i DEF ApplyStopsBot
  <1> QED
    BY <1>1, <1>2, <1>3, <1>4, <1>5, <1>6, <1>7, <1>8, <1>9, RiskAssumption DEF RefresherStep

LEMMA RiskNextKeepsType == TypeOK /\ RiskNext => TypeOK'
  <1> SUFFICES ASSUME TypeOK, RiskNext PROVE TypeOK'
    OBVIOUS
  <1>1. ASSUME NEW r \in Refresher, RefresherStep(r)
        PROVE  TypeOK'
    BY <1>1, RefresherKeepsType
  <1>2. ASSUME OperatorStep
        PROVE  TypeOK'
    <2> USE DEF TypeOK, RiskTypeOK
    <2>j. UNCHANGED journalVars => JournalTypeOK'
      BY DEF JournalTypeOK, journalVars
    <2>1. CASE StartCheck
      BY <2>1, <2>j, RiskAssumption DEF StartCheck
    <2>2. CASE StartWrite
      BY <2>2, <2>j DEF StartWrite
    <2>3. CASE StopBot
      BY <2>3, <2>j DEF StopBot
    <2> QED
      BY <1>2, <2>1, <2>2, <2>3 DEF OperatorStep
  <1> QED
    BY <1>1, <1>2 DEF RiskNext

LEMMA JournalStepKeepsType == TypeOK /\ JournalStep => TypeOK'
  BY JournalKeepsType DEF JournalStep, TypeOK, RiskTypeOK, riskVars, botVars

LEMMA StutterKeepsType == TypeOK /\ UNCHANGED vars => TypeOK'
  BY DEF TypeOK, JournalTypeOK, RiskTypeOK, vars, journalVars, riskVars, botVars

\* In every behaviour every variable keeps its type.
THEOREM TypeCorrect == Spec => []TypeOK
  <1>1. Init => TypeOK
    BY InitTypeOK
  <1>2. TypeOK /\ [Next]_vars => TypeOK'
    BY RiskNextKeepsType, JournalStepKeepsType, StutterKeepsType DEF Next
  <1> QED
    BY <1>1, <1>2, PTL DEF Spec

-----------------------------------------------------------------------------
(* The hard stop.                                                          *)

\* Between its load and its commit a refresh holds _risk_lock, so nothing
\* moves the row to another day and nothing clears the breaker it loaded; the
\* row it computes clears that breaker only for another day.  A row the
\* authority writes keeps the day and never clears the breaker.
TransactionInv ==
    \A r \in Refresher :
       /\ ref[r].pc \in {"loaded", "computed"} =>
            /\ riskLock = r
            /\ ref[r].loaded.day = state.day
            /\ ref[r].loaded.breaker => state.breaker
       /\ ref[r].pc = "computed" =>
            (ref[r].loaded.breaker /\ ~ref[r].new.breaker
               => ref[r].new.day # ref[r].loaded.day)
       /\ ref[r].pc = "applying" =>
            /\ ref[r].new.day = ref[r].loaded.day
            /\ ref[r].loaded.breaker => ref[r].new.breaker

HardStopInv == TypeOK /\ TransactionInv

LEMMA RecomputedClears ==
    ASSUME NEW loaded \in StateRow, NEW d \in Day,
           NEW o \in BOOLEAN, NEW w \in BOOLEAN, NEW audit \in Audit,
           loaded.breaker, ~Recomputed(loaded, d, o, w, audit).breaker
    PROVE  Recomputed(loaded, d, o, w, audit).day # loaded.day
  BY DEF Recomputed

LEMMA AuthorityKeeps ==
    ASSUME NEW loaded \in StateRow, NEW e \in BOOLEAN, NEW l \in Int, NEW a \in Authority
    PROVE  /\ WithAuthority(loaded, e, l, a).day = loaded.day
           /\ loaded.breaker => WithAuthority(loaded, e, l, a).breaker
  BY DEF WithAuthority, StateRow

LEMMA LocalFields ==
    ASSUME TypeOK, NEW r \in Refresher
    PROVE  /\ ref[r].at \in Time
           /\ ref[r].observed \in BOOLEAN
           /\ ref[r].drawdown \in BOOLEAN
           /\ ref[r].loaded \in StateRow
           /\ ref[r].new \in StateRow
           /\ ref[r].new.equity \in BOOLEAN
           /\ ref[r].live \in Int
           /\ ref[r].auth \in Authority
  BY DEF TypeOK, RiskTypeOK, Local, StateRow

\* The commit of a refresh clears a breaker only with a change of day.
LEMMA CommitEffect ==
    ASSUME HardStopInv, NEW r \in Refresher, RefreshCommit(r)
    PROVE  /\ state.breaker /\ ~state'.breaker => state'.day # state.day
           /\ ref[r].new.breaker => state'.breaker
  <1>1. /\ state \in StateRow
        /\ ref[r].loaded \in StateRow
        /\ ref[r].new \in StateRow
    BY LocalFields DEF HardStopInv, TypeOK, RiskTypeOK
  <1>2. /\ state'.day = IF ref[r].new.day = ref[r].loaded.day
                          THEN state.day ELSE ref[r].new.day
        /\ state'.breaker = IF ref[r].new.breaker = ref[r].loaded.breaker
                              THEN state.breaker ELSE ref[r].new.breaker
    BY <1>1, FlushColumns DEF RefreshCommit
  <1>3. /\ ref[r].loaded.day = state.day
        /\ ref[r].loaded.breaker => state.breaker
        /\ ref[r].loaded.breaker /\ ~ref[r].new.breaker
             => ref[r].new.day # ref[r].loaded.day
    BY DEF HardStopInv, TransactionInv, RefreshCommit
  <1>4. /\ state.breaker \in BOOLEAN
        /\ ref[r].loaded.breaker \in BOOLEAN
        /\ ref[r].new.breaker \in BOOLEAN
    BY <1>1 DEF StateRow
  <1> QED
    BY <1>2, <1>3, <1>4

\* The commit of an authority keeps the day and never clears the breaker.
LEMMA ApplyEffect ==
    ASSUME HardStopInv, NEW r \in Refresher, ApplyCommit(r)
    PROVE  /\ state'.day = state.day
           /\ state.breaker => state'.breaker
  <1>1. /\ state \in StateRow
        /\ ref[r].loaded \in StateRow
        /\ ref[r].new \in StateRow
    BY LocalFields DEF HardStopInv, TypeOK, RiskTypeOK
  <1>2. /\ state'.day = IF ref[r].new.day = ref[r].loaded.day
                          THEN state.day ELSE ref[r].new.day
        /\ state'.breaker = IF ref[r].new.breaker = ref[r].loaded.breaker
                              THEN state.breaker ELSE ref[r].new.breaker
    BY <1>1, FlushColumns DEF ApplyCommit
  <1>3. /\ ref[r].new.day = ref[r].loaded.day
        /\ ref[r].loaded.breaker => ref[r].new.breaker
    BY DEF HardStopInv, TransactionInv, ApplyCommit
  <1>4. /\ state.breaker \in BOOLEAN
        /\ ref[r].loaded.breaker \in BOOLEAN
        /\ ref[r].new.breaker \in BOOLEAN
    BY <1>1 DEF StateRow
  <1> QED
    BY <1>2, <1>3, <1>4

\* A step of one refresher keeps the transactions of all of them.
LEMMA RefresherKeepsTransaction ==
    ASSUME HardStopInv, NEW r \in Refresher, RefresherStep(r)
    PROVE  TransactionInv'
  <1> USE DEF HardStopInv
  <1>r. ref \in [Refresher -> Local]
    BY DEF TypeOK, RiskTypeOK
  <1>f. ref[r] \in Local /\ state \in StateRow
    BY <1>r DEF TypeOK, RiskTypeOK
  <1>1. ASSUME NEW o \in BOOLEAN, NEW w \in BOOLEAN, RefreshStart(r, o, w)
        PROVE  TransactionInv'
    <2>1. ref'[r].pc = "waiting"
      BY <1>1, <1>r, IdleType DEF RefreshStart, Local
    <2> QED
      BY <1>1, <1>r, <2>1 DEF RefreshStart, TransactionInv
  <1>2. ASSUME RefreshLoad(r)
        PROVE  TransactionInv'
    <2>1. \A q \in Refresher : ref[q].pc \notin {"loaded", "computed"}
      BY <1>2, RiskAssumption DEF RefreshLoad, TransactionInv
    <2>2. ref'[r] = [ref[r] EXCEPT !.pc = "loaded", !.loaded = state]
      BY <1>2, <1>r DEF RefreshLoad
    <2>3. ref'[r].pc = "loaded" /\ ref'[r].loaded = state
      BY <1>f, <2>2 DEF Local
    <2> QED
      BY <1>2, <1>r, <2>1, <2>3 DEF RefreshLoad, TransactionInv
  <1>3. ASSUME NEW audit \in Audit, RefreshCompute(r, audit)
        PROVE  TransactionInv'
    <2> DEFINE new == Recomputed(ref[r].loaded, DayOf[ref[r].at],
                                 ref[r].observed, ref[r].drawdown, audit)
    <2>1. ref[r].loaded.breaker /\ ~new.breaker => new.day # ref[r].loaded.day
      BY LocalFields, DaysAreNat, RecomputedClears
    <2>2. /\ ref'[r].pc = "computed"
          /\ ref'[r].loaded = ref[r].loaded
          /\ ref'[r].new = new
          /\ \A q \in Refresher \ {r} : ref'[q] = ref[q]
      BY <1>3, <1>r, <1>f DEF RefreshCompute, Local
    <2> HIDE DEF new
    <2> QED
      <3>1. UNCHANGED <<state, riskLock>> /\ ref[r].pc = "loaded"
        BY <1>3 DEF RefreshCompute
      <3>2. /\ riskLock = r
            /\ ref[r].loaded.day = state.day
            /\ ref[r].loaded.breaker => state.breaker
        BY <3>1 DEF TransactionInv
      <3>3. ref'[r].loaded.breaker /\ ~ref'[r].new.breaker
              => ref'[r].new.day # ref'[r].loaded.day
        BY <2>1, <2>2, Zenon
      <3> QED
        BY <2>2, <3>1, <3>2, <3>3 DEF TransactionInv
  <1>4. ASSUME RefreshCommit(r)
        PROVE  TransactionInv'
    <2>1. \A q \in Refresher \ {r} : ref[q].pc \notin {"loaded", "computed"}
      BY <1>4 DEF RefreshCommit, TransactionInv
    <2>2. /\ ref'[r].pc = "committed"
          /\ \A q \in Refresher \ {r} : ref'[q] = ref[q]
      BY <1>4, <1>r, <1>f DEF RefreshCommit, Local
    <2> QED
      BY <2>1, <2>2 DEF TransactionInv
  <1>5. ASSUME RefreshStopsBot(r)
        PROVE  TransactionInv'
    <2>1. /\ ref'[r].pc = "snapshot"
          /\ \A q \in Refresher \ {r} : ref'[q] = ref[q]
      BY <1>5, <1>r, <1>f DEF RefreshStopsBot, Local
    <2> QED
      BY <1>5, <2>1, ZenonT(60) DEF RefreshStopsBot, TransactionInv
  <1>6. ASSUME ReadAuthority(r)
        PROVE  TransactionInv'
    <2>1. /\ ref'[r].pc = "authority"
          /\ \A q \in Refresher \ {r} : ref'[q] = ref[q]
      BY <1>6, <1>r, <1>f DEF ReadAuthority, Local
    <2> QED
      BY <1>6, <2>1 DEF ReadAuthority, TransactionInv
  <1>7. ASSUME ApplyLoad(r)
        PROVE  TransactionInv'
    <2> DEFINE new == WithAuthority(state, ref[r].new.equity, ref[r].live, ref[r].auth)
    <2>1. new.day = state.day /\ (state.breaker => new.breaker)
      BY <1>f, LocalFields, AuthorityKeeps
    <2>2. /\ ref'[r].pc = "applying"
          /\ ref'[r].loaded = state
          /\ ref'[r].new = new
          /\ \A q \in Refresher \ {r} : ref'[q] = ref[q]
      BY <1>7, <1>r, <1>f DEF ApplyLoad, Local
    <2> HIDE DEF new
    <2> QED
      <3>1. UNCHANGED <<state, riskLock>>
        BY <1>7 DEF ApplyLoad
      <3>2. /\ ref'[r].new.day = ref'[r].loaded.day
            /\ ref'[r].loaded.breaker => ref'[r].new.breaker
        BY <2>1, <2>2, Zenon
      <3> QED
        BY <2>2, <3>1, <3>2 DEF TransactionInv
  <1>8. ASSUME ApplyCommit(r)
        PROVE  TransactionInv'
    <2>1. state'.day = state.day /\ (state.breaker => state'.breaker)
      BY <1>8, ApplyEffect
    <2>2. /\ ref'[r].pc = "applied"
          /\ \A q \in Refresher \ {r} : ref'[q] = ref[q]
      BY <1>8, <1>r, IdleType DEF ApplyCommit, Local
    <2>3. riskLock' = riskLock
      BY <1>8 DEF ApplyCommit
    <2> QED
      BY <2>1, <2>2, <2>3 DEF TransactionInv
  <1>9. ASSUME ApplyStopsBot(r)
        PROVE  TransactionInv'
    <2>1. /\ ref'[r].pc = "idle"
          /\ \A q \in Refresher \ {r} : ref'[q] = ref[q]
      BY <1>9, <1>r DEF ApplyStopsBot, Idle
    <2> QED
      BY <1>9, <2>1 DEF ApplyStopsBot, TransactionInv
  <1> QED
    BY <1>1, <1>2, <1>3, <1>4, <1>5, <1>6, <1>7, <1>8, <1>9, RiskAssumption DEF RefresherStep

LEMMA OtherKeepsTransaction ==
    ASSUME TransactionInv, UNCHANGED <<state, riskLock, ref>>
    PROVE  TransactionInv'
  BY DEF TransactionInv

\* TransactionInv together with the types is inductive.
LEMMA HardStopInductive ==
    /\ Init => HardStopInv
    /\ HardStopInv /\ [Next]_vars => HardStopInv'
  <1>1. Init => HardStopInv
    <2>1. ASSUME Init
          PROVE  \A r \in Refresher : ref[r].pc = "idle"
      BY <2>1 DEF Init, RiskInit, Idle
    <2> QED
      BY <2>1, InitTypeOK DEF HardStopInv, TransactionInv
  <1>2. ASSUME HardStopInv, [Next]_vars
        PROVE  HardStopInv'
    <2>1. TypeOK'
      BY <1>2, RiskNextKeepsType, JournalStepKeepsType, StutterKeepsType
         DEF Next, HardStopInv
    <2>2. ASSUME NEW r \in Refresher, RefresherStep(r)
          PROVE  TransactionInv'
      BY <1>2, <2>2, RefresherKeepsTransaction
    <2>3. ASSUME OperatorStep \/ JournalStep \/ UNCHANGED vars
          PROVE  TransactionInv'
      BY <1>2, <2>3, OtherKeepsTransaction
         DEF HardStopInv, OperatorStep, StartCheck, StartWrite, StopBot,
             JournalStep, riskVars, vars
    <2> QED
      BY <1>2, <2>1, <2>2, <2>3 DEF HardStopInv, Next, RiskNext
  <1> QED
    BY <1>1, <1>2

\* Of all the steps only the commits of a refresh and of an authority touch
\* the row.
LEMMA BreakerStep ==
    ASSUME HardStopInv, Next
    PROVE  state.breaker /\ ~state'.breaker => state'.day # state.day
  <1>1. ASSUME NEW r \in Refresher, RefresherStep(r)
        PROVE  state.breaker /\ ~state'.breaker => state'.day # state.day
    <2>1. CASE RefreshCommit(r)
      BY <2>1, CommitEffect
    <2>2. CASE ApplyCommit(r)
      BY <2>2, ApplyEffect
    <2>3. CASE ~RefreshCommit(r) /\ ~ApplyCommit(r)
      <3>1. UNCHANGED state
        BY <1>1, <2>3 DEF RefresherStep, RefreshStart, RefreshLoad, RefreshCompute,
                          RefreshStopsBot, ReadAuthority, ApplyLoad, ApplyStopsBot
      <3> QED
        BY <3>1
    <2> QED
      BY <2>1, <2>2, <2>3
  <1>2. ASSUME OperatorStep \/ JournalStep
        PROVE  UNCHANGED state
    BY <1>2 DEF OperatorStep, StartCheck, StartWrite, StopBot, JournalStep, riskVars
  <1> QED
    BY <1>1, <1>2 DEF Next, RiskNext

\* The breaker is sticky within a day, for any number of concurrent
\* refreshes, any journal and any clock.
THEOREM BreakerIsSticky == Spec => BreakerSticky
  <1>1. HardStopInv /\ [Next]_vars =>
          [state.breaker /\ ~state'.breaker => state'.day # state.day]_vars
    BY BreakerStep
  <1> QED
    BY <1>1, HardStopInductive, PTL DEF Spec, BreakerSticky

\* A refresh whose row has the breaker on leaves it on.
THEOREM LimitSeenIsEnforced == Spec => LimitSeenMeansBreakerOn
  <1> DEFINE Kept == \A r \in Refresher :
                        ref[r].pc = "computed" /\ ref'[r].pc = "committed"
                          /\ ref[r].new.breaker => state'.breaker
  <1>1. ASSUME HardStopInv, [Next]_vars
        PROVE  [Kept]_vars
    <2>r. ref \in [Refresher -> Local]
      BY <1>1 DEF HardStopInv, TypeOK, RiskTypeOK
    <2>1. ASSUME NEW q \in Refresher, RefresherStep(q)
          PROVE  Kept
      <3>1. CASE RefreshCommit(q)
        <4>1. \A r \in Refresher \ {q} : ref'[r] = ref[r]
          BY <2>r, <3>1 DEF RefreshCommit
        <4>2. ref[q].new.breaker => state'.breaker
          BY <1>1, <3>1, CommitEffect
        <4> QED
          BY <4>1, <4>2
      <3>2. CASE ~RefreshCommit(q)
        <4>1. ASSUME NEW r \in Refresher,
                     ref[r].pc = "computed", ref'[r].pc = "committed"
              PROVE  FALSE
          BY <2>1, <2>r, <3>2, <4>1, IdleType
             DEF RefresherStep, RefreshStart, RefreshLoad, RefreshCompute,
                 RefreshStopsBot, ReadAuthority, ApplyLoad, ApplyCommit,
                 ApplyStopsBot, Idle, Local
        <4> QED
          BY <4>1
      <3> QED
        BY <3>1, <3>2
    <2>2. ASSUME OperatorStep \/ JournalStep
          PROVE  Kept
      BY <2>2 DEF OperatorStep, StartCheck, StartWrite, StopBot, JournalStep, riskVars
    <2> QED
      BY <1>1, <2>1, <2>2 DEF Next, RiskNext
  <1> QED
    BY <1>1, HardStopInductive, PTL DEF Spec, LimitSeenMeansBreakerOn
=============================================================================

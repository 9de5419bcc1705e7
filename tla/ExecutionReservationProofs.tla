---------------------- MODULE ExecutionReservationProofs ----------------------
(***************************************************************************)
(* Proofs about ExecutionReservation.  On a database that honours row      *)
(* locks, concurrent reservations keep the capacity limits, admit nothing  *)
(* under the hard stop, and each acts as one atomic step of Admission.     *)
(***************************************************************************)
EXTENDS ExecutionReservation, RiskStateProofs

-----------------------------------------------------------------------------
(* What the risk engine and the rest of the system leave alone.            *)

LEMMA RiskLeavesJournal == RiskNext => UNCHANGED <<journalVars, rowLock>>
  BY ZenonT(60) DEF RiskNext, RefresherStep, RefreshStart, RefreshLoad, RefreshCompute,
         RefreshCommit, RefreshStopsBot, ReadAuthority, ApplyLoad, ApplyCommit,
         ApplyStopsBot, OperatorStep, StartCheck, StartWrite, StopBot

\* While a reservation holds the row lock no refresh changes the row.
LEMMA RowLockFreezesState ==
    ASSUME TypeOK, RiskNext, rowLock # Nobody
    PROVE  UNCHANGED state
  <1>1. ASSUME NEW r \in Refresher, RefresherStep(r)
        PROVE  UNCHANGED state
    <2>1. state \in StateRow /\ ref[r].loaded \in StateRow
      BY LocalFields DEF TypeOK, RiskTypeOK
    <2>2. CASE RefreshCommit(r)
      BY <2>1, <2>2, FlushNothing DEF RefreshCommit
    <2>3. CASE ApplyCommit(r)
      BY <2>1, <2>3, FlushNothing DEF ApplyCommit
    <2>4. CASE ~RefreshCommit(r) /\ ~ApplyCommit(r)
      BY <1>1, <2>4 DEF RefresherStep, RefreshStart, RefreshLoad, RefreshCompute,
                        RefreshStopsBot, ReadAuthority, ApplyLoad, ApplyStopsBot
    <2> QED
      BY <2>2, <2>3, <2>4
  <1>2. ASSUME OperatorStep
        PROVE  UNCHANGED state
    BY <1>2 DEF OperatorStep, StartCheck, StartWrite, StopBot
  <1> QED
    BY <1>1, <1>2 DEF RiskNext

-----------------------------------------------------------------------------
(* Type correctness.                                                       *)

LEMMA RestingType ==
    Resting \in [pc : CallPc, key : Signal \cup {Nobody}, at : Time, seen : StateRow]
  BY InitialStateType, DaysAreNat DEF Resting, CallPc

LEMMA CallerKeepsType ==
    ASSUME ReservationTypeOK, NEW c \in Caller, CallerStep(c)
    PROVE  ReservationTypeOK'
  <1> DEFINE CallRecord == [pc : CallPc, key : Signal \cup {Nobody},
                            at : Time, seen : StateRow]
  <1> USE DEF ReservationTypeOK
  <1>c. /\ call \in [Caller -> CallRecord]
        /\ call[c] \in CallRecord
        /\ Resting \in CallRecord
        /\ state \in StateRow
        /\ now \in Time
    BY RestingType DEF TypeOK, RiskTypeOK, JournalTypeOK
  <1>t. UNCHANGED vars => TypeOK'
    BY StutterKeepsType
  <1>u. UNCHANGED <<journalVars, state, riskLock, ref, cache, botVars>> => TypeOK'
    BY DEF TypeOK, RiskTypeOK, JournalTypeOK, journalVars, botVars
  <1>q. ASSUME call' \in [Caller -> CallRecord],
               \A x \in Caller : call'[x] = call[x] \/ call'[x] = Resting
                                   \/ call'[x].key \in Signal
        PROVE  \A x \in Caller : call'[x].pc # "idle" => call'[x].key \in Signal
    BY <1>q DEF Resting
  <1>1. ASSUME NEW k \in Signal, Validate(c, k)
        PROVE  ReservationTypeOK'
    <2>1. [call[c] EXCEPT !.pc = "validated", !.key = k] \in CallRecord
      BY <1>c DEF CallPc
    <2>2. call' = [call EXCEPT ![c] = [call[c] EXCEPT !.pc = "validated", !.key = k]]
      BY <1>1 DEF Validate
    <2>3. call' \in [Caller -> CallRecord]
      BY <1>c, <2>1, <2>2
    <2>4. call'[c].key \in Signal /\ \A x \in Caller \ {c} : call'[x] = call[x]
      BY <1>c, <2>2
    <2> QED
      BY <1>1, <1>t, <1>q, <2>3, <2>4 DEF Validate, vars, riskVars
  <1>2. ASSUME CheckDuplicate(c)
        PROVE  ReservationTypeOK'
    <2>1. [call[c] EXCEPT !.pc = "unique", !.at = now] \in CallRecord
      BY <1>c DEF CallPc
    <2>2. \/ call' = [call EXCEPT ![c] = Resting]
          \/ call' = [call EXCEPT ![c] = [call[c] EXCEPT !.pc = "unique", !.at = now]]
      BY <1>2 DEF CheckDuplicate
    <2>3. call' \in [Caller -> CallRecord]
      BY <1>c, <2>1, <2>2
    <2>4. call[c].key \in Signal
      BY <1>2 DEF CheckDuplicate
    <2>5. \/ call'[c] = Resting
          \/ call'[c].key = call[c].key
      BY <1>c, <2>2
    <2>6. \A x \in Caller \ {c} : call'[x] = call[x]
      BY <1>c, <2>2
    <2> QED
      BY <1>2, <1>t, <1>q, <2>3, <2>4, <2>5, <2>6 DEF CheckDuplicate, vars, riskVars
  <1>3. ASSUME LockState(c)
        PROVE  ReservationTypeOK'
    <2>1. [call[c] EXCEPT !.pc = "locked", !.seen = state] \in CallRecord
      BY <1>c DEF CallPc
    <2>2. \/ call' = [call EXCEPT ![c] = Resting]
          \/ call' = [call EXCEPT ![c] = [call[c] EXCEPT !.pc = "locked", !.seen = state]]
      BY <1>3 DEF LockState, Return
    <2>3. call' \in [Caller -> CallRecord]
      BY <1>c, <2>1, <2>2
    <2>4. call[c].key \in Signal
      BY <1>3 DEF LockState
    <2>5. \/ call'[c] = Resting
          \/ call'[c].key = call[c].key
      BY <1>c, <2>2
    <2>6. \A x \in Caller \ {c} : call'[x] = call[x]
      BY <1>c, <2>2
    <2>7. rowLock' \in Caller \cup {Nobody}
      BY <1>3 DEF LockState, Return
    <2> QED
      BY <1>3, <1>u, <1>q, <2>3, <2>4, <2>5, <2>6, <2>7 DEF LockState
  <1>4. ASSUME ReadCooldown(c) \/ ReadOpenRows(c)
        PROVE  ReservationTypeOK'
    <2>1. \A p \in CallPc : [call[c] EXCEPT !.pc = p] \in CallRecord
      BY <1>c
    <2>2. \/ call' = [call EXCEPT ![c] = Resting]
          \/ \E p \in CallPc : call' = [call EXCEPT ![c] = [call[c] EXCEPT !.pc = p]]
      BY <1>4 DEF ReadCooldown, ReadOpenRows, Return, CallPc
    <2>3. call' \in [Caller -> CallRecord]
      BY <1>c, <2>1, <2>2
    <2>4. call[c].key \in Signal
      BY <1>4 DEF ReadCooldown, ReadOpenRows
    <2>5. \/ call'[c] = Resting
          \/ call'[c].key = call[c].key
      BY <1>c, <2>2
    <2>6. \A x \in Caller \ {c} : call'[x] = call[x]
      BY <1>c, <2>2
    <2>7. rowLock' \in Caller \cup {Nobody} /\ held' \subseteq Signal
      BY <1>4 DEF ReadCooldown, ReadOpenRows, Return
    <2>8. TypeOK'
      BY <1>4, <1>u DEF ReadCooldown, ReadOpenRows
    <2> QED
      BY <1>q, <2>3, <2>4, <2>5, <2>6, <2>7, <2>8
  <1>5. ASSUME Commit(c)
        PROVE  ReservationTypeOK'
    <2> DEFINE k     == call[c].key
               seen  == call[c].seen
               taken == [seen EXCEPT !.available = Positive(@ - 1)]
    <2>1. k \in Signal /\ k \in Key /\ seen \in StateRow
      BY <1>5, <1>c DEF Commit, Key
    <2>2. taken \in StateRow
      <3>1. seen.available \in Int
        BY <2>1 DEF StateRow
      <3>2. Positive(seen.available - 1) \in Int
        BY <3>1 DEF Positive
      <3> QED
        BY <2>1, <3>2 DEF StateRow
    <2>3. state' \in StateRow
      <3>1. state' = Flush(state, seen, taken) \/ state' = state
        BY <1>5 DEF Commit
      <3> HIDE DEF taken, seen
      <3> QED
        BY <1>c, <2>1, <2>2, <3>1, FlushColumns
    <2>4. rows' \in [Key -> Row]
      BY <1>5, <2>1, InsertType DEF Commit, TypeOK, JournalTypeOK
    <2>5. TypeOK'
      BY <1>5, <2>3, <2>4 DEF Commit, TypeOK, RiskTypeOK, JournalTypeOK, botVars
    <2>6. call' = [call EXCEPT ![c] = Resting] /\ rowLock' \in Caller \cup {Nobody}
      BY <1>5 DEF Commit, Return
    <2>7. call' \in [Caller -> CallRecord]
      BY <1>c, <2>6
    <2>8. call'[c] = Resting /\ \A x \in Caller \ {c} : call'[x] = call[x]
      BY <1>c, <2>6
    <2>9. held' \subseteq Signal
      BY <1>5, <2>1 DEF Commit
    <2> QED
      BY <1>q, <2>5, <2>6, <2>7, <2>8, <2>9
  <1> QED
    BY <1>1, <1>2, <1>3, <1>4, <1>5 DEF CallerStep

LEMMA ReservationTypeStep ==
    /\ ReservationInit => ReservationTypeOK
    /\ ReservationTypeOK /\ [ReservationNext]_allVars => ReservationTypeOK'
  <1>1. ReservationInit => ReservationTypeOK
    <2>1. Init => rowLock = Nobody
      BY DEF Init, RiskInit
    <2>2. ReservationInit => \A c \in Caller : call[c].pc = "idle"
      BY DEF ReservationInit, Resting
    <2> QED
      BY <2>1, <2>2, InitTypeOK, RestingType DEF ReservationInit, ReservationTypeOK
  <1>2. ASSUME ReservationTypeOK, [ReservationNext]_allVars
        PROVE  ReservationTypeOK'
    <2> USE DEF ReservationTypeOK
    <2>1. ASSUME NEW c \in Caller, CallerStep(c)
          PROVE  ReservationTypeOK'
      BY <1>2, <2>1, CallerKeepsType
    <2>2. ASSUME RiskStep
          PROVE  ReservationTypeOK'
      BY <1>2, <2>2, RiskNextKeepsType, RiskLeavesJournal DEF RiskStep, reservationVars
    <2>3. ASSUME RowStep
          PROVE  ReservationTypeOK'
      BY <1>2, <2>3, JournalStepKeepsType DEF RowStep, JournalStep, riskVars
    <2>4. ASSUME UNCHANGED allVars
          PROVE  ReservationTypeOK'
      BY <1>2, <2>4, StutterKeepsType DEF allVars, reservationVars, vars, riskVars
    <2> QED
      BY <1>2, <2>1, <2>2, <2>3, <2>4 DEF ReservationNext
  <1> QED
    BY <1>1, <1>2

\* In every behaviour every variable keeps its type, on either database.
THEOREM ReservationTypeCorrect == ReservationSpec => []ReservationTypeOK
  BY ReservationTypeStep, PTL DEF ReservationSpec

-----------------------------------------------------------------------------
(* Safety of the admissions, on a database that honours row locks.         *)

Locking(c) == call[c].pc \in {"locked", "cooled", "admitting"}

\* Only the holder of the row lock is past the breaker check, so what it read
\* of the breaker and of the open rows still bounds the admissions when it
\* commits: other callers cannot admit, refreshes cannot write the row, and
\* everything else only ends admissions.
AdmissionInv ==
    /\ \A k \in held : rows[k].status = "blocking"
    /\ CapacityHeld
    /\ \A c \in Caller : Locking(c) => rowLock = c /\ ~state.breaker
    /\ \A c \in Caller : call[c].pc = "admitting" =>
          /\ \A j \in held : SymbolOf[j] # SymbolOf[call[c].key]
          /\ Cardinality(held) < ActiveLimit

ReservationInv == ReservationTypeOK /\ AdmissionInv

LEMMA HeldFinite ==
    ASSUME ReservationTypeOK
    PROVE  /\ IsFiniteSet(held)
           /\ Cardinality(held) \in Nat
           /\ \A S \in SUBSET held : Cardinality(S) \in Nat /\ Cardinality(S) <= Cardinality(held)
  <1>1. held \in SUBSET Key
    BY DEF ReservationTypeOK, Key
  <1>2. IsFiniteSet(held) /\ Cardinality(held) \in Nat
    BY <1>1, KeySetsFinite
  <1>3. ASSUME NEW S \in SUBSET held
        PROVE  Cardinality(S) \in Nat /\ Cardinality(S) <= Cardinality(held)
    BY <1>2, FS_Subset, FS_CardinalityType
  <1> QED
    BY <1>2, <1>3

\* What ReadOpenRows sees of the journal covers every admission.
LEMMA OpenRowsCoverHeld ==
    ASSUME ReservationInv, NEW k \in Signal, ~SymbolActive(k), ~SlotsFull
    PROVE  /\ \A j \in held : SymbolOf[j] # SymbolOf[k]
           /\ Cardinality(held) < ActiveLimit
  <1>1. held \in SUBSET Blocking
    BY DEF ReservationInv, ReservationTypeOK, AdmissionInv, Blocking, Key
  <1>2. IsFiniteSet(Blocking) /\ Cardinality(Blocking) \in Nat
    BY KeySetsFinite DEF Blocking
  <1>3. Cardinality(held) <= Cardinality(Blocking)
    BY <1>1, <1>2, FS_Subset
  <1>4. Cardinality(held) \in Nat
    BY HeldFinite DEF ReservationInv
  <1> QED
    BY <1>1, <1>2, <1>3, <1>4, ReservationAssumption DEF SymbolActive, SlotsFull

\* Fewer admissions keep the limits.
LEMMA FewerHeld ==
    ASSUME ReservationTypeOK, CapacityHeld, held' \subseteq held
    PROVE  CapacityHeld'
  <1>1. Cardinality(held') \in Nat /\ Cardinality(held') <= Cardinality(held)
    BY HeldFinite
  <1>2. Cardinality(held) \in Nat
    BY HeldFinite
  <1> QED
    BY <1>1, <1>2, ReservationAssumption DEF CapacityHeld

\* One more admission that the limits allow keeps them.
LEMMA OneMoreHeld ==
    ASSUME ReservationTypeOK, CapacityHeld, NEW k \in Signal,
           \A j \in held : SymbolOf[j] # SymbolOf[k],
           Cardinality(held) < ActiveLimit,
           held' = held \cup {k}
    PROVE  CapacityHeld'
  <1>1. IsFiniteSet(held) /\ Cardinality(held) \in Nat
    BY HeldFinite
  <1>2. k \notin held
    OBVIOUS
  <1>3. Cardinality(held \cup {k}) = Cardinality(held) + 1
    BY <1>1, <1>2, FS_AddElement
  <1> QED
    BY <1>1, <1>2, <1>3, ReservationAssumption DEF CapacityHeld

LEMMA CallerKeepsAdmissions ==
    ASSUME RowLocks, ReservationInv, NEW c \in Caller, CallerStep(c)
    PROVE  AdmissionInv'
  <1> USE DEF ReservationInv
  <1>c. /\ call \in [Caller -> [pc : CallPc, key : Signal \cup {Nobody},
                               at : Time, seen : StateRow]]
        /\ c # Nobody
        /\ \A x \in Caller : x # Nobody
        /\ rows \in [Key -> Row]
        /\ state \in StateRow
    BY ReservationAssumption DEF ReservationTypeOK, TypeOK, RiskTypeOK, JournalTypeOK
  <1>1. ASSUME NEW k \in Signal, Validate(c, k)
        PROVE  AdmissionInv'
    <2>1. call'[c].pc = "validated" /\ \A x \in Caller \ {c} : call'[x] = call[x]
      BY <1>1, <1>c DEF Validate
    <2>2. UNCHANGED <<rows, state, rowLock, held>>
      BY <1>1 DEF Validate, vars, journalVars, riskVars
    <2> QED
      BY <2>1, <2>2 DEF AdmissionInv, CapacityHeld, Locking
  <1>2. ASSUME CheckDuplicate(c)
        PROVE  AdmissionInv'
    <2>1. call'[c].pc \in {"idle", "unique"} /\ \A x \in Caller \ {c} : call'[x] = call[x]
      BY <1>2, <1>c DEF CheckDuplicate, Resting
    <2>2. UNCHANGED <<rows, state, rowLock, held>>
      BY <1>2 DEF CheckDuplicate, vars, journalVars, riskVars
    <2> QED
      BY <2>1, <2>2 DEF AdmissionInv, CapacityHeld, Locking
  <1>3. ASSUME LockState(c)
        PROVE  AdmissionInv'
    <2>1. \A x \in Caller : ~Locking(x)
      BY <1>3, <1>c DEF LockState, AdmissionInv
    <2>2. \A x \in Caller \ {c} : call'[x] = call[x]
      BY <1>3, <1>c DEF LockState, Return
    <2>3. \/ call'[c].pc = "idle"
          \/ call'[c].pc = "locked" /\ ~state.breaker /\ rowLock' = c
      BY <1>3, <1>c DEF LockState, Return, Resting
    <2>4. UNCHANGED <<rows, state, held>>
      BY <1>3 DEF LockState, journalVars
    <2> QED
      BY <2>1, <2>2, <2>3, <2>4 DEF AdmissionInv, CapacityHeld, Locking
  <1>4. ASSUME ReadCooldown(c)
        PROVE  AdmissionInv'
    <2>1. \A x \in Caller \ {c} : ~Locking(x)
      BY <1>4 DEF ReadCooldown, AdmissionInv, Locking
    <2>2. \A x \in Caller \ {c} : call'[x] = call[x]
      BY <1>4, <1>c DEF ReadCooldown, Return
    <2>3. \/ call'[c].pc = "idle"
          \/ call'[c].pc = "cooled" /\ rowLock' = rowLock
      BY <1>4, <1>c DEF ReadCooldown, Return, Resting
    <2>4. UNCHANGED <<rows, state, held>>
      BY <1>4 DEF ReadCooldown, journalVars
    <2>5. rowLock = c /\ ~state.breaker
      BY <1>4 DEF ReadCooldown, AdmissionInv, Locking
    <2> QED
      BY <2>1, <2>2, <2>3, <2>4, <2>5 DEF AdmissionInv, CapacityHeld, Locking
  <1>5. ASSUME ReadOpenRows(c)
        PROVE  AdmissionInv'
    <2>1. \A x \in Caller \ {c} : ~Locking(x)
      BY <1>5 DEF ReadOpenRows, AdmissionInv, Locking
    <2>2. \A x \in Caller \ {c} : call'[x] = call[x]
      BY <1>5, <1>c DEF ReadOpenRows, Return
    <2>3. \/ call'[c].pc = "idle"
          \/ /\ call'[c].pc = "admitting"
             /\ call'[c].key = call[c].key
             /\ rowLock' = rowLock
             /\ ~SymbolActive(call[c].key) /\ ~SlotsFull
      BY <1>5, <1>c DEF ReadOpenRows, Return, Resting
    <2>4. UNCHANGED <<rows, state, held>>
      BY <1>5 DEF ReadOpenRows, journalVars
    <2>5. rowLock = c /\ ~state.breaker /\ call[c].key \in Signal
      BY <1>5 DEF ReadOpenRows, AdmissionInv, Locking, ReservationTypeOK
    <2>6. call'[c].pc = "admitting" =>
             /\ \A j \in held : SymbolOf[j] # SymbolOf[call[c].key]
             /\ Cardinality(held) < ActiveLimit
      BY <2>3, <2>5, OpenRowsCoverHeld
    <2> QED
      BY <2>1, <2>2, <2>3, <2>4, <2>5, <2>6 DEF AdmissionInv, CapacityHeld, Locking
  <1>6. ASSUME Commit(c)
        PROVE  AdmissionInv'
    <2>1. \A x \in Caller \ {c} : ~Locking(x)
      BY <1>6 DEF Commit, AdmissionInv, Locking
    <2>2. call'[c].pc = "idle" /\ \A x \in Caller \ {c} : call'[x] = call[x]
      BY <1>6, <1>c DEF Commit, Return, Resting
    <2>3. \A x \in Caller : ~Locking(x)'
      BY <2>1, <2>2 DEF Locking
    <2>4. /\ call[c].key \in Signal
          /\ call[c].key \in Key
          /\ \A j \in held : SymbolOf[j] # SymbolOf[call[c].key]
          /\ Cardinality(held) < ActiveLimit
      BY <1>6 DEF Commit, AdmissionInv, ReservationTypeOK, Key
    <2>5. CASE rows[call[c].key].status = "absent"
      <3>1. held' = held \cup {call[c].key} /\ Insert(call[c].key, FALSE)
        BY <1>6, <2>5 DEF Commit
      <3>2. rows'[call[c].key].status = "blocking"
             /\ \A j \in Key \ {call[c].key} : rows'[j] = rows[j]
        BY <1>c, <2>4, <3>1 DEF Insert, NoRow
      <3>3. \A j \in held' : rows'[j].status = "blocking"
        BY <3>1, <3>2 DEF AdmissionInv, ReservationTypeOK, Key
      <3>4. CapacityHeld'
        BY <2>4, <3>1, OneMoreHeld DEF AdmissionInv
      <3> QED
        BY <2>3, <3>3, <3>4 DEF AdmissionInv, Locking
    <2>6. CASE rows[call[c].key].status # "absent"
      <3>1. UNCHANGED <<rows, state, held>>
        BY <1>6, <2>6 DEF Commit
      <3> QED
        BY <2>3, <3>1 DEF AdmissionInv, CapacityHeld, Locking
    <2> QED
      BY <2>5, <2>6
  <1> QED
    BY <1>1, <1>2, <1>3, <1>4, <1>5, <1>6 DEF CallerStep

LEMMA RiskKeepsAdmissions ==
    ASSUME ReservationInv, RiskStep
    PROVE  AdmissionInv'
  <1>1. UNCHANGED <<rows, rowLock, call, held>>
    BY RiskLeavesJournal DEF RiskStep, reservationVars, journalVars
  <1>2. rowLock # Nobody => UNCHANGED state
    BY RowLockFreezesState DEF RiskStep, ReservationInv, ReservationTypeOK
  <1>3. \A c \in Caller : Locking(c)' <=> Locking(c)
    BY <1>1 DEF Locking
  <1>4. \A c \in Caller : Locking(c) => rowLock = c /\ ~state.breaker /\ UNCHANGED state
    BY <1>2, ReservationAssumption DEF ReservationInv, AdmissionInv
  <1> QED
    BY <1>1, <1>3, <1>4 DEF ReservationInv, AdmissionInv, CapacityHeld

LEMMA RowKeepsAdmissions ==
    ASSUME ReservationInv, RowStep
    PROVE  AdmissionInv'
  <1>1. held' \subseteq held /\ \A k \in held' : rows'[k].status = "blocking"
    BY DEF RowStep
  <1>2. UNCHANGED <<state, rowLock, call>>
    BY DEF RowStep, JournalStep, riskVars
  <1>3. CapacityHeld'
    BY <1>1, FewerHeld DEF ReservationInv, AdmissionInv
  <1>4. Cardinality(held) < ActiveLimit => Cardinality(held') < ActiveLimit
    <2>1. /\ Cardinality(held') \in Nat
          /\ Cardinality(held) \in Nat
          /\ Cardinality(held') <= Cardinality(held)
      BY <1>1, HeldFinite DEF ReservationInv
    <2> QED
      BY <2>1, ReservationAssumption
  <1> QED
    BY <1>1, <1>2, <1>3, <1>4 DEF ReservationInv, AdmissionInv, Locking

LEMMA ReservationInductive ==
    ASSUME RowLocks
    PROVE  /\ ReservationInit => ReservationInv
           /\ ReservationInv /\ [ReservationNext]_allVars => ReservationInv'
  <1>1. ASSUME ReservationInit
        PROVE  AdmissionInv
    <2>1. held = {} /\ \A c \in Caller : call[c].pc = "idle"
      BY <1>1 DEF ReservationInit, Resting
    <2>2. CapacityHeld
      BY <2>1, FS_EmptySet, ReservationAssumption DEF CapacityHeld
    <2> QED
      BY <2>1, <2>2 DEF AdmissionInv, Locking
  <1>2. ASSUME ReservationInv, [ReservationNext]_allVars
        PROVE  AdmissionInv'
    <2>1. ASSUME NEW c \in Caller, CallerStep(c)
          PROVE  AdmissionInv'
      BY <1>2, <2>1, CallerKeepsAdmissions
    <2>2. ASSUME UNCHANGED allVars
          PROVE  AdmissionInv'
      BY <1>2, <2>2
         DEF ReservationInv, AdmissionInv, CapacityHeld, Locking,
             allVars, reservationVars, vars, journalVars, riskVars
    <2> QED
      BY <1>2, <2>1, <2>2, RiskKeepsAdmissions, RowKeepsAdmissions DEF ReservationNext
  <1> QED
    BY <1>1, <1>2, ReservationTypeStep DEF ReservationInv

\* Capacity: at most ActiveLimit admitted trades, one per symbol, for any
\* number of concurrent calls.
THEOREM CapacityIsHeld ==
    ASSUME RowLocks
    PROVE  ReservationSpec => []CapacityHeld
  <1>1. ReservationInv => CapacityHeld
    BY DEF ReservationInv, AdmissionInv
  <1> QED
    BY <1>1, ReservationInductive, PTL DEF ReservationSpec

\* The instance of Admission counts as this module does.
LEMMA SameCardinality == \A S : A!Cardinality(S) = Cardinality(S)
  BY DEF A!Cardinality, Cardinality

\* A commit that inserts the row is an admission, and not under the hard stop.
LEMMA CommitAdmits ==
    ASSUME RowLocks, ReservationInv, NEW c \in Caller, Commit(c),
           rows[call[c].key].status = "absent"
    PROVE  /\ ~state.breaker /\ ~state'.breaker
           /\ A!Admit(call[c].key)
  <1> DEFINE k     == call[c].key
             seen  == call[c].seen
             taken == [seen EXCEPT !.available = Positive(@ - 1)]
  <1>1. /\ k \in Signal /\ k \in Key
        /\ seen \in StateRow
        /\ state \in StateRow
        /\ rows \in [Key -> Row]
    BY DEF Commit, ReservationInv, ReservationTypeOK, TypeOK, RiskTypeOK, JournalTypeOK, Key
  <1>2. /\ ~state.breaker
        /\ \A j \in held : SymbolOf[j] # SymbolOf[k]
        /\ Cardinality(held) < ActiveLimit
    BY DEF Commit, ReservationInv, AdmissionInv, Locking
  <1>3. taken \in StateRow /\ taken.breaker = seen.breaker
    <2>1. seen.available \in Int
      BY <1>1 DEF StateRow
    <2>2. Positive(seen.available - 1) \in Int
      BY <2>1 DEF Positive
    <2> QED
      BY <1>1, <2>2 DEF StateRow
  <1>4. state' = Flush(state, seen, taken)
    BY DEF Commit
  <1>5. state'.breaker = state.breaker
    <2> HIDE DEF taken, seen
    <2> QED
      BY <1>1, <1>3, <1>4, FlushColumns
  <1>6. held' = held \cup {k} /\ Insert(k, FALSE)
    BY DEF Commit
  <1>7. rows' = [rows EXCEPT ![k] = rows'[k]] /\ rows'[k].status = "blocking"
    BY <1>1, <1>6 DEF Insert, NoRow
  <1>8. (Present \cap Signal)' = (Present \cap Signal) \cup {k}
    BY <1>1, <1>7 DEF Present
  <1>9. k \notin Present \cap Signal
    BY DEF Present
  <1>10. ~state'.breaker
    BY <1>2, <1>5
  <1> HIDE DEF k
  <1>11. A!Admit(k)
    <2>1. ~state.breaker /\ UNCHANGED state.breaker
      BY <1>2, <1>5, Zenon
    <2>2. k \notin Present \cap Signal /\ (Present \cap Signal)' = (Present \cap Signal) \cup {k}
      BY <1>8, <1>9, Zenon
    <2>3. /\ \A j \in held : SymbolOf[j] # SymbolOf[k]
          /\ Cardinality(held) < ActiveLimit
          /\ held' = held \cup {k}
      BY <1>2, <1>6
    <2> QED
      BY <2>1, <2>2, <2>3, SameCardinality, Zenon DEF A!Admit
  <1> QED
    BY <1>2, <1>10, <1>11, Zenon DEF k

LEMMA CallerAdmitsOrStutters ==
    ASSUME RowLocks, ReservationInv, NEW c \in Caller, CallerStep(c)
    PROVE  \/ (\E k \in Signal : A!Admit(k)) /\ ~state.breaker /\ ~state'.breaker
           \/ UNCHANGED <<held, Present \cap Signal, state>>
  <1>1. CASE Commit(c) /\ rows[call[c].key].status = "absent"
    BY <1>1, CommitAdmits DEF Commit, ReservationInv, ReservationTypeOK
  <1>2. CASE ~(Commit(c) /\ rows[call[c].key].status = "absent")
    BY <1>2 DEF CallerStep, Validate, CheckDuplicate, LockState, ReadCooldown,
                ReadOpenRows, Commit, Present, vars, journalVars, riskVars
  <1> QED
    BY <1>1, <1>2

LEMMA RowReleasesOrStutters ==
    ASSUME ReservationInv, RowStep
    PROVE  \/ \E k \in Signal : A!Release(k)
           \/ UNCHANGED <<held, Present \cap Signal, state>>
  <1>1. /\ rows \in [Key -> Row]
        /\ held \subseteq Signal
        /\ \A k \in held : k \in Key /\ rows[k].status = "blocking"
        /\ held' = {k \in held : rows'[k].status = "blocking"}
        /\ UNCHANGED state
        /\ Signal \cap Recovered = {}
    BY KeyAssumption DEF ReservationInv, ReservationTypeOK, AdmissionInv, TypeOK,
                         JournalTypeOK, RowStep, JournalStep, riskVars, Key
  <1>2. ASSUME NEW k \in Key, NEW new, rows' = [rows EXCEPT ![k] = new],
               rows[k].status = "absent" => k \notin Signal,
               k \in Signal => new.status # "absent"
        PROVE  \/ \E j \in Signal : A!Release(j)
               \/ UNCHANGED <<held, Present \cap Signal, state>>
    <2>1. UNCHANGED (Present \cap Signal)
      BY <1>1, <1>2 DEF Present
    <2>2. CASE k \in held /\ new.status # "blocking"
      <3>1. held' = held \ {k}
        BY <1>1, <1>2, <2>2
      <3> QED
        BY <1>1, <2>1, <2>2, <3>1 DEF A!Release
    <2>3. CASE ~(k \in held /\ new.status # "blocking")
      BY <1>1, <1>2, <2>1, <2>3
    <2> QED
      BY <2>2, <2>3
  <1>3. ASSUME NEW k \in Key, RecoverPosition(k)
        PROVE  \/ \E j \in Signal : A!Release(j)
               \/ UNCHANGED <<held, Present \cap Signal, state>>
    <2>1. k \notin Signal
      BY <1>1, <1>3 DEF RecoverPosition
    <2> QED
      BY <1>2, <1>3, <2>1 DEF RecoverPosition, Insert
  <1>4. ASSUME NEW k \in Key,
               \/ ConfirmFill(k) \/ FailBeforeOrder(k) \/ StaleReopen(k)
               \/ \E at \in Time, pnl \in Outcomes : CloseRow(k, at, pnl)
        PROVE  \/ \E j \in Signal : A!Release(j)
               \/ UNCHANGED <<held, Present \cap Signal, state>>
    <2>1. rows[k].status # "absent"
      BY <1>4 DEF ConfirmFill, FailBeforeOrder, StaleReopen, CloseRow
    <2>2. rows' = [rows EXCEPT ![k] = rows'[k]] /\ rows'[k].status # "absent"
      BY <1>1, <1>4, ZenonT(60) DEF ConfirmFill, FailBeforeOrder, StaleReopen, CloseRow, Row
    <2> QED
      BY <1>2, <2>1, <2>2
  <1>5. ASSUME Tick
        PROVE  UNCHANGED <<held, Present \cap Signal, state>>
    BY <1>1, <1>5 DEF Tick, Present
  <1> QED
    BY <1>3, <1>4, <1>5, KeyAssumption DEF RowStep, JournalStep, JournalNext

\* A refresh may move the hard stop, and nothing else of Admission.
LEMMA RiskSetsHardStop ==
    ASSUME ReservationInv, RiskStep
    PROVE  A!SetHardStop /\ held' = held
  <1>1. UNCHANGED <<rows, held>>
    BY RiskLeavesJournal DEF RiskStep, reservationVars, journalVars
  <1>2. state' \in StateRow
    BY RiskNextKeepsType DEF RiskStep, ReservationInv, ReservationTypeOK, TypeOK, RiskTypeOK
  <1>3. state'.breaker \in BOOLEAN
    BY <1>2 DEF StateRow
  <1>4. UNCHANGED (Present \cap Signal)
    BY <1>1 DEF Present
  <1> QED
    BY <1>1, <1>3, <1>4, Zenon DEF A!SetHardStop

\* Reservations implement Admission: each call is one atomic admission, placed
\* at its commit, for any number of callers, refreshes and other writers.
THEOREM ReservationRefinesAdmission ==
    ASSUME RowLocks
    PROVE  ReservationSpec => ImplementsAdmission
  <1>1. ReservationInit => A!Init
    <2> SUFFICES ASSUME ReservationInit PROVE A!Init
      OBVIOUS
    <2>1. held = {} /\ Present \cap Signal = {}
      BY DEF ReservationInit, Init, JournalInit, NoRow, Present
    <2>2. state.breaker \in BOOLEAN
      <3>1. state \in StateRow
        BY ReservationTypeStep DEF ReservationTypeOK, TypeOK, RiskTypeOK
      <3> QED
        BY <3>1 DEF StateRow
    <2> QED
      BY <2>1, <2>2, Zenon DEF A!Init
  <1>2. ASSUME ReservationInv, [ReservationNext]_allVars
        PROVE  [A!Next]_<<held, Present \cap Signal, state.breaker>>
    <2>1. ASSUME NEW c \in Caller, CallerStep(c)
          PROVE  A!Next \/ UNCHANGED <<held, Present \cap Signal, state>>
      BY <1>2, <2>1, CallerAdmitsOrStutters DEF A!Next
    <2>2. ASSUME RiskStep
          PROVE  A!Next
      BY <1>2, <2>2, RiskSetsHardStop DEF A!Next
    <2>3. ASSUME RowStep
          PROVE  A!Next \/ UNCHANGED <<held, Present \cap Signal, state>>
      BY <1>2, <2>3, RowReleasesOrStutters DEF A!Next
    <2>4. ASSUME UNCHANGED allVars
          PROVE  UNCHANGED <<held, Present \cap Signal, state>>
      BY <2>4 DEF allVars, reservationVars, vars, journalVars, riskVars, Present
    <2> QED
      BY <1>2, <2>1, <2>2, <2>3, <2>4 DEF ReservationNext
  <1> QED
    BY <1>1, <1>2, ReservationInductive, PTL DEF ReservationSpec, ImplementsAdmission, A!Spec

\* Nothing is admitted while the hard stop is on.
THEOREM HardStopAdmitsNothing ==
    ASSUME RowLocks
    PROVE  ReservationSpec => NoAdmissionUnderHardStop
  <1> DEFINE Allowed == held' \subseteq held \/ (~state.breaker /\ ~state'.breaker)
  <1>1. ASSUME ReservationInv, [ReservationNext]_allVars
        PROVE  [Allowed]_allVars
    <2>1. ASSUME NEW c \in Caller, CallerStep(c)
          PROVE  Allowed
      BY <1>1, <2>1, CallerAdmitsOrStutters
    <2>2. ASSUME RiskStep
          PROVE  Allowed
      BY <2>2 DEF RiskStep, reservationVars
    <2>3. ASSUME RowStep
          PROVE  Allowed
      BY <2>3 DEF RowStep
    <2> QED
      BY <1>1, <2>1, <2>2, <2>3 DEF ReservationNext
  <1> QED
    BY <1>1, ReservationInductive, PTL DEF ReservationSpec, NoAdmissionUnderHardStop
=============================================================================

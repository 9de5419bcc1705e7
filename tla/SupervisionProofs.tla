------------------------- MODULE SupervisionProofs -------------------------
(***************************************************************************)
(* Proofs that the socket's reconciliation supervisor loses no wake-up and *)
(* that the locked reconciliations take turns, for every tolerance, number *)
(* of faults and choice of actors.                                         *)
(***************************************************************************)
EXTENDS Supervision, FiniteSetTheorems, TLAPS

\* The three actors and no others have local values: no step adds or drops one.
ActorsKept == DOMAIN actor = Actor

\* What is inductive: the promise itself, over a known set of actors.
WakeInv == ActorsKept /\ ChangeIsRequested

\* The initial states have no change that was not looked at.
LEMMA InitWakes == Init => WakeInv
  BY DEF Init, WakeInv, ActorsKept, ChangeIsRequested

\* A step that leaves the socket's actor, its event, the channel and the
\* history alone keeps the promise, whatever it does to another actor.
LEMMA OthersKeepWakes ==
  ASSUME WakeInv,
         DOMAIN actor' = Actor,
         actor'["socket"] = actor["socket"],
         UNCHANGED <<event, channel, unseen>>
  PROVE  WakeInv'
  BY DEF WakeInv, ActorsKept, ChangeIsRequested

\* Goto moves one actor, and only that one.
LEMMA GotoMoves ==
  ASSUME ActorsKept, NEW a \in Actor, NEW pc, Goto(a, pc)
  PROVE  /\ DOMAIN actor' = Actor
         /\ a = "socket" => actor'["socket"].pc = pc
         /\ a # "socket" => actor'["socket"] = actor["socket"]
  BY DEF ActorsKept, Goto, Resting, Actor

\* The trading loop and the operator, whatever the step, keep the promise.
LEMMA WatchersKeepWakes ==
  ASSUME WakeInv, NEW a \in Watchers,
         \/ Publishes(a) \/ ReconcileFails(a) \/ Crashes(a) \/ Cycle(a)
         \/ \E f \in {"minor", "critical"} : CycleJudgesFailure(a, f)
  PROVE  WakeInv'
<1>1. a \in Actor /\ a # "socket"
  BY DEF Watchers, Actor
<1>2. ActorsKept
  BY DEF WakeInv
<1>3. CASE Publishes(a) \/ ReconcileFails(a) \/ Crashes(a)
  <2>1. PICK pc : Goto(a, pc)
    BY <1>3 DEF Publishes, ReconcileFails, Crashes
  <2>2. UNCHANGED <<event, channel, unseen>>
    BY <1>3 DEF Publishes, ReconcileFails, Crashes
  <2>3. QED
    BY <1>1, <1>2, <2>1, <2>2, GotoMoves, OthersKeepWakes
<1>4. CASE CyclePersists(a)
  BY <1>1, <1>2, <1>4, GotoMoves, OthersKeepWakes DEF CyclePersists
<1>5. CASE CycleReads(a) \/ CycleGuards(a)
  <2>1. DOMAIN actor' = Actor /\ actor'["socket"] = actor["socket"]
    BY <1>1, <1>2, <1>5 DEF CycleReads, CycleGuards, ActorsKept, Actor
  <2>2. QED
    BY <1>5, <2>1, OthersKeepWakes DEF CycleReads, CycleGuards
<1>6. ASSUME NEW f, CycleJudgesAs(a, f)
      PROVE  DOMAIN actor' = Actor /\ actor'["socket"] = actor["socket"]
  BY <1>1, <1>2, <1>6 DEF CycleJudgesAs, ActorsKept, Actor
<1>7. CASE CycleJudges(a)
  BY <1>6, <1>7, OthersKeepWakes DEF CycleJudges
<1>8. CASE \E f \in {"minor", "critical"} : CycleJudgesFailure(a, f)
  <2>1. PICK f : CycleJudgesFailure(a, f)
    BY <1>8
  <2>2. QED
    BY <1>6, <2>1, OthersKeepWakes DEF CycleJudgesFailure
<1>9. QED
  BY <1>3, <1>4, <1>5, <1>7, <1>8 DEF Cycle

\* The operator's reconciler moves nobody else and knows no event.
OperatorReconciles ==
    OperatorReads \/ OperatorFetches \/ OperatorRechecks \/ OperatorPublishes

LEMMA OperatorKeepsWakes ==
  ASSUME WakeInv, OperatorReconciles
  PROVE  WakeInv'
<1>1. ActorsKept /\ "operator" \in Actor /\ "operator" # "socket"
  BY DEF WakeInv, Actor
<1>2. UNCHANGED <<event, channel, unseen>>
  BY DEF OperatorReconciles, OperatorReads, OperatorFetches, OperatorRechecks,
         OperatorPublishes
<1>3. CASE OperatorPublishes
  <2>1. Goto("operator", "watch")
    BY <1>3 DEF OperatorPublishes
  <2>2. QED
    BY <1>1, <1>2, <2>1, GotoMoves, OthersKeepWakes
<1>4. ASSUME NEW new, actor' = [actor EXCEPT !["operator"] = new]
      PROVE  WakeInv'
  <2>1. DOMAIN actor' = Actor /\ actor'["socket"] = actor["socket"]
    BY <1>1, <1>4 DEF ActorsKept
  <2>2. QED
    BY <1>2, <2>1, OthersKeepWakes
<1>5. CASE OperatorReads
  BY <1>4, <1>5 DEF OperatorReads
<1>6. CASE OperatorFetches
  BY <1>4, <1>6 DEF OperatorFetches
<1>7. CASE OperatorRechecks
  BY <1>4, <1>7 DEF OperatorRechecks
<1>8. QED
  BY <1>3, <1>5, <1>6, <1>7 DEF OperatorReconciles

\* The socket's own steps: it is woken or idles into a reconciliation, looks,
\* and publishes or fails; only looking discharges the change.
LEMMA SocketKeepsWakes ==
  ASSUME WakeInv, SocketStep \/ ReconcileFails("socket")
  PROVE  WakeInv'
<1>1. ActorsKept /\ "socket" \in Actor
  BY DEF WakeInv, Actor
<1>2. CASE Wakes \/ Idles
  <2>1. Goto("socket", "watch")
    BY <1>2 DEF Wakes, Idles
  <2>2. DOMAIN actor' = Actor /\ actor'["socket"].pc = "watch"
    BY <1>1, <2>1, GotoMoves
  <2>3. QED
    BY <2>2 DEF WakeInv, ActorsKept, ChangeIsRequested
<1>3. CASE SocketReconciles
  BY <1>1, <1>3
  DEF SocketReconciles, Fetches, WakeInv, ActorsKept, ChangeIsRequested
<1>4. CASE Publishes("socket") \/ ReconcileFails("socket")
  <2>1. Goto("socket", "rest")
    BY <1>4 DEF Publishes, ReconcileFails, After
  <2>2. DOMAIN actor' = Actor
    BY <1>1, <2>1, GotoMoves
  <2>3. actor["socket"].pc = "reconciling" /\ UNCHANGED <<event, channel, unseen>>
    BY <1>4 DEF Publishes, ReconcileFails
  <2>4. QED
    BY <2>2, <2>3 DEF WakeInv, ActorsKept, ChangeIsRequested
<1>5. QED
  BY <1>2, <1>3, <1>4 DEF SocketStep

\* Changes of the position, the channel's own steps and the faults of the
\* process: a change asks for a reconciliation while the channel is up, and
\* coming up asks for one.
LEMMA ChannelKeepsWakes ==
  ASSUME WakeInv,
         \/ PositionChanges \/ Connects \/ Requests \/ ClosesDead
         \/ Drops \/ Restarts \/ SupervisorDies \/ UpdateConfig
  PROVE  WakeInv'
<1>1. ActorsKept /\ "socket" \in Actor
  BY DEF WakeInv, Actor
<1>2. CASE PositionChanges
  BY <1>2 DEF PositionChanges, WakeInv, ActorsKept, ChangeIsRequested
<1>3. CASE Connects \/ Requests \/ ClosesDead \/ Drops
  BY <1>3 DEF Connects, Requests, ClosesDead, Drops, WakeInv, ActorsKept,
              ChangeIsRequested
<1>4. CASE Restarts
  BY <1>4 DEF Restarts, WakeInv, ActorsKept, ChangeIsRequested
<1>5. CASE UpdateConfig
  BY <1>5, OthersKeepWakes DEF UpdateConfig, WakeInv, ActorsKept
<1>6. CASE SupervisorDies
  <2>1. CASE Goto("socket", "dead")
    <3>1. DOMAIN actor' = Actor /\ actor'["socket"].pc = "dead"
      BY <1>1, <2>1, GotoMoves
    <3>2. QED
      BY <3>1 DEF WakeInv, ActorsKept, ChangeIsRequested
  <2>2. CASE channel' = "lost" /\ UNCHANGED actor
    BY <1>1, <2>2 DEF WakeInv, ActorsKept, ChangeIsRequested
  <2>3. QED
    BY <1>6, <2>1, <2>2 DEF SupervisorDies
<1>7. QED
  BY <1>2, <1>3, <1>4, <1>5, <1>6

\* Every step keeps the promise.
LEMMA NextWakes == WakeInv /\ [Next]_vars => WakeInv'
<1> SUFFICES ASSUME WakeInv, [Next]_vars
             PROVE  WakeInv'
  OBVIOUS
<1>1. ActorsKept /\ {"worker", "operator"} = Watchers /\ Watchers \subseteq Actor
  BY DEF WakeInv, Watchers, Actor
<1>2. CASE \/ PositionChanges \/ Connects \/ Requests \/ ClosesDead
           \/ Drops \/ Restarts \/ SupervisorDies \/ UpdateConfig
  BY <1>2, ChannelKeepsWakes
<1>3. CASE SocketStep \/ ReconcileFails("socket")
  BY <1>3, SocketKeepsWakes
<1>4. CASE \E a \in Watchers :
             \/ Publishes(a) \/ ReconcileFails(a) \/ Crashes(a) \/ Cycle(a)
             \/ \E f \in {"minor", "critical"} : CycleJudgesFailure(a, f)
  BY <1>4, WatchersKeepWakes
<1>5. CASE WorkerReconciles
  <2>1. DOMAIN actor' = Actor /\ actor'["socket"] = actor["socket"]
    BY <1>1, <1>5 DEF WorkerReconciles, Fetches, ActorsKept, Actor
  <2>2. QED
    BY <1>5, <2>1, OthersKeepWakes DEF WorkerReconciles
<1>6. CASE WorkerTrades
  <2>1. Goto("worker", "rest") /\ UNCHANGED <<event, channel, unseen>>
    BY <1>6 DEF WorkerTrades
  <2>2. "worker" \in Actor /\ "worker" # "socket"
    BY DEF Actor
  <2>3. QED
    BY <1>1, <2>1, <2>2, GotoMoves, OthersKeepWakes
<1>7. CASE UNCHANGED vars
  BY <1>7 DEF vars, WakeInv, ActorsKept, ChangeIsRequested
<1>8. CASE WorkerStep \/ OperatorReads \/ OperatorStep
  BY <1>1, <1>4, <1>5, <1>6, <1>8, OperatorKeepsWakes
  DEF WorkerStep, OperatorStep, OperatorReconciles
<1>9. CASE FaultStep
  <2>1. Actor = Watchers \cup {"socket"}
    BY DEF Actor, Watchers
  <2>2. QED
    BY <1>2, <1>3, <1>4, <1>9, <2>1 DEF FaultStep
<1>10. QED
  BY <1>2, <1>3, <1>5, <1>7, <1>8, <1>9 DEF Next

\* ChangeIsRequested holds in every behaviour: between clearing the event,
\* waiting for the lock and fetching (app/bybit_websocket.py), no change of
\* the position that the channel reported is forgotten.
THEOREM WakeUpsKept == Spec => []ChangeIsRequested
<1>1. Init => WakeInv
  BY InitWakes
<1>2. WakeInv /\ [Next]_vars => WakeInv'
  BY NextWakes
<1>3. WakeInv => ChangeIsRequested
  BY DEF WakeInv
<1>4. QED
  BY <1>1, <1>2, <1>3, PTL DEF Spec

-----------------------------------------------------------------------------
(* Types, and the lock.                                                    *)

Pcs == {"rest", "asked", "reconciling", "rechecked", "watch", "fetched",
        "judged", "guarded", "trade", "dead"}

Counts == {Keep} \cup 0 .. Tolerance

ActorState == [pc : Pcs, had : BOOLEAN, saw : Positions, count : Counts,
               block : BOOLEAN]

\* The lock as its two users see it.
OneAtATime == ~(actor["worker"].pc = "reconciling" /\ actor["socket"].pc = "reconciling")

SharedTyped ==
    /\ exchange \in Positions
    /\ config \in {"safe_stop", "disabled"}
    /\ cycles \in 0 .. Tolerance
    /\ {listed, guard, event, unseen} \subseteq BOOLEAN
    /\ channel \in {"none", "subscribed", "up", "dead", "lost"}
    /\ faults \in 0 .. MaxFaults

LockInv == SharedTyped /\ actor \in [Actor -> ActorState] /\ OneAtATime

LEMMA LockInvTypes == LockInv => TypeOK
  <1> SUFFICES ASSUME LockInv PROVE Cardinality(Locked) <= 1
    BY DEF LockInv, SharedTyped, TypeOK, ActorState, Pcs, Counts
  <1>1. Locked = {} \/ Locked = {"worker"} \/ Locked = {"socket"}
    BY DEF LockInv, OneAtATime, Locked
  <1>2. Cardinality({}) = 0
    BY FS_EmptySet
  <1>3. Cardinality({"worker"}) = 1 /\ Cardinality({"socket"}) = 1
    BY FS_Singleton
  <1>4. Cardinality(Locked) \in {0, 1}
    BY <1>1, <1>2, <1>3
  <1> QED
    BY <1>4

LEMMA RestingTyped ==
    ASSUME NEW pc \in Pcs
    PROVE  [Resting EXCEPT !.pc = pc] \in ActorState
             /\ [Resting EXCEPT !.pc = pc].pc = pc
  BY DEF Resting, ActorState, Positions, Counts

\* One actor moves, and begins a locked reconciliation only with the lock free.
LEMMA OneMoves ==
    ASSUME LockInv, NEW a \in Actor, NEW new \in ActorState,
           actor' = [actor EXCEPT ![a] = new],
           new.pc = "reconciling" => a = "operator" \/ Locked = {}
    PROVE  actor' \in [Actor -> ActorState] /\ OneAtATime'
  BY DEF LockInv, OneAtATime, Locked, Actor

LEMMA GotoKeepsLock ==
    ASSUME LockInv, NEW a \in Actor, NEW pc \in Pcs \ {"reconciling"}, Goto(a, pc)
    PROVE  actor' \in [Actor -> ActorState] /\ OneAtATime'
  <1> DEFINE new == [Resting EXCEPT !.pc = pc]
  <1>1. new \in ActorState /\ new.pc = pc
    BY RestingTyped
  <1>2. actor' = [actor EXCEPT ![a] = new]
    BY DEF Goto
  <1> HIDE DEF new
  <1> QED
    BY <1>1, <1>2, OneMoves

LEMMA LockInvInit == Init => LockInv
  <1> SUFFICES ASSUME Init PROVE LockInv
    OBVIOUS
  <1>1. Resting \in ActorState /\ Resting.pc = "rest"
    BY DEF Resting, ActorState, Pcs, Positions, Counts
  <1>2. 0 \in 0 .. Tolerance /\ 0 \in 0 .. MaxFaults
    BY SupervisionAssumption
  <1> QED
    BY <1>1, <1>2 DEF Init, LockInv, SharedTyped, OneAtATime, Actor

\* The actors' own steps.
LEMMA FetchesKeepsLock ==
    ASSUME LockInv, NEW a \in {"worker", "socket"}, NEW from, Fetches(a, from)
    PROVE  actor' \in [Actor -> ActorState] /\ OneAtATime'
  <1> DEFINE new == [actor[a] EXCEPT !.pc = "reconciling", !.saw = exchange]
  <1>1. a \in Actor /\ actor[a] \in ActorState
    BY DEF Actor, LockInv
  <1>2. new \in ActorState
    BY <1>1 DEF LockInv, SharedTyped, ActorState, Pcs
  <1>3. actor' = [actor EXCEPT ![a] = new]
    BY <1>1 DEF Fetches, LockInv
  <1> HIDE DEF new
  <1> QED
    BY <1>1, <1>2, <1>3, OneMoves DEF Fetches

LEMMA SocketKeepsLock ==
    ASSUME LockInv, Wakes \/ Idles \/ SocketReconciles
    PROVE  LockInv'
  <1>1. "socket" \in Actor /\ "watch" \in Pcs \ {"reconciling"}
    BY DEF Actor, Pcs
  <1>2. CASE Wakes \/ Idles
    <2>1. SharedTyped'
      BY <1>2 DEF Wakes, Idles, LockInv, SharedTyped
    <2> QED
      BY <1>1, <1>2, <2>1, GotoKeepsLock DEF Wakes, Idles, LockInv
  <1>3. CASE SocketReconciles
    <2>1. SharedTyped'
      BY <1>3 DEF SocketReconciles, LockInv, SharedTyped
    <2> QED
      BY <1>3, <2>1, FetchesKeepsLock DEF SocketReconciles, LockInv
  <1> QED
    BY <1>2, <1>3

LEMMA OperatorKeepsLock ==
    ASSUME LockInv, OperatorReconciles
    PROVE  LockInv'
  <1>1. "operator" \in Actor /\ actor["operator"] \in ActorState
    BY DEF Actor, LockInv
  <1>2. SharedTyped'
    <2>1. CASE OperatorReads \/ OperatorFetches
      BY <2>1 DEF OperatorReads, OperatorFetches, LockInv, SharedTyped
    <2>2. CASE OperatorRechecks
      BY <2>2, SupervisionAssumption DEF OperatorRechecks, Fault, LockInv, SharedTyped
    <2>3. CASE OperatorPublishes
      <3>1. listed' \in BOOLEAN
        BY <1>1, <2>3 DEF OperatorPublishes, ActorState
      <3> QED
        BY <2>3, <3>1 DEF OperatorPublishes, LockInv, SharedTyped
    <2> QED
      BY <2>1, <2>2, <2>3 DEF OperatorReconciles
  <1>3. ASSUME NEW new \in ActorState, actor' = [actor EXCEPT !["operator"] = new]
        PROVE  LockInv'
    BY <1>1, <1>2, <1>3, OneMoves DEF LockInv
  <1>4. CASE OperatorReads
    <2> DEFINE new == [actor["operator"] EXCEPT !.pc = "asked", !.had = listed]
    <2>1. new \in ActorState
      BY <1>1 DEF LockInv, SharedTyped, ActorState, Pcs
    <2>2. actor' = [actor EXCEPT !["operator"] = new]
      BY <1>1, <1>4 DEF OperatorReads, LockInv
    <2> HIDE DEF new
    <2> QED
      BY <1>3, <2>1, <2>2
  <1>5. CASE OperatorFetches \/ OperatorRechecks
    <2>1. PICK pc \in Pcs, saw \in Positions :
            actor' = [actor EXCEPT !["operator"].pc = pc, !["operator"].saw = saw]
      <3>1. {"reconciling", "rechecked"} \subseteq Pcs
              /\ {exchange, actor["operator"].saw} \subseteq Positions
        BY <1>1 DEF Pcs, LockInv, SharedTyped, ActorState
      <3>2. actor' = [actor EXCEPT !["operator"].pc = "rechecked"]
              => actor' = [actor EXCEPT !["operator"].pc = "rechecked",
                                        !["operator"].saw = actor["operator"].saw]
        BY <1>1 DEF LockInv, ActorState
      <3> QED
        BY <1>5, <3>1, <3>2 DEF OperatorFetches, OperatorRechecks
    <2> DEFINE new == [actor["operator"] EXCEPT !.pc = pc, !.saw = saw]
    <2>2. new \in ActorState
      BY <1>1 DEF ActorState
    <2>3. actor' = [actor EXCEPT !["operator"] = new]
      BY <1>1, <2>1 DEF LockInv
    <2> HIDE DEF new
    <2> QED
      BY <1>3, <2>2, <2>3
  <1>6. CASE OperatorPublishes
    <2>1. "watch" \in Pcs \ {"reconciling"}
      BY DEF Pcs
    <2> QED
      BY <1>1, <1>2, <1>6, <2>1, GotoKeepsLock DEF OperatorPublishes, LockInv
  <1> QED
    BY <1>4, <1>5, <1>6 DEF OperatorReconciles

LEMMA ActorsKeepLock ==
    ASSUME LockInv, NEW a \in Actor,
           Publishes(a) \/ ReconcileFails(a) \/ Crashes(a)
    PROVE  LockInv'
  <1>1. {"rest", After(a)} \subseteq Pcs \ {"reconciling"}
    BY DEF After, Pcs
  <1>2. PICK pc \in Pcs \ {"reconciling"} : Goto(a, pc)
    BY <1>1 DEF Publishes, ReconcileFails, Crashes
  <1>3. CASE Publishes(a)
    <2>1. listed' \in BOOLEAN
      BY <1>3 DEF Publishes
    <2>2. SharedTyped'
      BY <1>3, <2>1 DEF Publishes, LockInv, SharedTyped
    <2> QED
      BY <1>2, <2>2, GotoKeepsLock DEF LockInv
  <1>4. CASE ReconcileFails(a) \/ Crashes(a)
    <2>1. SharedTyped'
      BY <1>4, SupervisionAssumption
      DEF ReconcileFails, Crashes, Fault, LockInv, SharedTyped
    <2> QED
      BY <1>2, <2>1, GotoKeepsLock DEF LockInv
  <1> QED
    BY <1>3, <1>4

LEMMA CycleKeepsLock ==
    ASSUME LockInv, NEW a \in Watchers,
           Cycle(a) \/ \E f \in {"minor", "critical"} : CycleJudgesFailure(a, f)
    PROVE  LockInv'
  <1>1. a \in Actor /\ actor[a] \in ActorState
    BY DEF Watchers, Actor, LockInv
  <1>2. ASSUME NEW new \in ActorState, actor' = [actor EXCEPT ![a] = new],
               new.pc # "reconciling", SharedTyped'
        PROVE  LockInv'
    BY <1>1, <1>2, OneMoves DEF LockInv
  <1>3. CASE CycleReads(a)
    <2>1. cycles \in Counts /\ exchange \in Positions
      BY DEF LockInv, SharedTyped, Counts
    <2> DEFINE off == [Resting EXCEPT !.pc = "judged"]
               on  == [Resting EXCEPT !.pc = "fetched", !.saw = exchange, !.count = cycles]
    <2>2. /\ off \in ActorState /\ off.pc # "reconciling"
          /\ on \in ActorState /\ on.pc # "reconciling"
      BY <2>1 DEF Resting, ActorState, Pcs, Positions, Counts
    <2>3. actor' = [actor EXCEPT ![a] = off] \/ actor' = [actor EXCEPT ![a] = on]
      BY <1>3 DEF CycleReads
    <2>4. SharedTyped'
      BY <1>3 DEF CycleReads, LockInv, SharedTyped
    <2> HIDE DEF off, on
    <2> QED
      BY <1>2, <2>2, <2>3, <2>4
  <1>4. ASSUME NEW f, CycleJudgesAs(a, f), SharedTyped' PROVE LockInv'
    <2> DEFINE n   == Counted(actor[a].count, f)
               b   == f = "critical" /\ n >= Tolerance
               new == [Resting EXCEPT !.pc = "judged", !.count = n, !.block = b]
    <2>1. n \in Counts
      BY <1>1, SupervisionAssumption DEF Counted, ActorState, Counts, Keep
    <2>2. b \in BOOLEAN
      OBVIOUS
    <2>3. actor' = [actor EXCEPT ![a] = new]
      BY <1>4 DEF CycleJudgesAs
    <2> HIDE DEF n, b
    <2>4. new \in ActorState /\ new.pc = "judged"
      BY <2>1, <2>2 DEF Resting, ActorState, Pcs, Positions
    <2> HIDE DEF new
    <2> QED
      BY <1>2, <1>4, <2>3, <2>4
  <1>5. CASE CycleJudges(a)
    <2>1. SharedTyped'
      BY <1>5 DEF CycleJudges, LockInv, SharedTyped
    <2> QED
      BY <1>4, <1>5, <2>1 DEF CycleJudges
  <1>6. ASSUME NEW f, CycleJudgesFailure(a, f) PROVE LockInv'
    <2>1. SharedTyped'
      BY <1>6, SupervisionAssumption DEF CycleJudgesFailure, Fault, LockInv, SharedTyped
    <2> QED
      BY <1>4, <1>6, <2>1 DEF CycleJudgesFailure
  <1>7. CASE CycleGuards(a)
    <2> DEFINE new == [actor[a] EXCEPT !.pc = "guarded", !.block = FALSE]
    <2>1. new \in ActorState /\ new.pc = "guarded"
      BY <1>1 DEF ActorState, Pcs
    <2>2. actor' = [actor EXCEPT ![a] = new]
      BY <1>1, <1>7 DEF CycleGuards, LockInv
    <2>3. SharedTyped'
      BY <1>1, <1>7 DEF CycleGuards, LockInv, SharedTyped, ActorState
    <2> HIDE DEF new
    <2> QED
      BY <1>2, <2>1, <2>2, <2>3
  <1>8. CASE CyclePersists(a)
    <2>1. Done(a) \in Pcs \ {"reconciling"}
      BY DEF Done, Pcs
    <2>2. SharedTyped'
      BY <1>1, <1>8 DEF CyclePersists, LockInv, SharedTyped, ActorState, Counts
    <2> QED
      BY <1>1, <1>8, <2>1, <2>2, GotoKeepsLock DEF CyclePersists, LockInv
  <1> QED
    BY <1>3, <1>5, <1>6, <1>7, <1>8 DEF Cycle

LEMMA LockInvNext == LockInv /\ [Next]_vars => LockInv'
  <1> SUFFICES ASSUME LockInv, [Next]_vars PROVE LockInv'
    OBVIOUS
  <1>1. ASSUME UNCHANGED actor, SharedTyped' PROVE LockInv'
    BY <1>1 DEF LockInv, OneAtATime
  <1>2. CASE PositionChanges
    BY <1>1, <1>2 DEF PositionChanges, LockInv, SharedTyped
  <1>3. CASE Connects \/ Requests \/ ClosesDead \/ UpdateConfig
    BY <1>1, <1>3
    DEF Connects, Requests, ClosesDead, UpdateConfig, LockInv, SharedTyped
  <1>4. CASE Drops
    BY <1>1, <1>4, SupervisionAssumption DEF Drops, Fault, LockInv, SharedTyped
  <1>5. CASE WorkerReconciles
    <2>1. SharedTyped'
      BY <1>5 DEF WorkerReconciles, LockInv, SharedTyped
    <2> QED
      BY <1>5, <2>1, FetchesKeepsLock DEF WorkerReconciles, LockInv
  <1>6. CASE WorkerTrades
    <2>1. SharedTyped' /\ "worker" \in Actor /\ "rest" \in Pcs \ {"reconciling"}
      BY <1>6 DEF WorkerTrades, LockInv, SharedTyped, Actor, Pcs
    <2> QED
      BY <1>6, <2>1, GotoKeepsLock DEF WorkerTrades, LockInv
  <1>7. CASE Restarts
    <2>1. SharedTyped'
      <3>1. faults' \in 0 .. MaxFaults
        BY <1>7, SupervisionAssumption DEF Restarts, Fault, LockInv, SharedTyped
      <3>2. {listed', guard', event', unseen'} \subseteq BOOLEAN
        BY <1>7 DEF Restarts, LockInv, SharedTyped
      <3> QED
        BY <1>7, <3>1, <3>2 DEF Restarts, LockInv, SharedTyped
    <2>2. Resting \in ActorState /\ Resting.pc = "rest"
      BY DEF Resting, ActorState, Pcs, Positions, Counts
    <2> QED
      BY <1>7, <2>1, <2>2 DEF Restarts, LockInv, OneAtATime, Actor
  <1>8. CASE SupervisorDies
    <2>1. SharedTyped'
      BY <1>8, SupervisionAssumption DEF SupervisorDies, Fault, LockInv, SharedTyped
    <2>2. "socket" \in Actor /\ "dead" \in Pcs \ {"reconciling"}
      BY DEF Actor, Pcs
    <2> QED
      BY <1>1, <1>8, <2>1, <2>2, GotoKeepsLock DEF SupervisorDies, LockInv
  <1>9. CASE UNCHANGED vars
    BY <1>1, <1>9 DEF vars, LockInv, SharedTyped
  <1>10. {"worker", "operator"} \subseteq Watchers /\ Watchers \subseteq Actor
           /\ "socket" \in Actor
    BY DEF Watchers, Actor
  <1>11. CASE WorkerStep \/ OperatorReads \/ OperatorStep \/ SocketStep
    BY <1>5, <1>6, <1>10, <1>11, ActorsKeepLock, CycleKeepsLock, SocketKeepsLock,
       OperatorKeepsLock
    DEF WorkerStep, OperatorStep, SocketStep, OperatorReconciles
  <1>12. CASE FaultStep
    BY <1>4, <1>7, <1>8, <1>10, <1>12, ActorsKeepLock, CycleKeepsLock DEF FaultStep
  <1> QED
    BY <1>2, <1>3, <1>5, <1>9, <1>11, <1>12 DEF Next

\* Every variable keeps its type, and the trading loop and the socket's
\* supervisor are never both between fetching the position and replacing the
\* list (_reconciliation_lock of app/authoritative_reconciliation.py).
THEOREM LockedTakeTurns == Spec => []TypeOK
<1>1. Init => LockInv
  BY LockInvInit
<1>2. LockInv /\ [Next]_vars => LockInv'
  BY LockInvNext
<1>3. LockInv => TypeOK
  BY LockInvTypes
<1>4. QED
  BY <1>1, <1>2, <1>3, PTL DEF Spec
=============================================================================

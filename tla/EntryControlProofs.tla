------------------------- MODULE EntryControlProofs -------------------------
(***************************************************************************)
(* Proofs that a closed row lets each caller place at most one more order  *)
(* and that automatic orders are fresh, for every age limit, approval life *)
(* and batch size, and with every caller at work at once.                  *)
(***************************************************************************)
EXTENDS EntryControl, TLAPS

Pc == {"rest", "config", "resumed", "scanning", "gate", "gated",
       "next", "check", "checked", "quote", "approved"}
Call == [pc : Pc, left : 0 .. MaxSignals, age : Ages, ttl : 0 .. Ttl]
Bot  == [running : BOOLEAN, emergency : BOOLEAN, auto : BOOLEAN]

LEMMA RestingType == Resting \in Call
  BY EntryAssumption DEF Resting, Call, Pc, Ages, Old

LEMMA ResultType ==
    ASSUME NEW n \in 0 .. MaxSignals, NEW age \in Ages
    PROVE  Result(n, age) \in Results
  BY EntryAssumption DEF Result, Results, Ages, Old

LEMMA OlderType ==
    ASSUME NEW age \in Ages
    PROVE  Older(age) \in Ages /\ Older(age) <= age + 1
  BY EntryAssumption DEF Older, Ages, Old

\* One caller moves on.
LEMMA CallMoves ==
    ASSUME TypeOK, NEW c \in Caller, NEW r \in Call, call' = [call EXCEPT ![c] = r]
    PROVE  call' \in [Caller -> Call]
  BY DEF TypeOK, Call, Pc

LEMMA TypeControl ==
    ASSUME TypeOK,
           Control \/ StartConfigures \/ StartResumes \/ StartStarts \/ BlockChanges
    PROVE  TypeOK'
  <1> USE DEF Caller
  <1>1. ASSUME NEW b \in Bot, SetsBot(b), call' \in [Caller -> Call] PROVE TypeOK'
    BY <1>1 DEF TypeOK, SetsBot, Bot, Call, Pc
  <1>2. CASE Control
    <2>1. call' \in [Caller -> Call]
      BY <1>2 DEF Control, TypeOK, Call, Pc
    <2>2. \E b \in Bot : SetsBot(b)
      BY <1>2 DEF Control, TypeOK, Bot
    <2> QED
      BY <1>1, <2>1, <2>2
  <1>3. CASE StartConfigures
    <2>1. call' \in [Caller -> Call]
      BY <1>3 DEF StartConfigures, Goto, TypeOK, Call, Pc
    <2>2. \E b \in Bot : SetsBot(b)
      BY <1>3 DEF StartConfigures, TypeOK, Bot
    <2> QED
      BY <1>1, <2>1, <2>2
  <1>4. CASE StartResumes
    <2>1. call' \in [Caller -> Call]
      BY <1>4 DEF StartResumes, Goto, TypeOK, Call, Pc
    <2>2. \E b \in Bot : SetsBot(b)
      BY <1>4 DEF StartResumes, TypeOK, Bot
    <2> QED
      BY <1>1, <2>1, <2>2
  <1>5. CASE StartStarts
    <2>1. call' \in [Caller -> Call]
      <3>1. PICK age \in Ages : call' = [call EXCEPT !["start"] =
                [Resting EXCEPT !.pc = "scanning", !.age = age]]
        BY <1>5 DEF StartStarts
      <3>2. [Resting EXCEPT !.pc = "scanning", !.age = age] \in Call
        BY RestingType DEF Call, Pc
      <3> QED
        BY <3>1, <3>2, CallMoves
    <2>2. \E b \in Bot : SetsBot(b)
      BY <1>5 DEF StartStarts, TypeOK, Bot
    <2> QED
      BY <1>1, <2>1, <2>2
  <1>6. CASE BlockChanges
    BY <1>6 DEF BlockChanges, TypeOK
  <1> QED
    BY <1>2, <1>3, <1>4, <1>5, <1>6

LEMMA TypeScan ==
    ASSUME TypeOK,
           LoopTurns \/ ManualScan \/ ScanEnds \/ ScanRaises \/ WorkerTakes
    PROVE  TypeOK'
  <1> USE DEF Caller
  <1>1. /\ 0 \in Ages /\ 0 \in 0 .. MaxSignals
        /\ scan.age \in Ages
    BY EntryAssumption DEF TypeOK, Ages, Old
  <1>2. CASE LoopTurns
    <2>1. Result(0, 0) \in Results
      BY <1>1, ResultType
    <2>2. scan' \in [by : {"none", "auto", "manual"}, age : Ages]
      <3>1. scan' = scan \/ \E age \in Ages : scan' = [by |-> "auto", age |-> age]
        BY <1>2 DEF LoopTurns
      <3> QED
        BY <3>1 DEF TypeOK
    <2>3. queue' \in Results \cup {Empty} /\ looping' \in BOOLEAN
      BY <1>2, <2>1 DEF LoopTurns, TypeOK
    <2> QED
      BY <1>2, <2>2, <2>3 DEF LoopTurns, TypeOK
  <1>3. CASE ManualScan
    BY <1>1, <1>3 DEF ManualScan, NoScan, TypeOK
  <1>4. CASE ScanEnds
    <2>1. PICK n \in 0 .. MaxSignals :
             /\ Scanned(n)
             /\ queue' = IF scan.by = "auto" THEN Result(n, scan.age) ELSE queue
      BY <1>4 DEF ScanEnds
    <2>2. queue' \in Results \cup {Empty}
      BY <1>1, <2>1, ResultType DEF TypeOK
    <2> QED
      BY <1>1, <1>4, <2>1, <2>2 DEF ScanEnds, Scanned, NoScan, TypeOK
  <1>5. CASE ScanRaises
    BY <1>1, <1>5 DEF ScanRaises, NoScan, TypeOK
  <1>6. CASE WorkerTakes
    <2> DEFINE r == IF queue.left = 0 THEN Resting
                    ELSE [Resting EXCEPT !.pc = "gate", !.left = queue.left,
                                         !.age = queue.age]
    <2>1. queue \in Results /\ queue' = Empty /\ call' = [call EXCEPT !["worker"] = r]
      BY <1>6 DEF WorkerTakes, TypeOK
    <2>2. queue.left \in 0 .. MaxSignals /\ queue.age \in Ages
      BY <2>1 DEF Results
    <2>3. r \in Call
      BY <2>2, RestingType DEF Call, Pc
    <2>4. call' \in [Caller -> Call]
      BY <2>1, <2>3, CallMoves
    <2> QED
      BY <1>6, <2>1, <2>4 DEF WorkerTakes, TypeOK, Call, Pc
  <1> QED
    BY <1>2, <1>3, <1>4, <1>5, <1>6

LEMMA TypeServes ==
    ASSUME TypeOK, NEW c \in Caller, Serves(c)
    PROVE  TypeOK'
  <1> DEFINE k == call[c]
  <1>1. k \in Call /\ 0 \in 0 .. Ttl /\ Ttl \in 0 .. Ttl
    BY EntryAssumption DEF TypeOK, Call, Pc
  <1>2. ASSUME NEW r \in Call, call' = [call EXCEPT ![c] = r],
               UNCHANGED <<bot, block, market, looping, scan, queue, entered>>
        PROVE  TypeOK'
    <2>1. call' \in [Caller -> Call]
      BY <1>2, CallMoves
    <2> QED
      BY <1>2, <2>1 DEF TypeOK, Call, Pc
  <1>3. \A p \in Pc : [k EXCEPT !.pc = p] \in Call
    BY <1>1 DEF Call
  <1>4. CASE ReadsRow(c)
    <2> DEFINE r == IF RowOpen(bot)
                    THEN [k EXCEPT !.pc = IF k.pc = "gate" THEN "gated" ELSE "checked"]
                    ELSE IF k.pc = "gate" \/ k.left = 0 THEN Resting
                         ELSE [k EXCEPT !.pc = "next"]
    <2>1. r \in Call
      BY <1>3, RestingType DEF Pc
    <2>2. call' = [call EXCEPT ![c] = r]
      BY <1>4 DEF ReadsRow, Goto
    <2> QED
      BY <1>2, <1>4, <2>1, <2>2 DEF ReadsRow
  <1>5. CASE ReadsBlocks(c)
    <2> DEFINE on  == [k EXCEPT !.pc = IF k.pc = "gated" THEN "next" ELSE "quote"]
               off == IF k.pc = "gated" \/ k.left = 0 THEN Resting
                      ELSE [k EXCEPT !.pc = "next"]
    <2>1. on \in Call /\ off \in Call
      BY <1>3, RestingType DEF Pc
    <2>2. call' = [call EXCEPT ![c] = on] \/ call' = [call EXCEPT ![c] = off]
      BY <1>5 DEF ReadsBlocks
    <2> QED
      BY <1>2, <1>5, <2>1, <2>2 DEF ReadsBlocks
  <1>6. CASE Picks(c)
    <2> DEFINE p == IF c = "worker" /\ call[c].age > MaxAge THEN "next" ELSE "check"
               r == [k EXCEPT !.left = k.left - 1, !.ttl = 0, !.pc = p]
    <2>1. k.left # 0 => r \in Call
      <3>1. p \in Pc
        BY DEF Pc
      <3>2. k.left # 0 => k.left - 1 \in 0 .. MaxSignals
        BY <1>1, EntryAssumption DEF Call
      <3> HIDE DEF p, k
      <3> QED
        BY <1>1, <3>1, <3>2 DEF Call
    <2>2. k.left = 0 => call' = [call EXCEPT ![c] = Resting]
      BY <1>6 DEF Picks
    <2>3. k.left # 0 => call' = [call EXCEPT ![c] = r]
      BY <1>6 DEF Picks
    <2> QED
      BY <1>2, <1>6, <2>1, <2>2, <2>3, RestingType DEF Picks
  <1>7. CASE Approves(c)
    <2> DEFINE r == [k EXCEPT !.pc = "approved", !.ttl = Ttl]
    <2>1. r \in Call
      BY <1>1 DEF Call, Pc
    <2>2. call' = [call EXCEPT ![c] = r]
      BY <1>7 DEF Approves
    <2> QED
      BY <1>2, <1>7, <2>1, <2>2 DEF Approves
  <1> DEFINE over == IF k.left = 0 THEN Resting ELSE [k EXCEPT !.pc = "next", !.ttl = 0]
  <1>8. over \in Call
    BY <1>1, RestingType DEF Call, Pc
  <1>9. CASE Refused(c)
    BY <1>2, <1>8, <1>9 DEF Refused, Over
  <1>10. CASE Enters(c)
    <2>1. call' \in [Caller -> Call]
      BY <1>8, <1>10, CallMoves DEF Enters, Over
    <2>2. entered' \in [Caller -> 0 .. 2]
      BY <1>10 DEF Enters, TypeOK
    <2> QED
      BY <1>10, <2>1, <2>2 DEF Enters, TypeOK, Call, Pc
  <1> QED
    BY <1>4, <1>5, <1>6, <1>7, <1>9, <1>10 DEF Serves

LEMMA TypeTick ==
    ASSUME TypeOK, Tick
    PROVE  TypeOK'
  <1>1. scan' \in [by : {"none", "auto", "manual"}, age : Ages]
    <2>1. scan' = scan \/ scan' = [scan EXCEPT !.age = Older(scan.age)]
      BY DEF Tick
    <2> QED
      <3>1. scan \in [by : {"none", "auto", "manual"}, age : Ages]
            /\ Older(scan.age) \in Ages
        BY OlderType DEF TypeOK
      <3> QED
        BY <2>1, <3>1
  <1>2. queue' \in Results \cup {Empty}
    <2>1. CASE queue = Empty
      <3>1. ~(queue.left > 0)
        BY <2>1 DEF Empty
      <3> QED
        BY <2>1, <3>1 DEF Tick
    <2>2. CASE queue \in Results
      <3>1. queue' = queue \/ queue' = [queue EXCEPT !.age = Older(queue.age)]
        BY DEF Tick
      <3>2. Older(queue.age) \in Ages
        BY <2>2, OlderType DEF Results
      <3> QED
        BY <2>2, <3>1, <3>2 DEF Results
    <2> QED
      BY <2>1, <2>2 DEF TypeOK
  <1>3. call' \in [Caller -> Call]
    <2> SUFFICES ASSUME NEW c \in Caller
                 PROVE  (IF call[c].pc \in {"rest", "config", "resumed"} \/ c = "operator"
                         THEN [call[c] EXCEPT !.ttl = IF @ > 0 THEN @ - 1 ELSE 0]
                         ELSE [call[c] EXCEPT !.age = Older(@),
                                              !.ttl = IF @ > 0 THEN @ - 1 ELSE 0]) \in Call
      BY DEF Tick
    <2>1. call[c] \in Call /\ Older(call[c].age) \in Ages
      BY OlderType DEF TypeOK, Call, Pc
    <2>2. (IF call[c].ttl > 0 THEN call[c].ttl - 1 ELSE 0) \in 0 .. Ttl
      BY <2>1, EntryAssumption DEF Call
    <2> QED
      BY <2>1, <2>2 DEF Call
  <1> QED
    BY <1>1, <1>2, <1>3 DEF Tick, TypeOK, Call, Pc

LEMMA TypeStep == TypeOK /\ [Next]_vars => TypeOK'
  <1> SUFFICES ASSUME TypeOK, [Next]_vars PROVE TypeOK'
    OBVIOUS
  <1>1. CASE UNCHANGED vars
    BY <1>1 DEF vars, TypeOK
  <1>2. CASE OperatorExecutes
    <2>1. call' \in [Caller -> Call]
      BY <1>2 DEF OperatorExecutes, Goto, TypeOK, Call, Pc, Caller
    <2> QED
      BY <1>2, <2>1 DEF OperatorExecutes, TypeOK, Call, Pc
  <1>3. CASE StartScans
    <2>1. PICK n \in 0 .. MaxSignals :
             /\ market' \in BOOLEAN
             /\ call' = [call EXCEPT !["start"] =
                   IF n = 0 THEN Resting ELSE [@ EXCEPT !.pc = "gate", !.left = n]]
      BY <1>3 DEF StartScans, Scanned
    <2> DEFINE k == call["start"]
               r == IF n = 0 THEN Resting ELSE [k EXCEPT !.pc = "gate", !.left = n]
    <2>2. k \in Call
      BY DEF TypeOK, Call, Pc, Caller
    <2>3. r \in Call
      BY <2>2, RestingType DEF Call, Pc
    <2>4. call' \in [Caller -> Call]
      BY <2>1, <2>3, CallMoves DEF Caller
    <2> QED
      BY <1>3, <2>1, <2>4 DEF StartScans, TypeOK, Call, Pc
  <1>4. CASE Restarts
    <2>1. call' \in [Caller -> Call]
      BY <1>4, RestingType DEF Restarts
    <2>2. NoScan \in [by : {"none", "auto", "manual"}, age : Ages]
      BY EntryAssumption DEF NoScan, Ages, Old
    <2>3. block' \in {"none", "watchdog", "breaker"}
      BY <1>4 DEF Restarts, TypeOK
    <2> QED
      BY <1>4, <2>1, <2>2, <2>3 DEF Restarts, TypeOK, Call, Pc
  <1> QED
    BY <1>1, <1>2, <1>3, <1>4, TypeControl, TypeScan, TypeServes, TypeTick DEF Next

LEMMA TypeInit == Init => TypeOK
  <1> SUFFICES ASSUME Init PROVE TypeOK
    OBVIOUS
  <1>1. NoScan \in [by : {"none", "auto", "manual"}, age : Ages]
    BY EntryAssumption DEF NoScan, Ages, Old
  <1>2. call \in [Caller -> Call]
    BY RestingType DEF Init
  <1> QED
    BY <1>1, <1>2 DEF Init, TypeOK, Call, Pc

\* Types of the row, the blocks, scan, queue and calls.
THEOREM EntryTypeCorrect == FairSpec => []TypeOK
  BY TypeInit, TypeStep, PTL DEF FairSpec, Spec

-----------------------------------------------------------------------------
(* One late entry, and its age.                                            *)

\* A caller past the row check of the signal it works on.
Passed == {"checked", "quote", "approved"}

Late ==
    /\ RowOpen(bot) => \A c \in Caller : entered[c] = 0
    /\ ~RowOpen(bot) =>
          \A c \in Caller : /\ entered[c] <= 1
                            /\ entered[c] = 1 => call[c].pc \notin Passed

\* While an approval lives, the age of its signal has grown by no more than
\* the approval has lost.
Fresh(c) ==
    /\ call[c].pc = "approved" /\ call[c].ttl > 0
    /\ c # "operator"
    => call[c].age + call[c].ttl <= MaxAge + Ttl

EntryInv == TypeOK /\ Late /\ \A c \in Caller : Fresh(c)

\* The rest of the system leaves entered alone unless the row opens, and
\* brings nobody past the check.
LEMMA OthersKeep ==
    ASSUME EntryInv,
           \A c \in Caller : call'[c].pc \in Passed => call'[c] = call[c],
           \/ UNCHANGED <<bot, entered>>
           \/ entered' = IF RowOpen(bot') THEN [c \in Caller |-> 0] ELSE entered
    PROVE  Late' /\ \A c \in Caller : Fresh(c)'
  <1>1. Late'
    <2>1. \A c \in Caller : entered[c] <= 1 /\ (entered[c] = 1 => call[c].pc \notin Passed)
      BY DEF EntryInv, Late
    <2>2. \A c \in Caller : entered[c] = 1 => call'[c].pc \notin Passed
      BY <2>1
    <2>3. CASE UNCHANGED <<bot, entered>>
      BY <2>1, <2>2, <2>3 DEF EntryInv, Late, RowOpen
    <2>4. CASE entered' = IF RowOpen(bot') THEN [c \in Caller |-> 0] ELSE entered
      <3>1. CASE RowOpen(bot')
        BY <2>4, <3>1 DEF Late, RowOpen
      <3>2. CASE ~RowOpen(bot')
        BY <2>1, <2>2, <2>4, <3>2 DEF Late, RowOpen
      <3> QED
        BY <3>1, <3>2
    <2> QED
      BY <2>3, <2>4
  <1>2. ASSUME NEW c \in Caller PROVE Fresh(c)'
    BY DEF EntryInv, Fresh, Passed
  <1> QED
    BY <1>1, <1>2

LEMMA RestingPassesNothing ==
    Resting.pc \notin Passed
  BY DEF Resting, Passed

LEMMA KeepOthers ==
    ASSUME EntryInv,
           \/ Control \/ StartConfigures \/ StartResumes \/ StartStarts \/ BlockChanges
           \/ LoopTurns \/ ManualScan \/ ScanEnds \/ ScanRaises \/ WorkerTakes
           \/ OperatorExecutes \/ StartScans \/ Restarts
    PROVE  Late' /\ \A c \in Caller : Fresh(c)'
  <1>1. call \in [Caller -> Call] /\ {"worker", "start", "operator"} \subseteq Caller
    BY DEF EntryInv, TypeOK, Call, Pc, Caller
  <1>2. ASSUME NEW c \in Caller, NEW r, r.pc \notin Passed,
               call' = [call EXCEPT ![c] = r],
               \/ UNCHANGED <<bot, entered>>
               \/ \E b : SetsBot(b)
        PROVE  Late' /\ \A d \in Caller : Fresh(d)'
    BY <1>1, <1>2, OthersKeep DEF SetsBot
  <1>3. ASSUME UNCHANGED call, UNCHANGED <<bot, entered>> \/ \E b : SetsBot(b)
        PROVE  Late' /\ \A d \in Caller : Fresh(d)'
    BY <1>3, OthersKeep DEF SetsBot
  <1>4. CASE Control
    <2>1. \E b : SetsBot(b)
      BY <1>4 DEF Control
    <2> QED
      BY <1>3, <1>4, <2>1 DEF Control
  <1>5. CASE StartConfigures
    <2> DEFINE r == [call["start"] EXCEPT !.pc = "config"]
    <2>1. r.pc \notin Passed
      BY <1>1 DEF Call, Passed
    <2>2. call' = [call EXCEPT !["start"] = r] /\ \E b : SetsBot(b)
      BY <1>1, <1>5 DEF StartConfigures, Goto
    <2> HIDE DEF r
    <2> QED
      BY <1>1, <1>2, <2>1, <2>2
  <1>6. CASE StartResumes
    <2> DEFINE r == [call["start"] EXCEPT !.pc = "resumed"]
    <2>1. r.pc \notin Passed
      BY <1>1 DEF Call, Passed
    <2>2. call' = [call EXCEPT !["start"] = r] /\ \E b : SetsBot(b)
      BY <1>1, <1>6 DEF StartResumes, Goto
    <2> HIDE DEF r
    <2> QED
      BY <1>1, <1>2, <2>1, <2>2
  <1>7. CASE StartStarts
    <2> DEFINE r(age) == [Resting EXCEPT !.pc = "scanning", !.age = age]
    <2>1. \A age : r(age).pc \notin Passed
      BY DEF Resting, Passed
    <2>2. (\E age : call' = [call EXCEPT !["start"] = r(age)]) /\ \E b : SetsBot(b)
      BY <1>7 DEF StartStarts
    <2> HIDE DEF r
    <2> QED
      BY <1>1, <1>2, <2>1, <2>2
  <1>8. CASE WorkerTakes
    <2> DEFINE r == IF queue.left = 0 THEN Resting
                    ELSE [Resting EXCEPT !.pc = "gate", !.left = queue.left,
                                         !.age = queue.age]
    <2>1. r.pc \notin Passed
      BY RestingType DEF Resting, Passed
    <2>2. call' = [call EXCEPT !["worker"] = r] /\ UNCHANGED <<bot, entered>>
      BY <1>8 DEF WorkerTakes
    <2> HIDE DEF r
    <2> QED
      BY <1>1, <1>2, <2>1, <2>2
  <1>9. CASE OperatorExecutes
    <2> DEFINE r == [call["operator"] EXCEPT !.pc = "check"]
    <2>1. r.pc \notin Passed
      BY <1>1 DEF Call, Passed
    <2>2. call' = [call EXCEPT !["operator"] = r] /\ UNCHANGED <<bot, entered>>
      BY <1>1, <1>9 DEF OperatorExecutes, Goto
    <2> HIDE DEF r
    <2> QED
      BY <1>1, <1>2, <2>1, <2>2
  <1>10. CASE StartScans
    <2> DEFINE r(n) == IF n = 0 THEN Resting
                       ELSE [call["start"] EXCEPT !.pc = "gate", !.left = n]
    <2>1. \A n : r(n).pc \notin Passed
      BY <1>1, RestingPassesNothing DEF Call, Passed
    <2>2. (\E n : call' = [call EXCEPT !["start"] = r(n)]) /\ UNCHANGED <<bot, entered>>
      BY <1>10 DEF StartScans
    <2> HIDE DEF r
    <2> QED
      BY <1>1, <1>2, <2>1, <2>2
  <1>11. CASE Restarts
    BY <1>11, OthersKeep, RestingPassesNothing DEF Restarts
  <1>12. CASE BlockChanges \/ LoopTurns \/ ManualScan \/ ScanEnds \/ ScanRaises
    BY <1>3, <1>12 DEF BlockChanges, LoopTurns, ManualScan, ScanEnds, ScanRaises
  <1> QED
    BY <1>4, <1>5, <1>6, <1>7, <1>8, <1>9, <1>10, <1>11, <1>12

\* A caller passes the row check only while the row is open, and gets an
\* approval only for a signal within the age limit.
LEMMA ServesOwnCall ==
    ASSUME EntryInv, NEW c \in Caller, Serves(c), ~Enters(c)
    PROVE  /\ \A d \in Caller \ {c} : call'[d] = call[d]
           /\ UNCHANGED <<bot, entered>>
           /\ call'[c].pc \in Passed => call[c].pc \in Passed \/ RowOpen(bot)
           /\ call'[c].pc = "approved" =>
                 /\ c # "operator" => call'[c].age <= MaxAge
                 /\ call'[c].ttl <= Ttl
  <1> DEFINE k == call[c]
  <1>1. call \in [Caller -> Call] /\ k \in Call
    BY DEF EntryInv, TypeOK, Call, Pc
  <1>2. Resting.pc = "rest"
    BY DEF Resting
  <1>3. CASE ReadsRow(c)
    <2> DEFINE on  == [k EXCEPT !.pc = IF k.pc = "gate" THEN "gated" ELSE "checked"]
               off == IF k.pc = "gate" \/ k.left = 0 THEN Resting
                      ELSE [k EXCEPT !.pc = "next"]
    <2>1. on.pc \in {"gated", "checked"} /\ off.pc \in {"rest", "next"}
      BY <1>1, <1>2 DEF Call
    <2>2. call' = [call EXCEPT ![c] = IF RowOpen(bot) THEN on ELSE off]
      BY <1>1, <1>3 DEF ReadsRow, Goto
    <2>3. UNCHANGED <<bot, entered>>
      BY <1>3 DEF ReadsRow
    <2> HIDE DEF on, off
    <2> QED
      BY <1>1, <2>1, <2>2, <2>3 DEF Passed
  <1>4. CASE ReadsBlocks(c)
    <2> DEFINE on  == [k EXCEPT !.pc = IF k.pc = "gated" THEN "next" ELSE "quote"]
               off == IF k.pc = "gated" \/ k.left = 0 THEN Resting
                      ELSE [k EXCEPT !.pc = "next"]
    <2>1. /\ on.pc \in {"next", "quote"}
          /\ on.pc = "quote" => k.pc \in Passed
          /\ off.pc \in {"rest", "next"}
      BY <1>1, <1>2, <1>4 DEF Call, ReadsBlocks, Passed
    <2>2. call' = [call EXCEPT ![c] = on] \/ call' = [call EXCEPT ![c] = off]
      BY <1>4 DEF ReadsBlocks
    <2>3. UNCHANGED <<bot, entered>>
      BY <1>4 DEF ReadsBlocks
    <2> HIDE DEF on, off
    <2> QED
      BY <1>1, <2>1, <2>2, <2>3 DEF Passed
  <1>5. CASE Picks(c)
    <2> DEFINE p == IF c = "worker" /\ call[c].age > MaxAge THEN "next" ELSE "check"
               r == [k EXCEPT !.left = k.left - 1, !.ttl = 0, !.pc = p]
    <2>1. r.pc = p
      <3> HIDE DEF p
      <3> QED
        BY <1>1 DEF Call
    <2>2. call' = [call EXCEPT ![c] = IF k.left = 0 THEN Resting ELSE r]
      BY <1>5 DEF Picks
    <2>3. UNCHANGED <<bot, entered>>
      BY <1>5 DEF Picks
    <2>4. p \notin Passed
      BY DEF Passed
    <2> HIDE DEF r, p
    <2> QED
      BY <1>1, <1>2, <2>1, <2>2, <2>3, <2>4 DEF Passed
  <1>6. CASE Approves(c)
    <2> DEFINE r == [k EXCEPT !.pc = "approved", !.ttl = Ttl]
    <2>1. r.pc = "approved" /\ r.ttl = Ttl /\ r.age = k.age
      BY <1>1 DEF Call
    <2>2. call' = [call EXCEPT ![c] = r]
      BY <1>6 DEF Approves
    <2>3. UNCHANGED <<bot, entered>> /\ k.pc \in Passed /\ (c # "operator" => k.age <= MaxAge)
      BY <1>6 DEF Approves, Passed
    <2> HIDE DEF r
    <2> QED
      BY <1>1, <2>1, <2>2, <2>3, EntryAssumption
  <1>7. CASE Refused(c)
    <2> DEFINE r == IF k.left = 0 THEN Resting ELSE [k EXCEPT !.pc = "next", !.ttl = 0]
    <2>1. r.pc \in {"rest", "next"}
      BY <1>1, <1>2 DEF Call
    <2>2. call' = [call EXCEPT ![c] = r]
      BY <1>7 DEF Refused, Over
    <2>3. UNCHANGED <<bot, entered>>
      BY <1>7 DEF Refused
    <2> HIDE DEF r
    <2> QED
      BY <1>1, <2>1, <2>2, <2>3 DEF Passed
  <1> QED
    BY <1>3, <1>4, <1>5, <1>6, <1>7 DEF Serves

LEMMA KeepServes ==
    ASSUME EntryInv, NEW c \in Caller, Serves(c), ~Enters(c)
    PROVE  Late' /\ \A d \in Caller : Fresh(d)'
  <1>1. call'[c].age \in Ages /\ call'[c].ttl \in 0 .. Ttl
    BY TypeServes DEF EntryInv, TypeOK
  <1>2. Late'
    BY ServesOwnCall DEF EntryInv, Late, RowOpen
  <1>3. ASSUME NEW d \in Caller PROVE Fresh(d)'
    <2>1. CASE d = c
      BY <1>1, <2>1, ServesOwnCall, EntryAssumption DEF Fresh, Ages, Old
    <2>2. CASE d # c
      BY <2>2, ServesOwnCall DEF EntryInv, Fresh
    <2> QED
      BY <2>1, <2>2
  <1> QED
    BY <1>2, <1>3

LEMMA KeepEnters ==
    ASSUME EntryInv, NEW c \in Caller, Enters(c)
    PROVE  Late' /\ \A d \in Caller : Fresh(d)'
  <1> DEFINE k == call[c]
             r == IF k.left = 0 THEN Resting ELSE [k EXCEPT !.pc = "next", !.ttl = 0]
  <1>1. call \in [Caller -> Call] /\ k \in Call /\ entered \in [Caller -> 0 .. 2]
    BY DEF EntryInv, TypeOK, Call, Pc
  <1>2. r.pc \in {"rest", "next"}
    BY <1>1 DEF Call, Resting
  <1>3. call' = [call EXCEPT ![c] = r] /\ UNCHANGED bot /\ k.pc = "approved"
    BY DEF Enters, Over
  <1>4. /\ \A d \in Caller \ {c} : entered'[d] = entered[d]
        /\ RowOpen(bot) => entered'[c] = entered[c]
        /\ ~RowOpen(bot) => entered'[c] <= entered[c] + 1
    BY <1>1 DEF Enters
  <1> HIDE DEF r
  <1>5. /\ call'[c].pc \notin Passed /\ k.pc \in Passed
        /\ \A d \in Caller \ {c} : call'[d] = call[d]
    BY <1>1, <1>2, <1>3 DEF Passed
  <1>6. Late'
    <2>1. CASE RowOpen(bot)
      BY <1>3, <1>4, <2>1 DEF EntryInv, Late, RowOpen
    <2>2. CASE ~RowOpen(bot)
      <3>1. entered[c] = 0
        BY <1>1, <1>5, <2>2 DEF EntryInv, Late
      <3>2. entered' \in [Caller -> 0 .. 2]
        BY TypeServes DEF Serves, EntryInv, TypeOK
      <3> QED
        BY <1>1, <1>3, <1>4, <1>5, <2>2, <3>1, <3>2 DEF EntryInv, Late, RowOpen
    <2> QED
      BY <2>1, <2>2
  <1>7. ASSUME NEW d \in Caller PROVE Fresh(d)'
    BY <1>5 DEF EntryInv, Fresh, Passed
  <1> QED
    BY <1>6, <1>7

LEMMA KeepTick ==
    ASSUME EntryInv, Tick
    PROVE  Late' /\ \A c \in Caller : Fresh(c)'
  <1>1. ASSUME NEW c \in Caller
        PROVE  /\ call'[c].pc = call[c].pc
               /\ Fresh(c)'
    <2> DEFINE k == call[c]
               ttl == IF k.ttl > 0 THEN k.ttl - 1 ELSE 0
    <2>1. k \in Call /\ Older(k.age) <= k.age + 1
      BY OlderType DEF EntryInv, TypeOK, Call, Pc
    <2>2. call'[c] = IF k.pc \in {"rest", "config", "resumed"} \/ c = "operator"
                     THEN [k EXCEPT !.ttl = ttl]
                     ELSE [k EXCEPT !.age = Older(k.age), !.ttl = ttl]
      BY DEF Tick
    <2>3. /\ call'[c].pc = k.pc /\ call'[c].ttl = ttl
          /\ k.pc = "approved" /\ c # "operator" => call'[c].age = Older(k.age)
      <3> HIDE DEF ttl
      <3> QED
        BY <2>1, <2>2 DEF Call
    <2>4. Fresh(c)'
      <3> SUFFICES ASSUME k.pc = "approved", ttl > 0, c # "operator"
                   PROVE  Older(k.age) + ttl <= MaxAge + Ttl
        BY <2>3 DEF Fresh
      <3>1. k.ttl > 0 /\ ttl = k.ttl - 1 /\ k.ttl \in Nat /\ k.age \in Nat
        BY <2>1 DEF Call, Ages
      <3>2. k.age + k.ttl <= MaxAge + Ttl
        BY <3>1 DEF EntryInv, Fresh
      <3>3. Older(k.age) \in Nat
        BY <2>1, OlderType DEF Call, Ages
      <3> QED
        BY <2>1, <3>1, <3>2, <3>3, EntryAssumption
    <2> QED
      BY <2>3, <2>4
  <1>2. Late'
    BY <1>1 DEF EntryInv, Late, RowOpen, Tick
  <1> QED
    BY <1>1, <1>2

LEMMA EntryInvInductive == FairSpec => []EntryInv
  <1>1. Init => EntryInv
    <2> SUFFICES ASSUME Init PROVE EntryInv
      OBVIOUS
    <2>1. \A c \in Caller : entered[c] = 0 /\ call[c].pc = "rest"
      BY DEF Init, Resting
    <2> QED
      BY <2>1, TypeInit DEF EntryInv, Late, Fresh
  <1>2. EntryInv /\ [Next]_vars => EntryInv'
    <2> SUFFICES ASSUME EntryInv, [Next]_vars PROVE EntryInv'
      OBVIOUS
    <2>1. TypeOK'
      BY TypeStep DEF EntryInv
    <2>2. CASE UNCHANGED vars
      BY <2>1, <2>2, OthersKeep DEF EntryInv, vars
    <2>3. CASE Next
      <3>1. Late' /\ \A c \in Caller : Fresh(c)'
        BY <2>3, KeepOthers, KeepServes, KeepEnters, KeepTick DEF Next
      <3> QED
        BY <2>1, <3>1 DEF EntryInv
    <2> QED
      BY <2>2, <2>3
  <1> QED
    BY <1>1, <1>2, PTL DEF FairSpec, Spec

\* With every caller at work at once and batches of any size, a row that
\* closes lets each caller place at most the order it was working on.
THEOREM OneLateEntryHolds == FairSpec => []OneLateEntry
  <1>1. EntryInv => OneLateEntry
    BY DEF EntryInv, Late, OneLateEntry
  <1> QED
    BY <1>1, EntryInvInductive, PTL

\* An automatic order is younger than the age limit and one approval's life
\* together, for every value of the two.
THEOREM EntriesAreFresh == FairSpec => FreshEntries
  <1> DEFINE A == \A c \in {"worker", "start"} : Enters(c) => call[c].age < MaxAge + Ttl
  <1>1. EntryInv => A
    <2> SUFFICES ASSUME EntryInv, NEW c \in {"worker", "start"}, Enters(c)
                 PROVE  call[c].age < MaxAge + Ttl
      OBVIOUS
    <2>1. c \in Caller /\ call[c].pc = "approved" /\ call[c].ttl > 0
      BY DEF Caller, Enters
    <2>2. call[c].age \in Nat /\ call[c].ttl \in Nat
      BY <2>1 DEF EntryInv, TypeOK, Ages
    <2> QED
      BY <2>1, <2>2, EntryAssumption DEF EntryInv, Fresh
  <1>2. EntryInv /\ [Next]_vars => [A]_vars
    BY <1>1
  <1> QED
    BY <1>2, EntryInvInductive, PTL DEF FreshEntries, FairSpec, Spec
=============================================================================

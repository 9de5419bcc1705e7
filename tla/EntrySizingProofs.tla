-------------------------- MODULE EntrySizingProofs --------------------------
(***************************************************************************)
(* Proofs that a kept position is within its risk, that the quantity of an *)
(* entry is the one the limits allow, and that concurrent entries pass the *)
(* exposure cap only together, for every set of callers, signals and       *)
(* contracts and every size of fees and drifts.                            *)
(***************************************************************************)
EXTENDS EntrySizing, FiniteSetTheorems, TLAPS

InFlight == {"reserved", "filled", "protected", "costed"}
Filled   == {"filled", "protected", "costed"}
SymbolOf(c) == attempt[c].signal.symbol

\* The values the code builds have these fields, whatever is in them.
Entry    == {"phase", "signal", "seen", "quote", "qty"}
Position == {"state", "signal", "quote", "fill", "qty", "fee", "target"}
Has(fields, r) == r = [f \in fields |-> r[f]]

Shape ==
    /\ attempt = [c \in Caller |-> attempt[c]]
    /\ \A c \in Caller : Has(Entry, attempt[c])
    /\ \A c \in Caller : attempt[c].phase # "idle" => attempt[c].signal \in Signals
    /\ position = [s \in Symbol |-> position[s]]
    /\ \A s \in Symbol : Has(Position, position[s])

\* The journal row reserves the symbol: no two entries under way share one.
OwnSymbol ==
    /\ \A c \in Caller : attempt[c].phase \in InFlight => SymbolOf(c) \in reserved
    /\ \A c, d \in Caller :
          c # d /\ attempt[c].phase \in InFlight /\ attempt[d].phase \in InFlight
             => SymbolOf(c) # SymbolOf(d)

\* So the position a caller checks is the one it opened, and stays as checked.
Checked ==
    \A c \in Caller :
       /\ attempt[c].phase \in Filled => position[SymbolOf(c)].signal.symbol = SymbolOf(c)
       /\ attempt[c].phase = "costed" => CostsFit(position[SymbolOf(c)])

EntryInv == Shape /\ OwnSymbol /\ Checked /\ KeptWithinRisk

LEMMA SymbolsOfSignals == \A s \in Signals : s.symbol \in Symbol
  BY SizingAssumption

\* The profile moves the target of a position and nothing else.
LEMMA ManagedKeepsRisk ==
    ASSUME NEW s \in Symbol, Shape, NEW p, p = Managed(position[s])
    PROVE  /\ p.state = position[s].state /\ p.signal = position[s].signal
           /\ p.fill = position[s].fill /\ p.qty = position[s].qty
           /\ p.fee = position[s].fee /\ p.quote = position[s].quote
           /\ Has(Position, p)
  BY DEF Shape, Has, Position, Managed

LEMMA EntryInvInit == Init => EntryInv
  <1> SUFFICES ASSUME Init PROVE EntryInv
    OBVIOUS
  <1>1. \A c \in Caller : attempt[c] = Idle
    BY DEF Init
  <1>2. \A s \in Symbol : position[s] = NoPosition
    BY DEF Init
  <1>3. \A c \in Caller : attempt[c].phase = "idle"
    BY <1>1 DEF Idle
  <1>4. \A s \in Symbol : position[s].state = "none"
    BY <1>2 DEF NoPosition
  <1>5. Shape
    <2>1. attempt = [c \in Caller |-> attempt[c]]
      BY DEF Init
    <2>2. position = [s \in Symbol |-> position[s]]
      BY DEF Init
    <2>3. \A c \in Caller : Has(Entry, attempt[c])
      BY <1>1 DEF Idle, Has, Entry
    <2>4. \A s \in Symbol : Has(Position, position[s])
      BY <1>2 DEF NoPosition, Has, Position
    <2> QED
      BY <1>3, <2>1, <2>2, <2>3, <2>4 DEF Shape
  <1> QED
    BY <1>3, <1>4, <1>5 DEF EntryInv, OwnSymbol, Checked, KeptWithinRisk, InFlight, Filled

-----------------------------------------------------------------------------
(* Steps.                                                                  *)

\* A caller that moves on before its order is out, or gives up.
LEMMA BeforeTheOrder ==
    ASSUME EntryInv, NEW c \in Caller, NEW new,
           Has(Entry, new),
           new.phase # "idle" => new.signal \in Signals,
           new.phase \notin InFlight,
           attempt' = [attempt EXCEPT ![c] = new],
           UNCHANGED position,
           \A d \in Caller \ {c} : attempt[d].phase \in InFlight
                                     /\ SymbolOf(d) \in reserved => SymbolOf(d) \in reserved'
    PROVE  EntryInv'
  <1>1. attempt'[c] = new /\ \A d \in Caller \ {c} : attempt'[d] = attempt[d]
    BY DEF EntryInv, Shape
  <1>2. Shape'
    BY <1>1 DEF EntryInv, Shape
  <1>3. \A d \in Caller : attempt'[d].phase \in InFlight =>
           d # c /\ attempt'[d] = attempt[d]
    BY <1>1
  <1>4. OwnSymbol'
    BY <1>3 DEF EntryInv, OwnSymbol, SymbolOf
  <1>5. Checked'
    BY <1>3, ZenonT(60) DEF EntryInv, Checked, SymbolOf, Filled, InFlight, CostsFit, Worth
  <1>6. KeptWithinRisk'
    BY DEF EntryInv, KeptWithinRisk
  <1> QED
    BY <1>2, <1>4, <1>5, <1>6 DEF EntryInv

LEMMA IdleShape ==
    Has(Entry, Idle) /\ Idle.phase = "idle"
  BY DEF Idle, Has, Entry

\* What KeptWithinRisk says of one position.
WithinRisk(p) ==
    /\ p.state \in {"kept", "degraded"} =>
          NetRisk(p.fill, Stop(p.signal), p.qty, FeeOf(p)) <= Tolerated(Risk)
    /\ p.state = "kept" =>
          Worth(p.signal, p.fill, Stop(p.signal), p.target, p.qty, FeeOf(p))

\* A caller whose order is out touches the position of its own symbol only.
LEMMA OnItsOwnPosition ==
    ASSUME EntryInv, NEW c \in Caller, attempt[c].phase \in InFlight,
           NEW new, NEW p,
           Has(Entry, new),
           \/ new.phase = "idle"
           \/ new.phase \in Filled /\ new.signal = attempt[c].signal,
           new.phase = "costed" => CostsFit(p),
           Has(Position, p),
           new.phase \in Filled => p.signal.symbol = SymbolOf(c),
           WithinRisk(p),
           attempt' = [attempt EXCEPT ![c] = new],
           position' = [position EXCEPT ![SymbolOf(c)] = p],
           UNCHANGED reserved
    PROVE  EntryInv'
  <1> DEFINE s == SymbolOf(c)
  <1>0. attempt[c].signal \in Signals /\ s \in Symbol
    BY SymbolsOfSignals DEF EntryInv, Shape, InFlight, SymbolOf
  <1>1. attempt'[c] = new /\ \A d \in Caller \ {c} : attempt'[d] = attempt[d]
    BY DEF EntryInv, Shape
  <1>2. position'[s] = p /\ \A t \in Symbol \ {s} : position'[t] = position[t]
    BY <1>0 DEF EntryInv, Shape
  <1>3. Shape'
    <2>1. attempt' = [d \in Caller |-> attempt'[d]] /\ position' = [t \in Symbol |-> position'[t]]
      BY DEF EntryInv, Shape
    <2>2. \A d \in Caller : Has(Entry, attempt'[d])
      BY <1>1 DEF EntryInv, Shape
    <2>3. \A t \in Symbol : Has(Position, position'[t])
      BY <1>2 DEF EntryInv, Shape
    <2>4. \A d \in Caller : attempt'[d].phase # "idle" => attempt'[d].signal \in Signals
      BY <1>0, <1>1 DEF EntryInv, Shape
    <2> QED
      BY <2>1, <2>2, <2>3, <2>4 DEF Shape
  <1>4. /\ \A d \in Caller : attempt'[d].phase \in InFlight =>
              attempt[d].phase \in InFlight /\ SymbolOf(d)' = SymbolOf(d)
        /\ \A d \in Caller \ {c} : attempt[d].phase \in InFlight =>
              SymbolOf(d) # s /\ SymbolOf(d) \in Symbol
    <2>1. \A d \in Caller : attempt'[d].phase \in InFlight =>
             attempt[d].phase \in InFlight /\ SymbolOf(d)' = SymbolOf(d)
      BY <1>1 DEF InFlight, Filled, SymbolOf
    <2>2. \A d \in Caller \ {c} : attempt[d].phase \in InFlight =>
             SymbolOf(d) # s /\ SymbolOf(d) \in Symbol
      BY SymbolsOfSignals DEF EntryInv, OwnSymbol, Shape, InFlight, SymbolOf
    <2> QED
      BY <2>1, <2>2
  <1>5. OwnSymbol'
    BY <1>4 DEF EntryInv, OwnSymbol
  <1>6. Checked'
    <2> SUFFICES ASSUME NEW d \in Caller, attempt'[d].phase \in Filled
                 PROVE  /\ position'[SymbolOf(d)'].signal.symbol = SymbolOf(d)'
                        /\ attempt'[d].phase = "costed" => CostsFit(position'[SymbolOf(d)'])
      BY DEF Checked, Filled, CostsFit, Worth, SymbolOf
    <2>1. CASE d = c
      BY <2>1, <1>1, <1>2, <1>4 DEF InFlight, Filled
    <2>2. CASE d # c
      BY <2>2, <1>1, <1>2, <1>4 DEF InFlight, Filled, EntryInv, Checked
    <2> QED
      BY <2>1, <2>2
  <1>7. \A t \in Symbol : WithinRisk(position'[t])
    BY <1>2 DEF EntryInv, KeptWithinRisk, WithinRisk
  <1>8. KeptWithinRisk'
    BY <1>7 DEF KeptWithinRisk, WithinRisk
  <1> QED
    BY <1>3, <1>5, <1>6, <1>8 DEF EntryInv

LEMMA EntryInvBefore ==
    ASSUME EntryInv, NEW c \in Caller,
           \/ Begins(c) \/ Refused(c) \/ FeePreflight(c) \/ SpreadGate(c)
           \/ ReadsAccount(c) \/ Quotes(c) \/ Sizes(c)
    PROVE  EntryInv'
  <1> DEFINE a == attempt[c]
             Ahead == {"gate", "start", "read", "quoted", "sized"}
  <1>0. UNCHANGED <<position, reserved>> /\ Has(Entry, a)
    BY DEF EntryInv, Shape, Begins, Refused, FeePreflight, SpreadGate, ReadsAccount,
           Quotes, Sizes
  <1>1. ASSUME GivesUp(c) PROVE EntryInv'
    BY <1>0, <1>1, IdleShape, BeforeTheOrder DEF GivesUp, Goes, InFlight
  <1>2. ASSUME a.phase # "idle", NEW new, Has(Entry, new), new.phase \in Ahead,
               new.signal = a.signal, Goes(c, new)
        PROVE  EntryInv'
    <2>1. a.signal \in Signals
      BY <1>2 DEF EntryInv, Shape
    <2> QED
      BY <1>0, <1>2, <2>1, BeforeTheOrder DEF Goes, InFlight
  <1>3. CASE Begins(c)
    <2> DEFINE phase == IF c \in Worker THEN "preflight" ELSE "gate"
               new(s) == [Idle EXCEPT !.phase = phase, !.signal = s]
    <2>1. PICK s \in Signals : Goes(c, new(s))
      BY <1>3 DEF Begins
    <2>2. /\ Has(Entry, new(s)) /\ new(s).signal = s /\ new(s).phase = phase
      <3> HIDE DEF phase
      <3> QED
        BY IdleShape DEF Has, Entry
    <2>3. phase \in {"preflight", "gate"}
      OBVIOUS
    <2> HIDE DEF new, phase
    <2> QED
      BY <1>0, <2>1, <2>2, <2>3, BeforeTheOrder DEF Goes, InFlight
  <1>4. CASE Refused(c)
    BY <1>4, <1>1 DEF Refused
  <1>5. CASE FeePreflight(c)
    <2> DEFINE new == [a EXCEPT !.phase = "gate"]
    <2>1. Has(Entry, new) /\ new.phase \in Ahead /\ new.signal = a.signal
      BY <1>0 DEF Has, Entry
    <2>2. a.phase # "idle" /\ (GivesUp(c) \/ Goes(c, new))
      BY <1>5 DEF FeePreflight, At
    <2> HIDE DEF new
    <2> QED
      BY <1>1, <1>2, <2>1, <2>2
  <1>6. CASE SpreadGate(c)
    <2> DEFINE new == [a EXCEPT !.phase = "start"]
    <2>1. Has(Entry, new) /\ new.phase \in Ahead /\ new.signal = a.signal
      BY <1>0 DEF Has, Entry
    <2>2. a.phase # "idle" /\ (GivesUp(c) \/ Goes(c, new))
      BY <1>6 DEF SpreadGate, At
    <2> HIDE DEF new
    <2> QED
      BY <1>1, <1>2, <2>1, <2>2
  <1>7. CASE ReadsAccount(c)
    <2> DEFINE new == [a EXCEPT !.phase = "read", !.seen = ExchangeMargin]
    <2>1. Has(Entry, new) /\ new.phase \in Ahead /\ new.signal = a.signal
      BY <1>0 DEF Has, Entry
    <2>2. a.phase # "idle" /\ Goes(c, new)
      BY <1>7 DEF ReadsAccount, At
    <2> HIDE DEF new
    <2> QED
      BY <1>2, <2>1, <2>2
  <1>8. CASE Quotes(c)
    <2> DEFINE new(q) == [a EXCEPT !.phase = "quoted", !.quote = q]
    <2>1. \A q : Has(Entry, new(q)) /\ new(q).phase \in Ahead /\ new(q).signal = a.signal
      BY <1>0 DEF Has, Entry
    <2>2. a.phase # "idle" /\ (GivesUp(c) \/ \E q : Goes(c, new(q)))
      BY <1>8 DEF Quotes, At
    <2> HIDE DEF new
    <2> QED
      BY <1>1, <1>2, <2>1, <2>2
  <1>9. CASE Sizes(c)
    <2> DEFINE new(n) == [a EXCEPT !.phase = "sized", !.qty = n]
    <2>1. \A n : Has(Entry, new(n)) /\ new(n).phase \in Ahead /\ new(n).signal = a.signal
      BY <1>0 DEF Has, Entry
    <2>2. a.phase # "idle" /\ (GivesUp(c) \/ \E n : Goes(c, new(n)))
      BY <1>9 DEF Sizes, At
    <2> HIDE DEF new
    <2> QED
      BY <1>1, <1>2, <2>1, <2>2
  <1> QED
    BY <1>3, <1>4, <1>5, <1>6, <1>7, <1>8, <1>9

LEMMA EntryInvOrderFails ==
    ASSUME EntryInv, NEW c \in Caller, OrderFails(c)
    PROVE  EntryInv'
  <1>1. \A d \in Caller \ {c} : attempt[d].phase \in InFlight
           /\ SymbolOf(d) \in reserved => SymbolOf(d) \in reserved'
    BY DEF OrderFails, At, EntryInv, OwnSymbol, InFlight, SymbolOf
  <1> QED
    BY <1>1, IdleShape, BeforeTheOrder DEF OrderFails, GivesUp, Goes, InFlight

LEMMA EntryInvReserves ==
    ASSUME EntryInv, NEW c \in Caller, Reserves(c)
    PROVE  EntryInv'
  <1> DEFINE a == attempt[c]
  <1>1. CASE SymbolOf(c) \in reserved
    BY <1>1, IdleShape, BeforeTheOrder DEF Reserves, SymbolOf, GivesUp, Goes, InFlight
  <1>2. CASE SymbolOf(c) \notin reserved
    <2> DEFINE new == [a EXCEPT !.phase = "reserved"]
    <2>1. Has(Entry, new) /\ new.phase = "reserved" /\ new.signal = a.signal
      BY DEF EntryInv, Shape, Has, Entry
    <2>2. attempt' = [attempt EXCEPT ![c] = new]
      BY <1>2 DEF Reserves, Goes, SymbolOf
    <2> HIDE DEF new
    <2>3. attempt'[c] = new /\ \A d \in Caller \ {c} : attempt'[d] = attempt[d]
      BY <2>2 DEF EntryInv, Shape
    <2>4. /\ UNCHANGED position
          /\ reserved' = reserved \cup {SymbolOf(c)} /\ a.phase = "sized"
      BY <1>2 DEF Reserves, At, SymbolOf
    <2>5. Shape'
      BY <2>1, <2>2, <2>3, <2>4 DEF EntryInv, Shape
    <2>6. \A d \in Caller : SymbolOf(d)' = SymbolOf(d)
      BY <2>1, <2>3 DEF SymbolOf
    <2>7. OwnSymbol'
      BY <1>2, <2>1, <2>3, <2>4, <2>6 DEF EntryInv, OwnSymbol, InFlight
    <2>8. Checked'
      <3> SUFFICES ASSUME NEW d \in Caller, attempt'[d].phase \in Filled
                   PROVE  /\ position'[SymbolOf(d)'].signal.symbol = SymbolOf(d)'
                          /\ attempt'[d].phase = "costed" => CostsFit(position'[SymbolOf(d)'])
        BY DEF Checked, Filled, CostsFit, Worth, SymbolOf
      <3>1. attempt'[d] = attempt[d]
        BY <2>1, <2>3 DEF Filled
      <3> QED
        BY <3>1, <2>4, <2>6 DEF EntryInv, Checked
    <2> QED
      BY <2>4, <2>5, <2>7, <2>8 DEF EntryInv, KeptWithinRisk
  <1> QED
    BY <1>1, <1>2

\* After a check that fails, the position is closed, or left unprotected.
LEMMA EntryInvCloses ==
    ASSUME EntryInv, NEW c \in Caller, attempt[c].phase \in Filled,
           ClosesAtOnce(c), UNCHANGED reserved
    PROVE  EntryInv'
  <1> DEFINE s == SymbolOf(c)
  <1>1. s \in Symbol /\ attempt[c].phase \in InFlight
    BY SymbolsOfSignals DEF EntryInv, Shape, Filled, InFlight, SymbolOf
  <1>2. attempt' = [attempt EXCEPT ![c] = Idle]
    BY DEF ClosesAtOnce, GivesUp, Goes
  <1>3. ASSUME NEW p, Has(Position, p), p.state \notin {"kept", "degraded"},
               position' = [position EXCEPT ![s] = p]
        PROVE  EntryInv'
    BY <1>1, <1>2, <1>3, IdleShape, OnItsOwnPosition DEF WithinRisk, Filled
  <1>4. CASE position' = [position EXCEPT ![s] = NoPosition]
    <2>1. Has(Position, NoPosition) /\ NoPosition.state = "none"
      BY DEF Has, Position, NoPosition
    <2> QED
      BY <1>3, <1>4, <2>1
  <1>5. CASE position' = [position EXCEPT ![s].state = "unsafe"]
    <2> DEFINE p == [position[s] EXCEPT !.state = "unsafe"]
    <2>1. Has(Position, p) /\ p.state = "unsafe"
      BY <1>1 DEF EntryInv, Shape, Has, Position
    <2>2. position' = [position EXCEPT ![s] = p]
      BY <1>5
    <2> HIDE DEF p
    <2> QED
      BY <1>3, <2>1, <2>2
  <1> QED
    BY <1>4, <1>5 DEF ClosesAtOnce, SymbolOf

LEMMA EntryInvFills ==
    ASSUME EntryInv, NEW c \in Caller, Fills(c)
    PROVE  EntryInv'
  <1> DEFINE a == attempt[c]
             new == [a EXCEPT !.phase = "filled"]
             p(f, n, q) == [state |-> "new", signal |-> a.signal, quote |-> a.quote,
                            fill |-> f, qty |-> n, fee |-> q,
                            target |-> SignalTarget(a.signal)]
  <1>1. Has(Entry, new) /\ new.phase = "filled" /\ new.signal = a.signal
    BY DEF EntryInv, Shape, Has, Entry
  <1>2. \A f, n, q : /\ Has(Position, p(f, n, q)) /\ p(f, n, q).state = "new"
                     /\ p(f, n, q).signal = a.signal
    BY DEF Has, Position
  <1>3. /\ a.phase \in InFlight /\ attempt' = [attempt EXCEPT ![c] = new]
        /\ UNCHANGED reserved
        /\ \E f, n, q : position' = [position EXCEPT ![SymbolOf(c)] = p(f, n, q)]
    BY DEF Fills, At, Goes, InFlight, SymbolOf
  <1>4. PICK f, n, q : position' = [position EXCEPT ![SymbolOf(c)] = p(f, n, q)]
    BY <1>3
  <1>5. p(f, n, q).signal.symbol = SymbolOf(c) /\ WithinRisk(p(f, n, q))
    BY <1>2 DEF SymbolOf, WithinRisk
  <1> HIDE DEF new, p
  <1> QED
    BY <1>1, <1>2, <1>3, <1>4, <1>5, OnItsOwnPosition DEF Filled

\* A check that is passed changes the caller's phase and no position.
LEMMA EntryInvPasses ==
    ASSUME EntryInv, NEW c \in Caller, attempt[c].phase \in Filled,
           NEW phase \in Filled,
           phase = "costed" => CostsFit(position[SymbolOf(c)]),
           Goes(c, [attempt[c] EXCEPT !.phase = phase]), UNCHANGED <<position, reserved>>
    PROVE  EntryInv'
  <1> DEFINE new == [attempt[c] EXCEPT !.phase = phase]
             s == SymbolOf(c)
  <1>1. s \in Symbol /\ attempt[c].phase \in InFlight
    BY SymbolsOfSignals DEF EntryInv, Shape, Filled, InFlight, SymbolOf
  <1>2. Has(Entry, new) /\ new.phase = phase /\ new.signal = attempt[c].signal
    BY DEF EntryInv, Shape, Has, Entry
  <1>3. position' = [position EXCEPT ![s] = position[s]]
    BY <1>1 DEF EntryInv, Shape
  <1>4. Has(Position, position[s]) /\ WithinRisk(position[s])
    BY <1>1 DEF EntryInv, Shape, KeptWithinRisk, WithinRisk
  <1>5. position[s].signal.symbol = s
    BY DEF EntryInv, Checked
  <1>6. attempt' = [attempt EXCEPT ![c] = new] /\ UNCHANGED reserved
    BY DEF Goes
  <1> HIDE DEF new, s
  <1> QED
    BY <1>1, <1>2, <1>3, <1>4, <1>5, <1>6, OnItsOwnPosition DEF s

LEMMA EntryInvChecks ==
    ASSUME EntryInv, NEW c \in Caller, Protects(c) \/ ChecksCosts(c)
    PROVE  EntryInv'
  <1>1. attempt[c].phase \in Filled /\ UNCHANGED reserved
    BY DEF Protects, ChecksCosts, At, Filled
  <1>2. CASE ClosesAtOnce(c)
    BY <1>1, <1>2, EntryInvCloses
  <1>3. CASE Protects(c) /\ ~ClosesAtOnce(c)
    BY <1>1, <1>3, EntryInvPasses DEF Protects, Filled
  <1>4. CASE ChecksCosts(c) /\ ~ClosesAtOnce(c)
    BY <1>1, <1>4, EntryInvPasses DEF ChecksCosts, Filled, SymbolOf
  <1> QED
    BY <1>2, <1>3, <1>4

LEMMA EntryInvProfile ==
    ASSUME EntryInv, NEW c \in Caller, ProfileFails(c) \/ InstallsProfile(c)
    PROVE  EntryInv'
  <1> DEFINE s == SymbolOf(c)
             old == position[s]
             p == Managed(old)
  <1>1. /\ attempt[c].phase = "costed" /\ UNCHANGED reserved
        /\ attempt[c].phase \in InFlight /\ attempt[c].phase \in Filled
    BY DEF ProfileFails, InstallsProfile, At, InFlight, Filled
  <1>2. s \in Symbol /\ old.signal.symbol = s /\ CostsFit(old)
    BY <1>1, SymbolsOfSignals DEF EntryInv, Shape, Checked, SymbolOf
  <1>3. NetRisk(old.fill, Stop(old.signal), old.qty, FeeOf(old)) <= Tolerated(Risk)
    BY <1>2 DEF CostsFit
  <1>4. /\ p.signal = old.signal /\ p.fill = old.fill /\ p.qty = old.qty
        /\ p.fee = old.fee /\ Has(Position, p)
    BY <1>2, ManagedKeepsRisk DEF EntryInv
  <1>5. ASSUME NEW state \in {"kept", "degraded"}, NEW q, q = [p EXCEPT !.state = state],
               state = "kept" => CostsFit(p), Keeps(c, q)
        PROVE  EntryInv'
    <2> HIDE DEF p, old
    <2>1. /\ q.state = state /\ q.signal = p.signal /\ q.fill = p.fill /\ q.qty = p.qty
          /\ q.fee = p.fee /\ q.target = p.target /\ Has(Position, q)
      BY <1>4, <1>5 DEF Has, Position
    <2>2. FeeOf(q) = FeeOf(p) /\ FeeOf(q) = FeeOf(old)
      BY <1>4, <2>1 DEF FeeOf
    <2>3. WithinRisk(q)
      BY <1>3, <1>4, <1>5, <2>1, <2>2 DEF WithinRisk, CostsFit
    <2>4. q.signal.symbol = s /\ position' = [position EXCEPT ![s] = q]
      BY <1>2, <1>4, <1>5, <2>1 DEF Keeps
    <2>5. attempt' = [attempt EXCEPT ![c] = Idle]
      BY <1>5 DEF Keeps, GivesUp, Goes
    <2> QED
      BY <1>1, <2>1, <2>3, <2>4, <2>5, IdleShape, OnItsOwnPosition DEF Filled
  <1>6. CASE ProfileFails(c)
    BY <1>5, <1>6 DEF ProfileFails, SymbolOf
  <1>7. CASE InstallsProfile(c)
    <2>1. CASE CostsFit(p)
      BY <1>5, <1>7, <2>1 DEF InstallsProfile, SymbolOf
    <2>2. CASE ~CostsFit(p)
      BY <1>1, <1>7, <2>2, EntryInvCloses DEF InstallsProfile, SymbolOf
    <2> QED
      BY <2>1, <2>2
  <1> QED
    BY <1>6, <1>7

LEMMA EntryInvSettles ==
    ASSUME EntryInv, NEW s \in Symbol, Settles(s)
    PROVE  EntryInv'
  <1>1. \A c \in Caller : attempt[c].phase \in InFlight => SymbolOf(c) # s
    BY DEF Settles, InFlight, SymbolOf
  <1>2. /\ UNCHANGED attempt /\ reserved' = reserved \ {s}
        /\ position' = [position EXCEPT ![s] = NoPosition]
    BY DEF Settles
  <1>3. /\ position' = [t \in Symbol |-> position'[t]] /\ position'[s] = NoPosition
        /\ \A t \in Symbol \ {s} : position'[t] = position[t]
    BY <1>2 DEF EntryInv, Shape
  <1>4. Has(Position, NoPosition) /\ NoPosition.state = "none"
    BY DEF Has, Position, NoPosition
  <1>5. Shape'
    BY <1>2, <1>3, <1>4 DEF EntryInv, Shape
  <1>6. OwnSymbol'
    BY <1>1, <1>2 DEF EntryInv, OwnSymbol, SymbolOf
  <1>7. Checked'
    <2> SUFFICES ASSUME NEW c \in Caller, attempt[c].phase \in Filled
                 PROVE  /\ position'[SymbolOf(c)].signal.symbol = SymbolOf(c)
                        /\ attempt[c].phase = "costed" => CostsFit(position'[SymbolOf(c)])
      BY <1>2 DEF Checked, Filled, CostsFit, Worth, SymbolOf
    <2>1. SymbolOf(c) \in Symbol \ {s}
      BY <1>1, SymbolsOfSignals DEF EntryInv, Shape, Filled, InFlight, SymbolOf
    <2> QED
      BY <1>3, <2>1 DEF EntryInv, Checked
  <1>8. \A t \in Symbol : WithinRisk(position'[t])
    BY <1>3, <1>4 DEF EntryInv, KeptWithinRisk, WithinRisk
  <1> QED
    BY <1>5, <1>6, <1>7, <1>8 DEF EntryInv, KeptWithinRisk, WithinRisk

LEMMA EntryInvStep ==
    ASSUME EntryInv, [Next]_vars
    PROVE  EntryInv'
  <1>1. CASE UNCHANGED vars
    <2>1. UNCHANGED <<attempt, reserved, position>>
      BY <1>1 DEF vars
    <2>2. Shape' /\ OwnSymbol'
      BY <2>1 DEF EntryInv, Shape, OwnSymbol, SymbolOf
    <2>3. Checked'
      BY <2>1 DEF EntryInv, Checked, SymbolOf, CostsFit, Worth
    <2> QED
      BY <2>1, <2>2, <2>3 DEF EntryInv, KeptWithinRisk
  <1>2. CASE Next
    BY <1>2, EntryInvBefore, EntryInvReserves, EntryInvOrderFails, EntryInvFills,
       EntryInvChecks, EntryInvProfile, EntryInvSettles DEF Next
  <1> QED
    BY <1>1, <1>2

\* Whatever the price does between quote and fill, whatever fee is charged and
\* however many callers enter at once, a position that is kept loses no more
\* than the risk amount at its stop and is worth its reward when its profile
\* was installed.
THEOREM RiskIsKept == Spec => []KeptWithinRisk
  <1>1. Init => EntryInv
    BY EntryInvInit
  <1>2. EntryInv /\ [Next]_vars => EntryInv'
    BY EntryInvStep
  <1>3. EntryInv => KeptWithinRisk
    BY DEF EntryInv
  <1> QED
    BY <1>1, <1>2, <1>3, PTL DEF Spec

-----------------------------------------------------------------------------
(* The quantity.                                                           *)

\* Integer division, for a divisor that is not a numeral.
LEMMA Division ==
    ASSUME NEW a \in Int, NEW b \in Nat \ {0}
    PROVE  /\ a \div b \in Int
           /\ b * (a \div b) <= a /\ a < b * (a \div b) + b
  OBVIOUS

LEMMA MultiplesUpTo ==
    ASSUME NEW a \in Int, NEW b \in Nat \ {0}, NEW n \in Int
    PROVE  n * b <= a <=> n <= a \div b
  <1> DEFINE q == a \div b
  <1>1. q \in Int /\ b * q <= a /\ a < b * q + b
    BY Division
  <1>2. ASSUME n <= q PROVE n * b <= q * b
    BY <1>1, <1>2, Z3
  <1>3. ASSUME n > q PROVE n * b >= (q + 1) * b
    BY <1>1, <1>3, Z3
  <1>4. (q + 1) * b = b * q + b /\ q * b = b * q
    BY <1>1, Z3
  <1> HIDE DEF q
  <1>5. n * b \in Int /\ q * b \in Int /\ b * q \in Int
    BY <1>1
  <1> QED
    BY <1>1, <1>2, <1>3, <1>4, <1>5

\* Rounding down gives the largest multiple of the step that is not above.
LEMMA FlooredIsLargest ==
    ASSUME NEW a \in Nat, NEW b \in Nat \ {0}
    PROVE  /\ Floored(a, b) \in Nat /\ Floored(a, b) <= a /\ Floored(a, b) % b = 0
           /\ \A n \in Nat : n % b = 0 /\ n <= a => n <= Floored(a, b)
           /\ a % b = 0 => Floored(a, b) = a
  <1> DEFINE q == a \div b
  <1>1. q \in Nat /\ b * q <= a /\ a < b * q + b
    BY Division, Z3
  <1>2. Floored(a, b) = q * b /\ q * b = b * q /\ q * b \in Nat
    BY <1>1, Z3 DEF Floored
  <1>3. (q * b) % b = 0
    BY <1>1, Z3
  <1>4. ASSUME NEW n \in Nat, n % b = 0, n <= a PROVE n <= q * b
    <2>1. n = (n \div b) * b /\ n \div b \in Int
      BY <1>4, Z3
    <2>2. n \div b <= q
      BY <1>4, <2>1, MultiplesUpTo
    <2>3. (n \div b) * b <= q * b
      BY <1>1, <2>1, <2>2, Z3
    <2> QED
      BY <2>1, <2>3
  <1> HIDE DEF q
  <1>5. a % b = 0 => a = q * b
    BY <1>1, <1>2, <1>4
  <1> QED
    BY <1>1, <1>2, <1>3, <1>4, <1>5

LEMMA Times ==
    ASSUME NEW n \in Nat \ {0}, NEW a \in Int, NEW b \in Int
    PROVE  /\ n * a >= n * b <=> a >= b
           /\ n * a > 0 <=> a > 0
  BY Z3

LEMMA Commutes ==
    ASSUME NEW n \in Int, NEW a \in Int, NEW b \in Int
    PROVE  a * (n * b) = n * (a * b)
  BY Z3

\* What an integer is worth per unit it is worth for every quantity.
LEMMA LinearInQuantity ==
    ASSUME NEW e \in Int, NEW x \in Int, NEW n \in Int
    PROVE  /\ NetRisk(e, x, n, FeeBps) = n * NetRisk(e, x, 1, FeeBps)
           /\ NetReward(e, x, n, FeeBps) = n * NetReward(e, x, 1, FeeBps)
           /\ NetRisk(e, x, 1, FeeBps) \in Int /\ NetReward(e, x, 1, FeeBps) \in Int
  <1> DEFINE d == Distance(e, x)
             y == x * (FeeBps + SlipBps) + e * SlipBps
  <1>1. FeeBps \in Nat /\ SlipBps \in Nat
    BY SizingAssumption
  <1>2. d \in Int
    BY DEF Distance
  <1>3. y \in Int
    BY <1>1
  <1>4. \A m \in Int : /\ NetRisk(e, x, m, FeeBps) = d * m * 10000 + e * m * FeeBps + m * y
                       /\ NetReward(e, x, m, FeeBps) = d * m * 10000 - e * m * FeeBps - m * y
    BY DEF NetRisk, NetReward, EntryFee, ExitCosts, Bps
  <1> HIDE DEF d, y
  <1>5. d * n * 10000 + e * n * FeeBps + n * y
          = n * (d * 1 * 10000 + e * 1 * FeeBps + 1 * y)
    BY <1>1, <1>2, <1>3, Z3
  <1>6. d * n * 10000 - e * n * FeeBps - n * y
          = n * (d * 1 * 10000 - e * 1 * FeeBps - 1 * y)
    BY <1>1, <1>2, <1>3, Z3
  <1>7. NetRisk(e, x, 1, FeeBps) \in Int /\ NetReward(e, x, 1, FeeBps) \in Int
    BY <1>1, <1>2, <1>3, <1>4
  <1> QED
    BY <1>4, <1>5, <1>6, <1>7

LEMMA SignalFields ==
    ASSUME NEW s \in Signals
    PROVE  /\ s.symbol \in Symbol /\ s.entry \in Nat \ {0} /\ s.stop \in Nat \ {0}
           /\ s.type \in {"scalping", "intraday"}
           /\ Contract[s.symbol].step \in Nat \ {0}
           /\ Contract[s.symbol].minQty \in Nat /\ Contract[s.symbol].minNotional \in Nat
           /\ Contract[s.symbol].minQty % Contract[s.symbol].step = 0
  BY SizingAssumption

\* With valid geometry a unit loses something at the stop.
LEMMA UnitLosesAtStop ==
    ASSUME NEW e \in Int, NEW x \in Int, e > 0, x > 0, e # x
    PROVE  NetRisk(e, x, 1, FeeBps) >= Bps
  <1>1. FeeBps \in Nat /\ SlipBps \in Nat
    BY SizingAssumption
  <1>2. Distance(e, x) \in Int /\ Distance(e, x) >= 1
    BY DEF Distance
  <1>3. e * 1 * FeeBps >= 0 /\ x * (FeeBps + SlipBps) >= 0 /\ e * SlipBps >= 0
    BY <1>1, Z3
  <1> HIDE DEF Distance
  <1>4. 1 * (x * (FeeBps + SlipBps) + e * SlipBps) >= 0
    BY <1>1, <1>3
  <1>5. Distance(e, x) * 1 * 10000 >= 10000
    BY <1>2
  <1> QED
    BY <1>1, <1>2, <1>3, <1>4, <1>5 DEF NetRisk, EntryFee, ExitCosts, Bps

\* A trade is worth its reward for one unit exactly when it is for any number.
LEMMA WorthAnyQuantity ==
    ASSUME NEW s \in Signals, NEW e \in Int, NEW n \in Nat \ {0}
    PROVE  Worth(s, e, s.stop, SignalTarget(s), n, FeeBps)
             <=> Worth(s, e, s.stop, SignalTarget(s), 1, FeeBps)
  <1> DEFINE t == SignalTarget(s)
             m == Profile[s.type].minRR
             gain == NetReward(e, t, 1, FeeBps)
             loss == NetRisk(e, s.stop, 1, FeeBps)
  <1>1. s.stop \in Int /\ s.entry \in Int /\ s.type \in {"scalping", "intraday"}
    BY SignalFields
  <1>2. m \in Nat /\ Profile[s.type].runner \in Nat
    BY <1>1 DEF Profile
  <1>3. t \in Int
    <2>1. Distance(s.entry, s.stop) \in Int
      BY <1>1 DEF Distance
    <2>2. Distance(s.entry, s.stop) * Profile[s.type].runner \in Int
      BY <1>2, <2>1
    <2> QED
      BY <1>1, <2>2 DEF SignalTarget, RunnerTarget, PriceAtR
  <1>4. /\ NetReward(e, t, n, FeeBps) = n * gain /\ gain \in Int
        /\ NetRisk(e, s.stop, n, FeeBps) = n * loss /\ loss \in Int
    <2> HIDE DEF t
    <2>1. n \in Int
      OBVIOUS
    <2> QED
      BY <1>1, <1>3, <2>1, LinearInQuantity
  <1>5. \A k \in {1, n} :
           Worth(s, e, s.stop, t, k, FeeBps) <=>
             /\ NetReward(e, t, k, FeeBps) > 0
             /\ 10 * NetReward(e, t, k, FeeBps) >= m * NetRisk(e, s.stop, k, FeeBps)
    BY DEF Worth
  <1>6. /\ Worth(s, e, s.stop, t, 1, FeeBps) <=> gain > 0 /\ 10 * gain >= m * loss
        /\ Worth(s, e, s.stop, t, n, FeeBps) <=>
             n * gain > 0 /\ 10 * (n * gain) >= m * (n * loss)
    BY <1>4, <1>5
  <1> HIDE DEF gain, loss, t, m
  <1>7. n * gain > 0 <=> gain > 0
    BY <1>4, Times
  <1>8. 10 * (n * gain) = n * (10 * gain) /\ m * (n * loss) = n * (m * loss)
    BY <1>2, <1>4, Commutes
  <1>9. 10 * gain \in Int /\ m * loss \in Int
    BY <1>2, <1>4
  <1>10. n * (10 * gain) >= n * (m * loss) <=> 10 * gain >= m * loss
    BY <1>9, Times
  <1> QED
    BY <1>6, <1>7, <1>8, <1>10 DEF t

LEMMA MinIs ==
    ASSUME NEW S, NEW m \in S, \A n \in S : n \in Nat /\ n >= m
    PROVE  m = Min(S)
  <1> DEFINE least == CHOOSE x \in S : \A y \in S : x =< y
  <1>1. \E x \in S : \A y \in S : x =< y
    OBVIOUS
  <1>2. least \in S /\ \A y \in S : least =< y
    BY <1>1
  <1>3. least <= m /\ m <= least /\ least \in Nat /\ m \in Nat
    BY <1>2
  <1>4. Min(S) = least
    BY DEF Min
  <1> HIDE DEF least
  <1> QED
    BY <1>3, <1>4

\* The quantities the exchange accepts with a loss up to an amount.
LEMMA AffordableIs ==
    ASSUME NEW s \in Signals, NEW e \in Int, NEW amount \in Nat, NEW loss \in Int,
           loss >= Bps, amount <= Tolerated(Budget),
           \A n \in Int : NetRisk(e, s.stop, n, FeeBps) = n * loss,
           Tolerated(Budget) \in Nat,
           NEW n
    PROVE  n \in Affordable(s, e, amount) <=>
             /\ n \in Nat \ {0} /\ n % Contract[s.symbol].step = 0
             /\ n >= Contract[s.symbol].minQty /\ n * e >= Contract[s.symbol].minNotional
             /\ n * loss <= amount
  <1> DEFINE all == Tolerated(Budget)
  <1>1. ASSUME n \in Nat \ {0}, n * loss <= amount PROVE n \in 1 .. all \div Bps
    <2>1. n * loss >= n * Bps
      BY <1>1, Times DEF Bps
    <2>2. n * loss \in Int /\ n * Bps <= all
      BY <1>1, <2>1 DEF Bps
    <2>3. n \in Int /\ all \in Int /\ Bps \in Nat \ {0}
      BY <1>1 DEF Bps
    <2>4. n <= all \div Bps
      BY <2>2, <2>3, MultiplesUpTo
    <2>5. all \div Bps \in Int
      BY <2>3, Division
    <2> QED
      BY <1>1, <2>4, <2>5
  <1>2. ASSUME n \in 1 .. all \div Bps PROVE n \in Nat \ {0}
    BY <1>2
  <1> HIDE DEF all
  <1> QED
    BY <1>1, <1>2 DEF Affordable, Accepted, all

\* calculate_position_size, for every signal, price and margin read.
LEMMA SizeIsExact ==
    ASSUME NEW s \in Signals, NEW e \in Int, NEW seen,
           ValidGeometry(s.direction, e, s.stop, SignalTarget(s)),
           NEW size, size = Size(s, e, SignalTarget(s), seen)
    PROVE  IF Affordable(s, e, Budget) # {}
           THEN size = IF PassesLimits(s, e, Max(Affordable(s, e, Budget)), seen)
                       THEN Max(Affordable(s, e, Budget)) ELSE 0
           ELSE size > 0 => /\ size = Min(Accepted(s, e))
                            /\ size \in Affordable(s, e, Tolerated(Budget))
                            /\ PassesLimits(s, e, size, seen)
  <1> DEFINE step == Contract[s.symbol].step
             minQty == Contract[s.symbol].minQty
             minNotional == Contract[s.symbol].minNotional
             loss == NetRisk(e, s.stop, 1, FeeBps)
             all == Tolerated(Budget)
             best == BudgetQuantity(s, e)
             raised == Raised(s, e)
             target == SignalTarget(s)
             IsAccepted(n) == n % step = 0 /\ n >= minQty /\ n * e >= minNotional
  <1>1. /\ s.stop \in Nat \ {0} /\ step \in Nat \ {0}
        /\ minQty \in Nat /\ minNotional \in Nat /\ minQty % step = 0
    BY SignalFields
  <1>2. e > 0 /\ e # s.stop
    BY <1>1 DEF ValidGeometry
  <1>3. Budget \in Nat /\ all \in Nat /\ Budget <= all
    <2>1. Risk \in Nat
      BY SizingAssumption DEF Risk, Bps
    <2>2. Budget \in Nat
      BY <2>1 DEF Budget
    <2> QED
      BY <2>2 DEF Tolerated
  <1>4. loss \in Int /\ loss >= Bps /\ \A n \in Int : NetRisk(e, s.stop, n, FeeBps) = n * loss
    <2>1. s.stop \in Int /\ s.stop > 0 /\ 1 \in Int
      BY <1>1
    <2>2. loss >= Bps
      BY <1>2, <2>1, UnitLosesAtStop
    <2>3. loss \in Int /\ \A n \in Int : NetRisk(e, s.stop, n, FeeBps) = n * loss
      BY <2>1, LinearInQuantity
    <2> QED
      BY <2>2, <2>3
  <1>5. \A n : n \in Affordable(s, e, Budget) <=>
                 n \in Nat \ {0} /\ IsAccepted(n) /\ n * loss <= Budget
    BY <1>3, <1>4, AffordableIs
  <1>6. \A n : n \in Affordable(s, e, all) <=>
                 n \in Nat \ {0} /\ IsAccepted(n) /\ n * loss <= all
    BY <1>3, <1>4, AffordableIs
  <1>7. /\ best \in Nat /\ best % step = 0 /\ best * loss <= Budget
        /\ \A n \in Nat : n % step = 0 /\ n * loss <= Budget => n <= best
    <2> DEFINE most == Budget \div loss
    <2>1. loss \in Nat \ {0}
      BY <1>4 DEF Bps
    <2>2. most \in Nat /\ \A n \in Int : n * loss <= Budget <=> n <= most
      <3>1. most \in Int /\ 0 * loss <= Budget
        BY <1>3, <2>1, Division
      <3>2. \A n \in Int : n * loss <= Budget <=> n <= most
        BY <1>3, <2>1, MultiplesUpTo
      <3>3. 0 <= most
        BY <3>1, <3>2
      <3> QED
        BY <3>1, <3>2, <3>3
    <2>3. best = Floored(most, step)
      BY DEF BudgetQuantity
    <2> HIDE DEF most, best, loss, step
    <2>4. /\ best \in Nat /\ best <= most /\ best % step = 0
          /\ \A n \in Nat : n % step = 0 /\ n <= most => n <= best
      BY <1>1, <2>2, <2>3, FlooredIsLargest
    <2> QED
      BY <2>2, <2>4
  <1>8. raised \in Nat /\ (best >= minQty /\ best * e >= minNotional => raised = best)
    <2> DEFINE sure == IF best < minQty THEN Floored(minQty, step) ELSE best
    <2>1. Floored(minQty, step) \in Nat
      BY <1>1, FlooredIsLargest
    <2>2. minNotional \div e \in Nat
      BY <1>1, <1>2, Division, Z3
    <2>3. Floored(minNotional \div e, step) \in Nat
      BY <1>1, <2>2, FlooredIsLargest
    <2>4. raised = IF sure * e < minNotional THEN Floored(minNotional \div e, step) ELSE sure
      BY DEF Raised
    <2> HIDE DEF best, step, minQty, minNotional, raised
    <2>5. sure \in Nat
      BY <1>7, <2>1
    <2>6. best >= minQty => sure = best
      BY <1>1, <1>7
    <2> HIDE DEF sure
    <2>7. best * e \in Int
      BY <1>7
    <2> QED
      BY <1>1, <2>3, <2>4, <2>5, <2>6, <2>7
  <1>9. raised > 0 => (Worth(s, e, s.stop, target, raised, FeeBps)
                         <=> Worth(s, e, s.stop, target, 1, FeeBps))
    BY <1>8, WorthAnyQuantity
  <1>10. NetRisk(e, s.stop, raised, FeeBps) = raised * loss
    BY <1>4, <1>8
  <1>11. size = IF /\ best > 0 /\ raised > 0 /\ raised * e >= minNotional
                   /\ raised * loss <= all /\ PassesLimits(s, e, raised, seen)
                THEN raised ELSE 0
    BY <1>9, <1>10 DEF Size, WithinBudget, PassesLimits
  <1> DEFINE fits == Affordable(s, e, Budget)
  <1>12. CASE fits # {}
    <2>1. PICK n \in fits : TRUE
      BY <1>12
    <2>2. best >= n /\ best >= minQty /\ best * e >= minNotional /\ best > 0
      <3> HIDE DEF fits, best, loss, step, minQty, minNotional
      <3>1. n \in Nat \ {0} /\ IsAccepted(n) /\ best >= n
        BY <1>5, <1>7, <2>1 DEF fits
      <3>2. n * e \in Int /\ best * e \in Int /\ best * e >= n * e
        BY <1>2, <1>7, <3>1, Z3
      <3> QED
        BY <1>1, <1>7, <3>1, <3>2
    <2>3. raised = best
      BY <1>8, <2>2
    <2>4. best \in fits /\ \A k \in fits : best >= k
      <3> HIDE DEF fits, best, loss, step, minQty, minNotional
      <3> QED
        BY <1>5, <1>7, <2>2 DEF fits
    <2>5. Max(fits) = best
      <3> HIDE DEF fits, best
      <3>1. \A k \in fits : k \in Nat
        BY <1>5 DEF fits
      <3> QED
        BY <2>4, <3>1 DEF Max
    <2>6. best * loss <= all
      <3> HIDE DEF best, loss, all
      <3>1. best * loss \in Int
        BY <1>4, <1>7
      <3> QED
        BY <1>3, <1>7, <3>1
    <2> HIDE DEF best, raised, all, loss, fits
    <2>7. size = IF PassesLimits(s, e, best, seen) THEN best ELSE 0
      BY <1>11, <2>2, <2>3, <2>6
    <2> QED
      BY <1>12, <2>5, <2>7 DEF fits
  <1>13. CASE fits = {} /\ size > 0
    <2>1. /\ size = raised /\ best > 0 /\ raised > 0 /\ raised * e >= minNotional
          /\ raised * loss <= all /\ PassesLimits(s, e, raised, seen)
      BY <1>11, <1>13
    <2>2. ~(best >= minQty /\ best * e >= minNotional)
      BY <1>5, <1>7, <1>13, <2>1
    <2> DEFINE sure == IF best < minQty THEN Floored(minQty, step) ELSE best
               least == Floored(minNotional \div e, step)
    <2>3. Floored(minQty, step) = minQty
      BY <1>1, FlooredIsLargest
    <2>4. raised = IF sure * e < minNotional THEN least ELSE sure
      BY DEF Raised
    <2>5. minNotional \div e \in Nat /\ e * (minNotional \div e) <= minNotional
      <3>1. e \in Nat \ {0} /\ 0 * e <= minNotional
        BY <1>1, <1>2
      <3>2. minNotional \div e \in Int /\ 0 <= minNotional \div e
        BY <1>1, <3>1, MultiplesUpTo, Division
      <3> HIDE DEF minNotional
      <3>3. e * (minNotional \div e) <= minNotional
        BY <1>1, <3>1, Division
      <3> QED
        BY <1>1, <3>1, <3>2, <3>3
    <2>6. least \in Nat /\ least % step = 0 /\ least <= minNotional \div e
      BY <1>1, <2>5, FlooredIsLargest
    <2>7. least * e <= minNotional
      <3> HIDE DEF least
      <3> QED
        BY <1>1, <1>2, <2>5, <2>6, MultiplesUpTo
    <2> HIDE DEF best, raised, loss, step, minQty, minNotional, fits, all, least
    <2>8. sure \in Nat /\ sure >= minQty /\ sure % step = 0
      BY <1>1, <1>7, <2>3
    <2> HIDE DEF sure
    <2>9. /\ raised % step = 0 /\ raised >= minQty
          /\ \A n \in Nat : IsAccepted(n) => n >= raised
      <3>1. CASE sure * e < minNotional
        <4>1. raised * e = minNotional /\ raised % step = 0
          BY <1>1, <1>8, <2>1, <2>4, <2>6, <2>7, <3>1
        <4>2. sure < raised
          BY <1>2, <1>8, <2>8, <3>1, <4>1, Z3
        <4>3. \A n \in Nat : n * e >= minNotional => n >= raised
          BY <1>2, <1>8, <4>1, Z3
        <4> QED
          BY <1>1, <1>8, <2>8, <4>1, <4>2, <4>3
      <3>2. CASE ~(sure * e < minNotional)
        <4>1. raised = sure
          BY <2>4, <3>2
        <4>2. best < minQty
          BY <1>1, <1>2, <1>7, <2>1, <2>2, <4>1 DEF sure
        <4>3. raised = minQty
          BY <2>3, <4>1, <4>2 DEF sure
        <4> QED
          BY <1>1, <4>3
      <3> QED
        BY <3>1, <3>2
    <2>10. raised \in Affordable(s, e, all)
      BY <1>6, <1>8, <2>1, <2>9
    <2>11. raised \in Accepted(s, e)
      BY <2>10 DEF Affordable
    <2>12. \A n \in Accepted(s, e) : n \in Nat /\ IsAccepted(n)
      BY <1>3, Division DEF Accepted, Bps, all, step, minQty, minNotional
    <2>13. raised = Min(Accepted(s, e))
      <3> DEFINE accepted == Accepted(s, e)
      <3>1. \A n \in accepted : n \in Nat /\ n >= raised
        BY <2>9, <2>12
      <3>2. raised \in accepted /\ raised \in Nat
        BY <1>8, <2>11
      <3> HIDE DEF accepted
      <3>3. raised = Min(accepted)
        BY <3>1, <3>2, MinIs
      <3> QED
        BY <3>3 DEF accepted
    <2> QED
      BY <1>13, <2>1, <2>10, <2>13 DEF all, fits
  <1> QED
    BY <1>12, <1>13

-----------------------------------------------------------------------------
(* What a caller that has its quote knows.                                 *)

Quoted ==
    \A c \in Caller :
       At(c, "quoted") =>
          /\ attempt[c].quote \in Int
          /\ ValidGeometry(attempt[c].signal.direction, attempt[c].quote,
                           attempt[c].signal.stop, SignalTarget(attempt[c].signal))

LEMMA QuotedInit == Init => Quoted
  BY DEF Init, Quoted, At, Idle

LEMMA QuotedElsewhere ==
    ASSUME Shape, Quoted, NEW c \in Caller, NEW new, new.phase # "quoted", Goes(c, new)
    PROVE  Quoted'
  <1>1. attempt'[c] = new /\ \A d \in Caller \ {c} : attempt'[d] = attempt[d]
    BY DEF Shape, Goes
  <1>2. ASSUME NEW d \in Caller, attempt'[d].phase = "quoted" PROVE attempt'[d] = attempt[d]
    BY <1>1, <1>2
  <1> QED
    BY <1>2 DEF Quoted, At

LEMMA QuotedQuotes ==
    ASSUME Shape, Quoted, NEW c \in Caller, Quotes(c)
    PROVE  Quoted'
  <1> DEFINE a == attempt[c]
             s == a.signal
             new(q) == [a EXCEPT !.phase = "quoted", !.quote = q]
  <1>1. s \in Signals /\ s.entry \in Int
    BY SignalFields DEF Shape, Quotes, At
  <1>2. CASE GivesUp(c)
    BY <1>2, IdleShape, QuotedElsewhere DEF GivesUp
  <1>3. ASSUME NEW drift \in Drifts, Validated(s, s.entry + drift), Goes(c, new(s.entry + drift))
        PROVE  Quoted'
    <2> DEFINE q == s.entry + drift
    <2>1. q \in Int
      BY <1>1, SizingAssumption
    <2>2. ValidGeometry(s.direction, q, s.stop, SignalTarget(s))
      BY <1>3 DEF Validated, RewardsRisk
    <2>3. new(q).quote = q /\ new(q).signal = s
      BY DEF Shape, Has, Entry
    <2>4. Goes(c, new(q))
      BY <1>3
    <2> HIDE DEF new, q
    <2>5. attempt'[c] = new(q) /\ \A d \in Caller \ {c} : attempt'[d] = attempt[d]
      BY <2>4 DEF Shape, Goes
    <2> QED
      <3> SUFFICES ASSUME NEW d \in Caller, attempt'[d].phase = "quoted"
                   PROVE  /\ attempt'[d].quote \in Int
                          /\ ValidGeometry(attempt'[d].signal.direction, attempt'[d].quote,
                               attempt'[d].signal.stop, SignalTarget(attempt'[d].signal))
        BY DEF Quoted, At, ValidGeometry
      <3>1. CASE d = c
        BY <3>1, <2>1, <2>2, <2>3, <2>5
      <3>2. CASE d # c
        BY <3>2, <2>5 DEF Quoted, At
      <3> QED
        BY <3>1, <3>2
  <1> QED
    BY <1>2, <1>3 DEF Quotes

LEMMA QuotedStep ==
    ASSUME Shape, Quoted, [Next]_vars
    PROVE  Quoted'
  <1>1. CASE UNCHANGED attempt
    BY <1>1 DEF Quoted, At
  <1>2. ASSUME NEW c \in Caller, GivesUp(c) PROVE Quoted'
    BY <1>2, IdleShape, QuotedElsewhere DEF GivesUp
  <1>3. \A c \in Caller : \A p : [attempt[c] EXCEPT !.phase = p].phase = p
    BY DEF Shape, Has, Entry
  <1>4. ASSUME NEW c \in Caller, NEW p, p # "quoted",
               Goes(c, [attempt[c] EXCEPT !.phase = p])
        PROVE  Quoted'
    BY <1>3, <1>4, QuotedElsewhere
  <1>5. ASSUME NEW c \in Caller, Begins(c) PROVE Quoted'
    <2> DEFINE p == IF c \in Worker THEN "preflight" ELSE "gate"
               new(s) == [Idle EXCEPT !.phase = p, !.signal = s]
    <2>1. \E s \in Signals : Goes(c, new(s))
      BY <1>5 DEF Begins
    <2>2. \A s : new(s).phase = p
      <3> HIDE DEF p
      <3> QED
        BY DEF Idle
    <2>3. p # "quoted"
      OBVIOUS
    <2> HIDE DEF new, p
    <2> QED
      BY <2>1, <2>2, <2>3, QuotedElsewhere
  <1>6. ASSUME NEW c \in Caller, ReadsAccount(c) PROVE Quoted'
    <2> DEFINE new == [attempt[c] EXCEPT !.phase = "read", !.seen = ExchangeMargin]
    <2>1. new.phase = "read" /\ Goes(c, new)
      BY <1>6 DEF ReadsAccount, Shape, Has, Entry
    <2> HIDE DEF new
    <2> QED
      BY <2>1, QuotedElsewhere
  <1>7. ASSUME NEW c \in Caller, Sizes(c) PROVE Quoted'
    <2> DEFINE new(n) == [attempt[c] EXCEPT !.phase = "sized", !.qty = n]
    <2>1. \A n : new(n).phase = "sized"
      BY DEF Shape, Has, Entry
    <2>2. GivesUp(c) \/ \E n : Goes(c, new(n))
      BY <1>7 DEF Sizes
    <2> HIDE DEF new
    <2> QED
      BY <1>2, <2>1, <2>2, QuotedElsewhere
  <1>8. ASSUME NEW c \in Caller,
               \/ Refused(c) \/ FeePreflight(c) \/ SpreadGate(c) \/ Reserves(c)
               \/ OrderFails(c) \/ Fills(c)
        PROVE  Quoted'
    BY <1>2, <1>4, <1>8 DEF Refused, FeePreflight, SpreadGate, Reserves, OrderFails, Fills
  <1>9. ASSUME NEW c \in Caller,
               Protects(c) \/ ChecksCosts(c) \/ ProfileFails(c) \/ InstallsProfile(c)
        PROVE  Quoted'
    BY <1>2, <1>4, <1>9 DEF Protects, ChecksCosts, ProfileFails, InstallsProfile,
       ClosesAtOnce, Keeps
  <1>10. ASSUME NEW s \in Symbol, Settles(s) PROVE Quoted'
    BY <1>1, <1>10 DEF Settles
  <1> QED
    BY <1>1, <1>5, <1>6, <1>7, <1>8, <1>9, <1>10, QuotedQuotes DEF Next, vars

\* For every contract, fee, drift and number of callers, an attempt gets the
\* largest quantity the exchange accepts whose loss fits the budget if that one
\* passes the limits, and otherwise none; where none fits, the least the
\* exchange accepts or none, and only with a loss the tolerance covers.
THEOREM SizingStaysExact == Spec => []SizingIsExact
  <1>1. Init => EntryInv /\ Quoted
    BY EntryInvInit, QuotedInit
  <1>2. EntryInv /\ Quoted /\ [Next]_vars => (EntryInv /\ Quoted)'
    BY EntryInvStep, QuotedStep DEF EntryInv
  <1>3. EntryInv /\ Quoted => SizingIsExact
    <2> SUFFICES ASSUME EntryInv, Quoted, NEW c \in Caller, At(c, "quoted")
                 PROVE  LET a    == attempt[c]
                            s    == a.signal
                            fits == Affordable(s, a.quote, Budget)
                            size == Size(s, a.quote, SignalTarget(s), a.seen)
                        IN IF fits # {}
                           THEN size = IF PassesLimits(s, a.quote, Max(fits), a.seen)
                                       THEN Max(fits) ELSE 0
                           ELSE size > 0 =>
                                  /\ size = Min(Accepted(s, a.quote))
                                  /\ size \in Affordable(s, a.quote, Tolerated(Budget))
                                  /\ PassesLimits(s, a.quote, size, a.seen)
      BY DEF SizingIsExact
    <2>1. attempt[c].signal \in Signals
      BY DEF EntryInv, Shape, At
    <2>2. /\ attempt[c].quote \in Int
          /\ ValidGeometry(attempt[c].signal.direction, attempt[c].quote,
                           attempt[c].signal.stop, SignalTarget(attempt[c].signal))
      BY DEF Quoted
    <2> QED
      BY <2>1, <2>2, SizeIsExact
  <1> QED
    BY <1>1, <1>2, <1>3, PTL DEF Spec

-----------------------------------------------------------------------------
(* Sums over finite sets.                                                  *)

LEMMA LeastNatural ==
    ASSUME NEW N, N \subseteq Nat, N # {}
    PROVE  \E n \in N : \A k \in N : n <= k
  <1>1. PICK n \in N : \A k \in N : <<k, n>> \notin OpToRel(<, Nat)
    BY WFMin, NatLessThanWellFounded, Zenon
  <1>2. \A k \in N : ~ (k < n)
    BY <1>1, Zenon DEF OpToRel
  <1> QED
    BY <1>2

\* Induction on the size of a set, as a smallest counterexample.
LEMMA Smallest ==
    ASSUME NEW Sets, Sets # {}, \A T \in Sets : IsFiniteSet(T)
    PROVE  \E T \in Sets : \A U \in Sets : Cardinality(T) <= Cardinality(U)
  <1> DEFINE N == {Cardinality(T) : T \in Sets}
  <1>1. N \subseteq Nat /\ N # {}
    BY FS_CardinalityType
  <1>2. PICK n \in N : \A k \in N : n <= k
    BY <1>1, LeastNatural
  <1> QED
    BY <1>2

LEMMA Removed ==
    ASSUME NEW T, IsFiniteSet(T), NEW x \in T
    PROVE  /\ IsFiniteSet(T \ {x}) /\ Cardinality(T \ {x}) = Cardinality(T) - 1
           /\ Cardinality(T) \in Nat /\ Cardinality(T \ {x}) \in Nat
           /\ Cardinality(T \ {x}) < Cardinality(T)
  <1>1. IsFiniteSet(T \ {x}) /\ Cardinality(T \ {x}) = Cardinality(T) - 1
    BY FS_RemoveElement
  <1>2. Cardinality(T) \in Nat /\ Cardinality(T \ {x}) \in Nat
    BY <1>1, FS_CardinalityType
  <1> QED
    BY <1>1, <1>2

\* How the library sums a function over a set: it picks and removes.
Pick(T) == CHOOSE x \in T : TRUE
Added(w, it, T) == IF T = {} THEN 0 ELSE w[Pick(T)] + it[T \ {Pick(T)}]
Unfolds(it, w, S) == it = [T \in SUBSET S |-> Added(w, it, T)]

LEMMA SumIs ==
    ASSUME NEW w, NEW S
    PROVE  SumFunctionOnSet(w, S) = (CHOOSE it : Unfolds(it, w, S))[S]
  BY DEF SumFunctionOnSet, FoldFunctionOnSet, MapThenFoldSet, Unfolds, Added, Pick

\* The picks end, so there is such a function.
LEMMA SumExists ==
    ASSUME NEW w, NEW S, IsFiniteSet(S)
    PROVE  \E it : Unfolds(it, w, S)
  <1> DEFINE UpTo(n) == {T \in SUBSET S : Cardinality(T) <= n}
             Good(n) == \E h : h = [T \in UpTo(n) |-> Added(w, h, T)]
             Bad == {n \in Nat : ~Good(n)}
  <1>0. \A T \in SUBSET S : IsFiniteSet(T) /\ Cardinality(T) \in Nat
    BY FS_Subset, FS_CardinalityType
  <1>1. Good(0)
    <2>1. UpTo(0) = {{}}
      <3>1. \A T \in UpTo(0) : T = {}
        BY <1>0, FS_EmptySet
      <3>2. {} \in UpTo(0)
        BY FS_EmptySet
      <3> QED
        BY <3>1, <3>2
    <2> DEFINE h == [T \in {{}} |-> 0]
    <2>2. h = [T \in UpTo(0) |-> Added(w, h, T)]
      BY <2>1 DEF Added
    <2> QED
      BY <2>2
  <1>2. ASSUME NEW n \in Nat, Good(n) PROVE Good(n + 1)
    <2>1. PICK h : h = [T \in UpTo(n) |-> Added(w, h, T)]
      BY <1>2
    <2> DEFINE g == [T \in UpTo(n + 1) |-> Added(w, h, T)]
    <2>2. \A T \in UpTo(n) : g[T] = h[T]
      <3> SUFFICES ASSUME NEW T \in UpTo(n) PROVE g[T] = h[T]
        OBVIOUS
      <3>1. T \in UpTo(n + 1)
        BY <1>0
      <3>2. g[T] = Added(w, h, T)
        BY <3>1
      <3> QED
        BY <2>1, <3>2
    <2>3. ASSUME NEW T \in UpTo(n + 1) PROVE Added(w, g, T) = Added(w, h, T)
      <3>1. CASE T = {}
        BY <3>1 DEF Added
      <3>2. CASE T # {}
        <4>1. Pick(T) \in T
          BY <3>2 DEF Pick
        <4>2. T \ {Pick(T)} \in UpTo(n)
          BY <1>0, <4>1, Removed
        <4> HIDE DEF g, UpTo
        <4> QED
          BY <2>2, <4>2 DEF Added
      <3> QED
        BY <3>1, <3>2
    <2>4. g = [T \in UpTo(n + 1) |-> Added(w, g, T)]
      BY <2>3
    <2> QED
      BY <2>4
  <1>3. \A n \in Nat : Good(n)
    <2> SUFFICES ASSUME Bad # {} PROVE FALSE
      OBVIOUS
    <2>0. Bad \subseteq Nat
      OBVIOUS
    <2> HIDE DEF Good
    <2>1. PICK n \in Bad : \A k \in Bad : n <= k
      <3> HIDE DEF Bad
      <3> QED
        BY <2>0, LeastNatural
    <2>2. n # 0 /\ n - 1 \in Nat
      BY <1>1, <2>1
    <2>3. Good(n - 1)
      BY <2>1, <2>2
    <2>4. Good((n - 1) + 1)
      BY <1>2, <2>2, <2>3
    <2> QED
      BY <2>1, <2>4
  <1>4. Good(Cardinality(S))
    BY <1>0, <1>3
  <1>5. UpTo(Cardinality(S)) = SUBSET S
    BY FS_Subset
  <1> HIDE DEF UpTo
  <1> QED
    BY <1>4, <1>5 DEF Unfolds

\* And it is the same on every set, whatever larger one it was made for.
LEMMA SumAgrees ==
    ASSUME NEW w, NEW S, NEW T, IsFiniteSet(S), IsFiniteSet(T), NEW f, NEW g,
           Unfolds(f, w, S), Unfolds(g, w, T), NEW U \in SUBSET S, U \in SUBSET T
    PROVE  f[U] = g[U]
  <1> DEFINE Bad == {V \in SUBSET S : V \in SUBSET T /\ f[V] # g[V]}
  <1> SUFFICES ASSUME Bad # {} PROVE FALSE
    OBVIOUS
  <1>1. \A V \in Bad : IsFiniteSet(V)
    BY FS_Subset
  <1>2. PICK V \in Bad : \A W \in Bad : Cardinality(V) <= Cardinality(W)
    <2> HIDE DEF Bad
    <2> QED
      BY <1>1, Smallest
  <1>3. f[V] = Added(w, f, V) /\ g[V] = Added(w, g, V)
    BY <1>2 DEF Unfolds
  <1>4. V # {}
    BY <1>2, <1>3 DEF Added
  <1>5. Pick(V) \in V
    BY <1>4 DEF Pick
  <1>6. V \ {Pick(V)} \notin Bad
    <2>1. Cardinality(V \ {Pick(V)}) < Cardinality(V)
      BY <1>1, <1>5, Removed
    <2>2. Cardinality(V \ {Pick(V)}) \in Nat /\ Cardinality(V) \in Nat
      BY <1>1, <1>5, Removed
    <2> HIDE DEF Bad
    <2> QED
      BY <1>2, <2>1, <2>2
  <1>7. f[V \ {Pick(V)}] = g[V \ {Pick(V)}]
    BY <1>6
  <1> QED
    BY <1>2, <1>3, <1>4, <1>7 DEF Added

LEMMA SumPick ==
    ASSUME NEW w, NEW T, IsFiniteSet(T)
    PROVE  /\ SumFunctionOnSet(w, {}) = 0
           /\ T # {} => /\ Pick(T) \in T
                        /\ SumFunctionOnSet(w, T)
                             = w[Pick(T)] + SumFunctionOnSet(w, T \ {Pick(T)})
  <1> DEFINE it(U) == CHOOSE f : Unfolds(f, w, U)
  <1>1. ASSUME NEW U, IsFiniteSet(U)
        PROVE  /\ Unfolds(it(U), w, U) /\ SumFunctionOnSet(w, U) = it(U)[U]
               /\ SumFunctionOnSet(w, U) = Added(w, it(U), U)
    <2>1. Unfolds(it(U), w, U)
      BY <1>1, SumExists
    <2>2. SumFunctionOnSet(w, U) = it(U)[U]
      BY SumIs
    <2> HIDE DEF it
    <2>3. it(U)[U] = Added(w, it(U), U)
      BY <2>1 DEF Unfolds
    <2> QED
      BY <2>1, <2>2, <2>3
  <1> HIDE DEF it
  <1>2. SumFunctionOnSet(w, {}) = 0
    BY <1>1, FS_EmptySet DEF Added
  <1>3. ASSUME T # {}
        PROVE  /\ Pick(T) \in T
               /\ SumFunctionOnSet(w, T) = w[Pick(T)] + SumFunctionOnSet(w, T \ {Pick(T)})
    <2>1. Pick(T) \in T
      BY <1>3 DEF Pick
    <2> DEFINE U == T \ {Pick(T)}
    <2>2. IsFiniteSet(U)
      BY <2>1, Removed
    <2>3. U \in SUBSET T /\ U \in SUBSET U
      OBVIOUS
    <2> HIDE DEF U
    <2>4. it(T)[U] = it(U)[U]
      BY <1>1, <2>2, <2>3, SumAgrees
    <2>5. SumFunctionOnSet(w, T) = w[Pick(T)] + it(T)[U]
      BY <1>1, <1>3 DEF Added, U
    <2>6. SumFunctionOnSet(w, U) = it(U)[U]
      BY <1>1, <2>2
    <2> QED
      BY <2>1, <2>4, <2>5, <2>6 DEF U
  <1> QED
    BY <1>2, <1>3

LEMMA SumIsNatural ==
    ASSUME NEW w, NEW S, IsFiniteSet(S), \A x \in S : w[x] \in Nat
    PROVE  SumFunctionOnSet(w, S) \in Nat
  <1> DEFINE Bad == {T \in SUBSET S : SumFunctionOnSet(w, T) \notin Nat}
  <1> SUFFICES ASSUME Bad # {} PROVE FALSE
    OBVIOUS
  <1>1. \A T \in Bad : IsFiniteSet(T)
    BY FS_Subset
  <1>2. PICK T \in Bad : \A U \in Bad : Cardinality(T) <= Cardinality(U)
    <2> HIDE DEF Bad
    <2> QED
      BY <1>1, Smallest
  <1>3. T # {}
    <2>1. SumFunctionOnSet(w, {}) = 0 /\ SumFunctionOnSet(w, T) \notin Nat
      BY <1>1, <1>2, SumPick
    <2> QED
      BY <2>1
  <1>4. /\ Pick(T) \in T
        /\ SumFunctionOnSet(w, T) = w[Pick(T)] + SumFunctionOnSet(w, T \ {Pick(T)})
    BY <1>1, <1>3, SumPick
  <1>5. T \ {Pick(T)} \notin Bad
    <2>1. /\ Cardinality(T \ {Pick(T)}) < Cardinality(T)
          /\ Cardinality(T \ {Pick(T)}) \in Nat /\ Cardinality(T) \in Nat
      BY <1>1, <1>4, Removed
    <2> HIDE DEF Bad
    <2> QED
      BY <1>2, <2>1
  <1> QED
    BY <1>2, <1>4, <1>5

\* Any element can be taken out, not only the one the library picks.
LEMMA SumTakesOut ==
    ASSUME NEW w, NEW S, IsFiniteSet(S), \A x \in S : w[x] \in Nat, NEW z \in S
    PROVE  SumFunctionOnSet(w, S) = w[z] + SumFunctionOnSet(w, S \ {z})
  <1> DEFINE Holds(T) == \A x \in T :
                SumFunctionOnSet(w, T) = w[x] + SumFunctionOnSet(w, T \ {x})
             Bad == {T \in SUBSET S : ~Holds(T)}
  <1> SUFFICES ASSUME Bad # {} PROVE FALSE
    OBVIOUS
  <1>1. \A T \in SUBSET S : IsFiniteSet(T)
    BY FS_Subset
  <1>2. PICK T \in Bad : \A U \in Bad : Cardinality(T) <= Cardinality(U)
    <2>1. \A U \in Bad : IsFiniteSet(U)
      BY <1>1
    <2> HIDE DEF Bad
    <2> QED
      BY <2>1, Smallest
  <1>3. T \in SUBSET S /\ IsFiniteSet(T)
    BY <1>1, <1>2
  <1>4. ASSUME NEW x \in T PROVE Holds(T \ {x})
    <2>1. /\ Cardinality(T \ {x}) < Cardinality(T)
          /\ Cardinality(T \ {x}) \in Nat /\ Cardinality(T) \in Nat
      BY <1>3, <1>4, Removed
    <2>2. T \ {x} \notin Bad
      <3> HIDE DEF Bad
      <3> QED
        BY <1>2, <2>1
    <2> HIDE DEF Holds
    <2> QED
      BY <1>3, <2>2
  <1>5. ASSUME NEW x \in T
        PROVE  SumFunctionOnSet(w, T) = w[x] + SumFunctionOnSet(w, T \ {x})
    <2> DEFINE p == Pick(T)
               rest == T \ {x, p}
    <2>1. p \in T /\ SumFunctionOnSet(w, T) = w[p] + SumFunctionOnSet(w, T \ {p})
      BY <1>3, <1>5, SumPick
    <2> HIDE DEF p
    <2>2. CASE x = p
      BY <2>1, <2>2
    <2>3. CASE x # p
      <3>1. SumFunctionOnSet(w, T \ {p}) = w[x] + SumFunctionOnSet(w, (T \ {p}) \ {x})
        BY <1>4, <1>5, <2>1, <2>3
      <3>2. SumFunctionOnSet(w, T \ {x}) = w[p] + SumFunctionOnSet(w, (T \ {x}) \ {p})
        BY <1>4, <1>5, <2>1, <2>3
      <3>3. (T \ {p}) \ {x} = rest /\ (T \ {x}) \ {p} = rest
        OBVIOUS
      <3>4. SumFunctionOnSet(w, rest) \in Nat
        BY <1>1, <1>3, SumIsNatural
      <3>5. w[x] \in Nat /\ w[p] \in Nat
        BY <1>3, <1>5, <2>1
      <3> HIDE DEF rest
      <3> QED
        BY <2>1, <3>1, <3>2, <3>3, <3>4, <3>5
    <2> QED
      BY <2>2, <2>3
  <1> QED
    BY <1>2, <1>5

\* What x adds to the sum over a set.
Share(w, A, x) == IF x \in A THEN w[x] ELSE 0

LEMMA SumOfPart ==
    ASSUME NEW w, NEW A, NEW T, IsFiniteSet(T), \A y \in A : w[y] \in Nat, NEW x \in T
    PROVE  /\ SumFunctionOnSet(w, A \cap T)
                = Share(w, A, x) + SumFunctionOnSet(w, A \cap (T \ {x}))
           /\ Share(w, A, x) \in Nat /\ SumFunctionOnSet(w, A \cap (T \ {x})) \in Nat
  <1> DEFINE B == A \cap T
             C == A \cap (T \ {x})
  <1>1. IsFiniteSet(B) /\ IsFiniteSet(C)
    BY FS_Subset
  <1>2. SumFunctionOnSet(w, C) \in Nat
    BY <1>1, SumIsNatural
  <1>3. CASE x \in A
    <2>1. B \ {x} = C /\ x \in B /\ \A y \in B : w[y] \in Nat
      BY <1>3
    <2> HIDE DEF B, C
    <2>2. SumFunctionOnSet(w, B) = w[x] + SumFunctionOnSet(w, B \ {x})
      BY <1>1, <2>1, SumTakesOut
    <2> QED
      BY <1>2, <1>3, <2>1, <2>2 DEF Share, B, C
  <1>4. CASE x \notin A
    <2>1. B = C
      BY <1>4
    <2> QED
      BY <1>2, <1>4, <2>1 DEF Share
  <1> QED
    BY <1>3, <1>4

\* Where the numbers added on the left are covered by those on the right, so
\* is their sum.
LEMMA SumIsCovered ==
    ASSUME NEW S, IsFiniteSet(S), NEW u, NEW v, NEW w,
           NEW A \in SUBSET S, NEW B \in SUBSET S, NEW C \in SUBSET S,
           \A x \in A : u[x] \in Nat, \A x \in B : v[x] \in Nat, \A x \in C : w[x] \in Nat,
           \A x \in A : u[x] <= Share(v, B, x) + Share(w, C, x)
    PROVE  SumFunctionOnSet(u, A) <= SumFunctionOnSet(v, B) + SumFunctionOnSet(w, C)
  <1> DEFINE Holds(T) == SumFunctionOnSet(u, A \cap T)
                <= SumFunctionOnSet(v, B \cap T) + SumFunctionOnSet(w, C \cap T)
             Bad == {T \in SUBSET S : ~Holds(T)}
  <1>0. A \cap S = A /\ B \cap S = B /\ C \cap S = C
    OBVIOUS
  <1> SUFFICES ASSUME Bad # {} PROVE FALSE
    BY <1>0
  <1>1. \A T \in SUBSET S : IsFiniteSet(T)
    BY FS_Subset
  <1>2. PICK T \in Bad : \A U \in Bad : Cardinality(T) <= Cardinality(U)
    <2>1. \A U \in Bad : IsFiniteSet(U)
      BY <1>1
    <2> HIDE DEF Bad
    <2> QED
      BY <2>1, Smallest
  <1>3. T \in SUBSET S /\ IsFiniteSet(T) /\ ~Holds(T)
    BY <1>1, <1>2
  <1>4. T # {}
    <2> SUFFICES ASSUME T = {} PROVE Holds(T)
      BY <1>3
    <2>1. \A f : SumFunctionOnSet(f, {}) = 0
      BY FS_EmptySet, SumPick
    <2>2. A \cap T = {} /\ B \cap T = {} /\ C \cap T = {}
      OBVIOUS
    <2> QED
      BY <2>1, <2>2
  <1>5. PICK x \in T : TRUE
    BY <1>4
  <1>6. Holds(T \ {x})
    <2>1. /\ Cardinality(T \ {x}) < Cardinality(T)
          /\ Cardinality(T \ {x}) \in Nat /\ Cardinality(T) \in Nat
      BY <1>3, <1>5, Removed
    <2>2. T \ {x} \notin Bad
      <3> HIDE DEF Bad
      <3> QED
        BY <1>2, <2>1
    <2> HIDE DEF Holds
    <2> QED
      BY <1>3, <2>2
  <1> DEFINE sum(f, P) == SumFunctionOnSet(f, P \cap T)
             less(f, P) == SumFunctionOnSet(f, P \cap (T \ {x}))
  <1>7. ASSUME NEW f, NEW P, \A y \in P : f[y] \in Nat
        PROVE  /\ sum(f, P) = Share(f, P, x) + less(f, P)
               /\ Share(f, P, x) \in Nat /\ less(f, P) \in Nat
    BY <1>3, <1>5, <1>7, SumOfPart
  <1>8. /\ sum(u, A) = Share(u, A, x) + less(u, A)
        /\ Share(u, A, x) \in Nat /\ less(u, A) \in Nat
    BY <1>7
  <1>9. /\ sum(v, B) = Share(v, B, x) + less(v, B)
        /\ Share(v, B, x) \in Nat /\ less(v, B) \in Nat
    BY <1>7
  <1>10. /\ sum(w, C) = Share(w, C, x) + less(w, C)
         /\ Share(w, C, x) \in Nat /\ less(w, C) \in Nat
    BY <1>7
  <1>11. less(u, A) <= less(v, B) + less(w, C) /\ ~(sum(u, A) <= sum(v, B) + sum(w, C))
    BY <1>3, <1>6
  <1>12. Share(u, A, x) <= Share(v, B, x) + Share(w, C, x)
    <2>1. CASE x \in A
      BY <2>1 DEF Share
    <2>2. CASE x \notin A
      <3>1. Share(u, A, x) = 0
        BY <2>2 DEF Share
      <3> QED
        BY <1>9, <1>10, <3>1
    <2> QED
      BY <2>1, <2>2
  <1> HIDE DEF sum, less
  <1> QED
    BY <1>8, <1>9, <1>10, <1>11, <1>12

LEMMA SumAtMost ==
    ASSUME NEW S, IsFiniteSet(S), NEW v, NEW w, NEW A \in SUBSET S, NEW B \in SUBSET S,
           \A x \in A : v[x] \in Nat, \A x \in B : w[x] \in Nat,
           \A x \in A : v[x] <= Share(w, B, x)
    PROVE  SumFunctionOnSet(v, A) <= SumFunctionOnSet(w, B)
  <1>1. \A x \in A : v[x] <= Share(w, B, x) + Share(w, {}, x)
    BY DEF Share
  <1>2. SumFunctionOnSet(v, A) <= SumFunctionOnSet(w, B) + SumFunctionOnSet(w, {})
    BY <1>1, SumIsCovered
  <1>3. SumFunctionOnSet(w, {}) = 0
    BY FS_EmptySet, SumPick
  <1>4. SumFunctionOnSet(w, B) \in Nat
    <2>1. IsFiniteSet(B)
      BY FS_Subset
    <2> QED
      BY <2>1, SumIsNatural
  <1> QED
    BY <1>2, <1>3, <1>4

-----------------------------------------------------------------------------
(* Who had read what when each order went out.                             *)
(*                                                                         *)
(* Whether exposure passes the cap depends on steps that the state has     *)
(* forgotten: what each caller had read when it was sized.  A history says *)
(* it, and the invariant is that there is a history the state bears out:   *)
(*                                                                         *)
(*   read    the place of each caller's last read in the order of reads    *)
(*   by      the same, of the caller that opened each position             *)
(*   missed  positions opened since, by callers that had read before       *)
(*   left    the same, for the caller that opened a position               *)
(*                                                                         *)
(* A book is what the history is about: the callers under way, what they   *)
(* have seen, and the margin of what is open.                              *)

Total(w, T) == SumFunctionOnSet(w, T)

IsBook(b) ==
    /\ b.flight \subseteq Caller /\ b.open \subseteq Symbol /\ b.held \in Nat
    /\ b.seen \in [Caller -> Nat]
    /\ b.margin \in [Symbol -> Nat] /\ b.com \in [Symbol -> Nat]
    /\ \A s \in Symbol \ b.open : b.margin[s] = 0 /\ b.com[s] = 0

IsHistory(h) ==
    /\ h.now \in Nat
    /\ h.read \in [Caller -> 0 .. h.now] /\ h.by \in [Symbol -> 0 .. h.now]
    /\ h.missed \in [Caller -> SUBSET Symbol] /\ h.left \in [Symbol -> SUBSET Symbol]

\* The margin a reader knows of, and the callers whose orders it does not know.
Known(h, b, rank, unknown) ==
    b.held + Total(b.margin, {t \in Symbol : h.by[t] <= rank} \ unknown)
Waiting(h, b, rank) == {d \in b.flight : h.read[d] <= rank}

\* What a caller has seen covers what it knows; what it missed and what it
\* may still miss are fewer than the callers.
ReadersFit(h, b) ==
    \A c \in b.flight :
       /\ Known(h, b, h.read[c], h.missed[c]) <= b.seen[c]
       /\ Cardinality(h.missed[c]) + Cardinality(Waiting(h, b, h.read[c]) \ {c})
            < Cardinality(Caller)
\* An open position fitted the cap above what the caller that opened it knew.
OpenFit(h, b) ==
    \A s \in b.open :
       /\ Known(h, b, h.by[s], h.left[s] \cup {s}) + b.com[s] <= ExposureCap
       /\ Cardinality(h.left[s]) + Cardinality(Waiting(h, b, h.by[s])) < Cardinality(Caller)
Told(h, b) == IsHistory(h) /\ ReadersFit(h, b) /\ OpenFit(h, b)

LEMMA Finiteness ==
    /\ IsFiniteSet(Caller) /\ IsFiniteSet(Symbol) /\ Caller # {}
    /\ ExposureCap \in Nat
  <1>1. ExposureCap \in Nat
    BY SizingAssumption DEF ExposureCap
  <1> QED
    BY <1>1, SizingAssumption

LEMMA SubsetSize ==
    ASSUME NEW S, IsFiniteSet(S), NEW T, T \subseteq S
    PROVE  /\ IsFiniteSet(T) /\ Cardinality(T) \in Nat /\ Cardinality(S) \in Nat
           /\ Cardinality(T) <= Cardinality(S)
  BY FS_Subset, FS_CardinalityType

LEMMA TotalAtMost ==
    ASSUME NEW v \in [Symbol -> Nat], NEW w \in [Symbol -> Nat],
           NEW A \in SUBSET Symbol, NEW B \in SUBSET Symbol,
           \A x \in A : v[x] = 0 \/ (x \in B /\ v[x] <= w[x])
    PROVE  /\ Total(v, A) <= Total(w, B)
           /\ Total(v, A) \in Nat /\ Total(w, B) \in Nat
  <1>1. IsFiniteSet(B) /\ IsFiniteSet(A)
    BY Finiteness, FS_Subset
  <1>2. Total(v, A) \in Nat /\ Total(w, B) \in Nat
    BY <1>1, SumIsNatural DEF Total
  <1>3. \A x \in A : v[x] <= Share(w, B, x)
    BY DEF Share
  <1>4. Total(v, A) <= Total(w, B)
    BY <1>3, Finiteness, SumAtMost DEF Total
  <1> QED
    BY <1>2, <1>4

\* Who reads earlier, or does not know more, or knows of margin since closed,
\* knows of no more.
LEMMA KnownAtMost ==
    ASSUME NEW b, NEW d, IsBook(b), IsBook(d), d.held = b.held, NEW h, NEW g,
           IsHistory(h), IsHistory(g),
           NEW r \in Nat, NEW q \in Nat, NEW unknown, NEW other,
           \A t \in Symbol : g.by[t] <= q /\ t \notin other =>
                               /\ h.by[t] <= r /\ t \notin unknown
                               /\ d.margin[t] <= b.margin[t]
    PROVE  /\ Known(g, d, q, other) <= Known(h, b, r, unknown)
           /\ Known(g, d, q, other) \in Nat /\ Known(h, b, r, unknown) \in Nat
  <1> DEFINE A == {t \in Symbol : g.by[t] <= q} \ other
             S == {t \in Symbol : h.by[t] <= r} \ unknown
  <1>1. /\ A \in SUBSET Symbol /\ S \in SUBSET Symbol
        /\ \A x \in A : x \in S /\ d.margin[x] <= b.margin[x]
    OBVIOUS
  <1>2. /\ Total(d.margin, A) <= Total(b.margin, S)
        /\ Total(d.margin, A) \in Nat /\ Total(b.margin, S) \in Nat
    <2> HIDE DEF A, S
    <2> QED
      BY <1>1, TotalAtMost DEF IsBook
  <1>3. b.held \in Nat
    BY DEF IsBook
  <1> HIDE DEF A, S
  <1> QED
    BY <1>2, <1>3 DEF Known, A, S

LEMMA FewerWait ==
    ASSUME NEW S, NEW T, T \subseteq S, S \subseteq Caller, NEW k \in Nat,
           k + Cardinality(S) < Cardinality(Caller)
    PROVE  k + Cardinality(T) < Cardinality(Caller)
  <1>1. IsFiniteSet(S)
    BY Finiteness, SubsetSize
  <1>2. Cardinality(T) <= Cardinality(S) /\ Cardinality(T) \in Nat /\ Cardinality(S) \in Nat
    BY <1>1, SubsetSize
  <1>3. Cardinality(Caller) \in Nat
    BY Finiteness, SubsetSize
  <1> QED
    BY <1>2, <1>3

LEMMA HistorySizes ==
    ASSUME NEW h, IsHistory(h)
    PROVE  /\ \A c \in Caller : Cardinality(h.missed[c]) \in Nat /\ h.read[c] \in Nat
                                /\ IsFiniteSet(h.missed[c]) /\ h.read[c] <= h.now
           /\ \A s \in Symbol : Cardinality(h.left[s]) \in Nat /\ h.by[s] \in Nat
                                /\ IsFiniteSet(h.left[s]) /\ h.by[s] <= h.now
  <1>1. \A c \in Caller : h.missed[c] \subseteq Symbol
    BY DEF IsHistory
  <1>2. \A s \in Symbol : h.left[s] \subseteq Symbol
    BY DEF IsHistory
  <1>3. h.now \in Nat /\ \A c \in Caller : h.read[c] \in 0 .. h.now
    BY DEF IsHistory
  <1>4. \A s \in Symbol : h.by[s] \in 0 .. h.now
    BY DEF IsHistory
  <1>5. \A c \in Caller : Cardinality(h.missed[c]) \in Nat /\ IsFiniteSet(h.missed[c])
    BY <1>1, Finiteness, SubsetSize
  <1>6. \A s \in Symbol : Cardinality(h.left[s]) \in Nat /\ IsFiniteSet(h.left[s])
    BY <1>2, Finiteness, SubsetSize
  <1> QED
    BY <1>3, <1>4, <1>5, <1>6

\* Steps after which there is less: entries given up, positions closed.
LEMMA LessToTell ==
    ASSUME NEW h, NEW b, NEW d, IsBook(b), IsBook(d), Told(h, b),
           d.flight \subseteq b.flight, d.open \subseteq b.open, d.held = b.held,
           \A c \in d.flight : d.seen[c] = b.seen[c],
           \A s \in Symbol : d.margin[s] <= b.margin[s] /\ d.com[s] <= b.com[s]
    PROVE  Told(h, d)
  <1>0. IsHistory(h)
    BY DEF Told
  <1>1. ReadersFit(h, d)
    <2> SUFFICES ASSUME NEW c \in d.flight
                 PROVE  /\ Known(h, d, h.read[c], h.missed[c]) <= d.seen[c]
                        /\ Cardinality(h.missed[c])
                             + Cardinality(Waiting(h, d, h.read[c]) \ {c}) < Cardinality(Caller)
      BY DEF ReadersFit
    <2>1. /\ c \in b.flight /\ c \in Caller /\ h.read[c] \in Nat
          /\ Cardinality(h.missed[c]) \in Nat
      BY <1>0, HistorySizes DEF IsBook
    <2>2. /\ Known(h, b, h.read[c], h.missed[c]) <= b.seen[c]
          /\ Cardinality(h.missed[c])
               + Cardinality(Waiting(h, b, h.read[c]) \ {c}) < Cardinality(Caller)
      BY <2>1 DEF Told, ReadersFit
    <2>3. /\ Known(h, d, h.read[c], h.missed[c]) <= Known(h, b, h.read[c], h.missed[c])
          /\ Known(h, d, h.read[c], h.missed[c]) \in Nat
          /\ Known(h, b, h.read[c], h.missed[c]) \in Nat
      BY <1>0, <2>1, KnownAtMost
    <2>4. b.seen[c] \in Nat /\ d.seen[c] = b.seen[c]
      BY <2>1 DEF IsBook
    <2>5. /\ Waiting(h, d, h.read[c]) \ {c} \subseteq Waiting(h, b, h.read[c]) \ {c}
          /\ Waiting(h, b, h.read[c]) \ {c} \subseteq Caller
      BY DEF Waiting, IsBook
    <2>6. Cardinality(h.missed[c])
               + Cardinality(Waiting(h, d, h.read[c]) \ {c}) < Cardinality(Caller)
      BY <2>1, <2>2, <2>5, FewerWait
    <2> QED
      BY <2>2, <2>3, <2>4, <2>6
  <1>2. OpenFit(h, d)
    <2> SUFFICES ASSUME NEW s \in d.open
                 PROVE  /\ Known(h, d, h.by[s], h.left[s] \cup {s}) + d.com[s] <= ExposureCap
                        /\ Cardinality(h.left[s])
                             + Cardinality(Waiting(h, d, h.by[s])) < Cardinality(Caller)
      BY DEF OpenFit
    <2>1. /\ s \in b.open /\ s \in Symbol /\ h.by[s] \in Nat
          /\ Cardinality(h.left[s]) \in Nat
      BY <1>0, HistorySizes DEF IsBook
    <2>2. /\ Known(h, b, h.by[s], h.left[s] \cup {s}) + b.com[s] <= ExposureCap
          /\ Cardinality(h.left[s])
               + Cardinality(Waiting(h, b, h.by[s])) < Cardinality(Caller)
      BY <2>1 DEF Told, OpenFit
    <2>3. /\ Known(h, d, h.by[s], h.left[s] \cup {s}) <= Known(h, b, h.by[s], h.left[s] \cup {s})
          /\ Known(h, d, h.by[s], h.left[s] \cup {s}) \in Nat
          /\ Known(h, b, h.by[s], h.left[s] \cup {s}) \in Nat
      BY <1>0, <2>1, KnownAtMost
    <2>4. d.com[s] <= b.com[s] /\ d.com[s] \in Nat /\ b.com[s] \in Nat /\ ExposureCap \in Nat
      BY <2>1, Finiteness DEF IsBook
    <2>5. /\ Waiting(h, d, h.by[s]) \subseteq Waiting(h, b, h.by[s])
          /\ Waiting(h, b, h.by[s]) \subseteq Caller
      BY DEF Waiting, IsBook
    <2>6. Cardinality(h.left[s]) + Cardinality(Waiting(h, d, h.by[s])) < Cardinality(Caller)
      BY <2>1, <2>2, <2>5, FewerWait
    <2> QED
      BY <2>2, <2>3, <2>4, <2>6
  <1> QED
    BY <1>0, <1>1, <1>2 DEF Told

\* A caller reads all that is open: it is the last reader so far.
LEMMA ToldOfRead ==
    ASSUME NEW h, NEW b, NEW d, IsBook(b), IsBook(d), Told(h, b),
           NEW k \in Caller, k \notin b.flight,
           d.flight = b.flight \cup {k}, d.open = b.open, d.held = b.held,
           d.margin = b.margin, d.com = b.com,
           \A c \in b.flight : d.seen[c] = b.seen[c],
           d.seen[k] = b.held + Total(b.margin, Symbol)
    PROVE  \E g : Told(g, d)
  <1> DEFINE g == [now |-> h.now + 1, by |-> h.by, left |-> h.left,
                   read |-> [h.read EXCEPT ![k] = h.now + 1],
                   missed |-> [h.missed EXCEPT ![k] = {}]]
  <1>0. IsHistory(h)
    BY DEF Told
  <1>1. /\ g.now = h.now + 1 /\ g.by = h.by /\ g.left = h.left
        /\ g.read = [h.read EXCEPT ![k] = h.now + 1]
        /\ g.missed = [h.missed EXCEPT ![k] = {}]
    OBVIOUS
  <1> HIDE DEF g
  <1>2. IsHistory(g)
    <2>1. g.now \in Nat /\ g.left \in [Symbol -> SUBSET Symbol]
      BY <1>0, <1>1 DEF IsHistory
    <2>2. g.read \in [Caller -> 0 .. g.now]
      BY <1>0, <1>1 DEF IsHistory
    <2>3. g.by \in [Symbol -> 0 .. g.now]
      BY <1>0, <1>1 DEF IsHistory
    <2>4. g.missed \in [Caller -> SUBSET Symbol]
      BY <1>0, <1>1 DEF IsHistory
    <2> QED
      BY <2>1, <2>2, <2>3, <2>4 DEF IsHistory
  <1>3. /\ g.read[k] = h.now + 1 /\ g.missed[k] = {}
        /\ \A c \in Caller \ {k} : g.read[c] = h.read[c] /\ g.missed[c] = h.missed[c]
    BY <1>0, <1>1 DEF IsHistory
  <1>4. h.now \in Nat /\ b.flight \subseteq Caller
    BY <1>0 DEF IsHistory, IsBook
  <1>5. ASSUME NEW r \in Nat, r <= h.now PROVE Waiting(g, d, r) = Waiting(h, b, r)
    BY <1>3, <1>4, <1>5 DEF Waiting
  <1>6. ASSUME NEW r, NEW unknown PROVE Known(g, d, r, unknown) = Known(h, b, r, unknown)
    BY <1>1 DEF Known
  <1>7. ReadersFit(g, d)
    <2> SUFFICES ASSUME NEW c \in d.flight
                 PROVE  /\ Known(g, d, g.read[c], g.missed[c]) <= d.seen[c]
                        /\ Cardinality(g.missed[c])
                             + Cardinality(Waiting(g, d, g.read[c]) \ {c}) < Cardinality(Caller)
      BY DEF ReadersFit
    <2>1. CASE c = k
      <3>1. Known(g, d, g.read[k], {}) = d.seen[k]
        <4>1. \A t \in Symbol : h.by[t] \in Nat /\ h.by[t] <= h.now
          BY <1>0, HistorySizes
        <4>2. {t \in Symbol : g.by[t] <= h.now + 1} \ {} = Symbol
          BY <1>1, <1>4, <4>1
        <4> QED
          BY <1>3, <4>2 DEF Known
      <3>2. d.seen[k] \in Nat
        BY DEF IsBook
      <3>3. Waiting(g, d, g.read[k]) \ {k} \subseteq Caller \ {k}
        BY DEF Waiting, IsBook
      <3>4. /\ Cardinality(Caller \ {k}) = Cardinality(Caller) - 1
            /\ Cardinality(Caller \ {k}) \in Nat
            /\ IsFiniteSet(Caller \ {k}) /\ Cardinality(Caller) \in Nat
        BY Finiteness, Removed
      <3>5. /\ Cardinality(Waiting(g, d, g.read[k]) \ {k}) <= Cardinality(Caller \ {k})
            /\ Cardinality(Waiting(g, d, g.read[k]) \ {k}) \in Nat
        BY <3>3, <3>4, SubsetSize
      <3>6. Cardinality(g.missed[k]) = 0
        BY <1>3, FS_EmptySet
      <3>7. Cardinality(Waiting(g, d, g.read[k]) \ {k}) < Cardinality(Caller)
        BY <3>4, <3>5
      <3>8. Known(g, d, g.read[k], {}) <= d.seen[k]
        BY <3>1, <3>2
      <3>9. 0 + Cardinality(Waiting(g, d, g.read[k]) \ {k}) < Cardinality(Caller)
        BY <3>5, <3>7
      <3> QED
        BY <1>3, <2>1, <3>6, <3>8, <3>9
    <2>2. CASE c # k
      <3>1. /\ c \in b.flight /\ c \in Caller /\ g.read[c] = h.read[c]
            /\ g.missed[c] = h.missed[c] /\ d.seen[c] = b.seen[c]
        BY <1>3, <1>4, <2>2
      <3>2. h.read[c] \in Nat /\ h.read[c] <= h.now
        BY <1>0, <3>1, HistorySizes
      <3>3. Waiting(g, d, h.read[c]) = Waiting(h, b, h.read[c])
        BY <1>5, <3>2
      <3> QED
        BY <1>6, <3>1, <3>3 DEF Told, ReadersFit
    <2> QED
      BY <2>1, <2>2
  <1>8. OpenFit(g, d)
    <2> SUFFICES ASSUME NEW s \in d.open
                 PROVE  /\ Known(g, d, g.by[s], g.left[s] \cup {s}) + d.com[s] <= ExposureCap
                        /\ Cardinality(g.left[s])
                             + Cardinality(Waiting(g, d, g.by[s])) < Cardinality(Caller)
      BY DEF OpenFit
    <2>1. s \in b.open /\ s \in Symbol
      BY DEF IsBook
    <2>2. h.by[s] \in Nat /\ h.by[s] <= h.now
      BY <1>0, <2>1, HistorySizes
    <2>3. Waiting(g, d, h.by[s]) = Waiting(h, b, h.by[s])
      BY <1>5, <2>2
    <2> QED
      BY <1>1, <1>6, <2>1, <2>3 DEF Told, OpenFit
  <1> QED
    BY <1>2, <1>7, <1>8 DEF Told

\* An order fills: whoever read after the caller that placed it missed it.
LEMMA ToldOfFill ==
    ASSUME NEW h, NEW b, NEW d, IsBook(b), IsBook(d), Told(h, b),
           NEW c \in b.flight, NEW u \in Symbol,
           d.flight = b.flight \ {c}, d.open = b.open \cup {u}, d.held = b.held,
           \A e \in d.flight : d.seen[e] = b.seen[e],
           \A s \in Symbol \ {u} : d.margin[s] = b.margin[s] /\ d.com[s] = b.com[s],
           d.com[u] + b.seen[c] <= ExposureCap
    PROVE  \E g : Told(g, d)
  <1> DEFINE rank == h.read[c]
             g == [now |-> h.now, read |-> h.read,
                   by |-> [h.by EXCEPT ![u] = rank],
                   missed |-> [e \in Caller |-> IF rank <= h.read[e]
                                                THEN h.missed[e] \cup {u} ELSE h.missed[e]],
                   left |-> [s \in Symbol |-> IF s = u THEN h.missed[c] \ {u}
                                              ELSE IF rank <= h.by[s]
                                                   THEN h.left[s] \cup {u} ELSE h.left[s]]]
  <1>0. IsHistory(h) /\ c \in Caller /\ b.flight \subseteq Caller
    BY DEF Told, IsBook
  <1>1. /\ g.now = h.now /\ g.read = h.read /\ g.by = [h.by EXCEPT ![u] = rank]
        /\ \A e \in Caller : g.missed[e] = IF rank <= h.read[e]
                                           THEN h.missed[e] \cup {u} ELSE h.missed[e]
        /\ \A s \in Symbol : g.left[s] = IF s = u THEN h.missed[c] \ {u}
                                         ELSE IF rank <= h.by[s]
                                              THEN h.left[s] \cup {u} ELSE h.left[s]
    OBVIOUS
  <1>2. IsHistory(g)
    <2>1. g.now \in Nat /\ g.read \in [Caller -> 0 .. g.now]
      BY <1>0 DEF IsHistory
    <2>2. rank \in 0 .. h.now
      BY <1>0 DEF IsHistory
    <2>3. g.by \in [Symbol -> 0 .. g.now]
      <3> HIDE DEF rank
      <3> QED
        BY <1>0, <2>2 DEF IsHistory
    <2>4. g.missed \in [Caller -> SUBSET Symbol]
      <3>1. \A e \in Caller : h.missed[e] \in SUBSET Symbol
        BY <1>0 DEF IsHistory
      <3> HIDE DEF rank
      <3> QED
        BY <3>1
    <2>5. g.left \in [Symbol -> SUBSET Symbol]
      <3>1. h.missed[c] \in SUBSET Symbol /\ \A s \in Symbol : h.left[s] \in SUBSET Symbol
        BY <1>0 DEF IsHistory
      <3> HIDE DEF rank
      <3> QED
        BY <3>1
    <2> HIDE DEF g
    <2> QED
      BY <2>1, <2>3, <2>4, <2>5 DEF IsHistory
  <1> HIDE DEF g
  <1>3. /\ g.by[u] = rank /\ \A s \in Symbol \ {u} : g.by[s] = h.by[s]
    BY <1>0, <1>1 DEF IsHistory
  <1>4. rank \in Nat
    BY <1>0, HistorySizes
  <1>5. \A r : Waiting(g, d, r) = Waiting(h, b, r) \ {c}
    BY <1>1 DEF Waiting
  \* Who waited for the filled order waits for one less and missed one more.
  <1>6. ASSUME NEW r \in Nat, rank <= r, NEW x, NEW missed, missed \subseteq Symbol, x # c,
               Cardinality(missed) + Cardinality(Waiting(h, b, r) \ {x}) < Cardinality(Caller)
        PROVE  Cardinality(missed \cup {u}) + Cardinality((Waiting(h, b, r) \ {c}) \ {x})
                  < Cardinality(Caller)
    <2> DEFINE W == Waiting(h, b, r) \ {x}
    <2>1. c \in W /\ W \subseteq Caller /\ (Waiting(h, b, r) \ {c}) \ {x} = W \ {c}
      BY <1>0, <1>6 DEF Waiting
    <2>2. IsFiniteSet(W)
      BY <2>1, Finiteness, SubsetSize
    <2>3. Cardinality(W \ {c}) = Cardinality(W) - 1 /\ Cardinality(W) \in Nat
      BY <2>1, <2>2, Removed
    <2>4. IsFiniteSet(missed) /\ Cardinality(missed) \in Nat
      BY <1>6, Finiteness, SubsetSize
    <2>5. /\ Cardinality(missed \cup {u}) <= Cardinality(missed) + 1
          /\ Cardinality(missed \cup {u}) \in Nat
      <3>1. Cardinality(missed \cup {u})
              = IF u \in missed THEN Cardinality(missed) ELSE Cardinality(missed) + 1
        BY <2>4, FS_AddElement
      <3> QED
        BY <2>4, <3>1
    <2>6. Cardinality(Caller) \in Nat
      BY Finiteness, SubsetSize
    <2>7. Cardinality(missed) + Cardinality(W) < Cardinality(Caller)
      BY <1>6
    <2>8. Cardinality(missed \cup {u}) + Cardinality(W \ {c}) < Cardinality(Caller)
      <3> HIDE DEF W
      <3> QED
        BY <2>3, <2>4, <2>5, <2>6, <2>7
    <2> QED
      BY <2>1, <2>8
  <1>7. ReadersFit(g, d)
    <2> SUFFICES ASSUME NEW e \in d.flight
                 PROVE  /\ Known(g, d, g.read[e], g.missed[e]) <= d.seen[e]
                        /\ Cardinality(g.missed[e])
                             + Cardinality(Waiting(g, d, g.read[e]) \ {e}) < Cardinality(Caller)
      BY DEF ReadersFit
    <2>1. e \in b.flight /\ e # c /\ e \in Caller /\ d.seen[e] = b.seen[e]
      BY <1>0
    <2>2. /\ Known(h, b, h.read[e], h.missed[e]) <= b.seen[e]
          /\ Cardinality(h.missed[e])
               + Cardinality(Waiting(h, b, h.read[e]) \ {e}) < Cardinality(Caller)
      BY <2>1 DEF Told, ReadersFit
    <2>3. /\ h.read[e] \in Nat /\ h.missed[e] \subseteq Symbol
          /\ Cardinality(h.missed[e]) \in Nat /\ g.read[e] = h.read[e]
      BY <1>0, <1>1, <2>1, HistorySizes DEF IsHistory
    <2>4. \A t \in Symbol : g.by[t] <= g.read[e] /\ t \notin g.missed[e] =>
                              /\ h.by[t] <= h.read[e] /\ t \notin h.missed[e]
                              /\ d.margin[t] <= b.margin[t]
      <3> SUFFICES ASSUME NEW t \in Symbol, g.by[t] <= g.read[e], t \notin g.missed[e]
                   PROVE  /\ h.by[t] <= h.read[e] /\ t \notin h.missed[e]
                          /\ d.margin[t] <= b.margin[t]
        OBVIOUS
      <3>1. t # u
        BY <1>1, <1>3, <2>1, <2>3
      <3>2. g.by[t] = h.by[t] /\ d.margin[t] = b.margin[t] /\ b.margin[t] \in Nat
        BY <1>3, <3>1 DEF IsBook
      <3>3. t \notin h.missed[e]
        BY <1>1, <2>1
      <3> QED
        BY <2>3, <3>2, <3>3
    <2>5. /\ Known(g, d, g.read[e], g.missed[e]) <= Known(h, b, h.read[e], h.missed[e])
          /\ Known(g, d, g.read[e], g.missed[e]) \in Nat
          /\ Known(h, b, h.read[e], h.missed[e]) \in Nat
      BY <1>0, <1>2, <2>3, <2>4, KnownAtMost
    <2>6. b.seen[e] \in Nat
      BY <2>1 DEF IsBook
    <2>7. Cardinality(g.missed[e])
             + Cardinality(Waiting(g, d, g.read[e]) \ {e}) < Cardinality(Caller)
      <3>1. CASE rank <= h.read[e]
        <4>1. g.missed[e] = h.missed[e] \cup {u}
          BY <1>1, <2>1, <3>1
        <4>2. Cardinality(h.missed[e] \cup {u})
                + Cardinality((Waiting(h, b, h.read[e]) \ {c}) \ {e}) < Cardinality(Caller)
          BY <1>6, <2>1, <2>2, <2>3, <3>1
        <4> QED
          BY <1>5, <2>3, <4>1, <4>2
      <3>2. CASE ~(rank <= h.read[e])
        <4>1. g.missed[e] = h.missed[e]
          BY <1>1, <2>1, <3>2
        <4>2. /\ (Waiting(h, b, h.read[e]) \ {c}) \ {e} \subseteq Waiting(h, b, h.read[e]) \ {e}
              /\ Waiting(h, b, h.read[e]) \ {e} \subseteq Caller
          BY <1>0 DEF Waiting
        <4>3. Cardinality(h.missed[e])
                + Cardinality((Waiting(h, b, h.read[e]) \ {c}) \ {e}) < Cardinality(Caller)
          BY <2>2, <2>3, <4>2, FewerWait
        <4> QED
          BY <1>5, <2>3, <4>1, <4>3
      <3> QED
        BY <3>1, <3>2
    <2> QED
      BY <2>1, <2>2, <2>5, <2>6, <2>7
  <1>8. ASSUME NEW s \in b.open, s # u
        PROVE  /\ Known(g, d, g.by[s], g.left[s] \cup {s}) + d.com[s] <= ExposureCap
               /\ Cardinality(g.left[s])
                    + Cardinality(Waiting(g, d, g.by[s])) < Cardinality(Caller)
    <2>1. s \in Symbol /\ d.com[s] = b.com[s] /\ b.com[s] \in Nat
      BY <1>8 DEF IsBook
    <2>2. /\ Known(h, b, h.by[s], h.left[s] \cup {s}) + b.com[s] <= ExposureCap
          /\ Cardinality(h.left[s]) + Cardinality(Waiting(h, b, h.by[s])) < Cardinality(Caller)
      BY <1>8 DEF Told, OpenFit
    <2>3. /\ h.by[s] \in Nat /\ h.left[s] \subseteq Symbol
          /\ Cardinality(h.left[s]) \in Nat /\ g.by[s] = h.by[s]
      BY <1>0, <1>3, <1>8, <2>1, HistorySizes DEF IsHistory
    <2>4. \A t \in Symbol : g.by[t] <= g.by[s] /\ t \notin g.left[s] \cup {s} =>
                              /\ h.by[t] <= h.by[s] /\ t \notin h.left[s] \cup {s}
                              /\ d.margin[t] <= b.margin[t]
      <3> SUFFICES ASSUME NEW t \in Symbol, g.by[t] <= g.by[s], t \notin g.left[s], t # s
                   PROVE  /\ h.by[t] <= h.by[s] /\ t \notin h.left[s]
                          /\ d.margin[t] <= b.margin[t]
        OBVIOUS
      <3>1. t # u
        BY <1>1, <1>3, <1>8, <2>1, <2>3
      <3>2. g.by[t] = h.by[t] /\ d.margin[t] = b.margin[t] /\ b.margin[t] \in Nat
        BY <1>3, <3>1 DEF IsBook
      <3>3. t \notin h.left[s]
        BY <1>1, <1>8, <2>1
      <3> QED
        BY <2>3, <3>2, <3>3
    <2>5. /\ Known(g, d, g.by[s], g.left[s] \cup {s}) <= Known(h, b, h.by[s], h.left[s] \cup {s})
          /\ Known(g, d, g.by[s], g.left[s] \cup {s}) \in Nat
          /\ Known(h, b, h.by[s], h.left[s] \cup {s}) \in Nat
      <3> DEFINE known == h.left[s] \cup {s}
                 fresh == g.left[s] \cup {s}
      <3>1. \A t \in Symbol : g.by[t] <= g.by[s] /\ t \notin fresh =>
                              /\ h.by[t] <= h.by[s] /\ t \notin known
                              /\ d.margin[t] <= b.margin[t]
        BY <2>4
      <3> HIDE DEF known, fresh
      <3>2. /\ Known(g, d, g.by[s], fresh) <= Known(h, b, h.by[s], known)
            /\ Known(g, d, g.by[s], fresh) \in Nat
            /\ Known(h, b, h.by[s], known) \in Nat
        BY <1>0, <1>2, <2>3, <3>1, KnownAtMost
      <3> QED
        BY <3>2 DEF known, fresh
    <2>6. ExposureCap \in Nat
      BY Finiteness
    <2>7. Cardinality(g.left[s])
             + Cardinality(Waiting(g, d, g.by[s])) < Cardinality(Caller)
      <3>1. CASE rank <= h.by[s]
        <4>1. g.left[s] = h.left[s] \cup {u}
          BY <1>1, <1>8, <2>1, <3>1
        <4> DEFINE none == CHOOSE x : x \notin Caller
        <4>2. none \notin Caller
          BY NoSetContainsEverything
        <4> HIDE DEF none
        <4>3. \A W : W \subseteq Caller => W \ {none} = W
          BY <4>2
        <4>4. Waiting(h, b, h.by[s]) \subseteq Caller /\ none # c
          BY <1>0, <4>2 DEF Waiting
        <4>5. Waiting(h, b, h.by[s]) \ {none} = Waiting(h, b, h.by[s])
          BY <4>3, <4>4
        <4>6. (Waiting(h, b, h.by[s]) \ {c}) \ {none} = Waiting(h, b, h.by[s]) \ {c}
          BY <4>3, <4>4
        <4>7. Cardinality(h.left[s] \cup {u})
                + Cardinality((Waiting(h, b, h.by[s]) \ {c}) \ {none}) < Cardinality(Caller)
          BY <1>6, <2>2, <2>3, <3>1, <4>4, <4>5
        <4> QED
          BY <1>5, <2>3, <4>1, <4>6, <4>7
      <3>2. CASE ~(rank <= h.by[s])
        <4>1. g.left[s] = h.left[s]
          BY <1>1, <1>8, <2>1, <3>2
        <4>2. /\ Waiting(h, b, h.by[s]) \ {c} \subseteq Waiting(h, b, h.by[s])
              /\ Waiting(h, b, h.by[s]) \subseteq Caller
          BY <1>0 DEF Waiting
        <4>3. Cardinality(h.left[s])
                + Cardinality(Waiting(h, b, h.by[s]) \ {c}) < Cardinality(Caller)
          BY <2>2, <2>3, <4>2, FewerWait
        <4> QED
          BY <1>5, <2>3, <4>1, <4>3
      <3> QED
        BY <3>1, <3>2
    <2> QED
      BY <2>1, <2>2, <2>5, <2>6, <2>7
  <1>9. /\ Known(g, d, g.by[u], g.left[u] \cup {u}) + d.com[u] <= ExposureCap
        /\ Cardinality(g.left[u]) + Cardinality(Waiting(g, d, g.by[u])) < Cardinality(Caller)
    <2>1. /\ Known(h, b, rank, h.missed[c]) <= b.seen[c]
          /\ Cardinality(h.missed[c])
               + Cardinality(Waiting(h, b, rank) \ {c}) < Cardinality(Caller)
      BY DEF Told, ReadersFit
    <2>2. g.left[u] = h.missed[c] \ {u}
      BY <1>1
    <2>3. h.missed[c] \subseteq Symbol /\ IsFiniteSet(h.missed[c])
          /\ Cardinality(h.missed[c]) \in Nat
      BY <1>0, HistorySizes DEF IsHistory
    <2> DEFINE fresh == g.left[u] \cup {u}
    <2>4. \A t \in Symbol : g.by[t] <= rank /\ t \notin fresh =>
                              /\ h.by[t] <= rank /\ t \notin h.missed[c]
                              /\ d.margin[t] <= b.margin[t]
      <3> SUFFICES ASSUME NEW t \in Symbol, g.by[t] <= rank, t \notin fresh
                   PROVE  /\ h.by[t] <= rank /\ t \notin h.missed[c]
                          /\ d.margin[t] <= b.margin[t]
        OBVIOUS
      <3>1. t # u /\ t \notin h.missed[c]
        BY <2>2
      <3>2. g.by[t] = h.by[t] /\ d.margin[t] = b.margin[t] /\ b.margin[t] \in Nat
        BY <1>3, <3>1 DEF IsBook
      <3> QED
        BY <3>1, <3>2
    <2> HIDE DEF fresh, rank
    <2>5. /\ Known(g, d, rank, fresh) <= Known(h, b, rank, h.missed[c])
          /\ Known(g, d, rank, fresh) \in Nat
          /\ Known(h, b, rank, h.missed[c]) \in Nat
      BY <1>0, <1>2, <1>4, <2>4, KnownAtMost
    <2>6. b.seen[c] \in Nat /\ d.com[u] \in Nat /\ ExposureCap \in Nat
      BY <1>0, Finiteness DEF IsBook
    <2>7. Known(g, d, rank, fresh) + d.com[u] <= ExposureCap
      BY <2>1, <2>5, <2>6
    <2>8. Cardinality(g.left[u]) <= Cardinality(h.missed[c]) /\ Cardinality(g.left[u]) \in Nat
      BY <2>2, <2>3, SubsetSize
    <2>9. Waiting(g, d, rank) = Waiting(h, b, rank) \ {c} /\ Waiting(h, b, rank) \subseteq Caller
      BY <1>0, <1>5 DEF Waiting
    <2>10. /\ Cardinality(Waiting(h, b, rank) \ {c}) \in Nat /\ Cardinality(Caller) \in Nat
      <3>1. Waiting(h, b, rank) \ {c} \subseteq Caller
        BY <2>9
      <3> QED
        BY <3>1, Finiteness, SubsetSize
    <2>11. Cardinality(g.left[u]) + Cardinality(Waiting(g, d, rank)) < Cardinality(Caller)
      BY <2>1, <2>3, <2>8, <2>9, <2>10
    <2> QED
      BY <1>3, <2>7, <2>11 DEF fresh
  <1>10. OpenFit(g, d)
    BY <1>8, <1>9 DEF OpenFit
  <1> QED
    BY <1>2, <1>7, <1>10 DEF Told

\* Of the positions that are open, one was opened by the last reader.
LEMMA LastReader ==
    ASSUME NEW h, NEW b, IsBook(b), Told(h, b), b.open # {}
    PROVE  \E z \in b.open : \A s \in b.open : h.by[s] <= h.by[z]
  <1> DEFINE N == {n \in Nat : \A s \in b.open : h.by[s] <= n}
  <1>0. \A s \in b.open : h.by[s] \in Nat /\ h.by[s] <= h.now
    BY HistorySizes DEF Told, IsBook
  <1>1. h.now \in N
    BY <1>0 DEF Told, IsHistory
  <1>2. PICK n \in N : \A k \in N : n <= k
    <2>1. N \subseteq Nat /\ N # {}
      BY <1>1
    <2> HIDE DEF N
    <2> QED
      BY <2>1, LeastNatural
  <1>3. \E z \in b.open : h.by[z] = n
    <2> SUFFICES ASSUME \A z \in b.open : h.by[z] # n PROVE FALSE
      OBVIOUS
    <2>1. n \in Nat /\ \A s \in b.open : h.by[s] <= n - 1
      BY <1>0, <1>2
    <2>2. n - 1 \in Nat
      BY <1>0, <2>1
    <2>3. n - 1 \in N
      BY <2>1, <2>2
    <2> QED
      BY <1>2, <2>1, <2>3
  <1> QED
    BY <1>2, <1>3

\* Without what the last reader missed, all that is open fits the cap.
LEMMA WithoutTheMissed ==
    ASSUME NEW h, NEW b, IsBook(b), Told(h, b), NEW drift \in [Symbol -> Nat],
           \A s \in Symbol : b.com[s] <= b.margin[s] + drift[s]
    PROVE  \E together \in SUBSET Symbol :
              /\ Cardinality(together) < Cardinality(Caller)
              /\ \/ b.held + Total(b.com, Symbol \ together) <= b.held
                 \/ b.held + Total(b.com, Symbol \ together) <= ExposureCap + Total(drift, Symbol)
  <1>0. /\ IsHistory(h) /\ b.com \in [Symbol -> Nat] /\ b.margin \in [Symbol -> Nat]
        /\ b.held \in Nat /\ ExposureCap \in Nat /\ b.open \subseteq Symbol
        /\ \A s \in Symbol \ b.open : b.com[s] = 0
    BY Finiteness DEF Told, IsBook
  <1>1. CASE b.open = {}
    <2>1. Cardinality({}) = 0 /\ 0 < Cardinality(Caller)
      <3>1. Cardinality(Caller) \in Nat /\ Cardinality(Caller) # 0
        BY Finiteness, FS_EmptySet, FS_CardinalityType
      <3> QED
        BY <3>1, FS_EmptySet
    <2>2. Symbol \ {} \in SUBSET Symbol /\ \A x \in Symbol \ {} : b.com[x] = 0
      BY <1>0, <1>1
    <2>3. Total(b.com, Symbol \ {}) <= Total(b.com, {})
      BY <1>0, <2>2, TotalAtMost
    <2>4. Total(b.com, {}) = 0
      BY FS_EmptySet, SumPick DEF Total
    <2>5. Total(b.com, Symbol \ {}) \in Nat
      BY <1>0, <2>2, TotalAtMost
    <2>6. b.held + Total(b.com, Symbol \ {}) <= b.held
      BY <1>0, <2>3, <2>4, <2>5
    <2> WITNESS {} \in SUBSET Symbol
    <2> QED
      BY <2>1, <2>6
  <1>2. CASE b.open # {}
    <2>1. PICK z \in b.open : \A s \in b.open : h.by[s] <= h.by[z]
      BY <1>2, LastReader
    <2> DEFINE together == h.left[z]
               rest == Symbol \ together
               known == {t \in Symbol : h.by[t] <= h.by[z]} \ (together \cup {z})
               others == rest \ {z}
    <2>2. /\ b.held + Total(b.margin, known) + b.com[z] <= ExposureCap
          /\ Cardinality(together) + Cardinality(Waiting(h, b, h.by[z])) < Cardinality(Caller)
      BY DEF Told, OpenFit, Known
    <2>3. together \in SUBSET Symbol /\ z \in Symbol /\ Cardinality(together) \in Nat
      BY <1>0, HistorySizes DEF IsHistory
    <2>4. Cardinality(together) < Cardinality(Caller)
      <3>1. Waiting(h, b, h.by[z]) \subseteq Caller
        BY DEF Waiting, IsBook
      <3>2. Cardinality(Waiting(h, b, h.by[z])) \in Nat /\ Cardinality(Caller) \in Nat
        BY <3>1, Finiteness, SubsetSize
      <3> QED
        BY <2>2, <2>3, <3>2
    <2>5. rest \in SUBSET Symbol /\ others \in SUBSET Symbol /\ known \in SUBSET Symbol
          /\ known \subseteq others /\ rest \subseteq others \cup {z}
      BY <2>3
    <2>6. \A s \in others : s \in known \/ b.com[s] = 0
      BY <1>0, <2>1
    <2> HIDE DEF together, rest, known, others
    <2>7. Total(b.com, rest) <= b.com[z] + Total(b.com, others)
      <3>1. IsFiniteSet(others \cup {z}) /\ IsFiniteSet(others) /\ IsFiniteSet(rest)
        BY <2>3, <2>5, Finiteness, SubsetSize
      <3>2. Total(b.com, rest) <= Total(b.com, others \cup {z})
        <4>1. rest \in SUBSET (others \cup {z}) /\ others \cup {z} \in SUBSET Symbol
          BY <2>3, <2>5
        <4>2. \A x \in rest : x \in others \cup {z} /\ b.com[x] <= b.com[x]
          BY <1>0, <2>5
        <4> QED
          BY <1>0, <4>1, <4>2, TotalAtMost
      <3>3. \A x \in others \cup {z} : b.com[x] \in Nat
        BY <1>0, <2>3, <2>5
      <3>4. Total(b.com, others \cup {z}) = b.com[z] + Total(b.com, (others \cup {z}) \ {z})
        BY <3>1, <3>3, SumTakesOut DEF Total
      <3>5. (others \cup {z}) \ {z} = others
        BY DEF others
      <3> QED
        BY <3>2, <3>4, <3>5
    <2>8. Total(b.com, others) <= Total(b.margin, known) + Total(drift, Symbol)
      <3>1. /\ \A x \in others : b.com[x] \in Nat
            /\ \A x \in known : b.margin[x] \in Nat
            /\ \A x \in Symbol : drift[x] \in Nat
        BY <1>0, <2>5
      <3>2. \A x \in others : b.com[x] <= Share(b.margin, known, x) + Share(drift, Symbol, x)
        BY <1>0, <2>5, <2>6, <3>1 DEF Share
      <3> QED
        BY <2>5, <3>1, <3>2, Finiteness, SumIsCovered DEF Total
    <2>9. /\ Total(b.com, rest) \in Nat /\ Total(b.com, others) \in Nat
          /\ Total(b.margin, known) \in Nat /\ Total(drift, Symbol) \in Nat
          /\ b.com[z] \in Nat
      <3>1. \A T \in SUBSET Symbol : \A f \in [Symbol -> Nat] : Total(f, T) \in Nat
        BY TotalAtMost
      <3> QED
        BY <1>0, <2>3, <2>5, <3>1
    <2>10. b.held + Total(b.com, rest) <= ExposureCap + Total(drift, Symbol)
      BY <1>0, <2>2, <2>7, <2>8, <2>9
    <2>11. b.held + Total(b.com, Symbol \ together) <= ExposureCap + Total(drift, Symbol)
      BY <2>10 DEF rest
    <2> QED
      BY <2>3, <2>4, <2>11
  <1> QED
    BY <1>1, <1>2

-----------------------------------------------------------------------------
(* Types, and the cap as the quantity of each attempt respects it.         *)

AttemptType  == [phase : Phase, signal : Signals, seen : Nat, quote : Nat, qty : Nat]
PositionType == [state : {"none", "new", "kept", "degraded", "unsafe"},
                 signal : Signals, quote : Nat, fill : Nat,
                 qty : Nat, fee : PaidBps \cup {0}, target : Int]

\* An attempt with its quantity fits the cap above what it read.
FitsCap(a) ==
    a.phase \in {"sized", "reserved"} =>
       /\ Contract[a.signal.symbol].step <= a.qty
       /\ Margin(a.signal, a.qty, a.quote) + a.seen <= ExposureCap

Typed == TypeOK /\ \A c \in Caller : FitsCap(attempt[c])

LEMMA TypesNamed ==
    TypeOK <=>
      /\ attempt \in [Caller -> AttemptType] /\ attempts \in 0 .. MaxAttempts
      /\ reserved \subseteq Symbol /\ position \in [Symbol -> PositionType]
      /\ active \in [Symbol -> Nat] /\ held \in Nat
  BY DEF TypeOK, AttemptType, PositionType

LEMMA EmptyTypes ==
    /\ AnySignal \in Signals
    /\ Idle \in AttemptType /\ FitsCap(Idle)
    /\ NoPosition \in PositionType
  <1>1. AnySignal \in Signals
    BY SizingAssumption DEF AnySignal
  <1>2. Idle \in AttemptType /\ Idle.phase = "idle"
    BY <1>1 DEF Idle, AttemptType, Phase
  <1>3. NoPosition \in PositionType
    BY <1>1 DEF NoPosition, PositionType
  <1> QED
    BY <1>1, <1>2, <1>3 DEF FitsCap

LEMMA Leverage ==
    ASSUME NEW s \in Signals
    PROVE  20 \div Profile[s.type].leverage \in {1, 2}
  BY SignalFields DEF Profile

\* Margin is a number of units for what the program computes it of; it grows
\* with the quantity, and with the price.
LEMMA MarginIs ==
    ASSUME NEW s \in Signals, NEW n \in Nat, NEW e \in Nat
    PROVE  /\ Margin(s, n, e) \in Nat
           /\ \A k \in Nat : k <= n => Margin(s, k, e) <= Margin(s, n, e)
           /\ \A f, d \in Nat : e <= f + d => Margin(s, n, e) <= Margin(s, n, f) + Margin(s, n, d)
  <1> DEFINE l == 20 \div Profile[s.type].leverage
  <1>1. l \in {1, 2}
    BY Leverage
  <1>2. \A k, f \in Nat : Margin(s, k, f) = k * f * l
    BY DEF Margin
  <1> HIDE DEF l
  <1>3. n * e * l \in Nat
    BY <1>1, Z3
  <1>4. ASSUME NEW k \in Nat, k <= n PROVE k * e * l <= n * e * l
    <2>1. k * e <= n * e /\ k * e \in Nat /\ n * e \in Nat
      BY <1>4, Z3
    <2> QED
      BY <1>1, <2>1
  <1>5. ASSUME NEW f \in Nat, NEW d \in Nat, e <= f + d
        PROVE  n * e * l <= n * f * l + n * d * l
    <2>1. n * e <= n * (f + d)
      BY <1>5, Z3
    <2>2. n * (f + d) = n * f + n * d
      BY Z3
    <2>3. n * e \in Nat /\ n * f \in Nat /\ n * d \in Nat /\ n * (f + d) \in Nat
      BY Z3
    <2> QED
      BY <1>1, <2>1, <2>2, <2>3
  <1> QED
    BY <1>2, <1>3, <1>4, <1>5

LEMMA TargetIs ==
    ASSUME NEW s \in Signals, NEW e \in Int, NEW x \in Int
    PROVE  RunnerTarget(s, e, x) \in Int
  <1>1. Profile[s.type].runner \in Nat
    BY SignalFields DEF Profile
  <1>2. Distance(e, x) \in Int
    BY DEF Distance
  <1>3. Distance(e, x) * Profile[s.type].runner \in Int
    BY <1>1, <1>2
  <1>4. (Distance(e, x) * Profile[s.type].runner) \div 10 \in Int
    BY <1>3
  <1> QED
    BY <1>4 DEF RunnerTarget, PriceAtR

LEMMA TargetsOf ==
    ASSUME NEW s \in Signals
    PROVE  /\ SignalTarget(s) \in Int
           /\ \A e \in Nat : RunnerTarget(s, e, Stop(s)) \in Int
  <1>1. s.entry \in Int /\ s.stop \in Nat /\ Tick \in Nat \ {0}
    BY SignalFields, SizingAssumption
  <1>2. Stop(s) \in Int
    BY <1>1, FlooredIsLargest DEF Stop
  <1>3. SignalTarget(s) \in Int
    BY <1>1, TargetIs DEF SignalTarget
  <1>4. \A e \in Nat : RunnerTarget(s, e, Stop(s)) \in Int
    BY <1>2, TargetIs
  <1> QED
    BY <1>3, <1>4

\* A quantity is a number of the contract's steps.
LEMMA SizeIs ==
    ASSUME NEW s \in Signals, NEW e \in Nat, NEW target, NEW seen \in Nat,
           SumFunction(active) \in Nat, Size(s, e, target, seen) > 0,
           ValidGeometry(s.direction, e, s.stop, target)
    PROVE  LET n == Size(s, e, target, seen) IN
           n \in Nat /\ Contract[s.symbol].step <= n /\ Margin(s, n, e) + seen <= ExposureCap
  <1> DEFINE step == Contract[s.symbol].step
             minQty == Contract[s.symbol].minQty
             minNotional == Contract[s.symbol].minNotional
             loss == NetRisk(e, s.stop, 1, FeeBps)
             best == BudgetQuantity(s, e)
             n == Raised(s, e)
  <1>1. /\ s.stop \in Nat \ {0} /\ step \in Nat \ {0} /\ minQty \in Nat /\ minNotional \in Nat
        /\ e > 0 /\ e # s.stop /\ e \in Nat \ {0}
    BY SignalFields DEF ValidGeometry
  <1>2. Size(s, e, target, seen) = n /\ n > 0
        /\ Margin(s, n, e) <= ExposureCap - CurrentMargin(seen)
    BY DEF Size, MarginFits
  <1>3. loss \in Nat \ {0}
    <2>1. s.stop \in Int /\ e \in Int /\ 1 \in Int
      BY <1>1
    <2>2. loss >= Bps
      BY <1>1, <2>1, UnitLosesAtStop
    <2>3. loss \in Int
      BY <2>1, LinearInQuantity
    <2> QED
      BY <2>2, <2>3 DEF Bps
  <1>4. Budget \in Nat
    <2>1. Risk \in Nat
      BY SizingAssumption DEF Risk, Bps
    <2> QED
      BY <2>1 DEF Budget
  <1>5. best \in Nat /\ best % step = 0
    <2>1. Budget \div loss \in Nat
      <3> HIDE DEF loss
      <3>1. 0 * loss <= Budget
        BY <1>3, <1>4
      <3> QED
        BY <1>3, <1>4, <3>1, Division, MultiplesUpTo
    <2> QED
      BY <1>1, <2>1, FlooredIsLargest DEF BudgetQuantity
  <1>6. n \in Nat /\ n % step = 0
    <2> DEFINE sure == IF best < minQty THEN Floored(minQty, step) ELSE best
    <2>1. sure \in Nat /\ sure % step = 0
      <3> HIDE DEF best
      <3> QED
        BY <1>1, <1>5, FlooredIsLargest
    <2>2. minNotional \div e \in Nat
      <3>1. 0 * e <= minNotional
        BY <1>1
      <3> QED
        BY <1>1, <3>1, Division, MultiplesUpTo
    <2>3. Floored(minNotional \div e, step) \in Nat /\ Floored(minNotional \div e, step) % step = 0
      BY <1>1, <2>2, FlooredIsLargest
    <2>4. n = IF sure * e < minNotional THEN Floored(minNotional \div e, step) ELSE sure
      BY DEF Raised
    <2> HIDE DEF sure, n
    <2> QED
      BY <2>1, <2>3, <2>4
  <1>7. step <= n
    <2> HIDE DEF n, step
    <2>1. n = step * (n \div step) /\ n \div step \in Int
      BY <1>1, <1>6, Z3
    <2>2. n \div step >= 1
      BY <1>1, <1>2, <1>6, <2>1, Z3
    <2> QED
      BY <1>1, <1>6, <2>1, <2>2, Z3
  <1>8. CurrentMargin(seen) \in Nat /\ CurrentMargin(seen) >= seen
    BY DEF CurrentMargin
  <1>9. Margin(s, n, e) + seen <= ExposureCap
    <2>1. Margin(s, n, e) \in Nat
      BY <1>6, MarginIs
    <2> QED
      BY <1>2, <1>8, <2>1, Finiteness
  <1> QED
    BY <1>2, <1>6, <1>7, <1>9

LEMMA SumsAreNatural ==
    ASSUME TypeOK
    PROVE  SumFunction(active) \in Nat /\ ExchangeMargin \in Nat
  <1> DEFINE m == [s \in Symbol |-> PositionMargin(position[s])]
  <1>1. active \in [Symbol -> Nat] /\ held \in Nat
    BY DEF TypeOK
  <1>2. m \in [Symbol -> Nat]
    <2>1. \A s \in Symbol : /\ position[s].signal \in Signals /\ position[s].qty \in Nat
                            /\ position[s].fill \in Nat
      BY TypesNamed DEF PositionType
    <2> QED
      BY <2>1, MarginIs DEF PositionMargin
  <1>3. \A f \in [Symbol -> Nat] : SumFunction(f) \in Nat
    <2> SUFFICES ASSUME NEW f \in [Symbol -> Nat] PROVE SumFunction(f) \in Nat
      OBVIOUS
    <2>1. DOMAIN f = Symbol /\ \A s \in Symbol : f[s] \in Nat
      OBVIOUS
    <2> QED
      BY <2>1, Finiteness, SumIsNatural DEF SumFunction
  <1> HIDE DEF m
  <1>4. SumFunction(m) \in Nat
    BY <1>2, <1>3
  <1> QED
    BY <1>1, <1>3, <1>4 DEF ExchangeMargin, m

LEMMA TypedInit == Init => Typed
  <1> SUFFICES ASSUME Init PROVE Typed
    OBVIOUS
  <1>1. attempt \in [Caller -> AttemptType] /\ \A c \in Caller : FitsCap(attempt[c])
    BY EmptyTypes DEF Init
  <1>2. position \in [Symbol -> PositionType] /\ active \in [Symbol -> Nat]
    BY EmptyTypes DEF Init
  <1>3. attempts \in 0 .. MaxAttempts /\ reserved \subseteq Symbol /\ held \in Nat
    <2>1. MaxAttempts \in Nat /\ HeldMargins \subseteq Nat
      BY SizingAssumption
    <2>2. held \in Nat
      BY <2>1 DEF Init
    <2>3. attempts = 0 /\ reserved = {}
      BY DEF Init
    <2> QED
      BY <2>1, <2>2, <2>3
  <1> QED
    BY <1>1, <1>2, <1>3, TypesNamed DEF Typed

LEMMA TypedMoves ==
    ASSUME Typed, NEW c \in Caller, NEW new \in AttemptType, FitsCap(new), Goes(c, new),
           attempts' \in 0 .. MaxAttempts, reserved' \subseteq Symbol,
           position' \in [Symbol -> PositionType], active' \in [Symbol -> Nat],
           UNCHANGED held
    PROVE  Typed'
  <1>1. attempt \in [Caller -> AttemptType] /\ held \in Nat
    BY TypesNamed DEF Typed
  <1>2. attempt' \in [Caller -> AttemptType]
    BY <1>1 DEF Goes
  <1>3. attempt'[c] = new /\ \A d \in Caller \ {c} : attempt'[d] = attempt[d]
    BY <1>1 DEF Goes
  <1>4. \A d \in Caller : FitsCap(attempt'[d])
    BY <1>3 DEF Typed
  <1>5. TypeOK'
    BY <1>1, <1>2 DEF TypeOK, AttemptType, PositionType
  <1> QED
    BY <1>4, <1>5 DEF Typed, FitsCap

LEMMA TypedParts ==
    ASSUME Typed
    PROVE  /\ attempts \in 0 .. MaxAttempts /\ reserved \subseteq Symbol
           /\ position \in [Symbol -> PositionType] /\ active \in [Symbol -> Nat]
           /\ held \in Nat
           /\ \A c \in Caller : attempt[c] \in AttemptType /\ FitsCap(attempt[c])
           /\ \A s \in Symbol : position[s] \in PositionType
  <1>1. /\ attempt \in [Caller -> AttemptType] /\ position \in [Symbol -> PositionType]
        /\ attempts \in 0 .. MaxAttempts /\ reserved \subseteq Symbol
        /\ active \in [Symbol -> Nat] /\ held \in Nat
    BY TypesNamed DEF Typed
  <1>2. \A c \in Caller : FitsCap(attempt[c])
    BY DEF Typed
  <1>3. \A c \in Caller : attempt[c] \in AttemptType
    BY <1>1
  <1>4. \A s \in Symbol : position[s] \in PositionType
    BY <1>1
  <1> QED
    BY <1>1, <1>2, <1>3, <1>4

LEMMA TypedBefore ==
    ASSUME Typed, Quoted, NEW c \in Caller,
           \/ Begins(c) \/ Refused(c) \/ FeePreflight(c) \/ SpreadGate(c)
           \/ ReadsAccount(c) \/ Quotes(c) \/ Sizes(c)
    PROVE  Typed'
  <1> DEFINE a == attempt[c]
  <1>0. a \in AttemptType /\ FitsCap(a) /\ a.signal \in Signals
    BY TypedParts DEF AttemptType
  <1>1. /\ reserved' \subseteq Symbol /\ position' \in [Symbol -> PositionType]
        /\ active' \in [Symbol -> Nat] /\ UNCHANGED held
    BY TypedParts DEF Begins, Refused, FeePreflight, SpreadGate, ReadsAccount, Quotes, Sizes
  <1>2. attempts' \in 0 .. MaxAttempts
    <2>1. attempts \in 0 .. MaxAttempts /\ MaxAttempts \in Nat
      BY TypedParts, SizingAssumption
    <2>2. CASE Begins(c)
      <3>1. attempts' = attempts + 1 /\ attempts < MaxAttempts
        BY <2>2 DEF Begins
      <3> QED
        BY <2>1, <3>1
    <2>3. CASE ~Begins(c)
      <3>1. attempts' = attempts
        BY <2>3 DEF Refused, FeePreflight, SpreadGate, ReadsAccount, Quotes, Sizes
      <3> QED
        BY <2>1, <3>1
    <2> QED
      BY <2>2, <2>3
  <1>3. ASSUME NEW new \in AttemptType, FitsCap(new), Goes(c, new) PROVE Typed'
    BY <1>1, <1>2, <1>3, TypedMoves
  <1>4. CASE GivesUp(c)
    BY <1>3, <1>4, EmptyTypes DEF GivesUp
  <1>5. ASSUME NEW p \in {"gate", "start"}, Goes(c, [a EXCEPT !.phase = p])
        PROVE  Typed'
    <2> DEFINE new == [a EXCEPT !.phase = p]
    <2>1. new \in AttemptType /\ new.phase = p
      BY <1>0 DEF AttemptType, Phase
    <2>2. FitsCap(new) /\ Goes(c, new)
      BY <1>5, <2>1 DEF FitsCap
    <2> HIDE DEF new
    <2> QED
      BY <1>3, <2>1, <2>2
  <1>6. CASE Begins(c)
    <2> DEFINE p == IF c \in Worker THEN "preflight" ELSE "gate"
               new(s) == [Idle EXCEPT !.phase = p, !.signal = s]
    <2>1. PICK s \in Signals : Goes(c, new(s))
      BY <1>6 DEF Begins
    <2>2. p \in {"preflight", "gate"}
      OBVIOUS
    <2> HIDE DEF p
    <2>3. new(s) \in AttemptType /\ new(s).phase = p
      BY <2>2, EmptyTypes DEF AttemptType, Phase
    <2>4. FitsCap(new(s))
      BY <2>2, <2>3 DEF FitsCap
    <2> HIDE DEF new
    <2> QED
      BY <1>3, <2>1, <2>3, <2>4
  <1>7. CASE Refused(c)
    BY <1>4, <1>7 DEF Refused
  <1>8. CASE FeePreflight(c) \/ SpreadGate(c)
    BY <1>4, <1>5, <1>8 DEF FeePreflight, SpreadGate
  <1>9. CASE ReadsAccount(c)
    <2> DEFINE new == [a EXCEPT !.phase = "read", !.seen = ExchangeMargin]
    <2>1. ExchangeMargin \in Nat
      BY SumsAreNatural DEF Typed
    <2>2. new \in AttemptType /\ new.phase = "read"
      BY <1>0, <2>1 DEF AttemptType, Phase
    <2>3. FitsCap(new) /\ Goes(c, new)
      BY <1>9, <2>2 DEF FitsCap, ReadsAccount
    <2> HIDE DEF new
    <2> QED
      BY <1>3, <2>2, <2>3
  <1>10. CASE Quotes(c) /\ ~GivesUp(c)
    <2> DEFINE new(q) == [a EXCEPT !.phase = "quoted", !.quote = q]
    <2>1. PICK drift \in Drifts : /\ Validated(a.signal, a.signal.entry + drift)
                                  /\ Goes(c, new(a.signal.entry + drift))
      BY <1>10 DEF Quotes
    <2> DEFINE q == a.signal.entry + drift
    <2>2. q \in Nat
      <3>1. q \in Int
        BY <1>0, SignalFields, SizingAssumption
      <3>2. q > 0
        BY <2>1 DEF Validated, RewardsRisk, ValidGeometry
      <3> QED
        BY <3>1, <3>2
    <2>3. Goes(c, new(q))
      BY <2>1
    <2> HIDE DEF q
    <2>4. new(q) \in AttemptType /\ new(q).phase = "quoted"
      BY <1>0, <2>2 DEF AttemptType, Phase
    <2>5. FitsCap(new(q))
      BY <2>4 DEF FitsCap
    <2> HIDE DEF new
    <2> QED
      BY <1>3, <2>3, <2>4, <2>5
  <1>11. CASE Sizes(c) /\ ~GivesUp(c)
    <2> DEFINE n == Size(a.signal, a.quote, SignalTarget(a.signal), a.seen)
               new == [a EXCEPT !.phase = "sized", !.qty = n]
    <2>1. a.phase = "quoted" /\ n > 0 /\ Goes(c, new)
      BY <1>11 DEF Sizes, At
    <2>2. ValidGeometry(a.signal.direction, a.quote, a.signal.stop, SignalTarget(a.signal))
      BY <2>1 DEF Quoted, At
    <2>3. a.quote \in Nat /\ a.seen \in Nat
      BY <1>0 DEF AttemptType
    <2>4. SumFunction(active) \in Nat
      BY SumsAreNatural DEF Typed
    <2>5. n \in Nat /\ Contract[a.signal.symbol].step <= n
          /\ Margin(a.signal, n, a.quote) + a.seen <= ExposureCap
      BY <1>0, <2>1, <2>2, <2>3, <2>4, SizeIs
    <2> HIDE DEF n
    <2>6. /\ new \in AttemptType /\ new.signal = a.signal /\ new.qty = n
          /\ new.quote = a.quote /\ new.seen = a.seen
      BY <1>0, <2>5 DEF AttemptType, Phase
    <2>7. FitsCap(new)
      BY <2>5, <2>6 DEF FitsCap
    <2> HIDE DEF new
    <2> QED
      BY <1>3, <2>1, <2>6, <2>7
  <1> QED
    BY <1>4, <1>6, <1>7, <1>8, <1>9, <1>10, <1>11

LEMMA TypedOrder ==
    ASSUME Typed, NEW c \in Caller, Reserves(c) \/ OrderFails(c) \/ Fills(c)
    PROVE  Typed'
  <1> DEFINE a == attempt[c]
  <1>0. a \in AttemptType /\ FitsCap(a) /\ a.signal \in Signals /\ a.signal.symbol \in Symbol
    BY TypedParts, SymbolsOfSignals DEF AttemptType
  <1>1. attempts' \in 0 .. MaxAttempts /\ reserved' \subseteq Symbol
        /\ active' \in [Symbol -> Nat] /\ UNCHANGED held
    BY <1>0, TypedParts DEF Reserves, OrderFails, Fills
  <1>2. CASE ~Fills(c)
    <2>1. position' \in [Symbol -> PositionType]
      BY <1>2, TypedParts DEF Reserves, OrderFails
    <2>2. CASE GivesUp(c)
      BY <1>1, <2>1, <2>2, EmptyTypes, TypedMoves DEF GivesUp
    <2>3. CASE Reserves(c) /\ ~GivesUp(c)
      <3> DEFINE new == [a EXCEPT !.phase = "reserved"]
      <3>1. /\ new \in AttemptType /\ new.signal = a.signal /\ new.qty = a.qty
            /\ new.quote = a.quote /\ new.seen = a.seen /\ new.phase = "reserved"
        BY <1>0 DEF AttemptType, Phase
      <3>2. a.phase = "sized" /\ Goes(c, new)
        BY <2>3 DEF Reserves, At
      <3>3. FitsCap(new)
        BY <1>0, <3>1, <3>2 DEF FitsCap
      <3> HIDE DEF new
      <3> QED
        BY <1>1, <2>1, <3>1, <3>2, <3>3, TypedMoves
    <2> QED
      BY <1>2, <2>2, <2>3 DEF OrderFails
  <1>3. CASE Fills(c)
    <2> DEFINE new == [a EXCEPT !.phase = "filled"]
               p(f, n, q) == [state |-> "new", signal |-> a.signal, quote |-> a.quote,
                              fill |-> f, qty |-> n, fee |-> q,
                              target |-> SignalTarget(a.signal)]
    <2>1. new \in AttemptType /\ new.phase = "filled" /\ Goes(c, new)
      BY <1>0, <1>3 DEF AttemptType, Phase, Fills
    <2>2. FitsCap(new)
      BY <2>1 DEF FitsCap
    <2>3. PICK drift \in Drifts, fee \in PaidBps \cup {0},
               n \in {a.qty, Contract[a.signal.symbol].step} :
             /\ a.quote + drift > 0
             /\ position' = [position EXCEPT ![a.signal.symbol] = p(a.quote + drift, n, fee)]
      BY <1>3 DEF Fills
    <2> DEFINE f == a.quote + drift
    <2>4. f \in Nat /\ n \in Nat /\ a.quote \in Nat
      <3>1. drift \in Int /\ Contract[a.signal.symbol].step \in Nat
        BY <1>0, SignalFields, SizingAssumption
      <3> QED
        BY <1>0, <2>3, <3>1 DEF AttemptType
    <2>5. position' = [position EXCEPT ![a.signal.symbol] = p(f, n, fee)]
      BY <2>3
    <2> HIDE DEF f
    <2>6. SignalTarget(a.signal) \in Int
      BY <1>0, TargetsOf
    <2>7. p(f, n, fee) \in PositionType
      BY <1>0, <2>4, <2>6 DEF PositionType
    <2> HIDE DEF p, new
    <2>8. position' \in [Symbol -> PositionType]
      BY <2>5, <2>7, TypedParts
    <2> QED
      BY <1>1, <2>1, <2>2, <2>8, TypedMoves
  <1> QED
    BY <1>2, <1>3

LEMMA TypedActivated ==
    ASSUME Typed, NEW c \in Caller, Activated(c)
    PROVE  active' \in [Symbol -> Nat]
  <1> DEFINE a == attempt[c]
  <1>1. a.signal \in Signals /\ a.qty \in Nat /\ a.quote \in Nat
    BY TypedParts DEF AttemptType
  <1>2. Margin(a.signal, a.qty, a.quote) \in Nat
    BY <1>1, MarginIs
  <1> QED
    BY <1>2, TypedParts DEF Activated

LEMMA TypedCloses ==
    ASSUME Typed, NEW c \in Caller, ClosesAtOnce(c), UNCHANGED <<attempts, reserved, held>>
    PROVE  Typed'
  <1> DEFINE s == attempt[c].signal.symbol
  <1>1. s \in Symbol
    BY TypedParts, SymbolsOfSignals DEF AttemptType
  <1>2. [position[s] EXCEPT !.state = "unsafe"] \in PositionType
    BY <1>1, TypedParts DEF PositionType
  <1>3. position' \in [Symbol -> PositionType]
    BY <1>1, <1>2, EmptyTypes, TypedParts DEF ClosesAtOnce
  <1>4. active' \in [Symbol -> Nat] /\ GivesUp(c)
    BY TypedActivated DEF ClosesAtOnce
  <1> QED
    BY <1>3, <1>4, EmptyTypes, TypedMoves, TypedParts DEF GivesUp

LEMMA TypedChecks ==
    ASSUME Typed, NEW c \in Caller,
           Protects(c) \/ ChecksCosts(c) \/ ProfileFails(c) \/ InstallsProfile(c)
    PROVE  Typed'
  <1> DEFINE a == attempt[c]
             s == a.signal.symbol
             old == position[s]
  <1>0. a \in AttemptType /\ s \in Symbol /\ old \in PositionType
    BY TypedParts, SymbolsOfSignals DEF AttemptType
  <1>1. UNCHANGED <<attempts, reserved, held>>
    BY DEF Protects, ChecksCosts, ProfileFails, InstallsProfile
  <1>2. CASE ClosesAtOnce(c)
    BY <1>1, <1>2, TypedCloses
  <1>3. ASSUME NEW p \in {"protected", "costed"}, Goes(c, [a EXCEPT !.phase = p]),
               UNCHANGED position, active' \in [Symbol -> Nat]
        PROVE  Typed'
    <2> DEFINE new == [a EXCEPT !.phase = p]
    <2>1. new \in AttemptType /\ new.phase = p
      BY <1>0 DEF AttemptType, Phase
    <2>2. FitsCap(new) /\ Goes(c, new)
      BY <1>3, <2>1 DEF FitsCap
    <2> HIDE DEF new
    <2> QED
      BY <1>1, <1>3, <2>1, <2>2, TypedMoves, TypedParts
  <1>4. CASE Protects(c) /\ ~ClosesAtOnce(c)
    BY <1>3, <1>4, TypedActivated DEF Protects
  <1>5. CASE ChecksCosts(c) /\ ~ClosesAtOnce(c)
    BY <1>3, <1>5, TypedParts DEF ChecksCosts
  <1>6. ASSUME NEW p \in PositionType, Keeps(c, p) PROVE Typed'
    <2>1. p.signal.symbol \in Symbol
      BY SymbolsOfSignals DEF PositionType
    <2>2. position' \in [Symbol -> PositionType]
      BY <1>6, <2>1, TypedParts DEF Keeps
    <2>3. active' \in [Symbol -> Nat] /\ GivesUp(c)
      BY <1>6, TypedParts DEF Keeps
    <2> QED
      BY <1>1, <2>2, <2>3, EmptyTypes, TypedMoves, TypedParts DEF GivesUp
  <1>7. \A state \in {"kept", "degraded"} : [Managed(old) EXCEPT !.state = state] \in PositionType
    <2>1. RunnerTarget(old.signal, old.fill, Stop(old.signal)) \in Int
      BY <1>0, TargetsOf DEF PositionType
    <2> QED
      BY <1>0, <2>1 DEF PositionType, Managed
  <1>8. CASE (ProfileFails(c) \/ InstallsProfile(c)) /\ ~ClosesAtOnce(c)
    BY <1>6, <1>7, <1>8 DEF ProfileFails, InstallsProfile
  <1> QED
    BY <1>2, <1>4, <1>5, <1>8

LEMMA TypedSettles ==
    ASSUME Typed, NEW s \in Symbol, Settles(s)
    PROVE  Typed'
  <1>1. /\ reserved' \subseteq Symbol /\ position' \in [Symbol -> PositionType]
        /\ active' \in [Symbol -> Nat] /\ UNCHANGED <<attempt, attempts, held>>
    BY EmptyTypes, TypedParts DEF Settles
  <1>2. TypeOK'
    BY <1>1, TypedParts DEF Typed, TypeOK, AttemptType, PositionType
  <1> QED
    BY <1>1, <1>2 DEF Typed, FitsCap

LEMMA TypedStep ==
    ASSUME Typed, Quoted, [Next]_vars
    PROVE  Typed'
  <1>1. CASE UNCHANGED vars
    BY <1>1 DEF vars, Typed, TypeOK, FitsCap
  <1>2. CASE Next
    BY <1>2, TypedBefore, TypedOrder, TypedChecks, TypedSettles DEF Next
  <1> QED
    BY <1>1, <1>2

\* For every set of callers, signals and contracts, every drift and fee, the
\* state is well typed: what a caller reads and is given, what the exchange
\* holds and what the program remembers of it stay numbers of units, and no
\* more attempts are begun than the bound.
THEOREM SizingTypesHold == Spec => []TypeOK
  <1>1. Init => EntryInv /\ Quoted /\ Typed
    BY EntryInvInit, QuotedInit, TypedInit
  <1>2. EntryInv /\ Quoted /\ Typed /\ [Next]_vars => (EntryInv /\ Quoted /\ Typed)'
    BY EntryInvStep, QuotedStep, TypedStep DEF EntryInv
  <1>3. Typed => TypeOK
    BY DEF Typed
  <1> QED
    BY <1>1, <1>2, <1>3, PTL DEF Spec

-----------------------------------------------------------------------------
(* The book of a state: entries between their read and their order, and    *)
(* the margin of what is open, at its fill and as it was sized.            *)

Underway == {"read", "quoted", "sized", "reserved"}
SizedMargin(p) == Margin(p.signal, p.qty, p.quote)
BookOf(att, pos, other) ==
    [flight |-> {c \in Caller : att[c].phase \in Underway},
     open   |-> {s \in Symbol : pos[s].qty > 0},
     held   |-> other,
     seen   |-> [c \in Caller |-> att[c].seen],
     margin |-> [s \in Symbol |-> PositionMargin(pos[s])],
     com    |-> [s \in Symbol |-> SizedMargin(pos[s])]]

\* There is an account of who read what that the book bears out.
AccountedFor(att, pos, other) == \E h : Told(h, BookOf(att, pos, other))

LEMMA MarginsOf ==
    /\ \A p \in PositionType : PositionMargin(p) \in Nat /\ SizedMargin(p) \in Nat
    /\ \A p \in PositionType : p.qty = 0 => PositionMargin(p) = 0 /\ SizedMargin(p) = 0
    /\ NoPosition.qty = 0
  <1>1. \A p \in PositionType : PositionMargin(p) \in Nat /\ SizedMargin(p) \in Nat
    BY MarginIs DEF PositionType, PositionMargin, SizedMargin
  <1>2. ASSUME NEW p \in PositionType, p.qty = 0
        PROVE  PositionMargin(p) = 0 /\ SizedMargin(p) = 0
    <2> DEFINE l == 20 \div Profile[p.signal.type].leverage
    <2>1. p.quote \in Nat /\ p.fill \in Nat /\ l \in {1, 2}
      BY Leverage DEF PositionType
    <2>2. PositionMargin(p) = 0 * p.fill * l /\ SizedMargin(p) = 0 * p.quote * l
      BY <1>2 DEF PositionMargin, SizedMargin, Margin
    <2> HIDE DEF l
    <2> QED
      BY <2>1, <2>2
  <1>3. NoPosition.qty = 0
    BY DEF NoPosition
  <1> QED
    BY <1>1, <1>2, <1>3

IsBookOf(b, att, pos, other) ==
    /\ IsBook(b) /\ b.held = other
    /\ \A c \in Caller : c \in b.flight <=> att[c].phase \in Underway
    /\ \A c \in Caller : b.seen[c] = att[c].seen
    /\ \A s \in Symbol : s \in b.open <=> pos[s].qty > 0
    /\ \A s \in Symbol : b.margin[s] = PositionMargin(pos[s])
    /\ \A s \in Symbol : b.com[s] = SizedMargin(pos[s])

LEMMA BookIs ==
    ASSUME NEW att \in [Caller -> AttemptType], NEW pos \in [Symbol -> PositionType],
           NEW other \in Nat, NEW b, b = BookOf(att, pos, other)
    PROVE  IsBookOf(b, att, pos, other)
  <1>1. /\ b.flight = {c \in Caller : att[c].phase \in Underway}
        /\ b.open = {s \in Symbol : pos[s].qty > 0} /\ b.held = other
        /\ b.seen = [c \in Caller |-> att[c].seen]
        /\ b.margin = [s \in Symbol |-> PositionMargin(pos[s])]
        /\ b.com = [s \in Symbol |-> SizedMargin(pos[s])]
    BY DEF BookOf
  <1>2. \A c \in Caller : att[c].seen \in Nat
    BY DEF AttemptType
  <1>3. \A s \in Symbol : pos[s] \in PositionType
    OBVIOUS
  <1>4. \A s \in Symbol : pos[s].qty \in Nat
    BY <1>3 DEF PositionType
  <1>5. b.seen \in [Caller -> Nat] /\ b.flight \subseteq Caller /\ b.open \subseteq Symbol
    BY <1>1, <1>2
  <1>6. b.margin \in [Symbol -> Nat] /\ b.com \in [Symbol -> Nat]
    BY <1>1, <1>3, MarginsOf
  <1>7. \A s \in Symbol \ b.open : b.margin[s] = 0 /\ b.com[s] = 0
    BY <1>1, <1>3, <1>4, MarginsOf
  <1>8. IsBook(b)
    BY <1>1, <1>5, <1>6, <1>7 DEF IsBook
  <1> QED
    BY <1>1, <1>8 DEF IsBookOf

SameMoney(p, q) ==
    p.signal = q.signal /\ p.quote = q.quote /\ p.fill = q.fill /\ p.qty = q.qty

LEMMA AccountedLess ==
    ASSUME NEW att \in [Caller -> AttemptType], NEW pos \in [Symbol -> PositionType],
           NEW next \in [Caller -> AttemptType], NEW after \in [Symbol -> PositionType],
           NEW other \in Nat, AccountedFor(att, pos, other),
           \A c \in Caller : next[c].phase \in Underway =>
                               att[c].phase \in Underway /\ next[c].seen = att[c].seen,
           \A s \in Symbol : SameMoney(after[s], pos[s]) \/ after[s] = NoPosition
    PROVE  AccountedFor(next, after, other)
  <1> DEFINE b == BookOf(att, pos, other)
             d == BookOf(next, after, other)
  <1>1. PICK h : Told(h, b)
    BY DEF AccountedFor
  <1>2. IsBookOf(b, att, pos, other)
    BY BookIs
  <1>3. IsBookOf(d, next, after, other)
    BY BookIs
  <1> HIDE DEF b, d
  <1>4. d.flight \subseteq b.flight /\ \A c \in d.flight : d.seen[c] = b.seen[c]
    BY <1>2, <1>3 DEF IsBook, IsBookOf
  <1>5. ASSUME NEW s \in Symbol
        PROVE  /\ d.margin[s] <= b.margin[s] /\ d.com[s] <= b.com[s]
               /\ s \in d.open => s \in b.open
    <2>1. /\ PositionMargin(pos[s]) \in Nat /\ SizedMargin(pos[s]) \in Nat
          /\ pos[s] \in PositionType /\ after[s] \in PositionType
      BY MarginsOf
    <2>2. CASE SameMoney(after[s], pos[s])
      <3>1. /\ PositionMargin(after[s]) = PositionMargin(pos[s])
            /\ SizedMargin(after[s]) = SizedMargin(pos[s])
        BY <2>2 DEF SameMoney, PositionMargin, SizedMargin
      <3> QED
        BY <1>2, <1>3, <2>1, <2>2, <3>1 DEF SameMoney, IsBookOf
    <2>3. CASE after[s] = NoPosition
      <3>1. PositionMargin(after[s]) = 0 /\ SizedMargin(after[s]) = 0 /\ ~(after[s].qty > 0)
        BY <2>1, <2>3, MarginsOf
      <3> QED
        BY <1>2, <1>3, <2>1, <3>1 DEF IsBookOf
    <2> QED
      BY <2>2, <2>3
  <1>6. d.open \subseteq b.open
    BY <1>3, <1>5 DEF IsBook, IsBookOf
  <1>7. Told(h, d)
    BY <1>1, <1>2, <1>3, <1>4, <1>5, <1>6, LessToTell DEF IsBookOf
  <1> QED
    BY <1>7 DEF AccountedFor, d

LEMMA AccountedRead ==
    ASSUME NEW att \in [Caller -> AttemptType], NEW pos \in [Symbol -> PositionType],
           NEW next \in [Caller -> AttemptType], NEW other \in Nat,
           AccountedFor(att, pos, other),
           NEW k \in Caller, att[k].phase \notin Underway, next[k].phase \in Underway,
           \A c \in Caller \ {k} : next[c] = att[c],
           next[k].seen = other + Total([s \in Symbol |-> PositionMargin(pos[s])], Symbol)
    PROVE  AccountedFor(next, pos, other)
  <1> DEFINE b == BookOf(att, pos, other)
             d == BookOf(next, pos, other)
  <1>1. PICK h : Told(h, b)
    BY DEF AccountedFor
  <1>2. IsBookOf(b, att, pos, other)
    BY BookIs
  <1>3. IsBookOf(d, next, pos, other)
    BY BookIs
  <1>4. /\ d.open = b.open /\ d.margin = b.margin /\ d.com = b.com
        /\ b.margin = [s \in Symbol |-> PositionMargin(pos[s])]
    BY DEF BookOf
  <1> HIDE DEF b, d
  <1>5. k \notin b.flight
    BY <1>2 DEF IsBookOf
  <1>6. d.flight = b.flight \cup {k}
    BY <1>2, <1>3 DEF IsBook, IsBookOf
  <1>7. \A c \in b.flight : d.seen[c] = b.seen[c]
    BY <1>2, <1>3, <1>5 DEF IsBook, IsBookOf
  <1>8. d.seen[k] = b.held + Total(b.margin, Symbol)
    BY <1>2, <1>3, <1>4 DEF IsBookOf
  <1>9. \E g : Told(g, d)
    BY <1>1, <1>2, <1>3, <1>4, <1>5, <1>6, <1>7, <1>8, ToldOfRead DEF IsBookOf
  <1> QED
    BY <1>9 DEF AccountedFor, d

LEMMA AccountedFill ==
    ASSUME NEW att \in [Caller -> AttemptType], NEW pos \in [Symbol -> PositionType],
           NEW next \in [Caller -> AttemptType], NEW after \in [Symbol -> PositionType],
           NEW other \in Nat, AccountedFor(att, pos, other),
           NEW c \in Caller, att[c].phase \in Underway, next[c].phase \notin Underway,
           \A e \in Caller \ {c} : next[e] = att[e],
           NEW u \in Symbol, \A s \in Symbol \ {u} : after[s] = pos[s],
           after[u].qty > 0, SizedMargin(after[u]) + att[c].seen <= ExposureCap
    PROVE  AccountedFor(next, after, other)
  <1> DEFINE b == BookOf(att, pos, other)
             d == BookOf(next, after, other)
  <1>1. PICK h : Told(h, b)
    BY DEF AccountedFor
  <1>2. IsBookOf(b, att, pos, other)
    BY BookIs
  <1>3. IsBookOf(d, next, after, other)
    BY BookIs
  <1> HIDE DEF b, d
  <1>4. c \in b.flight /\ d.flight = b.flight \ {c}
    <2>1. b.flight \subseteq Caller /\ d.flight \subseteq Caller
      BY <1>2, <1>3 DEF IsBook, IsBookOf
    <2>2. c \in b.flight /\ c \notin d.flight
      BY <1>2, <1>3 DEF IsBookOf
    <2>3. \A e \in Caller \ {c} : e \in d.flight <=> e \in b.flight
      BY <1>2, <1>3 DEF IsBookOf
    <2> QED
      BY <2>1, <2>2, <2>3
  <1>5. \A e \in d.flight : d.seen[e] = b.seen[e]
    BY <1>2, <1>3, <1>4 DEF IsBook, IsBookOf
  <1>6. d.open = b.open \cup {u}
    BY <1>2, <1>3 DEF IsBook, IsBookOf
  <1>7. \A s \in Symbol \ {u} : d.margin[s] = b.margin[s] /\ d.com[s] = b.com[s]
    BY <1>2, <1>3 DEF IsBookOf
  <1>8. d.com[u] + b.seen[c] <= ExposureCap
    BY <1>2, <1>3 DEF IsBookOf
  <1>9. \E g : Told(g, d)
    BY <1>1, <1>2, <1>3, <1>4, <1>5, <1>6, <1>7, <1>8, ToldOfFill DEF IsBookOf
  <1> QED
    BY <1>9 DEF AccountedFor, d

-----------------------------------------------------------------------------
(* Steps.                                                                  *)

Accounted == AccountedFor(attempt, position, held)

LEMMA AccountedInit ==
    ASSUME Init PROVE Accounted
  <1> DEFINE b == BookOf(attempt, position, held)
             h == [now |-> 0, read |-> [c \in Caller |-> 0], by |-> [s \in Symbol |-> 0],
                   missed |-> [c \in Caller |-> {}], left |-> [s \in Symbol |-> {}]]
  <1>1. /\ attempt \in [Caller -> AttemptType] /\ position \in [Symbol -> PositionType]
        /\ held \in Nat
    BY TypedInit, TypesNamed DEF Typed
  <1>2. \A c \in Caller : attempt[c].phase = "idle"
    BY DEF Init, Idle
  <1>3. \A s \in Symbol : ~(position[s].qty > 0)
    BY MarginsOf DEF Init
  <1>4. IsHistory(h)
    BY DEF IsHistory
  <1>5. b.flight = {} /\ b.open = {}
    BY <1>2, <1>3 DEF BookOf, Underway
  <1> HIDE DEF b, h
  <1>6. Told(h, b)
    BY <1>4, <1>5 DEF Told, ReadersFit, OpenFit
  <1> QED
    BY <1>6 DEF Accounted, AccountedFor, b

LEMMA AccountedStepLess ==
    ASSUME Typed, Typed', Accounted, UNCHANGED held,
           \A c \in Caller : attempt'[c].phase \in Underway =>
              attempt[c].phase \in Underway /\ attempt'[c].seen = attempt[c].seen,
           \A s \in Symbol : SameMoney(position'[s], position[s]) \/ position'[s] = NoPosition
    PROVE  Accounted'
  <1>1. /\ attempt \in [Caller -> AttemptType] /\ position \in [Symbol -> PositionType]
        /\ held \in Nat
    BY TypesNamed DEF Typed
  <1>2. attempt' \in [Caller -> AttemptType] /\ position' \in [Symbol -> PositionType]
    BY DEF Typed, TypeOK, AttemptType, PositionType
  <1>3. AccountedFor(attempt, position, held)
    BY DEF Accounted
  <1>4. AccountedFor(attempt', position', held)
    BY <1>1, <1>2, <1>3, AccountedLess
  <1> QED
    BY <1>4 DEF Accounted

\* A caller that moves on, gives up, or passes a check.
LEMMA AccountedMoves ==
    ASSUME Typed, Typed', Accounted, UNCHANGED held, NEW c \in Caller, NEW new, Goes(c, new),
           new.phase \in Underway =>
              attempt[c].phase \in Underway /\ new.seen = attempt[c].seen,
           \A s \in Symbol : SameMoney(position'[s], position[s]) \/ position'[s] = NoPosition
    PROVE  Accounted'
  <1>1. attempt \in [Caller -> AttemptType]
    BY TypesNamed DEF Typed
  <1>2. attempt'[c] = new /\ \A d \in Caller \ {c} : attempt'[d] = attempt[d]
    BY <1>1 DEF Goes
  <1>3. \A d \in Caller : attempt'[d].phase \in Underway =>
           attempt[d].phase \in Underway /\ attempt'[d].seen = attempt[d].seen
    BY <1>2
  <1> QED
    BY <1>3, AccountedStepLess

LEMMA AccountedBefore ==
    ASSUME Typed, Typed', Accounted, NEW c \in Caller,
           \/ Begins(c) \/ Refused(c) \/ FeePreflight(c) \/ SpreadGate(c)
           \/ Quotes(c) \/ Sizes(c) \/ Reserves(c) \/ OrderFails(c)
    PROVE  Accounted'
  <1> DEFINE a == attempt[c]
  <1>0. a \in AttemptType
    BY TypedParts
  <1>1. UNCHANGED <<position, held>>
    BY DEF Begins, Refused, FeePreflight, SpreadGate, Quotes, Sizes, Reserves, OrderFails
  <1>2. \A s \in Symbol : SameMoney(position'[s], position[s])
    BY <1>1 DEF SameMoney
  <1>3. ASSUME NEW new, Goes(c, new),
               new.phase \in Underway => a.phase \in Underway /\ new.seen = a.seen
        PROVE  Accounted'
    BY <1>1, <1>2, <1>3, AccountedMoves
  <1>4. CASE GivesUp(c)
    BY <1>3, <1>4, IdleShape DEF GivesUp, Underway
  <1>5. CASE Begins(c)
    <2> DEFINE p == IF c \in Worker THEN "preflight" ELSE "gate"
               new(s) == [Idle EXCEPT !.phase = p, !.signal = s]
    <2>1. PICK s \in Signals : Goes(c, new(s))
      BY <1>5 DEF Begins
    <2>2. new(s).phase = p
      <3> HIDE DEF p
      <3> QED
        BY DEF Idle
    <2>3. p \notin Underway
      BY DEF Underway
    <2> HIDE DEF new, p
    <2> QED
      BY <1>3, <2>1, <2>2, <2>3
  <1>6. ASSUME NEW p, Goes(c, [a EXCEPT !.phase = p]),
               p \in Underway => a.phase \in Underway
        PROVE  Accounted'
    <2> DEFINE new == [a EXCEPT !.phase = p]
    <2>1. new.phase = p /\ new.seen = a.seen /\ Goes(c, new)
      BY <1>0, <1>6 DEF AttemptType
    <2> HIDE DEF new
    <2> QED
      BY <1>3, <1>6, <2>1
  <1>7. CASE (FeePreflight(c) \/ SpreadGate(c) \/ Reserves(c)) /\ ~GivesUp(c)
    <2>1. \/ Goes(c, [a EXCEPT !.phase = "gate"]) \/ Goes(c, [a EXCEPT !.phase = "start"])
          \/ a.phase = "sized" /\ Goes(c, [a EXCEPT !.phase = "reserved"])
      BY <1>7 DEF FeePreflight, SpreadGate, Reserves, At
    <2> QED
      BY <1>6, <2>1 DEF Underway
  <1>8. CASE Quotes(c) /\ ~GivesUp(c)
    <2> DEFINE new(q) == [a EXCEPT !.phase = "quoted", !.quote = q]
    <2>1. \A q : new(q).phase = "quoted" /\ new(q).seen = a.seen
      BY <1>0 DEF AttemptType
    <2>2. a.phase \in Underway /\ \E q : Goes(c, new(q))
      BY <1>8 DEF Quotes, At, Underway
    <2> HIDE DEF new
    <2> QED
      BY <1>3, <2>1, <2>2
  <1>9. CASE Sizes(c) /\ ~GivesUp(c)
    <2> DEFINE new(n) == [a EXCEPT !.phase = "sized", !.qty = n]
    <2>1. \A n : new(n).phase = "sized" /\ new(n).seen = a.seen
      BY <1>0 DEF AttemptType
    <2>2. a.phase \in Underway /\ \E n : Goes(c, new(n))
      BY <1>9 DEF Sizes, At, Underway
    <2> HIDE DEF new
    <2> QED
      BY <1>3, <2>1, <2>2
  <1> QED
    BY <1>4, <1>5, <1>7, <1>8, <1>9 DEF Refused, OrderFails

LEMMA AccountedReads ==
    ASSUME Typed, Typed', Accounted, NEW c \in Caller, ReadsAccount(c)
    PROVE  Accounted'
  <1> DEFINE a == attempt[c]
             new == [a EXCEPT !.phase = "read", !.seen = ExchangeMargin]
             m == [s \in Symbol |-> PositionMargin(position[s])]
  <1>1. /\ attempt \in [Caller -> AttemptType] /\ position \in [Symbol -> PositionType]
        /\ held \in Nat /\ a \in AttemptType
    BY TypesNamed DEF Typed
  <1>2. attempt' \in [Caller -> AttemptType]
    BY DEF Typed, TypeOK, AttemptType
  <1>3. a.phase = "start" /\ Goes(c, new) /\ UNCHANGED <<position, held>>
    BY DEF ReadsAccount, At
  <1>4. new.phase = "read" /\ new.seen = ExchangeMargin
    BY <1>1 DEF AttemptType
  <1>5. ExchangeMargin = held + Total(m, Symbol)
    BY DEF ExchangeMargin, SumFunction, Total
  <1> HIDE DEF new
  <1>6. attempt'[c] = new /\ \A d \in Caller \ {c} : attempt'[d] = attempt[d]
    BY <1>1, <1>3 DEF Goes
  <1>7. attempt[c].phase \notin Underway /\ attempt'[c].phase \in Underway
    BY <1>3, <1>4, <1>6 DEF Underway
  <1>8. attempt'[c].seen = held + Total([s \in Symbol |-> PositionMargin(position[s])], Symbol)
    BY <1>4, <1>5, <1>6
  <1>9. AccountedFor(attempt', position, held)
    BY <1>1, <1>2, <1>6, <1>7, <1>8, AccountedRead DEF Accounted
  <1> QED
    BY <1>3, <1>9 DEF Accounted

LEMMA AccountedFills ==
    ASSUME Typed, Typed', Accounted, NEW c \in Caller, Fills(c)
    PROVE  Accounted'
  <1> DEFINE a == attempt[c]
             u == a.signal.symbol
             new == [a EXCEPT !.phase = "filled"]
             p(f, n, q) == [state |-> "new", signal |-> a.signal, quote |-> a.quote,
                            fill |-> f, qty |-> n, fee |-> q,
                            target |-> SignalTarget(a.signal)]
  <1>1. /\ attempt \in [Caller -> AttemptType] /\ position \in [Symbol -> PositionType]
        /\ held \in Nat /\ a \in AttemptType
    BY TypesNamed DEF Typed
  <1>2. attempt' \in [Caller -> AttemptType] /\ position' \in [Symbol -> PositionType]
    BY DEF Typed, TypeOK, AttemptType, PositionType
  <1>3. a.phase = "reserved" /\ Goes(c, new) /\ UNCHANGED held /\ new.phase = "filled"
    BY <1>1 DEF Fills, At, AttemptType
  <1>4. PICK drift \in Drifts, q \in PaidBps \cup {0}, n \in {a.qty, Contract[u].step} :
           position' = [position EXCEPT ![u] = p(a.quote + drift, n, q)]
    BY DEF Fills
  <1> DEFINE f == a.quote + drift
  <1>5. /\ a.signal \in Signals /\ u \in Symbol /\ a.quote \in Nat /\ a.qty \in Nat
        /\ a.seen \in Nat /\ Contract[u].step \in Nat \ {0}
    BY <1>1, SignalFields DEF AttemptType
  <1>6. Contract[u].step <= a.qty /\ Margin(a.signal, a.qty, a.quote) + a.seen <= ExposureCap
    BY <1>3, TypedParts DEF FitsCap
  <1>7. n \in Nat /\ n > 0 /\ n <= a.qty
    BY <1>4, <1>5, <1>6
  <1>8. Margin(a.signal, n, a.quote) + a.seen <= ExposureCap
    <2>1. /\ Margin(a.signal, a.qty, a.quote) \in Nat /\ Margin(a.signal, n, a.quote) \in Nat
          /\ Margin(a.signal, n, a.quote) <= Margin(a.signal, a.qty, a.quote)
      BY <1>5, <1>7, MarginIs
    <2> QED
      BY <1>5, <1>6, <2>1, Finiteness
  <1>9. p(f, n, q).qty = n /\ SizedMargin(p(f, n, q)) = Margin(a.signal, n, a.quote)
    BY DEF SizedMargin
  <1>10. position' = [position EXCEPT ![u] = p(f, n, q)]
    BY <1>4
  <1> HIDE DEF new, p, f
  <1>11. attempt'[c] = new /\ \A d \in Caller \ {c} : attempt'[d] = attempt[d]
    BY <1>1, <1>3 DEF Goes
  <1>12. position'[u] = p(f, n, q) /\ \A s \in Symbol \ {u} : position'[s] = position[s]
    BY <1>1, <1>5, <1>10
  <1>13. attempt[c].phase \in Underway /\ attempt'[c].phase \notin Underway
    BY <1>3, <1>11 DEF Underway
  <1>14. position'[u].qty > 0 /\ SizedMargin(position'[u]) + attempt[c].seen <= ExposureCap
    BY <1>7, <1>8, <1>9, <1>12
  <1>15. AccountedFor(attempt, position, held)
    BY DEF Accounted
  <1>16. AccountedFor(attempt', position', held)
    <2> HIDE DEF u
    <2> QED
      BY <1>1, <1>2, <1>5, <1>11, <1>12, <1>13, <1>14, <1>15, AccountedFill
  <1> QED
    BY <1>3, <1>16 DEF Accounted

LEMMA AccountedChecks ==
    ASSUME EntryInv, Typed, Typed', Accounted, NEW c \in Caller,
           Protects(c) \/ ChecksCosts(c) \/ ProfileFails(c) \/ InstallsProfile(c)
    PROVE  Accounted'
  <1> DEFINE a == attempt[c]
             s == SymbolOf(c)
             old == position[s]
  <1>0. /\ a \in AttemptType /\ s \in Symbol /\ old \in PositionType
        /\ position \in [Symbol -> PositionType]
    BY TypedParts, SymbolsOfSignals DEF AttemptType, SymbolOf
  <1>1. UNCHANGED held /\ a.phase \in Filled
    BY DEF Protects, ChecksCosts, ProfileFails, InstallsProfile, At, Filled
  <1>2. ASSUME NEW new, Goes(c, new), new.phase \notin Underway,
               NEW p, SameMoney(p, old) \/ p = NoPosition,
               position' = [position EXCEPT ![s] = p]
        PROVE  Accounted'
    <2>1. position'[s] = p /\ \A t \in Symbol \ {s} : position'[t] = position[t]
      BY <1>0, <1>2
    <2>2. \A t \in Symbol : SameMoney(position'[t], position[t]) \/ position'[t] = NoPosition
      BY <1>2, <2>1 DEF SameMoney
    <2> QED
      BY <1>1, <1>2, <2>2, AccountedMoves
  <1>3. CASE ClosesAtOnce(c)
    <2>1. Goes(c, Idle) /\ Idle.phase \notin Underway
      BY <1>3, IdleShape DEF ClosesAtOnce, GivesUp, Underway
    <2> DEFINE p == [old EXCEPT !.state = "unsafe"]
    <2>2. SameMoney(p, old)
      BY <1>0 DEF PositionType, SameMoney
    <2>3. \/ position' = [position EXCEPT ![s] = NoPosition]
          \/ position' = [position EXCEPT ![s] = p]
      BY <1>0, <1>3 DEF ClosesAtOnce, SymbolOf
    <2> HIDE DEF p
    <2> QED
      BY <1>2, <2>1, <2>2, <2>3
  <1>4. ASSUME NEW phase \in {"protected", "costed"}, Goes(c, [a EXCEPT !.phase = phase]),
               UNCHANGED position
        PROVE  Accounted'
    <2> DEFINE new == [a EXCEPT !.phase = phase]
    <2>1. new.phase \notin Underway /\ Goes(c, new)
      BY <1>0, <1>4 DEF AttemptType, Underway
    <2>2. position' = [position EXCEPT ![s] = old] /\ SameMoney(old, old)
      BY <1>0, <1>4 DEF SameMoney
    <2> HIDE DEF new
    <2> QED
      BY <1>2, <2>1, <2>2
  <1>5. CASE (Protects(c) \/ ChecksCosts(c)) /\ ~ClosesAtOnce(c)
    BY <1>4, <1>5 DEF Protects, ChecksCosts
  <1>6. old.signal.symbol = s
    BY <1>1 DEF EntryInv, Checked
  <1>7. ASSUME NEW state \in {"kept", "degraded"}, NEW p,
               p = [Managed(old) EXCEPT !.state = state], Keeps(c, p)
        PROVE  Accounted'
    <2>1. SameMoney(p, old)
      BY <1>0, <1>7 DEF PositionType, Managed, SameMoney
    <2>2. Goes(c, Idle) /\ Idle.phase \notin Underway
      BY <1>7, IdleShape DEF Keeps, GivesUp, Underway
    <2>3. position' = [position EXCEPT ![s] = p]
      BY <1>6, <1>7, <2>1 DEF Keeps, SameMoney
    <2> QED
      BY <1>2, <2>1, <2>2, <2>3
  <1>8. CASE (ProfileFails(c) \/ InstallsProfile(c)) /\ ~ClosesAtOnce(c)
    BY <1>7, <1>8 DEF ProfileFails, InstallsProfile, SymbolOf
  <1> QED
    BY <1>3, <1>5, <1>8

LEMMA AccountedSettles ==
    ASSUME Typed, Typed', Accounted, NEW s \in Symbol, Settles(s)
    PROVE  Accounted'
  <1>1. UNCHANGED <<attempt, held>> /\ position' = [position EXCEPT ![s] = NoPosition]
    BY DEF Settles
  <1>2. position \in [Symbol -> PositionType]
    BY TypedParts
  <1>3. \A t \in Symbol : position'[t] = position[t] \/ position'[t] = NoPosition
    BY <1>1, <1>2
  <1>4. \A t \in Symbol : SameMoney(position'[t], position[t]) \/ position'[t] = NoPosition
    BY <1>3 DEF SameMoney
  <1> QED
    BY <1>1, <1>4, AccountedStepLess

LEMMA AccountedStep ==
    ASSUME EntryInv, Typed, Typed', Accounted, [Next]_vars
    PROVE  Accounted'
  <1>1. CASE UNCHANGED vars
    BY <1>1 DEF vars, Accounted
  <1>2. CASE Next
    BY <1>2, AccountedBefore, AccountedReads, AccountedFills, AccountedChecks,
       AccountedSettles DEF Next
  <1> QED
    BY <1>1, <1>2

LEMMA MaxOfTwo ==
    ASSUME NEW m \in Nat, NEW n \in Nat
    PROVE  Max({m, n}) >= m /\ Max({m, n}) >= n /\ Max({m, n}) \in Nat
  <1> DEFINE S == {m, n}
             most == CHOOSE x \in S : \A y \in S : x >= y
  <1>1. \E x \in S : \A y \in S : x >= y
    OBVIOUS
  <1>2. most \in S /\ \A y \in S : most >= y
    BY <1>1
  <1>3. Max(S) = most
    BY DEF Max
  <1> HIDE DEF most
  <1> QED
    BY <1>2, <1>3

\* What an account bears out is what the run checks.
LEMMA CapFromAccount ==
    ASSUME Typed, Accounted
    PROVE  ExposureWithinCap
  <1> DEFINE b == BookOf(attempt, position, held)
  <1>1. /\ attempt \in [Caller -> AttemptType] /\ position \in [Symbol -> PositionType]
        /\ held \in Nat
    BY TypesNamed DEF Typed
  <1>2. PICK h : Told(h, b)
    BY DEF Accounted, AccountedFor
  <1>3. /\ IsBook(b) /\ b.held = held
        /\ \A s \in Symbol : b.margin[s] = PositionMargin(position[s])
        /\ \A s \in Symbol : b.com[s] = SizedMargin(position[s])
    BY <1>1, BookIs DEF IsBookOf
  <1>4. b.com = Committed
    BY DEF BookOf, Committed, SizedMargin
  <1> HIDE DEF b
  <1>5. ASSUME NEW s \in Symbol
        PROVE  Drift[s] \in Nat /\ b.com[s] <= b.margin[s] + Drift[s]
    <2> DEFINE p == position[s]
               d == Distance(p.fill, p.quote)
    <2>1. p.signal \in Signals /\ p.qty \in Nat /\ p.quote \in Nat /\ p.fill \in Nat
      BY <1>1 DEF PositionType
    <2>2. d \in Nat /\ p.quote <= p.fill + d
      BY <2>1 DEF Distance
    <2>3. Drift[s] = Margin(p.signal, p.qty, d)
      BY DEF Drift
    <2> HIDE DEF d
    <2>4. Margin(p.signal, p.qty, d) \in Nat
      BY <2>1, <2>2, MarginIs
    <2>5. Margin(p.signal, p.qty, p.quote)
            <= Margin(p.signal, p.qty, p.fill) + Margin(p.signal, p.qty, d)
      BY <2>1, <2>2, MarginIs
    <2> QED
      BY <1>3, <2>3, <2>4, <2>5 DEF PositionMargin, SizedMargin
  <1>6. Drift \in [Symbol -> Nat]
    BY <1>5 DEF Drift
  <1>7. PICK together \in SUBSET Symbol :
           /\ Cardinality(together) < Cardinality(Caller)
           /\ \/ b.held + Total(b.com, Symbol \ together) <= b.held
              \/ b.held + Total(b.com, Symbol \ together) <= ExposureCap + Total(Drift, Symbol)
    BY <1>2, <1>3, <1>5, <1>6, WithoutTheMissed
  <1>8. SumFunction(Drift) = Total(Drift, Symbol) /\ Total(Drift, Symbol) \in Nat
    <2>1. DOMAIN Drift = Symbol
      BY <1>6
    <2>2. Total(Drift, Symbol) \in Nat
      BY <1>6, TotalAtMost
    <2> QED
      BY <2>1, <2>2 DEF SumFunction, Total
  <1>9. held + Total(Committed, Symbol \ together)
           <= Max({held, ExposureCap + SumFunction(Drift)})
    <2> DEFINE cap == ExposureCap + SumFunction(Drift)
               sum == held + Total(Committed, Symbol \ together)
    <2>1. cap \in Nat
      BY <1>8, Finiteness
    <2>2. sum <= held \/ sum <= cap
      BY <1>3, <1>4, <1>7, <1>8
    <2>3. sum \in Nat
      <3>1. b.com \in [Symbol -> Nat] /\ Symbol \ together \in SUBSET Symbol
        BY <1>3 DEF IsBook
      <3>2. Total(b.com, Symbol \ together) \in Nat
        BY <3>1, TotalAtMost
      <3> QED
        BY <1>1, <1>4, <3>2
    <2> HIDE DEF cap, sum
    <2>4. Max({held, cap}) >= held /\ Max({held, cap}) >= cap /\ Max({held, cap}) \in Nat
      BY <1>1, <2>1, MaxOfTwo
    <2>5. sum <= Max({held, cap})
      BY <1>1, <2>1, <2>2, <2>3, <2>4
    <2> QED
      BY <2>5 DEF sum, cap
  <1> QED
    BY <1>7, <1>9 DEF ExposureWithinCap, Total

\* However many callers size and fill at once, on whatever they had read and
\* wherever the price went: without some of the positions, one fewer than there
\* are callers, the margin of what is open as it was sized is within the
\* exposure cap and the drift between quote and fill.  The reservation does not
\* look at margin; what bounds the excess is that the last of the open
\* positions' callers to read had read all others but those whose orders were
\* under way as it did.
THEOREM ExposureStaysWithinCap == Spec => []ExposureWithinCap
  <1>1. Init => EntryInv /\ Quoted /\ Typed /\ Accounted
    BY EntryInvInit, QuotedInit, TypedInit, AccountedInit
  <1>2. EntryInv /\ Quoted /\ Typed /\ Accounted /\ [Next]_vars
           => (EntryInv /\ Quoted /\ Typed /\ Accounted)'
    BY EntryInvStep, QuotedStep, TypedStep, AccountedStep DEF EntryInv
  <1>3. Typed /\ Accounted => ExposureWithinCap
    BY CapFromAccount
  <1> QED
    BY <1>1, <1>2, <1>3, PTL DEF Spec
=============================================================================

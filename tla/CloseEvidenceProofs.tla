------------------------ MODULE CloseEvidenceProofs ------------------------
(***************************************************************************)
(* Proofs that the profit of a journal row is made of its own trade's      *)
(* fills and that exchange evidence closes a row only as a whole, for any  *)
(* entry quantity, split into partial closes and lag of the two ledgers.   *)
(***************************************************************************)
EXTENDS CloseEvidence, FiniteSetTheorems, SequenceTheorems, TLAPS

FillState == [trade : Trades, open : BOOLEAN, lots : 1 .. Lots, known : BOOLEAN]

-----------------------------------------------------------------------------
(* Quantities: the lots of a set of fills.                                 *)

Pairs(b, S) == {p \in S \X (1 .. Lots) : p[2] <= b[p[1]].lots}
Share(b, S) == Cardinality(Pairs(b, S))

LEMMA LotsAreShare ==
    ASSUME NEW S
    PROVE  LotsIn(S) = Share(book, S)
  BY DEF LotsIn, Share, Pairs

LEMMA PairsFinite ==
    ASSUME NEW b, NEW S, IsFiniteSet(S)
    PROVE  IsFiniteSet(Pairs(b, S)) /\ Share(b, S) \in Nat
  <1>1. IsFiniteSet(1 .. Lots)
    BY FS_Interval, EvidenceAssumption
  <1>2. IsFiniteSet(S \X (1 .. Lots))
    BY <1>1, FS_Product
  <1>3. Pairs(b, S) \in SUBSET (S \X (1 .. Lots))
    BY DEF Pairs
  <1>4. IsFiniteSet(Pairs(b, S))
    BY <1>2, <1>3, FS_Subset
  <1> QED
    BY <1>4, FS_CardinalityType DEF Share

\* Two books that agree on some fills agree on their lots.
LEMMA ShareAgrees ==
    ASSUME NEW b, NEW c, NEW S, \A i \in S : b[i] = c[i]
    PROVE  Share(b, S) = Share(c, S)
  <1>1. Pairs(b, S) = Pairs(c, S)
    BY DEF Pairs
  <1> QED
    BY <1>1 DEF Share

LEMMA ShareOfNone ==
    ASSUME NEW b
    PROVE  Share(b, {}) = 0
  <1>1. Pairs(b, {}) = {}
    BY DEF Pairs
  <1> QED
    BY <1>1, FS_EmptySet DEF Share

LEMMA ShareOfOne ==
    ASSUME NEW b, NEW i, b[i].lots \in 1 .. Lots
    PROVE  Share(b, {i}) = b[i].lots
  <1> DEFINE n == b[i].lots
  <1>1. Pairs(b, {i}) = {i} \X (1 .. n)
    <2>1. 1 .. n = {m \in 1 .. Lots : m <= n}
      BY EvidenceAssumption
    <2>2. Pairs(b, {i}) = {i} \X {m \in 1 .. Lots : m <= n}
      BY DEF Pairs
    <2> QED
      BY <2>1, <2>2
  <1>2. n \in Int /\ n >= 1 /\ 1 \in Int
    BY EvidenceAssumption
  <1> HIDE DEF n
  <1>3. IsFiniteSet({i}) /\ Cardinality({i}) = 1
    BY FS_Singleton
  <1>4. IsFiniteSet(1 .. n) /\ Cardinality(1 .. n) = n
    BY <1>2, FS_Interval
  <1>5. Cardinality({i} \X (1 .. n)) = Cardinality({i}) * Cardinality(1 .. n)
    BY <1>3, <1>4, FS_Product
  <1>6. Cardinality({i} \X (1 .. n)) = n
    BY <1>2, <1>3, <1>4, <1>5
  <1> QED
    BY <1>1, <1>6 DEF Share, n

LEMMA ShareOfUnion ==
    ASSUME NEW b, NEW S, NEW T, IsFiniteSet(S), IsFiniteSet(T), S \cap T = {}
    PROVE  Share(b, S \cup T) = Share(b, S) + Share(b, T)
  <1>1. /\ Pairs(b, S \cup T) = Pairs(b, S) \cup Pairs(b, T)
        /\ Pairs(b, S) \cap Pairs(b, T) = {}
    BY DEF Pairs
  <1>2. /\ IsFiniteSet(Pairs(b, S)) /\ Share(b, S) \in Nat
        /\ IsFiniteSet(Pairs(b, T)) /\ Share(b, T) \in Nat
    BY PairsFinite
  <1>3. Cardinality(Pairs(b, S) \cup Pairs(b, T))
          = Cardinality(Pairs(b, S)) + Cardinality(Pairs(b, T))
              - Cardinality(Pairs(b, S) \cap Pairs(b, T))
    BY <1>2, FS_Union
  <1>4. Cardinality(Pairs(b, S) \cap Pairs(b, T)) = 0
    BY <1>1, FS_EmptySet
  <1>5. Share(b, S \cup T) = Cardinality(Pairs(b, S) \cup Pairs(b, T))
    BY <1>1 DEF Share
  <1> HIDE DEF Pairs
  <1> QED
    BY <1>2, <1>3, <1>4, <1>5 DEF Share

\* No fill is empty: fewer fills are fewer lots.
LEMMA ShareOfPart ==
    ASSUME NEW b, NEW T, IsFiniteSet(T), NEW S \in SUBSET T,
           \A i \in T : b[i].lots \in 1 .. Lots
    PROVE  /\ Share(b, S) <= Share(b, T)
           /\ Share(b, S) = Share(b, T) => S = T
  <1>1. IsFiniteSet(Pairs(b, T)) /\ Pairs(b, S) \in SUBSET Pairs(b, T)
    BY PairsFinite DEF Pairs
  <1>2. /\ Share(b, S) <= Share(b, T)
        /\ Share(b, S) = Share(b, T) => Pairs(b, T) = Pairs(b, S)
    BY <1>1, FS_Subset DEF Share
  <1>3. ASSUME Pairs(b, T) = Pairs(b, S) PROVE S = T
    <2>1. ASSUME NEW i \in T PROVE i \in S
      <3>1. 1 \in 1 .. Lots /\ 1 <= b[i].lots
        BY EvidenceAssumption
      <3>2. <<i, 1>> \in Pairs(b, T)
        BY <3>1 DEF Pairs
      <3> QED
        BY <1>3, <3>2 DEF Pairs
    <2> QED
      BY <2>1
  <1> QED
    BY <1>2, <1>3

-----------------------------------------------------------------------------
(* The book.                                                               *)

\* The trade that is over, then the entry and the closes of the one that is
\* open, which never close more than was entered.
BookShape ==
    /\ book \in Seq(FillState) /\ Len(book) >= 3
    /\ book[1] = Fill(Old, TRUE, Lots, TRUE)
    /\ book[2] = Fill(Old, FALSE, Lots, FALSE)
    /\ book[3] = Fill(Now, TRUE, Lots, TRUE)
    /\ \A i \in 4 .. Len(book) : book[i].trade = Now /\ ~book[i].open
    /\ LotsIn(4 .. Len(book)) <= Lots

LEMMA BookFills ==
    ASSUME BookShape
    PROVE  /\ Len(book) \in Nat
           /\ \A i \in 1 .. Len(book) : book[i].lots \in 1 .. Lots
           /\ book[1].open /\ ~book[2].open /\ book[3].open
           /\ book[1].lots = Lots /\ book[2].lots = Lots /\ book[3].lots = Lots
           /\ book[1].trade = Old /\ book[2].trade = Old /\ book[3].trade = Now
  <1>1. Len(book) \in Nat /\ \A i \in 1 .. Len(book) : book[i] \in FillState
    BY DEF BookShape
  <1>2. \A i \in 1 .. Len(book) : book[i].lots \in 1 .. Lots
    BY <1>1 DEF FillState
  <1> QED
    BY <1>1, <1>2 DEF BookShape, Fill

LEMMA FillsOfTrades ==
    ASSUME BookShape
    PROVE  /\ FillsOf(Old) = 1 .. 2
           /\ FillsOf(Now) = 3 .. Len(book)
           /\ ClosesOf(Now) = 4 .. Len(book)
           /\ FillsOf(Now) \ ClosesOf(Now) = {3}
  <1>1. /\ Len(book) \in Nat /\ Len(book) >= 3
        /\ book[1].trade = Old /\ book[2].trade = Old /\ book[3].trade = Now
        /\ book[3].open
        /\ \A i \in 4 .. Len(book) : book[i].trade = Now /\ ~book[i].open
    BY BookFills DEF BookShape
  <1>2. \A i \in Index : i = 1 \/ i = 2 \/ i = 3 \/ i \in 4 .. Len(book)
    BY <1>1 DEF Index
  <1>3. FillsOf(Old) = 1 .. 2
    BY <1>1, <1>2 DEF FillsOf, Index, Old, Now
  <1>4. FillsOf(Now) = 3 .. Len(book)
    BY <1>1, <1>2 DEF FillsOf, Index, Old, Now
  <1>5. ClosesOf(Now) = 4 .. Len(book)
    BY <1>1, <1>4 DEF ClosesOf
  <1> QED
    BY <1>1, <1>3, <1>4, <1>5

\* What is open is what the closes have left of the entry.
LEMMA WhatIsOpen ==
    BookShape => /\ LotsIn(4 .. Len(book)) \in 0 .. Lots
                 /\ Position = Lots - LotsIn(4 .. Len(book))
                 /\ Position \in 0 .. Lots
  <1> SUFFICES ASSUME BookShape
               PROVE  /\ LotsIn(4 .. Len(book)) \in 0 .. Lots
                      /\ Position = Lots - LotsIn(4 .. Len(book))
                      /\ Position \in 0 .. Lots
    OBVIOUS
  <1>1. LotsIn(4 .. Len(book)) \in Nat
    <2>1. 4 \in Int /\ Len(book) \in Int
      BY BookFills
    <2>2. IsFiniteSet(4 .. Len(book))
      BY <2>1, FS_Interval
    <2> QED
      BY <2>2, PairsFinite, LotsAreShare
  <1>2. LotsIn({3}) = Lots
    <2>1. book[3].lots = Lots
      BY BookFills
    <2>2. book[3].lots \in 1 .. Lots
      BY <2>1, EvidenceAssumption
    <2>3. Share(book, {3}) = book[3].lots
      BY <2>2, ShareOfOne
    <2> QED
      BY <2>1, <2>3, LotsAreShare
  <1>3. Position = Lots - LotsIn(4 .. Len(book))
    BY <1>2, FillsOfTrades DEF Position, Held
  <1> QED
    BY <1>1, <1>3, EvidenceAssumption DEF BookShape

\* A further close.
LEMMA BookGrows ==
    ASSUME BookShape, NEW n \in 1 .. Position, NEW known \in BOOLEAN,
           book' = Append(book, Fill(Now, FALSE, n, known))
    PROVE  /\ BookShape' /\ Len(book') = Len(book) + 1
           /\ Position' = Position - n
  <1> DEFINE f == Fill(Now, FALSE, n, known)
             m == Len(book) + 1
  <1>1. n \in 1 .. Lots /\ Position \in 0 .. Lots /\ Len(book) \in Nat
    BY WhatIsOpen, BookFills, EvidenceAssumption
  <1>2. f \in FillState /\ f.lots = n /\ f.trade = Now /\ ~f.open
    BY <1>1 DEF FillState, Fill, Trades
  <1> HIDE DEF f
  <1>3. /\ book' \in Seq(FillState) /\ Len(book') = m
        /\ \A i \in 1 .. Len(book) : book'[i] = book[i]
        /\ book'[m] = f
    <2>1. book \in Seq(FillState) /\ book' = Append(book, f) /\ f \in FillState
      BY <1>2 DEF BookShape, f
    <2>2. /\ Append(book, f) \in Seq(FillState)
          /\ Len(Append(book, f)) = Len(book) + 1
          /\ \A i \in 1 .. Len(book) : Append(book, f)[i] = book[i]
          /\ Append(book, f)[Len(book) + 1] = f
      BY <2>1, AppendProperties, ZenonT(60)
    <2> QED
      BY <2>1, <2>2
  <1>4. Share(book', 4 .. m) = Share(book, 4 .. Len(book)) + n
    <2>1. 4 .. m = (4 .. Len(book)) \cup {m} /\ (4 .. Len(book)) \cap {m} = {}
      BY <1>1 DEF BookShape
    <2>2. Share(book', 4 .. Len(book)) = Share(book, 4 .. Len(book))
      <3>1. 4 .. Len(book) \subseteq 1 .. Len(book)
        BY <1>1
      <3>2. \A i \in 4 .. Len(book) : book'[i] = book[i]
        BY <1>3, <3>1
      <3> QED
        BY <3>2, ShareAgrees
    <2>3. Share(book', {m}) = n
      <3>1. book'[m].lots = n /\ n \in 1 .. Lots
        BY <1>1, <1>2, <1>3
      <3> HIDE DEF m
      <3> QED
        BY <3>1, ShareOfOne
    <2>4. IsFiniteSet(4 .. Len(book)) /\ IsFiniteSet({m})
      <3>1. 4 \in Int /\ Len(book) \in Int
        BY <1>1
      <3>2. IsFiniteSet(4 .. Len(book))
        BY <3>1, FS_Interval
      <3>3. IsFiniteSet({m})
        BY FS_Singleton
      <3> QED
        BY <3>2, <3>3
    <2>5. Share(book', (4 .. Len(book)) \cup {m})
            = Share(book', 4 .. Len(book)) + Share(book', {m})
      BY <2>1, <2>4, ShareOfUnion
    <2> QED
      BY <2>1, <2>2, <2>3, <2>5
  <1>5. LotsIn(4 .. Len(book))' = LotsIn(4 .. Len(book)) + n
    BY <1>3, <1>4, LotsAreShare DEF LotsIn, Share, Pairs
  <1>6. \A i \in 4 .. m : book'[i].trade = Now /\ ~book'[i].open
    <2> SUFFICES ASSUME NEW i \in 4 .. m PROVE book'[i].trade = Now /\ ~book'[i].open
      OBVIOUS
    <2>1. CASE i = m
      BY <1>2, <1>3, <2>1
    <2>2. CASE i # m
      <3>1. i \in 4 .. Len(book) /\ i \in 1 .. Len(book)
        BY <1>1, <2>2
      <3> QED
        BY <1>3, <3>1 DEF BookShape
    <2> QED
      BY <2>1, <2>2
  <1>7. LotsIn(4 .. Len(book))' <= Lots
    BY <1>1, <1>5, WhatIsOpen, EvidenceAssumption
  <1>8. BookShape'
    BY <1>1, <1>3, <1>6, <1>7 DEF BookShape, Fill
  <1>9. (/\ LotsIn(4 .. Len(book)) \in 0 .. Lots
         /\ Position = Lots - LotsIn(4 .. Len(book))
         /\ Position \in 0 .. Lots)'
    BY <1>8, WhatIsOpen, PTL
  <1> QED
    BY <1>1, <1>3, <1>5, <1>8, <1>9, WhatIsOpen, EvidenceAssumption

-----------------------------------------------------------------------------
(* The lifecycles the backfill finds in the log.                           *)

LEMMA MaxOfInterval ==
    ASSUME NEW a \in Int, NEW b \in Int, a <= b
    PROVE  Max(a .. b) = b
  <1>1. b \in a .. b /\ \A y \in a .. b : b >= y
    OBVIOUS
  <1>2. \A x \in a .. b : (\A y \in a .. b : x >= y) => x = b
    OBVIOUS
  <1> QED
    BY <1>1, <1>2 DEF Max

\* The quantity is back at nothing after the old trade, and at the end of a
\* book whose open trade is closed.
LEMMA FlatEnds ==
    ASSUME BookShape, NEW k \in 1 .. Len(book)
    PROVE  /\ Flat(2)
           /\ Flat(k) => k = 2 \/ (k = Len(book) /\ k >= 4 /\ LotsIn(4 .. Len(book)) = Lots)
  <1> DEFINE Opens(n)  == {i \in 1 .. n : book[i].open}
             Shuts(n) == {i \in 1 .. n : ~book[i].open}
  <1>l. Lots \in Nat /\ Lots > 0
    BY EvidenceAssumption
  <1>o. book[1].open /\ ~book[2].open /\ book[3].open
    BY BookFills
  <1>n. Len(book) \in Nat /\ Len(book) >= 3
    BY BookFills DEF BookShape
  <1>c. \A i \in 4 .. Len(book) : ~book[i].open
    BY DEF BookShape
  <1>s. \A i \in 1 .. Len(book) : book[i].lots \in 1 .. Lots
    BY BookFills
  <1>1. k \in 1 .. Len(book) /\ k \in Nat /\ k >= 1 /\ k <= Len(book)
    BY <1>n
  <1>2. LotsIn({1}) = Lots /\ LotsIn({2}) = Lots /\ LotsIn({3}) = Lots /\ LotsIn({}) = 0
    <2>1. book[1].lots = Lots /\ book[2].lots = Lots /\ book[3].lots = Lots
      BY BookFills
    <2>2. Lots \in 1 .. Lots
      BY <1>l
    <2>3. LotsIn({1}) = Lots
      BY <2>1, <2>2, ShareOfOne, LotsAreShare
    <2>4. LotsIn({2}) = Lots
      BY <2>1, <2>2, ShareOfOne, LotsAreShare
    <2>5. LotsIn({3}) = Lots
      BY <2>1, <2>2, ShareOfOne, LotsAreShare
    <2>6. LotsIn({}) = 0
      BY ShareOfNone, LotsAreShare
    <2> QED
      BY <2>3, <2>4, <2>5, <2>6
  <1>3. ASSUME NEW S, NEW T, IsFiniteSet(S), IsFiniteSet(T), S \cap T = {}
        PROVE  LotsIn(S \cup T) = LotsIn(S) + LotsIn(T)
    BY <1>3, ShareOfUnion, LotsAreShare
  <1>4. Flat(2)
    <2>1. Opens(2) = {1} /\ Shuts(2) = {2}
      BY <1>o
    <2> QED
      BY <1>2, <2>1 DEF Flat
  <1>5. CASE k = 1
    <2>1. Opens(k) = {1} /\ Shuts(k) = {}
      BY <1>o, <1>5
    <2>2. ~Flat(k)
      <3>1. Flat(k) => LotsIn(Opens(k)) = LotsIn(Shuts(k))
        BY DEF Flat
      <3>2. Flat(k) => Lots = 0
        BY <1>2, <2>1, <3>1
      <3> QED
        BY <1>l, <3>2
    <2> QED
      BY <1>4, <2>2
  <1>6. CASE k >= 3
    <2>1. Opens(k) = {1} \cup {3} /\ Shuts(k) = {2} \cup (4 .. k)
      BY <1>1, <1>o, <1>c, <1>n, <1>6
    <2>f. IsFiniteSet({1}) /\ IsFiniteSet({2}) /\ IsFiniteSet({3})
      BY FS_Singleton
    <2>2. {1} \cap {3} = {} /\ {2} \cap (4 .. k) = {}
      BY <1>1
    <2>3. 4 \in Int /\ k \in Int /\ Len(book) \in Int
      BY <1>1, <1>n
    <2>4. IsFiniteSet(4 .. k) /\ IsFiniteSet(4 .. Len(book))
      BY <2>3, FS_Interval
    <2>5. LotsIn({1} \cup {3}) = Lots + Lots
      BY <1>2, <1>3, <2>f, <2>2
    <2>6. LotsIn({2} \cup (4 .. k)) = Lots + LotsIn(4 .. k)
      BY <1>2, <1>3, <2>f, <2>2, <2>4
    <2>7. LotsIn(4 .. k) \in Nat
      BY <2>4, PairsFinite, LotsAreShare
    <2>e. Flat(k) => LotsIn(Opens(k)) = LotsIn(Shuts(k))
      BY DEF Flat
    <2>8. Flat(k) => LotsIn(4 .. k) = Lots
      <3>1. Flat(k) => Lots + Lots = Lots + LotsIn(4 .. k)
        BY <2>1, <2>5, <2>6, <2>e
      <3> HIDE DEF Flat, LotsIn
      <3> QED
        BY <1>l, <2>7, <3>1
    <2>9. LotsIn(4 .. Len(book)) \in 0 .. Lots
      BY WhatIsOpen
    <2>10. /\ 4 .. k \subseteq 4 .. Len(book)
           /\ \A i \in 4 .. Len(book) : book[i].lots \in 1 .. Lots
      BY <1>1, <1>n, <1>s
    <2>11. /\ LotsIn(4 .. k) <= LotsIn(4 .. Len(book))
           /\ LotsIn(4 .. k) = LotsIn(4 .. Len(book)) => 4 .. k = 4 .. Len(book)
      BY <2>4, <2>10, ShareOfPart, LotsAreShare
    <2>12. ASSUME Flat(k) PROVE k = Len(book) /\ k >= 4 /\ LotsIn(4 .. Len(book)) = Lots
      <3>1. LotsIn(4 .. k) = Lots /\ LotsIn(4 .. Len(book)) = Lots
        BY <1>l, <2>7, <2>8, <2>9, <2>11, <2>12
      <3>2. 4 .. k = 4 .. Len(book)
        BY <2>11, <3>1
      <3>3. k >= 4
        <4>1. SUFFICES ASSUME k < 4 PROVE FALSE
          BY <2>3
        <4>2. 4 .. k = {}
          BY <2>3, <4>1
        <4> QED
          BY <1>l, <1>2, <3>1, <4>2
      <3> QED
        BY <1>1, <1>n, <3>1, <3>2, <3>3
    <2> QED
      BY <1>4, <2>12
  <1>7. CASE k = 2
    BY <1>4, <1>7
  <1> QED
    BY <1>1, <1>5, <1>6, <1>7

\* A lifecycle is the whole of a trade, and of the open one only at its end.
LEMMA LifecyclesAreTrades ==
    ASSUME BookShape, NEW from \in Nat, NEW to \in 0 .. Len(book),
           NEW L \in Lifecycles(from, to)
    PROVE  \/ L = 1 .. 2 /\ Max(L) = 2
           \/ /\ L = 3 .. Len(book) /\ Max(L) = Len(book) /\ Len(book) >= 4
              /\ LotsIn(4 .. Len(book)) = Lots
  <1>1. /\ Len(book) \in Nat /\ Len(book) >= 3
        /\ ~book[2].open /\ \A i \in 4 .. Len(book) : ~book[i].open
    BY BookFills DEF BookShape
  <1>2. PICK i \in {i \in (from + 1) .. to : book[i].open},
             k \in {k \in (from + 1) .. to : Flat(k)} : L = i .. k
    BY DEF Lifecycles
  <1>3. L # {} /\ \A n \in L : Flat(n) => n = Max(L)
    BY DEF Lifecycles
  <1>4. i \in 1 .. Len(book) /\ k \in 1 .. Len(book) /\ i <= k
    BY <1>1, <1>2, <1>3
  <1>5. i = 1 \/ i = 3
    BY <1>1, <1>2, <1>4
  <1>6. k = 2 \/ (k = Len(book) /\ k >= 4 /\ LotsIn(4 .. Len(book)) = Lots)
    BY <1>2, <1>4, FlatEnds
  <1>7. Max(L) = k
    BY <1>2, <1>4, MaxOfInterval
  <1>8. i = 1 => k = 2
    <2>1. Flat(2)
      BY <1>4, FlatEnds
    <2> QED
      BY <1>1, <1>2, <1>3, <1>4, <1>6, <1>7, <2>1
  <1> QED
    BY <1>1, <1>2, <1>4, <1>5, <1>6, <1>7, <1>8

-----------------------------------------------------------------------------
(* The evidence for a close.                                               *)

\* A row that speaks of the trade that is open, or of none.
OwnRow(r) == r \in Rows /\ r.counts \subseteq 3 .. Len(book) /\ r.keys \subseteq 3 .. Len(book)

LEMMA RowFields ==
    ASSUME NEW r, OwnRow(r)
    PROVE  /\ r.status \in {"none", "active", "pending", "closed"} /\ r.qty \in 0 .. Lots
           /\ r.counts \subseteq 3 .. Len(book) /\ r.estimate \in BOOLEAN
           /\ r.ids \in BOOLEAN /\ r.partial \in BOOLEAN /\ r.since \in BOOLEAN
           /\ r.keys \subseteq 3 .. Len(book)
  BY DEF OwnRow, Rows

LEMMA RowBuilt ==
    ASSUME BookShape,
           NEW s \in {"none", "active", "pending", "closed"}, NEW q \in 0 .. Lots,
           NEW C \in SUBSET (3 .. Len(book)), NEW e \in BOOLEAN, NEW i \in BOOLEAN,
           NEW p \in BOOLEAN, NEW w \in BOOLEAN, NEW K \in SUBSET (3 .. Len(book))
    PROVE  OwnRow([status |-> s, qty |-> q, counts |-> C, estimate |-> e, ids |-> i,
                   partial |-> p, since |-> w, keys |-> K])
  <1>1. 3 .. Len(book) \subseteq Index
    BY BookFills DEF Index
  <1> QED
    BY <1>1 DEF OwnRow, Rows

LEMMA CandidatesAreCloses ==
    ASSUME BookShape, NEW r, NEW reach \in 0 .. Len(book)
    PROVE  Candidates(r, reach) \subseteq 4 .. Len(book)
  <1>1. /\ Len(book) \in Nat /\ FillsOf(Now) = 3 .. Len(book)
    BY BookFills, FillsOfTrades
  <1> QED
    BY <1>1 DEF Candidates

\* Whatever was closed in parts before, exact evidence is all of the trade's
\* closes, and the entry at most.
LEMMA EvidenceIsWhole ==
    ASSUME BookShape, NEW r, OwnRow(r), NEW pnl \in 0 .. Len(book),
           NEW log \in 0 .. Len(book), NEW e \in Evidence(r, pnl, log)
    PROVE  /\ e.counts \subseteq 3 .. Len(book) /\ e.keyed \in BOOLEAN
           /\ LotsIn({i \in e.counts : ~book[i].open}) = Lots
  <1>1. /\ Len(book) \in Nat /\ Len(book) >= 3 /\ book[3].open
        /\ \A i \in 4 .. Len(book) : ~book[i].open
    BY BookFills DEF BookShape
  <1>2. FillsOf(Now) \ ClosesOf(Now) = {3}
    BY FillsOfTrades
  <1>3. Target(r) = Lots
    BY RowFields, EvidenceAssumption DEF Target
  <1>4. ASSUME NEW reach \in 0 .. Len(book), NEW S \in Wholes(r, reach)
        PROVE  S \subseteq 4 .. Len(book) /\ LotsIn(S) = Lots
    BY <1>3, CandidatesAreCloses DEF Wholes
  <1>5. \/ \E S \in Wholes(r, pnl) : e = [counts |-> S, keyed |-> FALSE]
        \/ \E S \in Wholes(r, log) : e = [counts |-> S \cup {3}, keyed |-> TRUE]
    BY <1>2 DEF Evidence
  <1>6. CASE \E S \in Wholes(r, pnl) : e = [counts |-> S, keyed |-> FALSE]
    <2>1. PICK S \in Wholes(r, pnl) : e = [counts |-> S, keyed |-> FALSE]
      BY <1>6
    <2>2. S \subseteq 4 .. Len(book) /\ LotsIn(S) = Lots
      BY <1>4
    <2>3. {i \in e.counts : ~book[i].open} = S
      BY <1>1, <2>1, <2>2
    <2>4. LotsIn({i \in e.counts : ~book[i].open}) = Lots
      BY <2>2, <2>3
    <2>5. e.counts \subseteq 3 .. Len(book) /\ e.keyed \in BOOLEAN
      BY <1>1, <2>1, <2>2
    <2> QED
      BY <2>4, <2>5
  <1>7. CASE \E S \in Wholes(r, log) : e = [counts |-> S \cup {3}, keyed |-> TRUE]
    <2>1. PICK S \in Wholes(r, log) : e = [counts |-> S \cup {3}, keyed |-> TRUE]
      BY <1>7
    <2>2. S \subseteq 4 .. Len(book) /\ LotsIn(S) = Lots
      BY <1>4
    <2>3. {i \in e.counts : ~book[i].open} = S
      BY <1>1, <2>1, <2>2
    <2>4. LotsIn({i \in e.counts : ~book[i].open}) = Lots
      BY <2>2, <2>3
    <2>5. e.counts \subseteq 3 .. Len(book) /\ e.keyed \in BOOLEAN
      BY <1>1, <2>1, <2>2
    <2> QED
      BY <2>4, <2>5
  <1> QED
    BY <1>5, <1>6, <1>7

\* The closes of a row are the lots of the trade.
Whole(r) == LotsIn({i \in r.counts : ~book[i].open}) = Lots

LEMMA ClosedIsWhole ==
    ASSUME BookShape, OwnRow(row[Now]), NEW r, OwnRow(r), NEW pnl \in 0 .. Len(book),
           NEW log \in 0 .. Len(book), NEW e \in Evidence(r, pnl, log)
    PROVE  OwnRow(Closed(r, e)) /\ Whole(Closed(r, e))
  <1> DEFINE c == Closed(r, e)
             K == IF e.keyed THEN e.counts ELSE {}
  <1>1. /\ e.counts \subseteq 3 .. Len(book) /\ e.keyed \in BOOLEAN
        /\ LotsIn({i \in e.counts : ~book[i].open}) = Lots
    BY EvidenceIsWhole
  <1>2. c = [status |-> "closed", qty |-> row[Now].qty, counts |-> e.counts,
             estimate |-> FALSE, ids |-> r.ids, partial |-> r.partial,
             since |-> r.since, keys |-> K]
    <2>1. r \in Rows
      BY DEF OwnRow
    <2> HIDE DEF K
    <2>2. c = [r EXCEPT !.status = "closed", !.counts = e.counts, !.estimate = FALSE,
                        !.keys = K, !.qty = row[Now].qty]
      BY DEF Closed, K
    <2> HIDE DEF c
    <2> QED
      BY <2>1, <2>2 DEF Rows
  <1>3. K \in SUBSET (3 .. Len(book))
    BY <1>1
  <1>4. /\ row[Now].qty \in 0 .. Lots
        /\ r.ids \in BOOLEAN /\ r.partial \in BOOLEAN /\ r.since \in BOOLEAN
    BY RowFields
  <1> HIDE DEF c, K
  <1>5. OwnRow(c)
    BY <1>1, <1>2, <1>3, <1>4, RowBuilt, ZenonT(60)
  <1>6. Whole(c)
    BY <1>1, <1>2 DEF Whole
  <1> QED
    BY <1>5, <1>6 DEF c

LEMMA NotedIs ==
    ASSUME NEW r, OwnRow(r), NEW t, NEW n, n = Noted(r, t)
    PROVE  n = [status |-> t, qty |-> row[Now].qty, counts |-> row[Now].counts,
                estimate |-> row[Now].estimate, ids |-> r.ids,
                partial |-> r.partial, since |-> r.since, keys |-> r.keys]
  <1>1. n = [r EXCEPT !.status = t, !.qty = row[Now].qty, !.counts = row[Now].counts,
                      !.estimate = row[Now].estimate]
    BY DEF Noted
  <1>2. r \in Rows
    BY DEF OwnRow
  <1> QED
    BY <1>1, <1>2 DEF Rows

LEMMA NotedIsOwn ==
    ASSUME BookShape, OwnRow(row[Now]), NEW r, OwnRow(r),
           NEW t \in {"active", "pending", "closed"}
    PROVE  OwnRow(Noted(r, t)) /\ Noted(r, t).status = t
  <1> DEFINE n == Noted(r, t)
  <1>1. n = [status |-> t, qty |-> row[Now].qty, counts |-> row[Now].counts,
             estimate |-> row[Now].estimate, ids |-> r.ids,
             partial |-> r.partial, since |-> r.since, keys |-> r.keys]
    BY NotedIs
  <1>2. /\ row[Now].qty \in 0 .. Lots /\ row[Now].estimate \in BOOLEAN
        /\ row[Now].counts \in SUBSET (3 .. Len(book))
        /\ r.ids \in BOOLEAN /\ r.partial \in BOOLEAN /\ r.since \in BOOLEAN
        /\ r.keys \in SUBSET (3 .. Len(book))
        /\ t \in {"none", "active", "pending", "closed"}
    BY RowFields
  <1> HIDE DEF n
  <1>i. 3 .. Len(book) \subseteq Index
    BY BookFills DEF Index
  <1>3. OwnRow(n)
    BY <1>1, <1>2, <1>i DEF OwnRow, Rows
  <1> QED
    BY <1>1, <1>3 DEF n

\* A row stays one with another quantity, another pending time, or an estimate.
LEMMA RowChanged ==
    ASSUME BookShape, NEW m, OwnRow(m), NEW n, NEW q \in 0 .. Lots, NEW w \in BOOLEAN,
           \/ n = [m EXCEPT !.qty = q]
           \/ n = [m EXCEPT !.since = w]
           \/ n = [m EXCEPT !.counts = {}, !.estimate = TRUE]
    PROVE  OwnRow(n) /\ n.status = m.status
  <1>1. m \in Rows
    BY DEF OwnRow
  <1>2. /\ m.status \in {"none", "active", "pending", "closed"} /\ m.qty \in 0 .. Lots
        /\ m.counts \in SUBSET (3 .. Len(book)) /\ m.estimate \in BOOLEAN
        /\ m.ids \in BOOLEAN /\ m.partial \in BOOLEAN /\ m.since \in BOOLEAN
        /\ m.keys \in SUBSET (3 .. Len(book))
        /\ {} \in SUBSET (3 .. Len(book)) /\ TRUE \in BOOLEAN
    BY RowFields
  <1>6. 3 .. Len(book) \subseteq Index
    BY BookFills DEF Index
  <1>3. CASE n = [m EXCEPT !.qty = q]
    <2>1. n = [status |-> m.status, qty |-> q, counts |-> m.counts,
               estimate |-> m.estimate, ids |-> m.ids, partial |-> m.partial,
               since |-> m.since, keys |-> m.keys]
      BY <1>1, <1>3 DEF Rows
    <2> QED
      BY <1>2, <1>6, <2>1 DEF OwnRow, Rows
  <1>4. CASE n = [m EXCEPT !.since = w]
    <2>1. n = [status |-> m.status, qty |-> m.qty, counts |-> m.counts,
               estimate |-> m.estimate, ids |-> m.ids, partial |-> m.partial,
               since |-> w, keys |-> m.keys]
      BY <1>1, <1>4 DEF Rows
    <2> QED
      BY <1>2, <1>6, <2>1 DEF OwnRow, Rows
  <1>5. CASE n = [m EXCEPT !.counts = {}, !.estimate = TRUE]
    <2>1. n = [status |-> m.status, qty |-> m.qty, counts |-> {},
               estimate |-> TRUE, ids |-> m.ids, partial |-> m.partial,
               since |-> m.since, keys |-> m.keys]
      BY <1>1, <1>5 DEF Rows
    <2> QED
      BY <1>2, <1>6, <2>1 DEF OwnRow, Rows
  <1> QED
    BY <1>3, <1>4, <1>5

\* What reconciliation writes: a row is closed as a whole, or by estimate.
LEMMA SettledIsOwn ==
    ASSUME BookShape, OwnRow(row[Now]), NEW r, OwnRow(r), NEW size \in 0 .. Lots,
           NEW pnl \in 0 .. Len(book), NEW log \in 0 .. Len(book),
           NEW n, n = IF size > 0 THEN Merged(r, size) ELSE Unmatched(r, pnl, log)
    PROVE  OwnRow(n) /\ (n.status = "closed" /\ ~n.estimate => Whole(n))
  <1>1. CASE size > 0
    <2> DEFINE m == Noted(r, "active")
    <2>1. OwnRow(m) /\ m.status = "active"
      BY NotedIsOwn
    <2> HIDE DEF m
    <2>2. n = [m EXCEPT !.qty = size]
      BY <1>1 DEF Merged, m
    <2>3. TRUE \in BOOLEAN
      OBVIOUS
    <2>4. OwnRow(n) /\ n.status = m.status
      BY <2>1, <2>2, <2>3, RowChanged
    <2> QED
      BY <2>1, <2>4
  <1>2. CASE ~(size > 0) /\ Evidence(r, pnl, log) # {}
    <2> DEFINE e == CHOOSE e \in Evidence(r, pnl, log) : TRUE
    <2>1. e \in Evidence(r, pnl, log)
      BY <1>2
    <2>2. n = Closed(r, e)
      BY <1>2 DEF Unmatched
    <2> HIDE DEF e
    <2> QED
      BY <2>1, <2>2, ClosedIsWhole
  <1>3. CASE ~(size > 0) /\ Evidence(r, pnl, log) = {}
    <2> DEFINE m == Noted(r, "closed")
               p == Noted(r, "pending")
    <2>1. OwnRow(m) /\ OwnRow(p) /\ p.status = "pending"
      BY NotedIsOwn
    <2> HIDE DEF m, p
    <2>2. \/ n = [m EXCEPT !.counts = {}, !.estimate = TRUE]
          \/ n = [p EXCEPT !.since = TRUE]
      BY <1>3 DEF Unmatched, m, p
    <2>3. 0 \in 0 .. Lots /\ TRUE \in BOOLEAN
      BY EvidenceAssumption
    <2>4. CASE n = [m EXCEPT !.counts = {}, !.estimate = TRUE]
      <3>1. OwnRow(n)
        BY <2>1, <2>3, <2>4, RowChanged
      <3>2. n.estimate
        <4>1. m \in Rows
          BY <2>1 DEF OwnRow
        <4> QED
          BY <2>4, <4>1 DEF Rows
      <3> QED
        BY <3>1, <3>2
    <2>5. CASE n = [p EXCEPT !.since = TRUE]
      <3>1. OwnRow(n) /\ n.status = "pending"
        BY <2>1, <2>3, <2>5, RowChanged
      <3> QED
        BY <3>1
    <2> QED
      BY <2>2, <2>4, <2>5
  <1> QED
    BY <1>1, <1>2, <1>3

\* The partial sync never closes a row.
LEMMA SyncedIsOwn ==
    ASSUME BookShape, NEW r, OwnRow(r), NEW seen \in 0 .. Len(book),
           NEW t \in {"none", "active", "pending", "closed"},
           LotsIn(Progress(seen)) <= Lots
    PROVE  /\ OwnRow(Synced(r, Progress(seen), t))
           /\ Synced(r, Progress(seen), t).status = t
  <1> DEFINE S == Progress(seen)
             q == Lots - LotsIn(S)
             n == Synced(r, S, t)
  <1>1. S \subseteq 4 .. Len(book) /\ Len(book) \in Nat
    BY FillsOfTrades, BookFills DEF Progress
  <1>2. S \subseteq 3 .. Len(book)
    BY <1>1
  <1>3. LotsIn(S) \in Nat
    <2>1. 4 \in Int /\ Len(book) \in Int
      BY <1>1
    <2>2. IsFiniteSet(4 .. Len(book))
      BY <2>1, FS_Interval
    <2>3. IsFiniteSet(S)
      BY <1>1, <2>2, FS_Subset
    <2> QED
      BY <2>3, PairsFinite, LotsAreShare
  <1>4. q \in 0 .. Lots
    BY <1>3, EvidenceAssumption
  <1> HIDE DEF S
  <1>5. n = [status |-> t, qty |-> q, counts |-> S, estimate |-> FALSE,
             ids |-> r.ids, partial |-> TRUE, since |-> r.since, keys |-> r.keys]
    <2>1. r \in Rows
      BY DEF OwnRow
    <2> HIDE DEF q
    <2>2. n = [r EXCEPT !.status = t, !.qty = q, !.counts = S,
                        !.estimate = FALSE, !.partial = TRUE]
      BY DEF Synced, q
    <2> HIDE DEF n
    <2> QED
      BY <2>1, <2>2 DEF Rows
  <1>6. /\ S \in SUBSET (3 .. Len(book)) /\ r.keys \in SUBSET (3 .. Len(book))
        /\ r.ids \in BOOLEAN /\ r.since \in BOOLEAN /\ FALSE \in BOOLEAN /\ TRUE \in BOOLEAN
    BY <1>2, RowFields
  <1> HIDE DEF n, q
  <1>7. OwnRow(n) /\ n.status = t
    BY <1>4, <1>5, <1>6, RowBuilt, ZenonT(60)
  <1> QED
    BY <1>7 DEF n, S

LEMMA RepairedIsOwn ==
    ASSUME BookShape, OwnRow(row[Now]), NEW r, OwnRow(r), logged \in 0 .. Len(book)
    PROVE  /\ OwnRow(Repaired(r))
           /\ Repaired(r) = row[Now] \/ Whole(Repaired(r))
  <1>1. 0 \in 0 .. Len(book)
    BY BookFills
  <1>2. CASE Evidence(r, 0, logged) # {}
    <2> DEFINE e == CHOOSE e \in Evidence(r, 0, logged) : TRUE
    <2>1. e \in Evidence(r, 0, logged)
      BY <1>2
    <2>2. Repaired(r) = Closed(r, e)
      BY <1>2 DEF Repaired
    <2> HIDE DEF e
    <2> QED
      BY <1>1, <2>1, <2>2, ClosedIsWhole
  <1>3. CASE Evidence(r, 0, logged) = {}
    BY <1>3 DEF Repaired
  <1> QED
    BY <1>2, <1>3

\* A lifecycle of the open trade's own fills.
LEMMA FinalizedIsOwn ==
    ASSUME BookShape, NEW r, OwnRow(r), NEW L, L \subseteq 3 .. Len(book)
    PROVE  /\ OwnRow(Finalized(r, L))
           /\ Finalized(r, L) = r \/ Finalized(r, L).counts = L
  <1> DEFINE K == r.keys \cup L
             n == [r EXCEPT !.status = "closed", !.counts = L, !.estimate = FALSE,
                            !.keys = K]
  <1>1. Finalized(r, L) = r \/ Finalized(r, L) = n
    BY DEF Finalized
  <1>2. n = [status |-> "closed", qty |-> r.qty, counts |-> L, estimate |-> FALSE,
             ids |-> r.ids, partial |-> r.partial, since |-> r.since, keys |-> K]
    <2>1. r \in Rows
      BY DEF OwnRow
    <2> HIDE DEF K
    <2>2. n = [r EXCEPT !.status = "closed", !.counts = L, !.estimate = FALSE,
                        !.keys = K]
      OBVIOUS
    <2> HIDE DEF n
    <2> QED
      BY <2>1, <2>2 DEF Rows
  <1>3. /\ r.qty \in 0 .. Lots /\ L \in SUBSET (3 .. Len(book))
        /\ K \in SUBSET (3 .. Len(book)) /\ FALSE \in BOOLEAN
        /\ r.ids \in BOOLEAN /\ r.partial \in BOOLEAN /\ r.since \in BOOLEAN
    BY RowFields
  <1> HIDE DEF n, K
  <1>4. OwnRow(n) /\ n.counts = L
    BY <1>2, <1>3, RowBuilt, ZenonT(60)
  <1> QED
    BY <1>1, <1>4

-----------------------------------------------------------------------------
(* The invariant.                                                          *)

Pcs == {"rest", "match", "settle", "publish", "settled", "sync", "synced", "repair",
        "repaired", "backfill"}
Places == 0 .. Len(book)

CountersTyped ==
    /\ logged \in Places /\ priced \in Places /\ today \in {0, 3}
    /\ elapsed \in BOOLEAN /\ late \in BOOLEAN

\* The old trade is in the journal once: its row has the keys of its two
\* fills, or the backfill has made a row of them.
OldRow ==
    /\ row[Old] \in Rows /\ row[Old].status = "closed" /\ row[Old].counts \subseteq 1 .. 2
    /\ row[Old].keys = 1 .. 2 \/ (row[Old].keys = {} /\ 1 .. 2 \in ledger)

RowsOwn == row \in [Trades -> Rows] /\ OldRow /\ OwnRow(row[Now])

\* A row of the backfill is a trade that has ended.
LedgerWhole ==
    \A L \in ledger :
      L = 1 .. 2 \/ (L = 3 .. Len(book) /\ LotsIn(4 .. Len(book)) = Lots)

ActorState == [pc : Pcs, size : 0 .. Lots, seen : Places, next : Places, copy : Rows]

ActorsOwn ==
    /\ actor \in [Actor -> ActorState]
    /\ \A a \in Actor : OwnRow(actor[a].copy)

\* Rows, the list's entry and the copies are all of the trade they belong to.
EvidenceInv ==
    BookShape /\ CountersTyped /\ RowsOwn /\ OwnRow(mem) /\ LedgerWhole /\ ActorsOwn

LEMMA BlankIsOwn ==
    ASSUME BookShape
    PROVE  OwnRow(Blank)
  <1>1. 0 \in 0 .. Lots
    BY EvidenceAssumption
  <1> QED
    BY <1>1 DEF OwnRow, Rows, Blank

LEMMA InvImpliesTypeOK == EvidenceInv => TypeOK
  <1> SUFFICES ASSUME EvidenceInv PROVE TypeOK
    OBVIOUS
  <1>1. /\ BookShape /\ CountersTyped /\ RowsOwn /\ LedgerWhole /\ ActorsOwn
        /\ mem \in Rows
    BY DEF EvidenceInv, OwnRow
  <1>2. book \in Seq([trade : Trades, open : BOOLEAN, lots : 1 .. Lots, known : BOOLEAN])
    BY <1>1 DEF BookShape, FillState
  <1>3. /\ {logged, priced} \subseteq 0 .. Len(book) /\ today \in {0, 3}
        /\ {elapsed, late} \subseteq BOOLEAN
    BY <1>1 DEF CountersTyped, Places
  <1>4. \A t \in Trades : row[t] \in Rows
    BY <1>1 DEF RowsOwn
  <1>5. \A L \in ledger : L \subseteq Index
    <2>1. Len(book) \in Nat /\ Len(book) >= 3
      BY <1>1, BookFills DEF BookShape
    <2>2. 1 .. 2 \subseteq Index /\ 3 .. Len(book) \subseteq Index
      BY <2>1 DEF Index
    <2> QED
      BY <1>1, <2>2 DEF LedgerWhole
  <1>6. \A a \in Actor :
          /\ actor[a].pc \in {"rest", "match", "settle", "publish", "settled",
                              "sync", "synced", "repair", "repaired", "backfill"}
          /\ actor[a].size \in 0 .. Lots
          /\ {actor[a].seen, actor[a].next} \subseteq 0 .. Len(book)
          /\ actor[a].copy \in Rows
    BY <1>1 DEF ActorsOwn, ActorState, Pcs, Places
  <1>7. Position \in 0 .. Lots
    BY <1>1, WhatIsOpen
  <1> QED
    BY <1>1, <1>2, <1>3, <1>4, <1>5, <1>6, <1>7 DEF TypeOK

LEMMA InvImpliesOwn == EvidenceInv => EvidenceIsOwn
  <1> SUFFICES ASSUME EvidenceInv PROVE EvidenceIsOwn
    OBVIOUS
  <1>1. BookShape /\ RowsOwn /\ LedgerWhole
    BY DEF EvidenceInv
  <1>2. FillsOf(Old) = 1 .. 2 /\ FillsOf(Now) = 3 .. Len(book)
    BY <1>1, FillsOfTrades
  <1>3. row[Old].counts \cup row[Old].keys \subseteq FillsOf(Old)
    BY <1>1, <1>2 DEF RowsOwn, OldRow
  <1>4. row[Now].counts \cup row[Now].keys \subseteq FillsOf(Now)
    BY <1>1, <1>2, RowFields DEF RowsOwn
  <1>5. \A L \in ledger : L = FillsOf(Old) \/ L = FillsOf(Now)
    BY <1>1, <1>2 DEF LedgerWhole
  <1> QED
    BY <1>3, <1>4, <1>5 DEF EvidenceIsOwn, Trades

-----------------------------------------------------------------------------
(* The start.                                                              *)

LEMMA InitHolds == Init => EvidenceInv
  <1> SUFFICES ASSUME Init PROVE EvidenceInv
    OBVIOUS
  <1>1. BookShape
    <2>1. Lots \in Nat /\ Lots >= 1 /\ Lots \in 1 .. Lots
      BY EvidenceAssumption
    <2> DEFINE f == Fill(Old, TRUE, Lots, TRUE)
               g == Fill(Old, FALSE, Lots, FALSE)
               h == Fill(Now, TRUE, Lots, TRUE)
    <2>2. f \in FillState /\ g \in FillState /\ h \in FillState
      BY <2>1 DEF FillState, Fill, Trades
    <2>3. book = <<f, g, h>>
      BY DEF Init
    <2> HIDE DEF f, g, h
    <2>4. /\ book \in Seq(FillState) /\ Len(book) = 3
          /\ book[1] = f /\ book[2] = g /\ book[3] = h
      BY <2>2, <2>3
    <2>5. 4 .. Len(book) = {}
      BY <2>4
    <2>6. LotsIn({}) = 0
      BY ShareOfNone, LotsAreShare
    <2> QED
      BY <2>1, <2>4, <2>5, <2>6 DEF BookShape, f, g, h
  <1>2. Len(book) = 3 /\ 0 \in 0 .. Lots /\ Lots \in 0 .. Lots
    BY EvidenceAssumption DEF Init
  <1>3. CountersTyped
    <2>1. logged \in Places /\ priced \in Places
      BY <1>2 DEF Init, Places
    <2>2. today \in {0, 3} /\ elapsed = FALSE /\ late = FALSE
      BY DEF Init
    <2> QED
      BY <2>1, <2>2 DEF CountersTyped
  <1>4. PICK keys \in {{}, {1, 2}}, native \in BOOLEAN :
          /\ mem = row[Now]
          /\ row = <<[Blank EXCEPT !.status = "closed", !.qty = Lots, !.keys = keys,
                        !.counts = IF keys = {} THEN {2} ELSE keys],
                     [Blank EXCEPT !.status = "active", !.qty = Lots, !.ids = native]>>
          /\ ledger = {{1, 2}} \ {keys}
    BY DEF Init
  <1>5. 1 .. 2 = {1, 2}
    OBVIOUS
  <1>6. RowsOwn
    <2> DEFINE C == IF keys = {} THEN {2} ELSE keys
               o == [status |-> "closed", qty |-> Lots, counts |-> C, estimate |-> FALSE,
                     ids |-> FALSE, partial |-> FALSE, since |-> FALSE, keys |-> keys]
               n == [status |-> "active", qty |-> Lots, counts |-> {}, estimate |-> FALSE,
                     ids |-> native, partial |-> FALSE, since |-> FALSE, keys |-> {}]
    <2>1. row = <<o, n>>
      <3> DEFINE x == [Blank EXCEPT !.status = "closed", !.qty = Lots, !.keys = keys,
                                    !.counts = C]
                 y == [Blank EXCEPT !.status = "active", !.qty = Lots, !.ids = native]
      <3>1. row = <<x, y>>
        BY <1>4
      <3>2. x = [Blank EXCEPT !.status = "closed", !.qty = Lots, !.keys = keys,
                              !.counts = C]
        OBVIOUS
      <3>3. y = [Blank EXCEPT !.status = "active", !.qty = Lots, !.ids = native]
        OBVIOUS
      <3> HIDE DEF x, y, C
      <3>4. x = o
        BY <3>2 DEF Blank
      <3>5. y = n
        BY <3>3 DEF Blank
      <3> QED
        BY <3>1, <3>4, <3>5
    <2>2. C \subseteq 1 .. 2 /\ keys \subseteq 1 .. 2 /\ 1 .. 2 \subseteq Index
      BY <1>2 DEF Index
    <2> HIDE DEF C
    <2>3. o \in Rows
      BY <1>2, <2>2 DEF Rows
    <2>4. n \in Rows /\ OwnRow(n)
      BY <1>2 DEF Rows, OwnRow
    <2>5. o.status = "closed" /\ o.counts \subseteq 1 .. 2 /\ o.keys = keys
      BY <2>2
    <2> HIDE DEF o, n
    <2>6. row[Old] = o /\ row[Now] = n /\ row \in [Trades -> Rows]
      BY <2>1, <2>3, <2>4 DEF Old, Now, Trades
    <2>7. keys = 1 .. 2 \/ (keys = {} /\ 1 .. 2 \in ledger)
      BY <1>4, <1>5
    <2> QED
      BY <2>3, <2>4, <2>5, <2>6, <2>7 DEF RowsOwn, OldRow
  <1>7. LedgerWhole
    BY <1>4, <1>5 DEF LedgerWhole
  <1>8. ActorsOwn
    <2>1. OwnRow(Blank)
      BY <1>1, BlankIsOwn
    <2>2. actor = [a \in Actor |-> Resting]
      BY DEF Init
    <2>3. Resting \in ActorState /\ Resting.copy = Blank
      BY <1>2, <2>1 DEF ActorState, Resting, Pcs, Places, OwnRow
    <2> QED
      BY <2>1, <2>2, <2>3 DEF ActorsOwn
  <1> QED
    BY <1>1, <1>3, <1>4, <1>6, <1>7, <1>8 DEF EvidenceInv, RowsOwn

-----------------------------------------------------------------------------
(* The steps.                                                              *)

\* Nothing but the book's length and its fills is in the predicates on rows.
LEMMA OwnRowStays ==
    ASSUME book' = book, NEW r, OwnRow(r)
    PROVE  OwnRow(r)'
  BY DEF OwnRow, Rows, Index

LEMMA BookStays ==
    ASSUME BookShape, book' = book
    PROVE  BookShape'
  BY DEF BookShape, LotsIn

\* An actor's next state.
LEMMA ActorWritten ==
    ASSUME BookShape, ActorsOwn, book' = book, NEW a \in Actor, NEW p \in ActorState,
           OwnRow(p.copy), actor' = [actor EXCEPT ![a] = p]
    PROVE  ActorsOwn'
  <1>1. ActorState' = ActorState
    BY DEF ActorState, Places, Rows, Index
  <1>2. actor' \in [Actor -> ActorState]
    BY DEF ActorsOwn
  <1>3. \A b \in Actor : OwnRow(actor'[b].copy)
    BY DEF ActorsOwn
  <1>4. (\A b \in Actor : OwnRow(actor[b].copy))'
    BY <1>3 DEF OwnRow, Rows, Index
  <1> QED
    BY <1>1, <1>2, <1>4 DEF ActorsOwn

LEMMA ActorGoes ==
    ASSUME BookShape, ActorsOwn, book' = book, NEW a \in Actor, NEW pc \in Pcs, Goto(a, pc)
    PROVE  ActorsOwn'
  <1> DEFINE p == [Resting EXCEPT !.pc = pc]
  <1>1. p = [Resting EXCEPT !.pc = pc]
    OBVIOUS
  <1>2. OwnRow(Blank) /\ 0 \in 0 .. Lots /\ 0 \in Places
    BY BlankIsOwn, BookFills, EvidenceAssumption DEF Places
  <1>3. actor' = [actor EXCEPT ![a] = p]
    BY DEF Goto
  <1> HIDE DEF p
  <1>4. p = [pc |-> pc, size |-> 0, seen |-> 0, next |-> 0, copy |-> Blank]
    BY <1>1 DEF Resting
  <1>5. p \in ActorState /\ p.copy = Blank
    BY <1>2, <1>4 DEF ActorState, OwnRow
  <1> QED
    BY <1>2, <1>3, <1>5, ActorWritten

LEMMA ActorReads ==
    ASSUME BookShape, ActorsOwn, book' = book, NEW a \in Actor, NEW pc \in Pcs,
           NEW r, OwnRow(r), NEW seen \in Places, Reads(a, pc, r, seen)
    PROVE  ActorsOwn'
  <1> DEFINE p == [Resting EXCEPT !.pc = pc, !.copy = r, !.seen = seen]
  <1>1. p = [Resting EXCEPT !.pc = pc, !.copy = r, !.seen = seen]
    OBVIOUS
  <1>2. 0 \in Places /\ 0 \in 0 .. Lots
    BY BookFills, EvidenceAssumption DEF Places
  <1>3. actor' = [actor EXCEPT ![a] = p]
    BY DEF Reads
  <1> HIDE DEF p
  <1>4. p = [pc |-> pc, size |-> 0, seen |-> seen, next |-> 0, copy |-> r]
    BY <1>1 DEF Resting
  <1>5. p \in ActorState /\ p.copy = r
    BY <1>2, <1>4 DEF ActorState, OwnRow
  <1> QED
    BY <1>3, <1>5, ActorWritten

\* What the other parts need to stay as they are.
LEMMA RestStays ==
    ASSUME BookShape, RowsOwn, LedgerWhole, book' = book, ledger' = ledger, row' = row
    PROVE  BookShape' /\ RowsOwn' /\ LedgerWhole'
  <1>1. BookShape'
    BY BookStays
  <1>2. OwnRow(row[Now])'
    BY DEF RowsOwn, OwnRow, Rows, Index
  <1>3. RowsOwn'
    BY <1>2 DEF RowsOwn, OldRow, Rows, Index
  <1>4. LedgerWhole'
    BY DEF LedgerWhole, LotsIn
  <1> QED
    BY <1>1, <1>3, <1>4

LEMMA NowWritten ==
    ASSUME BookShape, RowsOwn, LedgerWhole, book' = book, ledger' = ledger,
           NEW r, OwnRow(r), row' = [row EXCEPT ![Now] = r]
    PROVE  BookShape' /\ RowsOwn' /\ LedgerWhole' /\ row'[Now] = r
  <1>1. BookShape'
    BY BookStays
  <1>2. row \in [Trades -> Rows] /\ Old \in Trades /\ Now \in Trades /\ Old # Now
    BY DEF RowsOwn, Trades, Old, Now
  <1>3. row' \in [Trades -> Rows] /\ row'[Now] = r /\ row'[Old] = row[Old]
    BY <1>2 DEF OwnRow
  <1>4. Rows' = Rows
    BY DEF Rows, Index
  <1>5. OwnRow(row[Now])'
    BY <1>3 DEF OwnRow, Rows, Index
  <1>6. OldRow'
    BY <1>3, <1>4 DEF RowsOwn, OldRow
  <1>7. RowsOwn'
    BY <1>3, <1>4, <1>5, <1>6 DEF RowsOwn
  <1>8. LedgerWhole'
    BY DEF LedgerWhole, LotsIn
  <1> QED
    BY <1>1, <1>3, <1>7, <1>8

LEMMA CountersStay ==
    ASSUME CountersTyped, book' = book,
           logged' = logged, priced' = priced, today' = today,
           elapsed' \in BOOLEAN, late' \in BOOLEAN
    PROVE  CountersTyped'
  BY DEF CountersTyped, Places

\* A step that writes none of the rows.
LEMMA OnlyActor ==
    ASSUME EvidenceInv, UNCHANGED <<book, logged, priced, today, row, mem, ledger, elapsed, late>>,
           ActorsOwn'
    PROVE  EvidenceInv' /\ row' = row
  <1>1. CountersTyped'
    BY CountersStay DEF EvidenceInv, CountersTyped
  <1>2. OwnRow(mem)'
    BY DEF EvidenceInv, OwnRow, Rows, Index
  <1> QED
    BY <1>1, <1>2, RestStays DEF EvidenceInv

\* What CloseIsWhole says of a step.
ClosesWhole ==
    row[Now].status # "closed" /\ row'[Now].status = "closed" /\ ~row'[Now].estimate
      => LotsIn({i \in row'[Now].counts : ~book[i].open}) = Lots

Kept == EvidenceInv' /\ ClosesWhole

LEMMA ActorOnlyKeeps ==
    ASSUME EvidenceInv, UNCHANGED <<book, logged, priced, today, row, mem, ledger, elapsed, late>>,
           ActorsOwn'
    PROVE  Kept
  BY OnlyActor DEF Kept, ClosesWhole

LEMMA ReadersKeep ==
    ASSUME EvidenceInv, NEW a \in Actor,
           \/ ReconcileReads(a) \/ ReconcileSees(a) \/ SyncReads(a) \/ SyncSkips
           \/ RepairReads
           \/ BackfillFetches \/ BackfillEnds
    PROVE  Kept
  <1>1. /\ BookShape /\ ActorsOwn /\ OwnRow(row[Now]) /\ OwnRow(mem) /\ CountersTyped
    BY DEF EvidenceInv, RowsOwn
  <1>2. 0 \in 0 .. Lots /\ 0 \in Places /\ priced \in Places /\ logged \in Places
    BY <1>1, BookFills, EvidenceAssumption DEF Places, CountersTyped
  <1>3. Position \in 0 .. Lots
    BY <1>1, WhatIsOpen
  <1>4. {"match", "settle", "settled", "sync", "synced", "repair", "repaired", "rest",
          "backfill"} \subseteq Pcs /\ "worker" \in Actor /\ "socket" \in Actor
    BY DEF Pcs, Actor
  <1>5. UNCHANGED <<book, logged, priced, today, row, mem, ledger, elapsed, late>>
    BY DEF ReconcileReads, ReconcileSees, SyncReads, SyncSkips, RepairReads,
           BackfillFetches, BackfillEnds
  <1>6. CASE ReconcileReads(a)
    <2>1. Reads(a, "match", Candidate, 0) \/ Goto(a, "settled")
      BY <1>6 DEF ReconcileReads
    <2>c. OwnRow(Candidate)
      BY <1>1 DEF Candidate
    <2>2. ActorsOwn'
      BY <1>1, <1>2, <1>4, <1>5, <2>1, <2>c, ActorReads, ActorGoes
    <2> QED
      BY <1>5, <2>2, ActorOnlyKeeps
  <1>7. CASE SyncReads(a)
    <2>1. Reads(a, "sync", mem, priced) \/ Goto(a, After(a, "synced"))
      BY <1>7 DEF SyncReads
    <2>2. After(a, "synced") \in Pcs
      BY <1>4 DEF After
    <2>3. ActorsOwn'
      BY <1>1, <1>2, <1>4, <1>5, <2>1, <2>2, ActorReads, ActorGoes
    <2> QED
      BY <1>5, <2>3, ActorOnlyKeeps
  <1>8. CASE SyncSkips
    <2>1. ActorsOwn'
      BY <1>1, <1>4, <1>5, <1>8, ActorGoes DEF SyncSkips
    <2> QED
      BY <1>5, <2>1, ActorOnlyKeeps
  <1>9. CASE RepairReads
    <2>1. Reads("worker", "repair", row[Now], 0) \/ Goto("worker", "repaired")
      BY <1>9 DEF RepairReads
    <2>2. ActorsOwn'
      BY <1>1, <1>2, <1>4, <1>5, <2>1, ActorReads, ActorGoes
    <2> QED
      BY <1>5, <2>2, ActorOnlyKeeps
  <1>10. CASE BackfillFetches
    <2> DEFINE p == [Resting EXCEPT !.pc = "backfill", !.seen = logged]
    <2>1. p = [Resting EXCEPT !.pc = "backfill", !.seen = logged]
      OBVIOUS
    <2>2. actor' = [actor EXCEPT !["worker"] = p]
      BY <1>10 DEF BackfillFetches
    <2> HIDE DEF p
    <2>3. p = [pc |-> "backfill", size |-> 0, seen |-> logged, next |-> 0, copy |-> Blank]
      BY <2>1 DEF Resting
    <2>4. OwnRow(Blank)
      BY <1>1, BlankIsOwn
    <2>5. p \in ActorState /\ p.copy = Blank
      BY <1>2, <1>4, <2>3, <2>4 DEF ActorState, OwnRow
    <2>6. ActorsOwn'
      BY <1>1, <1>4, <1>5, <2>2, <2>4, <2>5, ActorWritten
    <2> QED
      BY <1>5, <2>6, ActorOnlyKeeps
  <1>11. CASE BackfillEnds
    <2>1. ActorsOwn'
      BY <1>1, <1>4, <1>5, <1>11, ActorGoes DEF BackfillEnds
    <2> QED
      BY <1>5, <2>1, ActorOnlyKeeps
  <1>12. CASE ReconcileSees(a)
    <2> DEFINE p == [actor[a] EXCEPT !.pc = "settle", !.size = Position]
    <2>1. p = [actor[a] EXCEPT !.pc = "settle", !.size = Position]
      OBVIOUS
    <2>2. actor[a] \in ActorState /\ OwnRow(actor[a].copy)
      BY <1>1 DEF ActorsOwn
    <2>3. actor' = [actor EXCEPT ![a] = p]
      BY <1>1, <1>12 DEF ReconcileSees, ActorsOwn
    <2> HIDE DEF p
    <2>4. p \in ActorState /\ p.copy = actor[a].copy
      BY <1>3, <1>4, <2>1, <2>2 DEF ActorState
    <2>5. ActorsOwn'
      BY <1>1, <1>5, <2>2, <2>3, <2>4, ActorWritten
    <2> QED
      BY <1>5, <2>5, ActorOnlyKeeps
  <1> QED
    BY <1>6, <1>7, <1>8, <1>9, <1>10, <1>11, <1>12

\* A pass writes its row of the open trade, and the list, and goes on.
LEMMA WriterKeeps ==
    ASSUME EvidenceInv, ActorsOwn',
           UNCHANGED <<book, logged, priced, today, ledger>>,
           elapsed' \in BOOLEAN, late' \in BOOLEAN, OwnRow(mem'),
           NEW r, OwnRow(r), row' = [row EXCEPT ![Now] = r],
           row[Now].status # "closed" /\ r.status = "closed" /\ ~r.estimate => Whole(r)
    PROVE  Kept
  <1>1. BookShape /\ CountersTyped /\ RowsOwn /\ LedgerWhole
    BY DEF EvidenceInv
  <1>2. BookShape' /\ RowsOwn' /\ LedgerWhole' /\ row'[Now] = r
    BY <1>1, NowWritten
  <1>3. OwnRow(mem)'
    BY DEF OwnRow, Rows, Index
  <1>4. CountersTyped'
    BY <1>1, CountersStay
  <1>5. ClosesWhole
    BY <1>2 DEF ClosesWhole, Whole
  <1> QED
    BY <1>2, <1>3, <1>4, <1>5 DEF Kept, EvidenceInv

LEMMA ActorFacts ==
    ASSUME ActorsOwn, NEW a \in Actor
    PROVE  /\ actor[a].size \in 0 .. Lots /\ actor[a].seen \in Places
           /\ actor[a].next \in Places /\ OwnRow(actor[a].copy)
  BY DEF ActorsOwn, ActorState

LEMMA SettlesKeeps ==
    ASSUME EvidenceInv, NEW a \in Actor, ReconcileSettles(a)
    PROVE  Kept
  <1> DEFINE c == actor[a].copy
             size == actor[a].size
  <1>1. /\ BookShape /\ OwnRow(row[Now]) /\ OwnRow(mem) /\ CountersTyped /\ ActorsOwn
        /\ OwnRow(Blank)
    BY BlankIsOwn DEF EvidenceInv, RowsOwn
  <1>2. OwnRow(c) /\ size \in 0 .. Lots
    BY <1>1, ActorFacts
  <1>3. PICK pnl \in {0, priced}, log \in {0, logged} :
          /\ row' = [row EXCEPT ![Now] = IF size > 0 THEN Merged(c, size)
                                         ELSE Unmatched(c, pnl, log)]
          /\ mem' = Blank \/ mem' = mem
    BY DEF ReconcileSettles
  <1>4. pnl \in 0 .. Len(book) /\ log \in 0 .. Len(book)
    BY <1>1, BookFills DEF CountersTyped, Places
  <1>5. /\ elapsed' = (elapsed /\ c.since) /\ Reads(a, "publish", Entry(c, size), 0)
        /\ "publish" \in Pcs /\ UNCHANGED <<book, logged, priced, today, ledger, late>>
    BY DEF ReconcileSettles, Pcs
  <1>6. elapsed' \in BOOLEAN /\ late' \in BOOLEAN /\ OwnRow(mem')
    BY <1>1, <1>3, <1>5 DEF CountersTyped
  <1> HIDE DEF c, size
  <1>e. OwnRow(Entry(c, size))
    <2>1. CASE size > 0
      <3> DEFINE n == [c EXCEPT !.status = "active", !.qty = size]
      <3>1. c \in Rows
        BY <1>2 DEF OwnRow
      <3>2. n \in Rows /\ n.counts = c.counts /\ n.keys = c.keys
        BY <1>2, <3>1 DEF Rows
      <3> QED
        BY <1>2, <2>1, <3>2 DEF Entry, OwnRow
    <2>2. CASE ~(size > 0)
      BY <1>1, <2>2 DEF Entry
    <2> QED
      BY <2>1, <2>2
  <1>a. ActorsOwn'
    <2>1. 0 \in Places
      BY <1>1, BookFills DEF Places
    <2> QED
      BY <1>1, <1>5, <1>e, <2>1, ActorReads
  <1> DEFINE n == IF size > 0 THEN Merged(c, size) ELSE Unmatched(c, pnl, log)
  <1>7. n = IF size > 0 THEN Merged(c, size) ELSE Unmatched(c, pnl, log)
    OBVIOUS
  <1>8. row' = [row EXCEPT ![Now] = n]
    BY <1>3
  <1> HIDE DEF n
  <1>9. OwnRow(n) /\ (n.status = "closed" /\ ~n.estimate => Whole(n))
    BY <1>1, <1>2, <1>4, <1>7, SettledIsOwn
  <1> QED
    BY <1>5, <1>6, <1>8, <1>9, <1>a, WriterKeeps

LEMMA PublishesKeeps ==
    ASSUME EvidenceInv, NEW a \in Actor, ReconcilePublishes(a)
    PROVE  Kept
  <1>1. BookShape /\ ActorsOwn /\ CountersTyped /\ RowsOwn /\ LedgerWhole
    BY DEF EvidenceInv
  <1>2. /\ mem' = actor[a].copy /\ Goto(a, "settled") /\ "settled" \in Pcs
        /\ UNCHANGED <<book, logged, priced, today, row, ledger, elapsed, late>>
    BY DEF ReconcilePublishes, Pcs
  <1>3. OwnRow(mem)'
    BY <1>1, <1>2, ActorFacts DEF OwnRow, Rows, Index
  <1>4. ActorsOwn' /\ CountersTyped'
    BY <1>1, <1>2, ActorGoes, CountersStay DEF CountersTyped
  <1> QED
    BY <1>1, <1>2, <1>3, <1>4, RestStays DEF Kept, EvidenceInv, ClosesWhole

LEMMA SyncWritesKeeps ==
    ASSUME EvidenceInv, NEW a \in Actor, SyncWrites(a)
    PROVE  Kept
  <1> DEFINE c == actor[a].copy
             S == Progress(actor[a].seen)
             t == row[Now].status
  <1>1. BookShape /\ OwnRow(row[Now]) /\ OwnRow(mem) /\ CountersTyped /\ ActorsOwn
    BY DEF EvidenceInv, RowsOwn
  <1>2. OwnRow(c) /\ actor[a].seen \in 0 .. Len(book)
    BY <1>1, ActorFacts DEF Places
  <1>3. /\ Goto(a, After(a, "synced")) /\ After(a, "synced") \in Pcs
        /\ UNCHANGED <<book, logged, priced, today, ledger, elapsed>>
    BY DEF SyncWrites, After, Pcs
  <1>4. ActorsOwn'
    BY <1>1, <1>3, ActorGoes
  <1>5. CASE UNCHANGED <<row, mem, late>>
    BY <1>3, <1>4, <1>5, ActorOnlyKeeps
  <1>6. CASE /\ LotsIn(S) <= Lots
             /\ row' = [row EXCEPT ![Now] = Synced(c, S, t)]
             /\ mem' = Synced(c, S, "active") \/ mem' = mem
             /\ late' = (late \/ t = "closed")
    <2>1. t \in {"none", "active", "pending", "closed"}
      BY <1>1, RowFields
    <2>2. OwnRow(Synced(c, S, t)) /\ Synced(c, S, t).status = t
      BY <1>1, <1>2, <1>6, <2>1, SyncedIsOwn
    <2>3. OwnRow(Synced(c, S, "active"))
      BY <1>1, <1>2, <1>6, SyncedIsOwn
    <2>4. OwnRow(mem') /\ elapsed' \in BOOLEAN /\ late' \in BOOLEAN
      BY <1>1, <1>3, <1>6, <2>3 DEF CountersTyped
    <2> DEFINE n == Synced(c, S, t)
    <2>5. OwnRow(n) /\ n.status = t /\ row' = [row EXCEPT ![Now] = n]
      BY <1>6, <2>2
    <2> HIDE DEF n, S, c
    <2> QED
      BY <1>3, <1>4, <2>4, <2>5, WriterKeeps
  <1>7. \/ UNCHANGED <<row, mem, late>>
        \/ /\ LotsIn(S) <= Lots
           /\ row' = [row EXCEPT ![Now] = Synced(c, S, t)]
           /\ mem' = Synced(c, S, "active") \/ mem' = mem
           /\ late' = (late \/ t = "closed")
    BY DEF SyncWrites, IsNews
  <1> QED
    BY <1>5, <1>6, <1>7

LEMMA RepairWritesKeeps ==
    ASSUME EvidenceInv, RepairWrites
    PROVE  Kept
  <1> DEFINE n == Repaired(actor["worker"].copy)
  <1>1. /\ BookShape /\ OwnRow(row[Now]) /\ OwnRow(mem) /\ CountersTyped /\ ActorsOwn
        /\ "worker" \in Actor
    BY DEF EvidenceInv, RowsOwn, Actor
  <1>2. OwnRow(actor["worker"].copy) /\ logged \in 0 .. Len(book)
    BY <1>1, ActorFacts DEF Places, CountersTyped
  <1>3. /\ row' = [row EXCEPT ![Now] = n] /\ Goto("worker", "repaired")
        /\ "repaired" \in Pcs
        /\ UNCHANGED <<book, logged, priced, today, mem, ledger, elapsed, late>>
    BY DEF RepairWrites, Pcs
  <1>4. OwnRow(n) /\ (n = row[Now] \/ Whole(n))
    BY <1>1, <1>2, RepairedIsOwn
  <1>5. elapsed' \in BOOLEAN /\ late' \in BOOLEAN /\ OwnRow(mem')
    BY <1>1, <1>3 DEF CountersTyped
  <1>6. ActorsOwn'
    BY <1>1, <1>3, ActorGoes
  <1> HIDE DEF n
  <1> QED
    BY <1>1, <1>3, <1>4, <1>5, <1>6, WriterKeeps

\* A lifecycle that no row of the backfill has: the old trade's matches its own
\* row only, which has its records; another is the whole of the open trade.
LEMMA MatchesOwnRow ==
    ASSUME BookShape, RowsOwn, NEW L,
           L = 1 .. 2 \/ (L = 3 .. Len(book) /\ Len(book) >= 4),
           \A K \in ledger : K \cap L = {}, NEW t \in MatchedRows(L)
    PROVE  \/ L = 1 .. 2 /\ t = Old /\ Finalized(row[t], L) = row[Old]
           \/ L = 3 .. Len(book) /\ t = Now
  <1>1. /\ Len(book) \in Nat /\ Trades = {Old, Now} /\ Old # Now
        /\ row[Old].status = "closed"
        /\ row[Old].keys = 1 .. 2 \/ (row[Old].keys = {} /\ 1 .. 2 \in ledger)
        /\ row[Now].keys \subseteq 3 .. Len(book)
    BY BookFills, RowFields DEF RowsOwn, OldRow, Trades, Old, Now
  <1>2. (1 .. 2) \cap (1 .. 2) # {} /\ (1 .. 2) \cap (3 .. Len(book)) = {}
    <2>1. 1 \in (1 .. 2) \cap (1 .. 2)
      OBVIOUS
    <2> QED
      BY <1>1, <2>1
  <1>3. t \in Trades /\ (row[t].keys \cap L # {} \/ Blocking(row[t]))
    BY DEF MatchedRows
  <1>4. ~Blocking(row[Old])
    BY <1>1 DEF Blocking
  <1>5. CASE L = 1 .. 2
    <2>1. row[Old].keys = 1 .. 2
      BY <1>1, <1>2, <1>5
    <2>2. row[Old].keys \cap L # {} /\ row[Now].keys \cap L = {}
      BY <1>1, <1>2, <1>5, <2>1
    <2>3. t = Old
      <3>1. {s \in Trades : row[s].keys \cap L # {}} # {}
        BY <1>1, <2>2
      <3>2. t \in {s \in Trades : row[s].keys \cap L # {}}
        BY <3>1 DEF MatchedRows
      <3> QED
        BY <1>1, <2>2, <3>2
    <2>4. Finalized(row[t], L) = row[Old]
      BY <1>1, <1>5, <2>1, <2>3 DEF Finalized
    <2> QED
      BY <1>5, <2>3, <2>4
  <1>6. CASE L = 3 .. Len(book)
    <2>1. row[Old].keys \cap L = {}
      BY <1>1, <1>2, <1>6
    <2> QED
      BY <1>1, <1>3, <1>4, <1>6, <2>1
  <1> QED
    BY <1>5, <1>6

LEMMA HandlesKeeps ==
    ASSUME EvidenceInv, BackfillHandles
    PROVE  Kept
  <1>1. BookShape /\ CountersTyped /\ RowsOwn /\ LedgerWhole /\ ActorsOwn
    BY DEF EvidenceInv
  <1>2. /\ "worker" \in Actor /\ Len(book) \in Nat /\ Len(book) >= 3
        /\ actor["worker"].seen \in 0 .. Len(book) /\ today \in Nat
    BY <1>1, BookFills, ActorFacts DEF Actor, Places, CountersTyped, BookShape
  <1>3. PICK L \in Upcoming(today, actor["worker"].seen, actor["worker"].next) :
          /\ \/ UNCHANGED <<row, ledger>>
             \/ ledger' = ledger \cup {L} /\ UNCHANGED row
             \/ /\ \A K \in ledger : K \cap L = {}
                /\ \E t \in MatchedRows(L) : row' = [row EXCEPT ![t] = Finalized(@, L)]
                /\ UNCHANGED ledger
          /\ actor' = [actor EXCEPT !["worker"].next = Max(L)]
    BY DEF BackfillHandles
  <1>4. UNCHANGED <<book, logged, priced, today, mem, elapsed, late>> /\ OwnRow(mem)'
    BY DEF BackfillHandles, EvidenceInv, OwnRow, Rows, Index
  <1>5. L \in Lifecycles(today, actor["worker"].seen)
    BY DEF Upcoming
  <1>6. \/ L = 1 .. 2 /\ Max(L) = 2
        \/ /\ L = 3 .. Len(book) /\ Max(L) = Len(book) /\ Len(book) >= 4
           /\ LotsIn(4 .. Len(book)) = Lots
    BY <1>1, <1>2, <1>5, LifecyclesAreTrades
  <1>7. CountersTyped'
    BY <1>1, <1>4, CountersStay DEF CountersTyped
  <1>8. ActorsOwn'
    <2> DEFINE p == [actor["worker"] EXCEPT !.next = Max(L)]
    <2>1. p = [actor["worker"] EXCEPT !.next = Max(L)]
      OBVIOUS
    <2>2. actor["worker"] \in ActorState
      BY <1>1, <1>2 DEF ActorsOwn
    <2>3. Max(L) \in Places
      BY <1>2, <1>6 DEF Places
    <2>4. actor' = [actor EXCEPT !["worker"] = p]
      BY <1>3
    <2> HIDE DEF p
    <2>5. p \in ActorState /\ p.copy = actor["worker"].copy
      BY <2>1, <2>2, <2>3 DEF ActorState
    <2> QED
      BY <1>1, <1>2, <1>4, <2>4, <2>5, ActorFacts, ActorWritten
  <1>9. CASE UNCHANGED <<row, ledger>>
    BY <1>1, <1>4, <1>7, <1>8, <1>9, RestStays DEF Kept, EvidenceInv, ClosesWhole
  <1>10. CASE ledger' = ledger \cup {L} /\ UNCHANGED row
    <2>1. BookShape'
      BY <1>1, <1>4, BookStays
    <2>2. OwnRow(row[Now])'
      BY <1>1, <1>4, <1>10 DEF RowsOwn, OwnRow, Rows, Index
    <2>3. RowsOwn'
      BY <1>1, <1>4, <1>10, <2>2 DEF RowsOwn, OldRow, Rows, Index
    <2>4. LedgerWhole'
      BY <1>1, <1>4, <1>6, <1>10 DEF LedgerWhole, LotsIn
    <2> QED
      BY <1>4, <1>7, <1>8, <1>10, <2>1, <2>3, <2>4 DEF Kept, EvidenceInv, ClosesWhole
  <1>11. CASE /\ \A K \in ledger : K \cap L = {}
              /\ \E t \in MatchedRows(L) : row' = [row EXCEPT ![t] = Finalized(@, L)]
              /\ UNCHANGED ledger
    <2>1. PICK t \in MatchedRows(L) : row' = [row EXCEPT ![t] = Finalized(row[t], L)]
      BY <1>11
    <2>2. \/ L = 1 .. 2 /\ t = Old /\ Finalized(row[t], L) = row[Old]
          \/ L = 3 .. Len(book) /\ t = Now
      BY <1>1, <1>6, <1>11, MatchesOwnRow
    <2>3. CASE L = 1 .. 2 /\ t = Old /\ Finalized(row[t], L) = row[Old]
      <3>1. row' = row
        BY <1>1, <2>1, <2>3 DEF RowsOwn
      <3> QED
        BY <1>9, <1>11, <3>1
    <2>4. CASE L = 3 .. Len(book) /\ t = Now
      <3> DEFINE n == Finalized(row[Now], L)
      <3>1. row' = [row EXCEPT ![Now] = n]
        BY <2>1, <2>4
      <3>2. OwnRow(n) /\ (n = row[Now] \/ n.counts = L)
        BY <1>1, <2>4, FinalizedIsOwn DEF RowsOwn
      <3> HIDE DEF n
      <3>3. BookShape' /\ RowsOwn' /\ LedgerWhole' /\ row'[Now] = n
        BY <1>1, <1>4, <1>11, <3>1, <3>2, NowWritten
      <3>4. n.counts = L => LotsIn({i \in n.counts : ~book[i].open}) = Lots
        <4>1. L # 1 .. 2
          BY <1>2, <2>4
        <4>2. /\ book[3].open /\ \A i \in 4 .. Len(book) : ~book[i].open
          BY <1>1, BookFills DEF BookShape
        <4>3. {i \in L : ~book[i].open} = 4 .. Len(book)
          BY <1>2, <2>4, <4>2
        <4> QED
          BY <1>6, <4>1, <4>3
      <3>5. ClosesWhole
        BY <3>2, <3>3, <3>4 DEF ClosesWhole
      <3> QED
        BY <1>4, <1>7, <1>8, <3>3, <3>5 DEF Kept, EvidenceInv
    <2> QED
      BY <2>2, <2>3, <2>4
  <1> QED
    BY <1>3, <1>9, <1>10, <1>11

\* A further close while there is something to close: nothing that is written
\* down is touched, and the trade has no row of the backfill yet.
LEMMA GrowthKeeps ==
    ASSUME EvidenceInv, NEW n \in 1 .. Position, NEW known \in BOOLEAN,
           book' = Append(book, Fill(Now, FALSE, n, known)),
           UNCHANGED <<logged, priced, today, ledger, elapsed, late, actor>>
    PROVE  /\ BookShape' /\ CountersTyped' /\ LedgerWhole' /\ ActorsOwn'
           /\ OldRow /\ row'[Old] = row[Old] => OldRow'
           /\ \A r : OwnRow(r) => r \in Rows' /\ r.counts \subseteq 3 .. Len(book')
                                              /\ r.keys \subseteq 3 .. Len(book')
  <1>1. BookShape /\ CountersTyped /\ RowsOwn /\ LedgerWhole /\ ActorsOwn
    BY DEF EvidenceInv
  <1>2. BookShape' /\ Len(book') = Len(book) + 1 /\ Len(book) \in Nat
    BY <1>1, BookGrows, BookFills
  <1>3. /\ 0 .. Len(book) \subseteq 0 .. Len(book') /\ 1 .. Len(book) \subseteq 1 .. Len(book')
        /\ 3 .. Len(book) \subseteq 3 .. Len(book')
    BY <1>2
  <1>4. Rows \subseteq Rows'
    BY <1>3 DEF Rows, Index
  <1>5. CountersTyped'
    BY <1>1, <1>3 DEF CountersTyped, Places
  <1>6. \A r : OwnRow(r) => r \in Rows' /\ r.counts \subseteq 3 .. Len(book')
                                        /\ r.keys \subseteq 3 .. Len(book')
    BY <1>3, <1>4 DEF OwnRow
  <1>7. ActorsOwn'
    <2>1. ActorState \subseteq ActorState'
      BY <1>3, <1>4 DEF ActorState, Places
    <2>2. actor' \in [Actor -> ActorState']
      BY <1>1, <2>1 DEF ActorsOwn
    <2>3. (\A a \in Actor : OwnRow(actor[a].copy))'
      BY <1>1, <1>6 DEF ActorsOwn, OwnRow
    <2> QED
      BY <2>2, <2>3 DEF ActorsOwn
  <1>8. LedgerWhole'
    <2>1. LotsIn(4 .. Len(book)) # Lots
      BY <1>1, WhatIsOpen, EvidenceAssumption
    <2>2. \A L \in ledger : L = 1 .. 2
      BY <1>1, <2>1 DEF LedgerWhole
    <2> QED
      BY <2>2 DEF LedgerWhole
  <1>9. OldRow /\ row'[Old] = row[Old] => OldRow'
    BY <1>4 DEF OldRow
  <1> QED
    BY <1>2, <1>5, <1>6, <1>7, <1>8, <1>9

LEMMA ClosesKeeps ==
    ASSUME EvidenceInv, Closes
    PROVE  Kept
  <1>1. RowsOwn /\ OwnRow(row[Now]) /\ OwnRow(mem)
    BY DEF EvidenceInv, RowsOwn
  <1>2. row[Now].ids \in BOOLEAN
    BY <1>1, RowFields
  <1>3. PICK n \in 1 .. Position, known \in {FALSE, row[Now].ids} :
          book' = Append(book, Fill(Now, FALSE, n, known))
    BY DEF Closes
  <1>4. known \in BOOLEAN /\ UNCHANGED <<logged, priced, today, row, mem, ledger, elapsed, late, actor>>
    BY <1>2 DEF Closes
  <1>5. /\ BookShape' /\ CountersTyped' /\ LedgerWhole' /\ ActorsOwn'
        /\ OldRow /\ row'[Old] = row[Old] => OldRow'
        /\ \A r : OwnRow(r) => r \in Rows' /\ r.counts \subseteq 3 .. Len(book')
                                           /\ r.keys \subseteq 3 .. Len(book')
    BY <1>3, <1>4, GrowthKeeps
  <1>6. OwnRow(row[Now])' /\ OwnRow(mem)'
    BY <1>1, <1>4, <1>5 DEF OwnRow
  <1>7. row' \in [Trades -> Rows']
    <2>1. row[Old] \in Rows' /\ row[Now] \in Rows'
      BY <1>1, <1>4, <1>5 DEF RowsOwn, OldRow
    <2> QED
      BY <1>1, <1>4, <2>1 DEF RowsOwn, Trades
  <1>8. RowsOwn'
    BY <1>1, <1>4, <1>5, <1>6, <1>7 DEF RowsOwn
  <1> QED
    BY <1>4, <1>5, <1>6, <1>8 DEF Kept, EvidenceInv, ClosesWhole

LEMMA ByHandKeeps ==
    ASSUME EvidenceInv, ClosesByHand
    PROVE  Kept
  <1>1. BookShape /\ RowsOwn /\ OwnRow(row[Now]) /\ OwnRow(mem)
    BY DEF EvidenceInv, RowsOwn
  <1>2. Position \in 1 .. Position
    BY <1>1, WhatIsOpen, EvidenceAssumption DEF ClosesByHand
  <1>3. /\ book' = Append(book, Fill(Now, FALSE, Position, TRUE))
        /\ UNCHANGED <<logged, priced, today, ledger, elapsed, late, actor>>
        /\ mem' = [mem EXCEPT !.ids = Listed]
    BY DEF ClosesByHand
  <1>4. /\ BookShape' /\ CountersTyped' /\ LedgerWhole' /\ ActorsOwn'
        /\ OldRow /\ row'[Old] = row[Old] => OldRow'
        /\ \A r : OwnRow(r) => r \in Rows' /\ r.counts \subseteq 3 .. Len(book')
                                           /\ r.keys \subseteq 3 .. Len(book')
    BY <1>2, <1>3, GrowthKeeps
  <1> DEFINE c == IF Listed THEN mem ELSE row[Now]
             n == [Noted(c, "active") EXCEPT !.ids = TRUE]
  <1>5. row' = [row EXCEPT ![Now] = n]
    BY DEF ClosesByHand
  <1>6. OwnRow(n) /\ n.status = "active"
    <2>1. OwnRow(c)
      BY <1>1
    <2> HIDE DEF c
    <2> DEFINE m == Noted(c, "active")
    <2>2. OwnRow(m) /\ m.status = "active"
      BY <1>1, <2>1, NotedIsOwn
    <2> HIDE DEF m
    <2>3. m \in Rows
      BY <2>2 DEF OwnRow
    <2>4. [m EXCEPT !.ids = TRUE] \in Rows /\ [m EXCEPT !.ids = TRUE].status = "active"
            /\ [m EXCEPT !.ids = TRUE].counts = m.counts
            /\ [m EXCEPT !.ids = TRUE].keys = m.keys
      BY <2>2, <2>3 DEF Rows
    <2>5. OwnRow([m EXCEPT !.ids = TRUE]) /\ [m EXCEPT !.ids = TRUE].status = "active"
      BY <2>2, <2>4 DEF OwnRow
    <2> QED
      BY <2>5 DEF m
  <1> HIDE DEF n
  <1>m. OwnRow(mem') /\ OwnRow(mem)'
    <2> DEFINE k == [mem EXCEPT !.ids = Listed]
    <2>1. mem \in Rows /\ Listed \in BOOLEAN
      BY <1>1 DEF OwnRow, Listed
    <2>2. k \in Rows /\ k.counts = mem.counts /\ k.keys = mem.keys
      <3> HIDE DEF Listed
      <3> QED
        BY <2>1 DEF Rows
    <2>3. OwnRow(k) /\ mem' = k
      BY <1>1, <1>3, <2>2 DEF OwnRow
    <2> HIDE DEF k
    <2> QED
      BY <1>4, <2>3 DEF OwnRow
  <1>7. row'[Now] = n /\ row'[Old] = row[Old]
    BY <1>1, <1>5 DEF RowsOwn, Trades, Old, Now
  <1>8. OwnRow(row[Now])'
    BY <1>4, <1>6, <1>7 DEF OwnRow
  <1>9. row' \in [Trades -> Rows']
    <2>1. row[Old] \in Rows' /\ n \in Rows'
      BY <1>1, <1>4, <1>6, <1>7 DEF RowsOwn, OldRow
    <2>2. row' = [t \in Trades |-> IF t = Now THEN n ELSE row[t]]
      BY <1>1, <1>5 DEF RowsOwn
    <2> QED
      BY <2>1, <2>2 DEF Trades
  <1>10. RowsOwn'
    BY <1>1, <1>4, <1>7, <1>8, <1>9 DEF RowsOwn
  <1> QED
    BY <1>4, <1>6, <1>7, <1>10, <1>m DEF Kept, EvidenceInv, ClosesWhole

LEMMA FeedsKeep ==
    ASSUME EvidenceInv, Logs \/ Prices \/ WindowPasses
    PROVE  Kept
  <1>1. BookShape /\ CountersTyped /\ RowsOwn /\ LedgerWhole /\ ActorsOwn
    BY DEF EvidenceInv
  <1>2. Len(book) \in Nat
    BY <1>1, BookFills
  <1>3. UNCHANGED <<book, today, row, mem, ledger, late, actor>> /\ OwnRow(mem)'
    BY DEF Logs, Prices, WindowPasses, EvidenceInv, OwnRow, Rows, Index
  <1>4. CountersTyped'
    <2>1. logged' \in Places /\ priced' \in Places
      BY <1>1, <1>2 DEF CountersTyped, Places, Logs, Prices, WindowPasses
    <2>2. elapsed' = elapsed \/ elapsed' = TRUE
      BY DEF Logs, Prices, WindowPasses
    <2>3. elapsed' \in BOOLEAN
      BY <1>1, <2>2 DEF CountersTyped
    <2>4. today' \in {0, 3} /\ late' \in BOOLEAN
      BY <1>1, <1>3 DEF CountersTyped
    <2>5. Places' = Places
      BY <1>3 DEF Places
    <2> QED
      BY <2>1, <2>3, <2>4, <2>5 DEF CountersTyped
  <1>5. ActorsOwn'
    <2>1. ActorState' = ActorState
      BY <1>3 DEF ActorState, Places, Rows, Index
    <2>2. (\A a \in Actor : OwnRow(actor[a].copy))'
      BY <1>1, <1>3 DEF ActorsOwn, OwnRow, Rows, Index
    <2> QED
      BY <1>1, <1>3, <2>1, <2>2 DEF ActorsOwn
  <1> QED
    BY <1>1, <1>3, <1>4, <1>5, RestStays DEF Kept, EvidenceInv, ClosesWhole

LEMMA NextKeeps ==
    ASSUME EvidenceInv, [Next]_vars
    PROVE  Kept
  <1>1. CASE Closes \/ ClosesByHand
    BY <1>1, ClosesKeeps, ByHandKeeps
  <1>2. CASE TimePasses
    BY <1>2, FeedsKeep DEF TimePasses
  <1>3. "worker" \in Actor /\ "socket" \in Actor
    BY DEF Actor
  <1>4. CASE WorkerStep
    BY <1>3, <1>4, ReadersKeep, SettlesKeeps, PublishesKeeps, SyncWritesKeeps,
       RepairWritesKeeps, HandlesKeeps DEF WorkerStep, ReconcileGoesOn
  <1>5. CASE ReconcileReads("socket") \/ SocketGoesOn
    BY <1>3, <1>5, ReadersKeep, SettlesKeeps, PublishesKeeps, SyncWritesKeeps
    DEF SocketGoesOn, ReconcileGoesOn
  <1>6. CASE UNCHANGED vars
    <2>1. ActorsOwn'
      BY <1>6 DEF EvidenceInv, ActorsOwn, ActorState, Pcs, Places, OwnRow, Rows, Index, vars
    <2> QED
      BY <1>6, <2>1, ActorOnlyKeeps DEF vars
  <1> QED
    BY <1>1, <1>2, <1>4, <1>5, <1>6 DEF Next

-----------------------------------------------------------------------------
(* The theorems.                                                           *)

LEMMA InvHolds == Spec => []EvidenceInv
  <1>1. EvidenceInv /\ [Next]_vars => EvidenceInv'
    BY NextKeeps DEF Kept
  <1> QED
    BY InitHolds, <1>1, PTL DEF Spec

\* Every variable keeps its type, and the exchange never closes more of the
\* open trade than was entered: its position stays within 0 and the entry.
THEOREM EvidenceTypeCorrect == Spec => []TypeOK
  BY InvHolds, InvImpliesTypeOK, PTL

\* The profit and the record keys of a journal row come from fills of its own
\* trade, whichever of reconciliation, partial sync, repair and backfill wrote
\* them from however old a copy, and every row the backfill creates is all of
\* one trade: records of the trade before on the same symbol, which the day's
\* log may or may not contain, never get into the row of the open one.
THEOREM EvidenceStaysOwn == Spec => []EvidenceIsOwn
  BY InvHolds, InvImpliesOwn, PTL

\* close_fill_sync and the backfill close a row on exchange evidence only when
\* the closes counted are the whole of what was entered.
THEOREM ClosesAreWhole == Spec => CloseIsWhole
  <1>1. EvidenceInv /\ [Next]_vars =>
          [row[Now].status # "closed" /\ row'[Now].status = "closed"
             /\ ~row'[Now].estimate
               => LotsIn({i \in row'[Now].counts : ~book[i].open}) = Lots]_vars
    BY NextKeeps DEF Kept, ClosesWhole
  <1> QED
    BY InvHolds, <1>1, PTL DEF Spec, CloseIsWhole
=============================================================================

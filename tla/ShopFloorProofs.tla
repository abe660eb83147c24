--------------------------- MODULE ShopFloorProofs ---------------------------
(***************************************************************************)
(* The history of every variant explains its stock, stock below zero comes *)
(* of a counter sale made on an old reading, and a sale or a row of a      *)
(* sheet is made twice only after a lost answer.                           *)
(***************************************************************************)
EXTENDS ShopFloor, FiniteLaws, SequenceTheorems

-----------------------------------------------------------------------------
(* What the rows and the requests hold.                                    *)

Counts == [Variants -> Int]
EventType == [variant : Variants, by : {"web", "cancel", "staff", "counter"},
              delta : Int, stockBefore : Int, stockAfter : Int]
OrderType == [number : Nat, source : {"web", "pos"}, basket : [Variants -> Nat],
              visit : {<< >>} \cup (Tills \X Nat), cancelled : BOOLEAN]
SalePhases == {"asked", "checked", "numbered", "committed", "billed", "refused", "answerLost"}
SaleRecord ==
  [phase : SalePhases, basket : [Variants -> Nat], visit : Tills \X Nat,
   before : Counts, number : Nat]
SaleType == {NoSale} \cup SaleRecord
AdjustmentPhases == {"sent", "read", "applied", "done", "refused", "answerLost"}
AdjustmentRecord ==
  [phase : AdjustmentPhases, variant : Variants, delta : Int, before : Int]
AdjustmentType == {NoAdjustment} \cup AdjustmentRecord
SheetType ==
  [step : {"upload", "preview", "importing", "done"}, todo : SUBSET Rows,
   call : {0} \cup Adjustments, applied : SUBSET Rows, failed : SUBSET Rows,
   uploads : Nat, sent : SUBSET (Adjustments \X Rows)]

ShelfTypeOK ==
  /\ stock \in Counts
  /\ ledger \in Seq(EventType)
  /\ book \in Seq(OrderType)
  /\ sequence \in Nat
  /\ sale \in [Tills -> SaleType]
  /\ adjustment \in [Adjustments -> AdjustmentType]

FloorTypeOK ==
  /\ basket \in [Tills -> [Variants -> Nat]]
  /\ visit \in [Tills -> Nat]
  /\ screen \in [Tills -> {"cart", "customer", "qr", "success"}]
  /\ page \in Counts /\ optimistic \in Counts
  /\ sheet \in SheetType
  /\ sheet.call # 0 => sheet.todo # {}

FloorTypes == ShelfTypeOK /\ FloorTypeOK

-----------------------------------------------------------------------------
(* Replay is a fold from the left: one event after the other.              *)

\* Counts after an event are counts.
LEMMA ReplayedType ==
  ASSUME NEW counts \in Counts, NEW e \in EventType
  PROVE  Replayed(counts, e) \in Counts
PROOF
  BY DEF Replayed, Counts, EventType

\* The largest number of a set that contains its upper bound.
LEMMA MaxIsTop ==
  ASSUME NEW k \in Int, NEW T \in SUBSET Int, k \in T, \A x \in T : x <= k
  PROVE  Max(T) = k
PROOF
<1>1. \A x \in T : (\A y \in T : x >= y) => x = k
  OBVIOUS
<1>2. \A y \in T : k >= y
  OBVIOUS
<1>. QED
  BY <1>1, <1>2 DEF Max

\* G takes every set of places of s through the events there, the last place last.
Folding(G, s, n) ==
  G = [T \in SUBSET (1..n) |->
         IF T = {} THEN InitialStock ELSE Replayed(G[T \ {Max(T)}], s[Max(T)])]

\* There is such a function for every number of places.
LEMMA FoldingExists ==
  ASSUME NEW s, NEW n \in Nat
  PROVE  \E G : Folding(G, s, n)
PROOF
<1>. DEFINE Good == {k \in 0..n : \E G : Folding(G, s, k)}
<1>1. 0 \in Good
  <2>. DEFINE G == [T \in SUBSET (1..0) |-> InitialStock]
  <2>1. 1..0 = {}
    OBVIOUS
  <2>2. Folding(G, s, 0)
    BY <2>1 DEF Folding
  <2>. QED
    BY <2>2
<1>2. ASSUME NEW i \in 1..n, i - 1 \in Good PROVE i \in Good
  <2>1. PICK G : Folding(G, s, i - 1)
    BY <1>2
  <2>. DEFINE H == [T \in SUBSET (1..i) |->
                      IF i \in T THEN Replayed(G[T \ {i}], s[i]) ELSE G[T]]
  <2>2. \A T \in SUBSET (1..i) : T \ {i} \in SUBSET (1..i - 1)
    OBVIOUS
  <2>3. ASSUME NEW T \in SUBSET (1..i)
        PROVE  H[T] = IF T = {} THEN InitialStock
                      ELSE Replayed(H[T \ {Max(T)}], s[Max(T)])
    <3>1. CASE i \in T
      <4>1. Max(T) = i
        BY <3>1, MaxIsTop
      <4>2. T \ {i} \in SUBSET (1..i) /\ i \notin T \ {i}
        OBVIOUS
      <4>3. H[T \ {i}] = G[T \ {i}]
        BY <4>2
      <4>. QED
        BY <3>1, <4>1, <4>3
    <3>2. CASE i \notin T
      <4>1. T \in SUBSET (1..i - 1) /\ H[T] = G[T]
        BY <3>2
      <4>2. CASE T = {}
        BY <2>1, <4>1, <4>2 DEF Folding
      <4>3. CASE T # {}
        <5>. DEFINE m == Max(T)
        <5>1. G[T] = Replayed(G[T \ {m}], s[m])
          BY <2>1, <4>1, <4>3 DEF Folding
        <5>2. T \ {m} \in SUBSET (1..i) /\ i \notin T \ {m}
          BY <3>2
        <5>3. H[T \ {m}] = G[T \ {m}]
          BY <5>2
        <5>. QED
          BY <4>1, <4>3, <5>1, <5>3
      <4>. QED
        BY <4>2, <4>3
    <3>. QED
      BY <3>1, <3>2
  <2>4. Folding(H, s, i)
    <3>1. H = [T \in SUBSET (1..i) |-> H[T]]
      OBVIOUS
    <3>. HIDE DEF H
    <3>. QED
      BY <2>3, <3>1 DEF Folding
  <2>. QED
    BY <2>4
<1>3. Good = 0..n
  <2>. HIDE DEF Good
  <2>1. Good \in SUBSET (0..n)
    BY DEF Good
  <2>. QED
    BY <1>1, <1>2, <2>1, Stepwise
<1>. QED
  BY <1>3

\* F holds the counts after each of the first n events of s.
Runs(F, s, n) ==
  /\ F \in [0..n -> Counts]
  /\ F[0] = InitialStock
  /\ \A i \in 1..n : F[i] = Replayed(F[i - 1], s[i])

\* Replay is the end of such a run.
LEMMA ReplayRuns ==
  ASSUME ShelfAssumption, NEW s \in Seq(EventType)
  PROVE  \E F : Runs(F, s, Len(s)) /\ Replay(s) = F[Len(s)]
PROOF
<1>. DEFINE n == Len(s)
            Step(I) == [T \in SUBSET (1..n) |->
               IF T = {} THEN InitialStock ELSE Replayed(I[T \ {Max(T)}], s[Max(T)])]
            fold == CHOOSE I : I = Step(I)
            F == [k \in 0..n |-> fold[1..k]]
<1>1. n \in Nat /\ DOMAIN s = 1..n
  BY LenProperties
<1>2. PICK G : Folding(G, s, n)
  BY <1>1, FoldingExists
<1>3. G = Step(G)
  BY <1>2 DEF Folding
<1>4. fold = Step(fold)
  <2>. HIDE DEF Step
  <2>. QED
    BY <1>3
<1>5. Replay(s) = fold[1..n]
  BY <1>1 DEF Replay, FoldLeft, MapThenFoldSet
<1>6. fold[1..0] = InitialStock
  <2>1. 1..0 = {} /\ {} \in SUBSET (1..n)
    OBVIOUS
  <2>. HIDE DEF fold
  <2>. QED
    BY <1>4, <2>1
<1>7. ASSUME NEW i \in 1..n PROVE fold[1..i] = Replayed(fold[1..i - 1], s[i])
  <2>1. 1..i \in SUBSET (1..n) /\ 1..i # {} /\ (1..i) \ {i} = 1..i - 1
    BY <1>1
  <2>2. Max(1..i) = i
    <3>1. 1..i \in SUBSET Int /\ i \in 1..i /\ (\A x \in 1..i : x <= i) /\ i \in Int
      BY <1>1
    <3>. QED
      BY <3>1, MaxIsTop
  <2>. HIDE DEF fold
  <2>. QED
    BY <1>4, <2>1, <2>2
<1>8. \A k \in 0..n : fold[1..k] \in Counts
  <2>. DEFINE Good == {k \in 0..n : fold[1..k] \in Counts}
  <2>1. 0 \in Good
    <3>1. InitialStock \in Counts /\ 0 \in 0..n
      BY <1>1 DEF ShelfAssumption, Counts
    <3>. HIDE DEF fold
    <3>. QED
      BY <1>6, <3>1
  <2>2. ASSUME NEW i \in 1..n, i - 1 \in Good PROVE i \in Good
    <3>1. s[i] \in EventType
      BY ElementOfSeq
    <3>. HIDE DEF fold
    <3>. QED
      BY <1>1, <1>7, <2>2, <3>1, ReplayedType
  <2>3. Good = 0..n
    <3>1. Good \in SUBSET (0..n)
      OBVIOUS
    <3>. HIDE DEF Good
    <3>. QED
      BY <1>1, <2>1, <2>2, <3>1, Stepwise
  <2>. QED
    BY <2>3
<1>9. Runs(F, s, n)
  <2>. HIDE DEF fold
  <2>1. F \in [0..n -> Counts]
    BY <1>8
  <2>2. F[0] = InitialStock
    BY <1>1, <1>6
  <2>3. ASSUME NEW i \in 1..n PROVE F[i] = Replayed(F[i - 1], s[i])
    BY <1>1, <1>7
  <2>. HIDE DEF F
  <2>. QED
    BY <2>1, <2>2, <2>3 DEF Runs
<1>10. F[n] = fold[1..n]
  BY <1>1
<1>. HIDE DEF F, fold
<1>. QED
  BY <1>5, <1>9, <1>10

\* Runs over the same events agree.
LEMMA RunsAgree ==
  ASSUME NEW n \in Nat, NEW F, NEW s, Runs(F, s, n), NEW m \in Nat, NEW G, NEW t,
         Runs(G, t, m), NEW k \in 0..n, k <= m, \A i \in 1..k : s[i] = t[i]
  PROVE  F[k] = G[k]
PROOF
<1>. DEFINE Good == {i \in 0..k : F[i] = G[i]}
<1>1. 0 \in Good
  BY DEF Runs
<1>2. ASSUME NEW i \in 1..k, i - 1 \in Good PROVE i \in Good
  <2>1. F[i] = Replayed(F[i - 1], s[i]) /\ G[i] = Replayed(G[i - 1], t[i])
    BY DEF Runs
  <2>2. F[i - 1] = G[i - 1] /\ s[i] = t[i]
    BY <1>2
  <2>. QED
    BY <2>1, <2>2
<1>3. Good = 0..k
  <2>1. Good \in SUBSET (0..k)
    OBVIOUS
  <2>. HIDE DEF Good
  <2>. QED
    BY <1>1, <1>2, <2>1, Stepwise
<1>. QED
  BY <1>3

\* Before anything happened the counts are the initial ones.
LEMMA ReplayEmpty ==
  ASSUME ShelfAssumption
  PROVE  Replay(<< >>) = InitialStock
PROOF
<1>1. << >> \in Seq(EventType) /\ Len(<< >>) = 0
  BY EmptySeq
<1>. QED
  BY <1>1, ReplayRuns DEF Runs

\* One more event changes what the earlier ones gave.
LEMMA ReplayAppend ==
  ASSUME ShelfAssumption, NEW s \in Seq(EventType), NEW e \in EventType
  PROVE  Replay(Append(s, e)) = Replayed(Replay(s), e)
PROOF
<1>. DEFINE t == Append(s, e)
            n == Len(s)
<1>1. n \in Nat /\ t \in Seq(EventType) /\ Len(t) = n + 1 /\ t[n + 1] = e
      /\ \A i \in 1..n : t[i] = s[i]
  BY LenProperties, AppendProperties
<1>2. PICK F : Runs(F, s, n) /\ Replay(s) = F[n]
  BY ReplayRuns
<1>3. PICK G : Runs(G, t, n + 1) /\ Replay(t) = G[n + 1]
  BY <1>1, ReplayRuns
<1>4. F[n] = G[n]
  <2>1. n \in 0..n /\ n <= n + 1 /\ n + 1 \in Nat /\ \A i \in 1..n : s[i] = t[i]
    BY <1>1
  <2>. HIDE DEF t, n
  <2>. QED
    BY <1>1, <1>2, <1>3, <2>1, RunsAgree
<1>5. G[n + 1] = Replayed(G[n], e)
  BY <1>1, <1>3 DEF Runs
<1>. QED
  BY <1>2, <1>3, <1>4, <1>5

-----------------------------------------------------------------------------
(* The events of a basket.                                                 *)

\* A finite set in a sequence: every element, and each of them once.
LEMMA Listed ==
  ASSUME NEW S, IsFiniteSet(S)
  PROVE  LET line == SetToSeq(S) IN
         /\ line \in Seq(S)
         /\ \A i, j \in 1..Len(line) : line[i] = line[j] => i = j
         /\ \A x \in S : \E i \in 1..Len(line) : line[i] = x
PROOF
<1>. DEFINE n == Cardinality(S)
            line == SetToSeq(S)
<1>1. n \in Nat /\ ExistsBijection(1..n, S)
  BY FS_CardinalityType
<1>2. \E f \in [1..n -> S] : IsInjective(f)
  BY <1>1 DEF ExistsBijection, Bijection, Injection
<1>3. line \in [1..n -> S] /\ IsInjective(line)
  BY <1>2 DEF SetToSeq
<1>4. line \in Surjection(1..n, S)
  <2>1. line \in Injection(1..n, S)
    BY <1>3 DEF Injection
  <2>2. Cardinality(1..n) = n
    BY <1>1, FS_Interval
  <2>. HIDE DEF line
  <2>. QED
    BY <1>1, <2>1, <2>2, FS_Injection
<1>5. line \in Seq(S) /\ Len(line) = n
  <2>. HIDE DEF line, n
  <2>. QED
    BY <1>1, <1>3
<1>6. \A x \in S : \E i \in 1..n : line[i] = x
  <2>. HIDE DEF line, n
  <2>. QED
    BY <1>4 DEF Surjection
<1>7. \A i, j \in 1..n : line[i] = line[j] => i = j
  <2>. HIDE DEF line, n
  <2>. QED
    BY <1>3 DEF IsInjective
<1>. HIDE DEF line, n
<1>. QED
  BY <1>5, <1>6, <1>7 DEF line

\* Events of the variants of a basket, each once, that change each of them by
\* what the basket holds of it.
EventsFor(e, wanted, sign, by, before) ==
  /\ e \in Seq(EventType)
  /\ \A i \in 1..Len(e) :
       /\ e[i].variant \in InBasket(wanted)
       /\ e[i].by = by
       /\ e[i].delta = sign * wanted[e[i].variant]
       /\ e[i].stockBefore = before[e[i].variant]
  /\ \A i, j \in 1..Len(e) : e[i].variant = e[j].variant => i = j
  /\ \A v \in InBasket(wanted) : \E i \in 1..Len(e) : e[i].variant = v

\* Such are the events a basket leaves.
LEMMA EventsOf ==
  ASSUME ShelfAssumption, NEW wanted \in [Variants -> Nat], NEW sign \in {-1, 1},
         NEW by \in {"web", "cancel", "counter"}, NEW before \in Counts,
         NEW e, e = Events(wanted, sign, by, before)
  PROVE  EventsFor(e, wanted, sign, by, before)
PROOF
<1>. DEFINE line == SetToSeq(InBasket(wanted))
            n == Len(line)
            change(v) == sign * wanted[v]
<1>1. IsFiniteSet(InBasket(wanted)) /\ InBasket(wanted) \subseteq Variants
  BY FS_Subset DEF ShelfAssumption, InBasket
<1>2. /\ line \in Seq(InBasket(wanted))
      /\ \A i, j \in 1..n : line[i] = line[j] => i = j
      /\ \A v \in InBasket(wanted) : \E i \in 1..n : line[i] = v
  BY <1>1, Listed
<1>3. n \in Nat /\ \A i \in 1..n : line[i] \in InBasket(wanted) /\ line[i] \in Variants
  <2>. HIDE DEF line
  <2>. QED
    BY <1>1, <1>2, LenProperties, ElementOfSeq
<1>4. \A v \in Variants : change(v) \in Int /\ before[v] \in Int
  BY DEF Counts
<1>5. e = [i \in 1..n |-> Event(line[i], by, change(line[i]), before[line[i]])]
  BY DEF Events
<1>. HIDE DEF line, n, change
<1>6. ASSUME NEW i \in 1..n
      PROVE  e[i] \in EventType /\ e[i].variant = line[i] /\ e[i].by = by
             /\ e[i].delta = change(line[i]) /\ e[i].stockBefore = before[line[i]]
  BY <1>3, <1>4, <1>5 DEF Event, EventType
<1>7. e \in Seq(EventType) /\ Len(e) = n
  <2>1. e \in [1..n -> EventType]
    BY <1>5, <1>6
  <2>. QED
    BY <1>3, <2>1
<1>8. \A i \in 1..n : e[i].delta = sign * wanted[e[i].variant]
  BY <1>6 DEF change
<1>. QED
  <2>1. \A i \in 1..n : e[i].variant \in InBasket(wanted) /\ e[i].by = by
                       /\ e[i].stockBefore = before[e[i].variant]
    BY <1>3, <1>6
  <2>2. \A i, j \in 1..n : e[i].variant = e[j].variant => i = j
    BY <1>2, <1>6
  <2>3. \A v \in InBasket(wanted) : \E i \in 1..n : e[i].variant = v
    BY <1>2, <1>6
  <2>. QED
    BY <1>7, <1>8, <2>1, <2>2, <2>3 DEF EventsFor

\* Counts with what a basket holds taken away or put back.
Moved(counts, wanted, sign) == [v \in Variants |-> counts[v] + sign * wanted[v]]

\* Events of a basket add or take what it holds, once for each variant.
LEMMA ReplayEvents ==
  ASSUME ShelfAssumption, NEW s \in Seq(EventType), NEW wanted \in [Variants -> Nat],
         NEW sign \in {-1, 1}, NEW by \in {"web", "cancel", "counter"}, NEW before \in Counts
  PROVE  /\ s \o Events(wanted, sign, by, before) \in Seq(EventType)
         /\ Replay(s) \in Counts
         /\ Replay(s \o Events(wanted, sign, by, before)) = Moved(Replay(s), wanted, sign)
         /\ \A v \in InBasket(wanted) :
              \E i \in 1..Len(Events(wanted, sign, by, before)) :
                /\ Events(wanted, sign, by, before)[i].variant = v
                /\ Replay(SubSeq(s \o Events(wanted, sign, by, before), 1, Len(s) + i - 1))[v]
                     = Replay(s)[v]
PROOF
<1>. DEFINE e == Events(wanted, sign, by, before)
            n == Len(s)
            m == Len(e)
            t == s \o e
            change(v) == sign * wanted[v]
            Done(i) == {e[j].variant : j \in 1..i}
<1>1. /\ e \in Seq(EventType)
      /\ \A i \in 1..m : /\ e[i].variant \in InBasket(wanted) /\ e[i].by = by
                         /\ e[i].delta = sign * wanted[e[i].variant]
      /\ \A i, j \in 1..m : e[i].variant = e[j].variant => i = j
      /\ \A v \in InBasket(wanted) : \E i \in 1..m : e[i].variant = v
  <2>1. e = Events(wanted, sign, by, before)
    OBVIOUS
  <2>. HIDE DEF e
  <2>2. EventsFor(e, wanted, sign, by, before)
    BY <2>1, EventsOf
  <2>3. /\ e \in Seq(EventType)
        /\ \A i \in 1..Len(e) : /\ e[i].variant \in InBasket(wanted) /\ e[i].by = by
                                /\ e[i].delta = sign * wanted[e[i].variant]
        /\ \A i, j \in 1..Len(e) : e[i].variant = e[j].variant => i = j
        /\ \A v \in InBasket(wanted) : \E i \in 1..Len(e) : e[i].variant = v
    BY <2>2, EventsOf DEF EventsFor
  <2>. QED
    BY <2>3
<1>2. n \in Nat /\ m \in Nat
  <2>. HIDE DEF e
  <2>. QED
    BY <1>1, LenProperties
<1>3. /\ t \in Seq(EventType) /\ Len(t) = n + m
      /\ \A i \in 1..n : t[i] = s[i]
      /\ \A i \in 1..m : t[n + i] = e[i]
  <2>. HIDE DEF e
  <2>1. /\ t \in Seq(EventType) /\ Len(t) = n + m
        /\ \A i \in 1..(n + m) : t[i] = IF i <= n THEN s[i] ELSE e[i - n]
    BY <1>1, ConcatProperties
  <2>. HIDE DEF t, n, m
  <2>2. \A i \in 1..m : n + i \in 1..(n + m) /\ ~(n + i <= n) /\ n + i - n = i
    BY <1>2
  <2>. QED
    BY <1>2, <2>1, <2>2
<1>4. PICK F : Runs(F, s, n) /\ Replay(s) = F[n]
  BY ReplayRuns
<1>. HIDE DEF e, n, m, t
<1>5. PICK G : Runs(G, t, n + m) /\ Replay(t) = G[n + m]
  BY <1>3, ReplayRuns
<1>6. G[n] = F[n]
  <2>1. n \in 0..n /\ n <= n + m /\ n + m \in Nat
    BY <1>2
  <2>. QED
    BY <1>2, <1>3, <1>4, <1>5, <2>1, RunsAgree
<1>7. F[n] \in Counts /\ \A i \in 0..m : G[n + i] \in Counts
  <2>1. n \in 0..n /\ \A i \in 0..m : n + i \in 0..(n + m)
    BY <1>2
  <2>. QED
    BY <1>4, <1>5, <2>1 DEF Runs
<1>8. \A v \in Variants : change(v) \in Int
  OBVIOUS
<1>9. \A i \in 0..m : \A v \in Variants :
        G[n + i][v] = IF v \in Done(i) THEN F[n][v] + change(v) ELSE F[n][v]
  <2>. HIDE DEF change
  <2>. DEFINE Good == {i \in 0..m : \A v \in Variants :
                G[n + i][v] = IF v \in Done(i) THEN F[n][v] + change(v) ELSE F[n][v]}
  <2>1. 0 \in Good
    BY <1>2, <1>6
  <2>2. ASSUME NEW i \in 1..m, i - 1 \in Good PROVE i \in Good
    <3>1. G[n + i] = Replayed(G[n + i - 1], e[i])
      <4>1. n + i \in 1..(n + m)
        BY <1>2
      <4>2. \A q \in 1..(n + m) : G[q] = Replayed(G[q - 1], t[q])
        BY <1>5 DEF Runs
      <4>3. t[n + i] = e[i]
        BY <1>3
      <4>. QED
        BY <1>2, <4>1, <4>2, <4>3
    <3>2. e[i] \in EventType /\ e[i].by # "staff" /\ e[i].delta = change(e[i].variant)
          /\ e[i].variant \in Variants
      BY <1>1, ElementOfSeq DEF m, InBasket, change
    <3>3. G[n + i - 1] \in Counts
      <4>1. i - 1 \in 0..m /\ n + (i - 1) = n + i - 1
        BY <1>2
      <4>. QED
        BY <1>7, <4>1
    <3>4. \A v \in Variants :
            G[n + i][v] = IF v = e[i].variant THEN G[n + i - 1][v] + change(v)
                          ELSE G[n + i - 1][v]
      BY <3>1, <3>2, <3>3 DEF Replayed, Counts
    <3>5. e[i].variant \notin Done(i - 1) /\ Done(i) = Done(i - 1) \cup {e[i].variant}
      <4>1. 1..i = (1..(i - 1)) \cup {i} /\ (1..i) \subseteq 1..m /\ i \notin 1..(i - 1)
        BY <1>2
      <4>2. ASSUME NEW j \in 1..(i - 1), e[j].variant = e[i].variant PROVE FALSE
        BY <1>1, <4>1, <4>2
      <4>. QED
        BY <4>1, <4>2
    <3>6. \A v \in Variants : G[n + i - 1][v] =
            IF v \in Done(i - 1) THEN F[n][v] + change(v) ELSE F[n][v]
      <4>1. n + (i - 1) = n + i - 1
        BY <1>2
      <4>. QED
        BY <2>2, <4>1
    <3>7. i \in 0..m
      OBVIOUS
    <3>. HIDE DEF Done
    <3>. QED
      BY <3>4, <3>5, <3>6, <3>7
  <2>3. Good = 0..m
    <3>1. Good \in SUBSET (0..m)
      OBVIOUS
    <3>. HIDE DEF Good
    <3>. QED
      BY <1>2, <2>1, <2>2, <3>1, Stepwise
  <2>. QED
    BY <2>3
<1>10. Replay(t) = [v \in Variants |-> Replay(s)[v] + change(v)]
  <2>1. \A v \in Variants : v \notin Done(m) => change(v) = 0
    <3>1. ASSUME NEW v \in Variants, v \notin Done(m) PROVE wanted[v] = 0
      <4>1. v \notin InBasket(wanted)
        BY <1>1, <3>1
      <4>2. wanted[v] \in Nat
        OBVIOUS
      <4>. QED
        BY <4>1, <4>2 DEF InBasket
    <3>2. sign = 1 \/ sign = -1
      OBVIOUS
    <3>. HIDE DEF Done
    <3>. QED
      BY <3>1, <3>2
  <2>2. \A v \in Variants : G[n + m][v] = F[n][v] + change(v)
    <3>1. m \in 0..m
      BY <1>2
    <3>2. \A v \in Variants : F[n][v] \in Int
      BY <1>7 DEF Counts
    <3>. HIDE DEF Done, change
    <3>. QED
      BY <1>9, <2>1, <3>1, <3>2
  <2>3. G[n + m] \in Counts
    BY <1>2, <1>7
  <2>. HIDE DEF change
  <2>. QED
    BY <1>4, <1>5, <2>2, <2>3 DEF Counts
<1>11. ASSUME NEW v \in InBasket(wanted)
       PROVE  \E i \in 1..m : e[i].variant = v
                /\ Replay(SubSeq(t, 1, n + i - 1))[v] = Replay(s)[v]
  <2>1. PICK i \in 1..m : e[i].variant = v
    BY <1>1
  <2>. DEFINE k == n + i - 1
              u == SubSeq(t, 1, k)
  <2>2. k \in 0..(n + m) /\ k = n + (i - 1) /\ i - 1 \in 0..m
    BY <1>2
  <2>3. u \in Seq(EventType) /\ Len(u) = k /\ \A j \in 1..k : u[j] = t[j]
    <3>1. \A j \in 1..k : t[j] \in EventType
      <4>1. \A j \in 1..k : j \in 1..Len(t)
        BY <1>2, <1>3, <2>2
      <4>. QED
        BY <1>3, <4>1, ElementOfSeq
    <3>2. /\ u \in Seq(EventType)
          /\ Len(u) = IF 1 <= k THEN k - 1 + 1 ELSE 0
          /\ \A j \in 1..(k - 1 + 1) : u[j] = t[1 + j - 1]
      BY <1>2, <2>2, <3>1, SubSeqProperties
    <3>. HIDE DEF u, k
    <3>. QED
      BY <1>2, <2>2, <3>2
  <2>. HIDE DEF u, k
  <2>4. PICK H : Runs(H, u, k) /\ Replay(u) = H[k]
    BY <2>3, ReplayRuns
  <2>5. H[k] = G[k]
    <3>1. k \in Nat /\ k \in 0..k /\ k <= n + m /\ n + m \in Nat
      BY <1>2, <2>2
    <3>. QED
      BY <1>5, <2>3, <2>4, <3>1, RunsAgree
  <2>6. v \notin Done(i - 1)
    <3>1. (1..(i - 1)) \subseteq 1..m /\ i \notin 1..(i - 1)
      BY <1>2
    <3>. QED
      BY <1>1, <2>1, <3>1
  <2>7. v \in Variants
    BY DEF InBasket
  <2>8. G[k][v] = F[n][v]
    BY <1>9, <2>2, <2>6, <2>7
  <2>. QED
    BY <1>4, <2>1, <2>4, <2>5, <2>8 DEF u, k
<1>. QED
  BY <1>3, <1>4, <1>7, <1>10, <1>11 DEF e, n, m, t, Moved

-----------------------------------------------------------------------------
(* Types.                                                                  *)

\* A set of numbers that is not empty has a least one.
LEMMA MinIsIn ==
  ASSUME NEW S \in SUBSET Nat, S # {}
  PROVE  Min(S) \in S /\ \A x \in S : Min(S) <= x
PROOF
<1>1. PICK n \in S : TRUE
  OBVIOUS
<1>2. S \cap (0..n) \in SUBSET (0..n) /\ n \in S \cap (0..n) /\ n \in Nat
  OBVIOUS
<1>3. PICK x \in S \cap (0..n) : \A y \in S \cap (0..n) : x <= y
  BY <1>2, SmallestNumber
<1>4. \A y \in S : x <= y
  BY <1>3
<1>. QED
  BY <1>4 DEF Min

\* Adjustments are named by the numbers from one on.
LEMMA NamesAreNumbers ==
  ASSUME FloorAssumption, NEW a \in Adjustments
  PROVE  a \in Nat /\ a # 0
PROOF
<1>1. PICK n : n = Cardinality(Adjustments)
  OBVIOUS
<1>2. a \in 1..n
  BY <1>1 DEF FloorAssumption
<1>. QED
  BY <1>2

\* The rows of a sheet have an order, so there is a next one to send.
LEMMA NextRowIsToDo ==
  ASSUME FloorAssumption, sheet \in SheetType, sheet.todo # {}
  PROVE  NextRow \in sheet.todo /\ NextRow \in Rows
PROOF
  BY MinIsIn DEF FloorAssumption, SheetType, NextRow

\* A request that moves on keeps its shape.
LEMMA SaleMoves ==
  ASSUME NEW t \in Tills, sale \in [Tills -> SaleType], sale[t].phase \in SalePhases
  PROVE  /\ sale[t] \in SaleRecord
         /\ sale[t].basket \in [Variants -> Nat] /\ sale[t].visit \in Tills \X Nat
         /\ sale[t].before \in Counts /\ sale[t].number \in Nat
         /\ \A p \in SalePhases : [sale EXCEPT ![t].phase = p] \in [Tills -> SaleType]
PROOF
<1>1. sale[t] \in SaleRecord
  BY DEF SaleType, NoSale, SalePhases
<1>2. ASSUME NEW p \in SalePhases PROVE [sale EXCEPT ![t].phase = p] \in [Tills -> SaleType]
  <2>1. [sale[t] EXCEPT !.phase = p] \in SaleType
    BY <1>1 DEF SaleType, SaleRecord
  <2>. QED
    BY <2>1
<1>. QED
  BY <1>1, <1>2 DEF SaleRecord

\* So does an adjustment.
LEMMA AdjustmentMoves ==
  ASSUME NEW a \in Adjustments, adjustment \in [Adjustments -> AdjustmentType],
         adjustment[a].phase \in AdjustmentPhases
  PROVE  /\ adjustment[a] \in AdjustmentRecord
         /\ adjustment[a].variant \in Variants /\ adjustment[a].delta \in Int
         /\ adjustment[a].before \in Int
         /\ \A p \in AdjustmentPhases :
              [adjustment EXCEPT ![a].phase = p] \in [Adjustments -> AdjustmentType]
PROOF
<1>1. adjustment[a] \in AdjustmentRecord
  BY DEF AdjustmentType, NoAdjustment, AdjustmentPhases
<1>2. ASSUME NEW p \in AdjustmentPhases
      PROVE  [adjustment EXCEPT ![a].phase = p] \in [Adjustments -> AdjustmentType]
  <2>1. [adjustment[a] EXCEPT !.phase = p] \in AdjustmentType
    BY <1>1 DEF AdjustmentType, AdjustmentRecord
  <2>. QED
    BY <2>1
<1>. QED
  BY <1>1, <1>2 DEF AdjustmentRecord

\* The shop opens with everything in its place.
LEMMA FloorTypesInit ==
  ASSUME ShelfAssumption, FloorAssumption, Init
  PROVE  FloorTypes
PROOF
<1>1. << >> \in Seq(EventType) /\ << >> \in Seq(OrderType)
  BY EmptySeq
<1>2. ShelfTypeOK
  BY <1>1 DEF Init, ShelfInit, ShelfTypeOK, ShelfAssumption, Counts, SaleType,
     AdjustmentType
<1>3. NoSheet \in SheetType /\ NoSheet.call = 0
  BY DEF NoSheet, SheetType
<1>. QED
  BY <1>2, <1>3 DEF FloorTypes, Init, FloorTypeOK, ShelfAssumption, Counts, Nothing

\* What the counter's and the adjustments' handlers do is of the right type.
LEMMA ServingTypes ==
  ASSUME ShelfAssumption, FloorTypes, Handlers
  PROVE  ShelfTypeOK'
PROOF
<1>. USE DEF FloorTypes, ShelfTypeOK, rows
<1>1. ASSUME NEW t \in Tills, CheckSale(t) PROVE ShelfTypeOK'
  <2>1. PICK p \in SalePhases : sale' = [sale EXCEPT ![t].phase = p, ![t].before = stock]
    BY <1>1 DEF CheckSale, SalePhases
  <2>2. sale[t] \in SaleRecord
    BY <1>1, SaleMoves DEF CheckSale, SalePhases
  <2>3. sale' = [sale EXCEPT ![t] = [sale[t] EXCEPT !.phase = p, !.before = stock]]
    BY <2>1
  <2>4. [sale[t] EXCEPT !.phase = p, !.before = stock] \in SaleType
    BY <2>2 DEF SaleType, SaleRecord
  <2>. QED
    BY <1>1, <2>3, <2>4 DEF CheckSale
<1>2. ASSUME NEW t \in Tills, TakeNumber(t) PROVE ShelfTypeOK'
  <2>1. NextOrderNumber \in Nat
    <3>1. CASE book = << >>
      BY <3>1 DEF NextOrderNumber
    <3>2. CASE book # << >>
      <4>1. Len(book) \in 1..Len(book)
        BY <3>2, EmptySeq
      <4>2. book[Len(book)] \in OrderType
        BY <4>1, ElementOfSeq
      <4>. QED
        BY <3>2, <4>2 DEF NextOrderNumber, Last, OrderType
    <3>. QED
      BY <3>1, <3>2
  <2>2. PICK n \in Nat : n = NextOrderNumber
    BY <2>1
  <2>3. sale' = [sale EXCEPT ![t] = [sale[t] EXCEPT !.phase = "numbered", !.number = n]]
    BY <1>2, <2>2 DEF TakeNumber
  <2>4. [sale[t] EXCEPT !.phase = "numbered", !.number = n] \in SaleType
    <3>1. sale[t] \in SaleRecord
      BY <1>2, SaleMoves DEF TakeNumber, SalePhases
    <3>. QED
      BY <3>1 DEF SaleType, SaleRecord, SalePhases
  <2>. QED
    BY <1>2, <2>3, <2>4 DEF TakeNumber
<1>3. ASSUME NEW t \in Tills, CommitSale(t) PROVE ShelfTypeOK'
  <2>1. /\ sale[t].basket \in [Variants -> Nat] /\ sale[t].visit \in Tills \X Nat
        /\ sale[t].before \in Counts /\ sale[t].number \in Nat
        /\ [sale EXCEPT ![t].phase = "committed"] \in [Tills -> SaleType]
    BY <1>3, SaleMoves DEF CommitSale, SalePhases
  <2>2. ledger' \in Seq(EventType)
    <3>1. ledger \o Events(sale[t].basket, -1, "counter", sale[t].before) \in Seq(EventType)
      BY <2>1, ReplayEvents
    <3>. QED
      BY <1>3, <3>1 DEF CommitSale
  <2>3. book' \in Seq(OrderType)
    <3>1. PICK o : o = [number |-> sale[t].number, source |-> "pos",
                        basket |-> sale[t].basket, visit |-> sale[t].visit,
                        cancelled |-> FALSE]
      OBVIOUS
    <3>2. o \in OrderType
      BY <2>1, <3>1 DEF OrderType
    <3>3. book' = Append(book, o)
      BY <1>3, <3>1 DEF CommitSale
    <3>. QED
      BY <3>2, <3>3, AppendProperties
  <2>4. stock' \in Counts
    BY <1>3, <2>1 DEF CommitSale, Taken, Counts
  <2>. QED
    BY <1>3, <2>1, <2>2, <2>3, <2>4 DEF CommitSale
<1>4. ASSUME NEW t \in Tills, SaleNumberTaken(t) PROVE ShelfTypeOK'
  BY <1>4, SaleMoves DEF SaleNumberTaken, SalePhases
<1>5. ASSUME NEW t \in Tills, SaveBill(t) PROVE ShelfTypeOK'
  BY <1>5, SaleMoves DEF SaveBill, SalePhases
<1>6. ASSUME NEW t \in Tills, SaleFails(t) PROVE ShelfTypeOK'
  <2>1. PICK p \in SalePhases : sale' = [sale EXCEPT ![t].phase = p]
    BY <1>6 DEF SaleFails, SalePhases
  <2>2. sale[t].phase \in SalePhases
    BY <1>6 DEF SaleFails, SalePhases
  <2>. QED
    BY <1>6, <2>1, <2>2, SaleMoves DEF SaleFails
<1>7. ASSUME NEW a \in Adjustments, ReadStock(a) PROVE ShelfTypeOK'
  <2>1. adjustment[a].variant \in Variants /\ adjustment[a] \in AdjustmentRecord
    BY <1>7, AdjustmentMoves DEF ReadStock, AdjustmentPhases
  <2>2. PICK n \in Int : n = stock[adjustment[a].variant]
    BY <2>1 DEF Counts
  <2>3. PICK p \in AdjustmentPhases :
          adjustment' = [adjustment EXCEPT ![a].phase = p, ![a].before = n]
    BY <1>7, <2>2 DEF ReadStock, AdjustmentPhases
  <2>4. adjustment' = [adjustment EXCEPT ![a] = [adjustment[a] EXCEPT !.phase = p, !.before = n]]
    BY <2>3
  <2>5. [adjustment[a] EXCEPT !.phase = p, !.before = n] \in AdjustmentType
    BY <2>1, <2>2 DEF AdjustmentType, AdjustmentRecord
  <2>. QED
    BY <1>7, <2>4, <2>5 DEF ReadStock
<1>8. ASSUME NEW a \in Adjustments, WriteStock(a) PROVE ShelfTypeOK'
  <2>1. /\ adjustment[a].variant \in Variants /\ adjustment[a].delta \in Int
        /\ adjustment[a].before \in Int
        /\ [adjustment EXCEPT ![a].phase = "applied"] \in [Adjustments -> AdjustmentType]
    BY <1>8, AdjustmentMoves DEF WriteStock, AdjustmentPhases
  <2>2. ledger' \in Seq(EventType)
    <3>1. PICK e : e = Event(adjustment[a].variant, "staff", adjustment[a].delta,
                             adjustment[a].before)
      OBVIOUS
    <3>2. e \in EventType
      BY <2>1, <3>1 DEF Event, EventType
    <3>3. ledger' = Append(ledger, e)
      BY <1>8, <3>1 DEF WriteStock
    <3>. QED
      BY <3>2, <3>3, AppendProperties
  <2>3. stock' \in Counts
    BY <1>8, <2>1 DEF WriteStock, Written, Counts
  <2>. QED
    BY <1>8, <2>1, <2>2, <2>3 DEF WriteStock
<1>9. ASSUME NEW a \in Adjustments, AdjustFails(a) PROVE ShelfTypeOK'
  <2>1. PICK p \in AdjustmentPhases : adjustment' = [adjustment EXCEPT ![a].phase = p]
    BY <1>9 DEF AdjustFails, AdjustmentPhases
  <2>2. adjustment[a].phase \in AdjustmentPhases
    BY <1>9 DEF AdjustFails, AdjustmentPhases
  <2>. QED
    BY <1>9, <2>1, <2>2, AdjustmentMoves DEF AdjustFails
<1>. QED
  BY <1>1, <1>2, <1>3, <1>4, <1>5, <1>6, <1>7, <1>8, <1>9
     DEF Handlers, ServesTill, ServesAdjustment

\* So is what the web checkout, cancellations and the catalogue do.
LEMMA OutsideTypes ==
  ASSUME ShelfAssumption, FloorTypes, Outside
  PROVE  ShelfTypeOK'
PROOF
<1>. USE DEF FloorTypes, ShelfTypeOK
<1>1. ASSUME NEW wanted \in [Variants -> 0..1], WebPlaces(wanted) PROVE ShelfTypeOK'
  <2>1. wanted \in [Variants -> Nat]
    OBVIOUS
  <2>2. ledger' \in Seq(EventType)
    <3>1. ledger \o Events(wanted, -1, "web", stock) \in Seq(EventType)
      BY <2>1, ReplayEvents
    <3>. QED
      BY <1>1, <3>1 DEF WebPlaces
  <2>3. book' \in Seq(OrderType)
    <3>1. PICK o : o = [number |-> sequence + 1, source |-> "web", basket |-> wanted,
                        visit |-> << >>, cancelled |-> FALSE]
      OBVIOUS
    <3>2. o \in OrderType
      BY <2>1, <3>1 DEF OrderType
    <3>3. book' = Append(book, o)
      BY <1>1, <3>1 DEF WebPlaces
    <3>. QED
      BY <3>2, <3>3, AppendProperties
  <2>4. stock' \in Counts
    BY <1>1, <2>1 DEF WebPlaces, Counts
  <2>. QED
    BY <1>1, <2>2, <2>3, <2>4 DEF WebPlaces
<1>2. ASSUME NEW i \in DOMAIN book, NEW restock \in BOOLEAN, Cancel(i, restock)
      PROVE  ShelfTypeOK'
  <2>1. i \in 1..Len(book) /\ book[i] \in OrderType
    BY LenProperties, ElementOfSeq
  <2>2. PICK back \in [Variants -> Nat] :
          /\ back = IF restock THEN book[i].basket ELSE [v \in Variants |-> 0]
          /\ ledger' = ledger \o Events(back, 1, "cancel", stock)
          /\ stock' = [v \in Variants |-> stock[v] + back[v]]
    <3>1. PICK back : back = IF restock THEN book[i].basket ELSE [v \in Variants |-> 0]
      OBVIOUS
    <3>2. back \in [Variants -> Nat]
      BY <2>1, <3>1 DEF OrderType
    <3>3. /\ ledger' = ledger \o Events(back, 1, "cancel", stock)
          /\ stock' = [v \in Variants |-> stock[v] + back[v]]
      BY <1>2, <3>1 DEF Cancel
    <3>. QED
      BY <3>1, <3>2, <3>3
  <2>3. ledger' \in Seq(EventType)
    BY <2>2, ReplayEvents
  <2>4. stock' \in Counts
    BY <2>2 DEF Counts
  <2>5. book' \in Seq(OrderType)
    <3>1. PICK o : o = [book[i] EXCEPT !.cancelled = TRUE]
      OBVIOUS
    <3>2. o \in OrderType
      BY <2>1, <3>1 DEF OrderType
    <3>3. book' = [book EXCEPT ![i] = o]
      BY <1>2, <3>1 DEF Cancel
    <3>. QED
      BY <2>1, <3>2, <3>3, ExceptSeq
  <2>. QED
    BY <1>2, <2>3, <2>4, <2>5 DEF Cancel
<1>3. ASSUME NEW v \in Variants, SoftDelete(v) PROVE ShelfTypeOK'
  BY <1>3 DEF SoftDelete
<1>. QED
  BY <1>1, <1>2, <1>3 DEF Outside

\* An adjustment asked for, and one whose answer arrives.
LEMMA AskedTypes ==
  ASSUME adjustment \in [Adjustments -> AdjustmentType], NEW a \in Adjustments,
         NEW v \in Variants, NEW delta \in Int, AskAdjust(a, v, delta)
  PROVE  adjustment' \in [Adjustments -> AdjustmentType]
PROOF
<1>1. [phase |-> "sent", variant |-> v, delta |-> delta, before |-> 0] \in AdjustmentType
  BY DEF AdjustmentType, AdjustmentRecord, AdjustmentPhases
<1>. QED
  BY <1>1 DEF AskAdjust

\* An answer changes the phase at most.
LEMMA AnsweredTypes ==
  ASSUME adjustment \in [Adjustments -> AdjustmentType], NEW a \in Adjustments,
         adjustment[a].phase \in AdjustmentPhases, Answered(a)
  PROVE  adjustment' \in [Adjustments -> AdjustmentType]
PROOF
<1>1. PICK p \in AdjustmentPhases : adjustment' = [adjustment EXCEPT ![a].phase = p]
  BY DEF Answered, AdjustmentPhases
<1>. QED
  BY <1>1, AdjustmentMoves

\* The till's people and screens.
LEMMA TillTypes ==
  ASSUME ShelfAssumption, FloorTypes, NEW t \in Tills, TillNext(t)
  PROVE  FloorTypes'
PROOF
<1>. USE DEF FloorTypes, FloorTypeOK, shelfVars, rows, pageVars, tillVars
<1>1. CASE Search(t)
  BY <1>1 DEF Search, ShelfTypeOK
<1>2. CASE handleProceed(t) \/ handleGenerateQr(t) \/ CloseCustomer(t) \/ BackFromQr(t)
  BY <1>2 DEF handleProceed, handleGenerateQr, CloseCustomer, BackFromQr, GoTo, ShelfTypeOK
<1>3. CASE handlePaymentReceived(t)
  <2>1. [phase |-> "asked", basket |-> basket[t], visit |-> <<t, visit[t]>>,
         before |-> [v \in Variants |-> 0], number |-> 0] \in SaleType
    BY DEF SaleType, SaleRecord, SalePhases, Counts
  <2>2. sale' \in [Tills -> SaleType]
    BY <1>3, <2>1 DEF handlePaymentReceived, AskSale, ShelfTypeOK
  <2>. QED
    BY <1>3, <2>2 DEF handlePaymentReceived, ShelfTypeOK
<1>4. CASE OrderCreated(t) \/ OrderNotCreated(t)
  <2>1. sale' \in [Tills -> SaleType]
    BY <1>4 DEF OrderCreated, OrderNotCreated, Close, ShelfTypeOK, SaleType
  <2>. QED
    BY <1>4, <2>1 DEF OrderCreated, OrderNotCreated, GoTo, ShelfTypeOK
<1>5. CASE handleNewSale(t)
  BY <1>5 DEF handleNewSale, ShelfTypeOK, Nothing
<1>6. ASSUME NEW v \in Variants, addToCart(t, v) \/ increase(t, v) PROVE FloorTypes'
  <2>1. basket' = [basket EXCEPT ![t] = [basket[t] EXCEPT ![v] = basket[t][v] + 1]]
    BY <1>6 DEF addToCart, increase
  <2>. QED
    BY <1>6, <2>1 DEF addToCart, increase, ShelfTypeOK
<1>7. ASSUME NEW v \in Variants, NEW left \in 0..basket[t][v], decrease(t, v, left)
      PROVE  FloorTypes'
  <2>1. basket' = [basket EXCEPT ![t] = [basket[t] EXCEPT ![v] = left]]
    BY <1>7 DEF decrease
  <2>. QED
    BY <1>7, <2>1 DEF decrease, ShelfTypeOK
<1>. QED
  BY <1>1, <1>2, <1>3, <1>4, <1>5, <1>6, <1>7 DEF TillNext

\* The page shows counts whatever it is told.
LEMMA PageTypes ==
  ASSUME FloorAssumption, FloorTypes, ButtonsNext \/ DrawerNext
  PROVE  FloorTypes'
PROOF
<1>. USE DEF FloorTypes, FloorTypeOK, ShelfTypeOK, rows, tillVars
<1>1. Refreshed => page' \in Counts /\ optimistic' \in Counts
  BY DEF Refreshed, Counts
<1>2. \A v \in Variants : Shown(v) \in Int
  BY DEF Shown, Counts
<1>3. ASSUME NEW a \in Adjustments, TapApplied(a) PROVE FloorTypes'
  <2>1. adjustment' \in [Adjustments -> AdjustmentType]
    BY <1>3, AnsweredTypes DEF TapApplied, AdjustmentPhases
  <2>. QED
    BY <1>1, <1>3, <2>1 DEF TapApplied
<1>4. ASSUME NEW a \in Adjustments, TapRefused(a) PROVE FloorTypes'
  <2>1. adjustment' \in [Adjustments -> AdjustmentType]
    BY <1>4, AnsweredTypes DEF TapRefused, AdjustmentPhases
  <2>2. optimistic' \in Counts
    <3>1. PICK n \in Int : n = -1
      OBVIOUS
    <3>2. PICK v : optimistic' = [optimistic EXCEPT ![v] = n]
      BY <1>4, <3>1 DEF TapRefused
    <3>. QED
      BY <3>1, <3>2 DEF Counts
  <2>. QED
    BY <1>4, <2>1, <2>2 DEF TapRefused
<1>5. ASSUME NEW a \in Adjustments, NEW v \in Variants, NEW delta \in Buttons,
             quickAdjust(a, v, delta)
      PROVE  FloorTypes'
  <2>1. delta \in Int
    BY DEF FloorAssumption
  <2>2. adjustment' \in [Adjustments -> AdjustmentType]
    BY <1>5, <2>1, AskedTypes DEF quickAdjust
  <2>3. optimistic' \in Counts
    BY <1>2, <1>5, <2>1 DEF quickAdjust, Counts
  <2>. QED
    BY <1>5, <2>2, <2>3 DEF quickAdjust
<1>6. ASSUME OpenDrawer PROVE FloorTypes'
  BY <1>6 DEF OpenDrawer, shelfVars
<1>7. ASSUME NEW a \in Adjustments, DrawerAnswered(a) PROVE FloorTypes'
  <2>1. adjustment' \in [Adjustments -> AdjustmentType]
    BY <1>7, AnsweredTypes DEF DrawerAnswered, AdjustmentPhases
  <2>. QED
    BY <1>1, <1>7, <2>1 DEF DrawerAnswered
<1>8. ASSUME NEW a \in Adjustments, NEW v \in Variants, NEW delta \in DrawerDeltas(v),
             submitDrawer(a, v, delta)
      PROVE  FloorTypes'
  <2>1. delta \in Int
    BY <1>2 DEF DrawerDeltas, FloorAssumption
  <2>2. adjustment' \in [Adjustments -> AdjustmentType]
    BY <1>8, <2>1, AskedTypes DEF submitDrawer
  <2>. QED
    BY <1>8, <2>2 DEF submitDrawer
<1>. QED
  BY <1>3, <1>4, <1>5, <1>6, <1>7, <1>8 DEF ButtonsNext, DrawerNext

\* The import panel.
LEMMA SheetTypes ==
  ASSUME FloorAssumption, FloorTypes, SheetNext
  PROVE  FloorTypes'
PROOF
<1>. USE DEF FloorTypes, FloorTypeOK, ShelfTypeOK, rows, shelfVars, tillVars, pageVars
<1>1. CASE Upload
  <2>1. PICK valid \in SUBSET Rows :
          sheet' = [step |-> "preview", todo |-> valid, call |-> 0, applied |-> {},
                    failed |-> {}, uploads |-> sheet.uploads + 1, sent |-> sheet.sent]
    <3>1. ValidRows(IF sheet.uploads = 0 THEN Rows ELSE sheet.failed) \in SUBSET Rows
      BY DEF ValidRows, SheetType
    <3>. QED
      BY <1>1, <3>1 DEF Upload
  <2>2. sheet' \in SheetType /\ sheet'.call = 0
    BY <2>1 DEF SheetType
  <2>. QED
    BY <1>1, <2>2 DEF Upload
<1>2. CASE runImport
  <2>1. sheet' \in SheetType /\ sheet'.call = sheet.call /\ sheet'.todo = sheet.todo
    BY <1>2 DEF runImport, SheetType
  <2>. QED
    BY <1>2, <2>1 DEF runImport
<1>3. CASE ImportDone
  <2>1. sheet' \in SheetType /\ sheet'.call = sheet.call /\ sheet'.todo = sheet.todo
    BY <1>3 DEF ImportDone, SheetType
  <2>2. page' \in Counts /\ optimistic' \in Counts
    BY <1>3 DEF ImportDone, Refreshed, Counts
  <2>. QED
    BY <1>3, <2>1, <2>2 DEF ImportDone
<1>4. ASSUME NEW a \in Adjustments, SendRow(a) PROVE FloorTypes'
  <2>1. NextRow \in Rows /\ RowVariant[NextRow] \in Variants /\ RowDelta[NextRow] \in Int
    BY <1>4, NextRowIsToDo DEF SendRow, FloorAssumption
  <2>2. adjustment' \in [Adjustments -> AdjustmentType]
    BY <1>4, <2>1, AskedTypes DEF SendRow
  <2>3. sheet' \in SheetType /\ sheet'.todo # {}
    <3>1. PICK c : c = sheet.sent \cup {<<a, NextRow>>}
      OBVIOUS
    <3>2. c \in SUBSET (Adjustments \X Rows)
      BY <2>1, <3>1 DEF SheetType
    <3>3. sheet' = [sheet EXCEPT !.call = a, !.sent = c] /\ sheet.todo # {}
      BY <1>4, <3>1 DEF SendRow
    <3>. QED
      BY <3>2, <3>3 DEF SheetType
  <2>. QED
    BY <1>4, <2>2, <2>3 DEF SendRow
<1>5. ASSUME NEW a \in Adjustments, RowAnswered(a) PROVE FloorTypes'
  <2>1. NextRow \in Rows
    <3>1. sheet.call # 0
      BY <1>5, NamesAreNumbers DEF RowAnswered
    <3>. QED
      BY <3>1, NextRowIsToDo
  <2>2. adjustment' \in [Adjustments -> AdjustmentType]
    BY <1>5, AnsweredTypes DEF RowAnswered, AdjustmentPhases
  <2>3. sheet' \in SheetType /\ sheet'.call = 0
    <3>1. PICK r \in Rows : r = NextRow
      BY <2>1
    <3>2. CASE sheet' = [sheet EXCEPT !.call = 0, !.todo = @ \ {r}, !.applied = @ \cup {r}]
      BY <3>2 DEF SheetType
    <3>3. CASE sheet' = [sheet EXCEPT !.call = 0, !.todo = @ \ {r}, !.failed = @ \cup {r}]
      BY <3>3 DEF SheetType
    <3>. QED
      BY <1>5, <3>1, <3>2, <3>3 DEF RowAnswered
  <2>. QED
    BY <1>5, <2>2, <2>3 DEF RowAnswered
<1>. QED
  BY <1>1, <1>2, <1>3, <1>4, <1>5 DEF SheetNext

\* Every step of the shop keeps the types.
LEMMA FloorTypesStep ==
  ASSUME ShelfAssumption, FloorAssumption, FloorTypes, [Next]_vars
  PROVE  FloorTypes'
PROOF
<1>. USE DEF FloorTypes
<1>1. CASE (Handlers \/ Outside) /\ UNCHANGED <<tillVars, pageVars, sheet>>
  <2>1. ShelfTypeOK'
    BY <1>1, ServingTypes, OutsideTypes
  <2>2. FloorTypeOK'
    BY <1>1 DEF FloorTypeOK, tillVars, pageVars
  <2>. QED
    BY <2>1, <2>2
<1>2. CASE Screens
  BY <1>2, TillTypes, PageTypes, SheetTypes DEF Screens
<1>3. CASE UNCHANGED vars
  BY <1>3 DEF vars, shelfVars, rows, tillVars, pageVars, ShelfTypeOK, FloorTypeOK
<1>. QED
  BY <1>1, <1>2, <1>3 DEF Next

-----------------------------------------------------------------------------
(* The ways the requests move, and the rows.                               *)

AnswerComes(a) ==
  adjustment[a].phase \in {"applied", "refused", "answerLost"} /\ Answered(a)

AdjustmentMove(a) ==
  \/ Free(a) /\ \E v \in Variants, delta \in Int : AskAdjust(a, v, delta)
  \/ ReadStock(a) \/ WriteStock(a) \/ AdjustFails(a) \/ AnswerComes(a)

SaleMove(t) ==
  \/ ServesTill(t) \/ SaleFails(t)
  \/ handlePaymentReceived(t) \/ OrderCreated(t) \/ OrderNotCreated(t)

StockMoves ==
  \/ \E wanted \in [Variants -> 0..1] : WebPlaces(wanted)
  \/ \E i \in DOMAIN book, restock \in BOOLEAN : Cancel(i, restock)
  \/ \E a \in Adjustments : WriteStock(a)
  \/ \E t \in Tills : CommitSale(t)

\* Nothing else happens to an adjustment.
LEMMA AdjustmentsMove ==
  ASSUME FloorAssumption, FloorTypes, [Next]_vars
  PROVE  adjustment' = adjustment \/ \E a \in Adjustments : AdjustmentMove(a)
PROOF
<1>. USE DEF FloorTypes, FloorTypeOK, ShelfTypeOK
<1>1. CASE Handlers
  BY <1>1 DEF Handlers, ServesTill, ServesAdjustment, CheckSale, TakeNumber, CommitSale,
     SaleNumberTaken, SaveBill, SaleFails, AdjustmentMove
<1>2. CASE Outside
  BY <1>2 DEF Outside, WebPlaces, Cancel, SoftDelete
<1>3. ASSUME NEW t \in Tills, TillNext(t) PROVE adjustment' = adjustment
  BY <1>3 DEF TillNext, Search, handleProceed, handleGenerateQr, CloseCustomer, BackFromQr,
     handlePaymentReceived, OrderCreated, OrderNotCreated, handleNewSale, addToCart,
     increase, decrease, GoTo, shelfVars
<1>4. \A v \in Variants : Shown(v) \in Int
  BY DEF Shown, Counts
<1>5. CASE ButtonsNext
  BY <1>5 DEF ButtonsNext, TapApplied, TapRefused, quickAdjust, AdjustmentMove, AnswerComes,
     FloorAssumption
<1>6. CASE DrawerNext
  <2>1. ASSUME NEW v \in Variants, NEW delta \in DrawerDeltas(v) PROVE delta \in Int
    BY <1>4 DEF DrawerDeltas, FloorAssumption
  <2>. QED
    BY <1>6, <2>1 DEF DrawerNext, OpenDrawer, DrawerAnswered, submitDrawer, AdjustmentMove,
       AnswerComes, shelfVars
<1>7. CASE SheetNext
  <2>1. ASSUME NEW a \in Adjustments, SendRow(a) PROVE AdjustmentMove(a)
    <3>1. RowVariant[NextRow] \in Variants /\ RowDelta[NextRow] \in Int
      BY <2>1, NextRowIsToDo DEF SendRow, FloorAssumption
    <3>. QED
      BY <2>1, <3>1 DEF SendRow, AdjustmentMove
  <2>. QED
    BY <1>7, <2>1 DEF SheetNext, Upload, runImport, ImportDone, RowAnswered, AdjustmentMove,
       AnswerComes, shelfVars
<1>8. CASE UNCHANGED vars
  BY <1>8 DEF vars, shelfVars
<1>. QED
  BY <1>1, <1>2, <1>3, <1>5, <1>6, <1>7, <1>8 DEF Next, Screens

\* Nor to a sale.
LEMMA SalesMove ==
  ASSUME [Next]_vars
  PROVE  sale' = sale \/ \E t \in Tills : SaleMove(t)
PROOF
<1>1. CASE Handlers
  BY <1>1 DEF Handlers, ServesAdjustment, ReadStock, WriteStock, AdjustFails, SaleMove
<1>2. CASE Outside
  BY <1>2 DEF Outside, WebPlaces, Cancel, SoftDelete
<1>3. ASSUME NEW t \in Tills, TillNext(t) PROVE sale' = sale \/ SaleMove(t)
  BY <1>3 DEF TillNext, Search, handleProceed, handleGenerateQr, CloseCustomer, BackFromQr,
     handleNewSale, addToCart, increase, decrease, GoTo, shelfVars, SaleMove
<1>4. CASE ButtonsNext \/ DrawerNext
  BY <1>4 DEF ButtonsNext, TapApplied, TapRefused, quickAdjust, DrawerNext, OpenDrawer,
     DrawerAnswered, submitDrawer, shelfVars
<1>5. CASE SheetNext
  BY <1>5 DEF SheetNext, Upload, runImport, ImportDone, SendRow, RowAnswered, shelfVars
<1>6. CASE UNCHANGED vars
  BY <1>6 DEF vars, shelfVars
<1>. QED
  BY <1>1, <1>2, <1>3, <1>4, <1>5, <1>6 DEF Next, Screens

\* Four kinds of step write the stock, and they write the history with it.
LEMMA OnlyFourWrite ==
  ASSUME [Next]_vars
  PROVE  UNCHANGED <<stock, ledger>> \/ StockMoves
PROOF
<1>1. CASE Handlers
  BY <1>1 DEF Handlers, ServesTill, ServesAdjustment, CheckSale, TakeNumber,
     SaleNumberTaken, SaveBill, SaleFails, ReadStock, AdjustFails, rows, StockMoves
<1>2. CASE Outside
  BY <1>2 DEF Outside, SoftDelete, StockMoves
<1>3. ASSUME NEW t \in Tills, TillNext(t) PROVE UNCHANGED <<stock, ledger>>
  BY <1>3 DEF TillNext, Search, handleProceed, handleGenerateQr, CloseCustomer, BackFromQr,
     handlePaymentReceived, OrderCreated, OrderNotCreated, handleNewSale, addToCart,
     increase, decrease, GoTo, shelfVars, rows
<1>4. CASE ButtonsNext \/ DrawerNext
  BY <1>4 DEF ButtonsNext, TapApplied, TapRefused, quickAdjust, DrawerNext, OpenDrawer,
     DrawerAnswered, submitDrawer, shelfVars, rows
<1>5. CASE SheetNext
  BY <1>5 DEF SheetNext, Upload, runImport, ImportDone, SendRow, RowAnswered, shelfVars, rows
<1>6. CASE UNCHANGED vars
  BY <1>6 DEF vars, shelfVars, rows
<1>. QED
  BY <1>1, <1>2, <1>3, <1>4, <1>5, <1>6 DEF Next, Screens

-----------------------------------------------------------------------------
(* The history explains the stock.                                         *)

\* A request that has passed its check was let through by the counts it read.
AdjustmentsChecked ==
  \A a \in Adjustments : adjustment[a].phase = "read" => Written(a) >= 0
SalesChecked ==
  \A t \in Tills : sale[t].phase \in {"checked", "numbered"} =>
    \A v \in InBasket(sale[t].basket) : sale[t].before[v] >= sale[t].basket[v]

\* A counter sale in the history s was made on an old reading of v.
SoldStale(s, v) ==
  \E i \in DOMAIN s :
    /\ s[i].variant = v
    /\ s[i].by = "counter"
    /\ s[i].stockBefore # Replay(SubSeq(s, 1, i - 1))[v]

LedgerInv == AdjustmentsChecked /\ SalesChecked /\ LedgerReplays /\ OversoldOnlyByStaleSales

\* Replaying depends on the history alone.
LEMMA ReplayPrimed == Replay(ledger)' = Replay(ledger')
PROOF
  BY DEF Replay, FoldLeft, MapThenFoldSet, Replayed, Max

\* Nothing is sold or taken back in what the property says of the stock.
LEMMA OversoldPrimed ==
  /\ OversoldOnlyByStaleSales <=> \A v \in Variants : stock[v] < 0 => SoldStale(ledger, v)
  /\ OversoldOnlyByStaleSales' <=> \A v \in Variants : stock'[v] < 0 => SoldStale(ledger', v)
PROOF
  BY DEF OversoldOnlyByStaleSales, SoldStale, Replay, FoldLeft, MapThenFoldSet, Replayed, Max

\* What was sold on an old reading stays so whatever comes after it.
LEMMA StaleStays ==
  ASSUME NEW s \in Seq(EventType), NEW e \in Seq(EventType), NEW v, SoldStale(s, v)
  PROVE  SoldStale(s \o e, v)
PROOF
<1>1. PICK i \in 1..Len(s) : s[i].variant = v /\ s[i].by = "counter"
               /\ s[i].stockBefore # Replay(SubSeq(s, 1, i - 1))[v]
  BY LenProperties DEF SoldStale
<1>2. /\ s \o e \in Seq(EventType) /\ i \in 1..Len(s \o e) /\ (s \o e)[i] = s[i]
      /\ DOMAIN (s \o e) = 1..Len(s \o e)
  BY ConcatProperties, LenProperties
<1>3. SubSeq(s \o e, 1, i - 1) = SubSeq(s, 1, i - 1)
  <2>1. CASE i = 1
    <3>1. SubSeq(s \o e, 1, 0) = << >> /\ SubSeq(s, 1, 0) = << >>
      BY SubSeqEmpty
    <3>. QED
      BY <2>1, <3>1
  <2>2. CASE i # 1
    <3>1. 1 \in 1..Len(s) /\ i - 1 \in 1..Len(s)
      BY <2>2, LenProperties
    <3>. QED
      BY <3>1, SubSeqOfConcat1
  <2>. QED
    BY <2>1, <2>2
<1>. QED
  BY <1>1, <1>2, <1>3 DEF SoldStale

\* A basket sold at the counter on counts that are not the history's.
LEMMA SaleIsStale ==
  ASSUME ShelfAssumption, NEW s \in Seq(EventType), NEW wanted \in [Variants -> Nat],
         NEW before \in Counts, NEW v \in InBasket(wanted), before[v] # Replay(s)[v]
  PROVE  SoldStale(s \o Events(wanted, -1, "counter", before), v)
PROOF
<1>. DEFINE e == Events(wanted, -1, "counter", before)
            t == s \o e
<1>1. EventsFor(e, wanted, -1, "counter", before)
  BY EventsOf
<1>2. PICK i \in 1..Len(e) : e[i].variant = v
               /\ Replay(SubSeq(t, 1, Len(s) + i - 1))[v] = Replay(s)[v]
  BY ReplayEvents
<1>. HIDE DEF e
<1>3. e[i].by = "counter" /\ e[i].stockBefore = before[v] /\ e \in Seq(EventType)
  BY <1>1, <1>2 DEF EventsFor
<1>4. Len(s) + i \in DOMAIN t /\ t[Len(s) + i] = e[i]
  <2>1. /\ t \in Seq(EventType) /\ Len(t) = Len(s) + Len(e)
        /\ \A j \in 1..(Len(s) + Len(e)) : t[j] = IF j <= Len(s) THEN s[j] ELSE e[j - Len(s)]
    BY <1>3, ConcatProperties
  <2>2. Len(s) \in Nat /\ Len(e) \in Nat /\ DOMAIN t = 1..Len(t)
    BY <1>3, <2>1, LenProperties
  <2>. HIDE DEF t
  <2>3. Len(s) + i \in 1..(Len(s) + Len(e)) /\ ~(Len(s) + i <= Len(s)) /\ Len(s) + i - Len(s) = i
    BY <2>2
  <2>. QED
    BY <2>1, <2>2, <2>3
<1>. HIDE DEF t
<1>5. PICK k : k = Len(s) + i
  OBVIOUS
<1>6. /\ k \in DOMAIN t /\ t[k].variant = v /\ t[k].by = "counter"
      /\ t[k].stockBefore # Replay(SubSeq(t, 1, k - 1))[v]
  BY <1>2, <1>3, <1>4, <1>5
<1>7. SoldStale(t, v)
  BY <1>6 DEF SoldStale
<1>. QED
  BY <1>7 DEF t, e

\* The checks stand while the requests move.
LEMMA ChecksStep ==
  ASSUME FloorAssumption, FloorTypes, AdjustmentsChecked, SalesChecked, [Next]_vars
  PROVE  AdjustmentsChecked' /\ SalesChecked'
PROOF
<1>. USE DEF FloorTypes, ShelfTypeOK
<1>1. AdjustmentsChecked'
  <2>1. CASE adjustment' = adjustment
    BY <2>1 DEF AdjustmentsChecked, Written
  <2>2. ASSUME NEW a \in Adjustments, AdjustmentMove(a) PROVE AdjustmentsChecked'
    <3>1. \A b \in Adjustments \ {a} : adjustment'[b] = adjustment[b]
      BY <2>2 DEF AdjustmentMove, AskAdjust, ReadStock, WriteStock, AdjustFails, AnswerComes,
         Answered
    <3>2. ASSUME adjustment'[a].phase = "read" PROVE Written(a)' >= 0
      <4>1. ReadStock(a)
        <5>1. ASSUME NEW v, NEW delta, AskAdjust(a, v, delta) PROVE FALSE
          BY <3>2, <5>1 DEF AskAdjust
        <5>2. ASSUME WriteStock(a) \/ AdjustFails(a) \/ AnswerComes(a) PROVE FALSE
          <6>1. adjustment[a] \in AdjustmentRecord
            BY <5>2, AdjustmentMoves DEF WriteStock, AdjustFails, AnswerComes, AdjustmentPhases
          <6>2. PICK p \in AdjustmentPhases : adjustment' = [adjustment EXCEPT ![a].phase = p] /\ p # "read"
            <7>1. CASE WriteStock(a)
              BY <7>1 DEF WriteStock, AdjustmentPhases
            <7>2. CASE AdjustFails(a)
              BY <7>2 DEF AdjustFails, AdjustmentPhases
            <7>3. CASE AnswerComes(a)
              BY <7>3 DEF AnswerComes, Answered, AdjustmentPhases
            <7>. QED
              BY <5>2, <7>1, <7>2, <7>3
          <6>. QED
            BY <3>2, <6>1, <6>2 DEF AdjustmentRecord
        <5>. QED
          BY <2>2, <5>1, <5>2 DEF AdjustmentMove
      <4>2. adjustment[a] \in AdjustmentRecord
        BY <4>1, AdjustmentMoves DEF ReadStock, AdjustmentPhases
      <4>3. PICK v \in Variants : v = adjustment[a].variant
        BY <4>2 DEF AdjustmentRecord
      <4>4. ~(stock[v] + adjustment[a].delta < 0)
            /\ adjustment' = [adjustment EXCEPT ![a].phase = "read", ![a].before = stock[v]]
        BY <3>2, <4>1, <4>2, <4>3 DEF ReadStock, AdjustmentRecord
      <4>5. adjustment'[a].before = stock[v] /\ adjustment'[a].delta = adjustment[a].delta
        BY <4>2, <4>4 DEF AdjustmentRecord
      <4>. QED
        BY <4>2, <4>4, <4>5 DEF Written, AdjustmentRecord, Counts
    <3>. QED
      BY <3>1, <3>2 DEF AdjustmentsChecked, Written
  <2>. QED
    BY <2>1, <2>2, AdjustmentsMove
<1>2. SalesChecked'
  <2>1. CASE sale' = sale
    BY <2>1 DEF SalesChecked, InBasket
  <2>2. ASSUME NEW t \in Tills, SaleMove(t) PROVE SalesChecked'
    <3>1. \A u \in Tills \ {t} : sale'[u] = sale[u]
      BY <2>2 DEF SaleMove, ServesTill, CheckSale, TakeNumber, CommitSale, SaleNumberTaken,
         SaveBill, SaleFails, handlePaymentReceived, AskSale, OrderCreated, OrderNotCreated,
         Close
    <3>2. ASSUME sale'[t].phase \in {"checked", "numbered"},
                 NEW v \in InBasket(sale'[t].basket)
          PROVE  sale'[t].before[v] >= sale'[t].basket[v]
      <4>1. CheckSale(t) \/ TakeNumber(t)
        <5>1. ASSUME handlePaymentReceived(t) \/ OrderCreated(t) \/ OrderNotCreated(t)
              PROVE  FALSE
          BY <3>2, <5>1 DEF handlePaymentReceived, AskSale, OrderCreated, OrderNotCreated,
             Close, NoSale
        <5>2. ASSUME CommitSale(t) \/ SaleNumberTaken(t) \/ SaveBill(t) \/ SaleFails(t)
              PROVE  FALSE
          <6>1. sale[t] \in SaleRecord
            BY <5>2, SaleMoves DEF CommitSale, SaleNumberTaken, SaveBill, SaleFails, SalePhases
          <6>2. PICK p \in SalePhases : sale' = [sale EXCEPT ![t].phase = p] /\ p \notin {"checked", "numbered"}
            <7>1. CASE CommitSale(t)
              BY <7>1 DEF CommitSale, SalePhases
            <7>2. CASE SaleNumberTaken(t)
              BY <7>2 DEF SaleNumberTaken, SalePhases
            <7>3. CASE SaveBill(t)
              BY <7>3 DEF SaveBill, SalePhases
            <7>4. CASE SaleFails(t)
              BY <7>4 DEF SaleFails, SalePhases
            <7>. QED
              BY <5>2, <7>1, <7>2, <7>3, <7>4
          <6>. QED
            BY <3>2, <6>1, <6>2 DEF SaleRecord
        <5>. QED
          BY <2>2, <5>1, <5>2 DEF SaleMove, ServesTill
      <4>2. sale[t] \in SaleRecord
        BY <4>1, SaleMoves DEF CheckSale, TakeNumber, SalePhases
      <4>3. CASE CheckSale(t)
        <5>1. PICK p : sale' = [sale EXCEPT ![t].phase = p, ![t].before = stock]
                 /\ p = IF Sells(t) THEN "checked" ELSE "refused"
          BY <4>3 DEF CheckSale
        <5>2. sale'[t].phase = p /\ sale'[t].before = stock /\ sale'[t].basket = sale[t].basket
          BY <4>2, <5>1 DEF SaleRecord
        <5>. QED
          BY <3>2, <5>1, <5>2 DEF Sells
      <4>4. CASE TakeNumber(t)
        <5>1. sale'[t].before = sale[t].before /\ sale'[t].basket = sale[t].basket
              /\ sale[t].phase = "checked"
          BY <4>2, <4>4 DEF TakeNumber, SaleRecord
        <5>. QED
          BY <3>2, <5>1 DEF SalesChecked, InBasket
      <4>. QED
        BY <4>1, <4>3, <4>4
    <3>. QED
      BY <3>1, <3>2 DEF SalesChecked, InBasket
  <2>. QED
    BY <2>1, <2>2, SalesMove
<1>. QED
  BY <1>1, <1>2

\* Goods leave or come back with the events that say so.
LEMMA BasketReplays ==
  ASSUME ShelfAssumption, ShelfTypeOK, LedgerReplays, NEW wanted \in [Variants -> Nat],
         NEW sign \in {-1, 1}, NEW by \in {"web", "cancel", "counter"}, NEW before \in Counts,
         ledger' = ledger \o Events(wanted, sign, by, before),
         stock' = Moved(stock, wanted, sign)
  PROVE  /\ LedgerReplays'
         /\ \A v \in Variants : SoldStale(ledger, v) => SoldStale(ledger', v)
PROOF
<1>1. Replay(ledger') = Moved(Replay(ledger), wanted, sign)
  <2>1. PICK s \in Seq(EventType) : s = ledger
    BY DEF ShelfTypeOK
  <2>2. Replay(s \o Events(wanted, sign, by, before)) = Moved(Replay(s), wanted, sign)
    <3>1. CASE sign = 1
      BY <3>1, ReplayEvents
    <3>2. CASE sign = -1
      BY <3>2, ReplayEvents
    <3>. QED
      BY <3>1, <3>2
  <2>. QED
    BY <2>1, <2>2
<1>2. LedgerReplays'
  <2>1. stock' = Replay(ledger')
    BY <1>1 DEF LedgerReplays
  <2>. QED
    BY <2>1, ReplayPrimed DEF LedgerReplays
<1>3. ASSUME NEW v \in Variants, SoldStale(ledger, v) PROVE SoldStale(ledger', v)
  <2>1. PICK e : e = Events(wanted, sign, by, before)
    OBVIOUS
  <2>2. e \in Seq(EventType)
    BY <2>1, EventsOf DEF EventsFor
  <2>. QED
    BY <1>3, <2>1, <2>2, StaleStays DEF ShelfTypeOK
<1>. QED
  BY <1>2, <1>3

\* Every step writes what the history then says, and takes stock below zero
\* only with a sale made on an old reading.
LEMMA LedgerStep ==
  ASSUME ShelfAssumption, FloorAssumption, FloorTypes, LedgerInv, [Next]_vars
  PROVE  LedgerInv'
PROOF
<1>. USE DEF FloorTypes, ShelfTypeOK
<1>1. AdjustmentsChecked' /\ SalesChecked'
  BY ChecksStep DEF LedgerInv
<1>2. LedgerReplays /\ \A v \in Variants : stock[v] < 0 => SoldStale(ledger, v)
  BY OversoldPrimed DEF LedgerInv
<1>3. SUFFICES LedgerReplays' /\ \A v \in Variants : stock'[v] < 0 => SoldStale(ledger', v)
  BY <1>1, OversoldPrimed DEF LedgerInv
<1>4. CASE UNCHANGED <<stock, ledger>>
  BY <1>2, <1>4, ReplayPrimed DEF LedgerReplays
<1>5. ASSUME NEW wanted \in [Variants -> 0..1], WebPlaces(wanted)
      PROVE  LedgerReplays' /\ \A v \in Variants : stock'[v] < 0 => SoldStale(ledger', v)
  <2>1. wanted \in [Variants -> Nat] /\ \A v \in Variants : wanted[v] \in Nat /\ stock[v] \in Int
    <3>1. wanted \in [Variants -> Nat]
      OBVIOUS
    <3>. QED
      BY <3>1 DEF Counts
  <2>2. stock' = [v \in Variants |-> stock[v] + (-1) * wanted[v]]
    BY <1>5, <2>1 DEF WebPlaces
  <2>3. ledger' = ledger \o Events(wanted, -1, "web", stock)
    BY <1>5 DEF WebPlaces
  <2>4. LedgerReplays' /\ \A v \in Variants : SoldStale(ledger, v) => SoldStale(ledger', v)
    BY <1>2, <2>1, <2>2, <2>3, BasketReplays DEF Moved
  <2>5. ASSUME NEW v \in Variants, stock'[v] < 0 PROVE stock[v] < 0
    <3>1. v \in InBasket(wanted) => stock[v] >= wanted[v]
      BY <1>5 DEF WebPlaces
    <3>. QED
      BY <2>1, <2>2, <2>5, <3>1 DEF InBasket
  <2>. QED
    BY <1>2, <2>4, <2>5
<1>6. ASSUME NEW i \in DOMAIN book, NEW restock \in BOOLEAN, Cancel(i, restock)
      PROVE  LedgerReplays' /\ \A v \in Variants : stock'[v] < 0 => SoldStale(ledger', v)
  <2>1. i \in 1..Len(book) /\ book[i] \in OrderType
    BY LenProperties, ElementOfSeq
  <2>2. PICK back : back = IF restock THEN book[i].basket ELSE [v \in Variants |-> 0]
    OBVIOUS
  <2>3. back \in [Variants -> Nat] /\ \A v \in Variants : back[v] \in Nat /\ stock[v] \in Int
    BY <2>1, <2>2 DEF OrderType, Counts
  <2>4. /\ ledger' = ledger \o Events(back, 1, "cancel", stock)
        /\ stock' = [v \in Variants |-> stock[v] + back[v]]
    BY <1>6, <2>2 DEF Cancel
  <2>5. stock' = [v \in Variants |-> stock[v] + 1 * back[v]]
    BY <2>3, <2>4
  <2>6. LedgerReplays' /\ \A v \in Variants : SoldStale(ledger, v) => SoldStale(ledger', v)
    BY <1>2, <2>3, <2>4, <2>5, BasketReplays DEF Moved
  <2>7. ASSUME NEW v \in Variants, stock'[v] < 0 PROVE stock[v] < 0
    BY <2>3, <2>4, <2>7
  <2>. QED
    BY <1>2, <2>6, <2>7
<1>7. ASSUME NEW a \in Adjustments, WriteStock(a)
      PROVE  LedgerReplays' /\ \A v \in Variants : stock'[v] < 0 => SoldStale(ledger', v)
  <2>1. /\ adjustment[a].variant \in Variants /\ adjustment[a].delta \in Int
        /\ adjustment[a].before \in Int
    BY <1>7, AdjustmentMoves DEF WriteStock, AdjustmentPhases
  <2>2. PICK w \in Variants, n \in Int : w = adjustment[a].variant /\ n = Written(a)
    BY <2>1 DEF Written
  <2>3. PICK e : e = Event(w, "staff", adjustment[a].delta, adjustment[a].before)
    OBVIOUS
  <2>4. e \in EventType /\ e.variant = w /\ e.by = "staff" /\ e.stockAfter = n
    BY <2>1, <2>2, <2>3 DEF Event, EventType, Written
  <2>5. ledger' = Append(ledger, e) /\ stock' = [stock EXCEPT ![w] = n] /\ n >= 0
    BY <1>7, <2>2, <2>3 DEF WriteStock, LedgerInv, AdjustmentsChecked
  <2>6. Replay(ledger') = Replayed(Replay(ledger), e)
    BY <2>4, <2>5, ReplayAppend
  <2>7. stock' = Replay(ledger')
    BY <1>2, <2>4, <2>5, <2>6 DEF LedgerReplays, Replayed, Counts
  <2>8. LedgerReplays'
    BY <2>7, ReplayPrimed DEF LedgerReplays
  <2>9. \A v \in Variants : SoldStale(ledger, v) => SoldStale(ledger', v)
    <3>1. Append(ledger, e) = ledger \o <<e>> /\ <<e>> \in Seq(EventType)
      BY <2>4, AppendIsConcat
    <3>. QED
      BY <2>5, <3>1, StaleStays
  <2>10. ASSUME NEW v \in Variants, stock'[v] < 0 PROVE stock[v] < 0
    BY <2>5, <2>10 DEF Counts
  <2>. QED
    BY <1>2, <2>8, <2>9, <2>10
<1>8. ASSUME NEW t \in Tills, CommitSale(t)
      PROVE  LedgerReplays' /\ \A v \in Variants : stock'[v] < 0 => SoldStale(ledger', v)
  <2>1. sale[t].basket \in [Variants -> Nat] /\ sale[t].before \in Counts
    BY <1>8, SaleMoves DEF CommitSale, SalePhases
  <2>2. PICK wanted \in [Variants -> Nat], before \in Counts :
          wanted = sale[t].basket /\ before = sale[t].before
    BY <2>1
  <2>3. \A v \in Variants : wanted[v] \in Nat /\ stock[v] \in Int /\ before[v] \in Int
    BY <2>2 DEF Counts
  <2>4. /\ stock' = [v \in Variants |-> stock[v] - wanted[v]]
        /\ ledger' = ledger \o Events(wanted, -1, "counter", before)
    BY <1>8, <2>2 DEF CommitSale, Taken
  <2>5. stock' = [v \in Variants |-> stock[v] + (-1) * wanted[v]]
    BY <2>3, <2>4
  <2>6. LedgerReplays' /\ \A v \in Variants : SoldStale(ledger, v) => SoldStale(ledger', v)
    BY <1>2, <2>4, <2>5, BasketReplays DEF Moved
  <2>7. ASSUME NEW v \in Variants, stock'[v] < 0, ~(stock[v] < 0) PROVE SoldStale(ledger', v)
    <3>1. v \in InBasket(wanted)
      BY <2>3, <2>4, <2>7 DEF InBasket
    <3>2. before[v] >= wanted[v]
      BY <1>8, <2>2, <3>1 DEF CommitSale, LedgerInv, SalesChecked
    <3>3. before[v] # Replay(ledger)[v]
      BY <1>2, <2>3, <2>4, <2>7, <3>2 DEF LedgerReplays
    <3>. QED
      BY <2>4, <3>1, <3>3, SaleIsStale
  <2>. QED
    BY <1>2, <2>6, <2>7
<1>. QED
  BY <1>4, <1>5, <1>6, <1>7, <1>8, OnlyFourWrite DEF StockMoves

\* So types, checks and history hold throughout.
LEMMA LedgerAlways == Spec => [](FloorTypes /\ LedgerInv)
PROOF
<1>. USE ShelfAssumption, FloorAssumption
<1>1. Init => FloorTypes /\ LedgerInv
  <2>1. ASSUME Init PROVE LedgerInv
    <3>1. \A v \in Variants : ~(stock[v] < 0)
      BY <2>1 DEF Init, ShelfInit, ShelfAssumption
    <3>2. LedgerReplays /\ OversoldOnlyByStaleSales
      BY <2>1, <3>1, ReplayEmpty DEF Init, ShelfInit, LedgerReplays, OversoldOnlyByStaleSales
    <3>3. AdjustmentsChecked /\ SalesChecked
      BY <2>1 DEF Init, ShelfInit, AdjustmentsChecked, SalesChecked, NoSale, NoAdjustment
    <3>. QED
      BY <3>2, <3>3 DEF LedgerInv
  <2>. QED
    BY <2>1, FloorTypesInit
<1>2. FloorTypes /\ LedgerInv /\ [Next]_vars => (FloorTypes /\ LedgerInv)'
  BY FloorTypesStep, LedgerStep
<1>. QED
  BY <1>1, <1>2, PTL DEF Spec

\* LedgerReplays: the history of every variant explains its stock, whatever
\* the web checkout, the counter, the cancellations and the adjustments write
\* and in whatever order, lost updates included.
THEOREM HistoryExplainsStock == Spec => []LedgerReplays
PROOF
<1>1. FloorTypes /\ LedgerInv => LedgerReplays
  BY DEF LedgerInv
<1>. QED
  BY <1>1, LedgerAlways, PTL

\* OversoldOnlyByStaleSales: no web order, cancellation or adjustment takes a
\* count below zero, and no counter sale does but one that recorded a
\* stockBefore that was no longer the count.
THEOREM OnlyStaleSalesOversell == Spec => []OversoldOnlyByStaleSales
PROOF
<1>1. FloorTypes /\ LedgerInv => OversoldOnlyByStaleSales
  BY DEF LedgerInv
<1>. QED
  BY <1>1, LedgerAlways, PTL

-----------------------------------------------------------------------------
(* A row of a sheet is applied twice only after a lost answer.             *)

Over(a) == adjustment[a].phase \in {"refused", "answerLost"}

\* A row that may be sent, for the first time or again, has no earlier call but
\* such as ended in an error; so of two calls for one row one ended in an error.
SheetInv ==
  /\ sheet.uploads = 0 => sheet.sent = {} /\ sheet.todo = {}
  /\ \A c \in sheet.sent : adjustment[c[1]].phase # "free"
  /\ \A c, d \in sheet.sent : c[1] = d[1] => c = d
  /\ sheet.call # 0 => <<sheet.call, NextRow>> \in sheet.sent
  /\ \A c \in sheet.sent : c[2] \in sheet.todo /\ c[1] # sheet.call => Over(c[1])
  /\ \A c \in sheet.sent : c[2] \in sheet.failed => Over(c[1])
  /\ sheet.failed \cap sheet.todo = {}
  /\ \A c, d \in sheet.sent : c # d /\ c[2] = d[2] => Over(c[1]) \/ Over(d[1])

\* What ended in an error stays so, and a name in use is not free again.
LEMMA ErrorsStay ==
  ASSUME FloorAssumption, FloorTypes, [Next]_vars, NEW b \in Adjustments
  PROVE  /\ Over(b) => Over(b)'
         /\ adjustment[b].phase # "free" => adjustment'[b].phase # "free"
PROOF
<1>. USE DEF FloorTypes, ShelfTypeOK
<1>1. CASE adjustment' = adjustment
  BY <1>1 DEF Over
<1>2. ASSUME NEW a \in Adjustments, AdjustmentMove(a), adjustment[b].phase # "free"
      PROVE  adjustment'[b].phase # "free" /\ (Over(b) => Over(b)')
  <2>1. CASE a # b
    <3>1. adjustment'[b] = adjustment[b]
      BY <1>2, <2>1 DEF AdjustmentMove, AskAdjust, ReadStock, WriteStock, AdjustFails,
         AnswerComes, Answered
    <3>. QED
      BY <1>2, <3>1 DEF Over
  <2>2. CASE a = b
    <3>1. ASSUME NEW v, NEW delta, AskAdjust(a, v, delta) PROVE FALSE
      BY <1>2, <2>2, <3>1 DEF AskAdjust
    <3>2. adjustment[b] \in AdjustmentRecord
      BY <1>2, <2>2 DEF AdjustmentType, NoAdjustment
    <3>3. CASE ReadStock(a)
      <4>1. PICK n : adjustment' = [adjustment EXCEPT ![a].phase =
              IF adjustment[a].variant \notin live \/ n + adjustment[a].delta < 0
              THEN "refused" ELSE "read", ![a].before = n]
        BY <3>3 DEF ReadStock
      <4>2. adjustment'[b].phase \in {"refused", "read"}
        BY <2>2, <3>2, <4>1 DEF AdjustmentRecord
      <4>. QED
        BY <2>2, <3>3, <4>2 DEF ReadStock, Over
    <3>4. CASE WriteStock(a)
      <4>1. adjustment'[b].phase = "applied"
        BY <2>2, <3>2, <3>4 DEF WriteStock, AdjustmentRecord
      <4>. QED
        BY <2>2, <3>4, <4>1 DEF WriteStock, Over
    <3>5. CASE AdjustFails(a)
      <4>1. adjustment'[b].phase \in {"refused", "answerLost"}
        BY <2>2, <3>2, <3>5 DEF AdjustFails, AdjustmentRecord
      <4>. QED
        BY <4>1 DEF Over
    <3>6. CASE AnswerComes(a)
      <4>1. adjustment'[b].phase =
              IF adjustment[b].phase = "applied" THEN "done" ELSE adjustment[b].phase
        BY <2>2, <3>2, <3>6 DEF AnswerComes, Answered, AdjustmentRecord
      <4>. QED
        BY <1>2, <4>1 DEF Over
    <3>. QED
      BY <1>2, <3>1, <3>3, <3>4, <3>5, <3>6 DEF AdjustmentMove
  <2>. QED
    BY <2>1, <2>2
<1>3. Over(b) => adjustment[b].phase # "free"
  BY DEF Over
<1>. QED
  BY <1>1, <1>2, <1>3, AdjustmentsMove

\* Only the panel writes its state.
LEMMA OnlyThePanel ==
  ASSUME [Next]_vars
  PROVE  sheet' = sheet \/ SheetNext
PROOF
<1>1. ASSUME NEW t \in Tills, TillNext(t) PROVE sheet' = sheet
  BY <1>1 DEF TillNext, Search, handleProceed, handleGenerateQr, CloseCustomer, BackFromQr,
     handlePaymentReceived, OrderCreated, OrderNotCreated, handleNewSale, addToCart,
     increase, decrease, GoTo
<1>2. CASE ButtonsNext \/ DrawerNext
  BY <1>2 DEF ButtonsNext, TapApplied, TapRefused, quickAdjust, DrawerNext, OpenDrawer,
     DrawerAnswered, submitDrawer
<1>. QED
  BY <1>1, <1>2 DEF Next, Screens, vars

\* The panel keeps its calls apart.
LEMMA SheetStep ==
  ASSUME FloorAssumption, FloorTypes, SheetInv, [Next]_vars
  PROVE  SheetInv'
PROOF
<1>. USE DEF FloorTypes, FloorTypeOK
<1>1. \A c \in sheet.sent : c[1] \in Adjustments /\ c[2] \in Rows /\ c = <<c[1], c[2]>>
  BY DEF SheetType
<1>2. \A c \in sheet.sent : /\ Over(c[1]) => Over(c[1])'
                           /\ adjustment'[c[1]].phase # "free"
  BY <1>1, ErrorsStay DEF SheetInv
<1>3. CASE sheet' = sheet
  BY <1>2, <1>3 DEF SheetInv, NextRow
<1>4. CASE Upload
  <2>1. PICK valid : /\ valid \subseteq IF sheet.uploads = 0 THEN Rows ELSE sheet.failed
                     /\ sheet' = [step |-> "preview", todo |-> valid, call |-> 0,
                                  applied |-> {}, failed |-> {},
                                  uploads |-> sheet.uploads + 1, sent |-> sheet.sent]
    BY <1>4 DEF Upload, ValidRows
  <2>2. /\ sheet'.todo = valid /\ sheet'.call = 0 /\ sheet'.failed = {}
        /\ sheet'.uploads = sheet.uploads + 1 /\ sheet'.sent = sheet.sent
        /\ sheet.uploads \in Nat
    BY <2>1 DEF SheetType
  <2>3. \A c \in sheet.sent : c[2] \in valid => Over(c[1])
    BY <2>1 DEF SheetInv
  <2>. QED
    BY <1>2, <2>2, <2>3 DEF SheetInv
<1>5. CASE runImport \/ ImportDone
  <2>1. /\ sheet'.todo = sheet.todo /\ sheet'.call = sheet.call
        /\ sheet'.failed = sheet.failed /\ sheet'.uploads = sheet.uploads
        /\ sheet'.sent = sheet.sent
    BY <1>5 DEF runImport, ImportDone, SheetType
  <2>. QED
    BY <1>2, <2>1 DEF SheetInv, NextRow
<1>6. ASSUME NEW a \in Adjustments, SendRow(a) PROVE SheetInv'
  <2>1. PICK r : r = NextRow
    OBVIOUS
  <2>2. r \in sheet.todo /\ sheet.call = 0 /\ a # 0
    BY <1>6, <2>1, NextRowIsToDo, NamesAreNumbers DEF SendRow
  <2>3. /\ sheet'.todo = sheet.todo /\ sheet'.call = a
        /\ sheet'.failed = sheet.failed /\ sheet'.uploads = sheet.uploads
        /\ sheet'.sent = sheet.sent \cup {<<a, r>>} /\ NextRow' = r
    BY <1>6, <2>1 DEF SendRow, SheetType, NextRow
  <2>4. \A c \in sheet.sent : c[1] # a /\ c[1] # 0
    BY <1>1, <1>6, NamesAreNumbers DEF SendRow, Free, SheetInv
  <2>5. adjustment'[a].phase # "free"
    BY <1>6 DEF SendRow, AskAdjust, ShelfTypeOK
  <2>6. \A c \in sheet.sent : c[2] \in sheet.todo => Over(c[1])'
    BY <1>2, <2>2, <2>4 DEF SheetInv
  <2>7. \A c \in sheet'.sent : c \in sheet.sent \/ (c = <<a, r>> /\ c[1] = a /\ c[2] = r)
    BY <2>3
  <2>8. sheet'.uploads = 0 => sheet'.sent = {} /\ sheet'.todo = {}
    BY <2>2, <2>3 DEF SheetInv
  <2>9. /\ \A c \in sheet'.sent : adjustment'[c[1]].phase # "free"
        /\ \A c, d \in sheet'.sent : c[1] = d[1] => c = d
    BY <1>2, <2>4, <2>5, <2>7 DEF SheetInv
  <2>10. /\ \A c \in sheet'.sent : c[2] \in sheet'.todo /\ c[1] # sheet'.call => Over(c[1])'
         /\ \A c \in sheet'.sent : c[2] \in sheet'.failed => Over(c[1])'
    <3>1. r \notin sheet.failed
      BY <2>2 DEF SheetInv
    <3>. QED
      BY <1>2, <2>2, <2>3, <2>4, <2>6, <2>7, <3>1 DEF SheetInv
  <2>11. \A c, d \in sheet'.sent : c # d /\ c[2] = d[2] => Over(c[1])' \/ Over(d[1])'
    BY <1>2, <2>2, <2>6, <2>7 DEF SheetInv
  <2>. QED
    BY <2>3, <2>8, <2>9, <2>10, <2>11 DEF SheetInv
<1>7. ASSUME NEW a \in Adjustments, RowAnswered(a) PROVE SheetInv'
  <2>1. PICK r : r = NextRow
    OBVIOUS
  <2>2. a # 0 /\ sheet.call = a /\ <<a, r>> \in sheet.sent
    BY <1>7, <2>1, NamesAreNumbers DEF RowAnswered, SheetInv
  <2>3. /\ sheet'.todo = sheet.todo \ {r} /\ sheet'.call = 0
        /\ sheet'.uploads = sheet.uploads /\ sheet'.sent = sheet.sent
        /\ \/ sheet'.failed = sheet.failed
           \/ sheet'.failed = sheet.failed \cup {r} /\ Over(a)
    BY <1>7, <2>1 DEF RowAnswered, SheetType, Over
  <2>4. \A c \in sheet.sent : c[1] = a => c[2] = r
    BY <2>2 DEF SheetInv
  <2>5. r \in sheet.todo
    BY <2>1, <2>2, NextRowIsToDo
  <2>. QED
    BY <1>1, <1>2, <2>2, <2>3, <2>4, <2>5 DEF SheetInv
<1>. QED
  BY <1>3, <1>4, <1>5, <1>6, <1>7, OnlyThePanel DEF SheetNext

-----------------------------------------------------------------------------
(* A customer is charged twice only after a lost answer.                   *)

FromCounter(i) == book[i].source = "pos"

\* A till serves one customer at a time; of what it has sold this one there
\* was an error, a success is on the screen or the answer is still to come.
RequestIsThisCustomers ==
  \A t \in Tills : sale[t].phase # "none" =>
    sale[t].visit = <<t, visit[t]>> /\ screen[t] # "success"
VisitsArePast ==
  \A i \in DOMAIN book : FromCounter(i) =>
    /\ book[i].visit \in Tills \X Nat
    /\ book[i].visit[2] <= visit[book[i].visit[1]]
AccountedFor(i, t) ==
  \/ book[i].number \in unheard
  \/ screen[t] = "success"
  \/ /\ sale[t].phase \in {"committed", "billed", "answerLost"}
     /\ book[i].number = sale[t].number
SoldToThisCustomer ==
  \A i \in DOMAIN book, t \in Tills :
    FromCounter(i) /\ book[i].visit = <<t, visit[t]>> => AccountedFor(i, t)
TwiceUnheard ==
  \A i, j \in DOMAIN book :
    i < j /\ FromCounter(i) /\ book[i].visit = book[j].visit => book[i].number \in unheard

TillInv ==
  RequestIsThisCustomers /\ VisitsArePast /\ SoldToThisCustomer /\ TwiceUnheard

\* One more order at the end of the book, which leaves the others alone.
LEMMA BookGrows ==
  ASSUME book \in Seq(OrderType), NEW o \in OrderType, book' = Append(book, o)
  PROVE  LET n == Len(book) + 1 IN
         /\ n \in Nat /\ DOMAIN book = 1..(n - 1) /\ DOMAIN book' = 1..n
         /\ book'[n] = o
         /\ \A i \in DOMAIN book : i \in DOMAIN book' /\ book'[i] = book[i] /\ i < n
         /\ \A i \in DOMAIN book' : i \in DOMAIN book \/ i = n
PROOF
<1>1. Len(book) \in Nat /\ DOMAIN book = 1..Len(book)
  BY LenProperties
<1>2. book' \in Seq(OrderType) /\ Len(book') = Len(book) + 1
  BY AppendProperties
<1>3. DOMAIN book' = 1..(Len(book) + 1)
  BY <1>2, LenProperties
<1>4. book'[Len(book) + 1] = o /\ \A i \in 1..Len(book) : book'[i] = book[i]
  BY AppendProperties
<1>. QED
  BY <1>1, <1>3, <1>4

\* The rows written for others do not concern the tills.
LEMMA OtherOrders ==
  ASSUME ShelfTypeOK, TillInv, Outside, UNCHANGED <<tillVars>>
  PROVE  TillInv'
PROOF
<1>. USE DEF ShelfTypeOK, tillVars
<1>1. ASSUME NEW wanted \in [Variants -> 0..1], WebPlaces(wanted) PROVE TillInv'
  <2>1. PICK o : o = [number |-> sequence + 1, source |-> "web", basket |-> wanted,
                      visit |-> << >>, cancelled |-> FALSE]
    OBVIOUS
  <2>2. o \in OrderType /\ o.source = "web" /\ o.visit = << >>
    BY <2>1 DEF OrderType
  <2>3. book' = Append(book, o) /\ sale' = sale
    BY <1>1, <2>1 DEF WebPlaces
  <2>4. PICK n : /\ DOMAIN book = 1..(n - 1) /\ book'[n] = o
                 /\ \A i \in DOMAIN book : book'[i] = book[i] /\ i < n
                 /\ \A i \in DOMAIN book' : i \in DOMAIN book \/ i = n
    BY <2>2, <2>3, BookGrows
  <2>5. \A i \in DOMAIN book' : FromCounter(i)' => i \in DOMAIN book /\ FromCounter(i)
    BY <2>2, <2>4 DEF FromCounter
  <2>6. RequestIsThisCustomers' /\ VisitsArePast' /\ SoldToThisCustomer'
    <3>1. RequestIsThisCustomers'
      BY <2>3 DEF TillInv, RequestIsThisCustomers
    <3>2. VisitsArePast'
      BY <2>4, <2>5 DEF TillInv, VisitsArePast
    <3>3. SoldToThisCustomer'
      BY <2>3, <2>4, <2>5 DEF TillInv, SoldToThisCustomer, AccountedFor
    <3>. QED
      BY <3>1, <3>2, <3>3
  <2>7. TwiceUnheard'
    <3>1. ASSUME NEW i \in DOMAIN book', NEW j \in DOMAIN book',
                 i < j, FromCounter(i)', book'[i].visit = book'[j].visit
          PROVE  book'[i].number \in unheard'
      <4>1. i \in DOMAIN book /\ FromCounter(i) /\ book'[i] = book[i]
        BY <2>4, <2>5, <3>1
      <4>2. CASE j \in DOMAIN book
        BY <2>4, <3>1, <4>1, <4>2 DEF TillInv, TwiceUnheard
      <4>3. CASE j = n
        <5>1. << >> \in Tills \X Nat
          BY <2>2, <2>4, <3>1, <4>1, <4>3 DEF TillInv, VisitsArePast
        <5>. QED
          BY <5>1
      <4>. QED
        BY <2>4, <4>2, <4>3
    <3>. QED
      BY <3>1 DEF TwiceUnheard
  <2>. QED
    BY <2>6, <2>7 DEF TillInv
<1>2. ASSUME NEW i \in DOMAIN book, NEW restock \in BOOLEAN, Cancel(i, restock) PROVE TillInv'
  <2>1. i \in 1..Len(book) /\ book[i] \in OrderType
    BY LenProperties, ElementOfSeq
  <2>2. book' = [book EXCEPT ![i] = [book[i] EXCEPT !.cancelled = TRUE]] /\ sale' = sale
    BY <1>2 DEF Cancel
  <2>3. PICK o : o = [book[i] EXCEPT !.cancelled = TRUE]
    OBVIOUS
  <2>4. o.source = book[i].source /\ o.visit = book[i].visit /\ o.number = book[i].number
    BY <2>1, <2>3 DEF OrderType
  <2>5. /\ DOMAIN book' = DOMAIN book
        /\ \A j \in DOMAIN book : /\ book'[j].source = book[j].source
                                  /\ book'[j].visit = book[j].visit
                                  /\ book'[j].number = book[j].number
    BY <2>2, <2>3, <2>4
  <2>. QED
    <3>1. RequestIsThisCustomers'
      BY <2>2 DEF TillInv, RequestIsThisCustomers
    <3>2. VisitsArePast'
      BY <2>5 DEF TillInv, VisitsArePast, FromCounter
    <3>3. SoldToThisCustomer'
      BY <2>2, <2>5 DEF TillInv, SoldToThisCustomer, AccountedFor, FromCounter
    <3>4. TwiceUnheard'
      BY <2>5 DEF TillInv, TwiceUnheard, FromCounter
    <3>. QED
      BY <3>1, <3>2, <3>3, <3>4 DEF TillInv
<1>3. ASSUME NEW v \in Variants, SoftDelete(v) PROVE TillInv'
  BY <1>3 DEF SoftDelete, TillInv, RequestIsThisCustomers, VisitsArePast,
     SoldToThisCustomer, AccountedFor, TwiceUnheard, FromCounter
<1>. QED
  BY <1>1, <1>2, <1>3 DEF Outside

\* The counter writes the order of the customer at the till, of whom there is
\* no other that still waits for its answer.
LEMMA CounterSells ==
  ASSUME ShelfTypeOK, FloorTypeOK, TillInv, NEW t \in Tills, CommitSale(t),
         UNCHANGED <<tillVars>>
  PROVE  TillInv'
PROOF
<1>. USE DEF ShelfTypeOK, tillVars
<1>1. sale[t] \in SaleRecord /\ sale[t].phase = "numbered"
  BY SaleMoves DEF CommitSale, SalePhases
<1>2. PICK o : o = [number |-> sale[t].number, source |-> "pos", basket |-> sale[t].basket,
                    visit |-> sale[t].visit, cancelled |-> FALSE]
  OBVIOUS
<1>3. o \in OrderType /\ o.source = "pos" /\ o.visit = sale[t].visit /\ o.number = sale[t].number
  BY <1>1, <1>2 DEF OrderType, SaleRecord
<1>4. book' = Append(book, o)
  BY <1>2 DEF CommitSale
<1>5. PICK n : /\ n \in Nat /\ DOMAIN book = 1..(n - 1) /\ book'[n] = o
               /\ \A i \in DOMAIN book : book'[i] = book[i] /\ i < n
               /\ \A i \in DOMAIN book' : i \in DOMAIN book \/ i = n
  BY <1>3, <1>4, BookGrows
<1>6. /\ sale'[t].phase = "committed" /\ sale'[t].number = sale[t].number
      /\ sale'[t].visit = sale[t].visit
      /\ \A u \in Tills \ {t} : sale'[u] = sale[u]
  BY <1>1 DEF CommitSale, SaleRecord
<1>7. sale[t].visit = <<t, visit[t]>> /\ screen[t] # "success" /\ visit[t] \in Nat
  BY <1>1 DEF TillInv, RequestIsThisCustomers, FloorTypeOK
<1>8. RequestIsThisCustomers'
  BY <1>1, <1>6, <1>7 DEF TillInv, RequestIsThisCustomers
<1>9. VisitsArePast'
  <2>1. ASSUME NEW i \in DOMAIN book', FromCounter(i)'
        PROVE  book'[i].visit \in Tills \X Nat
               /\ book'[i].visit[2] <= visit[book'[i].visit[1]]
    <3>1. CASE i = n
      <4>1. book'[i].visit = <<t, visit[t]>>
        BY <1>3, <1>5, <1>7, <3>1
      <4>. QED
        BY <1>7, <4>1
    <3>2. CASE i \in DOMAIN book
      BY <1>5, <2>1, <3>2 DEF TillInv, VisitsArePast, FromCounter
    <3>. QED
      BY <1>5, <3>1, <3>2
  <2>. QED
    BY <2>1 DEF VisitsArePast
<1>10. SoldToThisCustomer'
  <2>1. ASSUME NEW i \in DOMAIN book', NEW u \in Tills, FromCounter(i)',
               book'[i].visit = <<u, visit[u]>>
        PROVE  AccountedFor(i, u)'
    <3>1. CASE i = n
      BY <1>3, <1>5, <1>6, <1>7, <2>1, <3>1 DEF AccountedFor
    <3>2. CASE i \in DOMAIN book /\ u # t
      BY <1>5, <1>6, <2>1, <3>2 DEF TillInv, SoldToThisCustomer, AccountedFor, FromCounter
    <3>3. CASE i \in DOMAIN book /\ u = t
      BY <1>1, <1>5, <1>7, <2>1, <3>3 DEF TillInv, SoldToThisCustomer, AccountedFor, FromCounter
    <3>. QED
      BY <1>5, <3>1, <3>2, <3>3
  <2>. QED
    BY <2>1 DEF SoldToThisCustomer
<1>11. TwiceUnheard'
  <2>1. ASSUME NEW i \in DOMAIN book', NEW j \in DOMAIN book',
               i < j, FromCounter(i)', book'[i].visit = book'[j].visit
        PROVE  book'[i].number \in unheard'
    <3>1. i \in DOMAIN book /\ FromCounter(i) /\ book'[i] = book[i]
      <4>1. i # n
        BY <1>5, <2>1
      <4>. QED
        BY <1>5, <2>1, <4>1 DEF FromCounter
    <3>2. CASE j \in DOMAIN book
      BY <1>5, <2>1, <3>1, <3>2 DEF TillInv, TwiceUnheard
    <3>3. CASE j = n
      <4>1. AccountedFor(i, t)
        BY <1>3, <1>5, <1>7, <2>1, <3>1, <3>3 DEF TillInv, SoldToThisCustomer
      <4>. QED
        BY <1>1, <1>7, <3>1, <4>1 DEF AccountedFor
    <3>. QED
      BY <1>5, <3>2, <3>3
  <2>. QED
    BY <2>1 DEF TwiceUnheard
<1>. QED
  BY <1>8, <1>9, <1>10, <1>11 DEF TillInv

\* A request of a till moves on with the same customer; it keeps its number
\* once that is written.
LEMMA RequestMoves ==
  ASSUME TillInv, UNCHANGED <<book, visit, screen, unheard>>, NEW t \in Tills,
         sale[t].phase # "none", sale'[t].visit = sale[t].visit,
         \A u \in Tills \ {t} : sale'[u] = sale[u],
         sale[t].phase \in {"committed", "billed", "answerLost"} =>
           /\ sale'[t].phase \in {"committed", "billed", "answerLost"}
           /\ sale'[t].number = sale[t].number
  PROVE  TillInv'
PROOF
<1>1. RequestIsThisCustomers'
  BY DEF TillInv, RequestIsThisCustomers
<1>2. VisitsArePast' /\ TwiceUnheard'
  BY DEF TillInv, VisitsArePast, TwiceUnheard, FromCounter
<1>3. SoldToThisCustomer'
  BY DEF TillInv, SoldToThisCustomer, AccountedFor, FromCounter
<1>. QED
  BY <1>1, <1>2, <1>3 DEF TillInv

\* The screens: they leave a success only for the next customer, and close a
\* request only with its answer.
LEMMA TillServes ==
  ASSUME ShelfTypeOK, FloorTypeOK, TillInv, NEW t \in Tills, TillNext(t)
  PROVE  TillInv'
PROOF
<1>. USE DEF ShelfTypeOK, shelfVars, rows
<1>1. CASE Search(t) \/ \E v \in Variants : \/ addToCart(t, v) \/ increase(t, v)
                                          \/ \E left \in 0..basket[t][v] : decrease(t, v, left)
  <2>1. UNCHANGED <<book, sale, visit, screen, unheard>>
    BY <1>1 DEF Search, addToCart, increase, decrease
  <2>. QED
    BY <2>1 DEF TillInv, RequestIsThisCustomers, VisitsArePast, SoldToThisCustomer,
       AccountedFor, TwiceUnheard, FromCounter
<1>2. CASE handleProceed(t) \/ handleGenerateQr(t) \/ CloseCustomer(t) \/ BackFromQr(t)
  <2>1. /\ UNCHANGED <<book, sale, visit, unheard>>
        /\ \E place \in {"customer", "qr", "cart"} : screen' = [screen EXCEPT ![t] = place]
        /\ screen[t] # "success"
    BY <1>2 DEF handleProceed, handleGenerateQr, CloseCustomer, BackFromQr, GoTo
  <2>2. \A u \in Tills : screen[u] = "success" <=> screen'[u] = "success"
    BY <2>1 DEF FloorTypeOK
  <2>. QED
    BY <2>1, <2>2 DEF TillInv, RequestIsThisCustomers, VisitsArePast, SoldToThisCustomer,
       AccountedFor, TwiceUnheard, FromCounter
<1>3. CASE handlePaymentReceived(t)
  <2>1. PICK rec : rec = [phase |-> "asked", basket |-> basket[t], visit |-> <<t, visit[t]>>,
                          before |-> [v \in Variants |-> 0], number |-> 0]
    OBVIOUS
  <2>2. rec.visit = <<t, visit[t]>> /\ rec.phase = "asked"
    BY <2>1
  <2>3. sale' = [sale EXCEPT ![t] = rec] /\ sale[t].phase = "none" /\ screen[t] = "qr"
        /\ UNCHANGED <<book, visit, screen, unheard>>
    BY <1>3, <2>1 DEF handlePaymentReceived, PaymentOffered, AskSale, tillVars
  <2>4. sale'[t] = rec /\ \A u \in Tills \ {t} : sale'[u] = sale[u]
    BY <2>3
  <2>5. RequestIsThisCustomers'
    BY <2>2, <2>3, <2>4 DEF TillInv, RequestIsThisCustomers
  <2>6. VisitsArePast' /\ TwiceUnheard'
    BY <2>3 DEF TillInv, VisitsArePast, TwiceUnheard, FromCounter
  <2>7. SoldToThisCustomer'
    BY <2>3, <2>4 DEF TillInv, SoldToThisCustomer, AccountedFor, FromCounter
  <2>. QED
    BY <2>5, <2>6, <2>7 DEF TillInv
<1>4. CASE OrderCreated(t)
  <2>1. /\ sale' = [sale EXCEPT ![t] = NoSale] /\ screen' = [screen EXCEPT ![t] = "success"]
        /\ UNCHANGED <<book, visit, unheard>>
    BY <1>4 DEF OrderCreated, Close, GoTo
  <2>2. /\ sale'[t].phase = "none" /\ \A u \in Tills \ {t} : sale'[u] = sale[u]
        /\ screen'[t] = "success" /\ \A u \in Tills \ {t} : screen'[u] = screen[u]
    BY <2>1 DEF NoSale, FloorTypeOK
  <2>3. RequestIsThisCustomers'
    BY <2>1, <2>2 DEF TillInv, RequestIsThisCustomers
  <2>4. VisitsArePast' /\ TwiceUnheard'
    BY <2>1 DEF TillInv, VisitsArePast, TwiceUnheard, FromCounter
  <2>5. SoldToThisCustomer'
    BY <2>1, <2>2 DEF TillInv, SoldToThisCustomer, AccountedFor, FromCounter
  <2>. QED
    BY <2>3, <2>4, <2>5 DEF TillInv
<1>5. CASE OrderNotCreated(t)
  <2>1. /\ sale' = [sale EXCEPT ![t] = NoSale] /\ UNCHANGED <<book, visit, screen>>
        /\ sale[t].phase \in {"refused", "answerLost"}
        /\ unheard \subseteq unheard'
        /\ sale[t].phase = "answerLost" => sale[t].number \in unheard'
    BY <1>5 DEF OrderNotCreated, Close
  <2>2. sale'[t].phase = "none" /\ \A u \in Tills \ {t} : sale'[u] = sale[u]
    BY <2>1 DEF NoSale
  <2>3. RequestIsThisCustomers'
    BY <2>1, <2>2 DEF TillInv, RequestIsThisCustomers
  <2>4. VisitsArePast' /\ TwiceUnheard'
    BY <2>1 DEF TillInv, VisitsArePast, TwiceUnheard, FromCounter
  <2>5. SoldToThisCustomer'
    BY <2>1, <2>2 DEF TillInv, SoldToThisCustomer, AccountedFor, FromCounter
  <2>. QED
    BY <2>3, <2>4, <2>5 DEF TillInv
<1>6. CASE handleNewSale(t)
  <2>1. /\ visit' = [visit EXCEPT ![t] = visit[t] + 1] /\ UNCHANGED <<book, sale, unheard>>
        /\ screen[t] = "success" /\ screen' = [screen EXCEPT ![t] = "cart"]
    BY <1>6 DEF handleNewSale, SuccessShown
  <2>2. /\ visit \in [Tills -> Nat] /\ visit'[t] = visit[t] + 1
        /\ \A u \in Tills \ {t} : visit'[u] = visit[u] /\ screen'[u] = screen[u]
    BY <2>1 DEF FloorTypeOK
  <2>3. sale[t].phase = "none"
    BY <2>1 DEF TillInv, RequestIsThisCustomers
  <2>4. RequestIsThisCustomers'
    BY <2>1, <2>2, <2>3 DEF TillInv, RequestIsThisCustomers
  <2>5. TwiceUnheard'
    BY <2>1 DEF TillInv, TwiceUnheard, FromCounter
  <2>6. ASSUME NEW i \in DOMAIN book, FromCounter(i)
        PROVE  /\ book[i].visit \in Tills \X Nat
               /\ book[i].visit[2] <= visit'[book[i].visit[1]]
               /\ book[i].visit # <<t, visit'[t]>>
    <3>1. PICK u \in Tills, n \in Nat : book[i].visit = <<u, n>> /\ n <= visit[u]
      BY <2>6 DEF TillInv, VisitsArePast
    <3>2. visit[u] \in Nat /\ visit[t] \in Nat
      BY <2>2
    <3>. QED
      BY <2>2, <3>1, <3>2
  <2>7. VisitsArePast'
    BY <2>1, <2>6 DEF VisitsArePast, FromCounter
  <2>8. SoldToThisCustomer'
    <3>1. ASSUME NEW i \in DOMAIN book, NEW u \in Tills, FromCounter(i),
                 book[i].visit = <<u, visit'[u]>>
          PROVE  AccountedFor(i, u)'
      <4>1. u # t
        BY <2>6, <3>1
      <4>2. AccountedFor(i, u)
        BY <2>2, <3>1, <4>1 DEF TillInv, SoldToThisCustomer
      <4>. QED
        BY <2>1, <2>2, <4>1, <4>2 DEF AccountedFor
    <3>. QED
      BY <2>1, <3>1 DEF SoldToThisCustomer, FromCounter
  <2>. QED
    BY <2>4, <2>5, <2>7, <2>8 DEF TillInv
<1>. QED
  BY <1>1, <1>2, <1>3, <1>4, <1>5, <1>6 DEF TillNext

\* Nobody else does anything to a till.
LEMMA TillStep ==
  ASSUME FloorTypes, TillInv, [Next]_vars
  PROVE  TillInv'
PROOF
<1>. USE DEF FloorTypes, ShelfTypeOK
<1>1. CASE Handlers /\ UNCHANGED <<tillVars, pageVars, sheet>>
  <2>1. UNCHANGED <<visit, screen, unheard>>
    BY <1>1 DEF tillVars
  <2>2. ASSUME NEW t \in Tills, CommitSale(t) PROVE TillInv'
    BY <1>1, <2>2, CounterSells
  <2>3. ASSUME NEW t \in Tills,
               CheckSale(t) \/ TakeNumber(t) \/ SaleNumberTaken(t) \/ SaveBill(t) \/ SaleFails(t)
        PROVE  TillInv'
    <3>1. sale[t] \in SaleRecord /\ sale[t].phase \in SalePhases /\ sale[t].phase # "none"
      BY <2>3, SaleMoves DEF CheckSale, TakeNumber, SaleNumberTaken, SaveBill, SaleFails,
         SalePhases
    <3>2. book' = book /\ \A u \in Tills \ {t} : sale'[u] = sale[u]
      BY <2>3 DEF CheckSale, TakeNumber, SaleNumberTaken, SaveBill, SaleFails, rows
    <3>3. sale'[t].visit = sale[t].visit
      BY <2>3, <3>1 DEF CheckSale, TakeNumber, SaleNumberTaken, SaveBill, SaleFails, SaleRecord
    <3>4. ASSUME sale[t].phase \in {"committed", "billed", "answerLost"}
          PROVE  /\ sale'[t].phase \in {"committed", "billed", "answerLost"}
                 /\ sale'[t].number = sale[t].number
      <4>1. SaveBill(t) \/ SaleFails(t)
        BY <2>3, <3>4 DEF CheckSale, TakeNumber, SaleNumberTaken
      <4>2. PICK p \in {"billed", "answerLost"} : sale' = [sale EXCEPT ![t].phase = p]
        <5>1. CASE SaveBill(t)
          BY <5>1 DEF SaveBill
        <5>2. CASE SaleFails(t)
          BY <3>4, <5>2 DEF SaleFails
        <5>. QED
          BY <4>1, <5>1, <5>2
      <4>. QED
        BY <3>1, <4>2 DEF SaleRecord
    <3>. QED
      BY <2>1, <3>1, <3>2, <3>3, <3>4, RequestMoves
  <2>4. ASSUME NEW a \in Adjustments, ServesAdjustment(a) \/ AdjustFails(a) PROVE TillInv'
    <3>1. UNCHANGED <<book, sale>>
      BY <2>4 DEF ServesAdjustment, ReadStock, WriteStock, AdjustFails, rows
    <3>. QED
      BY <2>1, <3>1 DEF TillInv, RequestIsThisCustomers, VisitsArePast, SoldToThisCustomer,
         AccountedFor, TwiceUnheard, FromCounter
  <2>. QED
    BY <1>1, <2>2, <2>3, <2>4 DEF Handlers, ServesTill
<1>2. CASE Outside /\ UNCHANGED <<tillVars, pageVars, sheet>>
  BY <1>2, OtherOrders
<1>3. ASSUME NEW t \in Tills, TillNext(t) PROVE TillInv'
  BY <1>3, TillServes
<1>4. CASE ButtonsNext \/ DrawerNext \/ SheetNext \/ UNCHANGED vars
  <2>1. UNCHANGED <<book, sale, visit, screen, unheard>>
    <3>1. CASE ButtonsNext
      BY <3>1 DEF ButtonsNext, TapApplied, TapRefused, quickAdjust, rows, tillVars
    <3>2. CASE DrawerNext
      BY <3>2 DEF DrawerNext, OpenDrawer, DrawerAnswered, submitDrawer, shelfVars, rows, tillVars
    <3>3. CASE SheetNext
      BY <3>3 DEF SheetNext, Upload, runImport, ImportDone, SendRow, RowAnswered, shelfVars,
         rows, tillVars
    <3>4. CASE UNCHANGED vars
      BY <3>4 DEF vars, shelfVars, rows, tillVars
    <3>. QED
      BY <1>4, <3>1, <3>2, <3>3, <3>4
  <2>. QED
    BY <2>1 DEF TillInv, RequestIsThisCustomers, VisitsArePast, SoldToThisCustomer,
       AccountedFor, TwiceUnheard, FromCounter
<1>. QED
  BY <1>1, <1>2, <1>3, <1>4 DEF Next, Screens

\* TwiceOnlyAfterLostAnswer: the till makes no second order for a customer and
\* the import panel applies no row a second time, unless the first was made and
\* only its answer was lost.
THEOREM TwiceOnlyIfUnheard == Spec => []TwiceOnlyAfterLostAnswer
PROOF
<1>. USE ShelfAssumption, FloorAssumption
<1>1. Init => FloorTypes /\ SheetInv /\ TillInv
  <2>1. ASSUME Init PROVE SheetInv
    BY <2>1 DEF Init, NoSheet, SheetInv
  <2>2. ASSUME Init PROVE TillInv
    BY <2>2 DEF Init, ShelfInit, NoSale, TillInv, RequestIsThisCustomers, VisitsArePast,
       SoldToThisCustomer, TwiceUnheard
  <2>. QED
    BY <2>1, <2>2, FloorTypesInit
<1>2. FloorTypes /\ SheetInv /\ TillInv /\ [Next]_vars => (FloorTypes /\ SheetInv /\ TillInv)'
  BY FloorTypesStep, SheetStep, TillStep
<1>3. FloorTypes /\ SheetInv /\ TillInv => TwiceOnlyAfterLostAnswer
  <2>1. ASSUME FloorTypes, SheetInv, NEW one \in sheet.sent, NEW other \in sheet.sent,
               one[1] # other[1], one[2] = other[2], Wrote(one[1]), Wrote(other[1])
        PROVE  "answerLost" \in {adjustment[one[1]].phase, adjustment[other[1]].phase}
    BY <2>1 DEF SheetInv, Over, Wrote
  <2>. QED
    BY <2>1 DEF TillInv, TwiceUnheard, FromCounter, TwiceOnlyAfterLostAnswer
<1>. QED
  BY <1>1, <1>2, <1>3, PTL DEF Spec
=============================================================================

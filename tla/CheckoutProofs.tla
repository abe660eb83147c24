--------------------------- MODULE CheckoutProofs ---------------------------
(***************************************************************************)
(* Theorems about Checkout, for every set of requests, carts and coupons:  *)
(* types, stock and answers; then the books: shelf, history, keys, numbers, *)
(* counters and coupons agree with the orders, and the transaction         *)
(* implements the atomic placement of OrderBook.                           *)
(***************************************************************************)
EXTENDS Checkout, FiniteLaws, SequenceTheorems

-----------------------------------------------------------------------------
(* Facts about the carts.                                                  *)

\* Every line of a body names a variant and a positive quantity.
LEMMA LineFacts ==
  ASSUME NEW r \in Requests, NEW i \in 1..Len(Lines[r])
  PROVE  /\ Lines[r][i].variant \in Variants
         /\ Lines[r][i].quantity \in Nat
         /\ Lines[r][i].quantity > 0
PROOF
<1>1. Lines[r] \in Seq(Line)
  BY ConstantsAssumption DEF ConstantsAssumption
<1>2. Lines[r][i] \in Line
  BY <1>1
<1>. QED
  BY <1>2 DEF Line

\* A body has at least one line.
LEMMA SomeLine ==
  ASSUME NEW r \in Requests
  PROVE  Len(Lines[r]) \in Nat /\ Len(Lines[r]) >= 1
PROOF
<1>1. Lines[r] \in Seq(Line) /\ Lines[r] # << >>
  BY ConstantsAssumption DEF ConstantsAssumption
<1>. QED
  BY <1>1, EmptySeq

-----------------------------------------------------------------------------
(* Types.                                                                  *)

\* Ending a transaction resets local state to values of its types.
LEMMA EndTransactionType ==
  ASSUME TypeOK, NEW S, EndTransaction(S)
  PROVE  /\ line' \in [Requests -> Nat]
         /\ held' \in [Requests -> SUBSET Row]
         /\ current' \in [Requests -> Nat]
         /\ audit' \in [Requests -> Seq(Event)]
         /\ applied' \in [Requests -> SUBSET Promotions]
PROOF
<1>1. << >> \in Seq(Event)
  BY EmptySeq
<1>. QED
  BY <1>1 DEF TypeOK, EndTransaction

\* A rollback publishes nothing.
LEMMA RollbackType ==
  ASSUME TypeOK, NEW r \in Requests, NEW answer \in Answered,
         Rollback(r, answer)
  PROVE  TypeOK'
PROOF
<1>1. /\ pc' \in [Requests -> {"idle"} \cup Running \cup Answered]
      /\ \A q \in Requests :
           /\ pc'[q] = "stock" => line'[q] \in 1..Len(Lines[q])
           /\ pc'[q] \in {"bumpCoupon", "redeem"} => CouponOf[q] \in Coupons
  BY DEF TypeOK, Rollback, Goto, EndTransaction, Answered, Refused
<1>2. UNCHANGED rows
  BY DEF Rollback
<1>. QED
  BY <1>1, <1>2, EndTransactionType DEF TypeOK, Rollback, rows

\* The steps outside the transaction touch pc, applied and payments.
LEMMA OutsideType ==
  ASSUME TypeOK, NEW r \in Requests,
         \/ Replay(r) \/ StartFresh(r) \/ BeforeTransaction(r)
         \/ AfterTransaction(r)
  PROVE  TypeOK'
PROOF
<1>. USE DEF TypeOK, rows, Goto, Running, Answered, Refused, InTransaction
<1>1. CASE Replay(r) \/ StartFresh(r)
  BY <1>1 DEF Replay, StartFresh
<1>2. CASE ReadCatalogue(r) \/ EvaluateRejects(r)
  BY <1>2 DEF ReadCatalogue, EvaluateRejects
<1>3. CASE Evaluate(r)
  <2>1. ASSUME NEW kept \in SUBSET {p \in Automatic : promotionActive[p]}
        PROVE  kept \cup {PromotionOf[c] : c \in {CouponOf[r]} \cap Coupons}
                 \in SUBSET Promotions
    BY ConstantsAssumption DEF ConstantsAssumption
  <2>2. 1 \in 1..Len(Lines[r])
    BY SomeLine
  <2>. QED
    BY <1>3, <2>1, <2>2 DEF Evaluate
<1>4. CASE AfterTransaction(r)
  BY <1>4 DEF AfterTransaction, CreateSession, CreatePayment, CreatePaymentFails
<1>. QED
  BY <1>1, <1>2, <1>3, <1>4 DEF BeforeTransaction

\* The rows a request may lock.
LEMMA RowFacts ==
  ASSUME NEW r \in Requests
  PROVE  /\ CustomerRow(r) \in Row
         /\ SettingRow \in Row
         /\ \A i \in 1..Len(Lines[r]) : VariantRow(Lines[r][i].variant) \in Row
         /\ CouponOf[r] # NoCoupon =>
              CouponOf[r] \in Coupons /\ CouponRow(CouponOf[r]) \in Row
         /\ \A p \in Promotions : PromotionRow(p) \in Row
PROOF
<1>1. \A i \in 1..Len(Lines[r]) : Lines[r][i].variant \in Variants
  BY LineFacts
<1>. QED
  BY <1>1, ConstantsAssumption DEF Row, ConstantsAssumption

\* The statements of the transaction, its commit apart, change no row.
LEMMA StatementType ==
  ASSUME TypeOK, NEW r \in Requests, Statement(r), ~Commit(r)
  PROVE  TypeOK'
PROOF
<1>. USE DEF TypeOK, rows, Goto, Running, Answered, Refused, InTransaction
<1>1. CASE TakeStock(r)
  <2>1. line[r] \in 1..Len(Lines[r])
    BY <1>1 DEF TakeStock
  <2>2. VariantRow(Lines[r][line[r]].variant) \in Row
    BY <2>1, RowFacts
  <2>3. line[r] + 1 \in Nat /\ line[r] # Len(Lines[r]) => line[r] + 1 \in 1..Len(Lines[r])
    BY <2>1, SomeLine
  <2>. QED
    BY <1>1, <2>1, <2>2, <2>3 DEF TakeStock
<1>2. CASE WriteInventory(r)
  <2>1. \A i \in 1..Len(Lines[r]) : InventoryEvent(r, Lines[r][i]) \in Event
    BY LineFacts DEF InventoryEvent, Event
  <2>2. [i \in 1..Len(Lines[r]) |-> InventoryEvent(r, Lines[r][i])] \in Seq(Event)
    BY <2>1, SomeLine
  <2>. QED
    BY <1>2, <2>2 DEF WriteInventory
<1>3. CASE UpsertCustomer(r)
  <2>1. CustomerRow(r) \in Row
    BY RowFacts
  <2>. QED
    BY <1>3, <2>1 DEF UpsertCustomer
<1>10. CASE WriteNumber(r)
  <2>1. SettingRow \in Row
    BY RowFacts
  <2>. QED
    BY <1>10, <2>1 DEF WriteNumber
<1>4. CASE ReadNumber(r)
  BY <1>4 DEF ReadNumber
<1>5. CASE InsertOrder(r) \/ Redeem(r)
  BY <1>5 DEF InsertOrder, Redeem
<1>6. CASE ReadCoupon(r)
  BY <1>6, RowFacts DEF ReadCoupon
<1>7. CASE BumpCoupon(r)
  BY <1>7, RowFacts, ConstantsAssumption DEF BumpCoupon, ConstantsAssumption
<1>8. CASE BumpPromotions(r)
  BY <1>8, RowFacts DEF BumpPromotions
<1>9. CASE OutOfStock(r) \/ SettingTaken(r) \/ NumberTaken(r) \/ KeyTaken(r)
           \/ ReadCouponFails(r) \/ BumpCouponFails(r) \/ RedeemFails(r)
           \/ Timeout(r)
  BY <1>9, RollbackType
     DEF OutOfStock, SettingTaken, NumberTaken, KeyTaken, ReadCouponFails,
         BumpCouponFails, RedeemFails, Timeout
<1>. QED
  BY <1>1, <1>2, <1>3, <1>4, <1>5, <1>6, <1>7, <1>8, <1>9, <1>10 DEF Statement

\* What a cart holds of a variant is a number.
LEMMA QuantityType ==
  ASSUME NEW r \in Requests, NEW v \in VariantsOf(r)
  PROVE  QuantityOf(r, v) \in Nat
PROOF
<1>1. \E i \in 1..Len(Lines[r]) : Lines[r][i].variant = v
  BY DEF VariantsOf
<1>. QED
  BY <1>1, LineFacts DEF QuantityOf

\* A commit stores values of the right types.
LEMMA CommitType ==
  ASSUME TypeOK, NEW r \in Requests, Commit(r)
  PROVE  TypeOK'
PROOF
<1>1. \A v \in VariantsOf(r) : QuantityOf(r, v) \in Nat
  BY QuantityType
<1>2. stock' \in [Variants -> Int]
  BY <1>1 DEF TypeOK, Commit
<1>3. inventory' \in Seq(Event)
  BY ConcatProperties DEF TypeOK, Commit
<1>4. customerOrders' \in [Phones -> Nat] /\ promotionUses' \in [Promotions -> Nat]
  BY ConstantsAssumption DEF ConstantsAssumption, TypeOK, Commit, Count
<1>5. setting' \in Nat /\ orders' \subseteq [request : Requests, number : Nat,
                                            promotions : SUBSET Promotions]
  BY DEF TypeOK, Commit, NumberOf
<1>6. usageCount' \in [Coupons -> Nat] /\ usages' \subseteq Requests
  BY DEF TypeOK, Commit
<1>7. /\ pc' \in [Requests -> {"idle"} \cup Running \cup Answered]
      /\ \A q \in Requests :
           /\ pc'[q] = "stock" => line'[q] \in 1..Len(Lines[q])
           /\ pc'[q] \in {"bumpCoupon", "redeem"} => CouponOf[q] \in Coupons
  BY DEF TypeOK, Commit, Goto, EndTransaction, Running
<1>8. UNCHANGED <<variantActive, productActive, couponActive, promotionActive,
                  payments>> /\ EndTransaction({r})
  BY DEF Commit
<1>. QED
  BY <1>2, <1>3, <1>4, <1>5, <1>6, <1>7, <1>8, EndTransactionType DEF TypeOK

\* Rows and local state keep their types.
THEOREM TypeCorrect == Spec => []TypeOK
PROOF
<1>1. Init => TypeOK
  BY ConstantsAssumption, EmptySeq
     DEF ConstantsAssumption, Init, TypeOK
<1>2. TypeOK /\ [Next]_vars => TypeOK'
  <2>. SUFFICES ASSUME TypeOK, [Next]_vars PROVE TypeOK'
    OBVIOUS
  <2>1. ASSUME NEW r \in Requests, Replay(r) \/ StartFresh(r) PROVE TypeOK'
    BY <2>1, OutsideType
  <2>2. ASSUME NEW r \in Requests, Progress(r), ~Commit(r) PROVE TypeOK'
    BY <2>2, OutsideType, StatementType DEF Progress
  <2>3. ASSUME NEW r \in Requests, Commit(r) PROVE TypeOK'
    BY <2>3, CommitType
  <2>4. CASE Crash
    BY <2>4, EndTransactionType
       DEF Crash, TypeOK, rows, Running, Answered, Refused, InTransaction, EndTransaction
  <2>5. ASSUME NEW p \in Products, DeactivateProduct(p) PROVE TypeOK'
    BY <2>5 DEF DeactivateProduct, TypeOK, requestVars
  <2>6. ASSUME NEW v \in Variants, DeactivateVariant(v) PROVE TypeOK'
    BY <2>6 DEF DeactivateVariant, TypeOK, requestVars
  <2>7. ASSUME NEW c \in Coupons, DeactivateCoupon(c) PROVE TypeOK'
    BY <2>7 DEF DeactivateCoupon, TypeOK, requestVars
  <2>8. ASSUME NEW p \in Promotions, DeactivatePromotion(p) PROVE TypeOK'
    BY <2>8 DEF DeactivatePromotion, TypeOK, requestVars
  <2>9. CASE UNCHANGED vars
    BY <2>9 DEF vars, TypeOK
  <2>. QED
    BY <2>1, <2>2, <2>3, <2>4, <2>5, <2>6, <2>7, <2>8, <2>9 DEF Next
<1>. QED
  BY <1>1, <1>2, PTL DEF Spec

-----------------------------------------------------------------------------
(* The stock.                                                              *)

\* Different variants have different rows, and no variant's row is one of
\* another kind.
LEMMA VariantRowsDiffer ==
  ASSUME NEW v, NEW w
  PROVE  /\ VariantRow(v) = VariantRow(w) => v = w
PROOF
  BY DEF VariantRow

\* The line QuantityOf looks up is the only one of the variant.
LEMMA QuantityOfLine ==
  ASSUME NEW r \in Requests, NoRepeatedVariant(r), NEW v \in VariantsOf(r)
  PROVE  \E i \in 1..Len(Lines[r]) :
           Lines[r][i].variant = v /\ QuantityOf(r, v) = Lines[r][i].quantity
PROOF
<1>1. \E i \in 1..Len(Lines[r]) : Lines[r][i].variant = v
  BY DEF VariantsOf
<1>. QED
  BY <1>1 DEF QuantityOf

\* A step that changes no stock, takes no lock and lets request r only leave
\* the transaction or stay where it is with its line keeps the invariant.
LEMMA QuietStep ==
  ASSUME TypeOK, StockInv, UNCHANGED stock,
         \A r \in Requests :
           /\ held'[r] \subseteq held[r]
           /\ pc'[r] \in InTransaction =>
                /\ pc[r] \in InTransaction
                /\ held'[r] = held[r] /\ line'[r] = line[r]
                /\ pc'[r] = "stock" <=> pc[r] = "stock"
  PROVE  StockInv'
PROOF
<1>1. StockNeverNegative'
  BY DEF StockInv, StockNeverNegative
<1>2. LocksExclusive'
  BY DEF StockInv, LocksExclusive
<1>3. LinesReserved'
  BY DEF StockInv, LinesReserved
<1>. QED
  BY <1>1, <1>2, <1>3 DEF StockInv

\* A later statement locks more rows, all of them free.
LEMMA LockingStep ==
  ASSUME TypeOK, StockInv, NEW r \in Requests, NEW S, NEW place,
         UNCHANGED <<stock, line>>,
         held' = [held EXCEPT ![r] = @ \cup S],
         \A row \in S : CanLock(r, row),
         Goto(r, place), place \in InTransaction \ {"stock"},
         pc[r] \in InTransaction \ {"stock"}
  PROVE  StockInv'
PROOF
<1>1. StockNeverNegative'
  BY DEF StockInv, StockNeverNegative
<1>2. LocksExclusive'
  BY DEF StockInv, LocksExclusive, TypeOK, CanLock
<1>3. LinesReserved'
  BY DEF StockInv, LinesReserved, TypeOK, Goto
<1>. QED
  BY <1>1, <1>2, <1>3 DEF StockInv

\* The loop locks the row of its next line and finds it covered.
LEMMA TakeStockStep ==
  ASSUME TypeOK, StockInv, NEW r \in Requests, TakeStock(r)
  PROVE  StockInv'
PROOF
<1>. DEFINE row == VariantRow(Lines[r][line[r]].variant)
<1>1. /\ line[r] \in 1..Len(Lines[r])
      /\ CanLock(r, row)
      /\ held' = [held EXCEPT ![r] = @ \cup {row}]
      /\ line' = [line EXCEPT ![r] = @ + 1]
      /\ pc' = [pc EXCEPT ![r] = IF line[r] = Len(Lines[r]) THEN "inventory" ELSE "stock"]
      /\ stock[Lines[r][line[r]].variant] >= Lines[r][line[r]].quantity
      /\ UNCHANGED stock
  BY DEF TakeStock, TypeOK, rows, Goto, Available
<1>2. StockNeverNegative'
  BY <1>1 DEF StockInv, StockNeverNegative
<1>3. LocksExclusive'
  BY <1>1 DEF StockInv, LocksExclusive, TypeOK, CanLock
<1>4. LinesReserved'
  <2>. SUFFICES ASSUME NEW q \in Requests, pc'[q] \in InTransaction
                PROVE  /\ NoRepeatedVariant(q)
                       /\ line'[q] \in 1..Len(Lines[q]) + 1
                       /\ pc'[q] = "stock" <=> line'[q] <= Len(Lines[q])
                       /\ \A i \in 1..line'[q] - 1 :
                            /\ VariantRow(Lines[q][i].variant) \in held'[q]
                            /\ stock'[Lines[q][i].variant] >= Lines[q][i].quantity
    BY DEF LinesReserved
  <2>1. CASE q # r
    BY <2>1, <1>1 DEF StockInv, LinesReserved, TypeOK
  <2>2. CASE q = r
    <3>1. pc[r] = "stock" /\ pc[r] \in InTransaction
      BY DEF TakeStock, InTransaction
    <3>2. /\ NoRepeatedVariant(r)
          /\ \A i \in 1..line[r] - 1 :
               /\ VariantRow(Lines[r][i].variant) \in held[r]
               /\ stock[Lines[r][i].variant] >= Lines[r][i].quantity
      BY <3>1 DEF StockInv, LinesReserved
    <3>3. line'[r] = line[r] + 1 /\ held'[r] = held[r] \cup {row}
      BY <1>1 DEF TypeOK
    <3>4. Len(Lines[r]) \in Nat
      BY SomeLine
    <3>5. pc'[r] = IF line[r] = Len(Lines[r]) THEN "inventory" ELSE "stock"
      BY <1>1 DEF TypeOK
    <3>. QED
      BY <2>2, <1>1, <3>2, <3>3, <3>4, <3>5
  <2>. QED
    BY <2>1, <2>2
<1>. QED
  BY <1>2, <1>3, <1>4 DEF StockInv

\* Past the loop every line is locked and covered.
LEMMA LinesCovered ==
  ASSUME StockInv, NEW r \in Requests, pc[r] \in InTransaction, pc[r] # "stock"
  PROVE  /\ NoRepeatedVariant(r)
         /\ \A i \in 1..Len(Lines[r]) :
              /\ VariantRow(Lines[r][i].variant) \in held[r]
              /\ stock[Lines[r][i].variant] >= Lines[r][i].quantity
PROOF
<1>1. /\ NoRepeatedVariant(r)
      /\ line[r] \in 1..Len(Lines[r]) + 1
      /\ ~(line[r] <= Len(Lines[r]))
      /\ \A i \in 1..line[r] - 1 :
           /\ VariantRow(Lines[r][i].variant) \in held[r]
           /\ stock[Lines[r][i].variant] >= Lines[r][i].quantity
  BY DEF StockInv, LinesReserved
<1>2. line[r] = Len(Lines[r]) + 1
  BY <1>1, SomeLine
<1>. QED
  BY <1>1, <1>2, SomeLine

\* Publishing the decrements leaves no count below zero, and touches no row
\* that another transaction counts on.
LEMMA CommitStep ==
  ASSUME TypeOK, StockInv, NEW r \in Requests, Commit(r)
  PROVE  StockInv'
PROOF
<1>1. /\ NoRepeatedVariant(r)
      /\ \A i \in 1..Len(Lines[r]) :
           /\ VariantRow(Lines[r][i].variant) \in held[r]
           /\ stock[Lines[r][i].variant] >= Lines[r][i].quantity
  BY LinesCovered DEF Commit, InTransaction
<1>2. \A v \in VariantsOf(r) :
         /\ VariantRow(v) \in held[r]
         /\ QuantityOf(r, v) \in Nat /\ stock[v] >= QuantityOf(r, v)
  BY <1>1, QuantityOfLine, LineFacts
<1>3. StockNeverNegative'
  BY <1>2 DEF Commit, StockInv, StockNeverNegative, TypeOK
<1>4. \A q \in Requests :
         /\ held'[q] = (IF q = r THEN {} ELSE held[q])
         /\ q # r => pc'[q] = pc[q] /\ line'[q] = line[q]
  BY DEF Commit, EndTransaction, Goto, TypeOK
<1>5. LocksExclusive'
  BY <1>4 DEF StockInv, LocksExclusive
<1>6. LinesReserved'
  <2>. SUFFICES ASSUME NEW q \in Requests, pc'[q] \in InTransaction
                PROVE  /\ NoRepeatedVariant(q)
                       /\ line'[q] \in 1..Len(Lines[q]) + 1
                       /\ pc'[q] = "stock" <=> line'[q] <= Len(Lines[q])
                       /\ \A i \in 1..line'[q] - 1 :
                            /\ VariantRow(Lines[q][i].variant) \in held'[q]
                            /\ stock'[Lines[q][i].variant] >= Lines[q][i].quantity
    BY DEF LinesReserved
  <2>1. q # r
    BY DEF Commit, Goto, TypeOK, InTransaction
  <2>2. /\ NoRepeatedVariant(q)
        /\ line[q] \in 1..Len(Lines[q]) + 1
        /\ pc[q] = "stock" <=> line[q] <= Len(Lines[q])
        /\ \A i \in 1..line[q] - 1 :
             /\ VariantRow(Lines[q][i].variant) \in held[q]
             /\ stock[Lines[q][i].variant] >= Lines[q][i].quantity
    BY <1>4, <2>1 DEF StockInv, LinesReserved
  <2>3. ASSUME NEW i \in 1..line[q] - 1
        PROVE  stock'[Lines[q][i].variant] = stock[Lines[q][i].variant]
    <3>1. i \in 1..Len(Lines[q])
      BY <2>2, SomeLine
    <3>2. Lines[q][i].variant \in Variants
      BY <3>1, LineFacts
    <3>3. held[q] \cap held[r] = {}
      BY <2>1 DEF StockInv, LocksExclusive
    <3>4. Lines[q][i].variant \notin VariantsOf(r)
      BY <3>3, <2>2, <1>2
    <3>. QED
      BY <3>2, <3>4 DEF Commit
  <2>. QED
    BY <1>4, <2>1, <2>2, <2>3
<1>. QED
  BY <1>3, <1>5, <1>6 DEF StockInv

\* A cart enters the transaction with distinct variants and no line passed.
LEMMA EvaluateStep ==
  ASSUME TypeOK, StockInv, NEW r \in Requests, Evaluate(r)
  PROVE  StockInv'
PROOF
<1>1. /\ UNCHANGED <<stock, held>>
      /\ pc' = [pc EXCEPT ![r] = "stock"]
      /\ line' = [line EXCEPT ![r] = 1]
      /\ NoRepeatedVariant(r)
  BY DEF Evaluate, Goto, rows, Sellable
<1>2. StockNeverNegative' /\ LocksExclusive'
  BY <1>1 DEF StockInv, StockNeverNegative, LocksExclusive
<1>3. LinesReserved'
  BY <1>1, SomeLine DEF StockInv, LinesReserved, TypeOK
<1>. QED
  BY <1>2, <1>3 DEF StockInv

\* Every line a transaction has passed stays locked and covered.
LEMMA StockInvariant == Spec => []StockInv
PROOF
<1>1. Init => StockInv
  BY ConstantsAssumption
     DEF ConstantsAssumption, Init, StockInv, StockNeverNegative,
         LocksExclusive, LinesReserved, InTransaction
<1>2. TypeOK /\ StockInv /\ [Next]_vars => StockInv'
  <2>. SUFFICES ASSUME TypeOK, StockInv, [Next]_vars PROVE StockInv'
    OBVIOUS
  <2>1. ASSUME NEW r \in Requests, Replay(r) \/ StartFresh(r) \/ AfterTransaction(r)
        PROVE  StockInv'
    BY <2>1, QuietStep
       DEF Replay, StartFresh, AfterTransaction, CreateSession, CreatePayment,
           CreatePaymentFails, Goto, rows, TypeOK, InTransaction
  <2>2. ASSUME NEW r \in Requests, BeforeTransaction(r) PROVE StockInv'
    BY <2>2, QuietStep, EvaluateStep
       DEF BeforeTransaction, ReadCatalogue, EvaluateRejects, Goto, rows,
           TypeOK, InTransaction
  <2>3. ASSUME NEW r \in Requests, NEW answer \in Refused, Rollback(r, answer)
        PROVE  StockInv'
    BY <2>3, QuietStep
       DEF Rollback, EndTransaction, Goto, rows, TypeOK, Refused, InTransaction
  <2>4. ASSUME NEW r \in Requests, Statement(r) PROVE StockInv'
    <3>1. CASE TakeStock(r)
      BY <3>1, TakeStockStep
    <3>2. CASE Commit(r)
      BY <3>2, CommitStep
    <3>3. CASE UpsertCustomer(r)
      <4>. DEFINE S == {CustomerRow(r)}
      <4>1. /\ held' = [held EXCEPT ![r] = @ \cup S]
            /\ \A row \in S : CanLock(r, row)
        BY <3>3 DEF UpsertCustomer
      <4>. HIDE DEF S
      <4>. QED
        BY <3>3, <4>1, LockingStep DEF UpsertCustomer, rows, InTransaction
    <3>4. CASE WriteNumber(r)
      <4>. DEFINE S == {SettingRow}
      <4>1. /\ held' = [held EXCEPT ![r] = @ \cup S]
            /\ \A row \in S : CanLock(r, row)
        BY <3>4 DEF WriteNumber
      <4>. HIDE DEF S
      <4>. QED
        BY <3>4, <4>1, LockingStep DEF WriteNumber, rows, InTransaction
    <3>5. CASE BumpCoupon(r)
      <4>. DEFINE S == {CouponRow(CouponOf[r])}
      <4>1. /\ held' = [held EXCEPT ![r] = @ \cup S]
            /\ \A row \in S : CanLock(r, row)
        BY <3>5 DEF BumpCoupon
      <4>. HIDE DEF S
      <4>. QED
        BY <3>5, <4>1, LockingStep DEF BumpCoupon, rows, InTransaction
    <3>6. CASE BumpPromotions(r)
      <4>. DEFINE S == {PromotionRow(p) : p \in applied[r]}
      <4>1. \A row \in S : CanLock(r, row)
        BY <3>6 DEF BumpPromotions
      <4>. QED
        BY <3>6, <4>1, LockingStep DEF BumpPromotions, rows, InTransaction
    <3>7. CASE WriteInventory(r) \/ ReadNumber(r) \/ InsertOrder(r)
                 \/ ReadCoupon(r) \/ Redeem(r)
      BY <3>7, QuietStep
         DEF WriteInventory, ReadNumber, InsertOrder, ReadCoupon, Redeem, Goto,
             rows, TypeOK, InTransaction
    <3>8. CASE OutOfStock(r) \/ SettingTaken(r) \/ NumberTaken(r)
                 \/ KeyTaken(r) \/ ReadCouponFails(r) \/ BumpCouponFails(r)
                 \/ RedeemFails(r) \/ Timeout(r)
      BY <3>8, <2>3
         DEF OutOfStock, SettingTaken, NumberTaken, KeyTaken, ReadCouponFails,
             BumpCouponFails, RedeemFails, Timeout, Refused
    <3>. QED
      BY <2>4, <3>1, <3>2, <3>3, <3>4, <3>5, <3>6, <3>7, <3>8 DEF Statement
  <2>5. CASE Crash
    BY <2>5, QuietStep DEF Crash, EndTransaction, rows, TypeOK, Running, InTransaction
  <2>6. ASSUME NEW x,
               \/ DeactivateProduct(x) \/ DeactivateVariant(x)
               \/ DeactivateCoupon(x) \/ DeactivatePromotion(x)
               \/ UNCHANGED vars
        PROVE  StockInv'
    BY <2>6, QuietStep
       DEF DeactivateProduct, DeactivateVariant, DeactivateCoupon,
           DeactivatePromotion, requestVars, vars
  <2>. QED
    BY <2>1, <2>2, <2>4, <2>5, <2>6 DEF Next, Progress
<1>. QED
  BY <1>1, <1>2, TypeCorrect, PTL DEF Spec

\* No interleaving of checkouts, withdrawals, timeouts and crashes drives a
\* stockCount below zero.
THEOREM NoOversell == Spec => []StockNeverNegative
PROOF
<1>1. StockInv => StockNeverNegative
  BY DEF StockInv
<1>. QED
  BY <1>1, StockInvariant, PTL

-----------------------------------------------------------------------------
(* What a step may change.                                                 *)

\* The steps of a statement that ends its transaction without a commit.
Refuses(r) ==
  \/ OutOfStock(r)      \/ SettingTaken(r)    \/ NumberTaken(r) \/ KeyTaken(r)
  \/ ReadCouponFails(r) \/ BumpCouponFails(r) \/ RedeemFails(r) \/ Timeout(r)

Withdraws ==
  \/ \E p \in Products : DeactivateProduct(p)
  \/ \E v \in Variants : DeactivateVariant(v)
  \/ \E c \in Coupons : DeactivateCoupon(c)
  \/ \E p \in Promotions : DeactivatePromotion(p)

\* The rows a commit publishes.
published == <<stock, inventory, customerOrders, setting, orders, usageCount,
               usages, promotionUses>>

\* A refused transaction publishes nothing and forgets its local state.
LEMMA RefusesStep ==
  ASSUME NEW r \in Requests, Refuses(r)
  PROVE  \E answer \in Refused : Rollback(r, answer)
PROOF
  BY DEF Refuses, OutOfStock, SettingTaken, NumberTaken, KeyTaken,
         ReadCouponFails, BumpCouponFails, RedeemFails, Timeout, Refused

\* Withdrawals touch no row a commit writes and no request.
LEMMA WithdrawsStep ==
  ASSUME Withdraws
  PROVE  UNCHANGED <<published, payments, requestVars>>
PROOF
  BY DEF Withdraws, published, requestVars, DeactivateProduct,
         DeactivateVariant, DeactivateCoupon, DeactivatePromotion

\* Only Commit publishes, and no step takes a payment back.
LEMMA OnlyCommitPublishes ==
  ASSUME [Next]_vars, \A r \in Requests : ~Commit(r)
  PROVE  UNCHANGED published /\ payments \subseteq payments'
PROOF
<1>. USE DEF published, rows
<1>1. ASSUME NEW r \in Requests, Replay(r) \/ StartFresh(r) \/ BeforeTransaction(r)
                                   \/ AfterTransaction(r)
      PROVE  UNCHANGED published /\ payments \subseteq payments'
  BY <1>1 DEF Replay, StartFresh, BeforeTransaction, ReadCatalogue, Evaluate,
              EvaluateRejects, AfterTransaction, CreateSession, CreatePayment,
              CreatePaymentFails
<1>2. ASSUME NEW r \in Requests, Statement(r)
      PROVE  UNCHANGED published /\ payments \subseteq payments'
  <2>1. CASE Refuses(r)
    BY <2>1, RefusesStep DEF Rollback
  <2>2. CASE ~Refuses(r)
    BY <1>2, <2>2
       DEF Statement, Refuses, TakeStock, WriteInventory, UpsertCustomer,
           ReadNumber, WriteNumber, InsertOrder, ReadCoupon, BumpCoupon,
           Redeem, BumpPromotions
  <2>. QED
    BY <2>1, <2>2
<1>3. CASE Crash
  BY <1>3 DEF Crash
<1>4. CASE Withdraws
  BY <1>4, WithdrawsStep
<1>5. CASE UNCHANGED vars
  BY <1>5 DEF vars
<1>. QED
  BY <1>1, <1>2, <1>3, <1>4, <1>5 DEF Next, Progress, Withdraws

-----------------------------------------------------------------------------
(* Answers.                                                                *)

\* What the answers rest on: an order exists exactly for the requests that
\* got past their commit, and the payment is written before "placed".
AnswersSound ==
  \A r \in Requests :
    /\ Placed(r) => pc[r] \in {"session", "payment", "placed", "lost"}
    /\ pc[r] \in {"session", "payment", "placed"} => Placed(r)
    /\ pc[r] = "placed" => r \in payments
    /\ pc[r] = "replayed" =>
         \E o \in orders : KeyOf[o.request] = KeyOf[r] /\ o.request \in payments

\* A step that adds no order, takes no payment back, and moves each request
\* only where its order allows keeps the answers true.
LEMMA AnswersKept ==
  ASSUME TypeOK, AnswersSound, UNCHANGED orders, payments \subseteq payments',
         \A r \in Requests :
           \/ pc'[r] = pc[r]
           \/ pc[r] \in {"session", "payment"} /\ pc'[r] \in {"payment", "lost"}
           \/ pc[r] = "payment" /\ pc'[r] = "placed" /\ r \in payments'
           \/ /\ pc[r] \notin {"session", "payment", "placed", "lost"}
              /\ pc'[r] \notin {"session", "payment", "placed"}
              /\ pc'[r] = "replayed" =>
                   \E o \in orders : KeyOf[o.request] = KeyOf[r] /\ o.request \in payments
  PROVE  AnswersSound'
PROOF
<1>1. \A r \in Requests : Placed(r)' <=> Placed(r)
  BY DEF Placed
<1>. QED
  BY <1>1 DEF AnswersSound

\* A refused request left no order; a confirmed one has an order with a
\* payment; a replayed one shares its key with such an order.
THEOREM HonestAnswers == Spec => []AnswersHonest
PROOF
<1>1. Init => AnswersSound
  BY DEF Init, AnswersSound, Placed
<1>2. TypeOK /\ AnswersSound /\ [Next]_vars => AnswersSound'
  <2>. SUFFICES ASSUME TypeOK, AnswersSound, [Next]_vars PROVE AnswersSound'
    OBVIOUS
  <2>. USE DEF rows, Goto, TypeOK
  <2>1. ASSUME NEW r \in Requests, Replay(r) \/ StartFresh(r) PROVE AnswersSound'
    BY <2>1, AnswersKept DEF Replay, StartFresh, SamePaidKey
  <2>2. ASSUME NEW r \in Requests, BeforeTransaction(r) PROVE AnswersSound'
    BY <2>2, AnswersKept DEF BeforeTransaction, ReadCatalogue, Evaluate, EvaluateRejects
  <2>3. ASSUME NEW r \in Requests, Statement(r), ~Commit(r) PROVE AnswersSound'
    <3>1. CASE Refuses(r)
      <4>1. pc[r] \in InTransaction
        BY <3>1 DEF Refuses, OutOfStock, SettingTaken, NumberTaken, KeyTaken,
             ReadCouponFails, BumpCouponFails, RedeemFails, Timeout, InTransaction
      <4>. QED
        BY <3>1, <4>1, RefusesStep, AnswersKept DEF Rollback, InTransaction, Refused
    <3>2. CASE ~Refuses(r)
      BY <2>3, <3>2, AnswersKept
         DEF Statement, Refuses, TakeStock, WriteInventory, UpsertCustomer,
             ReadNumber, WriteNumber, InsertOrder, ReadCoupon, BumpCoupon,
             Redeem, BumpPromotions
    <3>. QED
      BY <3>1, <3>2
  <2>4. ASSUME NEW r \in Requests, Commit(r) PROVE AnswersSound'
    <3>1. /\ pc[r] = "commit" /\ pc' = [pc EXCEPT ![r] = "session"]
          /\ UNCHANGED payments
          /\ \E o : o.request = r /\ orders' = orders \cup {o}
      BY <2>4 DEF Commit
    <3>2. \A q \in Requests : Placed(q)' <=> Placed(q) \/ q = r
      BY <3>1 DEF Placed
    <3>. QED
      BY <3>1, <3>2 DEF AnswersSound
  <2>5. ASSUME NEW r \in Requests, AfterTransaction(r) PROVE AnswersSound'
    BY <2>5, AnswersKept
       DEF AfterTransaction, CreateSession, CreatePayment, CreatePaymentFails
  <2>6. CASE Crash
    BY <2>6, AnswersKept DEF Crash, Running, InTransaction
  <2>7. CASE Withdraws
    BY <2>7, WithdrawsStep, AnswersKept DEF published, requestVars
  <2>8. CASE UNCHANGED vars
    BY <2>8, AnswersKept DEF vars
  <2>. QED
    BY <2>1, <2>2, <2>3, <2>4, <2>5, <2>6, <2>7, <2>8 DEF Next, Progress, Withdraws
<1>3. AnswersSound => AnswersHonest
  BY DEF AnswersSound, AnswersHonest, Refused
<1>. QED
  BY <1>1, <1>2, <1>3, TypeCorrect, PTL DEF Spec


-----------------------------------------------------------------------------
(* What an open transaction may rely on.  One that has written its number  *)
(* holds the row of the sequence, so no other commits before it ends: what *)
(* it has read since then still stands when it commits.                    *)

WithNumber == {"insertOrder", "readCoupon", "bumpCoupon", "redeem",
               "bumpPromotions", "commit"}
WithOrder == WithNumber \ {"insertOrder"}
WithAudit == WithNumber \cup {"customer", "readNumber", "writeNumber"}
Redeeming(r) ==
  CouponOf[r] # NoCoupon /\ pc[r] \in {"redeem", "bumpPromotions", "commit"}

\* The audit rows a request has written describe the committed counts.
Audited(r) ==
  audit[r] = [i \in 1..Len(Lines[r]) |-> InventoryEvent(r, Lines[r][i])]

\* Neither its number nor its key is taken.
Unique(r) == ~NumberUsed(r) /\ ~KeyUsed(r)

BelowTotal(r) ==
  LimitTotal[CouponOf[r]] > 0 => usageCount[CouponOf[r]] < LimitTotal[CouponOf[r]]

\* What a request has written still describes the committed rows, and what it
\* has checked still holds.  From WriteNumber on the row of the sequence is
\* locked, and with it every other commit is kept out.
Sound(r) ==
  /\ current[r] <= setting
  /\ pc[r] \in WithAudit => Audited(r)
  /\ pc[r] \in WithNumber => SettingRow \in held[r]
  /\ pc[r] \in WithOrder => Unique(r)
  /\ Redeeming(r) => BelowTotal(r)
  /\ Redeeming(r) /\ pc[r] # "redeem" => BelowCustomerCap(r)

TransactionsSound == \A r \in Requests : Sound(r)

\* What a request relies on stands while nothing is published.
LEMMA ReliesOn ==
  ASSUME NEW r \in Requests, UNCHANGED published
  PROVE  /\ audit'[r] = audit[r] => (Audited(r)' <=> Audited(r))
         /\ current'[r] = current[r] => (Unique(r)' <=> Unique(r))
         /\ BelowTotal(r)' <=> BelowTotal(r)
         /\ BelowCustomerCap(r)' <=> BelowCustomerCap(r)
PROOF
  BY DEF published, Audited, InventoryEvent, Unique, NumberUsed, NumberOf, KeyUsed,
         BelowTotal, BelowCustomerCap, Uses

\* A request whose local state stands while nothing is published stays sound.
LEMMA SoundFramed ==
  ASSUME NEW r \in Requests, Sound(r), UNCHANGED published,
         pc'[r] = pc[r], held'[r] = held[r], current'[r] = current[r],
         audit'[r] = audit[r]
  PROVE  Sound(r)'
PROOF
  BY ReliesOn DEF Sound, Redeeming, published

\* A request that has written nothing yet has nothing to rely on.
LEMMA SoundOutside ==
  ASSUME TypeOK, NEW r \in Requests, Sound(r), UNCHANGED setting, pc'[r] \notin WithAudit,
         current'[r] \in {0, current[r]}
  PROVE  Sound(r)'
PROOF
  BY DEF Sound, TypeOK, Redeeming, WithAudit, WithOrder, WithNumber

\* Of two requests only one can hold a number.
LEMMA OneNumberHolder ==
  ASSUME StockInv, TransactionsSound, NEW r \in Requests, NEW q \in Requests,
         pc[r] \in WithNumber, pc[q] \in WithNumber
  PROVE  r = q
PROOF
  BY DEF TransactionsSound, Sound, StockInv, LocksExclusive

\* A statement leaves its request sound.
LEMMA SoundStatement ==
  ASSUME TypeOK, TransactionsSound, NEW r \in Requests, Statement(r),
         ~Commit(r), ~Refuses(r), UNCHANGED published
  PROVE  Sound(r)'
PROOF
<1>. USE ReliesOn
     DEF rows, published, Goto, TypeOK, Sound, Redeeming, WithAudit, WithOrder, WithNumber
<1>1. Sound(r)
  BY DEF TransactionsSound
<1>2. CASE TakeStock(r)
  BY <1>1, <1>2 DEF TakeStock
<1>3. CASE WriteInventory(r)
  <2>1. Audited(r)'
    BY <1>3 DEF WriteInventory, Audited, InventoryEvent
  <2>. QED
    BY <1>1, <1>3, <2>1 DEF WriteInventory
<1>4. CASE UpsertCustomer(r) \/ ReadNumber(r) \/ WriteNumber(r)
  BY <1>1, <1>4 DEF UpsertCustomer, ReadNumber, WriteNumber
<1>5. CASE InsertOrder(r) \/ ReadCoupon(r)
  BY <1>1, <1>5 DEF InsertOrder, ReadCoupon, Unique
<1>6. CASE BumpCoupon(r)
  <2>1. BelowTotal(r)
    BY <1>6 DEF BumpCoupon, BelowTotalCap, BelowTotal
  <2>. QED
    BY <1>1, <1>6, <2>1 DEF BumpCoupon
<1>7. CASE Redeem(r) \/ BumpPromotions(r)
  BY <1>1, <1>7 DEF Redeem, BumpPromotions
<1>. QED
  BY <1>2, <1>3, <1>4, <1>5, <1>6, <1>7 DEF Statement, Refuses

\* Every step but a commit keeps the open transactions sound.
LEMMA SoundKept ==
  ASSUME TypeOK, TransactionsSound, [Next]_vars, \A r \in Requests : ~Commit(r)
  PROVE  TransactionsSound'
PROOF
<1>. USE DEF rows, Goto, TypeOK
<1>1. UNCHANGED published
  BY OnlyCommitPublishes
<1>2. UNCHANGED setting
  BY <1>1 DEF published
<1>3. SUFFICES ASSUME NEW r \in Requests PROVE Sound(r)'
  BY DEF TransactionsSound
<1>4. Sound(r)
  BY DEF TransactionsSound
<1>. DEFINE Still(q) == /\ pc'[q] = pc[q] /\ held'[q] = held[q]
                        /\ current'[q] = current[q] /\ audit'[q] = audit[q]
<1>5. ASSUME Still(r) PROVE Sound(r)'
  BY <1>1, <1>4, <1>5, SoundFramed
<1>6. ASSUME NEW q \in Requests,
             Replay(q) \/ StartFresh(q) \/ BeforeTransaction(q) \/ AfterTransaction(q)
      PROVE  Sound(r)'
  <2>1. CASE r = q
    BY <1>2, <1>4, <1>6, <2>1, SoundOutside
       DEF Replay, StartFresh, BeforeTransaction, ReadCatalogue, Evaluate,
           EvaluateRejects, AfterTransaction, CreateSession, CreatePayment,
           CreatePaymentFails, WithAudit, WithNumber
  <2>2. CASE r # q
    BY <1>5, <1>6, <2>2
       DEF Replay, StartFresh, BeforeTransaction, ReadCatalogue, Evaluate,
           EvaluateRejects, AfterTransaction, CreateSession, CreatePayment,
           CreatePaymentFails
  <2>. QED
    BY <2>1, <2>2
<1>7. ASSUME NEW q \in Requests, Refuses(q) PROVE Sound(r)'
  <2>1. PICK answer \in Refused : Rollback(q, answer)
    BY <1>7, RefusesStep
  <2>2. CASE r = q
    BY <1>2, <1>4, <2>1, <2>2, SoundOutside
       DEF Rollback, EndTransaction, Refused, WithAudit, WithNumber
  <2>3. CASE r # q
    BY <1>5, <2>1, <2>3 DEF Rollback, EndTransaction
  <2>. QED
    BY <2>2, <2>3
<1>8. ASSUME NEW q \in Requests, Statement(q), ~Refuses(q) PROVE Sound(r)'
  <2>1. CASE r = q
    BY <1>1, <1>8, <2>1, SoundStatement
  <2>2. CASE r # q
    BY <1>5, <1>8, <2>2
       DEF Statement, Refuses, TakeStock, WriteInventory, UpsertCustomer,
           ReadNumber, WriteNumber, InsertOrder, ReadCoupon, BumpCoupon,
           Redeem, BumpPromotions
  <2>. QED
    BY <2>1, <2>2
<1>9. CASE Crash
  <2>1. pc'[r] \notin WithAudit
    BY <1>9 DEF Crash, Running, InTransaction, WithAudit, WithNumber
  <2>. QED
    BY <1>2, <1>4, <1>9, <2>1, SoundOutside DEF Crash, EndTransaction
<1>10. CASE Withdraws
  BY <1>5, <1>10, WithdrawsStep DEF requestVars
<1>11. CASE UNCHANGED vars
  BY <1>5, <1>11 DEF vars
<1>. QED
  BY <1>6, <1>7, <1>8, <1>9, <1>10, <1>11 DEF Next, Progress, Withdraws

-----------------------------------------------------------------------------
(* The books.                                                              *)

\* The order a commit adds.
NewOrder(r) == [request |-> r, number |-> setting + 1, promotions |-> applied[r]]

\* The books, with the facts about open transactions they rest on.
BooksInv ==
  /\ TransactionsSound
  /\ IsFiniteSet(orders)
  /\ BooksBalance
  /\ CouponCapsHold

\* The order a commit adds carries the next number and a new key.
LEMMA CommitAdds ==
  ASSUME TypeOK, TransactionsSound, NumbersSequential, NEW r \in Requests, Commit(r)
  PROVE  /\ current[r] = setting
         /\ setting' = setting + 1
         /\ orders' = orders \cup {NewOrder(r)}
         /\ NewOrder(r) \notin orders
         /\ \A o \in orders : KeyOf[o.request] # KeyOf[r] /\ o.request # r
PROOF
<1>1. /\ current[r] <= setting /\ current[r] \in Nat /\ setting \in Nat
      /\ ~NumberUsed(r) /\ ~KeyUsed(r)
  BY DEF Commit, TransactionsSound, Sound, Unique, WithOrder, WithNumber, TypeOK
<1>2. current[r] + 1 \notin 1..setting
  BY <1>1 DEF NumberUsed, NumberOf, NumbersSequential
<1>3. current[r] = setting
  BY <1>1, <1>2
<1>4. \A o \in orders : KeyOf[o.request] # KeyOf[r] /\ o.request # r
  BY <1>1 DEF KeyUsed
<1>. QED
  BY <1>3, <1>4 DEF Commit, NumberOf, NewOrder

\* Nothing published, nothing unbalanced.
LEMMA BooksFramed ==
  ASSUME UNCHANGED published, IsFiniteSet(orders), BooksBalance, CouponCapsHold
  PROVE  IsFiniteSet(orders)' /\ BooksBalance' /\ CouponCapsHold'
PROOF
<1>. USE DEF published
<1>1. UnitsConserved'
  BY DEF BooksBalance, UnitsConserved
<1>2. AuditChain'
  <2>1. \A v : EventsOf(v)' = EventsOf(v) /\ \A S : Left(v, S)' = Left(v, S)
    BY DEF EventsOf, Left
  <2>. QED
    BY <2>1 DEF BooksBalance, AuditChain
<1>3. OneOrderPerKey' /\ NumbersSequential' /\ CountersAgree'
  BY DEF BooksBalance, OneOrderPerKey, NumbersSequential, CountersAgree
<1>4. CouponCapsHold'
  BY DEF CouponCapsHold, Uses
<1>. QED
  BY <1>1, <1>2, <1>3, <1>4 DEF BooksBalance

\* A commit leaves the other open transactions sound: none of them has taken
\* a number yet, and those with audit rows have locked other variants.
LEMMA SoundCommit ==
  ASSUME TypeOK, StockInv, TransactionsSound, NumbersSequential,
         NEW r \in Requests, Commit(r)
  PROVE  TransactionsSound'
PROOF
<1>1. /\ pc[r] = "commit" /\ pc' = [pc EXCEPT ![r] = "session"]
      /\ \A q \in Requests :
           /\ q = r => current'[q] = 0
           /\ q # r => /\ held'[q] = held[q] /\ current'[q] = current[q]
                       /\ audit'[q] = audit[q]
  BY DEF Commit, Goto, EndTransaction
<1>2. setting' = setting + 1
  BY CommitAdds
<1>. SUFFICES ASSUME NEW q \in Requests PROVE Sound(q)'
  BY DEF TransactionsSound
<1>3. CASE q = r
  BY <1>1, <1>2, <1>3 DEF Sound, Redeeming, WithAudit, WithOrder, WithNumber, TypeOK
<1>4. CASE q # r
  <2>1. pc'[q] = pc[q] /\ pc[q] \notin WithNumber
    BY <1>1, <1>4, OneNumberHolder DEF TypeOK, WithNumber
  <2>2. ASSUME pc[q] \in WithAudit PROVE Audited(q)'
    <3>1. /\ pc[q] \in InTransaction /\ pc[q] # "stock"
          /\ pc[r] \in InTransaction /\ pc[r] # "stock"
      BY <1>1, <2>2 DEF WithAudit, WithNumber, InTransaction
    <3>2. held[q] \cap held[r] = {}
      BY <1>4 DEF StockInv, LocksExclusive
    <3>3. ASSUME NEW i \in 1..Len(Lines[q])
          PROVE  stock'[Lines[q][i].variant] = stock[Lines[q][i].variant]
      <4>1. Lines[q][i].variant \in Variants
        BY LineFacts
      <4>2. Lines[q][i].variant \notin VariantsOf(r)
        BY <3>1, <3>2, LinesCovered DEF VariantsOf
      <4>. QED
        BY <4>1, <4>2 DEF Commit
    <3>4. Audited(q)
      BY <2>2 DEF TransactionsSound, Sound
    <3>5. \A i \in 1..Len(Lines[q]) :
             InventoryEvent(q, Lines[q][i])' = InventoryEvent(q, Lines[q][i])
      BY <3>3 DEF InventoryEvent
    <3>. QED
      BY <1>1, <1>4, <3>4, <3>5 DEF Audited
  <2>3. current'[q] <= setting'
    BY <1>1, <1>2, <1>4 DEF TransactionsSound, Sound, TypeOK
  <2>. QED
    BY <2>1, <2>2, <2>3 DEF Sound, Redeeming, WithOrder, WithNumber
<1>. QED
  BY <1>3, <1>4

\* Keys stay unique and numbers stay gapless.
LEMMA NumbersCommit ==
  ASSUME TypeOK, TransactionsSound, IsFiniteSet(orders), NumbersSequential,
         OneOrderPerKey, NEW r \in Requests, Commit(r)
  PROVE  IsFiniteSet(orders)' /\ NumbersSequential' /\ OneOrderPerKey'
PROOF
<1>. DEFINE new == NewOrder(r)
<1>1. /\ setting' = setting + 1 /\ orders' = orders \cup {new} /\ new \notin orders
      /\ new.number = setting + 1 /\ new.request = r
      /\ \A o \in orders : KeyOf[o.request] # KeyOf[new.request]
  BY CommitAdds DEF NewOrder
<1>. HIDE DEF new
<1>2. IsFiniteSet(orders') /\ Cardinality(orders') = Cardinality(orders) + 1
  BY <1>1, FS_AddElement
<1>3. {o.number : o \in orders'} = 1..setting'
  <2>1. setting \in Nat
    BY DEF TypeOK
  <2>2. {o.number : o \in orders'} = {o.number : o \in orders} \cup {setting + 1}
    BY <1>1
  <2>3. {o.number : o \in orders} = 1..setting
    BY DEF NumbersSequential
  <2>. QED
    BY <1>1, <2>1, <2>2, <2>3
<1>4. NumbersSequential'
  BY <1>1, <1>2, <1>3 DEF NumbersSequential
<1>5. OneOrderPerKey'
  BY <1>1 DEF OneOrderPerKey
<1>. QED
  BY <1>2, <1>4, <1>5

\* Counters still count: the customer's orders and those of each promotion.
LEMMA CountersCommit ==
  ASSUME TypeOK, TransactionsSound, IsFiniteSet(orders), NumbersSequential,
         CountersAgree, NEW r \in Requests, Commit(r)
  PROVE  CountersAgree'
PROOF
<1>. DEFINE new == NewOrder(r)
<1>1. /\ orders' = orders \cup {new} /\ new \notin orders
      /\ new.request = r /\ new.promotions = applied[r]
  BY CommitAdds DEF NewOrder
<1>. HIDE DEF new
<1>2. ASSUME NEW p \in Phones
      PROVE  customerOrders'[p] = Cardinality({o \in orders' : PhoneOf[o.request] = p})
  <2>. DEFINE mine == {o \in orders : PhoneOf[o.request] = p}
  <2>1. IsFiniteSet(mine) /\ Cardinality(mine) \in Nat /\ new \notin mine
    BY <1>1, FS_Subset, FS_CardinalityType
  <2>2. customerOrders[p] = Cardinality(mine)
    BY DEF CountersAgree
  <2>3. CASE PhoneOf[r] = p
    <3>1. {o \in orders' : PhoneOf[o.request] = p} = mine \cup {new}
      BY <1>1, <2>3
    <3>2. Cardinality(mine \cup {new}) = Cardinality(mine) + 1
      BY <2>1, FS_AddElement
    <3>. QED
      BY <2>2, <2>3, <3>1, <3>2 DEF Commit, Count, TypeOK
  <2>4. CASE PhoneOf[r] # p
    <3>1. {o \in orders' : PhoneOf[o.request] = p} = mine
      BY <1>1, <2>4
    <3>. QED
      BY <2>2, <2>4, <3>1 DEF Commit, Count, TypeOK
  <2>. QED
    BY <2>3, <2>4
<1>3. ASSUME NEW p \in Promotions
      PROVE  promotionUses'[p] = Cardinality({o \in orders' : p \in o.promotions})
  <2>. DEFINE mine == {o \in orders : p \in o.promotions}
  <2>1. IsFiniteSet(mine) /\ Cardinality(mine) \in Nat /\ new \notin mine
    BY <1>1, FS_Subset, FS_CardinalityType
  <2>2. promotionUses[p] = Cardinality(mine)
    BY DEF CountersAgree
  <2>3. CASE p \in applied[r]
    <3>1. {o \in orders' : p \in o.promotions} = mine \cup {new}
      BY <1>1, <2>3
    <3>2. Cardinality(mine \cup {new}) = Cardinality(mine) + 1
      BY <2>1, FS_AddElement
    <3>. QED
      BY <2>2, <2>3, <3>1, <3>2 DEF Commit, Count
  <2>4. CASE p \notin applied[r]
    <3>1. {o \in orders' : p \in o.promotions} = mine
      BY <1>1, <2>4
    <3>. QED
      BY <2>2, <2>4, <3>1 DEF Commit, Count
  <2>. QED
    BY <2>3, <2>4
<1>. QED
  BY <1>2, <1>3 DEF CountersAgree

\* The largest element of a nonempty set of indices is one of them.
LEMMA MaxIndex ==
  ASSUME NEW n \in Nat, NEW S \in SUBSET (1..n), NEW e \in S
  PROVE  Max(S) \in S
PROOF
  BY LargestNumber DEF Max

\* The history a commit appends, seen from one variant.
LEMMA AuditCommit ==
  ASSUME TypeOK, StockInv, TransactionsSound, AuditChain, NEW r \in Requests, Commit(r)
  PROVE  AuditChain'
PROOF
<1>1. /\ inventory \in Seq(Event) /\ stock \in [Variants -> Int]
      /\ NoRepeatedVariant(r) /\ Audited(r) /\ audit[r] \in Seq(Event)
  BY LinesCovered
     DEF TypeOK, Commit, InTransaction, TransactionsSound, Sound, WithAudit, WithNumber
<1>2. PICK n \in Nat, m \in Nat : n = Len(inventory) /\ m = Len(Lines[r])
  BY <1>1, SomeLine
<1>3. /\ Len(inventory') = n + m
      /\ \A i \in 1..n : inventory'[i] = inventory[i]
      /\ \A k \in 1..m : inventory'[n + k] = InventoryEvent(r, Lines[r][k])
  <2>1. inventory' = inventory \o audit[r]
    BY DEF Commit
  <2>2. Len(audit[r]) = m /\ \A k \in 1..m : audit[r][k] = InventoryEvent(r, Lines[r][k])
    BY <1>1, <1>2 DEF Audited
  <2>3. /\ Len(inventory \o audit[r]) = n + m
        /\ \A i \in 1..n + m : (inventory \o audit[r])[i] =
                                 IF i <= n THEN inventory[i] ELSE audit[r][i - n]
    <3>1. ASSUME NEW s \in Seq(Event), NEW t \in Seq(Event), Len(s) = n, Len(t) = m
          PROVE  /\ Len(s \o t) = n + m
                 /\ \A i \in 1..n + m : (s \o t)[i] = IF i <= n THEN s[i] ELSE t[i - n]
      BY <3>1, ConcatProperties
    <3>. QED
      BY <1>1, <1>2, <2>2, <3>1, Zenon
  <2>4. ASSUME NEW k \in 1..m PROVE inventory'[n + k] = audit[r][k]
    <3>1. n + k \in 1..n + m /\ ~(n + k <= n) /\ n + k - n = k
      OBVIOUS
    <3>. QED
      BY <2>1, <2>3, <3>1
  <2>. QED
    BY <2>1, <2>2, <2>3, <2>4
<1>4. \A v, S : S \subseteq 1..n => Left(v, S)' = Left(v, S)
  <2>. SUFFICES ASSUME NEW v, NEW S \in SUBSET (1..n), S # {}
                PROVE  inventory'[Max(S)].after = inventory[Max(S)].after
    BY DEF Left
  <2>. QED
    BY <1>1, <1>3, MaxIndex
<1>5. SUFFICES ASSUME NEW v \in Variants
               PROVE  /\ \A i \in EventsOf(v)' :
                           /\ inventory'[i].before = Left(v, {j \in EventsOf(v) : j < i})'
                           /\ inventory'[i].after = inventory'[i].before + inventory'[i].delta
                      /\ stock'[v] = Left(v, EventsOf(v))'
  BY DEF AuditChain
<1>a. PICK old : old = EventsOf(v)
  OBVIOUS
<1>6. /\ old \subseteq 1..n
      /\ EventsOf(v)' = old \cup {n + k : k \in {k \in 1..m : Lines[r][k].variant = v}}
  <2>1. old \subseteq 1..n
    BY <1>a, <1>2 DEF EventsOf
  <2>2. \A i \in 1..n : inventory'[i].variant = v <=> i \in old
    BY <1>a, <1>2, <1>3 DEF EventsOf
  <2>3. ASSUME NEW k \in 1..m PROVE inventory'[n + k].variant = Lines[r][k].variant
    <3>1. InventoryEvent(r, Lines[r][k]).variant = Lines[r][k].variant
      BY DEF InventoryEvent
    <3>. QED
      BY <1>3, <3>1
  <2>4. EventsOf(v)' = {i \in 1..n + m : inventory'[i].variant = v}
    BY <1>3 DEF EventsOf
  <2>5. ASSUME NEW i
        PROVE  i \in EventsOf(v)' <=>
                 i \in old \/ \E k \in 1..m : i = n + k /\ Lines[r][k].variant = v
    <3>1. CASE i \in 1..n
      <4>1. i \in 1..n + m /\ \A k \in 1..m : i # n + k
        BY <3>1
      <4>. QED
        BY <2>2, <2>4, <3>1, <4>1
    <3>2. CASE i \in n + 1..n + m
      <4>1. PICK k \in 1..m : i = n + k
        <5>1. i - n \in 1..m /\ i = n + (i - n)
          BY <3>2
        <5>. QED
          BY <5>1
      <4>2. i \notin old /\ i \in 1..n + m
        BY <2>1, <3>2
      <4>3. \A l \in 1..m : i = n + l => l = k
        BY <4>1
      <4>. QED
        BY <2>3, <2>4, <4>1, <4>2, <4>3
    <3>3. CASE i \notin 1..n + m
      <4>1. \A k \in 1..m : n + k \in 1..n + m
        OBVIOUS
      <4>2. i \notin 1..n
        BY <3>3
      <4>. QED
        BY <2>1, <2>4, <3>3, <4>1, <4>2
    <3>4. i \in 1..n \/ i \in n + 1..n + m \/ i \notin 1..n + m
      OBVIOUS
    <3>. QED
      BY <3>1, <3>2, <3>3, <3>4
  <2>. QED
    BY <2>1, <2>5
<1>7. /\ stock[v] = Left(v, old)
      /\ \A i \in old :
           /\ inventory[i].before = Left(v, {j \in old : j < i})
           /\ inventory[i].after = inventory[i].before + inventory[i].delta
  BY <1>a DEF AuditChain
<1>8. ASSUME NEW i \in old, {j \in EventsOf(v)' : j < i} = {j \in old : j < i}
      PROVE  /\ inventory'[i].before = Left(v, {j \in EventsOf(v) : j < i})'
             /\ inventory'[i].after = inventory'[i].before + inventory'[i].delta
  <2>1. inventory'[i] = inventory[i] /\ {j \in old : j < i} \subseteq 1..n
    BY <1>3, <1>6
  <2>2. Left(v, {j \in EventsOf(v) : j < i})' = Left(v, {j \in old : j < i})
    <3>1. PICK S : S = {j \in old : j < i}
      OBVIOUS
    <3>2. Left(v, S)' = Left(v, S)
      BY <1>4, <2>1, <3>1
    <3>. QED
      BY <1>8, <3>1, <3>2
  <2>. QED
    BY <1>7, <2>1, <2>2
<1>9. CASE v \notin VariantsOf(r)
  <2>1. EventsOf(v)' = old
    BY <1>2, <1>6, <1>9 DEF VariantsOf
  <2>2. stock'[v] = stock[v] /\ Left(v, old)' = Left(v, old)
    BY <1>4, <1>6, <1>9 DEF Commit
  <2>. QED
    BY <1>7, <1>8, <2>1, <2>2
<1>10. CASE v \in VariantsOf(r)
  <2>1. PICK k \in 1..m : Lines[r][k].variant = v /\ QuantityOf(r, v) = Lines[r][k].quantity
    BY <1>1, <1>2, <1>10, QuantityOfLine
  <2>. DEFINE q == Lines[r][k].quantity
  <2>2. q \in Nat /\ stock[v] \in Int /\ stock'[v] = stock[v] - q
    BY <1>1, <1>2, <1>10, <2>1, LineFacts DEF Commit
  <2>3. EventsOf(v)' = old \cup {n + k}
    BY <1>1, <1>2, <1>6, <2>1 DEF NoRepeatedVariant
  <2>4. /\ inventory'[n + k].delta = -q
        /\ inventory'[n + k].before = stock[v]
        /\ inventory'[n + k].after = stock[v] - q
    <3>1. /\ InventoryEvent(r, Lines[r][k]).delta = -q
          /\ InventoryEvent(r, Lines[r][k]).before = stock[v] - q + q
          /\ InventoryEvent(r, Lines[r][k]).after = stock[v] - q
      BY <2>1 DEF InventoryEvent
    <3>. QED
      BY <1>3, <2>2, <3>1
  <2>5. ASSUME NEW j \in old PROVE j \in Int /\ j < n + k
    <3>1. j \in 1..n
      BY <1>6
    <3>. QED
      BY <3>1
  <2>6. Max(old \cup {n + k}) = n + k
    <3>1. \A y \in old \cup {n + k} : n + k >= y /\ (y >= n + k => y = n + k)
      BY <1>6, <2>5
    <3>2. n + k \in old \cup {n + k}
      OBVIOUS
    <3>. QED
      BY <3>1, <3>2 DEF Max
  <2>7. stock'[v] = Left(v, EventsOf(v))'
    BY <2>2, <2>3, <2>4, <2>6 DEF Left
  <2>8. ASSUME NEW i \in EventsOf(v)'
        PROVE  /\ inventory'[i].before = Left(v, {j \in EventsOf(v) : j < i})'
               /\ inventory'[i].after = inventory'[i].before + inventory'[i].delta
    <3>1. CASE i \in old
      <4>1. ~(n + k < i) /\ i # n + k
        BY <2>5, <3>1
      <4>2. {j \in EventsOf(v)' : j < i} = {j \in old : j < i}
        BY <2>3, <4>1
      <4>. QED
        BY <1>8, <3>1, <4>2
    <3>2. CASE i = n + k
      <4>1. {j \in EventsOf(v)' : j < i} = old
        <5>1. ~(n + k < n + k)
          OBVIOUS
        <5>. QED
          BY <2>3, <2>5, <3>2, <5>1
      <4>2. Left(v, old)' = stock[v]
        BY <1>4, <1>6, <1>7
      <4>3. Left(v, {j \in EventsOf(v) : j < i})' = Left(v, old)'
        BY <4>1
      <4>. QED
        BY <2>2, <2>4, <3>2, <4>2, <4>3
    <3>. QED
      BY <2>3, <3>1, <3>2
  <2>. QED
    BY <2>7, <2>8
<1>. QED
  BY <1>9, <1>10

\* Bought adds up what the orders hold of v, and a new order adds its part.
LEMMA BoughtAdds ==
  ASSUME NEW v, NEW S, IsFiniteSet(S), NEW e, e \notin S,
         \A o \in S \cup {e} : UnitsOf(v, o) \in Int
  PROVE  Bought(v, S) \in Int /\ Bought(v, S \cup {e}) = Bought(v, S) + UnitsOf(v, e)
PROOF
<1>. DEFINE Units(o) == UnitsOf(v, o)
            f == [o \in S \cup {e} |-> Units(o)]
            Step(T, I) == [s \in SUBSET T |->
                             IF s = {} THEN 0
                             ELSE Units(CHOOSE x \in s : TRUE) + I[s \ {CHOOSE x \in s : TRUE}]]
            sum(T) == CHOOSE I : I = Step(T, I)
<1>1. f \in [S \cup {e} -> Int]
  OBVIOUS
<1>2. ASSUME NEW T \in SUBSET (S \cup {e}), IsFiniteSet(T)
      PROVE  Additive(sum(T), f, T)
  <2>. DEFINE g == [o \in T |-> f[o]]
  <2>1. g \in [T -> Int] /\ \A o \in T : g[o] = Units(o)
    BY <1>1
  <2>2. PICK G : Additive(G, g, T)
    BY <1>2, <2>1, AdditiveExists
  <2>3. G = Step(T, G)
    <3>1. ASSUME NEW s \in SUBSET T, s # {}
          PROVE  G[s] = Units(CHOOSE x \in s : TRUE) + G[s \ {CHOOSE x \in s : TRUE}]
      BY <2>1, <2>2, <3>1 DEF Additive
    <3>. QED
      BY <2>2, <3>1 DEF Additive
  <2>4. sum(T) = Step(T, sum(T))
    <3>. HIDE DEF Step
    <3>. QED
      BY <2>3
  <2>5. sum(T) = [s \in SUBSET T |-> IF s = {} THEN 0
                    ELSE g[CHOOSE x \in s : TRUE] + sum(T)[s \ {CHOOSE x \in s : TRUE}]]
    <3>. HIDE DEF sum
    <3>. QED
      BY <2>1, <2>4
  <2>6. Additive(sum(T), g, T)
    <3>. HIDE DEF sum, g
    <3>. QED
      BY <1>2, <2>1, <2>5, FoldIsAdditive
  <2>. QED
    BY <2>6 DEF Additive
<1>3. \A T : Bought(v, T) = sum(T)[T]
  BY DEF Bought, MapThenSumSet, MapThenFoldSet
<1>4. Additive(sum(S), f, S) /\ Additive(sum(S \cup {e}), f, S \cup {e})
  <2>1. IsFiniteSet(S \cup {e})
    BY FS_AddElement
  <2>. HIDE DEF sum, f
  <2>. QED
    BY <1>2, <2>1
<1>5. sum(S)[S] = sum(S \cup {e})[S]
  <2>. HIDE DEF sum, f
  <2>. QED
    BY <1>4, AdditiveUnique
<1>6. sum(S \cup {e})[S \cup {e}] = f[e] + sum(S \cup {e})[S] /\ sum(S \cup {e})[S] \in Int
  <2>. DEFINE U == S \cup {e}
  <2>1. U \in SUBSET U /\ S \in SUBSET U /\ e \in U /\ U \ {e} = S
    OBVIOUS
  <2>2. Additive(sum(U), f, U)
    BY <1>4
  <2>. HIDE DEF sum, f, U
  <2>3. sum(U)[U] = f[e] + sum(U)[U \ {e}] /\ sum(U)[S] \in Int
    BY <2>1, <2>2 DEF Additive
  <2>4. sum(U)[U] = f[e] + sum(U)[S]
    BY <2>1, <2>3
  <2>. QED
    BY <2>3, <2>4 DEF U
<1>7. f[e] = Units(e) /\ f[e] \in Int
  BY <1>1
<1>8. /\ sum(S)[S] \in Int
      /\ sum(S \cup {e})[S \cup {e}] = sum(S)[S] + Units(e)
  <2>. HIDE DEF sum, f, Units
  <2>. QED
    BY <1>5, <1>6, <1>7
<1>. QED
  <2>. HIDE DEF sum
  <2>. QED
    BY <1>3, <1>8

\* The units a commit takes off the shelf are those its order holds.
LEMMA UnitsCommit ==
  ASSUME TypeOK, TransactionsSound, IsFiniteSet(orders), NumbersSequential,
         UnitsConserved, NEW r \in Requests, Commit(r)
  PROVE  UnitsConserved'
PROOF
<1>. DEFINE new == NewOrder(r)
<1>1. orders' = orders \cup {new} /\ new \notin orders /\ new.request = r
  BY CommitAdds DEF NewOrder
<1>. HIDE DEF new
<1>. SUFFICES ASSUME NEW v \in Variants
              PROVE  stock'[v] + Bought(v, orders') = InitialStock[v]
  BY DEF UnitsConserved
<1>2. \A o \in orders \cup {new} : UnitsOf(v, o) \in Int
  BY <1>1, QuantityType DEF TypeOK, UnitsOf
<1>3. /\ Bought(v, orders) \in Int
      /\ Bought(v, orders') = Bought(v, orders) + UnitsOf(v, new)
  BY <1>1, <1>2, BoughtAdds
<1>4. stock[v] \in Int /\ stock[v] + Bought(v, orders) = InitialStock[v]
  BY DEF UnitsConserved, TypeOK
<1>5. UnitsOf(v, new) \in Int /\ stock'[v] = stock[v] - UnitsOf(v, new)
  BY <1>1, <1>2, <1>4 DEF Commit, UnitsOf
<1>. QED
  BY <1>3, <1>4, <1>5

\* A commit redeems its coupon below both caps.
LEMMA CouponsCommit ==
  ASSUME TypeOK, TransactionsSound, NumbersSequential, CouponCapsHold,
         NEW r \in Requests, Commit(r)
  PROVE  CouponCapsHold'
PROOF
<1>1. /\ orders' = orders \cup {NewOrder(r)} /\ NewOrder(r).request = r
      /\ \A o \in orders : o.request # r
  BY CommitAdds DEF NewOrder
<1>2. r \notin usages /\ usages \subseteq Requests
  BY <1>1 DEF CouponCapsHold, TypeOK
<1>3. usages' = {o.request : o \in {x \in orders' : CouponOf[x.request] # NoCoupon}}
  <2>1. usages = {o.request : o \in {x \in orders : CouponOf[x.request] # NoCoupon}}
    BY DEF CouponCapsHold
  <2>2. usages' = IF CouponOf[r] = NoCoupon THEN usages ELSE usages \cup {r}
    BY DEF Commit
  <2>. QED
    BY <1>1, <2>1, <2>2
<1>4. SUFFICES ASSUME NEW c \in Coupons
               PROVE  /\ usageCount'[c] = Cardinality({q \in usages' : CouponOf[q] = c})
                      /\ LimitTotal[c] > 0 => usageCount'[c] <= LimitTotal[c]
                      /\ LimitPerCustomer[c] > 0 =>
                           \A p \in Phones : Uses(c, p)' <= LimitPerCustomer[c]
  BY <1>3 DEF CouponCapsHold
<1>5. /\ usageCount[c] = Cardinality({q \in usages : CouponOf[q] = c})
      /\ LimitTotal[c] > 0 => usageCount[c] <= LimitTotal[c]
      /\ LimitPerCustomer[c] > 0 => \A p \in Phones : Uses(c, p) <= LimitPerCustomer[c]
  BY DEF CouponCapsHold
<1>6. c # NoCoupon /\ LimitTotal[c] \in Nat /\ LimitPerCustomer[c] \in Nat /\ usageCount[c] \in Nat
  BY ConstantsAssumption DEF ConstantsAssumption, TypeOK
<1>7. IsFiniteSet(usages)
  BY <1>2, FiniteAssumption, FS_Subset
<1>8. CASE CouponOf[r] = c
  <2>1. usages' = usages \cup {r} /\ usageCount'[c] = usageCount[c] + 1
    BY <1>6, <1>8 DEF Commit
  <2>2. BelowTotal(r) /\ BelowCustomerCap(r)
    BY <1>6, <1>8 DEF Commit, TransactionsSound, Sound, Redeeming
  <2>3. ASSUME NEW S \in SUBSET usages
        PROVE  Cardinality(S) \in Nat /\ Cardinality(S \cup {r}) = Cardinality(S) + 1
    BY <1>2, <1>7, FS_Subset, FS_CardinalityType, FS_AddElement
  <2>4. usageCount'[c] = Cardinality({q \in usages' : CouponOf[q] = c})
    <3>1. {q \in usages' : CouponOf[q] = c} = {q \in usages : CouponOf[q] = c} \cup {r}
      BY <1>8, <2>1
    <3>. QED
      BY <1>5, <2>1, <2>3, <3>1
  <2>5. LimitTotal[c] > 0 => usageCount'[c] <= LimitTotal[c]
    BY <1>6, <1>8, <2>1, <2>2 DEF BelowTotal
  <2>6. ASSUME LimitPerCustomer[c] > 0, NEW p \in Phones
        PROVE  Uses(c, p)' <= LimitPerCustomer[c]
    <3>. DEFINE mine == {q \in usages : CouponOf[q] = c /\ PhoneOf[q] = p}
    <3>1. mine \in SUBSET usages /\ Uses(c, p) = Cardinality(mine)
      BY DEF Uses
    <3>2. Uses(c, p)' = Cardinality({q \in usages' : CouponOf[q] = c /\ PhoneOf[q] = p})
      BY DEF Uses
    <3>3. CASE PhoneOf[r] = p
      <4>1. Cardinality(mine) < LimitPerCustomer[c]
        BY <1>8, <2>2, <2>6, <3>1, <3>3 DEF BelowCustomerCap
      <4>2. {q \in usages' : CouponOf[q] = c /\ PhoneOf[q] = p} = mine \cup {r}
        BY <1>8, <2>1, <3>3
      <4>. QED
        BY <1>6, <2>3, <3>1, <3>2, <4>1, <4>2
    <3>4. CASE PhoneOf[r] # p
      <4>1. {q \in usages' : CouponOf[q] = c /\ PhoneOf[q] = p} = mine
        BY <2>1, <3>4
      <4>. QED
        BY <1>5, <2>6, <3>1, <3>2, <4>1
    <3>. QED
      BY <3>3, <3>4
  <2>. QED
    BY <2>4, <2>5, <2>6
<1>9. CASE CouponOf[r] # c
  <2>1. usageCount'[c] = usageCount[c]
    BY <1>9 DEF Commit, TypeOK
  <2>2. /\ {q \in usages' : CouponOf[q] = c} = {q \in usages : CouponOf[q] = c}
        /\ \A p : {q \in usages' : CouponOf[q] = c /\ PhoneOf[q] = p}
                    = {q \in usages : CouponOf[q] = c /\ PhoneOf[q] = p}
    BY <1>9 DEF Commit
  <2>. QED
    BY <1>5, <2>1, <2>2 DEF Uses
<1>. QED
  BY <1>8, <1>9

\* Initially there is nothing to balance.
LEMMA BooksInit ==
  ASSUME Init
  PROVE  BooksInv
PROOF
<1>1. TransactionsSound
  BY DEF Init, TransactionsSound, Sound, Redeeming, WithAudit, WithOrder, WithNumber
<1>2. UnitsConserved
  <2>1. ASSUME NEW v \in Variants PROVE Bought(v, {}) = 0
    <3>. DEFINE Units(o) == UnitsOf(v, o)
                Step(I) ==
                  [s \in SUBSET {} |->
                     IF s = {} THEN 0
                     ELSE Units(CHOOSE x \in s : TRUE) + I[s \ {CHOOSE x \in s : TRUE}]]
                I0 == [s \in SUBSET {} |-> 0]
    <3>1. I0 = Step(I0)
      OBVIOUS
    <3>2. (CHOOSE I : I = Step(I)) = Step(CHOOSE I : I = Step(I))
      <4>. HIDE DEF Step
      <4>. QED
        BY <3>1
    <3>3. (CHOOSE I : I = Step(I))[{}] = 0
      BY <3>2
    <3>. QED
      BY <3>3 DEF Bought, MapThenSumSet, MapThenFoldSet
  <2>. QED
    BY <2>1, ConstantsAssumption DEF ConstantsAssumption, Init, UnitsConserved
<1>3. AuditChain
  BY DEF Init, AuditChain, EventsOf, Left
<1>4. IsFiniteSet(orders) /\ OneOrderPerKey /\ NumbersSequential /\ CouponCapsHold /\ CountersAgree
  <2>1. orders = {} /\ usages = {} /\ setting = 0 /\ 1..0 = {}
    BY DEF Init
  <2>2. \A f : {x \in {} : f[x]} = {}
    OBVIOUS
  <2>3. NumbersSequential /\ OneOrderPerKey
    BY <2>1, FS_EmptySet DEF NumbersSequential, OneOrderPerKey
  <2>4. CountersAgree
    BY <2>1, FS_EmptySet DEF Init, CountersAgree
  <2>5. CouponCapsHold
    <3>1. \A c \in Coupons, p \in Phones :
            {q \in usages : CouponOf[q] = c} = {} /\ Uses(c, p) = 0
      BY <2>1, FS_EmptySet DEF Uses
    <3>. QED
      BY <2>1, <3>1, FS_EmptySet, ConstantsAssumption
         DEF Init, CouponCapsHold, ConstantsAssumption, Uses
  <2>. QED
    BY <2>1, <2>3, <2>4, <2>5, FS_EmptySet
<1>. QED
  BY <1>1, <1>2, <1>3, <1>4 DEF BooksInv, BooksBalance

\* A commit balances the books, and no other step touches them.
LEMMA BooksStep ==
  ASSUME TypeOK, StockInv, BooksInv, [Next]_vars
  PROVE  BooksInv'
PROOF
<1>1. ASSUME NEW r \in Requests, Commit(r) PROVE BooksInv'
  BY <1>1, SoundCommit, NumbersCommit, CountersCommit, AuditCommit, UnitsCommit,
     CouponsCommit DEF BooksInv, BooksBalance
<1>2. ASSUME \A r \in Requests : ~Commit(r) PROVE BooksInv'
  BY <1>2, SoundKept, OnlyCommitPublishes, BooksFramed DEF BooksInv
<1>. QED
  BY <1>1, <1>2

\* The books and the open transactions agree at every moment.
LEMMA BooksInvariant == Spec => []BooksInv
PROOF
<1>1. Init => BooksInv
  BY BooksInit
<1>2. TypeOK /\ StockInv /\ BooksInv /\ [Next]_vars => BooksInv'
  BY BooksStep
<1>. QED
  BY <1>1, <1>2, TypeCorrect, StockInvariant, PTL DEF Spec

\* Shelf, history, keys, numbers and counters agree with the orders.
THEOREM BooksAlwaysBalance == Spec => []BooksBalance
PROOF
<1>1. BooksInv => BooksBalance
  BY DEF BooksInv
<1>. QED
  BY <1>1, BooksInvariant, PTL

\* Neither cap of a coupon is ever passed.
THEOREM CouponCaps == Spec => []CouponCapsHold
PROOF
<1>1. BooksInv => CouponCapsHold
  BY DEF BooksInv
<1>. QED
  BY <1>1, BooksInvariant, PTL

\* The order book reads a cart as the checkout does.
LEMMA BookReadsCart ==
  /\ \A S : Book!Cardinality(S) = Cardinality(S)
  /\ \A r : /\ Book!NoRepeatedVariant(r) <=> NoRepeatedVariant(r)
           /\ Book!VariantsOf(r) = VariantsOf(r)
           /\ \A v : Book!QuantityOf(r, v) = QuantityOf(r, v)
PROOF
<1>1. \A S : Book!Cardinality(S) = Cardinality(S)
  BY DEF Book!Cardinality, Cardinality
<1>2. \A r : Book!NoRepeatedVariant(r) <=> NoRepeatedVariant(r)
  BY DEF Book!NoRepeatedVariant, NoRepeatedVariant
<1>3. \A r : Book!VariantsOf(r) = VariantsOf(r)
  BY DEF Book!VariantsOf, VariantsOf
<1>4. \A r, v : Book!QuantityOf(r, v) = QuantityOf(r, v)
  BY DEF Book!QuantityOf, QuantityOf
<1>. QED
  BY <1>1, <1>2, <1>3, <1>4

\* A commit is an atomic placement of the order book.
LEMMA CommitPlaces ==
  ASSUME TypeOK, StockInv, BooksInv, NEW r \in Requests, Commit(r)
  PROVE  Book!Place(r)
PROOF
<1>1. /\ orders' = orders \cup {NewOrder(r)} /\ setting = Cardinality(orders)
      /\ \A o \in orders : KeyOf[o.request] # KeyOf[r]
  BY CommitAdds DEF BooksInv, BooksBalance, NumbersSequential
<1>2. /\ NoRepeatedVariant(r)
      /\ \A i \in 1..Len(Lines[r]) : stock[Lines[r][i].variant] >= Lines[r][i].quantity
  BY LinesCovered DEF Commit, InTransaction
<1>3. \A v \in VariantsOf(r) : stock[v] >= QuantityOf(r, v)
  BY <1>2, QuantityOfLine
<1>4. ASSUME CouponOf[r] # NoCoupon
      PROVE  LET c == CouponOf[r] IN
             /\ LimitTotal[c] > 0 =>
                  Cardinality({q \in usages : CouponOf[q] = c}) < LimitTotal[c]
             /\ LimitPerCustomer[c] > 0 =>
                  Cardinality({q \in {q \in usages : CouponOf[q] = c} :
                                 PhoneOf[q] = PhoneOf[r]}) < LimitPerCustomer[c]
  <2>. DEFINE c == CouponOf[r]
  <2>1. c \in Coupons
    BY <1>4, ConstantsAssumption DEF ConstantsAssumption
  <2>2. BelowTotal(r) /\ BelowCustomerCap(r)
    BY <1>4 DEF Commit, BooksInv, TransactionsSound, Sound, Redeeming
  <2>3. usageCount[c] = Cardinality({q \in usages : CouponOf[q] = c})
    BY <2>1 DEF BooksInv, CouponCapsHold
  <2>4. {q \in {q \in usages : CouponOf[q] = c} : PhoneOf[q] = PhoneOf[r]}
          = {q \in usages : CouponOf[q] = c /\ PhoneOf[q] = PhoneOf[r]}
    OBVIOUS
  <2>. QED
    BY <2>2, <2>3, <2>4 DEF BelowTotal, BelowCustomerCap, Uses
<1>5. \E promotions \in SUBSET Promotions :
         orders' = orders \cup {[request |-> r, number |-> Cardinality(orders) + 1,
                                 promotions |-> promotions]}
  BY <1>1 DEF NewOrder, TypeOK
<1>6. CouponOf[r] # NoCoupon =>
         /\ LimitTotal[CouponOf[r]] > 0 =>
              Cardinality(Book!UsesOf(CouponOf[r])) < LimitTotal[CouponOf[r]]
         /\ LimitPerCustomer[CouponOf[r]] > 0 =>
              Cardinality({q \in Book!UsesOf(CouponOf[r]) : PhoneOf[q] = PhoneOf[r]})
                < LimitPerCustomer[CouponOf[r]]
  BY <1>4 DEF Book!UsesOf
<1>7. /\ stock' = [v \in Variants |-> IF v \in VariantsOf(r)
                                    THEN stock[v] - QuantityOf(r, v)
                                    ELSE stock[v]]
      /\ usages' = IF CouponOf[r] = NoCoupon THEN usages ELSE usages \cup {r}
  BY DEF Commit
<1>. QED
  BY <1>1, <1>2, <1>3, <1>5, <1>6, <1>7, BookReadsCart DEF Book!Place

\* The ten statements of the transaction behave as one step: whatever the
\* interleaving, stock, orders and redemptions change by legal atomic
\* placements only.
THEOREM CheckoutRefinesOrderBook == Spec => PlacesAtomically
PROOF
<1>1. Init => Book!Init
  BY DEF Init, Book!Init
<1>2. TypeOK /\ StockInv /\ BooksInv /\ [Next]_vars => [Book!Next]_(Book!vars)
  <2>. SUFFICES ASSUME TypeOK, StockInv, BooksInv, [Next]_vars
                PROVE  [Book!Next]_(Book!vars)
    OBVIOUS
  <2>1. ASSUME NEW r \in Requests, Commit(r) PROVE Book!Next
    BY <2>1, CommitPlaces DEF Book!Next
  <2>2. ASSUME \A r \in Requests : ~Commit(r) PROVE UNCHANGED Book!vars
    BY <2>2, OnlyCommitPublishes DEF published, Book!vars
  <2>. QED
    BY <2>1, <2>2
<1>. QED
  BY <1>1, <1>2, TypeCorrect, StockInvariant, BooksInvariant, PTL
     DEF Spec, PlacesAtomically, Book!Spec

==============================================================================

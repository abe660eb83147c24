------------------------------ MODULE Checkout ------------------------------
(***************************************************************************)
(* POST /public/orders: PublicCheckoutService.createOrder, with the        *)
(* numbering and coupon services it calls.                                 *)
(*                                                                         *)
(* Every request is a process.  Its reads before the transaction see the   *)
(* committed database.  Inside prisma.$transaction (READ COMMITTED) each   *)
(* statement is a step: an UPDATE locks its row until the transaction ends *)
(* and its writes stay with the request until Commit publishes them all;   *)
(* a plain SELECT takes no lock.  The variables of the first group are     *)
(* the committed rows, those of the second the requests in flight.         *)
(***************************************************************************)
EXTENDS OrderRequests, FiniteSetsExt

VARIABLES
  stock,           \* ProductVariant.stockCount
  variantActive,   \* ProductVariant.isActive and not deleted
  productActive,   \* Product.isActive and not deleted
  inventory,       \* InventoryEvent rows in commit order
  customerOrders,  \* Customer.totalOrders
  setting,         \* Setting "orders.sequence"; 0 while the row is absent
  orders,          \* Order rows: [request, number, promotions]
  couponActive, usageCount,          \* Coupon.isActive, Coupon.usageCount
  usages,          \* CouponUsage rows, each named by the request of its order
  promotionActive, promotionUses,    \* Promotion.isActive, Promotion.usageCount
  payments         \* requests whose order has its Payment row

VARIABLES
  pc,              \* where the handler of each request stands, or its answer
  line,            \* the line the stock loop looks at next
  held,            \* rows locked by the request's transaction
  current,         \* the sequence value OrderNumberingService.next has read
  audit,           \* InventoryEvent rows written, not yet committed
  applied          \* appliedPromotionIds

rows == <<stock, variantActive, productActive, inventory, customerOrders, setting, orders,
          couponActive, usageCount, usages, promotionActive, promotionUses,
          payments>>
vars == <<stock, variantActive, productActive, inventory, customerOrders, setting, orders,
          couponActive, usageCount, usages, promotionActive, promotionUses,
          payments, pc, line, held, current, audit, applied>>

-----------------------------------------------------------------------------

InTransaction == {"stock", "inventory", "customer", "readNumber",
                  "writeNumber", "insertOrder", "readCoupon", "bumpCoupon",
                  "redeem", "bumpPromotions", "commit"}
Running == InTransaction \cup {"catalogue", "evaluate", "session", "payment"}
Refused == {"rejected", "soldOut", "settingTaken", "numberTaken", "keyTaken",
            "couponGone", "timedOut"}
Answered == Refused \cup {"replayed", "placed", "lost"}

VariantRow(v) == <<"variant", v>>
CustomerRow(r) == <<"customer", PhoneOf[r]>>
SettingRow == <<"setting", "orders.sequence">>
CouponRow(c) == <<"coupon", c>>
PromotionRow(p) == <<"promotion", p>>

\* An UPDATE waits while another transaction has the row locked.
CanLock(r, row) == \A q \in Requests \ {r} : row \notin held[q]

Uses(c, phone) ==
  Cardinality({q \in usages : CouponOf[q] = c /\ PhoneOf[q] = phone})

Init ==
  /\ stock = InitialStock
  /\ variantActive = [v \in Variants |-> TRUE]
  /\ productActive = [p \in Products |-> TRUE]
  /\ inventory = << >>
  /\ customerOrders = [p \in Phones |-> 0]
  /\ setting = 0
  /\ orders = {}
  /\ couponActive = [c \in Coupons |-> TRUE]
  /\ usageCount = [c \in Coupons |-> 0]
  /\ usages = {}
  /\ promotionActive = [p \in Promotions |-> TRUE]
  /\ promotionUses = [p \in Promotions |-> 0]
  /\ payments = {}
  /\ pc = [r \in Requests |-> "idle"]
  /\ line = [r \in Requests |-> 1]
  /\ held = [r \in Requests |-> {}]
  /\ current = [r \in Requests |-> 0]
  /\ audit = [r \in Requests |-> << >>]
  /\ applied = [r \in Requests |-> {}]

Goto(r, place) == pc' = [pc EXCEPT ![r] = place]

\* The transaction of the requests in S ends: their locks go, and with the
\* callback its local variables.
EndTransaction(S) ==
  /\ line' = [r \in Requests |-> IF r \in S THEN 1 ELSE line[r]]
  /\ held' = [r \in Requests |-> IF r \in S THEN {} ELSE held[r]]
  /\ current' = [r \in Requests |-> IF r \in S THEN 0 ELSE current[r]]
  /\ audit' = [r \in Requests |-> IF r \in S THEN << >> ELSE audit[r]]
  /\ applied' = [r \in Requests |-> IF r \in S THEN {} ELSE applied[r]]

\* Throwing inside the callback rolls back: nothing was published.
Rollback(r, answer) ==
  /\ Goto(r, answer)
  /\ EndTransaction({r})
  /\ UNCHANGED rows

-----------------------------------------------------------------------------
(* Before the transaction.                                                 *)

\* Mutant: forgets that the order may have no payment yet.
SameKeyAnyPayment(r) == \E o \in orders : KeyOf[o.request] = KeyOf[r]

SamePaidKey(r) ==
  \E o \in orders : KeyOf[o.request] = KeyOf[r] /\ o.request \in payments

\* The idempotency lookup finds the order and its payment.
Replay(r) ==
  /\ pc[r] = "idle"
  /\ SamePaidKey(r)
  /\ Goto(r, "replayed")
  /\ UNCHANGED <<rows, line, held, current, audit, applied>>

\* No order yet, or an order without a payment: the handler goes on.
StartFresh(r) ==
  /\ pc[r] = "idle"
  /\ ~SamePaidKey(r)
  /\ Goto(r, "catalogue")
  /\ UNCHANGED <<rows, line, held, current, audit, applied>>

Sellable(r) ==
  /\ NoRepeatedVariant(r)
  /\ \A v \in VariantsOf(r) : variantActive[v] /\ productActive[ProductOf[v]]

ReadCatalogue(r) ==
  /\ pc[r] = "catalogue"
  /\ Goto(r, IF Sellable(r) THEN "evaluate" ELSE "rejected")
  /\ UNCHANGED <<rows, line, held, current, audit, applied>>

\* lookupCoupon
Redeemable(r) ==
  LET c == CouponOf[r] IN
  /\ couponActive[c]
  /\ promotionActive[PromotionOf[c]]
  /\ LimitTotal[c] > 0 => usageCount[c] < LimitTotal[c]
  /\ LimitPerCustomer[c] > 0 => Uses(c, PhoneOf[r]) < LimitPerCustomer[c]

\* The engine keeps some of the live automatic promotions, and the coupon's
\* promotion when its conditions hold for the cart.
Evaluate(r) ==
  /\ pc[r] = "evaluate"
  /\ Sellable(r)
  /\ CouponOf[r] # NoCoupon => Redeemable(r)
  /\ \E kept \in SUBSET {p \in Automatic : promotionActive[p]} :
       applied' = [applied EXCEPT ![r] =
                     kept \cup {PromotionOf[c] : c \in {CouponOf[r]} \cap Coupons}]
  /\ line' = [line EXCEPT ![r] = 1]
  /\ Goto(r, "stock")
  /\ UNCHANGED <<rows, held, current, audit>>

EvaluateRejects(r) ==
  /\ pc[r] = "evaluate"
  /\ ~Sellable(r) \/ CouponOf[r] # NoCoupon
  /\ Goto(r, "rejected")
  /\ UNCHANGED <<rows, line, held, current, audit, applied>>

-----------------------------------------------------------------------------
(* Inside the transaction.                                                 *)

\* Mutant: the WHERE clause loses its stock condition.
AvailableUnchecked(r) == variantActive[Lines[r][line[r]].variant]

\* WHERE isActive AND stockCount >= quantity, on the committed row: no own
\* write can have touched it, for no variant appears twice.  The product is
\* not looked at again.
Available(r) ==
  LET l == Lines[r][line[r]] IN
  variantActive[l.variant] /\ stock[l.variant] >= l.quantity

TakeStock(r) ==
  /\ pc[r] = "stock"
  /\ Available(r)
  /\ LET row == VariantRow(Lines[r][line[r]].variant) IN
       /\ CanLock(r, row)
       /\ held' = [held EXCEPT ![r] = @ \cup {row}]
  /\ line' = [line EXCEPT ![r] = @ + 1]
  /\ Goto(r, IF line[r] = Len(Lines[r]) THEN "inventory" ELSE "stock")
  /\ UNCHANGED <<rows, current, audit, applied>>

OutOfStock(r) ==
  /\ pc[r] = "stock"
  /\ ~Available(r)
  /\ Rollback(r, "soldOut")

\* Mutant: takes the count read back for the count before.
InventoryEventReadBack(r, l) ==
  LET after == stock[l.variant] - l.quantity IN
  [variant |-> l.variant, delta |-> -l.quantity,
   before |-> after, after |-> after]

\* The row is read back after the decrement and stockBefore re-derived.
InventoryEvent(r, l) ==
  LET after == stock[l.variant] - l.quantity IN
  [variant |-> l.variant, delta |-> -l.quantity,
   before |-> after + l.quantity, after |-> after]

WriteInventory(r) ==
  /\ pc[r] = "inventory"
  /\ audit' = [audit EXCEPT ![r] =
                 [i \in 1..Len(Lines[r]) |-> InventoryEvent(r, Lines[r][i])]]
  /\ Goto(r, "customer")
  /\ UNCHANGED <<rows, line, held, current, applied>>

UpsertCustomer(r) ==
  /\ pc[r] = "customer"
  /\ CanLock(r, CustomerRow(r))
  /\ held' = [held EXCEPT ![r] = @ \cup {CustomerRow(r)}]
  /\ Goto(r, "readNumber")
  /\ UNCHANGED <<rows, line, current, audit, applied>>

\* OrderNumberingService.next: a SELECT without a lock ...
ReadNumber(r) ==
  /\ pc[r] = "readNumber"
  /\ current' = [current EXCEPT ![r] = setting]
  /\ Goto(r, "writeNumber")
  /\ UNCHANGED <<rows, line, held, audit, applied>>

\* ... then an UPDATE (or, without a row, an INSERT) of the absolute value.
WriteNumber(r) ==
  /\ pc[r] = "writeNumber"
  /\ CanLock(r, SettingRow)
  /\ current[r] = 0 => setting = 0
  /\ held' = [held EXCEPT ![r] = @ \cup {SettingRow}]
  /\ Goto(r, "insertOrder")
  /\ UNCHANGED <<rows, line, current, audit, applied>>

SettingTaken(r) ==
  /\ pc[r] = "writeNumber"
  /\ CanLock(r, SettingRow)
  /\ current[r] = 0 /\ setting # 0
  /\ Rollback(r, "settingTaken")

\* Mutants: the sequence counts down; a unique constraint is missing.
NumberOfDown(r) == current[r] - 1
NumberOf(r) == current[r] + 1
NumberUsed(r) == \E o \in orders : o.number = NumberOf(r)
KeyUsed(r) == \E o \in orders : KeyOf[o.request] = KeyOf[r]

\* order.create checks orderNumber @unique and idempotencyKey @unique.  No
\* other transaction can have an uncommitted Order: it would hold SettingRow.
InsertOrder(r) ==
  /\ pc[r] = "insertOrder"
  /\ ~NumberUsed(r)
  /\ ~KeyUsed(r)
  /\ Goto(r, "readCoupon")
  /\ UNCHANGED <<rows, line, held, current, audit, applied>>

NumberTaken(r) ==
  /\ pc[r] = "insertOrder"
  /\ NumberUsed(r)
  /\ Rollback(r, "numberTaken")

\* Mutant: a unique violation is answered by trying again.
KeyTakenRetries(r) ==
  /\ pc[r] = "insertOrder"
  /\ KeyUsed(r)
  /\ Rollback(r, "catalogue")

KeyTaken(r) ==
  /\ pc[r] = "insertOrder"
  /\ KeyUsed(r)
  /\ Rollback(r, "keyTaken")

\* commitForOrder reads the coupon with its promotion ...
ReadCoupon(r) ==
  /\ pc[r] = "readCoupon"
  /\ CouponOf[r] # NoCoupon =>
       couponActive[CouponOf[r]] /\ promotionActive[PromotionOf[CouponOf[r]]]
  /\ Goto(r, IF CouponOf[r] = NoCoupon THEN "bumpPromotions" ELSE "bumpCoupon")
  /\ UNCHANGED <<rows, line, held, current, audit, applied>>

ReadCouponFails(r) ==
  /\ pc[r] = "readCoupon"
  /\ CouponOf[r] # NoCoupon
  /\ ~couponActive[CouponOf[r]] \/ ~promotionActive[PromotionOf[CouponOf[r]]]
  /\ Rollback(r, "couponGone")

\* Mutant: an update by id, the cap left to the cart evaluation.
TotalCapEvaluated(c) == couponActive[c]

\* ... increments usageCount where the cap is not reached ...
BelowTotalCap(c) ==
  couponActive[c] /\ (LimitTotal[c] = 0 \/ usageCount[c] < LimitTotal[c])

BumpCoupon(r) ==
  /\ pc[r] = "bumpCoupon"
  /\ BelowTotalCap(CouponOf[r])
  /\ CanLock(r, CouponRow(CouponOf[r]))
  /\ held' = [held EXCEPT ![r] = @ \cup {CouponRow(CouponOf[r])}]
  /\ Goto(r, "redeem")
  /\ UNCHANGED <<rows, line, current, audit, applied>>

BumpCouponFails(r) ==
  /\ pc[r] = "bumpCoupon"
  /\ ~BelowTotalCap(CouponOf[r])
  /\ Rollback(r, "couponGone")

\* Mutant: the cap is left to the cart evaluation, which has checked it.
CustomerCapEvaluated(r) == TRUE

\* ... then counts the customer's CouponUsage rows and adds one.
BelowCustomerCap(r) ==
  LET c == CouponOf[r] IN
  LimitPerCustomer[c] > 0 => Uses(c, PhoneOf[r]) < LimitPerCustomer[c]

Redeem(r) ==
  /\ pc[r] = "redeem"
  /\ BelowCustomerCap(r)
  /\ Goto(r, "bumpPromotions")
  /\ UNCHANGED <<rows, line, held, current, audit, applied>>

RedeemFails(r) ==
  /\ pc[r] = "redeem"
  /\ ~BelowCustomerCap(r)
  /\ Rollback(r, "couponGone")

BumpPromotions(r) ==
  /\ pc[r] = "bumpPromotions"
  /\ \A p \in applied[r] : CanLock(r, PromotionRow(p))
  /\ held' = [held EXCEPT ![r] = @ \cup {PromotionRow(p) : p \in applied[r]}]
  /\ Goto(r, "commit")
  /\ UNCHANGED <<rows, line, current, audit, applied>>

Count(r) ==
  /\ customerOrders' = [customerOrders EXCEPT ![PhoneOf[r]] = @ + 1]
  /\ promotionUses' = [p \in Promotions |->
                         IF p \in applied[r] THEN promotionUses[p] + 1
                                             ELSE promotionUses[p]]

Commit(r) ==
  /\ pc[r] = "commit"
  /\ stock' = [v \in Variants |-> IF v \in VariantsOf(r)
                                  THEN stock[v] - QuantityOf(r, v)
                                  ELSE stock[v]]
  /\ inventory' = inventory \o audit[r]
  /\ Count(r)
  /\ setting' = NumberOf(r)
  /\ orders' = orders \cup {[request |-> r, number |-> NumberOf(r),
                              promotions |-> applied[r]]}
  /\ usageCount' = [c \in Coupons |->
                      IF c = CouponOf[r] THEN usageCount[c] + 1 ELSE usageCount[c]]
  /\ usages' = IF CouponOf[r] = NoCoupon THEN usages ELSE usages \cup {r}
  /\ Goto(r, "session")
  /\ EndTransaction({r})
  /\ UNCHANGED <<variantActive, productActive, couponActive, promotionActive,
                 payments>>

\* The interactive transaction exceeds Prisma's timeout, or Postgres breaks a
\* deadlock by failing one of its statements.
Timeout(r) ==
  /\ pc[r] \in InTransaction
  /\ Rollback(r, "timedOut")

-----------------------------------------------------------------------------
(* After the transaction.                                                  *)

CreateSession(r) ==
  /\ pc[r] = "session"
  /\ Goto(r, "payment")
  /\ UNCHANGED <<rows, line, held, current, audit, applied>>

CreatePayment(r) ==
  /\ pc[r] = "payment"
  /\ payments' = payments \cup {r}
  /\ Goto(r, "placed")
  /\ UNCHANGED <<stock, variantActive, productActive, inventory,
                 customerOrders, setting, orders, couponActive, usageCount,
                 usages, promotionActive, promotionUses, line, held, current,
                 audit, applied>>

CreatePaymentFails(r) ==
  /\ pc[r] = "payment"
  /\ Goto(r, "lost")
  /\ UNCHANGED <<rows, line, held, current, audit, applied>>

\* The process stops: open transactions roll back, their callers get nothing.
Crash ==
  /\ \E r \in Requests : pc[r] \in Running
  /\ pc' = [r \in Requests |-> IF pc[r] \in Running THEN "lost" ELSE pc[r]]
  /\ EndTransaction(Requests)
  /\ UNCHANGED rows

-----------------------------------------------------------------------------
(* The admin withdraws what requests in flight have already read.          *)

requestVars == <<pc, line, held, current, audit, applied>>

DeactivateProduct(p) ==
  /\ productActive[p]
  /\ productActive' = [productActive EXCEPT ![p] = FALSE]
  /\ UNCHANGED <<stock, variantActive, inventory, customerOrders, setting,
                 orders, couponActive, usageCount, usages, promotionActive,
                 promotionUses, payments, requestVars>>

DeactivateVariant(v) ==
  /\ variantActive[v]
  /\ \A q \in Requests : VariantRow(v) \notin held[q]
  /\ variantActive' = [variantActive EXCEPT ![v] = FALSE]
  /\ UNCHANGED <<stock, productActive, inventory, customerOrders, setting, orders,
                 couponActive, usageCount, usages, promotionActive,
                 promotionUses, payments, requestVars>>

DeactivateCoupon(c) ==
  /\ couponActive[c]
  /\ \A q \in Requests : CouponRow(c) \notin held[q]
  /\ couponActive' = [couponActive EXCEPT ![c] = FALSE]
  /\ UNCHANGED <<stock, variantActive, productActive, inventory,
                 customerOrders, setting, orders, usageCount, usages, promotionActive, promotionUses,
                 payments, requestVars>>

DeactivatePromotion(p) ==
  /\ promotionActive[p]
  /\ \A q \in Requests : PromotionRow(p) \notin held[q]
  /\ promotionActive' = [promotionActive EXCEPT ![p] = FALSE]
  /\ UNCHANGED <<stock, variantActive, productActive, inventory,
                 customerOrders, setting, orders, couponActive, usageCount,
                 usages, promotionUses, payments, requestVars>>

-----------------------------------------------------------------------------

BeforeTransaction(r) ==
  \/ ReadCatalogue(r) \/ Evaluate(r) \/ EvaluateRejects(r)

Statement(r) ==
  \/ TakeStock(r)      \/ OutOfStock(r)
  \/ WriteInventory(r) \/ UpsertCustomer(r)
  \/ ReadNumber(r)     \/ WriteNumber(r)     \/ SettingTaken(r)
  \/ InsertOrder(r)    \/ NumberTaken(r)     \/ KeyTaken(r)
  \/ ReadCoupon(r)     \/ ReadCouponFails(r)
  \/ BumpCoupon(r)     \/ BumpCouponFails(r)
  \/ Redeem(r)         \/ RedeemFails(r)
  \/ BumpPromotions(r) \/ Commit(r)          \/ Timeout(r)

AfterTransaction(r) ==
  \/ CreateSession(r) \/ CreatePayment(r) \/ CreatePaymentFails(r)

Progress(r) == BeforeTransaction(r) \/ Statement(r) \/ AfterTransaction(r)

Next ==
  \/ \E r \in Requests : Replay(r) \/ StartFresh(r) \/ Progress(r)
  \/ Crash
  \/ \E p \in Products : DeactivateProduct(p)
  \/ \E v \in Variants : DeactivateVariant(v)
  \/ \E c \in Coupons : DeactivateCoupon(c)
  \/ \E p \in Promotions : DeactivatePromotion(p)

Spec == Init /\ [][Next]_vars

\* A started handler runs on; a transaction that waits is ended by a timeout.
FairSpec == Spec /\ \A r \in Requests : WF_vars(Progress(r))

-----------------------------------------------------------------------------

Event == [variant : Variants, delta : Int, before : Int, after : Int]
Row == {VariantRow(v) : v \in Variants} \cup {CustomerRow(r) : r \in Requests}
         \cup {SettingRow} \cup {CouponRow(c) : c \in Coupons}
         \cup {PromotionRow(p) : p \in Promotions}

\* Types of the rows and of the handlers' local state.
TypeOK ==
  /\ stock \in [Variants -> Int]
  /\ variantActive \in [Variants -> BOOLEAN]
  /\ productActive \in [Products -> BOOLEAN]
  /\ inventory \in Seq(Event)
  /\ customerOrders \in [Phones -> Nat]
  /\ setting \in Nat
  /\ orders \subseteq [request : Requests, number : Nat,
                         promotions : SUBSET Promotions]
  /\ couponActive \in [Coupons -> BOOLEAN]
  /\ usageCount \in [Coupons -> Nat]
  /\ usages \subseteq Requests
  /\ promotionActive \in [Promotions -> BOOLEAN]
  /\ promotionUses \in [Promotions -> Nat]
  /\ payments \subseteq Requests
  /\ pc \in [Requests -> {"idle"} \cup Running \cup Answered]
  /\ \A r \in Requests :
       /\ pc[r] = "stock" => line[r] \in 1..Len(Lines[r])
       /\ pc[r] \in {"bumpCoupon", "redeem"} => CouponOf[r] \in Coupons
  /\ line \in [Requests -> Nat]
  /\ held \in [Requests -> SUBSET Row]
  /\ current \in [Requests -> Nat]
  /\ audit \in [Requests -> Seq(Event)]
  /\ applied \in [Requests -> SUBSET Promotions]

-----------------------------------------------------------------------------

Placed(r) == \E o \in orders : o.request = r

\* Concurrent shoppers cannot both take the last unit: the conditional
\* decrement of step 1 and the lock it leaves on the row keep every
\* stockCount at or above zero.
StockNeverNegative == \A v \in Variants : stock[v] >= 0

\* Why the stock stays non-negative: no row has two owners, and every line
\* the loop has passed is locked and still covered by the committed count.
LocksExclusive ==
  \A r, q \in Requests : r # q => held[r] \cap held[q] = {}

LinesReserved ==
  \A r \in Requests : pc[r] \in InTransaction =>
    /\ NoRepeatedVariant(r)
    /\ line[r] \in 1..Len(Lines[r]) + 1
    /\ pc[r] = "stock" <=> line[r] <= Len(Lines[r])
    /\ \A i \in 1..line[r] - 1 :
         /\ VariantRow(Lines[r][i].variant) \in held[r]
         /\ stock[Lines[r][i].variant] >= Lines[r][i].quantity

StockInv == StockNeverNegative /\ LocksExclusive /\ LinesReserved

\* How many units an order holds of v, and how many the orders of S do.
UnitsOf(v, o) == IF v \in VariantsOf(o.request) THEN QuantityOf(o.request, v) ELSE 0
Bought(v, S) == LET Units(o) == UnitsOf(v, o) IN MapThenSumSet(Units, S)

\* What left the shelf is what the orders hold, whatever was refused, timed
\* out or crashed half-way through its lines.
UnitsConserved ==
  \A v \in Variants : stock[v] + Bought(v, orders) = InitialStock[v]

\* The InventoryEvent rows of v, and the count the last of those in S left.
EventsOf(v) == {i \in 1..Len(inventory) : inventory[i].variant = v}
Left(v, S) == IF S = {} THEN InitialStock[v] ELSE inventory[Max(S)].after

\* The InventoryEvent rows of a variant form a chain: each starts from the
\* count the previous one left, the first from the initial stock, and the
\* last one left the count that stands.  stockBefore is re-derived from a
\* read after the decrement, which only the row lock makes correct.
AuditChain ==
  \A v \in Variants :
    /\ \A i \in EventsOf(v) :
         /\ inventory[i].before = Left(v, {j \in EventsOf(v) : j < i})
         /\ inventory[i].after = inventory[i].before + inventory[i].delta
    /\ stock[v] = Left(v, EventsOf(v))

\* idempotencyKey @unique: retries and double clicks never make two orders.
OneOrderPerKey ==
  \A o1, o2 \in orders : KeyOf[o1.request] = KeyOf[o2.request] => o1 = o2

\* Order numbers are 1..n for n orders: none twice, although the sequence is
\* read without a lock, and no gap, for a rollback takes the bump with it.
NumbersSequential ==
  /\ {o.number : o \in orders} = 1..setting
  /\ Cardinality(orders) = setting

\* The caps of commitForOrder: usageCount is the number of CouponUsage rows,
\* these belong to the orders that carry the coupon, and neither cap is ever
\* passed, however many requests were greenlit by the cart evaluation.
CouponCapsHold ==
  /\ usages = {o.request : o \in {x \in orders : CouponOf[x.request] # NoCoupon}}
  /\ \A c \in Coupons :
       /\ usageCount[c] = Cardinality({q \in usages : CouponOf[q] = c})
       /\ LimitTotal[c] > 0 => usageCount[c] <= LimitTotal[c]
       /\ LimitPerCustomer[c] > 0 =>
            \A p \in Phones : Uses(c, p) <= LimitPerCustomer[c]

\* Denormalised counters agree with the orders they summarise:
\* Customer.totalOrders and Promotion.usageCount.
CountersAgree ==
  /\ \A p \in Phones :
       customerOrders[p] = Cardinality({o \in orders : PhoneOf[o.request] = p})
  /\ \A p \in Promotions :
       promotionUses[p] = Cardinality({o \in orders : p \in o.promotions})

\* createOrder's transaction writes to six tables in ten statements, and they
\* tell one story whatever was refused, timed out or crashed in between: the
\* shelf, its history, the numbers, the keys and the counters all agree with
\* the orders there are.
BooksBalance ==
  UnitsConserved /\ AuditChain /\ OneOrderPerKey /\ NumbersSequential /\ CountersAgree

\* The answer tells the truth: a refused request left no order, a confirmed
\* one has an order with a payment, and a replayed one shares its key with
\* such an order.
AnswersHonest ==
  \A r \in Requests :
    /\ pc[r] \in Refused => ~Placed(r)
    /\ pc[r] = "placed" => Placed(r) /\ r \in payments
    /\ pc[r] = "replayed" =>
         \E o \in orders : KeyOf[o.request] = KeyOf[r] /\ o.request \in payments

\* Every request that was started is answered, even when two transactions
\* lock the same variants in opposite orders.
EveryRequestAnswered ==
  \A r \in Requests : pc[r] \in Running ~> pc[r] \in Answered

\* The transaction behaves as one step: every commit is a legal atomic
\* placement, and no other step touches stock, orders or redemptions.
Book == INSTANCE OrderBook
PlacesAtomically == Book!Spec

\* schema.prisma:279 says that a repeat request returns the existing order,
\* public-checkout.service.ts:52 that a missing session is rebuilt.
RepeatsSucceed == \A r \in Requests : pc[r] # "keyTaken"

\* order-numbering.service.ts:9 says that row locks serialise concurrent
\* inserts, so no request should fail because of a number taken meanwhile.
NumberingSerialised ==
  \A r \in Requests : pc[r] \notin {"numberTaken", "settingTaken"}

=============================================================================

------------------------------- MODULE Shelf --------------------------------
(***************************************************************************)
(* The stock of the shop and everyone who writes it: the web checkout, the *)
(* counter (PosService.createOrder), staff adjusting a count               *)
(* (VariantsService.adjustStock) and cancellations putting units back.     *)
(*                                                                         *)
(* The web checkout is one step here: module Checkout shows that it places *)
(* orders atomically.  The counter reads before its transaction and the    *)
(* adjustment reads without a lock, so both are several steps.             *)
(***************************************************************************)
EXTENDS Integers, SequencesExt

CONSTANTS
  Variants,
  InitialStock,  \* stockCount of each variant
  Tills,         \* open billing screens; each has one sale in flight at most
  Adjustments,   \* bound: names for the adjustments in flight or answered
  MaxOrders      \* bound: orders ever placed

ASSUME ShelfAssumption ==
  InitialStock \in [Variants -> Nat] /\ MaxOrders \in Nat /\ IsFiniteSet(Variants)

VARIABLES
  stock,         \* ProductVariant.stockCount
  live,          \* variants with deletedAt null
  ledger,        \* InventoryEvent rows in commit order
  book,          \* Order rows in the order they were created
  sequence,      \* Setting "orders.sequence", which only the web checkout uses
  totalOrders,   \* Customer.totalOrders, all customers together
  bills,         \* orders whose billPdfUrl is saved
  sale,          \* the counter's request of each till
  adjustment     \* the requests to adjustStock

rows == <<stock, live, ledger, book, sequence, totalOrders, bills>>
shelfVars == <<rows, sale, adjustment>>

\* A basket gives each variant the quantity asked for; 0 is not in it.
InBasket(basket) == {v \in Variants : basket[v] > 0}
Numbers == {book[i].number : i \in DOMAIN book}

NoSale == [phase |-> "none"]
NoAdjustment == [phase |-> "free"]

ShelfInit ==
  /\ stock = InitialStock
  /\ live = Variants
  /\ ledger = << >>
  /\ book = << >>
  /\ sequence = 0
  /\ totalOrders = 0
  /\ bills = {}
  /\ sale = [t \in Tills |-> NoSale]
  /\ adjustment = [a \in Adjustments |-> NoAdjustment]

Event(v, by, delta, before) ==
  [variant |-> v, by |-> by, delta |-> delta,
   stockBefore |-> before, stockAfter |-> before + delta]

\* One event for each variant of a basket; which comes first tells nobody
\* anything, as they are of different variants.
Events(basket, sign, by, before) ==
  LET line == SetToSeq(InBasket(basket)) IN
  [i \in 1..Len(line) |->
     Event(line[i], by, sign * basket[line[i]], before[line[i]])]

\* Bound: an order is only asked for while there is room for it.
InFlight == {"asked", "checked", "numbered"}
RoomForAnOrder ==
  Len(book) + Cardinality({t \in Tills : sale[t].phase \in InFlight}) < MaxOrders

-----------------------------------------------------------------------------
(* The web checkout and cancellations.                                     *)

\* orderNumber is unique: a number the counter took is refused, and the
\* rollback takes the sequence back with it.
NumberFree(n) == n \notin Numbers

WebPlaces(basket) ==
  /\ RoomForAnOrder
  /\ InBasket(basket) # {}
  /\ \A v \in InBasket(basket) : v \in live /\ stock[v] >= basket[v]
  /\ NumberFree(sequence + 1)
  /\ sequence' = sequence + 1
  /\ book' = Append(book, [number |-> sequence + 1, source |-> "web",
                           basket |-> basket, visit |-> << >>, cancelled |-> FALSE])
  /\ ledger' = ledger \o Events(basket, -1, "web", stock)
  /\ stock' = [v \in Variants |-> stock[v] - basket[v]]
  /\ totalOrders' = totalOrders + 1
  /\ UNCHANGED <<live, bills, sale, adjustment>>

\* Cancelling locks the rows by incrementing them and records what they then
\* hold; staff may say that the goods do not come back.
Cancel(i, restock) ==
  LET back == IF restock THEN book[i].basket ELSE [v \in Variants |-> 0] IN
  /\ ~book[i].cancelled
  /\ book' = [book EXCEPT ![i].cancelled = TRUE]
  /\ ledger' = ledger \o Events(back, 1, "cancel", stock)
  /\ stock' = [v \in Variants |-> stock[v] + back[v]]
  /\ UNCHANGED <<live, sequence, totalOrders, bills, sale, adjustment>>

-----------------------------------------------------------------------------
(* VariantsService                                                         *)

SoftDelete(v) ==
  /\ v \in live
  /\ live' = live \ {v}
  /\ UNCHANGED <<stock, ledger, book, sequence, totalOrders, bills, sale, adjustment>>

AskAdjust(a, v, delta) ==
  /\ adjustment[a].phase = "free"
  /\ delta # 0
  /\ adjustment' = [adjustment EXCEPT ![a] =
                      [phase |-> "sent", variant |-> v, delta |-> delta, before |-> 0]]

\* The read inside the transaction takes no lock.
ReadStock(a) ==
  LET v == adjustment[a].variant
      refused == v \notin live \/ stock[v] + adjustment[a].delta < 0
  IN
  /\ adjustment[a].phase = "sent"
  /\ adjustment' = [adjustment EXCEPT
       ![a].phase = IF refused THEN "refused" ELSE "read",
       ![a].before = stock[v]]
  /\ UNCHANGED <<rows, sale>>

\* Mutant: the update adds to what the row holds.
WrittenRelative(a) == stock[adjustment[a].variant] + adjustment[a].delta

\* The update writes the sum computed from what was read.
Written(a) == adjustment[a].before + adjustment[a].delta

WriteStock(a) ==
  LET v == adjustment[a].variant IN
  /\ adjustment[a].phase = "read"
  /\ stock' = [stock EXCEPT ![v] = Written(a)]
  /\ ledger' = Append(ledger, Event(v, "staff", adjustment[a].delta, adjustment[a].before))
  /\ adjustment' = [adjustment EXCEPT ![a].phase = "applied"]
  /\ UNCHANGED <<live, book, sequence, totalOrders, bills, sale>>

\* The caller has its answer.
Answered(a) ==
  adjustment' = [adjustment EXCEPT ![a].phase = IF @ = "applied" THEN "done" ELSE @]

\* The transaction fails, or the answer of an adjustment made is lost on its
\* way: the caller sees an error either way.
AdjustFails(a) ==
  /\ adjustment[a].phase \in {"sent", "read", "applied"}
  /\ adjustment' = [adjustment EXCEPT
       ![a].phase = IF @ = "applied" THEN "answerLost" ELSE "refused"]
  /\ UNCHANGED <<rows, sale>>

-----------------------------------------------------------------------------
(* PosService.createOrder                                                  *)

AskSale(t, basket, visit) ==
  /\ sale[t].phase = "none"
  /\ RoomForAnOrder
  /\ InBasket(basket) # {}
  /\ sale' = [sale EXCEPT ![t] =
       [phase |-> "asked", basket |-> basket, visit |-> visit,
        before |-> [v \in Variants |-> 0], number |-> 0]]

\* Mutant: the counter sells what it has not got.
SellsAnything(t) == InBasket(sale[t].basket) \subseteq live

Sells(t) ==
  \A v \in InBasket(sale[t].basket) : v \in live /\ stock[v] >= sale[t].basket[v]

\* Variants and stock are looked at outside the transaction.
CheckSale(t) ==
  /\ sale[t].phase = "asked"
  /\ sale' = [sale EXCEPT
       ![t].phase = IF Sells(t) THEN "checked" ELSE "refused",
       ![t].before = stock]
  /\ UNCHANGED <<rows, adjustment>>

\* The number after that of the order created last, whatever its source.
NextOrderNumber == IF book = << >> THEN 1 ELSE Last(book).number + 1

TakeNumber(t) ==
  /\ sale[t].phase = "checked"
  /\ sale' = [sale EXCEPT ![t].phase = "numbered", ![t].number = NextOrderNumber]
  /\ UNCHANGED <<rows, adjustment>>

Taken(t, v) == stock[v] - sale[t].basket[v]

\* order.create, then a decrement without a condition for every line; the
\* events repeat what was read before the transaction.
CommitSale(t) ==
  /\ sale[t].phase = "numbered"
  /\ NumberFree(sale[t].number)
  /\ book' = Append(book, [number |-> sale[t].number, source |-> "pos",
                           basket |-> sale[t].basket, visit |-> sale[t].visit,
                           cancelled |-> FALSE])
  /\ stock' = [v \in Variants |-> Taken(t, v)]
  /\ ledger' = ledger \o Events(sale[t].basket, -1, "counter", sale[t].before)
  /\ totalOrders' = totalOrders + 1
  /\ sale' = [sale EXCEPT ![t].phase = "committed"]
  /\ UNCHANGED <<live, sequence, bills, adjustment>>

\* Mutant: the sale waits for the number to become free.
SaleNumberAwaited(t) ==
  /\ sale[t].phase = "numbered"
  /\ ~NumberFree(sale[t].number)
  /\ UNCHANGED shelfVars

SaleNumberTaken(t) ==
  /\ sale[t].phase = "numbered"
  /\ ~NumberFree(sale[t].number)
  /\ sale' = [sale EXCEPT ![t].phase = "refused"]
  /\ UNCHANGED <<rows, adjustment>>

\* The bill is drawn and its address saved on the order.
SaveBill(t) ==
  /\ sale[t].phase = "committed"
  /\ bills' = bills \cup {sale[t].number}
  /\ sale' = [sale EXCEPT ![t].phase = "billed"]
  /\ UNCHANGED <<stock, live, ledger, book, sequence, totalOrders, adjustment>>

\* Drawing the bill fails, the process stops or the answer does not arrive:
\* an error for the till, whatever was committed.
SaleFails(t) ==
  /\ sale[t].phase \in {"asked", "checked", "numbered", "committed", "billed"}
  /\ sale' = [sale EXCEPT
       ![t].phase = IF @ \in {"committed", "billed"} THEN "answerLost" ELSE "refused"]
  /\ UNCHANGED <<rows, adjustment>>

ServesTill(t) ==
  \/ CheckSale(t)
  \/ TakeNumber(t)
  \/ CommitSale(t)
  \/ SaleNumberTaken(t)
  \/ SaveBill(t)

ServesAdjustment(a) == ReadStock(a) \/ WriteStock(a)

-----------------------------------------------------------------------------

Replayed(counts, e) ==
  [counts EXCEPT ![e.variant] = IF e.by = "staff" THEN e.stockAfter ELSE @ + e.delta]

Replay(events) == FoldLeft(Replayed, InitialStock, events)

\* The history of a variant explains its stock, lost updates included: taking
\* the events in the order they were committed, an adjustment as the value it
\* set and every other event as the change it made, gives stockCount.
LedgerReplays == stock = Replay(ledger)

\* Stock goes below zero only where the counter sold on an old reading: some
\* counter sale of the variant recorded a stockBefore that was not the count
\* when it was committed.
OversoldOnlyByStaleSales ==
  \A v \in Variants : stock[v] < 0 =>
    \E i \in DOMAIN ledger :
      /\ ledger[i].variant = v
      /\ ledger[i].by = "counter"
      /\ ledger[i].stockBefore # Replay(SubSeq(ledger, 1, i - 1))[v]

\* "Matches the next-order-number pattern used in PublicCheckoutService":
\* the number the next web order will take is not taken yet.
NextWebNumberFree == NumberFree(sequence + 1)
=============================================================================

----------------------------- MODULE ShopFloor ------------------------------
(***************************************************************************)
(* The people in front of Shelf: the biller's till (apps/billing), the     *)
(* inventory page of the admin panel with its quick buttons, its drawer    *)
(* and its spreadsheet import, all of which act on counts read earlier.    *)
(***************************************************************************)
EXTENDS Shelf

CONSTANTS
  SingleVariant,  \* variants that are the only one of their product
  MaxVisits,      \* bound: customers served at each till
  Buttons,        \* changes the page's quick buttons make
  MaxTyped,       \* bound: largest number typed into the drawer
  Rows,           \* rows of the spreadsheet
  RowVariant, RowDelta,   \* what each row asks for
  MaxUploads,     \* bound: times a sheet is uploaded
  Shifts          \* bound: who is at work at the same time

ASSUME FloorAssumption ==
  /\ SingleVariant \subseteq Variants
  /\ Rows \subseteq Nat
  /\ Buttons \subseteq Int /\ MaxTyped \in Nat
  /\ RowVariant \in [Rows -> Variants]
  /\ Adjustments = 1..Cardinality(Adjustments)
  /\ RowDelta \in [Rows -> Int \ {0}]

VARIABLES
  screen,        \* modal of each till: "cart" while none is open
  basket,        \* cart of each till
  cap,           \* CartItem.stock, the count seen when the item was added
  grid,          \* stockCounts the product grid of each till shows
  visit,         \* history: which customer the till is serving
  unheard,       \* history: orders made whose answer was an error
  page,          \* stockCounts the inventory page was rendered with
  optimistic,    \* the page's overlay of counts just tapped, -1 where none
  tapping,       \* quick adjustments not answered yet
  drawer,        \* the drawer's adjustment, or Closed or Open
  sheet,         \* the import panel
  atWork         \* who is at work, one of Shifts for good

tillVars == <<screen, basket, cap, grid, visit, unheard>>
pageVars == <<page, optimistic, tapping, drawer>>
vars == <<shelfVars, tillVars, pageVars, sheet, atWork>>

Closed == -1
Open == 0

Nothing == [v \in Variants |-> 0]
NoSheet == [step |-> "upload", todo |-> {}, call |-> 0,
            applied |-> {}, failed |-> {}, uploads |-> 0,
            sent |-> {}]   \* history: which call was made for which row

Init ==
  /\ ShelfInit
  /\ screen = [t \in Tills |-> "cart"]
  /\ basket = [t \in Tills |-> Nothing]
  /\ cap = [t \in Tills |-> Nothing]
  /\ grid = [t \in Tills |-> InitialStock]
  /\ visit = [t \in Tills |-> 1]
  /\ unheard = {}
  /\ page = InitialStock
  /\ optimistic = [v \in Variants |-> -1]
  /\ tapping = {}
  /\ drawer = Closed
  /\ sheet = NoSheet
  /\ atWork \in Shifts

-----------------------------------------------------------------------------
(* The till: PosPage and its panels.                                       *)

\* PosService.searchProducts lists what is live, sold out or not; -1 stands
\* for a variant that is not listed.
searchProducts == [v \in Variants |-> IF v \in live THEN stock[v] ELSE -1]

\* ProductGrid searches when it opens and whenever the query changes; the
\* dialogs cover it.
Search(t) ==
  /\ screen[t] = "cart"
  /\ grid' = [grid EXCEPT ![t] = searchProducts]
  /\ UNCHANGED <<shelfVars, screen, basket, cap, visit, unheard, pageVars, sheet>>

\* A variant sold out is disabled in the dropdown; a product with a single
\* variant has no dropdown, and its button is always enabled.
CanAdd(t, v) == grid[t][v] > 0 \/ (v \in SingleVariant /\ grid[t][v] = 0)

addToCart(t, v) ==
  /\ screen[t] = "cart"
  /\ CanAdd(t, v)
  /\ basket[t][v] = 0 \/ basket[t][v] < cap[t][v]
  /\ basket' = [basket EXCEPT ![t][v] = @ + 1]
  /\ cap' = [cap EXCEPT ![t][v] = IF basket[t][v] = 0 THEN grid[t][v] ELSE @]
  /\ UNCHANGED <<shelfVars, screen, grid, visit, unheard, pageVars, sheet>>

increase(t, v) ==
  /\ screen[t] = "cart"
  /\ basket[t][v] > 0
  /\ basket[t][v] < cap[t][v]
  /\ basket' = [basket EXCEPT ![t][v] = @ + 1]
  /\ UNCHANGED <<shelfVars, screen, cap, grid, visit, unheard, pageVars, sheet>>

\* One less, or out of the cart altogether.
decrease(t, v, left) ==
  /\ screen[t] = "cart"
  /\ basket[t][v] > 0
  /\ left \in {0, basket[t][v] - 1}
  /\ basket' = [basket EXCEPT ![t][v] = left]
  /\ cap' = [cap EXCEPT ![t][v] = IF left = 0 THEN 0 ELSE @]
  /\ UNCHANGED <<shelfVars, screen, grid, visit, unheard, pageVars, sheet>>

GoTo(t, place) ==
  /\ screen' = [screen EXCEPT ![t] = place]
  /\ UNCHANGED <<basket, cap, grid, visit, unheard, pageVars, sheet>>

\* POST /pos/coupons/validate does not exist, so "Apply" always answers that
\* the coupon is invalid and the cart goes on without a discount.
handleProceed(t) ==
  /\ screen[t] = "cart"
  /\ InBasket(basket[t]) # {}
  /\ GoTo(t, "customer")
  /\ UNCHANGED shelfVars

\* The phone is checked; name and e-mail are optional.
handleGenerateQr(t) ==
  /\ screen[t] = "customer"
  /\ GoTo(t, "qr")
  /\ UNCHANGED shelfVars

CloseCustomer(t) ==
  /\ screen[t] = "customer"
  /\ GoTo(t, "cart")
  /\ UNCHANGED shelfVars

\* Back stays enabled while the order is being created.
BackFromQr(t) ==
  /\ screen[t] = "qr"
  /\ GoTo(t, "customer")
  /\ UNCHANGED shelfVars

\* The QR dialog; orderLoading disables its button.
PaymentOffered(t) == screen[t] = "qr" /\ sale[t].phase = "none"

handlePaymentReceived(t) ==
  /\ PaymentOffered(t)
  /\ AskSale(t, basket[t], <<t, visit[t]>>)
  /\ UNCHANGED <<rows, adjustment, tillVars, pageVars, sheet>>

Close(t) == sale' = [sale EXCEPT ![t] = NoSale]

\* Mutant: the dialog stays on the QR.
OrderCreatedUnseen(t) ==
  /\ sale[t].phase = "billed"
  /\ Close(t)
  /\ GoTo(t, "qr")
  /\ UNCHANGED <<rows, adjustment>>

OrderCreated(t) ==
  /\ sale[t].phase = "billed"
  /\ Close(t)
  /\ GoTo(t, "success")
  /\ UNCHANGED <<rows, adjustment>>

\* An alert; the QR stays and the button is enabled again.
OrderNotCreated(t) ==
  /\ sale[t].phase \in {"refused", "answerLost"}
  /\ Close(t)
  /\ unheard' = IF sale[t].phase = "answerLost" THEN unheard \cup {sale[t].number} ELSE unheard
  /\ UNCHANGED <<rows, adjustment, screen, basket, cap, grid, visit, pageVars, sheet>>

\* The last dialog can only be left for the next customer.
SuccessShown(t) == screen[t] = "success"

handleNewSale(t) ==
  /\ SuccessShown(t)
  /\ visit[t] < MaxVisits
  /\ screen' = [screen EXCEPT ![t] = "cart"]
  /\ basket' = [basket EXCEPT ![t] = Nothing]
  /\ cap' = [cap EXCEPT ![t] = Nothing]
  /\ visit' = [visit EXCEPT ![t] = @ + 1]
  /\ UNCHANGED <<shelfVars, grid, unheard, pageVars, sheet>>

-----------------------------------------------------------------------------
(* The inventory page.                                                     *)

\* Names are used in order.
Free(a) ==
  /\ adjustment[a].phase = "free"
  /\ \A b \in 1..a-1 : adjustment[b].phase # "free"

\* What the row of a variant shows.
Shown(v) == IF optimistic[v] >= 0 THEN optimistic[v] ELSE page[v]

\* router.refresh: the page is rendered again and the overlay is dropped.
Refreshed ==
  /\ page' = stock
  /\ optimistic' = [v \in Variants |-> -1]

\* A button or the "Undo" of an earlier one.  Nothing waits for the answer of
\* the tap before.
quickAdjust(a, v, delta) ==
  /\ Free(a)
  /\ Shown(v) + delta >= 0
  /\ AskAdjust(a, v, delta)
  /\ optimistic' = [optimistic EXCEPT ![v] = Shown(v) + delta]
  /\ tapping' = tapping \cup {a}
  /\ UNCHANGED <<rows, sale, tillVars, page, drawer, sheet>>

TapApplied(a) ==
  /\ a \in tapping
  /\ adjustment[a].phase = "applied"
  /\ tapping' = tapping \ {a}
  /\ Refreshed
  /\ Answered(a)
  /\ UNCHANGED <<rows, sale, tillVars, drawer, sheet>>

\* The overlay of the row goes, other taps in flight or not.
TapRefused(a) ==
  /\ a \in tapping
  /\ adjustment[a].phase \in {"refused", "answerLost"}
  /\ tapping' = tapping \ {a}
  /\ optimistic' = [optimistic EXCEPT ![adjustment[a].variant] = -1]
  /\ Answered(a)
  /\ UNCHANGED <<rows, sale, tillVars, page, drawer, sheet>>

OpenDrawer ==
  /\ drawer = Closed
  /\ drawer' = Open
  /\ UNCHANGED <<shelfVars, tillVars, page, optimistic, tapping, sheet>>

\* "Add", "remove" and "set to" all become a change; "set to" counts from the
\* number the row shows.
DrawerDeltas(v) ==
  {n : n \in 1..MaxTyped} \cup {-n : n \in 1..MaxTyped}
    \cup {n - Shown(v) : n \in 0..MaxTyped}

submitDrawer(a, v, delta) ==
  /\ drawer = Open
  /\ Free(a)
  /\ delta \in DrawerDeltas(v)
  /\ AskAdjust(a, v, delta)
  /\ drawer' = a
  /\ UNCHANGED <<rows, sale, tillVars, page, optimistic, tapping, sheet>>

\* Saved: the drawer closes and the page is refreshed.  Refused: it stays.
DrawerAnswered(a) ==
  /\ drawer = a
  /\ \/ /\ adjustment[a].phase = "applied"
        /\ drawer' = Closed
        /\ Refreshed
     \/ /\ adjustment[a].phase \in {"refused", "answerLost"}
        /\ drawer' = Open
        /\ UNCHANGED <<page, optimistic>>
  /\ Answered(a)
  /\ UNCHANGED <<rows, sale, tillVars, tapping, sheet>>

-----------------------------------------------------------------------------
(* StockAdjustImportPanel.                                                 *)

\* The route parses the sheet and keeps the rows whose SKU is in the catalogue.
ValidRows(wanted) == {r \in wanted : RowVariant[r] \in live}

\* The first upload is the whole sheet, a later one what the last run reported
\* as failed.
Upload ==
  LET valid == ValidRows(IF sheet.uploads = 0 THEN Rows ELSE sheet.failed) IN
  /\ sheet.step \in {"upload", "done"}
  /\ sheet.uploads < MaxUploads
  /\ valid # {}
  /\ sheet' = [step |-> "preview", todo |-> valid, call |-> 0,
               applied |-> {}, failed |-> {}, uploads |-> sheet.uploads + 1,
               sent |-> sheet.sent]
  /\ UNCHANGED <<shelfVars, tillVars, pageVars>>

runImport ==
  /\ sheet.step = "preview"
  /\ sheet' = [sheet EXCEPT !.step = "importing"]
  /\ UNCHANGED <<shelfVars, tillVars, pageVars>>

\* The rows are sent in their order, each after the answer to the one before.
NextRow == Min(sheet.todo)

SendRow(a) ==
  /\ sheet.step = "importing"
  /\ sheet.call = 0
  /\ sheet.todo # {}
  /\ Free(a)
  /\ AskAdjust(a, RowVariant[NextRow], RowDelta[NextRow])
  /\ sheet' = [sheet EXCEPT !.call = a, !.sent = @ \cup {<<a, NextRow>>}]
  /\ UNCHANGED <<rows, sale, tillVars, pageVars>>

RowAnswered(a) ==
  /\ sheet.call = a
  /\ \/ /\ adjustment[a].phase = "applied"
        /\ sheet' = [sheet EXCEPT !.call = 0, !.todo = @ \ {NextRow},
                                  !.applied = @ \cup {NextRow}]
     \/ /\ adjustment[a].phase \in {"refused", "answerLost"}
        /\ sheet' = [sheet EXCEPT !.call = 0, !.todo = @ \ {NextRow},
                                  !.failed = @ \cup {NextRow}]
  /\ Answered(a)
  /\ UNCHANGED <<rows, sale, tillVars, pageVars>>

ImportDone ==
  /\ sheet.step = "importing"
  /\ sheet.todo = {}
  /\ sheet' = [sheet EXCEPT !.step = "done"]
  /\ IF sheet.applied # {} THEN Refreshed ELSE UNCHANGED <<page, optimistic>>
  /\ UNCHANGED <<shelfVars, tillVars, tapping, drawer>>

-----------------------------------------------------------------------------

TillNext(t) ==
  \/ Search(t) \/ handleProceed(t) \/ handleGenerateQr(t)
  \/ CloseCustomer(t) \/ BackFromQr(t) \/ handlePaymentReceived(t)
  \/ OrderCreated(t) \/ OrderNotCreated(t) \/ handleNewSale(t)
  \/ \E v \in Variants :
       \/ addToCart(t, v) \/ increase(t, v)
       \/ \E left \in 0..basket[t][v] : decrease(t, v, left)

ButtonsNext ==
  \E a \in Adjustments :
    \/ TapApplied(a) \/ TapRefused(a)
    \/ \E v \in Variants, delta \in Buttons : quickAdjust(a, v, delta)

DrawerNext ==
  \/ OpenDrawer
  \/ \E a \in Adjustments :
       \/ DrawerAnswered(a)
       \/ \E v \in Variants : \E delta \in DrawerDeltas(v) : submitDrawer(a, v, delta)

SheetNext ==
  \/ Upload \/ runImport \/ ImportDone
  \/ \E a \in Adjustments : SendRow(a) \/ RowAnswered(a)

Handlers ==
  \/ \E t \in Tills : ServesTill(t) \/ SaleFails(t)
  \/ \E a \in Adjustments : ServesAdjustment(a) \/ AdjustFails(a)

Outside ==
  \/ "web" \in atWork /\ \E wanted \in [Variants -> 0..1] : WebPlaces(wanted)
  \/ "cancel" \in atWork /\ \E i \in DOMAIN book, restock \in BOOLEAN : Cancel(i, restock)
  \/ "catalogue" \in atWork /\ \E v \in Variants : SoftDelete(v)

Screens ==
  \/ "till" \in atWork /\ \E t \in Tills : TillNext(t)
  \/ "buttons" \in atWork /\ ButtonsNext
  \/ "drawer" \in atWork /\ DrawerNext
  \/ "sheet" \in atWork /\ SheetNext

Next ==
  /\ atWork' = atWork
  /\ \/ (Handlers \/ Outside) /\ UNCHANGED <<tillVars, pageVars, sheet>>
     \/ Screens

Spec == Init /\ [][Next]_vars

\* A handler that is called runs to its end; people do what they like.
FairSpec ==
  /\ Spec
  /\ \A t \in Tills :
       /\ WF_vars(ServesTill(t) /\ UNCHANGED <<tillVars, pageVars, sheet, atWork>>)
       /\ WF_vars((OrderCreated(t) \/ OrderNotCreated(t)) /\ UNCHANGED atWork)

-----------------------------------------------------------------------------

Wrote(a) == adjustment[a].phase \in {"applied", "done", "answerLost"}

\* A customer at the counter is charged twice, or a row of a sheet applied
\* twice, only where the answer to the first time was lost: nothing in the
\* requests would tell the API that it has seen them (the counter's
\* idempotency key contains the time), so the screens must not repeat them.
TwiceOnlyAfterLostAnswer ==
  /\ \A i, j \in DOMAIN book :
       i < j /\ book[i].source = "pos" /\ book[i].visit = book[j].visit
         => book[i].number \in unheard
  /\ \A one, other \in sheet.sent :
       one[1] # other[1] /\ one[2] = other[2] /\ Wrote(one[1]) /\ Wrote(other[1])
         => "answerLost" \in {adjustment[one[1]].phase, adjustment[other[1]].phase}

\* "Payment received" is answered: the numbers the counter and the web take
\* from each other may refuse a sale but not keep it waiting.
EverySaleAnswered ==
  \A t \in Tills : sale[t].phase # "none" ~> sale[t].phase = "none"
=============================================================================

------------------------------ MODULE Shopping ------------------------------
(***************************************************************************)
(* The storefront from the bag to the confirmation, in several tabs of one *)
(* browser: the bag (a copy in the memory of every tab, one in             *)
(* localStorage that each change of any tab overwrites), the checkout blob *)
(* of a tab (address and idempotency key, in sessionStorage), the steps of *)
(* the checkout, POST /public/orders with answers that come late, after    *)
(* the customer has left the page, or never, and the polling of the        *)
(* payment.  The server is reduced to what Checkout.tla establishes: one   *)
(* order per key, whose first content and payment every repeat is given.   *)
(***************************************************************************)
EXTENDS Naturals, FiniteSets, Sequences, SequencesExt, FiniteSetsExt, Functions

CONSTANTS Tabs, Variants,
          LineCap,      \* units of a line, 20 in the code
          MaxEdits,     \* bound: changes customers make to their bags
          MaxPosts      \* bound: orders posted

ASSUME ShoppingAssumption ==
    LineCap \in Nat \ {0} /\ MaxEdits \in Nat /\ MaxPosts \in Nat /\ "closed" \notin Tabs

VARIABLES stored,   \* the bag in localStorage
          tab,      \* what each tab holds
          posts,    \* POST /public/orders so far: the tab and where it stands
          orders,   \* the server's orders of this customer
          given,    \* history: the units of each variant a tab's bag was ever given
          edits

vars == <<stored, tab, posts, orders, given, edits>>

Carts == [Variants -> 0..LineCap]
Closed == "closed"     \* where the posts and orders of a closed tab belong
EmptyCart == [v \in Variants |-> 0]
Pages == {"shop", "cart", "address", "shipping", "payment", "processing", "failed", "silent", "confirmed", "success"}

\* key: the idempotency key of the tab, 0 for none; paying: the post that
\* keeps the Pay button disabled; order: what processing and success are about
Fresh == [page |-> "shop", bag |-> EmptyCart, key |-> 0, address |-> FALSE, paying |-> 0, order |-> 0]

ShopInit == /\ stored = EmptyCart
            /\ tab = [t \in Tabs |-> Fresh]
            /\ posts = <<>>
            /\ orders = <<>>
            /\ given = [t \in Tabs |-> EmptyCart]
            /\ edits = 0

-----------------------------------------------------------------------------
(* The bag *)

Grown(old, new) == [v \in Variants |-> IF new[v] > old[v] THEN new[v] - old[v] ELSE 0]

\* the tab's bag becomes bag, and tab' is the given one but for that
Holds(t, bag, next) ==
    /\ tab' = [tab EXCEPT ![t] = [next EXCEPT !.bag = bag]]
    /\ given' = [given EXCEPT ![t] = [v \in Variants |-> @[v] + Grown(tab[t].bag, bag)[v]]]

\* every change of a hydrated bag is written through, as it stands in this tab
persist(bag) == stored' = bag

Edit(t, bag) == /\ edits < MaxEdits
                /\ edits' = edits + 1
                /\ Holds(t, bag, tab[t])
                /\ persist(bag)
                /\ UNCHANGED <<posts, orders>>

addItem(t, v) == Edit(t, [tab[t].bag EXCEPT ![v] = Min({LineCap, @ + 1})])

handleAddToBag(t, v) == tab[t].page = "shop" /\ addItem(t, v)

updateQuantity(t, v) ==
    /\ tab[t].page = "cart" /\ tab[t].bag[v] > 0
    /\ \E q \in {tab[t].bag[v] - 1, tab[t].bag[v] + 1} \cap 1..LineCap :
          Edit(t, [tab[t].bag EXCEPT ![v] = q])

removeItem(t, v) ==
    /\ tab[t].page = "cart" /\ tab[t].bag[v] > 0
    /\ Edit(t, [tab[t].bag EXCEPT ![v] = 0])

-----------------------------------------------------------------------------
(* The steps of the checkout *)

\* the pages of the checkout send away a customer without a bag or an address
Bounced(page, bag, address) ==
    CASE page \in {"address", "shipping", "payment"} /\ bag = EmptyCart -> "cart"
      [] page \in {"shipping", "payment"} /\ ~address                  -> "address"
      [] OTHER                                                         -> page

\* paying lives in the payment page: leaving it enables the button again
GoTo(t, page) ==
    /\ tab' = [tab EXCEPT ![t].page = Bounced(page, tab[t].bag, tab[t].address), ![t].paying = 0]
    /\ UNCHANGED <<stored, posts, orders, given, edits>>

Visit(t) == \E p \in {"shop", "cart"} : tab[t].page # p /\ GoTo(t, p)

handleCheckout(t) == tab[t].page = "cart" /\ tab[t].bag # EmptyCart /\ GoTo(t, "address")

onSubmit(t) ==
    /\ tab[t].page = "address"
    /\ tab' = [tab EXCEPT ![t].address = TRUE, ![t].page = "shipping"]
    /\ UNCHANGED <<stored, posts, orders, given, edits>>

ContinueToPayment(t) == tab[t].page = "shipping" /\ GoTo(t, "payment")

\* the processing page was pushed over the payment page; its error offers both
TurnBack(t) ==
    \/ tab[t].page \in {"processing", "failed", "silent"} /\ GoTo(t, "payment")
    \/ tab[t].page \in {"failed", "silent"} /\ GoTo(t, "cart")

-----------------------------------------------------------------------------
(* Paying *)

\* a post nobody waits for any more
Over == [tab |-> Closed, key |-> 0, lines |-> EmptyCart, at |-> "done", order |-> 0, heard |-> FALSE]

\* the key of the tab, or a fresh one: posts are numbered, so the number of the
\* post that first uses a key names it
getOrCreateIdempotencyKey(t) == IF tab[t].key # 0 THEN tab[t].key ELSE Len(posts) + 1

handlePay(t) ==
    /\ tab[t].page = "payment" /\ tab[t].paying = 0 /\ Len(posts) < MaxPosts
    /\ LET key == getOrCreateIdempotencyKey(t)
       IN /\ posts' = Append(posts, [tab |-> t, key |-> key, lines |-> tab[t].bag,
                                     at |-> "asked", order |-> 0, heard |-> TRUE])
          /\ tab' = [tab EXCEPT ![t].key = key, ![t].paying = Len(posts) + 1]
    /\ UNCHANGED <<stored, orders, given, edits>>

\* the server: one order per key, and the last payment of that order for a repeat
createOrder(i) ==
    /\ posts[i].at = "asked"
    /\ LET known == {o \in DOMAIN orders : orders[o].key = posts[i].key}
       IN /\ posts' = [posts EXCEPT ![i] =
                 IF @.heard THEN [@ EXCEPT !.at = "placed", !.order = IF known = {} THEN Len(orders) + 1 ELSE Max(known)]
                 ELSE Over]
          /\ orders' = IF known = {} THEN Append(orders, [key |-> posts[i].key, tab |-> posts[i].tab,
                                                          lines |-> posts[i].lines, state |-> "pending"])
                                     ELSE orders
    /\ UNCHANGED <<stored, tab, given, edits>>

\* the answer sends the customer to the processing page, from wherever they are
\* by then; router.push works after the payment page is gone
PayAnswered(i) ==
    /\ posts[i].at = "placed" /\ posts[i].heard
    /\ posts' = [posts EXCEPT ![i] = Over]
    /\ tab' = [tab EXCEPT ![posts[i].tab].page = "processing", ![posts[i].tab].paying = 0,
                          ![posts[i].tab].order = posts[i].order]
    /\ UNCHANGED <<stored, orders, given, edits>>

\* out of stock, or no answer, before or after the order was placed
PayFails(i) ==
    /\ posts[i].at # "done" /\ posts[i].heard
    /\ posts' = [posts EXCEPT ![i] = IF @.at = "placed" THEN Over ELSE [@ EXCEPT !.heard = FALSE]]
    /\ tab' = [t \in Tabs |-> IF tab[t].paying = i THEN [tab[t] EXCEPT !.paying = 0] ELSE tab[t]]
    /\ UNCHANGED <<stored, orders, given, edits>>

Refused(i) ==
    /\ posts[i].at = "asked" /\ \A o \in DOMAIN orders : orders[o].key # posts[i].key
    /\ posts' = [posts EXCEPT ![i] = Over]
    /\ tab' = [t \in Tabs |-> IF tab[t].paying = i THEN [tab[t] EXCEPT !.paying = 0] ELSE tab[t]]
    /\ UNCHANGED <<stored, orders, given, edits>>

-----------------------------------------------------------------------------
(* The payment and its page *)

PaymentSettled(o) ==
    /\ orders[o].state = "pending"
    /\ \E s \in {"captured", "failed"} : orders' = [orders EXCEPT ![o].state = s]
    /\ UNCHANGED <<stored, tab, posts, given, edits>>

\* mutant: a failed payment drops the key
tickForgets(t) ==
    /\ tab[t].page = "processing"
    /\ orders[tab[t].order].state # "pending"
    /\ tab' = IF orders[tab[t].order].state = "captured" THEN [tab EXCEPT ![t].page = "confirmed"]
              ELSE [tab EXCEPT ![t].page = "failed", ![t].key = 0]
    /\ UNCHANGED <<stored, posts, orders, given, edits>>

tick(t) ==
    /\ tab[t].page = "processing"
    /\ orders[tab[t].order].state # "pending"
    /\ tab' = [tab EXCEPT ![t].page =
                  IF orders[tab[t].order].state = "captured" THEN "confirmed" ELSE "failed"]
    /\ UNCHANGED <<stored, posts, orders, given, edits>>

\* mutant: the deadline is looked at only after an answer that is not pending
DeadlineUnwatched(t) ==
    /\ tab[t].page = "processing" /\ orders[tab[t].order].state # "pending"
    /\ tab' = [tab EXCEPT ![t].page = "silent"]
    /\ UNCHANGED <<stored, posts, orders, given, edits>>

DeadlinePassed(t) ==
    /\ tab[t].page = "processing"
    /\ tab' = [tab EXCEPT ![t].page = "silent"]
    /\ UNCHANGED <<stored, posts, orders, given, edits>>

\* the confirmation page drops the bag, and with the checkout blob: the bag, the address and the key
clearCheckout(t) == [tab[t] EXCEPT !.key = 0, !.address = FALSE]

OrderSuccessCleanup(t) ==
    /\ tab[t].page = "confirmed"
    /\ Holds(t, EmptyCart, [clearCheckout(t) EXCEPT !.page = "success"])
    /\ persist(EmptyCart)
    /\ UNCHANGED <<posts, orders, edits>>

-----------------------------------------------------------------------------
(* The document itself *)

\* what becomes of the posts of a document that is gone
Unheard(t, owner) == [i \in DOMAIN posts |->
    CASE posts[i].tab # t         -> posts[i]
      [] posts[i].at = "placed"   -> Over
      [] OTHER                    -> [posts[i] EXCEPT !.tab = owner, !.heard = FALSE]]

\* a reload keeps the sessionStorage and reads the bag from localStorage; the
\* processing page polls anew, the confirmation page cleans up anew.  The
\* answers the document was waiting for are lost with it
Reload(t) ==
    /\ Holds(t, stored, [tab[t] EXCEPT !.paying = 0, !.page =
                 CASE @ \in {"failed", "silent"} -> "processing"
                   [] @ = "success"              -> "confirmed"
                   [] OTHER -> Bounced(@, stored, tab[t].address)])
    /\ posts' = Unheard(t, t)
    /\ UNCHANGED <<stored, orders, edits>>

\* the tab is closed, with its sessionStorage, and another opened at the shop;
\* what the closed one posted goes on without it
Reopen(t) ==
    /\ tab' = [tab EXCEPT ![t] = [Fresh EXCEPT !.bag = stored]]
    /\ given' = [given EXCEPT ![t] = stored]
    /\ posts' = Unheard(t, Closed)
    /\ orders' = [o \in DOMAIN orders |-> IF orders[o].tab # t THEN orders[o]
                                          ELSE [orders[o] EXCEPT !.tab = Closed]]
    /\ UNCHANGED <<stored, edits>>

-----------------------------------------------------------------------------

Customer(t) ==
    \/ \E v \in Variants : handleAddToBag(t, v) \/ updateQuantity(t, v) \/ removeItem(t, v)
    \/ Visit(t) \/ handleCheckout(t) \/ onSubmit(t) \/ ContinueToPayment(t) \/ TurnBack(t)
    \/ handlePay(t) \/ Reload(t) \/ Reopen(t)

Page(t) == tick(t) \/ DeadlinePassed(t) \/ OrderSuccessCleanup(t)

Network(i) == createOrder(i) \/ PayAnswered(i) \/ PayFails(i) \/ Refused(i)

ShopNext ==
    \/ \E t \in Tabs : Customer(t) \/ Page(t)
    \/ \E i \in DOMAIN posts : Network(i)
    \/ \E o \in DOMAIN orders : PaymentSettled(o)

ShopSpec == ShopInit /\ [][ShopNext]_vars

-----------------------------------------------------------------------------
(* Properties *)

\* What a tab orders, over all its orders, paid or not, it was given: a press
\* of Pay repeated after a lost answer, a reload, an error page, a failed
\* payment, or from a page left and entered again never orders a bag twice.
NothingOrderedTwice ==
    \A t \in Tabs, v \in Variants :
       SumFunction([o \in {p \in DOMAIN orders : orders[p].tab = t} |-> orders[o].lines[v]])
         <= given[t][v]

\* Nobody waits for ever: the disabled Pay button and the processing page end,
\* in the confirmation or in something the customer can act on.
WaitsEnd ==
    \A t \in Tabs :
       LET Waiting == tab[t].paying # 0 \/ tab[t].page = "processing"
       IN Waiting ~> ~Waiting

\* "Payment failed. Try again": the customer who was sent to the payment of an
\* order and presses Pay again is given a session that can still be paid.
RetryIsPayable ==
    [][\A i \in DOMAIN posts :
         posts[i].at = "asked" /\ posts'[i].at = "placed" =>
            LET o == posts'[i].order
            IN ~(o = tab[posts[i].tab].order /\ orders[o].state = "failed")]_vars
=============================================================================

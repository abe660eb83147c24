-------------------------- MODULE StorefrontProofs --------------------------
(***************************************************************************)
(* Theorems about Shopping and BagView, for any number of tabs, variants,  *)
(* bags, coupons, pincodes and orders posted.                              *)
(***************************************************************************)
EXTENDS Shopping, BagView, FiniteLaws, SequenceTheorems

-----------------------------------------------------------------------------
(* BagView: the totals.                                                    *)

\* A question about the totals that is not cancelled is about the bag on
\* screen, on the bag page also about its coupon; and without one the totals
\* on screen are of this bag and coupon, unless an attempt overtook them.
TotalsInv ==
  /\ page \in {"cart", "payment"}
  /\ \A q \in asks : q.bag = bag /\ (page = "cart" => q.code = appliedCode)
  /\ page = "payment" => attempt = NoTotals
  /\ asks = {} /\ evaluation # NoTotals /\ bag # None
       => overtaken \/ evaluation = Totals(bag, appliedCode)

LEMMA EvaluateFacts ==
  ASSUME NEW b, NEW c
  PROVE  /\ \A q \in evaluate(b, c) : q.bag = b /\ q.code = c
         /\ b # None => evaluate(b, c) # {}
PROOF
<1>1. Totals(b, c).bag = b /\ Totals(b, c).code = c
  BY DEF Totals
<1>2. evaluate(b, c) \in {{}, {Totals(b, c)}} /\ (b # None => evaluate(b, c) = {Totals(b, c)})
  BY DEF evaluate
<1>. QED
  BY <1>1, <1>2

LEMMA TotalsStep == TotalsInv /\ [ViewNext]_viewVars => TotalsInv'
PROOF
<1>. SUFFICES ASSUME TotalsInv, [ViewNext]_viewVars
              PROVE  TotalsInv'
  OBVIOUS
<1>1. CASE EditBag
  BY <1>1, EvaluateFacts DEF EditBag, TotalsInv, ShownFor
<1>2. CASE EvaluationAnswered
  <2>0. PICK q \in asks : \E counted :
          /\ counted \in {None, q.code}
          /\ evaluation' = Totals(q.bag, counted)
          /\ IF page = "cart" /\ appliedCode # None /\ counted = None
             THEN appliedCode' = None /\ asks' = evaluate(bag, None)
             ELSE /\ appliedCode' = IF page = "payment" THEN counted ELSE appliedCode
                  /\ asks' = asks \ {q}
          /\ UNCHANGED <<page, bag, savedCode, attempt, pinVars>>
    BY <1>2 DEF EvaluationAnswered
  <2>1. PICK counted :
          /\ counted \in {None, q.code}
          /\ evaluation' = Totals(q.bag, counted)
          /\ IF page = "cart" /\ appliedCode # None /\ counted = None
             THEN appliedCode' = None /\ asks' = evaluate(bag, None)
             ELSE /\ appliedCode' = IF page = "payment" THEN counted ELSE appliedCode
                  /\ asks' = asks \ {q}
          /\ UNCHANGED <<page, bag, savedCode, attempt, pinVars>>
    BY <2>0
  <2>2. q.bag = bag /\ (page = "cart" => q.code = appliedCode)
    BY DEF TotalsInv
  <2>3. CASE page = "cart" /\ appliedCode # None /\ counted = None
    BY <2>1, <2>3, EvaluateFacts DEF TotalsInv
  <2>4. CASE ~(page = "cart" /\ appliedCode # None /\ counted = None)
    <3>1. appliedCode' = counted /\ asks' = asks \ {q} /\ (page = "cart" => appliedCode' = appliedCode)
      BY <2>1, <2>2, <2>4 DEF TotalsInv
    <3>. QED
      BY <2>1, <2>2, <3>1 DEF TotalsInv
  <2>. QED
    BY <2>3, <2>4
<1>3. CASE EvaluationFails
  BY <1>3 DEF EvaluationFails, TotalsInv
<1>4. CASE applyCoupon
  BY <1>4 DEF applyCoupon, TotalsInv
<1>5. CASE CouponAnswered
  <2>1. PICK counted :
          /\ evaluation' = Totals(attempt.bag, counted)
          /\ appliedCode' = counted
          /\ IF counted # appliedCode
             THEN /\ asks' = evaluate(bag, counted)
                  /\ overtaken' = (bag = None)
             ELSE asks' = asks /\ overtaken' = (attempt.bag # bag)
    BY <1>5 DEF CouponAnswered
  <2>2. attempt # NoTotals /\ attempt' = NoTotals /\ page' = page /\ bag' = bag
    BY <1>5 DEF CouponAnswered
  <2>3. page = "cart"
    BY <2>2 DEF TotalsInv
  <2>4. CASE counted # appliedCode
    BY <2>1, <2>2, <2>3, <2>4, EvaluateFacts DEF TotalsInv
  <2>5. CASE counted = appliedCode
    BY <2>1, <2>2, <2>3, <2>5 DEF TotalsInv
  <2>. QED
    BY <2>4, <2>5
<1>6. CASE CouponFails
  BY <1>6 DEF CouponFails, TotalsInv
<1>7. CASE removeCoupon
  BY <1>7, EvaluateFacts DEF removeCoupon, TotalsInv
<1>8. CASE ToPayment \/ BackToBag
  BY <1>8, EvaluateFacts DEF ToPayment, BackToBag, Enter, TotalsInv
<1>9. CASE PincodeModal \/ DeliveryWidget \/ refresh \/ clearPincode \/ UNCHANGED viewVars
  BY <1>9 DEF PincodeModal, DeliveryWidget, Enters, refresh, clearPincode, viewVars,
              bagVars, TotalsInv
<1>. QED
  BY <1>1, <1>2, <1>3, <1>4, <1>5, <1>6, <1>7, <1>8, <1>9 DEF ViewNext

\* Once nothing is under way, the totals on screen are those of the bag and
\* the coupon on screen.
THEOREM TotalsAreCurrent == ViewSpec => []TotalsSettle
PROOF
<1>1. ViewInit => TotalsInv
  BY DEF ViewInit, TotalsInv, Totals
<1>2. TotalsInv => TotalsSettle
  BY DEF TotalsInv, TotalsSettle
<1>. QED
  BY <1>1, <1>2, TotalsStep, PTL DEF ViewSpec

-----------------------------------------------------------------------------
(* BagView: the pincode.                                                   *)

\* Whoever enters a pincode has the lookup save it.
PinInv ==
  /\ \A l \in lookups : l.by \in {"modal", "widget"} => l.saves
  /\ SavedPincodeShown

LEMMA PinStep == PinInv /\ [ViewNext]_viewVars => PinInv'
PROOF
<1>. SUFFICES ASSUME PinInv, [ViewNext]_viewVars
              PROVE  PinInv'
  OBVIOUS
<1>1. CASE UNCHANGED pinVars
  BY <1>1 DEF pinVars, PinInv, SavedPincodeShown
<1>2. CASE PincodeModal \/ DeliveryWidget
  BY <1>2 DEF PincodeModal, DeliveryWidget, Enters, setPincode, Lookup, PinInv,
              SavedPincodeShown
<1>3. CASE refresh
  BY <1>3 DEF refresh, PinInv, SavedPincodeShown
<1>4. CASE clearPincode
  BY <1>4 DEF clearPincode, PinInv, SavedPincodeShown
<1>. QED
  BY <1>1, <1>2, <1>3, <1>4
     DEF ViewNext, viewVars, EditBag, EvaluationAnswered, EvaluationFails, applyCoupon,
         CouponAnswered, CouponFails, removeCoupon, ToPayment, BackToBag, Enter

\* The pincode on screen is the one a return visit starts from, however the
\* lookups overtake each other, unless the restored one is answered last.
THEOREM PincodeIsSaved == ViewSpec => []SavedPincodeShown
PROOF
<1>1. ViewInit => PinInv
  BY DEF ViewInit, PinInv, SavedPincodeShown, Lookup, None
<1>2. PinInv => SavedPincodeShown
  BY DEF PinInv
<1>. QED
  BY <1>1, <1>2, PinStep, PTL DEF ViewSpec

-----------------------------------------------------------------------------
(* Shopping: types and keys.                                               *)

Owners == Tabs \cup {Closed}

TabType == [page : Pages, bag : Carts, key : 0..MaxPosts, address : BOOLEAN,
            paying : Nat, order : Nat]
PostType == [tab : Owners, key : 0..MaxPosts, lines : Carts,
             at : {"asked", "placed", "done"}, order : Nat, heard : BOOLEAN]
OrderType == [key : 0..MaxPosts, tab : Owners, lines : Carts,
              state : {"pending", "captured", "failed"}]

ShopTypeOK ==
  /\ stored \in Carts
  /\ tab \in [Tabs -> TabType]
  /\ posts \in Seq(PostType) /\ Len(posts) <= MaxPosts
  /\ orders \in Seq(OrderType)
  /\ given \in [Tabs -> [Variants -> Nat]]

\* A key names the post that first used it, and has one order at most.
KeysInv ==
  /\ \A t \in Tabs : tab[t].key <= Len(posts)
  /\ \A i \in DOMAIN posts : posts[i].key <= Len(posts)
  /\ \A i \in DOMAIN posts : posts[i].at = "asked" => posts[i].key > 0
  /\ \A o \in DOMAIN orders : orders[o].key \in 1..Len(posts)
  /\ \A o, p \in DOMAIN orders : orders[o].key = orders[p].key => o = p

\* need[k] units of v set aside for the order of key k, 0 standing for a bag
\* that has no key yet, are enough for whatever a tab has ordered, asked for
\* or holds, and no more than it was given.
Covered(t, v, need) ==
  /\ SumFunctionOnSet(need, 0..MaxPosts) <= given[t][v]
  /\ tab[t].bag[v] <= need[tab[t].key]
  /\ \A i \in DOMAIN posts :
       posts[i].tab = t /\ posts[i].at = "asked" => posts[i].lines[v] <= need[posts[i].key]
  /\ \A o \in DOMAIN orders :
       orders[o].tab = t => orders[o].lines[v] <= need[orders[o].key]

GivenInv ==
  \A t \in Tabs, v \in Variants : \E need \in [0..MaxPosts -> Nat] : Covered(t, v, need)

\* Rewriting entries of a sequence one by one.
LEMMA Rewritten ==
  ASSUME NEW S, NEW s \in Seq(S), NEW g, g = [i \in DOMAIN s |-> g[i]],
         \A i \in DOMAIN s : g[i] \in S
  PROVE  g \in Seq(S) /\ Len(g) = Len(s) /\ DOMAIN g = DOMAIN s
PROOF
<1>1. DOMAIN s = 1..Len(s) /\ Len(s) \in Nat
  OBVIOUS
<1>2. g \in [1..Len(s) -> S]
  BY <1>1
<1>3. g \in Seq(S)
  BY <1>1, <1>2, SeqDef
<1>. QED
  BY <1>1, <1>2, <1>3

\* The pages, the posts and the orders that steps write.
LEMMA PagesAre ==
  ASSUME NEW page_ \in Pages, NEW bag_, NEW address_
  PROVE  Bounced(page_, bag_, address_) \in Pages
PROOF
  BY DEF Bounced, Pages

LEMMA CartsAre ==
  /\ EmptyCart \in Carts
  /\ \A c \in Carts : \A v \in Variants : c[v] \in 0..LineCap /\ c[v] \in Nat
  /\ \A c, d \in Carts : Grown(c, d) \in [Variants -> Nat]
  /\ \A c, d \in Carts : \A v \in Variants : d[v] <= c[v] + Grown(c, d)[v]
PROOF
  BY ShoppingAssumption DEF ShoppingAssumption, EmptyCart, Carts, Grown

LEMMA FreshIs == Fresh \in TabType /\ Fresh.key = 0
PROOF
  BY CartsAre, ShoppingAssumption DEF Fresh, TabType, Pages, ShoppingAssumption

LEMMA OverIs == Over \in PostType /\ Over.at = "done" /\ Over.key = 0
PROOF
  BY CartsAre, ShoppingAssumption DEF Over, PostType, Owners, ShoppingAssumption

\* A tab that is given another bag.
LEMMA HoldsType ==
  ASSUME ShopTypeOK, NEW t \in Tabs, NEW bag_ \in Carts, NEW next \in TabType,
         Holds(t, bag_, next)
  PROVE  /\ tab' \in [Tabs -> TabType] /\ given' \in [Tabs -> [Variants -> Nat]]
         /\ tab'[t].bag = bag_ /\ tab'[t].key = next.key
         /\ \A u \in Tabs \ {t} : tab'[u] = tab[u] /\ given'[u] = given[u]
         /\ \A v \in Variants : given'[t][v] = given[t][v] + Grown(tab[t].bag, bag_)[v]
PROOF
<1>1. tab[t] \in TabType /\ tab[t].bag \in Carts
  BY DEF ShopTypeOK, TabType
<1>2. PICK new : new = [next EXCEPT !.bag = bag_]
  OBVIOUS
<1>3. new \in TabType /\ new.bag = bag_ /\ new.key = next.key
  BY <1>2 DEF TabType
<1>4. tab' = [tab EXCEPT ![t] = new]
  BY <1>2 DEF Holds
<1>5. Grown(tab[t].bag, bag_) \in [Variants -> Nat]
  BY <1>1, CartsAre
<1>6. PICK more : more = [v \in Variants |-> given[t][v] + Grown(tab[t].bag, bag_)[v]]
  OBVIOUS
<1>7. more \in [Variants -> Nat]
  BY <1>5, <1>6 DEF ShopTypeOK
<1>8. given' = [given EXCEPT ![t] = more]
  BY <1>6 DEF Holds
<1>. QED
  BY <1>3, <1>4, <1>6, <1>7, <1>8 DEF ShopTypeOK

-----------------------------------------------------------------------------
(* Shopping: what steps do to what a tab was given.                        *)

ShopInv == ShopTypeOK /\ KeysInv /\ GivenInv

\* Posts of a tab that wait for the server were there before, and its orders
\* come from such posts.
PostsKept(t) ==
  \A i \in DOMAIN posts' : posts'[i].tab = t /\ posts'[i].at = "asked" =>
    \E j \in DOMAIN posts :
      /\ posts[j].tab = t /\ posts[j].at = "asked"
      /\ posts[j].key = posts'[i].key /\ posts[j].lines = posts'[i].lines

OrdersKept(t) ==
  \A o \in DOMAIN orders' : orders'[o].tab = t =>
    \/ \E p \in DOMAIN orders :
         /\ orders[p].tab = t
         /\ orders[p].key = orders'[o].key /\ orders[p].lines = orders'[o].lines
    \/ \E j \in DOMAIN posts :
         /\ posts[j].tab = t /\ posts[j].at = "asked"
         /\ posts[j].key = orders'[o].key /\ posts[j].lines = orders'[o].lines

\* The sum of what is set aside, and what changing it does.
LEMMA NeedSums ==
  ASSUME NEW need \in [0..MaxPosts -> Nat], NEW k \in 0..MaxPosts, NEW d \in Int,
         need[k] + d >= 0
  PROVE  /\ [need EXCEPT ![k] = need[k] + d] \in [0..MaxPosts -> Nat]
         /\ SumFunctionOnSet([need EXCEPT ![k] = need[k] + d], 0..MaxPosts)
              = SumFunctionOnSet(need, 0..MaxPosts) + d
         /\ SumFunctionOnSet(need, 0..MaxPosts) \in Int
PROOF
<1>1. IsFiniteSet(0..MaxPosts)
  BY FS_Interval, ShoppingAssumption DEF ShoppingAssumption
<1>. DEFINE more == [need EXCEPT ![k] = need[k] + d]
<1>2. more \in [0..MaxPosts -> Nat] /\ more[k] = need[k] + d /\ need[k] \in Int
  OBVIOUS
<1>3. \A x \in (0..MaxPosts) \ {k} : more[x] = need[x]
  OBVIOUS
<1>4. SumFunctionOnSet(more, 0..MaxPosts)
        = SumFunctionOnSet(need, 0..MaxPosts) + (more[k] - need[k])
  <2>1. \A x \in 0..MaxPosts : need[x] \in Int /\ more[x] \in Int
    BY <1>2
  <2>2. PICK S : S = 0..MaxPosts
    OBVIOUS
  <2>3. PICK g : g = more
    OBVIOUS
  <2>4. /\ IsFiniteSet(S) /\ k \in S
        /\ need \in [S -> Int] /\ g \in [S -> Int]
        /\ \A x \in S \ {k} : g[x] = need[x]
    BY <1>1, <1>3, <2>1, <2>2, <2>3
  <2>5. SumFunctionOnSet(g, S) = SumFunctionOnSet(need, S) + (g[k] - need[k])
    BY <2>4, SumChange
  <2>. QED
    BY <2>2, <2>3, <2>5
<1>5. SumFunctionOnSet(need, 0..MaxPosts) \in Int
  <2>1. \A x \in 0..MaxPosts : need[x] \in Int
    OBVIOUS
  <2>. QED
    BY <1>1, <2>1, SumType
<1>. QED
  BY <1>2, <1>4, <1>5

\* What posts and orders hold.
LEMMA EntriesAre ==
  ASSUME ShopTypeOK
  PROVE  /\ \A i \in DOMAIN posts :
              /\ posts[i] \in PostType
              /\ posts[i].key \in 0..MaxPosts /\ posts[i].lines \in Carts
         /\ \A o \in DOMAIN orders :
              /\ orders[o] \in OrderType
              /\ orders[o].key \in 0..MaxPosts /\ orders[o].lines \in Carts
PROOF
<1>1. \A i \in DOMAIN posts : posts[i] \in PostType
  BY DEF ShopTypeOK
<1>2. \A o \in DOMAIN orders : orders[o] \in OrderType
  BY DEF ShopTypeOK
<1>. QED
  BY <1>1, <1>2 DEF PostType, OrderType

\* A tab that keeps its key and is given what its bag gains.
LEMMA SameKey ==
  ASSUME ShopTypeOK, NEW t \in Tabs, NEW v \in Variants,
         NEW need \in [0..MaxPosts -> Nat], Covered(t, v, need), NEW d \in Nat,
         given'[t][v] = given[t][v] + d,
         tab'[t].key = tab[t].key, tab'[t].bag[v] <= tab[t].bag[v] + d,
         tab'[t].bag[v] \in Nat,
         PostsKept(t), OrdersKept(t)
  PROVE  \E more \in [0..MaxPosts -> Nat] : Covered(t, v, more)'
PROOF
<1>1. /\ tab[t].key \in 0..MaxPosts /\ tab[t].bag[v] \in Nat
      /\ given[t][v] \in Nat
  BY CartsAre DEF ShopTypeOK, TabType
<1>. DEFINE k == tab[t].key
            more == [need EXCEPT ![k] = need[k] + d]
<1>2. /\ more \in [0..MaxPosts -> Nat]
      /\ SumFunctionOnSet(more, 0..MaxPosts) = SumFunctionOnSet(need, 0..MaxPosts) + d
      /\ SumFunctionOnSet(need, 0..MaxPosts) \in Int
  <2>1. k \in 0..MaxPosts /\ d \in Int /\ need[k] + d >= 0
    BY <1>1
  <2>. HIDE DEF k
  <2>. QED
    BY <2>1, NeedSums
<1>3. \A x \in 0..MaxPosts : need[x] <= more[x]
  BY <1>1
<1>4. need[k] \in Nat /\ more[k] = need[k] + d
  BY <1>1
<1>5. PICK rigid \in [0..MaxPosts -> Nat] : rigid = more
  BY <1>2
<1>6. SumFunctionOnSet(rigid, 0..MaxPosts) <= given'[t][v]
  BY <1>1, <1>2, <1>5 DEF Covered
<1>7. tab'[t].bag[v] <= rigid[tab'[t].key]
  <2>. HIDE DEF more
  <2>. QED
    BY <1>1, <1>4, <1>5 DEF Covered
<1>8. ASSUME NEW i \in DOMAIN posts', posts'[i].tab = t, posts'[i].at = "asked"
      PROVE  posts'[i].lines[v] <= rigid[posts'[i].key]
  <2>1. PICK j \in DOMAIN posts :
          /\ posts[j].tab = t /\ posts[j].at = "asked"
          /\ posts[j].key = posts'[i].key /\ posts[j].lines = posts'[i].lines
    BY <1>8 DEF PostsKept
  <2>2. posts[j].key \in 0..MaxPosts /\ posts[j].lines[v] \in Nat
    BY CartsAre, EntriesAre
  <2>3. posts[j].lines[v] <= need[posts[j].key]
    BY <2>1 DEF Covered
  <2>. HIDE DEF more
  <2>. QED
    BY <1>3, <1>5, <2>1, <2>2, <2>3
<1>9. ASSUME NEW o \in DOMAIN orders', orders'[o].tab = t
      PROVE  orders'[o].lines[v] <= rigid[orders'[o].key]
  <2>1. PICK k2 \in 0..MaxPosts, l \in Carts :
          k2 = orders'[o].key /\ l = orders'[o].lines /\ l[v] <= need[k2]
    <3>1. CASE \E p \in DOMAIN orders :
                 /\ orders[p].tab = t
                 /\ orders[p].key = orders'[o].key /\ orders[p].lines = orders'[o].lines
      BY <3>1, EntriesAre DEF Covered
    <3>2. CASE \E j \in DOMAIN posts :
                 /\ posts[j].tab = t /\ posts[j].at = "asked"
                 /\ posts[j].key = orders'[o].key /\ posts[j].lines = orders'[o].lines
      BY <3>2, EntriesAre DEF Covered
    <3>. QED
      BY <1>9, <3>1, <3>2 DEF OrdersKept
  <2>2. l[v] \in Nat
    BY CartsAre
  <2>. HIDE DEF more
  <2>. QED
    BY <1>3, <1>5, <2>1, <2>2
<1>10. Covered(t, v, rigid)'
  BY <1>6, <1>7, <1>8, <1>9 DEF Covered
<1>. QED
  BY <1>10

\* The same of a tab whose bag and key stay.
LEMMA Still ==
  ASSUME ShopTypeOK, GivenInv, NEW t \in Tabs, NEW v \in Variants,
         given'[t] = given[t], tab'[t].key = tab[t].key, tab'[t].bag = tab[t].bag,
         PostsKept(t), OrdersKept(t)
  PROVE  \E more \in [0..MaxPosts -> Nat] : Covered(t, v, more)'
PROOF
<1>1. PICK need \in [0..MaxPosts -> Nat] : Covered(t, v, need)
  BY DEF GivenInv
<1>2. given[t][v] \in Nat /\ tab[t].bag[v] \in Nat
  BY CartsAre DEF ShopTypeOK, TabType
<1>3. given'[t][v] = given[t][v] + 0 /\ tab'[t].bag[v] <= tab[t].bag[v] + 0
      /\ tab'[t].bag[v] \in Nat
  BY <1>2
<1>. QED
  BY <1>1, <1>3, SameKey

\* Keys stay in order when posts and orders do.
KeysFollow ==
  /\ posts' \in Seq(PostType) /\ Len(posts') = Len(posts)
  /\ \A i \in DOMAIN posts' :
       posts'[i].key <= Len(posts) /\ (posts'[i].at = "asked" => posts'[i].key > 0)
  /\ orders' \in Seq(OrderType)
  /\ \A o \in DOMAIN orders' : orders'[o].key \in 1..Len(posts)
  /\ \A o, p \in DOMAIN orders' : orders'[o].key = orders'[p].key => o = p

\* A step that leaves every bag and key alone.
LEMMA Unmoved ==
  ASSUME ShopInv, stored' = stored, given' = given, tab' \in [Tabs -> TabType],
         \A u \in Tabs : tab'[u].bag = tab[u].bag /\ tab'[u].key = tab[u].key,
         KeysFollow, \A u \in Tabs : PostsKept(u) /\ OrdersKept(u)
  PROVE  ShopInv'
PROOF
<1>1. ShopTypeOK'
  BY DEF ShopInv, ShopTypeOK, KeysFollow
<1>2. KeysInv'
  BY DEF ShopInv, KeysInv, KeysFollow
<1>3. GivenInv'
  <2>. SUFFICES ASSUME NEW t \in Tabs, NEW v \in Variants
                PROVE  \E more \in [0..MaxPosts -> Nat] : Covered(t, v, more)'
    BY DEF GivenInv
  <2>. QED
    BY Still DEF ShopInv
<1>. QED
  BY <1>1, <1>2, <1>3 DEF ShopInv

\* Posts and orders that stay as they are, but for what the keys do not tell.
LEMMA SamePosts ==
  ASSUME ShopInv, posts' = posts, orders' = orders
  PROVE  KeysFollow /\ \A u : PostsKept(u) /\ OrdersKept(u)
PROOF
  BY DEF ShopInv, ShopTypeOK, KeysInv, KeysFollow, PostsKept, OrdersKept

\* Only where a tab is changes, and what it waits for.
LEMMA TabMoves ==
  ASSUME ShopInv, UNCHANGED <<stored, posts, orders, given>>,
         NEW t \in Tabs, NEW rec \in TabType, tab' = [tab EXCEPT ![t] = rec],
         rec.bag = tab[t].bag, rec.key = tab[t].key
  PROVE  ShopInv'
PROOF
<1>1. tab' \in [Tabs -> TabType]
  BY DEF ShopInv, ShopTypeOK
<1>2. \A u \in Tabs : tab'[u].bag = tab[u].bag /\ tab'[u].key = tab[u].key
  BY DEF ShopInv, ShopTypeOK
<1>. QED
  BY <1>1, <1>2, SamePosts, Unmoved

LEMMA PageSteps ==
  ASSUME ShopInv, NEW t \in Tabs,
         \/ Visit(t) \/ handleCheckout(t) \/ onSubmit(t) \/ ContinueToPayment(t)
         \/ TurnBack(t) \/ tick(t) \/ DeadlinePassed(t)
  PROVE  ShopInv'
PROOF
<1>1. tab[t] \in TabType
  BY DEF ShopInv, ShopTypeOK
<1>2. ASSUME NEW p \in Pages, GoTo(t, p)
      PROVE  ShopInv'
  <2>1. PICK rec : rec = [tab[t] EXCEPT !.page = Bounced(p, tab[t].bag, tab[t].address),
                                        !.paying = 0]
    OBVIOUS
  <2>2. rec \in TabType /\ rec.bag = tab[t].bag /\ rec.key = tab[t].key
    BY <1>1, <2>1, PagesAre DEF TabType
  <2>3. tab' = [tab EXCEPT ![t] = rec]
    BY <1>2, <2>1 DEF GoTo
  <2>. QED
    BY <1>2, <2>2, <2>3, TabMoves DEF GoTo
<1>3. CASE onSubmit(t)
  <2>1. PICK rec : rec = [tab[t] EXCEPT !.address = TRUE, !.page = "shipping"]
    OBVIOUS
  <2>2. rec \in TabType /\ rec.bag = tab[t].bag /\ rec.key = tab[t].key
    BY <1>1, <2>1 DEF TabType, Pages
  <2>3. tab' = [tab EXCEPT ![t] = rec]
    BY <1>3, <2>1 DEF onSubmit
  <2>. QED
    BY <1>3, <2>2, <2>3, TabMoves DEF onSubmit
<1>4. CASE tick(t) \/ DeadlinePassed(t)
  <2>1. PICK p \in Pages : tab' = [tab EXCEPT ![t].page = p]
    BY <1>4 DEF tick, DeadlinePassed, Pages
  <2>2. PICK rec : rec = [tab[t] EXCEPT !.page = p]
    OBVIOUS
  <2>3. rec \in TabType /\ rec.bag = tab[t].bag /\ rec.key = tab[t].key
    BY <1>1, <2>2 DEF TabType
  <2>4. tab' = [tab EXCEPT ![t] = rec]
    BY <2>1, <2>2
  <2>. QED
    BY <1>4, <2>3, <2>4, TabMoves DEF tick, DeadlinePassed
<1>5. CASE Visit(t) \/ handleCheckout(t) \/ ContinueToPayment(t) \/ TurnBack(t)
  BY <1>2, <1>5 DEF Visit, handleCheckout, ContinueToPayment, TurnBack, Pages
<1>. QED
  BY <1>3, <1>4, <1>5

\* A tab that is given another bag under the key it has.
LEMMA BagStep ==
  ASSUME ShopInv, NEW t \in Tabs, NEW c \in Carts, NEW next \in TabType,
         next.key = tab[t].key, Holds(t, c, next), stored' \in Carts,
         KeysFollow, \A u \in Tabs : PostsKept(u) /\ OrdersKept(u)
  PROVE  ShopInv'
PROOF
<1>1. /\ tab' \in [Tabs -> TabType] /\ given' \in [Tabs -> [Variants -> Nat]]
      /\ tab'[t].bag = c /\ tab'[t].key = next.key
      /\ \A u \in Tabs \ {t} : tab'[u] = tab[u] /\ given'[u] = given[u]
      /\ \A v \in Variants : given'[t][v] = given[t][v] + Grown(tab[t].bag, c)[v]
  BY HoldsType DEF ShopInv
<1>2. ShopTypeOK'
  BY <1>1 DEF ShopInv, ShopTypeOK, KeysFollow
<1>3. KeysInv'
  <2>1. \A u \in Tabs : tab'[u].key = tab[u].key
    BY <1>1
  <2>. QED
    BY <2>1 DEF ShopInv, KeysInv, KeysFollow
<1>4. ASSUME NEW v \in Variants
      PROVE  \E more \in [0..MaxPosts -> Nat] : Covered(t, v, more)'
  <2>1. tab[t].bag \in Carts
    BY DEF ShopInv, ShopTypeOK, TabType
  <2>2. PICK d \in Nat : d = Grown(tab[t].bag, c)[v]
    BY <2>1, CartsAre
  <2>3. tab'[t].bag[v] <= tab[t].bag[v] + d /\ tab'[t].bag[v] \in Nat
    BY <1>1, <2>1, <2>2, CartsAre
  <2>4. given'[t][v] = given[t][v] + d /\ tab'[t].key = tab[t].key
    BY <1>1, <2>2
  <2>5. PICK need \in [0..MaxPosts -> Nat] : Covered(t, v, need)
    BY DEF ShopInv, GivenInv
  <2>. QED
    BY <2>3, <2>4, <2>5, SameKey DEF ShopInv
<1>5. ASSUME NEW u \in Tabs \ {t}, NEW v \in Variants
      PROVE  \E more \in [0..MaxPosts -> Nat] : Covered(u, v, more)'
  BY <1>1, Still DEF ShopInv
<1>6. GivenInv'
  BY <1>4, <1>5 DEF GivenInv
<1>. QED
  BY <1>2, <1>3, <1>6 DEF ShopInv

LEMMA EditSteps ==
  ASSUME ShopInv, NEW t \in Tabs, NEW v \in Variants,
         handleAddToBag(t, v) \/ updateQuantity(t, v) \/ removeItem(t, v)
  PROVE  ShopInv'
PROOF
<1>1. tab[t] \in TabType /\ tab[t].bag \in Carts /\ tab[t].bag[v] \in Nat
  BY CartsAre DEF ShopInv, ShopTypeOK, TabType
<1>2. ASSUME NEW q \in 0..LineCap, Edit(t, [tab[t].bag EXCEPT ![v] = q])
      PROVE  ShopInv'
  <2>1. PICK c \in Carts : c = [tab[t].bag EXCEPT ![v] = q]
    BY <1>1 DEF Carts
  <2>. QED
    BY <1>1, <1>2, <2>1, BagStep, SamePosts DEF Edit, persist
<1>3. CASE handleAddToBag(t, v)
  <2>. DEFINE m == Min({LineCap, tab[t].bag[v] + 1})
  <2>1. \E x \in {LineCap, tab[t].bag[v] + 1} : \A y \in {LineCap, tab[t].bag[v] + 1} : x <= y
    BY <1>1, ShoppingAssumption DEF ShoppingAssumption
  <2>2. m \in {LineCap, tab[t].bag[v] + 1} /\ m <= LineCap
    BY <2>1 DEF Min
  <2>3. m \in 0..LineCap
    <3>. HIDE DEF m
    <3>. QED
      BY <1>1, <2>2, ShoppingAssumption DEF ShoppingAssumption
  <2>4. Edit(t, [tab[t].bag EXCEPT ![v] = m])
    BY <1>3 DEF handleAddToBag, addItem
  <2>. QED
    BY <1>2, <2>3, <2>4
<1>4. CASE updateQuantity(t, v)
  BY <1>2, <1>4, ShoppingAssumption DEF updateQuantity, ShoppingAssumption
<1>5. CASE removeItem(t, v)
  <2>1. 0 \in 0..LineCap
    BY ShoppingAssumption DEF ShoppingAssumption
  <2>. QED
    BY <1>2, <1>5, <2>1 DEF removeItem
<1>. QED
  BY <1>3, <1>4, <1>5

\* Closing the confirmation: what was set aside for a bag without a key stays.
LEMMA CleanupStep ==
  ASSUME ShopInv, NEW t \in Tabs, OrderSuccessCleanup(t)
  PROVE  ShopInv'
PROOF
<1>1. tab[t] \in TabType /\ tab[t].bag \in Carts
  BY DEF ShopInv, ShopTypeOK, TabType
<1>2. PICK next : next = [clearCheckout(t) EXCEPT !.page = "success"]
  OBVIOUS
<1>3. next \in TabType /\ next.key = 0
  <2>1. PICK mid : mid = clearCheckout(t)
    OBVIOUS
  <2>2. 0 \in 0..MaxPosts /\ "success" \in Pages
    BY ShoppingAssumption DEF ShoppingAssumption, Pages
  <2>3. mid \in TabType /\ mid.key = 0
    BY <1>1, <2>1, <2>2 DEF clearCheckout, TabType
  <2>4. next = [mid EXCEPT !.page = "success"]
    BY <1>2, <2>1
  <2>. QED
    BY <2>2, <2>3, <2>4 DEF TabType
<1>4. Holds(t, EmptyCart, next) /\ stored' = EmptyCart /\ posts' = posts /\ orders' = orders
  BY <1>2 DEF OrderSuccessCleanup, persist
<1>5. /\ tab' \in [Tabs -> TabType] /\ given' \in [Tabs -> [Variants -> Nat]]
      /\ tab'[t].bag = EmptyCart /\ tab'[t].key = 0
      /\ \A u \in Tabs \ {t} : tab'[u] = tab[u] /\ given'[u] = given[u]
      /\ \A v \in Variants : given'[t][v] = given[t][v] + Grown(tab[t].bag, EmptyCart)[v]
  BY <1>3, <1>4, CartsAre, HoldsType DEF ShopInv
<1>6. ShopTypeOK'
  BY <1>4, <1>5, CartsAre DEF ShopInv, ShopTypeOK
<1>7. KeysInv'
  <2>1. \A u \in Tabs : tab'[u].key = 0 \/ tab'[u].key = tab[u].key
    BY <1>5
  <2>2. 0 <= Len(posts)
    BY DEF ShopInv, ShopTypeOK
  <2>. QED
    BY <1>4, <2>1, <2>2 DEF ShopInv, KeysInv
<1>8. ASSUME NEW v \in Variants
      PROVE  \E more \in [0..MaxPosts -> Nat] : Covered(t, v, more)'
  <2>1. PICK need \in [0..MaxPosts -> Nat] : Covered(t, v, need)
    BY DEF ShopInv, GivenInv
  <2>2. SumFunctionOnSet(need, 0..MaxPosts) \in Int
    BY NeedSums, ShoppingAssumption DEF ShoppingAssumption
  <2>3. given'[t][v] >= given[t][v] /\ given[t][v] \in Nat /\ given'[t][v] \in Nat
    <3>1. Grown(tab[t].bag, EmptyCart)[v] \in Nat
      BY <1>1, CartsAre
    <3>. QED
      BY <1>5, <3>1 DEF ShopInv, ShopTypeOK
  <2>4. SumFunctionOnSet(need, 0..MaxPosts) <= given'[t][v]
    BY <2>1, <2>2, <2>3 DEF Covered
  <2>5. tab'[t].bag[v] <= need[tab'[t].key]
    <3>1. EmptyCart[v] = 0
      BY DEF EmptyCart
    <3>2. need[0] \in Nat
      BY ShoppingAssumption DEF ShoppingAssumption
    <3>. QED
      BY <1>5, <3>1, <3>2
  <2>6. Covered(t, v, need)'
    BY <1>4, <2>1, <2>4, <2>5 DEF Covered
  <2>. QED
    BY <2>6
<1>9. ASSUME NEW u \in Tabs \ {t}, NEW v \in Variants
      PROVE  \E more \in [0..MaxPosts -> Nat] : Covered(u, v, more)'
  <2>1. PostsKept(u) /\ OrdersKept(u)
    BY <1>4, SamePosts
  <2>. QED
    BY <1>5, <2>1, Still DEF ShopInv
<1>10. GivenInv'
  BY <1>8, <1>9 DEF GivenInv
<1>. QED
  BY <1>6, <1>7, <1>10 DEF ShopInv

\* One post goes on, or is done with.
LEMMA PostGoesOn ==
  ASSUME ShopInv, NEW i \in DOMAIN posts, NEW r \in PostType,
         posts' = [posts EXCEPT ![i] = r], r.key \in {0, posts[i].key},
         r.at = "asked" => /\ posts[i].at = "asked" /\ r.tab = posts[i].tab
                           /\ r.key = posts[i].key /\ r.lines = posts[i].lines
  PROVE  /\ posts' \in Seq(PostType) /\ Len(posts') = Len(posts)
         /\ \A j \in DOMAIN posts' :
              posts'[j].key <= Len(posts) /\ (posts'[j].at = "asked" => posts'[j].key > 0)
         /\ \A u : PostsKept(u)
PROOF
<1>1. posts \in Seq(PostType) /\ Len(posts) \in Nat
  BY DEF ShopInv, ShopTypeOK
<1>2. /\ posts' \in Seq(PostType) /\ Len(posts') = Len(posts) /\ DOMAIN posts' = DOMAIN posts
      /\ posts'[i] = r /\ \A j \in DOMAIN posts \ {i} : posts'[j] = posts[j]
  BY <1>1, ExceptSeq
<1>3. \A j \in DOMAIN posts :
        posts[j].key <= Len(posts) /\ (posts[j].at = "asked" => posts[j].key > 0)
  BY DEF ShopInv, KeysInv
<1>4. r.key <= Len(posts) /\ (r.at = "asked" => r.key > 0)
  BY <1>1, <1>3
<1>5. \A u : PostsKept(u)
  BY <1>2 DEF PostsKept
<1>. QED
  BY <1>2, <1>3, <1>4, <1>5

\* Orders that stay, and the pages that change when the server answers.
LEMMA SameOrders ==
  ASSUME ShopInv, orders' = orders
  PROVE  /\ orders' \in Seq(OrderType)
         /\ \A o \in DOMAIN orders' : orders'[o].key \in 1..Len(posts)
         /\ \A o, p \in DOMAIN orders' : orders'[o].key = orders'[p].key => o = p
         /\ \A u : OrdersKept(u)
PROOF
  BY DEF ShopInv, ShopTypeOK, KeysInv, OrdersKept

LEMMA AnsweredStep ==
  ASSUME ShopInv, NEW i \in DOMAIN posts, PayAnswered(i)
  PROVE  ShopInv'
PROOF
<1>1. posts[i] \in PostType /\ posts[i].order \in Nat
  BY EntriesAre DEF ShopInv, PostType
<1>2. PICK x : x = posts[i].tab
  OBVIOUS
<1>3. /\ posts' \in Seq(PostType) /\ Len(posts') = Len(posts)
      /\ \A j \in DOMAIN posts' :
           posts'[j].key <= Len(posts) /\ (posts'[j].at = "asked" => posts'[j].key > 0)
      /\ \A u : PostsKept(u)
  <2>1. posts' = [posts EXCEPT ![i] = Over]
    BY DEF PayAnswered
  <2>. QED
    BY <2>1, OverIs, PostGoesOn
<1>4. stored' = stored /\ given' = given /\ orders' = orders
  BY DEF PayAnswered
<1>5. /\ tab' \in [Tabs -> TabType]
      /\ \A u \in Tabs : tab'[u].bag = tab[u].bag /\ tab'[u].key = tab[u].key
  <2>1. tab \in [Tabs -> TabType]
    BY DEF ShopInv, ShopTypeOK
  <2>2. tab' = [tab EXCEPT ![x].page = "processing", ![x].paying = 0, ![x].order = posts[i].order]
    BY <1>2 DEF PayAnswered
  <2>3. CASE x \in Tabs
    <3>1. PICK rec : rec = [tab[x] EXCEPT !.page = "processing", !.paying = 0,
                                          !.order = posts[i].order]
      OBVIOUS
    <3>2. tab[x] \in TabType /\ "processing" \in Pages
      BY <2>1, <2>3 DEF Pages
    <3>3. rec \in TabType /\ rec.bag = tab[x].bag /\ rec.key = tab[x].key
      BY <1>1, <3>1, <3>2 DEF TabType
    <3>4. tab' = [tab EXCEPT ![x] = rec]
      BY <2>1, <2>2, <2>3, <3>1
    <3>. QED
      BY <2>1, <3>3, <3>4
  <2>4. CASE x \notin Tabs
    <3>1. tab' = tab
      BY <2>1, <2>2, <2>4
    <3>. QED
      BY <2>1, <3>1
  <2>. QED
    BY <2>3, <2>4
<1>6. KeysFollow /\ \A u \in Tabs : PostsKept(u) /\ OrdersKept(u)
  BY <1>3, <1>4, SameOrders DEF KeysFollow
<1>. QED
  BY <1>4, <1>5, <1>6, Unmoved

LEMMA FailedSteps ==
  ASSUME ShopInv, NEW i \in DOMAIN posts, PayFails(i) \/ Refused(i)
  PROVE  ShopInv'
PROOF
<1>1. posts[i] \in PostType
  BY EntriesAre DEF ShopInv
<1>2. PICK r : r = IF Refused(i) \/ posts[i].at = "placed" THEN Over
                   ELSE [posts[i] EXCEPT !.heard = FALSE]
  OBVIOUS
<1>3. /\ r \in PostType /\ r.key \in {0, posts[i].key}
      /\ r.at = "asked" => /\ posts[i].at = "asked" /\ r.tab = posts[i].tab
                           /\ r.key = posts[i].key /\ r.lines = posts[i].lines
  <2>1. CASE r = Over
    BY <2>1, OverIs
  <2>2. CASE r = [posts[i] EXCEPT !.heard = FALSE]
    BY <1>1, <2>2 DEF PostType
  <2>. QED
    BY <1>2, <2>1, <2>2
<1>4. posts' = [posts EXCEPT ![i] = r]
  <2>1. CASE Refused(i)
    BY <1>2, <2>1 DEF Refused
  <2>2. CASE ~Refused(i)
    <3>1. posts' = [posts EXCEPT ![i] = IF posts[i].at = "placed" THEN Over
                                        ELSE [posts[i] EXCEPT !.heard = FALSE]]
      BY <2>2 DEF PayFails
    <3>. QED
      BY <1>2, <2>2, <3>1
  <2>. QED
    BY <2>1, <2>2
<1>5. stored' = stored /\ given' = given /\ orders' = orders
      /\ tab' = [t \in Tabs |-> IF tab[t].paying = i THEN [tab[t] EXCEPT !.paying = 0] ELSE tab[t]]
  BY DEF PayFails, Refused
<1>6. ASSUME NEW u \in Tabs
      PROVE  tab'[u] \in TabType /\ tab'[u].bag = tab[u].bag /\ tab'[u].key = tab[u].key
  <2>1. tab[u] \in TabType
    BY DEF ShopInv, ShopTypeOK
  <2>2. tab'[u] = tab[u] \/ tab'[u] = [tab[u] EXCEPT !.paying = 0]
    BY <1>5
  <2>. QED
    BY <2>1, <2>2 DEF TabType
<1>7. tab' \in [Tabs -> TabType]
  BY <1>5, <1>6
<1>8. KeysFollow /\ \A u \in Tabs : PostsKept(u) /\ OrdersKept(u)
  BY <1>3, <1>4, <1>5, PostGoesOn, SameOrders DEF KeysFollow
<1>. QED
  BY <1>5, <1>6, <1>7, <1>8, Unmoved

LEMMA SettledStep ==
  ASSUME ShopInv, NEW o \in DOMAIN orders, PaymentSettled(o)
  PROVE  ShopInv'
PROOF
<1>1. orders \in Seq(OrderType) /\ orders[o] \in OrderType /\ tab \in [Tabs -> TabType]
  BY EntriesAre DEF ShopInv, ShopTypeOK
<1>2. PICK s \in {"captured", "failed"} : orders' = [orders EXCEPT ![o].state = s]
  BY DEF PaymentSettled
<1>3. PICK r : r = [orders[o] EXCEPT !.state = s]
  OBVIOUS
<1>4. r \in OrderType /\ r.key = orders[o].key /\ r.tab = orders[o].tab /\ r.lines = orders[o].lines
  BY <1>1, <1>3 DEF OrderType
<1>5. orders' = [orders EXCEPT ![o] = r]
  BY <1>2, <1>3
<1>6. /\ orders' \in Seq(OrderType) /\ DOMAIN orders' = DOMAIN orders
      /\ \A p \in DOMAIN orders : /\ orders'[p].key = orders[p].key
                                  /\ orders'[p].tab = orders[p].tab
                                  /\ orders'[p].lines = orders[p].lines
  <2>1. /\ orders' \in Seq(OrderType) /\ DOMAIN orders' = DOMAIN orders
        /\ orders'[o] = r /\ \A p \in DOMAIN orders \ {o} : orders'[p] = orders[p]
    BY <1>1, <1>4, <1>5, ExceptSeq
  <2>. QED
    BY <1>4, <2>1
<1>7. UNCHANGED <<stored, tab, posts, given>>
  BY DEF PaymentSettled
<1>8. KeysFollow /\ \A u \in Tabs : PostsKept(u) /\ OrdersKept(u)
  BY <1>6, <1>7 DEF ShopInv, ShopTypeOK, KeysInv, KeysFollow, PostsKept, OrdersKept
<1>. QED
  BY <1>1, <1>7, <1>8, Unmoved

\* The server answers with the order it has of the key, or places one.
LEMMA PlacedStep ==
  ASSUME ShopInv, NEW i \in DOMAIN posts, createOrder(i)
  PROVE  ShopInv'
PROOF
<1>1. posts[i] \in PostType /\ orders \in Seq(OrderType) /\ Len(orders) \in Nat
  BY EntriesAre DEF ShopInv, ShopTypeOK
<1>2. posts[i].at = "asked" /\ posts[i].key \in 1..Len(posts)
  <2>1. posts[i].at = "asked"
    BY DEF createOrder
  <2>2. posts[i].key > 0 /\ posts[i].key <= Len(posts)
    BY <2>1 DEF ShopInv, KeysInv
  <2>3. posts[i].key \in Nat /\ Len(posts) \in Nat
    BY <1>1, ShoppingAssumption DEF PostType, ShoppingAssumption, ShopInv, ShopTypeOK
  <2>. QED
    BY <2>1, <2>2, <2>3
<1>3. PICK known : known = {o \in DOMAIN orders : orders[o].key = posts[i].key}
  OBVIOUS
<1>4. PICK number : number = IF known = {} THEN Len(orders) + 1 ELSE Max(known)
  OBVIOUS
<1>5. number \in Nat
  <2>1. CASE known = {}
    BY <1>1, <1>4, <2>1
  <2>2. CASE known # {}
    <3>1. known \in SUBSET (1..Len(orders))
      BY <1>1, <1>3
    <3>2. PICK e \in known : TRUE
      BY <2>2
    <3>3. \E x \in known : \A y \in known : x >= y
      BY <1>1, <3>1, <3>2, LargestNumber
    <3>4. number \in known
      BY <1>4, <2>2, <3>3 DEF Max
    <3>. QED
      BY <3>1, <3>4
  <2>. QED
    BY <2>1, <2>2
<1>6. PICK r : r = IF posts[i].heard THEN [posts[i] EXCEPT !.at = "placed", !.order = number]
                   ELSE Over
  OBVIOUS
<1>7. r \in PostType /\ r.key \in {0, posts[i].key} /\ r.at # "asked"
  <2>1. CASE r = Over
    BY <2>1, OverIs
  <2>2. CASE r = [posts[i] EXCEPT !.at = "placed", !.order = number]
    BY <1>1, <1>5, <2>2 DEF PostType
  <2>. QED
    BY <1>6, <2>1, <2>2
<1>8. posts' = [posts EXCEPT ![i] = r]
  BY <1>3, <1>4, <1>6 DEF createOrder
<1>9. UNCHANGED <<stored, tab, given>>
  BY DEF createOrder
<1>10. PICK new : new = [key |-> posts[i].key, tab |-> posts[i].tab,
                         lines |-> posts[i].lines, state |-> "pending"]
  OBVIOUS
<1>11. /\ new \in OrderType
       /\ new.key = posts[i].key /\ new.tab = posts[i].tab /\ new.lines = posts[i].lines
  BY <1>1, <1>10 DEF PostType, OrderType
<1>12. orders' = IF known = {} THEN Append(orders, new) ELSE orders
  BY <1>3, <1>10 DEF createOrder
<1>13. /\ orders' \in Seq(OrderType)
       /\ \A o \in DOMAIN orders' : orders'[o].key \in 1..Len(posts)
       /\ \A o, p \in DOMAIN orders' : orders'[o].key = orders'[p].key => o = p
       /\ \A u : OrdersKept(u)
  <2>1. CASE known = {}
    <3>1. /\ orders' \in Seq(OrderType) /\ DOMAIN orders' = DOMAIN orders \cup {Len(orders) + 1}
          /\ \A o \in DOMAIN orders : orders'[o] = orders[o]
          /\ orders'[Len(orders) + 1] = new
      BY <1>1, <1>11, <1>12, <2>1
    <3>2. \A o \in DOMAIN orders : orders[o].key # posts[i].key /\ orders[o].key \in 1..Len(posts)
      BY <1>3, <2>1 DEF ShopInv, KeysInv
    <3>3. \A o, p \in DOMAIN orders : orders[o].key = orders[p].key => o = p
      BY DEF ShopInv, KeysInv
    <3>4. \A u : OrdersKept(u)
      BY <1>2, <1>11, <3>1 DEF OrdersKept
    <3>. QED
      BY <1>2, <1>11, <3>1, <3>2, <3>3, <3>4
  <2>2. CASE known # {}
    BY <1>12, <2>2, SameOrders
  <2>. QED
    BY <2>1, <2>2
<1>14. KeysFollow /\ \A u \in Tabs : PostsKept(u) /\ OrdersKept(u)
  BY <1>7, <1>8, <1>13, PostGoesOn DEF KeysFollow
<1>15. tab' \in [Tabs -> TabType]
  BY <1>9 DEF ShopInv, ShopTypeOK
<1>. QED
  BY <1>9, <1>14, <1>15, Unmoved

\* Moving what is set aside for a bag without a key to the key it is given.
LEMMA NeedMoves ==
  ASSUME NEW need \in [0..MaxPosts -> Nat], NEW k \in 1..MaxPosts
  PROVE  \E more \in [0..MaxPosts -> Nat] :
           /\ SumFunctionOnSet(more, 0..MaxPosts) = SumFunctionOnSet(need, 0..MaxPosts)
           /\ more[k] = need[k] + need[0]
           /\ \A x \in (1..MaxPosts) \ {k} : more[x] = need[x]
PROOF
<1>1. 0 \in 0..MaxPosts /\ k \in 0..MaxPosts /\ k # 0
      /\ need[0] \in Nat /\ need[k] \in Nat /\ need[0] \in Int
  BY ShoppingAssumption DEF ShoppingAssumption
<1>2. PICK mid : mid = [need EXCEPT ![k] = need[k] + need[0]]
  OBVIOUS
<1>3. /\ mid \in [0..MaxPosts -> Nat]
      /\ SumFunctionOnSet(mid, 0..MaxPosts) = SumFunctionOnSet(need, 0..MaxPosts) + need[0]
      /\ SumFunctionOnSet(need, 0..MaxPosts) \in Int
  <2>1. need[k] + need[0] >= 0
    BY <1>1
  <2>. QED
    BY <1>1, <1>2, <2>1, NeedSums
<1>4. mid[0] = need[0] /\ mid[k] = need[k] + need[0] /\ \A x \in (1..MaxPosts) \ {k} : mid[x] = need[x]
  BY <1>1, <1>2
<1>5. PICK d \in Int : d = 0 - need[0] /\ mid[0] + d = 0
  BY <1>1, <1>4
<1>6. PICK more : more = [mid EXCEPT ![0] = mid[0] + d]
  OBVIOUS
<1>7. /\ more \in [0..MaxPosts -> Nat]
      /\ SumFunctionOnSet(more, 0..MaxPosts) = SumFunctionOnSet(mid, 0..MaxPosts) + d
  <2>1. mid[0] + d >= 0
    BY <1>5
  <2>. QED
    BY <1>1, <1>3, <1>6, <2>1, NeedSums
<1>8. \A x \in 1..MaxPosts : more[x] = mid[x]
  BY <1>1, <1>3, <1>6
<1>9. SumFunctionOnSet(more, 0..MaxPosts) = SumFunctionOnSet(need, 0..MaxPosts)
  BY <1>1, <1>3, <1>5, <1>7
<1>. QED
  BY <1>4, <1>7, <1>8, <1>9

\* Pay: the bag is asked for under the key of the tab, or under a new one.
LEMMA PayStep ==
  ASSUME ShopInv, NEW t \in Tabs, handlePay(t)
  PROVE  ShopInv'
PROOF
<1>1. tab[t] \in TabType /\ tab[t].bag \in Carts /\ tab[t].key \in 0..MaxPosts
      /\ tab \in [Tabs -> TabType]
  BY DEF ShopInv, ShopTypeOK, TabType
<1>2. posts \in Seq(PostType) /\ Len(posts) \in Nat /\ Len(posts) < MaxPosts /\ MaxPosts \in Nat
  BY ShoppingAssumption DEF ShopInv, ShopTypeOK, handlePay, ShoppingAssumption
<1>3. PICK n : n = Len(posts) + 1
  OBVIOUS
<1>4. n \in 1..MaxPosts /\ n = Len(posts) + 1 /\ n \in Nat
  BY <1>2, <1>3
<1>5. PICK key : key = getOrCreateIdempotencyKey(t)
  OBVIOUS
<1>6. /\ key \in 1..n /\ key \in 0..MaxPosts
      /\ (tab[t].key # 0 => key = tab[t].key) /\ (tab[t].key = 0 => key = n)
  <2>1. tab[t].key <= Len(posts)
    BY DEF ShopInv, KeysInv
  <2>. QED
    BY <1>1, <1>2, <1>4, <1>5, <2>1 DEF getOrCreateIdempotencyKey
<1>7. PICK new : new = [tab |-> t, key |-> key, lines |-> tab[t].bag,
                        at |-> "asked", order |-> 0, heard |-> TRUE]
  OBVIOUS
<1>8. new \in PostType /\ new.tab = t /\ new.key = key /\ new.lines = tab[t].bag
  BY <1>1, <1>6, <1>7 DEF PostType, Owners
<1>9. PICK rec : rec = [tab[t] EXCEPT !.key = key, !.paying = n]
  OBVIOUS
<1>10. rec \in TabType /\ rec.key = key /\ rec.bag = tab[t].bag
  BY <1>1, <1>4, <1>6, <1>9 DEF TabType
<1>11. /\ posts' = Append(posts, new)
       /\ tab' = [tab EXCEPT ![t].key = key, ![t].paying = Len(posts) + 1]
       /\ UNCHANGED <<stored, orders, given>>
  BY <1>5, <1>7 DEF handlePay
<1>12. tab' = [tab EXCEPT ![t] = rec]
  BY <1>1, <1>4, <1>9, <1>11
<1>13. /\ posts' \in Seq(PostType) /\ Len(posts') = n /\ DOMAIN posts' = DOMAIN posts \cup {n}
       /\ posts'[n] = new /\ \A i \in DOMAIN posts : posts'[i] = posts[i]
       /\ DOMAIN posts = 1..Len(posts)
  BY <1>2, <1>4, <1>8, <1>11
<1>14. /\ tab' \in [Tabs -> TabType] /\ tab'[t] = rec
       /\ \A u \in Tabs \ {t} : tab'[u] = tab[u]
  BY <1>1, <1>10, <1>12
<1>15. ShopTypeOK'
  BY <1>4, <1>11, <1>13, <1>14 DEF ShopInv, ShopTypeOK
<1>16. KeysInv'
  <2>1. \A u \in Tabs : tab'[u].key <= n
    <3>1. \A u \in Tabs : tab[u].key <= Len(posts) /\ tab[u].key \in Nat
      BY DEF ShopInv, KeysInv, ShopTypeOK, TabType
    <3>. QED
      BY <1>2, <1>4, <1>6, <1>10, <1>14, <3>1
  <2>2. \A i \in DOMAIN posts' :
          posts'[i].key <= n /\ (posts'[i].at = "asked" => posts'[i].key > 0)
    <3>1. ASSUME NEW i \in DOMAIN posts
          PROVE  posts'[i].key <= n /\ (posts'[i].at = "asked" => posts'[i].key > 0)
      <4>1. posts[i].key <= Len(posts) /\ posts[i].key \in 0..MaxPosts
            /\ (posts[i].at = "asked" => posts[i].key > 0)
        BY EntriesAre DEF ShopInv, KeysInv
      <4>. QED
        BY <1>2, <1>4, <1>13, <4>1
    <3>2. posts'[n].key <= n /\ posts'[n].key > 0
      BY <1>4, <1>6, <1>8, <1>13
    <3>. QED
      BY <1>13, <3>1, <3>2
  <2>3. \A o \in DOMAIN orders : orders[o].key \in 1..n
    BY <1>2, <1>4 DEF ShopInv, KeysInv
  <2>4. \A o, p \in DOMAIN orders : orders[o].key = orders[p].key => o = p
    BY DEF ShopInv, KeysInv
  <2>. QED
    BY <1>11, <1>13, <2>1, <2>2, <2>3, <2>4 DEF KeysInv
<1>17. ASSUME NEW v \in Variants
       PROVE  \E more \in [0..MaxPosts -> Nat] : Covered(t, v, more)'
  <2>1. PICK need \in [0..MaxPosts -> Nat] : Covered(t, v, need)
    BY DEF ShopInv, GivenInv
  <2>2. PICK more \in [0..MaxPosts -> Nat] :
          /\ SumFunctionOnSet(more, 0..MaxPosts) = SumFunctionOnSet(need, 0..MaxPosts)
          /\ need[tab[t].key] <= more[key]
          /\ \A x \in 1..Len(posts) : more[x] = need[x]
    <3>1. CASE tab[t].key # 0
      <4>1. need[key] \in Nat /\ tab[t].key = key
        BY <1>6, <3>1
      <4>2. need[tab[t].key] <= need[key]
        BY <4>1
      <4>. WITNESS need \in [0..MaxPosts -> Nat]
      <4>. QED
        BY <4>2
    <3>2. CASE tab[t].key = 0
      <4>1. PICK more \in [0..MaxPosts -> Nat] :
              /\ SumFunctionOnSet(more, 0..MaxPosts) = SumFunctionOnSet(need, 0..MaxPosts)
              /\ more[n] = need[n] + need[0]
              /\ \A x \in (1..MaxPosts) \ {n} : more[x] = need[x]
        BY <1>4, NeedMoves
      <4>2. need[n] \in Nat /\ need[0] \in Nat
        BY <1>2, <1>4
      <4>3. need[0] <= more[n]
        BY <4>1, <4>2
      <4>4. \A x \in 1..Len(posts) : x \in (1..MaxPosts) \ {n}
        BY <1>2, <1>4
      <4>. QED
        BY <1>6, <3>2, <4>1, <4>3, <4>4
    <3>. QED
      BY <3>1, <3>2
  <2>3. tab[t].bag[v] <= more[key]
    <3>1. tab[t].bag[v] <= need[tab[t].key]
      BY <2>1 DEF Covered
    <3>2. tab[t].bag[v] \in Nat /\ need[tab[t].key] \in Nat /\ more[key] \in Nat
      BY <1>1, <1>6, CartsAre
    <3>. QED
      BY <2>2, <3>1, <3>2
  <2>4. SumFunctionOnSet(more, 0..MaxPosts) <= given'[t][v]
    BY <1>11, <2>1, <2>2 DEF Covered
  <2>5. ASSUME NEW i \in DOMAIN posts', posts'[i].tab = t, posts'[i].at = "asked"
        PROVE  posts'[i].lines[v] <= more[posts'[i].key]
    <3>1. CASE i \in DOMAIN posts
      <4>1. posts[i].tab = t /\ posts[i].at = "asked" /\ posts'[i] = posts[i]
        BY <1>13, <2>5, <3>1
      <4>2. posts[i].key \in 1..Len(posts)
        <5>1. posts[i].key > 0 /\ posts[i].key <= Len(posts) /\ posts[i].key \in 0..MaxPosts
          BY <3>1, <4>1, EntriesAre DEF ShopInv, KeysInv
        <5>. QED
          BY <1>2, <5>1
      <4>3. posts[i].lines[v] <= need[posts[i].key]
        BY <2>1, <3>1, <4>1 DEF Covered
      <4>. QED
        BY <2>2, <4>1, <4>2, <4>3
    <3>2. CASE i = n
      BY <1>8, <1>13, <2>3, <3>2
    <3>. QED
      BY <1>13, <3>1, <3>2
  <2>6. ASSUME NEW o \in DOMAIN orders', orders'[o].tab = t
        PROVE  orders'[o].lines[v] <= more[orders'[o].key]
    <3>1. orders[o].key \in 1..Len(posts) /\ orders[o].lines[v] <= need[orders[o].key]
      BY <1>11, <2>1, <2>6 DEF ShopInv, KeysInv, Covered
    <3>. QED
      BY <1>11, <2>2, <3>1
  <2>7. tab'[t].bag[v] <= more[tab'[t].key]
    BY <1>10, <1>14, <2>3
  <2>8. Covered(t, v, more)'
    BY <2>4, <2>5, <2>6, <2>7 DEF Covered
  <2>. QED
    BY <2>8
<1>18. ASSUME NEW u \in Tabs \ {t}, NEW v \in Variants
       PROVE  \E more \in [0..MaxPosts -> Nat] : Covered(u, v, more)'
  <2>1. PostsKept(u)
    BY <1>8, <1>13 DEF PostsKept
  <2>2. OrdersKept(u)
    BY <1>11 DEF OrdersKept
  <2>. QED
    BY <1>11, <1>14, <2>1, <2>2, Still DEF ShopInv
<1>19. GivenInv'
  BY <1>17, <1>18 DEF GivenInv
<1>. QED
  BY <1>15, <1>16, <1>19 DEF ShopInv

\* The posts of a document that is gone.
LEMMA UnheardPosts ==
  ASSUME ShopInv, NEW t \in Tabs, NEW owner \in Owners, posts' = Unheard(t, owner)
  PROVE  /\ posts' \in Seq(PostType) /\ Len(posts') = Len(posts) /\ DOMAIN posts' = DOMAIN posts
         /\ \A i \in DOMAIN posts' :
              posts'[i].key <= Len(posts) /\ (posts'[i].at = "asked" => posts'[i].key > 0)
         /\ \A i \in DOMAIN posts' : posts'[i].at = "asked" =>
              /\ posts[i].at = "asked"
              /\ posts'[i].key = posts[i].key /\ posts'[i].lines = posts[i].lines
              /\ posts'[i].tab = IF posts[i].tab = t THEN owner ELSE posts[i].tab
PROOF
<1>1. posts \in Seq(PostType) /\ Len(posts) \in Nat
  BY DEF ShopInv, ShopTypeOK
<1>. DEFINE entry(i) == CASE posts[i].tab # t         -> posts[i]
                          [] posts[i].at = "placed"   -> Over
                          [] OTHER                    -> [posts[i] EXCEPT !.tab = owner, !.heard = FALSE]
<1>0. posts' = [i \in DOMAIN posts |-> entry(i)]
  BY DEF Unheard
<1>2. ASSUME NEW i \in DOMAIN posts
      PROVE  /\ posts'[i] \in PostType
             /\ posts'[i].key <= Len(posts) /\ (posts'[i].at = "asked" => posts'[i].key > 0)
             /\ posts'[i].at = "asked" =>
                  /\ posts[i].at = "asked"
                  /\ posts'[i].key = posts[i].key /\ posts'[i].lines = posts[i].lines
                  /\ posts'[i].tab = IF posts[i].tab = t THEN owner ELSE posts[i].tab
  <2>1. posts[i] \in PostType /\ posts[i].key <= Len(posts)
        /\ (posts[i].at = "asked" => posts[i].key > 0)
    BY EntriesAre DEF ShopInv, KeysInv
  <2>2. \/ posts'[i] = posts[i] /\ posts[i].tab # t
        \/ posts'[i] = Over
        \/ posts'[i] = [posts[i] EXCEPT !.tab = owner, !.heard = FALSE] /\ posts[i].tab = t
    <3>1. posts'[i] = entry(i)
      <4>. HIDE DEF entry
      <4>. QED
        BY <1>0
    <3>. QED
      BY <3>1
  <2>3. CASE posts'[i] = posts[i] /\ posts[i].tab # t
    BY <2>1, <2>3
  <2>4. CASE posts'[i] = Over
    BY <1>1, <2>4, OverIs
  <2>5. CASE posts'[i] = [posts[i] EXCEPT !.tab = owner, !.heard = FALSE] /\ posts[i].tab = t
    BY <2>1, <2>5 DEF PostType
  <2>. QED
    BY <2>2, <2>3, <2>4, <2>5
<1>3. posts' \in Seq(PostType) /\ Len(posts') = Len(posts) /\ DOMAIN posts' = DOMAIN posts
  <2>1. posts' = [i \in DOMAIN posts |-> posts'[i]]
    <3>. HIDE DEF entry
    <3>. QED
      BY <1>0
  <2>. QED
    BY <1>1, <1>2, <2>1, Rewritten
<1>. QED
  BY <1>2, <1>3

LEMMA ReloadStep ==
  ASSUME ShopInv, NEW t \in Tabs, Reload(t)
  PROVE  ShopInv'
PROOF
<1>1. tab[t] \in TabType /\ stored \in Carts
  BY DEF ShopInv, ShopTypeOK
<1>2. PICK p : p = CASE tab[t].page \in {"failed", "silent"} -> "processing"
                     [] tab[t].page = "success"              -> "confirmed"
                     [] OTHER -> Bounced(tab[t].page, stored, tab[t].address)
  OBVIOUS
<1>3. p \in Pages
  <2>1. tab[t].page \in Pages /\ "processing" \in Pages /\ "confirmed" \in Pages
    BY <1>1 DEF TabType, Pages
  <2>2. Bounced(tab[t].page, stored, tab[t].address) \in Pages
    BY <2>1, PagesAre
  <2>. QED
    BY <1>2, <2>1, <2>2
<1>4. PICK next : next = [tab[t] EXCEPT !.paying = 0, !.page = p]
  OBVIOUS
<1>5. next \in TabType /\ next.key = tab[t].key
  BY <1>1, <1>3, <1>4 DEF TabType
<1>6. Holds(t, stored, next)
  BY <1>1, <1>2, <1>4 DEF Reload, TabType
<1>7. stored' = stored /\ orders' = orders /\ posts' = Unheard(t, t)
  BY DEF Reload
<1>8. KeysFollow /\ \A u : PostsKept(u) /\ OrdersKept(u)
  <2>1. t \in Owners
    BY DEF Owners
  <2>2. /\ posts' \in Seq(PostType) /\ Len(posts') = Len(posts) /\ DOMAIN posts' = DOMAIN posts
        /\ \A i \in DOMAIN posts' :
             posts'[i].key <= Len(posts) /\ (posts'[i].at = "asked" => posts'[i].key > 0)
        /\ \A i \in DOMAIN posts' : posts'[i].at = "asked" =>
             /\ posts[i].at = "asked"
             /\ posts'[i].key = posts[i].key /\ posts'[i].lines = posts[i].lines
             /\ posts'[i].tab = IF posts[i].tab = t THEN t ELSE posts[i].tab
    BY <1>7, <2>1, UnheardPosts
  <2>3. \A u : PostsKept(u)
    BY <2>2 DEF PostsKept
  <2>. QED
    BY <1>7, <2>2, <2>3, SameOrders DEF KeysFollow
<1>. QED
  BY <1>1, <1>5, <1>6, <1>7, <1>8, BagStep

\* A new tab is given what is stored, and nothing of the closed one is its own.
LEMMA ReopenStep ==
  ASSUME ShopInv, NEW t \in Tabs, Reopen(t)
  PROVE  ShopInv'
PROOF
<1>1. /\ stored \in Carts /\ tab \in [Tabs -> TabType] /\ given \in [Tabs -> [Variants -> Nat]]
      /\ orders \in Seq(OrderType)
      /\ \A v \in Variants : stored[v] \in Nat
  BY CartsAre DEF ShopInv, ShopTypeOK
<1>2. t # Closed /\ Closed \in Owners
  BY ShoppingAssumption DEF ShoppingAssumption, Closed, Owners
<1>3. PICK rec : rec = [Fresh EXCEPT !.bag = stored]
  OBVIOUS
<1>4. rec \in TabType /\ rec.bag = stored /\ rec.key = 0
  BY <1>1, <1>3, FreshIs DEF TabType
<1>5. /\ tab' \in [Tabs -> TabType] /\ tab'[t] = rec
      /\ \A u \in Tabs \ {t} : tab'[u] = tab[u]
  BY <1>1, <1>3, <1>4 DEF Reopen
<1>6. /\ given' \in [Tabs -> [Variants -> Nat]] /\ given'[t] = stored
      /\ \A u \in Tabs \ {t} : given'[u] = given[u]
  <2>1. stored \in [Variants -> Nat]
    BY <1>1 DEF Carts
  <2>. QED
    BY <1>1, <2>1 DEF Reopen
<1>7. stored' = stored /\ posts' = Unheard(t, Closed)
      /\ orders' = [o \in DOMAIN orders |-> IF orders[o].tab # t THEN orders[o]
                                            ELSE [orders[o] EXCEPT !.tab = Closed]]
  BY DEF Reopen
<1>8. /\ posts' \in Seq(PostType) /\ Len(posts') = Len(posts) /\ DOMAIN posts' = DOMAIN posts
      /\ \A i \in DOMAIN posts' :
           posts'[i].key <= Len(posts) /\ (posts'[i].at = "asked" => posts'[i].key > 0)
      /\ \A i \in DOMAIN posts' : posts'[i].at = "asked" =>
           /\ posts[i].at = "asked"
           /\ posts'[i].key = posts[i].key /\ posts'[i].lines = posts[i].lines
           /\ posts'[i].tab = IF posts[i].tab = t THEN Closed ELSE posts[i].tab
  BY <1>2, <1>7, UnheardPosts
<1>9. ASSUME NEW o \in DOMAIN orders
      PROVE  /\ orders'[o] \in OrderType
             /\ orders'[o].key = orders[o].key /\ orders'[o].lines = orders[o].lines
             /\ orders'[o].tab = IF orders[o].tab = t THEN Closed ELSE orders[o].tab
  <2>1. orders[o] \in OrderType
    BY EntriesAre DEF ShopInv
  <2>2. CASE orders[o].tab # t
    BY <1>7, <2>1, <2>2
  <2>3. CASE orders[o].tab = t
    <3>1. orders'[o] = [orders[o] EXCEPT !.tab = Closed]
      BY <1>7, <2>3
    <3>. QED
      BY <1>2, <2>1, <2>3, <3>1 DEF OrderType
  <2>. QED
    BY <2>2, <2>3
<1>10. orders' \in Seq(OrderType) /\ DOMAIN orders' = DOMAIN orders
  <2>1. orders' = [o \in DOMAIN orders |-> orders'[o]]
    BY <1>7
  <2>. QED
    BY <1>1, <1>9, <2>1, Rewritten
<1>11. ShopTypeOK'
  BY <1>5, <1>6, <1>7, <1>8, <1>10 DEF ShopInv, ShopTypeOK
<1>12. KeysInv'
  <2>1. \A u \in Tabs : tab'[u].key <= Len(posts')
    <3>1. \A u \in Tabs : tab[u].key <= Len(posts) /\ 0 <= Len(posts)
      BY DEF ShopInv, ShopTypeOK, KeysInv
    <3>. QED
      BY <1>4, <1>5, <1>8, <3>1
  <2>. QED
    BY <1>8, <1>9, <1>10, <2>1 DEF ShopInv, KeysInv
<1>13. (\A i \in DOMAIN posts' : ~(posts'[i].tab = t /\ posts'[i].at = "asked"))
       /\ \A o \in DOMAIN orders' : orders'[o].tab # t
  BY <1>2, <1>8, <1>9, <1>10
<1>14. ASSUME NEW v \in Variants
       PROVE  \E more \in [0..MaxPosts -> Nat] : Covered(t, v, more)'
  <2>1. PICK zero : zero = [k \in 0..MaxPosts |-> 0]
    OBVIOUS
  <2>2. zero \in [0..MaxPosts -> Nat] /\ 0 \in 0..MaxPosts /\ zero[0] = 0 /\ stored[v] \in Int
    BY <1>1, <2>1, ShoppingAssumption DEF ShoppingAssumption
  <2>3. SumFunctionOnSet(zero, 0..MaxPosts) = 0
    <3>1. IsFiniteSet(0..MaxPosts) /\ \A k \in 0..MaxPosts : zero[k] = 0
      BY <2>1, FS_Interval, ShoppingAssumption DEF ShoppingAssumption
    <3>. QED
      BY <3>1, SumZeros
  <2>4. PICK more : more = [zero EXCEPT ![0] = zero[0] + stored[v]]
    OBVIOUS
  <2>5. /\ more \in [0..MaxPosts -> Nat]
        /\ SumFunctionOnSet(more, 0..MaxPosts) = SumFunctionOnSet(zero, 0..MaxPosts) + stored[v]
    <3>1. zero[0] + stored[v] >= 0
      BY <1>1, <2>2
    <3>. QED
      BY <2>2, <2>4, <3>1, NeedSums
  <2>6. more[0] = stored[v]
    BY <1>1, <2>2, <2>4
  <2>7. Covered(t, v, more)'
    BY <1>1, <1>4, <1>5, <1>6, <1>13, <2>3, <2>5, <2>6 DEF Covered
  <2>. QED
    BY <2>5, <2>7
<1>15. ASSUME NEW u \in Tabs \ {t}, NEW v \in Variants
       PROVE  \E more \in [0..MaxPosts -> Nat] : Covered(u, v, more)'
  <2>1. u # Closed
    BY ShoppingAssumption DEF ShoppingAssumption, Closed
  <2>2. PostsKept(u)
    BY <1>8, <2>1 DEF PostsKept
  <2>3. OrdersKept(u)
    BY <1>9, <1>10, <2>1 DEF OrdersKept
  <2>. QED
    BY <1>5, <1>6, <2>2, <2>3, Still DEF ShopInv
<1>16. GivenInv'
  BY <1>14, <1>15 DEF GivenInv
<1>. QED
  BY <1>11, <1>12, <1>16 DEF ShopInv

LEMMA ShopStart == ShopInit => ShopInv
PROOF
<1>. SUFFICES ASSUME ShopInit PROVE ShopInv
  OBVIOUS
<1>1. ShopTypeOK
  BY CartsAre, FreshIs, ShoppingAssumption DEF ShopInit, ShopTypeOK, Carts, EmptyCart, ShoppingAssumption
<1>2. KeysInv
  BY FreshIs DEF ShopInit, KeysInv
<1>3. GivenInv
  <2>. SUFFICES ASSUME NEW t \in Tabs, NEW v \in Variants
                PROVE  \E need \in [0..MaxPosts -> Nat] : Covered(t, v, need)
    BY DEF GivenInv
  <2>1. PICK zero : zero = [k \in 0..MaxPosts |-> 0]
    OBVIOUS
  <2>2. zero \in [0..MaxPosts -> Nat] /\ zero[0] = 0
    BY <2>1, ShoppingAssumption DEF ShoppingAssumption
  <2>3. SumFunctionOnSet(zero, 0..MaxPosts) = 0
    <3>1. IsFiniteSet(0..MaxPosts) /\ \A k \in 0..MaxPosts : zero[k] = 0
      BY <2>1, FS_Interval, ShoppingAssumption DEF ShoppingAssumption
    <3>. QED
      BY <3>1, SumZeros
  <2>4. tab[t].key = 0 /\ tab[t].bag[v] = 0 /\ given[t][v] = 0
    BY FreshIs DEF ShopInit, Fresh, EmptyCart
  <2>5. Covered(t, v, zero)
    BY <2>2, <2>3, <2>4 DEF ShopInit, Covered
  <2>. QED
    BY <2>2, <2>5
<1>. QED
  BY <1>1, <1>2, <1>3 DEF ShopInv

LEMMA ShopStep == ShopInv /\ [ShopNext]_vars => ShopInv'
PROOF
<1>. SUFFICES ASSUME ShopInv, [ShopNext]_vars
              PROVE  ShopInv'
  OBVIOUS
<1>1. ASSUME NEW t \in Tabs, Customer(t) \/ Page(t)
      PROVE  ShopInv'
  BY <1>1, EditSteps, PageSteps, PayStep, ReloadStep, ReopenStep, CleanupStep DEF Customer, Page
<1>2. ASSUME NEW i \in DOMAIN posts, Network(i)
      PROVE  ShopInv'
  BY <1>2, PlacedStep, AnsweredStep, FailedSteps DEF Network
<1>3. ASSUME NEW o \in DOMAIN orders, PaymentSettled(o)
      PROVE  ShopInv'
  BY <1>3, SettledStep
<1>4. CASE UNCHANGED vars
  BY <1>4 DEF vars, ShopInv, ShopTypeOK, KeysInv, GivenInv, Covered
<1>. QED
  BY <1>1, <1>2, <1>3, <1>4 DEF ShopNext

\* What is set aside under different keys covers the orders one by one.
LEMMA OrdersAreCovered == ShopInv => NothingOrderedTwice
PROOF
<1>. SUFFICES ASSUME ShopInv, NEW t \in Tabs, NEW v \in Variants
              PROVE  SumFunction([o \in {p \in DOMAIN orders : orders[p].tab = t} |-> orders[o].lines[v]])
                       <= given[t][v]
  BY DEF NothingOrderedTwice
<1>1. PICK S : S = {p \in DOMAIN orders : orders[p].tab = t}
  OBVIOUS
<1>2. PICK f : f = [o \in S |-> orders[o].lines[v]]
  OBVIOUS
<1>3. PICK at : at = [o \in S |-> orders[o].key]
  OBVIOUS
<1>4. PICK need \in [0..MaxPosts -> Nat] : Covered(t, v, need)
  BY DEF ShopInv, GivenInv
<1>5. PICK K : K = 0..MaxPosts
  OBVIOUS
<1>6. IsFiniteSet(S) /\ IsFiniteSet(K)
  <2>1. Len(orders) \in Nat /\ S \in SUBSET (1..Len(orders))
    BY <1>1 DEF ShopInv, ShopTypeOK
  <2>2. IsFiniteSet(1..Len(orders))
    BY <2>1, FS_Interval
  <2>3. IsFiniteSet(K)
    BY <1>5, FS_Interval, ShoppingAssumption DEF ShoppingAssumption
  <2>. QED
    BY <2>1, <2>2, <2>3, FS_Subset
<1>7. \A o \in S : f[o] \in Int /\ at[o] \in K /\ f[o] <= need[at[o]]
  <2>. SUFFICES ASSUME NEW o \in S
                PROVE  f[o] \in Int /\ at[o] \in K /\ f[o] <= need[at[o]]
    OBVIOUS
  <2>1. orders[o].key \in 0..MaxPosts /\ orders[o].lines[v] \in Nat
    BY <1>1, CartsAre, EntriesAre DEF ShopInv
  <2>2. orders[o].lines[v] <= need[orders[o].key]
    BY <1>1, <1>4 DEF Covered
  <2>. QED
    BY <1>2, <1>3, <1>5, <2>1, <2>2
<1>8. \A x, y \in S : at[x] = at[y] => x = y
  BY <1>1, <1>3 DEF ShopInv, KeysInv
<1>9. \A k \in K : need[k] \in Nat
  BY <1>5
<1>10. SumFunctionOnSet(f, S) <= SumFunctionOnSet(need, K)
  BY <1>6, <1>7, <1>8, <1>9, SumImage
<1>11. SumFunctionOnSet(f, S) \in Int /\ SumFunctionOnSet(need, K) \in Int
  <2>1. (\A o \in S : f[o] \in Int) /\ \A k \in K : need[k] \in Int
    BY <1>7, <1>9
  <2>2. SumFunctionOnSet(f, S) \in Int
    BY <1>6, <2>1, SumType
  <2>3. SumFunctionOnSet(need, K) \in Int
    BY <1>6, <2>1, SumType
  <2>. QED
    BY <2>2, <2>3
<1>12. SumFunctionOnSet(need, K) <= given[t][v] /\ given[t][v] \in Nat
  BY <1>4, <1>5 DEF Covered, ShopInv, ShopTypeOK
<1>13. SumFunction(f) = SumFunctionOnSet(f, S)
  BY <1>2 DEF SumFunction, SumFunctionOnSet
<1>. QED
  BY <1>1, <1>2, <1>10, <1>11, <1>12, <1>13

\* What a tab orders, over all its orders, it was given: Pay repeated after a
\* lost answer, a reload, an error page or a failed payment never orders a bag
\* twice.
THEOREM OrderedOnce == ShopSpec => []NothingOrderedTwice
PROOF
  BY ShopStart, ShopStep, OrdersAreCovered, PTL DEF ShopSpec
=============================================================================

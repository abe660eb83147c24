--------------------------- MODULE PromotionEngine ---------------------------
(***************************************************************************)
(* The promotion engine, as the pure function it is: which promotions match*)
(* a cart, which of them apply together, and what each of their actions    *)
(* takes.  A cart is a sequence of lines with a product, its categories and*)
(* a subtotal in paisa.  Amounts are whole paisa and every share is rounded*)
(* down, so what an order-wide discount leaves on the lines can be more    *)
(* than what it leaves of the order.                                       *)
(***************************************************************************)
EXTENDS Integers, Sequences, FiniteSets, SequencesExt

Zero(n) == IF n < 0 THEN 0 ELSE n
Total(line) ==
    LET sum[i \in 0..Len(line)] == IF i = 0 THEN 0 ELSE sum[i - 1] + line[i]
    IN  sum[Len(line)]
Subtotal(cart) == Total([i \in DOMAIN cart |-> cart[i].paisa])

-----------------------------------------------------------------------------
(* Conditions *)

\* firstTime is unknown while no phone is given; no pincode matches no list
conditionMatches(c, cart, ctx) ==
    \/ c.type = "cart_subtotal_min" /\ Subtotal(cart) >= c.value
    \/ c.type = "cart_contains_product" /\ \E i \in DOMAIN cart : cart[i].product \in c.value
    \/ c.type = "cart_contains_category" /\ \E i \in DOMAIN cart : cart[i].categories \cap c.value # {}
    \/ c.type = "customer_first_time" /\ ctx.firstTime # "no"
    \/ c.type = "pincode_in" /\ ctx.pincode \in c.value

Matches(rule, cart, ctx) == \A c \in rule.conditions : conditionMatches(c, cart, ctx)

-----------------------------------------------------------------------------
(* Stacking *)

\* mutant: a promotion that stands alone does not end the stack
AdmitLater(out, rule) == IF rule.stackable \/ out = <<>> THEN Append(out, rule) ELSE out
\* one that does not stack is taken only as the first, and is then the last
Admit(out, rule) ==
    IF out # <<>> /\ (~out[1].stackable \/ ~rule.stackable) THEN out ELSE Append(out, rule)

\* automatic: rules by ascending priority; coupon: a sequence of at most one;
\* of both only what matches
selectStack(automatic, coupon, cart, ctx) ==
    LET first == IF coupon # <<>> /\ Matches(coupon[1], cart, ctx) THEN coupon ELSE <<>>
    IN  IF first # <<>> /\ ~first[1].stackable THEN first
        ELSE FoldLeft(LAMBDA out, rule : IF Matches(rule, cart, ctx) THEN Admit(out, rule) ELSE out, first, automatic)

-----------------------------------------------------------------------------
(* Actions.  st is what is left of the order and of each line, and what the  *)
(* actions so far have taken                                                 *)

\* mutant: a discount on products is reckoned from the price of the line
Priced(st, cart, i) == cart[i].paisa
Before(st, cart, i) == st.line[i]

\* amount is spread over the lines in `on` by what they hold, rounded down; the
\* last of them takes the rest, but no more than it holds
Spread(line, on, amount) ==
    LET total == Total([i \in DOMAIN line |-> IF i \in on THEN line[i] ELSE 0])
        last == CHOOSE i \in on : \A j \in on : j <= i
        others == [i \in DOMAIN line |-> IF i \in on \ {last} THEN Min({(line[i] * amount) \div total, line[i]}) ELSE 0]
        rest == Min({amount - Total(others), line[last]})
    IN  IF total = 0 THEN line
        ELSE [i \in DOMAIN line |-> line[i] - (IF i = last THEN rest ELSE others[i])]

\* a cut of the whole order comes off its lines too
consumeSubtotal(st, cut) ==
    [st EXCEPT !.remaining = Zero(@ - cut), !.line = Spread(@, DOMAIN st.line, cut), !.discount = @ + cut,
               !.spreads = IF cut = 0 THEN @ ELSE @ + 1]

\* a cut of lines comes off the order too
ConsumeLines(st, line) ==
    LET cut == Total(st.line) - Total(line)
    IN  [st EXCEPT !.remaining = Zero(@ - cut), !.line = line, !.discount = @ + cut]

PercentOffLines(st, cart, action) ==
    LET on == {i \in DOMAIN cart : cart[i].product \in action.products}
        piece(i) == IF i \in on THEN (Before(st, cart, i) * action.value) \div 100 ELSE 0
    IN  ConsumeLines(st, [i \in DOMAIN cart |-> st.line[i] - piece(i)])

FlatOffLines(st, cart, action) ==
    LET on == {i \in DOMAIN cart : cart[i].product \in action.products}
        held == Total([i \in DOMAIN cart |-> IF i \in on THEN st.line[i] ELSE 0])
    IN  ConsumeLines(st, Spread(st.line, on, IF action.value < held THEN action.value ELSE held))

applyAction(st, cart, action) ==
    CASE action.type = "percent_off_order" -> consumeSubtotal(st, (st.remaining * action.value) \div 100)
      [] action.type = "flat_off_order" -> consumeSubtotal(st, IF action.value < st.remaining THEN action.value ELSE st.remaining)
      [] action.type = "free_shipping" -> [st EXCEPT !.freeShipping = TRUE]
      [] action.type = "percent_off_products" -> PercentOffLines(st, cart, action)
      [] action.type = "flat_off_products" -> FlatOffLines(st, cart, action)

ApplyActions(st, cart, actions) == FoldLeft(LAMBDA s, action : applyAction(s, cart, action), st, actions)

\* a promotion counts as applied when one of its actions took something or made
\* shipping free
ApplyRule(st, cart, rule) ==
    LET after == ApplyActions(st, cart, rule.actions)
    IN  IF after.discount = st.discount /\ after.freeShipping = st.freeShipping THEN after
        ELSE [after EXCEPT !.applied = Append(@, rule.id)]

ApplyRules(st, cart, rules) == FoldLeft(LAMBDA s, rule : ApplyRule(s, cart, rule), st, rules)

evaluateCart(cart, ctx, automatic, coupon) ==
    LET start == [remaining |-> Subtotal(cart), line |-> [i \in DOMAIN cart |-> cart[i].paisa],
                  freeShipping |-> FALSE, discount |-> 0, applied |-> <<>>, spreads |-> 0]
    IN  ApplyRules(start, cart, selectStack(automatic, coupon, cart, ctx))
=============================================================================

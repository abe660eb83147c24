----------------------------- MODULE MCShopping -----------------------------
(* Two parts of the storefront that share nothing are explored side by side: *)
(* scene says which one a behaviour is about, and the other stays at its     *)
(* initial state.                                                            *)
EXTENDS Shopping, BagView, TLC

VARIABLE scene

all == <<vars, viewVars, scene>>

\* while the orders are explored, one bag view stands still
StillView == bag = (CHOOSE b \in FullBags : TRUE) /\ savedCode = None /\ lookups = {}

Init == /\ scene \in {"orders", "totals"} /\ ShopInit /\ ViewInit
        /\ scene = "orders" => StillView

Next == \/ scene = "orders" /\ ShopNext /\ UNCHANGED <<viewVars, scene>>
        \/ scene = "totals" /\ ViewNext /\ UNCHANGED <<vars, scene>>

\* The timers of the pages fire and a request ends, in an answer or an error;
\* the customer owes nothing, and neither does the payment provider.
Spec == /\ Init /\ [][Next]_all
        /\ \A t \in Tabs : WF_vars(Page(t))
        /\ \A i \in 1..MaxPosts : WF_vars(i \in DOMAIN posts /\ Network(i))
=============================================================================

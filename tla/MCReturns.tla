----------------------------- MODULE MCReturns ------------------------------
(* An order of three shirts in medium and one in large; two larges are left. *)
(* In one scene calls come as they please, in the other from the pages.      *)
EXTENDS ReturnDesk, TLC

CONSTANTS first, second, medium, large
VARIABLE scene

OrderLines == {first, second}
MCVariantOf == first :> medium @@ second :> large
MCOrdered == first :> 3 @@ second :> 1
MCPrice == first :> 1 @@ second :> 1
MCShelf == medium :> 0 @@ large :> 2

Give(quantity) ==
  [action |-> "return", quantity |-> quantity, exchange |-> medium]
SwapFor(variant) ==
  [action |-> "exchange", quantity |-> 1, exchange |-> variant]
Replace == [action |-> "replacement", quantity |-> 1, exchange |-> medium]

\* Two mediums come back for money, or one is swapped for a large while the
\* large is replaced; the order holds enough for one request of each form.  The
\* first is worth the order's total where Total is 2 (a discount of two) and a
\* part of it where Total is 4.
MCForms == {first :> Give(2), first :> SwapFor(large) @@ second :> Replace}

MCInit == scene \in {"calls", "form", "desk"} /\ Init /\ DeskInit
MCNext == \/ scene = "calls" /\ Next /\ UNCHANGED <<deskVars, scene>>
          \/ scene = "form" /\ ReturnFlow /\ UNCHANGED scene
          \/ scene = "desk" /\ DeskNext /\ UNCHANGED scene
MCSpec == MCInit /\ [][MCNext]_<<vars, deskVars, scene>>

\* Bounds: with the staff's page in the scene there is one request, and little
\* is picked for it.
Scenes == scene = "desk" => filed <= 1 /\ clicks <= 3

\* Bound: the search goes no further once stale calls have written both
\* requests, for then no invariant that excludes such writes says anything.
OneOvertaken == Cardinality(overtaken) <= 1

\* Two workers are exchangeable: nothing tells them apart.
Exchangeable == Permutations(Workers)
=============================================================================

---------------------------- MODULE MCShopFloor -----------------------------
(* A shop of one or two variants for TLC.                                  *)
EXTENDS ShopFloor

CONSTANTS tee, t1, t2

MCStock == [v \in Variants |-> 1]
MCButtons == {-1, 1}
MCRowVariant == [r \in Rows |-> tee]
MCRowDelta == [r \in Rows |-> IF r = 1 THEN 1 ELSE -1]
MCShifts == {{"till", "web", "cancel", "catalogue"}, {"till", "sheet"}, {"drawer", "web"},
             {"buttons", "web", "cancel"}, {"buttons", "sheet"}}
=============================================================================

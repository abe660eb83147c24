----------------------------- MODULE MCAccounts -----------------------------
(* Customers, the keys of the panel and the sign-in of one of its users share *)
(* nothing here: scene says which a behaviour is about, and the others stay   *)
(* at an initial state.                                                       *)
EXTENDS Accounts, Staff, SignIn

VARIABLE scene

all == <<accountVars, staffVars, signInVars, scene>>

Init == /\ scene \in {"customers", "keys", "sign-in"}
        /\ AccountsInit /\ StaffInit /\ SignInInit
        /\ scene # "keys" => \A u \in Users : IsAdmin(u)

Next == \/ scene = "customers" /\ AccountsNext /\ UNCHANGED <<staffVars, signInVars, scene>>
        \/ scene = "keys" /\ StaffNext /\ UNCHANGED <<accountVars, signInVars, scene>>
        \/ scene = "sign-in" /\ SignInNext /\ UNCHANGED <<accountVars, staffVars, scene>>

Spec == Init /\ [][Next]_all
=============================================================================

-------------------------------- MODULE Staff --------------------------------
(***************************************************************************)
(* The accounts of the admin panel: who may change whom.  Several admins   *)
(* work at once, from a list and dialogs that may be old; a request is     *)
(* checked against the rows of the moment and written a moment later.      *)
(***************************************************************************)
EXTENDS Naturals, FiniteSets

CONSTANTS Users

VARIABLES row,      \* AdminUser rows: role and isActive
          request,  \* what each user is asking the API to do to an account
          crossed   \* history: a request was written after its author had lost their rights

staffVars == <<row, request, crossed>>

Roles == {"admin", "staff"}
Row(role, isActive) == [role |-> role, isActive |-> isActive]

Asked(what, on, wanted) == [what |-> what, on |-> on, wanted |-> wanted]
NoRequest == Asked("nothing", CHOOSE u \in Users : TRUE, Row("staff", FALSE))

IsAdmin(u) == row[u].isActive /\ row[u].role = "admin"

StaffInit == /\ row \in [Users -> [role : Roles, isActive : {TRUE}]]
             /\ \E u \in Users : IsAdmin(u)
             /\ request = [u \in Users |-> NoRequest] /\ crossed = FALSE

-----------------------------------------------------------------------------

\* mutant: the rule about one's own account knows only the role
RefusedOwnRole(a, r) == r.on = a /\ r.what = "update" /\ r.wanted.role # row[a].role
\* nobody takes the role or the activity of their own account away
RefusedSelf(a, r) ==
    /\ r.on = a
    /\ \/ r.what = "deactivate"
       \/ r.what = "update" /\ (r.wanted.role # row[a].role \/ ~r.wanted.isActive)

\* the guards of the API let only an active admin in
Passes(a, r) ==
    /\ request[a] = NoRequest /\ IsAdmin(a) /\ ~RefusedSelf(a, r)
    /\ request' = [request EXCEPT ![a] = r]
    /\ UNCHANGED <<row, crossed>>

\* the dialog sends the whole form: what it showed when it was opened, and what
\* was changed since; that may be anything
StaffFormDialog(a) ==
    \E u \in Users, wanted \in [role : Roles, isActive : BOOLEAN] : Passes(a, Asked("update", u, wanted))

\* the list offers to disable the accounts it shows as active, but one's own
DisableAccount(a) == \E u \in Users \ {a} : Passes(a, Asked("deactivate", u, Row("staff", FALSE)))

Written(a) == /\ request' = [request EXCEPT ![a] = NoRequest]
              /\ crossed' = (crossed \/ ~IsAdmin(a))

update(a) == /\ request[a].what = "update"
             /\ row' = [row EXCEPT ![request[a].on] = request[a].wanted]
             /\ Written(a)

deactivate(a) == /\ request[a].what = "deactivate"
                 /\ row' = [row EXCEPT ![request[a].on].isActive = FALSE]
                 /\ Written(a)

StaffNext == \E a \in Users : StaffFormDialog(a) \/ DisableAccount(a) \/ update(a) \/ deactivate(a)

StaffSpec == StaffInit /\ [][StaffNext]_staffVars

-----------------------------------------------------------------------------
(* Properties *)

\* However admins demote, disable and edit each other from dialogs of any age,
\* an admin who can sign in is left; the keys are lost only when two requests
\* cross, one taking the rights of the other's author before it is written.
KeysAreKept == crossed \/ \E u \in Users : IsAdmin(u)
=============================================================================

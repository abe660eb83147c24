----------------------------- MODULE ReturnDesk -----------------------------
(***************************************************************************)
(* The pages from which the calls of Returns are made: the customer's form *)
(* of five steps and the page of a filed request, and the staff's page of  *)
(* a request with its buttons and dialogs.  A page shows what it was given *)
(* and waits for one call at a time, which a worker of the API carries out *)
(* as Returns has it; the service refuses what the state does not allow.   *)
(***************************************************************************)
EXTENDS Returns, Sequences, Functions

CONSTANTS
  Pages,      \* the staff's pages
  Photos, None,
  MaxClicks   \* bound: what the customer picks, and the notes staff save

ASSUME DeskAssumption ==
  /\ None \notin Workers /\ None \notin Variants /\ MaxClicks \in Nat
  /\ None \notin [return : Numbers, state : States]

VARIABLES
  step, eligible, drafts, way, siblings, uploads,  \* the form
  sent,       \* the worker the customer's page waits for
  summary,    \* the request the customer's page shows, and its state then
  shown,      \* the request each staff page shows, and its state then
  dialog, decisions,  \* the open dialog; the lines its verification restocks
  waits,      \* the worker each staff page waits for
  noting,     \* staff pages that save their note
  reported,   \* the lines each request reports as damaged
  clicks,
  granted,    \* workers that answer that their call succeeded
  refused,    \* history: what was refused to a page that was up to date
  replaced    \* history: staff pages whose open dialog lost its decisions

formVars == <<step, eligible, drafts, way, siblings, uploads>>
staffVars == <<shown, dialog, decisions, waits, noting, replaced>>
deskVars == <<formVars, staffVars, sent, granted, summary, reported, clicks, refused>>

STEPS == <<"items", "reason", "action", "method", "confirm">>
Free(w) == doing[w] = Idle /\ sent # w /\ \A p \in Pages : waits[p] # w

-----------------------------------------------------------------------------
(* The customer's form                                                     *)

At(name) == step \in DOMAIN STEPS /\ STEPS[step] = name /\ sent = None
Click == clicks < MaxClicks /\ clicks' = clicks + 1
FormOnly == UNCHANGED <<vars, staffVars, sent, granted, summary, reported, refused>>

\* the page is given the quantities not bound to a request; with one open it
\* only links to it
getEligibility ==
  LET left == {l \in Lines : Ordered[l] > Bound(l)}
  IN  /\ step = 0 /\ sent = None /\ left # {} /\ \A r \in Numbers : ~Open(r)
      /\ step' = 1 /\ eligible' = [l \in left |-> Ordered[l] - Bound(l)]
      /\ drafts' = <<>> /\ way' = "courier_pickup" /\ siblings' = None /\ uploads' = {}
      /\ UNCHANGED clicks /\ FormOnly

Picked == [quantity |-> 1, reason |-> "size_issue", action |-> "return",
           exchange |-> None, photos |-> {}]

toggleItem == \E l \in DOMAIN eligible :
  /\ At("items") /\ Click
  /\ drafts' = IF l \in DOMAIN drafts THEN Restrict(drafts, DOMAIN drafts \ {l})
               ELSE [k \in DOMAIN drafts \cup {l} |-> IF k = l THEN Picked ELSE drafts[k]]
  /\ UNCHANGED <<step, eligible, way, siblings, uploads>> /\ FormOnly

\* a line unchecked meanwhile is left alone
updateDraft(l, field, value) ==
  drafts' = IF l \in DOMAIN drafts THEN [drafts EXCEPT ![l][field] = value] ELSE drafts

ItemsStep == \E l \in DOMAIN drafts : \E n \in 1..eligible[l] :
  /\ At("items") /\ n # drafts[l].quantity /\ Click
  /\ updateDraft(l, "quantity", n)
  /\ UNCHANGED <<step, eligible, way, siblings, uploads>> /\ FormOnly

ReasonStep == \E l \in DOMAIN drafts, reason \in {"size_issue", "damaged"} :
  /\ At("reason") /\ reason # drafts[l].reason /\ Click
  /\ updateDraft(l, "reason", reason)
  /\ uploads' = {IF u.line = l THEN [u EXCEPT !.watched = FALSE] ELSE u : u \in uploads}
  /\ UNCHANGED <<step, eligible, way, siblings>> /\ FormOnly

\* one pick at a time, as long as its input stays on the page; what comes back
\* is added to the photos there were when it began
PhotoUploader == \E l \in DOMAIN drafts :
  /\ At("reason") /\ drafts[l].reason = "damaged" /\ Click
  /\ \/ \E photo \in Photos \ drafts[l].photos :
          /\ ~\E u \in uploads : u.line = l /\ u.watched
          /\ uploads' = uploads \cup {[line |-> l, photo |-> photo, had |-> drafts[l].photos, watched |-> TRUE]}
          /\ UNCHANGED drafts
     \/ \E photo \in drafts[l].photos :
          updateDraft(l, "photos", drafts[l].photos \ {photo}) /\ UNCHANGED uploads
  /\ UNCHANGED <<step, eligible, way, siblings>> /\ FormOnly

PhotoUploaded == \E u \in uploads :
  /\ uploads' = uploads \ {u}
  /\ updateDraft(u.line, "photos", u.had \cup {u.photo}) \/ UNCHANGED drafts
  /\ UNCHANGED <<step, eligible, way, siblings, clicks>> /\ FormOnly

ActionStep == \E l \in DOMAIN drafts :
  /\ At("action") /\ Click
  /\ \/ \E action \in Actions \ {drafts[l].action} :
          drafts' = [drafts EXCEPT ![l].action = action, ![l].exchange = None]
     \/ /\ drafts[l].action = "exchange" /\ siblings # None
        /\ \E v \in Variants \ {VariantOf[l], drafts[l].exchange} :
             siblings[v] > 0 /\ updateDraft(l, "exchange", v)
  /\ UNCHANGED <<step, eligible, way, siblings, uploads>> /\ FormOnly

ensureVariants ==
  /\ siblings = None /\ \E l \in DOMAIN drafts : drafts[l].action = "exchange"
  /\ siblings' = stock
  /\ UNCHANGED <<step, eligible, drafts, way, uploads, clicks>> /\ FormOnly

MethodStep ==
  /\ At("method") /\ Click
  /\ way' \in Methods \ {way}
  /\ UNCHANGED <<step, eligible, drafts, siblings, uploads>> /\ FormOnly

Pictured(l) == drafts[l].reason = "damaged" => drafts[l].photos # {}
Swapped(l) == drafts[l].action = "exchange" => drafts[l].exchange # None

\* Mutant: one line with its photo is enough.
CanAdvanceFromAny(name) ==
  CASE name = "items" -> drafts # <<>>
    [] name = "reason" -> \E l \in DOMAIN drafts : Pictured(l)
    [] name = "action" -> \A l \in DOMAIN drafts : Swapped(l)
    [] OTHER -> TRUE

CanAdvanceFrom(name) ==
  CASE name = "items" -> drafts # <<>>
    [] name = "reason" -> \A l \in DOMAIN drafts : Pictured(l)
    [] name = "action" -> \A l \in DOMAIN drafts : Swapped(l)
    [] OTHER -> TRUE

Turn ==
  /\ step \in DOMAIN STEPS /\ sent = None
  /\ \/ step < Len(STEPS) /\ CanAdvanceFrom(STEPS[step]) /\ step' = step + 1
     \/ step > 1 /\ step' = step - 1
  /\ uploads' = {[u EXCEPT !.watched = FALSE] : u \in uploads}
  /\ UNCHANGED <<eligible, drafts, way, siblings, clicks>> /\ FormOnly

FormOf(lines) == [l \in DOMAIN lines |->
  [action |-> lines[l].action, quantity |-> lines[l].quantity,
   exchange |-> IF lines[l].exchange = None THEN VariantOf[l] ELSE lines[l].exchange]]

\* createRequest's checks
Acceptable ==
  /\ \A r \in Numbers : ~Open(r)
  /\ \A l \in DOMAIN drafts : drafts[l].quantity <= Ordered[l] - Bound(l) /\ Swapped(l)

\* what the form counted on: nothing was filed since
FormCurrent == \A l \in DOMAIN drafts : Ordered[l] - Bound(l) >= eligible[l]

handleSubmit ==
  /\ At("confirm")
  /\ IF Acceptable
     THEN /\ filed < MaxReturns
          /\ \E w \in Workers : /\ Free(w) /\ Begin(w, File(way, FormOf(drafts)))
                                /\ sent' = w
          /\ UNCHANGED refused
     ELSE /\ refused' = refused \cup (IF FormCurrent /\ \A r \in Numbers : ~Open(r)
                                      THEN {<<"submit", "none">>} ELSE {})
          /\ UNCHANGED <<vars, sent>>
  /\ UNCHANGED <<formVars, staffVars, granted, summary, reported, clicks>>

-----------------------------------------------------------------------------
(* The page of a filed request                                             *)

NoForm ==
  /\ step' = 0 /\ eligible' = <<>> /\ drafts' = <<>> /\ way' = "courier_pickup"
  /\ siblings' = None /\ uploads' = {}

\* a request as it is now, in place of the form
ShowsSummary(r) == NoForm /\ summary' = [return |-> r, state |-> state[r]]

SummaryPage ==
  /\ sent = None /\ \E r \in 1..filed : ShowsSummary(r)
  /\ summary' # summary \/ step # 0
  /\ UNCHANGED <<vars, staffVars, sent, granted, reported, clicks, refused>>

submitCancel ==
  /\ step = 0 /\ sent = None
  /\ summary # None /\ summary.state \in CUSTOMER_CANCEL_ALLOWED
  /\ \/ \E w \in Workers : Free(w) /\ CancelReads(w, summary.return) /\ sent' = w /\ UNCHANGED refused
     \/ /\ state[summary.return] \notin CUSTOMER_CANCEL_ALLOWED
        /\ refused' = refused \cup (IF state[summary.return] = summary.state
                                    THEN {<<"customer", summary.state>>} ELSE {})
        /\ UNCHANGED <<vars, sent>>
  /\ UNCHANGED <<formVars, staffVars, granted, summary, reported, clicks>>

\* the answer to a call that succeeded shows the request, that to one that
\* failed, or that is lost, leaves the page as it is
CustomerAnswered ==
  /\ sent # None /\ doing[sent] = Idle /\ sent' = None /\ granted' = granted \ {sent}
  /\ \/ UNCHANGED <<formVars, summary>>
     \/ sent \in granted /\ ShowsSummary(IF step = 0 THEN summary.return ELSE filed)
  /\ UNCHANGED <<vars, staffVars, reported, clicks, refused>>

-----------------------------------------------------------------------------
(* The staff's page of a request                                           *)

RECEIVED_FROM == {"pickup_scheduled", "store_dropoff_pending", "in_transit"}

\* Mutant: a verified request may still be cancelled.
OffersLate(button, s) ==
  CASE button \in {"approve", "reject"} -> s = "requested"
    [] button = "received" -> s \in RECEIVED_FROM
    [] button = "verify" -> s = "received"
    [] button = "complete" -> s = "verified"
    [] button = "cancel" -> s \notin Closed

Offers(button, s) ==
  CASE button \in {"approve", "reject"} -> s = "requested"
    [] button = "received" -> s \in RECEIVED_FROM
    [] button = "verify" -> s = "received"
    [] button = "complete" -> s = "verified"
    [] button = "cancel" -> s \notin Closed \cup {"verified"}

Dialogs == {"approve", "reject", "received", "verify", "cancel"}
Leads == [approve |-> "approved", reject |-> "rejected", received |-> "received",
          verify |-> "verified", complete |-> "completed", cancel |-> "cancelled"]

\* restock what is not damaged, until staff decide otherwise
Proposed(r) == DOMAIN content[r] \ reported[r]

StaffOnly == UNCHANGED <<vars, formVars, sent, summary, reported, refused>>

OpenDialog(p) == \E button \in Dialogs :
  /\ shown[p] # None /\ waits[p] = None /\ dialog[p] = None /\ Offers(button, shown[p].state)
  /\ dialog' = [dialog EXCEPT ![p] = button]
  /\ decisions' = [decisions EXCEPT ![p] = IF button = "verify" THEN Proposed(shown[p].return) ELSE @]
  /\ replaced' = replaced \ {p}
  /\ UNCHANGED <<shown, waits, granted, noting, clicks>> /\ StaffOnly

CloseDialog(p) ==
  /\ dialog[p] # None /\ dialog' = [dialog EXCEPT ![p] = None]
  /\ UNCHANGED <<shown, decisions, waits, granted, noting, replaced, clicks>> /\ StaffOnly

VerifyDialog(p) ==
  /\ dialog[p] = "verify" /\ Click
  /\ \E l \in DOMAIN content[shown[p].return] :
       decisions' = [decisions EXCEPT ![p] = IF l \in @ THEN @ \ {l} ELSE @ \cup {l}]
  /\ UNCHANGED <<shown, dialog, waits, granted, noting, replaced>> /\ StaffOnly

\* the call a button makes of worker w
Asks(w, button, r, put) ==
  CASE button = "approve" -> ApproveReads(w, r)
    [] button = "received" -> ReceiveReads(w, r)
    [] button = "verify" -> VerifyReads(w, r) /\ doing'[w] = Verify(r, put)
    [] button = "complete" -> CompleteReads(w, r)
    [] button \in {"reject", "cancel"} -> EndReads(w, r, Leads[button])

Press(p, button) ==
  LET r == shown[p].return
  IN  /\ waits[p] = None
      /\ \/ \E w \in Workers : /\ Free(w) /\ Asks(w, button, r, decisions[p])
                               /\ waits' = [waits EXCEPT ![p] = w]
            /\ UNCHANGED refused
         \/ /\ ~canTransition(state[r], Leads[button])
            /\ refused' = refused \cup (IF state[r] = shown[p].state /\ Offers(button, state[r])
                                        THEN {<<button, state[r]>>} ELSE {})
            /\ UNCHANGED <<vars, waits>>
      /\ UNCHANGED <<formVars, sent, granted, summary, reported, clicks, shown, dialog, decisions, noting, replaced>>

ReturnDetail(p) ==
  /\ shown[p] # None
  /\ \/ dialog[p] # None /\ Press(p, dialog[p])
     \/ dialog[p] = None /\ Offers("complete", shown[p].state) /\ Press(p, "complete")

Rendered(p) == shown' = [shown EXCEPT ![p].state = state[shown[p].return]]

\* a call that succeeded closes the dialog and renders the page anew
StaffAnswered(p) ==
  /\ waits[p] # None /\ doing[waits[p]] = Idle
  /\ waits' = [waits EXCEPT ![p] = None] /\ granted' = granted \ {waits[p]}
  /\ \/ UNCHANGED <<shown, dialog>>
     \/ waits[p] \in granted /\ Rendered(p) /\ dialog' = [dialog EXCEPT ![p] = None]
  /\ UNCHANGED <<decisions, noting, replaced, clicks>> /\ StaffOnly

\* the note is saved beside everything else, and renders the page anew too
InternalNote(p) ==
  /\ shown[p] # None /\ p \notin noting /\ noting' = noting \cup {p} /\ Click
  /\ UNCHANGED <<shown, dialog, decisions, waits, granted, replaced>> /\ StaffOnly

NoteSaved(p) ==
  /\ p \in noting /\ noting' = noting \ {p}
  /\ \/ UNCHANGED <<shown, decisions, replaced>>
     \/ /\ Rendered(p)
        /\ decisions' = [decisions EXCEPT ![p] =
                           IF dialog[p] = "verify" THEN Proposed(shown[p].return) ELSE @]
        /\ replaced' = IF decisions' # decisions THEN replaced \cup {p} ELSE replaced
  /\ UNCHANGED <<dialog, waits, granted, clicks>> /\ StaffOnly

OpenPage(p) ==
  /\ waits[p] = None /\ p \notin noting
  /\ \E r \in 1..filed : shown' = [shown EXCEPT ![p] = [return |-> r, state |-> state[r]]]
  /\ shown' # shown /\ dialog' = [dialog EXCEPT ![p] = None]
  /\ UNCHANGED <<decisions, waits, granted, noting, replaced, clicks>> /\ StaffOnly

-----------------------------------------------------------------------------

\* a worker goes on with the call it was given
Serve(w) ==
  /\ doing[w] # Idle
  /\ \/ (Customer(w) \/ Staff(w)) /\ granted' = granted \cup {w}
     \/ Fails(w) /\ granted' = IF doing[w].op \in {"refund", "insertRefund"} THEN granted ELSE granted \ {w}
  /\ reported' = IF filed' = filed THEN reported
                 ELSE [reported EXCEPT ![filed'] = {l \in DOMAIN drafts : drafts[l].reason = "damaged"}]
  /\ UNCHANGED <<formVars, staffVars, sent, summary, clicks, refused>>

DeskInit ==
  /\ step = 0 /\ eligible = <<>> /\ drafts = <<>> /\ way = "courier_pickup"
  /\ siblings = None /\ uploads = {} /\ sent = None /\ summary = None
  /\ shown = [p \in Pages |-> None] /\ dialog = [p \in Pages |-> None]
  /\ decisions = [p \in Pages |-> {}] /\ waits = [p \in Pages |-> None] /\ granted = {}
  /\ noting = {} /\ reported = [r \in Numbers |-> {}] /\ clicks = 0
  /\ refused = {} /\ replaced = {}

ReturnFlow == \/ getEligibility \/ toggleItem \/ ItemsStep \/ ReasonStep \/ PhotoUploader
              \/ PhotoUploaded \/ ActionStep \/ ensureVariants \/ MethodStep \/ Turn \/ handleSubmit

DeskNext ==
  \/ ReturnFlow \/ SummaryPage \/ submitCancel \/ CustomerAnswered
  \/ \E p \in Pages : \/ OpenDialog(p) \/ CloseDialog(p) \/ VerifyDialog(p) \/ ReturnDetail(p)
                      \/ StaffAnswered(p) \/ InternalNote(p) \/ NoteSaved(p) \/ OpenPage(p)
  \/ \E w \in Workers : Serve(w)

DeskSpec == Init /\ DeskInit /\ [][DeskNext]_<<vars, deskVars>>

-----------------------------------------------------------------------------

\* A form that can be submitted is complete, whatever was picked, taken back
\* and uploaded late on the way there: every line reported as damaged has its
\* photo (only the form asks for it), an exchange its variant, and no line asks
\* for more than was offered.
ConfirmedComplete ==
  step = Len(STEPS) => \A l \in DOMAIN drafts :
    Pictured(l) /\ Swapped(l) /\ drafts[l].quantity <= eligible[l]

\* A page that is up to date offers nothing the service refuses: the tables of
\* the pages and of the service agree, but for a scheduled pickup that the page
\* offers to receive.
PressesWork == refused \subseteq {<<"received", "pickup_scheduled">>}

\* The same without exception: what the page offers, the service accepts.
EveryPressWorks == refused = {}

\* What staff decided in the dialog of a verification is what it sends.
DecisionsKept == \A p \in Pages : dialog[p] = "verify" => p \notin replaced
=============================================================================

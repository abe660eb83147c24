---------------------------- MODULE ProductEditor ----------------------------
(***************************************************************************)
(* The product editor: a draft saved by a debounce timer, by the save bar  *)
(* and by controls of their own, over server actions that run one after    *)
(* another and hand the page the product as the server has it afterwards.  *)
(***************************************************************************)
EXTENDS Naturals, FiniteSets, SequencesExt

CONSTANTS Values,    \* of the name (0 is "Untitled...") and of the category set
          Images, None,
          MaxEdits, MaxSaves, MaxLoads  \* bounds: what the operator does, and of it save clicks, reloads

Products == [name : Values, categoryIds : Values, images : SUBSET Images, isActive : BOOLEAN]

ASSUME EditorAssumption ==
    /\ 0 \in Values /\ MaxEdits \in Nat /\ MaxSaves \in Nat /\ MaxLoads \in Nat
    /\ None \notin Products \union [draft : Products, pristine : Products]

VARIABLES server,    \* the product's row
          pristine, draft, local,  \* what was last reconciled, the form, and its fields edited since
          armed,     \* the autosave timer runs (over the current draft)
          gen,       \* how many saves were clicked
          saving,    \* draft and pristine of the save that runs
          status, uploads,
          queue,     \* server actions and refreshes, run one at a time
          arriving,  \* the product of the last answer, on its way to the page
          edits, loads,
          typed,     \* history: what the operator last put in a field
          exposed,   \* history: fields put while a request that carries them was out
          unsure     \* history: fields sent in a request without an answer

editorVars == <<server, pristine, draft, local, armed, gen, saving, status, uploads, queue, arriving,
                edits, loads, typed, exposed, unsure>>

Fields == {"name", "categoryIds", "images", "isActive"}
Own == {"name", "images"}   \* of the product's PATCH: categories have a PUT, isActive its control

-----------------------------------------------------------------------------
(* What is compared, sent and reconciled *)

Only(fields, product) == [f \in fields |-> product[f]]
buildProductDiff(d, p) == Only({f \in Own : d[f] # p[f]}, d)
hasNonCategoryDiff(d, p) == DOMAIN buildProductDiff(d, p) # {}
dirtyForCategories(d, p) == d.categoryIds # p.categoryIds
dirty(d, p) == hasNonCategoryDiff(d, p) \/ dirtyForCategories(d, p)

mergeProductChanges(product, changes) ==
    [f \in DOMAIN product |-> IF f \in DOMAIN changes THEN changes[f] ELSE product[f]]

\* Mutant: the product as the server has it.
TakeAll(product, current, kept) == product

\* fields edited here are kept, the rest are the server's
Reconcile(product, current, kept) == mergeProductChanges(product, Only(kept, current))

\* Mutant: all changes wait with those of the categories.
CategoriesWait(d, p) == ~dirty(d, p) \/ dirtyForCategories(d, p)

NothingToPush(d, p) == ~dirty(d, p) \/ (dirtyForCategories(d, p) /\ ~hasNonCategoryDiff(d, p))

\* every commit of the draft or of pristine stops the timer and starts it anew
\* if there is something to push
Commit(d, p, otherwise) ==
    /\ draft' = d /\ pristine' = p
    /\ armed' = ~NothingToPush(d, p)
    /\ status' = IF armed' THEN "pending" ELSE otherwise

InFlight(f) == saving # None \/ \E i \in DOMAIN queue : f \in DOMAIN queue[i].changes
OnItsWay(f) == arriving # None /\ arriving[f] # pristine[f]

Request(kind, changes) == [kind |-> kind, changes |-> changes, gen |-> gen, previous |-> draft.isActive]
refresh == Request("refresh", <<>>)

-----------------------------------------------------------------------------
(* The operator *)

Put(f, v, mine) ==
    /\ local' = local \union {f}
    /\ Commit([draft EXCEPT ![f] = v], pristine, status)
    /\ typed' = [typed EXCEPT ![f] = mine]
    /\ exposed' = [exposed EXCEPT ![f] = InFlight(f) \/ OnItsWay(f) \/ f \in unsure \/ mine # v]
    /\ UNCHANGED <<server, gen, saving, queue, arriving, loads, unsure>>

Edit == edits < MaxEdits /\ edits' = edits + 1

patch(f) == /\ Edit /\ \E v \in Values \ {draft[f]} : Put(f, v, v)
            /\ UNCHANGED uploads
TextSection == patch("name")
CategoriesTab == patch("categoryIds")

remove == /\ Edit /\ \E i \in draft.images : Put("images", draft.images \ {i}, draft.images \ {i})
          /\ UNCHANGED uploads

\* a picked file is uploaded and then added to the images there were when it
\* was picked
handleFiles == \E i \in Images \ draft.images :
    /\ ~\E u \in uploads : u.image = i
    /\ Edit
    /\ uploads' = uploads \union {[image |-> i, sorted |-> draft.images]}
    /\ UNCHANGED <<server, pristine, draft, local, armed, gen, saving, status, queue, arriving, loads, typed, exposed, unsure>>

Uploaded == \E u \in uploads :
    /\ uploads' = uploads \ {u} /\ UNCHANGED edits
    /\ \/ Put("images", u.sorted \union {u.image}, typed.images \union {u.image})
       \/ UNCHANGED <<server, pristine, draft, local, armed, gen, saving, status, queue, arriving, loads, typed, exposed, unsure>>

\* the page shows the new publish state at once
Flip ==
    /\ ~\E i \in DOMAIN queue : queue[i].kind = "publish"
    /\ Edit
    /\ LET flip(product) == [product EXCEPT !.isActive = ~draft.isActive]
       IN  /\ Commit(flip(draft), flip(pristine), status)
           /\ queue' = queue \o <<refresh, Request("publish", [isActive |-> ~draft.isActive])>>
    /\ UNCHANGED <<server, local, gen, saving, uploads, arriving, loads, typed, exposed, unsure>>

\* the button needs a saved draft with a real name; the menu of the narrow
\* screen, beside unsaved changes too, needs nothing
PublishControl == ~dirty(draft, pristine) /\ (~draft.isActive => draft.name # 0) /\ Flip
MobileTopBar == Flip

handleSave ==
    /\ dirty(draft, pristine) /\ saving = None /\ gen < MaxSaves
    /\ gen' = gen + 1 /\ armed' = FALSE
    /\ saving' = [draft |-> draft, pristine |-> pristine] /\ status' = "saving"
    /\ queue' = Append(queue, IF hasNonCategoryDiff(draft, pristine)
                              THEN Request("save", buildProductDiff(draft, pristine))
                              ELSE Request("categories", Only({"categoryIds"}, draft)))
    /\ UNCHANGED <<server, pristine, draft, local, uploads, arriving, edits, loads, typed, exposed, unsure>>

handleDiscard ==
    /\ dirty(draft, pristine) /\ saving = None
    /\ Commit(pristine, pristine, "idle")
    /\ local' = {}
    /\ typed' = pristine
    /\ exposed' = [f \in Fields |-> exposed[f] \/ InFlight(f) \/ f \in unsure \/ OnItsWay(f)]
    /\ UNCHANGED <<server, gen, saving, uploads, queue, arriving, edits, loads, unsure>>

-----------------------------------------------------------------------------
(* The page's timer, and the answers *)

TimerFires ==
    /\ armed /\ armed' = FALSE
    /\ status' = "saving"
    /\ queue' = Append(queue, Request("auto", buildProductDiff(draft, pristine)))
    /\ UNCHANGED <<server, pristine, draft, local, gen, saving, uploads, arriving, edits, loads, typed, exposed, unsure>>

\* after the last request of a save: what was not typed since is the server's
Finish == /\ Commit(draft, saving.draft, "saved")
          /\ local' = {} /\ saving' = None
          /\ queue' = Append(Tail(queue), refresh)

Failed == /\ status' = "error" /\ saving' = None /\ queue' = Tail(queue)
          /\ UNCHANGED <<draft, pristine, armed, local>>

AutoAnswer(r, outcome) ==
    /\ r.kind = "auto" /\ queue' = Tail(queue) /\ UNCHANGED saving
    /\ CASE r.gen # gen -> UNCHANGED <<draft, pristine, armed, status, local>>
         [] r.gen = gen /\ outcome = "ok" ->
                /\ Commit(draft, mergeProductChanges(pristine, r.changes), "saved")
                /\ local' = local \ DOMAIN r.changes
         [] r.gen = gen /\ outcome # "ok" ->
                status' = "error" /\ UNCHANGED <<draft, pristine, armed, local>>

SaveAnswer(r, outcome) ==
    /\ r.kind \in {"save", "categories"}
    /\ \/ outcome # "ok" /\ Failed
       \/ /\ outcome = "ok" /\ r.kind = "save" /\ dirtyForCategories(saving.draft, saving.pristine)
          /\ queue' = Append(Tail(queue), Request("categories", Only({"categoryIds"}, saving.draft)))
          /\ UNCHANGED <<draft, pristine, armed, status, local, saving>>
       \/ /\ outcome = "ok" /\ (r.kind = "save" => ~dirtyForCategories(saving.draft, saving.pristine))
          /\ Finish

PublishAnswer(r, outcome) ==
    /\ r.kind = "publish" /\ UNCHANGED <<local, saving>>
    /\ IF outcome = "ok" THEN queue' = Tail(queue) /\ UNCHANGED <<draft, pristine, armed, status>>
       ELSE /\ Commit([draft EXCEPT !.isActive = r.previous], [pristine EXCEPT !.isActive = r.previous], status)
            /\ queue' = Append(Tail(queue), refresh)

RefreshAnswer(r, outcome) ==
    /\ r.kind = "refresh" /\ outcome = "ok" /\ queue' = Tail(queue)
    /\ UNCHANGED <<draft, pristine, armed, status, local, saving>>

\* the action ran, was refused, or ran and its answer was lost; a successful
\* one revalidates the page, which brings the product along
Answer(outcome) ==
    /\ queue # <<>>
    /\ LET r == Head(queue) IN
       /\ server' = IF outcome = "refused" THEN server ELSE mergeProductChanges(server, r.changes)
       /\ arriving' = IF outcome = "ok" THEN server' ELSE arriving
       /\ unsure' = IF outcome = "lost" THEN unsure \union DOMAIN r.changes ELSE unsure
       /\ exposed' = [f \in Fields |-> exposed[f] \/ f \in unsure' \ unsure]
       /\ AutoAnswer(r, outcome) \/ SaveAnswer(r, outcome) \/ PublishAnswer(r, outcome) \/ RefreshAnswer(r, outcome)
    /\ UNCHANGED <<gen, uploads, edits, loads, typed>>

Delivered ==
    /\ arriving # None /\ arriving' = None
    /\ Commit(Reconcile(arriving, draft, local), arriving, status)
    /\ UNCHANGED <<server, local, gen, saving, uploads, queue, edits, loads, typed, exposed, unsure>>

-----------------------------------------------------------------------------
(* Loading the page *)

\* the effects of the first render, in their order: the backup becomes the
\* draft, then the product is reconciled with no field edited yet
Mounted(product, backup) ==
    LET restored == IF backup # None 
                    THEN mergeProductChanges(product, Only(Own \union {"categoryIds"}, backup)) ELSE product
    IN  Reconcile(product, restored, {})

\* requests that were not sent are gone; the one that was may have been served
\* before the page is read, after it, or not at all
Reload ==
    /\ loads < MaxLoads /\ loads' = loads + 1 /\ Edit
    /\ LET sent == IF queue = <<>> THEN <<>> ELSE Head(queue).changes IN
       /\ server' \in {server, mergeProductChanges(server, sent)}
       /\ \E product \in {server, server'} :
             /\ pristine' = product
             /\ draft' = Mounted(product, IF dirty(draft, pristine) THEN draft ELSE None)
             /\ exposed' = [f \in Fields |-> exposed[f] \/ draft[f] # product[f] \/ f \in DOMAIN sent]
       /\ unsure' = unsure \union DOMAIN sent
    /\ local' = {} /\ armed' = FALSE /\ gen' = 0 /\ saving' = None /\ status' = "idle"
    /\ uploads' = {} /\ queue' = <<>> /\ arriving' = None
    /\ UNCHANGED typed

EditorInit(product) ==
    /\ server = product /\ pristine = product /\ draft = product /\ typed = product
    /\ local = {} /\ armed = FALSE /\ gen = 0 /\ saving = None /\ status = "idle"
    /\ uploads = {} /\ queue = <<>> /\ arriving = None /\ edits = 0 /\ loads = 0
    /\ exposed = [f \in Fields |-> FALSE] /\ unsure = {}

AnyAnswer == \E outcome \in {"ok", "refused", "lost"} : Answer(outcome)

EditorNext ==
    \/ TextSection \/ CategoriesTab \/ remove \/ handleFiles \/ Uploaded
    \/ PublishControl \/ MobileTopBar \/ handleSave \/ handleDiscard
    \/ TimerFires \/ AnyAnswer \/ Delivered \/ Reload

EditorSpec(product) == EditorInit(product) /\ [][EditorNext]_editorVars

-----------------------------------------------------------------------------

Quiet == queue = <<>> /\ arriving = None /\ saving = None

\* What the operator put in a field stays in the form, and once nothing is out
\* and the form shows the field as saved, the server has it; the publish state
\* shown is then the server's. Excepted are fields put or discarded while a
\* request that carries them was out or a product with another value was on
\* its way, images changed during an upload, lost answers, and work a reload
\* found unsaved.
WorkKept == /\ \A f \in Fields \ {"isActive"} : ~exposed[f] =>
                  /\ draft[f] = typed[f]
                  /\ Quiet /\ draft[f] = pristine[f] => server[f] = typed[f]
            /\ Quiet /\ ~exposed["isActive"] => draft.isActive = server.isActive

\* A change of the product's own fields is saved or reported, also beside an
\* unsaved change of the categories: the timer is armed again after every
\* answer and every product that arrives.
AutosaveSettles == hasNonCategoryDiff(draft, pristine) ~> (~hasNonCategoryDiff(draft, pristine) \/ status = "error")

\* "so a backgrounded tab -> reload doesn't lose work": a draft that differs
\* from what was saved is there again after a reload.
ReloadKeepsWork == [][loads' # loads /\ dirty(draft, pristine) => draft' = draft]_editorVars
=============================================================================

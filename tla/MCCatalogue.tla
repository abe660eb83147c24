---------------------------- MODULE MCCatalogue ----------------------------
(* The admin's catalogue for TLC: one part of it at a time, the scene, while *)
(* the others rest.                                                          *)
EXTENDS Categories, ProductEditor, Reviews, Assortment

CONSTANTS tee, cap, plain, gold, small, large
VARIABLE scene

vars == <<treeVars, editorVars, reviewVars, assortmentVars, scene>>

\* three categories and one to create, every forest with compact lists
Top == [c \in Cats |-> [parentId |-> Root, sortOrder |-> c - 1, state |-> IF c < 4 THEN "live" ELSE "new"]]
Below(parent, order) == [c \in Cats |-> IF c \in DOMAIN parent
                                        THEN [Top[c] EXCEPT !.parentId = parent[c], !.sortOrder = order[c]] ELSE Top[c]]
Forests == {Below(parent, order) : parent \in {<<Root, Root, Root>>, <<Root, 1, 1>>, <<Root, 1, 2>>, <<Root, 1, Root>>},
                                   order \in {<<0, 0, 0>>, <<0, 0, 1>>, <<0, 1, 0>>, <<2, 1, 0>>}}

Untitled == [name |-> 0, categoryIds |-> 0, images |-> {}, isActive |-> FALSE]
Pictured == [Untitled EXCEPT !.images = Images]

Rows(tees, caps) == <<[slug |-> tee, skus |-> {<<plain, s>> : s \in tees}], caps>>
MCWorkbooks == {Rows({small}, [slug |-> cap, skus |-> {<<plain, large>>}]),   \* two products
                Rows({small}, [slug |-> tee, skus |-> {<<plain, large>>}]),   \* one slug twice
                Rows({small}, [slug |-> cap, skus |-> {<<plain, small>>}])}   \* one SKU twice
OneTee == AssortmentInit([s \in Slugs |-> IF s = tee THEN [live |-> TRUE, row |-> Nothing] ELSE Nothing],
                         [s \in Skus |-> IF s = <<plain, small>> THEN Variant(tee, small) ELSE Nothing])

Init ==
    /\ scene \in {"categories", "editor", "images", "phone", "reviews", "assortment"}
    /\ IF scene = "categories" THEN \E forest \in Forests : CategoriesInit(forest) /\ Compact(getTree)
       ELSE CategoriesInit(Top)
    /\ EditorInit(IF scene = "images" THEN Pictured ELSE Untitled)
    /\ ReviewsInit /\ Cardinality({item \in Items : review[item] # Nil}) <= (IF scene = "reviews" THEN 1 ELSE 0)
    /\ OneTee

Editing == \/ scene = "editor" /\ (TextSection \/ CategoriesTab \/ PublishControl \/ Reload)
           \/ scene = "images" /\ (handleFiles \/ Uploaded \/ remove)
           \/ scene = "phone" /\ edits < MaxEdits - 1 /\ (TextSection \/ MobileTopBar)

Next ==
    \/ scene = "categories" /\ CategoriesNext /\ UNCHANGED <<editorVars, reviewVars, assortmentVars, scene>>
    \/ /\ scene \in {"editor", "images", "phone"}
       /\ Editing \/ handleSave \/ handleDiscard \/ TimerFires \/ AnyAnswer \/ Delivered
       /\ UNCHANGED <<treeVars, reviewVars, assortmentVars, scene>>
    \/ scene = "reviews" /\ ReviewsNext /\ UNCHANGED <<treeVars, editorVars, assortmentVars, scene>>
    \/ /\ scene = "assortment" /\ AssortmentNext
       /\ deletes' + Cardinality({s \in Skus : variant'[s] # Nothing /\ variant'[s].events}) <= MaxDeletes
       /\ UNCHANGED <<treeVars, editorVars, reviewVars, scene>>

Spec == /\ Init /\ [][Next]_vars
        /\ WF_vars(TimerFires /\ UNCHANGED <<treeVars, reviewVars, assortmentVars, scene>>)
        /\ WF_vars(AnyAnswer /\ UNCHANGED <<treeVars, reviewVars, assortmentVars, scene>>)
        /\ WF_vars(Delivered /\ UNCHANGED <<treeVars, reviewVars, assortmentVars, scene>>)
        /\ \A r \in Readers : WF_vars(Store(r) /\ UNCHANGED <<treeVars, editorVars, assortmentVars, scene>>)
        /\ \A m \in Moderators : WF_vars(Settle(m) /\ UNCHANGED <<treeVars, editorVars, assortmentVars, scene>>)
        /\ WF_vars(Expire /\ UNCHANGED <<treeVars, editorVars, assortmentVars, scene>>)
=============================================================================

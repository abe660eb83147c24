----------------------------- MODULE Categories -----------------------------
(***************************************************************************)
(* The category tree: admins drag, edit, create and delete on pages that   *)
(* show the tree as it was when they loaded; the service checks in one     *)
(* statement and writes in the next, and a reorder writes what the page    *)
(* computed without checking it against the rows.                          *)
(***************************************************************************)
EXTENDS Integers, FiniteSets, SequencesExt

CONSTANTS Cats,      \* ids, which also stand for the order of the names
          Root,      \* no parent
          Admins,
          MaxAsks    \* bound: how many requests the admins make

ASSUME CategoriesAssumption == Cats \subseteq Nat /\ IsFiniteSet(Cats) /\ Root \notin Cats /\ MaxAsks \in Nat

VARIABLES row,     \* rows: parent, sortOrder and state ("new", "live" or "deleted")
          view,    \* the tree each admin's page was given: live rows
          ask,     \* the request each admin waits for
          asks,    \* how many were made
          blind    \* history: a request was written, or a deletion let through, while the
                  \* parents were not those of its page

treeVars == <<row, view, ask, asks, blind>>

Live(rows) == {c \in Cats : rows[c].state = "live"}

Idle == [kind |-> "none"]

\* getTree: deleted rows are left out
TreeOf(rows) == [c \in Live(rows) |-> [parentId |-> rows[c].parentId, sortOrder |-> rows[c].sortOrder]]
getTree == TreeOf(row)

-----------------------------------------------------------------------------
(* The tree that a set of rows makes *)

\* a row whose parent is not there is shown at the top
buildTree(v) == [c \in DOMAIN v |-> IF v[c].parentId \in DOMAIN v THEN v[c].parentId ELSE Root]

\* c, its parent, the parent of that...
Path(v, c) ==
    LET up[i \in 0..Cardinality(DOMAIN v)] ==
            IF i = 0 THEN c ELSE IF up[i - 1] = Root THEN Root ELSE buildTree(v)[up[i - 1]]
    IN  {up[i] : i \in DOMAIN up}

\* rows on a cycle of parents hang below no root and are shown nowhere
flatten(v) == {c \in DOMAIN v : Root \in Path(v, c)}

isDescendant(v, c, below) == c \in Path(v, below)

\* by sortOrder and name: each row comes after as many as there are before it
Above(v, c, d) == v[c].sortOrder < v[d].sortOrder \/ (v[c].sortOrder = v[d].sortOrder /\ c < d)
Ordered(v, S) == [i \in 1..Cardinality(S) |-> CHOOSE c \in S : Cardinality({d \in S : Above(v, d, c)}) = i - 1]

Level(v, p) == {c \in flatten(v) : buildTree(v)[c] = p}
Children(v, p) == Ordered(v, Level(v, p))

\* where a category is in a list; 0 if it is not
Place(list, c) == SelectInSeq(list, LAMBDA x : x = c)

-----------------------------------------------------------------------------
(* What the page asks for *)

\* Mutant: counts the dragged node, which has left the list.
InsertAtShown(v, drop, list) ==
    LET siblings == Children(v, buildTree(v)[drop.target])
        at == IF drop.zone = "into" THEN Len(list) + 1
              ELSE Place(siblings, drop.target) + (IF drop.zone = "after" THEN 1 ELSE 0)
    IN  InsertAt(list, IF at > Len(list) + 1 THEN Len(list) + 1 ELSE at, drop.id)

\* where the dropped node goes among its new siblings, itself left out
Insert(v, drop, list) ==
    LET at == IF drop.zone = "into" THEN Len(list) + 1
              ELSE IF drop.zone = "before" THEN Place(list, drop.target)
              ELSE Place(list, drop.target) + 1
    IN  InsertAt(list, at, drop.id)

\* the sibling lists after the drop, renumbered by index; a node is sent when
\* its place in the lists changed
computeReorder(v, drop) ==
    LET into == IF drop.zone = "into" THEN drop.target ELSE buildTree(v)[drop.target]
        kept == {p \in flatten(v) : ~isDescendant(v, drop.id, p)} \union {Root}
        list(p) == LET left == Ordered(v, Level(v, p) \ {drop.id})
                   IN  IF p = into THEN Insert(v, drop, left) ELSE left
        placed == UNION {{[id |-> list(p)[i], parentId |-> p, sortOrder |-> i - 1] : i \in DOMAIN list(p)} : p \in kept}
        was(c) == [id |-> c, parentId |-> buildTree(v)[c],
                   sortOrder |-> Place(Children(v, buildTree(v)[c]), c) - 1]
    IN  {u \in placed : u.id = drop.id \/ u # was(u.id)}

\* three zones on every row but the dragged one and those below it
Drops(v) == {drop \in [id : flatten(v), target : flatten(v), zone : {"before", "into", "after"}] :
                 drop.target # drop.id /\ ~isDescendant(v, drop.id, drop.target)}

Ask(a, request) ==
    /\ ask[a] = Idle /\ asks < MaxAsks
    /\ ask' = [ask EXCEPT ![a] = request] /\ asks' = asks + 1
    /\ UNCHANGED <<row, view, blind>>

handleDragEnd(a) == \E drop \in Drops(view[a]) :
    Ask(a, [kind |-> "reorder", drop |-> drop, updates |-> computeReorder(view[a], drop)])

\* the form of a new category counts the siblings its page shows
Siblings(v, p) == Cardinality({c \in flatten(v) : v[c].parentId = p})
CreateSheet(a) == \E c \in Cats, p \in flatten(view[a]) \union {Root} :
    /\ row[c].state = "new"
    /\ Ask(a, [kind |-> "create", id |-> c, parentId |-> p, sortOrder |-> Siblings(view[a], p), checked |-> FALSE])

\* the parents the form of a category offers: not itself, none below it
ParentOptions(v, c) == {p \in flatten(v) : ~isDescendant(v, c, p)} \union {Root}
EditSheet(a) == \E c \in flatten(view[a]) : \E p \in ParentOptions(view[a], c) \union {view[a][c].parentId} :
    Ask(a, [kind |-> "update", id |-> c, parentId |-> p, sortOrder |-> view[a][c].sortOrder, checked |-> FALSE])

DeleteButton(a) == \E c \in flatten(view[a]) :
    Ask(a, [kind |-> "delete", id |-> c, checked |-> FALSE])

\* the page is rendered again, after an answer or because the admin comes back
Refresh(a) ==
    /\ ask[a] = Idle /\ view[a] # getTree
    /\ view' = [view EXCEPT ![a] = getTree]
    /\ UNCHANGED <<row, ask, asks, blind>>

-----------------------------------------------------------------------------
(* What the service does *)

ensureExists(c) == c \in Live(row)

\* Mutant: what has children may be deleted.
WithChildren(r) ==
    CASE r.kind = "create" -> r.parentId # Root => ensureExists(r.parentId)
      [] r.kind = "update" -> /\ ensureExists(r.id) /\ r.parentId # r.id
                              /\ r.parentId # Root => ensureExists(r.parentId)
      [] r.kind = "delete" -> ensureExists(r.id)

Allowed(r) ==
    CASE r.kind = "create" -> r.parentId # Root => ensureExists(r.parentId)
      [] r.kind = "update" -> /\ ensureExists(r.id) /\ r.parentId # r.id
                              /\ r.parentId # Root => ensureExists(r.parentId)
      [] r.kind = "delete" -> /\ ensureExists(r.id)
                              /\ ~\E c \in Live(row) : row[c].parentId = r.id

\* does a's page show every live category below the parent it has?
Parents(v) == {<<c, v[c].parentId>> : c \in DOMAIN v}
UpToDate(a) == Parents(view[a]) = Parents(getTree)

Check(a) ==
    /\ ask[a].kind \in {"create", "update", "delete"} /\ ~ask[a].checked
    /\ ask' = [ask EXCEPT ![a] = IF Allowed(ask[a]) THEN [ask[a] EXCEPT !.checked = TRUE] ELSE Idle]
    /\ blind' = (blind \/ (ask[a].kind = "delete" /\ Allowed(ask[a]) /\ ~UpToDate(a)))
    /\ UNCHANGED <<row, view, asks>>

Answered(a) == /\ ask' = [ask EXCEPT ![a] = Idle]
               /\ blind' = (blind \/ ~UpToDate(a))
               /\ UNCHANGED <<view, asks>>

\* the slug of a category that is being created may have been taken meanwhile
create(a) == LET r == ask[a] IN
    /\ r.kind = "create" /\ r.checked
    /\ row' = IF row[r.id].state # "new" THEN row
              ELSE [row EXCEPT ![r.id] = [parentId |-> r.parentId, sortOrder |-> r.sortOrder, state |-> "live"]]
    /\ Answered(a)

updateCategory(a) == LET r == ask[a] IN
    /\ r.kind = "update" /\ r.checked
    /\ row' = [row EXCEPT ![r.id].parentId = r.parentId, ![r.id].sortOrder = r.sortOrder]
    /\ Answered(a)

softDelete(a) == LET r == ask[a] IN
    /\ r.kind = "delete" /\ r.checked
    /\ row' = [row EXCEPT ![r.id].state = "deleted"]
    /\ Answered(a)

Written(updates) ==
    [c \in Cats |-> IF \E u \in updates : u.id = c
                    THEN LET u == CHOOSE u \in updates : u.id = c
                         IN  [row[c] EXCEPT !.parentId = u.parentId, !.sortOrder = u.sortOrder]
                    ELSE row[c]]

reorder(a) == LET r == ask[a] IN
    /\ r.kind = "reorder"
    /\ row' = IF \E u \in r.updates : u.parentId = u.id THEN row ELSE Written(r.updates)
    /\ Answered(a)

-----------------------------------------------------------------------------

CategoriesInit(rows) ==
    /\ row = rows
    /\ view = [a \in Admins |-> getTree]
    /\ ask = [a \in Admins |-> Idle] /\ asks = 0 /\ blind = FALSE

CategoriesNext == \E a \in Admins :
    \/ handleDragEnd(a) \/ CreateSheet(a) \/ EditSheet(a) \/ DeleteButton(a) \/ Refresh(a)
    \/ Check(a) \/ create(a) \/ updateCategory(a) \/ softDelete(a) \/ reorder(a)

CategoriesSpec(rows) == CategoriesInit(rows) /\ [][CategoriesNext]_treeVars

-----------------------------------------------------------------------------

\* every live category hangs, over live ones, below the top
Grown(rows) == /\ flatten(TreeOf(rows)) = Live(rows)
               /\ \A c \in Live(rows) : rows[c].parentId = Root \/ rows[rows[c].parentId].state = "live"

\* However admins drag, edit, create and delete, every live category is in the
\* tree and none hangs below a deleted one, as long as every request was
\* written onto the parents its page had shown, and every deletion looked for
\* children there: the orders may be stale, and the requests of two admins may
\* overlap. (The service checks neither: a page may only send what keeps the
\* tree a tree.)
TreeKept == blind \/ Grown(row)

\* What softDelete says of itself: a category that has children is not deleted.
\* It counts them in one statement and marks the category in the next, and what
\* another admin has put below it in between is left behind.
RefusesWithChildren ==
    [][\A c \in Cats : row[c].state = "live" /\ row'[c].state = "deleted"
          => \A child \in Live(row) : row[child].parentId # c]_treeVars

\* every sibling list is numbered from zero without a gap
Compact(v) == \A p \in flatten(v) \union {Root} : \A i \in DOMAIN Children(v, p) :
                  v[Children(v, p)[i]].sortOrder = i - 1

\* the dragged category is where it was dropped, and nothing else moved
Landed(drop, before, after) ==
    LET p == buildTree(after)[drop.id]
        list == Children(after, p)
        i == Place(list, drop.id)
    IN  /\ p = (IF drop.zone = "into" THEN drop.target ELSE buildTree(before)[drop.target])
        /\ CASE drop.zone = "into" -> i = Len(list)
             [] drop.zone = "before" -> i < Len(list) /\ list[i + 1] = drop.target
             [] drop.zone = "after" -> i > 1 /\ list[i - 1] = drop.target
        /\ \A q \in flatten(before) \union {Root} :
              Ordered(after, Level(after, q) \ {drop.id}) = Ordered(before, Level(before, q) \ {drop.id})

Reordered(a) == ask[a].kind = "reorder" /\ ask'[a] = Idle /\ view[a] = getTree

\* A drop on a page that is up to date, in a tree whose lists are numbered
\* without gaps, puts the category where it was dropped, leaves the order of
\* all others alone and leaves no gap behind: the page sends only the rows
\* whose index changed.
DropLands == [][\A a \in Admins : Reordered(a) /\ Compact(getTree)
                    => Landed(ask[a].drop, getTree, getTree') /\ Compact(getTree')]_treeVars

\* The same of every tree: the page computes what changed from the indices it
\* shows, and tree-view.tsx says that renumbering keeps sortOrder compact.
DropAlwaysLands == [][\A a \in Admins : Reordered(a) => Landed(ask[a].drop, getTree, getTree')]_treeVars
=============================================================================

----------------------------- MODULE Assortment -----------------------------
(***************************************************************************)
(* Products and their variants: a workbook imported row by row, each row   *)
(* deleting the product it replaces before it is checked; variants made    *)
(* from a matrix of sizes and colours; and bulk actions of the list, one   *)
(* product after another.                                                  *)
(***************************************************************************)
EXTENDS Naturals, FiniteSets, SequencesExt

CONSTANTS Slugs, SkuPrefixes, Pairs,  \* a SKU is a prefix with a size and colour
          Nothing, Matrices,          \* requests of the matrix dialog
          Workbooks,               \* rows of slug and variants
          MaxDeletes               \* bound: deletions outside of bulk actions

Skus == SkuPrefixes \X Pairs
WorkbookRows == [slug : Slugs, skus : SUBSET Skus]
ProductRows == [live : BOOLEAN, row : WorkbookRows \union {Nothing}]
VariantRows == [slug : Slugs, pair : Pairs, live : BOOLEAN, events : BOOLEAN]

\* the panel imports a workbook with at least one row
BulkActions == [left : Seq(Slugs), done : SUBSET Slugs, failed : SUBSET Slugs]

ASSUME AssortmentAssumption ==
    /\ IsFiniteSet(Slugs)
    /\ Nothing \notin Slugs \union ProductRows \union VariantRows
    /\ Nothing \notin BulkActions
    /\ Workbooks \subseteq Seq(WorkbookRows) \ {<<>>}
    /\ MaxDeletes \in Nat

VARIABLES product,   \* by slug: state, and the workbook row it came from
          variant,   \* by SKU: its product's slug, size and colour, state; SKUs are unique
          workbook,  \* the rows being imported, as parsed
          at, phase, \* the row the import is at, and how far with it
          results,   \* what it reports of each row
          matrix,    \* the dialogs' requests
          bulk,      \* the bulk action that runs: what is left, what failed
          deletes,
          crossed    \* history: two requests for variants of one product overlapped

assortmentVars == <<product, variant, workbook, at, phase, results, matrix, bulk, deletes, crossed>>

Of(slug) == {s \in Skus : variant[s] # Nothing /\ variant[s].slug = slug}
LiveOf(slug) == {s \in Of(slug) : variant[s].live}
LiveProduct(slug) == product[slug] # Nothing /\ product[slug].live

Imported(row) == [live |-> TRUE, row |-> row]
Variant(slug, pair) == [slug |-> slug, pair |-> pair, live |-> TRUE, events |-> FALSE]

AssortmentInit(products, variants) ==
    /\ product = products /\ variant = variants
    /\ workbook = <<>> /\ at = 0 /\ phase = "none" /\ results = <<>>
    /\ matrix = [m \in Matrices |-> Nothing]
    /\ bulk = Nothing /\ deletes = 0 /\ crossed = FALSE

-----------------------------------------------------------------------------
(* Importing a workbook *)

\* Mutant: a slug may come twice.
AnyRow(rows, i) == TRUE

\* a row whose slug came before is an error, like a SKU twice in one row; rows
\* with errors are not imported
ParseRow(rows, i) == ~\E j \in 1..(i - 1) : rows[j].slug = rows[i].slug

Parse(rows) ==
    LET kept[i \in 0..Len(rows)] == IF i = 0 THEN <<>>
                                    ELSE IF ParseRow(rows, i) THEN Append(kept[i - 1], rows[i])
                                    ELSE kept[i - 1]
    IN  kept[Len(rows)]

ImportPanel ==
    /\ workbook = <<>>
    /\ \E rows \in Workbooks : workbook' = Parse(rows)
    /\ at' = 1 /\ phase' = "clash"
    /\ UNCHANGED <<product, variant, results, matrix, bulk, deletes, crossed>>

Row == workbook[at]
Reported(ok) == /\ results' = Append(results, ok)
                /\ at' = at + 1
                /\ phase' = IF at = Len(workbook) THEN "done" ELSE "clash"

\* what holds the slug, deleted or not, is removed with its variants; the
\* database refuses when one of them has been sold or counted
ClashRemoved ==
    /\ phase = "clash"
    /\ IF \E s \in Of(Row.slug) : variant[s].events
       THEN Reported(FALSE) /\ UNCHANGED <<product, variant, matrix>>
       ELSE /\ product' = [product EXCEPT ![Row.slug] = Nothing]
            /\ variant' = [s \in Skus |-> IF s \in Of(Row.slug) THEN Nothing ELSE variant[s]]
            /\ matrix' = [m \in Matrices |-> IF matrix[m] # Nothing /\ matrix[m].slug = Row.slug
                                            THEN [matrix[m] EXCEPT !.gone = TRUE] ELSE matrix[m]]
            /\ phase' = "check"
            /\ UNCHANGED <<results, at>>
    /\ UNCHANGED <<workbook, bulk, deletes, crossed>>

\* then the row's SKUs are checked, and the product made in a transaction
Taken(skus) == \E s \in skus : variant[s] # Nothing
Checked ==
    /\ phase = "check"
    /\ IF Taken(Row.skus) THEN Reported(FALSE) ELSE phase' = "insert" /\ UNCHANGED <<results, at>>
    /\ UNCHANGED <<product, variant, workbook, matrix, bulk, deletes, crossed>>

Inserted ==
    /\ phase = "insert"
    /\ IF product[Row.slug] # Nothing \/ Taken(Row.skus) THEN Reported(FALSE) /\ UNCHANGED <<product, variant>>
       ELSE /\ product' = [product EXCEPT ![Row.slug] = Imported(Row)]
            /\ variant' = [s \in Skus |-> IF s \in Row.skus THEN Variant(Row.slug, s[2]) ELSE variant[s]]
            /\ Reported(TRUE)
    /\ UNCHANGED <<workbook, matrix, bulk, deletes, crossed>>

-----------------------------------------------------------------------------
(* The matrix dialog: its request is about the product it was made for, also *)
(* when an import has replaced that one *)

Busy(slug) == \E m \in Matrices : matrix[m] # Nothing /\ matrix[m].slug = slug

\* Mutant: only SKUs that are there are left out.
NewSkus(slug, pairs, prefix) == {<<prefix, p>> : p \in pairs} \ LiveOf(slug)

\* sizes and colours the product has already, live, are left out
Missing(slug, pairs, prefix) == {<<prefix, p>> : p \in {q \in pairs : ~\E s \in LiveOf(slug) : variant[s].pair = q}}

MatrixDialog(m) == \E slug \in Slugs, prefix \in SkuPrefixes, pairs \in SUBSET Pairs :
    /\ matrix[m] = Nothing /\ LiveProduct(slug) /\ pairs # {}
    /\ matrix' = [matrix EXCEPT ![m] = [slug |-> slug, skus |-> Missing(slug, pairs, prefix), checked |-> FALSE, gone |-> FALSE]]
    /\ crossed' = (crossed \/ Busy(slug))
    /\ UNCHANGED <<product, variant, workbook, at, phase, results, bulk, deletes>>

MatrixChecked(m) ==
    /\ matrix[m] # Nothing /\ ~matrix[m].checked
    /\ matrix' = [matrix EXCEPT ![m] = IF @.skus = {} \/ Taken(@.skus) THEN Nothing ELSE [@ EXCEPT !.checked = TRUE]]
    /\ UNCHANGED <<product, variant, workbook, at, phase, results, bulk, deletes, crossed>>

createMatrix(m) ==
    /\ matrix[m] # Nothing /\ matrix[m].checked
    /\ matrix' = [matrix EXCEPT ![m] = Nothing]
    /\ variant' = IF matrix[m].gone \/ Taken(matrix[m].skus) THEN variant
                  ELSE [s \in Skus |-> IF s \in matrix[m].skus THEN Variant(matrix[m].slug, s[2]) ELSE variant[s]]
    /\ UNCHANGED <<product, workbook, at, phase, results, bulk, deletes, crossed>>

-----------------------------------------------------------------------------
(* Deleting, one and many *)

Deleted(slug) ==
    /\ product' = [product EXCEPT ![slug].live = FALSE]
    /\ variant' = [s \in Skus |-> IF s \in Of(slug) THEN [variant[s] EXCEPT !.live = FALSE] ELSE variant[s]]

deleteProduct(slug) ==
    /\ deletes < MaxDeletes /\ deletes' = deletes + 1
    /\ LiveProduct(slug) /\ Deleted(slug)
    /\ UNCHANGED <<workbook, at, phase, results, matrix, bulk, crossed>>

deleteVariant(s) ==
    /\ deletes < MaxDeletes /\ deletes' = deletes + 1
    /\ variant[s] # Nothing /\ variant[s].live
    /\ variant' = [variant EXCEPT ![s].live = FALSE]
    /\ UNCHANGED <<product, workbook, at, phase, results, matrix, bulk, crossed>>

\* a sale or a stock count leaves an inventory event, which outlives deletion
Counted(s) ==
    /\ variant[s] # Nothing /\ variant[s].live /\ ~variant[s].events
    /\ variant' = [variant EXCEPT ![s].events = TRUE]
    /\ UNCHANGED <<product, workbook, at, phase, results, matrix, bulk, deletes, crossed>>

ProductsList ==
    /\ bulk = Nothing /\ bulk' = [left |-> SetToSeq({s \in Slugs : LiveProduct(s)}), done |-> {}, failed |-> {}]
    /\ bulk'.left # <<>>
    /\ UNCHANGED <<product, variant, workbook, at, phase, results, matrix, deletes, crossed>>

\* a product that cannot be deleted is counted, and the next one follows
bulkDeleteAction ==
    /\ bulk # Nothing /\ bulk.left # <<>>
    /\ LET slug == Head(bulk.left) IN
       IF LiveProduct(slug)
       THEN Deleted(slug) /\ bulk' = [bulk EXCEPT !.left = Tail(@), !.done = @ \union {slug}]
       ELSE bulk' = [bulk EXCEPT !.left = Tail(@), !.failed = @ \union {slug}] /\ UNCHANGED <<product, variant>>
    /\ UNCHANGED <<workbook, at, phase, results, matrix, deletes, crossed>>

AssortmentNext ==
    \/ ImportPanel \/ ClashRemoved \/ Checked \/ Inserted
    \/ \E m \in Matrices : MatrixDialog(m) \/ MatrixChecked(m) \/ createMatrix(m)
    \/ \E slug \in Slugs : deleteProduct(slug)
    \/ \E s \in Skus : deleteVariant(s) \/ Counted(s)
    \/ ProductsList \/ bulkDeleteAction

\* the catalogue before: variants are of products there are
Stocked(products, variants) ==
    /\ products \in [Slugs -> ProductRows \union {Nothing}]
    /\ variants \in [Skus -> VariantRows \union {Nothing}]
    /\ \A s \in Skus : variants[s] # Nothing => products[variants[s].slug] # Nothing

AssortmentSpec(products, variants) ==
    AssortmentInit(products, variants) /\ [][AssortmentNext]_assortmentVars

-----------------------------------------------------------------------------

\* Every row an import reports as created is there when the import ends, as
\* that row had it, unless an admin deleted something meanwhile: no later row
\* of the workbook replaces it.
CreatedRowsStay == phase = "done" /\ deletes = 0 /\ bulk = Nothing =>
    \A i \in DOMAIN results : results[i] =>
        /\ LiveProduct(workbook[i].slug) /\ product[workbook[i].slug].row = workbook[i]
        /\ workbook[i].skus \subseteq LiveOf(workbook[i].slug)

\* No product has two live variants of one size and colour, however often the
\* matrix is generated and with whichever prefix, unless two of its requests
\* overlapped: the database knows nothing of sizes and colours. (A workbook row
\* that names a size and colour twice is imported so; the instances have none.)
PairsUnique == crossed \/ \A s, t \in Skus :
    variant[s] # Nothing /\ variant[t] # Nothing /\ s # t /\ variant[s].live /\ variant[t].live
        => ~(variant[s].slug = variant[t].slug /\ variant[s].pair = variant[t].pair)
=============================================================================

--------------------------- MODULE CatalogueProofs ---------------------------
(***************************************************************************)
(* Theorems about the catalogue: the count of approved reviews that the    *)
(* product page serves, what imports and dialogs do to products and        *)
(* variants, the work of the operator in the product editor, what the      *)
(* promotions take from a cart, and the tree of categories.                *)
(***************************************************************************)
EXTENDS Reviews, Assortment, ProductEditor, Promotions, Categories, FiniteLaws, SequenceTheorems

-----------------------------------------------------------------------------
(* Reviews.                                                                *)

AggregateType == [counts : SUBSET Items, overtaken : BOOLEAN, expired : BOOLEAN]
CountType == [counts : SUBSET Items, overtaken : BOOLEAN]

ReviewsType ==
  /\ review \in [Items -> {Nil, "pending", "approved", "rejected"}]
  /\ cache = Nil \/ cache \in AggregateType
  /\ fill \in [Readers -> CountType \union {Nil}]
  /\ DOMAIN decision = Moderators

\* What a reader has counted and no moderation has overtaken is the truth.
CountsCurrent ==
  \A r \in Readers : fill[r] = Nil \/ fill[r].overtaken \/ fill[r].counts = Approved

\* So is what the cache holds, or the moderator who made it wrong has yet to
\* empty it.
CacheAnswered ==
  \/ cache = Nil \/ cache.overtaken \/ cache.counts = Approved
  \/ \E m \in Moderators : decision[m] # Nil

ReviewsInv == ReviewsType /\ CountsCurrent /\ CacheAnswered

LEMMA ReviewsInductive ==
  ASSUME ReviewsInv, [ReviewsNext]_reviewVars
  PROVE  ReviewsInv'
PROOF
<1>. USE DEF ReviewsInv
<1>1. ASSUME NEW r \in Readers, getAggregate(r) PROVE ReviewsInv'
  <2>1. Approved \in SUBSET Items /\ Approved' = Approved
    BY <1>1 DEF getAggregate, Approved
  <2>2. PICK count : count = [counts |-> Approved, overtaken |-> FALSE]
    OBVIOUS
  <2>3. count \in CountType /\ count.counts = Approved
    BY <2>1, <2>2 DEF CountType
  <2>4. fill' = [fill EXCEPT ![r] = count]
    BY <1>1, <2>2 DEF getAggregate
  <2>5. review' = review /\ cache' = cache /\ decision' = decision
    BY <1>1 DEF getAggregate
  <2>. QED
    BY <2>1, <2>3, <2>4, <2>5 DEF ReviewsType, CountsCurrent, CacheAnswered
<1>2. ASSUME NEW r \in Readers, Store(r) PROVE ReviewsInv'
  <2>1. Approved' = Approved /\ review' = review /\ decision' = decision /\ fill[r] # Nil
        /\ fill' = [fill EXCEPT ![r] = Nil]
    BY <1>2 DEF Store, Approved
  <2>2. fill[r] \in CountType
    BY <2>1 DEF ReviewsType
  <2>3. cache' = [counts |-> fill[r].counts, overtaken |-> fill[r].overtaken, expired |-> FALSE]
    BY <1>2 DEF Store
  <2>4. cache' \in AggregateType /\ cache'.counts = fill[r].counts
        /\ cache'.overtaken = fill[r].overtaken
    BY <2>2, <2>3 DEF CountType, AggregateType
  <2>. QED
    BY <2>1, <2>4 DEF ReviewsType, CountsCurrent, CacheAnswered
<1>3. ASSUME NEW c \in Customers, submitReview(c) PROVE ReviewsInv'
  <2>1. Approved' = Approved /\ review' = review /\ decision' = decision /\ fill' = fill /\ cache' = cache
    BY <1>3 DEF submitReview, Approved
  <2>. QED
    BY <2>1 DEF ReviewsType, CountsCurrent, CacheAnswered
<1>4. ASSUME NEW c \in Customers, createReview(c) PROVE ReviewsInv'
  <2>1. Approved' = Approved
    <3>1. review' = review \/ (review[post[c]] = Nil
                                /\ review' = [review EXCEPT ![post[c]] = "pending"])
      BY <1>4 DEF createReview
    <3>2. \A i \in Items : review'[i] = "approved" <=> review[i] = "approved"
      BY <3>1, ReviewsAssumption DEF ReviewsType
    <3>. QED
      BY <3>2 DEF Approved
  <2>2. decision' = decision /\ fill' = fill /\ (cache' = cache \/ cache' = Nil)
    BY <1>4 DEF createReview, invalidateAggregate
  <2>3. review' \in [Items -> {Nil, "pending", "approved", "rejected"}]
    BY <1>4 DEF createReview, ReviewsType
  <2>. QED
    BY <2>1, <2>2, <2>3 DEF ReviewsType, CountsCurrent, CacheAnswered
<1>5. ASSUME NEW m \in Moderators, NEW i \in Items, NEW s \in {"approved", "rejected"},
               Decide(m, i, s)
        PROVE  ReviewsInv'
  <2>0. review' \in [Items -> {Nil, "pending", "approved", "rejected"}]
    BY <1>5 DEF Decide, ReviewsType
  <2>1. cache' = cache /\ DOMAIN decision' = Moderators /\ decision'[m] # Nil
    BY <1>5, ReviewsAssumption DEF Decide, ReviewsType
  <2>2. fill' \in [Readers -> CountType \union {Nil}]
        /\ \A r \in Readers : fill'[r] = Nil \/ fill'[r].overtaken
    <3>1. fill' = [r \in Readers |-> IF fill[r] = Nil THEN Nil
                                     ELSE [fill[r] EXCEPT !.overtaken = TRUE]]
      BY <1>5 DEF Decide, Overtake
    <3>2. ASSUME NEW r \in Readers, fill[r] # Nil
          PROVE  [fill[r] EXCEPT !.overtaken = TRUE] \in CountType
                 /\ [fill[r] EXCEPT !.overtaken = TRUE].overtaken
      <4>1. fill[r] \in CountType
        BY <3>2 DEF ReviewsType
      <4>. QED
        BY <4>1 DEF CountType
    <3>. QED
      BY <3>1, <3>2
  <2>. QED
    BY <2>0, <2>1, <2>2 DEF ReviewsType, CountsCurrent, CacheAnswered
<1>6. ASSUME NEW m \in Moderators, Settle(m) PROVE ReviewsInv'
  <2>1. Approved' = Approved /\ review' = review /\ fill' = fill /\ cache' = Nil /\ DOMAIN decision' = Moderators
    BY <1>6 DEF Settle, Forget, invalidateAggregate, Approved, ReviewsType
  <2>. QED
    BY <2>1 DEF ReviewsType, CountsCurrent, CacheAnswered
<1>7. ASSUME NEW m \in Moderators, OpenList(m) PROVE ReviewsInv'
  <2>1. Approved' = Approved /\ review' = review /\ decision' = decision /\ fill' = fill /\ cache' = cache
    BY <1>7 DEF OpenList, Approved
  <2>. QED
    BY <2>1 DEF ReviewsType, CountsCurrent, CacheAnswered
<1>8. ASSUME Expire PROVE ReviewsInv'
  <2>1. Approved' = Approved /\ review' = review /\ decision' = decision /\ fill' = fill
        /\ cache \in AggregateType /\ cache # Nil
    BY <1>8 DEF Expire, Approved, ReviewsType
  <2>2. cache' = [cache EXCEPT !.expired = TRUE]
    BY <1>8 DEF Expire
  <2>3. cache' \in AggregateType /\ cache'.counts = cache.counts
        /\ cache'.overtaken = cache.overtaken
    BY <2>1, <2>2 DEF AggregateType
  <2>. QED
    BY <2>1, <2>3 DEF ReviewsType, CountsCurrent, CacheAnswered
<1>9. ASSUME UNCHANGED reviewVars PROVE ReviewsInv'
  <2>1. Approved' = Approved /\ review' = review /\ decision' = decision /\ fill' = fill /\ cache' = cache
    BY <1>9 DEF reviewVars, Approved
  <2>. QED
    BY <2>1 DEF ReviewsType, CountsCurrent, CacheAnswered
<1>. HIDE DEF ReviewsInv
<1>. QED
  BY <1>1, <1>2, <1>3, <1>4, <1>5, <1>6, <1>7, <1>8, <1>9
  DEF ReviewsNext, approve, reject

\* The product page serves the approved reviews: a count the cache holds is
\* exact unless a moderation overtook it or has yet to empty the cache
\* (getAggregate, approve, reject and invalidateAggregate of the reviews service).
THEOREM PageCountsApproved == ReviewsSpec => []CountsExact
PROOF
<1>1. ASSUME ReviewsInit PROVE ReviewsInv
  BY <1>1 DEF ReviewsInit, ReviewsInv, ReviewsType, CountsCurrent, CacheAnswered
<1>2. ASSUME ReviewsInv PROVE CountsExact
  BY <1>2 DEF ReviewsInv, CacheAnswered, CountsExact, Fresh
<1>. QED
  BY <1>1, <1>2, ReviewsInductive, PTL DEF ReviewsSpec

-----------------------------------------------------------------------------
(* Products and variants.                                                  *)

MatrixRequests == [slug : Slugs, skus : SUBSET Skus, checked : BOOLEAN, gone : BOOLEAN]

AssortmentType ==
  /\ product \in [Slugs -> ProductRows \union {Nothing}]
  /\ variant \in [Skus -> VariantRows \union {Nothing}]
  /\ matrix \in [Matrices -> MatrixRequests \union {Nothing}]
  /\ bulk \in BulkActions \union {Nothing}
  /\ workbook \in Seq(WorkbookRows) /\ results \in Seq(BOOLEAN) /\ deletes \in Nat

\* The import reports the rows one after the other.
ImportInOrder ==
  \/ phase = "none" /\ workbook = <<>> /\ results = <<>>
  \/ phase \in {"clash", "check", "insert"} /\ at \in 1..Len(workbook) /\ Len(results) = at - 1
  \/ phase = "done" /\ workbook # <<>> /\ Len(results) = Len(workbook)

\* A size and colour at most once among some SKUs.
Distinct(skus) == \A s, t \in skus : s[2] = t[2] => s = t

RowsApart == \A i, j \in DOMAIN workbook : workbook[i].slug = workbook[j].slug => i = j
RowsDistinct == \A i \in DOMAIN workbook : Distinct(workbook[i].skus)

\* What is about a product that was removed has gone with it.
Whole(slug) == product[slug] = Nothing =>
  /\ \A s \in Skus : variant[s] # Nothing => variant[s].slug # slug
  /\ \A m \in Matrices : matrix[m] # Nothing /\ matrix[m].slug = slug => matrix[m].gone

Apart(m) == \A n \in Matrices : matrix[n] # Nothing /\ matrix[n].slug = matrix[m].slug => m = n
Clear(m) == matrix[m].gone \/ \A s \in matrix[m].skus, t \in Skus :
  variant[t] # Nothing /\ variant[t].slug = matrix[m].slug /\ variant[t].live => variant[t].pair # s[2]

\* A dialog's request, when it is the only one about its product, still misses
\* the sizes and colours it is about to create.
DialogsMiss ==
  \A m \in Matrices : matrix[m] # Nothing =>
    Distinct(matrix[m].skus) /\ (crossed \/ (Apart(m) /\ Clear(m)))

PairsInv == AssortmentType /\ ImportInOrder /\ RowsDistinct
            /\ (\A slug \in Slugs : Whole(slug)) /\ DialogsMiss /\ PairsUnique

\* A row that was created is there as the workbook had it.
There(new) ==
  /\ product[new.slug] # Nothing /\ product[new.slug].live /\ product[new.slug].row = new
  /\ \A s \in new.skus : variant[s] # Nothing /\ variant[s].slug = new.slug /\ variant[s].live

RowsThere == deletes = 0 /\ bulk = Nothing =>
  \A i \in DOMAIN results : results[i] => There(workbook[i])

RowsInv == AssortmentType /\ ImportInOrder /\ RowsApart /\ RowsThere

Entry(rows, i, before) == IF ParseRow(rows, i) THEN Append(before, rows[i]) ELSE before
Survivors(rows, n, g) == g = [i \in 0..n |-> IF i = 0 THEN <<>> ELSE Entry(rows, i, g[i - 1])]

\* The rows that are kept up to each row of a workbook.
LEMMA SurvivorsExist ==
  ASSUME NEW rows, NEW n \in Nat
  PROVE  \E g : Survivors(rows, n, g)
PROOF
<1>. DEFINE Good == {k \in 0..n : \E g : Survivors(rows, k, g)}
<1>1. 0 \in Good
  <2>. DEFINE g == [i \in 0..0 |-> <<>>]
  <2>1. Survivors(rows, 0, g)
    BY DEF Survivors
  <2>. QED
    BY <2>1
<1>2. ASSUME NEW k \in 1..n, k - 1 \in Good PROVE k \in Good
  <2>1. PICK g : Survivors(rows, k - 1, g)
    BY <1>2
  <2>. DEFINE h == [i \in 0..k |-> IF i = k THEN Entry(rows, k, g[k - 1]) ELSE g[i]]
  <2>2. \A i \in 0..(k - 1) : g[i] = IF i = 0 THEN <<>> ELSE Entry(rows, i, g[i - 1])
    BY <2>1 DEF Survivors
  <2>3. \A i \in 0..k : h[i] = IF i = 0 THEN <<>> ELSE Entry(rows, i, h[i - 1])
    <3>1. ASSUME NEW i \in 1..k PROVE i - 1 \in 0..(k - 1) /\ h[i - 1] = g[i - 1]
      OBVIOUS
    <3>2. \A i \in 0..k : i = 0 \/ i = k \/ i \in 1..(k - 1)
      OBVIOUS
    <3>3. h[0] = <<>>
      BY <2>2
    <3>4. h[k] = Entry(rows, k, h[k - 1])
      BY <3>1
    <3>5. ASSUME NEW i \in 1..(k - 1) PROVE h[i] = Entry(rows, i, h[i - 1])
      BY <2>2, <3>1
    <3>. QED
      BY <3>2, <3>3, <3>4, <3>5
  <2>4. Survivors(rows, k, h)
    <3>1. h = [i \in 0..k |-> h[i]]
      OBVIOUS
    <3>. HIDE DEF h
    <3>. QED
      BY <2>3, <3>1 DEF Survivors
  <2>. QED
    BY <2>4
<1>3. Good = 0..n
  <2>1. Good \in SUBSET (0..n)
    OBVIOUS
  <2>. HIDE DEF Good
  <2>. QED
    BY <1>1, <1>2, <2>1, Stepwise
<1>. QED
  BY <1>3

\* A parsed workbook has some of the rows, no two of one slug.
LEMMA Parsed ==
  ASSUME NEW rows \in Seq(WorkbookRows), rows # <<>>
  PROVE  /\ Parse(rows) \in Seq(WorkbookRows) /\ Parse(rows) # <<>>
         /\ \A j \in DOMAIN Parse(rows) : \E i \in DOMAIN rows : Parse(rows)[j] = rows[i]
         /\ \A j, k \in DOMAIN Parse(rows) : Parse(rows)[j].slug = Parse(rows)[k].slug => j = k
PROOF
<1>. DEFINE n == Len(rows)
            F == CHOOSE g : Survivors(rows, n, g)
<1>1. n \in Nat /\ n # 0
  OBVIOUS
<1>2. Parse(rows) = F[n]
  BY DEF Parse, Survivors, Entry
<1>3. Survivors(rows, n, F)
  BY <1>1, SurvivorsExist
<1>4. F[0] = <<>> /\ \A i \in 1..n : F[i] = Entry(rows, i, F[i - 1])
  <2>. HIDE DEF F
  <2>1. \A i \in 0..n : F[i] = IF i = 0 THEN <<>> ELSE Entry(rows, i, F[i - 1])
    BY <1>3 DEF Survivors
  <2>. QED
    BY <1>1, <2>1
<1>. DEFINE Fine(i) ==
       /\ F[i] \in Seq(WorkbookRows) /\ (i # 0 => F[i] # <<>>)
       /\ \A j \in DOMAIN F[i] : \E k \in 1..i : F[i][j] = rows[k]
       /\ \A j, k \in DOMAIN F[i] : F[i][j].slug = F[i][k].slug => j = k
<1>. HIDE DEF F
<1>. DEFINE Good == {i \in 0..n : Fine(i)}
<1>5. 0 \in Good
  <2>1. 0 \in 0..n /\ <<>> \in Seq(WorkbookRows) /\ DOMAIN <<>> = {}
    BY <1>1
  <2>. QED
    BY <1>4, <2>1
<1>6. ASSUME NEW i \in 1..n, i - 1 \in Good PROVE i \in Good
  <2>1. Fine(i - 1)
    BY <1>6
  <2>2. PICK old \in Seq(WorkbookRows) : old = F[i - 1]
    BY <2>1
  <2>3. rows[i] \in WorkbookRows /\ F[i] = Entry(rows, i, old)
    BY <1>4, <2>2
  <2>4. /\ i - 1 # 0 => old # <<>>
        /\ \A j \in DOMAIN old : \E k \in 1..(i - 1) : old[j] = rows[k]
        /\ \A j, k \in DOMAIN old : old[j].slug = old[k].slug => j = k
    BY <2>1, <2>2
  <2>5. CASE ParseRow(rows, i)
    <3>1. F[i] = Append(old, rows[i])
      BY <2>3, <2>5 DEF Entry
    <3>2. \A j \in DOMAIN old : old[j].slug # rows[i].slug
      BY <2>4, <2>5 DEF ParseRow
    <3>3. /\ Append(old, rows[i]) \in Seq(WorkbookRows) /\ Append(old, rows[i]) # <<>>
          /\ \A j \in DOMAIN Append(old, rows[i]) :
               \/ j \in DOMAIN old /\ Append(old, rows[i])[j] = old[j]
               \/ j = Len(old) + 1 /\ Append(old, rows[i])[j] = rows[i]
      BY <2>3
    <3>4. Fine(i)
      <4>1. \A j \in DOMAIN F[i] : \E k \in 1..i : F[i][j] = rows[k]
        <5>1. i \in 1..i /\ \A k \in 1..(i - 1) : k \in 1..i
          OBVIOUS
        <5>2. ASSUME NEW j \in DOMAIN old PROVE \E k \in 1..i : old[j] = rows[k]
          BY <2>4, <5>1
        <5>. QED
          BY <3>1, <3>3, <5>1, <5>2
      <4>2. \A j, k \in DOMAIN F[i] : F[i][j].slug = F[i][k].slug => j = k
        BY <3>1, <3>2, <3>3, <2>4
      <4>. QED
        BY <3>1, <3>3, <4>1, <4>2
    <3>. HIDE DEF Fine
    <3>. QED
      BY <3>4
  <2>6. CASE ~ParseRow(rows, i)
    <3>1. F[i] = old
      BY <2>3, <2>6 DEF Entry
    <3>2. i # 1
      BY <2>6 DEF ParseRow
    <3>3. Fine(i)
      BY <3>1, <3>2, <2>4
    <3>. HIDE DEF Fine
    <3>. QED
      BY <3>3
  <2>. QED
    BY <2>5, <2>6
<1>7. Good = 0..n
  <2>1. Good \in SUBSET (0..n)
    OBVIOUS
  <2>. HIDE DEF Good
  <2>. QED
    BY <1>1, <1>5, <1>6, <2>1, Stepwise
<1>8. Fine(n)
  BY <1>1, <1>7
<1>. QED
  BY <1>1, <1>2, <1>8

Importing == phase \in {"clash", "check", "insert"}

\* The row the import is at.
LEMMA RowFound ==
  ASSUME AssortmentType, ImportInOrder, Importing
  PROVE  /\ at \in DOMAIN workbook /\ Row = workbook[at] /\ Row \in WorkbookRows
         /\ Row.slug \in Slugs /\ Row.skus \subseteq Skus
         /\ at \in 1..Len(workbook) /\ Len(results) = at - 1
PROOF
<1>1. at \in DOMAIN workbook /\ at \in 1..Len(workbook) /\ Len(results) = at - 1
  BY DEF AssortmentType, ImportInOrder, Importing
<1>2. workbook[at] \in WorkbookRows
  BY <1>1 DEF AssortmentType
<1>. QED
  BY <1>1, <1>2 DEF Row, WorkbookRows

\* A report moves the import to the next row or ends it.
LEMMA ReportKeepsOrder ==
  ASSUME AssortmentType, ImportInOrder, Importing, NEW ok \in BOOLEAN, Reported(ok),
         workbook' = workbook
  PROVE  ImportInOrder' /\ results' \in Seq(BOOLEAN)
PROOF
<1>1. at \in 1..Len(workbook) /\ Len(results) = at - 1
  BY RowFound
<1>2. results' = Append(results, ok) /\ at' = at + 1
      /\ phase' = IF at = Len(workbook) THEN "done" ELSE "clash"
  BY DEF Reported
<1>3. results' \in Seq(BOOLEAN) /\ Len(results') = at /\ workbook # <<>>
      /\ Len(workbook) \in Nat
  BY <1>1, <1>2 DEF AssortmentType
<1>4. CASE at = Len(workbook)
  BY <1>2, <1>3, <1>4 DEF ImportInOrder
<1>5. CASE at # Len(workbook)
  <2>1. at' \in 1..Len(workbook') /\ Len(results') = at' - 1 /\ phase' = "clash"
    BY <1>1, <1>2, <1>3, <1>5
  <2>. QED
    BY <1>3, <2>1 DEF ImportInOrder
<1>. QED
  BY <1>4, <1>5

\* Fields of the rows and requests that change keep their types.
LEMMA FieldsChange ==
  /\ \A r \in MatrixRequests :
       /\ [r EXCEPT !.gone = TRUE] \in MatrixRequests
       /\ [r EXCEPT !.gone = TRUE].gone
       /\ [r EXCEPT !.gone = TRUE].slug = r.slug /\ [r EXCEPT !.gone = TRUE].skus = r.skus
       /\ [r EXCEPT !.checked = TRUE] \in MatrixRequests
       /\ [r EXCEPT !.checked = TRUE].gone = r.gone
       /\ [r EXCEPT !.checked = TRUE].slug = r.slug /\ [r EXCEPT !.checked = TRUE].skus = r.skus
  /\ \A r \in VariantRows :
       /\ [r EXCEPT !.live = FALSE] \in VariantRows
       /\ ~[r EXCEPT !.live = FALSE].live
       /\ [r EXCEPT !.live = FALSE].slug = r.slug /\ [r EXCEPT !.live = FALSE].pair = r.pair
       /\ [r EXCEPT !.events = TRUE] \in VariantRows
       /\ [r EXCEPT !.events = TRUE].live = r.live
       /\ [r EXCEPT !.events = TRUE].slug = r.slug /\ [r EXCEPT !.events = TRUE].pair = r.pair
  /\ \A r \in ProductRows :
       [r EXCEPT !.live = FALSE] \in ProductRows /\ [r EXCEPT !.live = FALSE].row = r.row
PROOF
<1>1. ASSUME NEW r \in MatrixRequests
      PROVE  /\ [r EXCEPT !.gone = TRUE] \in MatrixRequests
             /\ [r EXCEPT !.gone = TRUE].gone
             /\ [r EXCEPT !.gone = TRUE].slug = r.slug /\ [r EXCEPT !.gone = TRUE].skus = r.skus
             /\ [r EXCEPT !.checked = TRUE] \in MatrixRequests
             /\ [r EXCEPT !.checked = TRUE].gone = r.gone
             /\ [r EXCEPT !.checked = TRUE].slug = r.slug
             /\ [r EXCEPT !.checked = TRUE].skus = r.skus
  BY DEF MatrixRequests
<1>2. ASSUME NEW r \in VariantRows
      PROVE  /\ [r EXCEPT !.live = FALSE] \in VariantRows
             /\ ~[r EXCEPT !.live = FALSE].live
             /\ [r EXCEPT !.live = FALSE].slug = r.slug /\ [r EXCEPT !.live = FALSE].pair = r.pair
             /\ [r EXCEPT !.events = TRUE] \in VariantRows
             /\ [r EXCEPT !.events = TRUE].live = r.live
             /\ [r EXCEPT !.events = TRUE].slug = r.slug
             /\ [r EXCEPT !.events = TRUE].pair = r.pair
  BY DEF VariantRows
<1>3. ASSUME NEW r \in ProductRows
      PROVE  [r EXCEPT !.live = FALSE] \in ProductRows /\ [r EXCEPT !.live = FALSE].row = r.row
  BY DEF ProductRows
<1>. QED
  BY <1>1, <1>2, <1>3

\* The list's bulk action goes through some products, one after the other.
LEMMA BulkIsSequence ==
  ASSUME NEW S \in SUBSET Slugs
  PROVE  SetToSeq(S) \in Seq(Slugs)
PROOF
<1>1. IsFiniteSet(S)
  BY AssortmentAssumption, FS_Subset
<1>2. PICK n \in Nat : n = Cardinality(S) /\ ExistsBijection(1..n, S)
  BY <1>1, FS_CardinalityType
<1>3. \E f \in [1..n -> S] : IsInjective(f)
  BY <1>2 DEF ExistsBijection, Bijection, Injection
<1>4. SetToSeq(S) \in [1..n -> S]
  BY <1>2, <1>3 DEF SetToSeq
<1>5. SetToSeq(S) \in [1..n -> Slugs]
  BY <1>4
<1>. QED
  BY <1>5

\* What becomes of the products and variants when one product is deleted.
LEMMA Withdrawn ==
  ASSUME AssortmentType, NEW slug \in Slugs, LiveProduct(slug), Deleted(slug)
  PROVE  /\ product' \in [Slugs -> ProductRows \union {Nothing}]
         /\ variant' \in [Skus -> VariantRows \union {Nothing}]
         /\ \A g \in Slugs : product'[g] = Nothing => product[g] = Nothing
         /\ \A s \in Skus : variant'[s] = IF s \in Of(slug) THEN [variant[s] EXCEPT !.live = FALSE]
                                          ELSE variant[s]
PROOF
<1>1. product[slug] \in ProductRows
  BY DEF AssortmentType, LiveProduct
<1>2. PICK r \in ProductRows : r = [product[slug] EXCEPT !.live = FALSE]
  BY <1>1, FieldsChange
<1>3. product' = [product EXCEPT ![slug] = r]
  <2>1. product' = [product EXCEPT ![slug].live = FALSE]
    BY DEF Deleted
  <2>. QED
    BY <1>2, <2>1, Zenon
<1>4. variant' = [s \in Skus |-> IF s \in Of(slug) THEN [variant[s] EXCEPT !.live = FALSE]
                                 ELSE variant[s]]
  BY DEF Deleted
<1>5. ASSUME NEW s \in Of(slug) PROVE [variant[s] EXCEPT !.live = FALSE] \in VariantRows
  <2>1. variant[s] \in VariantRows
    BY DEF Of, AssortmentType
  <2>. QED
    BY <2>1, FieldsChange
<1>6. variant' \in [Skus -> VariantRows \union {Nothing}]
  BY <1>4, <1>5 DEF AssortmentType
<1>7. r # Nothing
  BY AssortmentAssumption
<1>. QED
  BY <1>3, <1>4, <1>6, <1>7 DEF AssortmentType

LEMMA AssortmentTyped ==
  ASSUME AssortmentType, ImportInOrder, [AssortmentNext]_assortmentVars
  PROVE  AssortmentType' /\ ImportInOrder'
PROOF
<1>1. ASSUME ImportPanel PROVE AssortmentType' /\ ImportInOrder'
  <2>1. PICK rows \in Workbooks : workbook' = Parse(rows)
    BY <1>1 DEF ImportPanel
  <2>2. workbook' \in Seq(WorkbookRows) /\ workbook' # <<>>
    BY <2>1, Parsed, AssortmentAssumption
  <2>3. /\ workbook = <<>> /\ at' = 1 /\ phase' = "clash" /\ results' = results
        /\ UNCHANGED <<product, variant, matrix, bulk, deletes>>
    BY <1>1 DEF ImportPanel
  <2>4. results = <<>>
    BY <2>3 DEF ImportInOrder
  <2>5. 1 \in 1..Len(workbook') /\ Len(results') = 0
    BY <2>2, <2>3, <2>4
  <2>. QED
    BY <2>2, <2>3, <2>5 DEF AssortmentType, ImportInOrder
<1>2. ASSUME ClashRemoved PROVE AssortmentType' /\ ImportInOrder'
  <2>1. UNCHANGED <<workbook, bulk, deletes>> /\ Importing
    BY <1>2 DEF ClashRemoved, Importing
  <2>2. CASE \E s \in Of(Row.slug) : variant[s].events
    <3>1. Reported(FALSE) /\ UNCHANGED <<product, variant, matrix>>
      BY <1>2, <2>2 DEF ClashRemoved
    <3>2. ImportInOrder' /\ results' \in Seq(BOOLEAN)
      BY <2>1, <3>1, ReportKeepsOrder
    <3>. QED
      BY <2>1, <3>1, <3>2 DEF AssortmentType
  <2>3. CASE ~\E s \in Of(Row.slug) : variant[s].events
    <3>1. /\ product' = [product EXCEPT ![Row.slug] = Nothing]
          /\ variant' = [s \in Skus |-> IF s \in Of(Row.slug) THEN Nothing ELSE variant[s]]
          /\ matrix' = [m \in Matrices |-> IF matrix[m] # Nothing /\ matrix[m].slug = Row.slug
                                           THEN [matrix[m] EXCEPT !.gone = TRUE] ELSE matrix[m]]
          /\ phase' = "check" /\ UNCHANGED <<results, at>> /\ phase = "clash"
      BY <1>2, <2>3 DEF ClashRemoved
    <3>2. matrix' \in [Matrices -> MatrixRequests \union {Nothing}]
      <4>1. ASSUME NEW m \in Matrices, matrix[m] # Nothing
            PROVE  [matrix[m] EXCEPT !.gone = TRUE] \in MatrixRequests
        <5>1. matrix[m] \in MatrixRequests
          BY <4>1 DEF AssortmentType
        <5>. QED
          BY <5>1, FieldsChange
      <4>2. matrix \in [Matrices -> MatrixRequests \union {Nothing}]
        BY DEF AssortmentType
      <4>. QED
        BY <3>1, <4>1, <4>2
    <3>3. product' \in [Slugs -> ProductRows \union {Nothing}]
          /\ variant' \in [Skus -> VariantRows \union {Nothing}]
      BY <3>1 DEF AssortmentType
    <3>4. AssortmentType'
      BY <2>1, <3>1, <3>2, <3>3 DEF AssortmentType
    <3>. QED
      BY <2>1, <3>1, <3>4 DEF ImportInOrder
  <2>. QED
    BY <2>2, <2>3
<1>3. ASSUME Checked PROVE AssortmentType' /\ ImportInOrder'
  <2>1. UNCHANGED <<product, variant, workbook, matrix, bulk, deletes>> /\ Importing
        /\ phase = "check"
    BY <1>3 DEF Checked, Importing
  <2>2. CASE Taken(Row.skus)
    <3>1. Reported(FALSE)
      BY <1>3, <2>2 DEF Checked
    <3>2. ImportInOrder' /\ results' \in Seq(BOOLEAN)
      BY <2>1, <3>1, ReportKeepsOrder
    <3>. QED
      BY <2>1, <3>2 DEF AssortmentType
  <2>3. CASE ~Taken(Row.skus)
    <3>1. phase' = "insert" /\ UNCHANGED <<results, at>>
      BY <1>3, <2>3 DEF Checked
    <3>. QED
      BY <2>1, <3>1 DEF AssortmentType, ImportInOrder
  <2>. QED
    BY <2>2, <2>3
<1>4. ASSUME Inserted PROVE AssortmentType' /\ ImportInOrder'
  <2>1. UNCHANGED <<workbook, matrix, bulk, deletes>> /\ Importing
    BY <1>4 DEF Inserted, Importing
  <2>2. \E ok \in BOOLEAN : Reported(ok)
    BY <1>4 DEF Inserted
  <2>3. ImportInOrder' /\ results' \in Seq(BOOLEAN)
    BY <2>1, <2>2, ReportKeepsOrder
  <2>4. product' \in [Slugs -> ProductRows \union {Nothing}]
        /\ variant' \in [Skus -> VariantRows \union {Nothing}]
    <3>1. CASE product[Row.slug] # Nothing \/ Taken(Row.skus)
      BY <1>4, <3>1 DEF Inserted, AssortmentType
    <3>2. CASE ~(product[Row.slug] # Nothing \/ Taken(Row.skus))
      <4>1. /\ product' = [product EXCEPT ![Row.slug] = Imported(Row)]
            /\ variant' = [s \in Skus |-> IF s \in Row.skus THEN Variant(Row.slug, s[2]) ELSE variant[s]]
        BY <1>4, <3>2 DEF Inserted
      <4>2. Row.slug \in Slugs /\ Row \in WorkbookRows
        BY <2>1, RowFound
      <4>3. Imported(Row) \in ProductRows
        BY <4>2 DEF Imported, ProductRows
      <4>4. \A s \in Skus : Variant(Row.slug, s[2]) \in VariantRows
        BY <4>2 DEF Variant, VariantRows, Skus
      <4>. QED
        BY <4>1, <4>3, <4>4 DEF AssortmentType
    <3>. QED
      BY <3>1, <3>2
  <2>. QED
    BY <2>1, <2>3, <2>4 DEF AssortmentType
<1>5. ASSUME NEW m \in Matrices, MatrixDialog(m) PROVE AssortmentType' /\ ImportInOrder'
  <2>1. PICK slug \in Slugs, prefix \in SkuPrefixes, pairs \in SUBSET Pairs :
          matrix' = [matrix EXCEPT ![m] =
            [slug |-> slug, skus |-> Missing(slug, pairs, prefix), checked |-> FALSE, gone |-> FALSE]]
    BY <1>5 DEF MatrixDialog
  <2>2. Missing(slug, pairs, prefix) \in SUBSET Skus
    BY DEF Missing, Skus
  <2>3. [slug |-> slug, skus |-> Missing(slug, pairs, prefix), checked |-> FALSE, gone |-> FALSE]
          \in MatrixRequests
    BY <2>2 DEF MatrixRequests
  <2>4. UNCHANGED <<product, variant, workbook, at, phase, results, bulk, deletes>>
    BY <1>5 DEF MatrixDialog
  <2>. QED
    BY <2>1, <2>3, <2>4 DEF AssortmentType, ImportInOrder
<1>6. ASSUME NEW m \in Matrices, MatrixChecked(m) PROVE AssortmentType' /\ ImportInOrder'
  <2>1. matrix[m] \in MatrixRequests
        /\ UNCHANGED <<product, variant, workbook, at, phase, results, bulk, deletes>>
    BY <1>6 DEF MatrixChecked, AssortmentType
  <2>2. \/ matrix' = [matrix EXCEPT ![m] = Nothing]
        \/ matrix' = [matrix EXCEPT ![m] = [matrix[m] EXCEPT !.checked = TRUE]]
    BY <1>6, <2>1 DEF MatrixChecked, AssortmentType
  <2>3. [matrix[m] EXCEPT !.checked = TRUE] \in MatrixRequests
    BY <2>1, FieldsChange
  <2>. QED
    BY <2>1, <2>2, <2>3 DEF AssortmentType, ImportInOrder
<1>7. ASSUME NEW m \in Matrices, createMatrix(m) PROVE AssortmentType' /\ ImportInOrder'
  <2>1. matrix[m] \in MatrixRequests /\ matrix' = [matrix EXCEPT ![m] = Nothing]
        /\ UNCHANGED <<product, workbook, at, phase, results, bulk, deletes>>
    BY <1>7 DEF createMatrix, AssortmentType
  <2>2. \A s \in Skus : Variant(matrix[m].slug, s[2]) \in VariantRows
    BY <2>1 DEF Variant, VariantRows, Skus, MatrixRequests
  <2>3. variant' \in [Skus -> VariantRows \union {Nothing}]
    BY <1>7, <2>2 DEF createMatrix, AssortmentType
  <2>. QED
    BY <2>1, <2>3 DEF AssortmentType, ImportInOrder
<1>8. ASSUME NEW slug \in Slugs, deleteProduct(slug) PROVE AssortmentType' /\ ImportInOrder'
  <2>1. LiveProduct(slug) /\ Deleted(slug) /\ deletes' = deletes + 1
        /\ UNCHANGED <<workbook, at, phase, results, matrix, bulk>>
    BY <1>8 DEF deleteProduct
  <2>2. product' \in [Slugs -> ProductRows \union {Nothing}]
        /\ variant' \in [Skus -> VariantRows \union {Nothing}]
    BY <2>1, Withdrawn
  <2>. QED
    BY <2>1, <2>2 DEF AssortmentType, ImportInOrder
<1>9. ASSUME NEW s \in Skus, deleteVariant(s) PROVE AssortmentType' /\ ImportInOrder'
  <2>1. variant[s] \in VariantRows /\ deletes' = deletes + 1
        /\ UNCHANGED <<product, workbook, at, phase, results, matrix, bulk>>
    BY <1>9 DEF deleteVariant, AssortmentType
  <2>2. PICK r \in VariantRows : r = [variant[s] EXCEPT !.live = FALSE]
    BY <2>1, FieldsChange
  <2>3. variant' = [variant EXCEPT ![s] = r]
    <3>1. variant' = [variant EXCEPT ![s].live = FALSE]
      BY <1>9 DEF deleteVariant
    <3>. QED
      BY <2>2, <3>1, Zenon
  <2>. QED
    BY <2>1, <2>3 DEF AssortmentType, ImportInOrder
<1>10. ASSUME NEW s \in Skus, Counted(s) PROVE AssortmentType' /\ ImportInOrder'
  <2>1. variant[s] \in VariantRows
        /\ UNCHANGED <<product, workbook, at, phase, results, matrix, bulk, deletes>>
    BY <1>10 DEF Counted, AssortmentType
  <2>2. PICK r \in VariantRows : r = [variant[s] EXCEPT !.events = TRUE]
    BY <2>1, FieldsChange
  <2>3. variant' = [variant EXCEPT ![s] = r]
    <3>1. variant' = [variant EXCEPT ![s].events = TRUE]
      BY <1>10 DEF Counted
    <3>. QED
      BY <2>2, <3>1, Zenon
  <2>. QED
    BY <2>1, <2>3 DEF AssortmentType, ImportInOrder
<1>11. ASSUME ProductsList PROVE AssortmentType' /\ ImportInOrder'
  <2>1. UNCHANGED <<product, variant, workbook, at, phase, results, matrix, deletes>>
        /\ bulk' = [left |-> SetToSeq({s \in Slugs : LiveProduct(s)}), done |-> {}, failed |-> {}]
    BY <1>11 DEF ProductsList
  <2>2. {s \in Slugs : LiveProduct(s)} \in SUBSET Slugs
    OBVIOUS
  <2>3. PICK q \in Seq(Slugs) : q = SetToSeq({s \in Slugs : LiveProduct(s)})
    BY <2>2, BulkIsSequence
  <2>4. bulk' \in BulkActions
    BY <2>1, <2>3 DEF BulkActions
  <2>. QED
    BY <2>1, <2>4 DEF AssortmentType, ImportInOrder
<1>12. ASSUME bulkDeleteAction PROVE AssortmentType' /\ ImportInOrder'
  <2>1. bulk \in BulkActions /\ bulk.left # <<>>
        /\ UNCHANGED <<workbook, at, phase, results, matrix, deletes>>
    BY <1>12 DEF bulkDeleteAction, AssortmentType
  <2>2. Head(bulk.left) \in Slugs /\ Tail(bulk.left) \in Seq(Slugs)
    BY <2>1 DEF BulkActions
  <2>3. CASE LiveProduct(Head(bulk.left))
    <3>1. Deleted(Head(bulk.left))
          /\ bulk' = [bulk EXCEPT !.left = Tail(@), !.done = @ \union {Head(bulk.left)}]
      BY <1>12, <2>3 DEF bulkDeleteAction
    <3>2. product' \in [Slugs -> ProductRows \union {Nothing}]
          /\ variant' \in [Skus -> VariantRows \union {Nothing}]
      BY <2>2, <2>3, <3>1, Withdrawn
    <3>3. bulk' \in BulkActions
      BY <2>1, <2>2, <3>1 DEF BulkActions
    <3>. QED
      BY <2>1, <3>2, <3>3 DEF AssortmentType, ImportInOrder
  <2>4. CASE ~LiveProduct(Head(bulk.left))
    <3>1. UNCHANGED <<product, variant>>
          /\ bulk' = [bulk EXCEPT !.left = Tail(@), !.failed = @ \union {Head(bulk.left)}]
      BY <1>12, <2>4 DEF bulkDeleteAction
    <3>2. bulk' \in BulkActions
      BY <2>1, <2>2, <3>1 DEF BulkActions
    <3>. QED
      BY <2>1, <3>1, <3>2 DEF AssortmentType, ImportInOrder
  <2>. QED
    BY <2>3, <2>4
<1>13. ASSUME UNCHANGED assortmentVars PROVE AssortmentType' /\ ImportInOrder'
  BY <1>13 DEF assortmentVars, AssortmentType, ImportInOrder
<1>. QED
  BY <1>1, <1>2, <1>3, <1>4, <1>5, <1>6, <1>7, <1>8, <1>9, <1>10, <1>11, <1>12, <1>13
  DEF AssortmentNext

\* Variants only go, or change nothing but their counts; requests only go.
Shrinking ==
  /\ crossed' = crossed
  /\ \A s \in Skus : variant'[s] # Nothing =>
       /\ variant[s] # Nothing
       /\ variant'[s].slug = variant[s].slug /\ variant'[s].pair = variant[s].pair
       /\ variant'[s].live => variant[s].live
  /\ \A m \in Matrices : matrix'[m] # Nothing =>
       /\ matrix[m] # Nothing
       /\ matrix'[m].slug = matrix[m].slug /\ matrix'[m].skus = matrix[m].skus
       /\ matrix[m].gone => matrix'[m].gone

LEMMA ShrinkingKeepsPairs ==
  ASSUME DialogsMiss, PairsUnique, Shrinking
  PROVE  DialogsMiss' /\ PairsUnique'
PROOF
<1>1. ASSUME NEW m \in Matrices, matrix'[m] # Nothing
      PROVE  Distinct(matrix'[m].skus) /\ (crossed' \/ (Apart(m)' /\ Clear(m)'))
  <2>1. /\ matrix[m] # Nothing /\ matrix'[m].skus = matrix[m].skus
        /\ matrix'[m].slug = matrix[m].slug /\ (matrix[m].gone => matrix'[m].gone)
    BY <1>1 DEF Shrinking
  <2>2. Distinct(matrix[m].skus) /\ (crossed \/ (Apart(m) /\ Clear(m)))
    BY <2>1 DEF DialogsMiss
  <2>3. ASSUME Apart(m) PROVE Apart(m)'
    BY <2>1, <2>3 DEF Apart, Shrinking
  <2>4. ASSUME Clear(m) PROVE Clear(m)'
    BY <2>1, <2>4 DEF Clear, Shrinking
  <2>5. crossed' = crossed
    BY DEF Shrinking
  <2>. QED
    BY <2>1, <2>2, <2>3, <2>4, <2>5
<1>2. PairsUnique'
  BY DEF Shrinking, PairsUnique
<1>. QED
  BY <1>1, <1>2 DEF DialogsMiss

\* New variants of a product do not repeat what is live, nor one another.
LEMMA AddingKeepsPairs ==
  ASSUME NEW slug \in Slugs, NEW skus \in SUBSET Skus, Distinct(skus),
         variant' = [s \in Skus |-> IF s \in skus THEN Variant(slug, s[2]) ELSE variant[s]],
         crossed' = crossed, PairsUnique,
         \A s \in skus, t \in Skus :
           variant[t] # Nothing /\ variant[t].slug = slug /\ variant[t].live => variant[t].pair # s[2]
  PROVE  PairsUnique'
PROOF
<1>1. \A s \in skus : Variant(slug, s[2]).slug = slug /\ Variant(slug, s[2]).pair = s[2]
  BY DEF Variant
<1>2. \A s \in Skus : \/ s \in skus /\ variant'[s].slug = slug /\ variant'[s].pair = s[2]
                      \/ s \notin skus /\ variant'[s] = variant[s]
  BY <1>1
<1>. QED
  BY <1>2 DEF PairsUnique, Distinct

\* A step that removes no product leaves no variant without one.
LEMMA ShrinkingKeepsWhole ==
  ASSUME Shrinking, \A g \in Slugs : Whole(g),
         \A g \in Slugs : product'[g] = Nothing => product[g] = Nothing
  PROVE  \A g \in Slugs : Whole(g)'
PROOF
<1>1. ASSUME NEW g \in Slugs, product'[g] = Nothing
      PROVE  /\ \A s \in Skus : variant'[s] # Nothing => variant'[s].slug # g
             /\ \A m \in Matrices : matrix'[m] # Nothing /\ matrix'[m].slug = g => matrix'[m].gone
  <2>1. /\ \A s \in Skus : variant[s] # Nothing => variant[s].slug # g
        /\ \A m \in Matrices : matrix[m] # Nothing /\ matrix[m].slug = g => matrix[m].gone
    BY <1>1 DEF Whole
  <2>. QED
    BY <2>1 DEF Shrinking
<1>. QED
  BY <1>1 DEF Whole

\* Deleting is withdrawing: variants lose nothing but being live.
LEMMA WithdrawnShrinks ==
  ASSUME AssortmentType, NEW slug \in Slugs, LiveProduct(slug), Deleted(slug),
         UNCHANGED <<matrix, crossed>>
  PROVE  Shrinking /\ \A g \in Slugs : product'[g] = Nothing => product[g] = Nothing
PROOF
<1>1. /\ \A g \in Slugs : product'[g] = Nothing => product[g] = Nothing
      /\ \A s \in Skus : variant'[s] = IF s \in Of(slug) THEN [variant[s] EXCEPT !.live = FALSE]
                                       ELSE variant[s]
  BY Withdrawn
<1>2. ASSUME NEW s \in Skus, variant'[s] # Nothing
      PROVE  /\ variant[s] # Nothing
             /\ variant'[s].slug = variant[s].slug /\ variant'[s].pair = variant[s].pair
             /\ variant'[s].live => variant[s].live
  <2>1. CASE s \in Of(slug)
    <3>1. variant[s] # Nothing /\ variant[s] \in VariantRows
          /\ variant'[s] = [variant[s] EXCEPT !.live = FALSE]
      BY <1>1, <2>1 DEF Of, AssortmentType
    <3>. QED
      BY <3>1, FieldsChange
  <2>2. CASE s \notin Of(slug)
    BY <1>1, <1>2, <2>2
  <2>. QED
    BY <2>1, <2>2
<1>. QED
  BY <1>1, <1>2 DEF Shrinking

RowsNameOnce == \A rows \in Workbooks : \A i \in DOMAIN rows : Distinct(rows[i].skus)

LEMMA PairsInductive ==
  ASSUME RowsNameOnce, PairsInv, [AssortmentNext]_assortmentVars
  PROVE  PairsInv'
PROOF
<1>. USE DEF PairsInv
<1>. DEFINE Goal == RowsDistinct /\ (\A g \in Slugs : Whole(g)) /\ DialogsMiss /\ PairsUnique
<1>0. ASSUME UNCHANGED workbook, Shrinking,
             \A g \in Slugs : product'[g] = Nothing => product[g] = Nothing
      PROVE  Goal'
  <2>1. \A g \in Slugs : Whole(g)'
    BY <1>0, ShrinkingKeepsWhole
  <2>2. DialogsMiss' /\ PairsUnique'
    BY <1>0, ShrinkingKeepsPairs
  <2>. QED
    BY <1>0, <2>1, <2>2 DEF RowsDistinct
<1>1. ASSUME ImportPanel PROVE Goal'
  <2>1. PICK rows \in Workbooks : workbook' = Parse(rows)
    BY <1>1 DEF ImportPanel
  <2>2. rows \in Seq(WorkbookRows) /\ rows # <<>>
    BY AssortmentAssumption
  <2>3. \A j \in DOMAIN Parse(rows) : \E i \in DOMAIN rows : Parse(rows)[j] = rows[i]
    BY <2>2, Parsed
  <2>4. \A j \in DOMAIN workbook' : Distinct(workbook'[j].skus)
    BY <2>1, <2>3, RowsNameOnce DEF RowsNameOnce
  <2>5. UNCHANGED <<product, variant, matrix, crossed>>
    BY <1>1 DEF ImportPanel
  <2>6. Shrinking
    BY <2>5 DEF Shrinking
  <2>7. \A g \in Slugs : Whole(g)'
    BY <2>5, <2>6, ShrinkingKeepsWhole
  <2>8. DialogsMiss' /\ PairsUnique'
    BY <2>6, ShrinkingKeepsPairs
  <2>. QED
    BY <2>4, <2>7, <2>8 DEF RowsDistinct
<1>2. ASSUME ClashRemoved PROVE Goal'
  <2>1. UNCHANGED <<workbook, crossed>> /\ Importing
    BY <1>2 DEF ClashRemoved, Importing
  <2>2. CASE \E s \in Of(Row.slug) : variant[s].events
    <3>1. UNCHANGED <<product, variant, matrix>>
      BY <1>2, <2>2 DEF ClashRemoved
    <3>2. Shrinking
      BY <2>1, <3>1 DEF Shrinking
    <3>. QED
      BY <1>0, <2>1, <3>1, <3>2
  <2>3. CASE ~\E s \in Of(Row.slug) : variant[s].events
    <3>1. /\ product' = [product EXCEPT ![Row.slug] = Nothing]
          /\ variant' = [s \in Skus |-> IF s \in Of(Row.slug) THEN Nothing ELSE variant[s]]
          /\ matrix' = [m \in Matrices |-> IF matrix[m] # Nothing /\ matrix[m].slug = Row.slug
                                           THEN [matrix[m] EXCEPT !.gone = TRUE] ELSE matrix[m]]
      BY <1>2, <2>3 DEF ClashRemoved
    <3>2. ASSUME NEW m \in Matrices, matrix'[m] # Nothing
          PROVE  /\ matrix[m] # Nothing
                 /\ matrix'[m].slug = matrix[m].slug /\ matrix'[m].skus = matrix[m].skus
                 /\ matrix[m].gone => matrix'[m].gone
                 /\ matrix[m].slug = Row.slug => matrix'[m].gone
      <4>1. CASE matrix[m] # Nothing /\ matrix[m].slug = Row.slug
        <5>1. matrix[m] \in MatrixRequests
          BY <4>1 DEF AssortmentType
        <5>2. matrix'[m] = [matrix[m] EXCEPT !.gone = TRUE]
          BY <3>1, <4>1
        <5>. QED
          BY <4>1, <5>1, <5>2, FieldsChange
      <4>2. CASE ~(matrix[m] # Nothing /\ matrix[m].slug = Row.slug)
        BY <3>1, <3>2, <4>2
      <4>. QED
        BY <4>1, <4>2
    <3>3. \A s \in Skus : variant'[s] # Nothing =>
            variant'[s] = variant[s] /\ variant[s] # Nothing /\ variant[s].slug # Row.slug
      BY <3>1 DEF Of
    <3>4. Shrinking
      BY <2>1, <3>2, <3>3 DEF Shrinking
    <3>5. DialogsMiss' /\ PairsUnique'
      BY <3>4, ShrinkingKeepsPairs
    <3>6. ASSUME NEW g \in Slugs, product'[g] = Nothing
          PROVE  /\ \A s \in Skus : variant'[s] # Nothing => variant'[s].slug # g
                 /\ \A m \in Matrices : matrix'[m] # Nothing /\ matrix'[m].slug = g => matrix'[m].gone
      <4>1. CASE g = Row.slug
        BY <3>2, <3>3, <4>1
      <4>2. CASE g # Row.slug
        <5>1. product[g] = Nothing
          BY <3>1, <3>6, <4>2 DEF AssortmentType
        <5>2. /\ \A s \in Skus : variant[s] # Nothing => variant[s].slug # g
              /\ \A m \in Matrices : matrix[m] # Nothing /\ matrix[m].slug = g => matrix[m].gone
          BY <5>1 DEF Whole
        <5>. QED
          BY <3>2, <3>3, <5>2
      <4>. QED
        BY <4>1, <4>2
    <3>7. \A g \in Slugs : Whole(g)'
      BY <3>6 DEF Whole
    <3>. QED
      BY <2>1, <3>5, <3>7 DEF RowsDistinct
  <2>. QED
    BY <2>2, <2>3
<1>3. ASSUME Checked PROVE Goal'
  <2>1. UNCHANGED <<product, variant, workbook, matrix, crossed>>
    BY <1>3 DEF Checked
  <2>2. Shrinking
    BY <2>1 DEF Shrinking
  <2>. QED
    BY <1>0, <2>1, <2>2
<1>4. ASSUME Inserted PROVE Goal'
  <2>1. UNCHANGED <<workbook, matrix, crossed>> /\ Importing
    BY <1>4 DEF Inserted, Importing
  <2>2. CASE product[Row.slug] # Nothing \/ Taken(Row.skus)
    <3>1. UNCHANGED <<product, variant>>
      BY <1>4, <2>2 DEF Inserted
    <3>2. Shrinking
      BY <2>1, <3>1 DEF Shrinking
    <3>. QED
      BY <1>0, <2>1, <3>1, <3>2
  <2>3. CASE ~(product[Row.slug] # Nothing \/ Taken(Row.skus))
    <3>1. /\ product' = [product EXCEPT ![Row.slug] = Imported(Row)]
          /\ variant' = [s \in Skus |-> IF s \in Row.skus THEN Variant(Row.slug, s[2]) ELSE variant[s]]
          /\ product[Row.slug] = Nothing
      BY <1>4, <2>3 DEF Inserted
    <3>2. Row.slug \in Slugs /\ Row.skus \subseteq Skus /\ Distinct(Row.skus)
          /\ Imported(Row) # Nothing
      <4>1. Imported(Row) \in ProductRows
        BY <2>1, RowFound DEF Imported, ProductRows
      <4>2. Row.slug \in Slugs /\ Row.skus \subseteq Skus /\ at \in DOMAIN workbook
            /\ Row = workbook[at]
        BY <2>1, RowFound
      <4>. QED
        BY <4>1, <4>2, AssortmentAssumption DEF RowsDistinct
    <3>3. /\ \A s \in Skus : variant[s] # Nothing => variant[s].slug # Row.slug
          /\ \A m \in Matrices : matrix[m] # Nothing /\ matrix[m].slug = Row.slug => matrix[m].gone
      BY <3>1, <3>2 DEF Whole
    <3>4. PairsUnique'
      BY <2>1, <3>1, <3>2, <3>3, AddingKeepsPairs
    <3>5. \A s \in Skus : variant'[s] = variant[s] \/ variant'[s].slug = Row.slug
      BY <3>1 DEF Variant
    <3>6. ASSUME NEW m \in Matrices, matrix[m] # Nothing, Clear(m) PROVE Clear(m)'
      BY <2>1, <3>3, <3>5, <3>6 DEF Clear
    <3>7. ASSUME NEW m \in Matrices, Apart(m) PROVE Apart(m)'
      BY <2>1, <3>7 DEF Apart
    <3>8. DialogsMiss'
      BY <2>1, <3>6, <3>7 DEF DialogsMiss
    <3>9. \A g \in Slugs : Whole(g)'
      BY <2>1, <3>1, <3>2, <3>5 DEF Whole, AssortmentType
    <3>. QED
      BY <2>1, <3>4, <3>8, <3>9 DEF RowsDistinct
  <2>. QED
    BY <2>2, <2>3
<1>5. ASSUME NEW m \in Matrices, MatrixDialog(m) PROVE Goal'
  <2>1. PICK slug \in Slugs, prefix \in SkuPrefixes, pairs \in SUBSET Pairs :
          /\ LiveProduct(slug)
          /\ matrix' = [matrix EXCEPT ![m] =
               [slug |-> slug, skus |-> Missing(slug, pairs, prefix), checked |-> FALSE, gone |-> FALSE]]
          /\ crossed' = (crossed \/ Busy(slug))
    BY <1>5 DEF MatrixDialog
  <2>2. UNCHANGED <<product, variant, workbook>>
    BY <1>5 DEF MatrixDialog
  <2>3. PICK skus \in SUBSET Skus : skus = Missing(slug, pairs, prefix)
    <3>1. Missing(slug, pairs, prefix) \in SUBSET Skus
      BY DEF Missing, Skus
    <3>. QED
      BY <3>1
  <2>4. Distinct(skus)
    BY <2>3 DEF Missing, Distinct
  <2>5. \A s \in skus, t \in Skus :
          variant[t] # Nothing /\ variant[t].slug = slug /\ variant[t].live => variant[t].pair # s[2]
    BY <2>3 DEF Missing, LiveOf, Of
  <2>6. PICK req : req = [slug |-> slug, skus |-> skus, checked |-> FALSE, gone |-> FALSE]
    OBVIOUS
  <2>7. req.slug = slug /\ req.skus = skus
    BY <2>6
  <2>8. matrix' = [matrix EXCEPT ![m] = req]
    BY <2>1, <2>3, <2>6
  <2>9. \A n \in Matrices : (n # m /\ matrix'[n] = matrix[n]) \/ (n = m /\ matrix'[n] = req)
    BY <2>8 DEF AssortmentType
  <2>10. \A g \in Slugs : Whole(g)'
    BY <2>1, <2>2, <2>7, <2>9 DEF Whole, LiveProduct
  <2>11. ASSUME NEW n \in Matrices, matrix'[n] # Nothing, ~crossed' PROVE Apart(n)' /\ Clear(n)'
    <3>1. ~crossed /\ ~Busy(slug)
      BY <2>1, <2>11
    <3>2. CASE n = m
      BY <2>2, <2>5, <2>7, <2>9, <3>1, <3>2 DEF Apart, Clear, Busy
    <3>3. CASE n # m
      <4>1. matrix'[n] = matrix[n] /\ matrix[n].slug # slug /\ Apart(n) /\ Clear(n)
        BY <2>9, <2>11, <3>1, <3>3 DEF Busy, DialogsMiss
      <4>. QED
        BY <2>2, <2>7, <2>9, <4>1 DEF Apart, Clear
    <3>. QED
      BY <3>2, <3>3
  <2>12. \A n \in Matrices : matrix'[n] # Nothing => Distinct(matrix'[n].skus)
    BY <2>4, <2>7, <2>9 DEF DialogsMiss
  <2>13. DialogsMiss'
    BY <2>11, <2>12 DEF DialogsMiss
  <2>14. PairsUnique'
    BY <2>1, <2>2 DEF PairsUnique
  <2>. QED
    BY <2>2, <2>10, <2>13, <2>14 DEF RowsDistinct
<1>6. ASSUME NEW m \in Matrices, MatrixChecked(m) PROVE Goal'
  <2>1. matrix[m] # Nothing /\ matrix[m] \in MatrixRequests
        /\ UNCHANGED <<product, variant, workbook, crossed>>
    BY <1>6 DEF MatrixChecked, AssortmentType
  <2>2. \/ matrix' = [matrix EXCEPT ![m] = Nothing]
        \/ matrix' = [matrix EXCEPT ![m] = [matrix[m] EXCEPT !.checked = TRUE]]
    BY <1>6, <2>1 DEF MatrixChecked, AssortmentType
  <2>3. PICK req \in MatrixRequests : req = [matrix[m] EXCEPT !.checked = TRUE]
    BY <2>1, FieldsChange
  <2>4. req.slug = matrix[m].slug /\ req.skus = matrix[m].skus /\ req.gone = matrix[m].gone
    BY <2>1, <2>3, FieldsChange
  <2>5. \A n \in Matrices : matrix'[n] = matrix[n] \/ matrix'[n] = Nothing \/ (n = m /\ matrix'[n] = req)
    BY <2>2, <2>3 DEF AssortmentType
  <2>6. Shrinking
    BY <2>1, <2>4, <2>5 DEF Shrinking
  <2>. QED
    BY <1>0, <2>1, <2>6
<1>7. ASSUME NEW m \in Matrices, createMatrix(m) PROVE Goal'
  <2>1. matrix[m] # Nothing /\ matrix[m] \in MatrixRequests
        /\ matrix' = [matrix EXCEPT ![m] = Nothing]
        /\ UNCHANGED <<product, workbook, crossed>>
    BY <1>7 DEF createMatrix, AssortmentType
  <2>2. \A n \in Matrices : matrix'[n] = Nothing \/ (n # m /\ matrix'[n] = matrix[n])
    BY <2>1 DEF AssortmentType
  <2>3. CASE matrix[m].gone \/ Taken(matrix[m].skus)
    <3>1. variant' = variant
      BY <1>7, <2>3 DEF createMatrix
    <3>2. Shrinking
      BY <2>1, <2>2, <3>1 DEF Shrinking
    <3>. QED
      BY <1>0, <2>1, <3>2
  <2>4. CASE ~(matrix[m].gone \/ Taken(matrix[m].skus))
    <3>1. PICK slug \in Slugs, skus \in SUBSET Skus : slug = matrix[m].slug /\ skus = matrix[m].skus
      BY <2>1 DEF MatrixRequests
    <3>2. variant' = [s \in Skus |-> IF s \in skus THEN Variant(slug, s[2]) ELSE variant[s]]
      BY <1>7, <2>4, <3>1 DEF createMatrix
    <3>3. Distinct(skus) /\ (crossed \/ (Apart(m) /\ Clear(m)))
      BY <2>1, <3>1 DEF DialogsMiss
    <3>4. PairsUnique'
      <4>1. CASE crossed
        BY <2>1, <4>1 DEF PairsUnique
      <4>2. CASE ~crossed
        <5>1. \A s \in skus, t \in Skus :
                variant[t] # Nothing /\ variant[t].slug = slug /\ variant[t].live
                  => variant[t].pair # s[2]
          BY <2>4, <3>1, <3>3, <4>2 DEF Clear
        <5>. QED
          BY <2>1, <3>2, <3>3, <5>1, AddingKeepsPairs
      <4>. QED
        BY <4>1, <4>2
    <3>5. \A s \in Skus : variant'[s] = variant[s] \/ variant'[s].slug = slug
      BY <3>2 DEF Variant
    <3>6. product[slug] # Nothing
      BY <2>1, <2>4, <3>1 DEF Whole
    <3>7. \A g \in Slugs : Whole(g)'
      BY <2>1, <2>2, <3>5, <3>6 DEF Whole
    <3>8. ASSUME NEW n \in Matrices, matrix'[n] # Nothing
          PROVE  Distinct(matrix'[n].skus) /\ (crossed' \/ (Apart(n)' /\ Clear(n)'))
      <4>1. n # m /\ matrix'[n] = matrix[n] /\ matrix[n] # Nothing
        BY <2>2, <3>8
      <4>2. Distinct(matrix[n].skus) /\ (crossed \/ (Apart(n) /\ Clear(n)))
        BY <4>1 DEF DialogsMiss
      <4>3. CASE crossed
        BY <2>1, <4>1, <4>2, <4>3
      <4>4. CASE ~crossed
        <5>1. matrix[n].slug # slug
          BY <2>1, <3>1, <3>3, <4>1, <4>4 DEF Apart
        <5>2. Apart(n)'
          BY <2>2, <4>1, <4>2, <4>4 DEF Apart
        <5>3. Clear(n)'
          BY <3>5, <4>1, <4>2, <4>4, <5>1 DEF Clear
        <5>. QED
          BY <4>1, <4>2, <5>2, <5>3
      <4>. QED
        BY <4>3, <4>4
    <3>9. DialogsMiss'
      BY <3>8 DEF DialogsMiss
    <3>. QED
      BY <2>1, <3>4, <3>7, <3>9 DEF RowsDistinct
  <2>. QED
    BY <2>3, <2>4
<1>8. ASSUME NEW slug \in Slugs, deleteProduct(slug) PROVE Goal'
  <2>1. LiveProduct(slug) /\ Deleted(slug) /\ UNCHANGED <<workbook, matrix, crossed>>
    BY <1>8 DEF deleteProduct
  <2>. QED
    BY <1>0, <2>1, WithdrawnShrinks
<1>9. ASSUME NEW s \in Skus, deleteVariant(s) PROVE Goal'
  <2>1. variant[s] # Nothing /\ variant[s] \in VariantRows
        /\ UNCHANGED <<product, workbook, matrix, crossed>>
    BY <1>9 DEF deleteVariant, AssortmentType
  <2>2. PICK r \in VariantRows : r = [variant[s] EXCEPT !.live = FALSE]
    BY <2>1, FieldsChange
  <2>3. variant' = [variant EXCEPT ![s] = r]
    <3>1. variant' = [variant EXCEPT ![s].live = FALSE]
      BY <1>9 DEF deleteVariant
    <3>. QED
      BY <2>2, <3>1, Zenon
  <2>4. r.slug = variant[s].slug /\ r.pair = variant[s].pair /\ ~r.live
    BY <2>1, <2>2, FieldsChange
  <2>5. Shrinking
    BY <2>1, <2>3, <2>4 DEF Shrinking, AssortmentType
  <2>. QED
    BY <1>0, <2>1, <2>5
<1>10. ASSUME NEW s \in Skus, Counted(s) PROVE Goal'
  <2>1. variant[s] # Nothing /\ variant[s] \in VariantRows
        /\ UNCHANGED <<product, workbook, matrix, crossed>>
    BY <1>10 DEF Counted, AssortmentType
  <2>2. PICK r \in VariantRows : r = [variant[s] EXCEPT !.events = TRUE]
    BY <2>1, FieldsChange
  <2>3. variant' = [variant EXCEPT ![s] = r]
    <3>1. variant' = [variant EXCEPT ![s].events = TRUE]
      BY <1>10 DEF Counted
    <3>. QED
      BY <2>2, <3>1, Zenon
  <2>4. r.slug = variant[s].slug /\ r.pair = variant[s].pair /\ r.live = variant[s].live
    BY <2>1, <2>2, FieldsChange
  <2>5. Shrinking
    BY <2>1, <2>3, <2>4 DEF Shrinking, AssortmentType
  <2>. QED
    BY <1>0, <2>1, <2>5
<1>11. ASSUME ProductsList \/ UNCHANGED assortmentVars PROVE Goal'
  <2>1. UNCHANGED <<product, variant, workbook, matrix, crossed>>
    BY <1>11 DEF ProductsList, assortmentVars
  <2>2. Shrinking
    BY <2>1 DEF Shrinking
  <2>. QED
    BY <1>0, <2>1, <2>2
<1>12. ASSUME bulkDeleteAction PROVE Goal'
  <2>1. bulk \in BulkActions /\ bulk.left # <<>> /\ UNCHANGED <<workbook, matrix, crossed>>
    BY <1>12 DEF bulkDeleteAction, AssortmentType
  <2>2. Head(bulk.left) \in Slugs
    BY <2>1 DEF BulkActions
  <2>3. CASE LiveProduct(Head(bulk.left))
    <3>1. Deleted(Head(bulk.left))
      BY <1>12, <2>3 DEF bulkDeleteAction
    <3>. QED
      BY <1>0, <2>1, <2>2, <2>3, <3>1, WithdrawnShrinks
  <2>4. CASE ~LiveProduct(Head(bulk.left))
    <3>1. UNCHANGED <<product, variant>>
      BY <1>12, <2>4 DEF bulkDeleteAction
    <3>2. Shrinking
      BY <2>1, <3>1 DEF Shrinking
    <3>. QED
      BY <1>0, <2>1, <3>1, <3>2
  <2>. QED
    BY <2>3, <2>4
<1>13. AssortmentType' /\ ImportInOrder'
  BY AssortmentTyped
<1>14. Goal'
  <2>. HIDE DEF Goal, PairsInv
  <2>. QED
    BY <1>1, <1>2, <1>3, <1>4, <1>5, <1>6, <1>7, <1>8, <1>9, <1>10, <1>11, <1>12 DEF AssortmentNext
<1>. QED
  BY <1>13, <1>14

\* No size and colour of a product is live twice, whatever the matrix dialog,
\* imports and deletions do, unless two dialogs of one product overlapped: an
\* import first takes everything of the product away, and a dialog left out
\* what was live when it opened (createMatrix of the variants service, create
\* of the products service).
THEOREM PairsStayUnique ==
  ASSUME NEW products, NEW variants, Stocked(products, variants), RowsNameOnce,
         \A s, t \in Skus :
           variants[s] # Nothing /\ variants[t] # Nothing /\ s # t
             /\ variants[s].live /\ variants[t].live
           => ~(variants[s].slug = variants[t].slug /\ variants[s].pair = variants[t].pair)
  PROVE  AssortmentSpec(products, variants) => []PairsUnique
PROOF
<1>1. ASSUME AssortmentInit(products, variants) PROVE PairsInv
  <2>1. /\ product = products /\ variant = variants
        /\ workbook = <<>> /\ phase = "none" /\ results = <<>>
        /\ matrix = [m \in Matrices |-> Nothing] /\ bulk = Nothing /\ deletes = 0
    BY <1>1 DEF AssortmentInit
  <2>2. AssortmentType /\ ImportInOrder
    BY <2>1 DEF Stocked, AssortmentType, ImportInOrder
  <2>3. RowsDistinct /\ DialogsMiss
    BY <2>1 DEF RowsDistinct, DialogsMiss
  <2>4. \A g \in Slugs : Whole(g)
    BY <2>1 DEF Stocked, Whole
  <2>5. PairsUnique
    BY <2>1 DEF PairsUnique
  <2>. QED
    BY <2>2, <2>3, <2>4, <2>5 DEF PairsInv
<1>2. ASSUME PairsInv PROVE PairsUnique
  BY <1>2 DEF PairsInv
<1>3. ASSUME PairsInv, [AssortmentNext]_assortmentVars PROVE PairsInv'
  BY <1>3, PairsInductive
<1>. QED
  BY <1>1, <1>2, <1>3, PTL DEF AssortmentSpec

LEMMA Appended ==
  ASSUME NEW S, NEW s \in Seq(S), NEW e \in S
  PROVE  \A i \in DOMAIN Append(s, e) :
           (i \in DOMAIN s /\ Append(s, e)[i] = s[i]) \/ i = Len(s) + 1
OBVIOUS

\* An import that only reports a failure changes no row it created.
LEMMA FailureReported ==
  ASSUME RowsInv, Importing, Reported(FALSE),
         UNCHANGED <<product, variant, workbook, bulk, deletes>>
  PROVE  RowsThere'
PROOF
<1>1. results' = Append(results, FALSE) /\ results \in Seq(BOOLEAN)
  BY DEF Reported, RowsInv, AssortmentType
<1>2. \A i \in DOMAIN results' : results'[i] => i \in DOMAIN results /\ results[i]
  BY <1>1
<1>3. \A i \in DOMAIN workbook : There(workbook[i]) => There(workbook[i])'
  BY DEF There
<1>4. DOMAIN results \subseteq DOMAIN workbook
  BY DEF RowsInv, ImportInOrder, AssortmentType
<1>. QED
  BY <1>2, <1>3, <1>4 DEF RowsThere, RowsInv

LEMMA RowsInductive ==
  ASSUME RowsInv, [AssortmentNext]_assortmentVars
  PROVE  RowsInv'
PROOF
<1>. USE DEF RowsInv
<1>. DEFINE Goal == RowsApart /\ RowsThere
<1>0. DOMAIN results \subseteq DOMAIN workbook
      /\ \A i \in DOMAIN workbook : workbook[i] \in WorkbookRows
  BY DEF ImportInOrder, AssortmentType
<1>00. ASSUME UNCHANGED <<product, variant, workbook, results, deletes>>, bulk = Nothing \/ bulk' # Nothing
       PROVE  Goal'
  <2>1. \A i \in DOMAIN workbook : There(workbook[i]) => There(workbook[i])'
    BY <1>00 DEF There
  <2>2. RowsApart'
    BY <1>00 DEF RowsApart
  <2>3. RowsThere'
    BY <1>00, <2>1, <1>0 DEF RowsThere
  <2>. QED
    BY <2>2, <2>3
<1>1. ASSUME ImportPanel PROVE Goal'
  <2>1. PICK rows \in Workbooks : workbook' = Parse(rows)
    BY <1>1 DEF ImportPanel
  <2>2. rows \in Seq(WorkbookRows) /\ rows # <<>>
    BY AssortmentAssumption
  <2>3. RowsApart'
    BY <2>1, <2>2, Parsed DEF RowsApart
  <2>4. workbook = <<>> /\ results' = results
    BY <1>1 DEF ImportPanel
  <2>5. DOMAIN results' = {}
    BY <2>4, <1>0
  <2>. QED
    BY <2>3, <2>5 DEF RowsThere
<1>2. ASSUME ClashRemoved PROVE Goal'
  <2>1. UNCHANGED <<workbook, bulk, deletes>> /\ Importing
    BY <1>2 DEF ClashRemoved, Importing
  <2>2. RowsApart'
    BY <2>1 DEF RowsApart
  <2>3. CASE \E s \in Of(Row.slug) : variant[s].events
    <3>1. Reported(FALSE) /\ UNCHANGED <<product, variant>>
      BY <1>2, <2>3 DEF ClashRemoved
    <3>. QED
      BY <2>1, <2>2, <3>1, FailureReported
  <2>4. CASE ~\E s \in Of(Row.slug) : variant[s].events
    <3>1. /\ product' = [product EXCEPT ![Row.slug] = Nothing]
          /\ variant' = [s \in Skus |-> IF s \in Of(Row.slug) THEN Nothing ELSE variant[s]]
          /\ results' = results
      BY <1>2, <2>4 DEF ClashRemoved
    <3>2. Row = workbook[at] /\ at \in DOMAIN workbook /\ Len(results) = at - 1
      BY <2>1, RowFound
    <3>3. ASSUME NEW i \in DOMAIN results, There(workbook[i]) PROVE There(workbook[i])'
      <4>1. i \in DOMAIN workbook /\ i # at
        BY <1>0, <3>2 DEF AssortmentType
      <4>2. workbook[i].slug # Row.slug /\ workbook[i].slug \in Slugs
            /\ workbook[i].skus \subseteq Skus
        BY <1>0, <3>2, <4>1 DEF RowsApart, WorkbookRows
      <4>3. product'[workbook[i].slug] = product[workbook[i].slug]
        BY <3>1, <4>2 DEF AssortmentType
      <4>4. \A s \in workbook[i].skus : variant'[s] = variant[s] /\ variant[s] # Nothing
        BY <3>1, <3>3, <4>2 DEF There, Of
      <4>5. There(workbook[i])'
        BY <2>1, <3>3, <4>3, <4>4 DEF There
      <4>. QED
        BY <4>5
    <3>. QED
      BY <2>1, <2>2, <3>1, <3>3 DEF RowsThere
  <2>. QED
    BY <2>3, <2>4
<1>3. ASSUME Checked PROVE Goal'
  <2>1. UNCHANGED <<product, variant, workbook, bulk, deletes>> /\ Importing
    BY <1>3 DEF Checked, Importing
  <2>2. CASE Taken(Row.skus)
    <3>1. Reported(FALSE)
      BY <1>3, <2>2 DEF Checked
    <3>. QED
      BY <2>1, <3>1, FailureReported DEF RowsApart
  <2>3. CASE ~Taken(Row.skus)
    BY <1>3, <1>00, <2>1, <2>3 DEF Checked
  <2>. QED
    BY <2>2, <2>3
<1>4. ASSUME Inserted PROVE Goal'
  <2>1. UNCHANGED <<workbook, bulk, deletes>> /\ Importing
    BY <1>4 DEF Inserted, Importing
  <2>2. RowsApart'
    BY <2>1 DEF RowsApart
  <2>3. CASE product[Row.slug] # Nothing \/ Taken(Row.skus)
    <3>1. Reported(FALSE) /\ UNCHANGED <<product, variant>>
      BY <1>4, <2>3 DEF Inserted
    <3>. QED
      BY <2>1, <2>2, <3>1, FailureReported
  <2>4. CASE ~(product[Row.slug] # Nothing \/ Taken(Row.skus))
    <3>1. /\ product' = [product EXCEPT ![Row.slug] = Imported(Row)]
          /\ variant' = [s \in Skus |-> IF s \in Row.skus THEN Variant(Row.slug, s[2]) ELSE variant[s]]
          /\ Reported(TRUE)
      BY <1>4, <2>4 DEF Inserted
    <3>2. /\ Row = workbook[at] /\ at \in DOMAIN workbook /\ Len(results) = at - 1
          /\ Row \in WorkbookRows /\ Row.slug \in Slugs /\ Row.skus \subseteq Skus
      BY <2>1, RowFound
    <3>3. results' = Append(results, TRUE)
      BY <3>1 DEF Reported
    <3>0. PICK k \in DOMAIN workbook : k = at
      BY <3>2
    <3>4. \A i \in DOMAIN results' : i = k \/ (i # k /\ i \in DOMAIN results /\ results'[i] = results[i])
      <4>1. results \in Seq(BOOLEAN) /\ Len(results) = at - 1 /\ at \in Nat
        BY <3>2 DEF AssortmentType
      <4>2. \A i \in DOMAIN results' : \/ i \in DOMAIN results /\ results'[i] = results[i]
                                       \/ i = Len(results) + 1
        <5>1. PICK old \in Seq(BOOLEAN) : old = results
          BY <4>1
        <5>2. \A i \in DOMAIN Append(old, TRUE) :
                \/ i \in DOMAIN old /\ Append(old, TRUE)[i] = old[i]
                \/ i = Len(old) + 1
          BY Appended
        <5>. QED
          BY <3>3, <5>1, <5>2
      <4>3. \A i \in DOMAIN results : i # k
        BY <3>0, <4>1
      <4>. QED
        BY <3>0, <4>1, <4>2, <4>3
    <3>5. ASSUME NEW i \in DOMAIN results, i # k, There(workbook[i]) PROVE There(workbook[i])'
      <4>1. i \in DOMAIN workbook
        BY <1>0
      <4>2. workbook[i].slug # Row.slug /\ workbook[i].slug \in Slugs
            /\ workbook[i].skus \subseteq Skus
        BY <1>0, <3>2, <3>0, <3>5, <4>1 DEF RowsApart, WorkbookRows
      <4>3. product'[workbook[i].slug] = product[workbook[i].slug]
        BY <3>1, <4>2 DEF AssortmentType
      <4>4. \A s \in workbook[i].skus : variant'[s] = variant[s]
        BY <2>4, <3>1, <3>5, <4>2 DEF There, Taken
      <4>. QED
        BY <2>1, <3>5, <4>3, <4>4 DEF There
    <3>6. There(workbook[k])'
      <4>1. Imported(Row) \in ProductRows /\ Imported(Row).live /\ Imported(Row).row = Row
        BY <3>2 DEF Imported, ProductRows
      <4>2. product'[Row.slug] = Imported(Row) /\ Imported(Row) # Nothing
        BY <3>1, <3>2, <4>1, AssortmentAssumption DEF AssortmentType
      <4>3. ASSUME NEW s \in Row.skus
            PROVE  variant'[s] # Nothing /\ variant'[s].slug = Row.slug /\ variant'[s].live
        <5>1. variant'[s] = Variant(Row.slug, s[2])
          BY <3>1, <3>2
        <5>2. Variant(Row.slug, s[2]) \in VariantRows
          BY <3>2 DEF Variant, VariantRows, Skus
        <5>3. Variant(Row.slug, s[2]).slug = Row.slug /\ Variant(Row.slug, s[2]).live
          BY DEF Variant
        <5>4. Variant(Row.slug, s[2]) # Nothing
          BY <5>2, AssortmentAssumption
        <5>. QED
          BY <5>1, <5>3, <5>4
      <4>. QED
        BY <2>1, <3>2, <3>0, <4>1, <4>2, <4>3 DEF There
    <3>7. RowsThere'
      BY <2>1, <3>4, <3>5, <3>6 DEF RowsThere
    <3>. QED
      BY <2>2, <3>7
  <2>. QED
    BY <2>3, <2>4
<1>5. ASSUME NEW m \in Matrices, MatrixDialog(m) PROVE Goal'
  <2>1. UNCHANGED <<product, variant, workbook, results, deletes, bulk>>
    BY <1>5 DEF MatrixDialog
  <2>. QED
    BY <1>00, <2>1
<1>6. ASSUME NEW m \in Matrices, MatrixChecked(m) PROVE Goal'
  <2>1. UNCHANGED <<product, variant, workbook, results, deletes, bulk>>
    BY <1>6 DEF MatrixChecked
  <2>. QED
    BY <1>00, <2>1
<1>7. ASSUME NEW m \in Matrices, createMatrix(m) PROVE Goal'
  <2>1. UNCHANGED <<product, workbook, results, deletes, bulk>>
    BY <1>7 DEF createMatrix
  <2>2. CASE matrix[m].gone \/ Taken(matrix[m].skus)
    <3>1. variant' = variant
      BY <1>7, <2>2 DEF createMatrix
    <3>. QED
      BY <1>00, <2>1, <3>1
  <2>3. CASE ~(matrix[m].gone \/ Taken(matrix[m].skus))
    <3>1. variant' = [s \in Skus |-> IF s \in matrix[m].skus THEN Variant(matrix[m].slug, s[2])
                                     ELSE variant[s]]
      BY <1>7, <2>3 DEF createMatrix
    <3>2. ASSUME NEW i \in DOMAIN workbook, There(workbook[i]) PROVE There(workbook[i])'
      <4>1. workbook[i].skus \subseteq Skus
        BY <1>0 DEF WorkbookRows
      <4>2. \A s \in workbook[i].skus : variant'[s] = variant[s]
        BY <2>3, <3>1, <3>2, <4>1 DEF There, Taken
      <4>. QED
        BY <2>1, <3>2, <4>2 DEF There
    <3>. QED
      BY <1>0, <2>1, <3>2 DEF RowsThere, RowsApart
  <2>. QED
    BY <2>2, <2>3
<1>8. ASSUME NEW slug \in Slugs, deleteProduct(slug) PROVE Goal'
  <2>1. deletes' = deletes + 1 /\ workbook' = workbook
    BY <1>8 DEF deleteProduct
  <2>2. deletes' # 0
    BY <2>1 DEF AssortmentType
  <2>. QED
    BY <2>1, <2>2 DEF RowsThere, RowsApart
<1>9. ASSUME NEW s \in Skus, deleteVariant(s) PROVE Goal'
  <2>1. deletes' = deletes + 1 /\ workbook' = workbook
    BY <1>9 DEF deleteVariant
  <2>2. deletes' # 0
    BY <2>1 DEF AssortmentType
  <2>. QED
    BY <2>1, <2>2 DEF RowsThere, RowsApart
<1>10. ASSUME NEW s \in Skus, Counted(s) PROVE Goal'
  <2>1. variant[s] # Nothing /\ variant[s] \in VariantRows
        /\ UNCHANGED <<product, workbook, results, deletes, bulk>>
    BY <1>10 DEF Counted, AssortmentType
  <2>2. PICK r \in VariantRows : r = [variant[s] EXCEPT !.events = TRUE]
    BY <2>1, FieldsChange
  <2>3. variant' = [variant EXCEPT ![s] = r]
    <3>1. variant' = [variant EXCEPT ![s].events = TRUE]
      BY <1>10 DEF Counted
    <3>. QED
      BY <2>2, <3>1, Zenon
  <2>4. r.slug = variant[s].slug /\ r.live = variant[s].live /\ r # Nothing
    BY <2>1, <2>2, FieldsChange, AssortmentAssumption
  <2>5. ASSUME NEW i \in DOMAIN workbook, There(workbook[i]) PROVE There(workbook[i])'
    <3>1. workbook[i].skus \subseteq Skus
      BY <1>0 DEF WorkbookRows
    <3>2. \A t \in Skus : variant'[t] = variant[t] \/ (t = s /\ variant'[t] = r)
      BY <2>3 DEF AssortmentType
    <3>. QED
      BY <2>1, <2>4, <2>5, <3>1, <3>2 DEF There
  <2>. QED
    BY <1>0, <2>1, <2>5 DEF RowsThere, RowsApart
<1>11. ASSUME ProductsList PROVE Goal'
  <2>1. bulk = Nothing /\ UNCHANGED <<product, variant, workbook, results, deletes>>
    BY <1>11 DEF ProductsList
  <2>. QED
    BY <1>00, <2>1
<1>12. ASSUME bulkDeleteAction PROVE Goal'
  <2>1. bulk \in BulkActions /\ bulk.left # <<>> /\ workbook' = workbook
    BY <1>12 DEF bulkDeleteAction, AssortmentType
  <2>2. Head(bulk.left) \in Slugs /\ Tail(bulk.left) \in Seq(Slugs)
    BY <2>1 DEF BulkActions
  <2>3. \/ bulk' = [bulk EXCEPT !.left = Tail(@), !.done = @ \union {Head(bulk.left)}]
        \/ bulk' = [bulk EXCEPT !.left = Tail(@), !.failed = @ \union {Head(bulk.left)}]
    BY <1>12 DEF bulkDeleteAction
  <2>4. bulk' \in BulkActions
    BY <2>1, <2>2, <2>3 DEF BulkActions
  <2>5. bulk' # Nothing
    BY <2>4, AssortmentAssumption
  <2>. QED
    BY <2>1, <2>5 DEF RowsThere, RowsApart
<1>13. ASSUME UNCHANGED assortmentVars PROVE Goal'
  BY <1>00, <1>13 DEF assortmentVars
<1>14. AssortmentType' /\ ImportInOrder'
  BY AssortmentTyped
<1>15. Goal'
  <2>. HIDE DEF Goal, RowsInv
  <2>. QED
    BY <1>1, <1>2, <1>3, <1>4, <1>5, <1>6, <1>7, <1>8, <1>9, <1>10, <1>11, <1>12, <1>13
    DEF AssortmentNext
<1>. QED
  BY <1>14, <1>15

\* What an import reports as created is there when it ends, as its row had it,
\* unless an admin deletes meanwhile: no later row takes it away, no dialog
\* overwrites its variants (bulkCreate and create of the products service, the
\* parser's check of slugs that came before).
THEOREM ImportedRowsStay ==
  ASSUME NEW products, NEW variants, Stocked(products, variants)
  PROVE  AssortmentSpec(products, variants) => []CreatedRowsStay
PROOF
<1>1. ASSUME AssortmentInit(products, variants) PROVE RowsInv
  <2>1. /\ product = products /\ variant = variants
        /\ workbook = <<>> /\ phase = "none" /\ results = <<>>
        /\ matrix = [m \in Matrices |-> Nothing] /\ bulk = Nothing /\ deletes = 0
    BY <1>1 DEF AssortmentInit
  <2>2. AssortmentType /\ ImportInOrder
    BY <2>1 DEF Stocked, AssortmentType, ImportInOrder
  <2>3. RowsApart /\ RowsThere
    BY <2>1 DEF RowsApart, RowsThere
  <2>. QED
    BY <2>2, <2>3 DEF RowsInv
<1>2. ASSUME RowsInv PROVE CreatedRowsStay
  <2>1. SUFFICES ASSUME phase = "done", deletes = 0, bulk = Nothing,
                        NEW i \in DOMAIN results, results[i]
                 PROVE  /\ LiveProduct(workbook[i].slug)
                        /\ product[workbook[i].slug].row = workbook[i]
                        /\ workbook[i].skus \subseteq LiveOf(workbook[i].slug)
    BY DEF CreatedRowsStay
  <2>2. There(workbook[i])
    BY <1>2, <2>1 DEF RowsInv, RowsThere
  <2>3. workbook[i] \in WorkbookRows
    BY <1>2 DEF RowsInv, ImportInOrder, AssortmentType
  <2>. QED
    BY <2>2, <2>3 DEF There, LiveProduct, LiveOf, Of, WorkbookRows
<1>. QED
  BY <1>1, <1>2, RowsInductive, PTL DEF AssortmentSpec

-----------------------------------------------------------------------------
(* The product editor.                                                   *)

\* The fields the operator edits; the publish state has its own control.
Typing == Fields \ {"isActive"}

\* What a request carries: some fields of a product.
Changes == {Only(fields, given) : fields \in SUBSET Fields, given \in Products}
Requests == [kind : {"refresh", "auto", "save", "categories", "publish"},
             changes : Changes, gen : Nat, previous : BOOLEAN]

Carried(r) ==
  CASE r.kind = "refresh" -> DOMAIN r.changes = {}
    [] r.kind \in {"auto", "save"} -> DOMAIN r.changes \subseteq Own
    [] r.kind = "categories" -> DOMAIN r.changes = {"categoryIds"}
    [] r.kind = "publish" -> DOMAIN r.changes = {"isActive"}

EditorType ==
  /\ server \in Products /\ pristine \in Products /\ draft \in Products /\ typed \in Products
  /\ local \subseteq Typing
  /\ gen \in Nat
  /\ saving \in [draft : Products, pristine : Products] \union {None}
  /\ uploads \subseteq [image : Images, sorted : SUBSET Images]
  /\ queue \in Seq(Requests) /\ \A r \in {queue[i] : i \in DOMAIN queue} : Carried(r)
  /\ arriving \in Products \union {None}
  /\ exposed \in [Fields -> BOOLEAN]
  /\ unsure \subseteq Fields

IsSave(r) == r.kind \in {"save", "categories"}
Out(q) == {q[i] : i \in DOMAIN q}
OneSave(q) == \A i, j \in DOMAIN q : IsSave(q[i]) /\ IsSave(q[j]) => i = j

\* A save that runs has one request out.
SaveIsOut == OneSave(queue) /\ (saving = None => \A r \in Out(queue) : ~IsSave(r))

\* A product on its way is the row, and once it was taken pristine is, but for
\* fields a request without an answer carried.
ArrivalsKnown ==
  /\ \A f \in unsure : exposed[f]
  /\ arriving # None => \A f \in Fields \ unsure : arriving[f] = server[f]
  /\ arriving = None => \A f \in Typing \ unsure : pristine[f] = server[f]

\* What the operator put in f is in the form and in every request with f; the
\* row has it, unless it is still as it was when pristine was taken; and the
\* row has it when f is no longer counted as edited.
FieldKept(f) ==
  /\ draft[f] = typed[f]
  /\ \A r \in Out(queue) : f \in DOMAIN r.changes => r.changes[f] = typed[f]
  /\ server[f] = typed[f] \/ server[f] = pristine[f]
  /\ f \notin local => server[f] = typed[f]

\* Does the save that runs send f with its request r or after it?
StillDue(r, f) ==
  \/ r.kind = "save" /\ f \in DOMAIN r.changes
  \/ r.kind = "save" /\ f = "categoryIds" /\ dirtyForCategories(saving.draft, saving.pristine)
  \/ r.kind = "categories" /\ f = "categoryIds"

\* A save takes what was typed, and the row has what it does not send.
SaveSound(f) ==
  saving # None =>
    /\ saving.draft[f] = typed[f]
    /\ \A r \in Out(queue) : IsSave(r) => StillDue(r, f) \/ server[f] = typed[f]

WillShow(r) == r.kind \in {"refresh", "publish"}

\* The publish state shown is the row's, or a product that has it, or the
\* answer that will bring one, is to come.
PublishShown ==
  /\ arriving = None => draft["isActive"] = pristine["isActive"]
  /\ \/ exposed["isActive"] \/ arriving # None \/ draft["isActive"] = server["isActive"]
     \/ \E r \in Out(queue) : WillShow(r)

WorkInv ==
  /\ EditorType
  /\ SaveIsOut
  /\ ArrivalsKnown
  /\ \A f \in Typing : ~exposed[f] => FieldKept(f) /\ SaveSound(f)
  /\ PublishShown

\* A product is read and changed field by field.
LEMMA ProductFields ==
  ASSUME NEW p
  PROVE  p \in Products <=> /\ p = [f \in Fields |-> p[f]]
                            /\ p["name"] \in Values /\ p["categoryIds"] \in Values
                            /\ p["images"] \in SUBSET Images /\ p["isActive"] \in BOOLEAN
  BY SMT DEF Products, Fields

\* A selection of fields is a set of changes.
LEMMA OnlyFields ==
  ASSUME NEW fields \in SUBSET Fields, NEW p \in Products
  PROVE  /\ Only(fields, p) \in Changes
         /\ DOMAIN Only(fields, p) = fields
         /\ \A f \in fields : Only(fields, p)[f] = p[f]
  BY DEF Only, Changes

\* Changes spread over a product give a product.
LEMMA MergedFields ==
  ASSUME NEW c \in Changes, NEW p \in Products
  PROVE  /\ DOMAIN c \subseteq Fields
         /\ mergeProductChanges(p, c) \in Products
         /\ \A f \in Fields : mergeProductChanges(p, c)[f] = IF f \in DOMAIN c THEN c[f] ELSE p[f]
PROOF
<1>1. PICK fields \in SUBSET Fields, q \in Products : c = Only(fields, q)
  BY DEF Changes
<1>2. DOMAIN c = fields /\ \A f \in fields : c[f] = q[f]
  BY <1>1, OnlyFields
<1>3. DOMAIN p = Fields /\ DOMAIN q = Fields
  BY ProductFields
<1>4. mergeProductChanges(p, c) = [f \in Fields |-> IF f \in DOMAIN c THEN c[f] ELSE p[f]]
  BY <1>3 DEF mergeProductChanges
<1>5. \A f \in Fields : mergeProductChanges(p, c)[f] = IF f \in DOMAIN c THEN c[f] ELSE p[f]
  BY <1>4
<1>6. mergeProductChanges(p, c) \in Products
  <2>1. /\ p["name"] \in Values /\ p["categoryIds"] \in Values
        /\ p["images"] \in SUBSET Images /\ p["isActive"] \in BOOLEAN
    BY ProductFields
  <2>2. /\ q["name"] \in Values /\ q["categoryIds"] \in Values
        /\ q["images"] \in SUBSET Images /\ q["isActive"] \in BOOLEAN
    BY ProductFields
  <2>3. {"name", "categoryIds", "images", "isActive"} \subseteq Fields
    BY DEF Fields
  <2>4. /\ mergeProductChanges(p, c)["name"] \in Values /\ mergeProductChanges(p, c)["categoryIds"] \in Values
        /\ mergeProductChanges(p, c)["images"] \in SUBSET Images /\ mergeProductChanges(p, c)["isActive"] \in BOOLEAN
    BY <1>2, <1>5, <2>1, <2>2, <2>3
  <2>5. mergeProductChanges(p, c) = [f \in Fields |-> mergeProductChanges(p, c)[f]]
    BY <1>4
  <2>. QED
    BY <2>4, <2>5, ProductFields
<1>. QED
  BY <1>2, <1>5, <1>6

\* What a field may hold.
FieldType(f) == IF f = "images" THEN SUBSET Images ELSE IF f = "isActive" THEN BOOLEAN ELSE Values

\* A product with one field replaced is a product.
LEMMA FieldChanged ==
  ASSUME NEW p \in Products, NEW f \in Fields, NEW v,
         v \in FieldType(f)
  PROVE  /\ [p EXCEPT ![f] = v] \in Products
         /\ \A g \in Fields : [p EXCEPT ![f] = v][g] = IF g = f THEN v ELSE p[g]
PROOF
<1>1. p = [g \in Fields |-> p[g]]
  BY ProductFields
<1>2. /\ p["name"] \in Values /\ p["categoryIds"] \in Values
      /\ p["images"] \in SUBSET Images /\ p["isActive"] \in BOOLEAN
  BY ProductFields
<1>3. \A g \in Fields : [p EXCEPT ![f] = v][g] = IF g = f THEN v ELSE p[g]
  BY <1>1
<1>4. [p EXCEPT ![f] = v] = [g \in Fields |-> [p EXCEPT ![f] = v][g]]
  BY <1>1
<1>5. {"name", "categoryIds", "images", "isActive"} \subseteq Fields
  BY DEF Fields
<1>. DEFINE q == [p EXCEPT ![f] = v]
<1>6. /\ q["name"] \in Values /\ q["categoryIds"] \in Values
      /\ q["images"] \in SUBSET Images /\ q["isActive"] \in BOOLEAN
  BY <1>2, <1>3, <1>5 DEF Fields, FieldType
<1>7. q = [g \in Fields |-> q[g]]
  BY <1>4
<1>8. q \in Products
  <2>. HIDE DEF q
  <2>. QED
    BY <1>6, <1>7, ProductFields
<1>. QED
  BY <1>3, <1>8

\* A request joins the queue at its end.
LEMMA Queued ==
  ASSUME NEW q \in Seq(Requests), NEW r \in Requests
  PROVE  /\ Append(q, r) \in Seq(Requests) /\ Out(Append(q, r)) = Out(q) \union {r}
         /\ OneSave(q) /\ (IsSave(r) => \A s \in Out(q) : ~IsSave(s)) => OneSave(Append(q, r))
PROOF
<1>1. /\ Append(q, r) \in Seq(Requests) /\ Len(Append(q, r)) = Len(q) + 1
      /\ \A i \in 1..Len(q) : Append(q, r)[i] = q[i]
      /\ Append(q, r)[Len(q) + 1] = r
  OBVIOUS
<1>2. DOMAIN q = 1..Len(q) /\ DOMAIN Append(q, r) = 1..(Len(q) + 1) /\ Len(q) \in Nat
  BY <1>1
<1>3. \A i \in 1..(Len(q) + 1) : i \in 1..Len(q) \/ i = Len(q) + 1
  BY <1>2
<1>4. Out(Append(q, r)) = Out(q) \union {r}
  <2>1. ASSUME NEW x \in Out(Append(q, r)) PROVE x \in Out(q) \union {r}
    BY <1>1, <1>2, <1>3 DEF Out
  <2>2. ASSUME NEW x \in Out(q) \union {r} PROVE x \in Out(Append(q, r))
    <3>1. CASE x \in Out(q)
      <4>1. PICK i \in 1..Len(q) : x = q[i]
        BY <3>1, <1>2 DEF Out
      <4>2. i \in 1..(Len(q) + 1) /\ Append(q, r)[i] = x
        BY <4>1, <1>1, <1>2
      <4>. QED
        BY <4>2, <1>2 DEF Out
    <3>2. CASE x = r
      BY <3>2, <1>1, <1>2 DEF Out
    <3>. QED
      BY <3>1, <3>2
  <2>. QED
    BY <2>1, <2>2
<1>5. ASSUME OneSave(q), IsSave(r) => \A s \in Out(q) : ~IsSave(s) PROVE OneSave(Append(q, r))
  <2>1. SUFFICES ASSUME NEW i \in 1..(Len(q) + 1), NEW j \in 1..(Len(q) + 1),
                        IsSave(Append(q, r)[i]), IsSave(Append(q, r)[j])
                 PROVE  i = j
    BY <1>2 DEF OneSave
  <2>2. CASE i \in 1..Len(q) /\ j \in 1..Len(q)
    BY <2>1, <2>2, <1>1, <1>2, <1>5 DEF OneSave
  <2>3. \A k \in 1..Len(q) : q[k] \in Out(q)
    BY <1>2 DEF Out
  <2>4. ~(i \in 1..Len(q) /\ j = Len(q) + 1)
    BY <2>1, <2>3, <1>1, <1>5
  <2>5. ~(j \in 1..Len(q) /\ i = Len(q) + 1)
    BY <2>1, <2>3, <1>1, <1>5
  <2>. QED
    BY <2>2, <2>4, <2>5, <1>3
<1>. QED
  BY <1>1, <1>4, <1>5

\* The first request leaves the queue.
LEMMA HeadTaken ==
  ASSUME NEW q \in Seq(Requests), q # <<>>
  PROVE  /\ Tail(q) \in Seq(Requests) /\ Head(q) \in Requests /\ Head(q) \in Out(q)
         /\ Out(q) = Out(Tail(q)) \union {Head(q)}
         /\ OneSave(q) => /\ OneSave(Tail(q))
                          /\ IsSave(Head(q)) => \A r \in Out(Tail(q)) : ~IsSave(r)
PROOF
<1>1. /\ Tail(q) \in Seq(Requests) /\ Head(q) = q[1] /\ Len(Tail(q)) = Len(q) - 1
      /\ \A i \in 1..Len(Tail(q)) : Tail(q)[i] = q[i + 1]
      /\ Len(q) \in Nat /\ Len(q) >= 1
  OBVIOUS
<1>2. DOMAIN q = 1..Len(q) /\ DOMAIN Tail(q) = 1..(Len(q) - 1)
  BY <1>1
<1>3. \A i \in 1..(Len(q) - 1) : i + 1 \in 1..Len(q) /\ i + 1 # 1 /\ Tail(q)[i] = q[i + 1]
  BY <1>1
<1>4. \A i \in 1..Len(q) : i = 1 \/ (i - 1 \in 1..(Len(q) - 1) /\ (i - 1) + 1 = i)
  BY <1>1
<1>5. 1 \in 1..Len(q)
  BY <1>1
<1>6. Out(q) = Out(Tail(q)) \union {Head(q)}
  <2>1. ASSUME NEW x \in Out(q) PROVE x \in Out(Tail(q)) \union {Head(q)}
    <3>1. PICK i \in 1..Len(q) : x = q[i]
      BY <1>2 DEF Out
    <3>2. CASE i = 1
      BY <3>1, <3>2, <1>1
    <3>3. CASE i - 1 \in 1..(Len(q) - 1) /\ (i - 1) + 1 = i
      <4>1. Tail(q)[i - 1] = x
        BY <3>1, <3>3, <1>3
      <4>. QED
        BY <4>1, <3>3, <1>2 DEF Out
    <3>. QED
      BY <3>2, <3>3, <1>4
  <2>2. ASSUME NEW x \in Out(Tail(q)) PROVE x \in Out(q)
    BY <1>2, <1>3 DEF Out
  <2>3. Head(q) \in Out(q)
    BY <1>1, <1>2, <1>5 DEF Out
  <2>. QED
    BY <2>1, <2>2, <2>3
<1>7. Head(q) \in Requests
  BY <1>1
<1>8. ASSUME OneSave(q) PROVE OneSave(Tail(q))
  <2>1. SUFFICES ASSUME NEW i \in 1..(Len(q) - 1), NEW j \in 1..(Len(q) - 1),
                        IsSave(Tail(q)[i]), IsSave(Tail(q)[j])
                 PROVE  i = j
    BY <1>2 DEF OneSave
  <2>2. i + 1 = j + 1
    BY <2>1, <1>2, <1>3, <1>8 DEF OneSave
  <2>. QED
    BY <2>2
<1>9. ASSUME OneSave(q), IsSave(Head(q)), NEW r \in Out(Tail(q)) PROVE ~IsSave(r)
  <2>1. PICK i \in 1..(Len(q) - 1) : r = Tail(q)[i]
    BY <1>2 DEF Out
  <2>. QED
    BY <2>1, <1>1, <1>2, <1>3, <1>5, <1>9 DEF OneSave
<1>. QED
  BY <1>1, <1>6, <1>7, <1>8, <1>9

\* A request carries its kind and its changes.
LEMMA RequestMade ==
  ASSUME EditorType, NEW kind \in {"refresh", "auto", "save", "categories", "publish"},
         NEW changes \in Changes
  PROVE  /\ Request(kind, changes) \in Requests
         /\ Request(kind, changes).kind = kind
         /\ Request(kind, changes).changes = changes
PROOF
<1>1. gen \in Nat /\ draft.isActive \in BOOLEAN
  BY DEF EditorType, Products
<1>. QED
  BY <1>1 DEF Request, Requests

\* A refresh carries no change.
LEMMA NoChanges ==
  ASSUME EditorType
  PROVE  /\ <<>> \in Changes /\ DOMAIN <<>> = {}
         /\ refresh \in Requests /\ refresh.kind = "refresh" /\ DOMAIN refresh.changes = {}
PROOF
<1>1. <<>> = Only({}, draft)
  BY SMT DEF Only
<1>2. <<>> \in Changes
  BY <1>1, OnlyFields DEF EditorType
<1>3. DOMAIN <<>> = {}
  BY <1>1, OnlyFields DEF EditorType
<1>. QED
  BY <1>2, <1>3, RequestMade DEF refresh

\* A change of one field by the operator.
LEMMA PutKeeps ==
  ASSUME WorkInv, NEW f \in Typing, NEW v \in FieldType(f), NEW mine \in FieldType(f),
         Put(f, v, mine), uploads' \subseteq [image : Images, sorted : SUBSET Images]
  PROVE  WorkInv'
PROOF
<1>1. /\ local' = local \union {f}
      /\ draft' = [draft EXCEPT ![f] = v] /\ pristine' = pristine
      /\ typed' = [typed EXCEPT ![f] = mine]
      /\ exposed' = [exposed EXCEPT ![f] = InFlight(f) \/ OnItsWay(f) \/ f \in unsure \/ mine # v]
      /\ UNCHANGED <<server, gen, saving, queue, arriving, unsure>>
  BY DEF Put, Commit
<1>2. EditorType
  BY DEF WorkInv
<1>3. f \in Fields /\ f # "isActive" /\ "isActive" \in Fields /\ Typing \subseteq Fields
  BY DEF Typing, Fields
<1>0. draft \in Products /\ typed \in Products
  BY <1>2 DEF EditorType
<1>4. draft' \in Products /\ \A g \in Fields : draft'[g] = IF g = f THEN v ELSE draft[g]
  <2>1. /\ [draft EXCEPT ![f] = v] \in Products
        /\ \A g \in Fields : [draft EXCEPT ![f] = v][g] = IF g = f THEN v ELSE draft[g]
    BY <1>0, <1>3, FieldChanged
  <2>. QED
    BY <2>1, <1>1
<1>5. typed' \in Products /\ \A g \in Fields : typed'[g] = IF g = f THEN mine ELSE typed[g]
  <2>1. /\ [typed EXCEPT ![f] = mine] \in Products
        /\ \A g \in Fields : [typed EXCEPT ![f] = mine][g] = IF g = f THEN mine ELSE typed[g]
    BY <1>0, <1>3, FieldChanged
  <2>. QED
    BY <2>1, <1>1
<1>6. \A g \in Fields : exposed'[g] = IF g = f THEN InFlight(f) \/ OnItsWay(f) \/ f \in unsure \/ mine # v
                                      ELSE exposed[g]
  BY <1>1, <1>2, <1>3 DEF EditorType
<1>7. EditorType'
  BY <1>1, <1>2, <1>3, <1>4, <1>5 DEF EditorType, InFlight, OnItsWay
<1>8. SaveIsOut'
  BY <1>1 DEF WorkInv, SaveIsOut, OneSave, Out
<1>9. ArrivalsKnown'
  BY <1>1, <1>2, <1>3, <1>6 DEF WorkInv, ArrivalsKnown, EditorType
<1>10. PublishShown'
  BY <1>1, <1>3, <1>4, <1>6 DEF WorkInv, PublishShown, Out
<1>11. ASSUME NEW g \in Typing, ~exposed'[g] PROVE FieldKept(g)' /\ SaveSound(g)'
  <2>1. CASE g # f
    <3>1. ~exposed[g] /\ draft'[g] = draft[g] /\ typed'[g] = typed[g]
      BY <2>1, <1>3, <1>4, <1>5, <1>6, <1>11
    <3>. QED
      BY <2>1, <3>1, <1>1, <1>11 DEF WorkInv, FieldKept, SaveSound, StillDue, Out
  <2>2. CASE g = f
    <3>1. ~InFlight(f) /\ ~OnItsWay(f) /\ f \notin unsure /\ mine = v
      BY <2>2, <1>3, <1>6, <1>11
    <3>2. saving = None /\ \A r \in Out(queue) : f \notin DOMAIN r.changes
      BY <3>1 DEF InFlight, Out
    <3>3. server[f] = pristine[f]
      BY <3>1, <1>3 DEF OnItsWay, WorkInv, ArrivalsKnown
    <3>4. draft'[f] = typed'[f]
      BY <3>1, <1>3, <1>4, <1>5
    <3>. QED
      BY <2>2, <3>2, <3>3, <3>4, <1>1 DEF FieldKept, SaveSound, Out
  <2>. QED
    BY <2>1, <2>2
<1>. QED
  BY <1>7, <1>8, <1>9, <1>10, <1>11 DEF WorkInv

\* An upload that starts or is given up changes nothing else.
LEMMA OnlyUploads ==
  ASSUME WorkInv, uploads' \subseteq [image : Images, sorted : SUBSET Images],
         UNCHANGED <<server, pristine, draft, local, gen, saving, queue, arriving, typed, exposed, unsure>>
  PROVE  WorkInv'
PROOF
<1>1. EditorType'
  BY DEF WorkInv, EditorType
<1>2. SaveIsOut' /\ ArrivalsKnown' /\ PublishShown'
  BY DEF WorkInv, SaveIsOut, ArrivalsKnown, PublishShown, Out, OneSave
<1>3. \A f \in Typing : ~exposed'[f] => FieldKept(f)' /\ SaveSound(f)'
  BY DEF WorkInv, FieldKept, SaveSound, StillDue, Out
<1>. QED
  BY <1>1, <1>2, <1>3 DEF WorkInv

\* Typing, choosing categories, and the images.
LEMMA TypingKeeps ==
  ASSUME WorkInv, TextSection \/ CategoriesTab \/ remove \/ handleFiles \/ Uploaded
  PROVE  WorkInv'
PROOF
<1>1. EditorType
  BY DEF WorkInv
<1>2. uploads \subseteq [image : Images, sorted : SUBSET Images]
  BY <1>1 DEF EditorType
<1>3. draft.images \in SUBSET Images /\ typed.images \in SUBSET Images
  BY <1>1 DEF EditorType, Products
<1>4. /\ {"name", "categoryIds", "images"} \subseteq Typing
      /\ FieldType("name") = Values /\ FieldType("categoryIds") = Values
      /\ FieldType("images") = SUBSET Images
  BY DEF Typing, Fields, FieldType
<1>5. ASSUME NEW f \in {"name", "categoryIds"}, patch(f) PROVE WorkInv'
  <2>1. PICK v \in Values : Put(f, v, v)
    BY <1>5 DEF patch
  <2>2. uploads' \subseteq [image : Images, sorted : SUBSET Images]
    BY <1>2, <1>5 DEF patch
  <2>3. f \in Typing /\ v \in FieldType(f)
    BY <1>4, <1>5
  <2>. QED
    BY <2>1, <2>2, <2>3, PutKeeps
<1>6. ASSUME remove PROVE WorkInv'
  <2>1. PICK i \in draft.images : Put("images", draft.images \ {i}, draft.images \ {i})
    BY <1>6 DEF remove
  <2>2. uploads' \subseteq [image : Images, sorted : SUBSET Images]
    BY <1>2, <1>6 DEF remove
  <2>3. draft.images \ {i} \in FieldType("images")
    BY <1>3, <1>4
  <2>. QED
    BY <2>1, <2>2, <2>3, <1>4, PutKeeps
<1>7. ASSUME handleFiles PROVE WorkInv'
  <2>1. PICK i \in Images : uploads' = uploads \union {[image |-> i, sorted |-> draft.images]}
    BY <1>7 DEF handleFiles
  <2>2. uploads' \subseteq [image : Images, sorted : SUBSET Images]
    BY <2>1, <1>2, <1>3
  <2>3. UNCHANGED <<server, pristine, draft, local, gen, saving, queue, arriving, typed, exposed, unsure>>
    BY <1>7 DEF handleFiles
  <2>. QED
    BY <2>2, <2>3, OnlyUploads
<1>8. ASSUME Uploaded PROVE WorkInv'
  <2>1. PICK u \in uploads :
          /\ uploads' = uploads \ {u}
          /\ \/ Put("images", u.sorted \union {u.image}, typed.images \union {u.image})
             \/ UNCHANGED <<server, pristine, draft, local, armed, gen, saving, status, queue, arriving, loads, typed, exposed, unsure>>
    BY <1>8 DEF Uploaded
  <2>2. u.image \in Images /\ u.sorted \in SUBSET Images
    BY <1>2
  <2>3. uploads' \subseteq [image : Images, sorted : SUBSET Images]
    BY <2>1, <1>2
  <2>4. CASE Put("images", u.sorted \union {u.image}, typed.images \union {u.image})
    <3>1. /\ u.sorted \union {u.image} \in FieldType("images")
          /\ typed.images \union {u.image} \in FieldType("images")
      BY <2>2, <1>3, <1>4
    <3>. QED
      BY <2>3, <2>4, <3>1, <1>4, PutKeeps
  <2>5. CASE UNCHANGED <<server, pristine, draft, local, armed, gen, saving, status, queue, arriving, loads, typed, exposed, unsure>>
    BY <2>3, <2>5, OnlyUploads
  <2>. QED
    BY <2>1, <2>4, <2>5
<1>. QED
  BY <1>4, <1>5, <1>6, <1>7, <1>8 DEF TextSection, CategoriesTab

\* The publish state is shown at once, and a refresh and its request follow.
LEMMA FlipKeeps ==
  ASSUME WorkInv, Flip
  PROVE  WorkInv'
PROOF
<1>. DEFINE next == ~draft.isActive
            made == Request("publish", [isActive |-> next])
<1>1. EditorType
  BY DEF WorkInv
<1>2. /\ draft' = [draft EXCEPT !.isActive = next] /\ pristine' = [pristine EXCEPT !.isActive = next]
      /\ queue' = queue \o <<refresh, made>>
      /\ UNCHANGED <<server, local, gen, saving, uploads, arriving, loads, typed, exposed, unsure>>
  BY DEF Flip, Commit
<1>3. draft \in Products /\ pristine \in Products /\ queue \in Seq(Requests) /\ "isActive" \in Fields
  BY <1>1 DEF EditorType, Fields
<1>4. next \in BOOLEAN /\ next \in FieldType("isActive")
  BY <1>3 DEF FieldType
<1>5. draft' \in Products /\ \A f \in Fields : draft'[f] = IF f = "isActive" THEN next ELSE draft[f]
  <2>. HIDE DEF next
  <2>1. /\ [draft EXCEPT !["isActive"] = next] \in Products
        /\ \A f \in Fields : [draft EXCEPT !["isActive"] = next][f] = IF f = "isActive" THEN next ELSE draft[f]
    BY <1>3, <1>4, FieldChanged
  <2>. QED
    BY <2>1, <1>2
<1>6. pristine' \in Products /\ \A f \in Fields : pristine'[f] = IF f = "isActive" THEN next ELSE pristine[f]
  <2>. HIDE DEF next
  <2>1. /\ [pristine EXCEPT !["isActive"] = next] \in Products
        /\ \A f \in Fields : [pristine EXCEPT !["isActive"] = next][f] = IF f = "isActive" THEN next ELSE pristine[f]
    BY <1>3, <1>4, FieldChanged
  <2>. QED
    BY <2>1, <1>2
<1>7. [isActive |-> next] \in Changes /\ DOMAIN [isActive |-> next] = {"isActive"}
  <2>1. [isActive |-> next] = Only({"isActive"}, draft')
    <3>. HIDE DEF next
    <3>1. draft'["isActive"] = next
      BY <1>3, <1>5
    <3>. QED
      BY <3>1, SMT DEF Only
  <2>2. {"isActive"} \in SUBSET Fields
    BY <1>3
  <2>. QED
    BY <2>1, <2>2, <1>5, OnlyFields
<1>8. made \in Requests /\ made.kind = "publish" /\ made.changes = [isActive |-> next]
  <2>. HIDE DEF next
  <2>. QED
    BY <1>1, <1>7, RequestMade
<1>. HIDE DEF made
<1>9. /\ refresh \in Requests /\ refresh.kind = "refresh" /\ DOMAIN refresh.changes = {}
  BY <1>1, NoChanges
<1>10. queue' = Append(Append(queue, refresh), made)
  BY <1>2, <1>3, <1>8, <1>9
<1>11. queue' \in Seq(Requests) /\ Out(queue') = Out(queue) \union {refresh, made}
       /\ (OneSave(queue) => OneSave(queue'))
  <2>1. Append(queue, refresh) \in Seq(Requests) /\ Out(Append(queue, refresh)) = Out(queue) \union {refresh}
        /\ (OneSave(queue) => OneSave(Append(queue, refresh)))
    BY <1>3, <1>9, Queued DEF IsSave
  <2>2. Append(Append(queue, refresh), made) \in Seq(Requests)
        /\ Out(Append(Append(queue, refresh), made)) = Out(Append(queue, refresh)) \union {made}
        /\ (OneSave(Append(queue, refresh)) => OneSave(Append(Append(queue, refresh), made)))
    BY <2>1, <1>8, Queued DEF IsSave
  <2>. QED
    BY <2>1, <2>2, <1>10
<1>12. Carried(refresh) /\ Carried(made)
  BY <1>7, <1>8, <1>9 DEF Carried
<1>13. EditorType'
  BY <1>1, <1>2, <1>5, <1>6, <1>11, <1>12 DEF EditorType, Out
<1>14. SaveIsOut'
  BY <1>2, <1>8, <1>9, <1>11 DEF WorkInv, SaveIsOut, IsSave
<1>15. ArrivalsKnown'
  BY <1>2, <1>6 DEF WorkInv, ArrivalsKnown, Typing
<1>16. PublishShown'
  BY <1>5, <1>6, <1>3, <1>9, <1>11 DEF PublishShown, WillShow
<1>17. ASSUME NEW f \in Typing, ~exposed'[f] PROVE FieldKept(f)' /\ SaveSound(f)'
  <2>1. f \in Fields /\ f # "isActive" /\ ~exposed[f]
    BY <1>2, <1>17 DEF Typing
  <2>2. draft'[f] = draft[f] /\ pristine'[f] = pristine[f]
    BY <2>1, <1>5, <1>6
  <2>3. FieldKept(f) /\ SaveSound(f)
    BY <2>1 DEF WorkInv, Typing
  <2>4. f \notin DOMAIN refresh.changes /\ f \notin DOMAIN made.changes
    BY <2>1, <1>7, <1>8, <1>9
  <2>5. FieldKept(f)'
    BY <2>2, <2>3, <2>4, <1>2, <1>11 DEF FieldKept
  <2>6. SaveSound(f)'
    BY <2>3, <1>2, <1>8, <1>9, <1>11 DEF SaveSound, StillDue, IsSave
  <2>. QED
    BY <2>5, <2>6
<1>. QED
  BY <1>13, <1>14, <1>15, <1>16, <1>17 DEF WorkInv

\* The difference from what was saved is a set of changes of the form.
LEMMA Difference ==
  ASSUME NEW d \in Products, NEW p
  PROVE  /\ buildProductDiff(d, p) \in Changes
         /\ DOMAIN buildProductDiff(d, p) = {f \in Own : d[f] # p[f]}
         /\ \A f \in DOMAIN buildProductDiff(d, p) : buildProductDiff(d, p)[f] = d[f]
PROOF
<1>1. {f \in Own : d[f] # p[f]} \in SUBSET Fields
  BY DEF Own, Fields
<1>. QED
  BY <1>1, OnlyFields DEF buildProductDiff

\* A request that carries what the form shows, from the timer or from a save.
LEMMA SentKeeps ==
  ASSUME WorkInv, NEW r \in Requests, Carried(r), queue' = Append(queue, r),
         \A f \in DOMAIN r.changes : r.changes[f] = draft[f],
         IsSave(r) => saving = None
  PROVE  /\ queue' \in Seq(Requests) /\ Out(queue') = Out(queue) \union {r}
         /\ OneSave(queue')
         /\ \A s \in Out(queue') : Carried(s)
         /\ \A f \in Typing : ~exposed[f] =>
              \A s \in Out(queue') : f \in DOMAIN s.changes => s.changes[f] = typed[f]
PROOF
<1>1. queue \in Seq(Requests) /\ \A s \in Out(queue) : Carried(s)
  BY DEF WorkInv, EditorType, Out
<1>2. OneSave(queue) /\ (IsSave(r) => \A s \in Out(queue) : ~IsSave(s))
  BY DEF WorkInv, SaveIsOut
<1>3. queue' \in Seq(Requests) /\ Out(queue') = Out(queue) \union {r} /\ OneSave(queue')
  BY <1>1, <1>2, Queued
<1>4. ASSUME NEW f \in Typing, ~exposed[f], NEW s \in Out(queue'), f \in DOMAIN s.changes
      PROVE  s.changes[f] = typed[f]
  <2>1. FieldKept(f)
    BY <1>4 DEF WorkInv
  <2>. QED
    BY <2>1, <1>3, <1>4 DEF FieldKept
<1>. QED
  BY <1>1, <1>3, <1>4

\* A save or an autosave carries the difference.
LEMMA DifferenceRequested ==
  ASSUME EditorType, NEW kind \in {"auto", "save"}
  PROVE  LET r == Request(kind, buildProductDiff(draft, pristine))
         IN  /\ r \in Requests /\ r.kind = kind
             /\ DOMAIN r.changes = {f \in Own : draft[f] # pristine[f]}
             /\ \A f \in DOMAIN r.changes : r.changes[f] = draft[f]
PROOF
<1>. DEFINE c == buildProductDiff(draft, pristine)
<1>1. draft \in Products
  BY DEF EditorType
<1>2. /\ c \in Changes /\ DOMAIN c = {f \in Own : draft[f] # pristine[f]}
      /\ \A f \in DOMAIN c : c[f] = draft[f]
  BY <1>1, Difference
<1>. HIDE DEF c
<1>3. Request(kind, c) \in Requests /\ Request(kind, c).kind = kind /\ Request(kind, c).changes = c
  BY <1>2, RequestMade
<1>4. /\ Request(kind, c) \in Requests /\ Request(kind, c).kind = kind
      /\ DOMAIN Request(kind, c).changes = {f \in Own : draft[f] # pristine[f]}
      /\ \A f \in DOMAIN Request(kind, c).changes : Request(kind, c).changes[f] = draft[f]
  BY <1>2, <1>3
<1>. QED
  BY <1>4 DEF c

\* The PUT of the categories carries them alone.
LEMMA CategoriesRequested ==
  ASSUME EditorType, NEW given \in Products
  PROVE  LET r == Request("categories", Only({"categoryIds"}, given))
         IN  /\ r \in Requests /\ r.kind = "categories"
             /\ DOMAIN r.changes = {"categoryIds"}
             /\ \A f \in DOMAIN r.changes : r.changes[f] = given[f]
PROOF
<1>. DEFINE c == Only({"categoryIds"}, given)
<1>1. {"categoryIds"} \in SUBSET Fields
  BY DEF Fields
<1>2. c \in Changes /\ DOMAIN c = {"categoryIds"} /\ \A f \in DOMAIN c : c[f] = given[f]
  BY <1>1, OnlyFields
<1>. HIDE DEF c
<1>3. /\ Request("categories", c) \in Requests /\ Request("categories", c).kind = "categories"
      /\ Request("categories", c).changes = c
  BY <1>2, RequestMade
<1>4. /\ Request("categories", c) \in Requests /\ Request("categories", c).kind = "categories"
      /\ DOMAIN Request("categories", c).changes = {"categoryIds"}
      /\ \A f \in DOMAIN Request("categories", c).changes : Request("categories", c).changes[f] = given[f]
  BY <1>2, <1>3
<1>. QED
  BY <1>4 DEF c

\* The autosave timer.
LEMMA TimerKeeps ==
  ASSUME WorkInv, TimerFires
  PROVE  WorkInv'
PROOF
<1>. DEFINE r == Request("auto", buildProductDiff(draft, pristine))
<1>1. /\ queue' = Append(queue, r)
      /\ UNCHANGED <<server, pristine, draft, local, gen, saving, uploads, arriving, typed, exposed, unsure>>
  BY DEF TimerFires
<1>2. EditorType /\ draft \in Products
  BY DEF WorkInv, EditorType
<1>3. /\ r \in Requests /\ r.kind = "auto" /\ DOMAIN r.changes \subseteq Own
      /\ \A f \in DOMAIN r.changes : r.changes[f] = draft[f]
  BY <1>2, DifferenceRequested
<1>. HIDE DEF r
<1>4. Carried(r) /\ ~IsSave(r) /\ ~WillShow(r)
  BY <1>3 DEF Carried, IsSave, WillShow
<1>5. /\ queue' \in Seq(Requests) /\ Out(queue') = Out(queue) \union {r}
      /\ OneSave(queue')
      /\ \A s \in Out(queue') : Carried(s)
      /\ \A f \in Typing : ~exposed[f] =>
           \A s \in Out(queue') : f \in DOMAIN s.changes => s.changes[f] = typed[f]
  BY <1>1, <1>3, <1>4, SentKeeps
<1>6. EditorType'
  BY <1>1, <1>2, <1>5 DEF EditorType, Out
<1>7. SaveIsOut' /\ ArrivalsKnown' /\ PublishShown'
  BY <1>1, <1>4, <1>5 DEF WorkInv, SaveIsOut, ArrivalsKnown, PublishShown
<1>8. ASSUME NEW f \in Typing, ~exposed'[f] PROVE FieldKept(f)' /\ SaveSound(f)'
  <2>1. ~exposed[f] /\ FieldKept(f) /\ SaveSound(f)
    BY <1>1, <1>8 DEF WorkInv
  <2>2. FieldKept(f)'
    BY <2>1, <1>1, <1>5 DEF FieldKept
  <2>3. SaveSound(f)'
    BY <2>1, <1>1, <1>4, <1>5 DEF SaveSound, StillDue
  <2>. QED
    BY <2>2, <2>3
<1>. QED
  BY <1>6, <1>7, <1>8 DEF WorkInv

\* The save bar: what differs from pristine is sent, now or by the next request,
\* and what does not differ is in the row already.
LEMMA SaveKeeps ==
  ASSUME WorkInv, handleSave
  PROVE  WorkInv'
PROOF
<1>. DEFINE r == IF hasNonCategoryDiff(draft, pristine)
                 THEN Request("save", buildProductDiff(draft, pristine))
                 ELSE Request("categories", Only({"categoryIds"}, draft))
<1>1. /\ saving = None
      /\ gen' = gen + 1
      /\ saving' = [draft |-> draft, pristine |-> pristine]
      /\ queue' = Append(queue, r)
      /\ UNCHANGED <<server, pristine, draft, local, uploads, arriving, typed, exposed, unsure>>
  BY DEF handleSave
<1>0. dirty(draft, pristine)
  BY DEF handleSave
<1>2. EditorType /\ draft \in Products /\ pristine \in Products /\ gen \in Nat
  BY DEF WorkInv, EditorType
<1>3. hasNonCategoryDiff(draft, pristine) <=> {f \in Own : draft[f] # pristine[f]} # {}
  BY <1>2, Difference DEF hasNonCategoryDiff
<1>4. /\ r \in Requests /\ \A f \in DOMAIN r.changes : r.changes[f] = draft[f]
      /\ \/ /\ r.kind = "save" /\ DOMAIN r.changes = {f \in Own : draft[f] # pristine[f]}
         \/ /\ r.kind = "categories" /\ DOMAIN r.changes = {"categoryIds"}
            /\ {f \in Own : draft[f] # pristine[f]} = {}
  <2>1. CASE hasNonCategoryDiff(draft, pristine)
    <3>1. r = Request("save", buildProductDiff(draft, pristine))
      BY <2>1
    <3>. QED
      BY <3>1, <1>2, DifferenceRequested
  <2>2. CASE ~hasNonCategoryDiff(draft, pristine)
    <3>1. r = Request("categories", Only({"categoryIds"}, draft))
      BY <2>2
    <3>. QED
      BY <3>1, <2>2, <1>2, <1>3, CategoriesRequested
  <2>. QED
    BY <2>1, <2>2
<1>. HIDE DEF r
<1>5. PICK made \in Requests : made = r
  BY <1>4
<1>6. Carried(made) /\ IsSave(made) /\ ~WillShow(made)
  BY <1>4, <1>5 DEF Carried, IsSave, WillShow
<1>7. /\ queue' \in Seq(Requests) /\ Out(queue') = Out(queue) \union {made}
      /\ OneSave(queue')
      /\ \A s \in Out(queue') : Carried(s)
      /\ \A f \in Typing : ~exposed[f] =>
           \A s \in Out(queue') : f \in DOMAIN s.changes => s.changes[f] = typed[f]
  BY <1>1, <1>4, <1>5, <1>6, SentKeeps
<1>8. /\ saving' \in [draft : Products, pristine : Products] /\ saving' # None
      /\ saving'.draft = draft /\ saving'.pristine = pristine
  BY <1>1, <1>2, EditorAssumption
<1>9. EditorType'
  BY <1>1, <1>2, <1>7, <1>8 DEF EditorType, Out
<1>10. SaveIsOut' /\ ArrivalsKnown' /\ PublishShown'
  BY <1>1, <1>6, <1>7, <1>8 DEF WorkInv, SaveIsOut, ArrivalsKnown, PublishShown
<1>11. ASSUME NEW f \in Typing, ~exposed'[f] PROVE FieldKept(f)' /\ SaveSound(f)'
  <2>1. ~exposed[f] /\ FieldKept(f)
    BY <1>1, <1>11 DEF WorkInv
  <2>2. FieldKept(f)'
    BY <2>1, <1>1, <1>7 DEF FieldKept
  <2>3. \A s \in Out(queue) : ~IsSave(s)
    BY <1>1 DEF WorkInv, SaveIsOut
  <2>4. StillDue(made, f)' \/ server[f] = typed[f]
    <3>1. CASE draft[f] = pristine[f]
      BY <3>1, <2>1 DEF FieldKept
    <3>2. CASE draft[f] # pristine[f] /\ f \in Own
      BY <3>2, <1>4, <1>5 DEF StillDue
    <3>3. CASE draft[f] # pristine[f] /\ f = "categoryIds"
      <4>1. draft.categoryIds # pristine.categoryIds
        BY <3>3
      <4>2. dirtyForCategories(saving.draft, saving.pristine)'
        BY <4>1, <1>8 DEF dirtyForCategories
      <4>. QED
        BY <4>2, <3>3, <1>4, <1>5 DEF StillDue
    <3>. QED
      BY <3>1, <3>2, <3>3 DEF Typing, Fields, Own
  <2>5. SaveSound(f)'
    BY <2>1, <2>3, <2>4, <1>1, <1>7, <1>8 DEF SaveSound, FieldKept
  <2>. QED
    BY <2>2, <2>5
<1>. QED
  BY <1>9, <1>10, <1>11 DEF WorkInv

\* Discarding: the form is pristine again, and so is the row.
LEMMA DiscardKeeps ==
  ASSUME WorkInv, handleDiscard
  PROVE  WorkInv'
PROOF
<1>1. /\ saving = None
      /\ draft' = pristine /\ pristine' = pristine /\ local' = {} /\ typed' = pristine
      /\ exposed' = [f \in Fields |-> exposed[f] \/ InFlight(f) \/ f \in unsure \/ OnItsWay(f)]
      /\ UNCHANGED <<server, gen, saving, uploads, queue, arriving, unsure>>
  BY DEF handleDiscard, Commit
<1>2. EditorType
  BY DEF WorkInv
<1>3. EditorType'
  BY <1>1, <1>2 DEF EditorType, InFlight, OnItsWay
<1>4. SaveIsOut'
  BY <1>1 DEF WorkInv, SaveIsOut
<1>5. ArrivalsKnown'
  BY <1>1, <1>2 DEF WorkInv, ArrivalsKnown, EditorType
<1>6. PublishShown'
  <2>1. "isActive" \in Fields
    BY DEF Fields
  <2>. QED
    BY <2>1, <1>1 DEF WorkInv, PublishShown
<1>7. ASSUME NEW f \in Typing, ~exposed'[f] PROVE FieldKept(f)' /\ SaveSound(f)'
  <2>1. f \in Fields
    BY DEF Typing
  <2>2. ~InFlight(f) /\ f \notin unsure /\ ~OnItsWay(f)
    BY <2>1, <1>1, <1>7
  <2>3. \A r \in Out(queue) : f \notin DOMAIN r.changes
    BY <2>2 DEF InFlight, Out
  <2>4. server[f] = pristine[f]
    BY <2>1, <2>2 DEF WorkInv, ArrivalsKnown, OnItsWay
  <2>. QED
    BY <2>3, <2>4, <1>1 DEF FieldKept, SaveSound
<1>. QED
  BY <1>3, <1>4, <1>5, <1>6, <1>7 DEF WorkInv

\* A product is taken over as Reconcile says.
LEMMA Reconciled ==
  ASSUME NEW given \in Products, NEW current \in Products, NEW kept \in SUBSET Fields
  PROVE  /\ Reconcile(given, current, kept) \in Products
         /\ \A f \in Fields : Reconcile(given, current, kept)[f] = IF f \in kept THEN current[f] ELSE given[f]
PROOF
<1>. DEFINE c == Only(kept, current)
<1>1. c \in Changes /\ DOMAIN c = kept /\ \A f \in kept : c[f] = current[f]
  BY OnlyFields
<1>2. Reconcile(given, current, kept) = mergeProductChanges(given, c)
  BY DEF Reconcile
<1>. HIDE DEF c
<1>. QED
  BY <1>1, <1>2, MergedFields

\* A product arrives: it has what was typed in the fields no longer counted as
\* edited.
LEMMA DeliveryKeeps ==
  ASSUME WorkInv, Delivered
  PROVE  WorkInv'
PROOF
<1>1. /\ arriving # None /\ arriving' = None
      /\ draft' = Reconcile(arriving, draft, local) /\ pristine' = arriving
      /\ UNCHANGED <<server, local, gen, saving, uploads, queue, typed, exposed, unsure>>
  BY DEF Delivered, Commit
<1>2. EditorType /\ arriving \in Products /\ draft \in Products /\ local \in SUBSET Fields /\ "isActive" \notin local
  BY <1>1 DEF WorkInv, EditorType, Typing
<1>3. /\ draft' \in Products
      /\ \A f \in Fields : draft'[f] = IF f \in local THEN draft[f] ELSE arriving[f]
  BY <1>1, <1>2, Reconciled
<1>4. EditorType'
  BY <1>1, <1>2, <1>3 DEF EditorType
<1>5. SaveIsOut'
  BY <1>1 DEF WorkInv, SaveIsOut
<1>6. \A f \in Fields \ unsure : arriving[f] = server[f]
  BY <1>1 DEF WorkInv, ArrivalsKnown
<1>7. ArrivalsKnown'
  BY <1>1, <1>6 DEF WorkInv, ArrivalsKnown, Typing
<1>8. PublishShown'
  <2>1. "isActive" \in Fields
    BY DEF Fields
  <2>2. draft'["isActive"] = arriving["isActive"]
    BY <2>1, <1>2, <1>3
  <2>3. exposed["isActive"] \/ arriving["isActive"] = server["isActive"]
    BY <2>1, <1>6 DEF WorkInv, ArrivalsKnown
  <2>. QED
    BY <2>2, <2>3, <1>1 DEF PublishShown
<1>9. ASSUME NEW f \in Typing, ~exposed'[f] PROVE FieldKept(f)' /\ SaveSound(f)'
  <2>1. f \in Fields /\ f \notin unsure /\ FieldKept(f) /\ SaveSound(f)
    BY <1>1, <1>9 DEF Typing, WorkInv, ArrivalsKnown
  <2>2. arriving[f] = server[f]
    BY <2>1, <1>6
  <2>3. FieldKept(f)'
    BY <2>1, <2>2, <1>1, <1>3 DEF FieldKept
  <2>4. SaveSound(f)'
    BY <2>1, <1>1 DEF SaveSound, StillDue
  <2>. QED
    BY <2>3, <2>4
<1>. QED
  BY <1>4, <1>5, <1>7, <1>8, <1>9 DEF WorkInv

\* Loading the page: what was sent may have been served, the rest is gone.
LEMMA ReloadKeeps ==
  ASSUME WorkInv, Reload
  PROVE  WorkInv'
PROOF
<1>. DEFINE sent == IF queue = <<>> THEN <<>> ELSE Head(queue).changes
<1>1. /\ server' \in {server, mergeProductChanges(server, sent)}
      /\ unsure' = unsure \union DOMAIN sent
      /\ local' = {} /\ gen' = 0 /\ saving' = None /\ uploads' = {} /\ queue' = <<>> /\ arriving' = None
      /\ typed' = typed
  BY DEF Reload
<1>2. PICK given \in {server, server'} :
        /\ pristine' = given
        /\ draft' = Mounted(given, IF dirty(draft, pristine) THEN draft ELSE None)
        /\ exposed' = [f \in Fields |-> exposed[f] \/ draft[f] # given[f] \/ f \in DOMAIN sent]
  BY DEF Reload
<1>3. EditorType
  BY DEF WorkInv
<1>4. sent \in Changes
  <2>1. CASE queue = <<>>
    BY <2>1, <1>3, NoChanges
  <2>2. CASE queue # <<>>
    <3>1. Head(queue) \in Requests
      BY <2>2, <1>3, HeadTaken DEF EditorType
    <3>. QED
      BY <2>2, <3>1 DEF Requests
  <2>. QED
    BY <2>1, <2>2
<1>. HIDE DEF sent
<1>5. server \in Products /\ draft \in Products /\ typed \in Products
  BY <1>3 DEF EditorType
<1>6. /\ DOMAIN sent \subseteq Fields
      /\ server' \in Products
      /\ \A f \in Fields : f \notin DOMAIN sent => server'[f] = server[f]
  BY <1>1, <1>4, <1>5, MergedFields
<1>7. given \in Products /\ \A f \in Fields : f \notin DOMAIN sent => given[f] = server[f]
  BY <1>2, <1>5, <1>6
<1>8. draft' \in Products /\ \A f \in Fields : draft'[f] = given[f]
  <2>1. \A restored \in Products :
          /\ Reconcile(given, restored, {}) \in Products
          /\ \A f \in Fields : Reconcile(given, restored, {})[f] = given[f]
    BY <1>7, Reconciled
  <2>. DEFINE backup == IF dirty(draft, pristine) THEN draft ELSE None
              c == Only(Own \union {"categoryIds"}, draft)
              restored == IF backup # None THEN mergeProductChanges(given, Only(Own \union {"categoryIds"}, backup)) ELSE given
  <2>2. restored \in Products
    <3>1. CASE backup # None
      <4>1. backup = draft
        BY <3>1
      <4>2. c \in Changes
        <5>1. Own \union {"categoryIds"} \in SUBSET Fields
          BY DEF Own, Fields
        <5>. QED
          BY <5>1, <1>5, OnlyFields
      <4>3. restored = mergeProductChanges(given, c)
        BY <3>1, <4>1
      <4>. HIDE DEF c, restored
      <4>. QED
        BY <4>2, <4>3, <1>7, MergedFields
    <3>2. CASE backup = None
      BY <3>2, <1>7
    <3>. QED
      BY <3>1, <3>2
  <2>3. draft' = Reconcile(given, restored, {})
    BY <1>2 DEF Mounted
  <2>. HIDE DEF restored
  <2>. QED
    BY <2>1, <2>2, <2>3
<1>9. \A f \in Fields : ~exposed'[f] => ~exposed[f] /\ draft[f] = given[f] /\ f \notin DOMAIN sent
  BY <1>2
<1>10. Out(queue') = {} /\ queue' \in Seq(Requests) /\ OneSave(queue')
  BY <1>1 DEF Out, OneSave
<1>11. exposed' \in [Fields -> BOOLEAN]
  <2>1. \A f \in Fields : (exposed[f] \/ draft[f] # given[f] \/ f \in DOMAIN sent) \in BOOLEAN
    BY <1>3 DEF EditorType
  <2>. QED
    BY <2>1, <1>2
<1>12. EditorType'
  BY <1>1, <1>2, <1>3, <1>5, <1>6, <1>7, <1>8, <1>10, <1>11 DEF EditorType, Out
<1>13. SaveIsOut'
  BY <1>1, <1>10 DEF SaveIsOut
<1>14. ArrivalsKnown'
  <2>1. \A f \in unsure' : f \in Fields /\ exposed'[f]
    BY <1>1, <1>2, <1>3, <1>6 DEF WorkInv, ArrivalsKnown, EditorType
  <2>2. \A f \in Typing \ unsure' : pristine'[f] = server'[f]
    BY <1>1, <1>2, <1>6, <1>7 DEF Typing
  <2>. QED
    BY <2>1, <2>2, <1>1 DEF ArrivalsKnown
<1>15. PublishShown'
  <2>1. "isActive" \in Fields
    BY DEF Fields
  <2>2. draft'["isActive"] = pristine'["isActive"]
    BY <2>1, <1>2, <1>8
  <2>3. exposed'["isActive"] \/ draft'["isActive"] = server'["isActive"]
    BY <2>1, <1>6, <1>7, <1>8, <1>9
  <2>. QED
    BY <2>2, <2>3 DEF PublishShown
<1>16. ASSUME NEW f \in Typing, ~exposed'[f] PROVE FieldKept(f)' /\ SaveSound(f)'
  <2>1. f \in Fields
    BY DEF Typing
  <2>2. ~exposed[f] /\ draft[f] = given[f] /\ f \notin DOMAIN sent
    BY <2>1, <1>9, <1>16
  <2>3. draft[f] = typed[f]
    BY <2>2 DEF WorkInv, FieldKept
  <2>4. draft'[f] = typed[f] /\ server'[f] = typed[f]
    BY <2>1, <2>2, <2>3, <1>6, <1>7, <1>8
  <2>. QED
    BY <2>4, <1>1, <1>10 DEF FieldKept, SaveSound
<1>. QED
  BY <1>12, <1>13, <1>14, <1>15, <1>16 DEF WorkInv

\* What an answer does to the row, the product on its way and the histories.
Effects(r, outcome) ==
  /\ server' = IF outcome = "refused" THEN server ELSE mergeProductChanges(server, r.changes)
  /\ arriving' = IF outcome = "ok" THEN server' ELSE arriving
  /\ unsure' = IF outcome = "lost" THEN unsure \union DOMAIN r.changes ELSE unsure
  /\ exposed' = [f \in Fields |-> exposed[f] \/ f \in unsure' \ unsure]
  /\ UNCHANGED <<gen, uploads, typed>>

\* Field by field: the row has the change or is as before, and an answer that
\* was lost is remembered.
LEMMA EffectFields ==
  ASSUME WorkInv, NEW outcome \in {"ok", "refused", "lost"}, NEW r \in Out(queue), Effects(r, outcome)
  PROVE  /\ server' \in Products /\ (arriving' \in Products \/ arriving' = None)
         /\ exposed' \in [Fields -> BOOLEAN] /\ unsure' \subseteq Fields
         /\ outcome = "ok" => arriving' = server' /\ arriving' # None
         /\ outcome # "ok" => arriving' = arriving
         /\ \A f \in unsure' : exposed'[f]
         /\ arriving' # None => \A f \in Fields \ unsure' : arriving'[f] = server'[f]
         /\ \A f \in Fields \ unsure' :
              \/ server'[f] = server[f] /\ (outcome = "ok" => f \notin DOMAIN r.changes)
              \/ outcome = "ok" /\ f \in DOMAIN r.changes /\ server'[f] = r.changes[f]
         /\ \A f \in Fields : ~exposed'[f] => ~exposed[f] /\ f \notin unsure'
PROOF
<1>1. /\ EditorType /\ server \in Products /\ r \in Requests
      /\ exposed \in [Fields -> BOOLEAN] /\ unsure \subseteq Fields
      /\ arriving \in Products \union {None}
  BY DEF WorkInv, EditorType, Out
<1>2. r.changes \in Changes
  BY <1>1 DEF Requests
<1>3. /\ DOMAIN r.changes \subseteq Fields
      /\ mergeProductChanges(server, r.changes) \in Products
      /\ \A f \in Fields : mergeProductChanges(server, r.changes)[f]
                             = IF f \in DOMAIN r.changes THEN r.changes[f] ELSE server[f]
  BY <1>1, <1>2, MergedFields
<1>. DEFINE merged == mergeProductChanges(server, r.changes)
<1>4. /\ server' = IF outcome = "refused" THEN server ELSE merged
      /\ arriving' = IF outcome = "ok" THEN server' ELSE arriving
      /\ unsure' = IF outcome = "lost" THEN unsure \union DOMAIN r.changes ELSE unsure
      /\ exposed' = [f \in Fields |-> exposed[f] \/ f \in unsure' \ unsure]
  BY DEF Effects
<1>. HIDE DEF merged
<1>5. server' \in Products /\ (arriving' \in Products \/ arriving' = None)
  BY <1>1, <1>3, <1>4 DEF merged
<1>6. unsure' \subseteq Fields
  BY <1>1, <1>3, <1>4
<1>7. exposed' \in [Fields -> BOOLEAN]
  <2>1. \A f \in Fields : (exposed[f] \/ f \in unsure' \ unsure) \in BOOLEAN
    BY <1>1
  <2>. QED
    BY <2>1, <1>4
<1>8. outcome = "ok" => arriving' = server' /\ arriving' # None
  BY <1>4, <1>5, EditorAssumption
<1>9. outcome # "ok" => arriving' = arriving
  BY <1>4
<1>10. \A f \in unsure' : exposed'[f]
  BY <1>1, <1>4, <1>6 DEF WorkInv, ArrivalsKnown
<1>11. \A f \in Fields \ unsure' :
         \/ server'[f] = server[f] /\ (outcome = "ok" => f \notin DOMAIN r.changes)
         \/ outcome = "ok" /\ f \in DOMAIN r.changes /\ server'[f] = r.changes[f]
  <2>1. SUFFICES ASSUME NEW f \in Fields \ unsure'
                 PROVE \/ server'[f] = server[f] /\ (outcome = "ok" => f \notin DOMAIN r.changes)
                       \/ outcome = "ok" /\ f \in DOMAIN r.changes /\ server'[f] = r.changes[f]
    OBVIOUS
  <2>2. CASE outcome = "refused"
    BY <2>2, <1>4
  <2>3. CASE outcome = "lost"
    <3>1. f \notin DOMAIN r.changes
      BY <2>3, <1>4
    <3>2. server' = merged
      BY <2>3, <1>4
    <3>. QED
      BY <2>3, <3>1, <3>2, <1>3 DEF merged
  <2>4. CASE outcome = "ok"
    <3>1. server' = merged
      BY <2>4, <1>4
    <3>. QED
      BY <2>4, <3>1, <1>3 DEF merged
  <2>. QED
    BY <2>2, <2>3, <2>4
<1>12. arriving' # None => \A f \in Fields \ unsure' : arriving'[f] = server'[f]
  <2>1. CASE outcome = "ok"
    BY <2>1, <1>8
  <2>2. CASE outcome # "ok"
    <3>1. \A f \in Fields \ unsure' : f \notin unsure /\ server'[f] = server[f]
      BY <2>2, <1>4, <1>11
    <3>. QED
      BY <2>2, <3>1, <1>9 DEF WorkInv, ArrivalsKnown
  <2>. QED
    BY <2>1, <2>2
<1>13. \A f \in Fields : ~exposed'[f] => ~exposed[f] /\ f \notin unsure'
  BY <1>4, <1>10
<1>. QED
  BY <1>5, <1>6, <1>7, <1>8, <1>9, <1>10, <1>11, <1>12, <1>13

\* What every answer has in common: the form keeps what was typed, and the row
\* has it once a request with it was served.
LEMMA AnswerKeeps ==
  ASSUME WorkInv, NEW outcome \in {"ok", "refused", "lost"}, NEW r \in Out(queue), Effects(r, outcome),
         queue' \in Seq(Requests), OneSave(queue'), \A s \in Out(queue') : Carried(s),
         draft' \in Products, pristine' \in Products, local' \subseteq local, saving' \in {saving, None},
         saving' = None => \A s \in Out(queue') : ~IsSave(s),
         \A f \in Typing : draft'[f] = draft[f] /\ (outcome # "ok" => pristine'[f] = pristine[f]),
         \A f \in Typing : ~exposed'[f] =>
           /\ pristine'[f] = pristine[f] \/ server'[f] = typed[f]
           /\ f \in local \ local' => server'[f] = typed[f]
           /\ \A s \in Out(queue') \ Out(queue) :
                /\ f \in DOMAIN s.changes => s.changes[f] = typed[f]
                /\ saving' # None /\ IsSave(s) => StillDue(s, f) \/ server'[f] = typed[f],
         PublishShown'
  PROVE  WorkInv'
PROOF
<1>1. EditorType
  BY DEF WorkInv
<1>2. /\ server' \in Products /\ (arriving' \in Products \/ arriving' = None)
      /\ exposed' \in [Fields -> BOOLEAN] /\ unsure' \subseteq Fields
      /\ \A f \in unsure' : exposed'[f]
      /\ arriving' # None => \A f \in Fields \ unsure' : arriving'[f] = server'[f]
      /\ outcome = "ok" => arriving' # None
      /\ outcome # "ok" => arriving' = arriving
  BY EffectFields
<1>3. \A f \in Fields \ unsure' :
        \/ server'[f] = server[f] /\ (outcome = "ok" => f \notin DOMAIN r.changes)
        \/ outcome = "ok" /\ f \in DOMAIN r.changes /\ server'[f] = r.changes[f]
  BY EffectFields
<1>4. gen' = gen /\ uploads' = uploads /\ typed' = typed /\ unsure \subseteq unsure'
  BY DEF Effects
<1>5. EditorType'
  BY <1>1, <1>2, <1>4 DEF EditorType, Out
<1>6. SaveIsOut'
  BY DEF SaveIsOut
<1>7. ArrivalsKnown'
  <2>1. ASSUME arriving' = None, NEW f \in Typing \ unsure' PROVE pristine'[f] = server'[f]
    <3>1. outcome # "ok" /\ arriving = None
      BY <2>1, <1>2
    <3>2. f \in Fields \ unsure' /\ f \notin unsure
      BY <2>1, <1>4 DEF Typing
    <3>3. server'[f] = server[f] /\ pristine'[f] = pristine[f]
      BY <3>1, <3>2, <1>3
    <3>. QED
      BY <3>1, <3>2, <3>3 DEF WorkInv, ArrivalsKnown
  <2>. QED
    BY <2>1, <1>2 DEF ArrivalsKnown
<1>8. ASSUME NEW f \in Typing, ~exposed'[f] PROVE FieldKept(f)' /\ SaveSound(f)'
  <2>1. f \in Fields /\ ~exposed[f] /\ f \notin unsure'
    BY <1>8, EffectFields DEF Typing
  <2>2. FieldKept(f) /\ SaveSound(f)
    BY <2>1 DEF WorkInv
  <2>3. server'[f] = server[f] \/ server'[f] = typed[f]
    BY <2>1, <2>2, <1>3 DEF FieldKept
  <2>4. \A s \in Out(queue') : f \in DOMAIN s.changes => s.changes[f] = typed[f]
    BY <2>2, <1>8 DEF FieldKept
  <2>5. FieldKept(f)'
    <3>1. draft'[f] = typed'[f]
      BY <2>2, <1>4 DEF FieldKept
    <3>2. server'[f] = typed'[f] \/ server'[f] = pristine'[f]
      BY <2>2, <2>3, <1>4, <1>8 DEF FieldKept
    <3>3. f \notin local' => server'[f] = typed'[f]
      BY <2>2, <2>3, <1>4, <1>8 DEF FieldKept
    <3>. QED
      BY <2>4, <3>1, <3>2, <3>3, <1>4 DEF FieldKept
  <2>6. SaveSound(f)'
    <3>1. SUFFICES ASSUME saving' # None PROVE SaveSound(f)'
      BY DEF SaveSound
    <3>2. saving' = saving
      BY <3>1
    <3>3. \A s \in Out(queue') : IsSave(s) => StillDue(s, f) \/ server'[f] = typed[f]
      BY <2>2, <2>3, <3>1, <3>2, <1>8 DEF SaveSound
    <3>. QED
      BY <2>2, <3>1, <3>2, <3>3, <1>4 DEF SaveSound, StillDue
  <2>. QED
    BY <2>5, <2>6
<1>. QED
  BY <1>5, <1>6, <1>7, <1>8 DEF WorkInv

\* An answer to a request of another field leaves the publish state shown.
LEMMA ShownKept ==
  ASSUME WorkInv, NEW outcome \in {"ok", "refused", "lost"}, NEW r \in Out(queue), Effects(r, outcome),
         ~WillShow(r), \A s \in Out(queue) : s = r \/ s \in Out(queue'),
         draft' = draft, outcome # "ok" => pristine' = pristine
  PROVE  PublishShown'
PROOF
<1>1. /\ outcome = "ok" => arriving' # None
      /\ outcome # "ok" => arriving' = arriving
  BY EffectFields
<1>2. "isActive" \in Fields
  BY DEF Fields
<1>3. \A f \in Fields : ~exposed'[f] => ~exposed[f] /\ f \notin unsure'
  BY EffectFields
<1>4. \A f \in Fields \ unsure' : outcome # "ok" => server'[f] = server[f]
  BY EffectFields
<1>5. CASE outcome = "ok"
  BY <1>1, <1>5 DEF PublishShown
<1>6. CASE outcome # "ok"
  <2>1. arriving' = arriving /\ pristine' = pristine
    BY <1>1, <1>6
  <2>2. exposed'["isActive"] \/ (~exposed["isActive"] /\ server'["isActive"] = server["isActive"])
    BY <1>2, <1>3, <1>4, <1>6
  <2>3. \A s \in Out(queue) : WillShow(s) => s \in Out(queue')
    OBVIOUS
  <2>. QED
    BY <2>1, <2>2, <2>3 DEF WorkInv, PublishShown
<1>. QED
  BY <1>5, <1>6

\* The answer to an autosave.
LEMMA AutoKeeps ==
  ASSUME WorkInv, queue # <<>>, NEW outcome \in {"ok", "refused", "lost"},
         NEW r \in Out(queue), r = Head(queue), Effects(r, outcome), AutoAnswer(r, outcome)
  PROVE  WorkInv'
PROOF
<1>1. EditorType /\ queue \in Seq(Requests)
  BY DEF WorkInv, EditorType
<1>2. r \in Requests /\ Carried(r) /\ r.kind = "auto"
  BY <1>1 DEF WorkInv, EditorType, Out, AutoAnswer
<1>3. DOMAIN r.changes \subseteq Own /\ r.changes \in Changes
  BY <1>2 DEF Carried, Requests
<1>4. queue' = Tail(queue) /\ saving' = saving
  BY DEF AutoAnswer
<1>5. /\ queue' \in Seq(Requests) /\ Out(queue) = Out(queue') \union {r} /\ OneSave(queue')
  BY <1>1, <1>4, HeadTaken DEF WorkInv, SaveIsOut
<1>6. \/ UNCHANGED <<draft, pristine, local>>
      \/ /\ outcome = "ok" /\ draft' = draft
         /\ pristine' = mergeProductChanges(pristine, r.changes)
         /\ local' = local \ DOMAIN r.changes
  <2>1. CASE r.gen # gen
    BY <2>1 DEF AutoAnswer
  <2>2. CASE r.gen = gen /\ outcome = "ok"
    BY <2>2 DEF AutoAnswer, Commit
  <2>3. CASE r.gen = gen /\ outcome # "ok"
    BY <2>3 DEF AutoAnswer
  <2>. QED
    BY <2>1, <2>2, <2>3
<1>7. pristine \in Products /\ draft \in Products
  BY <1>1 DEF EditorType
<1>8. /\ mergeProductChanges(pristine, r.changes) \in Products
      /\ \A f \in Fields : f \notin DOMAIN r.changes => mergeProductChanges(pristine, r.changes)[f] = pristine[f]
  BY <1>3, <1>7, MergedFields
<1>9. PublishShown'
  <2>1. ~WillShow(r)
    BY <1>2 DEF WillShow
  <2>2. draft' = draft /\ (outcome # "ok" => pristine' = pristine)
    BY <1>6
  <2>. QED
    BY <2>1, <2>2, <1>5, ShownKept
<1>10. \A s \in Out(queue') : Carried(s)
  BY <1>5 DEF WorkInv, EditorType, Out
<1>11. draft' = draft /\ pristine' \in Products /\ local' \subseteq local
  BY <1>6, <1>7, <1>8
<1>12. saving' = None => \A s \in Out(queue') : ~IsSave(s)
  BY <1>4, <1>5 DEF WorkInv, SaveIsOut
<1>13. ASSUME NEW f \in Typing, ~exposed'[f]
       PROVE  /\ pristine'[f] = pristine[f] \/ server'[f] = typed[f]
              /\ f \in local \ local' => server'[f] = typed[f]
  <2>1. f \in Fields /\ ~exposed[f] /\ f \notin unsure'
    BY <1>13, EffectFields DEF Typing
  <2>2. outcome = "ok" /\ f \in DOMAIN r.changes => server'[f] = r.changes[f]
    BY <2>1, EffectFields
  <2>3. f \in DOMAIN r.changes => r.changes[f] = typed[f]
    BY <2>1 DEF WorkInv, FieldKept
  <2>. QED
    BY <2>1, <2>2, <2>3, <1>6, <1>8
<1>14. \A f \in Typing : draft'[f] = draft[f] /\ (outcome # "ok" => pristine'[f] = pristine[f])
  BY <1>6
<1>. QED
  BY <1>4, <1>5, <1>7, <1>9, <1>10, <1>11, <1>12, <1>13, <1>14, AnswerKeeps

\* The answers to the requests of a save.
LEMMA SaveAnswerKeeps ==
  ASSUME WorkInv, queue # <<>>, NEW outcome \in {"ok", "refused", "lost"},
         NEW r \in Out(queue), r = Head(queue), Effects(r, outcome), SaveAnswer(r, outcome)
  PROVE  WorkInv'
PROOF
<1>1. EditorType /\ queue \in Seq(Requests)
  BY DEF WorkInv, EditorType
<1>2. r \in Requests /\ Carried(r) /\ r.kind \in {"save", "categories"}
  BY <1>1 DEF WorkInv, EditorType, Out, SaveAnswer
<1>3. IsSave(r) /\ ~WillShow(r)
  BY <1>2 DEF IsSave, WillShow
<1>4. saving # None
  BY <1>3 DEF WorkInv, SaveIsOut
<1>5. saving \in [draft : Products, pristine : Products] /\ pristine \in Products /\ draft \in Products
  BY <1>1, <1>4 DEF EditorType
<1>6. saving.draft \in Products
  BY <1>5
<1>7. /\ Tail(queue) \in Seq(Requests) /\ Out(queue) = Out(Tail(queue)) \union {r}
      /\ OneSave(Tail(queue)) /\ \A s \in Out(Tail(queue)) : ~IsSave(s)
  BY <1>1, <1>3, HeadTaken DEF WorkInv, SaveIsOut
<1>8. \A s \in Out(queue) : Carried(s)
  BY DEF WorkInv, EditorType, Out
<1>9. ASSUME NEW f \in Typing, ~exposed'[f]
      PROVE  /\ saving.draft[f] = typed[f]
             /\ outcome = "ok" /\ f \in DOMAIN r.changes => server'[f] = typed[f]
             /\ server[f] = typed[f] => server'[f] = typed[f]
             /\ StillDue(r, f) \/ server[f] = typed[f]
  <2>1. f \in Fields /\ ~exposed[f] /\ f \notin unsure'
    BY <1>9, EffectFields DEF Typing
  <2>2. \/ server'[f] = server[f] /\ (outcome = "ok" => f \notin DOMAIN r.changes)
        \/ outcome = "ok" /\ f \in DOMAIN r.changes /\ server'[f] = r.changes[f]
    BY <2>1, EffectFields
  <2>3. f \in DOMAIN r.changes => r.changes[f] = typed[f]
    BY <2>1 DEF WorkInv, FieldKept
  <2>4. saving.draft[f] = typed[f] /\ (StillDue(r, f) \/ server[f] = typed[f])
    BY <2>1, <1>3, <1>4 DEF WorkInv, SaveSound
  <2>. QED
    BY <2>2, <2>3, <2>4
<1>10. CASE outcome # "ok" /\ Failed
  <2>1. /\ saving' = None /\ queue' = Tail(queue) /\ UNCHANGED <<draft, pristine, local>>
    BY <1>10 DEF Failed
  <2>2. PublishShown'
    BY <2>1, <1>3, <1>7, ShownKept
  <2>3. \A s \in Out(queue') : Carried(s) /\ ~IsSave(s)
    BY <2>1, <1>7, <1>8
  <2>. QED
    BY <2>1, <2>2, <2>3, <1>5, <1>7, AnswerKeeps
<1>11. CASE /\ outcome = "ok" /\ r.kind = "save" /\ dirtyForCategories(saving.draft, saving.pristine)
            /\ queue' = Append(Tail(queue), Request("categories", Only({"categoryIds"}, saving.draft)))
            /\ UNCHANGED <<draft, pristine, armed, status, local, saving>>
  <2>1. LET s == Request("categories", Only({"categoryIds"}, saving.draft))
        IN  /\ s \in Requests /\ s.kind = "categories" /\ DOMAIN s.changes = {"categoryIds"}
            /\ \A f \in DOMAIN s.changes : s.changes[f] = saving.draft[f]
    BY <1>1, <1>6, CategoriesRequested
  <2>2. PICK s \in Requests : s = Request("categories", Only({"categoryIds"}, saving.draft))
    BY <2>1
  <2>3. /\ s.kind = "categories" /\ DOMAIN s.changes = {"categoryIds"}
        /\ \A f \in DOMAIN s.changes : s.changes[f] = saving.draft[f]
    BY <2>1, <2>2
  <2>4. queue' = Append(Tail(queue), s)
    BY <2>2, <1>11
  <2>5. queue' \in Seq(Requests) /\ Out(queue') = Out(Tail(queue)) \union {s} /\ OneSave(queue')
    BY <2>4, <1>7, Queued
  <2>6. Carried(s) /\ IsSave(s)
    BY <2>3 DEF Carried, IsSave
  <2>7. \A t \in Out(queue') : Carried(t)
    BY <2>5, <2>6, <1>7, <1>8
  <2>8. PublishShown'
    BY <2>5, <1>3, <1>7, <1>11, ShownKept
  <2>9. saving' = saving /\ saving' # None /\ draft' = draft /\ pristine' = pristine /\ local' = local
    BY <1>4, <1>11
  <2>10. ASSUME NEW f \in Typing, ~exposed'[f], NEW t \in Out(queue') \ Out(queue)
         PROVE  /\ f \in DOMAIN t.changes => t.changes[f] = typed[f]
                /\ StillDue(t, f) \/ server'[f] = typed[f]
    <3>1. t = s
      BY <2>5, <1>7, <2>10
    <3>2. f \in DOMAIN t.changes => t.changes[f] = typed[f]
      BY <3>1, <2>3, <1>9, <2>10
    <3>3. CASE f = "categoryIds"
      BY <3>1, <3>2, <3>3, <2>3 DEF StillDue
    <3>4. CASE f # "categoryIds"
      <4>1. f \in DOMAIN r.changes \/ server[f] = typed[f]
        BY <3>4, <1>9, <2>10 DEF StillDue
      <4>. QED
        BY <3>2, <4>1, <1>9, <1>11, <2>10
    <3>. QED
      BY <3>3, <3>4
  <2>. QED
    BY <2>5, <2>7, <2>8, <2>9, <2>10, <1>5, AnswerKeeps
<1>12. CASE /\ outcome = "ok" /\ (r.kind = "save" => ~dirtyForCategories(saving.draft, saving.pristine))
            /\ Finish
  <2>1. /\ draft' = draft /\ pristine' = saving.draft /\ local' = {} /\ saving' = None
        /\ queue' = Append(Tail(queue), refresh)
    BY <1>12 DEF Finish, Commit
  <2>2. PICK s \in Requests : s = refresh
    BY <1>1, NoChanges
  <2>3. s.kind = "refresh" /\ DOMAIN s.changes = {}
    BY <2>2, <1>1, NoChanges
  <2>4. Carried(s) /\ ~IsSave(s)
    BY <2>3 DEF Carried, IsSave
  <2>5. queue' \in Seq(Requests) /\ Out(queue') = Out(Tail(queue)) \union {s} /\ OneSave(queue')
    BY <2>1, <2>2, <2>4, <1>7, Queued
  <2>6. \A t \in Out(queue') : Carried(t) /\ ~IsSave(t)
    BY <2>4, <2>5, <1>7, <1>8
  <2>7. PublishShown'
    BY <2>1, <2>5, <1>3, <1>7, <1>12, ShownKept
  <2>8. ASSUME NEW f \in Typing, ~exposed'[f] PROVE server'[f] = typed[f]
    <3>1. r.kind = "categories" => "categoryIds" \in DOMAIN r.changes
      BY <1>2 DEF Carried
    <3>2. StillDue(r, f) => f \in DOMAIN r.changes
      BY <3>1, <1>12 DEF StillDue
    <3>. QED
      BY <3>2, <1>9, <1>12, <2>8
  <2>9. \A f \in Typing : ~exposed'[f] => \A t \in Out(queue') \ Out(queue) : f \notin DOMAIN t.changes
    BY <2>3, <2>5, <1>7
  <2>. QED
    BY <2>1, <2>5, <2>6, <2>7, <2>8, <2>9, <1>5, <1>6, <1>12, AnswerKeeps
<1>. QED
  BY <1>10, <1>11, <1>12 DEF SaveAnswer

\* The answers to the publish control and to refreshes.
LEMMA PublishAnswerKeeps ==
  ASSUME WorkInv, queue # <<>>, NEW outcome \in {"ok", "refused", "lost"},
         NEW r \in Out(queue), r = Head(queue), Effects(r, outcome),
         PublishAnswer(r, outcome) \/ RefreshAnswer(r, outcome)
  PROVE  WorkInv'
PROOF
<1>1. /\ EditorType /\ queue \in Seq(Requests) /\ draft \in Products /\ pristine \in Products
      /\ "isActive" \in Fields
  BY DEF WorkInv, EditorType, Fields
<1>2. local' = local /\ saving' = saving /\ r \in Requests /\ ~IsSave(r)
  BY <1>1 DEF PublishAnswer, RefreshAnswer, EditorType, Out, IsSave
<1>3. /\ Tail(queue) \in Seq(Requests) /\ Out(queue) = Out(Tail(queue)) \union {r} /\ OneSave(Tail(queue))
  BY <1>1, HeadTaken DEF WorkInv, SaveIsOut
<1>4. /\ \A s \in Out(queue) : Carried(s)
      /\ saving = None => \A s \in Out(queue) : ~IsSave(s)
  BY DEF WorkInv, EditorType, Out, SaveIsOut
<1>5. CASE outcome = "ok"
  <2>1. queue' = Tail(queue) /\ draft' = draft /\ pristine' = pristine
    BY <1>5 DEF PublishAnswer, RefreshAnswer
  <2>2. arriving' # None
    BY <1>5, EffectFields
  <2>3. PublishShown'
    BY <2>2 DEF PublishShown
  <2>. QED
    BY <2>1, <2>3, <1>1, <1>2, <1>3, <1>4, AnswerKeeps
<1>6. CASE outcome # "ok"
  <2>1. /\ draft' = [draft EXCEPT !.isActive = r.previous]
        /\ pristine' = [pristine EXCEPT !.isActive = r.previous]
        /\ queue' = Append(Tail(queue), refresh)
    BY <1>6 DEF PublishAnswer, RefreshAnswer, Commit
  <2>2. PICK previous \in BOOLEAN : previous = r.previous
    BY <1>2 DEF Requests
  <2>3. previous \in FieldType("isActive")
    BY DEF FieldType
  <2>4. /\ [draft EXCEPT !["isActive"] = previous] \in Products
        /\ \A f \in Fields : [draft EXCEPT !["isActive"] = previous][f] = IF f = "isActive" THEN previous ELSE draft[f]
    BY <2>3, <1>1, FieldChanged
  <2>5. /\ [pristine EXCEPT !["isActive"] = previous] \in Products
        /\ \A f \in Fields : [pristine EXCEPT !["isActive"] = previous][f] = IF f = "isActive" THEN previous ELSE pristine[f]
    BY <2>3, <1>1, FieldChanged
  <2>6. /\ draft' \in Products /\ pristine' \in Products
        /\ \A f \in Typing : draft'[f] = draft[f] /\ pristine'[f] = pristine[f]
        /\ draft'["isActive"] = pristine'["isActive"]
    BY <2>1, <2>2, <2>4, <2>5, <1>1 DEF Typing
  <2>7. PICK s \in Requests : s = refresh
    BY <1>1, NoChanges
  <2>8. s.kind = "refresh" /\ DOMAIN s.changes = {}
    BY <2>7, <1>1, NoChanges
  <2>9. Carried(s) /\ ~IsSave(s) /\ WillShow(s)
    BY <2>8 DEF Carried, IsSave, WillShow
  <2>10. queue' \in Seq(Requests) /\ Out(queue') = Out(Tail(queue)) \union {s} /\ OneSave(queue')
    BY <2>1, <2>7, <2>9, <1>3, Queued
  <2>11. PublishShown'
    BY <2>6, <2>9, <2>10 DEF PublishShown
  <2>12. \A t \in Out(queue') \ Out(queue) : DOMAIN t.changes = {} /\ ~IsSave(t)
    BY <2>8, <2>9, <2>10, <1>3
  <2>13. /\ \A t \in Out(queue') : Carried(t)
         /\ saving' = None => \A t \in Out(queue') : ~IsSave(t)
    BY <2>9, <2>10, <1>2, <1>3, <1>4
  <2>. QED
    BY <2>6, <2>10, <2>11, <2>12, <2>13, <1>2, AnswerKeeps
<1>. QED
  BY <1>5, <1>6

\* Every step of the editor keeps the invariant.
LEMMA EditorInductive ==
  ASSUME WorkInv, [EditorNext]_editorVars
  PROVE  WorkInv'
PROOF
<1>1. CASE UNCHANGED editorVars
  BY <1>1, OnlyUploads DEF editorVars, WorkInv, EditorType
<1>2. ASSUME NEW outcome \in {"ok", "refused", "lost"}, Answer(outcome) PROVE WorkInv'
  <2>1. queue # <<>> /\ queue \in Seq(Requests)
    BY <1>2 DEF Answer, WorkInv, EditorType
  <2>2. PICK r \in Out(queue) : r = Head(queue)
    BY <2>1, HeadTaken
  <2>3. Effects(r, outcome)
    BY <1>2, <2>2 DEF Answer, Effects
  <2>4. AutoAnswer(r, outcome) \/ SaveAnswer(r, outcome) \/ PublishAnswer(r, outcome) \/ RefreshAnswer(r, outcome)
    BY <1>2, <2>2 DEF Answer
  <2>. QED
    BY <2>1, <2>2, <2>3, <2>4, AutoKeeps, SaveAnswerKeeps, PublishAnswerKeeps
<1>. QED
  BY <1>1, <1>2, TypingKeeps, FlipKeeps, SaveKeeps, DiscardKeeps, TimerKeeps, DeliveryKeeps, ReloadKeeps
  DEF EditorNext, PublishControl, MobileTopBar, AnyAnswer

\* The editor keeps the operator's work: what was put in a field stays in the
\* form and is what the row has once it is shown as saved, whatever requests
\* overlap, fail or are lost, for any product and any number of saves, but for
\* the fields WorkKept excepts (patch, handleSave, runAutosave and the effects
\* of product-editor.tsx).
THEOREM EditorKeepsWork ==
  ASSUME NEW given \in Products
  PROVE  EditorSpec(given) => []WorkKept
PROOF
<1>1. ASSUME EditorInit(given) PROVE WorkInv
  <2>1. /\ server = given /\ pristine = given /\ draft = given /\ typed = given
        /\ local = {} /\ gen = 0 /\ saving = None /\ uploads = {} /\ queue = <<>> /\ arriving = None
        /\ exposed = [f \in Fields |-> FALSE] /\ unsure = {}
    BY <1>1 DEF EditorInit
  <2>2. Out(queue) = {} /\ OneSave(queue) /\ queue \in Seq(Requests)
    BY <2>1 DEF Out, OneSave
  <2>3. EditorType
    BY <2>1, <2>2 DEF EditorType, Out
  <2>4. SaveIsOut /\ ArrivalsKnown /\ PublishShown
    BY <2>1, <2>2 DEF SaveIsOut, ArrivalsKnown, PublishShown
  <2>5. \A f \in Typing : FieldKept(f) /\ SaveSound(f)
    BY <2>1, <2>2 DEF FieldKept, SaveSound
  <2>. QED
    BY <2>3, <2>4, <2>5 DEF WorkInv
<1>2. ASSUME WorkInv PROVE WorkKept
  <2>1. ASSUME NEW f \in Typing, ~exposed[f]
        PROVE  draft[f] = typed[f] /\ (Quiet /\ draft[f] = pristine[f] => server[f] = typed[f])
    BY <2>1, <1>2 DEF WorkInv, FieldKept
  <2>2. ASSUME Quiet, ~exposed["isActive"] PROVE draft.isActive = server.isActive
    <3>1. queue = <<>> /\ arriving = None
      BY <2>2 DEF Quiet
    <3>2. Out(queue) = {}
      BY <3>1 DEF Out
    <3>. QED
      BY <3>1, <3>2, <2>2, <1>2 DEF WorkInv, PublishShown
  <2>. QED
    BY <2>1, <2>2 DEF WorkKept, Typing
<1>. HIDE DEF WorkInv
<1>. QED
  BY <1>1, <1>2, EditorInductive, PTL DEF EditorSpec

-----------------------------------------------------------------------------
(* Promotions: amounts and what actions take.                              *)

\* A loss of less than one for each of the other lines is at most the number of
\* lines without two: with n - 1 roundings below 1 it cannot reach n - 1.
LEMMA LossBelowLines ==
  ASSUME NEW total \in Nat \ {0}, NEW loss \in Nat, NEW n \in Nat \ {0},
         total * loss <= (n - 1) * (total - 1)
  PROVE  loss <= Zero(n - 2)
PROOF
<1>1. (n - 1) * (total - 1) = total * (n - 1) - (n - 1) /\ total * (n - 1) \in Nat
  OBVIOUS
<1>2. total * loss <= total * (n - 1)
  BY <1>1
<1>3. loss <= n - 1
  BY <1>2, CancelFactor
<1>4. CASE loss = n - 1
  <2>1. total * loss = total * (n - 1)
    BY <1>4
  <2>2. n - 1 = 0
    BY <1>1, <2>1
  <2>. QED
    BY <1>4, <2>2 DEF Zero
<1>5. CASE loss # n - 1
  BY <1>3, <1>5 DEF Zero
<1>. QED
  BY <1>4, <1>5

\* What the sum is from left to right is the sum over the set of the lines.
LEMMA TotalIsSum ==
  ASSUME NEW n \in Nat, NEW line \in [1..n -> Nat]
  PROVE  Total(line) = SumFunctionOnSet(line, 1..n)
PROOF
<1>. DEFINE part(i) == SumFunctionOnSet(line, 1..i)
            parts == [i \in 0..n |-> part(i)]
            Sums(f) == f = [i \in 0..Len(line) |-> IF i = 0 THEN 0 ELSE f[i - 1] + line[i]]
            sum == CHOOSE f : Sums(f)
            Good == {i \in 0..n : sum[i] = part(i)}
<1>1. Len(line) = n
  BY LenProperties
<1>2. part(0) = 0
  <2>1. 1..0 = {}
    OBVIOUS
  <2>. QED
    BY <2>1, SumEmpty
<1>3. ASSUME NEW i \in 1..n PROVE part(i) = part(i - 1) + line[i]
  <2>1. IsFiniteSet(1..i) /\ i \in 1..i /\ \A x \in 1..i : line[x] \in Int
    BY FS_Interval
  <2>2. part(i) = line[i] + SumFunctionOnSet(line, (1..i) \ {i})
    BY <2>1, SumRemove
  <2>3. (1..i) \ {i} = 1..(i - 1)
    OBVIOUS
  <2>4. IsFiniteSet(1..(i - 1)) /\ \A x \in 1..(i - 1) : line[x] \in Int
    BY FS_Interval
  <2>5. part(i - 1) \in Int
    BY <2>4, SumType
  <2>6. line[i] \in Int
    OBVIOUS
  <2>. HIDE DEF part
  <2>7. part(i) = line[i] + part(i - 1)
    BY <2>2, <2>3 DEF part
  <2>. QED
    BY <2>5, <2>6, <2>7
<1>4. Sums(parts)
  <2>. HIDE DEF part
  <2>1. \A i \in 0..n : parts[i] = IF i = 0 THEN 0 ELSE parts[i - 1] + line[i]
    BY <1>2, <1>3
  <2>. QED
    BY <1>1, <2>1
<1>5. Sums(sum)
  <2>. HIDE DEF Sums, parts
  <2>. QED
    BY <1>4
<1>6. /\ sum[0] = 0
      /\ \A i \in 1..n : sum[i] = sum[i - 1] + line[i]
  <2>. HIDE DEF sum
  <2>. QED
    BY <1>1, <1>5
<1>7. Good = 0..n
  <2>. HIDE DEF sum, part
  <2>1. 0 \in Good
    BY <1>2, <1>6
  <2>2. \A i \in 1..n : i - 1 \in Good => i \in Good
    BY <1>3, <1>6
  <2>3. Good \in SUBSET (0..n)
    OBVIOUS
  <2>. HIDE DEF Good
  <2>. QED
    BY <2>1, <2>2, <2>3, Stepwise
<1>8. Total(line) = sum[Len(line)]
  BY DEF Total
<1>9. sum[n] = part(n)
  <2>. HIDE DEF sum, part
  <2>. QED
    BY <1>7
<1>. QED
  BY <1>1, <1>8, <1>9

\* What a sequence of amounts adds up to.
LEMMA TotalType ==
  ASSUME NEW n \in Nat, NEW line \in [1..n -> Nat]
  PROVE  Total(line) \in Nat
PROOF
<1>1. IsFiniteSet(1..n)
  BY FS_Interval
<1>2. SumFunctionOnSet(line, 1..n) \in Nat
  <2>1. 1..n \in SUBSET (1..n) /\ \A i \in 1..n : line[i] \in Nat
    OBVIOUS
  <2>. QED
    BY <1>1, <2>1, SumPart
<1>. QED
  BY <1>2, TotalIsSum

\* Lower amounts add up to less.
LEMMA TotalMonotone ==
  ASSUME NEW n \in Nat, NEW low \in [1..n -> Nat], NEW high \in [1..n -> Nat],
         \A i \in 1..n : low[i] <= high[i]
  PROVE  Total(low) <= Total(high)
PROOF
<1>1. IsFiniteSet(1..n)
  BY FS_Interval
<1>2. SumFunctionOnSet(low, 1..n) <= SumFunctionOnSet(high, 1..n)
  <2>1. \A i \in 1..n : low[i] \in Int /\ high[i] \in Int /\ low[i] <= high[i]
    OBVIOUS
  <2>. QED
    BY <1>1, <2>1, SumMonotone
<1>. QED
  BY <1>2, TotalIsSum

\* What cuts leave of the lines adds up to the lines without the cuts.
LEMMA TotalLess ==
  ASSUME NEW n \in Nat, NEW line \in [1..n -> Nat], NEW cut \in [1..n -> Nat],
         NEW left \in [1..n -> Nat], \A i \in 1..n : left[i] = line[i] - cut[i]
  PROVE  Total(left) = Total(line) - Total(cut)
PROOF
<1>1. IsFiniteSet(1..n)
  BY FS_Interval
<1>2. SumFunctionOnSet(left, 1..n) = SumFunctionOnSet(line, 1..n) - SumFunctionOnSet(cut, 1..n)
  BY <1>1, SumLess, Zenon
<1>. QED
  BY <1>2, TotalIsSum

\* Nothing but zeros outside a part.
LEMMA TotalOn ==
  ASSUME NEW n \in Nat, NEW on \in SUBSET (1..n), NEW line \in [1..n -> Nat]
  PROVE  Total([i \in 1..n |-> IF i \in on THEN line[i] ELSE 0]) = SumFunctionOnSet(line, on)
PROOF
<1>. DEFINE D == 1..n
            f == [i \in D |-> IF i \in on THEN line[i] ELSE 0]
            rest == D \ on
<1>1. IsFiniteSet(on) /\ IsFiniteSet(rest) /\ on \cap rest = {} /\ on \cup rest = D
  <2>1. IsFiniteSet(D)
    BY FS_Interval
  <2>2. on \subseteq D /\ rest \subseteq D /\ on \cap rest = {} /\ on \cup rest = D
    OBVIOUS
  <2>. HIDE DEF D, rest
  <2>. QED
    BY <2>1, <2>2, FS_Subset
<1>2. SumFunctionOnSet(f, on) = SumFunctionOnSet(line, on)
  <2>1. \A i \in on : f[i] \in Int /\ f[i] = line[i]
    OBVIOUS
  <2>. HIDE DEF f
  <2>. QED
    BY <1>1, <2>1, SumSame
<1>3. SumFunctionOnSet(f, rest) = 0
  <2>1. \A i \in rest : f[i] = 0
    OBVIOUS
  <2>. HIDE DEF f
  <2>. QED
    BY <1>1, <2>1, SumZeros
<1>4. SumFunctionOnSet(f, on \cup rest) = SumFunctionOnSet(f, on) + SumFunctionOnSet(f, rest)
  <2>1. \A i \in on \cup rest : f[i] \in Int
    OBVIOUS
  <2>. HIDE DEF f, rest
  <2>. QED
    BY <1>1, <2>1, SumUnion
<1>5. SumFunctionOnSet(line, on) \in Int
  <2>1. \A i \in on : line[i] \in Int
    OBVIOUS
  <2>. QED
    BY <1>1, <2>1, SumType
<1>6. Total(f) = SumFunctionOnSet(f, D)
  <2>1. f \in [1..n -> Nat]
    OBVIOUS
  <2>. HIDE DEF f
  <2>. QED
    BY <2>1, TotalIsSum
<1>7. Total(f) = SumFunctionOnSet(line, on)
  <2>1. SumFunctionOnSet(f, on \cup rest) = SumFunctionOnSet(f, D)
    BY <1>1
  <2>. HIDE DEF f, rest
  <2>. QED
    BY <2>1, <1>2, <1>3, <1>4, <1>5, <1>6
<1>. QED
  BY <1>7

\* A cut that is spread over some lines: no line grows or goes below zero, and
\* no more is taken than was to be spread.
LEMMA SpreadTakes ==
  ASSUME NEW n \in Nat, NEW line \in [1..n -> Nat], NEW on \in SUBSET (1..n),
         NEW amount \in Nat, amount <= SumFunctionOnSet(line, on)
  PROVE  /\ Spread(line, on, amount) \in [1..n -> Nat]
         /\ \A i \in 1..n : Spread(line, on, amount)[i] <= line[i]
         /\ Total(line) - Total(Spread(line, on, amount)) <= amount
         /\ on = 1..n => amount - (Total(line) - Total(Spread(line, on, amount))) <= Zero(n - 2)
PROOF
<1>. DEFINE D == DOMAIN line
            total == Total([i \in D |-> IF i \in on THEN line[i] ELSE 0])
            after == Spread(line, on, amount)
<1>1. /\ D = 1..n /\ IsFiniteSet(D) /\ Cardinality(D) = n
      /\ line \in [D -> Nat] /\ on \in SUBSET D
  <2>1. IsFiniteSet(1..n) /\ Cardinality(1..n) = n
    <3>1. IsFiniteSet(1..n) /\ Cardinality(1..n) = IF 1 > n THEN 0 ELSE n - 1 + 1
      BY FS_Interval
    <3>. QED
      BY <3>1
  <2>2. D = 1..n
    OBVIOUS
  <2>. QED
    BY <2>1, <2>2
<1>2. IsFiniteSet(on)
  BY <1>1, FS_Subset
<1>3. total \in Nat /\ total = SumFunctionOnSet(line, on) /\ amount <= total
  <2>1. SumFunctionOnSet(line, on) \in Nat
    BY <1>1, SumPart
  <2>. HIDE DEF D
  <2>2. total = SumFunctionOnSet(line, on)
    BY <1>1, TotalOn
  <2>. QED
    BY <2>1, <2>2
<1>4. Total(line) \in Nat
  <2>. HIDE DEF D
  <2>. QED
    BY <1>1, TotalType
<1>5. CASE total = 0
  <2>1. after = line
    BY <1>5 DEF Spread
  <2>2. amount = 0
    BY <1>3, <1>5
  <2>3. Zero(n - 2) >= 0
    BY DEF Zero
  <2>4. /\ after \in [1..n -> Nat] /\ \A i \in 1..n : after[i] <= line[i]
        /\ Total(line) - Total(after) <= amount
        /\ on = 1..n => amount - (Total(line) - Total(after)) <= Zero(n - 2)
    <3>. HIDE DEF after, total
    <3>. QED
      BY <1>4, <2>1, <2>2, <2>3
  <2>. QED
    BY <2>4
<1>6. CASE total # 0
  <2>1. on # {}
    BY <1>3, <1>6, SumEmpty
  <2>. DEFINE last == CHOOSE i \in on : \A j \in on : j <= i
              all == on \ {last}
              share == [i \in D |-> (line[i] * amount) \div total]
              others == [i \in D |-> IF i \in all THEN Min({(line[i] * amount) \div total, line[i]}) ELSE 0]
              rest == Min({amount - Total(others), line[last]})
  <2>2. last \in on
    <3>1. PICK e \in on : TRUE
      BY <2>1
    <3>2. \E i \in on : \A j \in on : i >= j
      BY <3>1, LargestNumber
    <3>3. \E i \in on : \A j \in on : j <= i
      BY <3>2
    <3>. QED
      BY <3>3
  <2>3. after = [i \in D |-> line[i] - (IF i = last THEN rest ELSE others[i])]
    BY <1>6 DEF Spread
  <2>4. ASSUME NEW x \in Int, NEW y \in Int
        PROVE  Min({x, y}) = IF x <= y THEN x ELSE y
    <3>1. CASE x <= y
      <4>1. x \in {x, y} /\ \A z \in {x, y} : x <= z
        BY <3>1
      <4>2. Min({x, y}) \in {x, y} /\ \A z \in {x, y} : Min({x, y}) <= z
        BY <4>1 DEF Min
      <4>. QED
        BY <3>1, <4>2
    <3>2. CASE ~(x <= y)
      <4>1. y \in {x, y} /\ \A z \in {x, y} : y <= z
        BY <3>2
      <4>2. Min({x, y}) \in {x, y} /\ \A z \in {x, y} : Min({x, y}) <= z
        BY <4>1 DEF Min
      <4>. QED
        BY <3>2, <4>2
    <3>. QED
      BY <3>1, <3>2
  <2>5. ASSUME NEW i \in D
        PROVE  /\ share[i] \in Nat /\ share[i] <= line[i]
               /\ total * share[i] <= line[i] * amount
               /\ line[i] * amount <= total * share[i] + (total - 1)
    <3>1. line[i] \in Nat /\ line[i] * amount \in Nat /\ total \in Nat \ {0} /\ amount <= total
      BY <1>3, <1>6
    <3>2. share[i] = (line[i] * amount) \div total
      OBVIOUS
    <3>. HIDE DEF total, share
    <3>. QED
      BY <3>1, <3>2, Quotient, ShareOf
  <2>6. others = [i \in D |-> IF i \in all THEN share[i] ELSE 0]
    <3>1. ASSUME NEW i \in D
          PROVE  Min({(line[i] * amount) \div total, line[i]}) = share[i]
      <4>1. share[i] = (line[i] * amount) \div total /\ line[i] \in Int
        OBVIOUS
      <4>2. share[i] \in Int /\ share[i] <= line[i]
        BY <2>5
      <4>. HIDE DEF share, total
      <4>. QED
        BY <4>1, <4>2, <2>4
    <3>. HIDE DEF share, all, total
    <3>. QED
      BY <3>1
  <2>7. share \in [D -> Nat] /\ others \in [D -> Nat] /\ others[last] = 0 /\ all \in SUBSET D
    <3>1. share \in [D -> Nat]
      <4>1. \A i \in D : share[i] \in Nat
        BY <2>5
      <4>. QED
        BY <4>1
    <3>2. last \in D /\ last \notin all /\ all \in SUBSET D
      BY <2>2
    <3>. HIDE DEF share, others, all, last
    <3>. QED
      BY <2>6, <3>1, <3>2
  <2>. DEFINE taken == SumFunctionOnSet(share, all)
              sum == SumFunctionOnSet(line, all)
  <2>8. Total(others) = taken /\ taken \in Nat /\ sum \in Nat
    <3>1. Total([i \in D |-> IF i \in all THEN share[i] ELSE 0]) = taken
      <4>. HIDE DEF share, all
      <4>. QED
        BY <1>1, <2>7, TotalOn
    <3>2. taken \in Nat /\ sum \in Nat
      <4>1. \A i \in D : share[i] \in Nat /\ line[i] \in Nat
        BY <2>5
      <4>. HIDE DEF share, all
      <4>. QED
        BY <1>1, <2>7, <4>1, SumPart
    <3>. HIDE DEF share, all, others
    <3>. QED
      BY <2>6, <3>1, <3>2
  <2>9. total = line[last] + sum /\ line[last] \in Nat
    <3>1. \A i \in on : line[i] \in Int
      OBVIOUS
    <3>2. SumFunctionOnSet(line, on) = line[last] + sum
      <4>. HIDE DEF last
      <4>. QED
        BY <1>2, <2>2, <3>1, SumRemove
    <3>3. line[last] \in Nat
      BY <2>2
    <3>. QED
      BY <1>3, <3>2, <3>3
  <2>10. IsFiniteSet(all) /\ Cardinality(all) = Cardinality(on) - 1 /\ Cardinality(on) \in Nat \ {0}
    <3>1. IsFiniteSet(all) /\ Cardinality(all) = Cardinality(on) - 1
      <4>. HIDE DEF last
      <4>. QED
        BY <1>2, <2>2, FS_RemoveElement
    <3>2. Cardinality(all) \in Nat /\ Cardinality(on) \in Nat
      BY <1>2, <3>1, FS_CardinalityType
    <3>. QED
      BY <3>1, <3>2
  <2>11. /\ total * taken <= sum * amount
         /\ sum * amount <= total * taken + (Cardinality(on) - 1) * (total - 1)
    <3>1. /\ \A i \in all : line[i] \in Nat
          /\ \A i \in all : share[i] \in Nat /\ total * share[i] <= line[i] * amount
                                             /\ line[i] * amount <= total * share[i] + (total - 1)
      BY <2>5
    <3>2. total \in Nat \ {0}
      BY <1>3, <1>6
    <3>3. /\ total * taken <= sum * amount
          /\ sum * amount <= total * taken + Cardinality(all) * (total - 1)
      <4>. HIDE DEF share, all, total
      <4>. QED
        BY <2>10, <3>1, <3>2, SharesFallShort
    <3>. QED
      BY <2>10, <3>3
  <2>12. taken <= amount
    <3>1. sum * amount <= total * amount
      <4>1. total \in Nat /\ sum <= total
        BY <1>3, <2>8, <2>9
      <4>. HIDE DEF total, sum
      <4>. QED
        BY <2>8, <4>1
    <3>2. total * taken <= total * amount
      <4>1. total * taken \in Int /\ sum * amount \in Int /\ total * amount \in Int
        BY <1>3, <2>8
      <4>. HIDE DEF total, sum, taken
      <4>. QED
        BY <2>11, <3>1, <4>1
    <3>. HIDE DEF total, taken
    <3>. QED
      BY <1>3, <1>6, <2>8, <3>2, CancelFactor
  <2>13. rest \in Nat /\ rest <= line[last] /\ rest <= amount - taken
         /\ (rest = line[last] \/ rest = amount - taken)
    <3>1. rest = IF amount - taken <= line[last] THEN amount - taken ELSE line[last]
      <4>. HIDE DEF taken, others, last
      <4>. QED
        BY <2>4, <2>8, <2>9
    <3>. HIDE DEF taken, last, rest
    <3>. QED
      BY <2>8, <2>9, <2>12, <3>1
  <2>. DEFINE cut == [i \in D |-> IF i = last THEN rest ELSE others[i]]
  <2>14. cut \in [D -> Nat] /\ \A i \in D : cut[i] <= line[i]
    <3>1. \A i \in D : others[i] \in Nat /\ others[i] <= line[i]
      <4>1. \A i \in D : share[i] \in Nat /\ share[i] <= line[i] /\ line[i] \in Nat
        BY <2>5
      <4>. HIDE DEF share, others, all
      <4>. QED
        BY <2>6, <4>1
    <3>. HIDE DEF others, rest, last
    <3>. QED
      BY <2>13, <3>1
  <2>15. after = [i \in D |-> line[i] - cut[i]]
    <3>. HIDE DEF others, rest, last, after
    <3>. QED
      BY <2>3
  <2>16. after \in [D -> Nat] /\ (\A i \in D : after[i] = line[i] - cut[i]) /\ \A i \in D : after[i] <= line[i]
    <3>1. \A i \in D : line[i] \in Nat /\ cut[i] \in Nat /\ cut[i] <= line[i]
      BY <2>14
    <3>. HIDE DEF cut, after
    <3>. QED
      BY <2>15, <3>1
  <2>17. Total(after) = Total(line) - Total(cut)
    <3>1. cut \in [1..n -> Nat] /\ after \in [1..n -> Nat]
      BY <1>1, <2>14, <2>16
    <3>2. \A i \in 1..n : after[i] = line[i] - cut[i]
      BY <1>1, <2>16
    <3>. HIDE DEF cut, after
    <3>. QED
      BY <3>1, <3>2, TotalLess
  <2>18. Total(cut) = taken + rest
    <3>1. SumFunctionOnSet(cut, D) = SumFunctionOnSet(others, D) + (cut[last] - others[last])
      <4>1. cut \in [D -> Int] /\ others \in [D -> Int] /\ last \in D
        <5>1. last \in D
          BY <2>2
        <5>. HIDE DEF cut, others, last, D
        <5>. QED
          BY <2>7, <2>14, <5>1
      <4>2. \A i \in D \ {last} : cut[i] = others[i]
        OBVIOUS
      <4>3. IsFiniteSet(D)
        BY <1>1
      <4>. HIDE DEF cut, others, last, D
      <4>. QED
        BY <4>1, <4>2, <4>3, SumChange
    <3>2. cut[last] = rest
      BY <2>2
    <3>3. Total(cut) = SumFunctionOnSet(cut, D) /\ Total(others) = SumFunctionOnSet(others, D)
      <4>. HIDE DEF cut, others, D
      <4>. QED
        BY <1>1, <2>7, <2>14, TotalIsSum
    <3>. HIDE DEF cut, others, taken, rest, last
    <3>. QED
      BY <2>7, <2>8, <2>13, <3>1, <3>2, <3>3
  <2>19. ASSUME on = 1..n PROVE amount - (taken + rest) <= Zero(n - 2)
    <3>1. CASE rest = amount - taken
      <4>1. amount - (taken + rest) = 0
        <5>. HIDE DEF taken, rest
        <5>. QED
          BY <2>8, <3>1
      <4>2. Zero(n - 2) >= 0
        BY DEF Zero
      <4>. HIDE DEF taken, rest
      <4>. QED
        BY <4>1, <4>2
    <3>2. CASE rest = line[last]
      <4>1. Cardinality(on) = n /\ n \in Nat \ {0}
        BY <1>1, <2>10, <2>19
      <4>. DEFINE loss == amount - taken - line[last]
      <4>2. loss \in Nat /\ amount - (taken + rest) = loss
        <5>. HIDE DEF taken, rest, last
        <5>. QED
          BY <2>8, <2>9, <2>13, <3>2
      <4>3. total * loss <= (n - 1) * (total - 1)
        <5>1. total \in Nat \ {0} /\ amount <= total /\ sum * amount <= total * taken + (n - 1) * (total - 1)
          BY <1>3, <1>6, <2>11, <4>1
        <5>. HIDE DEF total, taken, sum, last
        <5>. QED
          BY <2>8, <2>9, <4>1, <5>1, RestOfCut
      <4>4. total \in Nat \ {0}
        BY <1>3, <1>6
      <4>5. loss <= Zero(n - 2)
        <5>. HIDE DEF total, loss
        <5>. QED
          BY <4>1, <4>2, <4>3, <4>4, LossBelowLines
      <4>. HIDE DEF loss
      <4>. QED
        BY <4>2, <4>5
    <3>. QED
      BY <2>13, <3>1, <3>2
  <2>20. /\ after \in [1..n -> Nat] /\ \A i \in 1..n : after[i] <= line[i]
         /\ Total(line) - Total(after) <= amount
         /\ on = 1..n => amount - (Total(line) - Total(after)) <= Zero(n - 2)
    <3>1. Total(line) - Total(after) = taken + rest
      <4>. HIDE DEF cut, after, taken, rest
      <4>. QED
        BY <1>4, <2>8, <2>13, <2>17, <2>18
    <3>2. taken + rest <= amount
      <4>. HIDE DEF taken, rest
      <4>. QED
        BY <2>8, <2>13
    <3>3. after \in [1..n -> Nat] /\ \A i \in 1..n : after[i] <= line[i]
      BY <2>16
    <3>. HIDE DEF after, taken, rest
    <3>. QED
      BY <2>19, <3>1, <3>2, <3>3
  <2>. QED
    BY <2>20
<1>. QED
  BY <1>5, <1>6

\* Lines with prices in paisa.
AmountsOf(lines) == \A i \in DOMAIN lines : lines[i].paisa \in Nat

\* What the engine carries from action to action.
EngineStates(lines) ==
  [remaining : Nat, line : [DOMAIN lines -> Nat], freeShipping : BOOLEAN,
   discount : Nat, applied : Seq(Promos), spreads : Nat]

\* The lines hold what is left of the order, and all that was given away was
\* part of the cart but for what rounding left on the lines.
Accounted(lines, st) ==
  /\ st.remaining <= Total(st.line)
  /\ st.discount + Total(st.line) <= Subtotal(lines) + st.spreads * Zero(Len(lines) - 2)

\* Both together.
Evaluations(lines) == {st \in EngineStates(lines) : Accounted(lines, st)}

\* A cut of the whole order, spread over its lines, keeps the account.
LEMMA OrderCutKeeps ==
  ASSUME NEW n \in Nat, NEW lines, DOMAIN lines = 1..n, Len(lines) = n, AmountsOf(lines),
         NEW st \in Evaluations(lines), NEW cut \in Nat, cut <= st.remaining
  PROVE  consumeSubtotal(st, cut) \in Evaluations(lines) /\ consumeSubtotal(st, cut).applied = st.applied
PROOF
<1>. DEFINE line == st.line
            left == Spread(line, 1..n, cut)
            bonus == Zero(n - 2)
            spreads == IF cut = 0 THEN st.spreads ELSE st.spreads + 1
            after == consumeSubtotal(st, cut)
<1>1. /\ line \in [1..n -> Nat] /\ st.remaining \in Nat /\ st.discount \in Nat /\ st.spreads \in Nat
      /\ st.freeShipping \in BOOLEAN /\ st.applied \in Seq(Promos)
      /\ st.remaining <= Total(line)
      /\ st.discount + Total(line) <= Subtotal(lines) + st.spreads * bonus
  BY DEF Evaluations, EngineStates, Accounted
<1>2. st \in EngineStates(lines) /\ DOMAIN st.line = 1..n
  BY <1>1 DEF Evaluations
<1>3. /\ after.remaining = Zero(st.remaining - cut) /\ after.line = left
      /\ after.discount = st.discount + cut /\ after.applied = st.applied /\ after.spreads = spreads
  <2>1. /\ after.remaining = Zero(st.remaining - cut) /\ after.line = Spread(st.line, DOMAIN st.line, cut)
        /\ after.discount = st.discount + cut /\ after.applied = st.applied
    BY <1>2 DEF consumeSubtotal, EngineStates
  <2>2. after.spreads = spreads
    BY <1>2 DEF consumeSubtotal, EngineStates
  <2>. HIDE DEF after, spreads
  <2>. QED
    BY <1>2, <2>1, <2>2
<1>4. Total(line) = SumFunctionOnSet(line, 1..n) /\ Total(line) \in Nat
  BY <1>1, TotalType, TotalIsSum
<1>5. cut <= SumFunctionOnSet(line, 1..n)
  BY <1>1, <1>4
<1>6. /\ left \in [1..n -> Nat]
      /\ Total(line) - Total(left) <= cut /\ cut - (Total(line) - Total(left)) <= bonus
  <2>. HIDE DEF line
  <2>. QED
    BY <1>1, <1>5, SpreadTakes
<1>7. Total(left) \in Nat
  <2>. HIDE DEF left
  <2>. QED
    BY <1>6, TotalType
<1>8. bonus \in Nat /\ Subtotal(lines) \in Nat
  <2>1. bonus \in Nat
    BY DEF Zero
  <2>2. [i \in DOMAIN lines |-> lines[i].paisa] \in [1..n -> Nat]
    BY DEF AmountsOf
  <2>3. Subtotal(lines) \in Nat
    BY <2>2, TotalType DEF Subtotal
  <2>. QED
    BY <2>1, <2>3
<1>9. Zero(st.remaining - cut) \in Nat /\ Zero(st.remaining - cut) <= Total(left)
  <2>1. st.remaining - cut <= Total(left)
    <3>. HIDE DEF line, left, bonus
    <3>. QED
      BY <1>1, <1>4, <1>6, <1>7
  <2>. HIDE DEF line, left, bonus
  <2>. QED
    BY <1>1, <1>7, <2>1 DEF Zero
<1>10. st.discount + cut + Total(left) <= Subtotal(lines) + spreads * bonus
  <2>. DEFINE given == st.spreads * bonus
  <2>0. given \in Nat /\ st.discount + Total(line) <= Subtotal(lines) + given
    <3>1. given \in Nat
      <4>. HIDE DEF bonus
      <4>. QED
        BY <1>1, <1>8
    <3>. QED
      BY <1>1, <3>1
  <2>1. CASE cut = 0
    <3>1. Total(left) <= Total(line)
      <4>1. \A i \in 1..n : left[i] <= line[i]
        <5>. HIDE DEF line
        <5>. QED
          BY <1>1, <1>5, SpreadTakes
      <4>. HIDE DEF line, left
      <4>. QED
        BY <1>1, <1>6, <4>1, TotalMonotone
    <3>2. spreads * bonus = given
      BY <2>1
    <3>. HIDE DEF line, left, bonus, spreads, given
    <3>. QED
      BY <1>1, <1>4, <1>7, <1>8, <2>0, <2>1, <3>1, <3>2
  <2>2. CASE cut # 0
    <3>1. spreads * bonus = given + bonus
      <4>1. spreads = st.spreads + 1
        BY <2>2
      <4>. HIDE DEF bonus, spreads
      <4>. QED
        BY <1>1, <1>8, <4>1
    <3>. HIDE DEF line, left, bonus, spreads, given
    <3>. QED
      BY <1>1, <1>4, <1>6, <1>7, <1>8, <2>0, <3>1
  <2>. QED
    BY <2>1, <2>2
<1>11. after \in EngineStates(lines)
  <2>1. spreads \in Nat
    BY <1>1
  <2>2. st.discount + cut \in Nat
    BY <1>1
  <2>3. Spread(st.line, DOMAIN st.line, cut) \in [DOMAIN lines -> Nat]
    BY <1>2, <1>6
  <2>. QED
    BY <1>2, <1>9, <2>1, <2>2, <2>3 DEF EngineStates, consumeSubtotal
<1>12. Accounted(lines, after)
  <2>. HIDE DEF after, left, spreads
  <2>. QED
    BY <1>3, <1>9, <1>10 DEF Accounted
<1>. after \in Evaluations(lines) /\ after.applied = st.applied
  <2>. HIDE DEF after
  <2>. QED
    BY <1>3, <1>11, <1>12 DEF Evaluations
<1>. QED
  OBVIOUS

\* So does a cut of some lines.
LEMMA LinesCutKeeps ==
  ASSUME NEW n \in Nat, NEW lines, DOMAIN lines = 1..n, AmountsOf(lines),
         NEW st \in Evaluations(lines), NEW left \in [1..n -> Nat], \A i \in 1..n : left[i] <= st.line[i]
  PROVE  ConsumeLines(st, left) \in Evaluations(lines) /\ ConsumeLines(st, left).applied = st.applied
PROOF
<1>. DEFINE line == st.line
            cut == Total(line) - Total(left)
            after == ConsumeLines(st, left)
            given == Subtotal(lines) + st.spreads * Zero(Len(lines) - 2)
<1>1. /\ line \in [1..n -> Nat] /\ st.remaining \in Nat /\ st.discount \in Nat /\ st.spreads \in Nat
      /\ st.freeShipping \in BOOLEAN /\ st.applied \in Seq(Promos)
      /\ st.remaining <= Total(line) /\ st.discount + Total(line) <= given
  BY DEF Evaluations, EngineStates, Accounted
<1>2. st \in EngineStates(lines)
  BY DEF Evaluations
<1>3. /\ after.remaining = Zero(st.remaining - cut) /\ after.line = left
      /\ after.discount = st.discount + cut /\ after.applied = st.applied /\ after.spreads = st.spreads
  BY <1>2 DEF ConsumeLines, EngineStates
<1>4. Total(line) \in Nat /\ Total(left) \in Nat /\ Total(left) <= Total(line)
  <2>1. \A i \in 1..n : left[i] <= line[i]
    OBVIOUS
  <2>. HIDE DEF line
  <2>. QED
    BY <1>1, <2>1, TotalType, TotalMonotone
<1>5. /\ Zero(st.remaining - cut) \in Nat /\ Zero(st.remaining - cut) <= Total(left)
      /\ st.discount + cut \in Nat /\ st.discount + cut + Total(left) = st.discount + Total(line)
  <2>. HIDE DEF line
  <2>. QED
    BY <1>1, <1>4 DEF Zero
<1>6. after \in EngineStates(lines)
  BY <1>2, <1>5 DEF EngineStates, ConsumeLines
<1>7. Accounted(lines, after)
  <2>. HIDE DEF after, cut, line
  <2>. QED
    BY <1>1, <1>3, <1>5 DEF Accounted
<1>. after \in Evaluations(lines) /\ after.applied = st.applied
  <2>. HIDE DEF after
  <2>. QED
    BY <1>3, <1>6, <1>7 DEF Evaluations
<1>. QED
  OBVIOUS

\* So does every action a promotion may have, and it counts nothing as applied.
LEMMA ActionKeeps ==
  ASSUME NEW n \in Nat, NEW lines, DOMAIN lines = 1..n, Len(lines) = n, AmountsOf(lines),
         NEW st \in Evaluations(lines), NEW action, ValidAction(action)
  PROVE  applyAction(st, lines, action) \in Evaluations(lines) /\ applyAction(st, lines, action).applied = st.applied
PROOF
<1>. DEFINE line == st.line
            on == {i \in 1..n : lines[i].product \in action.products}
<1>1. /\ line \in [1..n -> Nat] /\ st.remaining \in Nat /\ st \in EngineStates(lines)
  BY DEF Evaluations, EngineStates
<1>2. action.type \in ActionTypes /\ action.value \in Nat
  BY DEF ValidAction
<1>3. CASE action.type = "percent_off_order"
  <2>1. (st.remaining * action.value) \div 100 \in Nat /\ (st.remaining * action.value) \div 100 <= st.remaining
    <3>1. action.value <= 100
      BY <1>3 DEF ValidAction
    <3>. QED
      BY <1>1, <1>2, <3>1, PercentOf
  <2>2. applyAction(st, lines, action) = consumeSubtotal(st, (st.remaining * action.value) \div 100)
    BY <1>3 DEF applyAction
  <2>. QED
    BY <2>1, <2>2, OrderCutKeeps
<1>4. CASE action.type = "flat_off_order"
  <2>. DEFINE cut == IF action.value < st.remaining THEN action.value ELSE st.remaining
  <2>1. cut \in Nat /\ cut <= st.remaining
    BY <1>1, <1>2
  <2>2. applyAction(st, lines, action) = consumeSubtotal(st, cut)
    BY <1>4 DEF applyAction
  <2>. HIDE DEF cut
  <2>. QED
    BY <2>1, <2>2, OrderCutKeeps
<1>5. CASE action.type = "free_shipping"
  <2>. DEFINE after == [st EXCEPT !.freeShipping = TRUE]
  <2>1. applyAction(st, lines, action) = after
    BY <1>5 DEF applyAction
  <2>2. after \in EngineStates(lines)
    BY <1>1 DEF EngineStates
  <2>3. /\ after.remaining = st.remaining /\ after.line = st.line /\ after.discount = st.discount
        /\ after.spreads = st.spreads /\ after.applied = st.applied
    BY <1>1 DEF EngineStates
  <2>4. Accounted(lines, st)
    BY DEF Evaluations
  <2>5. after \in Evaluations(lines)
    <3>. HIDE DEF after
    <3>. QED
      BY <2>2, <2>3, <2>4 DEF Evaluations, Accounted
  <2>. QED
    BY <2>1, <2>3, <2>5
<1>6. CASE action.type = "percent_off_products"
  <2>. DEFINE piece(i) == IF i \in on THEN (line[i] * action.value) \div 100 ELSE 0
              left == [i \in 1..n |-> line[i] - piece(i)]
  <2>1. applyAction(st, lines, action) = PercentOffLines(st, lines, action)
    BY <1>6 DEF applyAction
  <2>2. PercentOffLines(st, lines, action) = ConsumeLines(st, left)
    BY DEF PercentOffLines, Before
  <2>3. ASSUME NEW i \in 1..n PROVE line[i] \in Nat /\ piece(i) \in Nat /\ piece(i) <= line[i]
    <3>1. line[i] \in Nat
      BY <1>1
    <3>2. (line[i] * action.value) \div 100 \in Nat /\ (line[i] * action.value) \div 100 <= line[i]
      <4>1. action.value <= 100
        BY <1>6 DEF ValidAction
      <4>. HIDE DEF line
      <4>. QED
        BY <1>2, <3>1, <4>1, PercentOf
    <3>. HIDE DEF line
    <3>. QED
      BY <3>1, <3>2
  <2>4. left \in [1..n -> Nat] /\ \A i \in 1..n : left[i] <= line[i]
    <3>. HIDE DEF piece, line
    <3>. QED
      BY <2>3
  <2>5. ConsumeLines(st, left) \in Evaluations(lines) /\ ConsumeLines(st, left).applied = st.applied
    <3>. HIDE DEF left
    <3>. QED
      BY <2>4, LinesCutKeeps
  <2>. QED
    BY <2>1, <2>2, <2>5
<1>7. CASE action.type = "flat_off_products"
  <2>. DEFINE held == Total([i \in 1..n |-> IF i \in on THEN line[i] ELSE 0])
              cut == IF action.value < held THEN action.value ELSE held
              left == Spread(line, on, cut)
  <2>1. applyAction(st, lines, action) = FlatOffLines(st, lines, action)
    BY <1>7 DEF applyAction
  <2>2. FlatOffLines(st, lines, action) = ConsumeLines(st, left)
    BY DEF FlatOffLines
  <2>3. held = SumFunctionOnSet(line, on) /\ held \in Nat
    <3>1. IsFiniteSet(1..n) /\ on \in SUBSET (1..n)
      BY FS_Interval
    <3>2. SumFunctionOnSet(line, on) \in Nat
      <4>1. \A i \in 1..n : line[i] \in Nat
        BY <1>1
      <4>. HIDE DEF on, line
      <4>. QED
        BY <3>1, <4>1, SumPart
    <3>3. held = SumFunctionOnSet(line, on)
      <4>. HIDE DEF on, line
      <4>. QED
        BY <1>1, <3>1, TotalOn
    <3>. QED
      BY <3>2, <3>3
  <2>4. cut \in Nat /\ cut <= SumFunctionOnSet(line, on)
    <3>. HIDE DEF held, on, line
    <3>. QED
      BY <1>2, <2>3
  <2>5. left \in [1..n -> Nat] /\ \A i \in 1..n : left[i] <= line[i]
    <3>1. on \in SUBSET (1..n)
      OBVIOUS
    <3>. HIDE DEF cut, on, line
    <3>. QED
      BY <1>1, <2>4, <3>1, SpreadTakes
  <2>6. ConsumeLines(st, left) \in Evaluations(lines) /\ ConsumeLines(st, left).applied = st.applied
    <3>. HIDE DEF left
    <3>. QED
      BY <2>5, LinesCutKeeps
  <2>. QED
    BY <2>1, <2>2, <2>6
<1>. QED
  BY <1>2, <1>3, <1>4, <1>5, <1>6, <1>7 DEF ActionTypes

\* A rule takes its discounts one by one, and is then counted at most once.
LEMMA ActionsKeep ==
  ASSUME NEW n \in Nat, NEW lines, DOMAIN lines = 1..n, Len(lines) = n, AmountsOf(lines),
         NEW st \in Evaluations(lines), NEW m \in Nat, NEW actions, DOMAIN actions = 1..m,
         \A i \in 1..m : ValidAction(actions[i])
  PROVE  ApplyActions(st, lines, actions) \in Evaluations(lines) /\ ApplyActions(st, lines, actions).applied = st.applied
PROOF
<1>. DEFINE Good == [S \in SUBSET (1..m) |-> {s \in Evaluations(lines) : s.applied = st.applied}]
            step == [S \in SUBSET (1..m) |-> [s \in Evaluations(lines) |-> applyAction(s, lines, actions[Max(S)])]]
            Is(f) == f = [S \in SUBSET (1..m) |->
                            IF S = {} THEN st ELSE applyAction(f[S \ {Max(S)}], lines, actions[Max(S)])]
            fold == CHOOSE f : Is(f)
<1>1. ASSUME NEW S \in SUBSET (1..m), S # {}, NEW s \in Good[S \ {Max(S)}]
      PROVE  /\ step[S][s] = applyAction(s, lines, actions[Max(S)])
             /\ applyAction(s, lines, actions[Max(S)]) \in Good[S]
  <2>1. Max(S) \in 1..m
    BY <1>1, LargestOf
  <2>2. s \in Evaluations(lines) /\ s.applied = st.applied
    OBVIOUS
  <2>3. /\ applyAction(s, lines, actions[Max(S)]) \in Evaluations(lines)
        /\ applyAction(s, lines, actions[Max(S)]).applied = s.applied
    BY <2>1, <2>2, ActionKeeps
  <2>. QED
    BY <2>2, <2>3
<1>2. st \in Good[{}]
  OBVIOUS
<1>3. \E f : Is(f)
  <2>1. GoodStep(m, Good, step)
    <3>1. ASSUME NEW S \in SUBSET (1..m), S # {}, NEW s \in Good[S \ {Max(S)}] PROVE step[S][s] \in Good[S]
      BY <1>1, <3>1
    <3>. HIDE DEF Good, step
    <3>. QED
      BY <3>1 DEF GoodStep
  <2>2. PICK f : FoldsBy(m, st, step, f) /\ \A S \in SUBSET (1..m) : f[S] \in Good[S]
    <3>. HIDE DEF Good, step
    <3>. QED
      BY <1>2, <2>1, FoldExists
  <2>. DEFINE g == [S \in SUBSET (1..m) |-> f[S]]
  <2>3. ASSUME NEW S \in SUBSET (1..m)
        PROVE  g[S] = IF S = {} THEN st ELSE applyAction(g[S \ {Max(S)}], lines, actions[Max(S)])
    <3>1. CASE S = {}
      BY <2>2, <3>1 DEF FoldsBy
    <3>2. CASE S # {}
      <4>1. S \ {Max(S)} \in SUBSET (1..m) /\ f[S \ {Max(S)}] \in Good[S \ {Max(S)}]
        BY <2>2
      <4>2. f[S] = step[S][f[S \ {Max(S)}]]
        BY <2>2, <3>2 DEF FoldsBy
      <4>3. step[S][f[S \ {Max(S)}]] = applyAction(f[S \ {Max(S)}], lines, actions[Max(S)])
        BY <1>1, <3>2, <4>1
      <4>4. g[S] = f[S] /\ g[S \ {Max(S)}] = f[S \ {Max(S)}]
        BY <4>1
      <4>. HIDE DEF g, step, Good
      <4>. QED
        BY <3>2, <4>2, <4>3, <4>4
    <3>. QED
      BY <3>1, <3>2
  <2>. DEFINE h == [S \in SUBSET (1..m) |->
                      IF S = {} THEN st ELSE applyAction(g[S \ {Max(S)}], lines, actions[Max(S)])]
  <2>4. g = h
    BY <2>3
  <2>. QED
    BY <2>4
<1>4. Is(fold)
  <2>. HIDE DEF Is
  <2>. QED
    BY <1>3
<1>5. fold[1..m] \in Good[1..m]
  <2>1. fold[{}] \in Good[{}]
    BY <1>2, <1>4
  <2>2. ASSUME NEW S \in SUBSET (1..m), S # {}, fold[S \ {Max(S)}] \in Good[S \ {Max(S)}]
        PROVE  fold[S] \in Good[S]
    <3>1. fold[S] = applyAction(fold[S \ {Max(S)}], lines, actions[Max(S)])
      <4>. HIDE DEF fold
      <4>. QED
        BY <1>4, <2>2
    <3>. HIDE DEF fold, Good, step
    <3>. QED
      BY <1>1, <2>2, <3>1
  <2>. HIDE DEF fold, Good
  <2>. QED
    BY <2>1, <2>2, FoldGood
<1>6. ApplyActions(st, lines, actions) = fold[1..m]
  BY DEF ApplyActions, FoldLeft, MapThenFoldSet
<1>7. 1..m \in SUBSET (1..m)
  OBVIOUS
<1>. HIDE DEF fold
<1>. QED
  BY <1>5, <1>6, <1>7

\* A promotion as the engine sees it, with actions the schema lets through.
ValidRule(rule) ==
  /\ rule.id \in Promos
  /\ \E m \in Nat : DOMAIN rule.actions = 1..m /\ \A i \in 1..m : ValidAction(rule.actions[i])

\* A promotion keeps the account, and is counted at most once.
LEMMA RuleKeeps ==
  ASSUME NEW n \in Nat, NEW lines, DOMAIN lines = 1..n, Len(lines) = n, AmountsOf(lines),
         NEW st \in Evaluations(lines), NEW rule, ValidRule(rule)
  PROVE  /\ ApplyRule(st, lines, rule) \in Evaluations(lines)
         /\ \/ ApplyRule(st, lines, rule).applied = st.applied
            \/ ApplyRule(st, lines, rule).applied = Append(st.applied, rule.id)
PROOF
<1>. DEFINE after == ApplyActions(st, lines, rule.actions)
            counted == [after EXCEPT !.applied = Append(@, rule.id)]
<1>1. PICK m \in Nat : DOMAIN rule.actions = 1..m /\ \A i \in 1..m : ValidAction(rule.actions[i])
  BY DEF ValidRule
<1>2. after \in Evaluations(lines) /\ after.applied = st.applied
  BY <1>1, ActionsKeep
<1>3. ApplyRule(st, lines, rule) = after \/ ApplyRule(st, lines, rule) = counted
  BY DEF ApplyRule
<1>4. counted \in Evaluations(lines) /\ counted.applied = Append(st.applied, rule.id)
  <2>1. rule.id \in Promos
    BY DEF ValidRule
  <2>2. after \in EngineStates(lines) /\ Accounted(lines, after) /\ after.applied \in Seq(Promos)
    <3>. HIDE DEF after
    <3>. QED
      BY <1>2 DEF Evaluations, EngineStates
  <2>3. Append(after.applied, rule.id) \in Seq(Promos)
    <3>. HIDE DEF after
    <3>. QED
      BY <2>1, <2>2
  <2>4. counted \in EngineStates(lines)
    <3>. HIDE DEF after
    <3>. QED
      BY <2>2, <2>3 DEF EngineStates
  <2>5. /\ counted.remaining = after.remaining /\ counted.line = after.line /\ counted.discount = after.discount
        /\ counted.spreads = after.spreads /\ counted.applied = Append(after.applied, rule.id)
    <3>. HIDE DEF after
    <3>. QED
      BY <2>2 DEF EngineStates
  <2>. HIDE DEF after, counted
  <2>. QED
    BY <1>2, <2>2, <2>4, <2>5 DEF Evaluations, Accounted
<1>. HIDE DEF after, counted
<1>. QED
  BY <1>2, <1>3, <1>4

\* So do promotions one after another: no more are counted than were tried, and
\* only those.
LEMMA RulesKeep ==
  ASSUME NEW n \in Nat, NEW lines, DOMAIN lines = 1..n, Len(lines) = n, AmountsOf(lines),
         NEW start \in Evaluations(lines), start.applied = <<>>, NEW k \in Nat, NEW stack, DOMAIN stack = 1..k,
         \A i \in 1..k : ValidRule(stack[i])
  PROVE  LET result == ApplyRules(start, lines, stack)
         IN  /\ result \in Evaluations(lines) /\ Len(result.applied) <= k
             /\ result.applied \in Seq({stack[i].id : i \in 1..k})
PROOF
<1>. DEFINE Good == [S \in SUBSET (1..k) |-> {s \in Evaluations(lines) : s.applied \in Seq({stack[i].id : i \in 1..k}) /\ Len(s.applied) <= Cardinality(S)}]
            step == [S \in SUBSET (1..k) |-> [s \in Evaluations(lines) |-> ApplyRule(s, lines, stack[Max(S)])]]
            Is(f) == f = [S \in SUBSET (1..k) |->
                            IF S = {} THEN start ELSE ApplyRule(f[S \ {Max(S)}], lines, stack[Max(S)])]
            fold == CHOOSE f : Is(f)
<1>1. ASSUME NEW S \in SUBSET (1..k), S # {}, NEW s \in Good[S \ {Max(S)}]
      PROVE  /\ step[S][s] = ApplyRule(s, lines, stack[Max(S)])
             /\ ApplyRule(s, lines, stack[Max(S)]) \in Good[S]
  <2>. DEFINE rule == stack[Max(S)]
              after == ApplyRule(s, lines, rule)
              ids == {stack[i].id : i \in 1..k}
  <2>1. Max(S) \in S /\ Max(S) \in 1..k /\ S \ {Max(S)} \in SUBSET (1..k)
    BY <1>1, LargestOf
  <2>2. s \in Evaluations(lines) /\ s.applied \in Seq(ids) /\ Len(s.applied) <= Cardinality(S \ {Max(S)})
    BY <2>1
  <2>3. after \in Evaluations(lines) /\ (after.applied = s.applied \/ after.applied = Append(s.applied, rule.id))
    <3>1. ValidRule(rule)
      BY <2>1
    <3>. HIDE DEF rule
    <3>. QED
      BY <2>2, <3>1, RuleKeeps
  <2>4. Cardinality(S \ {Max(S)}) = Cardinality(S) - 1 /\ Cardinality(S) \in Nat
    <3>1. IsFiniteSet(S)
      <4>1. IsFiniteSet(1..k)
        BY FS_Interval
      <4>. QED
        BY <4>1, FS_Subset
    <3>. QED
      BY <2>1, <3>1, FS_RemoveElement, FS_CardinalityType
  <2>5. after.applied \in Seq(ids) /\ Len(after.applied) <= Cardinality(S)
    <3>1. rule.id \in ids
      BY <2>1
    <3>2. s.applied \in Seq(ids) /\ Len(s.applied) \in Nat
      BY <2>2
    <3>3. Append(s.applied, rule.id) \in Seq(ids) /\ Len(Append(s.applied, rule.id)) = Len(s.applied) + 1
      <4>. HIDE DEF rule, ids
      <4>. QED
        BY <3>1, <3>2
    <3>4. Len(s.applied) + 1 <= Cardinality(S)
      BY <2>2, <2>4, <3>2
    <3>5. CASE after.applied = s.applied
      <4>. HIDE DEF after, ids
      <4>. QED
        BY <3>2, <3>4, <3>5, <2>4
    <3>6. CASE after.applied = Append(s.applied, rule.id)
      <4>. HIDE DEF rule, after, ids
      <4>. QED
        BY <3>3, <3>4, <3>6
    <3>. HIDE DEF rule, after, ids
    <3>. QED
      BY <2>3, <3>5, <3>6
  <2>6. step[S][s] = after
    BY <2>2
  <2>. QED
    BY <2>3, <2>5, <2>6
<1>2. start \in Good[{}]
  <2>1. Len(start.applied) <= Cardinality({}) /\ start.applied \in Seq({stack[i].id : i \in 1..k})
    BY FS_EmptySet
  <2>. QED
    BY <2>1
<1>3. \E f : Is(f)
  <2>1. GoodStep(k, Good, step)
    <3>1. ASSUME NEW S \in SUBSET (1..k), S # {}, NEW s \in Good[S \ {Max(S)}] PROVE step[S][s] \in Good[S]
      BY <1>1, <3>1
    <3>. HIDE DEF Good, step
    <3>. QED
      BY <3>1 DEF GoodStep
  <2>2. PICK f : FoldsBy(k, start, step, f) /\ \A S \in SUBSET (1..k) : f[S] \in Good[S]
    <3>. HIDE DEF Good, step
    <3>. QED
      BY <1>2, <2>1, FoldExists
  <2>. DEFINE g == [S \in SUBSET (1..k) |-> f[S]]
  <2>3. ASSUME NEW S \in SUBSET (1..k)
        PROVE  g[S] = IF S = {} THEN start ELSE ApplyRule(g[S \ {Max(S)}], lines, stack[Max(S)])
    <3>1. CASE S = {}
      BY <2>2, <3>1 DEF FoldsBy
    <3>2. CASE S # {}
      <4>1. S \ {Max(S)} \in SUBSET (1..k) /\ f[S \ {Max(S)}] \in Good[S \ {Max(S)}]
        BY <2>2
      <4>2. f[S] = step[S][f[S \ {Max(S)}]]
        BY <2>2, <3>2 DEF FoldsBy
      <4>3. step[S][f[S \ {Max(S)}]] = ApplyRule(f[S \ {Max(S)}], lines, stack[Max(S)])
        BY <1>1, <3>2, <4>1
      <4>4. g[S] = f[S] /\ g[S \ {Max(S)}] = f[S \ {Max(S)}]
        BY <4>1
      <4>. HIDE DEF g, step, Good
      <4>. QED
        BY <3>2, <4>2, <4>3, <4>4
    <3>. QED
      BY <3>1, <3>2
  <2>. DEFINE h == [S \in SUBSET (1..k) |->
                      IF S = {} THEN start ELSE ApplyRule(g[S \ {Max(S)}], lines, stack[Max(S)])]
  <2>4. g = h
    BY <2>3
  <2>. QED
    BY <2>4
<1>4. Is(fold)
  <2>. HIDE DEF Is
  <2>. QED
    BY <1>3
<1>5. fold[1..k] \in Good[1..k]
  <2>1. fold[{}] \in Good[{}]
    BY <1>2, <1>4
  <2>2. ASSUME NEW S \in SUBSET (1..k), S # {}, fold[S \ {Max(S)}] \in Good[S \ {Max(S)}]
        PROVE  fold[S] \in Good[S]
    <3>1. fold[S] = ApplyRule(fold[S \ {Max(S)}], lines, stack[Max(S)])
      <4>. HIDE DEF fold
      <4>. QED
        BY <1>4, <2>2
    <3>. HIDE DEF fold, Good, step
    <3>. QED
      BY <1>1, <2>2, <3>1
  <2>. HIDE DEF fold, Good
  <2>. QED
    BY <2>1, <2>2, FoldGood
<1>6. ApplyRules(start, lines, stack) = fold[1..k]
  BY DEF ApplyRules, FoldLeft, MapThenFoldSet
<1>7. 1..k \in SUBSET (1..k)
  OBVIOUS
<1>8. IsFiniteSet(1..k) /\ Cardinality(1..k) = k
  <2>1. IsFiniteSet(1..k) /\ Cardinality(1..k) = IF 1 > k THEN 0 ELSE k - 1 + 1
    BY FS_Interval
  <2>. QED
    BY <2>1
<1>9. fold[1..k] \in Evaluations(lines) /\ fold[1..k].applied \in Seq({stack[i].id : i \in 1..k})
      /\ Len(fold[1..k].applied) <= k
  <2>. HIDE DEF fold
  <2>. QED
    BY <1>5, <1>7, <1>8
<1>. HIDE DEF fold
<1>. QED
  BY <1>6, <1>9

\* Promotions that go together.
Stacks(R) == {out \in Seq(R) : Len(out) > 1 => \A i \in 1..Len(out) : out[i].stackable}

\* A stack takes a promotion only where both go together.
LEMMA AdmitKeeps ==
  ASSUME NEW R, NEW out \in Stacks(R), NEW rule \in R
  PROVE  Admit(out, rule) \in Stacks(R)
PROOF
<1>1. out \in Seq(R) /\ Len(out) \in Nat /\ DOMAIN out = 1..Len(out)
  BY DEF Stacks
<1>2. CASE Admit(out, rule) = out
  BY <1>2
<1>3. CASE Admit(out, rule) = Append(out, rule) /\ (out = <<>> \/ (out[1].stackable /\ rule.stackable))
  <2>. DEFINE more == Append(out, rule)
  <2>1. more \in Seq(R) /\ Len(more) = Len(out) + 1 /\ more[Len(out) + 1] = rule
        /\ \A i \in 1..Len(out) : more[i] = out[i]
    BY <1>1
  <2>2. CASE out = <<>>
    BY <1>3, <2>1, <2>2 DEF Stacks
  <2>3. CASE out # <<>> /\ out[1].stackable /\ rule.stackable
    <3>1. \A i \in 1..Len(out) : out[i].stackable
      <4>1. CASE Len(out) > 1
        BY <4>1 DEF Stacks
      <4>2. CASE ~(Len(out) > 1)
        <5>1. \A i \in 1..Len(out) : i = 1
          BY <1>1, <4>2
        <5>. QED
          BY <2>3, <5>1
      <4>. QED
        BY <4>1, <4>2
    <3>2. ASSUME NEW i \in 1..Len(more) PROVE more[i].stackable
      <4>1. i \in 1..Len(out) \/ i = Len(out) + 1
        BY <1>1, <2>1
      <4>. HIDE DEF more
      <4>. QED
        BY <2>1, <2>3, <3>1, <4>1
    <3>. HIDE DEF more
    <3>3. more \in Stacks(R)
      BY <2>1, <3>2 DEF Stacks
    <3>. QED
      BY <1>3, <3>3 DEF more
  <2>. QED
    BY <1>3, <2>2, <2>3
<1>. QED
  BY <1>2, <1>3 DEF Admit

\* What is selected goes together.
LEMMA SelectKeeps ==
  ASSUME NEW R, NEW lines, NEW who, NEW k \in Nat, NEW automatic, DOMAIN automatic = 1..k,
         \A i \in 1..k : automatic[i] \in R, NEW coupon, coupon = <<>> \/ \E r \in R : coupon = <<r>>
  PROVE  selectStack(automatic, coupon, lines, who) \in Stacks(R)
PROOF
<1>. DEFINE first == IF coupon # <<>> /\ Matches(coupon[1], lines, who) THEN coupon ELSE <<>>
<1>. DEFINE Good == [S \in SUBSET (1..k) |-> Stacks(R)]
            step == [S \in SUBSET (1..k) |-> [s \in Stacks(R) |-> (IF Matches(automatic[Max(S)], lines, who) THEN Admit(s, automatic[Max(S)]) ELSE s)]]
            Is(f) == f = [S \in SUBSET (1..k) |->
                            IF S = {} THEN first ELSE (IF Matches(automatic[Max(S)], lines, who) THEN Admit(f[S \ {Max(S)}], automatic[Max(S)]) ELSE f[S \ {Max(S)}])]
            fold == CHOOSE f : Is(f)
<1>1. ASSUME NEW S \in SUBSET (1..k), S # {}, NEW s \in Good[S \ {Max(S)}]
      PROVE  /\ step[S][s] = (IF Matches(automatic[Max(S)], lines, who) THEN Admit(s, automatic[Max(S)]) ELSE s)
             /\ (IF Matches(automatic[Max(S)], lines, who) THEN Admit(s, automatic[Max(S)]) ELSE s) \in Good[S]
  <2>1. Max(S) \in 1..k
    BY <1>1, LargestOf
  <2>2. s \in Stacks(R)
    OBVIOUS
  <2>3. Admit(s, automatic[Max(S)]) \in Stacks(R)
    BY <2>1, <2>2, AdmitKeeps
  <2>. QED
    BY <2>2, <2>3
<1>2. first \in Good[{}]
  <2>1. <<>> \in Stacks(R)
    BY DEF Stacks
  <2>2. ASSUME NEW r \in R PROVE <<r>> \in Stacks(R)
    <3>1. <<r>> \in Seq(R) /\ Len(<<r>>) = 1
      OBVIOUS
    <3>. QED
      BY <3>1 DEF Stacks
  <2>3. first \in Stacks(R)
    BY <2>1, <2>2
  <2>. HIDE DEF first
  <2>. QED
    BY <2>3
<1>. HIDE DEF first
<1>3. \E f : Is(f)
  <2>1. GoodStep(k, Good, step)
    <3>1. ASSUME NEW S \in SUBSET (1..k), S # {}, NEW s \in Good[S \ {Max(S)}] PROVE step[S][s] \in Good[S]
      BY <1>1, <3>1
    <3>. HIDE DEF Good, step
    <3>. QED
      BY <3>1 DEF GoodStep
  <2>2. PICK f : FoldsBy(k, first, step, f) /\ \A S \in SUBSET (1..k) : f[S] \in Good[S]
    <3>. HIDE DEF Good, step
    <3>. QED
      BY <1>2, <2>1, FoldExists
  <2>. DEFINE g == [S \in SUBSET (1..k) |-> f[S]]
  <2>3. ASSUME NEW S \in SUBSET (1..k)
        PROVE  g[S] = IF S = {} THEN first ELSE (IF Matches(automatic[Max(S)], lines, who) THEN Admit(g[S \ {Max(S)}], automatic[Max(S)]) ELSE g[S \ {Max(S)}])
    <3>1. CASE S = {}
      BY <2>2, <3>1 DEF FoldsBy
    <3>2. CASE S # {}
      <4>1. S \ {Max(S)} \in SUBSET (1..k) /\ f[S \ {Max(S)}] \in Good[S \ {Max(S)}]
        BY <2>2
      <4>2. f[S] = step[S][f[S \ {Max(S)}]]
        BY <2>2, <3>2 DEF FoldsBy
      <4>3. step[S][f[S \ {Max(S)}]] = (IF Matches(automatic[Max(S)], lines, who) THEN Admit(f[S \ {Max(S)}], automatic[Max(S)]) ELSE f[S \ {Max(S)}])
        BY <1>1, <3>2, <4>1
      <4>4. g[S] = f[S] /\ g[S \ {Max(S)}] = f[S \ {Max(S)}]
        BY <4>1
      <4>. HIDE DEF g, step, Good
      <4>. QED
        BY <3>2, <4>2, <4>3, <4>4
    <3>. QED
      BY <3>1, <3>2
  <2>. DEFINE h == [S \in SUBSET (1..k) |->
                      IF S = {} THEN first ELSE (IF Matches(automatic[Max(S)], lines, who) THEN Admit(g[S \ {Max(S)}], automatic[Max(S)]) ELSE g[S \ {Max(S)}])]
  <2>4. g = h
    BY <2>3
  <2>. QED
    BY <2>4
<1>4. Is(fold)
  <2>. HIDE DEF Is
  <2>. QED
    BY <1>3
<1>5. fold[1..k] \in Good[1..k]
  <2>1. fold[{}] \in Good[{}]
    BY <1>2, <1>4
  <2>2. ASSUME NEW S \in SUBSET (1..k), S # {}, fold[S \ {Max(S)}] \in Good[S \ {Max(S)}]
        PROVE  fold[S] \in Good[S]
    <3>1. fold[S] = (IF Matches(automatic[Max(S)], lines, who) THEN Admit(fold[S \ {Max(S)}], automatic[Max(S)]) ELSE fold[S \ {Max(S)}])
      <4>. HIDE DEF fold
      <4>. QED
        BY <1>4, <2>2
    <3>. HIDE DEF fold, Good, step
    <3>. QED
      BY <1>1, <2>2, <3>1
  <2>. HIDE DEF fold, Good
  <2>. QED
    BY <2>1, <2>2, FoldGood
<1>6. FoldLeft(LAMBDA out, rule : IF Matches(rule, lines, who) THEN Admit(out, rule) ELSE out, first, automatic) = fold[1..k]
  BY DEF FoldLeft, MapThenFoldSet
<1>7. 1..k \in SUBSET (1..k)
  OBVIOUS
<1>8. fold[1..k] \in Stacks(R) /\ first \in Stacks(R)
  <2>. HIDE DEF fold
  <2>. QED
    BY <1>2, <1>5, <1>7
<1>9. selectStack(automatic, coupon, lines, who) = first \/ selectStack(automatic, coupon, lines, who) = fold[1..k]
  <2>. HIDE DEF fold
  <2>. QED
    BY <1>6 DEF selectStack, first
<1>. HIDE DEF fold
<1>. QED
  BY <1>8, <1>9

-----------------------------------------------------------------------------
(* Promotions: the evaluation of a cart.                                   *)

\* A cart as a sequence of lines with prices.
CartPriced(lines) == \E n \in Nat : DOMAIN lines = 1..n /\ Len(lines) = n /\ AmountsOf(lines)
\* Every promotion there is has actions the schema lets through.
RulesValid == \A p \in Promos : Exists(p) => ValidRule(Rule(p))

\* What can be said of a result of the engine.
Sound(e) ==
  /\ e.discount \in Nat /\ e.spreads \in Nat /\ e.freeShipping \in BOOLEAN
  /\ e.discount <= Subtotal(cart) + e.spreads * Zero(Len(cart) - 2)
  /\ e.applied \in Seq(Promos)
  /\ Len(e.applied) > 1 => \A i \in DOMAIN e.applied : promo[e.applied[i]].stackable

\* A subtotal is an amount.
LEMMA SubtotalType ==
  ASSUME NEW lines, CartPriced(lines)
  PROVE  Subtotal(lines) \in Nat
PROOF
<1>1. PICK n \in Nat : DOMAIN lines = 1..n /\ AmountsOf(lines)
  BY DEF CartPriced
<1>. DEFINE line == [i \in 1..n |-> lines[i].paisa]
<1>2. line \in [1..n -> Nat]
  BY <1>1 DEF AmountsOf
<1>3. Total(line) \in Nat
  <2>. HIDE DEF line
  <2>. QED
    BY <1>2, TotalType
<1>. QED
  BY <1>1, <1>3 DEF Subtotal

\* The automatic promotions come as a sequence of promotions that exist.
LEMMA FoundRules ==
  ASSUME NEW found \in findActiveAutomaticPromotions
  PROVE  \E k \in Nat : DOMAIN found = 1..k /\ \A i \in 1..k : found[i] \in Promos /\ Exists(found[i])
PROOF
<1>. DEFINE S == {p \in Promos : Exists(p) /\ promo[p].isAutomatic /\ promo[p].isActive}
<1>1. found \in SetToSeqs(S)
  BY DEF findActiveAutomaticPromotions
<1>2. found \in [1..Cardinality(S) -> S]
  <2>. HIDE DEF S
  <2>. QED
    BY <1>1 DEF SetToSeqs
<1>3. Cardinality(S) \in Nat
  <2>1. IsFiniteSet(S)
    BY PromotionsAssumption, FS_Subset
  <2>. QED
    BY <2>1, FS_CardinalityType
<1>. QED
  BY <1>2, <1>3

\* The engine is sound for rules that exist, automatic or behind a coupon, ...
LEMMA CartSound ==
  ASSUME CartPriced(cart), RulesValid, NEW k \in Nat, NEW automatic, DOMAIN automatic = 1..k,
         NEW R, R = {Rule(p) : p \in {q \in Promos : Exists(q)}},
         \A i \in 1..k : automatic[i] \in R, NEW coupon, coupon = <<>> \/ \E r \in R : coupon = <<r>>,
         NEW who
  PROVE  Sound(evaluateCart(cart, who, automatic, coupon))
PROOF
<1>. DEFINE stack == selectStack(automatic, coupon, cart, who)
            start == [remaining |-> Subtotal(cart), line |-> [i \in DOMAIN cart |-> cart[i].paisa],
                      freeShipping |-> FALSE, discount |-> 0, applied |-> <<>>, spreads |-> 0]
            e == evaluateCart(cart, who, automatic, coupon)
            ids == {stack[i].id : i \in 1..Len(stack)}
<1>1. PICK n \in Nat : DOMAIN cart = 1..n /\ Len(cart) = n /\ AmountsOf(cart)
  BY DEF CartPriced
<1>2. stack \in Stacks(R)
  BY SelectKeeps
<1>3. stack \in Seq(R) /\ Len(stack) \in Nat /\ DOMAIN stack = 1..Len(stack)
      /\ (Len(stack) > 1 => \A i \in 1..Len(stack) : stack[i].stackable)
  <2>. HIDE DEF stack
  <2>. QED
    BY <1>2 DEF Stacks
<1>4. ASSUME NEW i \in 1..Len(stack)
      PROVE  \E p \in Promos : Exists(p) /\ stack[i] = Rule(p) /\ stack[i].id = p
                               /\ stack[i].stackable = promo[p].stackable
  <2>1. stack[i] \in R
    <3>. HIDE DEF stack
    <3>. QED
      BY <1>3
  <2>2. PICK p \in Promos : Exists(p) /\ stack[i] = Rule(p)
    <3>. HIDE DEF stack
    <3>. QED
      BY <2>1
  <2>3. Rule(p).id = p /\ Rule(p).stackable = promo[p].stackable
    BY DEF Rule
  <2>. HIDE DEF stack
  <2>. QED
    BY <2>2, <2>3
<1>5. start \in Evaluations(cart) /\ start.applied = <<>>
  <2>1. Subtotal(cart) \in Nat
    BY SubtotalType
  <2>2. [i \in DOMAIN cart |-> cart[i].paisa] \in [DOMAIN cart -> Nat]
    BY <1>1 DEF AmountsOf
  <2>3. start \in EngineStates(cart)
    BY <2>1, <2>2 DEF EngineStates
  <2>4. Zero(Len(cart) - 2) \in Nat
    BY <1>1 DEF Zero
  <2>5. Total(start.line) = Subtotal(cart)
    BY DEF Subtotal
  <2>6. start.remaining = Subtotal(cart) /\ start.discount = 0 /\ start.spreads = 0 /\ start.applied = <<>>
    OBVIOUS
  <2>. HIDE DEF start
  <2>7. Accounted(cart, start)
    BY <2>1, <2>4, <2>5, <2>6 DEF Accounted
  <2>. QED
    BY <2>3, <2>6, <2>7 DEF Evaluations
<1>6. e = ApplyRules(start, cart, stack)
  BY DEF evaluateCart
<1>7. e \in Evaluations(cart) /\ Len(e.applied) <= Len(stack) /\ e.applied \in Seq(ids)
  <2>1. \A i \in 1..Len(stack) : ValidRule(stack[i])
    <3>. HIDE DEF stack
    <3>. QED
      BY <1>4 DEF RulesValid
  <2>2. ASSUME NEW k2 \in Nat, NEW rules, DOMAIN rules = 1..k2, \A i \in 1..k2 : ValidRule(rules[i]),
               NEW st \in Evaluations(cart), st.applied = <<>>
        PROVE  /\ ApplyRules(st, cart, rules) \in Evaluations(cart)
               /\ Len(ApplyRules(st, cart, rules).applied) <= k2
               /\ ApplyRules(st, cart, rules).applied \in Seq({rules[i].id : i \in 1..k2})
    BY <1>1, <2>2, RulesKeep
  <2>. HIDE DEF stack, start, e
  <2>. QED
    BY <1>3, <1>5, <1>6, <2>1, <2>2
<1>8. e.discount \in Nat /\ e.spreads \in Nat /\ e.freeShipping \in BOOLEAN /\ e.applied \in Seq(Promos)
      /\ e.line \in [DOMAIN cart -> Nat]
      /\ e.discount + Total(e.line) <= Subtotal(cart) + e.spreads * Zero(Len(cart) - 2)
  <2>. HIDE DEF e
  <2>. QED
    BY <1>7 DEF Evaluations, EngineStates, Accounted
<1>9. e.discount <= Subtotal(cart) + e.spreads * Zero(Len(cart) - 2)
  <2>1. Total(e.line) \in Nat
    <3>. HIDE DEF e
    <3>. QED
      BY <1>1, <1>8, TotalType
  <2>2. Zero(Len(cart) - 2) \in Nat /\ Subtotal(cart) \in Nat
    BY <1>1, SubtotalType DEF Zero
  <2>3. e.spreads * Zero(Len(cart) - 2) \in Nat
    <3>. HIDE DEF e
    <3>. QED
      BY <1>8, <2>2
  <2>. HIDE DEF e
  <2>. QED
    BY <1>8, <2>1, <2>2, <2>3
<1>10. ASSUME Len(e.applied) > 1, NEW i \in DOMAIN e.applied PROVE promo[e.applied[i]].stackable
  <2>1. e.applied[i] \in ids /\ Len(e.applied) \in Nat
    <3>. HIDE DEF ids, e
    <3>. QED
      BY <1>7
  <2>2. PICK j \in 1..Len(stack) : e.applied[i] = stack[j].id
    <3>. HIDE DEF e, stack
    <3>. QED
      BY <2>1
  <2>3. Len(stack) > 1
    <3>. HIDE DEF e, stack
    <3>. QED
      BY <1>3, <1>7, <1>10, <2>1
  <2>. HIDE DEF e, stack
  <2>. QED
    BY <1>3, <1>4, <2>2, <2>3
<1>11. Sound(e)
  <2>. HIDE DEF e
  <2>. QED
    BY <1>8, <1>9, <1>10 DEF Sound
<1>. QED
  BY <1>11

\* ... and so is the evaluation that calls it.
LEMMA EvaluateSound ==
  ASSUME CartPriced(cart), RulesValid, NEW found \in findActiveAutomaticPromotions, NEW who,
         NEW p \in Promos \union {Absent}
  PROVE  /\ Sound(evaluate(found, who, p))
         /\ evaluate(found, who, p).totalPaisa \in Nat
         /\ evaluate(found, who, p).couponApplied => lookupCoupon(p)
PROOF
<1>. DEFINE R == {Rule(q) : q \in {r \in Promos : Exists(r)}}
            automatic == [i \in DOMAIN found |-> Rule(found[i])]
            coupon == IF lookupCoupon(p) THEN <<Rule(p)>> ELSE <<>>
            result == evaluateCart(cart, who, automatic, coupon)
            e == evaluate(found, who, p)
<1>1. PICK k \in Nat : DOMAIN found = 1..k /\ \A i \in 1..k : found[i] \in Promos /\ Exists(found[i])
  BY FoundRules
<1>2. DOMAIN automatic = 1..k /\ \A i \in 1..k : automatic[i] \in R
  BY <1>1
<1>3. coupon = <<>> \/ \E r \in R : coupon = <<r>>
  <2>1. CASE lookupCoupon(p)
    <3>1. p \in Promos /\ Exists(p)
      BY <2>1 DEF lookupCoupon
    <3>. QED
      BY <2>1, <3>1
  <2>2. CASE ~lookupCoupon(p)
    BY <2>2
  <2>. QED
    BY <2>1, <2>2
<1>4. Sound(result)
  <2>. HIDE DEF automatic, coupon, R
  <2>1. ASSUME NEW rules, rules = R PROVE Sound(result)
    <3>1. rules = {Rule(q) : q \in {r \in Promos : Exists(r)}}
      BY <2>1 DEF R
    <3>2. \A i \in 1..k : automatic[i] \in rules
      BY <1>2, <2>1
    <3>3. coupon = <<>> \/ \E r \in rules : coupon = <<r>>
      BY <1>3, <2>1
    <3>. QED
      BY <1>2, <3>1, <3>2, <3>3, CartSound
  <2>. QED
    BY <2>1
<1>. DEFINE left == Zero(Subtotal(cart) - result.discount)
            free == result.freeShipping \/ left >= FreeFrom
<1>5. e = [discount |-> result.discount, applied |-> result.applied, spreads |-> result.spreads,
           freeShipping |-> free, totalPaisa |-> left + (IF free THEN 0 ELSE Flat),
           couponApplied |-> lookupCoupon(p) /\ p \in ToSet(result.applied)]
  BY DEF evaluate
<1>6. /\ e.discount = result.discount /\ e.applied = result.applied /\ e.spreads = result.spreads
      /\ e.freeShipping = free /\ e.totalPaisa = left + (IF free THEN 0 ELSE Flat)
      /\ e.couponApplied = (lookupCoupon(p) /\ p \in ToSet(result.applied))
  <2>. HIDE DEF result, free, left, e
  <2>. QED
    BY <1>5
<1>7. e.freeShipping \in BOOLEAN
  <2>1. free \in BOOLEAN
    OBVIOUS
  <2>. HIDE DEF free, e
  <2>. QED
    BY <1>6, <2>1
<1>8. Sound(e)
  <2>. HIDE DEF result, e, free, left
  <2>. QED
    BY <1>4, <1>6, <1>7 DEF Sound
<1>9. e.totalPaisa \in Nat
  <2>1. left \in Nat
    <3>1. Subtotal(cart) \in Nat /\ result.discount \in Nat
      BY <1>4, SubtotalType DEF Sound
    <3>. HIDE DEF result
    <3>. QED
      BY <3>1 DEF Zero
  <2>. HIDE DEF left, free, e
  <2>. QED
    BY <1>6, <2>1, PromotionsAssumption
<1>10. e.couponApplied => lookupCoupon(p)
  <2>. HIDE DEF e, result
  <2>. QED
    BY <1>6
<1>. HIDE DEF e
<1>. Sound(e) /\ e.totalPaisa \in Nat /\ (e.couponApplied => lookupCoupon(p))
  BY <1>8, <1>9, <1>10
<1>. QED
  BY DEF e

\* Rows of different priorities are read in one order only.
LEMMA OneOrder ==
  ASSUME PrioritiesDiffer, \A p \in Promos : Exists(p) => promo[p].stackPriority \in Nat,
         NEW f \in findActiveAutomaticPromotions, NEW g \in findActiveAutomaticPromotions
  PROVE  f = g
PROOF
<1>. DEFINE S == {p \in Promos : Exists(p) /\ promo[p].isAutomatic /\ promo[p].isActive}
            n == Cardinality(S)
            Sorted(s) == /\ s \in [1..n -> S]
                         /\ \A i, j \in 1..n : i # j => s[i] # s[j]
                         /\ \A i, j \in 1..n : i < j => promo[s[i]].stackPriority <= promo[s[j]].stackPriority
<1>1. IsFiniteSet(S) /\ n \in Nat
  <2>1. IsFiniteSet(S)
    BY PromotionsAssumption, FS_Subset
  <2>. QED
    BY <2>1, FS_CardinalityType
<1>2. ASSUME NEW s \in findActiveAutomaticPromotions PROVE Sorted(s)
  <2>1. s \in SetToSeqs(S) /\ \A i, j \in DOMAIN s : i < j => promo[s[i]].stackPriority <= promo[s[j]].stackPriority
    BY DEF findActiveAutomaticPromotions
  <2>2. s \in [1..n -> S] /\ \A i, j \in 1..n : i # j => s[i] # s[j]
    <3>. HIDE DEF S
    <3>. QED
      BY <2>1 DEF SetToSeqs
  <2>. HIDE DEF S, n
  <2>. QED
    BY <2>1, <2>2
<1>3. \A p \in S : p \in Promos /\ Exists(p) /\ promo[p].stackPriority \in Nat
  OBVIOUS
<1>4. ASSUME NEW s, Sorted(s), NEW p \in S PROVE \E i \in 1..n : s[i] = p
  <2>1. s \in Injection(1..n, S)
    <3>. HIDE DEF S, n
    <3>. QED
      BY <1>4 DEF Injection, IsInjective
  <2>2. IsFiniteSet(1..n) /\ Cardinality(1..n) = n
    <3>1. IsFiniteSet(1..n) /\ Cardinality(1..n) = IF 1 > n THEN 0 ELSE n - 1 + 1
      <4>. HIDE DEF n
      <4>. QED
        BY <1>1, FS_Interval
    <3>. HIDE DEF n
    <3>. QED
      BY <1>1, <3>1
  <2>3. s \in Surjection(1..n, S)
    <3>1. Cardinality(1..n) = Cardinality(S)
      BY <2>2
    <3>. HIDE DEF S, n
    <3>. QED
      BY <1>1, <2>1, <3>1, FS_Injection
  <2>. HIDE DEF S, n
  <2>. QED
    BY <1>4, <2>3 DEF Surjection
<1>5. Sorted(f) /\ Sorted(g)
  <2>. HIDE DEF Sorted
  <2>. QED
    BY <1>2
<1>. DEFINE Differ == {i \in 1..n : f[i] # g[i]}
<1>6. ASSUME Differ # {} PROVE FALSE
  <2>1. PICK i \in Differ : \A j \in Differ : i <= j
    <3>1. PICK e \in Differ : TRUE
      BY <1>6
    <3>2. Differ \in SUBSET (0..n)
      <4>. HIDE DEF n
      <4>. QED
        BY <1>1
    <3>. HIDE DEF Differ, n
    <3>. QED
      BY <1>1, <3>1, <3>2, SmallestNumber
  <2>2. i \in 1..n /\ f[i] # g[i] /\ \A j \in 1..n : j < i => f[j] = g[j]
    <3>. HIDE DEF n
    <3>. QED
      BY <1>1, <2>1
  <2>3. f[i] \in S /\ g[i] \in S
    <3>. HIDE DEF S, n
    <3>. QED
      BY <1>5, <2>2
  <2>4. ASSUME NEW s, NEW t, Sorted(s), Sorted(t), s[i] # t[i], \A j \in 1..n : j < i => s[j] = t[j], s[i] \in S
        PROVE  promo[t[i]].stackPriority <= promo[s[i]].stackPriority
    <3>1. PICK j \in 1..n : t[j] = s[i]
      <4>. HIDE DEF Sorted, S, n
      <4>. QED
        BY <1>4, <2>4
    <3>2. j # i
      BY <2>4, <3>1
    <3>3. ~(j < i)
      <4>1. ASSUME j < i PROVE FALSE
        <5>1. s[j] = s[i]
          BY <2>4, <3>1, <4>1
        <5>. HIDE DEF n, S
        <5>. QED
          BY <2>2, <2>4, <3>2, <5>1
      <4>. QED
        BY <4>1
    <3>4. i < j
      <4>. HIDE DEF n
      <4>. QED
        BY <1>1, <2>2, <3>2, <3>3
    <3>. HIDE DEF n, S
    <3>. QED
      BY <2>2, <2>4, <3>1, <3>4
  <2>5. /\ promo[g[i]].stackPriority <= promo[f[i]].stackPriority
        /\ promo[f[i]].stackPriority <= promo[g[i]].stackPriority
    <3>. HIDE DEF Sorted, S, n
    <3>. QED
      BY <1>5, <2>2, <2>3, <2>4
  <2>6. promo[g[i]].stackPriority = promo[f[i]].stackPriority
    <3>. HIDE DEF S, n
    <3>. QED
      BY <1>3, <2>3, <2>5
  <2>. HIDE DEF S, n
  <2>. QED
    BY <1>3, <2>2, <2>3, <2>6 DEF PrioritiesDiffer
<1>7. \A i \in 1..n : f[i] = g[i]
  BY <1>6
<1>8. f \in [1..n -> S] /\ g \in [1..n -> S]
  BY <1>5
<1>. HIDE DEF S, n
<1>. QED
  BY <1>1, <1>7, <1>8

-----------------------------------------------------------------------------
(* Promotions: the invariant and its steps.                                *)

\* Conditions, actions and rows a promotion can have.
AllConditions == UNION {Offer[p].conditions : p \in Promos}
AllActions == UNION {ToSet(Offer[p].actions) : p \in Promos}
PromotionRows ==
  [isAutomatic : BOOLEAN, isActive : BOOLEAN, stackable : BOOLEAN, stackPriority : Nat,
   conditions : SUBSET AllConditions, actions : Seq(AllActions)]
\* Lines of carts, and what a customer may have for a coupon.
CartLines == UNION {ToSet(some) : some \in Carts}
Coupons == Promos \union {Absent}

\* Types of the variables.
PromotionsType ==
  /\ promo \in [Promos -> PromotionRows \union {Absent}]
  /\ code \in [Promos -> {"none", "active", "inactive"}]
  /\ form = Absent \/ form \in [of : Promos, row : PromotionRows]
  /\ cart \in Seq(CartLines) /\ stored \in Coupons
  /\ visit \in [evaluated : BOOLEAN, total : Int, coupon : Coupons, at : {"cart", "checkout", "payment", "paid"}]
  /\ order \in [total : Int, discount : Nat, applied : Seq(Promos), spreads : Nat]

\* A promotion whose coupon the customer has keeps that coupon, active or not.
CouponKept == stored # Absent /\ Exists(stored) => code[stored] # "none"

\* Where the customer is says what the page and the order can hold.
VisitInOrder ==
  /\ visit.evaluated => visit.at \in {"payment", "paid"}
  /\ visit.coupon # Absent => visit.evaluated /\ visit.coupon = stored
  /\ visit.at # "paid" => order = NoOrder

\* The page shows what an evaluation gives as long as nothing it reads changes ...
PageCurrent ==
  visit.evaluated /\ ~touched =>
    \E found \in findActiveAutomaticPromotions :
      LET e == evaluate(found, ctx, stored)
      IN  visit.total = e.totalPaisa /\ visit.coupon = IF e.couponApplied THEN stored ELSE Absent

\* ... and so does the order.
Charged(found) ==
  LET e == evaluate(found, ctx, visit.coupon)
      left == Subtotal(cart) - e.discount
  IN  /\ order.discount = e.discount
      /\ order.total = left + (IF e.freeShipping THEN 0 ELSE computeShipping(left))

OrderCurrent == visit.at = "paid" /\ ~touched => \E found \in findActiveAutomaticPromotions : Charged(found)

\* The inductive invariant.
PromotionsInv ==
  PromotionsType /\ CouponKept /\ VisitInOrder /\ PageCurrent /\ OrderCurrent /\ DiscountBounded

\* Every cart has prices.
LEMMA CartOfLines ==
  ASSUME NEW some \in Seq(CartLines)
  PROVE  CartPriced(some)
PROOF
<1>1. ASSUME NEW line \in CartLines PROVE line.paisa \in Nat
  BY PromotionsAssumption DEF CartLines
<1>2. Len(some) \in Nat /\ DOMAIN some = 1..Len(some) /\ \A i \in 1..Len(some) : some[i] \in CartLines
  OBVIOUS
<1>. QED
  BY <1>1, <1>2 DEF CartPriced, AmountsOf

\* Every promotion, edited or not, has actions the schema lets through.
LEMMA RulesAreValid ==
  ASSUME PromotionsType
  PROVE  RulesValid
PROOF
<1>. SUFFICES ASSUME NEW p \in Promos, Exists(p) PROVE ValidRule(Rule(p))
  BY DEF RulesValid
<1>1. promo[p] \in PromotionRows
  BY DEF PromotionsType, Exists
<1>2. promo[p].actions \in Seq(AllActions)
  BY <1>1 DEF PromotionRows
<1>3. ASSUME NEW action \in AllActions PROVE ValidAction(action)
  BY PromotionsAssumption DEF AllActions
<1>. DEFINE actions == promo[p].actions
<1>4. Len(actions) \in Nat /\ DOMAIN actions = 1..Len(actions) /\ \A i \in 1..Len(actions) : actions[i] \in AllActions
  <2>. HIDE DEF actions
  <2>1. actions \in Seq(AllActions)
    BY <1>2 DEF actions
  <2>. QED
    BY <2>1
<1>5. Rule(p).id = p /\ Rule(p).actions = actions
  BY DEF Rule
<1>6. \E m \in Nat : DOMAIN actions = 1..m /\ \A i \in 1..m : ValidAction(actions[i])
  <2>. HIDE DEF actions
  <2>. QED
    BY <1>3, <1>4
<1>. HIDE DEF actions
<1>. QED
  BY <1>5, <1>6 DEF ValidRule

\* So an evaluation is sound in every state.
LEMMA EvaluationSound ==
  ASSUME PromotionsType, NEW found \in findActiveAutomaticPromotions, NEW who, NEW p \in Coupons
  PROVE  /\ Sound(evaluate(found, who, p))
         /\ evaluate(found, who, p).totalPaisa \in Nat
         /\ evaluate(found, who, p).couponApplied => lookupCoupon(p)
PROOF
<1>1. CartPriced(cart)
  BY CartOfLines DEF PromotionsType
<1>. QED
  BY <1>1, RulesAreValid, EvaluateSound DEF Coupons

\* An evaluation depends on the promotions, the coupon's standing and the cart.
LEMMA EvaluateSame ==
  ASSUME promo' = promo, cart' = cart, NEW p, lookupCoupon(p)' = lookupCoupon(p), NEW found, NEW who
  PROVE  evaluate(found, who, p)' = evaluate(found, who, p)
PROOF
<1>1. \A q : Rule(q)' = Rule(q)
  BY DEF Rule
<1>. QED
  BY <1>1 DEF evaluate

\* What is found automatically depends on the promotions only.
LEMMA FoundSame ==
  ASSUME promo' = promo
  PROVE  findActiveAutomaticPromotions' = findActiveAutomaticPromotions
PROOF
BY DEF findActiveAutomaticPromotions, Exists

\* What leaves alone everything an evaluation reads leaves the page and the
\* order current.
LEMMA StillCurrent ==
  ASSUME PageCurrent, OrderCurrent, UNCHANGED <<promo, cart, ctx, stored, visit, order, touched>>,
         lookupCoupon(stored)' = lookupCoupon(stored), lookupCoupon(visit.coupon)' = lookupCoupon(visit.coupon)
  PROVE  PageCurrent' /\ OrderCurrent'
PROOF
<1>1. findActiveAutomaticPromotions' = findActiveAutomaticPromotions
  BY FoundSame
<1>2. ASSUME NEW found \in findActiveAutomaticPromotions
      PROVE  /\ evaluate(found, ctx, stored)' = evaluate(found, ctx, stored)
             /\ evaluate(found, ctx, visit.coupon)' = evaluate(found, ctx, visit.coupon)
             /\ Charged(found)' = Charged(found)
  <2>1. evaluate(found, ctx, stored)' = evaluate(found, ctx, stored)
    BY DEF evaluate, Rule
  <2>2. evaluate(found, ctx, visit.coupon)' = evaluate(found, ctx, visit.coupon)
    BY DEF evaluate, Rule
  <2>. QED
    BY <2>1, <2>2 DEF Charged
<1>. QED
  BY <1>1, <1>2 DEF PageCurrent, OrderCurrent

\* The fields of the row of a promotion, one at a time.
LEMMA RowChanged ==
  ASSUME NEW old \in PromotionRows
  PROVE  /\ [old EXCEPT !.isActive = FALSE] \in PromotionRows
         /\ \A new \in ToggleRow(old) \union ConditionsBuilder(old) \union ActionsBuilder(old) : new \in PromotionRows
PROOF
<1>1. \A new \in ToggleRow(old) : new \in PromotionRows
  BY DEF ToggleRow, PromotionRows
<1>2. [old EXCEPT !.isActive = FALSE] \in PromotionRows
  BY DEF PromotionRows
<1>3. \A new \in ConditionsBuilder(old) : new \in PromotionRows
  BY DEF ConditionsBuilder, PromotionRows
<1>4. ASSUME NEW i \in {i \in DOMAIN old.actions : Len(old.actions) > 1}
      PROVE  [old EXCEPT !.actions = RemoveAt(@, i)] \in PromotionRows
  <2>1. old.actions \in Seq(AllActions)
    BY DEF PromotionRows
  <2>2. PICK actions \in Seq(AllActions) : actions = old.actions
    BY <2>1
  <2>3. RemoveAt(actions, i) \in Seq(AllActions)
    <3>1. i \in 1..Len(actions) /\ Len(actions) \in Nat
      BY <2>2
    <3>2. SubSeq(actions, 1, i - 1) \in Seq(AllActions)
      BY <3>1, SubSeqProperties
    <3>3. SubSeq(actions, i + 1, Len(actions)) \in Seq(AllActions)
      BY <3>1, SubSeqProperties
    <3>4. SubSeq(actions, 1, i - 1) \o SubSeq(actions, i + 1, Len(actions)) \in Seq(AllActions)
      BY <3>2, <3>3, ConcatProperties
    <3>. QED
      BY <3>4 DEF RemoveAt
  <2>. QED
    BY <2>2, <2>3 DEF PromotionRows
<1>5. \A new \in ActionsBuilder(old) : new \in PromotionRows
  BY <1>4 DEF ActionsBuilder
<1>. QED
  BY <1>1, <1>2, <1>3, <1>5

\* What the customer does keeps the invariant, ...
LEMMA CustomerKeeps ==
  ASSUME PromotionsInv, Customer
  PROVE  PromotionsInv'
PROOF
<1>. DEFINE VisitType == [evaluated : BOOLEAN, total : Int, coupon : Coupons, at : {"cart", "checkout", "payment", "paid"}]
            OrderType == [total : Int, discount : Nat, applied : Seq(Promos), spreads : Nat]
<1>0. /\ PromotionsType /\ CouponKept /\ VisitInOrder /\ PageCurrent /\ OrderCurrent /\ DiscountBounded
      /\ visit \in VisitType /\ order \in OrderType /\ cart \in Seq(CartLines) /\ stored \in Coupons
  BY DEF PromotionsInv, PromotionsType
<1>a. Subtotal(cart) \in Nat
  BY <1>0, CartOfLines, SubtotalType
<1>b. promo' = promo /\ code' = code /\ form' = form
  BY DEF Customer, handleCheckout, BagChanges, PaymentView, PaymentEvaluated, createOrder, Refused
<1>c. findActiveAutomaticPromotions' = findActiveAutomaticPromotions
  BY <1>b, FoundSame
<1>d. NotYet \in VisitType /\ NotYet.evaluated = FALSE /\ NotYet.coupon = Absent
  BY DEF NotYet, Coupons
<1>1. CASE handleCheckout
  <2>1. /\ visit.at = "cart" /\ visit' = [visit EXCEPT !.at = "checkout"] /\ cart' = cart /\ order' = order
        /\ stored' \in applyCoupon \union {Absent}
    BY <1>1 DEF handleCheckout
  <2>2. visit' \in VisitType /\ visit'.evaluated = FALSE /\ visit'.coupon = Absent /\ visit'.at = "checkout"
    BY <1>0, <2>1 DEF VisitInOrder
  <2>3. order = NoOrder
    BY <1>0, <2>1 DEF VisitInOrder
  <2>4. stored' \in Coupons /\ (stored' # Absent => code[stored'] = "active")
    <3>1. ASSUME NEW p \in applyCoupon PROVE p \in Promos /\ code[p] = "active"
      <4>1. PICK found \in findActiveAutomaticPromotions : evaluate(found, Unknown, p).couponApplied
        BY <3>1 DEF applyCoupon
      <4>2. p \in Coupons /\ p \in Promos
        BY <3>1 DEF applyCoupon, Coupons
      <4>3. lookupCoupon(p)
        BY <1>0, <4>1, <4>2, EvaluationSound
      <4>. QED
        BY <4>2, <4>3 DEF lookupCoupon
    <3>. QED
      BY <2>1, <3>1 DEF Coupons
  <2>5. PromotionsType'
    BY <1>0, <1>b, <2>1, <2>2, <2>4 DEF PromotionsType
  <2>6. CouponKept'
    BY <1>b, <2>4 DEF CouponKept
  <2>7. VisitInOrder' /\ PageCurrent' /\ OrderCurrent'
    BY <2>1, <2>2, <2>3 DEF VisitInOrder, PageCurrent, OrderCurrent, NoOrder
  <2>8. DiscountBounded'
    BY <1>0, <2>1 DEF DiscountBounded
  <2>. QED
    BY <2>5, <2>6, <2>7, <2>8 DEF PromotionsInv
<1>2. CASE BagChanges
  <2>1. /\ visit.at = "checkout" /\ Len(cart) > 1 /\ cart' = Front(cart) /\ visit' = visit /\ order' = order
        /\ stored' = stored
    BY <1>2 DEF BagChanges
  <2>2. order = NoOrder /\ visit.evaluated = FALSE /\ visit.coupon = Absent
    BY <1>0, <2>1 DEF VisitInOrder
  <2>3. cart' \in Seq(CartLines)
    <3>1. Len(cart) \in Nat
      BY <1>0
    <3>2. SubSeq(cart, 1, Len(cart) - 1) \in Seq(CartLines)
      BY <1>0, <2>1, <3>1, SubSeqProperties
    <3>. QED
      BY <2>1, <3>2 DEF Front
  <2>4. PromotionsType'
    BY <1>0, <1>b, <2>1, <2>3 DEF PromotionsType
  <2>5. CouponKept' /\ VisitInOrder' /\ PageCurrent' /\ OrderCurrent'
    BY <1>0, <1>b, <2>1, <2>2 DEF CouponKept, VisitInOrder, PageCurrent, OrderCurrent, Exists, NoOrder
  <2>6. DiscountBounded'
    <3>1. ASSUME NEW rest \in Seq(CartLines) PROVE Subtotal(rest) \in Nat /\ Zero(Len(rest) - 2) \in Nat
      <4>1. Len(rest) \in Nat
        OBVIOUS
      <4>. QED
        BY <4>1, CartOfLines, SubtotalType DEF Zero
    <3>2. Subtotal(cart') \in Nat /\ Zero(Len(cart') - 2) \in Nat
      BY <2>3, <3>1
    <3>3. order'.discount = 0 /\ order'.spreads = 0
      BY <2>1, <2>2 DEF NoOrder
    <3>. QED
      BY <3>2, <3>3 DEF DiscountBounded
  <2>. QED
    BY <2>4, <2>5, <2>6 DEF PromotionsInv
<1>3. CASE PaymentView
  <2>. DEFINE plain == Subtotal(cart) + (IF Subtotal(cart) >= FreeFrom THEN 0 ELSE Flat)
  <2>1. /\ visit.at = "checkout" /\ visit' = [NotYet EXCEPT !.at = "payment", !.total = plain]
        /\ cart' = cart /\ order' = order /\ stored' = stored
    BY <1>3 DEF PaymentView
  <2>2. order = NoOrder
    BY <1>0, <2>1 DEF VisitInOrder
  <2>3. visit' \in VisitType /\ visit'.evaluated = FALSE /\ visit'.coupon = Absent /\ visit'.at = "payment"
    <3>1. plain \in Int
      BY <1>a, PromotionsAssumption
    <3>. HIDE DEF plain
    <3>. QED
      BY <1>d, <2>1, <3>1 DEF NotYet
  <2>4. PromotionsType'
    BY <1>0, <1>b, <2>1, <2>3 DEF PromotionsType
  <2>5. CouponKept' /\ VisitInOrder' /\ PageCurrent' /\ OrderCurrent' /\ DiscountBounded'
    <3>. HIDE DEF plain
    <3>1. CouponKept'
      BY <1>0, <1>b, <2>1 DEF CouponKept, Exists
    <3>2. VisitInOrder' /\ PageCurrent' /\ OrderCurrent'
      BY <2>1, <2>2, <2>3 DEF VisitInOrder, PageCurrent, OrderCurrent, NoOrder
    <3>3. DiscountBounded'
      BY <1>0, <2>1 DEF DiscountBounded
    <3>. QED
      BY <3>1, <3>2, <3>3
  <2>. QED
    BY <2>4, <2>5 DEF PromotionsInv
<1>4. CASE PaymentEvaluated
  <2>1. PICK found \in findActiveAutomaticPromotions :
          visit' = [NotYet EXCEPT !.at = "payment", !.evaluated = TRUE,
                                  !.total = evaluate(found, ctx, stored).totalPaisa,
                                  !.coupon = IF evaluate(found, ctx, stored).couponApplied THEN stored ELSE Absent]
    BY <1>4 DEF PaymentEvaluated, AtPayment
  <2>2. /\ visit.at = "payment" /\ cart' = cart /\ order' = order /\ stored' = stored /\ ctx' = ctx
    BY <1>4 DEF PaymentEvaluated
  <2>. DEFINE e == evaluate(found, ctx, stored)
              told == IF e.couponApplied THEN stored ELSE Absent
  <2>3. order = NoOrder
    BY <1>0, <2>2 DEF VisitInOrder
  <2>4. e.totalPaisa \in Int
    BY <1>0, EvaluationSound
  <2>5. told \in Coupons /\ (told # Absent => told = stored)
    BY <1>0 DEF Coupons
  <2>6. /\ visit' \in VisitType /\ visit'.evaluated /\ visit'.coupon = told /\ visit'.at = "payment"
        /\ visit'.total = e.totalPaisa
    <3>1. visit' = [NotYet EXCEPT !.at = "payment", !.evaluated = TRUE, !.total = e.totalPaisa, !.coupon = told]
      BY <2>1
    <3>. HIDE DEF told, e
    <3>. QED
      BY <2>4, <2>5, <3>1 DEF NotYet
  <2>7. PromotionsType'
    BY <1>0, <1>b, <2>2, <2>6 DEF PromotionsType
  <2>8. CouponKept'
    BY <1>0, <1>b, <2>2 DEF CouponKept, Exists
  <2>9. VisitInOrder' /\ OrderCurrent'
    <3>. HIDE DEF told, e
    <3>. QED
      BY <2>2, <2>3, <2>5, <2>6 DEF VisitInOrder, OrderCurrent, NoOrder
  <2>10. PageCurrent'
    <3>1. evaluate(found, ctx, stored)' = e
      BY <1>b, <2>2 DEF evaluate, Rule, lookupCoupon, Exists
    <3>2. visit'.coupon = IF e.couponApplied THEN stored' ELSE Absent
      BY <2>2, <2>6
    <3>. HIDE DEF e, told
    <3>. QED
      BY <1>c, <2>6, <3>1, <3>2 DEF PageCurrent
  <2>11. DiscountBounded'
    BY <1>0, <2>2 DEF DiscountBounded
  <2>. QED
    BY <2>7, <2>8, <2>9, <2>10, <2>11 DEF PromotionsInv
<1>5. CASE createOrder
  <2>1. PICK found \in findActiveAutomaticPromotions :
          LET e == evaluate(found, ctx, visit.coupon)
              left == Subtotal(cart) - e.discount
          IN  order' = [total |-> left + (IF e.freeShipping THEN 0 ELSE computeShipping(left)),
                        discount |-> e.discount, applied |-> e.applied, spreads |-> e.spreads]
    BY <1>5 DEF createOrder
  <2>2. /\ visit.at = "payment" /\ cart' = cart /\ stored' = stored /\ ctx' = ctx /\ touched' = touched
        /\ visit' = [visit EXCEPT !.at = "paid"]
    BY <1>5 DEF createOrder
  <2>. DEFINE e == evaluate(found, ctx, visit.coupon)
              left == Subtotal(cart) - e.discount
              charged == left + (IF e.freeShipping THEN 0 ELSE computeShipping(left))
  <2>3. Sound(e)
    BY <1>0, EvaluationSound
  <2>4. /\ visit' \in VisitType /\ visit'.evaluated = visit.evaluated /\ visit'.coupon = visit.coupon
        /\ visit'.at = "paid" /\ visit'.total = visit.total
    BY <1>0, <2>2
  <2>5. e.discount \in Nat /\ e.spreads \in Nat /\ e.applied \in Seq(Promos) /\ charged \in Int
    <3>1. e.discount \in Nat /\ e.spreads \in Nat /\ e.applied \in Seq(Promos)
      <4>. HIDE DEF e
      <4>. QED
        BY <2>3 DEF Sound
    <3>2. left \in Int
      <4>. HIDE DEF e
      <4>. QED
        BY <1>a, <3>1
    <3>3. computeShipping(left) \in Int
      <4>. HIDE DEF left
      <4>. QED
        BY PromotionsAssumption DEF computeShipping
    <3>4. charged \in Int
      <4>. HIDE DEF left, e
      <4>. QED
        BY <3>2, <3>3
    <3>. QED
      BY <3>1, <3>4
  <2>6. /\ order' \in OrderType /\ order'.total = charged /\ order'.discount = e.discount
        /\ order'.applied = e.applied /\ order'.spreads = e.spreads
    <3>1. order' = [total |-> charged, discount |-> e.discount, applied |-> e.applied, spreads |-> e.spreads]
      BY <2>1
    <3>. HIDE DEF e, charged
    <3>. QED
      BY <2>5, <3>1
  <2>7. PromotionsType'
    BY <1>0, <1>b, <2>2, <2>4, <2>6 DEF PromotionsType
  <2>8. CouponKept'
    BY <1>0, <1>b, <2>2 DEF CouponKept, Exists
  <2>9. VisitInOrder'
    BY <1>0, <2>2, <2>4 DEF VisitInOrder
  <2>10. PageCurrent'
    <3>1. ASSUME NEW some \in findActiveAutomaticPromotions
          PROVE  evaluate(some, ctx, stored)' = evaluate(some, ctx, stored)
      BY <1>b, <2>2 DEF evaluate, Rule, lookupCoupon, Exists
    <3>. QED
      BY <1>0, <1>c, <2>2, <2>4, <3>1 DEF PageCurrent
  <2>11. OrderCurrent'
    <3>1. evaluate(found, ctx, visit.coupon)' = e
      BY <1>b, <2>2, <2>4 DEF evaluate, Rule, lookupCoupon, Exists
    <3>2. Charged(found)'
      <4>1. computeShipping(left)' = computeShipping(left)
        BY <2>2, <3>1 DEF computeShipping
      <4>. HIDE DEF e
      <4>. QED
        BY <2>2, <2>6, <3>1 DEF Charged, computeShipping
    <3>. QED
      BY <1>c, <3>2 DEF OrderCurrent
  <2>12. DiscountBounded'
    <3>. HIDE DEF e
    <3>. QED
      BY <2>2, <2>3, <2>6 DEF Sound, DiscountBounded
  <2>. QED
    BY <2>7, <2>8, <2>9, <2>10, <2>11, <2>12 DEF PromotionsInv
<1>6. CASE Refused
  <2>1. /\ visit.at = "payment" /\ visit' = [NotYet EXCEPT !.at = "checkout"] /\ cart' = cart /\ order' = order
        /\ stored' = stored
    BY <1>6 DEF Refused
  <2>2. visit' \in VisitType /\ visit'.evaluated = FALSE /\ visit'.coupon = Absent /\ visit'.at = "checkout"
    BY <1>d, <2>1 DEF NotYet
  <2>3. order = NoOrder
    BY <1>0, <2>1 DEF VisitInOrder
  <2>4. PromotionsType'
    BY <1>0, <1>b, <2>1, <2>2 DEF PromotionsType
  <2>5. CouponKept'
    BY <1>0, <1>b, <2>1 DEF CouponKept, Exists
  <2>6. VisitInOrder' /\ PageCurrent' /\ OrderCurrent'
    BY <2>1, <2>2, <2>3 DEF VisitInOrder, PageCurrent, OrderCurrent, NoOrder
  <2>7. DiscountBounded'
    BY <1>0, <2>1 DEF DiscountBounded
  <2>. QED
    BY <2>4, <2>5, <2>6, <2>7 DEF PromotionsInv
<1>. QED
  BY <1>1, <1>2, <1>3, <1>4, <1>5, <1>6 DEF Customer

\* ... and what the admin does meanwhile.
LEMMA AdminKeeps ==
  ASSUME PromotionsInv, Admin
  PROVE  PromotionsInv'
PROOF
<1>0. /\ PromotionsType /\ CouponKept /\ VisitInOrder /\ PageCurrent /\ OrderCurrent /\ DiscountBounded
  BY DEF PromotionsInv
<1>a. UNCHANGED <<cart, stored, visit, order>>
  BY DEF Admin, FirstOrderElsewhere, update, createCoupon, deactivateCoupon, PromotionEditor, delete
<1>b. VisitInOrder' /\ DiscountBounded'
  BY <1>0, <1>a DEF VisitInOrder, DiscountBounded, NoOrder
<1>c. touched' = TRUE => PageCurrent' /\ OrderCurrent'
  BY DEF PageCurrent, OrderCurrent
<1>1. CASE FirstOrderElsewhere
  <2>1. UNCHANGED <<promo, code, form>> /\ touched' = TRUE
    BY <1>1 DEF FirstOrderElsewhere
  <2>2. PromotionsType' /\ CouponKept'
    BY <1>0, <1>a, <2>1 DEF PromotionsType, CouponKept, Exists
  <2>. QED
    BY <1>b, <1>c, <2>1, <2>2 DEF PromotionsInv
<1>2. ASSUME NEW p \in Promos, PromotionEditor(p) PROVE PromotionsInv'
  <2>1. UNCHANGED <<promo, code, ctx, touched>> /\ form' = [of |-> p, row |-> promo[p]] /\ Exists(p)
    BY <1>2 DEF PromotionEditor
  <2>2. promo[p] \in PromotionRows
    BY <1>0, <2>1 DEF PromotionsType, Exists
  <2>3. PromotionsType' /\ CouponKept'
    <3>1. form' \in [of : Promos, row : PromotionRows]
      BY <2>1, <2>2
    <3>. QED
      BY <1>0, <1>a, <2>1, <3>1 DEF PromotionsType, CouponKept, Exists
  <2>4. PageCurrent' /\ OrderCurrent'
    <3>1. lookupCoupon(stored)' = lookupCoupon(stored) /\ lookupCoupon(visit.coupon)' = lookupCoupon(visit.coupon)
      BY <1>a, <2>1 DEF lookupCoupon, Exists
    <3>. QED
      BY <1>0, <1>a, <2>1, <3>1, StillCurrent
  <2>. QED
    BY <1>b, <2>3, <2>4 DEF PromotionsInv
<1>3. CASE update
  <2>1. PICK new \in ToggleRow(form.row) \union ConditionsBuilder(form.row) \union ActionsBuilder(form.row) :
          promo' = [promo EXCEPT ![form.of] = new] /\ form' = [form EXCEPT !.row = new]
    BY <1>3 DEF update
  <2>2. form # Absent /\ Exists(form.of) /\ code' = code /\ touched' = TRUE
    BY <1>3 DEF update
  <2>3. form.of \in Promos /\ form.row \in PromotionRows /\ form \in [of : Promos, row : PromotionRows]
    BY <1>0, <2>2 DEF PromotionsType
  <2>4. new \in PromotionRows
    BY <2>1, <2>3, RowChanged
  <2>5. PromotionsType'
    <3>1. promo' \in [Promos -> PromotionRows \union {Absent}]
      BY <1>0, <2>1, <2>3, <2>4 DEF PromotionsType
    <3>2. form' \in [of : Promos, row : PromotionRows]
      BY <2>1, <2>3, <2>4
    <3>. QED
      BY <1>0, <1>a, <2>2, <3>1, <3>2 DEF PromotionsType
  <2>6. CouponKept'
    <3>1. \A p \in Promos : Exists(p)' => Exists(p)
      BY <1>0, <2>1, <2>2 DEF PromotionsType, Exists
    <3>2. stored \in Promos \union {Absent}
      BY <1>0 DEF PromotionsType, Coupons
    <3>. QED
      BY <1>0, <1>a, <2>2, <3>1, <3>2 DEF CouponKept, Exists
  <2>. QED
    BY <1>b, <1>c, <2>2, <2>5, <2>6 DEF PromotionsInv
<1>4. CASE createCoupon
  <2>1. /\ UNCHANGED <<promo, form, ctx, touched>> /\ code' = [code EXCEPT ![form.of] = "active"]
        /\ Exists(form.of) /\ code[form.of] = "none" /\ form # Absent
    BY <1>4 DEF createCoupon, CouponsPanel
  <2>2. form.of \in Promos /\ code \in [Promos -> {"none", "active", "inactive"}] /\ stored \in Promos \union {Absent}
    BY <1>0, <2>1 DEF PromotionsType, Coupons
  <2>3. stored = Absent \/ code'[stored] = code[stored]
    BY <1>0, <2>1, <2>2 DEF CouponKept
  <2>4. lookupCoupon(stored)' = lookupCoupon(stored)
    BY <1>a, <2>1, <2>3 DEF lookupCoupon, Exists
  <2>5. lookupCoupon(visit.coupon)' = lookupCoupon(visit.coupon)
    <3>1. visit.coupon = stored \/ visit.coupon = Absent
      BY <1>0 DEF VisitInOrder
    <3>2. visit'.coupon = visit.coupon /\ stored' = stored
      BY <1>a
    <3>3. CASE visit.coupon = stored
      BY <2>1, <2>3, <3>2, <3>3 DEF lookupCoupon, Exists
    <3>4. CASE visit.coupon = Absent
      BY <3>2, <3>4 DEF lookupCoupon
    <3>. QED
      BY <3>1, <3>3, <3>4
  <2>6. PageCurrent' /\ OrderCurrent'
    BY <1>0, <1>a, <2>1, <2>4, <2>5, StillCurrent
  <2>7. PromotionsType' /\ CouponKept'
    BY <1>0, <1>a, <2>1, <2>2 DEF PromotionsType, CouponKept, Exists
  <2>. QED
    BY <1>b, <2>6, <2>7 DEF PromotionsInv
<1>5. CASE deactivateCoupon
  <2>1. /\ UNCHANGED <<promo, form>> /\ touched' = TRUE /\ code' = [code EXCEPT ![form.of] = "inactive"]
    BY <1>5 DEF deactivateCoupon
  <2>2. code \in [Promos -> {"none", "active", "inactive"}] /\ stored \in Promos \union {Absent}
    BY <1>0 DEF PromotionsType, Coupons
  <2>3. PromotionsType' /\ CouponKept'
    BY <1>0, <1>a, <2>1, <2>2 DEF PromotionsType, CouponKept, Exists
  <2>. QED
    BY <1>b, <1>c, <2>1, <2>3 DEF PromotionsInv
<1>6. ASSUME NEW p \in Promos, delete(p) PROVE PromotionsInv'
  <2>1. Exists(p) /\ touched' = TRUE /\ form' = form
    BY <1>6 DEF delete
  <2>2. /\ promo \in [Promos -> PromotionRows \union {Absent}] /\ promo[p] \in PromotionRows
        /\ code \in [Promos -> {"none", "active", "inactive"}] /\ stored \in Promos \union {Absent}
    BY <1>0, <2>1 DEF PromotionsType, Coupons, Exists
  <2>3. \/ promo' = [promo EXCEPT ![p] = [promo[p] EXCEPT !.isActive = FALSE]] /\ code' = code
        \/ promo' = [promo EXCEPT ![p] = Absent] /\ code' = [code EXCEPT ![p] = "none"]
    BY <1>6, <2>2 DEF delete
  <2>4. [promo[p] EXCEPT !.isActive = FALSE] \in PromotionRows
    BY <2>2, RowChanged
  <2>5. promo' \in [Promos -> PromotionRows \union {Absent}] /\ code' \in [Promos -> {"none", "active", "inactive"}]
    BY <2>2, <2>3, <2>4
  <2>6. \A q \in Promos : Exists(q)' => Exists(q) /\ code'[q] = code[q]
    BY <2>1, <2>2, <2>3 DEF Exists
  <2>7. CouponKept'
    BY <1>0, <1>a, <2>2, <2>6 DEF CouponKept, Exists
  <2>8. PromotionsType'
    BY <1>0, <1>a, <2>1, <2>5 DEF PromotionsType
  <2>. QED
    BY <1>b, <1>c, <2>1, <2>7, <2>8 DEF PromotionsInv
<1>. QED
  BY <1>1, <1>2, <1>3, <1>4, <1>5, <1>6 DEF Admin

\* It holds at first, whatever the promotions ...
LEMMA PromotionsStart ==
  ASSUME NEW rows, rows \in [Promos -> PromotionRows \union {Absent}], PromotionsInit(rows)
  PROVE  PromotionsInv
PROOF
<1>1. /\ promo = rows /\ code \in [Promos -> {"none", "active"}] /\ form = Absent /\ cart \in Carts
      /\ stored = Absent /\ visit = NotYet /\ order = NoOrder
  BY DEF PromotionsInit
<1>2. cart \in Seq(CartLines)
  <2>1. cart \in Seq(ToSet(cart)) /\ ToSet(cart) \subseteq CartLines
    BY <1>1, PromotionsAssumption DEF CartLines
  <2>. QED
    BY <2>1
<1>3. PromotionsType
  BY <1>1, <1>2 DEF PromotionsType, NotYet, NoOrder, Coupons
<1>4. CouponKept /\ VisitInOrder /\ PageCurrent /\ OrderCurrent
  BY <1>1 DEF CouponKept, VisitInOrder, PageCurrent, OrderCurrent, NotYet
<1>5. DiscountBounded
  <2>1. Subtotal(cart) \in Nat /\ Len(cart) \in Nat
    BY <1>2, CartOfLines, SubtotalType
  <2>2. order.discount = 0 /\ order.spreads = 0 /\ Zero(Len(cart) - 2) \in Nat
    BY <1>1, <2>1 DEF NoOrder, Zero
  <2>. QED
    BY <2>1, <2>2 DEF DiscountBounded
<1>. QED
  BY <1>3, <1>4, <1>5 DEF PromotionsInv

\* ... and every step keeps it.
LEMMA PromotionsInductive ==
  ASSUME PromotionsInv, [Customer \/ Admin]_promoVars
  PROVE  PromotionsInv'
PROOF
<1>1. CASE UNCHANGED promoVars
  <2>1. promo' = promo /\ cart' = cart /\ stored' = stored /\ visit' = visit /\ code' = code
    BY <1>1 DEF promoVars
  <2>2. lookupCoupon(stored)' = lookupCoupon(stored) /\ lookupCoupon(visit.coupon)' = lookupCoupon(visit.coupon)
    BY <2>1 DEF lookupCoupon, Exists
  <2>3. PageCurrent' /\ OrderCurrent'
    BY <1>1, <2>2, StillCurrent DEF PromotionsInv, promoVars
  <2>4. PromotionsType' /\ CouponKept' /\ VisitInOrder' /\ DiscountBounded'
    BY <1>1 DEF PromotionsInv, promoVars, PromotionsType, CouponKept, Exists, VisitInOrder, DiscountBounded, NoOrder
  <2>. QED
    BY <2>3, <2>4 DEF PromotionsInv
<1>. QED
  BY <1>1, CustomerKeeps, AdminKeeps

\* Promotions take more than the cart is worth only by what rounding leaves on
\* the lines, however they are combined and edited: less than a paisa per line
\* for each discount spread over it.
THEOREM RoundingGivesLittle ==
  ASSUME NEW rows, rows \in [Promos -> PromotionRows \union {Absent}]
  PROVE  PromotionsSpec(rows) => []DiscountBounded
PROOF
<1>1. PromotionsInit(rows) => PromotionsInv
  BY PromotionsStart
<1>2. PromotionsInv /\ [Customer \/ Admin]_promoVars => PromotionsInv'
  BY PromotionsInductive
<1>3. PromotionsInv => DiscountBounded
  BY DEF PromotionsInv
<1>. QED
  BY <1>1, <1>2, <1>3, PTL DEF PromotionsSpec

\* The invariant is what makes the order charge what the page showed: both are
\* evaluations of the same cart by the same promotions in the only order that
\* their priorities allow.
LEMMA PageAndOrder ==
  ASSUME PromotionsInv
  PROVE  ChargedAsShown
PROOF
<1>. SUFFICES ASSUME PaidAsEvaluated, lookupCoupon(stored) => visit.coupon = stored
              PROVE  visit.total - order.total = Zero(order.discount - Subtotal(cart))
  BY DEF ChargedAsShown
<1>1. visit.at = "paid" /\ visit.evaluated /\ ~touched /\ PrioritiesDiffer
  BY DEF PaidAsEvaluated
<1>2. /\ PromotionsType /\ VisitInOrder /\ PageCurrent /\ OrderCurrent
      /\ stored \in Coupons /\ visit.coupon \in Coupons /\ cart \in Seq(CartLines)
  BY DEF PromotionsInv, PromotionsType
<1>3. PICK found \in findActiveAutomaticPromotions :
        /\ visit.total = evaluate(found, ctx, stored).totalPaisa
        /\ visit.coupon = IF evaluate(found, ctx, stored).couponApplied THEN stored ELSE Absent
  BY <1>1, <1>2 DEF PageCurrent
<1>4. PICK again \in findActiveAutomaticPromotions : Charged(again)
  BY <1>1, <1>2 DEF OrderCurrent
<1>5. again = found
  <2>1. \A p \in Promos : Exists(p) => promo[p].stackPriority \in Nat
    BY <1>2 DEF PromotionsType, Exists, PromotionRows
  <2>. QED
    BY <1>1, <2>1, OneOrder
<1>. DEFINE e == evaluate(found, ctx, stored)
            f == evaluate(found, ctx, visit.coupon)
<1>6. e.discount = f.discount /\ e.freeShipping = f.freeShipping
  <2>1. CASE lookupCoupon(stored)
    BY <2>1
  <2>2. CASE ~lookupCoupon(stored)
    <3>1. ~e.couponApplied
      BY <1>2, <2>2, EvaluationSound
    <3>2. ~lookupCoupon(visit.coupon)
      BY <1>3, <3>1 DEF lookupCoupon
    <3>. QED
      BY <2>2, <3>2 DEF evaluate
  <2>. QED
    BY <2>1, <2>2
<1>7. /\ Subtotal(cart) \in Nat /\ e.discount \in Nat /\ e.freeShipping \in BOOLEAN
      /\ FreeFrom \in Nat /\ Flat \in Nat
  <2>1. Sound(e)
    BY <1>2, EvaluationSound
  <2>2. Subtotal(cart) \in Nat
    BY <1>2, CartOfLines, SubtotalType
  <2>. HIDE DEF e
  <2>. QED
    BY <2>1, <2>2, PromotionsAssumption DEF Sound
<1>8. /\ e.totalPaisa = Zero(Subtotal(cart) - e.discount) + (IF e.freeShipping THEN 0 ELSE Flat)
      /\ ~e.freeShipping => ~(Zero(Subtotal(cart) - e.discount) >= FreeFrom)
  BY DEF evaluate
<1>9. /\ order.discount = e.discount
      /\ order.total = (Subtotal(cart) - e.discount)
                         + (IF e.freeShipping THEN 0 ELSE computeShipping(Subtotal(cart) - e.discount))
  <2>. HIDE DEF e, f
  <2>1. order.discount = f.discount
        /\ order.total = (Subtotal(cart) - f.discount)
                           + (IF f.freeShipping THEN 0 ELSE computeShipping(Subtotal(cart) - f.discount))
    BY <1>4, <1>5 DEF Charged, f
  <2>. QED
    BY <1>6, <2>1
<1>10. visit.total = e.totalPaisa
  BY <1>3
<1>. HIDE DEF e, f
<1>11. ~e.freeShipping => computeShipping(Subtotal(cart) - e.discount) = Flat
  BY <1>7, <1>8 DEF computeShipping, Zero
<1>. QED
  BY <1>7, <1>8, <1>9, <1>10, <1>11 DEF Zero

\* An order charges what the payment page showed when nothing an evaluation
\* reads has changed since: the difference is what discounts beyond the
\* subtotal would take from the shipping fee, for every cart and catalogue of
\* promotions.
THEOREM OrderChargesAsShown ==
  ASSUME NEW rows, rows \in [Promos -> PromotionRows \union {Absent}]
  PROVE  PromotionsSpec(rows) => []ChargedAsShown
PROOF
<1>1. PromotionsInit(rows) => PromotionsInv
  BY PromotionsStart
<1>2. PromotionsInv /\ [Customer \/ Admin]_promoVars => PromotionsInv'
  BY PromotionsInductive
<1>3. PromotionsInv => ChargedAsShown
  BY PageAndOrder
<1>. QED
  BY <1>1, <1>2, <1>3, PTL DEF PromotionsSpec

\* Where an order counts several promotions as applied, all of them stack: one
\* that does not is never combined, whatever priorities, coupons and edits.
THEOREM NoneBesideALoner ==
  ASSUME NEW rows, rows \in [Promos -> PromotionRows \union {Absent}]
  PROVE  PromotionsSpec(rows) => StandsAlone
PROOF
<1>. DEFINE Alone == order' # order /\ Len(order'.applied) > 1
                       => \A i \in DOMAIN order'.applied : promo[order'.applied[i]].stackable
<1>1. PromotionsInit(rows) => PromotionsInv
  BY PromotionsStart
<1>2. PromotionsInv /\ [Customer \/ Admin]_promoVars => PromotionsInv'
  BY PromotionsInductive
<1>3. ASSUME PromotionsInv, Customer \/ Admin PROVE Alone
  <2>1. CASE createOrder
    <3>1. PICK found \in findActiveAutomaticPromotions : order'.applied = evaluate(found, ctx, visit.coupon).applied
      BY <2>1 DEF createOrder
    <3>2. Sound(evaluate(found, ctx, visit.coupon))
      <4>1. PromotionsType /\ visit.coupon \in Coupons
        BY <1>3 DEF PromotionsInv, PromotionsType
      <4>. QED
        BY <4>1, EvaluationSound
    <3>. QED
      BY <3>1, <3>2 DEF Sound
  <2>2. CASE ~createOrder
    <3>1. order' = order
      BY <1>3, <2>2 DEF Customer, Admin, handleCheckout, BagChanges, PaymentView, PaymentEvaluated, Refused,
                        FirstOrderElsewhere, update, createCoupon, deactivateCoupon, PromotionEditor, delete
    <3>. QED
      BY <3>1
  <2>. QED
    BY <2>1, <2>2
<1>4. PromotionsInv /\ [Customer \/ Admin]_promoVars => [Alone]_promoVars
  BY <1>3
<1>. QED
  BY <1>1, <1>2, <1>4, PTL DEF PromotionsSpec, StandsAlone


-----------------------------------------------------------------------------
(* Categories: lists in order.                                             *)

\* s is the list of S by sortOrder and name.
SortedList(v, S, s) ==
  /\ s \in [1..Cardinality(S) -> S]
  /\ \A c \in S : \E i \in 1..Cardinality(S) : s[i] = c
  /\ \A i, j \in 1..Cardinality(S) : i < j => Above(v, s[i], s[j])

Earlier(v, S, c) == {d \in S : Above(v, d, c)}

\* What comes before has fewer before it.
LEMMA FewerBefore ==
  ASSUME NEW v, NEW S \in SUBSET Nat, IsFiniteSet(S), \A c \in S : v[c].sortOrder \in Int,
         NEW c \in S
  PROVE  /\ Cardinality(Earlier(v, S, c)) \in 0..(Cardinality(S) - 1)
         /\ \A d \in S : Above(v, c, d) => Cardinality(Earlier(v, S, c)) < Cardinality(Earlier(v, S, d))
PROOF
<1>. DEFINE E(x) == Earlier(v, S, x)
<1>1. ASSUME NEW x \in S PROVE IsFiniteSet(E(x)) /\ Cardinality(E(x)) \in Nat
  <2>1. E(x) \in SUBSET S
    BY DEF Earlier
  <2>. QED
    BY <2>1, FS_Subset, FS_CardinalityType
<1>2. c \notin E(c)
  <2>1. v[c].sortOrder \in Int /\ c \in Nat
    OBVIOUS
  <2>2. ~Above(v, c, c)
    BY <2>1 DEF Above
  <2>. QED
    BY <2>2 DEF Earlier
<1>3. IsFiniteSet(E(c) \cup {c}) /\ Cardinality(E(c) \cup {c}) = Cardinality(E(c)) + 1
  <2>. HIDE DEF E
  <2>. QED
    BY <1>1, <1>2, FS_AddElement
<1>4. Cardinality(E(c)) \in 0..(Cardinality(S) - 1)
  <2>1. E(c) \cup {c} \in SUBSET S
    BY DEF Earlier
  <2>. HIDE DEF E
  <2>2. Cardinality(E(c) \cup {c}) <= Cardinality(S)
    BY <2>1, FS_Subset
  <2>3. Cardinality(S) \in Nat
    BY FS_CardinalityType
  <2>. QED
    BY <1>1, <1>3, <2>2, <2>3
<1>5. ASSUME NEW d \in S, Above(v, c, d) PROVE Cardinality(E(c)) < Cardinality(E(d))
  <2>1. E(c) \cup {c} \in SUBSET E(d)
    <3>1. ASSUME NEW x \in E(c) PROVE x \in E(d)
      <4>1. x \in S /\ Above(v, x, c)
        BY DEF Earlier
      <4>2. Above(v, x, d)
        <5>1. v[x].sortOrder \in Int /\ v[c].sortOrder \in Int /\ v[d].sortOrder \in Int
          BY <4>1
        <5>2. x \in Nat /\ c \in Nat /\ d \in Nat
          BY <4>1
        <5>. QED
          BY <1>5, <4>1, <5>1, <5>2 DEF Above
      <4>. QED
        BY <4>1, <4>2 DEF Earlier
    <3>2. c \in E(d)
      BY <1>5 DEF Earlier
    <3>. HIDE DEF E
    <3>. QED
      BY <3>1, <3>2
  <2>. HIDE DEF E
  <2>2. Cardinality(E(c) \cup {c}) <= Cardinality(E(d))
    BY <1>1, <2>1, FS_Subset
  <2>. QED
    BY <1>1, <1>3, <2>2
<1>. QED
  BY <1>4, <1>5

\* Of two, one comes before the other, and only one.
LEMMA OneIsBefore ==
  ASSUME NEW v, NEW S \in SUBSET Nat, \A c \in S : v[c].sortOrder \in Int
  PROVE  \A c, d \in S : /\ c # d => Above(v, c, d) \/ Above(v, d, c)
                         /\ Above(v, c, d) => ~Above(v, d, c) /\ c # d
PROOF
<1>. QED
  BY DEF Above

\* Ordered gives the list: counting what comes before numbers S without a gap.
LEMMA OrderedIsSorted ==
  ASSUME NEW v, NEW S \in SUBSET Nat, IsFiniteSet(S), \A c \in S : v[c].sortOrder \in Int
  PROVE  SortedList(v, S, Ordered(v, S))
PROOF
<1>. DEFINE n == Cardinality(S)
            s == Ordered(v, S)
            rank(c) == Cardinality(Earlier(v, S, c))
            to == [c \in S |-> rank(c) + 1]
<1>0. n \in Nat
  BY FS_CardinalityType
<1>1. \A c, d \in S : rank(c) = rank(d) => c = d
  <2>1. ASSUME NEW c \in S, NEW d \in S, c # d PROVE rank(c) # rank(d)
    <3>1. Above(v, c, d) \/ Above(v, d, c)
      BY <2>1, OneIsBefore
    <3>2. rank(c) \in Int /\ rank(d) \in Int
      BY FewerBefore
    <3>3. Above(v, c, d) => rank(c) < rank(d)
      BY FewerBefore
    <3>4. Above(v, d, c) => rank(d) < rank(c)
      BY FewerBefore
    <3>. HIDE DEF rank
    <3>. QED
      BY <3>1, <3>2, <3>3, <3>4
  <2>. QED
    BY <2>1
<1>2. \A c \in S : rank(c) \in 0..(n - 1)
  BY FewerBefore
<1>3. to \in Injection(S, 1..n)
  <2>. HIDE DEF rank, n
  <2>. QED
    BY <1>0, <1>1, <1>2 DEF Injection, IsInjective
<1>4. to \in Surjection(S, 1..n)
  <2>1. IsFiniteSet(1..n) /\ Cardinality(1..n) = n
    <3>1. IsFiniteSet(1..n) /\ Cardinality(1..n) = IF 1 > n THEN 0 ELSE n - 1 + 1
      BY <1>0, FS_Interval
    <3>. HIDE DEF n
    <3>. QED
      BY <1>0, <3>1
  <2>. HIDE DEF to
  <2>. QED
    BY <1>3, <2>1, FS_Injection
<1>5. \A i \in 1..n : \E c \in S : rank(c) = i - 1
  <2>1. \A i \in 1..n : \E c \in S : to[c] = i
    <3>. HIDE DEF to, n
    <3>. QED
      BY <1>4 DEF Surjection
  <2>. SUFFICES ASSUME NEW i \in 1..n PROVE \E c \in S : rank(c) = i - 1
    OBVIOUS
  <2>2. PICK c \in S : to[c] = i
    BY <2>1
  <2>3. rank(c) + 1 = i
    BY <2>2
  <2>. HIDE DEF rank, n, to
  <2>. QED
    BY <1>0, <1>2, <2>3
<1>6. /\ DOMAIN s = 1..n
      /\ s = [i \in 1..n |-> CHOOSE c \in S : rank(c) = i - 1]
  BY DEF Ordered, Earlier
<1>7. \A i \in 1..n : s[i] \in S /\ rank(s[i]) = i - 1
  <2>. HIDE DEF rank, n, s
  <2>. QED
    BY <1>5, <1>6
<1>8. s \in [1..n -> S]
  <2>. HIDE DEF rank, n, s
  <2>. QED
    BY <1>6, <1>7
<1>9. \A c \in S : \E i \in 1..n : s[i] = c
  <2>1. ASSUME NEW c \in S PROVE rank(c) + 1 \in 1..n /\ s[rank(c) + 1] = c
    <3>. HIDE DEF rank, n, s
    <3>1. rank(c) + 1 \in 1..n
      BY <1>0, <1>2
    <3>2. rank(s[rank(c) + 1]) = rank(c) /\ s[rank(c) + 1] \in S
      BY <1>2, <1>7, <3>1
    <3>. QED
      BY <1>1, <3>1, <3>2
  <2>. HIDE DEF rank, n, s
  <2>. QED
    BY <2>1
<1>10. ASSUME NEW i \in 1..n, NEW j \in 1..n, i < j PROVE Above(v, s[i], s[j])
  <2>1. s[i] \in S /\ s[j] \in S /\ rank(s[i]) < rank(s[j])
    <3>. HIDE DEF rank, n, s
    <3>. QED
      BY <1>0, <1>7, <1>10
  <2>2. ~Above(v, s[j], s[i]) /\ s[i] # s[j]
    <3>. HIDE DEF s
    <3>1. Above(v, s[j], s[i]) => rank(s[j]) < rank(s[i])
      BY <2>1, FewerBefore
    <3>2. rank(s[i]) \in Int /\ rank(s[j]) \in Int
      <4>. HIDE DEF rank, n
      <4>. QED
        BY <1>0, <1>7
    <3>. HIDE DEF rank
    <3>. QED
      BY <2>1, <3>1, <3>2
  <2>. HIDE DEF s
  <2>. QED
    BY <2>1, <2>2, OneIsBefore
<1>. QED
  BY <1>8, <1>9, <1>10 DEF SortedList

\* There is no other.
LEMMA SortedIsOrdered ==
  ASSUME NEW v, NEW S \in SUBSET Nat, IsFiniteSet(S), \A c \in S : v[c].sortOrder \in Int,
         NEW n \in Nat, NEW s \in [1..n -> S],
         \A c \in S : \E i \in 1..n : s[i] = c,
         \A i, j \in 1..n : i < j => Above(v, s[i], s[j])
  PROVE  Cardinality(S) = n /\ Ordered(v, S) = s
PROOF
<1>1. \A i, j \in 1..n : s[i] = s[j] => i = j
  <2>1. ASSUME NEW i \in 1..n, NEW j \in 1..n, i < j PROVE s[i] # s[j]
    BY <2>1, OneIsBefore
  <2>. QED
    BY <2>1
<1>2. Cardinality(S) = n
  <2>1. s \in Surjection(1..n, S) /\ s \in Injection(1..n, S)
    BY <1>1 DEF Surjection, Injection, IsInjective
  <2>2. IsFiniteSet(1..n) /\ Cardinality(1..n) = IF 1 > n THEN 0 ELSE n - 1 + 1
    BY FS_Interval
  <2>3. Cardinality(S) = Cardinality(1..n)
    BY <2>1, <2>2, FS_Surjection
  <2>. QED
    BY <2>2, <2>3
<1>3. ASSUME NEW i \in 1..n PROVE Cardinality(Earlier(v, S, s[i])) = i - 1
  <2>. DEFINE first == [j \in 1..(i - 1) |-> s[j]]
              E == Earlier(v, S, s[i])
  <2>1. E = {s[j] : j \in 1..(i - 1)}
    <3>1. ASSUME NEW j \in 1..(i - 1) PROVE s[j] \in E
      <4>1. s[j] \in S /\ Above(v, s[j], s[i])
        OBVIOUS
      <4>. QED
        BY <4>1 DEF Earlier
    <3>2. ASSUME NEW d \in E PROVE \E j \in 1..(i - 1) : d = s[j]
      <4>1. d \in S /\ Above(v, d, s[i])
        BY DEF Earlier
      <4>2. PICK j \in 1..n : s[j] = d
        BY <4>1
      <4>3. ~Above(v, s[i], d) /\ s[i] # d
        BY <4>1, OneIsBefore
      <4>4. j < i
        BY <4>2, <4>3
      <4>. QED
        BY <4>2, <4>4
    <3>. HIDE DEF E
    <3>. QED
      BY <3>1, <3>2
  <2>2. first \in Bijection(1..(i - 1), E)
    <3>1. first \in [1..(i - 1) -> E]
      BY <2>1
    <3>2. \A j, k \in 1..(i - 1) : first[j] = first[k] => j = k
      BY <1>1
    <3>3. \A d \in E : \E j \in 1..(i - 1) : first[j] = d
      BY <2>1
    <3>. HIDE DEF first, E
    <3>. QED
      BY <3>1, <3>2, <3>3 DEF Bijection, Injection, Surjection, IsInjective
  <2>3. IsFiniteSet(1..(i - 1)) /\ Cardinality(1..(i - 1)) = IF 1 > i - 1 THEN 0 ELSE i - 1 - 1 + 1
    BY FS_Interval
  <2>4. Cardinality(E) = Cardinality(1..(i - 1))
    <3>. HIDE DEF first, E
    <3>. QED
      BY <2>2, <2>3, FS_Bijection DEF ExistsBijection
  <2>. QED
    BY <2>3, <2>4
<1>4. ASSUME NEW i \in 1..n PROVE s[i] = CHOOSE c \in S : Cardinality(Earlier(v, S, c)) = i - 1
  <2>1. ASSUME NEW c \in S, Cardinality(Earlier(v, S, c)) = i - 1 PROVE c = s[i]
    <3>1. PICK j \in 1..n : s[j] = c
      OBVIOUS
    <3>2. Cardinality(Earlier(v, S, c)) = j - 1
      BY <1>3, <3>1
    <3>. QED
      BY <2>1, <3>1, <3>2
  <2>2. s[i] \in S /\ Cardinality(Earlier(v, S, s[i])) = i - 1
    BY <1>3
  <2>. QED
    BY <2>1, <2>2
<1>5. Ordered(v, S) = [i \in 1..n |-> CHOOSE c \in S : Cardinality(Earlier(v, S, c)) = i - 1]
  BY <1>2 DEF Ordered, Earlier
<1>. QED
  BY <1>2, <1>4, <1>5

-----------------------------------------------------------------------------
(* Categories: paths and cycles.                                           *)

\* up is the way from c to the top, or as far as the rows go.
Climbs(v, c, n, up) ==
  /\ up \in [0..n -> DOMAIN v \union {Root}]
  /\ up[0] = c
  /\ \A i \in 1..n : up[i] = IF up[i - 1] = Root THEN Root ELSE buildTree(v)[up[i - 1]]

\* The parent of a row that is shown is a row or the top.
LEMMA ParentOf ==
  ASSUME NEW v
  PROVE  /\ DOMAIN buildTree(v) = DOMAIN v
         /\ \A c \in DOMAIN v : buildTree(v)[c] \in DOMAIN v \union {Root}
PROOF
<1>. QED
  BY DEF buildTree

\* Path is the range of such a way.
LEMMA PathClimbs ==
  ASSUME NEW v, IsFiniteSet(DOMAIN v), NEW c \in DOMAIN v
  PROVE  \E up : /\ Climbs(v, c, Cardinality(DOMAIN v), up)
                 /\ Path(v, c) = {up[i] : i \in 0..Cardinality(DOMAIN v)}
PROOF
<1>. DEFINE n == Cardinality(DOMAIN v)
            next(x) == IF x = Root THEN Root ELSE buildTree(v)[x]
            Ups(m, f) == f = [i \in 0..m |-> IF i = 0 THEN c ELSE next(f[i - 1])]
            Good == {m \in 0..n : \E f : Ups(m, f)}
            up == CHOOSE f : Ups(n, f)
<1>0. n \in Nat
  BY FS_CardinalityType
<1>1. 0 \in Good
  <2>. DEFINE f == [i \in 0..0 |-> c]
  <2>1. Ups(0, f)
    OBVIOUS
  <2>2. 0 \in 0..n
    <3>. HIDE DEF n
    <3>. QED
      BY <1>0
  <2>. HIDE DEF Ups, f
  <2>. QED
    BY <2>1, <2>2
<1>2. ASSUME NEW m \in 1..n, m - 1 \in Good PROVE m \in Good
  <2>1. PICK f : Ups(m - 1, f)
    BY <1>2
  <2>. DEFINE g == [i \in 0..m |-> IF i < m THEN f[i] ELSE next(f[m - 1])]
  <2>2. m \in Nat /\ m >= 1
    <3>. HIDE DEF n
    <3>. QED
      BY <1>0
  <2>3. f[0] = c /\ \A i \in 1..(m - 1) : f[i] = next(f[i - 1])
    <3>. HIDE DEF next
    <3>. QED
      BY <2>1, <2>2
  <2>4. ASSUME NEW i \in 0..m PROVE g[i] = IF i = 0 THEN c ELSE next(g[i - 1])
    <3>. HIDE DEF next
    <3>1. CASE i = 0
      BY <2>2, <2>3, <3>1
    <3>2. CASE i \in 1..(m - 1)
      <4>1. g[i] = f[i] /\ g[i - 1] = f[i - 1] /\ f[i] = next(f[i - 1]) /\ i # 0
        BY <2>2, <2>3, <3>2
      <4>. HIDE DEF g
      <4>. QED
        BY <4>1
    <3>3. CASE i = m
      <4>1. g[i] = next(f[m - 1]) /\ g[i - 1] = f[m - 1] /\ i # 0
        BY <2>2, <3>3
      <4>. HIDE DEF g
      <4>. QED
        BY <3>3, <4>1
    <3>. QED
      BY <2>2, <3>1, <3>2, <3>3
  <2>5. Ups(m, g)
    <3>1. g = [i \in 0..m |-> g[i]]
      OBVIOUS
    <3>. HIDE DEF g, next
    <3>. QED
      BY <2>4, <3>1
  <2>. HIDE DEF Ups, g
  <2>. QED
    BY <2>5
<1>3. Good = 0..n
  <2>1. Good \in SUBSET (0..n)
    OBVIOUS
  <2>2. \A m \in 1..n : m - 1 \in Good => m \in Good
    BY <1>2
  <2>. HIDE DEF Good, n
  <2>. QED
    BY <1>0, <1>1, <2>1, <2>2, Stepwise
<1>4. Ups(n, up)
  <2>1. n \in Good
    <3>. HIDE DEF Good, n
    <3>. QED
      BY <1>0, <1>3
  <2>2. \E f : Ups(n, f)
    BY <2>1
  <2>. HIDE DEF Ups, n
  <2>. QED
    BY <2>2
<1>5. /\ DOMAIN up = 0..n /\ up[0] = c
      /\ \A i \in 1..n : up[i] = next(up[i - 1])
  <2>. HIDE DEF up, n, next
  <2>. QED
    BY <1>0, <1>4
<1>6. \A i \in 0..n : up[i] \in DOMAIN v \union {Root}
  <2>. DEFINE Ok == {i \in 0..n : up[i] \in DOMAIN v \union {Root}}
  <2>. HIDE DEF up
  <2>1. 0 \in Ok
    <3>. HIDE DEF n
    <3>. QED
      BY <1>0, <1>5
  <2>2. ASSUME NEW i \in 1..n, i - 1 \in Ok PROVE i \in Ok
    <3>1. up[i] = next(up[i - 1]) /\ up[i - 1] \in DOMAIN v \union {Root}
      BY <1>5, <2>2
    <3>2. up[i] \in DOMAIN v \union {Root}
      BY <3>1, ParentOf
    <3>. HIDE DEF n
    <3>. QED
      BY <1>0, <3>2
  <2>3. Ok \in SUBSET (0..n)
    OBVIOUS
  <2>4. Ok = 0..n
    <3>. HIDE DEF Ok, n
    <3>. QED
      BY <1>0, <2>1, <2>2, <2>3, Stepwise
  <2>. QED
    BY <2>4
<1>7. Path(v, c) = {up[i] : i \in 0..n}
  <2>1. Path(v, c) = {up[i] : i \in DOMAIN up}
    BY DEF Path
  <2>. HIDE DEF up, n
  <2>. QED
    BY <1>5, <2>1
<1>8. Climbs(v, c, n, up)
  <2>1. up = [i \in 0..n |-> up[i]]
    <3>. HIDE DEF next
    <3>. QED
      BY <1>4
  <2>. HIDE DEF up, n
  <2>. QED
    BY <1>5, <1>6, <2>1 DEF Climbs
<1>. HIDE DEF up
<1>. QED
  BY <1>7, <1>8

\* A way stays in a set that holds the parents of what is on it.
LEMMA PathStays ==
  ASSUME NEW v, IsFiniteSet(DOMAIN v), NEW X \in SUBSET (DOMAIN v \union {Root}), NEW c \in X \cap DOMAIN v,
         \A x \in X \cap Path(v, c) : x # Root => buildTree(v)[x] \in X
  PROVE  Path(v, c) \subseteq X
PROOF
<1>. DEFINE n == Cardinality(DOMAIN v)
<1>1. n \in Nat
  BY FS_CardinalityType
<1>2. PICK up : Climbs(v, c, n, up) /\ Path(v, c) = {up[i] : i \in 0..n}
  BY PathClimbs
<1>. DEFINE In == {i \in 0..n : up[i] \in X}
<1>. HIDE DEF n
<1>3. 0 \in In
  BY <1>1, <1>2 DEF Climbs
<1>4. ASSUME NEW i \in 1..n, i - 1 \in In PROVE i \in In
  <2>1. i - 1 \in 0..n /\ i \in 0..n
    BY <1>1
  <2>2. up[i - 1] \in X \cap Path(v, c)
    BY <1>2, <1>4, <2>1
  <2>3. up[i] = IF up[i - 1] = Root THEN Root ELSE buildTree(v)[up[i - 1]]
    BY <1>2 DEF Climbs
  <2>. QED
    BY <2>1, <2>2, <2>3
<1>5. In = 0..n
  <2>1. In \in SUBSET (0..n)
    OBVIOUS
  <2>. HIDE DEF In
  <2>. QED
    BY <1>1, <1>3, <1>4, <2>1, Stepwise
<1>. QED
  BY <1>2, <1>5

\* Who takes more steps than there are places is somewhere twice.
LEMMA SomewhereTwice ==
  ASSUME NEW D, IsFiniteSet(D), NEW up \in [0..Cardinality(D) -> D]
  PROVE  \E i, j \in 0..Cardinality(D) : i < j /\ up[i] = up[j]
PROOF
<1>. DEFINE n == Cardinality(D)
            steps == 0..n
<1>1. n \in Nat
  BY FS_CardinalityType
<1>2. IsFiniteSet(steps) /\ Cardinality(steps) = n + 1
  <2>1. IsFiniteSet(steps) /\ Cardinality(steps) = IF 0 > n THEN 0 ELSE n - 0 + 1
    <3>. HIDE DEF n
    <3>. QED
      BY <1>1, FS_Interval
  <2>. HIDE DEF n, steps
  <2>. QED
    BY <1>1, <2>1
<1>3. up \in [steps -> D] /\ Cardinality(D) < Cardinality(steps)
  <2>1. Cardinality(D) = n
    OBVIOUS
  <2>2. up \in [steps -> D]
    OBVIOUS
  <2>. HIDE DEF n, steps
  <2>. QED
    BY <1>1, <1>2, <2>1, <2>2
<1>4. \E i, j \in steps : i # j /\ up[i] = up[j]
  <2>. HIDE DEF n, steps
  <2>. QED
    BY <1>2, <1>3, FS_PigeonHole
<1>5. PICK i \in 0..n, j \in 0..n : i # j /\ up[i] = up[j]
  BY <1>4
<1>6. i < j \/ j < i
  <2>. HIDE DEF n
  <2>. QED
    BY <1>1, <1>5
<1>. QED
  BY <1>5, <1>6

\* Rows that have their parents among them.
Cycle(v, X) == X \subseteq DOMAIN v /\ \A x \in X : buildTree(v)[x] \in X

\* What is not shown lies on a cycle or hangs below one: a way of as many steps
\* as there are rows that has not come to the top was at one row twice.
THEOREM ShownUnlessCycle ==
  ASSUME NEW v, IsFiniteSet(DOMAIN v), Root \notin DOMAIN v, NEW c \in DOMAIN v
  PROVE  c \in flatten(v) <=> ~ \E X : Cycle(v, X) /\ c \in X
PROOF
<1>. DEFINE D == DOMAIN v
            n == Cardinality(D)
<1>0. n \in Nat
  BY FS_CardinalityType
<1>1. ASSUME NEW X, Cycle(v, X), c \in X PROVE c \notin flatten(v)
  <2>1. /\ X \in SUBSET (DOMAIN v \union {Root}) /\ Root \notin X /\ c \in X \cap DOMAIN v
        /\ \A x \in X \cap Path(v, c) : x # Root => buildTree(v)[x] \in X
    BY <1>1 DEF Cycle
  <2>2. Path(v, c) \subseteq X
    BY <2>1, PathStays
  <2>. QED
    BY <2>1, <2>2 DEF flatten
<1>2. ASSUME c \notin flatten(v) PROVE \E X : Cycle(v, X) /\ c \in X
  <2>1. PICK up : Climbs(v, c, n, up) /\ Path(v, c) = {up[i] : i \in 0..n}
    BY PathClimbs
  <2>2. Root \notin Path(v, c)
    BY <1>2 DEF flatten
  <2>3. up \in [0..n -> D] /\ up[0] = c /\ \A i \in 1..n : up[i] = buildTree(v)[up[i - 1]]
    <3>. HIDE DEF n
    <3>1. \A i \in 0..n : up[i] \in Path(v, c)
      BY <2>1
    <3>2. \A i \in 0..n : up[i] # Root
      BY <2>2, <3>1
    <3>3. \A i \in 1..n : i - 1 \in 0..n
      BY <1>0
    <3>4. up \in [0..n -> D \union {Root}] /\ up[0] = c
      BY <2>1 DEF Climbs
    <3>5. \A i \in 1..n : up[i] = buildTree(v)[up[i - 1]]
      BY <2>1, <3>2, <3>3 DEF Climbs
    <3>. QED
      BY <3>2, <3>4, <3>5
  <2>4. \E i, j \in 0..n : i < j /\ up[i] = up[j]
    BY <2>3, SomewhereTwice
  <2>5. PICK i \in 0..n, j \in 0..n : i < j /\ up[i] = up[j]
    BY <2>4
  <2>. DEFINE X == {up[k] : k \in 0..(j - 1)}
  <2>. HIDE DEF n
  <2>6. c \in X
    BY <1>0, <2>3, <2>5
  <2>7. X \subseteq D
    BY <1>0, <2>3, <2>5
  <2>8. ASSUME NEW x \in X PROVE buildTree(v)[x] \in X
    <3>1. PICK k \in 0..(j - 1) : x = up[k]
      OBVIOUS
    <3>2. k + 1 \in 1..n /\ buildTree(v)[x] = up[k + 1]
      <4>1. k + 1 \in 1..n /\ k = (k + 1) - 1
        BY <1>0, <2>5
      <4>. QED
        BY <2>3, <3>1, <4>1
    <3>3. CASE k + 1 = j
      BY <1>0, <2>5, <3>2, <3>3
    <3>4. CASE k + 1 # j
      BY <1>0, <2>5, <3>2, <3>4
    <3>. QED
      BY <3>3, <3>4
  <2>. QED
    BY <2>6, <2>7, <2>8 DEF Cycle
<1>. QED
  BY <1>1, <1>2

\* Trees with the same parents show the same rows.
LEMMA SameParents ==
  ASSUME NEW v, NEW w, DOMAIN w = DOMAIN v, IsFiniteSet(DOMAIN v), Root \notin DOMAIN v,
         \A c \in DOMAIN v : buildTree(w)[c] = buildTree(v)[c]
  PROVE  flatten(w) = flatten(v)
PROOF
<1>1. \A X : Cycle(w, X) <=> Cycle(v, X)
  BY DEF Cycle
<1>2. \A c \in DOMAIN v : c \in flatten(w) <=> c \in flatten(v)
  BY <1>1, ShownUnlessCycle
<1>. QED
  BY <1>2 DEF flatten

\* A row that moves below another that does not hang below it, or beside one, or
\* to the top, hides nothing and uncovers nothing.
LEMMA MoveKeeps ==
  ASSUME NEW v, NEW w, DOMAIN w = DOMAIN v, IsFiniteSet(DOMAIN v), Root \notin DOMAIN v,
         NEW d \in flatten(v), \A c \in DOMAIN v \ {d} : buildTree(w)[c] = buildTree(v)[c],
         \/ buildTree(w)[d] = Root
         \/ \E t \in flatten(v) : /\ d \notin Path(v, t)
                                  /\ buildTree(w)[d] = t \/ buildTree(w)[d] = buildTree(v)[t]
  PROVE  flatten(w) = flatten(v)
PROOF
<1>1. ASSUME NEW X, Cycle(v, X) PROVE Cycle(w, X)
  <2>1. d \in DOMAIN v
    BY DEF flatten
  <2>2. d \notin X
    BY <1>1, <2>1, ShownUnlessCycle
  <2>. QED
    BY <1>1, <2>2 DEF Cycle
<1>2. ASSUME NEW X, Cycle(w, X) PROVE Cycle(v, X)
  <2>1. X \subseteq DOMAIN v /\ Root \notin X /\ \A x \in X \ {d} : buildTree(v)[x] \in X
    BY <1>2 DEF Cycle
  <2>2. CASE d \notin X
    BY <2>1, <2>2 DEF Cycle
  <2>3. CASE d \in X
    <3>1. buildTree(w)[d] \in X /\ buildTree(w)[d] # Root
      BY <1>2, <2>1, <2>3 DEF Cycle
    <3>2. PICK t \in flatten(v) : /\ d \notin Path(v, t)
                                  /\ buildTree(w)[d] = t \/ buildTree(w)[d] = buildTree(v)[t]
      BY <3>1
    <3>. DEFINE Y == X \union {t}
    <3>3. t \in DOMAIN v /\ Root \in Path(v, t)
      BY DEF flatten
    <3>4. Y \in SUBSET (DOMAIN v \union {Root}) /\ t \in Y \cap DOMAIN v /\ Root \notin Y
      BY <2>1, <3>3
    <3>5. \A x \in Y \cap Path(v, t) : x # Root => buildTree(v)[x] \in Y
      BY <2>1, <3>1, <3>2
    <3>6. Path(v, t) \subseteq Y
      <4>. HIDE DEF Y
      <4>. QED
        BY <3>4, <3>5, PathStays
    <3>. QED
      BY <3>3, <3>4, <3>6
  <2>. QED
    BY <2>2, <2>3
<1>3. \A c \in DOMAIN v : c \in flatten(w) <=> c \in flatten(v)
  BY <1>1, <1>2, ShownUnlessCycle
<1>. QED
  BY <1>3 DEF flatten

\* What is reached on the way has a way of its own to it: from c to e, without e
\* before its end.
LEMMA WayTo ==
  ASSUME NEW v, IsFiniteSet(DOMAIN v), Root \notin DOMAIN v, NEW c \in DOMAIN v, NEW e \in Path(v, c), e # Root
  PROVE  \E X \in SUBSET DOMAIN v : /\ c \in X /\ e \in X /\ X \subseteq Path(v, c)
                                    /\ \A x \in X \ {e} : buildTree(v)[x] \in X
PROOF
<1>. DEFINE n == Cardinality(DOMAIN v)
<1>1. n \in Nat
  BY FS_CardinalityType
<1>2. PICK up : Climbs(v, c, n, up) /\ Path(v, c) = {up[i] : i \in 0..n}
  BY PathClimbs
<1>. HIDE DEF n
<1>3. PICK k \in 0..n : e = up[k]
  BY <1>2
<1>. DEFINE X == {up[i] : i \in 0..k}
            Off == {i \in 0..k : up[k - i] # Root}
<1>4. Off = 0..k
  <2>1. 0 \in Off
    BY <1>1, <1>3
  <2>2. ASSUME NEW i \in 1..k, i - 1 \in Off PROVE i \in Off
    <3>1. k - (i - 1) \in 1..n /\ k - (i - 1) - 1 = k - i
      BY <1>1
    <3>2. up[k - (i - 1)] # Root
      BY <2>2
    <3>3. up[k - (i - 1)] = IF up[k - i] = Root THEN Root ELSE buildTree(v)[up[k - i]]
      BY <1>2, <3>1 DEF Climbs
    <3>. QED
      BY <3>2, <3>3
  <2>3. Off \in SUBSET (0..k) /\ k \in Nat
    OBVIOUS
  <2>. HIDE DEF Off
  <2>. QED
    BY <2>1, <2>2, <2>3, Stepwise
<1>5. \A i \in 0..k : up[i] # Root
  <2>1. ASSUME NEW i \in 0..k PROVE up[i] # Root
    <3>1. k - i \in 0..k /\ k - (k - i) = i
      OBVIOUS
    <3>2. k - i \in Off
      BY <1>4, <3>1
    <3>. QED
      BY <3>1, <3>2
  <2>. QED
    BY <2>1
<1>6. X \in SUBSET DOMAIN v
  <2>1. \A i \in 0..k : up[i] \in DOMAIN v \union {Root}
    BY <1>1, <1>2 DEF Climbs
  <2>. QED
    BY <1>5, <2>1
<1>7. c \in X /\ e \in X /\ X \subseteq Path(v, c)
  BY <1>1, <1>2, <1>3 DEF Climbs
<1>8. ASSUME NEW x \in X \ {e} PROVE buildTree(v)[x] \in X
  <2>1. PICK i \in 0..k : x = up[i]
    OBVIOUS
  <2>2. i + 1 \in 0..k /\ i + 1 \in 1..n /\ (i + 1) - 1 = i
    BY <1>1, <1>3, <2>1
  <2>3. up[i + 1] = buildTree(v)[x]
    BY <1>2, <1>5, <2>1, <2>2 DEF Climbs
  <2>. QED
    BY <2>2, <2>3
<1>. QED
  BY <1>6, <1>7, <1>8

\* No row that is shown hangs below itself.
LEMMA NotBelowItself ==
  ASSUME NEW v, IsFiniteSet(DOMAIN v), Root \notin DOMAIN v, NEW d \in flatten(v),
         buildTree(v)[d] # Root
  PROVE  d \notin Path(v, buildTree(v)[d])
PROOF
<1>. DEFINE p == buildTree(v)[d]
<1>1. d \in DOMAIN v /\ d # Root /\ p \in DOMAIN v
  BY ParentOf DEF flatten
<1>2. ASSUME d \in Path(v, p) PROVE FALSE
  <2>1. PICK X \in SUBSET DOMAIN v : /\ p \in X /\ d \in X
                                     /\ \A x \in X \ {d} : buildTree(v)[x] \in X
    <3>. HIDE DEF p
    <3>. QED
      BY <1>1, <1>2, WayTo
  <2>2. Cycle(v, X)
    BY <2>1 DEF Cycle
  <2>. QED
    BY <1>1, <2>1, <2>2, ShownUnlessCycle
<1>. QED
  BY <1>2

\* The parent of a row that is shown is shown, and its way is the rest of the
\* row's.
LEMMA ParentShown ==
  ASSUME NEW v, IsFiniteSet(DOMAIN v), Root \notin DOMAIN v, NEW t \in flatten(v),
         buildTree(v)[t] # Root
  PROVE  buildTree(v)[t] \in flatten(v) /\ Path(v, buildTree(v)[t]) \subseteq Path(v, t)
PROOF
<1>. DEFINE p == buildTree(v)[t]
<1>1. t \in DOMAIN v /\ p \in DOMAIN v /\ Root \in Path(v, t)
  BY ParentOf DEF flatten
<1>2. p \in flatten(v)
  <2>1. ASSUME NEW X, Cycle(v, X), p \in X PROVE FALSE
    <3>1. Cycle(v, X \union {t})
      BY <1>1, <2>1 DEF Cycle
    <3>. QED
      BY <1>1, <3>1, ShownUnlessCycle
  <2>. HIDE DEF p
  <2>. QED
    BY <1>1, <2>1, ShownUnlessCycle
<1>3. ASSUME NEW e \in Path(v, p) PROVE e \in Path(v, t)
  <2>1. CASE e = Root
    BY <1>1, <2>1
  <2>2. CASE e # Root
    <3>1. PICK X \in SUBSET DOMAIN v : /\ p \in X /\ e \in X
                                       /\ \A x \in X \ {e} : buildTree(v)[x] \in X
      <4>. HIDE DEF p
      <4>. QED
        BY <1>1, <2>2, WayTo
    <3>. DEFINE Y == X \union {t}
    <3>2. ASSUME e \notin Path(v, t) PROVE FALSE
      <4>1. /\ Y \in SUBSET (DOMAIN v \union {Root}) /\ t \in Y \cap DOMAIN v /\ Root \notin Y
            /\ \A x \in Y \cap Path(v, t) : x # Root => buildTree(v)[x] \in Y
        BY <1>1, <3>1, <3>2
      <4>2. Path(v, t) \subseteq Y
        <5>. HIDE DEF Y
        <5>. QED
          BY <4>1, PathStays
      <4>. QED
        BY <1>1, <4>1, <4>2
    <3>. QED
      BY <3>2
  <2>. QED
    BY <2>1, <2>2
<1>. QED
  BY <1>2, <1>3

-----------------------------------------------------------------------------
(* Categories: what a drop sends.                                          *)

\* Place finds what is in a list.
LEMMA PlaceFinds ==
  ASSUME NEW S, NEW list \in Seq(S), NEW c, \E i \in 1..Len(list) : list[i] = c
  PROVE  Place(list, c) \in 1..Len(list) /\ list[Place(list, c)] = c
PROOF
<1>. DEFINE n == Len(list)
            I == {i \in 1..n : list[i] = c}
<1>1. n \in Nat
  OBVIOUS
<1>2. Place(list, c) = Min(I)
  BY <1>1 DEF Place, SelectInSeq
<1>3. \E i \in I : \A j \in I : i <= j
  <2>1. I \in SUBSET (0..n) /\ I # {}
    OBVIOUS
  <2>. HIDE DEF I, n
  <2>. QED
    BY <1>1, <2>1, SmallestNumber
<1>4. Min(I) \in I
  <2>. HIDE DEF I
  <2>. QED
    BY <1>3 DEF Min
<1>. QED
  BY <1>2, <1>4

\* InsertAt moves what follows up by one.
LEMMA InsertAtIs ==
  ASSUME NEW S, NEW list \in Seq(S), NEW n \in Nat, n = Len(list), NEW to \in 1..(n + 1), NEW c
  PROVE  /\ InsertAt(list, to, c) \in [1..(n + 1) -> S \union {c}]
         /\ \A i \in 1..(to - 1) : InsertAt(list, to, c)[i] = list[i]
         /\ InsertAt(list, to, c)[to] = c
         /\ \A i \in to..n : InsertAt(list, to, c)[i + 1] = list[i]
PROOF
<1>. DEFINE T == S \union {c}
            low == SubSeq(list, 1, to - 1)
            high == SubSeq(list, to, n)
<1>1. list \in Seq(T) /\ Len(list) = n /\ to \in Int
  OBVIOUS
<1>2. /\ low \in Seq(T) /\ Len(low) = to - 1
      /\ \A i \in 1..(to - 1) : low[i] = list[i]
  <2>1. \A i \in 1..(to - 1) : list[i] \in T
    OBVIOUS
  <2>. HIDE DEF T
  <2>. QED
    BY <1>1, <2>1, SubSeqProperties
<1>3. /\ high \in Seq(T) /\ Len(high) = n - to + 1
      /\ \A i \in 1..(n - to + 1) : high[i] = list[to + i - 1]
  <2>1. \A i \in to..n : list[i] \in T
    OBVIOUS
  <2>. HIDE DEF T
  <2>. QED
    BY <1>1, <2>1, SubSeqProperties
<1>4. InsertAt(list, to, c) = (low \o <<c>>) \o high
  BY <1>1 DEF InsertAt
<1>. DEFINE most == low \o <<c>>
            all == most \o high
<1>5. /\ most \in Seq(T) /\ Len(most) = to /\ most[to] = c
      /\ \A i \in 1..(to - 1) : most[i] = list[i]
  <2>. DEFINE one == <<c>>
  <2>1. one \in Seq(T) /\ Len(one) = 1 /\ one[1] = c
    OBVIOUS
  <2>. HIDE DEF T, low, one
  <2>2. /\ most \in Seq(T) /\ Len(most) = Len(low) + Len(one)
        /\ \A i \in 1..(Len(low) + Len(one)) : most[i] = IF i <= Len(low) THEN low[i] ELSE one[i - Len(low)]
    BY <1>2, <2>1, ConcatProperties DEF one
  <2>. HIDE DEF most
  <2>3. to \in 1..to /\ ~(to <= to - 1) /\ to - (to - 1) = 1
    OBVIOUS
  <2>4. Len(most) = to /\ \A i \in 1..to : most[i] = IF i <= to - 1 THEN low[i] ELSE one[i - (to - 1)]
    BY <1>2, <2>1, <2>2
  <2>5. most[to] = c
    BY <2>1, <2>3, <2>4
  <2>6. \A i \in 1..(to - 1) : most[i] = list[i]
    BY <1>2, <2>4
  <2>. QED
    BY <2>2, <2>4, <2>5, <2>6
<1>6. /\ all \in Seq(T) /\ Len(all) = n + 1
      /\ \A i \in 1..to : all[i] = most[i]
      /\ \A i \in to..n : all[i + 1] = list[i]
  <2>. HIDE DEF T, high, most
  <2>1. /\ all \in Seq(T) /\ Len(all) = Len(most) + Len(high)
        /\ \A i \in 1..(Len(most) + Len(high)) : all[i] = IF i <= Len(most) THEN most[i] ELSE high[i - Len(most)]
    BY <1>3, <1>5, ConcatProperties
  <2>. HIDE DEF all
  <2>2. Len(most) + Len(high) = n + 1
    BY <1>3, <1>5
  <2>3. \A i \in 1..to : all[i] = most[i]
    BY <1>5, <2>1, <2>2
  <2>4. ASSUME NEW i \in to..n PROVE all[i + 1] = list[i]
    <3>1. /\ i + 1 \in 1..(n + 1) /\ ~(i + 1 <= to) /\ i + 1 - to \in 1..(n - to + 1)
          /\ to + (i + 1 - to) - 1 = i
      OBVIOUS
    <3>2. all[i + 1] = high[i + 1 - to]
      <4>1. Len(most) = to
        BY <1>5
      <4>2. all[i + 1] = IF i + 1 <= Len(most) THEN most[i + 1] ELSE high[i + 1 - Len(most)]
        BY <2>1, <2>2, <3>1
      <4>. QED
        BY <3>1, <4>1, <4>2
    <3>. QED
      BY <1>3, <3>1, <3>2
  <2>. QED
    BY <2>1, <2>2, <2>3, <2>4
<1>7. all \in [1..(n + 1) -> T]
  <2>. HIDE DEF all, T
  <2>. QED
    BY <1>6
<1>8. /\ \A i \in 1..(to - 1) : all[i] = list[i]
      /\ all[to] = c
  <2>1. \A i \in 1..(to - 1) : i \in 1..to
    OBVIOUS
  <2>2. to \in 1..to
    OBVIOUS
  <2>. HIDE DEF all, most
  <2>. QED
    BY <1>5, <1>6, <2>1, <2>2
<1>9. InsertAt(list, to, c) = all
  BY <1>4
<1>. HIDE DEF all, most
<1>. QED
  BY <1>6, <1>7, <1>8, <1>9 DEF T

\* What a page can show: rows with a parent and a number.
PageTrees == UNION {[pg -> [parentId : Cats \union {Root}, sortOrder : Int]] : pg \in SUBSET Cats}

LEMMA PageTreeIs ==
  ASSUME NEW v \in PageTrees
  PROVE  /\ DOMAIN v \subseteq Cats /\ DOMAIN v \subseteq Nat /\ IsFiniteSet(DOMAIN v) /\ Root \notin DOMAIN v
         /\ \A c \in DOMAIN v : v[c].parentId \in Cats \union {Root} /\ v[c].sortOrder \in Int
         /\ flatten(v) \subseteq DOMAIN v
PROOF
<1>1. PICK pg \in SUBSET Cats : v \in [pg -> [parentId : Cats \union {Root}, sortOrder : Int]]
  BY DEF PageTrees
<1>2. DOMAIN v = pg /\ IsFiniteSet(pg)
  BY <1>1, FS_Subset, CategoriesAssumption
<1>. QED
  BY <1>1, <1>2, CategoriesAssumption DEF flatten

\* The list of any of its rows.
LEMMA PageListIs ==
  ASSUME NEW v \in PageTrees, NEW S \in SUBSET DOMAIN v
  PROVE  Cardinality(S) \in Nat /\ SortedList(v, S, Ordered(v, S))
PROOF
<1>1. S \in SUBSET Nat /\ IsFiniteSet(S) /\ \A c \in S : v[c].sortOrder \in Int
  BY PageTreeIs, FS_Subset
<1>. QED
  BY <1>1, OrderedIsSorted, FS_CardinalityType

\* Two trees that put the same rows into the same order list them alike.
LEMMA SameOrder ==
  ASSUME NEW v \in PageTrees, NEW w \in PageTrees, NEW S \in SUBSET DOMAIN v, S \in SUBSET DOMAIN w,
         \A c, e \in S : Above(v, c, e) => Above(w, c, e)
  PROVE  Ordered(w, S) = Ordered(v, S)
PROOF
<1>. DEFINE list == Ordered(v, S)
            m == Cardinality(S)
<1>1. m \in Nat /\ SortedList(v, S, list)
  BY PageListIs
<1>2. S \in SUBSET Nat /\ IsFiniteSet(S) /\ \A c \in S : w[c].sortOrder \in Int
  <2>1. DOMAIN w \subseteq Nat /\ IsFiniteSet(DOMAIN w) /\ \A c \in DOMAIN w : w[c].sortOrder \in Int
    BY PageTreeIs
  <2>2. IsFiniteSet(S)
    BY <2>1, FS_Subset
  <2>. QED
    BY <2>1, <2>2
<1>. HIDE DEF list
<1>3. list \in [1..m -> S] /\ \A c \in S : \E i \in 1..m : list[i] = c
  BY <1>1 DEF SortedList
<1>4. \A i, j \in 1..m : i < j => Above(v, list[i], list[j])
  BY <1>1 DEF SortedList
<1>. HIDE DEF m
<1>5. \A i, j \in 1..m : i < j => Above(w, list[i], list[j])
  BY <1>3, <1>4
<1>6. Ordered(w, S) = list
  BY <1>1, <1>2, <1>3, <1>5, SortedIsOrdered
<1>. QED
  BY <1>6 DEF list

\* The names computeReorder gives to its parts.
Into(v, drop) == IF drop.zone = "into" THEN drop.target ELSE buildTree(v)[drop.target]
Renumbered(v, drop) == {p \in flatten(v) : ~isDescendant(v, drop.id, p)} \union {Root}
Others(v, drop, p) == Level(v, p) \ {drop.id}
Left(v, drop, p) == Ordered(v, Others(v, drop, p))
ListOf(v, drop, p) == IF p = Into(v, drop) THEN Insert(v, drop, Left(v, drop, p)) ELSE Left(v, drop, p)
Members(v, drop, p) == Others(v, drop, p) \union (IF p = Into(v, drop) THEN {drop.id} ELSE {})

\* Where a row may be dropped.
LEMMA DropIs ==
  ASSUME NEW v \in PageTrees, NEW drop \in Drops(v)
  PROVE  /\ drop.id \in flatten(v) /\ drop.target \in flatten(v) /\ drop.zone \in {"before", "into", "after"}
         /\ drop.target # drop.id /\ drop.id \notin Path(v, drop.target)
         /\ Into(v, drop) \in Renumbered(v, drop) /\ Into(v, drop) # drop.id
PROOF
<1>1. /\ drop.id \in flatten(v) /\ drop.target \in flatten(v) /\ drop.zone \in {"before", "into", "after"}
      /\ drop.target # drop.id /\ drop.id \notin Path(v, drop.target)
  BY DEF Drops, isDescendant
<1>2. IsFiniteSet(DOMAIN v) /\ Root \notin DOMAIN v /\ drop.id \in DOMAIN v /\ drop.target \in DOMAIN v
  BY <1>1, PageTreeIs
<1>. DEFINE p == buildTree(v)[drop.target]
<1>3. CASE drop.zone = "into"
  BY <1>1, <1>3 DEF Into, Renumbered, isDescendant
<1>4. CASE drop.zone # "into" /\ p = Root
  BY <1>1, <1>2, <1>4 DEF Into, Renumbered
<1>5. CASE drop.zone # "into" /\ p # Root
  <2>1. p \in flatten(v) /\ Path(v, p) \subseteq Path(v, drop.target)
    BY <1>1, <1>2, <1>5, ParentShown
  <2>2. p \in Path(v, p)
    <3>1. p \in DOMAIN v
      BY <2>1, PageTreeIs
    <3>2. PICK up : /\ Climbs(v, p, Cardinality(DOMAIN v), up)
                    /\ Path(v, p) = {up[i] : i \in 0..Cardinality(DOMAIN v)}
      <4>. HIDE DEF p
      <4>. QED
        BY <1>2, <3>1, PathClimbs
    <3>3. Cardinality(DOMAIN v) \in Nat
      BY <1>2, FS_CardinalityType
    <3>. HIDE DEF p
    <3>. QED
      BY <3>2, <3>3 DEF Climbs
  <2>3. p # drop.id /\ drop.id \notin Path(v, p)
    BY <1>1, <2>1, <2>2
  <2>. QED
    BY <1>1, <1>5, <2>1, <2>3 DEF Into, Renumbered, isDescendant
<1>. QED
  BY <1>1, <1>3, <1>4, <1>5

\* A list holds the rows of its level, the dragged one only where it went, each
\* once and the others in their order.
GoodList(v, drop, p, n, list) ==
  /\ list \in [1..n -> Members(v, drop, p)]
  /\ \A c \in Members(v, drop, p) : \E i \in 1..n : list[i] = c
  /\ \A i, j \in 1..n : list[i] = list[j] => i = j
  /\ \A i, j \in 1..n : i < j /\ list[i] # drop.id /\ list[j] # drop.id => Above(v, list[i], list[j])

\* The dragged row is where it was dropped.
Dropped(drop, n, list) ==
  \E to \in 1..n : /\ list[to] = drop.id
                   /\ drop.zone = "into" => to = n
                   /\ drop.zone = "before" => to < n /\ list[to + 1] = drop.target
                   /\ drop.zone = "after" => to > 1 /\ list[to - 1] = drop.target

LEMMA ListIs ==
  ASSUME NEW v \in PageTrees, NEW drop \in Drops(v), NEW p \in Renumbered(v, drop)
  PROVE  \E n \in Nat : /\ GoodList(v, drop, p, n, ListOf(v, drop, p))
                        /\ p = Into(v, drop) => Dropped(drop, n, ListOf(v, drop, p))
PROOF
<1>. DEFINE d == drop.id
            S == Others(v, drop, p)
            m == Cardinality(S)
            left == Left(v, drop, p)
            list == ListOf(v, drop, p)
<1>1. S \in SUBSET DOMAIN v /\ d \notin S
  BY PageTreeIs DEF Others, Level
<1>2. m \in Nat /\ SortedList(v, S, left)
  <2>. HIDE DEF S
  <2>. QED
    BY <1>1, PageListIs DEF Left, S
<1>3. /\ left \in [1..m -> S]
      /\ \A c \in S : \E i \in 1..m : left[i] = c
      /\ \A i, j \in 1..m : i < j => Above(v, left[i], left[j])
  BY <1>2 DEF SortedList
<1>4. \A i, j \in 1..m : left[i] = left[j] => i = j
  <2>1. \A c, e \in S : Above(v, c, e) => c # e
    <3>1. S \in SUBSET Nat /\ \A c \in S : v[c].sortOrder \in Int
      <4>. HIDE DEF S
      <4>. QED
        BY <1>1, PageTreeIs
    <3>. HIDE DEF S
    <3>. QED
      BY <3>1, OneIsBefore
  <2>2. ASSUME NEW i \in 1..m, NEW j \in 1..m, i < j PROVE left[i] # left[j]
    <3>. HIDE DEF S, m, left
    <3>. QED
      BY <1>3, <2>1, <2>2
  <2>3. \A i \in 1..m : i \in Int
    <3>. HIDE DEF m
    <3>. QED
      BY <1>2
  <2>. HIDE DEF m, left
  <2>. QED
    BY <2>2, <2>3
<1>5. CASE p # Into(v, drop)
  <2>1. list = left /\ Members(v, drop, p) = S
    BY <1>5 DEF ListOf, Members
  <2>2. GoodList(v, drop, p, m, list)
    <3>. HIDE DEF S, m, left, list
    <3>. QED
      BY <1>3, <1>4, <2>1 DEF GoodList
  <2>. HIDE DEF m, list
  <2>. QED
    BY <1>2, <1>5, <2>2 DEF list
<1>6. CASE p = Into(v, drop)
  <2>. DEFINE to == IF drop.zone = "into" THEN m + 1
                    ELSE IF drop.zone = "before" THEN Place(left, drop.target)
                    ELSE Place(left, drop.target) + 1
              T == S \union {d}
  <2>1. Len(left) = m
    <3>. HIDE DEF S, m, left
    <3>. QED
      BY <1>2, <1>3, LenProperties
  <2>2. list = InsertAt(left, to, d) /\ Members(v, drop, p) = T
    BY <1>6, <2>1 DEF ListOf, Members, Insert
  <2>3. drop.zone # "into" => Place(left, drop.target) \in 1..m /\ left[Place(left, drop.target)] = drop.target
    <3>1. drop.zone # "into" => drop.target \in S
      BY <1>6, DropIs DEF Others, Level, Into
    <3>. SUFFICES ASSUME drop.zone # "into"
                  PROVE  Place(left, drop.target) \in 1..m /\ left[Place(left, drop.target)] = drop.target
      OBVIOUS
    <3>2. \E i \in 1..m : left[i] = drop.target
      BY <1>3, <3>1
    <3>3. left \in Seq(S) /\ Len(left) = m
      <4>. HIDE DEF S, m, left
      <4>. QED
        BY <1>2, <1>3, <2>1
    <3>. HIDE DEF S, m, left
    <3>. QED
      BY <3>2, <3>3, PlaceFinds
  <2>4. /\ to \in 1..(m + 1)
        /\ drop.zone = "into" => to = m + 1
        /\ drop.zone = "before" => to <= m /\ left[to] = drop.target
        /\ drop.zone = "after" => to > 1 /\ left[to - 1] = drop.target
    <3>1. drop.zone \in {"before", "into", "after"}
      BY DropIs
    <3>2. CASE drop.zone = "into"
      <4>1. to = m + 1
        BY <3>2
      <4>. HIDE DEF to, m, left
      <4>. QED
        BY <1>2, <3>2, <4>1
    <3>3. CASE drop.zone = "before"
      <4>1. to = Place(left, drop.target)
        BY <3>3
      <4>. HIDE DEF to, m, left
      <4>. QED
        BY <1>2, <2>3, <3>3, <4>1
    <3>4. CASE drop.zone = "after"
      <4>1. to = Place(left, drop.target) + 1
        BY <3>4
      <4>2. Place(left, drop.target) \in 1..m /\ left[Place(left, drop.target)] = drop.target
        BY <2>3, <3>4
      <4>3. to - 1 = Place(left, drop.target) /\ to \in 1..(m + 1) /\ to > 1
        <5>. HIDE DEF to, m, left
        <5>. QED
          BY <1>2, <4>1, <4>2
      <4>. HIDE DEF to, m, left
      <4>. QED
        BY <3>4, <4>2, <4>3
    <3>. QED
      BY <3>1, <3>2, <3>3, <3>4
  <2>5. /\ list \in [1..(m + 1) -> T]
        /\ \A i \in 1..(to - 1) : list[i] = left[i]
        /\ list[to] = d
        /\ \A i \in to..m : list[i + 1] = left[i]
    <3>1. m \in Nat /\ left \in Seq(S) /\ m = Len(left) /\ to \in 1..(m + 1)
      <4>. HIDE DEF S, m, left, to
      <4>. QED
        BY <1>2, <1>3, <2>1, <2>4
    <3>. HIDE DEF S, m, left, to, list, d
    <3>2. /\ InsertAt(left, to, d) \in [1..(m + 1) -> S \union {d}]
          /\ \A i \in 1..(to - 1) : InsertAt(left, to, d)[i] = left[i]
          /\ InsertAt(left, to, d)[to] = d
          /\ \A i \in to..m : InsertAt(left, to, d)[i + 1] = left[i]
      BY <3>1, InsertAtIs
    <3>. QED
      BY <2>2, <3>2
  <2>6. \A c \in T : \E i \in 1..(m + 1) : list[i] = c
    <3>1. ASSUME NEW c \in S PROVE \E i \in 1..(m + 1) : list[i] = c
      <4>1. PICK i \in 1..m : left[i] = c
        BY <1>3
      <4>. HIDE DEF S, m, left, to, list
      <4>2. CASE i < to
        <5>1. i \in 1..(to - 1) /\ i \in 1..(m + 1)
          BY <1>2, <2>4, <4>2
        <5>. QED
          BY <2>5, <4>1, <5>1
      <4>3. CASE ~(i < to)
        <5>1. i \in to..m /\ i + 1 \in 1..(m + 1)
          BY <1>2, <2>4, <4>3
        <5>. QED
          BY <2>5, <4>1, <5>1
      <4>. QED
        BY <4>2, <4>3
    <3>. HIDE DEF S, m, left, to, list, d
    <3>. QED
      BY <2>4, <2>5, <3>1 DEF T
  <2>. DEFINE src(i) == IF i < to THEN i ELSE i - 1
  <2>7. \A i \in 1..(m + 1) : i # to => src(i) \in 1..m /\ list[i] = left[src(i)] /\ list[i] # d
    <3>1. ASSUME NEW i \in 1..(m + 1), i # to PROVE src(i) \in 1..m /\ list[i] = left[src(i)]
      <4>. HIDE DEF S, m, left, to, list, d
      <4>1. CASE i < to
        <5>1. i \in 1..(to - 1) /\ i \in 1..m /\ src(i) = i
          BY <1>2, <2>4, <4>1
        <5>. QED
          BY <2>5, <5>1
      <4>2. CASE ~(i < to)
        <5>1. i - 1 \in to..m /\ i - 1 \in 1..m /\ (i - 1) + 1 = i /\ src(i) = i - 1
          BY <1>2, <2>4, <3>1, <4>2
        <5>. QED
          BY <2>5, <5>1
      <4>. QED
        BY <4>1, <4>2
    <3>2. \A j \in 1..m : left[j] # d
      <4>. HIDE DEF S, m, left, d
      <4>. QED
        BY <1>1, <1>3
    <3>. HIDE DEF S, m, left, to, list, d, src
    <3>. QED
      BY <3>1, <3>2
  <2>8. \A i, j \in 1..(m + 1) : i < j /\ i # to /\ j # to => src(i) < src(j)
    <3>. HIDE DEF S, m, left, to, list, d
    <3>. QED
      BY <1>2, <2>4
  <2>9. \A i, j \in 1..(m + 1) : i < j /\ list[i] # d /\ list[j] # d => Above(v, list[i], list[j])
    <3>. HIDE DEF S, m, left, to, list, d, src
    <3>. QED
      BY <1>3, <2>5, <2>7, <2>8
  <2>10. \A i, j \in 1..(m + 1) : list[i] = list[j] => i = j
    <3>1. ASSUME NEW i \in 1..(m + 1), NEW j \in 1..(m + 1), i < j PROVE list[i] # list[j]
      <4>1. CASE i # to /\ j # to
        <5>1. src(i) \in 1..m /\ src(j) \in 1..m /\ src(i) < src(j)
          <6>. HIDE DEF S, m, left, to, list, d, src
          <6>. QED
            BY <2>7, <2>8, <3>1, <4>1
        <5>2. src(i) # src(j)
          <6>. HIDE DEF m, src
          <6>. QED
            BY <1>2, <5>1
        <5>. HIDE DEF S, m, left, to, list, d, src
        <5>. QED
          BY <1>4, <2>7, <4>1, <5>1, <5>2
      <4>2. CASE i = to \/ j = to
        <5>1. i # j
          <6>. HIDE DEF m
          <6>. QED
            BY <1>2, <3>1
        <5>. HIDE DEF S, m, left, to, list, d, src
        <5>. QED
          BY <2>5, <2>7, <4>2, <5>1
      <4>. QED
        BY <4>1, <4>2
    <3>2. \A i \in 1..(m + 1) : i \in Int
      <4>. HIDE DEF m
      <4>. QED
        BY <1>2
    <3>. HIDE DEF m, list
    <3>. QED
      BY <3>1, <3>2
  <2>11. \E a \in 1..(m + 1) : /\ list[a] = d
                               /\ drop.zone = "into" => a = m + 1
                               /\ drop.zone = "before" => a < m + 1 /\ list[a + 1] = drop.target
                               /\ drop.zone = "after" => a > 1 /\ list[a - 1] = drop.target
    <3>1. drop.zone = "before" => to < m + 1 /\ list[to + 1] = drop.target
      <4>. HIDE DEF S, m, left, to, list, d
      <4>. QED
        BY <1>2, <2>4, <2>5
    <3>2. drop.zone = "after" => list[to - 1] = drop.target
      <4>. HIDE DEF S, m, left, to, list, d
      <4>. QED
        BY <1>2, <2>4, <2>5
    <3>. HIDE DEF S, m, left, to, list, d
    <3>. QED
      BY <2>4, <2>5, <3>1, <3>2
  <2>12. m + 1 \in Nat
    <3>. HIDE DEF m
    <3>. QED
      BY <1>2
  <2>13. GoodList(v, drop, p, m + 1, list)
    <3>. HIDE DEF m, list, to, left, src, T
    <3>. QED
      BY <2>2, <2>5, <2>6, <2>9, <2>10 DEF GoodList
  <2>14. Dropped(drop, m + 1, list)
    <3>. HIDE DEF m, list, to, left, src, T
    <3>. QED
      BY <2>11 DEF Dropped
  <2>. HIDE DEF m, list
  <2>. QED
    BY <2>12, <2>13, <2>14 DEF list
<1>. QED
  BY <1>5, <1>6

\* What a row that is sent says, and what the page showed of it.
Sent(v, drop, p, i) == [id |-> ListOf(v, drop, p)[i], parentId |-> p, sortOrder |-> i - 1]
Was(v, c) == [id |-> c, parentId |-> buildTree(v)[c], sortOrder |-> Place(Children(v, buildTree(v)[c]), c) - 1]

LEMMA ReorderIs ==
  ASSUME NEW v, NEW drop, NEW u
  PROVE  u \in computeReorder(v, drop) <=>
           \E p \in Renumbered(v, drop) : \E i \in DOMAIN ListOf(v, drop, p) :
              u = Sent(v, drop, p, i) /\ (u.id = drop.id \/ u # Was(v, u.id))
PROOF
<1>. DEFINE all == UNION {{Sent(v, drop, p, i) : i \in DOMAIN ListOf(v, drop, p)} : p \in Renumbered(v, drop)}
<1>1. computeReorder(v, drop) = {x \in all : x.id = drop.id \/ x # Was(v, x.id)}
  BY Zenon DEF computeReorder, Sent, Was, ListOf, Left, Others, Into, Renumbered
<1>2. u \in all <=> \E p \in Renumbered(v, drop) : \E i \in DOMAIN ListOf(v, drop, p) : u = Sent(v, drop, p, i)
  OBVIOUS
<1>. HIDE DEF all
<1>. QED
  BY <1>1, <1>2, Zenon

\* A row is in one list only.
LEMMA OneList ==
  ASSUME NEW v, NEW drop, NEW p, NEW q, NEW c \in Members(v, drop, p), c \in Members(v, drop, q)
  PROVE  p = q /\ p = IF c = drop.id THEN Into(v, drop) ELSE buildTree(v)[c]
PROOF
<1>. QED
  BY DEF Members, Others, Level

\* The rows a drop sends: one for a category, its parent the one it has or, for
\* the dragged one, its new one; and that one is always sent.
LEMMA SentIs ==
  ASSUME NEW v \in PageTrees, NEW drop \in Drops(v)
  PROVE  /\ \A u \in computeReorder(v, drop) :
              /\ u \in [id : flatten(v), parentId : flatten(v) \union {Root}, sortOrder : Int]
              /\ u.parentId = IF u.id = drop.id THEN Into(v, drop) ELSE buildTree(v)[u.id]
              /\ u.parentId # u.id
         /\ \A u, x \in computeReorder(v, drop) : u.id = x.id => u = x
         /\ \E u \in computeReorder(v, drop) : u.id = drop.id
PROOF
<1>. DEFINE U == computeReorder(v, drop)
            list(p) == ListOf(v, drop, p)
<1>1. ASSUME NEW p \in Renumbered(v, drop), NEW i \in DOMAIN list(p)
      PROVE  i \in Nat /\ list(p)[i] \in Members(v, drop, p)
  <2>1. PICK n \in Nat : GoodList(v, drop, p, n, list(p))
    BY ListIs
  <2>. HIDE DEF list
  <2>. QED
    BY <2>1 DEF GoodList
<1>2. ASSUME NEW p \in Renumbered(v, drop), NEW c \in Members(v, drop, p)
      PROVE  c \in flatten(v) /\ p = (IF c = drop.id THEN Into(v, drop) ELSE buildTree(v)[c])
  <2>1. c \in flatten(v)
    BY DropIs DEF Members, Others, Level
  <2>. QED
    BY <2>1, OneList
<1>3. ASSUME NEW u \in U PROVE \E p \in Renumbered(v, drop) : \E i \in DOMAIN list(p) : u = Sent(v, drop, p, i)
  BY ReorderIs
<1>4. ASSUME NEW u \in U
      PROVE  /\ u \in [id : flatten(v), parentId : flatten(v) \union {Root}, sortOrder : Int]
             /\ u.parentId = IF u.id = drop.id THEN Into(v, drop) ELSE buildTree(v)[u.id]
             /\ u.parentId # u.id
  <2>1. PICK p \in Renumbered(v, drop) : \E i \in DOMAIN list(p) : u = Sent(v, drop, p, i)
    BY <1>3
  <2>2. PICK i \in DOMAIN list(p) : u = Sent(v, drop, p, i)
    BY <2>1
  <2>3. u = [id |-> list(p)[i], parentId |-> p, sortOrder |-> i - 1]
    BY <2>2 DEF Sent
  <2>4. i \in Nat /\ list(p)[i] \in Members(v, drop, p)
    BY <1>1
  <2>5. /\ list(p)[i] \in flatten(v)
        /\ p = IF list(p)[i] = drop.id THEN Into(v, drop) ELSE buildTree(v)[list(p)[i]]
    <3>. HIDE DEF list
    <3>. QED
      BY <1>2, <2>4
  <2>6. p \in flatten(v) \union {Root}
    BY DEF Renumbered
  <2>7. \A c \in flatten(v) : c # drop.id => buildTree(v)[c] # c
    <3>1. ASSUME NEW c \in flatten(v), buildTree(v)[c] = c PROVE FALSE
      <4>1. c \in DOMAIN v /\ Cycle(v, {c})
        BY <3>1, PageTreeIs DEF Cycle
      <4>. QED
        BY <4>1, ShownUnlessCycle, PageTreeIs
    <3>. QED
      BY <3>1
  <2>8. p # list(p)[i]
    <3>. HIDE DEF list
    <3>. QED
      BY <2>5, <2>7, DropIs
  <2>. HIDE DEF list, U
  <2>. QED
    BY <2>3, <2>4, <2>5, <2>6, <2>8
<1>7. ASSUME NEW p \in Renumbered(v, drop), NEW i \in DOMAIN list(p), NEW j \in DOMAIN list(p), list(p)[i] = list(p)[j]
      PROVE  i = j
  <2>1. PICK n \in Nat : GoodList(v, drop, p, n, list(p))
    BY ListIs
  <2>. HIDE DEF list
  <2>. QED
    BY <1>7, <2>1 DEF GoodList
<1>5. ASSUME NEW u \in U, NEW x \in U, u.id = x.id PROVE u = x
  <2>1. PICK p \in Renumbered(v, drop) : \E i \in DOMAIN list(p) : u = Sent(v, drop, p, i)
    BY <1>3
  <2>2. PICK i \in DOMAIN list(p) : u = Sent(v, drop, p, i)
    BY <2>1
  <2>3. PICK q \in Renumbered(v, drop) : \E j \in DOMAIN list(q) : x = Sent(v, drop, q, j)
    BY <1>3
  <2>4. PICK j \in DOMAIN list(q) : x = Sent(v, drop, q, j)
    BY <2>3
  <2>5. list(p)[i] = list(q)[j]
    BY <1>5, <2>2, <2>4 DEF Sent
  <2>6. p = q
    <3>1. list(p)[i] \in Members(v, drop, p) /\ list(q)[j] \in Members(v, drop, q)
      BY <1>1
    <3>. HIDE DEF list
    <3>. QED
      BY <2>5, <3>1, OneList
  <2>7. i = j
    <3>. HIDE DEF list
    <3>. QED
      BY <1>7, <2>5, <2>6
  <2>. QED
    BY <2>2, <2>4, <2>6, <2>7
<1>6. \E u \in U : u.id = drop.id
  <2>. DEFINE p == Into(v, drop)
  <2>1. p \in Renumbered(v, drop)
    BY DropIs
  <2>2. PICK n \in Nat : /\ list(p) \in [1..n -> Members(v, drop, p)]
                         /\ \E i \in 1..n : list(p)[i] = drop.id
    <3>1. drop.id \in Members(v, drop, p)
      BY DEF Members
    <3>2. PICK n \in Nat : GoodList(v, drop, p, n, list(p))
      <4>. HIDE DEF p
      <4>. QED
        BY <2>1, ListIs
    <3>. HIDE DEF list, p
    <3>. QED
      BY <3>1, <3>2 DEF GoodList
  <2>3. PICK i \in DOMAIN list(p) : list(p)[i] = drop.id
    <3>. HIDE DEF list
    <3>. QED
      BY <2>2
  <2>4. Sent(v, drop, p, i).id = drop.id
    BY <2>3 DEF Sent
  <2>5. Sent(v, drop, p, i) \in U
    BY <2>1, <2>4, ReorderIs
  <2>. QED
    BY <2>4, <2>5
<1>. QED
  BY <1>4, <1>5, <1>6

-----------------------------------------------------------------------------
(* Categories: rows and their tree.                                        *)

CategoryRows == [Cats -> [parentId : Cats \union {Root}, sortOrder : Int, state : {"new", "live", "deleted"}]]

LEMMA TreeOfIs ==
  ASSUME NEW rows \in CategoryRows
  PROVE  /\ TreeOf(rows) \in PageTrees /\ DOMAIN TreeOf(rows) = Live(rows) /\ Live(rows) \subseteq Cats
         /\ \A c \in Live(rows) : /\ TreeOf(rows)[c].parentId = rows[c].parentId
                                  /\ TreeOf(rows)[c].sortOrder = rows[c].sortOrder
PROOF
<1>. DEFINE g == TreeOf(rows)
<1>1. Live(rows) \in SUBSET Cats
  BY DEF Live
<1>2. g = [c \in Live(rows) |-> [parentId |-> rows[c].parentId, sortOrder |-> rows[c].sortOrder]]
  BY DEF TreeOf
<1>3. \A c \in Live(rows) : rows[c].parentId \in Cats \union {Root} /\ rows[c].sortOrder \in Int
  BY <1>1 DEF CategoryRows
<1>4. g \in [Live(rows) -> [parentId : Cats \union {Root}, sortOrder : Int]]
  <2>. HIDE DEF g
  <2>. QED
    BY <1>2, <1>3
<1>. HIDE DEF g
<1>. QED
  BY <1>1, <1>2, <1>4 DEF PageTrees, g

\* In a tree that is grown each row hangs where its row says.
LEMMA GrownIs ==
  ASSUME NEW rows \in CategoryRows
  PROVE  Grown(rows) <=> /\ flatten(TreeOf(rows)) = DOMAIN TreeOf(rows)
                         /\ \A c \in DOMAIN TreeOf(rows) : buildTree(TreeOf(rows))[c] = TreeOf(rows)[c].parentId
PROOF
<1>. DEFINE g == TreeOf(rows)
<1>1. /\ DOMAIN g = Live(rows) /\ Live(rows) \subseteq Cats
      /\ \A c \in Live(rows) : g[c].parentId = rows[c].parentId
  BY TreeOfIs
<1>2. ASSUME NEW c \in Live(rows)
      PROVE  (rows[c].parentId = Root \/ rows[rows[c].parentId].state = "live") <=> buildTree(g)[c] = g[c].parentId
  <2>1. buildTree(g)[c] = IF rows[c].parentId \in Live(rows) THEN rows[c].parentId ELSE Root
    <3>. HIDE DEF g
    <3>. QED
      BY <1>1 DEF buildTree
  <2>2. rows[c].parentId \in Cats \union {Root}
    BY <1>1 DEF CategoryRows
  <2>3. rows[c].parentId \in Live(rows) <=> rows[c].parentId # Root /\ rows[rows[c].parentId].state = "live"
    BY <2>2, CategoriesAssumption DEF Live
  <2>. HIDE DEF g
  <2>. QED
    BY <1>1, <2>1, <2>2, <2>3
<1>. HIDE DEF g
<1>. QED
  BY <1>1, <1>2 DEF Grown, g

\* A page that is up to date shows the tree.
LEMMA SameView ==
  ASSUME NEW v \in PageTrees, NEW g \in PageTrees, Parents(v) = Parents(g)
  PROVE  /\ DOMAIN v = DOMAIN g
         /\ \A c \in DOMAIN g : v[c].parentId = g[c].parentId /\ buildTree(v)[c] = buildTree(g)[c]
         /\ flatten(v) = flatten(g)
PROOF
<1>1. ASSUME NEW c \in DOMAIN v PROVE c \in DOMAIN g /\ v[c].parentId = g[c].parentId
  <2>1. <<c, v[c].parentId>> \in Parents(g)
    BY DEF Parents
  <2>. QED
    BY <2>1 DEF Parents
<1>2. ASSUME NEW c \in DOMAIN g PROVE c \in DOMAIN v
  <2>1. <<c, g[c].parentId>> \in Parents(v)
    BY DEF Parents
  <2>. QED
    BY <2>1 DEF Parents
<1>3. DOMAIN v = DOMAIN g /\ \A c \in DOMAIN g : v[c].parentId = g[c].parentId
  BY <1>1, <1>2
<1>4. \A c \in DOMAIN g : buildTree(v)[c] = buildTree(g)[c]
  BY <1>3 DEF buildTree
<1>5. flatten(v) = flatten(g)
  BY <1>3, <1>4, SameParents, PageTreeIs
<1>. QED
  BY <1>3, <1>4, <1>5

\* A new row below a row that is there, or at the top, leaves the tree grown.
LEMMA GrowsByCreate ==
  ASSUME NEW rows \in CategoryRows, Grown(rows), NEW id \in Cats, rows[id].state # "live",
         NEW p \in Live(rows) \union {Root}, NEW n \in Int,
         NEW after, after = [rows EXCEPT ![id] = [parentId |-> p, sortOrder |-> n, state |-> "live"]]
  PROVE  after \in CategoryRows /\ Grown(after)
PROOF
<1>. DEFINE g == TreeOf(rows)
            h == TreeOf(after)
<1>1. after \in CategoryRows
  <2>1. p \in Cats \union {Root}
    BY DEF Live
  <2>. QED
    BY <2>1 DEF CategoryRows
<1>2. /\ g \in PageTrees /\ DOMAIN g = Live(rows) /\ h \in PageTrees /\ DOMAIN h = Live(after)
      /\ \A c \in Live(rows) : g[c].parentId = rows[c].parentId
      /\ \A c \in Live(after) : h[c].parentId = after[c].parentId
  BY <1>1, TreeOfIs
<1>3. /\ Live(after) = Live(rows) \union {id} /\ id \notin Live(rows)
      /\ after[id].parentId = p /\ \A c \in Live(rows) : after[c].parentId = rows[c].parentId
  BY DEF Live, CategoryRows
<1>4. flatten(g) = DOMAIN g /\ \A c \in DOMAIN g : buildTree(g)[c] = g[c].parentId /\ buildTree(g)[c] \in DOMAIN g \union {Root}
  BY GrownIs, ParentOf
<1>5. \A c \in DOMAIN h : buildTree(h)[c] = h[c].parentId
  <2>1. ASSUME NEW c \in DOMAIN h PROVE h[c].parentId \in DOMAIN h \union {Root}
    <3>. HIDE DEF g, h
    <3>1. CASE c = id
      BY <1>2, <1>3, <3>1
    <3>2. CASE c # id
      <4>1. c \in DOMAIN g /\ h[c].parentId = g[c].parentId
        BY <1>2, <1>3, <3>2
      <4>2. g[c].parentId \in DOMAIN g \union {Root}
        BY <1>4, <4>1
      <4>. QED
        BY <1>2, <1>3, <4>1, <4>2
    <3>. QED
      BY <3>1, <3>2
  <2>2. Root \notin DOMAIN h
    BY <1>2, PageTreeIs
  <2>. HIDE DEF g, h
  <2>. QED
    BY <2>1, <2>2 DEF buildTree
<1>6. \A c \in DOMAIN g : buildTree(h)[c] = buildTree(g)[c]
  <2>1. ASSUME NEW c \in DOMAIN g PROVE buildTree(h)[c] = buildTree(g)[c]
    <3>. HIDE DEF g, h
    <3>1. c \in DOMAIN h /\ h[c].parentId = g[c].parentId
      BY <1>2, <1>3
    <3>2. buildTree(g)[c] = g[c].parentId
      BY <1>4
    <3>. QED
      BY <1>5, <3>1, <3>2
  <2>. QED
    BY <2>1
<1>7. \A c \in DOMAIN h : c \in flatten(h)
  <2>1. ASSUME NEW X, Cycle(h, X), NEW x \in X PROVE FALSE
    <3>. DEFINE Y == X \ {id}
    <3>. HIDE DEF g, h
    <3>1. buildTree(h)[id] = p /\ id \in DOMAIN h /\ id # Root
      BY <1>2, <1>3, <1>5, CategoriesAssumption
    <3>2. Cycle(g, Y)
      <4>1. Y \subseteq DOMAIN g
        BY <1>2, <1>3, <2>1 DEF Cycle
      <4>2. ASSUME NEW y \in Y PROVE buildTree(g)[y] \in Y
        <5>1. buildTree(g)[y] \in X
          BY <1>6, <2>1, <4>1 DEF Cycle
        <5>2. buildTree(g)[y] # id
          BY <1>2, <1>3, <1>4, <3>1, <4>1
        <5>. QED
          BY <5>1, <5>2
      <4>. QED
        BY <4>1, <4>2 DEF Cycle
    <3>3. Y # {}
      <4>1. CASE x = id
        <5>1. p \in X /\ p # id
          BY <1>3, <2>1, <3>1, <4>1 DEF Cycle
        <5>. QED
          BY <5>1
      <4>2. CASE x # id
        BY <4>2
      <4>. QED
        BY <4>1, <4>2
    <3>4. PICK y \in Y : y \in flatten(g)
      BY <1>4, <3>2, <3>3 DEF Cycle
    <3>5. y \in DOMAIN g /\ IsFiniteSet(DOMAIN g) /\ Root \notin DOMAIN g
      BY <1>2, <3>2, PageTreeIs DEF Cycle
    <3>. HIDE DEF Y
    <3>. QED
      BY <3>2, <3>4, <3>5, ShownUnlessCycle
  <2>. HIDE DEF h
  <2>. QED
    BY <1>2, <2>1, ShownUnlessCycle, PageTreeIs
<1>8. flatten(h) = DOMAIN h
  <2>. HIDE DEF h
  <2>. QED
    BY <1>2, <1>7, PageTreeIs
<1>. HIDE DEF h
<1>. QED
  BY <1>1, <1>5, <1>8, GrownIs DEF h

\* A tree without a row that had none below it is still grown.
LEMMA GrowsByDelete ==
  ASSUME NEW rows \in CategoryRows, Grown(rows), NEW id \in Live(rows),
         \A c \in Live(rows) : rows[c].parentId # id,
         NEW after, after = [rows EXCEPT ![id].state = "deleted"]
  PROVE  after \in CategoryRows /\ Grown(after)
PROOF
<1>. DEFINE g == TreeOf(rows)
            h == TreeOf(after)
<1>0. id \in Cats
  BY DEF Live
<1>1. after \in CategoryRows
  BY <1>0 DEF CategoryRows
<1>2. /\ g \in PageTrees /\ DOMAIN g = Live(rows) /\ h \in PageTrees /\ DOMAIN h = Live(after)
      /\ \A c \in Live(rows) : g[c].parentId = rows[c].parentId
      /\ \A c \in Live(after) : h[c].parentId = after[c].parentId
  BY <1>1, TreeOfIs
<1>3. /\ Live(after) = Live(rows) \ {id}
      /\ \A c \in Live(after) : after[c].parentId = rows[c].parentId
  BY <1>0 DEF Live, CategoryRows
<1>4. flatten(g) = DOMAIN g /\ \A c \in DOMAIN g : buildTree(g)[c] = g[c].parentId /\ buildTree(g)[c] \in DOMAIN g \union {Root}
  BY GrownIs, ParentOf
<1>5. \A c \in DOMAIN h : buildTree(h)[c] = h[c].parentId /\ buildTree(h)[c] = buildTree(g)[c]
  <2>1. ASSUME NEW c \in DOMAIN h PROVE h[c].parentId \in DOMAIN h \union {Root} /\ h[c].parentId = buildTree(g)[c]
    <3>. HIDE DEF g, h
    <3>1. /\ c \in DOMAIN g /\ h[c].parentId = g[c].parentId
          /\ g[c].parentId = rows[c].parentId /\ c \in Live(rows)
      BY <1>2, <1>3
    <3>2. g[c].parentId \in DOMAIN g \union {Root} /\ buildTree(g)[c] = g[c].parentId
      BY <1>4, <3>1
    <3>3. h[c].parentId # id
      BY <3>1
    <3>. QED
      BY <1>2, <1>3, <3>1, <3>2, <3>3
  <2>2. Root \notin DOMAIN h
    BY <1>2, PageTreeIs
  <2>. HIDE DEF g, h
  <2>. QED
    BY <2>1, <2>2 DEF buildTree
<1>6. \A c \in DOMAIN h : c \in flatten(h)
  <2>1. ASSUME NEW X, Cycle(h, X), NEW x \in X PROVE FALSE
    <3>. HIDE DEF g, h
    <3>1. Cycle(g, X) /\ x \in DOMAIN g
      BY <1>2, <1>3, <1>5, <2>1 DEF Cycle
    <3>2. x \in flatten(g) /\ IsFiniteSet(DOMAIN g) /\ Root \notin DOMAIN g
      BY <1>2, <1>4, <3>1, PageTreeIs
    <3>. QED
      BY <3>1, <3>2, ShownUnlessCycle
  <2>. HIDE DEF h
  <2>. QED
    BY <1>2, <2>1, ShownUnlessCycle, PageTreeIs
<1>7. flatten(h) = DOMAIN h
  <2>. HIDE DEF h
  <2>. QED
    BY <1>2, <1>6, PageTreeIs
<1>. HIDE DEF g, h
<1>. QED
  BY <1>1, <1>5, <1>7, GrownIs DEF h

\* A row that moves to a place its page offered, on a page that shows the tree,
\* leaves the tree grown.
LEMMA GrowsByMove ==
  ASSUME NEW rows \in CategoryRows, Grown(rows), NEW after \in CategoryRows,
         \A c \in Cats : after[c].state = rows[c].state,
         NEW v \in PageTrees, Parents(v) = Parents(TreeOf(rows)), NEW d \in flatten(v),
         \A c \in Live(rows) \ {d} : after[c].parentId = rows[c].parentId,
         \/ after[d].parentId \in {Root, rows[d].parentId}
         \/ \E t \in flatten(v) : /\ d \notin Path(v, t)
                                  /\ after[d].parentId = t \/ after[d].parentId = buildTree(v)[t]
  PROVE  Grown(after)
PROOF
<1>. DEFINE g == TreeOf(rows)
            h == TreeOf(after)
<1>1. /\ g \in PageTrees /\ DOMAIN g = Live(rows) /\ h \in PageTrees /\ DOMAIN h = Live(after)
      /\ \A c \in Live(rows) : g[c].parentId = rows[c].parentId
      /\ \A c \in Live(after) : h[c].parentId = after[c].parentId
  BY TreeOfIs
<1>2. Live(after) = Live(rows)
  BY DEF Live
<1>3. flatten(g) = DOMAIN g /\ \A c \in DOMAIN g : buildTree(g)[c] = g[c].parentId
  BY GrownIs
<1>4. /\ DOMAIN v = DOMAIN g /\ flatten(v) = DOMAIN g
      /\ \A c \in DOMAIN g : buildTree(v)[c] = g[c].parentId
  <2>1. /\ DOMAIN v = DOMAIN g /\ flatten(v) = flatten(g)
        /\ \A c \in DOMAIN g : buildTree(v)[c] = buildTree(g)[c]
    <3>1. g \in PageTrees /\ Parents(v) = Parents(g)
      BY <1>1
    <3>. HIDE DEF g
    <3>. QED
      BY <3>1, SameView
  <2>. HIDE DEF g
  <2>. QED
    BY <1>3, <2>1
<1>5. /\ IsFiniteSet(DOMAIN v) /\ Root \notin DOMAIN v /\ d \in DOMAIN v
      /\ \A c \in DOMAIN v : buildTree(v)[c] \in DOMAIN v \union {Root}
  BY PageTreeIs, ParentOf
<1>6. \A c \in DOMAIN h : h[c].parentId \in DOMAIN h \union {Root}
  <2>1. ASSUME NEW c \in DOMAIN h PROVE h[c].parentId \in DOMAIN h \union {Root}
    <3>. HIDE DEF g, h
    <3>1. CASE c # d
      BY <1>1, <1>2, <1>4, <1>5, <3>1
    <3>2. CASE c = d
      <4>1. h[c].parentId = after[d].parentId
        BY <1>1, <3>2
      <4>2. rows[d].parentId = buildTree(v)[d]
        BY <1>1, <1>4, <1>5
      <4>3. \A t \in flatten(v) : t \in DOMAIN v
        BY <1>4
      <4>4. DOMAIN h = DOMAIN v
        BY <1>1, <1>2, <1>4
      <4>. QED
        BY <1>5, <4>1, <4>2, <4>3, <4>4
    <3>. QED
      BY <3>1, <3>2
  <2>. QED
    BY <2>1
<1>7. \A c \in DOMAIN h : buildTree(h)[c] = h[c].parentId
  <2>1. Root \notin DOMAIN h
    BY <1>1, PageTreeIs
  <2>. HIDE DEF h
  <2>. QED
    BY <1>6, <2>1 DEF buildTree
<1>8. flatten(h) = flatten(v)
  <2>1. DOMAIN h = DOMAIN v /\ \A c \in DOMAIN v \ {d} : buildTree(h)[c] = buildTree(v)[c]
    <3>. HIDE DEF g, h
    <3>. QED
      BY <1>1, <1>2, <1>4, <1>7
  <2>2. buildTree(h)[d] = after[d].parentId /\ rows[d].parentId = buildTree(v)[d]
    <3>. HIDE DEF g, h
    <3>. QED
      BY <1>1, <1>2, <1>4, <1>5, <1>7
  <2>3. CASE after[d].parentId = rows[d].parentId
    <3>1. \A c \in DOMAIN v : buildTree(h)[c] = buildTree(v)[c]
      <4>. HIDE DEF h
      <4>. QED
        BY <2>1, <2>2, <2>3
    <3>. HIDE DEF h
    <3>. QED
      BY <1>5, <2>1, <3>1, SameParents
  <2>4. CASE after[d].parentId # rows[d].parentId
    <3>1. \/ buildTree(h)[d] = Root
          \/ \E t \in flatten(v) : /\ d \notin Path(v, t)
                                   /\ buildTree(h)[d] = t \/ buildTree(h)[d] = buildTree(v)[t]
      <4>. HIDE DEF h
      <4>. QED
        BY <2>2, <2>4
    <3>. HIDE DEF h
    <3>. QED
      BY <1>5, <2>1, <3>1, MoveKeeps
  <2>. QED
    BY <2>3, <2>4
<1>9. flatten(h) = DOMAIN h
  <2>. HIDE DEF g, h
  <2>. QED
    BY <1>1, <1>2, <1>4, <1>8
<1>. HIDE DEF g, h
<1>. QED
  BY <1>7, <1>9, GrownIs DEF h

-----------------------------------------------------------------------------
(* Categories: the tree stays grown.                                      *)

\* what the page of a tree v may have asked for
PageReorders(v) == {[kind |-> "reorder", drop |-> drop, updates |-> computeReorder(v, drop)] : drop \in Drops(v)}
PageCreates(v) == [kind : {"create"}, id : Cats, parentId : flatten(v) \union {Root}, sortOrder : Int, checked : BOOLEAN]
PageUpdates(v) == UNION {[kind : {"update"}, id : {c}, parentId : ParentOptions(v, c) \union {v[c].parentId},
                          sortOrder : Int, checked : BOOLEAN] : c \in flatten(v)}
PageDeletes(v) == [kind : {"delete"}, id : flatten(v), checked : BOOLEAN]
FromPage(v, r) == \/ r = Idle
                  \/ r \in PageReorders(v)
                  \/ r \in PageCreates(v)
                  \/ r \in PageUpdates(v)
                  \/ r \in PageDeletes(v)

TreeTypes ==
    /\ row \in CategoryRows /\ blind \in BOOLEAN
    /\ view \in [Admins -> PageTrees]
    /\ DOMAIN ask = Admins /\ ask = [a \in Admins |-> ask[a]]
    /\ \A a \in Admins : FromPage(view[a], ask[a])

\* a deletion that was let through has found no children on its page
LookedForChildren ==
    blind \/ \A a \in Admins : ask[a].kind = "delete" /\ ask[a].checked
                                 => \A c \in DOMAIN view[a] : view[a][c].parentId # ask[a].id

TreeInv == TreeTypes /\ LookedForChildren /\ TreeKept

\* The kind of a request says what the page put into it.
LEMMA PageAsks ==
  ASSUME NEW v, NEW r, FromPage(v, r)
  PROVE  /\ r.kind = "reorder" => r \in PageReorders(v)
         /\ r.kind = "create" => r \in PageCreates(v)
         /\ r.kind = "update" => r \in PageUpdates(v)
         /\ r.kind = "delete" => r \in PageDeletes(v)
PROOF
<1>1. CASE r = Idle
  BY <1>1 DEF Idle
<1>2. CASE r \in PageReorders(v)
  BY <1>2 DEF PageReorders
<1>3. CASE r \in PageCreates(v)
  BY <1>3 DEF PageCreates
<1>4. CASE r \in PageUpdates(v)
  <2>1. PICK c \in flatten(v) : r \in [kind : {"update"}, id : {c}, parentId : ParentOptions(v, c) \union {v[c].parentId},
                                       sortOrder : Int, checked : BOOLEAN]
    BY <1>4 DEF PageUpdates
  <2>2. r.kind = "update"
    BY <2>1
  <2>. QED
    BY <1>4, <2>2
<1>5. CASE r \in PageDeletes(v)
  BY <1>5 DEF PageDeletes
<1>. QED
  BY <1>1, <1>2, <1>3, <1>4, <1>5 DEF FromPage

LEMMA PageReorderIs ==
  ASSUME NEW v, NEW r, FromPage(v, r), r.kind = "reorder"
  PROVE  r.drop \in Drops(v) /\ r.updates = computeReorder(v, r.drop)
PROOF
<1>1. PICK drop \in Drops(v) : r = [kind |-> "reorder", drop |-> drop, updates |-> computeReorder(v, drop)]
  BY PageAsks DEF PageReorders
<1>. QED
  BY <1>1

LEMMA PageCreateIs ==
  ASSUME NEW v, NEW r, FromPage(v, r), r.kind = "create"
  PROVE  r.id \in Cats /\ r.parentId \in flatten(v) \union {Root} /\ r.sortOrder \in Int
PROOF
  BY PageAsks DEF PageCreates

LEMMA PageUpdateIs ==
  ASSUME NEW v, NEW r, FromPage(v, r), r.kind = "update"
  PROVE  /\ r.id \in flatten(v) /\ r.sortOrder \in Int
         /\ r.parentId \in ParentOptions(v, r.id) \union {v[r.id].parentId}
PROOF
<1>1. PICK c \in flatten(v) : r \in [kind : {"update"}, id : {c}, parentId : ParentOptions(v, c) \union {v[c].parentId},
                                     sortOrder : Int, checked : BOOLEAN]
  BY PageAsks DEF PageUpdates
<1>2. r.id = c /\ r.sortOrder \in Int /\ r.parentId \in ParentOptions(v, c) \union {v[c].parentId}
  BY <1>1
<1>. QED
  BY <1>2

LEMMA PageDeleteIs ==
  ASSUME NEW v, NEW r, FromPage(v, r), r.kind = "delete"
  PROVE  r.id \in flatten(v)
PROOF
  BY PageAsks DEF PageDeletes

\* A request that was let through still is what its page asked for.
LEMMA CheckedAsk ==
  ASSUME NEW v, NEW r, FromPage(v, r), r.kind \in {"create", "update", "delete"}
  PROVE  FromPage(v, [r EXCEPT !.checked = TRUE])
PROOF
<1>1. CASE r.kind = "create"
  <2>1. r \in PageCreates(v)
    BY <1>1, PageAsks
  <2>2. [r EXCEPT !.checked = TRUE] \in PageCreates(v)
    BY <2>1 DEF PageCreates
  <2>. QED
    BY <2>2 DEF FromPage
<1>2. CASE r.kind = "update"
  <2>1. PICK c \in flatten(v) : r \in [kind : {"update"}, id : {c}, parentId : ParentOptions(v, c) \union {v[c].parentId},
                                       sortOrder : Int, checked : BOOLEAN]
    BY <1>2, PageAsks DEF PageUpdates
  <2>2. [r EXCEPT !.checked = TRUE] \in [kind : {"update"}, id : {c}, parentId : ParentOptions(v, c) \union {v[c].parentId},
                                         sortOrder : Int, checked : BOOLEAN]
    BY <2>1
  <2>3. [r EXCEPT !.checked = TRUE] \in PageUpdates(v)
    BY <2>2 DEF PageUpdates
  <2>. QED
    BY <2>3 DEF FromPage
<1>3. CASE r.kind = "delete"
  <2>1. r \in PageDeletes(v)
    BY <1>3, PageAsks
  <2>2. [r EXCEPT !.checked = TRUE] \in PageDeletes(v)
    BY <2>1 DEF PageDeletes
  <2>. QED
    BY <2>2 DEF FromPage
<1>. QED
  BY <1>1, <1>2, <1>3

\* The rows after a reorder: what is sent is written, all else stays.
LEMMA WrittenIs ==
  ASSUME row \in CategoryRows, NEW U,
         \A u \in U : u.id \in Cats /\ u.parentId \in Cats \union {Root} /\ u.sortOrder \in Int,
         \A u, x \in U : u.id = x.id => u = x
  PROVE  /\ Written(U) \in CategoryRows
         /\ \A c \in Cats : Written(U)[c].state = row[c].state
         /\ \A u \in U : /\ Written(U)[u.id].parentId = u.parentId
                         /\ Written(U)[u.id].sortOrder = u.sortOrder
         /\ \A c \in Cats : (\A u \in U : u.id # c) => Written(U)[c] = row[c]
PROOF
<1>. DEFINE w == Written(U)
<1>0. \A c \in Cats : row[c] \in [parentId : Cats \union {Root}, sortOrder : Int, state : {"new", "live", "deleted"}]
  BY DEF CategoryRows
<1>1. ASSUME NEW u \in U
      PROVE  /\ w[u.id] = [row[u.id] EXCEPT !.parentId = u.parentId, !.sortOrder = u.sortOrder]
             /\ w[u.id].parentId = u.parentId /\ w[u.id].sortOrder = u.sortOrder /\ w[u.id].state = row[u.id].state
             /\ w[u.id] \in [parentId : Cats \union {Root}, sortOrder : Int, state : {"new", "live", "deleted"}]
  <2>1. (CHOOSE x \in U : x.id = u.id) = u
    OBVIOUS
  <2>2. w[u.id] = [row[u.id] EXCEPT !.parentId = u.parentId, !.sortOrder = u.sortOrder]
    BY <2>1 DEF Written
  <2>3. row[u.id] \in [parentId : Cats \union {Root}, sortOrder : Int, state : {"new", "live", "deleted"}]
    BY <1>0
  <2>. HIDE DEF w
  <2>. QED
    BY <2>2, <2>3
<1>2. ASSUME NEW c \in Cats, \A u \in U : u.id # c PROVE w[c] = row[c]
  BY <1>2 DEF Written
<1>3. w = [c \in Cats |-> w[c]]
  BY DEF Written
<1>4. ASSUME NEW c \in Cats
      PROVE  /\ w[c] \in [parentId : Cats \union {Root}, sortOrder : Int, state : {"new", "live", "deleted"}]
             /\ w[c].state = row[c].state
  <2>. HIDE DEF w
  <2>1. CASE \E u \in U : u.id = c
    BY <1>1, <2>1
  <2>2. CASE \A u \in U : u.id # c
    BY <1>0, <1>2, <2>2
  <2>. QED
    BY <2>1, <2>2
<1>5. w \in CategoryRows
  <2>. HIDE DEF w
  <2>. QED
    BY <1>3, <1>4 DEF CategoryRows
<1>. QED
  BY <1>1, <1>2, <1>4, <1>5

\* The rows after the reorder that a page asked for.
LEMMA ReorderRows ==
  ASSUME row \in CategoryRows, NEW v \in PageTrees, NEW drop \in Drops(v)
  PROVE  LET U == computeReorder(v, drop) IN
         /\ ~\E u \in U : u.parentId = u.id
         /\ Written(U) \in CategoryRows
         /\ \A c \in Cats : Written(U)[c].state = row[c].state
         /\ \A u \in U : /\ Written(U)[u.id].parentId = u.parentId
                         /\ Written(U)[u.id].sortOrder = u.sortOrder
         /\ \A c \in Cats : (\A u \in U : u.id # c) => Written(U)[c] = row[c]
PROOF
<1>. DEFINE U == computeReorder(v, drop)
<1>1. /\ \A u \in U : /\ u \in [id : flatten(v), parentId : flatten(v) \union {Root}, sortOrder : Int]
                      /\ u.parentId # u.id
      /\ \A u, x \in U : u.id = x.id => u = x
  BY SentIs
<1>2. flatten(v) \subseteq Cats
  BY PageTreeIs
<1>. HIDE DEF U
<1>3. \A u \in U : u.id \in Cats /\ u.parentId \in Cats \union {Root} /\ u.sortOrder \in Int
  BY <1>1, <1>2
<1>4. /\ Written(U) \in CategoryRows
      /\ \A c \in Cats : Written(U)[c].state = row[c].state
      /\ \A u \in U : /\ Written(U)[u.id].parentId = u.parentId
                      /\ Written(U)[u.id].sortOrder = u.sortOrder
      /\ \A c \in Cats : (\A u \in U : u.id # c) => Written(U)[c] = row[c]
  BY <1>1, <1>3, WrittenIs
<1>. QED
  BY <1>1, <1>4 DEF U

\* One admin's request changes, on the page it was made on.
LEMMA OneAsk ==
  ASSUME TreeTypes, NEW a \in Admins, NEW r, FromPage(view[a], r), ask' = [ask EXCEPT ![a] = r], view' = view
  PROVE  /\ DOMAIN ask' = Admins /\ ask' = [b \in Admins |-> ask'[b]]
         /\ \A b \in Admins : FromPage(view'[b], ask'[b])
         /\ ask'[a] = r /\ \A b \in Admins \ {a} : ask'[b] = ask[b]
PROOF
<1>1. DOMAIN ask' = Admins /\ ask' = [b \in Admins |-> ask'[b]]
  BY DEF TreeTypes
<1>2. ask'[a] = r /\ \A b \in Admins \ {a} : ask'[b] = ask[b]
  BY DEF TreeTypes
<1>3. \A b \in Admins : FromPage(view'[b], ask'[b])
  BY <1>2 DEF TreeTypes
<1>. QED
  BY <1>1, <1>2, <1>3

LEMMA AskTypes ==
  ASSUME TreeTypes, NEW a \in Admins, NEW r, FromPage(view[a], r), Ask(a, r)
  PROVE  TreeTypes'
PROOF
<1>1. ask' = [ask EXCEPT ![a] = r] /\ row' = row /\ view' = view /\ blind' = blind
  BY DEF Ask
<1>2. DOMAIN ask' = Admins /\ ask' = [b \in Admins |-> ask'[b]] /\ \A b \in Admins : FromPage(view'[b], ask'[b])
  BY <1>1, OneAsk
<1>3. row' \in CategoryRows /\ blind' \in BOOLEAN /\ view' \in [Admins -> PageTrees]
  BY <1>1 DEF TreeTypes
<1>. QED
  BY <1>2, <1>3 DEF TreeTypes

LEMMA AnswerTypes ==
  ASSUME TreeTypes, NEW a \in Admins, Answered(a), row' \in CategoryRows
  PROVE  TreeTypes'
PROOF
<1>1. ask' = [ask EXCEPT ![a] = Idle] /\ view' = view /\ blind' \in BOOLEAN
  BY DEF Answered, TreeTypes
<1>2. FromPage(view[a], Idle)
  BY DEF FromPage
<1>3. DOMAIN ask' = Admins /\ ask' = [b \in Admins |-> ask'[b]] /\ \A b \in Admins : FromPage(view'[b], ask'[b])
  BY <1>1, <1>2, OneAsk
<1>4. view' \in [Admins -> PageTrees]
  BY <1>1 DEF TreeTypes
<1>. QED
  BY <1>1, <1>3, <1>4 DEF TreeTypes

\* Every step leaves rows, pages and requests what they are.
LEMMA TreeTypesStep ==
  ASSUME TreeTypes, [CategoriesNext]_treeVars
  PROVE  TreeTypes'
PROOF
<1>0. /\ row \in CategoryRows
      /\ \A a \in Admins : view[a] \in PageTrees /\ FromPage(view[a], ask[a])
  BY DEF TreeTypes
<1>1. ASSUME NEW a \in Admins, handleDragEnd(a) PROVE TreeTypes'
  <2>1. PICK drop \in Drops(view[a]) :
          Ask(a, [kind |-> "reorder", drop |-> drop, updates |-> computeReorder(view[a], drop)])
    BY <1>1 DEF handleDragEnd
  <2>2. FromPage(view[a], [kind |-> "reorder", drop |-> drop, updates |-> computeReorder(view[a], drop)])
    BY DEF FromPage, PageReorders
  <2>. QED
    BY <2>1, <2>2, AskTypes
<1>2. ASSUME NEW a \in Admins, CreateSheet(a) PROVE TreeTypes'
  <2>1. PICK c \in Cats, p \in flatten(view[a]) \union {Root} :
          Ask(a, [kind |-> "create", id |-> c, parentId |-> p, sortOrder |-> Siblings(view[a], p), checked |-> FALSE])
    BY <1>2 DEF CreateSheet
  <2>2. Siblings(view[a], p) \in Int
    <3>1. IsFiniteSet({c1 \in flatten(view[a]) : view[a][c1].parentId = p})
      BY <1>0, PageTreeIs, FS_Subset
    <3>. QED
      BY <3>1, FS_CardinalityType DEF Siblings
  <2>3. FromPage(view[a], [kind |-> "create", id |-> c, parentId |-> p, sortOrder |-> Siblings(view[a], p), checked |-> FALSE])
    <3>. DEFINE n == Siblings(view[a], p)
    <3>. HIDE DEF n
    <3>1. [kind |-> "create", id |-> c, parentId |-> p, sortOrder |-> n, checked |-> FALSE] \in PageCreates(view[a])
      BY <2>2 DEF PageCreates, n
    <3>. QED
      BY <3>1 DEF FromPage, n
  <2>. QED
    BY <2>1, <2>3, AskTypes
<1>3. ASSUME NEW a \in Admins, EditSheet(a) PROVE TreeTypes'
  <2>1. PICK c \in flatten(view[a]) : \E p \in ParentOptions(view[a], c) \union {view[a][c].parentId} :
          Ask(a, [kind |-> "update", id |-> c, parentId |-> p, sortOrder |-> view[a][c].sortOrder, checked |-> FALSE])
    BY <1>3 DEF EditSheet
  <2>2. PICK p \in ParentOptions(view[a], c) \union {view[a][c].parentId} :
          Ask(a, [kind |-> "update", id |-> c, parentId |-> p, sortOrder |-> view[a][c].sortOrder, checked |-> FALSE])
    BY <2>1
  <2>3. view[a][c].sortOrder \in Int
    BY <1>0, PageTreeIs
  <2>4. [kind |-> "update", id |-> c, parentId |-> p, sortOrder |-> view[a][c].sortOrder, checked |-> FALSE]
          \in [kind : {"update"}, id : {c}, parentId : ParentOptions(view[a], c) \union {view[a][c].parentId},
               sortOrder : Int, checked : BOOLEAN]
    BY <2>3
  <2>5. FromPage(view[a], [kind |-> "update", id |-> c, parentId |-> p, sortOrder |-> view[a][c].sortOrder, checked |-> FALSE])
    BY <2>4 DEF FromPage, PageUpdates
  <2>. QED
    BY <2>2, <2>5, AskTypes
<1>4. ASSUME NEW a \in Admins, DeleteButton(a) PROVE TreeTypes'
  <2>1. PICK c \in flatten(view[a]) : Ask(a, [kind |-> "delete", id |-> c, checked |-> FALSE])
    BY <1>4 DEF DeleteButton
  <2>2. FromPage(view[a], [kind |-> "delete", id |-> c, checked |-> FALSE])
    BY DEF FromPage, PageDeletes
  <2>. QED
    BY <2>1, <2>2, AskTypes
<1>5. ASSUME NEW a \in Admins, Refresh(a) PROVE TreeTypes'
  <2>1. /\ ask[a] = Idle /\ view' = [view EXCEPT ![a] = getTree]
        /\ row' = row /\ ask' = ask /\ blind' = blind
    BY <1>5 DEF Refresh
  <2>2. getTree \in PageTrees
    BY <1>0, TreeOfIs DEF getTree
  <2>3. view' \in [Admins -> PageTrees] /\ \A b \in Admins \ {a} : view'[b] = view[b]
    BY <2>1, <2>2 DEF TreeTypes
  <2>4. ASSUME NEW b \in Admins PROVE FromPage(view'[b], ask'[b])
    <3>1. CASE b = a
      BY <2>1, <3>1 DEF FromPage
    <3>2. CASE b # a
      BY <1>0, <2>1, <2>3, <3>2
    <3>. QED
      BY <3>1, <3>2
  <2>. QED
    BY <2>1, <2>3, <2>4 DEF TreeTypes
<1>6. ASSUME NEW a \in Admins, Check(a) PROVE TreeTypes'
  <2>. DEFINE r == IF Allowed(ask[a]) THEN [ask[a] EXCEPT !.checked = TRUE] ELSE Idle
  <2>1. /\ ask[a].kind \in {"create", "update", "delete"}
        /\ ask' = [ask EXCEPT ![a] = r] /\ row' = row /\ view' = view
        /\ blind' \in BOOLEAN
    BY <1>6 DEF Check, TreeTypes
  <2>2. FromPage(view[a], r)
    <3>1. FromPage(view[a], [ask[a] EXCEPT !.checked = TRUE])
      BY <1>0, <2>1, CheckedAsk
    <3>2. FromPage(view[a], Idle)
      BY DEF FromPage
    <3>. QED
      BY <3>1, <3>2
  <2>. HIDE DEF r
  <2>3. DOMAIN ask' = Admins /\ ask' = [b \in Admins |-> ask'[b]] /\ \A b \in Admins : FromPage(view'[b], ask'[b])
    BY <2>1, <2>2, OneAsk
  <2>. QED
    BY <2>1, <2>3 DEF TreeTypes
<1>7. ASSUME NEW a \in Admins, create(a) PROVE TreeTypes'
  <2>. DEFINE r == ask[a]
  <2>1. /\ r.kind = "create" /\ Answered(a)
        /\ row' = IF row[r.id].state # "new" THEN row
                  ELSE [row EXCEPT ![r.id] = [parentId |-> r.parentId, sortOrder |-> r.sortOrder, state |-> "live"]]
    BY <1>7 DEF create
  <2>2. r.id \in Cats /\ r.parentId \in Cats \union {Root} /\ r.sortOrder \in Int
    BY <1>0, <2>1, PageCreateIs, PageTreeIs
  <2>. HIDE DEF r
  <2>3. row' \in CategoryRows
    BY <1>0, <2>1, <2>2 DEF CategoryRows
  <2>. QED
    BY <2>1, <2>3, AnswerTypes
<1>8. ASSUME NEW a \in Admins, updateCategory(a) PROVE TreeTypes'
  <2>. DEFINE r == ask[a]
  <2>1. /\ r.kind = "update" /\ Answered(a)
        /\ row' = [row EXCEPT ![r.id].parentId = r.parentId, ![r.id].sortOrder = r.sortOrder]
    BY <1>8 DEF updateCategory
  <2>2. r.id \in Cats /\ r.parentId \in Cats \union {Root} /\ r.sortOrder \in Int
    <3>1. r.id \in flatten(view[a]) /\ r.sortOrder \in Int
          /\ r.parentId \in ParentOptions(view[a], r.id) \union {view[a][r.id].parentId}
      BY <1>0, <2>1, PageUpdateIs
    <3>2. /\ flatten(view[a]) \subseteq Cats /\ flatten(view[a]) \subseteq DOMAIN view[a]
          /\ \A c \in DOMAIN view[a] : view[a][c].parentId \in Cats \union {Root}
      BY <1>0, PageTreeIs
    <3>. HIDE DEF r
    <3>. QED
      BY <3>1, <3>2 DEF ParentOptions
  <2>. HIDE DEF r
  <2>3. row' \in CategoryRows
    BY <1>0, <2>1, <2>2 DEF CategoryRows
  <2>. QED
    BY <2>1, <2>3, AnswerTypes
<1>9. ASSUME NEW a \in Admins, softDelete(a) PROVE TreeTypes'
  <2>1. /\ ask[a].kind = "delete" /\ Answered(a) /\ row' = [row EXCEPT ![ask[a].id].state = "deleted"]
    BY <1>9 DEF softDelete
  <2>2. ask[a].id \in Cats
    BY <1>0, <2>1, PageDeleteIs, PageTreeIs
  <2>3. row' \in CategoryRows
    BY <1>0, <2>1, <2>2 DEF CategoryRows
  <2>. QED
    BY <2>1, <2>3, AnswerTypes
<1>10. ASSUME NEW a \in Admins, reorder(a) PROVE TreeTypes'
  <2>. DEFINE U == ask[a].updates
  <2>1. /\ ask[a].kind = "reorder" /\ Answered(a)
        /\ row' = IF \E u \in U : u.parentId = u.id THEN row ELSE Written(U)
    BY <1>10 DEF reorder
  <2>2. ask[a].drop \in Drops(view[a]) /\ U = computeReorder(view[a], ask[a].drop)
    BY <1>0, <2>1, PageReorderIs
  <2>3. Written(computeReorder(view[a], ask[a].drop)) \in CategoryRows
    BY <1>0, <2>2, ReorderRows
  <2>. HIDE DEF U
  <2>4. row' \in CategoryRows
    BY <1>0, <2>1, <2>2, <2>3
  <2>. QED
    BY <2>1, <2>4, AnswerTypes
<1>11. CASE UNCHANGED treeVars
  BY <1>11 DEF treeVars, TreeTypes
<1>. QED
  BY <1>1, <1>2, <1>3, <1>4, <1>5, <1>6, <1>7, <1>8, <1>9, <1>10, <1>11 DEF CategoriesNext

\* A new request, or none, leaves it so that deletions have looked for children.
LEMMA LooksKept ==
  ASSUME TreeInv, NEW a \in Admins, NEW r, FromPage(view[a], r), ask' = [ask EXCEPT ![a] = r], view' = view,
         blind => blind',
         blind' \/ (r.kind = "delete" /\ r.checked => \A c \in DOMAIN view[a] : view[a][c].parentId # r.id)
  PROVE  LookedForChildren'
PROOF
<1>1. ask'[a] = r /\ \A b \in Admins \ {a} : ask'[b] = ask[b]
  BY OneAsk DEF TreeInv
<1>2. CASE blind'
  BY <1>2 DEF LookedForChildren
<1>3. CASE ~blind'
  <2>1. \A b \in Admins : ask[b].kind = "delete" /\ ask[b].checked
                            => \A c \in DOMAIN view[b] : view[b][c].parentId # ask[b].id
    BY <1>3 DEF TreeInv, LookedForChildren
  <2>2. ASSUME NEW b \in Admins, ask'[b].kind = "delete", ask'[b].checked, NEW c \in DOMAIN view[b]
        PROVE  view[b][c].parentId # ask'[b].id
    <3>1. CASE b = a
      BY <1>1, <1>3, <2>2, <3>1
    <3>2. CASE b # a
      BY <1>1, <2>1, <2>2, <3>2
    <3>. QED
      BY <3>1, <3>2
  <2>. QED
    BY <2>2 DEF LookedForChildren
<1>. QED
  BY <1>2, <1>3

LEMMA AskKeepsInv ==
  ASSUME TreeInv, NEW a \in Admins, NEW r, FromPage(view[a], r), Ask(a, r), r.kind = "delete" => ~r.checked
  PROVE  LookedForChildren' /\ TreeKept'
PROOF
<1>1. ask' = [ask EXCEPT ![a] = r] /\ row' = row /\ view' = view /\ blind' = blind
  BY DEF Ask
<1>2. LookedForChildren'
  BY <1>1, LooksKept
<1>3. TreeKept'
  BY <1>1 DEF TreeInv, TreeKept
<1>. QED
  BY <1>2, <1>3

\* An answer keeps the invariant if what it wrote keeps the tree grown whenever
\* its page was up to date.
LEMMA AnswerKeepsInv ==
  ASSUME TreeInv, NEW a \in Admins, Answered(a),
         ~blind /\ Grown(row) /\ Parents(view[a]) = Parents(TreeOf(row)) => Grown(row')
  PROVE  LookedForChildren' /\ TreeKept'
PROOF
<1>1. ask' = [ask EXCEPT ![a] = Idle] /\ view' = view /\ blind' = (blind \/ ~UpToDate(a))
  BY DEF Answered
<1>2. FromPage(view[a], Idle) /\ Idle.kind # "delete"
  BY DEF FromPage, Idle
<1>3. LookedForChildren'
  BY <1>1, <1>2, LooksKept
<1>4. CASE blind'
  BY <1>3, <1>4 DEF TreeKept
<1>5. CASE ~blind'
  <2>1. ~blind /\ Parents(view[a]) = Parents(TreeOf(row))
    BY <1>1, <1>5 DEF UpToDate, getTree
  <2>2. Grown(row)
    BY <2>1 DEF TreeInv, TreeKept
  <2>. QED
    BY <1>3, <2>1, <2>2 DEF TreeKept
<1>. QED
  BY <1>3, <1>4, <1>5

\* On a page that is up to date, in a grown tree, every live row is shown where it is.
LEMMA PageOfGrown ==
  ASSUME NEW rows \in CategoryRows, Grown(rows), NEW v \in PageTrees, Parents(v) = Parents(TreeOf(rows))
  PROVE  /\ DOMAIN v = Live(rows) /\ flatten(v) = Live(rows)
         /\ \A c \in Live(rows) : v[c].parentId = rows[c].parentId /\ buildTree(v)[c] = rows[c].parentId
PROOF
<1>. DEFINE g == TreeOf(rows)
<1>1. g \in PageTrees /\ DOMAIN g = Live(rows) /\ \A c \in Live(rows) : g[c].parentId = rows[c].parentId
  BY TreeOfIs
<1>2. flatten(g) = DOMAIN g /\ \A c \in DOMAIN g : buildTree(g)[c] = g[c].parentId
  BY GrownIs
<1>3. Parents(v) = Parents(g)
  OBVIOUS
<1>. HIDE DEF g
<1>4. /\ DOMAIN v = DOMAIN g /\ flatten(v) = flatten(g)
      /\ \A c \in DOMAIN g : buildTree(v)[c] = buildTree(g)[c]
  BY <1>1, <1>3, SameView
<1>5. ASSUME NEW c \in DOMAIN g PROVE v[c].parentId = g[c].parentId
  <2>1. <<c, v[c].parentId>> \in Parents(g)
    BY <1>3, <1>4 DEF Parents
  <2>. QED
    BY <2>1 DEF Parents
<1>. QED
  BY <1>1, <1>2, <1>4, <1>5

\* Every step keeps the tree grown, or is one that the pages did not allow for.
LEMMA TreeInvStep ==
  ASSUME TreeInv, [CategoriesNext]_treeVars
  PROVE  TreeInv'
PROOF
<1>t. TreeTypes'
  BY TreeTypesStep DEF TreeInv
<1>0. /\ row \in CategoryRows
      /\ \A a \in Admins : view[a] \in PageTrees /\ FromPage(view[a], ask[a])
      /\ ask = [a \in Admins |-> ask[a]]
  BY DEF TreeInv, TreeTypes
<1>1. ASSUME NEW a \in Admins, handleDragEnd(a) PROVE LookedForChildren' /\ TreeKept'
  <2>1. PICK drop \in Drops(view[a]) :
          Ask(a, [kind |-> "reorder", drop |-> drop, updates |-> computeReorder(view[a], drop)])
    BY <1>1 DEF handleDragEnd
  <2>. DEFINE r == [kind |-> "reorder", drop |-> drop, updates |-> computeReorder(view[a], drop)]
  <2>2. FromPage(view[a], r) /\ r.kind # "delete"
    BY DEF FromPage, PageReorders
  <2>. HIDE DEF r
  <2>. QED
    BY <2>1, <2>2, AskKeepsInv DEF r
<1>2. ASSUME NEW a \in Admins, CreateSheet(a) PROVE LookedForChildren' /\ TreeKept'
  <2>1. PICK c \in Cats, p \in flatten(view[a]) \union {Root} :
          Ask(a, [kind |-> "create", id |-> c, parentId |-> p, sortOrder |-> Siblings(view[a], p), checked |-> FALSE])
    BY <1>2 DEF CreateSheet
  <2>2. ask'[a] = [kind |-> "create", id |-> c, parentId |-> p, sortOrder |-> Siblings(view[a], p), checked |-> FALSE]
    BY <1>0, <2>1 DEF Ask
  <2>3. FromPage(view[a], ask'[a]) /\ ask'[a].kind # "delete" /\ Ask(a, ask'[a])
    BY <1>t, <2>1, <2>2 DEF TreeTypes, Ask
  <2>. QED
    BY <2>3, AskKeepsInv
<1>3. ASSUME NEW a \in Admins, EditSheet(a) PROVE LookedForChildren' /\ TreeKept'
  <2>1. PICK c \in flatten(view[a]) : \E p \in ParentOptions(view[a], c) \union {view[a][c].parentId} :
          Ask(a, [kind |-> "update", id |-> c, parentId |-> p, sortOrder |-> view[a][c].sortOrder, checked |-> FALSE])
    BY <1>3 DEF EditSheet
  <2>2. PICK p \in ParentOptions(view[a], c) \union {view[a][c].parentId} :
          Ask(a, [kind |-> "update", id |-> c, parentId |-> p, sortOrder |-> view[a][c].sortOrder, checked |-> FALSE])
    BY <2>1
  <2>3. ask'[a] = [kind |-> "update", id |-> c, parentId |-> p, sortOrder |-> view[a][c].sortOrder, checked |-> FALSE]
    BY <1>0, <2>2 DEF Ask
  <2>4. FromPage(view[a], ask'[a]) /\ ask'[a].kind # "delete" /\ Ask(a, ask'[a])
    BY <1>t, <2>2, <2>3 DEF TreeTypes, Ask
  <2>. QED
    BY <2>4, AskKeepsInv
<1>4. ASSUME NEW a \in Admins, DeleteButton(a) PROVE LookedForChildren' /\ TreeKept'
  <2>1. PICK c \in flatten(view[a]) : Ask(a, [kind |-> "delete", id |-> c, checked |-> FALSE])
    BY <1>4 DEF DeleteButton
  <2>2. FromPage(view[a], [kind |-> "delete", id |-> c, checked |-> FALSE])
    BY DEF FromPage, PageDeletes
  <2>3. ~[kind |-> "delete", id |-> c, checked |-> FALSE].checked
    OBVIOUS
  <2>. QED
    BY <2>1, <2>2, <2>3, AskKeepsInv
<1>5. ASSUME NEW a \in Admins, Refresh(a) PROVE LookedForChildren' /\ TreeKept'
  <2>1. /\ ask[a] = Idle /\ view' = [view EXCEPT ![a] = getTree]
        /\ row' = row /\ ask' = ask /\ blind' = blind
    BY <1>5 DEF Refresh
  <2>2. Idle.kind # "delete" /\ \A b \in Admins \ {a} : view'[b] = view[b]
    BY <2>1 DEF Idle, TreeInv, TreeTypes
  <2>3. CASE blind'
    BY <2>3 DEF LookedForChildren, TreeKept
  <2>4. CASE ~blind'
    <3>1. \A b \in Admins : ask[b].kind = "delete" /\ ask[b].checked
                              => \A c \in DOMAIN view[b] : view[b][c].parentId # ask[b].id
      BY <2>1, <2>4 DEF TreeInv, LookedForChildren
    <3>2. ASSUME NEW b \in Admins, ask'[b].kind = "delete", ask'[b].checked, NEW c \in DOMAIN view'[b]
          PROVE  view'[b][c].parentId # ask'[b].id
      <4>1. b # a
        BY <2>1, <2>2, <3>2
      <4>. QED
        BY <2>1, <2>2, <3>1, <3>2, <4>1
    <3>3. LookedForChildren'
      BY <3>2 DEF LookedForChildren
    <3>4. TreeKept'
      BY <2>1 DEF TreeInv, TreeKept
    <3>. QED
      BY <3>3, <3>4
  <2>. QED
    BY <2>3, <2>4
<1>6. ASSUME NEW a \in Admins, Check(a) PROVE LookedForChildren' /\ TreeKept'
  <2>. DEFINE r == IF Allowed(ask[a]) THEN [ask[a] EXCEPT !.checked = TRUE] ELSE Idle
  <2>1. /\ ask[a].kind \in {"create", "update", "delete"}
        /\ ask' = [ask EXCEPT ![a] = r] /\ row' = row /\ view' = view
        /\ blind' = (blind \/ (ask[a].kind = "delete" /\ Allowed(ask[a]) /\ ~UpToDate(a)))
    BY <1>6 DEF Check
  <2>2. FromPage(view[a], r)
    <3>1. FromPage(view[a], [ask[a] EXCEPT !.checked = TRUE])
      BY <1>0, <2>1, CheckedAsk
    <3>2. FromPage(view[a], Idle)
      BY DEF FromPage
    <3>. QED
      BY <3>1, <3>2
  <2>3. ASSUME ~blind', r.kind = "delete", r.checked, NEW c \in DOMAIN view[a] PROVE view[a][c].parentId # r.id
    <3>1. Allowed(ask[a]) /\ r = [ask[a] EXCEPT !.checked = TRUE]
      BY <2>3 DEF Idle
    <3>2. ask[a].kind = "delete" /\ r.id = ask[a].id
      <4>1. ask[a] \in PageCreates(view[a]) \/ ask[a] \in PageUpdates(view[a]) \/ ask[a] \in PageDeletes(view[a])
        BY <1>0, <2>1, PageAsks
      <4>2. ask[a].kind = r.kind /\ ask[a].id = r.id
        <5>1. CASE ask[a] \in PageCreates(view[a])
          BY <3>1, <5>1 DEF PageCreates
        <5>2. CASE ask[a] \in PageUpdates(view[a])
          <6>1. PICK d \in flatten(view[a]) : ask[a] \in [kind : {"update"}, id : {d},
                          parentId : ParentOptions(view[a], d) \union {view[a][d].parentId}, sortOrder : Int, checked : BOOLEAN]
            BY <5>2 DEF PageUpdates
          <6>. QED
            BY <3>1, <6>1
        <5>3. CASE ask[a] \in PageDeletes(view[a])
          BY <3>1, <5>3 DEF PageDeletes
        <5>. QED
          BY <4>1, <5>1, <5>2, <5>3
      <4>. QED
        BY <2>3, <4>2
    <3>3. UpToDate(a) /\ ~\E d \in Live(row) : row[d].parentId = ask[a].id
      BY <2>1, <2>3, <3>1, <3>2 DEF Allowed
    <3>4. <<c, view[a][c].parentId>> \in Parents(TreeOf(row))
      BY <3>3 DEF UpToDate, Parents, getTree
    <3>5. c \in DOMAIN TreeOf(row) /\ TreeOf(row)[c].parentId = view[a][c].parentId
      BY <3>4 DEF Parents
    <3>6. c \in Live(row) /\ row[c].parentId = view[a][c].parentId
      BY <1>0, <3>5, TreeOfIs
    <3>. QED
      BY <3>2, <3>3, <3>6
  <2>. HIDE DEF r
  <2>4. LookedForChildren'
    BY <2>1, <2>2, <2>3, LooksKept
  <2>5. TreeKept'
    BY <2>1 DEF TreeInv, TreeKept
  <2>. QED
    BY <2>4, <2>5
<1>7. ASSUME NEW a \in Admins, create(a) PROVE LookedForChildren' /\ TreeKept'
  <2>. DEFINE r == ask[a]
  <2>1. /\ r.kind = "create" /\ Answered(a)
        /\ row' = IF row[r.id].state # "new" THEN row
                  ELSE [row EXCEPT ![r.id] = [parentId |-> r.parentId, sortOrder |-> r.sortOrder, state |-> "live"]]
    BY <1>7 DEF create
  <2>2. r.id \in Cats /\ r.parentId \in flatten(view[a]) \union {Root} /\ r.sortOrder \in Int
    BY <1>0, <2>1, PageCreateIs
  <2>. HIDE DEF r
  <2>3. ASSUME Grown(row), Parents(view[a]) = Parents(TreeOf(row)) PROVE Grown(row')
    <3>1. CASE row[r.id].state # "new"
      BY <2>1, <2>3, <3>1
    <3>2. CASE row[r.id].state = "new"
      <4>1. r.parentId \in Live(row) \union {Root}
        BY <1>0, <2>2, <2>3, PageOfGrown
      <4>2. row' = [row EXCEPT ![r.id] = [parentId |-> r.parentId, sortOrder |-> r.sortOrder, state |-> "live"]]
        BY <2>1, <3>2
      <4>. QED
        BY <1>0, <2>2, <2>3, <3>2, <4>1, <4>2, GrowsByCreate
    <3>. QED
      BY <3>1, <3>2
  <2>. QED
    BY <2>1, <2>3, AnswerKeepsInv
<1>8. ASSUME NEW a \in Admins, updateCategory(a) PROVE LookedForChildren' /\ TreeKept'
  <2>. DEFINE r == ask[a]
  <2>1. /\ r.kind = "update" /\ Answered(a)
        /\ row' = [row EXCEPT ![r.id].parentId = r.parentId, ![r.id].sortOrder = r.sortOrder]
    BY <1>8 DEF updateCategory
  <2>2. /\ r.id \in flatten(view[a])
        /\ r.parentId \in ParentOptions(view[a], r.id) \union {view[a][r.id].parentId}
    BY <1>0, <2>1, PageUpdateIs
  <2>. HIDE DEF r
  <2>3. ASSUME Grown(row), Parents(view[a]) = Parents(TreeOf(row)) PROVE Grown(row')
    <3>1. /\ flatten(view[a]) = Live(row)
          /\ \A c \in Live(row) : view[a][c].parentId = row[c].parentId
      BY <1>0, <2>3, PageOfGrown
    <3>2. r.id \in Live(row) /\ r.id \in Cats
      BY <2>2, <3>1 DEF Live
    <3>3. row' \in CategoryRows
      BY <1>t DEF TreeTypes
    <3>4. /\ \A c \in Cats : row'[c].state = row[c].state
          /\ \A c \in Live(row) \ {r.id} : row'[c].parentId = row[c].parentId
          /\ row'[r.id].parentId = r.parentId
      BY <1>0, <2>1, <3>2 DEF CategoryRows, Live
    <3>5. \/ row'[r.id].parentId \in {Root, row[r.id].parentId}
          \/ \E t \in flatten(view[a]) : /\ r.id \notin Path(view[a], t)
                                         /\ row'[r.id].parentId = t \/ row'[r.id].parentId = buildTree(view[a])[t]
      BY <2>2, <3>1, <3>2, <3>4 DEF ParentOptions, isDescendant
    <3>. QED
      BY <1>0, <2>2, <2>3, <3>3, <3>4, <3>5, GrowsByMove
  <2>. QED
    BY <2>1, <2>3, AnswerKeepsInv
<1>9. ASSUME NEW a \in Admins, softDelete(a) PROVE LookedForChildren' /\ TreeKept'
  <2>1. /\ ask[a].kind = "delete" /\ ask[a].checked /\ Answered(a)
        /\ row' = [row EXCEPT ![ask[a].id].state = "deleted"]
    BY <1>9 DEF softDelete
  <2>2. ask[a].id \in flatten(view[a])
    BY <1>0, <2>1, PageDeleteIs
  <2>3. ASSUME ~blind, Grown(row), Parents(view[a]) = Parents(TreeOf(row)) PROVE Grown(row')
    <3>1. /\ DOMAIN view[a] = Live(row) /\ flatten(view[a]) = Live(row)
          /\ \A c \in Live(row) : view[a][c].parentId = row[c].parentId
      BY <1>0, <2>3, PageOfGrown
    <3>2. \A c \in DOMAIN view[a] : view[a][c].parentId # ask[a].id
      BY <2>1, <2>3 DEF TreeInv, LookedForChildren
    <3>3. ask[a].id \in Live(row) /\ \A c \in Live(row) : row[c].parentId # ask[a].id
      BY <2>2, <3>1, <3>2
    <3>. QED
      BY <1>0, <2>1, <2>3, <3>3, GrowsByDelete
  <2>. QED
    BY <2>1, <2>3, AnswerKeepsInv
<1>10. ASSUME NEW a \in Admins, reorder(a) PROVE LookedForChildren' /\ TreeKept'
  <2>. DEFINE v == view[a]
              drop == ask[a].drop
              U == computeReorder(v, drop)
  <2>1. /\ ask[a].kind = "reorder" /\ Answered(a)
        /\ row' = IF \E u \in ask[a].updates : u.parentId = u.id THEN row ELSE Written(ask[a].updates)
    BY <1>10 DEF reorder
  <2>2. v \in PageTrees /\ drop \in Drops(v) /\ ask[a].updates = U
    BY <1>0, <2>1, PageReorderIs
  <2>3. ASSUME Grown(row), Parents(view[a]) = Parents(TreeOf(row)) PROVE Grown(row')
    <3>1. /\ flatten(v) = Live(row)
          /\ \A c \in Live(row) : buildTree(v)[c] = row[c].parentId
      BY <1>0, <2>3, PageOfGrown
    <3>2. /\ ~\E u \in U : u.parentId = u.id
          /\ \A c \in Cats : Written(U)[c].state = row[c].state
          /\ \A u \in U : Written(U)[u.id].parentId = u.parentId
          /\ \A c \in Cats : (\A u \in U : u.id # c) => Written(U)[c] = row[c]
      BY <1>0, <2>2, ReorderRows
    <3>3. /\ \A u \in U : u.parentId = IF u.id = drop.id THEN Into(v, drop) ELSE buildTree(v)[u.id]
          /\ \E u \in U : u.id = drop.id
      BY <2>2, SentIs
    <3>4. /\ drop.id \in flatten(v) /\ drop.target \in flatten(v) /\ drop.id \notin Path(v, drop.target)
      BY <2>2, DropIs
    <3>5. row' \in CategoryRows
      BY <1>t DEF TreeTypes
    <3>. HIDE DEF U
    <3>6. row' = Written(U)
      BY <2>1, <2>2, <3>2
    <3>. HIDE DEF v, drop
    <3>7. Live(row) \subseteq Cats
      BY DEF Live
    <3>8. ASSUME NEW c \in Live(row) \ {drop.id} PROVE row'[c].parentId = row[c].parentId
      <4>1. CASE \E u \in U : u.id = c
        BY <3>1, <3>2, <3>3, <3>6, <4>1
      <4>2. CASE \A u \in U : u.id # c
        BY <3>2, <3>6, <3>7, <4>2
      <4>. QED
        BY <4>1, <4>2
    <3>9. row'[drop.id].parentId = drop.target \/ row'[drop.id].parentId = buildTree(v)[drop.target]
      BY <3>2, <3>3, <3>6 DEF Into
    <3>10. \A c \in Cats : row'[c].state = row[c].state
      BY <3>2, <3>6
    <3>11. Parents(v) = Parents(TreeOf(row))
      BY <2>3 DEF v
    <3>. QED
      BY <1>0, <2>2, <2>3, <3>4, <3>5, <3>8, <3>9, <3>10, <3>11, GrowsByMove
  <2>. QED
    BY <2>1, <2>3, AnswerKeepsInv
<1>11. ASSUME UNCHANGED treeVars PROVE LookedForChildren' /\ TreeKept'
  BY <1>11 DEF treeVars, TreeInv, LookedForChildren, TreeKept
<1>12. LookedForChildren' /\ TreeKept'
  BY <1>1, <1>2, <1>3, <1>4, <1>5, <1>6, <1>7, <1>8, <1>9, <1>10, <1>11 DEF CategoriesNext
<1>. QED
  BY <1>t, <1>12 DEF TreeInv

LEMMA TreeInvInit ==
  ASSUME NEW rows \in CategoryRows, CategoriesInit(rows)
  PROVE  TreeTypes /\ LookedForChildren /\ (Grown(rows) => TreeKept)
PROOF
<1>1. row = rows /\ view = [a \in Admins |-> getTree] /\ ask = [a \in Admins |-> Idle] /\ blind = FALSE
  BY DEF CategoriesInit
<1>2. getTree \in PageTrees
  BY <1>1, TreeOfIs DEF getTree
<1>3. TreeTypes
  BY <1>1, <1>2 DEF TreeTypes, FromPage
<1>4. LookedForChildren
  BY <1>1 DEF LookedForChildren, Idle
<1>. QED
  BY <1>1, <1>3, <1>4 DEF TreeKept

\* Started on any rows whose live categories make a tree, however many admins
\* drag, edit, create and delete however often: every live category stays in
\* the tree, below live ones, as long as every request was written onto the
\* parents its page had shown and every deletion looked for children there.
THEOREM TreeStaysGrown ==
  ASSUME NEW rows \in CategoryRows, Grown(rows)
  PROVE  CategoriesSpec(rows) => []TreeKept
PROOF
<1>1. CategoriesInit(rows) => TreeInv
  BY TreeInvInit DEF TreeInv
<1>2. TreeInv /\ [CategoriesNext]_treeVars => TreeInv'
  BY TreeInvStep
<1>3. TreeInv => TreeKept
  BY DEF TreeInv
<1>. QED
  BY <1>1, <1>2, <1>3, PTL DEF CategoriesSpec

-----------------------------------------------------------------------------
(* Categories: where a drop lands.                                        *)

\* w is the tree v after what the drop sent was written.
Rewritten(v, w, drop) ==
    /\ DOMAIN w = DOMAIN v
    /\ \A u \in computeReorder(v, drop) : w[u.id].parentId = u.parentId /\ w[u.id].sortOrder = u.sortOrder
    /\ \A c \in DOMAIN v : (\A u \in computeReorder(v, drop) : u.id # c) => w[c] = v[c]

\* All but the dragged row stay below what they were below.
LEMMA ParentsAfter ==
  ASSUME NEW v \in PageTrees, NEW w, NEW drop \in Drops(v), Rewritten(v, w, drop)
  PROVE  /\ \A c \in DOMAIN v \ {drop.id} : buildTree(w)[c] = buildTree(v)[c]
         /\ buildTree(w)[drop.id] = Into(v, drop)
         /\ flatten(w) = flatten(v)
PROOF
<1>. DEFINE U == computeReorder(v, drop)
            d == drop.id
<1>1. /\ \A u \in U : /\ u.id \in flatten(v) /\ u.parentId \in flatten(v) \union {Root}
                      /\ u.parentId = IF u.id = d THEN Into(v, drop) ELSE buildTree(v)[u.id]
      /\ \E u \in U : u.id = d
  BY SentIs
<1>2. /\ IsFiniteSet(DOMAIN v) /\ Root \notin DOMAIN v /\ flatten(v) \subseteq DOMAIN v
  BY PageTreeIs
<1>3. /\ d \in flatten(v) /\ drop.target \in flatten(v) /\ d \notin Path(v, drop.target)
      /\ Into(v, drop) \in flatten(v) \union {Root}
  BY DropIs DEF Renumbered
<1>4. /\ DOMAIN w = DOMAIN v
      /\ \A u \in U : w[u.id].parentId = u.parentId
      /\ \A c \in DOMAIN v : (\A u \in U : u.id # c) => w[c] = v[c]
  BY DEF Rewritten
<1>. HIDE DEF U
<1>5. ASSUME NEW c \in DOMAIN v \ {d} PROVE buildTree(w)[c] = buildTree(v)[c]
  <2>1. CASE \E u \in U : u.id = c
    <3>1. w[c].parentId = buildTree(v)[c] /\ w[c].parentId \in DOMAIN v \union {Root}
      BY <1>1, <1>2, <1>4, <2>1
    <3>. QED
      BY <1>2, <1>4, <3>1 DEF buildTree
  <2>2. CASE \A u \in U : u.id # c
    <3>1. w[c] = v[c]
      BY <1>4, <2>2
    <3>. QED
      BY <1>4, <3>1 DEF buildTree
  <2>. QED
    BY <2>1, <2>2
<1>6. buildTree(w)[d] = Into(v, drop)
  <2>1. w[d].parentId = Into(v, drop)
    BY <1>1, <1>4
  <2>. QED
    BY <1>2, <1>3, <1>4, <2>1 DEF buildTree
<1>7. flatten(w) = flatten(v)
  <2>1. buildTree(w)[d] = drop.target \/ buildTree(w)[d] = buildTree(v)[drop.target]
    BY <1>6 DEF Into
  <2>. HIDE DEF d
  <2>. QED
    BY <1>2, <1>3, <1>4, <1>5, <2>1, MoveKeeps
<1>. QED
  BY <1>5, <1>6, <1>7

\* Every list holds after the drop what was to be put into it.
LEMMA LevelAfter ==
  ASSUME NEW v \in PageTrees, NEW w, NEW drop \in Drops(v), Rewritten(v, w, drop), NEW p
  PROVE  /\ Level(w, p) = Members(v, drop, p)
         /\ Level(w, p) \ {drop.id} = Level(v, p) \ {drop.id}
         /\ Level(w, p) \subseteq DOMAIN v
PROOF
<1>1. /\ \A c \in DOMAIN v \ {drop.id} : buildTree(w)[c] = buildTree(v)[c]
      /\ buildTree(w)[drop.id] = Into(v, drop)
      /\ flatten(w) = flatten(v)
  BY ParentsAfter
<1>2. flatten(v) \subseteq DOMAIN v /\ drop.id \in flatten(v)
  BY PageTreeIs, DropIs
<1>3. Level(w, p) \ {drop.id} = Level(v, p) \ {drop.id}
  BY <1>1, <1>2 DEF Level
<1>4. drop.id \in Level(w, p) <=> p = Into(v, drop)
  BY <1>1, <1>2 DEF Level
<1>5. Level(w, p) = Members(v, drop, p)
  BY <1>3, <1>4 DEF Members, Others
<1>. QED
  BY <1>1, <1>2, <1>3, <1>5 DEF Level

\* A row that is not sent already is where it should be.
LEMMA Numbered ==
  ASSUME NEW v \in PageTrees, NEW w, NEW drop \in Drops(v), Rewritten(v, w, drop), Compact(v),
         NEW p \in Renumbered(v, drop), NEW n \in Nat, GoodList(v, drop, p, n, ListOf(v, drop, p)), NEW i \in 1..n
  PROVE  w[ListOf(v, drop, p)[i]].sortOrder = i - 1
PROOF
<1>. DEFINE U == computeReorder(v, drop)
            list == ListOf(v, drop, p)
            c == list[i]
            u == Sent(v, drop, p, i)
            siblings == Children(v, p)
<1>1. /\ list \in [1..n -> Members(v, drop, p)] /\ \A k, j \in 1..n : list[k] = list[j] => k = j
  BY DEF GoodList
<1>2. u.id = c /\ u.sortOrder = i - 1 /\ c \in Members(v, drop, p)
  BY <1>1 DEF Sent
<1>3. CASE u \in U
  <2>. HIDE DEF U, u, c
  <2>1. w[u.id].sortOrder = u.sortOrder
    BY <1>3 DEF Rewritten, U
  <2>. QED
    BY <1>2, <2>1 DEF c
<1>4. CASE u \notin U
  <2>1. c # drop.id /\ u = Was(v, c)
    <3>1. i \in DOMAIN list
      BY <1>1
    <3>. QED
      BY <1>2, <1>4, <3>1, ReorderIs
  <2>2. buildTree(v)[c] = p /\ Place(siblings, c) - 1 = i - 1 /\ c \in Level(v, p)
    <3>1. buildTree(v)[c] = p /\ Place(Children(v, buildTree(v)[c]), c) - 1 = i - 1
      BY <2>1 DEF Sent, Was
    <3>. QED
      BY <1>2, <2>1, <3>1 DEF Members, Others
  <2>3. Place(siblings, c) \in 1..Len(siblings) /\ siblings[Place(siblings, c)] = c
    <3>. DEFINE S == Level(v, p)
                m == Cardinality(S)
    <3>1. S \in SUBSET DOMAIN v
      BY PageTreeIs DEF Level
    <3>2. m \in Nat /\ SortedList(v, S, siblings)
      <4>. HIDE DEF S
      <4>. QED
        BY <3>1, PageListIs DEF Children, S
    <3>3. siblings \in Seq(S) /\ Len(siblings) = m /\ \E k \in 1..Len(siblings) : siblings[k] = c
      <4>. HIDE DEF S, m, c, siblings
      <4>1. siblings \in [1..m -> S] /\ \E k \in 1..m : siblings[k] = c
        BY <2>2, <3>2 DEF SortedList, S, m
      <4>. QED
        BY <3>2, <4>1
    <3>. HIDE DEF S, c, siblings
    <3>. QED
      BY <3>3, PlaceFinds
  <2>4. Place(siblings, c) = i /\ i \in DOMAIN siblings /\ siblings[i] = c
    <3>. HIDE DEF c, siblings
    <3>1. Place(siblings, c) = i
      BY <2>2, <2>3
    <3>2. i \in 1..Len(siblings) /\ siblings[i] = c
      BY <2>3, <3>1
    <3>3. DOMAIN siblings = 1..Cardinality(Level(v, p))
      BY DEF Children, Ordered, siblings
    <3>4. Len(siblings) = Cardinality(Level(v, p))
      <4>1. Cardinality(Level(v, p)) \in Nat
        <5>1. Level(v, p) \in SUBSET DOMAIN v
          BY PageTreeIs DEF Level
        <5>. QED
          BY <5>1, PageListIs
      <4>. QED
        BY <3>3, <4>1
    <3>. QED
      BY <3>1, <3>2, <3>3, <3>4
  <2>5. v[c].sortOrder = i - 1
    <3>1. p \in flatten(v) \union {Root}
      BY DEF Renumbered
    <3>. HIDE DEF c
    <3>2. v[siblings[i]].sortOrder = i - 1
      BY <2>4, <3>1 DEF Compact
    <3>. QED
      BY <2>4, <3>2
  <2>6. ASSUME NEW x \in U, x.id = c PROVE FALSE
    <3>1. PICK q \in Renumbered(v, drop) : \E k \in DOMAIN ListOf(v, drop, q) : x = Sent(v, drop, q, k)
      BY <2>6, ReorderIs
    <3>2. PICK k \in DOMAIN ListOf(v, drop, q) : x = Sent(v, drop, q, k)
      BY <3>1
    <3>3. ListOf(v, drop, q)[k] = c
      BY <2>6, <3>2 DEF Sent
    <3>4. PICK m \in Nat : GoodList(v, drop, q, m, ListOf(v, drop, q))
      BY ListIs
    <3>5. c \in Members(v, drop, q)
      <4>. HIDE DEF c
      <4>. QED
        BY <3>2, <3>3, <3>4 DEF GoodList
    <3>6. q = p
      <4>. HIDE DEF c
      <4>. QED
        BY <1>2, <3>5, OneList
    <3>7. k \in 1..n /\ list[k] = list[i]
      BY <1>1, <3>2, <3>3, <3>6
    <3>8. k = i
      BY <1>1, <3>7
    <3>. QED
      BY <1>4, <2>6, <3>2, <3>6, <3>8
  <2>7. w[c] = v[c]
    <3>1. c \in DOMAIN v
      BY <2>2, PageTreeIs DEF Level
    <3>. QED
      BY <2>6, <3>1 DEF Rewritten
  <2>. QED
    BY <2>5, <2>7
<1>. QED
  BY <1>3, <1>4

\* Two rows of a tree come one before the other.
LEMMA AboveOnce ==
  ASSUME NEW v \in PageTrees, NEW c \in DOMAIN v, NEW e \in DOMAIN v, Above(v, c, e)
  PROVE  ~Above(v, e, c)
PROOF
<1>1. v[c].sortOrder \in Int /\ v[e].sortOrder \in Int /\ c \in Nat /\ e \in Nat
  BY PageTreeIs
<1>. QED
  BY <1>1 DEF Above

\* Every list that was renumbered is read back as it was sent.
LEMMA ListAfter ==
  ASSUME NEW v \in PageTrees, NEW w \in PageTrees, NEW drop \in Drops(v), Rewritten(v, w, drop), Compact(v),
         NEW p \in Renumbered(v, drop), NEW n \in Nat, GoodList(v, drop, p, n, ListOf(v, drop, p))
  PROVE  /\ Children(w, p) = ListOf(v, drop, p)
         /\ Ordered(w, Level(w, p) \ {drop.id}) = Ordered(v, Level(v, p) \ {drop.id})
PROOF
<1>. DEFINE list == ListOf(v, drop, p)
            S == Level(w, p)
            R == Level(v, p) \ {drop.id}
            left == Ordered(v, R)
<1>1. S = Members(v, drop, p) /\ S \ {drop.id} = R /\ S \subseteq DOMAIN v
  BY LevelAfter
<1>2. /\ list \in [1..n -> S] /\ \A c \in S : \E i \in 1..n : list[i] = c
      /\ \A i, j \in 1..n : i < j /\ list[i] # drop.id /\ list[j] # drop.id => Above(v, list[i], list[j])
  BY <1>1 DEF GoodList
<1>3. \A i \in 1..n : w[list[i]].sortOrder = i - 1
  BY Numbered
<1>4. DOMAIN w = DOMAIN v
  BY DEF Rewritten
<1>5. /\ S \in SUBSET Nat /\ IsFiniteSet(S) /\ \A c \in S : w[c].sortOrder \in Int
      /\ R \in SUBSET DOMAIN v
  <2>1. DOMAIN w \subseteq Nat /\ IsFiniteSet(DOMAIN w) /\ \A c \in DOMAIN w : w[c].sortOrder \in Int
    BY PageTreeIs
  <2>2. IsFiniteSet(S)
    BY <1>1, <1>4, <2>1, FS_Subset
  <2>. QED
    BY <1>1, <1>4, <2>1, <2>2
<1>6. \A i, j \in 1..n : i < j => Above(w, list[i], list[j])
  <2>. HIDE DEF list
  <2>. QED
    BY <1>3 DEF Above
<1>7. Children(w, p) = list
  <2>1. Ordered(w, S) = list
    <3>. HIDE DEF S, list
    <3>. QED
      BY <1>2, <1>5, <1>6, SortedIsOrdered
  <2>. QED
    BY <2>1 DEF Children
<1>8. ASSUME NEW c \in R, NEW e \in R, Above(v, c, e) PROVE Above(w, c, e)
  <2>. HIDE DEF S, R, list
  <2>1. c \in S /\ e \in S /\ c # drop.id /\ e # drop.id
    BY <1>1, <1>8
  <2>2. PICK i \in 1..n : list[i] = c
    BY <1>2, <2>1
  <2>3. PICK j \in 1..n : list[j] = e
    BY <1>2, <2>1
  <2>4. ~Above(v, e, c)
    BY <1>1, <1>8, <2>1, AboveOnce
  <2>5. i # j
    BY <1>8, <2>2, <2>3, <2>4
  <2>6. ~(j < i)
    BY <1>2, <2>1, <2>2, <2>3, <2>4
  <2>7. i < j
    BY <2>5, <2>6
  <2>. QED
    BY <1>6, <2>2, <2>3, <2>7
<1>9. Ordered(w, R) = left
  <2>1. R \in SUBSET DOMAIN w
    BY <1>4, <1>5
  <2>. HIDE DEF R
  <2>. QED
    BY <1>5, <1>8, <2>1, SameOrder
<1>. QED
  BY <1>1, <1>7, <1>9

\* A list that the drop does not touch, below the dragged row, stays as it is.
LEMMA ListBelow ==
  ASSUME NEW v \in PageTrees, NEW w \in PageTrees, NEW drop \in Drops(v), Rewritten(v, w, drop),
         NEW p \in flatten(v), p \notin Renumbered(v, drop)
  PROVE  /\ drop.id \notin Level(v, p) /\ Level(w, p) = Level(v, p)
         /\ \A c \in Level(v, p) : w[c] = v[c]
         /\ Ordered(w, Level(v, p)) = Ordered(v, Level(v, p))
PROOF
<1>. DEFINE S == Level(v, p)
            list == Ordered(v, S)
<1>0. IsFiniteSet(DOMAIN v) /\ Root \notin DOMAIN v /\ flatten(v) \subseteq DOMAIN v
  BY PageTreeIs
<1>1. drop.id \in Path(v, p) /\ p # Root /\ p # Into(v, drop) /\ drop.id \in flatten(v)
  BY DropIs DEF Renumbered, isDescendant
<1>2. drop.id \notin S
  <2>1. ASSUME drop.id \in S PROVE FALSE
    <3>1. buildTree(v)[drop.id] = p
      BY <2>1 DEF Level
    <3>. QED
      BY <1>0, <1>1, <3>1, NotBelowItself
  <2>. QED
    BY <2>1
<1>3. Level(w, p) = S
  <2>1. Level(w, p) = Members(v, drop, p)
    BY LevelAfter
  <2>. QED
    BY <1>1, <1>2, <2>1 DEF Members, Others
<1>4. S \subseteq DOMAIN v
  BY <1>0 DEF Level
<1>5. ASSUME NEW c \in S PROVE w[c] = v[c]
  <2>1. ASSUME NEW x \in computeReorder(v, drop), x.id = c PROVE FALSE
    <3>1. PICK q \in Renumbered(v, drop) : \E k \in DOMAIN ListOf(v, drop, q) : x = Sent(v, drop, q, k)
      BY ReorderIs
    <3>2. PICK k \in DOMAIN ListOf(v, drop, q) : x = Sent(v, drop, q, k)
      BY <3>1
    <3>3. ListOf(v, drop, q)[k] = c
      BY <2>1, <3>2 DEF Sent
    <3>4. PICK n \in Nat : GoodList(v, drop, q, n, ListOf(v, drop, q))
      BY ListIs
    <3>5. c \in Members(v, drop, q)
      BY <3>2, <3>3, <3>4 DEF GoodList
    <3>6. c \in Members(v, drop, p)
      BY <1>2 DEF Members, Others
    <3>7. q = p
      BY <3>5, <3>6, OneList
    <3>. QED
      BY <3>7
  <2>. QED
    BY <1>4, <2>1 DEF Rewritten
<1>6. Ordered(w, S) = list
  <2>1. S \in SUBSET DOMAIN v /\ S \in SUBSET DOMAIN w
    BY <1>4 DEF Rewritten
  <2>2. ASSUME NEW c \in S, NEW e \in S, Above(v, c, e) PROVE Above(w, c, e)
    BY <1>5, <2>2 DEF Above
  <2>. HIDE DEF S
  <2>. QED
    BY <2>1, <2>2, SameOrder
<1>. QED
  BY <1>2, <1>3, <1>5, <1>6

\* On an up-to-date page with compact lists: the drop lands, and the lists are
\* compact again.
LEMMA DropLandsOn ==
  ASSUME NEW v \in PageTrees, NEW w \in PageTrees, NEW drop \in Drops(v), Rewritten(v, w, drop), Compact(v)
  PROVE  Landed(drop, v, w) /\ Compact(w)
PROOF
<1>. DEFINE p0 == Into(v, drop)
            d == drop.id
            list0 == ListOf(v, drop, p0)
<1>1. buildTree(w)[d] = p0 /\ flatten(w) = flatten(v) /\ p0 \in Renumbered(v, drop)
  BY ParentsAfter, DropIs
<1>2. ASSUME NEW p \in Renumbered(v, drop)
      PROVE  /\ Ordered(w, Level(w, p) \ {d}) = Ordered(v, Level(v, p) \ {d})
             /\ \A i \in DOMAIN Children(w, p) : w[Children(w, p)[i]].sortOrder = i - 1
  <2>1. PICK n \in Nat : GoodList(v, drop, p, n, ListOf(v, drop, p))
    BY ListIs
  <2>2. /\ Children(w, p) = ListOf(v, drop, p)
        /\ Ordered(w, Level(w, p) \ {d}) = Ordered(v, Level(v, p) \ {d})
    BY <2>1, ListAfter
  <2>3. \A i \in 1..n : w[ListOf(v, drop, p)[i]].sortOrder = i - 1
    BY <2>1, Numbered
  <2>4. DOMAIN ListOf(v, drop, p) = 1..n
    BY <2>1 DEF GoodList
  <2>. QED
    BY <2>2, <2>3, <2>4
<1>3. ASSUME NEW p \in flatten(v), p \notin Renumbered(v, drop)
      PROVE  /\ Ordered(w, Level(w, p) \ {d}) = Ordered(v, Level(v, p) \ {d})
             /\ \A i \in DOMAIN Children(w, p) : w[Children(w, p)[i]].sortOrder = i - 1
  <2>1. /\ d \notin Level(v, p) /\ Level(w, p) = Level(v, p)
        /\ \A c \in Level(v, p) : w[c] = v[c]
        /\ Ordered(w, Level(v, p)) = Ordered(v, Level(v, p))
    BY <1>3, ListBelow
  <2>2. Children(w, p) = Children(v, p)
    BY <2>1 DEF Children
  <2>3. Level(w, p) \ {d} = Level(v, p) /\ Level(v, p) \ {d} = Level(v, p)
    BY <2>1
  <2>4. ASSUME NEW i \in DOMAIN Children(v, p) PROVE w[Children(v, p)[i]].sortOrder = i - 1
    <3>1. Children(v, p)[i] \in Level(v, p)
      <4>1. Level(v, p) \in SUBSET DOMAIN v
        BY PageTreeIs DEF Level
      <4>2. SortedList(v, Level(v, p), Children(v, p))
        BY <4>1, PageListIs DEF Children
      <4>. QED
        BY <2>4, <4>2 DEF SortedList
    <3>2. v[Children(v, p)[i]].sortOrder = i - 1
      BY DEF Compact
    <3>. QED
      BY <2>1, <3>1, <3>2
  <2>. QED
    BY <2>1, <2>2, <2>3, <2>4
<1>4. Compact(w)
  <2>1. ASSUME NEW p \in flatten(w) \union {Root}, NEW i \in DOMAIN Children(w, p)
        PROVE  w[Children(w, p)[i]].sortOrder = i - 1
    <3>1. p \in Renumbered(v, drop) \/ (p \in flatten(v) /\ p \notin Renumbered(v, drop))
      BY <1>1 DEF Renumbered
    <3>. QED
      BY <1>2, <1>3, <2>1, <3>1
  <2>. QED
    BY <2>1 DEF Compact
<1>5. ASSUME NEW q \in flatten(v) \union {Root}
      PROVE  Ordered(w, Level(w, q) \ {d}) = Ordered(v, Level(v, q) \ {d})
  <2>1. q \in Renumbered(v, drop) \/ (q \in flatten(v) /\ q \notin Renumbered(v, drop))
    BY DEF Renumbered
  <2>. QED
    BY <1>2, <1>3, <2>1
<1>6. PICK n \in Nat : GoodList(v, drop, p0, n, list0) /\ Dropped(drop, n, list0)
  <2>. HIDE DEF p0
  <2>. QED
    BY <1>1, ListIs DEF p0
<1>7. Children(w, p0) = list0
  <2>. HIDE DEF p0
  <2>. QED
    BY <1>1, <1>6, ListAfter
<1>. HIDE DEF list0, p0
<1>8. /\ list0 \in [1..n -> Members(v, drop, p0)] /\ Len(list0) = n
      /\ \A i, j \in 1..n : list0[i] = list0[j] => i = j
  BY <1>6 DEF GoodList
<1>9. PICK to \in 1..n : /\ list0[to] = d
                         /\ drop.zone = "into" => to = n
                         /\ drop.zone = "before" => to < n /\ list0[to + 1] = drop.target
                         /\ drop.zone = "after" => to > 1 /\ list0[to - 1] = drop.target
  BY <1>6 DEF Dropped
<1>10. Place(list0, d) = to
  <2>1. list0 \in Seq(Members(v, drop, p0)) /\ \E i \in 1..Len(list0) : list0[i] = d
    BY <1>8, <1>9
  <2>2. Place(list0, d) \in 1..Len(list0) /\ list0[Place(list0, d)] = d
    BY <2>1, PlaceFinds
  <2>. QED
    BY <1>8, <1>9, <2>2
<1>11. drop.zone \in {"before", "into", "after"}
  BY DropIs
<1>12. Landed(drop, v, w)
  <2>1. p0 = (IF drop.zone = "into" THEN drop.target ELSE buildTree(v)[drop.target])
    BY DEF p0, Into
  <2>2. /\ drop.zone = "into" => Place(list0, d) = Len(list0)
        /\ drop.zone = "before" => Place(list0, d) < Len(list0) /\ list0[Place(list0, d) + 1] = drop.target
        /\ drop.zone = "after" => Place(list0, d) > 1 /\ list0[Place(list0, d) - 1] = drop.target
    BY <1>8, <1>9, <1>10
  <2>. QED
    BY <1>1, <1>5, <1>7, <1>11, <2>1, <2>2 DEF Landed
<1>. QED
  BY <1>4, <1>12

\* A step that answers a drop is its reorder, which writes what the drop sent.
LEMMA DropLandsStep ==
  ASSUME TreeTypes, CategoriesNext, NEW a \in Admins, Reordered(a), Compact(getTree)
  PROVE  Landed(ask[a].drop, getTree, getTree') /\ Compact(getTree')
PROOF
<1>. DEFINE v == view[a]
            drop == ask[a].drop
            U == computeReorder(v, drop)
<1>0. /\ row \in CategoryRows
      /\ \A b \in Admins : view[b] \in PageTrees /\ FromPage(view[b], ask[b])
  BY DEF TreeTypes
<1>1. ask[a].kind = "reorder" /\ ask'[a] = Idle /\ view[a] = getTree /\ ask[a] # Idle
  BY DEF Reordered, Idle
<1>2. drop \in Drops(v) /\ ask[a].updates = U
  BY <1>0, <1>1, PageReorderIs
<1>3. reorder(a)
  <2>0. ask = [b \in Admins |-> ask[b]]
    BY DEF TreeTypes
  <2>1. ASSUME NEW b \in Admins, NEW r, Ask(b, r) PROVE FALSE
    <3>1. ask[b] = Idle /\ ask' = [ask EXCEPT ![b] = r]
      BY <2>1 DEF Ask
    <3>2. b # a
      BY <1>1, <3>1
    <3>. QED
      BY <1>1, <2>0, <3>1, <3>2
  <2>2. \A b \in Admins : ~handleDragEnd(b) /\ ~CreateSheet(b) /\ ~EditSheet(b) /\ ~DeleteButton(b)
    BY <2>1 DEF handleDragEnd, CreateSheet, EditSheet, DeleteButton
  <2>3. \A b \in Admins : ~Refresh(b)
    BY <1>1 DEF Refresh
  <2>4. ASSUME NEW b \in Admins, Check(b) PROVE FALSE
    <3>1. ask[b].kind \in {"create", "update", "delete"}
      BY <2>4 DEF Check
    <3>2. b # a
      BY <1>1, <3>1
    <3>3. ask'[a] = ask[a]
      BY <2>0, <2>4, <3>2 DEF Check
    <3>. QED
      BY <1>1, <3>3
  <2>5. ASSUME NEW b \in Admins, create(b) \/ updateCategory(b) \/ softDelete(b) PROVE FALSE
    <3>1. ask[b].kind \in {"create", "update", "delete"} /\ Answered(b)
      BY <2>5 DEF create, updateCategory, softDelete
    <3>2. b # a
      BY <1>1, <3>1
    <3>3. ask'[a] = ask[a]
      BY <2>0, <3>1, <3>2 DEF Answered
    <3>. QED
      BY <1>1, <3>3
  <2>6. PICK b \in Admins : reorder(b)
    BY <2>2, <2>3, <2>4, <2>5 DEF CategoriesNext
  <2>7. b = a
    <3>1. CASE b # a
      <4>1. ask'[a] = ask[a]
        BY <2>0, <2>6, <3>1 DEF reorder, Answered
      <4>. QED
        BY <1>1, <4>1
    <3>. QED
      BY <3>1
  <2>. QED
    BY <2>6, <2>7
<1>4. /\ ~\E u \in U : u.parentId = u.id
      /\ Written(U) \in CategoryRows
      /\ \A c \in Cats : Written(U)[c].state = row[c].state
      /\ \A u \in U : /\ Written(U)[u.id].parentId = u.parentId
                      /\ Written(U)[u.id].sortOrder = u.sortOrder
      /\ \A c \in Cats : (\A u \in U : u.id # c) => Written(U)[c] = row[c]
  BY <1>0, <1>2, ReorderRows
<1>5. row' = Written(U)
  <2>. HIDE DEF U
  <2>. QED
    BY <1>2, <1>3, <1>4 DEF reorder
<1>. DEFINE after == Written(U)
            w == TreeOf(after)
<1>6. /\ w \in PageTrees /\ DOMAIN w = Live(after) /\ v \in PageTrees /\ DOMAIN v = Live(row)
      /\ Live(row) \subseteq Cats
      /\ \A c \in Live(after) : w[c].parentId = after[c].parentId /\ w[c].sortOrder = after[c].sortOrder
      /\ \A c \in Live(row) : v[c].parentId = row[c].parentId /\ v[c].sortOrder = row[c].sortOrder
      /\ v = TreeOf(row)
  BY <1>0, <1>1, <1>4, TreeOfIs DEF getTree
<1>7. Live(after) = Live(row)
  BY <1>4 DEF Live
<1>8. Rewritten(v, w, drop)
  <2>1. ASSUME NEW u \in U PROVE w[u.id].parentId = u.parentId /\ w[u.id].sortOrder = u.sortOrder
    <3>1. u.id \in flatten(v) /\ flatten(v) \subseteq DOMAIN v
      BY <1>2, <1>6, SentIs, PageTreeIs
    <3>. HIDE DEF U, v, w, drop
    <3>. QED
      BY <1>4, <1>6, <1>7, <3>1
  <2>2. ASSUME NEW c \in DOMAIN v, \A u \in U : u.id # c PROVE w[c] = v[c]
    <3>1. c \in Live(row) /\ c \in Live(after) /\ after[c] = row[c]
      BY <1>4, <1>6, <1>7, <2>2
    <3>2. w[c] = [parentId |-> after[c].parentId, sortOrder |-> after[c].sortOrder]
      BY <3>1 DEF TreeOf
    <3>3. v[c] = [parentId |-> row[c].parentId, sortOrder |-> row[c].sortOrder]
      BY <1>6, <3>1 DEF TreeOf
    <3>. QED
      BY <3>1, <3>2, <3>3
  <2>. QED
    BY <1>6, <1>7, <2>1, <2>2 DEF Rewritten
<1>9. getTree = v /\ getTree' = w
  BY <1>1, <1>5 DEF getTree
<1>10. Landed(drop, v, w) /\ Compact(w)
  <2>. HIDE DEF v, w, drop
  <2>1. Compact(v)
    BY <1>9
  <2>. QED
    BY <1>2, <1>6, <1>8, <2>1, DropLandsOn
<1>. HIDE DEF v, w
<1>. QED
  BY <1>9, <1>10

\* However many admins drag, edit, create and delete, from any rows: a drop on
\* a page that shows the rows as they are, in lists numbered without gaps, puts
\* the category where it was dropped, leaves all others in their order and the
\* lists without gaps.
THEOREM DropsLand ==
  ASSUME NEW rows \in CategoryRows
  PROVE  CategoriesSpec(rows) => DropLands
PROOF
<1>1. CategoriesInit(rows) => TreeTypes
  BY TreeInvInit
<1>2. TreeTypes /\ [CategoriesNext]_treeVars => TreeTypes'
  BY TreeTypesStep
<1>3. TreeTypes /\ [CategoriesNext]_treeVars
        => [\A a \in Admins : Reordered(a) /\ Compact(getTree)
              => Landed(ask[a].drop, getTree, getTree') /\ Compact(getTree')]_treeVars
  BY DropLandsStep
<1>. QED
  BY <1>1, <1>2, <1>3, PTL DEF CategoriesSpec, DropLands
=============================================================================

------------------------------- MODULE Reviews -------------------------------
(***************************************************************************)
(* Reviews of one product: customers post them from the links of their     *)
(* order, admins approve and reject them, and the product page reads the   *)
(* approved ones through a cache that moderation empties and time expires. *)
(***************************************************************************)
EXTENDS Naturals, FiniteSets

CONSTANTS Items, Nil,   \* order items a review may be written for
          Readers, Moderators, Customers,
          MaxModerated   \* bound: decisions of the moderators

ASSUME ReviewsAssumption ==
    Nil \notin Items \union {"pending", "approved", "rejected"} /\ MaxModerated \in Nat

VARIABLES review,   \* status of each item's review, Nil when there is none
          cache,    \* the aggregate: which reviews it counts, whether it expired
          fill,     \* what each reader read from the table and has not cached yet
          decision, \* what each moderator's request has written but not invalidated
          shown,     \* the reviews each moderator's page shows, with their status
          post,     \* what each customer's request found before it writes
          moderated

reviewVars == <<review, cache, fill, decision, shown, post, moderated>>

Approved == {i \in Items : review[i] = "approved"}

ReviewsInit ==
    /\ review \in [Items -> {Nil, "pending", "approved"}]
    /\ cache = Nil
    /\ fill = [r \in Readers |-> Nil]
    /\ decision = [m \in Moderators |-> Nil]
    /\ shown = [m \in Moderators |-> review]
    /\ post = [c \in Customers |-> Nil]
    /\ moderated = 0

-----------------------------------------------------------------------------
(* The product page and the listings *)

\* Mutant: an entry is good for ever.
Kept(entry) == entry # Nil

Fresh(entry) == entry # Nil /\ ~entry.expired

\* a reader that finds no fresh entry counts the approved rows...
getAggregate(r) ==
    /\ ~Fresh(cache) /\ fill[r] = Nil
    /\ fill' = [fill EXCEPT ![r] = [counts |-> Approved, overtaken |-> FALSE]]
    /\ UNCHANGED <<review, cache, decision, shown, post, moderated>>

\* ... and stores what it counted, whatever happened meanwhile
Store(r) ==
    /\ fill[r] # Nil
    /\ cache' = [counts |-> fill[r].counts, overtaken |-> fill[r].overtaken, expired |-> FALSE]
    /\ fill' = [fill EXCEPT ![r] = Nil]
    /\ UNCHANGED <<review, decision, shown, post, moderated>>

Expire ==
    /\ cache # Nil /\ ~cache.expired
    /\ cache' = [cache EXCEPT !.expired = TRUE]
    /\ UNCHANGED <<review, fill, decision, shown, post, moderated>>

invalidateAggregate == cache' = Nil

\* a write of the table overtakes every count that was read before it
Overtake == fill' = [r \in Readers |-> IF fill[r] = Nil THEN Nil ELSE [fill[r] EXCEPT !.overtaken = TRUE]]

-----------------------------------------------------------------------------
(* Customers *)

\* the form posts once at a time; a second tab has a form of its own
submitReview(c) == \E i \in Items :
    /\ post[c] = Nil /\ review[i] = Nil
    /\ post' = [post EXCEPT ![c] = i]
    /\ UNCHANGED <<review, cache, fill, decision, shown, moderated>>

\* orderItemId is unique: the later of two posts fails and changes nothing
createReview(c) ==
    /\ post[c] # Nil
    /\ post' = [post EXCEPT ![c] = Nil]
    /\ IF review[post[c]] = Nil
       THEN review' = [review EXCEPT ![post[c]] = "pending"] /\ invalidateAggregate
       ELSE UNCHANGED <<review, cache>>
    /\ UNCHANGED <<fill, decision, shown, moderated>>

-----------------------------------------------------------------------------
(* Moderators: the page offers what the rows it shows are not *)

Decide(m, i, status) ==
    /\ decision[m] = Nil /\ moderated < MaxModerated
    /\ shown[m][i] \notin {Nil, status}
    /\ review' = [review EXCEPT ![i] = status]
    /\ shown' = [shown EXCEPT ![m][i] = Nil]
    /\ decision' = [decision EXCEPT ![m] = i]
    /\ moderated' = moderated + 1
    /\ Overtake
    /\ UNCHANGED <<cache, post>>

approve(m) == \E i \in Items : Decide(m, i, "approved")
reject(m) == \E i \in Items : Decide(m, i, "rejected")

\* Mutant: the cache is left alone.
Forgotten == UNCHANGED cache

\* the request goes on after its write; the page is rendered anew
Forget == invalidateAggregate

Settle(m) ==
    /\ decision[m] # Nil
    /\ Forget
    /\ decision' = [decision EXCEPT ![m] = Nil]
    /\ shown' = [shown EXCEPT ![m] = review]
    /\ UNCHANGED <<review, fill, post, moderated>>

OpenList(m) ==
    /\ decision[m] = Nil /\ shown[m] # review
    /\ shown' = [shown EXCEPT ![m] = review]
    /\ UNCHANGED <<review, cache, fill, decision, post, moderated>>

ReviewsNext == \/ \E r \in Readers : getAggregate(r) \/ Store(r)
               \/ \E c \in Customers : submitReview(c) \/ createReview(c)
               \/ \E m \in Moderators : approve(m) \/ reject(m) \/ Settle(m) \/ OpenList(m)
               \/ Expire

ReviewsSpec == ReviewsInit /\ [][ReviewsNext]_reviewVars

-----------------------------------------------------------------------------

Served == IF Fresh(cache) THEN cache.counts ELSE Approved
Stale == Served # Approved

\* What the cache serves are the approved reviews, except while a moderator's
\* request is between its write and the invalidation, and except for a count
\* that was read before a moderation and stored after it.
CountsExact == Fresh(cache) /\ ~cache.overtaken /\ (\A m \in Moderators : decision[m] = Nil)
                   => cache.counts = Approved

\* Such a count is not served for ever: it expires, or the next moderation
\* drops it.
StaleEnds == Stale ~> ~Stale
=============================================================================

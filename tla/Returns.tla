------------------------------ MODULE Returns -------------------------------
(***************************************************************************)
(* The return requests of one delivered order: the customer files them and *)
(* may call them off, staff approve, receive, verify and complete them,    *)
(* and the units an exchange or a replacement will need are held on their  *)
(* variant in ProductVariant.reservedForExchange meanwhile.                *)
(*                                                                         *)
(* Every handler reads the request and checks its state without a lock and *)
(* later writes it by id in a transaction that does not look again, so a   *)
(* call is several steps and others may commit between them.  What a       *)
(* transaction reads for itself (the reservation check of createRequest)   *)
(* it reads from rows its own update has locked: that is one step.         *)
(***************************************************************************)
EXTENDS Integers, FiniteSets, Functions

CONSTANTS
  Lines,       \* OrderItem rows of the order
  Variants,    \* variants of the product they belong to
  VariantOf,   \* variant of each line
  Ordered,     \* quantity of each line
  Price,       \* unit price of each line
  Total,       \* Order.totalPaisa: lines, shipping and discounts
  Shelf,       \* stockCount of each variant once the order is delivered
  Forms,       \* the contents customers may put in a request
  MaxReturns,  \* bound: requests ever filed
  Workers,     \* calls the API has in progress at the same time
  Faults       \* BOOLEAN: a call may fail, or its process stop, midway

Actions == {"return", "exchange", "replacement"}

ASSUME OrderAssumption ==
  /\ IsFiniteSet(Lines)
  /\ VariantOf \in [Lines -> Variants]
  /\ Ordered \in [Lines -> Nat \ {0}]
  /\ Price \in [Lines -> Nat]
  /\ Shelf \in [Variants -> Nat]
  /\ Total \in Nat

\* createReturnRequestSchema: at least one line, each line once.  The variant
\* of "exchange" matters to exchange lines only.
ASSUME FormsAssumption ==
  \A form \in Forms :
    /\ DOMAIN form \in (SUBSET Lines) \ {{}}
    /\ \A l \in DOMAIN form :
         form[l] \in [action : Actions, quantity : Nat \ {0}, exchange : Variants]

ASSUME LimitsAssumption == MaxReturns \in Nat /\ Faults \in BOOLEAN

Numbers == 1..MaxReturns

VARIABLES
  filed,      \* requests filed so far; they are numbered 1..filed
  state,      \* ReturnRequest.state, "none" while there is no row
  method,     \* ReturnRequest.method
  content,    \* the ReturnLineItem rows: action, quantity, exchangeVariantId
  held,       \* lines whose exchangeReservedUntil is set
  stamps,     \* approvedAt, receivedAt, verifiedAt, completedAt that are set
  refunded,   \* requests whose refundRequestId is set
  stock,      \* ProductVariant.stockCount
  reserved,   \* ProductVariant.reservedForExchange
  restocked,  \* total of the variant's "return_restock" InventoryEvents
  doing,      \* what each call in progress has read and is about to do
  stale,      \* history: calls whose request another call wrote since they read
  overtaken   \* history: requests written by a stale call

request == <<filed, method, content>>
progress == <<state, stamps, held>>
shelf == <<stock, reserved, restocked>>
history == <<stale, overtaken>>
vars == <<request, progress, shelf, refunded, doing, history>>

-----------------------------------------------------------------------------
(* return-state-machine.ts                                                 *)

Closed == {"completed", "rejected", "cancelled"}
States == {"requested", "approved", "pickup_scheduled",
           "store_dropoff_pending", "in_transit", "received", "verified"}
          \cup Closed

Cancellable == {"requested", "approved", "pickup_scheduled",
                "store_dropoff_pending", "in_transit", "received"}

Forward ==
  {<<"requested", "approved">>, <<"requested", "rejected">>,
   <<"approved", "pickup_scheduled">>, <<"approved", "store_dropoff_pending">>,
   <<"pickup_scheduled", "in_transit">>, <<"store_dropoff_pending", "received">>,
   <<"in_transit", "received">>, <<"received", "verified">>,
   <<"verified", "completed">>}

\* Mutant: a cancelled request may be approved after all.
NEXTReopens ==
  Forward \cup (Cancellable \X {"cancelled"}) \cup {<<"cancelled", "approved">>}

\* NEXT, the table of allowed transitions.
NEXT == Forward \cup (Cancellable \X {"cancelled"})

canTransition(from, to) == <<from, to>> \in NEXT

CUSTOMER_CANCEL_ALLOWED ==
  {"requested", "approved", "pickup_scheduled", "store_dropoff_pending"}

\* Mutant: a courier return without a date waits at the store.
PostApprovalIgnoresMethod(way, hasPickupSchedule) ==
  IF hasPickupSchedule THEN "pickup_scheduled" ELSE "store_dropoff_pending"

postApprovalState(way, hasPickupSchedule) ==
  CASE way = "store_dropoff" -> "store_dropoff_pending"
    [] way # "store_dropoff" /\ hasPickupSchedule -> "pickup_scheduled"
    [] OTHER -> "approved"

-----------------------------------------------------------------------------

Open(r) == state[r] \notin Closed \cup {"none"}

Units(form, chosen) == SumFunction([l \in chosen |-> form[l].quantity])

\* Units of the line that are bound to requests not rejected or cancelled.
Bound(l) ==
  SumFunction([r \in {q \in Numbers : /\ state[q] \notin {"none", "rejected", "cancelled"}
                                       /\ l \in DOMAIN content[q]} |-> content[r][l].quantity])

\* Mutant: createRequest reserves for exchanges only.
ReservingExchanges(form) == {l \in DOMAIN form : form[l].action = "exchange"}

\* The lines that need a reservation.
Reserving(form) == {l \in DOMAIN form : form[l].action # "return"}

\* reservationTarget of a reserving line.
Target(form, l) ==
  IF form[l].action = "exchange" THEN form[l].exchange ELSE VariantOf[l]

\* Units of v that filing a request with this form reserves.
Claimed(form, v) == Units(form, {l \in Reserving(form) : Target(form, l) = v})

\* Mutant: a release forgets the replacements.
ReleasedExchanges(form, chosen, v) ==
  Units(form, {l \in chosen : form[l].action = "exchange" /\ form[l].exchange = v})

\* Units of v that releasing these lines gives back.
Released(form, chosen, v) == Units(form, {l \in chosen : Target(form, l) = v})

RefundAmount(form) ==
  SumFunction([l \in {k \in DOMAIN form : form[k].action = "return"} |->
                 Price[l] * form[l].quantity])

-----------------------------------------------------------------------------

Idle == [op |-> "idle"]
File(way, form) == [op |-> "file", method |-> way, form |-> form]
SelfCancel(r) == [op |-> "selfCancel", return |-> r]
End(r, target, by) ==
  [op |-> "end", return |-> r, target |-> target, by |-> by]
Release(r, target, by, lines) ==
  [op |-> "release", return |-> r, target |-> target, by |-> by, lines |-> lines]
Move(r, target, stamp) ==
  [op |-> "move", return |-> r, target |-> target, stamp |-> stamp]
Verify(r, put) == [op |-> "verify", return |-> r, restock |-> put]
Complete(r) == [op |-> "complete", return |-> r]
Refund(r) == [op |-> "refund", return |-> r]
InsertRefund(r) == [op |-> "insertRefund", return |-> r]

Ends == {"rejected", "cancelled"}
Actors == {"customer", "staff"}
Methods == {"courier_pickup", "store_dropoff"}

Calls ==
  {Idle}
  \cup {File(way, form) : way \in Methods, form \in Forms}
  \cup {SelfCancel(r) : r \in Numbers} \cup {Complete(r) : r \in Numbers}
  \cup {Refund(r) : r \in Numbers} \cup {InsertRefund(r) : r \in Numbers}
  \cup {End(r, target, by) : r \in Numbers, target \in Ends, by \in Actors}
  \cup {Release(r, target, by, lines) :
          r \in Numbers, target \in Ends, by \in Actors, lines \in SUBSET Lines}
  \cup {Move(r, "received", "receivedAt") : r \in Numbers}
  \cup {Move(r, target, "approvedAt") : r \in Numbers,
          target \in {"approved", "pickup_scheduled", "store_dropoff_pending"}}
  \cup {Verify(r, put) : r \in Numbers, put \in SUBSET Lines}

Init ==
  /\ filed = 0
  /\ state = [r \in Numbers |-> "none"]
  /\ method = [r \in Numbers |-> "none"]
  /\ content = [r \in Numbers |-> <<>>]
  /\ held = [r \in Numbers |-> {}]
  /\ stamps = [r \in Numbers |-> {}]
  /\ refunded = {}
  /\ stock = Shelf
  /\ reserved = [v \in Variants |-> 0]
  /\ restocked = [v \in Variants |-> 0]
  /\ doing = [w \in Workers |-> Idle]
  /\ stale = {}
  /\ overtaken = {}

Begin(w, call) ==
  /\ doing[w] = Idle
  /\ doing' = [doing EXCEPT ![w] = call]
  /\ UNCHANGED <<request, progress, shelf, refunded, history>>

\* w commits a write of r and goes on to "call": the calls "others" have now
\* read a request that is no longer so, and if w had, r is overtaken.
Commit(w, r, call, others) ==
  /\ doing' = [doing EXCEPT ![w] = call]
  /\ stale' = (stale \ {w}) \cup (others \ {w})
  /\ overtaken' = overtaken \cup (IF w \in stale THEN {r} ELSE {})

Filing == {w \in Workers : doing[w].op = "file"}
Handling(r) ==
  {w \in Workers : doing[w].op \notin {"idle", "file"} /\ doing[w].return = r}

-----------------------------------------------------------------------------
(* createRequest: the checks, then the transaction.                        *)

FileReads(w) ==
  \E way \in Methods, form \in Forms :
    /\ \A r \in Numbers : ~Open(r)
    /\ \A l \in DOMAIN form : form[l].quantity <= Ordered[l] - Bound(l)
    /\ Begin(w, File(way, form))

FileCommits(w) ==
  LET r == filed + 1
      form == doing[w].form
  IN  /\ doing[w].op = "file"
      /\ filed < MaxReturns
      /\ \A v \in {Target(form, l) : l \in Reserving(form)} :
           reserved[v] + Claimed(form, v) <= stock[v]
      /\ filed' = r
      /\ state' = [state EXCEPT ![r] = "requested"]
      /\ method' = [method EXCEPT ![r] = doing[w].method]
      /\ content' = [content EXCEPT ![r] = form]
      /\ held' = [held EXCEPT ![r] = Reserving(form)]
      /\ reserved' = [v \in Variants |-> reserved[v] + Claimed(form, v)]
      /\ Commit(w, r, Idle, Filing)
      /\ UNCHANGED <<stamps, stock, restocked, refunded>>

-----------------------------------------------------------------------------
(* customerCancel, reject and adminCancel, which meet in                   *)
(* applyTerminalRelease.                                                   *)

CancelReads(w, r) ==
  /\ state[r] \in CUSTOMER_CANCEL_ALLOWED
  /\ Begin(w, SelfCancel(r))

\* applyCancel reads the request again and asks the table.
ApplyCancelReads(w) ==
  LET r == doing[w].return
  IN  /\ doing[w].op = "selfCancel"
      /\ canTransition(state[r], "cancelled")
      /\ doing' = [doing EXCEPT ![w] = End(r, "cancelled", "customer")]
      /\ stale' = stale \ {w}
      /\ UNCHANGED <<request, progress, shelf, refunded, overtaken>>

EndReads(w, r, target) ==
  /\ canTransition(state[r], target)
  /\ Begin(w, End(r, target, "staff"))

\* applyTerminalRelease reads the lines, and does not look at the state.
ReleaseReads(w) ==
  LET call == doing[w]
  IN  /\ call.op = "end"
      /\ doing' = [doing EXCEPT ![w] =
                     Release(call.return, call.target, call.by, held[call.return])]
      /\ UNCHANGED <<request, progress, shelf, refunded, history>>

ReleaseCommits(w) ==
  LET r == doing[w].return
      lines == doing[w].lines
  IN  /\ doing[w].op = "release"
      /\ state' = [state EXCEPT ![r] = doing[w].target]
      /\ held' = [held EXCEPT ![r] = @ \ lines]
      /\ reserved' = [v \in Variants |->
                        reserved[v] - Released(content[r], lines, v)]
      /\ Commit(w, r, Idle, Handling(r))
      /\ UNCHANGED <<request, stamps, stock, restocked, refunded>>

-----------------------------------------------------------------------------
(* approve and markReceived                                                *)

ApproveReads(w, r) ==
  /\ canTransition(state[r], "approved")
  /\ \E hasSchedule \in BOOLEAN :
       Begin(w, Move(r, postApprovalState(method[r], hasSchedule), "approvedAt"))

ReceiveReads(w, r) ==
  /\ canTransition(state[r], "received")
  /\ Begin(w, Move(r, "received", "receivedAt"))

MoveCommits(w) ==
  LET r == doing[w].return
  IN  /\ doing[w].op = "move"
      /\ state' = [state EXCEPT ![r] = doing[w].target]
      /\ stamps' = [stamps EXCEPT ![r] = @ \cup {doing[w].stamp}]
      /\ Commit(w, r, Idle, Handling(r))
      /\ UNCHANGED <<request, held, shelf, refunded>>

-----------------------------------------------------------------------------
(* verify and markCompleted                                                *)

\* Staff decide on every line; a line not restocked is written off or left.
VerifyReads(w, r) ==
  /\ canTransition(state[r], "verified")
  /\ \E put \in SUBSET DOMAIN content[r] : Begin(w, Verify(r, put))

\* The call asks for the refund (triggerRefund).  One that does not ends with
\* its commit, as Fails has it.
VerifyCommits(w) ==
  LET r == doing[w].return
      Back(v) == Units(content[r], {l \in doing[w].restock : VariantOf[l] = v})
  IN  /\ doing[w].op = "verify"
      /\ state' = [state EXCEPT ![r] = "verified"]
      /\ stamps' = [stamps EXCEPT ![r] = @ \cup {"verifiedAt"}]
      /\ stock' = [v \in Variants |-> stock[v] + Back(v)]
      /\ restocked' = [v \in Variants |-> restocked[v] + Back(v)]
      /\ Commit(w, r, IF RefundAmount(content[r]) > 0 THEN Refund(r) ELSE Idle,
                Handling(r))
      /\ UNCHANGED <<request, held, reserved, refunded>>

\* refunds.create takes the amount of the whole order only, and one open
\* refund at a time.  OrderLifecycle has the refunds staff file by hand.
Refundable(r) == RefundAmount(content[r]) = Total /\ refunded = {}

RefundReads(w) ==
  /\ doing[w].op = "refund"
  /\ Refundable(doing[w].return)
  /\ doing' = [doing EXCEPT ![w] = InsertRefund(doing[w].return)]
  /\ UNCHANGED <<request, progress, shelf, refunded, history>>

RefundCommits(w) ==
  /\ doing[w].op = "insertRefund"
  /\ refunded' = refunded \cup {doing[w].return}
  /\ doing' = [doing EXCEPT ![w] = Idle]
  /\ stale' = stale \ {w}
  /\ UNCHANGED <<request, progress, shelf, overtaken>>

\* What refunds.create throws is logged and the verification stands.
RefundRefused(w) ==
  /\ doing[w].op = "refund"
  /\ ~Refundable(doing[w].return)
  /\ doing' = [doing EXCEPT ![w] = Idle]
  /\ stale' = stale \ {w}
  /\ UNCHANGED <<request, progress, shelf, refunded, overtaken>>

CompleteReads(w, r) ==
  /\ canTransition(state[r], "completed")
  /\ Begin(w, Complete(r))

\* Every exchange and replacement line is released, its stamp set or not.
CompleteCommits(w) ==
  LET r == doing[w].return
      lines == {l \in DOMAIN content[r] : content[r][l].action # "return"}
  IN  /\ doing[w].op = "complete"
      /\ state' = [state EXCEPT ![r] = "completed"]
      /\ stamps' = [stamps EXCEPT ![r] = @ \cup {"completedAt"}]
      /\ held' = [held EXCEPT ![r] = @ \ lines]
      /\ reserved' = [v \in Variants |->
                        reserved[v] - Released(content[r], lines, v)]
      /\ Commit(w, r, Idle, Handling(r))
      /\ UNCHANGED <<request, stock, restocked, refunded>>

-----------------------------------------------------------------------------

\* A later check of the call fails, its transaction rolls back, or its
\* process stops: what it committed stays.
Fails(w) ==
  /\ Faults
  /\ doing[w] # Idle
  /\ doing' = [doing EXCEPT ![w] = Idle]
  /\ stale' = stale \ {w}
  /\ UNCHANGED <<request, progress, shelf, refunded, overtaken>>

Customer(w) ==
  \/ FileReads(w) \/ FileCommits(w) \/ ApplyCancelReads(w)
  \/ \E r \in 1..filed : CancelReads(w, r)

Staff(w) ==
  \/ ReleaseReads(w) \/ ReleaseCommits(w) \/ MoveCommits(w)
  \/ VerifyCommits(w) \/ CompleteCommits(w)
  \/ RefundReads(w) \/ RefundCommits(w) \/ RefundRefused(w)
  \/ \E r \in 1..filed :
       \/ ApproveReads(w, r) \/ ReceiveReads(w, r)
       \/ VerifyReads(w, r) \/ CompleteReads(w, r)
       \/ \E target \in Ends : EndReads(w, r, target)

Next == \E w \in Workers : Customer(w) \/ Staff(w) \/ Fails(w)

Spec == Init /\ [][Next]_vars

-----------------------------------------------------------------------------
(* Properties                                                              *)

ControlTypeOK ==
  /\ filed \in 0..MaxReturns
  /\ state \in [Numbers -> States \cup {"none"}]
  /\ method \in [Numbers -> Methods \cup {"none"}]
  /\ content \in [Numbers -> Forms \cup {<<>>}]
  /\ held \in [Numbers -> SUBSET Lines]
  /\ stamps \in [Numbers ->
       SUBSET {"approvedAt", "receivedAt", "verifiedAt", "completedAt"}]
  /\ refunded \in SUBSET Numbers
  /\ doing \in [Workers -> Calls]
  /\ stale \in SUBSET Workers /\ overtaken \in SUBSET Numbers

\* Type invariant.
TypeOK ==
  /\ ControlTypeOK
  /\ stock \in [Variants -> Nat]
  /\ reserved \in [Variants -> Int]
  /\ restocked \in [Variants -> Nat]

\* Requests not filed yet are blank, and no call is about one.
Unfiled ==
  /\ \A r \in Numbers : r > filed => state[r] = "none" /\ stamps[r] = {}
  /\ \A w \in Workers :
       doing[w].op \notin {"idle", "file"} => doing[w].return \in 1..filed

\* The state a request is in has left its trace.
StateStamped(r) ==
  /\ state[r] = "verified" => "verifiedAt" \in stamps[r]
  /\ state[r] = "received" => "receivedAt" \in stamps[r]
  /\ state[r] = "store_dropoff_pending" =>
       "approvedAt" \in stamps[r] /\ method[r] = "store_dropoff"
  /\ state[r] # "in_transit"

\* What a call has read leaves its trace too, fresh or stale.
CallStamped(call) ==
  LET r == call.return
  IN  /\ call.op = "move" /\ call.target = "store_dropoff_pending" =>
           method[r] = "store_dropoff"
      /\ call.op = "move" /\ call.target = "received" =>
           "approvedAt" \in stamps[r] /\ method[r] = "store_dropoff"
      /\ call.op = "verify" => "receivedAt" \in stamps[r]
      /\ call.op = "complete" => "verifiedAt" \in stamps[r]

\* A call about to write whose read is up to date writes to no closed request.
FreshCalls ==
  \A w \in Workers \ stale :
    doing[w].op \in {"end", "release", "move", "verify", "complete"} =>
      state[doing[w].return] \notin Closed

\* Units of v that the stamped lines of a request hold.
Holds(r, v) == Released(content[r], held[r], v)
HeldUnits(v) == SumFunction([r \in 1..filed |-> Holds(r, v)])

\* Whatever calls race, nothing stays reserved for good: a unit counted in
\* reservedForExchange belongs to a line that is still stamped, and a closed
\* request has no stamped line.
NothingStaysReserved ==
  /\ \A v \in Variants : reserved[v] <= HeldUnits(v)
  /\ \A r \in Numbers : state[r] \in Closed => held[r] = {}

\* reservedForExchange is exactly what the stamped lines hold, unless a call
\* has written to a request on the strength of a read that was out of date.
ReservationsExact ==
  overtaken = {} => \A v \in Variants : reserved[v] = HeldUnits(v)

OrderedUnits(v) ==
  SumFunction([l \in {k \in Lines : VariantOf[k] = v} |-> Ordered[l]])

\* Returns put back no more units of a variant than the order bought, over
\* all the requests ever filed for it, unless a stale call wrote.
RestockWithinOrder ==
  overtaken = {} => \A v \in Variants : restocked[v] <= OrderedUnits(v)

\* An order has one request open at a time unless two were checked together.
OneOpenRequest ==
  overtaken = {} =>
    Cardinality({r \in Numbers : state[r] \notin Closed \cup {"none"}}) <= 1

StagesInOrder(r) ==
  /\ state[r] = "completed" => "completedAt" \in stamps[r]
  /\ "completedAt" \in stamps[r] => "verifiedAt" \in stamps[r]
  /\ "verifiedAt" \in stamps[r] => "receivedAt" \in stamps[r]
  /\ "receivedAt" \in stamps[r] =>
       "approvedAt" \in stamps[r] /\ method[r] = "store_dropoff"

\* No race lets a request skip a stage: a completed one was verified, a
\* verified one received and a received one approved; and since nothing moves
\* a courier return to in_transit, only store drop-offs are ever received.
NoStageSkipped == \A r \in Numbers : StagesInOrder(r)

\* The stages and the reads behind every call in progress: what a call is
\* about to write follows from what it read, which the stamps remember even
\* when the state has moved on, and only a stale call can meet a closed request.
StagesInv ==
  /\ Unfiled
  /\ \A r \in Numbers : StateStamped(r)
  /\ \A w \in Workers : CallStamped(doing[w])
  /\ FreshCalls
  /\ NoStageSkipped

\* A closed request stays as it was closed unless a stale call overwrites it.
ClosedStaysClosed ==
  [][\A r \in Numbers :
       state[r] \in Closed /\ r \notin overtaken' => state'[r] = state[r]]_vars

\* "Once admin marks it received, only admin can move it forward": the
\* customer's cancellation never takes effect on a request that is received.
OnlyAdminMovesReceived ==
  [][\A w \in Workers :
       LET call == doing[w]
       IN  /\ call.op = "release" /\ call.by = "customer"
           /\ state[call.return] \in {"received", "verified", "completed"}
           /\ doing'[w] # call
           => state'[call.return] = state[call.return]]_vars

\* "Verification of any 'return' line auto-creates one and stamps this": once
\* verify has ended, a request with a line to pay back has its refund.
VerifiedIsRefunded ==
  \A r \in {q \in Numbers : state[q] = "verified"} :
    RefundAmount(content[r]) > 0 =>
      r \in refunded \/ \E w \in Workers : doing[w] \in {Refund(r), InsertRefund(r)}
=============================================================================

--------------------------- MODULE OrderLifecycle ---------------------------
(***************************************************************************)
(* The life of one order after createOrder committed its row: the payment  *)
(* session and its webhook, the transitions and cancellations of staff and *)
(* customer, and the refund requests.                                      *)
(*                                                                         *)
(* Every handler here reads and checks first and then updates its rows by  *)
(* id, without repeating the check in the WHERE clause.  Under READ        *)
(* COMMITTED the read takes no lock, so a call is two steps: the reads,    *)
(* which leave in "doing" what the handler is about to write, and the      *)
(* writes with the commit.  The writes are one step because the handler    *)
(* reads nothing after the first of them.  A call whose check fails        *)
(* changes nothing and is not an action.                                   *)
(***************************************************************************)
EXTENDS Integers, FiniteSets

CONSTANTS
  Workers,        \* calls the API has in progress at the same time
  MaxRefunds,     \* bound: refund requests ever numbered
  MaxRestocks,    \* bound: cancellations that put the units back
  MaxDeliveries,  \* bound: times the provider delivers the webhook
  Faults          \* BOOLEAN: transactions may fail, the process may stop

ASSUME BoundsAssumption ==
  /\ MaxRefunds \in Nat
  /\ MaxRestocks \in Nat
  /\ MaxDeliveries \in Nat
  /\ Faults \in BOOLEAN

VARIABLES
  source,        \* Order.source, "storefront" or "pos"
  state,         \* Order.state
  paymentState,  \* Order.paymentState
  stamps,        \* the lifecycle timestamps of the Order that are set
  payment,       \* Payment.status, "none" while there is no row
  refund,        \* RefundRequest.status by number, "none" while there is no row
  sequence,      \* Setting "refunds.sequence", 0 while the row is absent
  restocks,      \* times the units of the order went back on the shelf
  placing,       \* what createOrder has left to do after its commit
  webhook,       \* the outcome the provider reports, "none" before the session
  deliveries,    \* deliveries of the webhook so far
  doing          \* what each call in progress is about to write

order == <<source, state, paymentState, stamps, restocks>>
money == <<payment, refund, sequence>>
provider == <<placing, webhook, deliveries>>
vars == <<order, money, provider, doing>>

-----------------------------------------------------------------------------
(* order-state-machine.ts                                                  *)

States == {"placed", "payment_pending", "payment_failed", "confirmed",
           "packed", "shipped", "out_for_delivery", "delivered", "cancelled",
           "return_requested", "returned", "refunded"}

\* Mutant: an order may be shipped without having been packed.
NextSkipsPacking ==
  {<<"payment_pending", "confirmed">>, <<"confirmed", "packed">>,
   <<"confirmed", "shipped">>, <<"packed", "shipped">>,
   <<"shipped", "out_for_delivery">>, <<"shipped", "delivered">>,
   <<"out_for_delivery", "delivered">>}

\* NEXT, the table of forward progression.
NEXT ==
  {<<"payment_pending", "confirmed">>, <<"payment_pending", "payment_failed">>,
   <<"confirmed", "packed">>, <<"packed", "shipped">>,
   <<"shipped", "out_for_delivery">>, <<"shipped", "delivered">>,
   <<"out_for_delivery", "delivered">>}

\* orderTransitionTargetSchema: what the endpoint accepts.
Targets == {"confirmed", "packed", "shipped", "out_for_delivery", "delivered"}

Columns == {"confirmedAt", "packedAt", "shippedAt", "outForDeliveryAt",
            "deliveredAt", "cancelledAt"}

transitionTimestampField(target) ==
  CASE target = "confirmed"        -> "confirmedAt"
    [] target = "packed"           -> "packedAt"
    [] target = "shipped"          -> "shippedAt"
    [] target = "out_for_delivery" -> "outForDeliveryAt"
    [] target = "delivered"        -> "deliveredAt"

\* canCustomerCancel, canStaffCancel, canAdminCancel: the states in which each
\* may cancel.
Cancellable(by) ==
  CASE by = "customer" -> {"payment_pending", "confirmed"}
    [] by = "staff"    -> {"payment_pending", "confirmed", "packed"}
    [] by = "admin"    -> States \ {"delivered", "cancelled", "refunded", "returned"}

-----------------------------------------------------------------------------

Outcomes == {"captured", "failed"}
Numbers == 1..MaxRefunds

Idle == [op |-> "idle"]
Transition(target) == [op |-> "transition", target |-> target]
Cancel(by, restock) == [op |-> "cancel", by |-> by, restock |-> restock]
CheckedRefund == [op |-> "fileRefund"]
NumberedRefund(n) == [op |-> "insertRefund", number |-> n]
Approve(n) == [op |-> "approve", number |-> n]
Reject(n) == [op |-> "reject", number |-> n]
Report(outcome) == [op |-> "report", outcome |-> outcome]

Calls == {Idle, CheckedRefund}
  \cup {Transition(target) : target \in Targets}
  \cup {Cancel(by, restock) : by \in {"customer", "staff", "admin"},
                              restock \in BOOLEAN}
  \cup {NumberedRefund(n) : n \in Numbers}
  \cup {Approve(n) : n \in Numbers} \cup {Reject(n) : n \in Numbers}
  \cup {Report(outcome) : outcome \in Outcomes}

\* A new storefront order waits for its payment session; a POS order is paid
\* at the counter and has no Payment row.
Init ==
  /\ \/ /\ source = "storefront"
        /\ state = "payment_pending" /\ paymentState = "pending"
        /\ stamps = {}
        /\ placing = "session"
     \/ /\ source = "pos"
        /\ state = "confirmed" /\ paymentState = "paid"
        /\ stamps = {"confirmedAt"}
        /\ placing = "done"
  /\ payment = "none"
  /\ refund = [n \in Numbers |-> "none"]
  /\ sequence = 0
  /\ restocks = 0
  /\ webhook = "none"
  /\ deliveries = 0
  /\ doing = [w \in Workers |-> Idle]

Begin(w, call) ==
  /\ doing[w] = Idle
  /\ doing' = [doing EXCEPT ![w] = call]
  /\ UNCHANGED <<order, money, provider>>

Finish(w) == doing' = [doing EXCEPT ![w] = Idle]

-----------------------------------------------------------------------------
(* The end of createOrder, and the provider's webhook.                     *)

\* createSession picks the outcome and schedules the webhook at once.
CreateSession ==
  /\ placing = "session"
  /\ placing' = "payment"
  /\ webhook' \in Outcomes
  /\ UNCHANGED <<order, money, deliveries, doing>>

CreatePayment ==
  /\ placing = "payment"
  /\ placing' = "done"
  /\ payment' = "pending"
  /\ UNCHANGED <<order, refund, sequence, webhook, deliveries, doing>>

CreatePaymentFails ==
  /\ Faults
  /\ placing = "payment"
  /\ placing' = "lost"
  /\ UNCHANGED <<order, money, webhook, deliveries, doing>>

\* The webhook is on its way.  The mock delivers once; a provider that
\* retries does so after the previous attempt has ended.
Arrives ==
  /\ webhook # "none"
  /\ deliveries < MaxDeliveries
  /\ \A w \in Workers : doing[w].op # "report"

\* Mutant: the status check is forgotten.
AnyPayment == payment # "none"

Unprocessed == payment = "pending"

\* Unknown session, or a payment already settled: acknowledged, no change.
WebhookIgnored ==
  /\ Arrives
  /\ ~Unprocessed
  /\ deliveries' = deliveries + 1
  /\ UNCHANGED <<order, money, placing, webhook, doing>>

WebhookReads(w) ==
  /\ Arrives
  /\ Unprocessed
  /\ doing[w] = Idle
  /\ doing' = [doing EXCEPT ![w] = Report(webhook)]
  /\ deliveries' = deliveries + 1
  /\ UNCHANGED <<order, money, placing, webhook>>

WebhookCaptured(w) ==
  /\ doing[w] = Report("captured")
  /\ payment' = "captured"
  /\ state' = "confirmed"
  /\ paymentState' = "paid"
  /\ stamps' = stamps \cup {"confirmedAt"}
  /\ Finish(w)
  /\ UNCHANGED <<source, restocks, refund, sequence, provider>>

WebhookFailed(w) ==
  /\ doing[w] = Report("failed")
  /\ payment' = "failed"
  /\ state' = "payment_failed"
  /\ paymentState' = "failed"
  /\ Finish(w)
  /\ UNCHANGED <<source, stamps, restocks, refund, sequence, provider>>

-----------------------------------------------------------------------------
(* Transitions and cancellations.                                          *)

TransitionReads(w, target) ==
  /\ <<state, target>> \in NEXT
  /\ Begin(w, Transition(target))

TransitionCommits(w) ==
  /\ doing[w].op = "transition"
  /\ state' = doing[w].target
  /\ stamps' = stamps \cup {transitionTimestampField(doing[w].target)}
  /\ Finish(w)
  /\ UNCHANGED <<source, paymentState, restocks, money, provider>>

CustomerCancelReads(w) ==
  /\ state \in Cancellable("customer")
  /\ Begin(w, Cancel("customer", TRUE))

CancelReads(w, role, restock) ==
  /\ state \in Cancellable(role)
  /\ Begin(w, Cancel(role, restock))

CancelCommits(w) ==
  /\ doing[w].op = "cancel"
  /\ restocks < MaxRestocks \/ ~doing[w].restock
  /\ state' = "cancelled"
  /\ stamps' = stamps \cup {"cancelledAt"}
  /\ restocks' = IF doing[w].restock THEN restocks + 1 ELSE restocks
  /\ Finish(w)
  /\ UNCHANGED <<source, paymentState, money, provider>>

-----------------------------------------------------------------------------
(* Refunds.                                                                *)

Paid == paymentState = "paid"

OpenRefunds == {n \in Numbers : refund[n] \in {"pending", "approved"}}

\* create: both checks are made before the transaction ...
RefundReads(w) ==
  /\ Paid
  /\ OpenRefunds = {}
  /\ Begin(w, CheckedRefund)

\* ... which reads the sequence without a lock ...
RefundReadsNumber(w) ==
  /\ doing[w] = CheckedRefund
  /\ sequence < MaxRefunds
  /\ doing' = [doing EXCEPT ![w] = NumberedRefund(sequence + 1)]
  /\ UNCHANGED <<order, money, provider>>

\* ... writes it back and inserts the request, refundNumber @unique.
RefundCommits(w) ==
  /\ doing[w].op = "insertRefund"
  /\ refund[doing[w].number] = "none"
  /\ refund' = [refund EXCEPT ![doing[w].number] = "pending"]
  /\ sequence' = doing[w].number
  /\ Finish(w)
  /\ UNCHANGED <<order, payment, provider>>

RefundNumberTaken(w) ==
  /\ doing[w].op = "insertRefund"
  /\ refund[doing[w].number] # "none"
  /\ Finish(w)
  /\ UNCHANGED <<order, money, provider>>

ApproveReads(w, n) ==
  /\ refund[n] = "pending"
  /\ Begin(w, Approve(n))

\* Mutant: approve updates the order and forgets its payment.
PaymentForgotten == payment

\* The latest Payment row of the order, when it has one.
PaymentRefunded == IF payment = "none" THEN "none" ELSE "refunded"

ApproveCommits(w) ==
  /\ doing[w].op = "approve"
  /\ refund' = [refund EXCEPT ![doing[w].number] = "approved"]
  /\ payment' = PaymentRefunded
  /\ state' = "refunded"
  /\ paymentState' = "refunded"
  /\ Finish(w)
  /\ UNCHANGED <<source, stamps, restocks, sequence, provider>>

RejectReads(w, n) ==
  /\ refund[n] = "pending"
  /\ Begin(w, Reject(n))

RejectCommits(w) ==
  /\ doing[w].op = "reject"
  /\ refund' = [refund EXCEPT ![doing[w].number] = "rejected"]
  /\ Finish(w)
  /\ UNCHANGED <<order, payment, sequence, provider>>

-----------------------------------------------------------------------------
(* Faults.                                                                 *)

\* A transaction fails or times out; nothing of it remains.
Abort(w) ==
  /\ Faults
  /\ doing[w] # Idle
  /\ Finish(w)
  /\ UNCHANGED <<order, money, provider>>

\* The process stops.  The mock's timer dies with it, a real provider's
\* delivery does not.
Crash ==
  /\ Faults
  /\ doing' = [w \in Workers |-> Idle]
  /\ placing' = IF placing = "done" THEN "done" ELSE "lost"
  /\ webhook' \in {webhook, "none"}
  /\ UNCHANGED <<order, money, deliveries>>

-----------------------------------------------------------------------------

Reads(w) ==
  \/ \E target \in Targets : TransitionReads(w, target)
  \/ CustomerCancelReads(w)
  \/ \E role \in {"staff", "admin"}, restock \in BOOLEAN :
       CancelReads(w, role, restock)
  \/ RefundReads(w)
  \/ \E n \in Numbers : ApproveReads(w, n) \/ RejectReads(w, n)

Writes(w) ==
  \/ WebhookCaptured(w) \/ WebhookFailed(w)
  \/ TransitionCommits(w)
  \/ CancelCommits(w)
  \/ RefundReadsNumber(w) \/ RefundCommits(w) \/ RefundNumberTaken(w)
  \/ ApproveCommits(w) \/ RejectCommits(w)

Placing == CreateSession \/ CreatePayment \/ CreatePaymentFails
Webhook == WebhookIgnored \/ \E w \in Workers : WebhookReads(w)

Next ==
  \/ Placing
  \/ Webhook
  \/ \E w \in Workers : Reads(w) \/ Writes(w) \/ Abort(w)
  \/ Crash

Spec == Init /\ [][Next]_vars

-----------------------------------------------------------------------------

\* Types of the rows and of the calls in progress.
TypeOK ==
  /\ source \in {"storefront", "pos"}
  /\ state \in States
  /\ paymentState \in {"pending", "paid", "failed", "refunded"}
  /\ stamps \subseteq Columns
  /\ payment \in {"none", "pending", "captured", "failed", "refunded"}
  /\ refund \in [Numbers -> {"none", "pending", "approved", "rejected"}]
  /\ sequence \in 0..MaxRefunds
  /\ restocks \in Nat
  /\ placing \in {"session", "payment", "done", "lost"}
  /\ webhook \in {"none"} \cup Outcomes
  /\ deliveries \in Nat
  /\ doing \in [Workers -> Calls]

-----------------------------------------------------------------------------

\* The two records of the money agree: Order.paymentState always says what
\* Payment.status says, although webhook and refund approval write them from
\* separate reads and cancellations and transitions run in between.
PaymentAgrees ==
  IF source = "pos"
  THEN payment = "none" /\ paymentState \in {"paid", "refunded"}
  ELSE \/ payment \in {"none", "pending"} /\ paymentState = "pending"
       \/ payment = "captured" /\ paymentState = "paid"
       \/ payment = "failed" /\ paymentState = "failed"
       \/ payment = "refunded" /\ paymentState = "refunded"

\* A refund request exists only for money that was received, and an approved
\* one means that the money went back: create's check is outside its
\* transaction, yet no call in between can take the money away.
RefundsNeedMoney ==
  \A n \in Numbers :
    /\ refund[n] # "none" => paymentState \in {"paid", "refunded"}
    /\ refund[n] = "approved" => paymentState = "refunded"

\* An order that reached a stage of its delivery went through the stages
\* before it, as its timestamps show, whatever was cancelled, confirmed late
\* by the webhook or written from a stale read meanwhile.
Stages(s) ==
  CASE s = "packed"           -> {"confirmedAt", "packedAt"}
    [] s = "shipped"          -> {"confirmedAt", "packedAt", "shippedAt"}
    [] s = "out_for_delivery" -> {"confirmedAt", "packedAt", "shippedAt",
                                  "outForDeliveryAt"}
    [] s = "delivered"        -> {"confirmedAt", "packedAt", "shippedAt",
                                  "deliveredAt"}
    [] s = "confirmed"        -> {"confirmedAt"}
    [] OTHER                  -> {}
FulfilledInOrder == Stages(state) \subseteq stamps

\* What makes these inductive: what every call in progress may rely on.
CallsSound ==
  \A w \in Workers :
    /\ doing[w].op \in {"fileRefund", "insertRefund"} =>
         paymentState \in {"paid", "refunded"}
    /\ doing[w].op \in {"approve", "reject"} => refund[doing[w].number] # "none"
    /\ doing[w].op = "report" => payment = "pending"
    /\ doing[w].op = "transition" =>
         Stages(doing[w].target)
           \ {transitionTimestampField(doing[w].target)} \subseteq stamps
OneReport ==
  \A v, w \in Workers : doing[v].op = "report" /\ doing[w].op = "report" => v = w
PaymentRow ==
  /\ payment = "none" <=> source = "pos" \/ placing # "done"
  /\ source = "pos" => placing = "done" /\ webhook = "none"

\* Everything the handlers rely on between their reads and their writes.
LifecycleInv ==
  PaymentAgrees /\ RefundsNeedMoney /\ FulfilledInOrder
    /\ CallsSound /\ OneReport /\ PaymentRow

\* The money of the order follows PaymentTrail: it is received once, never
\* lost to a redelivered webhook, and returned only after a refund request.
Trail == INSTANCE PaymentTrail
           WITH money <- paymentState, asked <- \E n \in Numbers : refund[n] # "none"
FollowsTrail == Trail!Spec

-----------------------------------------------------------------------------
(* What the code says of itself and does not do.                           *)

\* order-state-machine.ts:7-19 gives a cancelled order no state to move to.
CancelledIsFinal ==
  [][state = "cancelled" => state' \in {"cancelled", "refunded"}]_vars

\* order-state-machine.ts:33-43: once packed only the admin cancels, a delivered
\* order is returned, not cancelled, and a cancelled one is not cancelled again,
\* which would put its units back twice.
CancelsInTime ==
  [][\A w \in Workers : CancelCommits(w) => state \in Cancellable(doing[w].by)]_vars

\* refunds.service.ts:63 blocks stacking unresolved refunds.
OneOpenRefund == Cardinality(OpenRefunds) <= 1

=============================================================================

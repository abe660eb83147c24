------------------------ MODULE OrderLifecycleProofs ------------------------
(***************************************************************************)
(* Theorems about OrderLifecycle, for any number of concurrent calls and   *)
(* every bound.                                                            *)
(***************************************************************************)
EXTENDS OrderLifecycle, TLAPS

-----------------------------------------------------------------------------
(* Calls.                                                                  *)

\* A call carries what its kind needs.
LEMMA CallFacts ==
  ASSUME NEW c \in Calls
  PROVE  /\ c.op = "transition" => c.target \in Targets
         /\ c.op = "cancel" => c.restock \in BOOLEAN
         /\ c.op \in {"insertRefund", "approve", "reject"} => c.number \in Numbers
         /\ c.op = "report" => c.outcome \in Outcomes
PROOF
<1>. USE DEF Idle, CheckedRefund, Transition, Cancel, NumberedRefund, Approve,
             Reject, Report
<1>1. CASE c \in {Idle, CheckedRefund}
  BY <1>1
<1>2. CASE c \in {Transition(target) : target \in Targets}
  BY <1>2
<1>3. CASE c \in {Cancel(by, restock) : by \in {"customer", "staff", "admin"},
                                         restock \in BOOLEAN}
  BY <1>3
<1>4. CASE c \in {NumberedRefund(n) : n \in Numbers}
  BY <1>4
<1>5. CASE c \in {Approve(n) : n \in Numbers} \cup {Reject(n) : n \in Numbers}
  BY <1>5
<1>6. CASE c \in {Report(outcome) : outcome \in Outcomes}
  BY <1>6
<1>. QED
  BY <1>1, <1>2, <1>3, <1>4, <1>5, <1>6 DEF Calls

\* The kind of each call.
LEMMA Ops ==
  /\ Idle.op = "idle" /\ CheckedRefund.op = "fileRefund"
  /\ \A n : /\ NumberedRefund(n).op = "insertRefund" /\ NumberedRefund(n).number = n
            /\ Approve(n).op = "approve" /\ Approve(n).number = n
            /\ Reject(n).op = "reject" /\ Reject(n).number = n
  /\ \A target : /\ Transition(target).op = "transition"
                 /\ Transition(target).target = target
  /\ \A by, restock : Cancel(by, restock).op = "cancel"
  /\ \A outcome : /\ Report(outcome).op = "report"
                  /\ Report(outcome).outcome = outcome
PROOF
  BY DEF Idle, CheckedRefund, NumberedRefund, Approve, Reject, Transition,
         Cancel, Report

\* What handlers store in "doing" is a call.
LEMMA CallsAre ==
  /\ Idle \in Calls /\ CheckedRefund \in Calls
  /\ \A n \in Numbers : /\ NumberedRefund(n) \in Calls
                        /\ Approve(n) \in Calls /\ Reject(n) \in Calls
  /\ \A target \in Targets : Transition(target) \in Calls
  /\ \A by \in {"customer", "staff", "admin"}, restock \in BOOLEAN :
       Cancel(by, restock) \in Calls
  /\ \A outcome \in Outcomes : Report(outcome) \in Calls
PROOF
  BY DEF Calls

\* Every target of a transition has its timestamp column.
LEMMA StampIsColumn ==
  ASSUME NEW target \in Targets
  PROVE  transitionTimestampField(target) \in Columns
PROOF
  BY DEF Targets, transitionTimestampField, Columns

-----------------------------------------------------------------------------
(* Types.                                                                  *)

\* Reading starts a call and changes no row.
LEMMA BeginType ==
  ASSUME TypeOK, NEW w \in Workers, NEW call \in Calls, Begin(w, call)
  PROVE  TypeOK'
PROOF
<1>1. doing' \in [Workers -> Calls]
  BY DEF TypeOK, Begin
<1>. QED
  BY <1>1 DEF TypeOK, Begin, order, money, provider

\* A finished call leaves its worker idle.
LEMMA FinishType ==
  ASSUME TypeOK, NEW w \in Workers, Finish(w)
  PROVE  doing' \in [Workers -> Calls]
PROOF
  BY CallsAre DEF TypeOK, Finish

\* Every step keeps the types.
LEMMA TypeStep == TypeOK /\ [Next]_vars => TypeOK'
PROOF
<1>. SUFFICES ASSUME TypeOK, [Next]_vars
              PROVE  TypeOK'
  OBVIOUS
<1>. USE DEF order, money, provider
<1>1. CASE Placing
  BY <1>1 DEF Placing, CreateSession, CreatePayment, CreatePaymentFails, TypeOK
<1>2. CASE WebhookIgnored
  BY <1>2 DEF WebhookIgnored, TypeOK
<1>3. ASSUME NEW w \in Workers, WebhookReads(w)
      PROVE  TypeOK'
  <2>1. webhook \in Outcomes
    BY <1>3 DEF WebhookReads, Arrives, TypeOK
  <2>2. doing' \in [Workers -> Calls]
    BY <1>3, <2>1, CallsAre DEF WebhookReads, TypeOK
  <2>. QED
    BY <1>3, <2>2 DEF WebhookReads, TypeOK
<1>4. ASSUME NEW w \in Workers, Reads(w)
      PROVE  TypeOK'
  <2>1. PICK call \in Calls : Begin(w, call)
    BY <1>4, CallsAre DEF Reads, TransitionReads, CustomerCancelReads, CancelReads,
                          RefundReads, ApproveReads, RejectReads
  <2>. QED
    BY <2>1, BeginType
<1>5. ASSUME NEW w \in Workers, WebhookCaptured(w) \/ WebhookFailed(w)
      PROVE  TypeOK'
  <2>1. doing' \in [Workers -> Calls]
    BY <1>5, FinishType DEF WebhookCaptured, WebhookFailed
  <2>. QED
    BY <1>5, <2>1 DEF WebhookCaptured, WebhookFailed, TypeOK, States, Columns
<1>6. ASSUME NEW w \in Workers, TransitionCommits(w)
      PROVE  TypeOK'
  <2>1. doing' \in [Workers -> Calls]
    BY <1>6, FinishType DEF TransitionCommits
  <2>2. doing[w].target \in Targets
    BY <1>6, CallFacts DEF TransitionCommits, TypeOK
  <2>3. doing[w].target \in States
    BY <2>2 DEF Targets, States
  <2>4. transitionTimestampField(doing[w].target) \in Columns
    BY <2>2, StampIsColumn
  <2>. QED
    BY <1>6, <2>1, <2>3, <2>4 DEF TransitionCommits, TypeOK
<1>7. ASSUME NEW w \in Workers, CancelCommits(w)
      PROVE  TypeOK'
  <2>1. doing' \in [Workers -> Calls]
    BY <1>7, FinishType DEF CancelCommits
  <2>. QED
    BY <1>7, <2>1 DEF CancelCommits, TypeOK, States, Columns
<1>8. ASSUME NEW w \in Workers, RefundReadsNumber(w)
      PROVE  TypeOK'
  <2>1. sequence + 1 \in Numbers
    BY <1>8, BoundsAssumption DEF RefundReadsNumber, TypeOK, Numbers, BoundsAssumption
  <2>2. doing' \in [Workers -> Calls]
    BY <1>8, <2>1, CallsAre DEF RefundReadsNumber, TypeOK
  <2>. QED
    BY <1>8, <2>2 DEF RefundReadsNumber, TypeOK
<1>9. ASSUME NEW w \in Workers,
             RefundCommits(w) \/ RefundNumberTaken(w) \/ ApproveCommits(w)
               \/ RejectCommits(w)
      PROVE  TypeOK'
  <2>1. doing' \in [Workers -> Calls]
    BY <1>9, FinishType DEF RefundCommits, RefundNumberTaken, ApproveCommits,
                            RejectCommits
  <2>2. doing[w].number \in Numbers
    BY <1>9, CallFacts DEF RefundCommits, RefundNumberTaken, ApproveCommits,
                           RejectCommits, TypeOK
  <2>3. doing[w].number \in 0..MaxRefunds
    BY <2>2, BoundsAssumption DEF Numbers, BoundsAssumption
  <2>4. refund' \in [Numbers -> {"none", "pending", "approved", "rejected"}]
    BY <1>9 DEF RefundCommits, RefundNumberTaken, ApproveCommits, RejectCommits, TypeOK
  <2>. QED
    BY <1>9, <2>1, <2>3, <2>4
       DEF RefundCommits, RefundNumberTaken, ApproveCommits, RejectCommits,
           PaymentRefunded, TypeOK, States
<1>10. ASSUME NEW w \in Workers, Abort(w)
       PROVE  TypeOK'
  BY <1>10, FinishType DEF Abort, TypeOK
<1>11. CASE Crash
  <2>1. doing' \in [Workers -> Calls]
    BY <1>11, CallsAre DEF Crash
  <2>. QED
    BY <1>11, <2>1 DEF Crash, TypeOK
<1>12. CASE UNCHANGED vars
  BY <1>12 DEF vars, TypeOK
<1>. QED
  BY <1>1, <1>2, <1>3, <1>4, <1>5, <1>6, <1>7, <1>8, <1>9, <1>10, <1>11, <1>12
     DEF Next, Webhook, Writes

\* The type invariant.
THEOREM TypeCorrect == Spec => []TypeOK
PROOF
<1>1. Init => TypeOK
  BY CallsAre, BoundsAssumption
     DEF Init, TypeOK, States, Columns, Outcomes, BoundsAssumption
<1>. QED
  BY <1>1, TypeStep, PTL DEF Spec

-----------------------------------------------------------------------------
(* Safety.                                                                 *)

\* A read that starts a call whose promise holds keeps the invariant.
LEMMA BeginInv ==
  ASSUME TypeOK, LifecycleInv, NEW w \in Workers, NEW call \in Calls,
         Begin(w, call),
         call.op \in {"fileRefund", "insertRefund"} =>
           paymentState \in {"paid", "refunded"},
         call.op \in {"approve", "reject"} => refund[call.number] # "none",
         call.op # "report",
         call.op = "transition" =>
           Stages(call.target) \ {transitionTimestampField(call.target)}
             \subseteq stamps
  PROVE  LifecycleInv'
PROOF
<1>1. /\ doing'[w] = call
      /\ \A v \in Workers \ {w} : doing'[v] = doing[v]
  BY DEF Begin, TypeOK
<1>2. UNCHANGED <<source, state, paymentState, stamps, payment, refund,
                  placing, webhook>>
  BY DEF Begin, order, money, provider
<1>3. CallsSound'
  BY <1>1, <1>2 DEF LifecycleInv, CallsSound
<1>4. OneReport'
  BY <1>1 DEF LifecycleInv, OneReport
<1>. QED
  BY <1>2, <1>3, <1>4
     DEF LifecycleInv, PaymentAgrees, RefundsNeedMoney, FulfilledInOrder, PaymentRow

\* Ending a call makes no promise that was not there before, as long as the
\* rows the other calls rely on keep what they rely on.
LEMMA FinishInv ==
  ASSUME TypeOK, LifecycleInv, NEW w \in Workers, Finish(w),
         paymentState \in {"paid", "refunded"} =>
           paymentState' \in {"paid", "refunded"},
         \A n \in Numbers : refund[n] # "none" => refund'[n] # "none",
         stamps \subseteq stamps',
         \A v \in Workers \ {w} : doing[v].op = "report" => payment' = payment
  PROVE  CallsSound' /\ OneReport'
PROOF
<1>1. /\ doing'[w] = Idle
      /\ \A v \in Workers \ {w} : doing'[v] = doing[v]
  BY DEF Finish, TypeOK
<1>2. Idle.op = "idle"
  BY Ops
<1>3. \A v \in Workers : doing[v].op \in {"approve", "reject"} =>
                           doing[v].number \in Numbers
  BY CallFacts DEF TypeOK
<1>4. CallsSound'
  BY <1>1, <1>2, <1>3 DEF LifecycleInv, CallsSound
<1>5. OneReport'
  BY <1>1, <1>2 DEF LifecycleInv, OneReport
<1>. QED
  BY <1>4, <1>5

\* A transition that is legal for the state read completes its stages.
LEMMA StagesComplete ==
  ASSUME NEW s \in States, NEW target \in Targets, <<s, target>> \in NEXT
  PROVE  Stages(target) \ {transitionTimestampField(target)} \subseteq Stages(s)
PROOF
  BY DEF NEXT, Targets, Stages, transitionTimestampField

\* Every step keeps the invariant.
LEMMA SafetyStep == TypeOK /\ LifecycleInv /\ [Next]_vars => LifecycleInv'
PROOF
<1>. SUFFICES ASSUME TypeOK, LifecycleInv, [Next]_vars
              PROVE  LifecycleInv'
  OBVIOUS
<1>. USE DEF order, money, provider
<1>1. CASE Placing
  <2>1. \A w \in Workers : doing[w].op # "report" \/ payment' = payment
    BY <1>1 DEF Placing, CreateSession, CreatePayment, CreatePaymentFails,
                LifecycleInv, CallsSound, PaymentRow
  <2>2. CallsSound' /\ OneReport'
    BY <1>1, <2>1 DEF Placing, CreateSession, CreatePayment, CreatePaymentFails,
                      LifecycleInv, CallsSound, OneReport
  <2>3. PaymentAgrees' /\ PaymentRow'
    BY <1>1 DEF Placing, CreateSession, CreatePayment, CreatePaymentFails, TypeOK,
                LifecycleInv, PaymentAgrees, PaymentRow
  <2>4. RefundsNeedMoney' /\ FulfilledInOrder'
    BY <1>1 DEF Placing, CreateSession, CreatePayment, CreatePaymentFails,
                LifecycleInv, RefundsNeedMoney, FulfilledInOrder
  <2>. QED
    BY <2>2, <2>3, <2>4 DEF LifecycleInv
<1>2. CASE WebhookIgnored
  BY <1>2 DEF WebhookIgnored, LifecycleInv, PaymentAgrees, RefundsNeedMoney,
              FulfilledInOrder, CallsSound, OneReport, PaymentRow
<1>3. ASSUME NEW w \in Workers, WebhookReads(w)
      PROVE  LifecycleInv'
  <2>1. /\ doing'[w] = Report(webhook)
        /\ \A v \in Workers \ {w} : doing'[v] = doing[v]
    BY <1>3 DEF WebhookReads, TypeOK
  <2>2. Report(webhook).op = "report"
    BY Ops
  <2>3. CallsSound'
    BY <1>3, <2>1, <2>2 DEF WebhookReads, Unprocessed, LifecycleInv, CallsSound
  <2>4. OneReport'
    BY <1>3, <2>1, <2>2 DEF WebhookReads, Arrives, OneReport
  <2>. QED
    BY <1>3, <2>3, <2>4 DEF WebhookReads, LifecycleInv, PaymentAgrees,
                            RefundsNeedMoney, FulfilledInOrder, PaymentRow
<1>4. ASSUME NEW w \in Workers, Reads(w)
      PROVE  LifecycleInv'
  <2>1. ASSUME NEW target \in Targets, TransitionReads(w, target)
        PROVE  LifecycleInv'
    <3>1. Stages(target) \ {transitionTimestampField(target)} \subseteq stamps
      BY <2>1, StagesComplete DEF TransitionReads, LifecycleInv, FulfilledInOrder, TypeOK
    <3>. QED
      BY <2>1, <3>1, Ops, CallsAre, BeginInv DEF TransitionReads
  <2>2. CASE CustomerCancelReads(w)
    BY <2>2, Ops, CallsAre, BeginInv DEF CustomerCancelReads
  <2>3. ASSUME NEW role \in {"staff", "admin"}, NEW restock \in BOOLEAN,
               CancelReads(w, role, restock)
        PROVE  LifecycleInv'
    BY <2>3, Ops, CallsAre, BeginInv DEF CancelReads
  <2>4. CASE RefundReads(w)
    BY <2>4, Ops, CallsAre, BeginInv DEF RefundReads, Paid
  <2>5. ASSUME NEW n \in Numbers, ApproveReads(w, n) \/ RejectReads(w, n)
        PROVE  LifecycleInv'
    BY <2>5, Ops, CallsAre, BeginInv DEF ApproveReads, RejectReads
  <2>. QED
    BY <1>4, <2>1, <2>2, <2>3, <2>4, <2>5 DEF Reads
<1>5. ASSUME NEW w \in Workers, WebhookCaptured(w) \/ WebhookFailed(w)
      PROVE  LifecycleInv'
  <2>1. doing[w].op = "report"
    BY <1>5, Ops DEF WebhookCaptured, WebhookFailed
  <2>2. payment = "pending" /\ paymentState = "pending" /\ source # "pos"
    BY <2>1 DEF LifecycleInv, CallsSound, PaymentAgrees
  <2>3. \A v \in Workers \ {w} : doing[v].op # "report"
    BY <2>1 DEF LifecycleInv, OneReport
  <2>4. CallsSound' /\ OneReport'
    BY <1>5, <2>2, <2>3, FinishInv DEF WebhookCaptured, WebhookFailed
  <2>5. PaymentAgrees' /\ PaymentRow'
    BY <1>5, <2>2 DEF WebhookCaptured, WebhookFailed, LifecycleInv, PaymentAgrees,
                      PaymentRow
  <2>6. \A n \in Numbers : refund[n] = "none"
    BY <2>2 DEF LifecycleInv, RefundsNeedMoney
  <2>7. RefundsNeedMoney'
    BY <1>5, <2>6 DEF WebhookCaptured, WebhookFailed, RefundsNeedMoney
  <2>8. FulfilledInOrder'
    BY <1>5 DEF WebhookCaptured, WebhookFailed, FulfilledInOrder, Stages
  <2>. QED
    BY <2>4, <2>5, <2>7, <2>8 DEF LifecycleInv
<1>6. ASSUME NEW w \in Workers, TransitionCommits(w)
      PROVE  LifecycleInv'
  <2>1. CallsSound' /\ OneReport'
    BY <1>6, FinishInv DEF TransitionCommits
  <2>2. FulfilledInOrder'
    BY <1>6 DEF TransitionCommits, LifecycleInv, CallsSound, FulfilledInOrder
  <2>. QED
    BY <1>6, <2>1, <2>2 DEF TransitionCommits, LifecycleInv, PaymentAgrees,
                            RefundsNeedMoney, PaymentRow
<1>7. ASSUME NEW w \in Workers, CancelCommits(w)
      PROVE  LifecycleInv'
  <2>1. CallsSound' /\ OneReport'
    BY <1>7, FinishInv DEF CancelCommits
  <2>2. FulfilledInOrder'
    BY <1>7 DEF CancelCommits, FulfilledInOrder, Stages
  <2>. QED
    BY <1>7, <2>1, <2>2 DEF CancelCommits, LifecycleInv, PaymentAgrees,
                            RefundsNeedMoney, PaymentRow
<1>8. ASSUME NEW w \in Workers, RefundReadsNumber(w)
      PROVE  LifecycleInv'
  <2>1. /\ doing'[w] = NumberedRefund(sequence + 1)
        /\ \A v \in Workers \ {w} : doing'[v] = doing[v]
    BY <1>8 DEF RefundReadsNumber, TypeOK
  <2>2. doing[w].op = "fileRefund" /\ doing'[w].op = "insertRefund"
    BY <1>8, <2>1, Ops DEF RefundReadsNumber
  <2>3. CallsSound' /\ OneReport'
    BY <1>8, <2>1, <2>2 DEF RefundReadsNumber, LifecycleInv, CallsSound, OneReport
  <2>. QED
    BY <1>8, <2>3 DEF RefundReadsNumber, LifecycleInv, PaymentAgrees,
                      RefundsNeedMoney, FulfilledInOrder, PaymentRow
<1>9. ASSUME NEW w \in Workers, RefundCommits(w)
      PROVE  LifecycleInv'
  <2>1. doing[w].number \in Numbers
    BY <1>9, CallFacts DEF RefundCommits, TypeOK
  <2>2. refund'[doing[w].number] = "pending"
        /\ \A n \in Numbers \ {doing[w].number} : refund'[n] = refund[n]
    BY <1>9, <2>1 DEF RefundCommits, TypeOK
  <2>3. CallsSound' /\ OneReport'
    BY <1>9, <2>2, FinishInv DEF RefundCommits
  <2>4. RefundsNeedMoney'
    BY <1>9, <2>2 DEF RefundCommits, LifecycleInv, CallsSound, RefundsNeedMoney
  <2>. QED
    BY <1>9, <2>3, <2>4 DEF RefundCommits, LifecycleInv, PaymentAgrees,
                            FulfilledInOrder, PaymentRow
<1>10. ASSUME NEW w \in Workers, RefundNumberTaken(w) \/ Abort(w)
       PROVE  LifecycleInv'
  <2>1. CallsSound' /\ OneReport'
    BY <1>10, FinishInv DEF RefundNumberTaken, Abort
  <2>. QED
    BY <1>10, <2>1 DEF RefundNumberTaken, Abort, LifecycleInv, PaymentAgrees,
                       RefundsNeedMoney, FulfilledInOrder, PaymentRow
<1>11. ASSUME NEW w \in Workers, ApproveCommits(w)
       PROVE  LifecycleInv'
  <2>1. doing[w].number \in Numbers /\ refund[doing[w].number] # "none"
    BY <1>11, CallFacts DEF ApproveCommits, TypeOK, LifecycleInv, CallsSound
  <2>2. paymentState \in {"paid", "refunded"}
    BY <2>1 DEF LifecycleInv, RefundsNeedMoney
  <2>3. payment # "pending" /\ (payment = "none" => source = "pos")
    BY <2>2 DEF LifecycleInv, PaymentAgrees
  <2>4. \A v \in Workers : doing[v].op # "report"
    BY <2>3 DEF LifecycleInv, CallsSound
  <2>5. \A n \in Numbers : refund[n] # "none" => refund'[n] # "none"
    BY <1>11 DEF ApproveCommits, TypeOK
  <2>6. CallsSound' /\ OneReport'
    BY <1>11, <2>4, <2>5, FinishInv DEF ApproveCommits
  <2>7. PaymentAgrees' /\ PaymentRow'
    BY <1>11, <2>2, <2>3 DEF ApproveCommits, PaymentRefunded, LifecycleInv,
                             PaymentAgrees, PaymentRow
  <2>8. RefundsNeedMoney' /\ FulfilledInOrder'
    BY <1>11 DEF ApproveCommits, RefundsNeedMoney, FulfilledInOrder, Stages
  <2>. QED
    BY <2>6, <2>7, <2>8 DEF LifecycleInv
<1>12. ASSUME NEW w \in Workers, RejectCommits(w)
       PROVE  LifecycleInv'
  <2>1. doing[w].number \in Numbers /\ refund[doing[w].number] # "none"
    BY <1>12, CallFacts DEF RejectCommits, TypeOK, LifecycleInv, CallsSound
  <2>2. /\ refund'[doing[w].number] = "rejected"
        /\ \A n \in Numbers \ {doing[w].number} : refund'[n] = refund[n]
    BY <1>12, <2>1 DEF RejectCommits, TypeOK
  <2>3. CallsSound' /\ OneReport'
    BY <1>12, <2>2, FinishInv DEF RejectCommits
  <2>4. RefundsNeedMoney'
    BY <1>12, <2>1, <2>2 DEF RejectCommits, LifecycleInv, RefundsNeedMoney
  <2>. QED
    BY <1>12, <2>3, <2>4 DEF RejectCommits, LifecycleInv, PaymentAgrees,
                             FulfilledInOrder, PaymentRow
<1>13. CASE Crash
  <2>1. \A w \in Workers : doing'[w].op = "idle"
    BY <1>13, Ops DEF Crash
  <2>2. CallsSound' /\ OneReport'
    BY <2>1 DEF CallsSound, OneReport
  <2>3. PaymentRow'
    BY <1>13 DEF Crash, LifecycleInv, PaymentRow
  <2>. QED
    BY <1>13, <2>2, <2>3 DEF Crash, LifecycleInv, PaymentAgrees,
                             RefundsNeedMoney, FulfilledInOrder
<1>14. CASE UNCHANGED vars
  BY <1>14 DEF vars, LifecycleInv, PaymentAgrees, RefundsNeedMoney,
               FulfilledInOrder, CallsSound, OneReport, PaymentRow
<1>. QED
  BY <1>1, <1>2, <1>3, <1>4, <1>5, <1>6, <1>7, <1>8, <1>9, <1>10, <1>11,
     <1>12, <1>13, <1>14
     DEF Next, Webhook, Writes

\* The new order satisfies the invariant.
LEMMA SafetyInit == Init => LifecycleInv
PROOF
<1>. SUFFICES ASSUME Init
              PROVE  LifecycleInv
  OBVIOUS
<1>1. \A w \in Workers : doing[w].op = "idle"
  BY Ops DEF Init
<1>2. CallsSound /\ OneReport
  BY <1>1 DEF CallsSound, OneReport
<1>. QED
  BY <1>2 DEF Init, LifecycleInv, PaymentAgrees, RefundsNeedMoney,
              FulfilledInOrder, Stages, PaymentRow

\* The two records of the money agree, refunds exist only for money that was
\* received, an order goes through its stages in order, and what a call read
\* and relies on still holds when it writes.
THEOREM LifecycleSafe == Spec => []LifecycleInv
PROOF
<1>1. Init => TypeOK
  BY CallsAre, BoundsAssumption
     DEF Init, TypeOK, States, Columns, Outcomes, BoundsAssumption
<1>2. TypeOK /\ LifecycleInv /\ [Next]_vars => TypeOK' /\ LifecycleInv'
  BY TypeStep, SafetyStep
<1>. QED
  BY <1>1, <1>2, SafetyInit, PTL DEF Spec

\* Payment.status and Order.paymentState are written by the webhook and by the
\* approval of a refund, and never disagree on the money.
COROLLARY PaymentsAgree == Spec => []PaymentAgrees
PROOF
<1>1. LifecycleInv => PaymentAgrees
  BY DEF LifecycleInv
<1>. QED
  BY <1>1, LifecycleSafe, PTL

\* However transitions, cancellations and late webhooks overlap, an order that
\* is shipped was packed and one that is delivered was shipped.
COROLLARY InOrder == Spec => []FulfilledInOrder
PROOF
<1>1. LifecycleInv => FulfilledInOrder
  BY DEF LifecycleInv
<1>. QED
  BY <1>1, LifecycleSafe, PTL

-----------------------------------------------------------------------------
(* Refinement.                                                             *)

\* Every step of the order is a step of PaymentTrail, or changes neither the
\* money nor whether a refund was asked for.
LEMMA TrailStep ==
  TypeOK /\ LifecycleInv /\ [Next]_vars => [Trail!Next]_(Trail!vars)
PROOF
<1>. SUFFICES ASSUME TypeOK, LifecycleInv, Next
              PROVE  [Trail!Next]_(Trail!vars)
  BY DEF vars, order, money, Trail!vars
<1>. USE DEF order, money, provider, Trail!vars
<1>. DEFINE Asked == \E n \in Numbers : refund[n] # "none"
<1>1. CASE Placing \/ Crash
  BY <1>1 DEF Placing, CreateSession, CreatePayment, CreatePaymentFails, Crash
<1>2. CASE Webhook
  BY <1>2 DEF Webhook, WebhookIgnored, WebhookReads
<1>3. ASSUME NEW w \in Workers, Reads(w) \/ Abort(w)
      PROVE  UNCHANGED Trail!vars
  BY <1>3 DEF Reads, TransitionReads, CustomerCancelReads, CancelReads,
              RefundReads, ApproveReads, RejectReads, Begin, Abort
<1>4. ASSUME NEW w \in Workers,
             TransitionCommits(w) \/ CancelCommits(w) \/ RefundReadsNumber(w)
               \/ RefundNumberTaken(w)
      PROVE  UNCHANGED Trail!vars
  BY <1>4 DEF TransitionCommits, CancelCommits, RefundReadsNumber, RefundNumberTaken
<1>5. ASSUME NEW w \in Workers, WebhookCaptured(w) \/ WebhookFailed(w)
      PROVE  Trail!Settle
  <2>1. paymentState = "pending"
    BY <1>5, Ops DEF WebhookCaptured, WebhookFailed, LifecycleInv, CallsSound,
                     PaymentAgrees
  <2>. QED
    BY <1>5, <2>1 DEF WebhookCaptured, WebhookFailed, Trail!Settle
<1>6. ASSUME NEW w \in Workers, RefundCommits(w)
      PROVE  Trail!Ask
  <2>1. doing[w].number \in Numbers
    BY <1>6, CallFacts DEF RefundCommits, TypeOK
  <2>2. refund'[doing[w].number] # "none"
    BY <1>6, <2>1 DEF RefundCommits, TypeOK
  <2>3. paymentState \in {"paid", "refunded"} /\ UNCHANGED paymentState
    BY <1>6 DEF RefundCommits, LifecycleInv, CallsSound
  <2>. QED
    BY <2>1, <2>2, <2>3 DEF Trail!Ask
<1>7. ASSUME NEW w \in Workers, ApproveCommits(w) \/ RejectCommits(w)
      PROVE  Trail!Return \/ UNCHANGED Trail!vars
  <2>1. doing[w].number \in Numbers /\ refund[doing[w].number] # "none"
    BY <1>7, CallFacts DEF ApproveCommits, RejectCommits, TypeOK, LifecycleInv,
                           CallsSound
  <2>2. refund'[doing[w].number] # "none"
    BY <1>7, <2>1 DEF ApproveCommits, RejectCommits, TypeOK
  <2>3. Asked /\ Asked'
    BY <2>1, <2>2
  <2>4. paymentState \in {"paid", "refunded"}
    BY <2>1 DEF LifecycleInv, RefundsNeedMoney
  <2>5. paymentState' \in {paymentState, "refunded"}
    BY <1>7 DEF ApproveCommits, RejectCommits
  <2>. QED
    BY <2>3, <2>4, <2>5 DEF Trail!Return
<1>. QED
  BY <1>1, <1>2, <1>3, <1>4, <1>5, <1>6, <1>7 DEF Next, Writes, Trail!Next

\* The order implements PaymentTrail: its money is received at most once and
\* returned only after a refund request, for any number of concurrent calls.
THEOREM MoneyFollowsTrail == Spec => FollowsTrail
PROOF
<1>1. Init => Trail!Init
  BY DEF Init, Trail!Init
<1>. QED
  BY <1>1, TrailStep, TypeCorrect, LifecycleSafe, PTL DEF Spec, FollowsTrail, Trail!Spec

=============================================================================

---------------------------- MODULE ReturnsProofs ---------------------------
(***************************************************************************)
(* Theorems about Returns, for any order, any number of requests and of    *)
(* concurrent calls, with and without faults, and about the pages of       *)
(* ReturnDesk the calls come from.                                         *)
(***************************************************************************)
EXTENDS ReturnDesk, FiniteLaws

Busy == {"end", "release", "move", "verify", "complete"}

-----------------------------------------------------------------------------
(* Calls.                                                                  *)

\* A call carries what its kind needs.
LEMMA CallFacts ==
  ASSUME NEW c \in Calls
  PROVE  /\ c.op \in {"idle", "file", "selfCancel", "refund", "insertRefund"} \cup Busy
         /\ c.op = "idle" => c = Idle
         /\ c.op = "file" => c.method \in Methods /\ c.form \in Forms
         /\ c.op \notin {"idle", "file"} => c.return \in Numbers
         /\ c.op \in {"end", "release"} => c.target \in Ends /\ c.by \in Actors
         /\ c.op = "move" =>
              \/ c.target = "received" /\ c.stamp = "receivedAt"
              \/ /\ c.target \in {"approved", "pickup_scheduled",
                                  "store_dropoff_pending"}
                 /\ c.stamp = "approvedAt"
PROOF
<1>. USE DEF Idle, File, SelfCancel, End, Release, Move, Verify, Complete, Refund,
             InsertRefund, Busy
<1>1. CASE c \in {Idle} \cup {File(m, form) : m \in Methods, form \in Forms}
  BY <1>1
<1>2. CASE c \in {SelfCancel(r) : r \in Numbers} \cup {Complete(r) : r \in Numbers}
                 \cup {Refund(r) : r \in Numbers}
                 \cup {InsertRefund(r) : r \in Numbers}
  BY <1>2
<1>3. CASE c \in {End(r, target, by) : r \in Numbers, target \in Ends, by \in Actors}
  BY <1>3
<1>4. CASE c \in {Release(r, target, by, lines) : r \in Numbers, target \in Ends,
                    by \in Actors, lines \in SUBSET Lines}
  BY <1>4
<1>5. CASE c \in {Move(r, "received", "receivedAt") : r \in Numbers}
  BY <1>5
<1>6. CASE c \in {Move(r, target, "approvedAt") : r \in Numbers,
                    target \in {"approved", "pickup_scheduled",
                                "store_dropoff_pending"}}
  BY <1>6
<1>7. CASE c \in {Verify(r, put) : r \in Numbers, put \in SUBSET Lines}
  BY <1>7
<1>. QED
  BY <1>1, <1>2, <1>3, <1>4, <1>5, <1>6, <1>7 DEF Calls

\* The kind of each call and the request it is about.
LEMMA Ops ==
  /\ Idle.op = "idle"
  /\ \A m, form : File(m, form).op = "file"
  /\ \A r : /\ SelfCancel(r).op = "selfCancel" /\ SelfCancel(r).return = r
            /\ Complete(r).op = "complete" /\ Complete(r).return = r
            /\ Refund(r).op = "refund" /\ Refund(r).return = r
            /\ InsertRefund(r).op = "insertRefund" /\ InsertRefund(r).return = r
  /\ \A r, target, by : /\ End(r, target, by).op = "end"
                        /\ End(r, target, by).return = r
                        /\ End(r, target, by).target = target
  /\ \A r, target, by, lines : /\ Release(r, target, by, lines).op = "release"
                               /\ Release(r, target, by, lines).return = r
                               /\ Release(r, target, by, lines).lines = lines
  /\ \A r, target, stamp : /\ Move(r, target, stamp).op = "move"
                           /\ Move(r, target, stamp).return = r
                           /\ Move(r, target, stamp).target = target
  /\ \A r, put : /\ Verify(r, put).op = "verify" /\ Verify(r, put).return = r
PROOF
  BY DEF Idle, File, SelfCancel, End, Release, Move, Verify, Complete, Refund,
         InsertRefund

\* What handlers store in "doing" is a call.
LEMMA CallsAre ==
  /\ Idle \in Calls
  /\ \A m \in Methods, form \in Forms : File(m, form) \in Calls
  /\ \A r \in Numbers :
       /\ SelfCancel(r) \in Calls /\ Complete(r) \in Calls
       /\ Refund(r) \in Calls /\ InsertRefund(r) \in Calls
       /\ Move(r, "received", "receivedAt") \in Calls
       /\ \A target \in {"approved", "pickup_scheduled", "store_dropoff_pending"} :
            Move(r, target, "approvedAt") \in Calls
       /\ \A put \in SUBSET Lines : Verify(r, put) \in Calls
       /\ \A target \in Ends, by \in Actors :
            /\ End(r, target, by) \in Calls
            /\ \A lines \in SUBSET Lines : Release(r, target, by, lines) \in Calls
PROOF
  BY DEF Calls

\* Filed requests are numbers, and the next one is fresh.
LEMMA FiledNumbers ==
  ASSUME ControlTypeOK
  PROVE  /\ 1..filed \subseteq Numbers
         /\ filed < MaxReturns => filed + 1 \in Numbers
PROOF
  BY LimitsAssumption DEF ControlTypeOK, Numbers, LimitsAssumption

\* The lines of a request, and those that need a reservation, are lines.
LEMMA LinesOfForm ==
  ASSUME NEW form \in Forms \cup {<<>>}
  PROVE  DOMAIN form \in SUBSET Lines /\ Reserving(form) \in SUBSET Lines
PROOF
<1>1. DOMAIN form \in SUBSET Lines
  BY FormsAssumption DEF FormsAssumption
<1>. QED
  BY <1>1 DEF Reserving

-----------------------------------------------------------------------------
(* Types of everything but the counts of units, which are sums.            *)

\* Starting a call touches "doing" alone.
LEMMA BeginType ==
  ASSUME ControlTypeOK, NEW w \in Workers, NEW call \in Calls, Begin(w, call)
  PROVE  ControlTypeOK'
PROOF
<1>1. doing' \in [Workers -> Calls]
  BY DEF ControlTypeOK, Begin
<1>. QED
  BY <1>1 DEF ControlTypeOK, Begin, request, progress, history

\* So does a call that goes on, or ends, without a write.
Onward(w, call) ==
  /\ doing' = [doing EXCEPT ![w] = call]
  /\ stale' \in SUBSET stale
  /\ UNCHANGED <<request, progress, overtaken>>

LEMMA OnwardType ==
  ASSUME ControlTypeOK, NEW w \in Workers, NEW call \in Calls, Onward(w, call),
         refunded' \in SUBSET Numbers
  PROVE  ControlTypeOK'
PROOF
<1>1. doing' \in [Workers -> Calls]
  BY DEF ControlTypeOK, Onward
<1>. QED
  BY <1>1 DEF ControlTypeOK, Onward, request, progress

\* A commit keeps the types of the calls and of the history.
LEMMA CommitType ==
  ASSUME ControlTypeOK, NEW w \in Workers, NEW r \in Numbers, NEW call \in Calls,
         NEW others \in SUBSET Workers, Commit(w, r, call, others)
  PROVE  /\ doing' \in [Workers -> Calls]
         /\ stale' \in SUBSET Workers /\ overtaken' \in SUBSET Numbers
PROOF
  BY DEF ControlTypeOK, Commit

\* Every call that starts is well formed.
LEMMA BeginsAreCalls ==
  ASSUME ControlTypeOK, NEW w \in Workers,
         \/ FileReads(w)
         \/ \E r \in 1..filed : \/ CancelReads(w, r) \/ ApproveReads(w, r)
                                \/ ReceiveReads(w, r) \/ VerifyReads(w, r)
                                \/ CompleteReads(w, r)
                                \/ \E target \in Ends : EndReads(w, r, target)
  PROVE  \E call \in Calls : Begin(w, call)
PROOF
<1>1. CASE FileReads(w)
  BY <1>1, CallsAre DEF FileReads
<1>2. ASSUME NEW r \in 1..filed,
             CancelReads(w, r) \/ ReceiveReads(w, r) \/ CompleteReads(w, r)
      PROVE  \E call \in Calls : Begin(w, call)
  BY <1>2, FiledNumbers, CallsAre DEF CancelReads, ReceiveReads, CompleteReads
<1>3. ASSUME NEW r \in 1..filed, ApproveReads(w, r)
      PROVE  \E call \in Calls : Begin(w, call)
  <2>1. PICK hasSchedule \in BOOLEAN :
          Begin(w, Move(r, postApprovalState(method[r], hasSchedule), "approvedAt"))
    BY <1>3 DEF ApproveReads
  <2>2. postApprovalState(method[r], hasSchedule)
          \in {"approved", "pickup_scheduled", "store_dropoff_pending"}
    BY DEF postApprovalState
  <2>. QED
    BY <2>1, <2>2, FiledNumbers, CallsAre
<1>4. ASSUME NEW r \in 1..filed, VerifyReads(w, r)
      PROVE  \E call \in Calls : Begin(w, call)
  <2>1. r \in Numbers
    BY FiledNumbers
  <2>2. content[r] \in Forms \cup {<<>>}
    BY <2>1 DEF ControlTypeOK
  <2>3. DOMAIN content[r] \in SUBSET Lines
    BY <2>2, LinesOfForm
  <2>. QED
    BY <1>4, <2>1, <2>3, CallsAre DEF VerifyReads
<1>5. ASSUME NEW r \in 1..filed, NEW target \in Ends, EndReads(w, r, target)
      PROVE  \E call \in Calls : Begin(w, call)
  BY <1>5, FiledNumbers, CallsAre DEF EndReads, Actors
<1>. QED
  BY <1>1, <1>2, <1>3, <1>4, <1>5

\* Every step keeps the types.
LEMMA ControlTypeStep == ControlTypeOK /\ [Next]_vars => ControlTypeOK'
PROOF
<1>. SUFFICES ASSUME ControlTypeOK, [Next]_vars
              PROVE  ControlTypeOK'
  OBVIOUS
<1>1. ASSUME NEW w \in Workers,
             \/ FileReads(w)
             \/ \E r \in 1..filed : \/ CancelReads(w, r) \/ ApproveReads(w, r)
                                    \/ ReceiveReads(w, r) \/ VerifyReads(w, r)
                                    \/ CompleteReads(w, r)
                                    \/ \E target \in Ends : EndReads(w, r, target)
      PROVE  ControlTypeOK'
  BY <1>1, BeginsAreCalls, BeginType
<1>2. ASSUME NEW w \in Workers, FileCommits(w)
      PROVE  ControlTypeOK'
  <2>. DEFINE r == filed + 1
  <2>1. r \in Numbers /\ filed' \in 0..MaxReturns
    BY <1>2, FiledNumbers, LimitsAssumption
       DEF FileCommits, ControlTypeOK, LimitsAssumption
  <2>2. doing[w].form \in Forms /\ doing[w].method \in Methods
    BY <1>2, CallFacts DEF FileCommits, ControlTypeOK
  <2>3. Reserving(doing[w].form) \in SUBSET Lines
    BY <2>2, LinesOfForm
  <2>4. Commit(w, r, Idle, Filing) /\ Filing \in SUBSET Workers
    BY <1>2 DEF FileCommits, Filing
  <2>5. /\ doing' \in [Workers -> Calls]
        /\ stale' \in SUBSET Workers /\ overtaken' \in SUBSET Numbers
    BY <2>1, <2>4, CommitType, CallsAre
  <2>. QED
    BY <1>2, <2>1, <2>2, <2>3, <2>5 DEF FileCommits, ControlTypeOK, States
<1>3. ASSUME NEW w \in Workers, ApplyCancelReads(w)
      PROVE  ControlTypeOK'
  <2>. DEFINE call == End(doing[w].return, "cancelled", "customer")
  <2>1. call \in Calls
    BY <1>3, CallFacts, CallsAre DEF ApplyCancelReads, ControlTypeOK, Ends, Actors
  <2>2. Onward(w, call) /\ refunded' = refunded
    BY <1>3 DEF ApplyCancelReads, Onward
  <2>. QED
    BY <2>1, <2>2, OnwardType DEF ControlTypeOK
<1>4. ASSUME NEW w \in Workers, ReleaseReads(w)
      PROVE  ControlTypeOK'
  <2>. DEFINE old == doing[w]
              call == Release(old.return, old.target, old.by, held[old.return])
  <2>1. old.return \in Numbers /\ old.target \in Ends /\ old.by \in Actors
    BY <1>4, CallFacts DEF ReleaseReads, ControlTypeOK
  <2>2. call \in Calls
    BY <2>1, CallsAre DEF ControlTypeOK
  <2>3. Onward(w, call) /\ refunded' = refunded
    BY <1>4 DEF ReleaseReads, Onward, history
  <2>. QED
    BY <2>2, <2>3, OnwardType DEF ControlTypeOK
<1>5. ASSUME NEW w \in Workers, RefundReads(w)
      PROVE  ControlTypeOK'
  <2>1. PICK r \in Numbers : Onward(w, InsertRefund(r)) /\ refunded' = refunded
    BY <1>5, CallFacts DEF RefundReads, Onward, history, ControlTypeOK
  <2>. QED
    BY <2>1, OnwardType, CallsAre DEF ControlTypeOK
<1>6. ASSUME NEW w \in Workers, RefundCommits(w) \/ RefundRefused(w) \/ Fails(w)
      PROVE  ControlTypeOK'
  <2>1. Onward(w, Idle)
    BY <1>6 DEF RefundCommits, RefundRefused, Fails, Onward
  <2>2. refunded' \in SUBSET Numbers
    BY <1>6, CallFacts DEF RefundCommits, RefundRefused, Fails, ControlTypeOK
  <2>. QED
    BY <2>1, <2>2, OnwardType, CallsAre
<1>7. ASSUME NEW w \in Workers,
             ReleaseCommits(w) \/ MoveCommits(w) \/ VerifyCommits(w) \/ CompleteCommits(w)
      PROVE  ControlTypeOK'
  <2>. DEFINE r == doing[w].return
  <2>1. r \in Numbers
    BY <1>7, CallFacts DEF ReleaseCommits, MoveCommits, VerifyCommits,
                           CompleteCommits, ControlTypeOK
  <2>2. /\ doing' \in [Workers -> Calls]
        /\ stale' \in SUBSET Workers /\ overtaken' \in SUBSET Numbers
    <3>1. PICK call \in {Idle, Refund(r)} : Commit(w, r, call, Handling(r))
      BY <1>7 DEF ReleaseCommits, MoveCommits, VerifyCommits, CompleteCommits
    <3>2. Handling(r) \in SUBSET Workers
      BY DEF Handling
    <3>. QED
      BY <2>1, <3>1, <3>2, CommitType, CallsAre
  <2>3. CASE ReleaseCommits(w)
    <3>1. doing[w].target \in Ends
      BY <2>3, CallFacts DEF ReleaseCommits, ControlTypeOK
    <3>. QED
      BY <2>1, <2>2, <2>3, <3>1
         DEF ReleaseCommits, ControlTypeOK, request, Ends, States, Closed
  <2>4. CASE MoveCommits(w)
    <3>1. /\ doing[w].target \in States
          /\ doing[w].stamp \in {"approvedAt", "receivedAt"}
      BY <2>4, CallFacts DEF MoveCommits, ControlTypeOK, States
    <3>. QED
      BY <2>1, <2>2, <2>4, <3>1 DEF MoveCommits, ControlTypeOK, request
  <2>5. CASE VerifyCommits(w)
    BY <2>1, <2>2, <2>5 DEF VerifyCommits, ControlTypeOK, request, States
  <2>6. CASE CompleteCommits(w)
    BY <2>1, <2>2, <2>6 DEF CompleteCommits, ControlTypeOK, request, States, Closed
  <2>. QED
    BY <1>7, <2>3, <2>4, <2>5, <2>6
<1>8. CASE UNCHANGED vars
  BY <1>8 DEF vars, ControlTypeOK, request, progress, history
<1>. QED
  BY <1>1, <1>2, <1>3, <1>4, <1>5, <1>6, <1>7, <1>8 DEF Next, Customer, Staff

LEMMA ControlTypeInit == Init => ControlTypeOK
PROOF
  BY LimitsAssumption, CallsAre DEF Init, ControlTypeOK, LimitsAssumption, Numbers

\* Every row and every call in progress keeps its type.
THEOREM ControlTyped == Spec => []ControlTypeOK
PROOF
  BY ControlTypeInit, ControlTypeStep, PTL DEF Spec

-----------------------------------------------------------------------------
(* Stages.                                                                 *)

\* A call that starts has read a request as it is now.
LEMMA BeginStages ==
  ASSUME ControlTypeOK, StagesInv, NEW w \in Workers, NEW call, Begin(w, call),
         call.op = "file" \/ call.return \in 1..filed,
         CallStamped(call),
         call.op \in Busy => state[call.return] \notin Closed
  PROVE  StagesInv'
PROOF
<1>. USE DEF request, progress, history
<1>1. \A x \in Workers : doing'[x] = IF x = w THEN call ELSE doing[x]
  BY DEF Begin, ControlTypeOK
<1>2. Unfiled' /\ (\A x \in Workers : CallStamped(doing[x])')
  BY <1>1 DEF Begin, StagesInv, Unfiled, CallStamped
<1>3. (\A r \in Numbers : StateStamped(r)') /\ NoStageSkipped'
  BY DEF Begin, StagesInv, StateStamped, NoStageSkipped, StagesInOrder
<1>4. FreshCalls'
  BY <1>1 DEF Begin, StagesInv, FreshCalls, Busy
<1>. QED
  BY <1>2, <1>3, <1>4 DEF StagesInv

\* Going on, or ending, without a write.
LEMMA OnwardStages ==
  ASSUME ControlTypeOK, StagesInv, NEW w \in Workers, NEW call, Onward(w, call),
         call.op \in {"idle", "end", "release", "insertRefund"},
         call.op # "idle" => /\ call.return = doing[w].return
                             /\ doing[w].op \notin {"idle", "file"},
         call.op \in Busy /\ w \notin stale' => state[call.return] \notin Closed,
         \A x \in stale : x = w \/ x \in stale'
  PROVE  StagesInv'
PROOF
<1>. USE DEF request, progress
<1>1. \A x \in Workers : doing'[x] = IF x = w THEN call ELSE doing[x]
  BY DEF Onward, ControlTypeOK
<1>2. Unfiled'
  BY <1>1 DEF Onward, StagesInv, Unfiled
<1>3. \A x \in Workers : CallStamped(doing[x])'
  BY <1>1 DEF Onward, StagesInv, CallStamped
<1>4. (\A r \in Numbers : StateStamped(r)') /\ NoStageSkipped'
  BY DEF Onward, StagesInv, StateStamped, NoStageSkipped, StagesInOrder
<1>5. FreshCalls'
  <2>. SUFFICES ASSUME NEW x \in Workers \ stale', doing'[x].op \in Busy
                PROVE  state'[doing'[x].return] \notin Closed
    BY DEF FreshCalls, Busy
  <2>1. CASE x = w
    BY <2>1, <1>1 DEF Onward, Busy
  <2>2. CASE x # w
    <3>1. x \in Workers \ stale /\ doing'[x] = doing[x]
      BY <2>2, <1>1
    <3>. QED
      BY <3>1 DEF Onward, StagesInv, FreshCalls, Busy
  <2>. QED
    BY <2>1, <2>2
<1>. QED
  BY <1>2, <1>3, <1>4, <1>5 DEF StagesInv

\* A commit on r that leaves r well stamped and takes no stamp away.  The
\* other calls about r become stale, so only their stamps are left to them.
LEMMA CommitStages ==
  ASSUME ControlTypeOK, StagesInv, NEW w \in Workers, NEW r \in 1..filed,
         NEW call \in {Idle, Refund(r)}, Commit(w, r, call, Handling(r)),
         NEW target, state' = [state EXCEPT ![r] = target],
         UNCHANGED <<filed, method>>,
         \A q \in Numbers : q # r => stamps'[q] = stamps[q],
         stamps[r] \subseteq stamps'[r],
         StateStamped(r)', StagesInOrder(r)'
  PROVE  StagesInv'
PROOF
<1>1. r \in Numbers
  BY FiledNumbers
<1>2. \A x \in Workers : doing'[x] = IF x = w THEN call ELSE doing[x]
  BY DEF Commit, ControlTypeOK
<1>3. call.op \in {"idle", "refund"} /\ (call.op = "refund" => call.return = r)
  BY Ops
<1>4. \A q \in Numbers : q # r => state'[q] = state[q]
  BY DEF ControlTypeOK
<1>5. Unfiled'
  BY <1>1, <1>2, <1>3, <1>4, LimitsAssumption
     DEF StagesInv, Unfiled, ControlTypeOK, Numbers, LimitsAssumption
<1>6. \A q \in Numbers : StateStamped(q)' /\ StagesInOrder(q)'
  BY <1>4 DEF StagesInv, StateStamped, NoStageSkipped, StagesInOrder
<1>7. \A q \in Numbers : stamps[q] \subseteq stamps'[q]
  OBVIOUS
<1>8. \A x \in Workers : CallStamped(doing[x])'
  <2>. SUFFICES ASSUME NEW x \in Workers
                PROVE  CallStamped(doing[x])'
    OBVIOUS
  <2>1. CASE x = w
    BY <2>1, <1>2, <1>3 DEF CallStamped
  <2>2. CASE x # w
    <3>1. CallStamped(doing[x]) /\ doing'[x] = doing[x]
      BY <2>2, <1>2 DEF StagesInv
    <3>2. doing[x].op \in {"move", "verify", "complete"} =>
            doing[x].return \in Numbers
      BY CallFacts DEF ControlTypeOK
    <3>. QED
      BY <3>1, <3>2, <1>7 DEF CallStamped
  <2>. QED
    BY <2>1, <2>2
<1>9. FreshCalls'
  <2>. SUFFICES ASSUME NEW x \in Workers \ stale', doing'[x].op \in Busy
                PROVE  state'[doing'[x].return] \notin Closed
    BY DEF FreshCalls, Busy
  <2>1. x # w
    BY <1>2, <1>3 DEF Busy
  <2>2. doing'[x] = doing[x] /\ doing[x].op \in Busy
    BY <2>1, <1>2
  <2>3. x \notin stale /\ doing[x].return # r
    BY <2>1, <2>2 DEF Commit, Handling, Busy
  <2>4. doing[x].return \in Numbers
    BY <2>2, CallFacts DEF ControlTypeOK, Busy
  <2>5. state[doing[x].return] \notin Closed
    BY <2>2, <2>3 DEF StagesInv, FreshCalls, Busy
  <2>. QED
    BY <1>4, <2>2, <2>3, <2>4, <2>5
<1>. QED
  BY <1>5, <1>6, <1>8, <1>9 DEF StagesInv, NoStageSkipped

\* What each write leaves in the request it is about.
LEMMA WritesStamped ==
  ASSUME ControlTypeOK, StagesInv, NEW w \in Workers,
         ReleaseCommits(w) \/ MoveCommits(w) \/ VerifyCommits(w) \/ CompleteCommits(w)
  PROVE  StagesInv'
PROOF
<1>. USE DEF request
<1>0. PICK r \in 1..filed : r = doing[w].return
  BY DEF ReleaseCommits, MoveCommits, VerifyCommits, CompleteCommits, StagesInv, Unfiled
<1>1. r \in 1..filed /\ r \in Numbers
  BY FiledNumbers
<1>2. PICK call \in {Idle, Refund(r)} : Commit(w, r, call, Handling(r))
  BY <1>0 DEF ReleaseCommits, MoveCommits, VerifyCommits, CompleteCommits
<1>3. /\ UNCHANGED <<filed, method>>
      /\ \A q \in Numbers : q # r => stamps'[q] = stamps[q]
      /\ stamps[r] \subseteq stamps'[r]
  BY <1>0, <1>1 DEF ReleaseCommits, MoveCommits, VerifyCommits, CompleteCommits,
                     ControlTypeOK
<1>4. StateStamped(r) /\ StagesInOrder(r) /\ CallStamped(doing[w])
  BY <1>1 DEF StagesInv, NoStageSkipped
<1>5. CASE ReleaseCommits(w)
  <2>1. doing[w].target \in {"rejected", "cancelled"}
    BY <1>5, CallFacts DEF ReleaseCommits, ControlTypeOK, Ends
  <2>2. /\ state' = [state EXCEPT ![r] = doing[w].target]
        /\ stamps' = stamps /\ method' = method
    BY <1>0, <1>5 DEF ReleaseCommits
  <2>3. StateStamped(r)' /\ StagesInOrder(r)'
    BY <2>1, <2>2, <1>1, <1>4 DEF StateStamped, StagesInOrder, ControlTypeOK
  <2>. QED
    BY <1>1, <1>2, <1>3, <2>2, <2>3, CommitStages
<1>6. CASE MoveCommits(w)
  <2>1. \/ doing[w].target = "received" /\ doing[w].stamp = "receivedAt"
        \/ /\ doing[w].target \in {"approved", "pickup_scheduled",
                                   "store_dropoff_pending"}
           /\ doing[w].stamp = "approvedAt"
    BY <1>6, CallFacts DEF MoveCommits, ControlTypeOK
  <2>2. /\ state' = [state EXCEPT ![r] = doing[w].target]
        /\ stamps' = [stamps EXCEPT ![r] = @ \cup {doing[w].stamp}]
        /\ method' = method /\ doing[w].op = "move"
    BY <1>0, <1>6 DEF MoveCommits
  <2>3. /\ state'[r] = doing[w].target
        /\ stamps'[r] = stamps[r] \cup {doing[w].stamp}
    BY <2>2, <1>1 DEF ControlTypeOK
  <2>4. StateStamped(r)' /\ StagesInOrder(r)'
    <3>1. CASE doing[w].target = "received"
      BY <3>1, <2>1, <2>2, <2>3, <1>0, <1>4 DEF StateStamped, StagesInOrder, CallStamped
    <3>2. CASE doing[w].target = "store_dropoff_pending"
      BY <3>2, <2>1, <2>2, <2>3, <1>0, <1>4 DEF StateStamped, StagesInOrder, CallStamped
    <3>3. CASE doing[w].target \in {"approved", "pickup_scheduled"}
      BY <3>3, <2>1, <2>2, <2>3, <1>4 DEF StateStamped, StagesInOrder
    <3>. QED
      BY <2>1, <3>1, <3>2, <3>3
  <2>. QED
    BY <1>1, <1>2, <1>3, <2>2, <2>4, CommitStages
<1>7. CASE VerifyCommits(w)
  <2>1. /\ state' = [state EXCEPT ![r] = "verified"]
        /\ stamps' = [stamps EXCEPT ![r] = @ \cup {"verifiedAt"}]
        /\ method' = method /\ doing[w].op = "verify"
    BY <1>0, <1>7 DEF VerifyCommits
  <2>2. state'[r] = "verified" /\ stamps'[r] = stamps[r] \cup {"verifiedAt"}
    BY <2>1, <1>1 DEF ControlTypeOK
  <2>3. StateStamped(r)' /\ StagesInOrder(r)'
    BY <2>1, <2>2, <1>0, <1>4 DEF StateStamped, StagesInOrder, CallStamped
  <2>. QED
    BY <1>1, <1>2, <1>3, <2>1, <2>3, CommitStages
<1>8. CASE CompleteCommits(w)
  <2>1. /\ state' = [state EXCEPT ![r] = "completed"]
        /\ stamps' = [stamps EXCEPT ![r] = @ \cup {"completedAt"}]
        /\ method' = method /\ doing[w].op = "complete"
    BY <1>0, <1>8 DEF CompleteCommits
  <2>2. state'[r] = "completed" /\ stamps'[r] = stamps[r] \cup {"completedAt"}
    BY <2>1, <1>1 DEF ControlTypeOK
  <2>3. StateStamped(r)' /\ StagesInOrder(r)'
    BY <2>1, <2>2, <1>0, <1>4 DEF StateStamped, StagesInOrder, CallStamped
  <2>. QED
    BY <1>1, <1>2, <1>3, <2>1, <2>3, CommitStages
<1>. QED
  BY <1>5, <1>6, <1>7, <1>8

\* A new request is blank but for its state, and no call knows it yet.
LEMMA FileStages ==
  ASSUME ControlTypeOK, StagesInv, NEW w \in Workers, FileCommits(w)
  PROVE  StagesInv'
PROOF
<1>. DEFINE r == filed + 1
<1>1. r \in Numbers /\ r \notin 1..filed
  BY FiledNumbers DEF FileCommits, ControlTypeOK
<1>2. /\ filed' = r /\ stamps' = stamps
      /\ state' = [state EXCEPT ![r] = "requested"]
      /\ \A q \in Numbers : q # r => method'[q] = method[q]
      /\ Commit(w, r, Idle, Filing)
  BY DEF FileCommits, ControlTypeOK
<1>3. \A x \in Workers : doing'[x] = IF x = w THEN Idle ELSE doing[x]
  BY <1>2 DEF Commit, ControlTypeOK
<1>4. state'[r] = "requested" /\ (\A q \in Numbers : q # r => state'[q] = state[q])
  BY <1>1, <1>2 DEF ControlTypeOK
<1>5. stamps[r] = {}
  BY <1>1, LimitsAssumption DEF StagesInv, Unfiled, ControlTypeOK, Numbers, LimitsAssumption
<1>6. Unfiled'
  <2>1. \A q \in Numbers : q > r => state'[q] = "none" /\ stamps'[q] = {}
    BY <1>2, <1>4, LimitsAssumption
       DEF StagesInv, Unfiled, ControlTypeOK, Numbers, LimitsAssumption
  <2>2. \A x \in Workers : doing'[x].op \notin {"idle", "file"} =>
                             doing'[x].return \in 1..r
    BY <1>3, Ops DEF StagesInv, Unfiled, ControlTypeOK
  <2>. QED
    BY <1>2, <2>1, <2>2 DEF Unfiled
<1>7. \A q \in Numbers : StateStamped(q)' /\ StagesInOrder(q)'
  BY <1>2, <1>4, <1>5 DEF StagesInv, StateStamped, NoStageSkipped, StagesInOrder
<1>8. \A x \in Workers : CallStamped(doing[x])'
  <2>. SUFFICES ASSUME NEW x \in Workers
                PROVE  CallStamped(doing[x])'
    OBVIOUS
  <2>1. CASE x = w
    BY <2>1, <1>3, Ops DEF CallStamped
  <2>2. CASE x # w
    <3>1. CallStamped(doing[x]) /\ doing'[x] = doing[x]
      BY <2>2, <1>3 DEF StagesInv
    <3>2. doing[x].op \in {"move", "verify", "complete"} =>
            doing[x].return \in 1..filed
      BY DEF StagesInv, Unfiled
    <3>3. doing[x].op \in {"move", "verify", "complete"} =>
            method'[doing[x].return] = method[doing[x].return]
      BY <3>2, <1>1, <1>2, FiledNumbers
    <3>. QED
      BY <3>1, <3>3, <1>2 DEF CallStamped
  <2>. QED
    BY <2>1, <2>2
<1>9. FreshCalls'
  <2>. SUFFICES ASSUME NEW x \in Workers \ stale', doing'[x].op \in Busy
                PROVE  state'[doing'[x].return] \notin Closed
    BY DEF FreshCalls, Busy
  <2>1. x # w /\ doing'[x] = doing[x]
    BY <1>3, Ops DEF Busy
  <2>2. x \notin stale
    BY <2>1, <1>2 DEF Commit
  <2>3. doing[x].return \in 1..filed /\ doing[x].return \in Numbers
    BY <2>1, FiledNumbers DEF StagesInv, Unfiled, Busy
  <2>4. state[doing[x].return] \notin Closed
    BY <2>1, <2>2 DEF StagesInv, FreshCalls, Busy
  <2>. QED
    BY <1>1, <1>4, <2>1, <2>3, <2>4
<1>. QED
  BY <1>6, <1>7, <1>8, <1>9 DEF StagesInv, NoStageSkipped

\* What the table lets a handler start from is never a closed request.
LEMMA NeverFromClosed ==
  \A from \in Closed : \A to : ~canTransition(from, to)
PROOF
  BY DEF Closed, canTransition, NEXT, Forward, Cancellable

\* Every step keeps the stages in order.
LEMMA StagesStep == ControlTypeOK /\ StagesInv /\ [Next]_vars => StagesInv'
PROOF
<1>. SUFFICES ASSUME ControlTypeOK, StagesInv, [Next]_vars
              PROVE  StagesInv'
  OBVIOUS
<1>1. ASSUME NEW w \in Workers, FileReads(w)
      PROVE  StagesInv'
  <2>1. PICK m \in Methods, form \in Forms : Begin(w, File(m, form))
    BY <1>1 DEF FileReads
  <2>2. File(m, form).op = "file"
    BY Ops
  <2>. QED
    BY <2>1, <2>2, BeginStages DEF CallStamped, Busy
<1>2. ASSUME NEW w \in Workers, NEW r \in 1..filed,
             \/ CancelReads(w, r) \/ ApproveReads(w, r) \/ ReceiveReads(w, r)
             \/ VerifyReads(w, r) \/ CompleteReads(w, r)
             \/ \E target \in Ends : EndReads(w, r, target)
      PROVE  StagesInv'
  <2>1. r \in Numbers /\ StateStamped(r) /\ StagesInOrder(r)
    BY FiledNumbers DEF StagesInv, NoStageSkipped
  <2>2. CASE CancelReads(w, r)
    BY <2>2, Ops, BeginStages DEF CancelReads, CallStamped, Busy
  <2>3. CASE ApproveReads(w, r)
    <3>1. PICK hasSchedule \in BOOLEAN :
            Begin(w, Move(r, postApprovalState(method[r], hasSchedule), "approvedAt"))
      BY <2>3 DEF ApproveReads
    <3>. DEFINE target == postApprovalState(method[r], hasSchedule)
                call == Move(r, target, "approvedAt")
    <3>2. target # "received" /\
          (target = "store_dropoff_pending" => method[r] = "store_dropoff")
      BY DEF postApprovalState
    <3>3. call.op = "move" /\ call.return = r /\ call.target = target
      BY Ops
    <3>4. CallStamped(call)
      BY <3>2, <3>3 DEF CallStamped
    <3>5. state[r] \notin Closed
      BY <2>3, NeverFromClosed DEF ApproveReads
    <3>. QED
      BY <3>1, <3>3, <3>4, <3>5, BeginStages
  <2>4. CASE ReceiveReads(w, r)
    <3>1. state[r] \in {"store_dropoff_pending", "in_transit"}
      BY <2>4 DEF ReceiveReads, canTransition, NEXT, Forward, Cancellable
    <3>2. "approvedAt" \in stamps[r] /\ method[r] = "store_dropoff"
      BY <3>1, <2>1 DEF StateStamped
    <3>. DEFINE call == Move(r, "received", "receivedAt")
    <3>3. call.op = "move" /\ call.return = r /\ call.target = "received"
      BY Ops
    <3>. QED
      BY <2>4, <3>1, <3>2, <3>3, BeginStages DEF ReceiveReads, CallStamped, Closed
  <2>5. CASE VerifyReads(w, r)
    <3>1. PICK put : Begin(w, Verify(r, put))
      BY <2>5 DEF VerifyReads
    <3>2. state[r] = "received"
      BY <2>5 DEF VerifyReads, canTransition, NEXT, Forward, Cancellable
    <3>3. "receivedAt" \in stamps[r]
      BY <3>2, <2>1 DEF StateStamped
    <3>4. Verify(r, put).op = "verify" /\ Verify(r, put).return = r
      BY Ops
    <3>. QED
      BY <3>1, <3>2, <3>3, <3>4, BeginStages DEF CallStamped, Closed
  <2>6. CASE CompleteReads(w, r)
    <3>1. state[r] = "verified"
      BY <2>6 DEF CompleteReads, canTransition, NEXT, Forward, Cancellable
    <3>2. "verifiedAt" \in stamps[r]
      BY <3>1, <2>1 DEF StateStamped
    <3>3. Complete(r).op = "complete" /\ Complete(r).return = r
      BY Ops
    <3>. QED
      BY <2>6, <3>1, <3>2, <3>3, BeginStages DEF CompleteReads, CallStamped, Closed
  <2>7. ASSUME NEW target \in Ends, EndReads(w, r, target)
        PROVE  StagesInv'
    <3>. DEFINE call == End(r, target, "staff")
    <3>1. call.op = "end" /\ call.return = r
      BY Ops
    <3>2. state[r] \notin Closed
      BY <2>7, NeverFromClosed DEF EndReads
    <3>. QED
      BY <2>7, <3>1, <3>2, BeginStages DEF EndReads, CallStamped
  <2>. QED
    BY <1>2, <2>2, <2>3, <2>4, <2>5, <2>6, <2>7
<1>3. ASSUME NEW w \in Workers, FileCommits(w)
      PROVE  StagesInv'
  BY <1>3, FileStages
<1>4. ASSUME NEW w \in Workers, ApplyCancelReads(w)
      PROVE  StagesInv'
  <2>. DEFINE r == doing[w].return
              call == End(r, "cancelled", "customer")
  <2>1. call.op = "end" /\ call.return = r
    BY Ops
  <2>2. Onward(w, call) /\ (\A x \in stale : x = w \/ x \in stale')
    BY <1>4 DEF ApplyCancelReads, Onward
  <2>3. state[r] \notin Closed /\ doing[w].op = "selfCancel"
    BY <1>4, NeverFromClosed DEF ApplyCancelReads
  <2>. QED
    BY <2>1, <2>2, <2>3, OnwardStages
<1>5. ASSUME NEW w \in Workers, ReleaseReads(w)
      PROVE  StagesInv'
  <2>. DEFINE old == doing[w]
              call == Release(old.return, old.target, old.by, held[old.return])
  <2>1. call.op = "release" /\ call.return = old.return
    BY Ops
  <2>2. /\ Onward(w, call) /\ old.op = "end" /\ stale' = stale
    BY <1>5 DEF ReleaseReads, Onward, history
  <2>3. w \notin stale => state[old.return] \notin Closed
    BY <2>2 DEF StagesInv, FreshCalls
  <2>. QED
    BY <2>1, <2>2, <2>3, OnwardStages
<1>6. ASSUME NEW w \in Workers, RefundReads(w)
      PROVE  StagesInv'
  <2>1. PICK call : call = InsertRefund(doing[w].return)
    OBVIOUS
  <2>2. call.op = "insertRefund" /\ call.return = doing[w].return
    BY <2>1, Ops
  <2>3. Onward(w, call) /\ doing[w].op = "refund" /\ stale' = stale
    BY <1>6, <2>1 DEF RefundReads, Onward, history
  <2>. QED
    BY <2>2, <2>3, OnwardStages DEF Busy
<1>7. ASSUME NEW w \in Workers, RefundCommits(w) \/ RefundRefused(w) \/ Fails(w)
      PROVE  StagesInv'
  <2>1. Onward(w, Idle) /\ (\A x \in stale : x = w \/ x \in stale')
    BY <1>7 DEF RefundCommits, RefundRefused, Fails, Onward
  <2>. QED
    BY <2>1, Ops, OnwardStages DEF Busy
<1>8. ASSUME NEW w \in Workers,
             ReleaseCommits(w) \/ MoveCommits(w) \/ VerifyCommits(w) \/ CompleteCommits(w)
      PROVE  StagesInv'
  BY <1>8, WritesStamped
<1>9. CASE UNCHANGED vars
  BY <1>9 DEF vars, request, progress, history, StagesInv, Unfiled, StateStamped,
              CallStamped, FreshCalls, NoStageSkipped, StagesInOrder
<1>. QED
  BY <1>1, <1>2, <1>3, <1>4, <1>5, <1>6, <1>7, <1>8, <1>9 DEF Next, Customer, Staff

LEMMA StagesInit == Init => StagesInv
PROOF
  BY Ops DEF Init, StagesInv, Unfiled, StateStamped, CallStamped, FreshCalls,
             NoStageSkipped, StagesInOrder

\* Whatever calls race, requests go through their stages in order and what a
\* call is about to write follows from what it read.
THEOREM StagesSafe == Spec => []StagesInv
PROOF
  BY StagesInit, StagesStep, ControlTyped, PTL DEF Spec

\* No request skips a stage.
COROLLARY StagesKept == Spec => []NoStageSkipped
PROOF
<1>1. StagesInv => NoStageSkipped
  BY DEF StagesInv
<1>. QED
  BY <1>1, StagesSafe, PTL

\* A step moves a closed request only if it is the write of a stale call.
LEMMA ClosedStep ==
  ASSUME ControlTypeOK, StagesInv, [Next]_vars,
         NEW r \in Numbers, state[r] \in Closed, r \notin overtaken'
  PROVE  state'[r] = state[r]
PROOF
<1>1. ASSUME NEW w \in Workers,
             ReleaseCommits(w) \/ MoveCommits(w) \/ VerifyCommits(w) \/ CompleteCommits(w)
      PROVE  state'[r] = state[r]
  <2>. DEFINE q == doing[w].return
  <2>1. PICK t : state' = [state EXCEPT ![q] = t]
    BY <1>1 DEF ReleaseCommits, MoveCommits, VerifyCommits, CompleteCommits
  <2>2. doing[w].op \in {"release", "move", "verify", "complete"}
    BY <1>1 DEF ReleaseCommits, MoveCommits, VerifyCommits, CompleteCommits
  <2>3. w \in stale => q \in overtaken'
    BY <1>1 DEF ReleaseCommits, MoveCommits, VerifyCommits, CompleteCommits, Commit
  <2>4. w \notin stale => state[q] \notin Closed
    BY <2>2 DEF StagesInv, FreshCalls
  <2>5. q # r
    BY <2>3, <2>4
  <2>. QED
    BY <2>1, <2>5 DEF ControlTypeOK
<1>2. ASSUME NEW w \in Workers, FileCommits(w)
      PROVE  state'[r] = state[r]
  <2>1. filed + 1 \in Numbers /\ filed + 1 > filed
    BY <1>2, FiledNumbers DEF FileCommits, ControlTypeOK
  <2>2. state[filed + 1] = "none"
    BY <2>1 DEF StagesInv, Unfiled
  <2>3. r # filed + 1
    BY <2>2 DEF Closed
  <2>. QED
    BY <1>2, <2>3 DEF FileCommits, ControlTypeOK
<1>3. CASE UNCHANGED state
  BY <1>3
<1>4. ASSUME NEW w \in Workers, Customer(w) \/ Staff(w) \/ Fails(w)
      PROVE  \/ UNCHANGED state \/ FileCommits(w)
             \/ ReleaseCommits(w) \/ MoveCommits(w) \/ VerifyCommits(w)
             \/ CompleteCommits(w)
  BY <1>4 DEF Customer, Staff, Fails, FileReads, ApplyCancelReads, CancelReads,
              ReleaseReads, RefundReads, RefundCommits, RefundRefused, ApproveReads,
              ReceiveReads,
              VerifyReads, CompleteReads, EndReads, Begin, progress
<1>. QED
  BY <1>1, <1>2, <1>3, <1>4 DEF Next, vars, progress

\* A closed request stays as it was closed unless a stale call overwrites it.
THEOREM ClosedIsFinal == Spec => ClosedStaysClosed
PROOF
<1>1. ControlTypeOK /\ StagesInv /\ [Next]_vars =>
        [\A r \in Numbers :
           state[r] \in Closed /\ r \notin overtaken' => state'[r] = state[r]]_vars
  BY ClosedStep
<1>. QED
  BY <1>1, StagesSafe, ControlTyped, PTL DEF Spec, ClosedStaysClosed

-----------------------------------------------------------------------------
(* Reservations.                                                           *)

\* A call that is about to release has read every line that is stamped now:
\* stamps only go.
ReleaseCovers(w) == doing[w].op = "release" =>
  /\ held[doing[w].return] \subseteq doing[w].lines
  /\ doing[w].lines \subseteq Reserving(content[doing[w].return])

\* Unless a stale call wrote, all reserving lines of an open request are
\* stamped and a fresh call has read exactly the stamps there are.
StampsExact ==
  /\ \A r \in Numbers : state[r] \notin Closed => held[r] = Reserving(content[r])
  /\ \A w \in Workers \ stale : doing[w].op = "release" => doing[w].lines = held[doing[w].return]

StampsInv ==
  /\ \A r \in Numbers : held[r] \subseteq Reserving(content[r])
  /\ \A w \in Workers : ReleaseCovers(w)
  /\ \A r \in Numbers : state[r] \in Closed => held[r] = {}
  /\ overtaken = {} => StampsExact

UnitsInv ==
  /\ reserved \in [Variants -> Int]
  /\ \A v \in Variants : reserved[v] <= HeldUnits(v)
  /\ overtaken = {} => \A v \in Variants : reserved[v] = HeldUnits(v)

\* Handlers that write nothing about a request keep the stamps exact: what a
\* release read is what is stamped.
LEMMA QuietStamps ==
  ASSUME ControlTypeOK, StampsInv, NEW w \in Workers, NEW call \in Calls,
         doing' = [doing EXCEPT ![w] = call],
         UNCHANGED <<state, content, held, overtaken>>,
         stale \subseteq stale' \cup {w},
         call.op = "release" => call.lines = held[call.return]
  PROVE  StampsInv'
PROOF
<1>1. \A x \in Workers : doing'[x] = IF x = w THEN call ELSE doing[x]
  BY DEF ControlTypeOK
<1>2. call.op = "release" => held[call.return] \subseteq Reserving(content[call.return])
  BY CallFacts DEF StampsInv
<1>3. \A x \in Workers : ReleaseCovers(x)'
  BY <1>1, <1>2 DEF StampsInv, ReleaseCovers
<1>4. ASSUME overtaken' = {}
      PROVE  StampsExact'
  <2>1. StampsExact
    BY <1>4 DEF StampsInv
  <2>2. ASSUME NEW x \in Workers \ stale', doing'[x].op = "release"
        PROVE  doing'[x].lines = held'[doing'[x].return]
    BY <1>1, <2>1, <2>2 DEF StampsExact
  <2>. QED
    BY <2>1, <2>2 DEF StampsExact, Reserving
<1>. QED
  BY <1>3, <1>4 DEF StampsInv, Reserving

\* So does a write about r that leaves its stamps, if it leaves r open, or
\* takes them all, if it closes r.
LEMMA WriteStamps ==
  ASSUME ControlTypeOK, StampsInv, NEW w \in Workers, NEW r \in Numbers,
         NEW call \in Calls, call.op # "release",
         NEW target, NEW kept,
         state' = [state EXCEPT ![r] = target],
         held' = [held EXCEPT ![r] = kept],
         content' = content,
         Commit(w, r, call, Handling(r)),
         \/ target \in Closed /\ kept = {}
         \/ target \notin Closed /\ kept = held[r],
         target \notin Closed /\ w \notin stale => state[r] \notin Closed
  PROVE  StampsInv'
PROOF
<1>1. \A x \in Workers : doing'[x] = IF x = w THEN call ELSE doing[x]
  BY DEF ControlTypeOK, Commit
<1>2. \A q \in Numbers : /\ held'[q] = IF q = r THEN kept ELSE held[q]
                         /\ state'[q] = IF q = r THEN target ELSE state[q]
  BY DEF ControlTypeOK
<1>3. kept \subseteq held[r]
  OBVIOUS
<1>4. \A x \in Workers : doing'[x].op = "release" =>
        x # w /\ doing'[x] = doing[x] /\ doing[x].return \in Numbers
  BY <1>1, CallFacts DEF ControlTypeOK
<1>5. \A x \in Workers : ReleaseCovers(x)'
  BY <1>2, <1>3, <1>4 DEF StampsInv, ReleaseCovers, Reserving
<1>6. \A q \in Numbers : held'[q] \subseteq Reserving(content[q])
  BY <1>2, <1>3 DEF StampsInv
<1>7. \A q \in Numbers : state'[q] \in Closed => held'[q] = {}
  BY <1>2 DEF StampsInv
<1>8. ASSUME overtaken' = {}
      PROVE  StampsExact'
  <2>1. StampsExact /\ w \notin stale
    BY <1>8 DEF StampsInv, Commit
  <2>2. \A q \in Numbers : state'[q] \notin Closed => held'[q] = Reserving(content[q])
    BY <1>2, <2>1 DEF StampsExact
  <2>3. ASSUME NEW x \in Workers \ stale', doing'[x].op = "release"
        PROVE  doing'[x].lines = held'[doing'[x].return]
    <3>1. x # w /\ doing'[x] = doing[x] /\ doing[x].return \in Numbers
      BY <2>3, <1>4
    <3>2. x \notin stale /\ x \notin Handling(r)
      BY <3>1, <2>3 DEF Commit
    <3>3. doing[x].return # r
      BY <2>3, <3>1, <3>2 DEF Handling
    <3>. QED
      BY <1>2, <2>1, <2>3, <3>1, <3>2, <3>3 DEF StampsExact
  <2>. QED
    BY <2>2, <2>3 DEF StampsExact, Reserving
<1>. QED
  BY <1>5, <1>6, <1>7, <1>8 DEF StampsInv, Reserving

\* A new request has every reserving line stamped, and no call knows it yet.
LEMMA FileStamps ==
  ASSUME ControlTypeOK, StagesInv, StampsInv, NEW w \in Workers, FileCommits(w)
  PROVE  StampsInv'
PROOF
<1>. DEFINE r == filed + 1
            form == doing[w].form
<1>1. r \in Numbers /\ r > filed /\ filed \in Int
  BY FiledNumbers DEF FileCommits, ControlTypeOK
<1>2. \A q \in Numbers : /\ held'[q] = IF q = r THEN Reserving(form) ELSE held[q]
                         /\ content'[q] = IF q = r THEN form ELSE content[q]
                         /\ state'[q] = IF q = r THEN "requested" ELSE state[q]
  BY <1>1 DEF FileCommits, ControlTypeOK
<1>3. \A x \in Workers : doing'[x] = IF x = w THEN Idle ELSE doing[x]
  BY DEF FileCommits, Commit, ControlTypeOK
<1>4. \A x \in Workers : doing'[x].op = "release" =>
        /\ x # w /\ doing'[x] = doing[x]
        /\ doing[x].return \in Numbers /\ doing[x].return # r
  BY <1>1, <1>3, Ops, FiledNumbers DEF StagesInv, Unfiled
<1>5. \A q \in Numbers : held'[q] \subseteq Reserving(content'[q])
  BY <1>2 DEF StampsInv
<1>6. \A x \in Workers : ReleaseCovers(x)'
  <2>. SUFFICES ASSUME NEW x \in Workers, doing'[x].op = "release"
                PROVE  /\ held'[doing'[x].return] \subseteq doing'[x].lines
                       /\ doing'[x].lines \subseteq Reserving(content'[doing'[x].return])
    BY DEF ReleaseCovers, Reserving
  <2>. QED
    BY <1>2, <1>4 DEF StampsInv, ReleaseCovers
<1>7. \A q \in Numbers : state'[q] \in Closed => held'[q] = {}
  BY <1>2 DEF StampsInv, Closed
<1>8. ASSUME overtaken' = {}
      PROVE  StampsExact'
  <2>1. StampsExact
    BY <1>8 DEF StampsInv, FileCommits, Commit
  <2>2. \A q \in Numbers : state'[q] \notin Closed => held'[q] = Reserving(content'[q])
    BY <1>2, <2>1 DEF StampsExact
  <2>3. \A x \in Workers \ stale' : x # w => x \notin stale
    BY DEF FileCommits, Commit
  <2>4. \A x \in Workers \ stale' : doing'[x].op = "release" =>
          doing'[x].lines = held'[doing'[x].return]
    BY <1>2, <1>4, <2>1, <2>3 DEF StampsExact
  <2>. QED
    BY <2>2, <2>4 DEF StampsExact, Reserving
<1>. QED
  BY <1>5, <1>6, <1>7, <1>8 DEF StampsInv, Reserving

\* What the four writes of a request do to it, its calls and its stamps.
Writes(w, r, target, kept, call) ==
  /\ call \in Calls /\ call.op # "release"
  /\ state' = [state EXCEPT ![r] = target]
  /\ held' = [held EXCEPT ![r] = kept]
  /\ UNCHANGED request
  /\ Commit(w, r, call, Handling(r))
  /\ \/ target \in Closed /\ kept = {}
     \/ target \notin Closed /\ kept = held[r]
  /\ w \notin stale => state[r] \notin Closed

LEMMA WritesDo ==
  ASSUME ControlTypeOK, StagesInv, StampsInv, NEW w \in Workers,
         ReleaseCommits(w) \/ MoveCommits(w) \/ VerifyCommits(w) \/ CompleteCommits(w)
  PROVE  /\ doing[w].return \in 1..filed
         /\ \E target, kept, call : Writes(w, doing[w].return, target, kept, call)
PROOF
<1>. DEFINE r == doing[w].return
<1>1. /\ r \in 1..filed /\ r \in Numbers
      /\ w \notin stale => state[r] \notin Closed
  <2>1. doing[w].op \in {"release", "move", "verify", "complete"}
    BY DEF ReleaseCommits, MoveCommits, VerifyCommits, CompleteCommits
  <2>. QED
    BY <2>1, FiledNumbers DEF StagesInv, Unfiled, FreshCalls
<1>2. held[r] \subseteq Reserving(content[r])
  BY <1>1 DEF StampsInv
<1>3. Idle \in Calls /\ Idle.op # "release"
      /\ Refund(r) \in Calls /\ Refund(r).op # "release"
  BY <1>1, Ops, CallsAre
<1>4. CASE ReleaseCommits(w)
  <2>1. doing[w].target \in Closed
    BY <1>4, CallFacts DEF ReleaseCommits, ControlTypeOK, Ends, Closed
  <2>2. held[r] \ doing[w].lines = {}
    BY <1>4 DEF ReleaseCommits, StampsInv, ReleaseCovers
  <2>3. held' = [held EXCEPT ![r] = {}]
    BY <1>1, <1>4, <2>2 DEF ReleaseCommits, ControlTypeOK
  <2>. QED
    <3>1. Writes(w, r, doing[w].target, {}, Idle)
      BY <1>1, <1>3, <1>4, <2>1, <2>3 DEF ReleaseCommits, Writes
    <3>. QED
      BY <1>1, <3>1
<1>5. CASE MoveCommits(w)
  <2>1. doing[w].target \notin Closed
    BY <1>5, CallFacts DEF MoveCommits, ControlTypeOK, Closed
  <2>2. held' = [held EXCEPT ![r] = held[r]]
    BY <1>5 DEF MoveCommits, ControlTypeOK
  <2>. QED
    <3>1. Writes(w, r, doing[w].target, held[r], Idle)
      BY <1>1, <1>3, <1>5, <2>1, <2>2 DEF MoveCommits, Writes
    <3>. QED
      BY <1>1, <3>1
<1>6. CASE VerifyCommits(w)
  <2>1. held' = [held EXCEPT ![r] = held[r]]
    BY <1>6 DEF VerifyCommits, ControlTypeOK
  <2>2. PICK call \in {Idle, Refund(r)} : Commit(w, r, call, Handling(r))
    BY <1>6 DEF VerifyCommits
  <2>. QED
    <3>1. Writes(w, r, "verified", held[r], call)
      BY <1>1, <1>3, <1>6, <2>1, <2>2 DEF VerifyCommits, Closed, Writes
    <3>. QED
      BY <1>1, <3>1
<1>7. CASE CompleteCommits(w)
  <2>1. held[r] \ {l \in DOMAIN content[r] : content[r][l].action # "return"} = {}
    BY <1>2 DEF Reserving
  <2>2. held' = [held EXCEPT ![r] = {}]
    BY <1>1, <1>7, <2>1 DEF CompleteCommits, ControlTypeOK
  <2>. QED
    <3>1. Writes(w, r, "completed", {}, Idle)
      BY <1>1, <1>3, <1>7, <2>2 DEF CompleteCommits, Closed, Writes
    <3>. QED
      BY <1>1, <3>1
<1>. QED
  BY <1>4, <1>5, <1>6, <1>7

\* Handlers that read, or end, write neither requests nor reservations.
LEMMA OthersQuiet ==
  ASSUME ControlTypeOK, NEW w \in Workers, Customer(w) \/ Staff(w) \/ Fails(w)
  PROVE  \/ FileCommits(w)
         \/ ReleaseCommits(w) \/ MoveCommits(w) \/ VerifyCommits(w) \/ CompleteCommits(w)
         \/ /\ UNCHANGED <<request, progress, shelf, overtaken>>
            /\ stale \subseteq stale' \cup {w}
            /\ \E call \in Calls :
                 /\ doing' = [doing EXCEPT ![w] = call]
                 /\ call.op = "release" => call.lines = held[call.return]
PROOF
<1>1. ASSUME \/ FileReads(w)
             \/ \E r \in 1..filed : \/ CancelReads(w, r) \/ ApproveReads(w, r)
                                    \/ ReceiveReads(w, r) \/ VerifyReads(w, r)
                                    \/ CompleteReads(w, r)
                                    \/ \E target \in Ends : EndReads(w, r, target)
      PROVE  /\ UNCHANGED <<request, progress, shelf, history>>
             /\ \E call \in Calls : /\ doing' = [doing EXCEPT ![w] = call]
                                    /\ call.op # "release"
  <2>1. \E call : Begin(w, call) /\ call.op # "release"
    BY <1>1, Ops DEF FileReads, CancelReads, ApproveReads, ReceiveReads, VerifyReads,
                     CompleteReads, EndReads
  <2>2. PICK call : Begin(w, call) /\ call.op # "release"
    BY <2>1
  <2>3. PICK same \in Calls : Begin(w, same)
    BY <1>1, BeginsAreCalls
  <2>4. doing'[w] = call /\ doing'[w] = same
    BY <2>2, <2>3 DEF Begin, ControlTypeOK
  <2>. QED
    BY <2>2, <2>3, <2>4 DEF Begin
<1>2. ASSUME ApplyCancelReads(w)
      PROVE  \E call \in Calls : /\ doing' = [doing EXCEPT ![w] = call]
                                 /\ call.op # "release"
  <2>. DEFINE call == End(doing[w].return, "cancelled", "customer")
  <2>1. call \in Calls
    BY <1>2, CallFacts, CallsAre DEF ApplyCancelReads, ControlTypeOK, Ends, Actors
  <2>2. call.op # "release"
    BY Ops
  <2>3. doing' = [doing EXCEPT ![w] = call]
    BY <1>2 DEF ApplyCancelReads
  <2>. QED
    BY <2>1, <2>2, <2>3
<1>3. ASSUME ReleaseReads(w)
      PROVE  \E call \in Calls : /\ doing' = [doing EXCEPT ![w] = call]
                                 /\ call.lines = held[call.return]
  <2>. DEFINE old == doing[w]
              call == Release(old.return, old.target, old.by, held[old.return])
  <2>1. old.return \in Numbers /\ old.target \in Ends /\ old.by \in Actors
    BY <1>3, CallFacts DEF ReleaseReads, ControlTypeOK
  <2>2. call \in Calls
    BY <2>1, CallsAre DEF ControlTypeOK
  <2>3. doing' = [doing EXCEPT ![w] = call]
    BY <1>3 DEF ReleaseReads
  <2>4. call.return = old.return /\ call.lines = held[old.return]
    BY Ops
  <2>. HIDE DEF call
  <2>. QED
    BY <2>2, <2>3, <2>4
<1>4. ASSUME RefundReads(w)
      PROVE  \E call \in Calls : /\ doing' = [doing EXCEPT ![w] = call]
                                 /\ call.op # "release"
  <2>1. doing[w].return \in Numbers
    BY <1>4, CallFacts DEF RefundReads, ControlTypeOK
  <2>2. InsertRefund(doing[w].return) \in Calls
    BY <2>1, CallsAre
  <2>. QED
    BY <1>4, <2>2, Ops DEF RefundReads
<1>5. ASSUME RefundCommits(w) \/ RefundRefused(w) \/ Fails(w)
      PROVE  \E call \in Calls : /\ doing' = [doing EXCEPT ![w] = call]
                                 /\ call.op # "release"
  BY <1>5, CallsAre, Ops DEF RefundCommits, RefundRefused, Fails
<1>6. CASE \/ ApplyCancelReads(w) \/ ReleaseReads(w) \/ RefundReads(w)
           \/ RefundCommits(w) \/ RefundRefused(w) \/ Fails(w)
  <2>1. UNCHANGED <<request, progress, shelf, overtaken>> /\ stale \subseteq stale' \cup {w}
    BY <1>6 DEF ApplyCancelReads, ReleaseReads, RefundReads, RefundCommits,
                RefundRefused, Fails, history
  <2>. QED
    BY <1>6, <2>1, <1>2, <1>3, <1>4, <1>5
<1>. QED
  BY <1>1, <1>6 DEF Customer, Staff, history

\* Every step keeps the stamps and what calls have read of them.
LEMMA StampsStep == ControlTypeOK /\ StagesInv /\ StampsInv /\ [Next]_vars => StampsInv'
PROOF
<1>. SUFFICES ASSUME ControlTypeOK, StagesInv, StampsInv, [Next]_vars
              PROVE  StampsInv'
  OBVIOUS
<1>1. ASSUME NEW w \in Workers, FileCommits(w)
      PROVE  StampsInv'
  BY <1>1, FileStamps
<1>2. ASSUME NEW w \in Workers,
             ReleaseCommits(w) \/ MoveCommits(w) \/ VerifyCommits(w) \/ CompleteCommits(w)
      PROVE  StampsInv'
  <2>1. doing[w].return \in Numbers
    BY <1>2, WritesDo, FiledNumbers
  <2>2. PICK target, kept, call : Writes(w, doing[w].return, target, kept, call)
    BY <1>2, WritesDo
  <2>. QED
    BY <2>1, <2>2, WriteStamps DEF Writes, request
<1>3. ASSUME NEW w \in Workers, NEW call \in Calls,
             UNCHANGED <<request, progress, shelf, overtaken>>,
             stale \subseteq stale' \cup {w},
             doing' = [doing EXCEPT ![w] = call],
             call.op = "release" => call.lines = held[call.return]
      PROVE  StampsInv'
  BY <1>3, QuietStamps DEF request, progress
<1>4. CASE UNCHANGED vars
  BY <1>4 DEF vars, request, progress, history, StampsInv, StampsExact, ReleaseCovers,
              Reserving
<1>. QED
  BY <1>1, <1>2, <1>3, <1>4, OthersQuiet DEF Next

-----------------------------------------------------------------------------
(* Units.                                                                  *)

\* Adding up numbers per request: one more request, and one less.
LEMMA OneMore ==
  ASSUME NEW n \in Nat, NEW f \in [1..n -> Int], NEW g \in [1..(n + 1) -> Int],
         \A q \in 1..n : g[q] = f[q]
  PROVE  SumFunction(g) = SumFunction(f) + g[n + 1]
PROOF
<1>0. IsFiniteSet(1..n)
  BY FS_Interval
<1>1. IsFiniteSet(1..n) /\ n + 1 \notin 1..n /\ 1..(n + 1) = (1..n) \cup {n + 1}
  BY <1>0
<1>2. SumFunctionOnSet(g, 1..n) = SumFunctionOnSet(f, 1..n)
  BY <1>1, SumSame
<1>3. SumFunctionOnSet(g, (1..n) \cup {n + 1}) = g[n + 1] + SumFunctionOnSet(g, 1..n)
  BY <1>1, SumAdd
<1>4. SumFunctionOnSet(g, 1..n) \in Int /\ g[n + 1] \in Int
  BY <1>1, SumType
<1>5. SumFunction(g) = SumFunctionOnSet(g, (1..n) \cup {n + 1})
  BY <1>1 DEF SumFunction
<1>6. SumFunction(f) = SumFunctionOnSet(f, 1..n)
  BY DEF SumFunction
<1>. QED
  BY <1>2, <1>3, <1>4, <1>5, <1>6

LEMMA OneLess ==
  ASSUME NEW n \in Nat, NEW f \in [1..n -> Int], NEW g \in [1..n -> Int],
         NEW r \in 1..n, \A q \in (1..n) \ {r} : g[q] = f[q], g[r] = 0
  PROVE  SumFunction(g) = SumFunction(f) - f[r]
PROOF
<1>0. IsFiniteSet(1..n)
  BY FS_Interval
<1>1. IsFiniteSet(1..n) /\ IsFiniteSet((1..n) \ {r})
  BY <1>0, FS_Subset
<1>2. SumFunctionOnSet(g, (1..n) \ {r}) = SumFunctionOnSet(f, (1..n) \ {r})
  BY <1>1, SumSame
<1>3. /\ SumFunctionOnSet(f, 1..n) = f[r] + SumFunctionOnSet(f, (1..n) \ {r})
      /\ SumFunctionOnSet(g, 1..n) = g[r] + SumFunctionOnSet(g, (1..n) \ {r})
  BY <1>1, SumRemove
<1>4. SumFunctionOnSet(f, (1..n) \ {r}) \in Int
  BY <1>1, SumType
<1>. QED
  BY <1>2, <1>3, <1>4 DEF SumFunction

\* The units of some lines of a form are a number, no less than those of fewer.
LEMMA UnitsAre ==
  ASSUME NEW form \in Forms \cup {<<>>}, NEW chosen \in SUBSET DOMAIN form,
         NEW part \in SUBSET chosen
  PROVE  /\ Units(form, chosen) \in Nat
         /\ Units(form, part) <= Units(form, chosen)
         /\ Units(form, {}) = 0
PROOF
<1>. DEFINE f == [l \in DOMAIN form |-> form[l].quantity]
<1>1. DOMAIN form \in SUBSET Lines /\ IsFiniteSet(DOMAIN form)
  BY LinesOfForm, OrderAssumption, FS_Subset DEF OrderAssumption
<1>2. \A l \in DOMAIN form : f[l] \in Nat
  BY FormsAssumption DEF FormsAssumption
<1>3. IsFiniteSet(chosen) /\ IsFiniteSet(part)
  BY <1>1, FS_Subset
<1>4. ASSUME NEW S \in SUBSET DOMAIN form, IsFiniteSet(S)
      PROVE  Units(form, S) = SumFunctionOnSet(f, S)
  <2>. DEFINE g == [l \in S |-> form[l].quantity]
  <2>1. \A l \in S : g[l] \in Int /\ g[l] = f[l]
    BY <1>2
  <2>2. SumFunctionOnSet(g, S) = SumFunctionOnSet(f, S)
    BY <2>1, <1>4, SumSame
  <2>. QED
    BY <2>2 DEF Units, SumFunction
<1>5. /\ SumFunctionOnSet(f, chosen) \in Nat
      /\ SumFunctionOnSet(f, part) <= SumFunctionOnSet(f, chosen)
  BY <1>2, <1>3, SumPart
<1>6. SumFunctionOnSet(f, {}) = 0 /\ IsFiniteSet({})
  BY SumEmpty, FS_EmptySet
<1>. QED
  BY <1>3, <1>4, <1>5, <1>6

\* What a request holds is a number, nothing when it has no stamp.
LEMMA HoldsAre ==
  ASSUME ControlTypeOK, StampsInv, NEW r \in Numbers, NEW v
  PROVE  Holds(r, v) \in Nat /\ (held[r] = {} => Holds(r, v) = 0)
PROOF
<1>. DEFINE chosen == {l \in held[r] : Target(content[r], l) = v}
<1>1. content[r] \in Forms \cup {<<>>}
  BY DEF ControlTypeOK
<1>2. chosen \in SUBSET DOMAIN content[r]
  BY DEF StampsInv, Reserving
<1>3. held[r] = {} => chosen = {}
  OBVIOUS
<1>. QED
  BY <1>1, <1>2, <1>3, UnitsAre DEF Holds, Released

\* Filing adds what the new request holds, which is what it reserves.
LEMMA FileUnits ==
  ASSUME ControlTypeOK, StampsInv, StampsInv', UnitsInv, ControlTypeOK',
         NEW w \in Workers, FileCommits(w)
  PROVE  UnitsInv'
PROOF
<1>. DEFINE form == doing[w].form
            n == filed
<1>1. n \in Nat /\ filed' = n + 1 /\ n + 1 \in Numbers /\ 1..n \subseteq Numbers
  BY FiledNumbers DEF FileCommits, ControlTypeOK
<1>2. form \in Forms /\ Reserving(form) \in SUBSET DOMAIN form
  BY CallFacts DEF FileCommits, ControlTypeOK, Reserving
<1>3. ASSUME NEW v \in Variants
      PROVE  /\ HeldUnits(v)' = HeldUnits(v) + Claimed(form, v)
             /\ reserved'[v] = reserved[v] + Claimed(form, v)
             /\ Claimed(form, v) \in Nat /\ HeldUnits(v) \in Int
  <2>. DEFINE f == [q \in 1..n |-> Holds(q, v)]
              g == [q \in 1..filed' |-> Released(content'[q], held'[q], v)]
              mine == {l \in Reserving(form) : Target(form, l) = v}
  <2>1. HeldUnits(v) = SumFunction(f)
    BY DEF HeldUnits
  <2>2. HeldUnits(v)' = SumFunction(g)
    BY DEF HeldUnits, Holds, Released, Units, Target, SumFunction, SumFunctionOnSet,
           FoldFunctionOnSet, MapThenFoldSet
  <2>3. f \in [1..n -> Int]
    BY <1>1, HoldsAre
  <2>4. \A q \in 1..n : content'[q] = content[q] /\ held'[q] = held[q]
    BY <1>1 DEF FileCommits, ControlTypeOK
  <2>5. content'[n + 1] = form /\ held'[n + 1] = Reserving(form)
    BY <1>1 DEF FileCommits, ControlTypeOK
  <2>6. \A q \in 1..n : g[q] = f[q]
    BY <1>1, <2>4 DEF Holds
  <2>7. g[n + 1] = Claimed(form, v)
    <3>1. g[n + 1] = Released(content'[n + 1], held'[n + 1], v)
      BY <1>1
    <3>2. Released(form, Reserving(form), v) = Claimed(form, v)
      BY DEF Claimed, Released
    <3>. QED
      BY <3>1, <3>2, <2>5
  <2>8. Claimed(form, v) \in Nat
    <3>1. mine \in SUBSET DOMAIN form
      BY <1>2
    <3>. QED
      BY <1>2, <3>1, UnitsAre DEF Claimed
  <2>9. g \in [1..(n + 1) -> Int]
    <3>1. \A q \in 1..(n + 1) : q \in 1..n \/ q = n + 1
      BY <1>1
    <3>2. \A q \in 1..(n + 1) : g[q] \in Int
      <4>. HIDE DEF f, g
      <4>. QED
        BY <3>1, <2>3, <2>6, <2>7, <2>8
    <3>. QED
      BY <1>1, <3>2
  <2>10. SumFunction(g) = SumFunction(f) + g[n + 1]
    <3>. HIDE DEF f, g
    <3>. QED
      BY <1>1, <2>3, <2>6, <2>9, OneMore
  <2>11. SumFunction(f) \in Int
    <3>1. IsFiniteSet(1..n)
      BY <1>1, FS_Interval
    <3>. QED
      BY <3>1, <2>3, SumType DEF SumFunction
  <2>12. reserved'[v] = reserved[v] + Claimed(form, v)
    BY DEF FileCommits
  <2>. QED
    BY <2>1, <2>2, <2>7, <2>8, <2>10, <2>11, <2>12
<1>4. reserved' \in [Variants -> Int]
  <2>1. reserved' = [v \in Variants |-> reserved[v] + Claimed(form, v)]
    BY DEF FileCommits
  <2>. QED
    BY <2>1, <1>3 DEF UnitsInv
<1>5. overtaken' = {} => overtaken = {}
  BY DEF FileCommits, Commit
<1>6. \A v \in Variants : reserved[v] \in Int
  BY DEF UnitsInv
<1>7. \A v \in Variants : reserved'[v] <= HeldUnits(v)'
  <2>. TAKE v \in Variants
  <2>1. reserved[v] <= HeldUnits(v)
    BY DEF UnitsInv
  <2>. QED
    BY <1>3, <1>6, <2>1
<1>8. overtaken' = {} => \A v \in Variants : reserved'[v] = HeldUnits(v)'
  BY <1>3, <1>5 DEF UnitsInv
<1>. QED
  BY <1>4, <1>7, <1>8 DEF UnitsInv

\* Taking all stamps of a request takes away what it held.
LEMMA ReleaseUnits ==
  ASSUME ControlTypeOK, StampsInv, NEW r \in 1..filed, NEW v \in Variants,
         held' = [held EXCEPT ![r] = {}], UNCHANGED request
  PROVE  /\ HeldUnits(v)' = HeldUnits(v) - Holds(r, v)
         /\ HeldUnits(v) \in Int
PROOF
<1>. DEFINE n == filed
            f == [q \in 1..n |-> Holds(q, v)]
            g == [q \in 1..n |-> Released(content[q], held'[q], v)]
<1>1. n \in Nat /\ 1..n \subseteq Numbers /\ IsFiniteSet(1..n)
  BY FiledNumbers, FS_Interval DEF ControlTypeOK
<1>2. HeldUnits(v) = SumFunction(f)
  BY DEF HeldUnits
<1>3. HeldUnits(v)' = SumFunction(g)
  BY DEF HeldUnits, Holds, Released, Units, Target, SumFunction, SumFunctionOnSet,
         FoldFunctionOnSet, MapThenFoldSet, request
<1>4. f \in [1..n -> Int]
  BY <1>1, HoldsAre
<1>5. \A q \in 1..n : held'[q] = IF q = r THEN {} ELSE held[q]
  BY <1>1 DEF ControlTypeOK
<1>6. \A q \in (1..n) \ {r} : g[q] = f[q]
  BY <1>5 DEF Holds
<1>7. g[r] = 0
  <2>1. g[r] = Units(content[r], {l \in {} : Target(content[r], l) = v})
    BY <1>5 DEF Released
  <2>2. {l \in {} : Target(content[r], l) = v} = {}
    OBVIOUS
  <2>3. content[r] \in Forms \cup {<<>>}
    BY <1>1 DEF ControlTypeOK
  <2>. QED
    BY <2>1, <2>2, <2>3, UnitsAre
<1>8. g \in [1..n -> Int]
  <2>1. \A q \in 1..n : g[q] \in Int
    <3>. HIDE DEF f, g
    <3>. QED
      BY <1>4, <1>6, <1>7
  <2>. QED
    BY <2>1
<1>9. SumFunction(g) = SumFunction(f) - f[r]
  <2>. HIDE DEF f, g
  <2>. QED
    BY <1>1, <1>4, <1>6, <1>7, <1>8, OneLess
<1>10. SumFunction(f) \in Int
  BY <1>1, <1>4, SumType DEF SumFunction
<1>. QED
  BY <1>2, <1>3, <1>9, <1>10

\* Releasing lines that cover the stamps of a request gives back what it held,
\* and no more when they are the stamps.
LEMMA GiveBack ==
  ASSUME ControlTypeOK, StampsInv, UnitsInv, NEW r \in 1..filed,
         NEW lines \in SUBSET Reserving(content[r]), held[r] \subseteq lines,
         held' = [held EXCEPT ![r] = {}], UNCHANGED request,
         reserved' = [v \in Variants |-> reserved[v] - Released(content[r], lines, v)],
         overtaken' = {} => overtaken = {} /\ lines = held[r]
  PROVE  UnitsInv'
PROOF
<1>1. r \in Numbers /\ content[r] \in Forms \cup {<<>>}
  BY FiledNumbers DEF ControlTypeOK
<1>2. ASSUME NEW v \in Variants
      PROVE  /\ Released(content[r], lines, v) \in Nat
             /\ Holds(r, v) \in Nat
             /\ Holds(r, v) <= Released(content[r], lines, v)
  <2>. DEFINE chosen == {l \in lines : Target(content[r], l) = v}
              part == {l \in held[r] : Target(content[r], l) = v}
  <2>1. chosen \in SUBSET DOMAIN content[r] /\ part \in SUBSET chosen
    BY DEF Reserving
  <2>2. Units(content[r], chosen) \in Nat /\ Units(content[r], part) <= Units(content[r], chosen)
    BY <1>1, <2>1, UnitsAre
  <2>. QED
    BY <1>1, <2>2, HoldsAre DEF Holds, Released
<1>3. ASSUME NEW v \in Variants
      PROVE  /\ HeldUnits(v)' = HeldUnits(v) - Holds(r, v)
             /\ HeldUnits(v) \in Int /\ reserved[v] \in Int
             /\ reserved'[v] = reserved[v] - Released(content[r], lines, v)
  BY ReleaseUnits DEF UnitsInv
<1>4. reserved' \in [Variants -> Int]
  BY <1>2, <1>3
<1>5. \A v \in Variants : reserved'[v] <= HeldUnits(v)'
  <2>. TAKE v \in Variants
  <2>1. reserved[v] <= HeldUnits(v)
    BY DEF UnitsInv
  <2>. QED
    BY <1>2, <1>3, <2>1
<1>6. ASSUME overtaken' = {}, NEW v \in Variants
      PROVE  reserved'[v] = HeldUnits(v)'
  <2>1. reserved[v] = HeldUnits(v) /\ lines = held[r]
    BY <1>6 DEF UnitsInv
  <2>. QED
    BY <1>2, <1>3, <2>1 DEF Holds
<1>. QED
  BY <1>4, <1>5, <1>6 DEF UnitsInv

\* A step that touches neither stamps nor reservations keeps them in step.
LEMMA SameUnits ==
  ASSUME UnitsInv, UNCHANGED <<request, held, reserved>>, overtaken' = {} => overtaken = {}
  PROVE  UnitsInv'
PROOF
<1>1. \A v \in Variants : HeldUnits(v)' = HeldUnits(v)
  BY DEF HeldUnits, Holds, Released, Units, Target, SumFunction, SumFunctionOnSet,
         FoldFunctionOnSet, MapThenFoldSet, request
<1>. QED
  BY <1>1 DEF UnitsInv

\* Every step keeps the reservations in step with the stamps.
LEMMA UnitsStep ==
  ControlTypeOK /\ ControlTypeOK' /\ StagesInv /\ StampsInv /\ StampsInv' /\ UnitsInv
    /\ [Next]_vars => UnitsInv'
PROOF
<1>. SUFFICES ASSUME ControlTypeOK, ControlTypeOK', StagesInv, StampsInv, StampsInv',
                     UnitsInv, [Next]_vars
              PROVE  UnitsInv'
  OBVIOUS
<1>1. ASSUME NEW w \in Workers, FileCommits(w)
      PROVE  UnitsInv'
  BY <1>1, FileUnits
<1>2. ASSUME NEW w \in Workers, MoveCommits(w) \/ VerifyCommits(w)
      PROVE  UnitsInv'
  BY <1>2, SameUnits DEF MoveCommits, VerifyCommits, Commit, shelf
<1>3. ASSUME NEW w \in Workers, ReleaseCommits(w)
      PROVE  UnitsInv'
  <2>. DEFINE r == doing[w].return
              lines == doing[w].lines
  <2>1. r \in 1..filed /\ r \in Numbers
    BY <1>3, FiledNumbers DEF ReleaseCommits, StagesInv, Unfiled
  <2>2. held[r] \subseteq lines /\ lines \in SUBSET Reserving(content[r])
    BY <1>3 DEF ReleaseCommits, StampsInv, ReleaseCovers
  <2>3. held' = [held EXCEPT ![r] = {}]
    <3>1. held[r] \ lines = {}
      BY <2>2
    <3>. QED
      BY <1>3, <3>1 DEF ReleaseCommits
  <2>4. ASSUME overtaken' = {}
        PROVE  overtaken = {} /\ lines = held[r]
    <3>1. overtaken = {} /\ w \notin stale
      BY <1>3, <2>4 DEF ReleaseCommits, Commit
    <3>. QED
      BY <1>3, <3>1 DEF ReleaseCommits, StampsInv, StampsExact
  <2>. QED
    BY <1>3, <2>1, <2>2, <2>3, <2>4, GiveBack DEF ReleaseCommits
<1>4. ASSUME NEW w \in Workers, CompleteCommits(w)
      PROVE  UnitsInv'
  <2>. DEFINE r == doing[w].return
              lines == Reserving(content[r])
  <2>1. r \in 1..filed /\ r \in Numbers
    BY <1>4, FiledNumbers DEF CompleteCommits, StagesInv, Unfiled
  <2>2. held[r] \subseteq lines
    BY <2>1 DEF StampsInv
  <2>3. held' = [held EXCEPT ![r] = {}]
    <3>1. held[r] \ lines = {}
      BY <2>2
    <3>. QED
      BY <1>4, <3>1 DEF CompleteCommits, Reserving
  <2>4. ASSUME overtaken' = {}
        PROVE  overtaken = {} /\ lines = held[r]
    <3>1. overtaken = {} /\ w \notin stale
      BY <1>4, <2>4 DEF CompleteCommits, Commit
    <3>2. state[r] \notin Closed
      BY <1>4, <3>1 DEF CompleteCommits, StagesInv, FreshCalls
    <3>. QED
      BY <2>1, <3>1, <3>2 DEF StampsInv, StampsExact
  <2>5. reserved' = [v \in Variants |-> reserved[v] - Released(content[r], lines, v)]
    BY <1>4 DEF CompleteCommits, Reserving
  <2>. QED
    BY <1>4, <2>1, <2>2, <2>3, <2>4, <2>5, GiveBack DEF CompleteCommits
<1>5. ASSUME UNCHANGED <<request, progress, shelf, overtaken>>
      PROVE  UnitsInv'
  BY <1>5, SameUnits DEF progress, shelf
<1>. QED
  BY <1>1, <1>2, <1>3, <1>4, <1>5, OthersQuiet DEF Next, vars, history

\* Whatever calls race, a unit counted in reservedForExchange belongs to a line
\* that is still stamped, and when no stale call has written the two agree.
THEOREM UnitsAccounted == Spec => [](StampsInv /\ UnitsInv)
PROOF
<1>1. Init => StampsInv
  BY Ops DEF Init, StampsInv, StampsExact, ReleaseCovers, Reserving
<1>2. Init => UnitsInv
  <2>. SUFFICES ASSUME Init
                PROVE  UnitsInv
    OBVIOUS
  <2>1. \A v \in Variants : HeldUnits(v) = 0
    <3>. TAKE v \in Variants
    <3>. DEFINE f == [r \in 1..filed |-> Holds(r, v)]
    <3>1. 1..filed = {}
      BY DEF Init
    <3>2. SumFunctionOnSet(f, {}) = 0
      BY SumEmpty
    <3>. QED
      BY <3>1, <3>2 DEF HeldUnits, SumFunction
  <2>. QED
    BY <2>1 DEF Init, UnitsInv
<1>3. ControlTypeOK /\ ControlTypeOK' /\ StagesInv /\ (StampsInv /\ UnitsInv) /\ [Next]_vars
        => (StampsInv /\ UnitsInv)'
  BY StampsStep, UnitsStep
<1>. QED
  BY <1>1, <1>2, <1>3, ControlTyped, StagesSafe, PTL DEF Spec

\* Nothing stays reserved for good.
THEOREM NothingLeftReserved == Spec => []NothingStaysReserved
PROOF
<1>1. StampsInv /\ UnitsInv => NothingStaysReserved
  BY DEF StampsInv, UnitsInv, NothingStaysReserved
<1>. QED
  BY <1>1, UnitsAccounted, PTL

\* Reservations are exact unless a stale call wrote.
THEOREM ReservationsAgree == Spec => []ReservationsExact
PROOF
<1>1. UnitsInv => ReservationsExact
  BY DEF UnitsInv, ReservationsExact
<1>. QED
  BY <1>1, UnitsAccounted, PTL

-----------------------------------------------------------------------------
(* The pages in front of the calls.                                        *)

\* Forms has whatever a form may be filled in with: for some lines of the order,
\* as many units as were bought at the most.
EveryForm ==
  \A lines \in (SUBSET Lines) \ {{}} :
    {form \in [lines -> [action : Actions, quantity : Nat \ {0}, exchange : Variants]] :
       \A l \in lines : form[l].quantity <= Ordered[l]} \subseteq Forms

Draft == [quantity : Nat \ {0}, reason : {"size_issue", "damaged"}, action : Actions,
          exchange : Variants \cup {None}, photos : SUBSET Photos]

Uploads == [line : Lines, photo : Photos, had : SUBSET Photos, watched : BOOLEAN]

\* The form: what a later step relies on stays as an earlier one left it.
FormInv ==
  /\ step \in 0..5 /\ way \in Methods
  /\ DOMAIN eligible \in SUBSET Lines /\ eligible \in [DOMAIN eligible -> Nat \ {0}]
  /\ DOMAIN drafts \in SUBSET DOMAIN eligible /\ drafts \in [DOMAIN drafts -> Draft]
  /\ \A l \in DOMAIN drafts : drafts[l].quantity <= eligible[l]
  /\ step > 1 => DOMAIN drafts # {}
  /\ step > 2 => \A l \in DOMAIN drafts : Pictured(l)
  /\ step > 3 => \A l \in DOMAIN drafts : Swapped(l)
  /\ uploads \in SUBSET Uploads

\* A request that is filed has a row.
RowsInv == \A r \in 1..filed : state[r] \in States

Seen == [return : 1..filed, state : States]

\* What the customer's page knows of its request.
CustomerInv ==
  /\ summary # None => summary \in Seen
  /\ sent # None /\ step = 0 => summary # None
  /\ granted # {} => filed > 0

\* A staff page that acts has a request before it.
StaffInv ==
  /\ shown \in [Pages -> Seen \cup {None}]
  /\ dialog \in [Pages -> Dialogs \cup {None}] /\ DOMAIN waits = Pages
  /\ \A p \in Pages : waits[p] # None \/ p \in noting \/ dialog[p] # None => shown[p] # None

DeskInv == FormInv /\ RowsInv /\ CustomerInv /\ StaffInv /\ PressesWork

\* A filed request keeps a row, and requests are only added.
LEMMA RowsStep ==
  ASSUME ControlTypeOK, StagesInv, RowsInv, [Next]_vars
  PROVE  RowsInv' /\ filed' \in Nat /\ filed <= filed' /\ 1..filed \subseteq Numbers
PROOF
<1>1. filed \in Nat /\ 1..filed \subseteq Numbers
  BY LimitsAssumption DEF ControlTypeOK, Numbers, LimitsAssumption
<1>2. ASSUME NEW w \in Workers,
             ReleaseCommits(w) \/ MoveCommits(w) \/ VerifyCommits(w) \/ CompleteCommits(w)
      PROVE  RowsInv' /\ filed' = filed
  <2>1. PICK t \in States : state' = [state EXCEPT ![doing[w].return] = t]
    <3>1. doing[w].op \in {"release"} => doing[w].target \in States
      BY CallFacts DEF ControlTypeOK, Ends, States, Closed
    <3>2. doing[w].op = "move" => doing[w].target \in States
      BY CallFacts DEF ControlTypeOK, States
    <3>. QED
      BY <1>2, <3>1, <3>2 DEF ReleaseCommits, MoveCommits, VerifyCommits, CompleteCommits,
                              States, Closed
  <2>2. filed' = filed
    BY <1>2 DEF ReleaseCommits, MoveCommits, VerifyCommits, CompleteCommits, request
  <2>. QED
    BY <1>1, <2>1, <2>2 DEF RowsInv, ControlTypeOK
<1>3. ASSUME NEW w \in Workers, FileCommits(w)
      PROVE  RowsInv' /\ filed' = filed + 1
  <2>1. filed' = filed + 1 /\ state' = [state EXCEPT ![filed + 1] = "requested"]
    BY <1>3 DEF FileCommits
  <2>2. DOMAIN state = Numbers /\ "requested" \in States
    BY DEF ControlTypeOK, States
  <2>3. filed + 1 \in Numbers
    BY <1>1, <1>3, FiledNumbers DEF FileCommits, ControlTypeOK
  <2>. QED
    BY <1>1, <2>1, <2>2, <2>3 DEF RowsInv
<1>4. ASSUME NEW w \in Workers, Customer(w) \/ Staff(w) \/ Fails(w)
      PROVE  \/ UNCHANGED <<filed, state>> \/ FileCommits(w)
             \/ ReleaseCommits(w) \/ MoveCommits(w) \/ VerifyCommits(w)
             \/ CompleteCommits(w)
  BY <1>4 DEF Customer, Staff, Fails, FileReads, ApplyCancelReads, CancelReads,
              ReleaseReads, RefundReads, RefundCommits, RefundRefused, ApproveReads,
              ReceiveReads, VerifyReads, CompleteReads, EndReads, Begin, request, progress
<1>5. CASE UNCHANGED <<filed, state>>
  BY <1>1, <1>5 DEF RowsInv
<1>. QED
  BY <1>1, <1>2, <1>3, <1>4, <1>5 DEF Next, vars, request, progress

\* Never fewer than no units of a line are bound.
LEMMA BoundNat ==
  ASSUME ControlTypeOK, NEW l \in Lines
  PROVE  Bound(l) \in Nat
PROOF
<1>. DEFINE S == {q \in Numbers : /\ state[q] \notin {"none", "rejected", "cancelled"}
                                  /\ l \in DOMAIN content[q]}
            f == [r \in S |-> content[r][l].quantity]
<1>1. \A r \in S : f[r] \in Nat
  <2>. TAKE r \in S
  <2>1. content[r] \in Forms \cup {<<>>} /\ l \in DOMAIN content[r]
    BY DEF ControlTypeOK
  <2>2. content[r] \in Forms
    BY <2>1
  <2>. QED
    BY <2>1, <2>2, FormsAssumption
<1>2. IsFiniteSet(S)
  <2>1. IsFiniteSet(Numbers)
    BY LimitsAssumption, FS_Interval DEF Numbers, LimitsAssumption
  <2>. QED
    BY <2>1, FS_Subset
<1>. HIDE DEF f, S
<1>3. SumFunctionOnSet(f, S) \in Nat
  BY <1>1, <1>2, SumPart
<1>. QED
  BY <1>3 DEF Bound, SumFunction, f, S

\* What the confirmation sends is a form Returns knows, and its checks are those
\* of createRequest.
LEMMA FormIsFiled ==
  ASSUME ControlTypeOK, FormInv, EveryForm, Acceptable, step = 5
  PROVE  /\ FormOf(drafts) \in Forms
         /\ \A l \in DOMAIN FormOf(drafts) :
              FormOf(drafts)[l].quantity <= Ordered[l] - Bound(l)
PROOF
<1>. DEFINE form == FormOf(drafts)
            D == DOMAIN drafts
<1>1. D \in (SUBSET Lines) \ {{}} /\ DOMAIN form = D
  BY DEF FormInv, FormOf
<1>2. ASSUME NEW l \in D
      PROVE  /\ form[l] \in [action : Actions, quantity : Nat \ {0}, exchange : Variants]
             /\ form[l].quantity = drafts[l].quantity
  <2>1. drafts[l] \in Draft /\ l \in Lines /\ VariantOf[l] \in Variants
    BY <1>1, OrderAssumption DEF FormInv, OrderAssumption
  <2>2. form[l] = [action |-> drafts[l].action, quantity |-> drafts[l].quantity,
                   exchange |-> IF drafts[l].exchange = None THEN VariantOf[l]
                                ELSE drafts[l].exchange]
    BY DEF FormOf
  <2>. QED
    BY <2>1, <2>2 DEF Draft
<1>3. ASSUME NEW l \in D
      PROVE  form[l].quantity <= Ordered[l] - Bound(l) /\ form[l].quantity <= Ordered[l]
  <2>1. l \in Lines /\ Ordered[l] \in Nat /\ Bound(l) \in Nat
    BY <1>1, BoundNat, OrderAssumption DEF OrderAssumption
  <2>2. drafts[l].quantity <= Ordered[l] - Bound(l) /\ drafts[l].quantity \in Nat
    BY DEF Acceptable, FormInv, Draft
  <2>. QED
    BY <1>2, <2>1, <2>2
<1>4. form \in [D -> [action : Actions, quantity : Nat \ {0}, exchange : Variants]]
  <2>1. form = [l \in D |-> form[l]]
    BY DEF FormOf
  <2>. HIDE DEF form
  <2>. QED
    BY <1>2, <2>1
<1>5. form \in Forms
  <2>. HIDE DEF form, D
  <2>. QED
    BY <1>1, <1>3, <1>4 DEF EveryForm
<1>. QED
  BY <1>1, <1>3, <1>5

\* A page makes only calls that Returns allows.
LEMMA PagesCall ==
  ASSUME ControlTypeOK, FormInv, CustomerInv, StaffInv, EveryForm, [DeskNext]_<<vars, deskVars>>
  PROVE  [Next]_vars
PROOF
<1>1. CASE ReturnFlow
  <2>1. CASE handleSubmit
    <3>1. CASE Acceptable
      <4>1. PICK w \in Workers : Begin(w, File(way, FormOf(drafts)))
        BY <2>1, <3>1 DEF handleSubmit
      <4>2. step = 5
        BY <2>1 DEF handleSubmit, At, STEPS
      <4>3. FileReads(w)
        BY <3>1, <4>1, <4>2, FormIsFiled DEF FileReads, Acceptable, FormInv
      <4>. QED
        BY <4>3 DEF Next, Customer
    <3>. QED
      BY <2>1, <3>1 DEF handleSubmit
  <2>2. CASE ~handleSubmit
    <3>1. CASE getEligibility
      BY <3>1 DEF getEligibility, FormOnly
    <3>2. CASE toggleItem
      BY <3>2 DEF toggleItem, FormOnly
    <3>3. CASE ItemsStep \/ ReasonStep
      BY <3>3 DEF ItemsStep, ReasonStep, FormOnly
    <3>4. CASE PhotoUploader \/ PhotoUploaded
      BY <3>4 DEF PhotoUploader, PhotoUploaded, FormOnly
    <3>5. CASE ActionStep
      BY <3>5 DEF ActionStep, FormOnly
    <3>6. CASE ensureVariants \/ MethodStep \/ Turn
      BY <3>6 DEF ensureVariants, MethodStep, Turn, FormOnly
    <3>. QED
      BY <1>1, <2>2, <3>1, <3>2, <3>3, <3>4, <3>5, <3>6 DEF ReturnFlow
  <2>. QED
    BY <2>1, <2>2
<1>2. CASE submitCancel
  <2>1. summary.return \in 1..filed
    BY <1>2 DEF submitCancel, CustomerInv, Seen
  <2>2. CASE UNCHANGED vars
    BY <2>2
  <2>3. CASE \E w \in Workers : CancelReads(w, summary.return)
    BY <2>1, <2>3 DEF Next, Customer
  <2>. QED
    BY <1>2, <2>2, <2>3 DEF submitCancel
<1>3. ASSUME NEW p \in Pages, ReturnDetail(p)
      PROVE  [Next]_vars
  <2>. DEFINE r == shown[p].return
  <2>1. r \in 1..filed
    BY <1>3 DEF ReturnDetail, StaffInv, Seen
  <2>2. PICK button \in Dialogs \cup {"complete"} : Press(p, button)
    BY <1>3 DEF ReturnDetail, StaffInv
  <2>3. CASE UNCHANGED vars
    BY <2>3
  <2>4. ASSUME NEW w \in Workers, Asks(w, button, r, decisions[p])
        PROVE  Next
    <3>1. \/ ApproveReads(w, r) \/ ReceiveReads(w, r) \/ VerifyReads(w, r)
          \/ CompleteReads(w, r) \/ \E target \in Ends : EndReads(w, r, target)
      <4>. HIDE DEF r
      <4>1. CASE button \in {"approve", "received", "verify", "complete"}
        BY <2>4, <4>1 DEF Asks
      <4>2. CASE button = "reject"
        <5>1. EndReads(w, r, "rejected")
          BY <2>4, <4>2 DEF Asks, Leads
        <5>. QED
          BY <5>1 DEF Ends
      <4>3. CASE button = "cancel"
        <5>1. EndReads(w, r, "cancelled")
          BY <2>4, <4>3 DEF Asks, Leads
        <5>. QED
          BY <5>1 DEF Ends
      <4>. QED
        BY <4>1, <4>2, <4>3 DEF Dialogs
    <3>. HIDE DEF r
    <3>. QED
      BY <2>1, <3>1 DEF Next, Staff
  <2>. QED
    BY <2>2, <2>3, <2>4 DEF Press
<1>4. ASSUME NEW w \in Workers, Serve(w)
      PROVE  [Next]_vars
  BY <1>4 DEF Serve, Next
<1>5. CASE \/ SummaryPage \/ CustomerAnswered
           \/ \E p \in Pages : \/ OpenDialog(p) \/ CloseDialog(p) \/ VerifyDialog(p)
                               \/ StaffAnswered(p) \/ InternalNote(p) \/ NoteSaved(p)
                               \/ OpenPage(p)
  BY <1>5 DEF SummaryPage, CustomerAnswered, OpenDialog, CloseDialog, VerifyDialog,
              StaffAnswered, InternalNote, NoteSaved, OpenPage, StaffOnly
<1>. QED
  BY <1>1, <1>2, <1>3, <1>4, <1>5 DEF DeskNext

\* The form when it is not there, and when nothing of it moves.
LEMMA FormGone == NoForm \/ UNCHANGED formVars => (FormInv => FormInv')
PROOF
<1>1. CASE NoForm
  <2>1. DOMAIN <<>> = {} /\ <<>> \in [{} -> Nat \ {0}] /\ <<>> \in [{} -> Draft]
    OBVIOUS
  <2>2. step' = 0 /\ eligible' = <<>> /\ drafts' = <<>> /\ uploads' = {} /\ way' \in Methods
    BY <1>1 DEF NoForm, Methods
  <2>. QED
    BY <2>1, <2>2 DEF FormInv
<1>2. CASE UNCHANGED formVars
  BY <1>2 DEF formVars, FormInv, Pictured, Swapped
<1>. QED
  BY <1>1, <1>2

\* Drafts that are added, dropped or changed line by line: what the steps that
\* have been left rely on has to be seen to.
LEMMA DraftsStep ==
  ASSUME FormInv, UNCHANGED <<step, eligible, way>>,
         DOMAIN drafts' \in SUBSET DOMAIN eligible,
         drafts' = [l \in DOMAIN drafts' |-> drafts'[l]],
         \A l \in DOMAIN drafts' : drafts'[l] \in Draft /\ drafts'[l].quantity <= eligible[l],
         uploads' \in SUBSET Uploads,
         step > 1 => DOMAIN drafts' # {},
         step > 2 => \A l \in DOMAIN drafts' : Pictured(l)',
         step > 3 => \A l \in DOMAIN drafts' : Swapped(l)'
  PROVE  FormInv'
PROOF
<1>1. drafts' \in [DOMAIN drafts' -> Draft]
  BY Zenon
<1>. QED
  BY <1>1 DEF FormInv

\* A field of a draft is replaced by a value it may have.
LEMMA UpdateDraft ==
  ASSUME FormInv, UNCHANGED <<step, eligible, way>>,
         NEW k \in DOMAIN drafts, NEW d \in Draft, drafts' = [drafts EXCEPT ![k] = d],
         d.quantity <= eligible[k],
         uploads' \in SUBSET Uploads,
         step > 2 => (d.reason = "damaged" => d.photos # {}),
         step > 3 => (d.action = "exchange" => d.exchange # None)
  PROVE  FormInv'
PROOF
<1>1. /\ DOMAIN drafts' = DOMAIN drafts
      /\ \A l \in DOMAIN drafts : drafts'[l] = IF l = k THEN d ELSE drafts[l]
      /\ drafts' = [l \in DOMAIN drafts' |-> drafts'[l]]
  BY DEF FormInv
<1>2. \A l \in DOMAIN drafts : drafts[l] \in Draft /\ drafts[l].quantity <= eligible[l]
  BY DEF FormInv
<1>3. step > 2 => \A l \in DOMAIN drafts' : Pictured(l)'
  BY <1>1 DEF FormInv, Pictured
<1>4. step > 3 => \A l \in DOMAIN drafts' : Swapped(l)'
  BY <1>1 DEF FormInv, Swapped
<1>5. DOMAIN drafts' \in SUBSET DOMAIN eligible /\ (step > 1 => DOMAIN drafts' # {})
  BY <1>1 DEF FormInv
<1>. QED
  BY <1>1, <1>2, <1>3, <1>4, <1>5, DraftsStep

\* Every step of the form keeps its invariant.
LEMMA FormStep ==
  ASSUME ControlTypeOK, FormInv, ReturnFlow
  PROVE  FormInv'
PROOF
<1>1. CASE getEligibility
  <2>. DEFINE left == {l \in Lines : Ordered[l] > Bound(l)}
  <2>1. \A l \in left : Ordered[l] - Bound(l) \in Nat \ {0}
    BY BoundNat, OrderAssumption DEF OrderAssumption
  <2>2. DOMAIN eligible' = left /\ eligible' \in [left -> Nat \ {0}]
    BY <1>1, <2>1 DEF getEligibility
  <2>3. DOMAIN <<>> = {} /\ <<>> \in [{} -> Draft]
    OBVIOUS
  <2>4. step' = 1 /\ drafts' = <<>> /\ way' \in Methods /\ uploads' = {}
    BY <1>1 DEF getEligibility, Methods
  <2>. QED
    BY <2>2, <2>3, <2>4 DEF FormInv
<1>2. CASE toggleItem
  <2>. DEFINE D == DOMAIN drafts
  <2>1. PICK l \in DOMAIN eligible :
          /\ At("items")
          /\ drafts' = IF l \in D THEN Restrict(drafts, D \ {l})
                       ELSE [k \in D \cup {l} |-> IF k = l THEN Picked ELSE drafts[k]]
          /\ UNCHANGED <<step, eligible, way, siblings, uploads>>
    BY <1>2 DEF toggleItem
  <2>2. step = 1
    BY <2>1 DEF At, STEPS
  <2>3. uploads' \in SUBSET Uploads
    BY <2>1 DEF FormInv
  <2>4. \A k \in D : drafts[k] \in Draft /\ drafts[k].quantity <= eligible[k]
    BY DEF FormInv
  <2>5. CASE l \in D
    <3>1. /\ DOMAIN drafts' = D \ {l}
          /\ drafts' = [k \in D \ {l} |-> drafts[k]]
      BY <2>1, <2>5 DEF Restrict
    <3>2. \A k \in DOMAIN drafts' : drafts'[k] \in Draft /\ drafts'[k].quantity <= eligible[k]
      BY <2>4, <3>1
    <3>3. DOMAIN drafts' \in SUBSET DOMAIN eligible
      BY <3>1 DEF FormInv
    <3>. QED
      BY <2>1, <2>2, <2>3, <3>1, <3>2, <3>3, DraftsStep
  <2>6. CASE l \notin D
    <3>1. /\ DOMAIN drafts' = D \cup {l}
          /\ drafts' = [k \in D \cup {l} |-> IF k = l THEN Picked ELSE drafts[k]]
      BY <2>1, <2>6
    <3>2. Picked \in Draft /\ Picked.quantity <= eligible[l]
      BY DEF Picked, Draft, Actions, FormInv
    <3>3. \A k \in DOMAIN drafts' : drafts'[k] \in Draft /\ drafts'[k].quantity <= eligible[k]
      BY <2>4, <3>1, <3>2
    <3>4. DOMAIN drafts' \in SUBSET DOMAIN eligible
      BY <3>1 DEF FormInv
    <3>. QED
      BY <2>1, <2>2, <2>3, <3>1, <3>3, <3>4, DraftsStep
  <2>. QED
    BY <2>5, <2>6
<1>3. CASE ItemsStep
  <2>1. PICK l \in DOMAIN drafts : \E n \in 1..eligible[l] :
          /\ At("items") /\ updateDraft(l, "quantity", n)
          /\ UNCHANGED <<step, eligible, way, siblings, uploads>>
    BY <1>3 DEF ItemsStep
  <2>2. PICK n \in 1..eligible[l] :
          /\ At("items") /\ updateDraft(l, "quantity", n)
          /\ UNCHANGED <<step, eligible, way, siblings, uploads>>
    BY <2>1
  <2>. DEFINE d == [drafts[l] EXCEPT !.quantity = n]
  <2>3. drafts[l] \in Draft /\ eligible[l] \in Nat
    BY DEF FormInv
  <2>4. d \in Draft /\ d.quantity = n /\ n <= eligible[l]
    BY <2>3 DEF Draft
  <2>5. drafts' = [drafts EXCEPT ![l] = d]
    BY <2>2 DEF updateDraft
  <2>6. step = 1 /\ uploads' \in SUBSET Uploads
    BY <2>2 DEF At, STEPS, FormInv
  <2>7. /\ UNCHANGED <<step, eligible, way>> /\ d \in Draft /\ d.quantity <= eligible[l]
        /\ step > 2 => (d.reason = "damaged" => d.photos # {})
        /\ step > 3 => (d.action = "exchange" => d.exchange # None)
    BY <2>2, <2>4, <2>6
  <2>. HIDE DEF d
  <2>. QED
    BY <2>5, <2>6, <2>7, UpdateDraft, Zenon
<1>4. CASE ReasonStep
  <2>1. PICK l \in DOMAIN drafts, reason \in {"size_issue", "damaged"} :
          /\ At("reason") /\ updateDraft(l, "reason", reason)
          /\ uploads' = {IF u.line = l THEN [u EXCEPT !.watched = FALSE] ELSE u : u \in uploads}
          /\ UNCHANGED <<step, eligible, way, siblings>>
    BY <1>4 DEF ReasonStep
  <2>. DEFINE d == [drafts[l] EXCEPT !.reason = reason]
  <2>2. drafts[l] \in Draft /\ drafts[l].quantity <= eligible[l]
    BY DEF FormInv
  <2>3. d \in Draft /\ d.quantity = drafts[l].quantity
    BY <2>2 DEF Draft
  <2>4. drafts' = [drafts EXCEPT ![l] = d]
    BY <2>1 DEF updateDraft
  <2>5. step = 2
    BY <2>1 DEF At, STEPS
  <2>6. uploads' \in SUBSET Uploads
    BY <2>1 DEF FormInv, Uploads
  <2>7. UNCHANGED <<step, eligible, way>>
    BY <2>1
  <2>. HIDE DEF d
  <2>8. /\ UNCHANGED <<step, eligible, way>> /\ d \in Draft /\ d.quantity <= eligible[l]
        /\ step > 2 => (d.reason = "damaged" => d.photos # {})
        /\ step > 3 => (d.action = "exchange" => d.exchange # None)
    BY <2>2, <2>3, <2>5, <2>7
  <2>. QED
    BY <2>4, <2>6, <2>8, UpdateDraft, Zenon
<1>5. CASE PhotoUploader
  <2>1. PICK l \in DOMAIN drafts :
          /\ At("reason") /\ UNCHANGED <<step, eligible, way, siblings>>
          /\ \/ \E photo \in Photos \ drafts[l].photos :
                  /\ uploads' = uploads \cup {[line |-> l, photo |-> photo,
                                               had |-> drafts[l].photos, watched |-> TRUE]}
                  /\ UNCHANGED drafts
             \/ \E photo \in drafts[l].photos :
                  updateDraft(l, "photos", drafts[l].photos \ {photo}) /\ UNCHANGED uploads
    BY <1>5 DEF PhotoUploader
  <2>2. drafts[l] \in Draft /\ drafts[l].quantity <= eligible[l] /\ l \in Lines
    BY DEF FormInv
  <2>3. step = 2
    BY <2>1 DEF At, STEPS
  <2>4. ASSUME NEW photo \in Photos,
               uploads' = uploads \cup {[line |-> l, photo |-> photo,
                                         had |-> drafts[l].photos, watched |-> TRUE]},
               UNCHANGED drafts
        PROVE  FormInv'
    <3>1. drafts[l].photos \in SUBSET Photos /\ uploads \in SUBSET Uploads
      BY <2>2 DEF FormInv, Draft
    <3>2. uploads' \in SUBSET Uploads
      <4>1. [line |-> l, photo |-> photo, had |-> drafts[l].photos, watched |-> TRUE] \in Uploads
        BY <2>2, <3>1 DEF Uploads
      <4>. QED
        BY <2>4, <3>1, <4>1
    <3>. QED
      BY <2>1, <2>4, <3>2 DEF FormInv, Pictured, Swapped
  <2>5. ASSUME NEW photo \in drafts[l].photos,
               updateDraft(l, "photos", drafts[l].photos \ {photo}), UNCHANGED uploads
        PROVE  FormInv'
    <3>. DEFINE d == [drafts[l] EXCEPT !.photos = drafts[l].photos \ {photo}]
    <3>1. d \in Draft /\ d.quantity = drafts[l].quantity
      BY <2>2 DEF Draft
    <3>2. drafts' = [drafts EXCEPT ![l] = d] /\ uploads' \in SUBSET Uploads
      BY <2>5 DEF updateDraft, FormInv
    <3>3. UNCHANGED <<step, eligible, way>>
      BY <2>1
    <3>. HIDE DEF d
    <3>4. /\ UNCHANGED <<step, eligible, way>> /\ d \in Draft /\ d.quantity <= eligible[l]
          /\ step > 2 => (d.reason = "damaged" => d.photos # {})
          /\ step > 3 => (d.action = "exchange" => d.exchange # None)
      BY <2>2, <2>3, <3>1, <3>3
    <3>. QED
      BY <3>2, <3>4, UpdateDraft, Zenon
  <2>. QED
    BY <2>1, <2>4, <2>5
<1>6. CASE PhotoUploaded
  <2>1. PICK u \in uploads :
          /\ uploads' = uploads \ {u} /\ UNCHANGED <<step, eligible, way, siblings>>
          /\ updateDraft(u.line, "photos", u.had \cup {u.photo}) \/ UNCHANGED drafts
    BY <1>6 DEF PhotoUploaded
  <2>2. uploads' \in SUBSET Uploads /\ u.photo \in Photos /\ u.had \in SUBSET Photos
    BY <2>1 DEF FormInv, Uploads
  <2>3. CASE UNCHANGED drafts
    BY <2>1, <2>2, <2>3 DEF FormInv, Pictured, Swapped
  <2>4. CASE u.line \in DOMAIN drafts /\ ~UNCHANGED drafts
    <3>. DEFINE l == u.line
                d == [drafts[l] EXCEPT !.photos = u.had \cup {u.photo}]
    <3>1. drafts[l] \in Draft /\ drafts[l].quantity <= eligible[l]
      BY <2>4 DEF FormInv
    <3>2. /\ d \in Draft /\ d.quantity = drafts[l].quantity /\ d.photos # {}
          /\ d.action = drafts[l].action /\ d.exchange = drafts[l].exchange
      BY <2>2, <3>1 DEF Draft
    <3>3. drafts' = [drafts EXCEPT ![l] = d]
      BY <2>1, <2>4 DEF updateDraft
    <3>4. step > 3 => (d.action = "exchange" => d.exchange # None)
      BY <2>4, <3>2 DEF FormInv, Swapped
    <3>. HIDE DEF d
    <3>. QED
      BY <2>1, <2>2, <2>4, <3>1, <3>2, <3>3, <3>4, UpdateDraft
  <2>. QED
    BY <2>1, <2>3, <2>4 DEF updateDraft
<1>7. CASE ActionStep
  <2>1. PICK l \in DOMAIN drafts :
          /\ At("action") /\ UNCHANGED <<step, eligible, way, siblings, uploads>>
          /\ \/ \E action \in Actions \ {drafts[l].action} :
                  drafts' = [drafts EXCEPT ![l].action = action, ![l].exchange = None]
             \/ \E v \in Variants : updateDraft(l, "exchange", v)
    BY <1>7 DEF ActionStep
  <2>2. drafts[l] \in Draft /\ drafts[l].quantity <= eligible[l]
    BY DEF FormInv
  <2>3. step = 3 /\ uploads' \in SUBSET Uploads
    <3>1. step = 3
      <4>1. At("action")
        BY <2>1
      <4>. QED
        BY <4>1 DEF At, STEPS
    <3>2. uploads' = uploads
      BY <2>1
    <3>. QED
      BY <3>1, <3>2 DEF FormInv
  <2>4. Pictured(l)
    BY <2>3 DEF FormInv
  <2>5. PICK d \in Draft : /\ drafts' = [drafts EXCEPT ![l] = d]
                           /\ d.quantity = drafts[l].quantity /\ d.reason = drafts[l].reason
                           /\ d.photos = drafts[l].photos
    <3>1. ASSUME NEW action \in Actions,
                 drafts' = [drafts EXCEPT ![l].action = action, ![l].exchange = None]
          PROVE  \E d \in Draft : /\ drafts' = [drafts EXCEPT ![l] = d]
                                  /\ d.quantity = drafts[l].quantity /\ d.reason = drafts[l].reason
                                  /\ d.photos = drafts[l].photos
      <4>. DEFINE d == [drafts[l] EXCEPT !.action = action, !.exchange = None]
      <4>1. /\ d \in Draft /\ d.quantity = drafts[l].quantity /\ d.reason = drafts[l].reason
            /\ d.photos = drafts[l].photos
        BY <2>2 DEF Draft
      <4>2. drafts' = [drafts EXCEPT ![l] = d]
        BY <3>1
      <4>. HIDE DEF d
      <4>. QED
        BY <4>1, <4>2
    <3>2. ASSUME NEW v \in Variants, updateDraft(l, "exchange", v)
          PROVE  \E d \in Draft : /\ drafts' = [drafts EXCEPT ![l] = d]
                                  /\ d.quantity = drafts[l].quantity /\ d.reason = drafts[l].reason
                                  /\ d.photos = drafts[l].photos
      <4>. DEFINE d == [drafts[l] EXCEPT !.exchange = v]
      <4>1. /\ d \in Draft /\ d.quantity = drafts[l].quantity /\ d.reason = drafts[l].reason
            /\ d.photos = drafts[l].photos
        BY <2>2 DEF Draft
      <4>2. drafts' = [drafts EXCEPT ![l] = d]
        BY <3>2 DEF updateDraft
      <4>. HIDE DEF d
      <4>. QED
        BY <4>1, <4>2
    <3>. QED
      BY <2>1, <3>1, <3>2
  <2>6. d.reason = "damaged" => d.photos # {}
    BY <2>4, <2>5 DEF Pictured
  <2>7. UNCHANGED <<step, eligible, way>>
    BY <2>1
  <2>8. /\ UNCHANGED <<step, eligible, way>> /\ d \in Draft /\ d.quantity <= eligible[l]
        /\ step > 2 => (d.reason = "damaged" => d.photos # {})
        /\ step > 3 => (d.action = "exchange" => d.exchange # None)
    BY <2>2, <2>3, <2>5, <2>6, <2>7
  <2>. QED
    BY <2>3, <2>5, <2>8, UpdateDraft, Zenon
<1>8. CASE ensureVariants \/ MethodStep \/ handleSubmit
  <2>1. UNCHANGED <<step, eligible, drafts, uploads>> /\ way' \in Methods
    BY <1>8 DEF ensureVariants, MethodStep, handleSubmit, formVars, FormInv
  <2>. QED
    BY <2>1 DEF FormInv, Pictured, Swapped
<1>9. CASE Turn
  <2>1. /\ UNCHANGED <<eligible, drafts, way>> /\ step \in 1..5
        /\ uploads' = {[u EXCEPT !.watched = FALSE] : u \in uploads}
        /\ \/ step < 5 /\ CanAdvanceFrom(STEPS[step]) /\ step' = step + 1
           \/ step > 1 /\ step' = step - 1
    BY <1>9 DEF Turn, STEPS
  <2>2. uploads' \in SUBSET Uploads
    BY <2>1 DEF FormInv, Uploads
  <2>3. step' \in 0..5 /\ (step' > 1 => DOMAIN drafts # {})
    <3>1. drafts # <<>> => DOMAIN drafts # {}
      <4>1. CASE DOMAIN drafts = {}
        BY <4>1 DEF FormInv
      <4>. QED
        BY <4>1
    <3>2. step = 1 /\ step' = 2 => drafts # <<>>
      BY <2>1 DEF CanAdvanceFrom, STEPS
    <3>. QED
      BY <2>1, <3>1, <3>2 DEF FormInv
  <2>4. step' > 2 => \A l \in DOMAIN drafts : Pictured(l)
    <3>1. step = 2 /\ step' = 3 => \A l \in DOMAIN drafts : Pictured(l)
      BY <2>1 DEF CanAdvanceFrom, STEPS
    <3>. QED
      BY <2>1, <3>1 DEF FormInv
  <2>5. step' > 3 => \A l \in DOMAIN drafts : Swapped(l)
    <3>1. step = 3 /\ step' = 4 => \A l \in DOMAIN drafts : Swapped(l)
      BY <2>1 DEF CanAdvanceFrom, STEPS
    <3>. QED
      BY <2>1, <3>1 DEF FormInv
  <2>. QED
    BY <2>1, <2>2, <2>3, <2>4, <2>5 DEF FormInv, Pictured, Swapped
<1>. QED
  BY <1>1, <1>2, <1>3, <1>4, <1>5, <1>6, <1>7, <1>8, <1>9 DEF ReturnFlow

\* Where the pages offer a button the service allows what it asks for, but for
\* receiving a scheduled pickup.
LEMMA OffersAllowed ==
  ASSUME NEW button \in Dialogs \cup {"complete"}, NEW s \in States, Offers(button, s)
  PROVE  \/ canTransition(s, Leads[button])
         \/ button = "received" /\ s = "pickup_scheduled"
PROOF
<1>. USE DEF Offers, Leads, canTransition, NEXT, Forward, Cancellable, States, Closed, RECEIVED_FROM
<1>1. CASE button = "approve"
  BY <1>1
<1>2. CASE button = "reject"
  BY <1>2
<1>3. CASE button = "received"
  BY <1>3
<1>4. CASE button = "verify"
  BY <1>4
<1>5. CASE button = "complete"
  BY <1>5
<1>6. CASE button = "cancel"
  BY <1>6
<1>. QED
  BY <1>1, <1>2, <1>3, <1>4, <1>5, <1>6 DEF Dialogs

\* A call that goes on or ends well is about a request that is filed.
LEMMA ServedIsFiled ==
  ASSUME ControlTypeOK, StagesInv, NEW w \in Workers, Serve(w), granted # {} => filed > 0
  PROVE  granted' # {} => filed' > 0
PROOF
<1>1. filed \in Nat /\ 1..filed \subseteq Numbers
  BY LimitsAssumption DEF ControlTypeOK, Numbers, LimitsAssumption
<1>2. CASE FileCommits(w)
  BY <1>1, <1>2 DEF FileCommits
<1>3. CASE ~FileCommits(w) /\ (Customer(w) \/ Staff(w))
  <2>1. doing[w].op \notin {"idle", "file"}
    <3>1. doing[w] \in Calls /\ doing[w] # Idle
      BY DEF ControlTypeOK, Serve
    <3>2. doing[w].op # "idle"
      BY <3>1, CallFacts
    <3>3. \A call : ~Begin(w, call)
      BY <3>1 DEF Begin
    <3>4. doing[w].op \in {"selfCancel", "refund", "insertRefund"} \cup Busy
      BY <1>3, <3>3 DEF Customer, Staff, FileReads, CancelReads, ApproveReads, ReceiveReads,
           VerifyReads, CompleteReads, EndReads, ApplyCancelReads, ReleaseReads, ReleaseCommits,
           MoveCommits, VerifyCommits, CompleteCommits, RefundReads, RefundCommits,
           RefundRefused, Busy
    <3>. QED
      BY <3>2, <3>4 DEF Busy
  <2>2. doing[w].return \in 1..filed
    BY <2>1 DEF StagesInv, Unfiled
  <2>3. filed' = filed
    <3>1. \A call : Begin(w, call) => filed' = filed
      BY DEF Begin, request
    <3>. QED
      BY <1>3, <3>1 DEF Customer, Staff, FileReads, CancelReads, ApproveReads, ReceiveReads,
           VerifyReads, CompleteReads, EndReads, ApplyCancelReads, ReleaseReads, ReleaseCommits,
           MoveCommits, VerifyCommits, CompleteCommits, RefundReads, RefundCommits,
           RefundRefused, request
  <2>. QED
    BY <1>1, <2>2, <2>3
<1>4. CASE Fails(w) /\ (granted' = IF doing[w].op \in {"refund", "insertRefund"} THEN granted
                                   ELSE granted \ {w})
  BY <1>4 DEF Fails, request
<1>. QED
  BY <1>2, <1>3, <1>4 DEF Serve

\* The customer's page keeps to requests that are filed.
LEMMA CustomerStep ==
  ASSUME ControlTypeOK, StagesInv, RowsInv, FormInv, CustomerInv, DeskNext, [Next]_vars
  PROVE  CustomerInv'
PROOF
<1>1. /\ filed \in Nat /\ filed' \in Nat /\ filed <= filed'
      /\ 1..filed \subseteq Numbers /\ \A r \in 1..filed : state[r] \in States
  <2>1. filed \in Nat
    BY DEF ControlTypeOK
  <2>. QED
    BY <2>1, RowsStep DEF RowsInv
<1>2. Seen \subseteq Seen'
  <2>1. 1..filed \subseteq 1..filed'
    BY <1>1
  <2>. QED
    BY <2>1 DEF Seen
<1>3. CASE ReturnFlow /\ ~handleSubmit
  <2>1. UNCHANGED <<summary, sent, granted, filed>>
    BY <1>3, Zenon DEF ReturnFlow, getEligibility, toggleItem, ItemsStep, ReasonStep, PhotoUploader,
        PhotoUploaded, ActionStep, ensureVariants, MethodStep, Turn, FormOnly, vars, request
  <2>2. sent = None \/ step' = step
    BY <1>3, Zenon DEF ReturnFlow, getEligibility, toggleItem, ItemsStep, ReasonStep, PhotoUploader,
        PhotoUploaded, ActionStep, ensureVariants, MethodStep, Turn, FormOnly
  <2>. QED
    BY <1>2, <2>1, <2>2 DEF CustomerInv
<1>4. CASE handleSubmit
  <2>1. UNCHANGED <<summary, granted, step>> /\ step = 5
    BY <1>4 DEF handleSubmit, formVars, At, STEPS
  <2>. QED
    BY <1>1, <1>2, <2>1 DEF CustomerInv
<1>5. CASE SummaryPage
  <2>1. PICK r \in 1..filed : ShowsSummary(r)
    BY <1>5 DEF SummaryPage
  <2>2. summary' \in Seen
    BY <1>1, <2>1 DEF ShowsSummary, Seen
  <2>3. UNCHANGED <<sent, granted>> /\ sent = None
    BY <1>5 DEF SummaryPage
  <2>. QED
    BY <1>1, <1>2, <2>2, <2>3 DEF CustomerInv
<1>6. CASE submitCancel
  <2>1. UNCHANGED <<summary, granted>> /\ summary # None
    BY <1>6 DEF submitCancel
  <2>. QED
    BY <1>1, <1>2, <2>1 DEF CustomerInv
<1>7. CASE CustomerAnswered
  <2>1. sent # None /\ sent' = None /\ granted' = granted \ {sent}
    BY <1>7 DEF CustomerAnswered
  <2>2. CASE UNCHANGED summary
    BY <1>1, <1>2, <2>1, <2>2 DEF CustomerInv
  <2>3. CASE sent \in granted /\ ShowsSummary(IF step = 0 THEN summary.return ELSE filed)
    <3>. DEFINE r == IF step = 0 THEN summary.return ELSE filed
    <3>1. r \in 1..filed
      <4>1. CASE step = 0
        BY <2>1, <4>1 DEF CustomerInv, Seen
      <4>2. CASE step # 0
        BY <1>1, <2>3, <4>2 DEF CustomerInv
      <4>. QED
        BY <4>1, <4>2
    <3>2. summary' = [return |-> r, state |-> state[r]]
      BY <2>3 DEF ShowsSummary
    <3>. HIDE DEF r
    <3>3. summary' \in Seen
      BY <1>1, <3>1, <3>2 DEF Seen
    <3>. QED
      BY <1>1, <1>2, <2>1, <3>3 DEF CustomerInv
  <2>. QED
    BY <1>7, <2>2, <2>3 DEF CustomerAnswered
<1>8. ASSUME NEW w \in Workers, Serve(w)
      PROVE  CustomerInv'
  <2>1. UNCHANGED <<summary, sent, step>>
    BY <1>8 DEF Serve, formVars
  <2>2. granted' # {} => filed' > 0
    BY <1>8, ServedIsFiled DEF CustomerInv
  <2>. QED
    BY <1>2, <2>1, <2>2 DEF CustomerInv
<1>9. ASSUME NEW p \in Pages,
             \/ OpenDialog(p) \/ CloseDialog(p) \/ VerifyDialog(p) \/ ReturnDetail(p)
             \/ StaffAnswered(p) \/ InternalNote(p) \/ NoteSaved(p) \/ OpenPage(p)
      PROVE  CustomerInv'
  <2>1. UNCHANGED <<summary, sent, step>> /\ granted' \in SUBSET granted
    <3>1. CASE ReturnDetail(p)
      BY <3>1 DEF ReturnDetail, Press, formVars
    <3>2. CASE StaffAnswered(p)
      BY <3>2 DEF StaffAnswered, StaffOnly, formVars
    <3>3. CASE ~ReturnDetail(p) /\ ~StaffAnswered(p)
      BY <1>9, <3>3 DEF OpenDialog, CloseDialog, VerifyDialog, InternalNote, NoteSaved, OpenPage,
                        StaffOnly, formVars
    <3>. QED
      BY <3>1, <3>2, <3>3
  <2>. QED
    BY <1>1, <1>2, <2>1 DEF CustomerInv
<1>. QED
  BY <1>3, <1>4, <1>5, <1>6, <1>7, <1>8, <1>9 DEF DeskNext, ReturnFlow

\* A staff page acts on a request that it shows.
LEMMA StaffStep ==
  ASSUME ControlTypeOK, StagesInv, RowsInv, StaffInv, DeskNext, [Next]_vars
  PROVE  StaffInv'
PROOF
<1>1. /\ filed \in Nat /\ filed' \in Nat /\ filed <= filed'
      /\ 1..filed \subseteq Numbers /\ \A r \in 1..filed : state[r] \in States
  <2>1. filed \in Nat
    BY DEF ControlTypeOK
  <2>. QED
    BY <2>1, RowsStep DEF RowsInv
<1>2. Seen \subseteq Seen'
  <2>1. 1..filed \subseteq 1..filed'
    BY <1>1
  <2>. QED
    BY <2>1 DEF Seen
<1>3. None \notin Seen /\ None \notin Seen'
  <2>1. 1..filed' \subseteq Numbers
    BY <1>1, ControlTypeStep, LimitsAssumption DEF ControlTypeOK, Numbers, LimitsAssumption
  <2>. QED
    BY <1>1, <2>1, DeskAssumption DEF DeskAssumption, Seen
<1>4. ASSUME NEW p \in Pages, NEW r \in 1..filed, shown' = [shown EXCEPT ![p] = [return |-> r, state |-> state[r]]]
      PROVE  /\ shown' \in [Pages -> Seen' \cup {None}]
             /\ \A q \in Pages : shown[q] # None => shown'[q] # None
             /\ shown'[p] # None
  <2>. DEFINE new == [return |-> r, state |-> state[r]]
  <2>1. new \in Seen
    BY <1>1 DEF Seen
  <2>. HIDE DEF new
  <2>2. shown' = [shown EXCEPT ![p] = new]
    BY <1>4 DEF new
  <2>. QED
    BY <1>2, <1>3, <2>1, <2>2 DEF StaffInv
<1>5. ASSUME NEW p \in Pages, shown[p] # None, Rendered(p)
      PROVE  /\ shown' \in [Pages -> Seen' \cup {None}]
             /\ \A q \in Pages : shown[q] # None => shown'[q] # None
  <2>. DEFINE r == shown[p].return
  <2>1. shown[p] \in Seen
    BY <1>5 DEF StaffInv
  <2>2. r \in 1..filed /\ [shown[p] EXCEPT !.state = state[r]] = [return |-> r, state |-> state[r]]
    BY <2>1 DEF Seen
  <2>3. shown' = [shown EXCEPT ![p] = [shown[p] EXCEPT !.state = state[r]]]
    BY <1>5 DEF Rendered
  <2>4. shown' = [shown EXCEPT ![p] = [return |-> r, state |-> state[r]]]
    BY <2>2, <2>3
  <2>. HIDE DEF r
  <2>. QED
    BY <1>4, <2>2, <2>4
<1>6. CASE UNCHANGED staffVars
  BY <1>2, <1>6 DEF StaffInv, staffVars
<1>7. ASSUME NEW p \in Pages, OpenDialog(p)
      PROVE  StaffInv'
  <2>1. PICK button \in Dialogs : shown[p] # None /\ dialog' = [dialog EXCEPT ![p] = button]
    BY <1>7 DEF OpenDialog
  <2>2. UNCHANGED <<shown, waits, noting>>
    BY <1>7 DEF OpenDialog
  <2>. QED
    BY <1>2, <2>1, <2>2 DEF StaffInv
<1>8. ASSUME NEW p \in Pages, CloseDialog(p) \/ VerifyDialog(p)
      PROVE  StaffInv'
  <2>1. UNCHANGED <<shown, waits, noting>> /\ (dialog' = dialog \/ dialog' = [dialog EXCEPT ![p] = None])
    BY <1>8 DEF CloseDialog, VerifyDialog
  <2>. QED
    BY <1>2, <2>1 DEF StaffInv
<1>9. ASSUME NEW p \in Pages, ReturnDetail(p)
      PROVE  StaffInv'
  <2>1. UNCHANGED <<shown, dialog, noting>> /\ shown[p] # None
    BY <1>9 DEF ReturnDetail, Press
  <2>2. DOMAIN waits' = Pages /\ \A q \in Pages : q # p => waits'[q] = waits[q]
    <3>1. DOMAIN waits = Pages
      BY DEF StaffInv
    <3>2. waits' = waits \/ \E w \in Workers : waits' = [waits EXCEPT ![p] = w]
      BY <1>9 DEF ReturnDetail, Press
    <3>. QED
      BY <3>1, <3>2
  <2>. QED
    BY <1>2, <2>1, <2>2 DEF StaffInv
<1>10. ASSUME NEW p \in Pages, StaffAnswered(p)
       PROVE  StaffInv'
  <2>1. waits[p] # None /\ waits' = [waits EXCEPT ![p] = None] /\ noting' = noting
    BY <1>10 DEF StaffAnswered
  <2>2. shown[p] # None
    BY <2>1 DEF StaffInv
  <2>3. CASE UNCHANGED <<shown, dialog>>
    BY <1>2, <2>1, <2>3 DEF StaffInv
  <2>4. CASE Rendered(p) /\ dialog' = [dialog EXCEPT ![p] = None]
    BY <1>5, <2>1, <2>2, <2>4 DEF StaffInv
  <2>. QED
    BY <1>10, <2>3, <2>4 DEF StaffAnswered
<1>11. ASSUME NEW p \in Pages, InternalNote(p)
       PROVE  StaffInv'
  <2>1. UNCHANGED <<shown, dialog, waits>> /\ shown[p] # None /\ noting' = noting \cup {p}
    BY <1>11 DEF InternalNote
  <2>. QED
    BY <1>2, <2>1 DEF StaffInv
<1>12. ASSUME NEW p \in Pages, NoteSaved(p)
       PROVE  StaffInv'
  <2>1. UNCHANGED <<dialog, waits>> /\ p \in noting /\ noting' = noting \ {p}
    BY <1>12 DEF NoteSaved
  <2>2. shown[p] # None
    BY <2>1 DEF StaffInv
  <2>3. CASE UNCHANGED shown
    BY <1>2, <2>1, <2>3 DEF StaffInv
  <2>4. CASE Rendered(p)
    BY <1>5, <2>1, <2>2, <2>4 DEF StaffInv
  <2>. QED
    BY <1>12, <2>3, <2>4 DEF NoteSaved
<1>13. ASSUME NEW p \in Pages, OpenPage(p)
       PROVE  StaffInv'
  <2>1. PICK r \in 1..filed : shown' = [shown EXCEPT ![p] = [return |-> r, state |-> state[r]]]
    BY <1>13 DEF OpenPage
  <2>2. UNCHANGED <<waits, noting>> /\ dialog' = [dialog EXCEPT ![p] = None]
    BY <1>13 DEF OpenPage
  <2>3. /\ shown' \in [Pages -> Seen' \cup {None}]
        /\ \A q \in Pages : shown[q] # None => shown'[q] # None
    BY <1>4, <2>1
  <2>. QED
    BY <2>2, <2>3 DEF StaffInv
<1>14. ReturnFlow \/ SummaryPage \/ submitCancel \/ CustomerAnswered \/ (\E w \in Workers : Serve(w))
         => UNCHANGED staffVars
  <2>1. ReturnFlow => UNCHANGED staffVars
    BY Zenon DEF ReturnFlow, getEligibility, toggleItem, ItemsStep, ReasonStep, PhotoUploader,
        PhotoUploaded, ActionStep, ensureVariants, MethodStep, Turn, FormOnly, handleSubmit
  <2>. QED
    BY <2>1 DEF SummaryPage, submitCancel, CustomerAnswered, Serve
<1>. QED
  BY <1>6, <1>7, <1>8, <1>9, <1>10, <1>11, <1>12, <1>13, <1>14 DEF DeskNext

\* Nothing is refused to a page that is up to date.
LEMMA PressesStep ==
  ASSUME ControlTypeOK, RowsInv, FormInv, StaffInv, PressesWork, DeskNext
  PROVE  PressesWork'
PROOF
<1>1. CASE UNCHANGED refused
  BY <1>1 DEF PressesWork
<1>2. CASE handleSubmit /\ ~UNCHANGED refused
  <2>1. ~Acceptable /\ FormCurrent /\ (\A r \in Numbers : ~Open(r)) /\ step = 5
    BY <1>2 DEF handleSubmit, At, STEPS
  <2>2. ASSUME NEW l \in DOMAIN drafts
        PROVE  drafts[l].quantity <= Ordered[l] - Bound(l) /\ Swapped(l)
    <3>1. Ordered[l] - Bound(l) >= eligible[l] /\ drafts[l].quantity <= eligible[l]
      BY <2>1 DEF FormCurrent, FormInv
    <3>2. eligible[l] \in Nat /\ drafts[l].quantity \in Nat /\ l \in Lines
      BY DEF FormInv, Draft
    <3>3. Ordered[l] \in Nat /\ Bound(l) \in Nat
      BY <3>2, BoundNat, OrderAssumption DEF OrderAssumption
    <3>4. Swapped(l)
      BY <2>1 DEF FormInv
    <3>. QED
      BY <3>1, <3>2, <3>3, <3>4
  <2>. QED
    BY <2>1, <2>2 DEF Acceptable
<1>3. CASE submitCancel /\ ~UNCHANGED refused
  BY <1>3 DEF submitCancel
<1>4. ASSUME NEW p \in Pages, ReturnDetail(p), ~UNCHANGED refused
      PROVE  PressesWork'
  <2>1. PICK button \in Dialogs \cup {"complete"} : Press(p, button) /\ shown[p] # None
    BY <1>4 DEF ReturnDetail, StaffInv
  <2>. DEFINE r == shown[p].return
  <2>2. /\ ~canTransition(state[r], Leads[button]) /\ Offers(button, state[r])
        /\ refused' = refused \cup {<<button, state[r]>>}
    BY <1>4, <2>1 DEF Press
  <2>3. r \in 1..filed
    BY <2>1 DEF StaffInv, Seen
  <2>4. state[r] \in States
    BY <2>3 DEF RowsInv
  <2>. HIDE DEF r
  <2>5. button = "received" /\ state[r] = "pickup_scheduled"
    BY <2>2, <2>4, OffersAllowed
  <2>. QED
    BY <2>2, <2>5 DEF PressesWork
<1>5. DeskNext => \/ UNCHANGED refused \/ handleSubmit \/ submitCancel
                  \/ \E p \in Pages : ReturnDetail(p)
  <2>1. ReturnFlow => UNCHANGED refused \/ handleSubmit
    BY Zenon DEF ReturnFlow, getEligibility, toggleItem, ItemsStep, ReasonStep, PhotoUploader,
        PhotoUploaded, ActionStep, ensureVariants, MethodStep, Turn, FormOnly
  <2>. QED
    BY <2>1 DEF DeskNext, SummaryPage, CustomerAnswered, OpenDialog, CloseDialog, VerifyDialog,
        StaffAnswered, InternalNote, NoteSaved, OpenPage, StaffOnly, Serve
<1>. QED
  BY <1>1, <1>2, <1>3, <1>4, <1>5

\* Every step of the pages is a call that Returns allows, or no step of it, and
\* keeps what pages and calls rely on.
LEMMA DeskStep ==
  ASSUME EveryForm
  PROVE  ControlTypeOK /\ StagesInv /\ DeskInv /\ [DeskNext]_<<vars, deskVars>>
           => [Next]_vars /\ (ControlTypeOK /\ StagesInv /\ DeskInv)'
PROOF
<1>. SUFFICES ASSUME ControlTypeOK, StagesInv, DeskInv, [DeskNext]_<<vars, deskVars>>
              PROVE  [Next]_vars /\ (ControlTypeOK /\ StagesInv /\ DeskInv)'
  OBVIOUS
<1>1. [Next]_vars
  BY PagesCall DEF DeskInv
<1>2. ControlTypeOK' /\ StagesInv' /\ RowsInv'
  BY <1>1, ControlTypeStep, StagesStep, RowsStep DEF DeskInv
<1>3. CASE UNCHANGED <<vars, deskVars>>
  <2>1. UNCHANGED formVars /\ UNCHANGED staffVars /\ UNCHANGED <<summary, sent, granted, refused, filed>>
    BY <1>3 DEF vars, deskVars, request
  <2>2. FormInv'
    BY <2>1, FormGone DEF DeskInv
  <2>. QED
    BY <1>1, <1>2, <2>1, <2>2
       DEF DeskInv, CustomerInv, StaffInv, PressesWork, Seen, staffVars, formVars
<1>4. CASE DeskNext
  <2>1. FormInv'
    <3>1. CASE ReturnFlow
      BY <3>1, FormStep DEF DeskInv
    <3>2. CASE ~ReturnFlow
      <4>1. NoForm \/ UNCHANGED formVars
        BY <1>4, <3>2 DEF DeskNext, SummaryPage, ShowsSummary, submitCancel, CustomerAnswered,
             OpenDialog, CloseDialog, VerifyDialog, ReturnDetail, Press, StaffAnswered,
             InternalNote, NoteSaved, OpenPage, StaffOnly, Serve
      <4>. QED
        BY <4>1, FormGone DEF DeskInv
    <3>. QED
      BY <3>1, <3>2
  <2>2. CustomerInv' /\ StaffInv' /\ PressesWork'
    BY <1>1, <1>4, CustomerStep, StaffStep, PressesStep DEF DeskInv
  <2>. QED
    BY <1>1, <1>2, <2>1, <2>2 DEF DeskInv
<1>. QED
  BY <1>3, <1>4

\* The invariant of the pages, and of the calls they make.
THEOREM DeskSafe == ASSUME EveryForm PROVE DeskSpec => [](ControlTypeOK /\ StagesInv /\ DeskInv)
PROOF
<1>1. Init /\ DeskInit => DeskInv
  <2>. SUFFICES ASSUME Init, DeskInit PROVE DeskInv
    OBVIOUS
  <2>1. DOMAIN <<>> = {} /\ <<>> \in [{} -> Nat \ {0}] /\ <<>> \in [{} -> Draft]
    OBVIOUS
  <2>2. FormInv
    BY <2>1 DEF DeskInit, FormInv, Methods
  <2>3. RowsInv
    BY DEF Init, RowsInv
  <2>4. CustomerInv /\ StaffInv /\ PressesWork
    BY DEF DeskInit, CustomerInv, StaffInv, PressesWork
  <2>. QED
    BY <2>2, <2>3, <2>4 DEF DeskInv
<1>. QED
  BY <1>1, ControlTypeInit, StagesInit, DeskStep, PTL DEF DeskSpec

\* The pages only make calls that Returns allows: whatever is proved of Returns
\* holds of requests that are filed and handled on them.
THEOREM PagesMakeCalls == ASSUME EveryForm PROVE DeskSpec => Spec
PROOF
<1>1. ControlTypeOK /\ StagesInv /\ DeskInv /\ [DeskNext]_<<vars, deskVars>> => [Next]_vars
  BY DeskStep
<1>. QED
  BY <1>1, DeskSafe, PTL DEF DeskSpec, Spec

\* A form that can be submitted is complete.
THEOREM FormsAreComplete == ASSUME EveryForm PROVE DeskSpec => []ConfirmedComplete
PROOF
<1>1. DeskInv => ConfirmedComplete
  BY DEF DeskInv, FormInv, ConfirmedComplete, STEPS
<1>. QED
  BY <1>1, DeskSafe, PTL

\* A page that is up to date offers what the service accepts.
THEOREM OffersAreAccepted == ASSUME EveryForm PROVE DeskSpec => []PressesWork
PROOF
<1>1. DeskInv => PressesWork
  BY DEF DeskInv
<1>. QED
  BY <1>1, DeskSafe, PTL
=============================================================================

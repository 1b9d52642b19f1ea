---------------------------- MODULE PayoutProofs ----------------------------
(***************************************************************************)
(* Proofs about Payout, for any loans, requests, amounts and webhooks.     *)
(***************************************************************************)
EXTENDS Payout, SumTheorems, TLAPS

-----------------------------------------------------------------------------
(* Type correctness. *)

BooksOK ==
  /\ balance \in Nat /\ available \in Nat /\ reserved \in Nat
  /\ loan \in [Loans -> LoanStatus] /\ disbursed \subseteq Loans
  /\ status \in [Requests -> TxnStatus \cup {"NONE"}]

\* process_successful_payout leaves a well-typed wallet, loan and transaction.
LEMMA SuccessBooks ==
  ASSUME TypeOK, NEW r \in Requests, ProcessSuccessfulPayout(r)
  PROVE  BooksOK'
  BY DEF TypeOK, BooksOK, ProcessSuccessfulPayout, DisburseLoan, Floor0, books,
         LoanStatus, TxnStatus

\* So does process_failed_payout.
LEMMA FailureBooks ==
  ASSUME TypeOK, NEW r \in Requests, NEW w, ProcessFailedPayout(r, w)
  PROVE  BooksOK'
  <1>1. CASE status[r] \in {"FAILED", "REVERSED"}
    BY <1>1 DEF TypeOK, BooksOK, ProcessFailedPayout, books
  <1>2. CASE status[r] \notin {"FAILED", "REVERSED"}
    BY <1>2 DEF TypeOK, BooksOK, ProcessFailedPayout, ReleaseFunds,
                ReverseDisbursement, Floor0, LoanStatus, TxnStatus
  <1>3. QED BY <1>1, <1>2

\* And so does a save of PROCESSING.
LEMMA ProcessingBooks ==
  ASSUME TypeOK, NEW r \in Requests, SaveProcessing(r)
  PROVE  BooksOK'
  BY DEF TypeOK, BooksOK, SaveProcessing, wallet, TxnStatus

LEMMA InitTypeOK == Init => TypeOK
  BY PayoutAssumptions DEF Init, TypeOK, LoanStatus, TxnStatus, OrderState, Answers

\* Every step of a request's worker keeps the types.
LEMMA RequestTypeOK ==
  ASSUME TypeOK, NEW r \in Requests, RequestStep(r)
  PROVE  TypeOK'
  <1>1. CASE ValidatePayout(r)
    <2>1. total' \in [Requests -> Nat]
      <3>1. PICK fee \in Fees : total' = [total EXCEPT ![r] = Principal[target[r]] + fee]
        BY <1>1 DEF ValidatePayout
      <3>2. Principal[target[r]] + fee \in Nat
        BY PayoutAssumptions DEF TypeOK
      <3>3. QED BY <3>1, <3>2 DEF TypeOK
    <2>2. QED BY <1>1, <2>1 DEF ValidatePayout, TypeOK, books, hooks, images
  <1>2. CASE ReservePayout(r)
    BY <1>2 DEF ReservePayout, TypeOK, hooks, images, TxnStatus
  <1>3. CASE RefusePayout(r)
    BY <1>3 DEF RefusePayout, TypeOK, books, hooks, images
  <1>4. CASE SubmitPayout(r)
    <2>1. PICK s \in {"none", "rejected", "accepted"} :
            /\ prov' = [prov EXCEPT ![r] = s]
            /\ net' = IF s = "accepted" THEN net \cup Announce(r, "PROCESSING") ELSE net
      BY <1>4 DEF SubmitPayout
    <2>2. prov' \in [Requests -> OrderState] /\ net' \subseteq Events
      BY <2>1 DEF TypeOK, OrderState, Announce, Events
    <2>3. QED BY <1>4, <2>2 DEF SubmitPayout, TypeOK, books, hooks, images
  <1>5. CASE FinishPayout(r)
    <2>1. BooksOK'
      BY <1>5, SuccessBooks, FailureBooks, ProcessingBooks
         DEF FinishPayout, HandleAmbiguous, HandleRejection, HandleResponse
    <2>2. QED BY <1>5, <2>1 DEF FinishPayout, TypeOK, BooksOK, hooks, images
  <1>6. CASE RequestDies(r)
    BY <1>6 DEF RequestDies, TypeOK, books, hooks, images
  <1>7. QED BY <1>1, <1>2, <1>3, <1>4, <1>5, <1>6 DEF RequestStep

\* Every step of ClickPesa keeps the types.
LEMMA ProviderTypeOK ==
  ASSUME TypeOK, NEW r \in Requests, ProviderStep(r)
  PROVE  TypeOK'
  <1>1. CASE GatewayAnswers(r)
    BY <1>1 DEF GatewayAnswers, TypeOK, books, hooks, images
  <1>2. ASSUME NEW f, NEW t \in OrderState, NEW w \in Words, ProviderSettles(r, f, t, w)
        PROVE  TypeOK'
    BY <1>2 DEF ProviderSettles, TypeOK, Announce, Events, books, worker, hooks, images
  <1>3. QED
    BY <1>1, <1>2 DEF ProviderStep, ProviderPays, ProviderFails, ProviderReturns,
                      OrderState, Words

\* Every step of a webhook delivery keeps the types.
LEMMA EventTypeOK ==
  ASSUME TypeOK, NEW e \in Events, EventStep(e)
  PROVE  TypeOK'
  <1>0. e.txn \in Requests
    BY DEF Events
  <1>1. CASE ReadEvent(e)
    BY <1>0, <1>1 DEF ReadEvent, TypeOK, books, worker, images
  <1>2. CASE AlreadySuccess(e)
    BY <1>2 DEF AlreadySuccess, Acknowledge, TypeOK, books, worker, images
  <1>3. CASE ApplyEvent(e)
    <2>1. BooksOK'
      BY <1>0, <1>3, SuccessBooks, FailureBooks, ProcessingBooks DEF ApplyEvent
    <2>2. QED BY <1>3, <2>1 DEF ApplyEvent, Acknowledge, TypeOK, BooksOK, worker, images
  <1>4. CASE EventFails(e)
    BY <1>4 DEF EventFails, TypeOK, books, worker, images
  <1>5. QED BY <1>1, <1>2, <1>3, <1>4 DEF EventStep

\* Every other step of a loan keeps the types.
LEMMA LoanTypeOK ==
  ASSUME TypeOK, NEW l \in Loans, LoanStep(l)
  PROVE  TypeOK'
  <1>1. CASE SimulateLoanPayout(l)
    BY <1>1 DEF SimulateLoanPayout, DisburseLoan, TypeOK, LoanStatus, wallet, worker, hooks, images
  <1>2. ASSUME NEW d \in Decisions, SaveDecision(l, d), UNCHANGED <<wallet, status, worker, prov, net, hooks>>,
               disputed' \subseteq Loans, held' \subseteq Loans
        PROVE  TypeOK'
    BY <1>2 DEF SaveDecision, TypeOK, LoanStatus, Decisions, wallet, worker, hooks
  <1>3. CASE DecideLoan(l)
    BY <1>2, <1>3 DEF DecideLoan, TypeOK
  <1>4. CASE DecideAgain(l)
    BY <1>2, <1>4 DEF DecideAgain, TypeOK, images
  <1>5. CASE ReadUnpaid(l)
    BY <1>5 DEF ReadUnpaid, TypeOK, books, worker, hooks
  <1>6. CASE SaveUnpaid(l)
    BY <1>6 DEF SaveUnpaid, Unpaid, TypeOK, LoanStatus, wallet, worker, hooks, images
  <1>7. QED BY <1>1, <1>3, <1>4, <1>5, <1>6 DEF LoanStep

LEMMA NextTypeOK == TypeOK /\ [Next]_vars => TypeOK'
  <1>1. ASSUME TypeOK, Next PROVE TypeOK'
    BY <1>1, RequestTypeOK, ProviderTypeOK, EventTypeOK, LoanTypeOK DEF Next
  <1>2. TypeOK /\ UNCHANGED vars => TypeOK'
    BY DEF TypeOK, vars
  <1>3. QED BY <1>1, <1>2

\* The wallet columns never go negative and every row keeps a legal status,
\* for every interleaving of workers, webhooks and demo releases.
THEOREM TypeCorrect == Spec => []TypeOK
  BY InitTypeOK, NextTypeOK, PTL DEF Spec

-----------------------------------------------------------------------------
(* What the books know about ClickPesa's orders.                           *)
(*                                                                         *)
(* PaidOncePerLoan speaks of ClickPesa's orders, which no guard of the     *)
(* code reads.  It follows from what the code keeps: one active            *)
(* transaction per loan, and transactions given up only for orders that    *)
(* can no longer pay.  The second needs that every word the code acts on   *)
(* is true of the order, now and later: the rest of OrderInv.              *)

Dead == {"rejected", "failed", "returned"}
Spent == {"paid", "returned"}

\* A word about an order that stays true once it is.
TrueOf(w, s) ==
  /\ w = "REJECTED" => s = "rejected"
  /\ w = "FAILED" => s = "failed"
  /\ w = "SUCCESS" => s \in Spent
  /\ w \in {"REFUNDED", "REVERSED"} => s = "returned"

\* Before the call there is no order, and an order has its transaction.
WorkerInv ==
  \A r \in Requests :
    /\ pc[r] \in {"idle", "validated", "reserved"} => prov[r] = "none" /\ reply[r] = "none"
    /\ pc[r] \in {"reserved", "submitted"} => status[r] # "NONE"
    /\ status[r] = "NONE" => prov[r] = "none"

\* Answers and webhooks are true of their order, and only sent payloads run.
WordsInv ==
  /\ \A r \in Requests : TrueOf(reply[r], prov[r])
  /\ \A e \in net : TrueOf(e.word, prov[e.txn]) /\ prov[e.txn] # "none"
  /\ \A e \in Events : seen[e] # "idle" => e \in net

\* What the three writers of a transaction's status keep.
LoansPaid ==
  ~DemoPayouts =>
    \A l \in Loans : loan[l] \in Unpaid \cup {"PAYOUT_REVERSED"} \/ l \in held =>
      \E r \in Requests : target[r] = l /\ prov[r] \in Spent

BooksInv ==
  /\ OneActivePayout
  /\ ReleasedNeverPays
  /\ LoansPaid
  /\ SuccessIsDisbursed

OrderInv == TypeOK /\ WorkerInv /\ WordsInv /\ BooksInv

\* process_successful_payout for an order that has paid keeps BooksInv: the
\* unique constraint keeps other transactions of the loan inactive.
LEMMA SuccessKeepsBooks ==
  ASSUME TypeOK, BooksInv, NEW r \in Requests, ProcessSuccessfulPayout(r),
         prov[r] \in Spent, UNCHANGED <<target, prov, disputed, held>>
  PROVE  BooksInv'
  <1>1. OneActivePayout'
    BY DEF TypeOK, BooksInv, OneActivePayout, ProcessSuccessfulPayout,
           ActiveElsewhere, Active, books, TxnStatus
  <1>2. ReleasedNeverPays'
    BY DEF TypeOK, BooksInv, ReleasedNeverPays, ProcessSuccessfulPayout, books, TxnStatus
  <1>3. LoansPaid'
    BY DEF TypeOK, BooksInv, LoansPaid, ProcessSuccessfulPayout, DisburseLoan, Spent, Unpaid,
           books, LoanStatus
  <1>4. SuccessIsDisbursed'
    <2>1. CASE status[r] = "SUCCESS"
      BY <2>1 DEF BooksInv, SuccessIsDisbursed, ProcessSuccessfulPayout, books
    <2>2. CASE status[r] # "SUCCESS"
      <3>1. /\ \A q \in Requests : q # r /\ target[q] = target[r] => status[q] # "SUCCESS"
            /\ status' = [status EXCEPT ![r] = "SUCCESS"]
            /\ loan' = [loan EXCEPT ![target[r]] = "ACTIVE"]
        BY <2>2 DEF ProcessSuccessfulPayout, DisburseLoan, ActiveElsewhere, Active
      <3>2. ASSUME NEW q \in Requests, status'[q] = "SUCCESS"
            PROVE  \/ loan'[target[q]] \in Unpaid
                   \/ target[q] \in disputed /\ loan'[target[q]] \in Decisions
        <4>1. CASE q = r
          BY <3>1, <4>1 DEF TypeOK, Unpaid
        <4>2. CASE q # r
          BY <3>1, <3>2, <4>2 DEF TypeOK, BooksInv, SuccessIsDisbursed
        <4>3. QED BY <4>1, <4>2
      <3>3. QED BY <3>2 DEF SuccessIsDisbursed
    <2>3. QED BY <2>1, <2>2
  <1>5. QED BY <1>1, <1>2, <1>3, <1>4 DEF BooksInv

\* process_failed_payout for an order that is dead keeps BooksInv.
LEMMA FailureKeepsBooks ==
  ASSUME TypeOK, BooksInv, NEW r \in Requests, NEW w, ProcessFailedPayout(r, w),
         prov[r] \in Dead, UNCHANGED <<target, prov, disputed, held>>
  PROVE  BooksInv'
  <1>1. CASE UNCHANGED books
    BY <1>1 DEF BooksInv, OneActivePayout, ReleasedNeverPays, LoansPaid, SuccessIsDisbursed,
                Active, books
  <1>2. CASE ReleaseFunds(r, w)
    <2>1. status' = [status EXCEPT ![r] =
            IF w \in {"REFUNDED", "REVERSED"} THEN "REVERSED" ELSE "FAILED"]
      BY <1>2 DEF ReleaseFunds
    <2>2. OneActivePayout'
      BY <2>1 DEF TypeOK, BooksInv, OneActivePayout, Active, TxnStatus
    <2>3. ReleasedNeverPays'
      BY <2>1 DEF TypeOK, BooksInv, ReleasedNeverPays, Dead, TxnStatus
    <2>4. \A l \in Loans : loan'[l] \in Unpaid \cup {"PAYOUT_REVERSED"} =>
            loan[l] \in Unpaid \cup {"PAYOUT_REVERSED"}
      BY <1>2 DEF TypeOK, ReleaseFunds, ReverseDisbursement, LoanStatus, Unpaid
    <2>5. LoansPaid'
      BY <2>4 DEF BooksInv, LoansPaid
    <2>6. SuccessIsDisbursed'
      <3>1. CASE status[r] = "SUCCESS"
        <4>1. /\ \A q \in Requests : status[q] = "SUCCESS" /\ target[q] = target[r] => q = r
              /\ \A l \in Loans : l # target[r] => loan'[l] = loan[l]
          BY <1>2, <3>1 DEF TypeOK, BooksInv, OneActivePayout, Active, ReleaseFunds, ReverseDisbursement
        <4>2. \A q \in Requests : status'[q] = "SUCCESS" => status[q] = "SUCCESS" /\ target[q] # target[r]
          BY <2>1, <4>1 DEF TypeOK
        <4>3. QED BY <4>1, <4>2 DEF TypeOK, BooksInv, SuccessIsDisbursed
      <3>2. CASE status[r] # "SUCCESS"
        BY <1>2, <2>1, <3>2 DEF TypeOK, BooksInv, SuccessIsDisbursed, ReleaseFunds
      <3>3. QED BY <3>1, <3>2
    <2>7. QED BY <2>2, <2>3, <2>5, <2>6 DEF BooksInv
  <1>3. QED BY <1>1, <1>2 DEF ProcessFailedPayout

\* A save of PROCESSING keeps BooksInv, whatever it overwrites.
LEMMA ProcessingKeepsBooks ==
  ASSUME TypeOK, BooksInv, NEW r \in Requests, SaveProcessing(r),
         UNCHANGED <<target, prov, disputed, held>>
  PROVE  BooksInv'
  BY DEF TypeOK, BooksInv, OneActivePayout, ReleasedNeverPays, LoansPaid, SuccessIsDisbursed,
         SaveProcessing, ActiveElsewhere, Active, TxnStatus

\* None of the three takes a transaction's row away or makes one.
LEMMA WritersKeepRows ==
  ASSUME TypeOK, NEW r \in Requests, status[r] # "NONE",
         \/ ProcessSuccessfulPayout(r)
         \/ \E w \in Words : ProcessFailedPayout(r, w)
         \/ SaveProcessing(r)
  PROVE  \A q \in Requests : status'[q] = "NONE" <=> status[q] = "NONE"
  BY DEF TypeOK, ProcessSuccessfulPayout, ProcessFailedPayout, ReleaseFunds,
         SaveProcessing, books, TxnStatus

\* Steps that leave the rows and the images alone keep BooksInv.
LEMMA OthersKeepBooks ==
  ASSUME BooksInv, UNCHANGED <<loan, status, target, disputed, held>>,
         \A q \in Requests : /\ prov[q] \in Spent => prov'[q] \in Spent
                             /\ status[q] \in {"FAILED", "REVERSED"} /\ prov[q] \in Dead => prov'[q] \in Dead
  PROVE  BooksInv'
  <1>1. OneActivePayout' /\ ReleasedNeverPays'
    BY DEF BooksInv, OneActivePayout, ReleasedNeverPays, Active, Dead
  <1>2. LoansPaid' /\ SuccessIsDisbursed'
    BY DEF BooksInv, LoansPaid, SuccessIsDisbursed
  <1>3. QED BY <1>1, <1>2 DEF BooksInv

LEMMA InitOrderInv == Init => OrderInv
  <1>1. Init => WorkerInv /\ WordsInv /\ BooksInv
    BY DEF Init, WorkerInv, WordsInv, TrueOf, BooksInv, OneActivePayout,
           ReleasedNeverPays, LoansPaid, SuccessIsDisbursed, Active, Unpaid
  <1>2. QED BY <1>1, InitTypeOK DEF OrderInv

\* The worker's steps: only the handling of an answer touches a status, and
\* an answer is true of the order.
LEMMA RequestOrderInv ==
  ASSUME OrderInv, NEW r \in Requests, RequestStep(r)
  PROVE  WorkerInv' /\ WordsInv' /\ BooksInv'
  <1>. USE DEF OrderInv
  <1>1. CASE ValidatePayout(r)
    BY <1>1 DEF ValidatePayout, TypeOK, WorkerInv, WordsInv, BooksInv, OneActivePayout,
         ReleasedNeverPays, LoansPaid, SuccessIsDisbursed, Active, books, hooks, images
  <1>2. CASE ReservePayout(r)
    <2>1. prov[r] = "none" /\ UNCHANGED <<target, prov, reply, net, seen, loan>>
      BY <1>2 DEF ReservePayout, WorkerInv, hooks, images
    <2>2. WorkerInv' /\ WordsInv'
      BY <1>2, <2>1 DEF ReservePayout, TypeOK, WorkerInv, WordsInv
    <2>3. OneActivePayout'
      BY <1>2, <2>1 DEF ReservePayout, TypeOK, BooksInv, OneActivePayout, Active, ActiveElsewhere
    <2>4. ReleasedNeverPays' /\ LoansPaid' /\ SuccessIsDisbursed'
      <3>1. UNCHANGED <<disputed, held>> /\ \A q \in Requests : status'[q] = status[q] \/ status'[q] = "PENDING"
        BY <1>2 DEF ReservePayout, TypeOK, images
      <3>2. ReleasedNeverPays' /\ SuccessIsDisbursed'
        BY <2>1, <3>1 DEF BooksInv, ReleasedNeverPays, SuccessIsDisbursed
      <3>3. LoansPaid'
        BY <2>1, <3>1 DEF BooksInv, LoansPaid
      <3>4. QED BY <3>2, <3>3
    <2>5. QED BY <2>2, <2>3, <2>4 DEF BooksInv
  <1>3. CASE RefusePayout(r)
    BY <1>3 DEF RefusePayout, TypeOK, WorkerInv, WordsInv, BooksInv, OneActivePayout,
         ReleasedNeverPays, LoansPaid, SuccessIsDisbursed, Active, books, hooks, images
  <1>4. CASE SubmitPayout(r)
    <2>1. PICK s \in {"none", "rejected", "accepted"} :
            /\ prov' = [prov EXCEPT ![r] = s]
            /\ net' = IF s = "accepted" THEN net \cup Announce(r, "PROCESSING") ELSE net
      BY <1>4 DEF SubmitPayout
    <2>2. prov[r] = "none" /\ reply[r] = "none" /\ status[r] # "NONE"
      BY <1>4 DEF SubmitPayout, WorkerInv
    <2>3. /\ UNCHANGED <<books, target, reply, seen>>
          /\ pc' = [pc EXCEPT ![r] = "submitted"]
      BY <1>4 DEF SubmitPayout, hooks, images
    <2>4. WorkerInv'
      BY <2>1, <2>2, <2>3 DEF TypeOK, WorkerInv, books
    <2>5. WordsInv'
      BY <2>1, <2>2, <2>3 DEF TypeOK, WordsInv, TrueOf, Announce, Events, Words
    <2>6. BooksInv'
      <3>1. UNCHANGED <<disputed, held>>
        BY <1>4 DEF SubmitPayout, images
      <3>2. \A q \in Requests : q # r => prov'[q] = prov[q]
        BY <2>1 DEF TypeOK
      <3>3. prov[r] \notin Spent \cup Dead
        BY <2>2 DEF Spent, Dead
      <3>4. QED BY <2>3, <3>1, <3>2, <3>3, OthersKeepBooks DEF books
    <2>7. QED BY <2>4, <2>5, <2>6
  <1>5. CASE FinishPayout(r)
    <2>1. /\ UNCHANGED <<target, reply, prov, net, seen, disputed, held>>
          /\ pc' = [pc EXCEPT ![r] = "done"] /\ status[r] # "NONE"
      BY <1>5 DEF FinishPayout, WorkerInv, hooks, images
    <2>2. TrueOf(reply[r], prov[r])
      BY DEF WordsInv
    <2>3. CASE SaveProcessing(r)
      BY <2>1, <2>3, ProcessingKeepsBooks, WritersKeepRows DEF TypeOK, WorkerInv, WordsInv
    <2>4. ASSUME NEW w \in {"FAILED", "REFUNDED", "REVERSED"},
                 ProcessFailedPayout(r, w), prov[r] \in Dead
          PROVE  WorkerInv' /\ WordsInv' /\ BooksInv'
      BY <2>1, <2>4, FailureKeepsBooks, WritersKeepRows DEF TypeOK, WorkerInv, WordsInv, Words
    <2>5. ASSUME ProcessSuccessfulPayout(r), prov[r] \in Spent
          PROVE  WorkerInv' /\ WordsInv' /\ BooksInv'
      BY <2>1, <2>5, SuccessKeepsBooks, WritersKeepRows DEF TypeOK, WorkerInv, WordsInv
    <2>6. QED
      BY <1>5, <2>2, <2>3, <2>4, <2>5
         DEF FinishPayout, HandleAmbiguous, HandleRejection, HandleResponse, TrueOf,
             Dead, SUCCESS_STATUSES, FAILED_STATUSES
  <1>6. CASE RequestDies(r)
    BY <1>6 DEF RequestDies, TypeOK, WorkerInv, WordsInv, BooksInv, OneActivePayout,
         ReleasedNeverPays, LoansPaid, SuccessIsDisbursed, Active, books, hooks, images
  <1>7. QED BY <1>1, <1>2, <1>3, <1>4, <1>5, <1>6 DEF RequestStep

\* ClickPesa's steps: a word once true of an order stays true of it.
LEMMA ProviderOrderInv ==
  ASSUME OrderInv, NEW r \in Requests, ProviderStep(r)
  PROVE  WorkerInv' /\ WordsInv' /\ BooksInv'
  <1>. USE DEF OrderInv
  <1>1. CASE GatewayAnswers(r)
    <2>1. PICK a \in Answers :
            /\ \/ a = "TIMEOUT"
               \/ a = "REJECTED" /\ prov[r] = "rejected"
               \/ a = "PROCESSING" /\ prov[r] = "accepted"
               \/ a = "SUCCESS" /\ prov[r] = "paid"
               \/ a = "FAILED" /\ prov[r] = "failed"
            /\ reply' = [reply EXCEPT ![r] = a]
      BY <1>1 DEF GatewayAnswers
    <2>2. WorkerInv' /\ WordsInv'
      BY <1>1, <2>1 DEF GatewayAnswers, TypeOK, WorkerInv, WordsInv, TrueOf, Spent,
           books, hooks, images
    <2>3. BooksInv'
      BY <1>1, OthersKeepBooks DEF GatewayAnswers, books, images
    <2>4. QED BY <2>2, <2>3
  <1>2. ASSUME NEW f \in {"accepted", "paid"}, NEW t \in OrderState, NEW w \in Words,
               ProviderSettles(r, f, t, w), TrueOf(w, t), t # "none",
               f = "paid" => t = "returned"
        PROVE  WorkerInv' /\ WordsInv' /\ BooksInv'
    <2>1. /\ prov[r] = f /\ prov' = [prov EXCEPT ![r] = t]
          /\ net' = net \cup Announce(r, w)
          /\ UNCHANGED <<books, target, pc, reply, seen>>
      BY <1>2 DEF ProviderSettles, worker, hooks, images
    <2>2. WorkerInv'
      BY <1>2, <2>1 DEF TypeOK, WorkerInv, books
    <2>3. \A v \in Words \cup Answers \cup {"none"} : TrueOf(v, f) => TrueOf(v, t)
      BY <1>2 DEF TrueOf, Spent
    <2>4. WordsInv'
      <3>1. \A q \in Requests : TrueOf(reply[q], prov[q])'
        BY <2>1, <2>3 DEF TypeOK, WordsInv
      <3>2. ASSUME NEW e \in net' PROVE TrueOf(e.word, prov'[e.txn]) /\ prov'[e.txn] # "none"
        <4>1. CASE e \in net
          <5>1. e.word \in Words /\ e.txn \in Requests
            BY <4>1, PayoutAssumptions DEF TypeOK, Events
          <5>2. QED BY <1>2, <2>1, <2>3, <4>1, <5>1 DEF TypeOK, WordsInv
        <4>2. CASE e \in Announce(r, w)
          <5>1. e.word = w /\ e.txn = r
            BY <4>2 DEF Announce
          <5>2. QED BY <1>2, <2>1, <5>1 DEF TypeOK
        <4>3. QED BY <2>1, <3>2, <4>1, <4>2
      <3>3. QED BY <2>1, <3>1, <3>2 DEF WordsInv
    <2>5. BooksInv'
      <3>1. UNCHANGED <<loan, status, target, disputed, held>>
        BY <1>2, <2>1 DEF ProviderSettles, books, images
      <3>2. \A q \in Requests : q # r => prov'[q] = prov[q]
        BY <2>1 DEF TypeOK
      <3>3. /\ prov[r] \in Spent => prov'[r] \in Spent
            /\ prov[r] \notin Dead
        BY <1>2, <2>1 DEF TypeOK, Spent, Dead
      <3>4. QED BY <3>1, <3>2, <3>3, OthersKeepBooks
    <2>6. QED BY <2>2, <2>4, <2>5
  <1>3. CASE ProviderPays(r)
    BY <1>2, <1>3 DEF ProviderPays, TrueOf, Spent, OrderState, Words
  <1>4. CASE ProviderFails(r)
    BY <1>2, <1>4 DEF ProviderFails, TrueOf, OrderState, Words
  <1>5. CASE ProviderReturns(r)
    BY <1>2, <1>5 DEF ProviderReturns, TrueOf, OrderState, Words
  <1>6. QED BY <1>1, <1>3, <1>4, <1>5 DEF ProviderStep

\* A delivery's steps: what runs was sent, so its word is true of its order.
LEMMA EventOrderInv ==
  ASSUME OrderInv, NEW e \in Events, EventStep(e)
  PROVE  WorkerInv' /\ WordsInv' /\ BooksInv'
  <1>. USE DEF OrderInv
  <1>0. e.txn \in Requests /\ e.word \in Words
    BY PayoutAssumptions DEF Events
  <1>1. ASSUME UNCHANGED <<books, worker, prov, net, images>>,
               \A f \in Events : seen'[f] # "idle" => f \in net
        PROVE  WorkerInv' /\ WordsInv' /\ BooksInv'
    <2>1. WorkerInv' /\ WordsInv'
      BY <1>1 DEF WorkerInv, WordsInv, books, worker
    <2>2. QED BY <1>1, <2>1, OthersKeepBooks DEF books, worker, images
  <1>2. CASE ReadEvent(e)
    BY <1>1, <1>2 DEF ReadEvent, TypeOK, WordsInv
  <1>3. CASE AlreadySuccess(e)
    BY <1>1, <1>3 DEF AlreadySuccess, Acknowledge, TypeOK, WordsInv
  <1>4. CASE EventFails(e)
    BY <1>1, <1>4 DEF EventFails, TypeOK, WordsInv
  <1>5. CASE ApplyEvent(e)
    <2>1. /\ UNCHANGED <<worker, prov, net, disputed, held>>
          /\ seen' = [seen EXCEPT ![e] = "idle"]
      BY <1>5 DEF ApplyEvent, Acknowledge, images
    <2>2. e \in net /\ TrueOf(e.word, prov[e.txn]) /\ status[e.txn] # "NONE"
      BY <1>0, <1>5 DEF ApplyEvent, Running, WordsInv, WorkerInv
    <2>3. WordsInv'
      BY <2>1 DEF TypeOK, WordsInv, worker
    <2>4. CASE SaveProcessing(e.txn)
      BY <1>0, <2>1, <2>2, <2>3, <2>4, ProcessingKeepsBooks, WritersKeepRows
         DEF WorkerInv, worker
    <2>5. CASE e.word \in FAILED_STATUSES /\ ProcessFailedPayout(e.txn, e.word)
      <3>1. prov[e.txn] \in Dead
        BY <2>2, <2>5 DEF TrueOf, Dead, FAILED_STATUSES
      <3>2. BooksInv'
        BY <1>0, <2>1, <2>5, <3>1, FailureKeepsBooks DEF worker
      <3>3. \A q \in Requests : status'[q] = "NONE" <=> status[q] = "NONE"
        BY <1>0, <2>2, <2>5, WritersKeepRows
      <3>4. QED BY <2>1, <2>3, <3>2, <3>3 DEF WorkerInv, worker
    <2>6. CASE e.word \in SUCCESS_STATUSES /\ ProcessSuccessfulPayout(e.txn)
      <3>1. prov[e.txn] \in Spent
        BY <2>2, <2>6 DEF TrueOf, SUCCESS_STATUSES
      <3>2. BooksInv'
        BY <1>0, <2>1, <2>6, <3>1, SuccessKeepsBooks DEF worker
      <3>3. \A q \in Requests : status'[q] = "NONE" <=> status[q] = "NONE"
        BY <1>0, <2>2, <2>6, WritersKeepRows
      <3>4. QED BY <2>1, <2>3, <3>2, <3>3 DEF WorkerInv, worker
    <2>7. QED BY <1>5, <2>4, <2>5, <2>6 DEF ApplyEvent
  <1>6. QED BY <1>2, <1>3, <1>4, <1>5 DEF EventStep

\* A demo release needs demo payouts; what is decided late was disputed, and what is
\* saved late was read from a loan that had been paid out.
LEMMA LoanOrderInv ==
  ASSUME OrderInv, NEW l \in Loans, LoanStep(l)
  PROVE  WorkerInv' /\ WordsInv' /\ BooksInv'
  <1>0. /\ TypeOK /\ WorkerInv /\ WordsInv /\ BooksInv
        /\ UNCHANGED <<status, target, pc, reply, prov, net, seen>>
    BY DEF OrderInv, LoanStep, SimulateLoanPayout, DecideLoan, DecideAgain, ReadUnpaid, SaveUnpaid,
           books, worker, hooks
  <1>1. WorkerInv' /\ WordsInv' /\ OneActivePayout' /\ ReleasedNeverPays'
    BY <1>0 DEF WorkerInv, WordsInv, BooksInv, OneActivePayout, ReleasedNeverPays, Active
  <1>2. /\ \A k \in Loans : k # l => loan'[k] = loan[k]
        /\ \A k \in Loans : k # l => (k \in held' <=> k \in held)
        /\ disputed \subseteq disputed'
    BY <1>0 DEF LoanStep, SimulateLoanPayout, DisburseLoan, DecideLoan, DecideAgain, SaveDecision,
           ReadUnpaid, SaveUnpaid, TypeOK, books, images
  <1>3. LoansPaid'
    <2>1. ASSUME ~DemoPayouts, loan'[l] \in Unpaid \cup {"PAYOUT_REVERSED"} \/ l \in held'
          PROVE  loan[l] \in Unpaid \cup {"PAYOUT_REVERSED"} \/ l \in held
      BY <1>0, <2>1 DEF LoanStep, SimulateLoanPayout, DecideLoan, DecideAgain, SaveDecision,
           Decisions, Unpaid, ReadUnpaid, SaveUnpaid, TypeOK, books, images
    <2>2. QED BY <1>0, <1>2, <2>1 DEF BooksInv, LoansPaid
  <1>4. SuccessIsDisbursed'
    <2>1. ASSUME NEW r \in Requests, status[r] = "SUCCESS", target[r] = l
          PROVE  loan'[l] \in Unpaid \/ (l \in disputed' /\ loan'[l] \in Decisions)
      <3>1. loan[l] \in Unpaid \/ (l \in disputed /\ loan[l] \in Decisions)
        BY <1>0, <2>1 DEF BooksInv, SuccessIsDisbursed
      <3>2. CASE SimulateLoanPayout(l)
        BY <1>0, <3>2 DEF SimulateLoanPayout, DisburseLoan, Unpaid, TypeOK
      <3>3. CASE DecideLoan(l)
        BY <3>1, <3>3 DEF DecideLoan, Unpaid, Decisions
      <3>4. CASE DecideAgain(l)
        BY <1>0, <3>4 DEF DecideAgain, SaveDecision, TypeOK, images
      <3>5. CASE ReadUnpaid(l)
        BY <1>2, <3>1, <3>5 DEF ReadUnpaid, books
      <3>6. CASE SaveUnpaid(l)
        BY <1>0, <3>6 DEF SaveUnpaid, TypeOK
      <3>7. QED BY <1>2, <3>1, <3>2, <3>3, <3>4, <3>5, <3>6 DEF LoanStep, ReadUnpaid, books
    <2>2. QED BY <1>0, <1>2, <2>1 DEF BooksInv, SuccessIsDisbursed, TypeOK
  <1>5. QED BY <1>1, <1>3, <1>4 DEF BooksInv

LEMMA NextOrderInv == OrderInv /\ [Next]_vars => OrderInv'
  <1>1. ASSUME OrderInv, Next PROVE OrderInv'
    <2>1. TypeOK'
      BY <1>1, NextTypeOK DEF OrderInv
    <2>2. WorkerInv' /\ WordsInv' /\ BooksInv'
      BY <1>1, RequestOrderInv, ProviderOrderInv, EventOrderInv, LoanOrderInv DEF Next
    <2>3. QED BY <2>1, <2>2 DEF OrderInv
  <1>2. OrderInv /\ UNCHANGED vars => OrderInv'
    BY DEF OrderInv, TypeOK, WorkerInv, WordsInv, BooksInv, OneActivePayout,
           ReleasedNeverPays, LoansPaid, SuccessIsDisbursed, Active, vars
  <1>3. QED BY <1>1, <1>2

THEOREM OrdersInvariant == Spec => []OrderInv
  BY InitOrderInv, NextOrderInv, PTL DEF Spec

\* No interleaving gives a loan two payout transactions in an active status.
THEOREM OneActive == Spec => []OneActivePayout
  <1>1. OrderInv => OneActivePayout
    BY DEF OrderInv, BooksInv
  <1>2. QED BY <1>1, OrdersInvariant, PTL

\* Funds are only ever released for orders that can no longer pay out.
THEOREM ReleasedIsFinal == Spec => []ReleasedNeverPays
  <1>1. OrderInv => ReleasedNeverPays
    BY DEF OrderInv, BooksInv
  <1>2. QED BY <1>1, OrdersInvariant, PTL

\* No borrower ever holds the money of two orders for one loan.
THEOREM PaidOnce == Spec => []PaidOncePerLoan
  <1>1. ASSUME OrderInv, NEW q \in Requests, NEW r \in Requests,
               target[q] = target[r], prov[q] = "paid", prov[r] = "paid"
        PROVE  q = r
    <2>1. \A p \in {q, r} : status[p] \notin {"NONE", "FAILED", "REVERSED"}
      BY <1>1 DEF OrderInv, WorkerInv, BooksInv, ReleasedNeverPays
    <2>2. Active(q) /\ Active(r)
      BY <2>1, <1>1 DEF OrderInv, TypeOK, TxnStatus, Active
    <2>3. QED BY <1>1, <2>2 DEF OrderInv, BooksInv, OneActivePayout
  <1>2. OrderInv => PaidOncePerLoan
    BY <1>1 DEF PaidOncePerLoan
  <1>3. QED BY <1>2, OrdersInvariant, PTL

\* Without demo releases no loan is active unless ClickPesa paid its order.
THEOREM ActiveIsPaid == Spec => []ActiveMeansPaid
  <1>1. OrderInv => ActiveMeansPaid
    BY DEF OrderInv, BooksInv, LoansPaid, ActiveMeansPaid, Spent
  <1>2. QED BY <1>1, OrdersInvariant, PTL

\* A payout recorded as SUCCESS has its loan out, whatever was released, reversed or
\* saved late before, unless a late answer of a leader overwrote the loan's status.
THEOREM SuccessesDisbursed == Spec => []SuccessIsDisbursed
  <1>1. OrderInv => SuccessIsDisbursed
    BY DEF OrderInv, BooksInv
  <1>2. QED BY <1>1, OrdersInvariant, PTL

-----------------------------------------------------------------------------
(* Loans leave approval for good, but for the late answers of leaders. *)

Left(l) == loan[l] \notin {"PENDING", "APPROVED"} \/ l \in disputed
KeepsLeft == \A l \in Loans : Left(l) => Left(l)'

\* The three writers of a transaction's status keep to it.
LEMMA WriterLeft ==
  ASSUME TypeOK, NEW r \in Requests, UNCHANGED disputed,
         \/ ProcessSuccessfulPayout(r)
         \/ \E w \in Words : ProcessFailedPayout(r, w)
         \/ SaveProcessing(r)
  PROVE  KeepsLeft
  <1>1. CASE ProcessSuccessfulPayout(r)
    BY <1>1 DEF TypeOK, KeepsLeft, Left, ProcessSuccessfulPayout, DisburseLoan, books, LoanStatus
  <1>2. ASSUME NEW w \in Words, ProcessFailedPayout(r, w) PROVE KeepsLeft
    <2>1. CASE UNCHANGED books
      BY <2>1 DEF TypeOK, KeepsLeft, Left, books
    <2>2. CASE ReleaseFunds(r, w)
      BY <2>2 DEF TypeOK, KeepsLeft, Left, ReleaseFunds, ReverseDisbursement, LoanStatus
    <2>3. QED BY <1>2, <2>1, <2>2 DEF ProcessFailedPayout
  <1>3. CASE SaveProcessing(r)
    BY <1>3 DEF TypeOK, KeepsLeft, Left, SaveProcessing, wallet
  <1>4. QED BY <1>1, <1>2, <1>3

LEMMA NextLeft ==
  ASSUME TypeOK, Next
  PROVE  KeepsLeft
  <1>1. ASSUME UNCHANGED <<loan, disputed>> PROVE KeepsLeft
    BY <1>1 DEF KeepsLeft, Left
  <1>2. ASSUME NEW r \in Requests, RequestStep(r) PROVE KeepsLeft
    <2>1. CASE FinishPayout(r)
      BY <2>1, WriterLeft
         DEF FinishPayout, HandleAmbiguous, HandleRejection, HandleResponse,
             FAILED_STATUSES, Words, images
    <2>2. CASE ~FinishPayout(r)
      BY <1>1, <1>2, <2>2 DEF RequestStep, ValidatePayout, ReservePayout, RefusePayout,
           SubmitPayout, RequestDies, books, images
    <2>3. QED BY <2>1, <2>2
  <1>3. ASSUME NEW r \in Requests, ProviderStep(r) PROVE KeepsLeft
    BY <1>1, <1>3 DEF ProviderStep, GatewayAnswers, ProviderPays, ProviderFails,
         ProviderReturns, ProviderSettles, books, images
  <1>4. ASSUME NEW e \in Events, EventStep(e) PROVE KeepsLeft
    <2>1. CASE ApplyEvent(e)
      BY <2>1, WriterLeft DEF ApplyEvent, Acknowledge, Events, FAILED_STATUSES, Words, images
    <2>2. CASE ~ApplyEvent(e)
      BY <1>1, <1>4, <2>2 DEF EventStep, ReadEvent, AlreadySuccess, EventFails, Acknowledge, books, images
    <2>3. QED BY <2>1, <2>2
  <1>5. ASSUME NEW l \in Loans, LoanStep(l) PROVE KeepsLeft
    <2>1. CASE SimulateLoanPayout(l)
      BY <2>1 DEF TypeOK, KeepsLeft, Left, SimulateLoanPayout, DisburseLoan, images
    <2>2. CASE DecideLoan(l)
      BY <2>2 DEF TypeOK, KeepsLeft, Left, DecideLoan, SaveDecision, images
    <2>3. CASE DecideAgain(l)
      BY <2>3 DEF TypeOK, KeepsLeft, Left, DecideAgain, SaveDecision, images
    <2>4. CASE ReadUnpaid(l)
      BY <1>1, <2>4 DEF ReadUnpaid, books
    <2>5. CASE SaveUnpaid(l)
      BY <2>5 DEF TypeOK, KeepsLeft, Left, SaveUnpaid, Unpaid, images
    <2>6. QED BY <1>5, <2>1, <2>2, <2>3, <2>4, <2>5 DEF LoanStep
  <1>6. QED BY <1>2, <1>3, <1>4, <1>5 DEF Next

-----------------------------------------------------------------------------
(* Cash.                                                                   *)
(*                                                                         *)
(* A worker's late save hides from a transaction's status that its money   *)
(* has been spent or given back; the payload that told so is processed by  *)
(* then.  Status and processed payloads together say which transactions    *)
(* the opening cash has been charged with, and which still hold their      *)
(* total in reserve.                                                       *)

Settled(r) == \E e \in processed : e.txn = r
FailureApplied(r) == \E e \in processed : e.txn = r /\ e.word = "FAILED"

Charged == {r \in Requests : Active(r) /\ ~FailureApplied(r)}
Holding == {r \in Requests : status[r] \in {"PENDING", "PROCESSING"} /\ ~Settled(r)}

\* A final status is backed by the order, a processed SUCCESS by the loan; no
\* payload is processed before it was sent or while it is delivered.
RowInv ==
  /\ \A r \in Requests :
       /\ pc[r] \in {"idle", "validated"} => status[r] = "NONE"
       /\ status[r] = "SUCCESS" => prov[r] \in Spent
       /\ status[r] = "FAILED" => prov[r] \in {"rejected", "failed"}
  /\ processed \subseteq net
  /\ \A e \in processed : seen[e] = "idle"
  /\ \A e \in processed : e.word = "SUCCESS" => Left(target[e.txn])

\* Until its worker is done, a transaction's status is what the webhooks made of it.
LateInv ==
  \A r \in Requests :
    /\ status[r] # "REVERSED"
    /\ pc[r] # "done" =>
         /\ status[r] # "PROCESSING"
         /\ status[r] \in {"NONE", "PENDING"} => ~Settled(r)
         /\ status[r] = "SUCCESS" => Settled(r)
         /\ status[r] = "FAILED" => FailureApplied(r)

\* What is available and what was charged is the opening cash, and the reserve is
\* exactly what is held.
CashInv ==
  /\ available + SumFunctionOnSet(total, Charged) = OpeningCash
  /\ reserved = SumFunctionOnSet(total, Holding)
  /\ balance = available + reserved

EscrowInv == RowInv /\ (OnlySettled => LateInv /\ CashInv)

LEMMA ChargedFinite ==
  ASSUME TypeOK
  PROVE  /\ IsFiniteSet(Requests) /\ IsFiniteSet(Charged) /\ IsFiniteSet(Holding)
         /\ Holding \subseteq Charged /\ Charged \subseteq Requests
         /\ \A r \in Requests : total[r] \in Nat /\ total[r] \in Int
  <1>1. IsFiniteSet(Requests) /\ Charged \subseteq Requests /\ Holding \subseteq Charged
    BY PayoutAssumptions DEF Charged, Holding, Active, Settled, FailureApplied
  <1>2. QED BY <1>1, FS_Subset DEF TypeOK

\* The four ways a step moves the cash: not at all,
LEMMA CashStays ==
  ASSUME TypeOK, CashInv, UNCHANGED wallet, UNCHANGED <<Charged, Holding>>,
         \A q \in Charged : total'[q] = total[q]
  PROVE  CashInv'
  <1>1. SumFunctionOnSet(total, Charged) = SumFunctionOnSet(total', Charged)
    BY ChargedFinite, SumSame
  <1>2. SumFunctionOnSet(total, Holding) = SumFunctionOnSet(total', Holding)
    BY ChargedFinite, SumSame
  <1>3. /\ SumFunctionOnSet(total, Charged) = SumFunctionOnSet(total', Charged')
        /\ SumFunctionOnSet(total, Holding) = SumFunctionOnSet(total', Holding')
    BY <1>1, <1>2, Zenon
  <1>4. /\ available' + SumFunctionOnSet(total', Charged') = OpeningCash
        /\ reserved' = SumFunctionOnSet(total', Holding')
        /\ balance' = available' + reserved'
    BY <1>3 DEF CashInv, wallet
  <1>5. QED BY <1>4, Zenon DEF CashInv

\* a total is held in reserve,
LEMMA CashHeld ==
  ASSUME TypeOK, CashInv, NEW r \in Requests, r \notin Charged, UNCHANGED <<balance, total>>,
         Charged' = Charged \cup {r}, Holding' = Holding \cup {r},
         available' = available - total[r], reserved' = reserved + total[r]
  PROVE  CashInv'
  <1>1. r \notin Holding
    BY ChargedFinite
  <1>2. SumFunctionOnSet(total, Charged \cup {r}) = SumFunctionOnSet(total, Charged) + total[r]
    BY ChargedFinite, SumAdd
  <1>3. SumFunctionOnSet(total, Holding \cup {r}) = SumFunctionOnSet(total, Holding) + total[r]
    BY <1>1, ChargedFinite, SumAdd
  <1>4. /\ SumFunctionOnSet(total, Charged) \in Int /\ SumFunctionOnSet(total, Holding) \in Int
        /\ total[r] \in Nat /\ available \in Nat /\ balance \in Nat
    BY ChargedFinite, SumInt DEF TypeOK
  <1>5. /\ SumFunctionOnSet(total', Charged') = SumFunctionOnSet(total, Charged \cup {r})
        /\ SumFunctionOnSet(total', Holding') = SumFunctionOnSet(total, Holding \cup {r})
    BY Zenon
  <1>6. /\ available' + SumFunctionOnSet(total', Charged') = OpeningCash
        /\ reserved' = SumFunctionOnSet(total', Holding')
        /\ balance' = available' + reserved'
    BY <1>2, <1>3, <1>4, <1>5, PayoutAssumptions DEF CashInv
  <1>7. QED BY <1>6, Zenon DEF CashInv

\* and a total that is held leaves the reserve: no floor is ever needed.
LEMMA CashReleased ==
  ASSUME TypeOK, CashInv, NEW r \in Holding
  PROVE  /\ total[r] \in Nat /\ total[r] <= reserved /\ total[r] <= balance
         /\ Floor0(reserved - total[r]) = reserved - total[r]
         /\ Floor0(balance - total[r]) = balance - total[r]
         /\ SumFunctionOnSet(total, Holding \ {r}) = reserved - total[r]
         /\ SumFunctionOnSet(total, Charged \ {r}) = SumFunctionOnSet(total, Charged) - total[r]
         /\ SumFunctionOnSet(total, Charged) \in Int
  <1>1. SumFunctionOnSet(total, Holding) = total[r] + SumFunctionOnSet(total, Holding \ {r})
    BY ChargedFinite, SumRemove
  <1>2. SumFunctionOnSet(total, Charged) = total[r] + SumFunctionOnSet(total, Charged \ {r})
    BY ChargedFinite, SumRemove
  <1>3. /\ SumFunctionOnSet(total, Holding \ {r}) \in Nat
        /\ SumFunctionOnSet(total, Charged \ {r}) \in Nat
    BY ChargedFinite, SumNat, FS_RemoveElement
  <1>4. total[r] \in Nat /\ available \in Nat /\ balance \in Nat
    BY ChargedFinite DEF TypeOK
  <1>5. QED BY <1>1, <1>2, <1>3, <1>4 DEF CashInv, Floor0

LEMMA CashSpent ==
  ASSUME TypeOK, CashInv, NEW r \in Holding, UNCHANGED <<available, total, Charged>>,
         Holding' = Holding \ {r},
         balance' = Floor0(balance - total[r]), reserved' = Floor0(reserved - total[r])
  PROVE  CashInv'
  <1>1. /\ SumFunctionOnSet(total', Charged') = SumFunctionOnSet(total, Charged)
        /\ SumFunctionOnSet(total', Holding') = SumFunctionOnSet(total, Holding \ {r})
    BY Zenon
  <1>2. balance \in Nat /\ available \in Nat /\ reserved \in Nat /\ total[r] \in Nat
    BY CashReleased DEF TypeOK
  <1>3. /\ available' + SumFunctionOnSet(total', Charged') = OpeningCash
        /\ reserved' = SumFunctionOnSet(total', Holding')
        /\ balance' = available' + reserved'
    <2>1. balance' = balance - total[r] /\ reserved' = reserved - total[r]
      BY CashReleased
    <2>2. SumFunctionOnSet(total, Holding \ {r}) = reserved - total[r]
      BY CashReleased
    <2>3. QED BY <1>1, <1>2, <2>1, <2>2 DEF CashInv
  <1>4. QED BY <1>3, Zenon DEF CashInv

LEMMA CashGivenBack ==
  ASSUME TypeOK, CashInv, NEW r \in Holding, UNCHANGED <<balance, total>>,
         Charged' = Charged \ {r}, Holding' = Holding \ {r},
         available' = available + total[r], reserved' = Floor0(reserved - total[r])
  PROVE  CashInv'
  <1>1. /\ SumFunctionOnSet(total', Charged') = SumFunctionOnSet(total, Charged \ {r})
        /\ SumFunctionOnSet(total', Holding') = SumFunctionOnSet(total, Holding \ {r})
    BY Zenon
  <1>2. balance \in Nat /\ available \in Nat /\ reserved \in Nat /\ total[r] \in Nat
    BY CashReleased DEF TypeOK
  <1>3. /\ available' + SumFunctionOnSet(total', Charged') = OpeningCash
        /\ reserved' = SumFunctionOnSet(total', Holding')
        /\ balance' = available' + reserved'
    BY <1>1, <1>2, CashReleased, PayoutAssumptions DEF CashInv
  <1>4. QED BY <1>3, Zenon DEF CashInv

\* Only the row of r changes: it joins the charged and held rows, leaves them or stays.
LEMMA RowMoves ==
  ASSUME NEW r \in Requests, \A q \in Requests : q # r => status'[q] = status[q],
         \A e \in processed : e \in processed', \A e \in processed' : e \in processed \/ e.txn = r
  PROVE  /\ (r \in Charged' <=> r \in Charged) => Charged' = Charged
         /\ r \in Charged' => Charged' = Charged \cup {r}
         /\ r \notin Charged' => Charged' = Charged \ {r}
         /\ (r \in Holding' <=> r \in Holding) => Holding' = Holding
         /\ r \in Holding' => Holding' = Holding \cup {r}
         /\ r \notin Holding' => Holding' = Holding \ {r}
  <1>1. \A q \in Requests : q # r => (q \in Charged' <=> q \in Charged) /\ (q \in Holding' <=> q \in Holding)
    BY DEF Charged, Holding, Active, Settled, FailureApplied
  <1>2. Charged \subseteq Requests /\ Holding \subseteq Requests
        /\ Charged' \subseteq Requests /\ Holding' \subseteq Requests
    BY DEF Charged, Holding
  <1>3. QED BY <1>1, <1>2

\* What the writers of a status leave in the row.
RowsSettled ==
  \A q \in Requests : /\ status[q] = "SUCCESS" => prov[q] \in Spent
                      /\ status[q] = "FAILED" => prov[q] \in {"rejected", "failed"}

LEMMA WriterRows ==
  ASSUME OrderInv, RowInv, NEW r \in Requests, UNCHANGED prov,
         \/ ProcessSuccessfulPayout(r) /\ prov[r] \in Spent
         \/ \E w \in Words : /\ ProcessFailedPayout(r, w)
                             /\ w \notin {"REFUNDED", "REVERSED"} => prov[r] \in {"rejected", "failed"}
         \/ SaveProcessing(r)
  PROVE  RowsSettled'
  <1>1. CASE ProcessSuccessfulPayout(r) /\ prov[r] \in Spent
    BY <1>1 DEF ProcessSuccessfulPayout, OrderInv, TypeOK, RowInv, RowsSettled, books
  <1>2. ASSUME NEW w \in Words, ProcessFailedPayout(r, w),
               w \notin {"REFUNDED", "REVERSED"} => prov[r] \in {"rejected", "failed"}
        PROVE  RowsSettled'
    BY <1>2 DEF ProcessFailedPayout, ReleaseFunds, OrderInv, TypeOK, RowInv, RowsSettled, books
  <1>3. CASE SaveProcessing(r)
    BY <1>3 DEF SaveProcessing, OrderInv, TypeOK, RowInv, RowsSettled
  <1>4. QED BY <1>1, <1>2, <1>3

\* A recorded success has its loan leave approval, or some leader may still answer.
LEMMA SuccessLeft ==
  ASSUME OrderInv, NEW r \in Requests, ProcessSuccessfulPayout(r), UNCHANGED <<target, disputed>>
  PROVE  Left(target[r])'
  <1>1. CASE status[r] = "SUCCESS"
    BY <1>1 DEF OrderInv, BooksInv, SuccessIsDisbursed, TypeOK, ProcessSuccessfulPayout, Left, Unpaid, books
  <1>2. CASE status[r] # "SUCCESS"
    BY <1>2 DEF OrderInv, TypeOK, ProcessSuccessfulPayout, DisburseLoan, Left
  <1>3. QED BY <1>1, <1>2

LEMMA RowNext == OrderInv /\ RowInv /\ [Next]_vars => RowInv'
  <1> SUFFICES ASSUME OrderInv, RowInv, [Next]_vars PROVE RowInv'
    OBVIOUS
  <1>0. /\ TypeOK /\ processed \subseteq Events
        /\ \A e \in Events : e.txn \in Requests /\ e.word \in Words
        /\ \A q \in Requests : target[q] \in Loans
    BY PayoutAssumptions DEF OrderInv, TypeOK, Events
  <1>1. CASE UNCHANGED vars
    BY <1>1 DEF vars, RowInv, Left
  <1>d. ASSUME Next PROVE \A l \in Loans : Left(l) => Left(l)'
    BY <1>0, <1>d, NextLeft DEF KeepsLeft
  <1>2. ASSUME NEW r \in Requests, RequestStep(r) PROVE RowInv'
    <2>1. CASE ValidatePayout(r) \/ RefusePayout(r) \/ RequestDies(r)
      BY <1>0, <2>1 DEF ValidatePayout, RefusePayout, RequestDies, TypeOK, RowInv, Left, books, hooks, images
    <2>2. CASE ReservePayout(r)
      BY <1>0, <2>2 DEF ReservePayout, TypeOK, RowInv, Left, hooks, images
    <2>3. CASE SubmitPayout(r)
      <3>1. prov[r] = "none"
        BY <2>3 DEF SubmitPayout, OrderInv, WorkerInv
      <3>2. \A q \in Requests : q # r => prov'[q] = prov[q]
        BY <1>0, <2>3 DEF SubmitPayout, TypeOK
      <3>3. net \subseteq net'
        BY <2>3 DEF SubmitPayout
      <3>4. status[r] \notin {"SUCCESS", "FAILED"}
        BY <3>1 DEF RowInv, Spent
      <3>5. QED BY <1>0, <2>3, <3>2, <3>3, <3>4 DEF SubmitPayout, TypeOK, RowInv, Left, books, hooks, images
    <2>4. CASE FinishPayout(r)
      <3>1. TrueOf(reply[r], prov[r])
        BY DEF OrderInv, WordsInv
      <3>2. RowsSettled'
        BY <2>4, <3>1, WriterRows DEF FinishPayout, HandleAmbiguous, HandleRejection, HandleResponse,
             TrueOf, SUCCESS_STATUSES, FAILED_STATUSES, Words
      <3>3. \A q \in Requests : q # r => status'[q] = status[q]
        BY <1>0, <2>4 DEF FinishPayout, HandleAmbiguous, HandleRejection, HandleResponse,
             ProcessSuccessfulPayout, ProcessFailedPayout, ReleaseFunds, SaveProcessing, books, TypeOK
      <3>4. \A f \in processed : f.word = "SUCCESS" => Left(target[f.txn])'
        BY <1>0, <1>2, <1>d, <2>4 DEF FinishPayout, RowInv, Next
      <3>5. QED BY <1>0, <2>4, <3>2, <3>3, <3>4 DEF FinishPayout, TypeOK, RowInv, RowsSettled, Left, hooks, images
    <2>5. QED BY <1>2, <2>1, <2>2, <2>3, <2>4 DEF RequestStep
  <1>3. ASSUME NEW r \in Requests, ProviderStep(r) PROVE RowInv'
    <2>1. UNCHANGED <<books, target, pc, seen, processed>> /\ net \subseteq net'
      BY <1>3 DEF ProviderStep, GatewayAnswers, ProviderPays, ProviderFails, ProviderReturns,
           ProviderSettles, worker, hooks, images
    <2>2. \A q \in Requests : /\ prov[q] \in Spent => prov'[q] \in Spent
                              /\ prov[q] \in {"rejected", "failed"} => prov'[q] = prov[q]
      BY <1>0, <1>3 DEF ProviderStep, GatewayAnswers, ProviderPays, ProviderFails, ProviderReturns,
           ProviderSettles, TypeOK, Spent
    <2>3. UNCHANGED disputed
      BY <1>3 DEF ProviderStep, GatewayAnswers, ProviderPays, ProviderFails, ProviderReturns,
           ProviderSettles, images
    <2>4. QED BY <2>1, <2>2, <2>3 DEF RowInv, Left, books
  <1>4. ASSUME NEW e \in Events, EventStep(e) PROVE RowInv'
    <2>1. UNCHANGED <<worker, prov, net, disputed>>
      BY <1>4 DEF EventStep, ReadEvent, AlreadySuccess, ApplyEvent, EventFails, Acknowledge, images
    <2>2. CASE ReadEvent(e) \/ AlreadySuccess(e) \/ EventFails(e)
      BY <1>0, <2>1, <2>2 DEF ReadEvent, AlreadySuccess, EventFails, Acknowledge, RowInv, Left, books, worker, TypeOK
    <2>3. CASE ApplyEvent(e)
      <3>1. e.txn \in Requests /\ e.word \in Words /\ e \in net /\ TrueOf(e.word, prov[e.txn])
        BY <1>0, <2>3 DEF ApplyEvent, Running, OrderInv, WordsInv
      <3>2. RowsSettled' /\ (e.word = "SUCCESS" => Left(target[e.txn])')
        <4>1. RowsSettled'
          BY <2>1, <2>3, <3>1, WriterRows DEF ApplyEvent, TrueOf, SUCCESS_STATUSES, FAILED_STATUSES, Spent
        <4>2. CASE e.word = "SUCCESS"
          BY <2>1, <2>3, <3>1, <4>1, <4>2, SuccessLeft DEF ApplyEvent, SUCCESS_STATUSES, worker
        <4>3. QED BY <4>1, <4>2
      <3>3. status[e.txn] # "NONE" /\ pc[e.txn] \notin {"idle", "validated"}
        BY <3>1 DEF OrderInv, WorkerInv, WordsInv
      <3>4. \A q \in Requests : q # e.txn => status'[q] = status[q]
        BY <1>0, <2>3, <3>1 DEF ApplyEvent, ProcessSuccessfulPayout, ProcessFailedPayout, ReleaseFunds,
             SaveProcessing, books, TypeOK
      <3>5. \A q \in Requests : pc'[q] \in {"idle", "validated"} => status'[q] = "NONE"
        BY <2>1, <3>3, <3>4 DEF RowInv, worker
      <3>6. /\ processed' = processed \cup {e} /\ seen' = [seen EXCEPT ![e] = "idle"]
            /\ UNCHANGED <<target, net>>
        BY <2>1, <2>3 DEF ApplyEvent, Acknowledge, worker
      <3>7. \A f \in processed' : f.word = "SUCCESS" => Left(target[f.txn])'
        <4>1. Next
          BY <1>4 DEF Next
        <4>2. QED BY <1>0, <1>d, <3>2, <3>6, <4>1 DEF RowInv
      <3>8. processed' \subseteq net' /\ \A f \in processed' : seen'[f] = "idle"
        BY <1>0, <3>1, <3>6 DEF RowInv, TypeOK
      <3>9. QED BY <3>2, <3>5, <3>6, <3>7, <3>8 DEF RowInv, RowsSettled, Left
    <2>4. QED BY <1>4, <2>2, <2>3 DEF EventStep
  <1>5. ASSUME NEW l \in Loans, LoanStep(l) PROVE RowInv'
    <2>1. UNCHANGED <<status, target, pc, prov, net, seen, processed>>
      BY <1>5 DEF LoanStep, SimulateLoanPayout, DecideLoan, DecideAgain, ReadUnpaid, SaveUnpaid, books, worker, hooks, images
    <2>2. Next
      BY <1>5 DEF Next
    <2>3. \A f \in processed : f.word = "SUCCESS" => Left(target[f.txn])'
      <3>1. \A f \in processed : target'[f.txn] = target[f.txn] /\ target[f.txn] \in Loans
        BY <1>0, <2>1
      <3>2. ASSUME NEW f \in processed, f.word = "SUCCESS" PROVE Left(target[f.txn])'
        <4>1. Left(target[f.txn])
          BY <3>2 DEF RowInv
        <4>2. Left(target[f.txn]) => (loan'[target[f.txn]] \notin {"PENDING", "APPROVED"} \/ target[f.txn] \in disputed')
          BY <1>d, <2>2, <3>1 DEF Left
        <4>3. QED BY <2>1, <4>1, <4>2 DEF Left
      <3>3. QED BY <3>2
    <2>4. QED BY <1>0, <2>1, <2>3 DEF RowInv, Left
  <1>6. QED BY <1>1, <1>2, <1>3, <1>4, <1>5 DEF Next

\* What runs is not processed yet, so only settled orders' payloads are ever counted twice.
LEMMA SettledShrinks ==
  processed \subseteq processed' /\ target' = target /\ disputed \subseteq disputed' /\ OnlySettled' => OnlySettled
  BY DEF OnlySettled

\* While webhooks only settle, the handling of an answer or of a payload moves the cash of
\* a transaction that still holds it, or of none.
LEMMA FinishCash ==
  ASSUME OrderInv, RowInv, LateInv, CashInv, NEW r \in Requests, FinishPayout(r)
  PROVE  LateInv' /\ CashInv'
  <1>0. /\ TypeOK /\ TypeOK' /\ pc[r] = "submitted" /\ status[r] # "NONE"
        /\ TrueOf(reply[r], prov[r]) /\ UNCHANGED <<total, processed, prov, target, reply>>
        /\ pc' = [pc EXCEPT ![r] = "done"]
    BY NextTypeOK DEF FinishPayout, OrderInv, WorkerInv, WordsInv, hooks, images, Next, RequestStep
  <1>1. \A q \in Requests : q # r => status'[q] = status[q]
    BY <1>0 DEF FinishPayout, HandleAmbiguous, HandleRejection, HandleResponse,
         ProcessSuccessfulPayout, ProcessFailedPayout, ReleaseFunds, SaveProcessing, books, TypeOK
  <1>2. status'[r] # "REVERSED" => LateInv'
    BY <1>0, <1>1 DEF LateInv, TypeOK, Settled, FailureApplied
  <1>3. status[r] = "PENDING" => r \in Holding /\ r \in Charged
    BY <1>0 DEF LateInv, Holding, Charged, Active, Settled, FailureApplied
  <1>4. CASE SaveProcessing(r)
    <2>1. status'[r] = "PROCESSING" /\ UNCHANGED wallet
      BY <1>0, <1>4 DEF SaveProcessing, TypeOK
    <2>2. status[r] \in {"PENDING", "SUCCESS", "FAILED"}
      BY <1>0 DEF LateInv, TypeOK, TxnStatus
    <2>3. (r \in Charged' <=> r \in Charged) /\ (r \in Holding' <=> r \in Holding)
      BY <1>0, <2>1, <2>2 DEF LateInv, Charged, Holding, Active, Settled, FailureApplied
    <2>4. UNCHANGED Charged /\ UNCHANGED Holding
      BY <1>0, <1>1, <2>3, RowMoves
    <2>5. CashInv'
      BY <1>0, <2>1, <2>4, CashStays
    <2>6. QED BY <1>2, <2>1, <2>5
  <1>5. ASSUME ProcessFailedPayout(r, "FAILED"), prov[r] \in {"rejected", "failed"}
        PROVE  LateInv' /\ CashInv'
    <2>1. CASE status[r] = "FAILED"
      <3>1. UNCHANGED books
        BY <1>5, <2>1 DEF ProcessFailedPayout
      <3>2. UNCHANGED wallet /\ UNCHANGED Charged /\ UNCHANGED Holding /\ UNCHANGED status
        BY <1>0, <3>1 DEF books, wallet, Charged, Holding, Active, Settled, FailureApplied
      <3>3. CashInv'
        BY <1>0, <3>2, CashStays
      <3>4. QED BY <1>2, <2>1, <3>2, <3>3
    <2>2. CASE status[r] # "FAILED"
      <3>1. status[r] = "PENDING"
        BY <1>0, <1>5, <2>2 DEF LateInv, RowInv, Spent, TypeOK, TxnStatus
      <3>2. /\ reserved' = Floor0(reserved - total[r]) /\ available' = available + total[r]
            /\ UNCHANGED balance /\ status'[r] = "FAILED"
        <4>1. status \in [Requests -> TxnStatus \cup {"NONE"}]
          BY <1>0 DEF TypeOK
        <4>2. QED BY <1>5, <3>1, <4>1 DEF ProcessFailedPayout, ReleaseFunds
      <3>3. r \notin Charged' /\ r \notin Holding'
        BY <3>2 DEF Charged, Holding, Active
      <3>4. Charged' = Charged \ {r} /\ Holding' = Holding \ {r}
        BY <1>0, <1>1, <3>3, RowMoves
      <3>5. CashInv'
        BY <1>0, <1>3, <3>1, <3>2, <3>4, CashGivenBack
      <3>6. QED BY <1>2, <3>2, <3>5
    <2>3. QED BY <2>1, <2>2
  <1>6. ASSUME ProcessSuccessfulPayout(r), prov[r] \in Spent
        PROVE  LateInv' /\ CashInv'
    <2>1. CASE status[r] = "SUCCESS"
      <3>1. UNCHANGED books
        BY <1>6, <2>1 DEF ProcessSuccessfulPayout
      <3>2. UNCHANGED wallet /\ UNCHANGED Charged /\ UNCHANGED Holding /\ UNCHANGED status
        BY <1>0, <3>1 DEF books, wallet, Charged, Holding, Active, Settled, FailureApplied
      <3>3. CashInv'
        BY <1>0, <3>2, CashStays
      <3>4. QED BY <1>2, <2>1, <3>2, <3>3
    <2>2. CASE status[r] # "SUCCESS"
      <3>1. status[r] = "PENDING"
        BY <1>0, <1>6, <2>2 DEF LateInv, RowInv, Spent, TypeOK, TxnStatus
      <3>2. /\ reserved' = Floor0(reserved - total[r]) /\ balance' = Floor0(balance - total[r])
            /\ UNCHANGED available /\ status'[r] = "SUCCESS"
        <4>1. status \in [Requests -> TxnStatus \cup {"NONE"}]
          BY <1>0 DEF TypeOK
        <4>2. QED BY <1>6, <3>1, <4>1 DEF ProcessSuccessfulPayout
      <3>3. r \in Charged' /\ r \notin Holding'
        BY <1>0, <1>3, <3>1, <3>2 DEF Charged, Holding, Active, FailureApplied
      <3>4. Charged' = Charged /\ Holding' = Holding \ {r}
        BY <1>0, <1>1, <1>3, <3>1, <3>3, RowMoves
      <3>5. CashInv'
        BY <1>0, <1>3, <3>1, <3>2, <3>4, CashSpent
      <3>6. QED BY <1>2, <3>2, <3>5
    <2>3. QED BY <2>1, <2>2
  <1>7. QED
    BY <1>0, <1>4, <1>5, <1>6 DEF FinishPayout, HandleAmbiguous, HandleRejection, HandleResponse,
         TrueOf, SUCCESS_STATUSES, FAILED_STATUSES, PROCESSING_STATUSES, TypeOK, Answers

LEMMA ApplyCash ==
  ASSUME OrderInv, RowInv, LateInv, CashInv, NEW e \in Events, ApplyEvent(e), OnlySettled'
  PROVE  LateInv' /\ CashInv'
  <1> DEFINE r == e.txn
  <1>0. /\ TypeOK /\ TypeOK' /\ r \in Requests /\ TrueOf(e.word, prov[r]) /\ e \notin processed
        /\ UNCHANGED <<total, prov, target, pc, net>> /\ processed' = processed \cup {e}
    BY NextTypeOK DEF ApplyEvent, Acknowledge, Running, OrderInv, WordsInv, Events, worker,
         RowInv, Next, EventStep
  <1>h. UNCHANGED disputed
    BY DEF ApplyEvent, Acknowledge, images
  <1>a. \A f \in processed : f.txn \in Requests /\ TrueOf(f.word, prov[f.txn])
    <2>1. processed \subseteq Events
      BY <1>0 DEF TypeOK
    <2>2. QED BY <2>1 DEF RowInv, OrderInv, WordsInv, Events
  <1>b. e.word \in {"SUCCESS", "FAILED"}
    BY <1>0 DEF OnlySettled
  <1>c. \A f \in processed : f.word \in {"SUCCESS", "FAILED"}
    BY <1>0 DEF OnlySettled
  <1>d. \A f \in processed : f.txn = r /\ e.word = "FAILED" => f.word = "SUCCESS"
    BY <1>0, <1>c DEF OnlySettled
  <1>g. \A f \in processed : f.txn = r => target[r] \notin disputed
    BY <1>0, <1>h DEF OnlySettled
  <1>1. \A q \in Requests : q # r => status'[q] = status[q]
    BY <1>0 DEF ApplyEvent, ProcessSuccessfulPayout, ProcessFailedPayout, ReleaseFunds,
         SaveProcessing, books, TypeOK
  <1>s. \A q \in Requests : q # r => (Settled(q)' <=> Settled(q)) /\ (FailureApplied(q)' <=> FailureApplied(q))
    BY <1>0 DEF Settled, FailureApplied
  <1>t. Settled(r)' /\ (e.word = "FAILED" => FailureApplied(r)')
    BY <1>0 DEF Settled, FailureApplied
  <1>2. \/ status'[r] = "SUCCESS"
        \/ status'[r] = "FAILED" /\ e.word = "FAILED"
        => LateInv'
    BY <1>0, <1>1, <1>s, <1>t DEF LateInv, TypeOK
  <1>m. /\ \A f \in processed : f \in processed'
        /\ \A f \in processed' : f \in processed \/ f.txn = r
    BY <1>0
  <1>k. ASSUME UNCHANGED books, status[r] \in {"SUCCESS", "FAILED"}, e.word = "SUCCESS" \/ status[r] = "FAILED"
        PROVE  CashInv'
    <2>1. (r \in Charged' <=> r \in Charged) /\ (r \in Holding' <=> r \in Holding)
      <3>1. CASE status[r] = "FAILED"
        BY <1>k, <3>1 DEF Charged, Holding, Active, books
      <3>2. CASE e.word = "SUCCESS" /\ status[r] = "SUCCESS"
        BY <1>0, <1>k, <3>2 DEF Charged, Holding, Active, FailureApplied, books
      <3>3. QED BY <1>k, <3>1, <3>2
    <2>2. UNCHANGED Charged /\ UNCHANGED Holding
      BY <1>0, <1>1, <1>m, <2>1, RowMoves
    <2>3. UNCHANGED wallet
      BY <1>k DEF books, wallet
    <2>4. QED BY <1>0, <2>2, <2>3, CashStays
  <1>3. CASE e.word = "SUCCESS"
    <2>1. ProcessSuccessfulPayout(r) /\ prov[r] \in Spent
      BY <1>0, <1>3 DEF ApplyEvent, SUCCESS_STATUSES, TrueOf
    <2>2. CASE status[r] = "SUCCESS"
      BY <1>2, <1>3, <1>k, <2>1, <2>2 DEF ProcessSuccessfulPayout, books
    <2>3. CASE status[r] # "SUCCESS"
      <3>1. /\ reserved' = Floor0(reserved - total[r]) /\ balance' = Floor0(balance - total[r])
            /\ UNCHANGED available /\ status'[r] = "SUCCESS" /\ loan[target[r]] = "APPROVED"
        BY <1>0, <2>1, <2>3 DEF ProcessSuccessfulPayout, DisburseLoan, TypeOK
      <3>2. ~Settled(r)
        <4>1. \A f \in processed : f.txn = r => f.word # "SUCCESS"
          BY <1>g, <3>1 DEF RowInv, Left
        <4>2. \A f \in processed : f.txn = r => f.word # "FAILED"
          BY <1>a, <2>1 DEF TrueOf, Spent
        <4>3. QED BY <1>c, <4>1, <4>2 DEF Settled
      <3>3. status[r] \in {"PENDING", "PROCESSING"}
        <4>1. status[r] # "NONE"
          BY <1>0, <2>1 DEF OrderInv, WorkerInv, Spent
        <4>2. status[r] \notin {"FAILED", "REVERSED"}
          BY <1>0, <2>1 DEF RowInv, LateInv, Spent
        <4>3. QED BY <1>0, <2>3, <4>1, <4>2 DEF TypeOK, TxnStatus
      <3>4. r \in Holding /\ r \in Charged
        BY <1>0, <3>2, <3>3 DEF Holding, Charged, Active, Settled, FailureApplied
      <3>5. r \in Charged' /\ r \notin Holding'
        BY <1>0, <1>3, <3>1, <3>4 DEF Charged, Holding, Active, FailureApplied
      <3>6. Charged' = Charged /\ Holding' = Holding \ {r}
        BY <1>0, <1>1, <1>m, <3>4, <3>5, RowMoves
      <3>7. CashInv'
        BY <1>0, <3>1, <3>4, <3>6, CashSpent
      <3>8. QED BY <1>2, <3>1, <3>7
    <2>4. QED BY <2>2, <2>3
  <1>4. CASE e.word = "FAILED"
    <2>1. ProcessFailedPayout(r, "FAILED") /\ prov[r] = "failed"
      BY <1>0, <1>4 DEF ApplyEvent, SUCCESS_STATUSES, FAILED_STATUSES, TrueOf
    <2>2. CASE status[r] = "FAILED"
      BY <1>2, <1>4, <1>k, <2>1, <2>2 DEF ProcessFailedPayout, books
    <2>3. CASE status[r] # "FAILED"
      <3>1. status[r] \in {"PENDING", "PROCESSING"}
        <4>1. status[r] # "NONE"
          BY <1>0, <2>1 DEF OrderInv, WorkerInv
        <4>2. status[r] \notin {"SUCCESS", "REVERSED"}
          BY <1>0, <2>1 DEF RowInv, LateInv, Spent
        <4>3. QED BY <1>0, <2>3, <4>1, <4>2 DEF TypeOK, TxnStatus
      <3>2. /\ reserved' = Floor0(reserved - total[r]) /\ available' = available + total[r]
            /\ UNCHANGED balance /\ status'[r] = "FAILED"
        BY <1>0, <2>1, <3>1 DEF ProcessFailedPayout, ReleaseFunds, TypeOK
      <3>3. ~Settled(r)
        <4>1. \A f \in processed : f.txn = r => f.word # "SUCCESS"
          BY <1>a, <2>1 DEF TrueOf, Spent
        <4>2. QED BY <1>4, <1>d, <4>1 DEF Settled
      <3>4. r \in Holding
        BY <1>0, <3>1, <3>3 DEF Holding
      <3>5. r \notin Charged' /\ r \notin Holding'
        BY <3>2 DEF Charged, Holding, Active
      <3>6. Charged' = Charged \ {r} /\ Holding' = Holding \ {r}
        BY <1>0, <1>1, <1>m, <3>5, RowMoves
      <3>7. CashInv'
        BY <1>0, <3>2, <3>4, <3>6, CashGivenBack
      <3>8. QED BY <1>2, <1>4, <3>2, <3>7
    <2>4. QED BY <2>2, <2>3
  <1>5. QED BY <1>b, <1>3, <1>4

LEMMA EscrowNext == OrderInv /\ EscrowInv /\ [Next]_vars => EscrowInv'
  <1> SUFFICES ASSUME OrderInv, EscrowInv, [Next]_vars, OnlySettled' PROVE LateInv' /\ CashInv'
    BY RowNext DEF EscrowInv
  <1>0. /\ TypeOK /\ RowInv /\ processed \subseteq Events
        /\ \A e \in Events : e.txn \in Requests
    BY DEF OrderInv, TypeOK, Events, EscrowInv
  <1>p. processed \subseteq processed' /\ target' = target /\ disputed \subseteq disputed'
    BY DEF Next, RequestStep, ValidatePayout, ReservePayout, RefusePayout, SubmitPayout, FinishPayout,
         RequestDies, ProviderStep, GatewayAnswers, ProviderPays, ProviderFails, ProviderReturns,
         ProviderSettles, EventStep, ReadEvent, AlreadySuccess, ApplyEvent, EventFails, LoanStep,
         SimulateLoanPayout, DecideLoan, DecideAgain, ReadUnpaid, SaveUnpaid, books, Acknowledge, worker, hooks, images, vars
  <1>i. LateInv /\ CashInv
    BY <1>p, SettledShrinks DEF EscrowInv
  <1>k. ASSUME UNCHANGED <<wallet, status, processed>>, \A q \in Charged : total'[q] = total[q],
               \A q \in Requests : pc'[q] = pc[q] \/ pc'[q] = "done" \/ status[q] = "NONE" \/ pc[q] # "done"
        PROVE  LateInv' /\ CashInv'
    <2>1. UNCHANGED Charged /\ UNCHANGED Holding
      BY <1>k DEF Charged, Holding, Active, Settled, FailureApplied
    <2>2. CashInv'
      BY <1>0, <1>i, <1>k, <2>1, CashStays
    <2>3. \A q \in Requests : status[q] = "NONE" => ~Settled(q)
      BY <1>0 DEF RowInv, OrderInv, WordsInv, WorkerInv, Settled
    <2>4. LateInv'
      BY <1>i, <1>k, <2>3 DEF LateInv, Settled, FailureApplied
    <2>5. QED BY <2>2, <2>4
  <1>1. CASE UNCHANGED vars
    BY <1>1, <1>k DEF vars, wallet
  <1>2. ASSUME NEW r \in Requests, RequestStep(r) PROVE LateInv' /\ CashInv'
    <2>1. CASE ValidatePayout(r)
      <3>1. status[r] = "NONE" /\ r \notin Charged
        BY <1>0, <2>1 DEF ValidatePayout, RowInv, Charged, Active
      <3>2. \A q \in Charged : total'[q] = total[q]
        BY <1>0, <2>1, <3>1, ChargedFinite DEF ValidatePayout, TypeOK
      <3>3. \A q \in Requests : pc'[q] = pc[q] \/ status[q] = "NONE"
        BY <1>0, <2>1, <3>1 DEF ValidatePayout, TypeOK
      <3>4. QED BY <1>k, <2>1, <3>2, <3>3 DEF ValidatePayout, books, hooks, images, wallet
    <2>2. CASE ReservePayout(r)
      <3>1. status[r] = "NONE" /\ ~Settled(r) /\ r \notin Charged /\ UNCHANGED <<total, processed>>
        BY <1>0, <2>2 DEF ReservePayout, RowInv, OrderInv, WordsInv, WorkerInv, Settled, Charged, Active, hooks, images
      <3>2. status'[r] = "PENDING" /\ \A q \in Requests : q # r => status'[q] = status[q] /\ pc'[q] = pc[q]
        BY <1>0, <2>2 DEF ReservePayout, TypeOK
      <3>3. r \in Charged' /\ r \in Holding'
        BY <3>1, <3>2 DEF Charged, Holding, Active, Settled, FailureApplied
      <3>4. Charged' = Charged \cup {r} /\ Holding' = Holding \cup {r}
        BY <3>1, <3>2, <3>3, RowMoves
      <3>5. CashInv'
        BY <1>0, <1>i, <2>2, <3>1, <3>4, CashHeld DEF ReservePayout
      <3>6. LateInv'
        BY <1>i, <3>1, <3>2 DEF LateInv, Settled, FailureApplied
      <3>7. QED BY <3>5, <3>6
    <2>3. CASE RefusePayout(r) \/ RequestDies(r) \/ SubmitPayout(r)
      BY <1>0, <1>k, <2>3 DEF RefusePayout, RequestDies, SubmitPayout, TypeOK, books, hooks, images, wallet
    <2>4. CASE FinishPayout(r)
      BY <1>0, <1>i, <2>4, FinishCash
    <2>5. QED BY <1>2, <2>1, <2>2, <2>3, <2>4 DEF RequestStep
  <1>3. ASSUME NEW r \in Requests, ProviderStep(r) PROVE LateInv' /\ CashInv'
    BY <1>3, <1>k DEF ProviderStep, GatewayAnswers, ProviderPays, ProviderFails, ProviderReturns,
         ProviderSettles, books, worker, hooks, images, wallet
  <1>4. ASSUME NEW e \in Events, EventStep(e) PROVE LateInv' /\ CashInv'
    <2>1. CASE ApplyEvent(e)
      BY <1>0, <1>i, <2>1, ApplyCash
    <2>2. CASE ReadEvent(e) \/ AlreadySuccess(e) \/ EventFails(e)
      BY <1>k, <2>2 DEF ReadEvent, AlreadySuccess, EventFails, Acknowledge, books, worker, wallet
    <2>3. QED BY <1>4, <2>1, <2>2 DEF EventStep
  <1>5. ASSUME NEW l \in Loans, LoanStep(l) PROVE LateInv' /\ CashInv'
    BY <1>5, <1>k DEF LoanStep, SimulateLoanPayout, DecideLoan, DecideAgain, ReadUnpaid, SaveUnpaid,
         books, wallet, worker, hooks, images
  <1>6. QED BY <1>1, <1>2, <1>3, <1>4, <1>5 DEF Next

\* As long as webhooks only settle orders, each from one payload unless it reports success
\* of a loan no late answer can approve again, the wallet adds up and never offers cash that ClickPesa has paid out, whatever the late saves of the workers
\* overwrite (PayoutService as a whole).
THEOREM WalletBacked == Spec => []EscrowBacked
  <1>1. Init => EscrowInv
    <2> SUFFICES ASSUME Init PROVE EscrowInv
      OBVIOUS
    <2>1. Charged = {} /\ Holding = {}
      BY DEF Init, Charged, Holding, Active
    <2>2. SumFunctionOnSet(total, Charged) = 0 /\ SumFunctionOnSet(total, Holding) = 0
      BY <2>1, SumEmpty, Zenon
    <2>3. CashInv
      BY <2>2, PayoutAssumptions DEF Init, CashInv
    <2>4. RowInv /\ LateInv
      BY DEF Init, RowInv, LateInv, Settled
    <2>5. QED BY <2>3, <2>4 DEF EscrowInv
  <1>2. OrderInv /\ EscrowInv => EscrowBacked
    <2> SUFFICES ASSUME OrderInv, EscrowInv, OnlySettled
                 PROVE  balance = available + reserved /\ available + PaidOut <= OpeningCash
      BY DEF EscrowBacked
    <2> DEFINE Paid == {r \in Requests : prov[r] = "paid"}
    <2>1. TypeOK /\ RowInv /\ LateInv /\ CashInv
      BY DEF OrderInv, EscrowInv
    <2>2. Paid \subseteq Charged
      <3> SUFFICES ASSUME NEW r \in Requests, prov[r] = "paid" PROVE r \in Charged
        OBVIOUS
      <3>1. status[r] \notin {"NONE", "FAILED", "REVERSED"}
        BY <2>1 DEF OrderInv, WorkerInv, RowInv, LateInv
      <3>2. ~FailureApplied(r)
        BY <2>1 DEF FailureApplied, RowInv, OrderInv, WordsInv, TrueOf
      <3>3. QED BY <2>1, <3>1, <3>2 DEF Charged, Active, TypeOK, TxnStatus
    <2>3. SumFunctionOnSet(total, Paid) <= SumFunctionOnSet(total, Charged)
      BY <2>1, <2>2, ChargedFinite, SumSubset
    <2>4. SumFunctionOnSet(total, Paid) \in Nat /\ SumFunctionOnSet(total, Charged) \in Nat
      <3>1. IsFiniteSet(Paid)
        BY <2>1, ChargedFinite, FS_Subset
      <3>2. QED BY <2>1, <3>1, ChargedFinite, SumNat
    <2>5. PaidOut = SumFunctionOnSet(total, Paid)
      BY Zenon DEF PaidOut
    <2> HIDE DEF Paid
    <2>6. QED BY <2>1, <2>3, <2>4, <2>5, PayoutAssumptions DEF CashInv, TypeOK
  <1>3. QED BY <1>1, <1>2, EscrowNext, OrdersInvariant, PTL DEF Spec

-----------------------------------------------------------------------------
(* Payout implements Escrow, when webhooks come in order, one at a time and *)
(* after the payout call, and none of them says PROCESSING.                 *)

\* Until the call is over no webhook is applied; then a delivery acts on the status
\* it has read, alone.  What SUCCESS settles stays settled, and an order returned
\* without it never succeeds later.
OrderlyInv ==
  /\ \A r \in Requests :
       /\ pc[r] # "done" => status[r] \in {"NONE", "PENDING"}
       /\ pc[r] = "validated" => total[r] \in PayoutCosts
       /\ status[r] = "REVERSED" =>
            prov[r] = "returned" /\ \A e \in net : e.txn = r => e.word # "SUCCESS"
  /\ \A e \in Events : seen[e] # "idle" =>
       /\ pc[e.txn] = "done" /\ seen[e] = status[e.txn]
       /\ \A f \in Events : f.txn = e.txn /\ seen[f] # "idle" => f = e
       /\ e.word \in {"REFUNDED", "REVERSED"} =>
            \A f \in net : f.txn = e.txn /\ f.word = "SUCCESS" => f \in acked
  /\ \A e \in acked : e.word = "SUCCESS" => status[e.txn] = "SUCCESS"
  /\ \A e \in processed :
       /\ status[e.txn] \in {"SUCCESS", "FAILED", "REVERSED"}
       /\ e.word = "FAILED" => status[e.txn] = "FAILED"

AllInv == OrderInv /\ RowInv /\ OrderlyInv /\ CashInv

InOrder == Orderly /\ "PROCESSING" \notin Hooks

\* What a step does to an escrow and to the row of r.
Spends(r) ==
  /\ status[r] \in {"PENDING", "PROCESSING"} /\ status' = [status EXCEPT ![r] = "SUCCESS"]
  /\ reserved' = Floor0(reserved - total[r]) /\ balance' = Floor0(balance - total[r])
  /\ UNCHANGED available
GivesBack(r, s) ==
  /\ status[r] \in {"PENDING", "PROCESSING"} /\ status' = [status EXCEPT ![r] = s]
  /\ reserved' = Floor0(reserved - total[r]) /\ available' = available + total[r]
  /\ UNCHANGED balance
Keeps(r) == status[r] = "PENDING" /\ status' = [status EXCEPT ![r] = "PROCESSING"] /\ UNCHANGED wallet

\* The end of a request's call finds its transaction PENDING.
LEMMA OrderlyFinish ==
  ASSUME AllInv, NEW r \in Requests, FinishPayout(r)
  PROVE  /\ status[r] = "PENDING"
         /\ Spends(r) \/ GivesBack(r, "FAILED") \/ Keeps(r)
  <1>1. /\ status[r] # "NONE" /\ pc[r] = "submitted" /\ TrueOf(reply[r], prov[r])
        /\ status[r] \in {"NONE", "PENDING"} /\ reply[r] \in Answers \cup {"none"}
    BY DEF FinishPayout, AllInv, OrderInv, WorkerInv, WordsInv, OrderlyInv, TypeOK
  <1>2. ProcessSuccessfulPayout(r) => Spends(r)
    BY <1>1 DEF ProcessSuccessfulPayout, Spends
  <1>3. ProcessFailedPayout(r, "FAILED") => GivesBack(r, "FAILED")
    BY <1>1 DEF ProcessFailedPayout, ReleaseFunds, GivesBack
  <1>4. SaveProcessing(r) => Keeps(r)
    BY <1>1 DEF SaveProcessing, Keeps
  <1>5. QED
    BY <1>1, <1>2, <1>3, <1>4 DEF FinishPayout, HandleAmbiguous, HandleRejection, HandleResponse,
         SUCCESS_STATUSES, FAILED_STATUSES, PROCESSING_STATUSES, Answers

\* A webhook settles a transaction that is not settled, or repeats a failure.
LEMMA OrderlyApply ==
  ASSUME InOrder, AllInv, NEW e \in Events, ApplyEvent(e)
  PROVE  \/ e.word = "SUCCESS" /\ Spends(e.txn)
         \/ e.word = "FAILED" /\ GivesBack(e.txn, "FAILED")
         \/ /\ e.word \in {"REFUNDED", "REVERSED"} /\ GivesBack(e.txn, "REVERSED")
            /\ prov[e.txn] = "returned"
            /\ \A f \in net : f.txn = e.txn => f.word # "SUCCESS"
         \/ /\ UNCHANGED books /\ e.word # "SUCCESS"
            /\ status[e.txn] \in {"FAILED", "REVERSED"}
            /\ e.word = "FAILED" => status[e.txn] = "FAILED"
  <1> DEFINE r == e.txn
  <1>1. /\ r \in Requests /\ e \in net /\ TrueOf(e.word, prov[r]) /\ prov[r] # "none"
        /\ e.word \in Words \ {"PROCESSING"} /\ status[r] \in TxnStatus
    BY PayoutAssumptions DEF ApplyEvent, Running, AllInv, OrderInv, WordsInv, WorkerInv, InOrder,
         Events, TypeOK
  <1>2. status[r] # "SUCCESS"
    BY DEF ApplyEvent, Running, AllInv, OrderlyInv
  <1>3. CASE e.word = "SUCCESS"
    <2>1. ProcessSuccessfulPayout(r)
      BY <1>3 DEF ApplyEvent, SUCCESS_STATUSES
    <2>2. status[r] \in {"PENDING", "PROCESSING"}
      <3>1. prov[r] \in Spent
        BY <1>1, <1>3 DEF TrueOf
      <3>2. status[r] # "FAILED"
        BY <1>1, <3>1 DEF AllInv, RowInv, Spent
      <3>3. status[r] # "REVERSED"
        BY <1>1, <1>3 DEF AllInv, OrderlyInv
      <3>4. QED BY <1>1, <1>2, <3>2, <3>3 DEF TxnStatus
    <2>3. Spends(r)
      BY <1>2, <2>1, <2>2 DEF ProcessSuccessfulPayout, Spends
    <2>4. QED BY <1>3, <2>3
  <1>4. CASE e.word = "FAILED"
    <2>1. ProcessFailedPayout(r, "FAILED") /\ prov[r] = "failed"
      BY <1>1, <1>4 DEF ApplyEvent, SUCCESS_STATUSES, FAILED_STATUSES, TrueOf
    <2>2. status[r] # "REVERSED"
      BY <1>1, <2>1 DEF AllInv, OrderlyInv
    <2>3. status[r] \in {"PENDING", "PROCESSING"} => GivesBack(r, "FAILED")
      BY <2>1 DEF ProcessFailedPayout, ReleaseFunds, GivesBack
    <2>4. status[r] = "FAILED" => UNCHANGED books
      BY <2>1 DEF ProcessFailedPayout
    <2>5. QED BY <1>1, <1>2, <1>4, <2>2, <2>3, <2>4 DEF TxnStatus
  <1>5. CASE e.word \in {"REFUNDED", "REVERSED"}
    <2>1. ProcessFailedPayout(r, e.word) /\ prov[r] = "returned"
      BY <1>1, <1>5 DEF ApplyEvent, SUCCESS_STATUSES, FAILED_STATUSES, TrueOf
    <2>2. \A f \in net : f.txn = r => f.word # "SUCCESS"
      BY <1>2, <1>5 DEF ApplyEvent, Running, AllInv, OrderlyInv
    <2>3. status[r] \in {"PENDING", "PROCESSING"} => GivesBack(r, "REVERSED")
      BY <1>5, <2>1 DEF ProcessFailedPayout, ReleaseFunds, GivesBack
    <2>4. status[r] \in {"FAILED", "REVERSED"} => UNCHANGED books
      BY <2>1 DEF ProcessFailedPayout
    <2>5. QED BY <1>1, <1>2, <1>5, <2>1, <2>2, <2>3, <2>4 DEF TxnStatus
  <1>6. QED BY <1>1, <1>3, <1>4, <1>5 DEF Words

\* An unsettled transaction holds its total, whatever payloads were processed.
LEMMA OrderlyCash ==
  ASSUME AllInv, NEW r \in Requests, UNCHANGED total, status[r] \in {"PENDING", "PROCESSING"},
         \/ Spends(r) \/ GivesBack(r, "FAILED") \/ GivesBack(r, "REVERSED") \/ Keeps(r),
         \A e \in processed : e \in processed', \A e \in processed' : e \in processed \/ e.txn = r,
         Spends(r) => \A e \in processed' : e \in processed \/ e.word # "FAILED",
         Keeps(r) => processed' = processed
  PROVE  CashInv'
  <1>0. TypeOK /\ status \in [Requests -> TxnStatus \cup {"NONE"}] /\ CashInv
    BY DEF AllInv, OrderInv, TypeOK
  <1>1. ~Settled(r) /\ ~FailureApplied(r)
    BY DEF AllInv, OrderlyInv, Settled, FailureApplied
  <1>2. r \in Charged /\ r \in Holding
    BY <1>1 DEF Charged, Holding, Active, Settled, FailureApplied
  <1>3. \A q \in Requests : q # r => status'[q] = status[q]
    BY <1>0 DEF Spends, GivesBack, Keeps
  <1>4. CASE Spends(r)
    <2>1. status'[r] = "SUCCESS"
      BY <1>0, <1>4 DEF Spends
    <2>2. r \notin Holding' /\ r \in Charged'
      BY <1>0, <1>1, <1>4, <2>1 DEF Holding, Charged, Active, FailureApplied, GivesBack
    <2>3. Charged' = Charged /\ Holding' = Holding \ {r}
      BY <1>2, <1>3, <2>2, RowMoves
    <2>4. QED BY <1>0, <1>2, <1>4, <2>3, CashSpent DEF Spends
  <1>5. CASE GivesBack(r, "FAILED") \/ GivesBack(r, "REVERSED")
    <2>1. status'[r] \in {"FAILED", "REVERSED"}
      BY <1>0, <1>5 DEF GivesBack
    <2>2. r \notin Holding' /\ r \notin Charged'
      BY <2>1 DEF Holding, Charged, Active
    <2>3. Charged' = Charged \ {r} /\ Holding' = Holding \ {r}
      BY <1>3, <2>2, RowMoves
    <2>4. QED BY <1>0, <1>2, <1>5, <2>3, CashGivenBack DEF GivesBack
  <1>6. CASE Keeps(r)
    <2>1. status'[r] = "PROCESSING" /\ processed' = processed
      BY <1>0, <1>6 DEF Keeps
    <2>2. r \in Holding' /\ r \in Charged'
      BY <1>1, <2>1 DEF Holding, Charged, Active, Settled, FailureApplied
    <2>3. UNCHANGED Charged /\ UNCHANGED Holding
      BY <1>2, <1>3, <2>2, RowMoves
    <2>4. QED BY <1>0, <1>6, <2>3, CashStays DEF Keeps
  <1>7. QED BY <1>4, <1>5, <1>6

\* What OrderlyInv says of a step that leaves the rows of the transactions alone.
LEMMA OrderlyEvents ==
  ASSUME InOrder, AllInv, NEW e \in Events, EventStep(e)
  PROVE  OrderlyInv' /\ CashInv'
  <1> DEFINE r == e.txn
  <1>0. /\ TypeOK /\ RowInv /\ OrderlyInv /\ CashInv /\ r \in Requests
        /\ UNCHANGED <<worker, prov, net>>
    BY DEF AllInv, OrderInv, Events, EventStep, ReadEvent, AlreadySuccess, ApplyEvent, EventFails,
           Acknowledge
  <1>1. \A q \in Requests : pc'[q] = pc[q] /\ total'[q] = total[q] /\ prov'[q] = prov[q]
    BY <1>0 DEF worker
  <1>e. /\ \A f \in net : f \in Events /\ f.txn \in Requests
        /\ processed \subseteq Events /\ acked \subseteq Events
        /\ \A f \in Events : f.txn \in Requests
    BY <1>0 DEF TypeOK, Events
  <1>2. CASE ReadEvent(e)
    <2>1. UNCHANGED <<books, processed, acked, target, pc, total>> /\ seen' = [seen EXCEPT ![e] = status[r]]
      BY <1>0, <1>2 DEF ReadEvent, worker
    <2>2. /\ pc[r] = "done"
          /\ \A f \in Events : f.txn = r => seen[f] = "idle"
          /\ e.word \in {"REFUNDED", "REVERSED"} =>
               \A f \in net : f.txn = r /\ f.word = "SUCCESS" => f \in acked
      BY <1>0, <1>2 DEF ReadEvent, Deliverable, InOrder, Stage, AllInv, OrderInv, WordsInv
    <2>3. \A f \in Events : seen'[f] # "idle" =>
            /\ pc'[f.txn] = "done" /\ seen'[f] = status'[f.txn]
            /\ \A g \in Events : g.txn = f.txn /\ seen'[g] # "idle" => g = f
            /\ f.word \in {"REFUNDED", "REVERSED"} =>
                 \A g \in net' : g.txn = f.txn /\ g.word = "SUCCESS" => g \in acked'
      BY <1>0, <2>1, <2>2 DEF OrderlyInv, TypeOK, books
    <2>4. OrderlyInv'
      BY <1>0, <1>1, <2>1, <2>3 DEF OrderlyInv, books
    <2>5. UNCHANGED wallet /\ UNCHANGED Charged /\ UNCHANGED Holding
      BY <2>1 DEF books, wallet, Charged, Holding, Active, Settled, FailureApplied
    <2>6. QED BY <1>0, <2>1, <2>4, <2>5, CashStays
  <1>3. CASE AlreadySuccess(e) \/ EventFails(e)
    <2>1. /\ UNCHANGED <<books, processed, target, pc, total>> /\ seen' = [seen EXCEPT ![e] = "idle"]
          /\ acked' = acked \/ (acked' = acked \cup {e} /\ seen[e] = "SUCCESS")
      BY <1>0, <1>3 DEF AlreadySuccess, EventFails, Acknowledge, worker
    <2>2. \A f \in acked' : f.word = "SUCCESS" => status'[f.txn] = "SUCCESS"
      BY <1>0, <2>1 DEF OrderlyInv, books
    <2>3. OrderlyInv'
      BY <1>0, <1>1, <2>1, <2>2 DEF OrderlyInv, TypeOK, books
    <2>4. UNCHANGED wallet /\ UNCHANGED Charged /\ UNCHANGED Holding
      BY <2>1 DEF books, wallet, Charged, Holding, Active, Settled, FailureApplied
    <2>5. QED BY <1>0, <2>1, <2>3, <2>4, CashStays
  <1>4. CASE ApplyEvent(e)
    <2>1. /\ processed' = processed \cup {e} /\ acked' = acked \cup {e}
          /\ seen' = [seen EXCEPT ![e] = "idle"] /\ seen[e] # "idle" /\ UNCHANGED <<total, pc, prov, net, target>>
          /\ seen[e] = status[r] /\ status[r] # "SUCCESS"
      BY <1>0, <1>4 DEF ApplyEvent, Acknowledge, Running, OrderlyInv, worker
    <2>2. /\ status' \in [Requests -> TxnStatus \cup {"NONE"}]
          /\ \A q \in Requests : q # r => status'[q] = status[q]
      BY <1>0, <1>4, OrderlyApply DEF Spends, GivesBack, books, TypeOK, TxnStatus
    <2>3. /\ pc[r] = "done"
          /\ \A f \in Events : f.txn = r /\ f # e => seen[f] = "idle"
      BY <1>0, <2>1 DEF OrderlyInv
    <2>4. /\ status'[r] \in {"SUCCESS", "FAILED", "REVERSED"}
          /\ e.word = "SUCCESS" => status'[r] = "SUCCESS"
          /\ e.word = "FAILED" => status'[r] = "FAILED"
          /\ status[r] \in {"FAILED", "REVERSED"} => status'[r] = status[r]
          /\ status'[r] = "REVERSED" =>
               prov[r] = "returned" /\ \A f \in net : f.txn = r => f.word # "SUCCESS"
      <3>1. CASE UNCHANGED books
        BY <1>0, <1>4, <2>1, <3>1, OrderlyApply DEF OrderlyInv, books, Spends, GivesBack, TypeOK
      <3>2. CASE ~UNCHANGED books
        BY <1>0, <1>4, <3>2, OrderlyApply DEF Spends, GivesBack, TypeOK
      <3>3. QED BY <3>1, <3>2
    <2>5. \A q \in Requests :
            /\ pc'[q] # "done" => status'[q] \in {"NONE", "PENDING"}
            /\ pc'[q] = "validated" => total'[q] \in PayoutCosts
            /\ status'[q] = "REVERSED" =>
                 prov'[q] = "returned" /\ \A f \in net' : f.txn = q => f.word # "SUCCESS"
      BY <1>0, <2>1, <2>2, <2>3, <2>4 DEF OrderlyInv
    <2>6. \A f \in Events : seen'[f] # "idle" =>
            /\ pc'[f.txn] = "done" /\ seen'[f] = status'[f.txn]
            /\ \A g \in Events : g.txn = f.txn /\ seen'[g] # "idle" => g = f
            /\ f.word \in {"REFUNDED", "REVERSED"} =>
                 \A g \in net' : g.txn = f.txn /\ g.word = "SUCCESS" => g \in acked'
      BY <1>0, <1>e, <2>1, <2>2, <2>3 DEF OrderlyInv, TypeOK
    <2>7. \A f \in acked' : f.word = "SUCCESS" => status'[f.txn] = "SUCCESS"
      BY <1>0, <1>e, <2>1, <2>2, <2>4 DEF OrderlyInv
    <2>8. \A f \in processed' :
            /\ status'[f.txn] \in {"SUCCESS", "FAILED", "REVERSED"}
            /\ f.word = "FAILED" => status'[f.txn] = "FAILED"
      BY <1>0, <1>e, <2>1, <2>2, <2>4 DEF OrderlyInv
    <2>9. OrderlyInv'
      BY <2>5, <2>6, <2>7, <2>8 DEF OrderlyInv
    <2>10. CASE UNCHANGED books /\ status[r] \in {"FAILED", "REVERSED"}
      <3>1. r \notin Charged /\ r \notin Holding /\ r \notin Charged' /\ r \notin Holding'
        BY <2>10 DEF Charged, Holding, Active, books
      <3>2. UNCHANGED Charged /\ UNCHANGED Holding
        BY <1>0, <2>1, <2>2, <3>1, RowMoves
      <3>3. QED BY <1>0, <2>1, <2>9, <2>10, <3>2, CashStays DEF books, wallet
    <2>11. CASE Spends(r) \/ GivesBack(r, "FAILED") \/ GivesBack(r, "REVERSED")
      <3>1. Spends(r) => e.word = "SUCCESS"
        BY <1>0, <1>4, OrderlyApply DEF Spends, GivesBack, TypeOK, books
      <3>2. status[r] \in {"PENDING", "PROCESSING"} /\ ~Keeps(r)
        BY <1>0, <2>11 DEF Spends, GivesBack, Keeps, TypeOK
      <3>3. CashInv'
        BY <1>0, <2>1, <2>11, <3>1, <3>2, OrderlyCash
      <3>4. QED BY <2>9, <3>3
    <2>12. QED BY <1>0, <1>4, <2>10, <2>11, OrderlyApply
  <1>5. QED BY <1>2, <1>3, <1>4 DEF EventStep

LEMMA OrderlyRequests ==
  ASSUME InOrder, AllInv, NEW r \in Requests, RequestStep(r)
  PROVE  OrderlyInv' /\ CashInv'
  <1>0. /\ TypeOK /\ RowInv /\ OrderlyInv /\ CashInv
        /\ \A f \in Events : f.txn \in Requests
        /\ net \subseteq Events /\ processed \subseteq Events /\ acked \subseteq Events
        /\ UNCHANGED hooks
    BY DEF AllInv, OrderInv, Events, TypeOK, RequestStep, ValidatePayout, ReservePayout, RefusePayout,
           SubmitPayout, FinishPayout, RequestDies
  <1>1. pc[r] # "done" /\ \A f \in Events : f.txn = r => seen[f] = "idle"
    BY <1>0 DEF OrderlyInv, RequestStep, ValidatePayout, ReservePayout, RefusePayout,
           SubmitPayout, FinishPayout, RequestDies
  <1>2. \A f \in processed : f.txn # r
    <2>1. status[r] \in {"NONE", "PENDING"}
      BY <1>0, <1>1 DEF OrderlyInv
    <2>2. QED BY <1>0, <2>1 DEF OrderlyInv
  <1>3. \A f \in acked : f.txn = r => f.word # "SUCCESS"
    <2>1. status[r] \in {"NONE", "PENDING"}
      BY <1>0, <1>1 DEF OrderlyInv
    <2>2. QED BY <1>0, <2>1 DEF OrderlyInv
  <1>k. ASSUME \A q \in Requests : q # r => pc'[q] = pc[q] /\ status'[q] = status[q] /\ total'[q] = total[q]
                                            /\ prov'[q] = prov[q],
               pc'[r] # "done" => status'[r] \in {"NONE", "PENDING"},
               pc'[r] = "validated" => total'[r] \in PayoutCosts,
               status'[r] # "REVERSED", UNCHANGED net
        PROVE  OrderlyInv'
    <2>1. \A q \in Requests :
            /\ pc'[q] # "done" => status'[q] \in {"NONE", "PENDING"}
            /\ pc'[q] = "validated" => total'[q] \in PayoutCosts
            /\ status'[q] = "REVERSED" =>
                 prov'[q] = "returned" /\ \A f \in net' : f.txn = q => f.word # "SUCCESS"
      BY <1>0, <1>k DEF OrderlyInv
    <2>2. \A f \in Events : seen'[f] # "idle" =>
            /\ pc'[f.txn] = "done" /\ seen'[f] = status'[f.txn]
            /\ \A g \in Events : g.txn = f.txn /\ seen'[g] # "idle" => g = f
            /\ f.word \in {"REFUNDED", "REVERSED"} =>
                 \A g \in net' : g.txn = f.txn /\ g.word = "SUCCESS" => g \in acked'
      BY <1>0, <1>1, <1>k DEF OrderlyInv, hooks, images
    <2>3. \A f \in acked' : f.word = "SUCCESS" => status'[f.txn] = "SUCCESS"
      BY <1>0, <1>3, <1>k DEF OrderlyInv, hooks, images
    <2>4. \A f \in processed' :
            /\ status'[f.txn] \in {"SUCCESS", "FAILED", "REVERSED"}
            /\ f.word = "FAILED" => status'[f.txn] = "FAILED"
      BY <1>0, <1>2, <1>k DEF OrderlyInv, hooks, images
    <2>5. QED BY <2>1, <2>2, <2>3, <2>4 DEF OrderlyInv
  <1>c. ASSUME UNCHANGED <<wallet, status>>, \A q \in Charged : total'[q] = total[q]
        PROVE  CashInv'
    <2>1. UNCHANGED Charged /\ UNCHANGED Holding
      BY <1>0, <1>c DEF Charged, Holding, Active, Settled, FailureApplied, hooks, images
    <2>2. QED BY <1>0, <1>c, <2>1, CashStays
  <1>4. CASE ValidatePayout(r)
    <2>1. PICK fee \in Fees : total' = [total EXCEPT ![r] = Principal[target[r]] + fee]
      BY <1>4 DEF ValidatePayout
    <2>2. total'[r] \in PayoutCosts
      BY <1>0, <2>1 DEF TypeOK, PayoutCosts
    <2>3. status[r] = "NONE" /\ r \notin Charged
      BY <1>0, <1>4 DEF ValidatePayout, RowInv, Charged, Active
    <2>4. \A q \in Charged : total'[q] = total[q]
      BY <1>0, <2>1, <2>3, ChargedFinite DEF TypeOK
    <2>5. CashInv'
      BY <1>4, <1>c, <2>4 DEF ValidatePayout, books, wallet
    <2>6. OrderlyInv'
      BY <1>0, <1>4, <1>k, <2>1, <2>2, <2>3 DEF ValidatePayout, TypeOK, books
    <2>7. QED BY <2>5, <2>6
  <1>5. CASE ReservePayout(r)
    <2>1. status'[r] = "PENDING" /\ pc'[r] = "reserved" /\ UNCHANGED <<total, prov, net, processed>>
          /\ \A q \in Requests : q # r => status'[q] = status[q] /\ pc'[q] = pc[q]
      BY <1>0, <1>5 DEF ReservePayout, TypeOK, hooks, images
    <2>2. OrderlyInv'
      BY <1>k, <2>1
    <2>3. r \notin Charged
      BY <1>0, <1>5 DEF ReservePayout, RowInv, Charged, Active
    <2>4. r \in Charged' /\ r \in Holding'
      BY <1>0, <1>2, <2>1 DEF Charged, Holding, Active, Settled, FailureApplied
    <2>5. Charged' = Charged \cup {r} /\ Holding' = Holding \cup {r}
      BY <2>1, <2>4, RowMoves
    <2>6. QED BY <1>0, <1>5, <2>2, <2>3, <2>5, CashHeld DEF ReservePayout
  <1>6. CASE RefusePayout(r) \/ RequestDies(r)
    <2>1. /\ UNCHANGED <<books, total, prov, net>> /\ pc'[r] = "done"
          /\ \A q \in Requests : q # r => pc'[q] = pc[q]
      BY <1>0, <1>6 DEF RefusePayout, RequestDies, TypeOK
    <2>2. OrderlyInv'
      BY <1>0, <1>1, <1>k, <2>1 DEF books, OrderlyInv
    <2>3. QED BY <1>c, <2>1, <2>2 DEF books, wallet
  <1>7. CASE SubmitPayout(r)
    <2>1. /\ UNCHANGED <<books, total>> /\ pc'[r] = "submitted"
          /\ \A q \in Requests : q # r => pc'[q] = pc[q] /\ prov'[q] = prov[q]
      BY <1>0, <1>7 DEF SubmitPayout, TypeOK
    <2>2. UNCHANGED net
      BY <1>7 DEF SubmitPayout, Announce, InOrder
    <2>3. OrderlyInv'
      BY <1>0, <1>1, <1>k, <2>1, <2>2 DEF books, OrderlyInv
    <2>4. QED BY <1>c, <2>1, <2>3 DEF books, wallet
  <1>8. CASE FinishPayout(r)
    <2>1. /\ UNCHANGED <<total, prov, net, processed>> /\ pc'[r] = "done"
          /\ \A q \in Requests : q # r => pc'[q] = pc[q]
      BY <1>0, <1>8 DEF FinishPayout, TypeOK, hooks, images
    <2>2. status[r] = "PENDING" /\ (Spends(r) \/ GivesBack(r, "FAILED") \/ Keeps(r))
      BY <1>8, OrderlyFinish
    <2>3. status'[r] # "REVERSED" /\ \A q \in Requests : q # r => status'[q] = status[q]
      BY <1>0, <2>2 DEF Spends, GivesBack, Keeps, TypeOK
    <2>4. OrderlyInv'
      BY <1>k, <2>1, <2>3
    <2>5. CashInv'
      BY <2>1, <2>2, OrderlyCash
    <2>6. QED BY <2>4, <2>5
  <1>9. QED BY <1>4, <1>5, <1>6, <1>7, <1>8 DEF RequestStep

LEMMA OrderlyNext == InOrder /\ AllInv /\ [Next]_vars => AllInv'
  <1> SUFFICES ASSUME InOrder, AllInv, [Next]_vars PROVE OrderlyInv' /\ CashInv'
    BY NextOrderInv, RowNext DEF AllInv
  <1>0. /\ TypeOK /\ OrderlyInv /\ CashInv
        /\ \A f \in net : TrueOf(f.word, prov[f.txn]) /\ f.txn \in Requests
        /\ \A f \in Events : seen[f] # "idle" => f \in net
    BY DEF AllInv, OrderInv, WordsInv, TypeOK, Events
  <1>k. ASSUME UNCHANGED <<wallet, status, target, total, pc, seen, processed, acked>>,
               \A q \in Requests : prov[q] = "returned" => prov'[q] = prov[q],
               \A f \in net' : f \in net \/ f.word # "SUCCESS" \/ prov[f.txn] # "returned"
        PROVE  OrderlyInv' /\ CashInv'
    <2>1. UNCHANGED Charged /\ UNCHANGED Holding
      BY <1>k DEF Charged, Holding, Active, Settled, FailureApplied
    <2>2. CashInv'
      BY <1>0, <1>k, <2>1, CashStays
    <2>3. \A f \in Events : seen[f] # "idle" /\ f.word \in {"REFUNDED", "REVERSED"} =>
            prov[f.txn] = "returned" /\ f.txn \in Requests
      BY <1>0 DEF TrueOf
    <2>4. \A q \in Requests : status[q] = "REVERSED" =>
            prov'[q] = "returned" /\ \A f \in net' : f.txn = q => f.word # "SUCCESS"
      BY <1>0, <1>k DEF OrderlyInv
    <2>5. \A f \in Events : seen[f] # "idle" /\ f.word \in {"REFUNDED", "REVERSED"} =>
            \A g \in net' : g.txn = f.txn /\ g.word = "SUCCESS" => g \in acked
      BY <1>0, <1>k, <2>3 DEF OrderlyInv
    <2>6. OrderlyInv'
      BY <1>0, <1>k, <2>4, <2>5 DEF OrderlyInv
    <2>7. QED BY <2>2, <2>6
  <1>1. CASE UNCHANGED vars
    BY <1>1, <1>k DEF vars, wallet
  <1>2. ASSUME NEW r \in Requests, ProviderStep(r) PROVE OrderlyInv' /\ CashInv'
    <2>1. UNCHANGED <<wallet, status, target, total, pc, seen, processed, acked>>
      BY <1>2 DEF ProviderStep, GatewayAnswers, ProviderPays, ProviderFails, ProviderReturns,
           ProviderSettles, books, worker, hooks, images, wallet
    <2>2. \A q \in Requests : prov[q] = "returned" => prov'[q] = prov[q]
      BY <1>0, <1>2 DEF ProviderStep, GatewayAnswers, ProviderPays, ProviderFails, ProviderReturns,
           ProviderSettles, TypeOK
    <2>3. \A f \in net' : f \in net \/ f.word # "SUCCESS" \/ prov[f.txn] # "returned"
      BY <1>2 DEF ProviderStep, GatewayAnswers, ProviderPays, ProviderFails, ProviderReturns,
           ProviderSettles, Announce
    <2>4. QED BY <1>k, <2>1, <2>2, <2>3
  <1>3. ASSUME NEW l \in Loans, LoanStep(l) PROVE OrderlyInv' /\ CashInv'
    BY <1>3, <1>k DEF LoanStep, SimulateLoanPayout, DecideLoan, DecideAgain, ReadUnpaid, SaveUnpaid,
         books, wallet, worker, hooks, images
  <1>4. QED BY <1>1, <1>2, <1>3, OrderlyEvents, OrderlyRequests DEF Next

\* Each way a row changes is a step of the escrow.
LEMMA EscrowMoves ==
  ASSUME AllInv, NEW r \in Requests, UNCHANGED total,
         Spends(r) \/ GivesBack(r, "FAILED") \/ GivesBack(r, "REVERSED") \/ Keeps(r)
  PROVE  [Abstract!Next]_(Abstract!vars)
  <1>0. TypeOK /\ CashInv /\ status \in [Requests -> TxnStatus \cup {"NONE"}]
    BY DEF AllInv, OrderInv, TypeOK
  <1>1. status[r] \in {"PENDING", "PROCESSING"}
    BY DEF Spends, GivesBack, Keeps
  <1>2. r \in Holding
    BY <1>1 DEF AllInv, OrderlyInv, Holding, Settled
  <1>3. /\ Floor0(reserved - total[r]) = reserved - total[r]
        /\ Floor0(balance - total[r]) = balance - total[r]
    BY <1>0, <1>2, CashReleased
  <1>4. /\ StageOf("NONE") = "absent" /\ StageOf("SUCCESS") = "spent"
        /\ StageOf("PENDING") = "held" /\ StageOf("PROCESSING") = "held"
        /\ StageOf("FAILED") = "returned" /\ StageOf("REVERSED") = "returned"
    BY DEF StageOf
  <1> DEFINE costs == [q \in Requests |-> IF status[q] = "NONE" THEN 0 ELSE total[q]]
             stages == [q \in Requests |-> StageOf(status[q])]
  <1>5. UNCHANGED costs
    BY <1>0, <1>1 DEF Spends, GivesBack, Keeps
  <1>6. costs[r] = total[r] /\ stages[r] = "held"
    BY <1>1, <1>4
  <1>7. CASE Spends(r)
    <2>1. stages' = [stages EXCEPT ![r] = "spent"]
      BY <1>0, <1>4, <1>7 DEF Spends
    <2>2. balance' = balance - costs[r] /\ reserved' = reserved - costs[r] /\ UNCHANGED available
      BY <1>3, <1>6, <1>7 DEF Spends
    <2>3. Abstract!Spend(r)
      BY <1>5, <1>6, <2>1, <2>2, Zenon DEF Abstract!Spend
    <2>4. QED BY <2>3 DEF Abstract!Next
  <1>8. CASE GivesBack(r, "FAILED") \/ GivesBack(r, "REVERSED")
    <2>1. stages' = [stages EXCEPT ![r] = "returned"]
      BY <1>0, <1>4, <1>8 DEF GivesBack
    <2>2. available' = available + costs[r] /\ reserved' = reserved - costs[r] /\ UNCHANGED balance
      BY <1>3, <1>6, <1>8 DEF GivesBack
    <2>3. Abstract!GiveBack(r)
      BY <1>5, <1>6, <2>1, <2>2, Zenon DEF Abstract!GiveBack
    <2>4. QED BY <2>3 DEF Abstract!Next
  <1>9. CASE Keeps(r)
    <2>1. UNCHANGED stages
      BY <1>0, <1>4, <1>9 DEF Keeps
    <2>2. UNCHANGED <<balance, available, reserved>>
      BY <1>9 DEF Keeps, wallet
    <2>3. UNCHANGED Abstract!vars
      BY <1>5, <2>1, <2>2, Zenon DEF Abstract!vars
    <2>4. QED BY <2>3
  <1>10. QED BY <1>7, <1>8, <1>9

LEMMA EscrowStep ==
  ASSUME InOrder, AllInv, [Next]_vars
  PROVE  [Abstract!Next]_(Abstract!vars)
  <1> DEFINE costs == [q \in Requests |-> IF status[q] = "NONE" THEN 0 ELSE total[q]]
             stages == [q \in Requests |-> StageOf(status[q])]
  <1>0. TypeOK /\ RowInv /\ OrderlyInv
    BY DEF AllInv, OrderInv
  <1>k. ASSUME UNCHANGED <<wallet, status>>, \A q \in Requests : status[q] = "NONE" \/ total'[q] = total[q]
        PROVE  UNCHANGED Abstract!vars
    <2>1. UNCHANGED stages /\ UNCHANGED costs
      BY <1>k
    <2>2. UNCHANGED <<balance, available, reserved>>
      BY <1>k DEF wallet
    <2>3. QED BY <2>1, <2>2, Zenon DEF Abstract!vars
  <1>1. CASE UNCHANGED vars
    BY <1>1, <1>k DEF vars, wallet
  <1>2. ASSUME NEW r \in Requests, RequestStep(r) PROVE [Abstract!Next]_(Abstract!vars)
    <2>1. CASE ValidatePayout(r)
      <3>1. \A q \in Requests : status[q] = "NONE" \/ total'[q] = total[q]
        BY <1>0, <2>1 DEF ValidatePayout, RowInv, TypeOK
      <3>2. QED BY <1>k, <2>1, <3>1 DEF ValidatePayout, books, wallet
    <2>2. CASE ReservePayout(r)
      <3>1. PICK c \in PayoutCosts : c = total[r]
        BY <1>0, <2>2 DEF ReservePayout, OrderlyInv
      <3>2. status[r] = "NONE" /\ c <= available
        <4>1. c \in Nat /\ available \in Nat
          BY <1>0, <3>1 DEF TypeOK
        <4>2. QED BY <1>0, <2>2, <3>1, <4>1 DEF ReservePayout, RowInv
      <3>3. /\ status' = [status EXCEPT ![r] = "PENDING"] /\ UNCHANGED total /\ UNCHANGED balance
            /\ available' = available - c /\ reserved' = reserved + c
        BY <2>2, <3>1 DEF ReservePayout
      <3>4. stages[r] = "absent" /\ stages' = [stages EXCEPT ![r] = "held"]
        <4>1. StageOf("NONE") = "absent" /\ StageOf("PENDING") = "held"
          BY DEF StageOf
        <4>2. QED BY <1>0, <3>2, <3>3, <4>1 DEF TypeOK
      <3>5. costs' = [costs EXCEPT ![r] = c]
        BY <1>0, <3>1, <3>2, <3>3 DEF TypeOK
      <3>6. Abstract!Hold(r, c)
        BY <3>2, <3>3, <3>4, <3>5 DEF Abstract!Hold
      <3>7. QED BY <3>6 DEF Abstract!Next
    <2>3. CASE RefusePayout(r) \/ SubmitPayout(r) \/ RequestDies(r)
      BY <1>k, <2>3 DEF RefusePayout, SubmitPayout, RequestDies, books, wallet
    <2>4. CASE FinishPayout(r)
      BY <2>4, OrderlyFinish, EscrowMoves DEF FinishPayout
    <2>5. QED BY <1>2, <2>1, <2>2, <2>3, <2>4 DEF RequestStep
  <1>3. ASSUME NEW r \in Requests, ProviderStep(r) PROVE [Abstract!Next]_(Abstract!vars)
    BY <1>3, <1>k DEF ProviderStep, GatewayAnswers, ProviderPays, ProviderFails, ProviderReturns,
         ProviderSettles, books, worker, wallet
  <1>4. ASSUME NEW e \in Events, EventStep(e) PROVE [Abstract!Next]_(Abstract!vars)
    <2>1. UNCHANGED total /\ e.txn \in Requests
      BY <1>4 DEF EventStep, ReadEvent, AlreadySuccess, ApplyEvent, EventFails, Acknowledge, worker, Events
    <2>2. CASE UNCHANGED books
      BY <1>k, <2>1, <2>2 DEF books, wallet
    <2>3. CASE ApplyEvent(e) /\ ~UNCHANGED books
      BY <2>1, <2>3, OrderlyApply, EscrowMoves
    <2>4. QED BY <1>4, <2>2, <2>3 DEF EventStep, ReadEvent, AlreadySuccess, EventFails
  <1>5. ASSUME NEW l \in Loans, LoanStep(l) PROVE [Abstract!Next]_(Abstract!vars)
    BY <1>5, <1>k DEF LoanStep, SimulateLoanPayout, DecideLoan, DecideAgain, ReadUnpaid, SaveUnpaid,
         books, wallet, worker
  <1>6. QED BY <1>1, <1>2, <1>3, <1>4, <1>5 DEF Next

\* With webhooks in order, one at a time and after the payout call, and no PROCESSING
\* among them, every payout's cost is held once, and spent once or given back once, the
\* wallet moving by exactly its total (PayoutService as a whole).
THEOREM EscrowImplemented ==
  ASSUME Orderly, "PROCESSING" \notin Hooks
  PROVE  Spec => ImplementsEscrow
  <1>0. InOrder
    BY DEF InOrder
  <1>1. Init => AllInv
    <2> SUFFICES ASSUME Init PROVE AllInv
      OBVIOUS
    <2>1. Charged = {} /\ Holding = {}
      BY DEF Init, Charged, Holding, Active
    <2>2. SumFunctionOnSet(total, Charged) = 0 /\ SumFunctionOnSet(total, Holding) = 0
      BY <2>1, SumEmpty, Zenon
    <2>3. CashInv
      BY <2>2, PayoutAssumptions DEF Init, CashInv
    <2>4. RowInv /\ OrderlyInv
      BY DEF Init, RowInv, OrderlyInv
    <2>5. QED BY <2>3, <2>4, InitOrderInv DEF AllInv
  <1>2. AllInv /\ [Next]_vars => AllInv'
    BY <1>0, OrderlyNext
  <1>3. Init => Abstract!Init
    BY DEF Init, Abstract!Init, StageOf
  <1>4. AllInv /\ [Next]_vars => [Abstract!Next]_(Abstract!vars)
    BY <1>0, EscrowStep
  <1>5. QED BY <1>1, <1>2, <1>3, <1>4, PTL DEF Spec, ImplementsEscrow, Abstract!Spec

=============================================================================

------------------------------- MODULE Payout -------------------------------
(***************************************************************************)
(* Release of approved loans through ClickPesa: PayoutService, the payout  *)
(* half of WebhookService, the group's payment Wallet and the loan row     *)
(* that a confirmed payout activates.                                      *)
(*                                                                         *)
(* A step is one database transaction (transaction.atomic, or one          *)
(* autocommitted statement), one network call, or one step of ClickPesa.   *)
(* What the code reads outside a lock and uses later is kept between       *)
(* steps: the validated loan and fee of a request, the answer of the       *)
(* payout call, the transaction status a webhook delivery has read, the    *)
(* loan a leader or a repayment has read and still will save.              *)
(*                                                                         *)
(* One group is modelled: its wallet, its loans and the requests to pay    *)
(* them out.  A request creates at most one PaymentTransaction, so the     *)
(* request names the transaction.  Amounts are natural numbers (cents).    *)
(***************************************************************************)
EXTENDS Integers, FiniteSets, Functions

CONSTANTS
  Loans,        \* the group's loans, none of them decided at first
  Requests,     \* POSTs to payouts/loans/<uuid>/initiate/, one transaction each
  Principal,    \* principal_amount of each loan
  Fees,         \* fees a ClickPesa preview may quote
  OpeningCash,  \* balance of the payment wallet at first
  LedgerFunds,  \* finance group balance at first
  Hooks,        \* status words ClickPesa sends webhooks for
  Copies,       \* distinguishes payloads that differ but carry one status
  DemoPayouts,  \* settings.ENABLE_DEMO_PAYOUTS
  Orderly       \* TRUE: webhooks come in order, one at a time, after the call

(***************************************************************************)
(* Provider status words.  "PROCESSING" stands for the code's four         *)
(* PROCESSING_STATUSES and "FAILED" for FAILED and CANCELLED, which no     *)
(* branch tells apart.                                                     *)
(***************************************************************************)
PROCESSING_STATUSES == {"PROCESSING"}
SUCCESS_STATUSES_EAGER == {"SUCCESS", "PROCESSING"}
SUCCESS_STATUSES == {"SUCCESS"}
FAILED_STATUSES == {"FAILED", "REFUNDED", "REVERSED"}
Words == {"PROCESSING", "SUCCESS", "FAILED", "REFUNDED", "REVERSED"}

ASSUME PayoutAssumptions ==
  /\ IsFiniteSet(Loans) /\ IsFiniteSet(Requests)
  /\ Principal \in [Loans -> Nat]
  /\ Fees \subseteq Nat
  /\ OpeningCash \in Nat /\ LedgerFunds \in Nat
  /\ Hooks \subseteq Words
  /\ DemoPayouts \in BOOLEAN /\ Orderly \in BOOLEAN

VARIABLES
  balance, available, reserved,  \* the group's payment Wallet
  loan,       \* Loan.status
  disbursed,  \* loans whose disbursed_at is set
  status,     \* PaymentTransaction.status; "NONE" before the row exists
  target,     \* PaymentTransaction.target_uuid, the <uuid> of the POST
  total,      \* metadata["total_debit"]: principal and fee
  pc,         \* where the request's worker is in initiate_loan_payout
  reply,      \* what the payout call gave back to that worker
  prov,       \* the order at ClickPesa
  net,        \* webhook payloads ClickPesa has sent
  seen,       \* status read by the running delivery of a payload
  processed,  \* WebhookEvent.processed
  acked,      \* payloads answered with HTTP 200
  disputed,   \* loans several leaders had read PENDING before one decided
  held        \* loans that some repayment or overdue job has read unpaid

wallet  == <<balance, available, reserved>>
books   == <<balance, available, reserved, loan, disbursed, status>>
worker  == <<target, total, pc, reply>>
hooks   == <<seen, processed, acked>>
images  == <<disputed, held>>
vars    == <<balance, available, reserved, loan, disbursed, status, target,
             total, pc, reply, prov, net, seen, processed, acked, disputed, held>>

Events == [txn : Requests, word : Hooks, copy : Copies]

\* "OVERDUE" stands for PAID_OFF too: no guard of this module tells them apart.
LoanStatus == {"PENDING", "APPROVED", "REJECTED", "ACTIVE", "OVERDUE", "PAYOUT_REVERSED"}
Decisions  == {"APPROVED", "REJECTED"}
Unpaid     == {"ACTIVE", "OVERDUE"}
TxnStatus  == {"PENDING", "PROCESSING", "SUCCESS", "FAILED", "REVERSED"}
OrderState == {"none", "rejected", "accepted", "paid", "failed", "returned"}
Answers    == {"TIMEOUT", "REJECTED", "PROCESSING", "SUCCESS", "FAILED"}

Init ==
  /\ balance = OpeningCash /\ available = OpeningCash /\ reserved = 0
  /\ loan = [l \in Loans |-> "PENDING"] /\ disbursed = {}
  /\ status = [r \in Requests |-> "NONE"]
  /\ target \in [Requests -> Loans]
  /\ total = [r \in Requests |-> 0]
  /\ pc = [r \in Requests |-> "idle"]
  /\ reply = [r \in Requests |-> "none"]
  /\ prov = [r \in Requests |-> "none"]
  /\ net = {}
  /\ seen = [e \in Events |-> "idle"]
  /\ processed = {} /\ acked = {}
  /\ disputed = {} /\ held = {}

-----------------------------------------------------------------------------
(* Guards and pieces of handlers. *)

NoFloor(x) == x
Floor0(x) == IF x < 0 THEN 0 ELSE x

\* FinanceWalletService.get_group_balance as far as payouts change it: the
\* principal of every loan whose disbursed_at is set has left the ledger.
GroupBalance == LedgerFunds - SumFunctionOnSet(Principal, disbursed)

\* PayoutService._validate_loan; the borrower's membership flags are not
\* modelled, a refusal on them is a request that stays idle.
ValidateLoan(l) == loan[l] = "APPROVED" /\ GroupBalance >= Principal[l]

\* The statuses of the partial constraint unique_active_loan_payout.
ActiveUntilSuccess(r) == status[r] \in {"PENDING", "PROCESSING"}
Active(r) == status[r] \in {"PENDING", "PROCESSING", "SUCCESS"}

\* Whether giving r an active status would violate that constraint.
ActiveElsewherePending(r) ==
  \E q \in Requests \ {r} : target[q] = target[r] /\ status[q] = "PENDING"
ActiveElsewhere(r) ==
  \E q \in Requests \ {r} : target[q] = target[r] /\ Active(q)

\* LoanService.disburse_loan and reverse_disbursement: the loan row.  Both
\* raise when the status is another one: the caller's step is disabled and
\* its transaction rolls back (RequestDies, EventFails).
DisburseLoanSilent(l) ==
  IF loan[l] = "APPROVED"
  THEN /\ loan' = [loan EXCEPT ![l] = "ACTIVE"]
       /\ disbursed' = disbursed \cup {l}
  ELSE UNCHANGED <<loan, disbursed>>
DisburseLoan(l) ==
  /\ loan[l] = "APPROVED"
  /\ loan' = [loan EXCEPT ![l] = "ACTIVE"]
  /\ disbursed' = disbursed \cup {l}
ReverseDisbursement(l) ==
  /\ loan[l] \in {"ACTIVE", "PAYOUT_REVERSED"}
  /\ loan' = [loan EXCEPT ![l] = "PAYOUT_REVERSED"]
  /\ disbursed' = disbursed \ {l}

\* PayoutService.process_successful_payout, under the transaction's row lock.
ProcessSuccessfulPayout(r) ==
  IF status[r] = "SUCCESS"
  THEN UNCHANGED books
  ELSE /\ ~ActiveElsewhere(r)
       /\ DisburseLoan(target[r])
       /\ reserved' = Floor0(reserved - total[r])
       /\ balance' = Floor0(balance - total[r])
       /\ status' = [status EXCEPT ![r] = "SUCCESS"]
       /\ UNCHANGED available

\* PayoutService.process_failed_payout, under the transaction's row lock: a
\* held total, or one already spent, goes back to the available cash.
ReleaseFunds(r, word) ==
  /\ IF status[r] = "SUCCESS"
     THEN /\ ReverseDisbursement(target[r])
          /\ balance' = balance + total[r]
          /\ UNCHANGED reserved
     ELSE /\ reserved' = Floor0(reserved - total[r])
          /\ UNCHANGED <<balance, loan, disbursed>>
  /\ available' = available + total[r]
  /\ status' = [status EXCEPT ![r] =
       IF word \in {"REFUNDED", "REVERSED"} THEN "REVERSED" ELSE "FAILED"]
ProcessFailedPayout(r, word) ==
  IF status[r] \in {"FAILED", "REVERSED"}
  THEN UNCHANGED books
  ELSE ReleaseFunds(r, word)

\* A save of status PROCESSING from a row image read earlier, or the
\* webhook's .update(): whatever the row holds by now is overwritten, unless
\* the unique constraint refuses it.
SaveProcessing(r) ==
  /\ ~ActiveElsewhere(r)
  /\ status' = [status EXCEPT ![r] = "PROCESSING"]
  /\ UNCHANGED <<wallet, loan, disbursed>>

-----------------------------------------------------------------------------
(* PayoutService.initiate_loan_payout, one worker per request. *)

\* The loan is read and validated without a lock and the preview quotes a fee.
ValidatePayout(r) ==
  /\ pc[r] = "idle"
  /\ ValidateLoan(target[r])
  /\ pc' = [pc EXCEPT ![r] = "validated"]
  /\ \E fee \in Fees :
       total' = [total EXCEPT ![r] = Principal[target[r]] + fee]
  /\ UNCHANGED <<books, target, reply, prov, net, hooks, images>>

\* The first atomic block: lock the wallet, check the cash, insert the
\* transaction and move the total from available to reserved.
ReservePayout(r) ==
  /\ pc[r] = "validated"
  /\ available >= total[r]
  /\ ~ActiveElsewhere(r)
  /\ status' = [status EXCEPT ![r] = "PENDING"]
  /\ available' = available - total[r]
  /\ reserved' = reserved + total[r]
  /\ pc' = [pc EXCEPT ![r] = "reserved"]
  /\ UNCHANGED <<balance, loan, disbursed, target, total, reply, prov, net, hooks, images>>

\* The same block refusing: too little cash (400), or IntegrityError, where
\* the active payout of the loan is returned instead of a new one.
RefusePayout(r) ==
  /\ pc[r] = "validated"
  /\ available < total[r] \/ ActiveElsewhere(r)
  /\ pc' = [pc EXCEPT ![r] = "done"]
  /\ UNCHANGED <<books, target, total, reply, prov, net, hooks, images>>

\* Webhook payloads that announce word w for the order of r.
Announce(r, w) == [txn : {r}, word : {w} \cap Hooks, copy : Copies]

\* gateway.payout goes out: lost on the way, refused (authentication,
\* permission or validation error), or accepted as an order.
SubmitPayout(r) ==
  /\ pc[r] = "reserved"
  /\ pc' = [pc EXCEPT ![r] = "submitted"]
  /\ \E s \in {"none", "rejected", "accepted"} :
       /\ prov' = [prov EXCEPT ![r] = s]
       /\ net' = IF s = "accepted" THEN net \cup Announce(r, "PROCESSING")
                                   ELSE net
  /\ UNCHANGED <<books, target, total, reply, hooks, images>>

\* What the worker does with the exception or the answer of gateway.payout.
\* The row image it saves is the one it inserted before the call.
HandleAmbiguousAsFailure(r) ==
  reply[r] = "TIMEOUT" /\ ProcessFailedPayout(r, "FAILED")
HandleAmbiguous(r) == reply[r] = "TIMEOUT" /\ SaveProcessing(r)
HandleRejection(r) == reply[r] = "REJECTED" /\ ProcessFailedPayout(r, "FAILED")
HandleResponse(r) ==
  IF reply[r] \in SUCCESS_STATUSES THEN ProcessSuccessfulPayout(r)
  ELSE IF reply[r] \in FAILED_STATUSES THEN ProcessFailedPayout(r, reply[r])
  ELSE reply[r] \in PROCESSING_STATUSES /\ SaveProcessing(r)

FinishPayout(r) ==
  /\ pc[r] = "submitted"
  /\ HandleAmbiguous(r) \/ HandleRejection(r) \/ HandleResponse(r)
  /\ pc' = [pc EXCEPT ![r] = "done"]
  /\ UNCHANGED <<target, total, reply, prov, net, hooks, images>>

\* The worker stops between two of its steps: the process is killed, the
\* database aborts its transaction, or a ValidationError or IntegrityError
\* leaves the handler as HTTP 400.  What it had committed stays.
RequestDies(r) ==
  /\ pc[r] \in {"validated", "reserved", "submitted"}
  /\ pc' = [pc EXCEPT ![r] = "done"]
  /\ UNCHANGED <<books, target, total, reply, prov, net, hooks, images>>

-----------------------------------------------------------------------------
(* ClickPesa: an order is paid or fails once; what was paid may come back  *)
(* after the payout call is over.                                          *)

\* The synchronous answer: the order's state when it was sent, or nothing in
\* time.
GatewayAnswers(r) ==
  /\ pc[r] = "submitted" /\ reply[r] = "none"
  /\ \E a \in Answers :
       /\ \/ a = "TIMEOUT"
          \/ a = "REJECTED" /\ prov[r] = "rejected"
          \/ a = "PROCESSING" /\ prov[r] = "accepted"
          \/ a = "SUCCESS" /\ prov[r] = "paid"
          \/ a = "FAILED" /\ prov[r] = "failed"
       /\ reply' = [reply EXCEPT ![r] = a]
  /\ UNCHANGED <<books, target, total, pc, prov, net, hooks, images>>

ProviderSettles(r, from, to, w) ==
  /\ prov[r] = from
  /\ prov' = [prov EXCEPT ![r] = to]
  /\ net' = net \cup Announce(r, w)
  /\ UNCHANGED <<books, worker, hooks, images>>

ProviderPays(r) == ProviderSettles(r, "accepted", "paid", "SUCCESS")
ProviderFails(r) == ProviderSettles(r, "accepted", "failed", "FAILED")
ProviderReturns(r) ==
  /\ pc[r] = "done"
  /\ \E w \in Hooks \cap {"REFUNDED", "REVERSED"} :
       ProviderSettles(r, "paid", "returned", w)

-----------------------------------------------------------------------------
(* WebhookService.process_clickpesa_event.  The event row is locked for the *)
(* whole delivery, so one delivery of a payload runs at a time; a processed *)
(* payload is answered DUPLICATE and changes nothing.                       *)

Stage(w) == IF w = "PROCESSING" THEN 1 ELSE IF w \in {"SUCCESS", "FAILED"} THEN 2 ELSE 3

Deliverable(e) ==
  Orderly => /\ pc[e.txn] = "done"
             /\ \A f \in net : f.txn = e.txn =>
                  /\ seen[f] = "idle"
                  /\ Stage(f.word) < Stage(e.word) => f \in acked

\* _process_event finds the transaction without a lock and keeps its status.
ReadEvent(e) ==
  /\ e \in net /\ seen[e] = "idle" /\ e \notin processed
  /\ Deliverable(e)
  /\ seen' = [seen EXCEPT ![e] = status[e.txn]]
  /\ UNCHANGED <<books, worker, prov, net, processed, acked, images>>

Running(e) == seen[e] # "idle"
Acknowledge(e) ==
  /\ seen' = [seen EXCEPT ![e] = "idle"]
  /\ acked' = acked \cup {e}
  /\ UNCHANGED <<worker, prov, net, images>>

\* The status read was SUCCESS: "ALREADY_SUCCESS", whatever the word says;
\* the event is answered but stays unprocessed.
AlreadySuccess(e) ==
  /\ Running(e) /\ seen[e] = "SUCCESS"
  /\ Acknowledge(e)
  /\ UNCHANGED <<books, processed>>

\* Otherwise the row is locked by the metadata save and the word is applied.
ApplyEvent(e) ==
  /\ Running(e) /\ seen[e] # "SUCCESS"
  /\ IF e.word \in SUCCESS_STATUSES THEN ProcessSuccessfulPayout(e.txn)
     ELSE IF e.word \in FAILED_STATUSES THEN ProcessFailedPayout(e.txn, e.word)
     ELSE SaveProcessing(e.txn)
  /\ Acknowledge(e)
  /\ processed' = processed \cup {e}

\* The handler raises, its worker dies or the database picks it as deadlock
\* victim: everything is rolled back and ClickPesa gets no 200.
EventFailsSwallowed(e) ==
  /\ Running(e)
  /\ Acknowledge(e)
  /\ UNCHANGED <<books, processed>>
EventFails(e) ==
  /\ Running(e)
  /\ seen' = [seen EXCEPT ![e] = "idle"]
  /\ UNCHANGED <<books, worker, prov, net, processed, acked, images>>

-----------------------------------------------------------------------------
(* What else moves the loan row. *)

\* PayoutService.simulate_loan_payout: under the loan's row lock; neither
\* the wallet nor any payout transaction of the loan is looked at.
SimulateLoanPayout(l) ==
  /\ DemoPayouts
  /\ ValidateLoan(l)
  /\ DisburseLoan(l)
  /\ UNCHANGED <<wallet, status, worker, prov, net, hooks, images>>

\* ApproveLoanAPIView and RejectLoanAPIView read the loan without a lock and
\* approve_loan and reject_loan save their answer without reading it again.
SaveDecision(l, d) ==
  /\ loan' = [loan EXCEPT ![l] = d]
  /\ disbursed' = IF d = "REJECTED" THEN disbursed \ {l} ELSE disbursed

\* The first answer; other leaders may have read the loan PENDING before it.
DecideLoan(l) ==
  /\ loan[l] = "PENDING"
  /\ \E d \in Decisions : SaveDecision(l, d)
  /\ disputed' \in {disputed, disputed \cup {l}}
  /\ UNCHANGED <<wallet, status, worker, prov, net, hooks, held>>

\* Their answers come whenever they come, over whatever the loan is by then.
DecideAgain(l) ==
  /\ l \in disputed
  /\ \E d \in Decisions : SaveDecision(l, d)
  /\ UNCHANGED <<wallet, status, worker, prov, net, hooks, images>>

\* A repayment or the overdue job reads a loan that is being repaid, without
\* a lock; it saves the status it works out from that image when it is ready.
ReadUnpaid(l) ==
  /\ loan[l] \in Unpaid
  /\ held' = held \cup {l}
  /\ UNCHANGED <<books, worker, prov, net, hooks, disputed>>
SaveUnpaid(l) ==
  /\ l \in held
  /\ \E s \in Unpaid : loan' = [loan EXCEPT ![l] = s]
  /\ UNCHANGED <<wallet, disbursed, status, worker, prov, net, hooks, images>>

RequestStep(r) ==
  \/ ValidatePayout(r) \/ ReservePayout(r) \/ RefusePayout(r)
  \/ SubmitPayout(r) \/ FinishPayout(r) \/ RequestDies(r)
ProviderStep(r) ==
  \/ GatewayAnswers(r)
  \/ ProviderPays(r) \/ ProviderFails(r) \/ ProviderReturns(r)
EventStep(e) ==
  ReadEvent(e) \/ AlreadySuccess(e) \/ ApplyEvent(e) \/ EventFails(e)
LoanStep(l) ==
  \/ SimulateLoanPayout(l)
  \/ DecideLoan(l) \/ DecideAgain(l) \/ ReadUnpaid(l) \/ SaveUnpaid(l)

Next ==
  \/ \E r \in Requests : RequestStep(r) \/ ProviderStep(r)
  \/ \E e \in Events : EventStep(e)
  \/ \E l \in Loans : LoanStep(l)

Spec == Init /\ [][Next]_vars

\* A worker with an answer finishes; ClickPesa settles what it accepted and
\* redelivers until a 200, and not every delivery of a payload is aborted.
Fairness ==
  /\ \A r \in Requests : /\ WF_vars(GatewayAnswers(r))
                         /\ WF_vars(FinishPayout(r) \/ RequestDies(r))
                         /\ WF_vars(ProviderPays(r) \/ ProviderFails(r))
  /\ \A e \in Events : /\ WF_vars(e \notin acked /\ ReadEvent(e))
                       /\ SF_vars(AlreadySuccess(e) \/ ApplyEvent(e))

FairSpec == Spec /\ Fairness

-----------------------------------------------------------------------------
(* Properties. *)

\* Every variable has its type; in particular the three wallet columns never
\* go negative, whatever order answers, webhooks and demo releases come in.
TypeOK ==
  /\ balance \in Nat /\ available \in Nat /\ reserved \in Nat
  /\ loan \in [Loans -> LoanStatus]
  /\ status \in [Requests -> TxnStatus \cup {"NONE"}]
  /\ target \in [Requests -> Loans]
  /\ total \in [Requests -> Nat]
  /\ pc \in [Requests -> {"idle", "validated", "reserved", "submitted", "done"}]
  /\ reply \in [Requests -> Answers \cup {"none"}]
  /\ prov \in [Requests -> OrderState]
  /\ net \subseteq Events
  /\ seen \in [Events -> TxnStatus \cup {"NONE", "idle"}]
  /\ processed \subseteq Events /\ acked \subseteq Events
  /\ disbursed \subseteq Loans /\ disputed \subseteq Loans /\ held \subseteq Loans

\* A loan never has two payout transactions in an active status, although
\* workers insert rows for it and blind saves and late webhooks put rows
\* that had already failed back to PROCESSING or SUCCESS.
OneActivePayout ==
  \A q, r \in Requests :
    (target[q] = target[r] /\ Active(q) /\ Active(r)) => q = r

\* Cash is given back to the wallet only for an order that can no longer pay
\* the borrower: a transaction is FAILED or REVERSED only if ClickPesa refused
\* the order, failed it or returned the money.
ReleasedNeverPays ==
  \A r \in Requests : status[r] \in {"FAILED", "REVERSED"} =>
    prov[r] \in {"rejected", "failed", "returned"}

\* The borrower holds the money of at most one order per loan, whatever
\* timeouts, retries, crashes and racing webhooks happen.
PaidOncePerLoan ==
  \A q, r \in Requests :
    (target[q] = target[r] /\ prov[q] = "paid" /\ prov[r] = "paid") => q = r

\* Without demo releases a loan is active, being repaid or reversed only if
\* ClickPesa has paid out an order for it, whoever saves its status late.
ActiveMeansPaid ==
  ~DemoPayouts =>
    \A l \in Loans : loan[l] \in Unpaid \cup {"PAYOUT_REVERSED"} =>
      \E r \in Requests : target[r] = l /\ prov[r] \in {"paid", "returned"}

\* The two sets of books agree: behind a payout recorded as SUCCESS stands a
\* loan that is being repaid, though it may have been reversed or released
\* before, and only the late answer of a leader hides that from its status.
SuccessIsDisbursed ==
  \A r \in Requests : status[r] = "SUCCESS" =>
    \/ loan[target[r]] \in Unpaid
    \/ target[r] \in disputed /\ loan[target[r]] \in Decisions

\* As long as only webhooks that settle an order have been applied (no PROCESSING
\* word, which may revive a settled row, and no word of a return), and none from two
\* payloads, unless they report a success and no late answer approves the loan again,
\* the wallet's balance is what is available plus what is
\* reserved, whatever the workers' late saves overwrite, and ClickPesa holds the cash
\* that is offered for new payouts: it never exceeds the opening cash less what
\* orders have paid out.
OnlySettled ==
  \A e, f \in processed :
    /\ e.word \in {"SUCCESS", "FAILED"}
    /\ e.txn = f.txn /\ e # f => e.word = "SUCCESS" /\ target[e.txn] \notin disputed
PaidOut == SumFunctionOnSet(total, {r \in Requests : prov[r] = "paid"})
EscrowBacked ==
  OnlySettled => /\ balance = available + reserved
                 /\ available + PaidOut <= OpeningCash

\* A payout that ClickPesa reports returned is REVERSED once the report has
\* been answered with 200 (docs/PAYMENT_GATEWAY.md, status table).
ReversalApplied ==
  \A e \in acked : e.word \in {"REFUNDED", "REVERSED"} => status[e.txn] = "REVERSED"

\* A demo release or a late rejection took the approved loan from under its payout.
Overtaken(l) ==
  /\ loan[l] # "APPROVED"
  /\ \A q \in Requests : target[q] = l => status[q] \notin {"SUCCESS", "REVERSED"}
Recorded(r) ==
  \/ prov[r] \in {"paid", "returned"} /\ (status[r] = "SUCCESS" \/ Overtaken(target[r]))
  \/ prov[r] = "failed" /\ status[r] = "FAILED"

\* What ClickPesa did to an order reaches the books: a paid order's transaction
\* ends as SUCCESS, unless its loan was overtaken, and a failed order's as FAILED.
OutcomeRecorded ==
  \A r \in Requests : prov[r] \in {"paid", "failed"} ~> Recorded(r)

\* The statuses of a transaction as stages of an escrow.
StageOf(s) ==
  CASE s = "NONE" -> "absent"
    [] s \in {"PENDING", "PROCESSING"} -> "held"
    [] s = "SUCCESS" -> "spent"
    [] s \in {"FAILED", "REVERSED"} -> "returned"

PayoutCosts == {Principal[l] + fee : l \in Loans, fee \in Fees}

Abstract == INSTANCE Escrow WITH
  Payouts <- Requests,
  Costs <- PayoutCosts,
  Opening <- OpeningCash,
  stage <- [r \in Requests |-> StageOf(status[r])],
  cost <- [r \in Requests |-> IF status[r] = "NONE" THEN 0 ELSE total[r]]

\* Each payout is an escrow: held once, then spent once or given back once,
\* the wallet moving by exactly its total (PayoutService as a whole).
ImplementsEscrow == Abstract!Spec
=============================================================================

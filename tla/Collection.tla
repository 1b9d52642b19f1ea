----------------------------- MODULE Collection -----------------------------
(***************************************************************************)
(* Mobile-money payments of members: InitiateMobileCollectionAPIView,      *)
(* CollectionService, the collection half of WebhookService and the        *)
(* handlers of PaymentDispatcher that record a received payment in the     *)
(* finance books.                                                          *)
(*                                                                         *)
(* A step is one database transaction, one network call, or one step of    *)
(* ClickPesa and the paying member.  A webhook delivery commits the wallet *)
(* credit and the finance record together: the rows it writes stay locked  *)
(* to the end, and the target is read after the wallet is locked.          *)
(*                                                                         *)
(* One group is modelled.  A target is a contribution, a loan to repay or  *)
(* a fine; what the books hold for it is one number, "recorded": the       *)
(* contribution's amount once VERIFIED, what was placed on the loan's      *)
(* installments, the sum of the fine's payments.  A repayment reads the    *)
(* loan row without a lock, before it locks the installments, and saves    *)
(* amount_paid from what it read.  How installments and late fees share a  *)
(* repayment is up to Repayment.  Amounts are natural numbers (cents).     *)
(***************************************************************************)
EXTENDS Integers, FiniteSets, Functions

CONSTANTS
  Payments,  \* POSTs to payments/initiate/, one PaymentTransaction each
  Targets,   \* the contributions, loans and fines of the group
  Purpose,   \* purpose of a payment for each target
  Due,       \* amount of each contribution or fine, total due on each loan
  Amounts,   \* amounts members may send
  Hooks,     \* status words ClickPesa sends webhooks for
  CashLimit, \* bound on the cash recorded for a fine
  AfterCall  \* TRUE: webhooks come only after the collect call is over

Purposes == {"CONTRIBUTION", "LOAN_REPAYMENT", "PENALTY_PAYMENT"}

\* "FAILED" stands for FAILED and CANCELLED; "OTHER" for any word that the
\* collection branch does not name, such as PROCESSING.
RECEIVED_STATUSES == {"SUCCESS", "SETTLED"}
REFUSED_STATUSES == {"FAILED", "REVERSED"}
Words == {"SUCCESS", "SETTLED", "FAILED", "REVERSED", "OTHER"}

ASSUME CollectionAssumptions ==
  /\ IsFiniteSet(Payments) /\ IsFiniteSet(Targets)
  /\ Purpose \in [Targets -> Purposes]
  /\ Due \in [Targets -> Nat \ {0}]
  /\ Amounts \subseteq Nat \ {0}
  /\ Hooks \subseteq Words
  /\ CashLimit \in Nat
  /\ AfterCall \in BOOLEAN

VARIABLES
  balance,    \* the group's payment Wallet: balance and available_balance
  recorded,   \* what the finance books hold for each target
  rows,       \* the values Loan.amount_paid has had; a repayment has read one of them
  cash,       \* the part of it that members handed over as cash
  status,     \* PaymentTransaction.status; "NONE" before the row exists
  target,     \* PaymentTransaction.target_uuid, from the POST
  amount,     \* PaymentTransaction.amount
  pc,         \* where the worker is in initiate_mobile_collection
  reply,      \* what the collect call gave back to that worker
  prov,       \* the order at ClickPesa
  net,        \* webhook payloads ClickPesa has sent
  seen,       \* status read by the running delivery of a payload
  processed,  \* WebhookEvent.processed
  acked       \* payloads answered with HTTP 200

books  == <<balance, recorded, rows, status>>
worker == <<target, amount, pc, reply>>
hooks  == <<seen, processed, acked>>
vars   == <<balance, recorded, rows, cash, status, target, amount, pc, reply, prov,
            net, seen, processed, acked>>

Events == [pay : Payments, word : Hooks]

TxnStatus  == {"PENDING", "PROCESSING", "SUCCESS", "FAILED"}
OrderState == {"none", "rejected", "accepted", "paid", "failed", "returned"}
Answers    == {"ERROR", "TIMEOUT", "OK"}

Init ==
  /\ balance = 0
  /\ recorded = [t \in Targets |-> 0]
  /\ rows = [t \in Targets |-> {0}]
  /\ cash = [t \in Targets |-> 0]
  /\ status = [p \in Payments |-> "NONE"]
  /\ target \in [Payments -> Targets]
  /\ amount = [p \in Payments |-> 0]
  /\ pc = [p \in Payments |-> "idle"]
  /\ reply = [p \in Payments |-> "none"]
  /\ prov = [p \in Payments |-> "none"]
  /\ net = {}
  /\ seen = [e \in Events |-> "idle"]
  /\ processed = {} /\ acked = {}

-----------------------------------------------------------------------------
(* The finance records of a payment: what each handler of the dispatcher    *)
(* does to its target.  A handler that raises disables its step, and the    *)
(* caller's transaction rolls back (EventFails).                            *)

\* ContributionService.verify_contribution: once.
VerifyContribution(t, a) == recorded' = [recorded EXCEPT ![t] = Due[t]] /\ UNCHANGED rows

\* RepaymentService.repay_loan: status and remaining balance are checked on the row
\* as it was read, and the amount added to the amount_paid of that row.  It is
\* placed on the installments, under their locks: what they cannot take is refused.
Repayable(t, a, read) == read < Due[t] /\ a <= Due[t] - read
RepayUnlocked(t, a) ==
  \E read \in rows[t] :
    /\ Repayable(t, a, read)
    /\ recorded' = [recorded EXCEPT ![t] = read + a]
    /\ rows' = [rows EXCEPT ![t] = @ \cup {read + a}]
RepayLoan(t, a) ==
  /\ a <= Due[t] - recorded[t]
  /\ recorded' = [recorded EXCEPT ![t] = @ + a]
  /\ \E read \in rows[t] :
       Repayable(t, a, read) /\ rows' = [rows EXCEPT ![t] = @ \cup {read + a}]

\* FineService.create_fine_payment takes any amount, also for a paid fine.
PayFine(t, a) == recorded' = [recorded EXCEPT ![t] = @ + a] /\ UNCHANGED rows

Dispatch(p) ==
  LET t == target[p]  a == amount[p] IN
  \/ Purpose[t] = "CONTRIBUTION" /\ VerifyContribution(t, a)
  \/ Purpose[t] = "LOAN_REPAYMENT" /\ RepayLoan(t, a)
  \/ Purpose[t] = "PENALTY_PAYMENT" /\ PayFine(t, a)

\* CollectionService.process_successful_collection, under the row's lock.
Receive(p) ==
  /\ status' = [status EXCEPT ![p] = "SUCCESS"]
  /\ balance' = balance + amount[p]
  /\ Dispatch(p)
DispatchAlways(p) ==
  IF status[p] = "SUCCESS" THEN UNCHANGED <<balance, status>> /\ Dispatch(p) ELSE Receive(p)
ProcessSuccessfulCollection(p) ==
  IF status[p] = "SUCCESS" THEN UNCHANGED books ELSE Receive(p)

\* CollectionService.process_failed_collection, under the row's lock.
FailAlways(p) ==
  status' = [status EXCEPT ![p] = "FAILED"] /\ UNCHANGED <<balance, recorded, rows>>
ProcessFailedCollection(p) ==
  /\ status' = [status EXCEPT ![p] = IF @ = "SUCCESS" THEN @ ELSE "FAILED"]
  /\ UNCHANGED <<balance, recorded, rows>>

-----------------------------------------------------------------------------
(* One worker per payment: the view, then initiate_mobile_collection.       *)

\* A contribution is paid with its exact amount; a loan or a fine with any.
\* Neither the target's status nor other payments for it are looked at.
InitiateCollection(p, a) ==
  /\ pc[p] = "idle"
  /\ Purpose[target[p]] = "CONTRIBUTION" => a = Due[target[p]]
  /\ amount' = [amount EXCEPT ![p] = a]
  /\ status' = [status EXCEPT ![p] = "PENDING"]
  /\ pc' = [pc EXCEPT ![p] = "created"]
  /\ UNCHANGED <<balance, recorded, rows, cash, target, reply, prov, net, hooks>>

\* gateway.collect goes out: lost, refused, or accepted as a USSD push.
SubmitCollection(p) ==
  /\ pc[p] = "created"
  /\ pc' = [pc EXCEPT ![p] = "submitted"]
  /\ \E s \in {"none", "rejected", "accepted"} : prov' = [prov EXCEPT ![p] = s]
  /\ net' = IF prov'[p] = "accepted"
            THEN net \cup [pay : {p}, word : {"OTHER"} \cap Hooks] ELSE net
  /\ UNCHANGED <<books, cash, target, amount, reply, hooks>>

\* What the worker does with the answer.  The status it saves after an
\* exception overwrites whatever the row holds by now; an answer is stored
\* and changes no status.
BlindSave(p, s) ==
  status' = [status EXCEPT ![p] = s] /\ UNCHANGED <<balance, recorded, rows>>
HandleAnswerRaw(p) == BlindSave(p, reply[p])
HandleAnswer(p) ==
  \/ reply[p] = "ERROR" /\ BlindSave(p, "FAILED")
  \/ reply[p] = "TIMEOUT" /\ BlindSave(p, "PROCESSING")
  \/ reply[p] = "OK" /\ UNCHANGED books

FinishCollection(p) ==
  /\ pc[p] = "submitted"
  /\ HandleAnswer(p)
  /\ pc' = [pc EXCEPT ![p] = "done"]
  /\ UNCHANGED <<cash, target, amount, reply, prov, net, hooks>>

\* The worker's process ends between two of its steps.
WorkerDies(p) ==
  /\ pc[p] \in {"created", "submitted"}
  /\ pc' = [pc EXCEPT ![p] = "done"]
  /\ UNCHANGED <<books, cash, target, amount, reply, prov, net, hooks>>

\* Cash a member hands over: LoanRepaymentAPIView, FinePaymentListCreateAPIView.
\* (CashLimit is a bound of the model; the code sets none.)
RecordCash(t, a) ==
  /\ \/ Purpose[t] = "LOAN_REPAYMENT" /\ RepayLoan(t, a)
     \/ Purpose[t] = "PENALTY_PAYMENT" /\ cash[t] + a <= CashLimit /\ PayFine(t, a)
  /\ cash' = [cash EXCEPT ![t] = @ + a]
  /\ UNCHANGED <<balance, status, worker, prov, net, hooks>>

-----------------------------------------------------------------------------
(* ClickPesa and the member's phone.                                        *)

\* The collect call's answer.  An error that is not a refusal (a 5xx, a
\* broken connection) says nothing about the order.
GatewayAnswers(p) ==
  /\ pc[p] = "submitted" /\ reply[p] = "none"
  /\ \E a \in Answers :
       /\ a = "OK" => prov[p] \in {"accepted", "paid", "failed"}
       /\ reply' = [reply EXCEPT ![p] = a]
  /\ UNCHANGED <<books, cash, target, amount, pc, prov, net, hooks>>

ProviderSettles(p, from, to, ws) ==
  /\ prov[p] = from
  /\ prov' = [prov EXCEPT ![p] = to]
  /\ net' = net \cup [pay : {p}, word : ws \cap Hooks]
  /\ UNCHANGED <<books, cash, worker, hooks>>

\* The member confirms: the money is taken, and later settled.
ProviderPays(p) == ProviderSettles(p, "accepted", "paid", {"SUCCESS", "SETTLED"})
ProviderFails(p) == ProviderSettles(p, "accepted", "failed", {"FAILED"})
ProviderReturns(p) ==
  "REVERSED" \in Hooks /\ ProviderSettles(p, "paid", "returned", {"REVERSED"})

-----------------------------------------------------------------------------
(* WebhookService.process_clickpesa_event, as in module Payout: the event   *)
(* row is locked for the whole delivery, the transaction's status is read   *)
(* before its row is locked, and a processed payload changes nothing.       *)

Deliverable(e) == AfterCall => pc[e.pay] = "done"

ReadEvent(e) ==
  /\ e \in net /\ seen[e] = "idle" /\ e \notin processed
  /\ Deliverable(e)
  /\ seen' = [seen EXCEPT ![e] = status[e.pay]]
  /\ UNCHANGED <<books, cash, worker, prov, net, processed, acked>>

Running(e) == seen[e] # "idle"
Acknowledge(e) ==
  /\ seen' = [seen EXCEPT ![e] = "idle"]
  /\ acked' = acked \cup {e}
  /\ UNCHANGED <<cash, worker, prov, net>>

AlreadySuccess(e) ==
  /\ Running(e) /\ seen[e] = "SUCCESS"
  /\ Acknowledge(e)
  /\ UNCHANGED <<books, processed>>

ApplyEvent(e) ==
  /\ Running(e) /\ seen[e] # "SUCCESS"
  /\ \/ e.word \in RECEIVED_STATUSES /\ ProcessSuccessfulCollection(e.pay)
     \/ e.word \in REFUSED_STATUSES /\ ProcessFailedCollection(e.pay)
     \/ e.word \notin RECEIVED_STATUSES \cup REFUSED_STATUSES /\ UNCHANGED books
  /\ Acknowledge(e)
  /\ processed' = processed \cup {e}

\* The handler raises, or its process dies: everything is rolled back and
\* ClickPesa gets no 200.
EventFailsSwallowed(e) ==
  Running(e) /\ Acknowledge(e) /\ UNCHANGED <<books, processed>>
EventFails(e) ==
  /\ Running(e)
  /\ seen' = [seen EXCEPT ![e] = "idle"]
  /\ UNCHANGED <<books, cash, worker, prov, net, processed, acked>>

-----------------------------------------------------------------------------
PaymentStep(p) ==
  \/ \E a \in Amounts : InitiateCollection(p, a)
  \/ SubmitCollection(p) \/ FinishCollection(p) \/ WorkerDies(p)
ProviderStep(p) ==
  \/ GatewayAnswers(p)
  \/ ProviderPays(p) \/ ProviderFails(p) \/ ProviderReturns(p)
EventStep(e) ==
  ReadEvent(e) \/ AlreadySuccess(e) \/ ApplyEvent(e) \/ EventFails(e)

Next ==
  \/ \E p \in Payments : PaymentStep(p) \/ ProviderStep(p)
  \/ \E e \in Events : EventStep(e)
  \/ \E t \in Targets, a \in Amounts : RecordCash(t, a)

Spec == Init /\ [][Next]_vars

\* A started payment's worker finishes, the member answers the push, and
\* ClickPesa redelivers until a 200; not every delivery is aborted.
Fairness ==
  /\ \A p \in Payments : /\ WF_vars(FinishCollection(p) \/ WorkerDies(p))
                         /\ WF_vars(GatewayAnswers(p))
                         /\ WF_vars(ProviderPays(p) \/ ProviderFails(p))
  /\ \A e \in Events : /\ WF_vars(e \notin acked /\ ReadEvent(e))
                       /\ SF_vars(AlreadySuccess(e) \/ ApplyEvent(e))

FairSpec == Spec /\ Fairness

-----------------------------------------------------------------------------
(* Properties. *)

Received == {p \in Payments : status[p] = "SUCCESS"}
ByGateway(t) == recorded[t] - cash[t]

\* Every variable has its type.
TypeOK ==
  /\ balance \in Nat
  /\ recorded \in [Targets -> Nat] /\ rows \in [Targets -> SUBSET Nat] /\ cash \in [Targets -> Nat]
  /\ status \in [Payments -> TxnStatus \cup {"NONE"}]
  /\ target \in [Payments -> Targets]
  /\ amount \in [Payments -> Nat]
  /\ pc \in [Payments -> {"idle", "created", "submitted", "done"}]
  /\ reply \in [Payments -> Answers \cup {"none"}]
  /\ prov \in [Payments -> OrderState]
  /\ net \subseteq Events
  /\ seen \in [Events -> TxnStatus \cup {"NONE", "idle"}]
  /\ processed \subseteq Events /\ acked \subseteq Events

\* A payment is SUCCESS, and anything beyond cash is recorded for a target, only
\* if ClickPesa took the member's money: nothing is recorded for a call that
\* failed, timed out or was only asked for.  And the books never hold more gateway
\* money than the payment wallet was credited with: records and credits commit
\* together, and a repeated payment of a contribution is not recorded twice.
OnlyPaidIsRecorded ==
  /\ \A p \in Received : prov[p] \in {"paid", "returned"}
  /\ \A t \in Targets : ByGateway(t) > 0 =>
       \E p \in Payments : target[p] = t /\ prov[p] \in {"paid", "returned"}
BooksWithinWallet ==
  OnlyPaidIsRecorded /\ SumFunctionOnSet([t \in Targets |-> ByGateway(t)], Targets) <= balance

\* Whatever cash and mobile-money repayments of a loan run together on rows they
\* read before one another: the loan row never claims more than was placed on its
\* installments, so that a loan that was closed is repaid, and these never hold
\* more than is due.  (It may claim less: a later save can lose an earlier one.)
ClosedIsRepaid ==
  \A t \in Targets : Purpose[t] = "LOAN_REPAYMENT" =>
    \A claimed \in rows[t] : claimed <= recorded[t] /\ recorded[t] <= Due[t]

\* Every received payment has been credited exactly once, whichever of its
\* webhooks run together, overtake the call's answer or come back, as long as
\* no collect call was answered by an error or not at all.
CreditedOnce ==
  (\A p \in Payments : reply[p] \notin {"ERROR", "TIMEOUT"}) =>
    balance = SumFunctionOnSet(amount, Received)

\* A payment ClickPesa took reaches the wallet and the books
\* (docs/PAYMENT_GATEWAY.md, payment collection process).
PaidIsReceived == \A p \in Payments : prov[p] = "paid" ~> status[p] = "SUCCESS"

Abstract == INSTANCE Till WITH
  Deposits <- Payments, Sums <- Amounts,
  worth <- amount, banked <- Received, till <- balance

\* Each payment is banked at most once, for its amount (CollectionService
\* with PaymentDispatcher as a whole), if its webhooks come after the call.
ImplementsTill == Abstract!Spec
=============================================================================

-------------------------- MODULE CollectionProofs ---------------------------
(***************************************************************************)
(* Proofs about Collection, for any payments, targets, amounts and         *)
(* webhooks: its types, that a loan row never claims more than was repaid, *)
(* that only money that ClickPesa took is recorded and no more than the    *)
(* wallet was credited with, and that a received payment is credited once. *)
(***************************************************************************)
EXTENDS Collection, SumTheorems, TLAPS

-----------------------------------------------------------------------------
(* Types. *)

LEMMA TypesInit == Init => TypeOK
  BY DEF Init, TypeOK, TxnStatus, OrderState, Answers

\* A repayment of a loan row that was read before.
LEMMA RepayTypes ==
  ASSUME TypeOK, NEW t \in Targets, NEW a \in Nat, RepayLoan(t, a)
  PROVE  recorded' \in [Targets -> Nat] /\ rows' \in [Targets -> SUBSET Nat]
<1>1. PICK read \in rows[t] : rows' = [rows EXCEPT ![t] = @ \cup {read + a}]
  BY DEF RepayLoan
<1>2. rows[t] \cup {read + a} \in SUBSET Nat
  BY <1>1 DEF TypeOK
<1>3. recorded[t] + a \in Nat
  BY DEF TypeOK
<1> QED BY <1>1, <1>2, <1>3 DEF RepayLoan, TypeOK

\* What the handlers of PaymentDispatcher leave in the books.
LEMMA DispatchTypes ==
  ASSUME TypeOK, NEW p \in Payments, Dispatch(p)
  PROVE  recorded' \in [Targets -> Nat] /\ rows' \in [Targets -> SUBSET Nat]
<1> DEFINE t == target[p]
           a == amount[p]
<1>1. t \in Targets /\ a \in Nat /\ Due[t] \in Nat
  BY CollectionAssumptions DEF TypeOK
<1>2. CASE RepayLoan(t, a)
  BY <1>1, <1>2, RepayTypes
<1>3. CASE VerifyContribution(t, a) \/ PayFine(t, a)
  BY <1>1, <1>3 DEF TypeOK, VerifyContribution, PayFine
<1> QED
  BY <1>2, <1>3 DEF Dispatch

LEMMA ReceiveTypes ==
  ASSUME TypeOK, NEW p \in Payments,
         ProcessSuccessfulCollection(p) \/ ProcessFailedCollection(p)
  PROVE  /\ balance' \in Nat /\ recorded' \in [Targets -> Nat]
         /\ rows' \in [Targets -> SUBSET Nat]
         /\ status' \in [Payments -> TxnStatus \cup {"NONE"}]
<1>1. CASE ProcessSuccessfulCollection(p)
  <2>1. CASE status[p] = "SUCCESS"
    BY <1>1, <2>1 DEF ProcessSuccessfulCollection, books, TypeOK
  <2>2. CASE status[p] # "SUCCESS"
    <3>1. Receive(p) /\ amount[p] \in Nat
      BY <1>1, <2>2 DEF ProcessSuccessfulCollection, TypeOK
    <3> QED BY <3>1, DispatchTypes DEF Receive, TypeOK, TxnStatus
  <2> QED BY <2>1, <2>2
<1>2. CASE ProcessFailedCollection(p)
  BY <1>2 DEF ProcessFailedCollection, TypeOK, TxnStatus
<1> QED BY <1>1, <1>2

LEMMA TypesNext == TypeOK /\ [Next]_vars => TypeOK'
<1> SUFFICES ASSUME TypeOK, [Next]_vars PROVE TypeOK'
  OBVIOUS
<1>1. CASE UNCHANGED vars
  BY <1>1 DEF vars, TypeOK
<1>2. ASSUME NEW p \in Payments, PaymentStep(p) PROVE TypeOK'
  <2>1. ASSUME NEW a \in Amounts, InitiateCollection(p, a) PROVE TypeOK'
    <3>1. a \in Nat
      BY CollectionAssumptions
    <3> QED BY <2>1, <3>1 DEF InitiateCollection, TypeOK, TxnStatus, hooks
  <2>2. CASE SubmitCollection(p)
    <3>1. [pay : {p}, word : {"OTHER"} \cap Hooks] \subseteq Events
      BY DEF Events
    <3>2. prov' \in [Payments -> OrderState]
      BY <2>2 DEF SubmitCollection, TypeOK, OrderState
    <3>3. net' \subseteq Events
      BY <2>2, <3>1 DEF SubmitCollection, TypeOK
    <3> QED BY <2>2, <3>2, <3>3 DEF SubmitCollection, TypeOK, books, hooks
  <2>3. CASE FinishCollection(p)
    <3>1. status' \in [Payments -> TxnStatus \cup {"NONE"}] /\ UNCHANGED <<balance, recorded, rows>>
      BY <2>3 DEF FinishCollection, HandleAnswer, BlindSave, TypeOK, TxnStatus, books
    <3> QED BY <2>3, <3>1 DEF FinishCollection, TypeOK, hooks
  <2>4. CASE WorkerDies(p)
    BY <2>4 DEF WorkerDies, TypeOK, books, hooks
  <2> QED BY <1>2, <2>1, <2>2, <2>3, <2>4 DEF PaymentStep
<1>3. ASSUME NEW p \in Payments, ProviderStep(p) PROVE TypeOK'
  <2>1. CASE GatewayAnswers(p)
    BY <2>1 DEF GatewayAnswers, TypeOK, Answers, books, hooks
  <2>2. ASSUME NEW from, NEW to \in OrderState, NEW ws, ProviderSettles(p, from, to, ws)
        PROVE  TypeOK'
    <3>1. [pay : {p}, word : ws \cap Hooks] \subseteq Events
      BY DEF Events
    <3>2. prov' \in [Payments -> OrderState] /\ net' \subseteq Events
      BY <2>2, <3>1 DEF ProviderSettles, TypeOK
    <3> QED BY <2>2, <3>2 DEF ProviderSettles, TypeOK, books, worker, hooks
  <2> QED
    BY <1>3, <2>1, <2>2 DEF ProviderStep, ProviderPays, ProviderFails, ProviderReturns, OrderState
<1>4. ASSUME NEW e \in Events, EventStep(e) PROVE TypeOK'
  <2>1. e.pay \in Payments
    BY DEF Events
  <2>2. CASE ReadEvent(e)
    <3>1. status[e.pay] \in TxnStatus \cup {"NONE"}
      BY <2>1 DEF TypeOK
    <3> QED BY <2>2, <3>1 DEF ReadEvent, TypeOK, books, worker
  <2>3. CASE AlreadySuccess(e)
    BY <2>3 DEF AlreadySuccess, Acknowledge, TypeOK, books, worker
  <2>4. CASE ApplyEvent(e)
    <3>1. /\ balance' \in Nat /\ recorded' \in [Targets -> Nat]
          /\ rows' \in [Targets -> SUBSET Nat]
          /\ status' \in [Payments -> TxnStatus \cup {"NONE"}]
      <4>1. CASE UNCHANGED books
        BY <4>1 DEF books, TypeOK
      <4> QED BY <2>1, <2>4, <4>1, ReceiveTypes DEF ApplyEvent
    <3> QED BY <2>4, <3>1 DEF ApplyEvent, Acknowledge, TypeOK, worker
  <2>5. CASE EventFails(e)
    BY <2>5 DEF EventFails, TypeOK, books, worker
  <2> QED BY <1>4, <2>2, <2>3, <2>4, <2>5 DEF EventStep
<1>5. ASSUME NEW t \in Targets, NEW a \in Amounts, RecordCash(t, a) PROVE TypeOK'
  <2>1. a \in Nat
    BY CollectionAssumptions
  <2>2. recorded' \in [Targets -> Nat] /\ rows' \in [Targets -> SUBSET Nat]
    <3>1. CASE RepayLoan(t, a)
      BY <2>1, <3>1, RepayTypes
    <3>2. CASE PayFine(t, a)
      BY <2>1, <3>2 DEF PayFine, TypeOK
    <3> QED BY <1>5, <3>1, <3>2 DEF RecordCash
  <2>3. cash' \in [Targets -> Nat]
    BY <1>5, <2>1 DEF RecordCash, TypeOK
  <2> QED BY <1>5, <2>2, <2>3 DEF RecordCash, TypeOK, worker, hooks
<1> QED BY <1>1, <1>2, <1>3, <1>4, <1>5 DEF Next

\* Every variable keeps its type.
THEOREM TypeCorrect == Spec => []TypeOK
  BY TypesInit, TypesNext, PTL DEF Spec

-----------------------------------------------------------------------------
(* Loan rows and what was placed on their installments. *)

\* A repayment adds the same to a row that was read some time ago and to what the
\* installments hold by now, which is no less than any row has claimed.
LEMMA RepayKeeps ==
  ASSUME TypeOK, ClosedIsRepaid, NEW t \in Targets, NEW a \in Nat, Purpose[t] = "LOAN_REPAYMENT",
         RepayLoan(t, a)
  PROVE  ClosedIsRepaid'
<1>1. PICK read \in rows[t] : rows' = [rows EXCEPT ![t] = @ \cup {read + a}]
  BY DEF RepayLoan
<1>2. /\ rows \in [Targets -> SUBSET Nat] /\ recorded \in [Targets -> Nat]
      /\ Due[t] \in Nat /\ rows[t] \subseteq Nat /\ recorded[t] \in Nat
  BY CollectionAssumptions DEF TypeOK
<1>3. /\ recorded' = [recorded EXCEPT ![t] = @ + a] /\ a <= Due[t] - recorded[t]
  BY DEF RepayLoan
<1>4. \A claimed \in rows[t] : claimed <= recorded[t]
  BY DEF ClosedIsRepaid
<1>5. /\ rows'[t] = rows[t] \cup {read + a} /\ recorded'[t] = recorded[t] + a
      /\ \A u \in Targets : u # t => rows'[u] = rows[u] /\ recorded'[u] = recorded[u]
  BY <1>1, <1>2, <1>3
<1>6. recorded'[t] <= Due[t]
  BY <1>2, <1>3, <1>5
<1>7. ASSUME NEW claimed \in rows'[t] PROVE claimed <= recorded'[t]
  <2>1. CASE claimed \in rows[t]
    BY <1>2, <1>4, <1>5, <2>1
  <2>2. CASE claimed = read + a
    BY <1>2, <1>4, <1>5, <2>2
  <2> QED BY <1>5, <2>1, <2>2
<1> QED BY <1>5, <1>6, <1>7 DEF ClosedIsRepaid

\* However repayments overlap on rows read before, the row of a loan never claims more
\* than its installments hold, and these no more than is due: a loan that is closed
\* is repaid (RepaymentService.repay_loan, with its locks on the installments).
THEOREM ClosedLoansRepaid == Spec => []ClosedIsRepaid
<1>1. Init => ClosedIsRepaid
  BY CollectionAssumptions DEF Init, ClosedIsRepaid
<1>2. TypeOK /\ ClosedIsRepaid /\ [Next]_vars => ClosedIsRepaid'
  <2> SUFFICES ASSUME TypeOK, ClosedIsRepaid, [Next]_vars PROVE ClosedIsRepaid'
    OBVIOUS
  <2>1. CASE UNCHANGED <<recorded, rows>>
    BY <2>1 DEF ClosedIsRepaid
  <2>2. ASSUME NEW p \in Payments, PaymentStep(p) \/ ProviderStep(p) PROVE UNCHANGED <<recorded, rows>>
    BY <2>2 DEF PaymentStep, InitiateCollection, SubmitCollection, FinishCollection, WorkerDies,
                HandleAnswer, BlindSave, ProviderStep, GatewayAnswers, ProviderPays,
                ProviderFails, ProviderReturns, ProviderSettles, books
  \* The books of a contribution or a fine.
  <2>o. ASSUME NEW t \in Targets, NEW a \in Nat, Purpose[t] # "LOAN_REPAYMENT",
               VerifyContribution(t, a) \/ PayFine(t, a)
        PROVE  ClosedIsRepaid'
    <3>1. UNCHANGED rows /\ \A u \in Targets : u # t => recorded'[u] = recorded[u]
      BY <2>o DEF TypeOK, VerifyContribution, PayFine
    <3> QED BY <2>o, <3>1 DEF ClosedIsRepaid
  <2>3. ASSUME NEW e \in Events, EventStep(e) PROVE ClosedIsRepaid'
    <3>1. e.pay \in Payments
      BY DEF Events
    <3>2. CASE UNCHANGED <<recorded, rows>>
      BY <3>2, <2>1
    <3>3. ASSUME Dispatch(e.pay) PROVE ClosedIsRepaid'
      <4>1. target[e.pay] \in Targets /\ amount[e.pay] \in Nat
        BY <3>1 DEF TypeOK
      <4> QED BY <3>3, <4>1, <2>o, RepayKeeps DEF Dispatch
    <3> QED
      BY <2>3, <3>2, <3>3 DEF EventStep, ReadEvent, AlreadySuccess, ApplyEvent, EventFails, books,
                              ProcessSuccessfulCollection, Receive, ProcessFailedCollection
  <2>4. ASSUME NEW t \in Targets, NEW a \in Amounts, RecordCash(t, a) PROVE ClosedIsRepaid'
    <3>1. a \in Nat
      BY CollectionAssumptions
    <3> QED BY <2>4, <3>1, <2>o, RepayKeeps DEF RecordCash
  <2>5. CASE UNCHANGED vars
    BY <2>1, <2>5 DEF vars
  <2> QED BY <2>1, <2>2, <2>3, <2>4, <2>5 DEF Next
<1> QED BY TypeCorrect, <1>1, <1>2, PTL DEF Spec

-----------------------------------------------------------------------------
(* Only money that ClickPesa took is recorded. *)

Taken(p) == prov[p] \in {"paid", "returned"}

\* An order exists only once its call went out; a webhook that says the money was
\* received is true; only what ClickPesa has sent is delivered.
SentInv ==
  /\ \A p \in Payments : pc[p] \in {"idle", "created"} => prov[p] = "none"
  /\ \A e \in net : e.word \in RECEIVED_STATUSES => Taken(e.pay)
  /\ \A e \in Events : seen[e] # "idle" => e \in net

PaidInv == SentInv /\ OnlyPaidIsRecorded

\* What was taken stays taken, and nothing else changes these facts.
LEMMA TakenStays ==
  ASSUME TypeOK, SentInv, Next
  PROVE  \A p \in Payments : Taken(p) => Taken(p)'
<1>1. ASSUME NEW p \in Payments, NEW q \in Payments, PaymentStep(p) \/ ProviderStep(p), Taken(q)
      PROVE  Taken(q)'
  BY <1>1 DEF TypeOK, SentInv, Taken, PaymentStep, InitiateCollection, SubmitCollection,
              FinishCollection, WorkerDies, ProviderStep, GatewayAnswers, ProviderPays,
              ProviderFails, ProviderReturns, ProviderSettles
<1>2. ASSUME NEW e \in Events, EventStep(e) PROVE UNCHANGED prov
  BY <1>2 DEF EventStep, ReadEvent, AlreadySuccess, ApplyEvent, EventFails, Acknowledge
<1>3. ASSUME NEW t \in Targets, NEW a \in Amounts, RecordCash(t, a) PROVE UNCHANGED prov
  BY <1>3 DEF RecordCash
<1> QED BY <1>1, <1>2, <1>3 DEF Next, Taken

LEMMA SentNext == TypeOK /\ SentInv /\ [Next]_vars => SentInv'
<1> SUFFICES ASSUME TypeOK, SentInv, [Next]_vars PROVE SentInv'
  OBVIOUS
<1>1. CASE UNCHANGED vars
  BY <1>1 DEF vars, SentInv, Taken
<1>t. ASSUME Next PROVE \A p \in Payments : Taken(p) => Taken(p)'
  BY <1>t, TakenStays
<1>w. \A e \in net : e \in Events /\ e.pay \in Payments
  BY DEF TypeOK, Events
<1>2. ASSUME NEW p \in Payments, PaymentStep(p), Next PROVE SentInv'
  <2>1. \A q \in Payments : pc'[q] \in {"idle", "created"} => prov'[q] = "none"
    BY <1>2 DEF TypeOK, SentInv, PaymentStep, InitiateCollection, SubmitCollection,
                FinishCollection, WorkerDies
  <2>2. net \subseteq net' /\ UNCHANGED seen
        /\ \A e \in net' : e \in net \/ e.word = "OTHER"
    BY <1>2 DEF PaymentStep, InitiateCollection, SubmitCollection, FinishCollection, WorkerDies, hooks
  <2> QED BY <1>2, <1>t, <1>w, <2>1, <2>2 DEF SentInv, RECEIVED_STATUSES
<1>3. ASSUME NEW p \in Payments, ProviderStep(p), Next PROVE SentInv'
  <2>1. \A q \in Payments : pc'[q] \in {"idle", "created"} => prov'[q] = "none"
    BY <1>3 DEF TypeOK, SentInv, ProviderStep, GatewayAnswers, ProviderPays, ProviderFails,
                ProviderReturns, ProviderSettles, worker
  <2>2. net \subseteq net' /\ UNCHANGED seen
    BY <1>3 DEF ProviderStep, GatewayAnswers, ProviderPays, ProviderFails, ProviderReturns,
                ProviderSettles, hooks
  <2>3. ASSUME NEW e \in net', e \notin net, e.word \in RECEIVED_STATUSES PROVE Taken(e.pay)'
    <3>1. e.pay = p /\ ProviderPays(p)
      BY <1>3, <2>3 DEF ProviderStep, GatewayAnswers, ProviderPays, ProviderFails, ProviderReturns,
                        ProviderSettles, RECEIVED_STATUSES
    <3> QED BY <3>1 DEF ProviderPays, ProviderSettles, TypeOK, Taken
  <2> QED BY <1>3, <1>t, <1>w, <2>1, <2>2, <2>3 DEF SentInv
<1>4. ASSUME NEW e \in Events, EventStep(e), Next PROVE SentInv'
  <2>1. UNCHANGED <<net, pc, prov>>
    BY <1>4 DEF EventStep, ReadEvent, AlreadySuccess, ApplyEvent, EventFails, Acknowledge, worker
  <2>2. \A f \in Events : seen'[f] # "idle" => f \in net
    BY <1>4 DEF TypeOK, SentInv, EventStep, ReadEvent, AlreadySuccess, ApplyEvent, EventFails,
                Acknowledge
  <2> QED BY <2>1, <2>2 DEF SentInv, Taken
<1>5. ASSUME NEW t \in Targets, NEW a \in Amounts, RecordCash(t, a) PROVE SentInv'
  BY <1>5 DEF RecordCash, SentInv, Taken, worker, hooks
<1> QED BY <1>1, <1>2, <1>3, <1>4, <1>5 DEF Next

LEMMA PaidNext == TypeOK /\ PaidInv /\ [Next]_vars => OnlyPaidIsRecorded'
<1> SUFFICES ASSUME TypeOK, PaidInv, [Next]_vars PROVE OnlyPaidIsRecorded'
  OBVIOUS
<1>a. /\ \A p \in Payments : status[p] = "SUCCESS" => Taken(p)
      /\ \A t \in Targets : recorded[t] - cash[t] > 0 =>
           \E p \in Payments : target[p] = t /\ Taken(p)
  BY DEF PaidInv, OnlyPaidIsRecorded, Received, ByGateway, Taken
\* It is enough that a new SUCCESS and a new record go back to a payment taken.
<1>b. ASSUME /\ \A p \in Payments : Taken(p) => Taken(p)'
             /\ UNCHANGED target
             /\ \A p \in Payments : status'[p] = "SUCCESS" => status[p] = "SUCCESS" \/ Taken(p)
             /\ \A t \in Targets :
                  \/ recorded'[t] - cash'[t] = recorded[t] - cash[t]
                  \/ \E p \in Payments : target[p] = t /\ Taken(p)
      PROVE  OnlyPaidIsRecorded'
  <2>1. \A p \in Payments : status'[p] = "SUCCESS" => Taken(p)'
    BY <1>a, <1>b
  <2>2. ASSUME NEW t \in Targets, recorded'[t] - cash'[t] > 0
        PROVE  \E p \in Payments : target'[p] = t /\ Taken(p)'
    BY <1>a, <1>b, <2>2
  <2> QED BY <2>1, <2>2 DEF OnlyPaidIsRecorded, Received, ByGateway, Taken
<1>1. CASE UNCHANGED vars
  BY <1>1, <1>b DEF vars, Taken
<1>t. ASSUME Next PROVE \A p \in Payments : Taken(p) => Taken(p)'
  BY <1>t, TakenStays DEF PaidInv
<1>2. ASSUME NEW p \in Payments, PaymentStep(p) \/ ProviderStep(p), Next PROVE OnlyPaidIsRecorded'
  <2>1. UNCHANGED <<target, recorded, cash>>
    BY <1>2 DEF PaymentStep, InitiateCollection, SubmitCollection, FinishCollection, WorkerDies,
                HandleAnswer, BlindSave, ProviderStep, GatewayAnswers, ProviderPays,
                ProviderFails, ProviderReturns, ProviderSettles, books, worker
  <2>2. \A q \in Payments : status'[q] = "SUCCESS" => status[q] = "SUCCESS"
    BY <1>2 DEF PaymentStep, InitiateCollection, SubmitCollection, FinishCollection, WorkerDies,
                HandleAnswer, BlindSave, ProviderStep, GatewayAnswers, ProviderPays,
                ProviderFails, ProviderReturns, ProviderSettles, books, TypeOK
  <2> QED BY <1>2, <1>b, <1>t, <2>1, <2>2
<1>3. ASSUME NEW e \in Events, EventStep(e), Next PROVE OnlyPaidIsRecorded'
  <2> DEFINE p == e.pay
  <2>1. p \in Payments /\ target[p] \in Targets
    BY DEF Events, TypeOK
  <2>2. UNCHANGED <<target, cash>>
    BY <1>3 DEF EventStep, ReadEvent, AlreadySuccess, ApplyEvent, EventFails, Acknowledge, worker
  <2>3. CASE UNCHANGED books
    BY <1>3, <1>b, <1>t, <2>2, <2>3 DEF books
  <2>4. ASSUME Running(e), e.word \in RECEIVED_STATUSES, Receive(p) PROVE OnlyPaidIsRecorded'
    <3>1. Taken(p)
      BY <2>4 DEF Running, PaidInv, SentInv
    <3>2. \A t \in Targets : t # target[p] => recorded'[t] = recorded[t]
      BY <2>1, <2>4 DEF Receive, Dispatch, VerifyContribution, RepayLoan, PayFine, TypeOK
    <3>3. \A q \in Payments : q # p => status'[q] = status[q]
      BY <2>4 DEF Receive, TypeOK
    <3> QED BY <1>3, <1>b, <1>t, <2>1, <2>2, <3>1, <3>2, <3>3
  <2>5. ASSUME ProcessFailedCollection(p) PROVE OnlyPaidIsRecorded'
    <3>1. UNCHANGED recorded /\ \A q \in Payments : status'[q] = "SUCCESS" => status[q] = "SUCCESS"
      BY <2>5 DEF ProcessFailedCollection, TypeOK
    <3> QED BY <1>3, <1>b, <1>t, <2>2, <3>1
  <2> QED
    BY <1>3, <2>3, <2>4, <2>5 DEF EventStep, ReadEvent, AlreadySuccess, ApplyEvent, EventFails,
                                  ProcessSuccessfulCollection
<1>4. ASSUME NEW t \in Targets, NEW a \in Amounts, RecordCash(t, a), Next PROVE OnlyPaidIsRecorded'
  <2>1. a \in Nat /\ recorded[t] \in Nat /\ cash[t] \in Nat
    BY CollectionAssumptions DEF TypeOK
  <2>2. \A u \in Targets : recorded'[u] - cash'[u] = recorded[u] - cash[u]
    BY <1>4, <2>1 DEF RecordCash, RepayLoan, PayFine, TypeOK
  <2> QED BY <1>4, <1>b, <1>t, <2>2 DEF RecordCash, worker
<1> QED BY <1>1, <1>2, <1>3, <1>4 DEF Next

\* A payment is SUCCESS, and gateway money recorded for a target, only if ClickPesa
\* took a member's money for it, whatever errors, timeouts and deliveries happen.
THEOREM OnlyPaid == Spec => []OnlyPaidIsRecorded
<1>1. Init => PaidInv
  BY DEF Init, PaidInv, SentInv, OnlyPaidIsRecorded, Received, ByGateway
<1>2. TypeOK /\ PaidInv /\ [Next]_vars => PaidInv'
  BY SentNext, PaidNext DEF PaidInv
<1>3. PaidInv => OnlyPaidIsRecorded
  BY DEF PaidInv
<1> QED BY TypeCorrect, <1>1, <1>2, <1>3, PTL DEF Spec

-----------------------------------------------------------------------------
(* Collection implements Till. *)

\* A payment has an amount from its POST on, and webhooks only after its call; if
\* they wait for the call to be over, nothing is received before.
CallInv ==
  /\ \A p \in Payments : IF pc[p] = "idle" THEN amount[p] = 0 ELSE amount[p] > 0
  /\ \A e \in net : pc[e.pay] \notin {"idle", "created"}
  /\ AfterCall =>
       /\ \A p \in Payments : pc[p] # "done" => status[p] # "SUCCESS"
       /\ \A e \in Events : pc[e.pay] # "done" => seen[e] = "idle"

LEMMA CallNext == TypeOK /\ SentInv /\ CallInv /\ [Next]_vars => CallInv'
<1> SUFFICES ASSUME TypeOK, SentInv, CallInv, [Next]_vars PROVE CallInv'
  OBVIOUS
<1>w. \A e \in Events : e.pay \in Payments
  BY DEF Events
<1>n. net \subseteq Events
  BY DEF TypeOK
<1>1. CASE UNCHANGED vars
  BY <1>1 DEF vars, CallInv
<1>2. ASSUME NEW p \in Payments, PaymentStep(p) PROVE CallInv'
  <2>1. ASSUME NEW a \in Amounts, InitiateCollection(p, a) PROVE CallInv'
    <3>1. a \in Nat \ {0}
      BY CollectionAssumptions
    <3>2. \A q \in Payments : IF pc'[q] = "idle" THEN amount'[q] = 0 ELSE amount'[q] > 0
      BY <2>1, <3>1 DEF InitiateCollection, TypeOK, CallInv
    <3>3. /\ UNCHANGED <<net, seen>> /\ pc[p] = "idle"
          /\ \A q \in Payments : q # p => pc'[q] = pc[q] /\ status'[q] = status[q]
          /\ status'[p] = "PENDING" /\ pc'[p] = "created"
      BY <2>1 DEF InitiateCollection, TypeOK, hooks
    <3> QED BY <1>w, <1>n, <3>2, <3>3 DEF CallInv
  <2>2. ASSUME UNCHANGED <<amount, seen>>, pc[p] \notin {"idle", "done"},
               pc'[p] \in {"submitted", "done"},
               \A q \in Payments : q # p => pc'[q] = pc[q] /\ status'[q] = status[q],
               status'[p] = "SUCCESS" => status[p] = "SUCCESS",
               \A e \in net' : e \in Events /\ (e \in net \/ e.pay = p)
        PROVE  CallInv'
    BY <1>w, <2>2 DEF CallInv
  <2>3. CASE SubmitCollection(p)
    <3>1. \A e \in [pay : {p}, word : {"OTHER"} \cap Hooks] : e \in Events /\ e.pay = p
      BY DEF Events
    <3> QED BY <1>n, <2>2, <2>3, <3>1 DEF SubmitCollection, TypeOK, books, hooks
  <2>4. CASE FinishCollection(p)
    BY <1>n, <2>2, <2>4 DEF FinishCollection, HandleAnswer, BlindSave, TypeOK, books, hooks
  <2>5. CASE WorkerDies(p)
    BY <1>n, <2>2, <2>5 DEF WorkerDies, TypeOK, books, hooks
  <2> QED BY <1>2, <2>1, <2>3, <2>4, <2>5 DEF PaymentStep
<1>3. ASSUME NEW p \in Payments, ProviderStep(p) PROVE CallInv'
  <2>1. CASE GatewayAnswers(p)
    BY <2>1 DEF GatewayAnswers, CallInv, books, hooks
  <2>2. ASSUME NEW from \in {"accepted", "paid"}, NEW to, NEW ws, ProviderSettles(p, from, to, ws)
        PROVE  CallInv'
    <3>1. pc[p] \notin {"idle", "created"}
      BY <2>2 DEF ProviderSettles, SentInv
    <3>2. \A e \in [pay : {p}, word : ws \cap Hooks] : e.pay = p
      OBVIOUS
    <3> QED BY <2>2, <3>1, <3>2 DEF ProviderSettles, CallInv, books, worker, hooks
  <2> QED BY <1>3, <2>1, <2>2 DEF ProviderStep, ProviderPays, ProviderFails, ProviderReturns
<1>4. ASSUME NEW e \in Events, EventStep(e) PROVE CallInv'
  <2>1. UNCHANGED <<amount, pc, net>>
    BY <1>4 DEF EventStep, ReadEvent, AlreadySuccess, ApplyEvent, EventFails, Acknowledge, worker
  <2>2. AfterCall => \A f \in Events : pc[f.pay] # "done" => seen'[f] = "idle"
    BY <1>4 DEF TypeOK, CallInv, EventStep, ReadEvent, Deliverable, AlreadySuccess, ApplyEvent,
                EventFails, Acknowledge
  <2>3. AfterCall => \A q \in Payments : pc[q] # "done" => status'[q] # "SUCCESS"
    <3>1. CASE UNCHANGED status
      BY <3>1 DEF CallInv
    <3>2. CASE Running(e) /\ (Receive(e.pay) \/ ProcessFailedCollection(e.pay))
      <4>1. AfterCall => pc[e.pay] = "done"
        BY <3>2 DEF Running, CallInv
      <4>2. \A q \in Payments : q # e.pay => status'[q] = status[q]
        BY <3>2 DEF Receive, ProcessFailedCollection, TypeOK
      <4> QED BY <4>1, <4>2 DEF CallInv
    <3> QED
      BY <1>4, <3>1, <3>2 DEF EventStep, ReadEvent, AlreadySuccess, ApplyEvent, EventFails, books,
                              ProcessSuccessfulCollection
  <2> QED BY <2>1, <2>2, <2>3 DEF CallInv
<1>5. ASSUME NEW t \in Targets, NEW a \in Amounts, RecordCash(t, a) PROVE CallInv'
  BY <1>5 DEF RecordCash, CallInv, worker, hooks
<1> QED BY <1>1, <1>2, <1>3, <1>4, <1>5 DEF Next

\* Every step banks a payment asked for, asks for one, or changes nothing of it.
LEMMA TillStep ==
  ASSUME AfterCall, TypeOK, SentInv, CallInv, [Next]_vars
  PROVE  [Abstract!Next]_(Abstract!vars)
<1> DEFINE Stutters == UNCHANGED <<amount, Received, balance>>
<1>s. Stutters => UNCHANGED Abstract!vars
  BY DEF Abstract!vars
<1>r. UNCHANGED status => UNCHANGED Received
  BY DEF Received
<1>1. CASE UNCHANGED vars
  BY <1>1, <1>s, <1>r DEF vars
<1>2. ASSUME NEW p \in Payments, PaymentStep(p) PROVE [Abstract!Next]_(Abstract!vars)
  <2>1. ASSUME NEW a \in Amounts, InitiateCollection(p, a) PROVE Abstract!Ask(p, a)
    <3>1. status[p] # "SUCCESS" /\ amount[p] = 0
      BY <2>1 DEF InitiateCollection, CallInv
    <3>2. UNCHANGED Received
      BY <2>1, <3>1 DEF InitiateCollection, Received, TypeOK
    <3> QED BY <2>1, <3>1, <3>2 DEF InitiateCollection, Abstract!Ask
  <2>2. CASE SubmitCollection(p) \/ WorkerDies(p)
    BY <2>2, <1>s, <1>r DEF SubmitCollection, WorkerDies, books
  <2>3. CASE FinishCollection(p)
    <3>1. status[p] # "SUCCESS"
      BY <2>3 DEF FinishCollection, CallInv
    <3>2. UNCHANGED Received
      BY <2>3, <3>1 DEF FinishCollection, HandleAnswer, BlindSave, Received, TypeOK, books
    <3> QED BY <2>3, <3>2, <1>s DEF FinishCollection, HandleAnswer, BlindSave, books
  <2> QED BY <1>2, <2>1, <2>2, <2>3 DEF PaymentStep, Abstract!Next
<1>3. ASSUME NEW p \in Payments, ProviderStep(p) PROVE [Abstract!Next]_(Abstract!vars)
  BY <1>3, <1>s, <1>r DEF ProviderStep, GatewayAnswers, ProviderPays, ProviderFails,
                          ProviderReturns, ProviderSettles, books, worker
<1>4. ASSUME NEW e \in Events, EventStep(e) PROVE [Abstract!Next]_(Abstract!vars)
  <2> DEFINE p == e.pay
  <2>1. p \in Payments /\ UNCHANGED amount
    BY <1>4 DEF Events, EventStep, ReadEvent, AlreadySuccess, ApplyEvent, EventFails, Acknowledge,
                worker
  <2>2. CASE UNCHANGED books
    BY <2>1, <2>2, <1>s, <1>r DEF books
  <2>3. ASSUME Running(e), status[p] # "SUCCESS", Receive(p) PROVE Abstract!Bank(p)
    <3>1. amount[p] > 0
      BY <2>1, <2>3 DEF Running, SentInv, CallInv
    <3>2. Received' = Received \cup {p}
      BY <2>1, <2>3 DEF Receive, Received, TypeOK
    <3>3. p \notin Received
      BY <2>3 DEF Received
    <3> QED BY <2>1, <2>3, <3>1, <3>2, <3>3 DEF Receive, Abstract!Bank
  <2>4. ASSUME ProcessFailedCollection(p) PROVE Stutters
    <3>1. UNCHANGED Received
      BY <2>4 DEF ProcessFailedCollection, Received, TypeOK
    <3> QED BY <2>1, <2>4, <3>1 DEF ProcessFailedCollection
  <2> QED
    BY <1>4, <2>1, <2>2, <2>3, <2>4, <1>s DEF EventStep, ReadEvent, AlreadySuccess, ApplyEvent,
      EventFails, ProcessSuccessfulCollection, Abstract!Next
<1>5. ASSUME NEW t \in Targets, NEW a \in Amounts, RecordCash(t, a)
      PROVE  [Abstract!Next]_(Abstract!vars)
  BY <1>5, <1>s, <1>r DEF RecordCash, worker
<1> QED BY <1>1, <1>2, <1>3, <1>4, <1>5 DEF Next

\* With webhooks that wait for the call, every payment is banked at most once, for
\* its amount, and stays banked (CollectionService as a whole).
THEOREM TillImplemented == ASSUME AfterCall PROVE Spec => ImplementsTill
<1>1. Init => SentInv /\ CallInv
  BY DEF Init, SentInv, CallInv
<1>2. TypeOK /\ SentInv /\ CallInv /\ [Next]_vars => SentInv' /\ CallInv'
  BY SentNext, CallNext
<1>3. Init => Abstract!Init
  BY DEF Init, Abstract!Init, Received
<1>4. TypeOK /\ SentInv /\ CallInv /\ [Next]_vars => [Abstract!Next]_(Abstract!vars)
  BY TillStep
<1> QED BY TypeCorrect, <1>1, <1>2, <1>3, <1>4, PTL DEF Spec, ImplementsTill, Abstract!Spec

-----------------------------------------------------------------------------
(* The wallet and the books. *)

\* What the books hold of each target beyond cash.
Held == [t \in Targets |-> recorded[t] - cash[t]]

\* A contribution is paid with its exact amount; the books hold no more gateway money
\* than the wallet.
BookInv ==
  /\ \A p \in Payments : pc[p] # "idle" /\ Purpose[target[p]] = "CONTRIBUTION" =>
       amount[p] = Due[target[p]]
  /\ SumFunctionOnSet(Held, Targets) <= balance

\* A received payment adds no more to its target's records than its amount.
LEMMA HeldByDispatch ==
  ASSUME TypeOK, BookInv, NEW p \in Payments, pc[p] # "idle", Receive(p), UNCHANGED cash
  PROVE  SumFunctionOnSet(Held, Targets)' <= balance'
<1> DEFINE t == target[p]
<1>1. t \in Targets /\ amount[p] \in Nat /\ Due[t] \in Nat /\ balance \in Nat
  BY CollectionAssumptions DEF TypeOK
<1>2. recorded' \in [Targets -> Nat]
  BY DispatchTypes DEF Receive
<1>3. \A u \in Targets : Held[u] \in Int /\ Held'[u] \in Int
  BY <1>2 DEF Held, TypeOK
<1>4. \A u \in Targets \ {t} : Held[u] = Held'[u]
  BY <1>1 DEF Held, TypeOK, Receive, Dispatch, VerifyContribution, RepayLoan, PayFine
<1>5. Held'[t] <= Held[t] + amount[p]
  <2>1. recorded'[t] <= recorded[t] + amount[p]
    BY <1>1 DEF BookInv, TypeOK, Receive, Dispatch, VerifyContribution, RepayLoan, PayFine
  <2>2. recorded[t] \in Nat /\ recorded'[t] \in Nat /\ cash[t] \in Nat
    BY <1>1, <1>2 DEF TypeOK
  <2> QED BY <1>1, <2>1, <2>2 DEF Held
<1>6. SumFunctionOnSet(Held', Targets) = (SumFunctionOnSet(Held, Targets) - Held[t]) + Held'[t]
  BY <1>1, <1>3, <1>4, SumChange, CollectionAssumptions
<1>7. SumFunctionOnSet(Held, Targets) \in Int /\ Held[t] \in Int /\ Held'[t] \in Int
  BY <1>1, <1>3, SumInt, CollectionAssumptions
<1>8. balance' = balance + amount[p]
  BY DEF Receive
<1>9. SumFunctionOnSet(Held, Targets) <= balance
  BY DEF BookInv
<1>10. SumFunctionOnSet(Held', Targets) <= balance'
  BY <1>1, <1>5, <1>6, <1>7, <1>8, <1>9
<1> QED BY <1>10, Zenon

LEMMA BookNext == TypeOK /\ SentInv /\ CallInv /\ BookInv /\ [Next]_vars => BookInv'
<1> SUFFICES ASSUME TypeOK, SentInv, CallInv, BookInv, [Next]_vars PROVE BookInv'
  OBVIOUS
<1>k. ASSUME UNCHANGED <<balance, Held>>, UNCHANGED <<pc, target, amount>> PROVE BookInv'
  BY <1>k DEF BookInv
<1>u. UNCHANGED <<recorded, cash>> => UNCHANGED Held
  BY DEF Held
<1>1. CASE UNCHANGED vars
  BY <1>1, <1>k, <1>u DEF vars
<1>2. ASSUME NEW p \in Payments, PaymentStep(p) PROVE BookInv'
  <2>1. UNCHANGED <<balance, recorded, cash, target>>
    BY <1>2 DEF PaymentStep, InitiateCollection, SubmitCollection, FinishCollection, WorkerDies,
                HandleAnswer, BlindSave, books
  <2>2. \A q \in Payments : pc'[q] # "idle" /\ Purpose[target[q]] = "CONTRIBUTION" =>
          amount'[q] = Due[target[q]]
    BY <1>2 DEF PaymentStep, InitiateCollection, SubmitCollection, FinishCollection, WorkerDies,
                TypeOK, BookInv
  <2> QED BY <1>u, <2>1, <2>2 DEF BookInv
<1>3. ASSUME NEW p \in Payments, ProviderStep(p) PROVE BookInv'
  BY <1>3, <1>k, <1>u DEF ProviderStep, GatewayAnswers, ProviderPays, ProviderFails,
                          ProviderReturns, ProviderSettles, books, worker
<1>4. ASSUME NEW e \in Events, EventStep(e) PROVE BookInv'
  <2>1. e.pay \in Payments
    BY DEF Events
  <2>2. UNCHANGED <<cash, pc, target, amount>>
    BY <1>4 DEF EventStep, ReadEvent, AlreadySuccess, ApplyEvent, EventFails, Acknowledge, worker
  <2>3. CASE UNCHANGED <<balance, recorded>>
    BY <1>k, <1>u, <2>2, <2>3
  <2>4. ASSUME Running(e), Receive(e.pay) PROVE BookInv'
    <3>1. pc[e.pay] # "idle"
      BY <2>4 DEF Running, SentInv, CallInv
    <3>2. SumFunctionOnSet(Held, Targets)' <= balance'
      BY <2>1, <2>2, <2>4, <3>1, HeldByDispatch
    <3> QED BY <2>2, <3>2 DEF BookInv
  <2> QED
    BY <1>4, <2>3, <2>4 DEF EventStep, ReadEvent, AlreadySuccess, ApplyEvent, EventFails, books,
                            ProcessSuccessfulCollection, ProcessFailedCollection
<1>5. ASSUME NEW t \in Targets, NEW a \in Amounts, RecordCash(t, a) PROVE BookInv'
  <2>1. a \in Nat /\ recorded \in [Targets -> Nat] /\ cash \in [Targets -> Nat]
    BY CollectionAssumptions DEF TypeOK
  <2>2. \A u \in Targets : recorded'[u] - cash'[u] = recorded[u] - cash[u]
    BY <1>5, <2>1 DEF RecordCash, RepayLoan, PayFine
  <2>3. UNCHANGED Held
    BY <2>2 DEF Held
  <2> QED BY <1>5, <1>k, <2>3 DEF RecordCash, worker
<1> QED BY <1>1, <1>2, <1>3, <1>4, <1>5 DEF Next

\* The finance books never hold more mobile money than the payment wallet was credited
\* with, and only for payments ClickPesa took: records and credits commit together, and
\* a contribution paid twice is recorded once (PaymentDispatcher).
THEOREM BooksInWallet == Spec => []BooksWithinWallet
<1>1. Init => SentInv /\ CallInv /\ BookInv
  <2> SUFFICES ASSUME Init PROVE SentInv /\ CallInv /\ BookInv
    OBVIOUS
  <2>1. \A t \in Targets : Held[t] = 0
    BY DEF Init, Held
  <2>2. SumFunctionOnSet(Held, Targets) = 0
    BY <2>1, SumZero, CollectionAssumptions
  <2> QED BY <2>2 DEF Init, SentInv, CallInv, BookInv
<1>2. TypeOK /\ SentInv /\ CallInv /\ BookInv /\ [Next]_vars => SentInv' /\ CallInv' /\ BookInv'
  BY SentNext, CallNext, BookNext
<1>3. BookInv /\ OnlyPaidIsRecorded => BooksWithinWallet
  <2>1. Held = [t \in Targets |-> ByGateway(t)]
    BY DEF Held, ByGateway
  <2> QED BY <2>1, Zenon DEF BookInv, BooksWithinWallet
<1> QED BY TypeCorrect, OnlyPaid, <1>1, <1>2, <1>3, PTL DEF Spec

-----------------------------------------------------------------------------
(* Credits. *)

\* The payments received stay the same, or one becomes received and is credited.
LEMMA CreditNext ==
  ASSUME TypeOK, PaidInv, CallInv, CreditedOnce, [Next]_vars
  PROVE  CreditedOnce'
<1> DEFINE Clear == \A p \in Payments : reply[p] \notin {"ERROR", "TIMEOUT"}
<1>f. IsFiniteSet(Received) /\ \A p \in Payments : amount[p] \in Int
  BY FS_Subset, CollectionAssumptions DEF Received, TypeOK
<1>k. ASSUME UNCHANGED <<balance, Received>>, \A p \in Received : amount'[p] = amount[p], Clear' => Clear
      PROVE  CreditedOnce'
  <2>1. SumFunctionOnSet(amount, Received) = SumFunctionOnSet(amount', Received)
    BY <1>f, <1>k, SumSame
  <2>2. SumFunctionOnSet(amount, Received) = SumFunctionOnSet(amount', Received')
    BY <2>1, <1>k, Zenon
  <2> HIDE DEF Clear
  <2>3. Clear' => balance' = SumFunctionOnSet(amount', Received')
    <3>1. Clear => balance = SumFunctionOnSet(amount, Received)
      BY Zenon DEF CreditedOnce, Clear
    <3> QED BY <1>k, <2>2, <3>1
  <2> QED BY <2>3, Zenon DEF CreditedOnce, Clear
<1>r. UNCHANGED status => UNCHANGED Received
  BY DEF Received
<1>1. CASE UNCHANGED vars
  BY <1>1, <1>k, <1>r DEF vars
<1>2. ASSUME NEW p \in Payments, PaymentStep(p) PROVE CreditedOnce'
  <2>1. ASSUME NEW a \in Amounts, InitiateCollection(p, a) PROVE CreditedOnce'
    <3>1. status[p] # "SUCCESS"
      BY <2>1 DEF InitiateCollection, PaidInv, SentInv, OnlyPaidIsRecorded, Received
    <3>2. UNCHANGED Received /\ \A q \in Received : amount'[q] = amount[q]
      BY <2>1, <3>1 DEF InitiateCollection, Received, TypeOK
    <3> QED BY <2>1, <3>2, <1>k DEF InitiateCollection
  <2>2. CASE SubmitCollection(p) \/ WorkerDies(p)
    BY <2>2, <1>k, <1>r DEF SubmitCollection, WorkerDies, books
  <2>3. CASE FinishCollection(p)
    <3>1. CASE reply[p] \in {"ERROR", "TIMEOUT"}
      BY <2>3, <3>1 DEF FinishCollection, CreditedOnce
    <3>2. CASE reply[p] \notin {"ERROR", "TIMEOUT"}
      BY <2>3, <3>2, <1>k, <1>r DEF FinishCollection, HandleAnswer, books
    <3> QED BY <3>1, <3>2
  <2> QED BY <1>2, <2>1, <2>2, <2>3 DEF PaymentStep
<1>3. ASSUME NEW p \in Payments, ProviderStep(p) PROVE CreditedOnce'
  <2>1. UNCHANGED <<balance, status, amount>>
    BY <1>3 DEF ProviderStep, GatewayAnswers, ProviderPays, ProviderFails, ProviderReturns,
                ProviderSettles, books, worker
  <2>2. Clear' => Clear
    BY <1>3 DEF ProviderStep, GatewayAnswers, ProviderPays, ProviderFails, ProviderReturns,
                ProviderSettles, worker, TypeOK
  <2> HIDE DEF Clear
  <2> QED BY <2>1, <2>2, <1>k, <1>r
<1>4. ASSUME NEW e \in Events, EventStep(e) PROVE CreditedOnce'
  <2> DEFINE p == e.pay
  <2>1. p \in Payments /\ UNCHANGED <<amount, reply>>
    BY <1>4 DEF Events, EventStep, ReadEvent, AlreadySuccess, ApplyEvent, EventFails, Acknowledge,
                worker
  <2>2. CASE UNCHANGED books
    BY <2>1, <2>2, <1>k, <1>r DEF books
  <2>3. ASSUME status[p] # "SUCCESS", Receive(p) PROVE CreditedOnce'
    <3>1. Received' = Received \cup {p} /\ p \notin Received
      BY <2>1, <2>3 DEF Receive, Received, TypeOK
    <3>2. SumFunctionOnSet(amount, Received \cup {p}) = SumFunctionOnSet(amount, Received) + amount[p]
      BY <1>f, <2>1, <3>1, SumAdd DEF Received
    <3>3. SumFunctionOnSet(amount', Received') = SumFunctionOnSet(amount, Received \cup {p})
      BY <2>1, <3>1, Zenon
    <3>4. balance' = balance + amount[p] /\ UNCHANGED reply
      BY <2>1, <2>3 DEF Receive
    <3> QED BY <3>2, <3>3, <3>4 DEF CreditedOnce
  <2>4. ASSUME ProcessFailedCollection(p) PROVE CreditedOnce'
    <3>1. UNCHANGED Received /\ UNCHANGED balance
      BY <2>4 DEF ProcessFailedCollection, Received, TypeOK
    <3> QED BY <2>1, <3>1, <1>k
  <2> QED
    BY <1>4, <2>2, <2>3, <2>4 DEF EventStep, ReadEvent, AlreadySuccess, ApplyEvent, EventFails,
                                  ProcessSuccessfulCollection
<1>5. ASSUME NEW t \in Targets, NEW a \in Amounts, RecordCash(t, a) PROVE CreditedOnce'
  BY <1>5, <1>k, <1>r DEF RecordCash, worker
<1> QED BY <1>1, <1>2, <1>3, <1>4, <1>5 DEF Next

\* The wallet holds each received payment's amount exactly once, in every order of
\* webhooks, deliveries and answers, until a collect call ends in an exception, whose
\* status save overwrites what the webhooks made of the row.
THEOREM PaymentsCreditedOnce == Spec => []CreditedOnce
<1>1. Init => PaidInv /\ CallInv /\ CreditedOnce
  <2> SUFFICES ASSUME Init PROVE PaidInv /\ CallInv /\ CreditedOnce
    OBVIOUS
  <2>1. Received = {}
    BY DEF Init, Received
  <2>2. SumFunctionOnSet(amount, Received) = 0
    BY <2>1, SumEmpty, Zenon
  <2>3. PaidInv /\ CallInv
    BY DEF Init, PaidInv, SentInv, OnlyPaidIsRecorded, Received, ByGateway, CallInv
  <2>4. balance = 0
    BY DEF Init
  <2> QED BY <2>2, <2>3, <2>4, Zenon DEF CreditedOnce
<1>2. /\ TypeOK /\ PaidInv /\ CallInv /\ CreditedOnce /\ [Next]_vars
      => PaidInv' /\ CallInv' /\ CreditedOnce'
  BY SentNext, PaidNext, CallNext, CreditNext DEF PaidInv
<1> QED BY TypeCorrect, <1>1, <1>2, PTL DEF Spec

=============================================================================

--------------------------- MODULE LoanLifecycle ----------------------------
(***************************************************************************)
(* The loans of one group up to their payout, and the loan product they    *)
(* are requested from: finance/views/loan.py and LoanService.              *)
(*                                                                         *)
(* A request reads the product and counts the borrower's loans, then       *)
(* creates the loan; approval and rejection read the loan and check that   *)
(* it is PENDING, then save the status.  A repayment and the overdue job   *)
(* read a loan that is out, and save the status they make of it.  None of  *)
(* them locks what it has read.  A payout and its reversal lock the loan;  *)
(* what leads to them is Payout, how installments are paid Repayment.      *)
(***************************************************************************)
EXTENDS LoanTerms

CONSTANTS
  Borrowers,
  Products,       \* terms the leaders give the product
  Days,           \* dates on which things happen
  Savings,        \* verified contributions of a borrower, at most
  MinimumSavings, \* group.minimum_savings_for_loan
  MaxConcurrent,  \* group.max_concurrent_loans
  Calls,          \* requests that may be under way at the same time
  MaxLoans,       \* bound on loans requested
  MaxEdits        \* bound on changes of the product

ASSUME LoanLifecycleAssumptions ==
  /\ Products \subseteq Terms
  /\ Days \subseteq Dates
  /\ \A d \in Days, t \in Products : Reaches(d, t)
  /\ {Savings, MinimumSavings, MaxConcurrent, MaxLoans, MaxEdits} \subseteq Nat

VARIABLES
  today,
  product,   \* the loan product's terms, if it exists
  edits,     \* changes of the product so far
  saved,     \* verified savings of each borrower
  loans,     \* the loan rows in the order they were created
  call,      \* requests under way
  mishaps    \* history: what has happened that properties are conditional on

vars == <<today, product, edits, saved, loans, call, mishaps>>

Statuses == {"PENDING", "APPROVED", "REJECTED", "ACTIVE", "OVERDUE", "PAID_OFF",
             "PAYOUT_REVERSED", "deleted"}
Mishaps  == {"crossed",  \* two requests of one borrower overlapped
             "stale",    \* two decisions on one loan overlapped
             "late"}     \* a loan was reversed or paid off while a repayment or the
                         \* overdue job still had it as it was

NoTerms == [amount |-> 0, rate |-> 0, unit |-> "DAYS", count |-> 0]
Idle    == [job |-> "none", about |-> 0, terms |-> NoTerms]

Init ==
  /\ today \in {d \in Days : \A e \in Days : ~Before(e, d)}
  /\ product \in Products
  /\ edits = 0
  /\ saved = [b \in Borrowers |-> 0]
  /\ loans = << >>
  /\ call = [c \in Calls |-> Idle]
  /\ mishaps = {}

-----------------------------------------------------------------------------
Live(l) == l.status # "deleted"
CurrentButPending == {"APPROVED", "ACTIVE", "OVERDUE"}
Current == {"PENDING", "APPROVED", "ACTIVE", "OVERDUE"}
CurrentLoans(b) == {i \in DOMAIN loans : loans[i].borrower = b /\ loans[i].status \in Current}

\* Time passes to a later one of the dates.
Tick ==
  /\ \E d \in Days : Before(today, d) /\ today' = d
  /\ UNCHANGED <<product, edits, saved, loans, call, mishaps>>

\* The borrower's verified contributions grow.
Save(b) ==
  /\ \E s \in {MinimumSavings, Savings} : s > saved[b] /\ saved' = [saved EXCEPT ![b] = s]
  /\ UNCHANGED <<today, product, edits, loans, call, mishaps>>

\* LoanProductViewSet: other terms, for the loans to come.
EditProduct ==
  /\ product # NoTerms /\ edits < MaxEdits
  /\ product' \in Products \ {product}
  /\ edits' = edits + 1
  /\ UNCHANGED <<today, saved, loans, call, mishaps>>

\* Deleting the product deletes its loans, whatever their state.
DeleteProduct ==
  /\ product # NoTerms
  /\ product' = NoTerms /\ edits' = edits
  /\ loans' = [i \in DOMAIN loans |-> [loans[i] EXCEPT !.status = "deleted"]]
  /\ UNCHANGED <<today, saved, call, mishaps>>

Begin(c, image, kind, overlaps) ==
  /\ call[c] = Idle
  /\ call' = [call EXCEPT ![c] = image]
  /\ mishaps' = IF overlaps THEN mishaps \cup {kind} ELSE mishaps
  /\ UNCHANGED <<today, product, edits, saved, loans>>

\* request_loan: the checks.
Affordable(b, t) == saved[b] >= MinimumSavings /\ t.amount <= saved[b]

CountLoans(c, b) ==
  /\ product # NoTerms
  /\ Cardinality(CurrentLoans(b)) < MaxConcurrent
  /\ Begin(c, [job |-> "request", about |-> b, terms |-> product], "crossed",
           \E d \in Calls : call[d].job = "request" /\ call[d].about = b)

\* ... and the loan, with the terms of the product that was read.
Requested(b, t) ==
  [borrower |-> b, status |-> "PENDING", terms |-> t,
   principal |-> t.amount, total |-> TotalRepayment(t), due |-> DueDate(t, today),
   schedule |-> << >>, by |-> NoTerms, start |-> today]

CreateLoan(c) ==
  /\ call[c].job = "request" /\ product # NoTerms /\ Len(loans) < MaxLoans
  /\ Affordable(call[c].about, call[c].terms)
  /\ loans' = Append(loans, Requested(call[c].about, call[c].terms))
  /\ call' = [call EXCEPT ![c] = Idle]
  /\ UNCHANGED <<today, product, edits, saved, mishaps>>

\* Approve and reject begin alike.
UndecidedOrRejected == {"PENDING", "REJECTED"}
Undecided == {"PENDING"}

ReadLoan(c, i, job) ==
  /\ loans[i].status \in Undecided
  /\ Begin(c, [job |-> job, about |-> i, terms |-> NoTerms], "stale",
           \E d \in Calls : call[d].job \in {"approve", "reject"} /\ call[d].about = i)

\* The loan is saved with a status found for the row as it was read, whatever it
\* has become.
Out == {"ACTIVE", "OVERDUE"}
Holding == {"overdue", "repay"}
Holders(i) == {c \in Calls : call[c].job \in Holding /\ call[c].about = i}

NoteLate(status, holders) ==
  mishaps' = IF status \in {"PAYOUT_REVERSED", "PAID_OFF"} /\ holders # {}
             THEN mishaps \cup {"late"} ELSE mishaps

SaveStatus(c, status) ==
  LET i == call[c].about
  IN /\ Live(loans[i])
     /\ loans' = [loans EXCEPT ![i].status = status]
     /\ call' = [call EXCEPT ![c] = Idle]
     /\ NoteLate(status, Holders(i) \ {c})
     /\ UNCHANGED <<today, product, edits, saved>>

Approve(c) == call[c].job = "approve" /\ SaveStatus(c, "APPROVED")
Reject(c)  == call[c].job = "reject" /\ SaveStatus(c, "REJECTED")

\* A repayment and the overdue job begin with a loan that is out, and make its
\* status of what is owed and of the due dates; what is owed is up to Repayment.
PastDue(l) == \E k \in DOMAIN l.schedule : Before(l.schedule[k].due, today)

ReadOut(c, i, job) ==
  /\ loans[i].status \in Out
  /\ Begin(c, [job |-> job, about |-> i, terms |-> NoTerms], "late", FALSE)

Refresh(c) ==
  \E status \in Out \cup {"PAID_OFF"} :
    /\ status = "OVERDUE" => PastDue(loans[call[c].about])
    /\ SaveStatus(c, status)

SyncOverdue(c) == call[c].job = "overdue" /\ Refresh(c)
Repay(c)       == call[c].job = "repay" /\ Refresh(c)

GiveUp(c) ==
  /\ call[c] # Idle
  /\ call' = [call EXCEPT ![c] = Idle]
  /\ UNCHANGED <<today, product, edits, saved, loans, mishaps>>

\* disburse_loan of a locked, APPROVED loan: its installments are made once, as
\* many as the product has by now.
Disburse(i) ==
  /\ loans[i].status = "APPROVED"
  /\ LET l == [loans[i] EXCEPT !.status = "ACTIVE"]
     IN loans' = [loans EXCEPT ![i] =
          IF l.schedule # << >> THEN l
          ELSE [l EXCEPT !.by = product, !.start = today,
                         !.schedule = Installments(l.total, product, today)]]
  /\ UNCHANGED <<today, product, edits, saved, call, mishaps>>

\* reverse_disbursement of a locked loan.
Reverse(i) ==
  /\ loans[i].status = "ACTIVE"
  /\ loans' = [loans EXCEPT ![i].status = "PAYOUT_REVERSED"]
  /\ NoteLate("PAYOUT_REVERSED", Holders(i))
  /\ UNCHANGED <<today, product, edits, saved, call>>

Next ==
  \/ Tick
  \/ \E b \in Borrowers : Save(b)
  \/ EditProduct
  \/ DeleteProduct
  \/ \E c \in Calls :
       \/ \E b \in Borrowers : CountLoans(c, b)
       \/ CreateLoan(c)
       \/ \E i \in DOMAIN loans, job \in {"approve", "reject"} : ReadLoan(c, i, job)
       \/ Approve(c)
       \/ Reject(c)
       \/ \E i \in DOMAIN loans, job \in Holding : ReadOut(c, i, job)
       \/ SyncOverdue(c)
       \/ Repay(c)
       \/ GiveUp(c)
  \/ \E i \in DOMAIN loans : Disburse(i) \/ Reverse(i)

Spec == Init /\ [][Next]_vars

-----------------------------------------------------------------------------
Without(kinds) == mishaps \cap kinds = {}

Loan ==
  [borrower : Borrowers, status : Statuses, terms : Products, principal : Nat, total : Nat,
   due : Dates, by : Products \cup {NoTerms}, start : Days,
   schedule : Seq([amount : Int, due : Dates])]

\* Every due date the calendar arithmetic makes is a date (_add_months clips).
TypeOK ==
  /\ today \in Days
  /\ product \in Products \cup {NoTerms}
  /\ edits \in 0..MaxEdits
  /\ saved \in [Borrowers -> Nat]
  /\ loans \in Seq(Loan) /\ Len(loans) <= MaxLoans
  /\ call \in [Calls -> [job : {"none", "request", "approve", "reject", "overdue", "repay"},
                         about : Borrowers \cup (0..MaxLoans), terms : Products \cup {NoTerms}]]
  /\ mishaps \subseteq Mishaps

\* request_loan: no borrower has more current loans than the group allows, as long
\* as requests of one borrower and decisions on one loan do not overlap, and no loan
\* is reversed or paid off under a repayment or an overdue job that read it before:
\* then a loan is counted until it can no longer come back.
LimitKept ==
  Without({"crossed", "stale", "late"}) =>
    \A b \in Borrowers : Cardinality(CurrentLoans(b)) <= MaxConcurrent

\* ApproveLoanAPIView, RejectLoanAPIView: without overlapping decisions, a rejected
\* loan stays rejected and one that was paid out is never undecided, approved or
\* rejected again, whatever late repayments and overdue jobs save.  If none of these
\* was late, a loan that was reversed or paid off stays so.
Final(l) ==
  \/ l.status = "REJECTED"
  \/ l.status \in {"PAYOUT_REVERSED", "PAID_OFF"} /\ Without({"late"})
PaidOut(l) == l.status \in Out \cup {"PAYOUT_REVERSED", "PAID_OFF"}

DecisionStands ==
  [][Without({"stale"}) =>
       \A i \in DOMAIN loans :
         loans'[i].status # "deleted" =>
           /\ Final(loans[i]) => loans'[i].status = loans[i].status
           /\ PaidOut(loans[i]) => PaidOut(loans'[i])]_vars

\* What a borrower owes is what was lent and the interest of the terms he asked
\* for, within what he had saved; the installments add up to it in spite of the
\* rounding, fall due one after the other, and none is negative unless the shares
\* are so small that the rounding of n - 1 of them outweighs one.  Paid out on the
\* day it was asked for, with the terms unchanged, the last falls due on the due
\* date the borrower was told (_generate_installments, _get_due_date_from_product).
TermsHold ==
  \A i \in DOMAIN loans :
    LET l == loans[i]
        n == Len(l.schedule)
    IN Live(l) =>
         /\ l.total = l.principal + Interest(l.terms) /\ l.principal <= saved[l.borrower]
         /\ n > 0 =>
              /\ SumFunctionOnSet([k \in 1..n |-> l.schedule[k].amount], 1..n) = l.total
              /\ \A k \in 1..(n - 1) : Before(l.schedule[k].due, l.schedule[k + 1].due)
              /\ 2 * l.total >= n * (n - 1) => \A k \in 1..n : l.schedule[k].amount >= 0
              /\ l.by = l.terms /\ l.due = DueDate(l.terms, l.start) /\ l.terms.count > 0
                   => l.schedule[n].due = l.due
=============================================================================

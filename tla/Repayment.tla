----------------------------- MODULE Repayment ------------------------------
(***************************************************************************)
(* Repayment of one disbursed loan: RepaymentService.repay_loan, called by *)
(* the repayment view and by the mobile-money handler, and the overdue job *)
(* sync_overdue_loans (manage.py refresh_loan_overdues).                   *)
(*                                                                         *)
(* Each of them first reads the loan row without a lock and at the end     *)
(* saves status, amount_paid and remaining_balance computed from that      *)
(* image.  In between repay_loan works on installments it has locked, so a *)
(* payer reads the loan, then applies.  The job also reads the overdue     *)
(* installments before it charges them: it reads the loan, lists the       *)
(* installments, then applies.  Amounts are natural numbers (cents).       *)
(* Installment i falls due at the end of day i.                            *)
(***************************************************************************)
EXTENDS Integers, FiniteSets, Functions

CONSTANTS
  N,        \* number of installments
  Due,      \* amount_due of each installment
  LateFees, \* late fees the loan product may set
  Amounts,  \* amounts borrowers repay
  Payers,   \* calls of repay_loan
  Job,      \* the overdue job
  LastDay   \* bound on the days that pass

Numbers == 1..N
Workers == Payers \cup {Job}

ASSUME RepaymentAssumptions ==
  /\ N \in Nat \ {0} /\ LastDay \in Nat
  /\ Due \in [Numbers -> Nat] /\ \E i \in Numbers : Due[i] > 0
  /\ LateFees \subseteq Nat
  /\ Amounts \subseteq Nat \ {0}
  /\ Job \notin Payers

VARIABLES
  lateFee,             \* loan_product.effective_late_fee_amount
  today,
  paid, fee, feePaid,  \* installments: amount_paid, late_fee_amount, late_fee_paid
  mark,                \* installments: status
  status, amountPaid, remaining,  \* the loan row
  repaid,              \* sum of the loan's LoanRepayment rows
  image,               \* the loan row each worker has read, if any
  listed,              \* the status of each installment the job has listed
  overlapped           \* history: a loan was read while a worker held another image

schedule == <<paid, fee, feePaid, mark>>
loan     == <<status, amountPaid, remaining>>
vars     == <<lateFee, today, paid, fee, feePaid, mark, status, amountPaid, remaining,
              repaid, image, listed, overlapped>>

LoanStatus == {"ACTIVE", "OVERDUE", "PAID_OFF"}
Marks      == {"PENDING", "PARTIAL", "PAID", "OVERDUE"}
Nothing    == [i \in Numbers |-> "none"]
NoImage    == [status |-> "none", amountPaid |-> 0, remaining |-> 0]

Total == SumFunctionOnSet(Due, Numbers)

\* The loan as LoanService.disburse_loan leaves it.
Init ==
  /\ lateFee \in LateFees
  /\ today = 0
  /\ paid = [i \in Numbers |-> 0]
  /\ fee = [i \in Numbers |-> 0]
  /\ feePaid = [i \in Numbers |-> 0]
  /\ mark = [i \in Numbers |-> "PENDING"]
  /\ status = "ACTIVE" /\ amountPaid = 0 /\ remaining = Total
  /\ repaid = 0
  /\ image = [w \in Workers |-> NoImage]
  /\ listed = Nothing
  /\ overlapped = FALSE

-----------------------------------------------------------------------------
Least(x, y) == IF x < y THEN x ELSE y
Floor0(x) == IF x < 0 THEN 0 ELSE x

\* LoanInstallment.late_fee_balance and remaining_balance.
LateFeeBalance(i) == Floor0(fee[i] - feePaid[i])
InstallmentBalance(i) == (Due[i] - paid[i]) + LateFeeBalance(i)
Balances == [i \in Numbers |-> InstallmentBalance(i)]
Owed == SumFunctionOnSet(Balances, Numbers)

\* Installments past their date with principal or late fee unpaid.
Overdue == {i \in Numbers : i < today /\ (paid[i] < Due[i] \/ feePaid[i] < fee[i])}

\* Loan.sync_running_balances and the status RepaymentService._refresh_loan_status
\* derives from it, on the loan object that is being saved.
FeeDue == SumFunctionOnSet([i \in Numbers |-> LateFeeBalance(i)], Numbers)
RunningBalanceNoFloor == Total + FeeDue - amountPaid
RunningBalance == Floor0(Total + FeeDue - amountPaid)
RefreshedStatusOpen == IF Overdue # {} THEN "OVERDUE" ELSE "ACTIVE"
RefreshedStatus ==
  IF RunningBalance = 0 THEN "PAID_OFF"
  ELSE IF Overdue # {} \/ FeeDue > 0 THEN "OVERDUE" ELSE "ACTIVE"

SaveLoan(a) ==
  /\ amountPaid' = a
  /\ remaining' = RunningBalance'
  /\ status' = RefreshedStatus'

\* What an amount a leaves for installment i, the earlier ones served first.
LeftForEach(i, a) == a
LeftFor(i, a) == Floor0(a - SumFunctionOnSet(Balances, 1..(i - 1)))

\* The allocation loop of repay_loan: principal, then late fee, oldest first.
\* An amount it cannot place is refused and the transaction rolls back.
ToPrincipal(i, a) == Least(Due[i] - paid[i], LeftFor(i, a))
ToFee(i, a) == Least(LateFeeBalance(i), LeftFor(i, a) - ToPrincipal(i, a))

\* RepaymentService._update_installment_status for the installments reached,
\* then the update of the overdue ones in _refresh_loan_status.
MarkOf(i) ==
  IF InstallmentBalance(i) = 0 THEN "PAID"
  ELSE IF i < today THEN "OVERDUE"
  ELSE IF paid[i] > 0 \/ feePaid[i] > 0 THEN "PARTIAL" ELSE "PENDING"

Allocate(a) ==
  /\ a <= Owed
  /\ UNCHANGED <<today, fee>>
  /\ paid' = [i \in Numbers |-> paid[i] + ToPrincipal(i, a)]
  /\ feePaid' = [i \in Numbers |-> feePaid[i] + ToFee(i, a)]
  /\ mark' = [i \in Numbers |->
       IF LeftFor(i, a) > 0 \/ i \in Overdue' THEN MarkOf(i)' ELSE mark[i]]
  /\ repaid' = repaid + a

-----------------------------------------------------------------------------
\* A worker reads the loan row: the repayment view, the payment handler, or
\* the job's query for ACTIVE and OVERDUE loans.
ReadLoan(w) ==
  /\ image[w] = NoImage
  /\ status \in {"ACTIVE", "OVERDUE"}
  /\ image' = [image EXCEPT ![w] =
       [status |-> status, amountPaid |-> amountPaid, remaining |-> remaining]]
  /\ overlapped' = (overlapped \/ image # [v \in Workers |-> NoImage])
  /\ UNCHANGED <<lateFee, today, schedule, loan, repaid, listed>>

Finish(w) ==
  /\ image' = [image EXCEPT ![w] = NoImage]
  /\ listed' = IF w = Job THEN Nothing ELSE listed
  /\ UNCHANGED <<lateFee, overlapped>>

\* RepaymentService.repay_loan.
RepayLoan(w, a) ==
  /\ image[w] # NoImage
  /\ a <= image[w].remaining
  /\ Allocate(a)
  /\ SaveLoan(image[w].amountPaid + a)
  /\ Finish(w)

\* A refused repayment, or a worker that dies: its transaction rolls back.
GiveUp(w) ==
  /\ image[w] # NoImage
  /\ Finish(w)
  /\ UNCHANGED <<today, schedule, loan, repaid>>

\* RepaymentService.sync_overdue_loans for this loan: a loan read with nothing
\* left is closed, otherwise the overdue installments are read.
CloseSettled ==
  /\ image[Job] # NoImage /\ image[Job].remaining <= 0
  /\ status' = "PAID_OFF"
  /\ Finish(Job)
  /\ UNCHANGED <<today, schedule, amountPaid, remaining, repaid>>

ListOverdue ==
  /\ image[Job].remaining > 0 /\ listed = Nothing
  /\ Overdue # {}
  /\ listed' = [i \in Numbers |-> IF i \in Overdue THEN mark[i] ELSE "none"]
  /\ UNCHANGED <<lateFee, today, schedule, loan, repaid, image, overlapped>>

\* The job saves the loan with the amount_paid it has read.
SaveImage(word) ==
  /\ amountPaid' = image[Job].amountPaid
  /\ remaining' = RunningBalance'
  /\ status' = word

NoneOverdue ==
  /\ image[Job].remaining > 0 /\ listed = Nothing
  /\ Overdue = {}
  /\ UNCHANGED <<today, schedule, repaid>>
  /\ SaveImage("ACTIVE")
  /\ Finish(Job)

\* Each listed installment without a late fee gets one, saved with the status
\* it was read with; then those overdue now are marked.
ChargeOverdue ==
  LET Charged == {i \in Numbers : listed[i] # "none" /\ fee[i] = 0}
  IN /\ listed # Nothing
     /\ UNCHANGED <<today, paid, feePaid, repaid>>
     /\ fee' = [i \in Numbers |-> IF i \in Charged THEN lateFee ELSE fee[i]]
     /\ mark' = [i \in Numbers |->
          IF i \in Overdue' THEN "OVERDUE"
          ELSE IF i \in Charged THEN listed[i] ELSE mark[i]]
     /\ SaveImage("OVERDUE")
     /\ Finish(Job)

SyncOverdue == CloseSettled \/ ListOverdue \/ NoneOverdue \/ ChargeOverdue

DayPasses ==
  /\ today < LastDay
  /\ today' = today + 1
  /\ UNCHANGED <<lateFee, schedule, loan, repaid, image, listed, overlapped>>

Next ==
  \/ \E w \in Payers : \E a \in Amounts : RepayLoan(w, a)
  \/ \E w \in Workers : ReadLoan(w) \/ GiveUp(w)
  \/ SyncOverdue
  \/ DayPasses

Spec == Init /\ [][Next]_vars

-----------------------------------------------------------------------------
(* Properties. *)

\* Every variable has its type; balances never go negative.
TypeOK ==
  /\ lateFee \in LateFees /\ today \in 0..LastDay
  /\ paid \in [Numbers -> Nat] /\ fee \in [Numbers -> Nat]
  /\ feePaid \in [Numbers -> Nat] /\ mark \in [Numbers -> Marks]
  /\ status \in LoanStatus /\ amountPaid \in Nat /\ remaining \in Nat
  /\ repaid \in Nat
  /\ image \in [Workers -> [status : LoanStatus \cup {"none"},
                            amountPaid : Nat, remaining : Nat]]
  /\ listed \in [Numbers -> Marks \cup {"none"}]
  /\ overlapped \in BOOLEAN

\* Whoever overlaps whom: the installments hold what was repaid; one has money only
\* if the principal of all earlier ones is paid in full, and none gets more than it
\* is due; those marked PAID owe nothing; and a loan with an unpaid late fee is
\* OVERDUE until it is closed.
InstallmentsSound ==
  /\ repaid = SumFunctionOnSet([i \in Numbers |-> paid[i] + feePaid[i]], Numbers)
  /\ \A j \in Numbers :
       /\ paid[j] <= Due[j] /\ feePaid[j] <= fee[j]
       /\ paid[j] + feePaid[j] > 0 => \A i \in 1..(j - 1) : paid[i] = Due[i]
       /\ mark[j] = "PAID" => InstallmentBalance(j) = 0
  /\ (status # "PAID_OFF" /\ FeeDue > 0) => status = "OVERDUE"

\* As long as the calls come one after another: the late fee of an installment is
\* settled before the next one gets anything; the loan row has recorded every
\* repayment; what it asks for can be placed on the installments, so that a
\* repayment of the remaining balance is never refused, and without late fees is
\* exactly what they owe; and a loan whose installments are all paid is closed.
OldestFirst ==
  \A j \in Numbers : paid[j] + feePaid[j] > 0 =>
    \A i \in 1..(j - 1) : InstallmentBalance(i) = 0
SerialSound ==
  ~overlapped =>
    /\ OldestFirst
    /\ amountPaid = repaid
    /\ remaining <= Owed /\ (lateFee = 0 => remaining = Owed)
    /\ Owed = 0 => status = "PAID_OFF"
=============================================================================

# Verification of vikoba-api

`vikoba-api` is a Django service for savings groups (*vikoba*): members save,
borrow and repay, leaders approve loans, money moves through ClickPesa mobile
money, and meetings are held over LiveKit. This directory holds TLA+ models of
its money paths, TLC configurations that check them on small instances, and
TLAPS proofs. Every definition is translated from the code under `src/`;
`PROJECT.json` maps each one to its lines.

## 1. Inventory

The service runs as several worker processes on PostgreSQL (SQLite in
development). No view is wrapped in a transaction unless the code says so
(`ATOMIC_REQUESTS` is not set), so most handlers are: read a row, check it,
then call a service that opens `transaction.atomic`. Concurrency is between
HTTP requests, ClickPesa and LiveKit webhooks, and management commands.

| Component | State | Operations | Interacts with |
| --- | --- | --- | --- |
| Loan payout (`payments/services/payout_service.py`) | `PaymentTransaction`, `PayoutRequest`, the group's payment `Wallet` | preview, initiate (validate, reserve, call, record), demo release, settle, release | ClickPesa; disburses and reverses loans |
| Payment webhooks (`webhook_service.py`) | `WebhookEvent` | deduplicate, find the transaction, apply a status word | calls payout and collection |
| Collection (`collection_service.py`, `views/payment.py`, handlers) | `PaymentTransaction`, `CollectionRequest`, payment `Wallet` | initiate, record the answer, credit, dispatch to finance | ClickPesa; contributions, repayments, fines |
| Repayment (`repayment_service.py`) | `Loan`, `LoanInstallment`, `LoanRepayment` | repay, allocate, refresh status, overdue job | called by views, collection and a command |
| Loan lifecycle (`loan_service.py`, `views/loan.py`) | `Loan` | request, approve, reject, disburse, reverse, schedule | reads contributions; called by payout |
| Contributions, fines | `Contribution`, `Fine`, `FinePayment` | create, verify, issue, pay | called by collection |
| Finance wallets and ledger | `GroupWallet`, `MemberWallet`, `Transaction`, `LedgerEntry` | rebuild sums, append entries | read by the payout's validation |
| Groups | `Group`, `GroupInvitation`, `GroupMembership` | create, invite, request, respond, cancel, change role, remove | its roles guard every other component |
| Meetings | `Meeting`, `ParticipantSession`, `Attendance`, agenda, minutes, notes | schedule, start, end, join, leave, finalize | LiveKit webhooks call join and leave |
| Accounts | JWT cookies, blacklist | login, refresh, verify, logout | every request |
| Notifications, email | `Notification` | best-effort messages | called by all, read by none |

What is hard in it, in order of what it costs when it goes wrong:

1. *Money in two systems.* ClickPesa executes an order whether or not its
   answer arrives; webhooks come late, again, together and out of order; a
   worker saves a status from an object it read before the call. A payout must
   not be made twice nor its reservation be released while it can still pay.
2. *Stale row images.* Loans are read without a lock and saved whole later
   (repayments, the overdue job, approval).
3. *Two sets of books.* The payment wallet and the finance books are changed
   by different services that must commit together.
4. *Arithmetic.* Balances that mix principal and late fees, floors at zero,
   installment rounding.
5. *Sessions and seats.* Join, leave and end of a meeting race; invitations
   are answered from two sides; one chairperson.

Correctness, per component: *payout* - one payment per loan, reserved cash is
spent or returned once, the loan is active exactly when it was paid; *collection*
- a payment is credited and recorded once, only when ClickPesa took the money;
*repayment* - allocated money equals repaid money, oldest installment first, the
loan closes exactly when nothing is owed; *lifecycle* - loan limits hold,
decisions are final; *groups* - one chairperson, no membership without consent;
*meetings* - one open session per user, none after the end, attendance derived
from sessions.

## 2. Plan

| Order | Modules | Part | Status |
| --- | --- | --- | --- |
| 1 | `Payout`, abstract `Escrow`, `PayoutProofs` | loan payouts, payment wallet, webhooks | checked, eight theorems |
| 2 | `Collection`, abstract `Till`, `CollectionProofs` | mobile-money payments in, webhooks | checked, six theorems |
| 3 | `Repayment`, `RepaymentProofs` | allocation, late fees, overdue job | checked, three theorems |
| 4 | `Attendance`, `MeetingProofs` | meetings, sessions, LiveKit webhooks | checked, five theorems |
| 5 | `Membership`, `MembershipProofs` | groups, invitations, roles | checked, four theorems |
| 6 | `LoanTerms`, `LoanLifecycle`, `LoanLifecycleProofs` | interest, schedules, requests, decisions | checked, four theorems |
| 7 | `Wallets`, `WalletsProofs` | contributions, fines, stored wallets, ledger | checked, five theorems |
| 8 | `Documents`, `MeetingProofs` | agenda, minute sections, notes, minutes | checked, four theorems |
| - | `SumTheorems` | lemmas on sums, for the proofs above | proved |

Each `MC` module gives its module's constants values for TLC and the symmetry of
the instance. A session module was planned and dropped: which token is accepted
is decided in the token library, the views keep no state of their own.

Left to do: group settings, fine categories and standalone notes; changes of
membership during a meeting.

## 3. The modules

### Payout

One group: its wallet (`balance`, `available`, `reserved`), its loans, and the POSTs
that release them. A request's worker moves through `pc`: `ValidatePayout` (the loan
read without a lock, and the quoted fee), `ReservePayout` or `RefusePayout` (the
first atomic block with the partial unique constraint `unique_active_loan_payout`),
`SubmitPayout` (the network call), `FinishPayout` (ambiguous error, rejection, or an
answer with a status), and `RequestDies` between any two. Loans begin undecided.
Approval, rejection and repayments save a loan read earlier without a lock:
`disputed` are the loans whose decision a second leader can still make
(`DecideLoan`, `DecideAgain`), `held` those that a repayment or the overdue job has
read while they were out (`ReadUnpaid`, `SaveUnpaid`); `disbursed` are those whose
`disbursed_at` is set. ClickPesa is `prov`: an order is lost, rejected or accepted,
then paid or failed, and what was paid may be returned. Its webhooks are a set `net`
of payloads that may be delivered in any order, again, and concurrently. A delivery
reads the transaction's status (`ReadEvent`), and later applies the word
(`ApplyEvent`), is answered `ALREADY_SUCCESS`, or fails and rolls back.
`SimulateLoanPayout` is the demo release. `Orderly` restricts webhooks to come in
order, one at a time and after the call, for the properties that hold only then.

`Escrow` says what the wallet promises: a cost is held once, then spent once or
returned once. `Payout` is mapped to it (`ImplementsEscrow`): the status of a
request's row is the stage of its escrow.

### Collection

The same shape for money coming in: `InitiateCollection`, `SubmitCollection`,
`FinishCollection`, `WorkerDies`; webhook deliveries as above with the
collection branch of `WebhookService`. `Receive` is
`process_successful_collection`: status, credit and the finance record of the
purpose's handler in one transaction. A handler that raises disables the step,
and `EventFails` is its rollback. `RecordCash` is money handed over directly.
`AfterCall` keeps webhooks until the collect call is over. `Till` is the
abstract promise: each payment asked for is banked at most once, for its amount.
A repayment checks the balance on a loan row read without a lock: `rows` holds the
values `amount_paid` has had, and `RepayLoan` takes any of them for its check and for
what it saves, while the installments, under their locks, refuse what they cannot
take (`recorded`);
`Abstract` in `Collection` is the mapping (banked is what has been received, the
till is the wallet's balance).

### Repayment

One loan with its installments. Each worker (`Payers`, and the overdue `Job`)
first reads the loan row (`ReadLoan`); `RepayLoan` then allocates under the
installments' locks and saves the loan from the image it read. The job reads the
overdue installments (`ListOverdue`), then charges them (`ChargeOverdue`). The history
variable `overlapped` remembers that a loan was read while another call was
under way. The allocation loop is stated per installment: what the earlier
ones leave of the amount (`LeftFor`), then principal, then late fee.

### Attendance

One meeting (`meeting`), its `ParticipantSession` rows and its attendance rows. A
handler (`call`) starts with `Read`, the unlocked read of the meeting and the
check of its status, and keeps that image. Start, end and PATCH then save the
meeting (`SaveMeeting`); a started meeting gets its rows (`Initialize`) and the
host joins. The services are transactions in three steps: they take locks on open
sessions and decide what to change (`Join`, `Leave`, `Finalize`, `Recount`),
`sync_meeting_attendance` reads and computes (`Count`), and everything is written
and committed (`Write`). `GiveUp` is a dead worker or the unique constraint of
attendance rows. The history variable `mishaps` remembers stale saves,
overlapping transactions, joins committed after the end and finalizations cut
short, so that each property can say which of them it survives: presence and
`Repaired` all of them, `ClosedAtEnd` overlaps, `OneOpenUncrossed` stale images.

### Wallets

The other set of books. A transaction (`Begin`) is a list of things left to do
(`Plan`): the rows of its operation (`Write`: contributions, verification, payout,
repayment, reversal, overdue job, fine, fine payment, or none for a preview), then
wallets to rebuild in the order the service does. A rebuild reads its sums
(`Look`), without a lock, and saves them (`Store`), which waits for whoever saved
that wallet and has not committed; `Commit` makes rows, wallets and ledger entry
visible together, `GiveUp` none of them. `NextLoan` is the overdue job going on to
another loan in the same transaction, `Remove` the cascade of a removed member.
What a transaction sees is what is committed and what it wrote itself, as under
READ COMMITTED. `Payout` and `Collection` stop where they call these services;
`Wallets` starts there, with the payment wallet left out.

### Membership

The members and invitations of one group from its founding. A request (`call`)
begins with its reads and checks (`Ask`: one action per view), keeps the row or
invitation it read, and then saves in one or two statements: `SeatFounder` after the
group, `SaveAnswer` and then `Admit`, `SaveMember` of the columns named in
`update_fields`, `DeleteMember`. Rows have ids, because a row that was deleted and
made again is another one to a request that holds the old. `Strangers` are emails
without an account: they can be invited, a manager can accept for them, and then
`Admit` seats nobody (`if target_user`). `RequestToJoin` is `get_or_create`, which
reopens an old invitation; `GiveUp` is a dead worker, a unique constraint, or an
answer that is refused.

### LoanTerms and LoanLifecycle

`LoanTerms` is the arithmetic: interest rounded to the cent with ties to even,
due dates by days, weeks or calendar months (clipped at the end of a month), and
installments of a rounded share with the remainder in the last. `LoanLifecycle` has
the product, its edits and deletion, and the loans: `CountLoans` and `CreateLoan`
are the two halves of `request_loan`; `ReadLoan` and `Approve` or `Reject` those of
a decision; `ReadOut` and `Repay` or `SyncOverdue` those of a repayment and the overdue
job, which save the status they make of a loan they read without a lock. `Reverse` is
a payout taken back. `Disburse` makes
the schedule, with the terms the product has by then, since
`_generate_installments` reads duration and count from the product and the total
from the loan. The calendar ends somewhere (`LastMonth`); `Reaches` assumes that
every product's last due date is still in it. How much a repayment pays is up to
`Repayment`: here it may close the loan, catch up or fall behind. The mishap `late`
is a loan reversed or paid off while a repayment or the job still held it as it was.

### Documents

One meeting's agenda, minute sections, notes and minutes. Nothing here opens a
transaction: each request reads a row, changes the columns it names (`Says`) and
saves it whole (`ReadItem`, `TrackCompletion`, `SaveItem`; `ReadSection`,
`Deactivate`, `SaveSection`). An item may be created completed, and nothing stamps it
then (the mishap `born`). A POST of minute sections without a body makes one
for each active agenda section, one statement each (`ListAgenda`, `FillSection`).

## 4. The runs

Passing:

| Run | Question | Instance |
| --- | --- | --- |
| `PayoutChaos` | Can any interleaving pay a loan twice, release cash that can still pay, activate an unpaid loan, record a success without its loan? Does the wallet stay balanced and backed? | 1 loan, 2 requests, 4 status words, one fee, cash for two payouts; leaders and repayments that save late |
| `PayoutOrderly` | With webhooks in order, does the wallet implement `Escrow`, and is every outcome recorded (liveness)? | 1 loan, 2 requests, 2 payloads per word, demo releases |
| `CollectionChaos` | Is only money ClickPesa took recorded, within what was credited, no loan closed before it is repaid, and each answered payment credited once? | 1 loan, 2 payments, 4 words, cash repayments |
| `CollectionAfterCall` | Is each payment banked exactly once (`Till`), and is every payment taken received (liveness)? | contribution and fine, 2 payments, reversals |
| `RepayRaces` | What stays right on installments and status under overlapping calls, and what on the loan row without overlap? | 2 payers, overdue job, 3 installments, late fee 0 or 1, 4 days |
| `AttendanceRaces` | Is nobody present who did not come, does the end close every session, do finalizing and recalculating repair lost updates? | a host and a member, 2 handlers at a time without limit on their number, 2 sessions, 2 instants |
| `WalletsOverlap` | Do stored wallets, ledger and fines agree with the rows, and can two rebuilds wait for each other? | 2 members, 2 transactions open, 5 in all |
| `MembershipRaces` | Does the chairperson keep the seat, does an answer stand, do invitations and memberships agree? | a founder, 2 others and an email without account, 2 requests at a time, 6 in all, 2 invitations |
| `LoanDecisions` | Do decisions stand, is the limit on loans kept, is each schedule right? | 1 borrower with a limit of 1, 2 loans, 3 products, end of January and mid-March, 2 requests or overdue jobs at a time |
| `DocumentsEdits` | Is one section active, is completion stamped, is nothing undone in passing? | 2 sections, 1 item, 2 requests at a time, 7 in all |

Two requests are enough for the races of payout and collection because every
guard and constraint relates a transaction to at most one other of the same
target; one loan is where they meet. Two payloads of one word are the smallest
instance in which a duplicate is not removed by the payload hash. Amounts of
1 to 3 reach under-, exact and overpayment of installments of 2, and one amount
that crosses principal, late fee and the next installment.

Two handlers at a time are enough for every race between a pair, stale images
included, because one may wait while the other slot runs any number of handlers.
Two sessions are a duplicate, or a rejoin, or one each; two instants tell before
the end of the meeting from after it. Five transactions reach a loan that is paid
out, overdue, repaid with its late fee, and reversed; six requests found a group,
invite and answer, remove the member and let an old request save. The three
products have interest that is a tie, shares so small that their rounding outweighs
the last, and no duration at all; a loan of January 31st is where adding a month
clips the day.

Many properties carry a condition that names what breaks them, kept in a history
variable (`mishaps`, or `overlapped` in `Repayment`). They say what the code
guarantees and what it owes to requests not overlapping: `EscrowBacked` holds until
a PROCESSING or return word is applied or one order's word is applied from two
payloads (`OnlySettled`: both deliveries may have read the row before either
released its funds; two successes are harmless unless a late approval lets the
second debit the wallet again, so they count only for a loan that is disputed),
`SuccessIsDisbursed` until a late decision overwrites the loan, `CreditedOnce` until
a collect call is answered by an error or not at all, `SerialSound` until two calls
overlap, `WalletsExact` until two transactions overlap of which one rebuilds a
wallet only once, `AnswerStands` until two requests about one person cross,
`DecisionStands` until two decisions on a loan do, `LimitKept` until two requests or
two decisions of a borrower do, and both excuse what a loan does after it was
reversed or paid off under a request that held it (`late`). An item created
completed has no completion time (`born`), and an edit that leaves `completed` out
takes it away (`silent`). In the same runs TLC finds a violation when a condition is
dropped; the list below says of which kind. `OutcomeRecorded` excepts loans that the
demo endpoint released, or a late decision overwrote, while a real payout was in
flight. So a hazard whose failing case such a condition excludes is not claimed for
that property in `PROJECT.json`; its note says so.

Runs that end in a counterexample, each a disagreement between the code and a
sentence of its docs or messages (`findings` in `PROJECT.json` quotes it):

| Run | What it shows |
| --- | --- |
| `PayoutReversalIgnored` | A refund after SUCCESS is answered and dropped. |
| `JoinUnapproved` | Who asks to join by reopening an old invitation may accept it alone. |

Seen in the models without a run of its own:

- *Payments*: a late PROCESSING word revives a failed payout, whose cash is then
  released twice; a lost answer overwrites a received payment with FAILED, and the
  next word credits it again; a payout call lost before ClickPesa leaves its
  reservation for ever (reconciliation is a stub); a repayment above the balance
  raises on every delivery of its webhook.
- *Loans*: a late fee that was paid lowers the balance twice, so the loan closes
  early; the overdue job erases a repayment from the loan row; a repayment or the
  job that read a loan before it was reversed or paid off brings it back, beyond the
  borrower's limit too; a leader who read a loan while it was pending approves it
  again after it was paid out (`approve_loan` saves whatever the check in
  `views/loan.py:139` once saw), or rejects it, and if its payout is still on the way
  that can then never be recorded; two requests, or two decisions, of one borrower
  pass the same check; the last installment of a tiny loan is negative.
- *Wallets and ledger*: an amount is lost from the group's wallet when two
  transactions overlap and the second rebuilds it once, until the next
  contribution; a reversed payout posts no ledger entry.
- *Meetings*: two overlapping joins open two sessions (the lock locks nothing); a
  join committed after the end stays open until that user's `participant_left`; a
  PATCH of a meeting saves the status it read, so it can undo an end.
- *Groups*: an administrator can accept an invitation whose email has no account; it
  is ACCEPTED and nobody joins.
- *Documents*: overlapping edits make two sections active, restore a deleted item
  and duplicate a note; an edit that leaves out `completed` clears the
  completion time, and an item created completed never gets one.

## 5. Fairness

`FairSpec` of `Payout` and `Collection` assumes weak fairness of the gateway's
answer (a timeout is an answer), of a worker finishing or dying, of ClickPesa
settling an order it accepted, and of redelivering an unanswered webhook; and
strong fairness of a delivery being applied, since a delivery may be aborted
(deadlock victim, restart) any number of times but not always. A worker that
has not called ClickPesa yet has no fairness: it may simply die. Safety runs
use `Spec` without fairness. `CHECK_DEADLOCK FALSE` is set because requests are
finite: when all are done the model stops, as the service idles.

## 6. Proofs

No theorem assumes anything of the size of an instance: sets of users, loans,
payments, requests and calls, amounts, bounds, dates and webhooks are arbitrary,
under the named assumptions on the constants of each module. Those assumptions are:

- sets that are summed over are finite (loans, requests, payments, targets; a
  database is), and amounts, fees and opening balances are naturals, or positive
  where the serializers ask for it; some installment of a loan is positive, because
  its principal is;
- agenda sections are numbered from 1;
- webhooks carry status words the service knows; the host, the founder, the job and
  the group's wallet are not also members, and the roster lists members;
- `LoanTerms`' calendar reaches the last due date of every product.

Besides these, only `EscrowImplemented` has hypotheses: `Orderly`, and no PROCESSING
among the hooks, because a PROCESSING word that ClickPesa sends late revives a
settled row. They are the instance of `PayoutOrderly`. `TillImplemented` likewise is
about `AfterCall`, the instance of `CollectionAfterCall`.

**Sums.** Balances are compared with sums of rows, and `SumFunctionOnSet` is a fold
over sets. The library's induction theorems take an operator, which the provers
cannot instantiate, so `SumTheorems` states induction over a set instead (a property
is the set of numbers that have it: `Induction`, `SetInduction`), proves that the
fold exists and is unique, and from that the laws the other modules cite: a sum with
an element added, removed or changed (`SumAdd`, `SumRemove`, `SumChange`), of equal,
smaller or added functions (`SumSame`, `SumLeq`, `SumPlus`), over a union or a subset.

**`PayoutProofs`.** `TypeCorrect`; `OneActive`, `ReleasedIsFinal`, `PaidOnce`,
`ActiveIsPaid`, `SuccessesDisbursed`; `WalletBacked` (`EscrowBacked`);
`EscrowImplemented`.

`PaidOncePerLoan` speaks of ClickPesa's orders, which no guard of the code can
see, so it is far from inductive. The invariant `OrderInv` links the two sides
through what the service has been told: `WorkerInv` (where a worker is bounds
what its order can be and whether its row exists), `WordsInv` (every payload sent
and every answer held is true of its order, and orders only move on), and
`BooksInv` (an order that may have paid has a row in an active status, a released
row has a dead order, at most one row per loan is active). Each action is
shown to keep each part; the theorems follow.

For `EscrowBacked`, two sets of requests are read off statuses and applied webhooks:
`Charged`, those whose cost has left the available cash, and `Holding`, those whose
cost is in reserve. `CashInv` says that available cash plus the sum of the charged is
the opening cash, and that the reserve is the sum of the holding. A worker's late save
can overwrite what a webhook did to a status, so a status alone does not say where the
money is; `LateInv` says what it can be until the worker is done. For each action the
proof says which request enters or leaves a set, so that its total changes the sum by
what the wallet moved. `EscrowImplemented` replaces `LateInv` by `OrderlyInv`: until the
call is over no webhook is applied, and then a delivery acts alone on the status it
has read. Each step of `Payout` is then one of `Escrow` or a stutter.

**`CollectionProofs`.** `TypeCorrect`; `ClosedLoansRepaid`: no value that
`amount_paid` ever had exceeds what is on the installments, and those never hold more
than is due, although every balance is checked on a stale row (each repayment adds its
amount to an earlier value and to what the installments hold); `OnlyPaid`,
from an invariant that every SUCCESS word sent is true of its order; `BooksInWallet`
(all of `BooksWithinWallet`), from `BookInv`: a contribution is paid with its exact
amount, and the books hold no more of the gateway's money, summed over targets, than
the wallet; `PaymentsCreditedOnce`, with the sum over received payments; and
`TillImplemented`: under `AfterCall` each step of `Collection` is a step of `Till` or a
stutter. The refinement needs that a payment whose call is not over is not received,
or the worker's late save would unbank it; this is its invariant `CallInv`.

**`RepaymentProofs`.** `TypeCorrect`, `InstallmentsStaySound`, `SerialCallsSound`, for
any number of installments. The allocation is stated per installment, so the proof
first sums it: what the installments receive is the amount, or all that is owed if that
is less. The invariant `IInv` adds to `InstallmentsSound` the facts it leans on
(`ChargeInv`: the remaining balance is always recomputed, a late fee needs a due date
that has passed, what the job has listed was not paid), and, as long as no two calls
overlapped, `SerialInv`: at most one worker holds an image, it is the loan row, and the
row has recorded every repayment.

**`MeetingProofs`, attendance.** `TypeCorrect`, `EndClosesSessions`, `OneSessionEach`,
`RowsAtEnd`, `SyncRepairs`, for any members and any number of handlers and sessions.
The lemma `Steps` reduces the next-state relation to a few kinds of step. The parts
of `IInv` are: what the locks guarantee (`Locks`: a transaction closes only open
sessions that no other closes), what a handler's image allows it (`Images`), what the
times say without stale images (`TimedInv`), and what transactions that do not overlap
see (`AloneInv`). `ClosingInv` is why an end closes everything: until no session is
open, some handler still has to finalize, and one that has taken its locks holds
every open session. `WithinInv` is why nobody attends longer than the meeting runs:
an open session began after all the user's earlier attendance. `SettledInv` is why
the rows are right at the end. `SyncRepairs` needs none of the mishap conditions, only
that what was counted is still so when it is written.

**`MeetingProofs`, documents.** `DocumentsTypeCorrect`, `SectionsStaySound`,
`ItemsStaySound`, `SettledStays`: all that `DocumentsEdits` checks, for any agenda,
any sections and items and any number of requests. `Documents` names its parts apart
from those of `Attendance` (its calls are edits, its specification is
`DocumentsSpec`), so that one module extends both. `SectionsSound` and the rest are
not inductive: what is saved is what was read, so the images that requests hold
count as much as the rows. `DocumentsInv` adds `Typed`, the type of what a request
of each kind holds; `CurrentInv`: as long as no two edits overlapped, no two
requests are about one row, and what a request has read is still the row (for a
minute section, the row but for the active column it has cleared itself), or the row
has gone with its agenda section; `WorkingInv`: nothing is active between the
deactivation of all sections and the save of one; and `MarkInv`: a completed section
is stamped, also in the images, however requests overlap, as long as none was posted
completed. `SectionSteps` and `ItemSteps` reduce the next-state relation to the few
steps that set a column; all the others make rows, delete them, or leave sections,
items and notes alone.

**`WalletsProofs`.** `TypeCorrect`, `WalletsStayExact`, `CommitsRepair`,
`BooksStayAgreed`, `NoCycle`. The invariant has two halves. `Standing` says how open
transactions stand to the rows and to each other: what each relied on when it began
still holds, no wallet is held twice, which operations can overlap as long as no mishap
is recorded. `Worth` says what the sums they hold are worth: once an operation has read
the group's totals for the last time, they are those of the rows it sees. Whoever
commits a change after that holds the group's wallet, so nobody else's sums get in
between. `NoLockCycle` follows too: any holder of a wallet holds the group's, and
two cannot.

**`MembershipProofs`.** `TypeCorrect` with unique pending invitations, `SeatProtected`,
`AnswersStand`, `InvitationsAgree`. A request acts on a row it read earlier, which may
since have been deleted and made again. The type invariant therefore says that ids are
given out in order, so that no later row has the id of one a request holds (`IdsInv`);
`SeatInv`, that the row of a request to toggle, remove or change a role was not a
chairperson's and still is not where it stands; `AnswerInv`, that as long as no two
requests crossed, the invitation a request is about is still pending; `AcceptInv`, that
a saved acceptance has its membership, a request on its way to make it, or an email
without an account. `Fresh` is
what any of the eleven kinds of request has read when it begins.

**`LoanLifecycleProofs`.** `TypeCorrect`, `DecisionsStand`, `LimitStands`, `TermsStand`.
`CallInv` says what is still true of the loan a request is about: undecided while one
decision is being made, once paid out while a repayment or the overdue job has it, and
not yet at an end unless `late` is noted. Every step is one of
four to the statuses: nothing, a new loan, one loan's new status, or the deletion of
all. `LimitInv` counts: whoever has counted a borrower's loans leaves room for one
more. `TermsInv` keeps each loan's total and schedule tied to the terms that made them,
so `TermsHold` becomes arithmetic: installments sum to the total; the rounded shares of
all but the last exceed it only if twice the total is below n(n - 1); due dates grow
strictly in days, weeks and clipped months, and end on the promised date.

**Only model-checked.**

- *Liveness*: `OutcomeRecorded` and `PaidIsReceived`, which need fairness and ENABLED.
- *What is violated*: the two properties of the runs that end in a counterexample.

## 7. Abstractions, and what is not modelled

- A step is one database transaction, one network call, one statement outside a
  transaction, or one step of an external service. Row locks held over several
  statements make them one step.
- Amounts are small naturals (cents). `Decimal` quantisation is exact for sums;
  where the code rounds (interest, shares of a loan), `LoanTerms` does.
- The borrower's membership flags, permissions and input validation are refusals
  that change nothing; they appear as requests that do not start. In `Membership`
  they are the guards of `Ask`.
- `get_or_create` followed by a save of the row it made is one step in
  `Membership`; an edit of an agenda section is one step in `Documents`.
- Accounts created after the invitation (`Membership`), a minute section or item
  moved by a PATCH of its meeting or order (`Documents`) and a repayment above the
  balance under fairness (`CollectionAfterCall`) are left out.
- Checksums, tokens, notifications, emails, serializer output and the admin site
  change no state the properties read.
- Deleting a meeting, changes of membership while one runs, and the rounding of
  durations to minutes are left out of `Attendance`.

Not modelled:

- *Accounts and sessions.* Login, refresh, verify and logout move cookies; which
  token is valid is the library's decision. (A refresh rotates the refresh token but
  rewrites only the access cookie, so the next one sends a blacklisted token.)
- *Notifications and email.* Best-effort messages nothing else depends on.
- *Payment stubs.* Bodies that do nothing or are not called.
- *Group settings, fine categories, standalone notes, the audit log.* Rows that
  are written by one request and only read by others; loan limits and minimum
  savings, the settings with consequences, are constants of `LoanLifecycle`.
- *Administration, configuration, wiring.* No behaviour of their own.

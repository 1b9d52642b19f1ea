------------------------------- MODULE Wallets -------------------------------
(***************************************************************************)
(* The stored wallets of one group: GroupWallet and the MemberWallets,     *)
(* which finance/services/wallet_service.py rebuilds from contributions,   *)
(* loans, repayments and fines, and the ledger the same services post to.  *)
(*                                                                         *)
(* Every mutation is one transaction: it writes its rows and its ledger    *)
(* entries, then sums what it sees - rows committed by then and its own -  *)
(* into one wallet row after another.  Saving a row locks it until the     *)
(* transaction ends, but the sums were read before, without that lock.     *)
(* A transaction is a list of things left to do: "write", the group's      *)
(* wallet, a member's wallet.                                              *)
(*                                                                         *)
(* Amounts are units.  A member has at most one loan, of one installment,  *)
(* and one fine, and the handlers of one loan take turns: what stale       *)
(* images do to the loan row is modelled in Payout and Repayment.          *)
(***************************************************************************)
EXTENDS Integers, Sequences, FiniteSets, Functions

CONSTANTS
  Roster,      \* the group's memberships in the order rebuilds visit them
  Calls,       \* transactions that may be open at the same time
  Principal,   \* of a loan
  Repayable,   \* total_repayment_amount of a loan
  FineAmount,
  MaxCalls     \* bound on the transactions that begin

Members == Range(Roster)
Group   == "group"
Targets == Members \cup {Group}

ASSUME WalletsAssumptions ==
  /\ Roster \in Seq(Members)
  /\ Members \cap {Group, "write"} = {}
  /\ {Principal, Repayable, FineAmount} \subseteq Nat \ {0}
  /\ Principal <= Repayable
  /\ MaxCalls \in Nat

VARIABLES
  rows,    \* committed contributions, loan, repayments, fine of each member
  wallet,  \* committed GroupWallet and MemberWallet rows
  ledger,  \* debits less credits of each ledger account
  call,    \* open transactions
  begun,   \* number of transactions begun
  mishaps  \* history: what has happened that properties are conditional on

vars == <<rows, wallet, ledger, call, begun, mishaps>>

NoRows == [pending |-> 0, saved |-> 0, loan |-> "APPROVED", repaid |-> 0, fee |-> 0,
           feePaid |-> 0, fined |-> 0, finePaid |-> 0, fine |-> "none"]

\* A removed membership: everything that refers to it is deleted with it.
Gone == [NoRows EXCEPT !.loan = "gone"]

Unread == [read |-> FALSE]
Idle   == [op |-> "none", member |-> Group, todo |-> << >>, seen |-> Unread,
           stored |-> << >>, wrote |-> {}, closes |-> FALSE]

-----------------------------------------------------------------------------
SumOf(R, amount(_)) == SumFunctionOnSet([m \in Members |-> amount(R[m])], Members)

Disbursed(r) == r.loan \in {"ACTIVE", "OVERDUE", "PAID_OFF"}

\* rebuild_group_wallet: the four totals, the balance being their combination.
GroupSums(R) ==
  [savings    |-> SumOf(R, LAMBDA r : r.saved),
   repayments |-> SumOf(R, LAMBDA r : r.repaid),
   fines      |-> SumOf(R, LAMBDA r : r.finePaid),
   lent       |-> SumOf(R, LAMBDA r : IF Disbursed(r) THEN Principal ELSE 0)]

\* sync_running_balances: what is left of the total and an unpaid late fee.
Owed(r) ==
  LET left == Repayable + (r.fee - r.feePaid) - r.repaid
  IN IF left < 0 THEN 0 ELSE left

Balance(w) == w.savings + w.repayments + w.fines - w.lent

\* rebuild_member_wallet: only UNPAID fines are outstanding, at what is left of them.
MemberSums(R, m) ==
  [savings |-> R[m].saved,
   loan    |-> IF Disbursed(R[m]) THEN Owed(R[m]) ELSE 0,
   fine    |-> IF R[m].fine = "UNPAID" THEN R[m].fined - R[m].finePaid ELSE 0]

Sums(R, t) == IF t = Group THEN GroupSums(R) ELSE MemberSums(R, t)

Mishaps == {"group", "member",  \* transactions overlapped that may lose an amount in
                                \* the group's wallet, in a member's
            "fine",             \* two payments of one fine overlapped
            "job",              \* the overdue job ran
            "removed",          \* a member was removed,
            "undermined"}       \* ... while a transaction was open

Init ==
  /\ rows = [m \in Members |-> NoRows]
  /\ wallet = [t \in Targets |-> Sums(rows, t)]
  /\ ledger = [cash |-> 0, receivable |-> 0, savings |-> 0, penalty |-> 0]
  /\ call = [c \in Calls |-> Idle]
  /\ begun = 0
  /\ mishaps = {}

-----------------------------------------------------------------------------
\* What each service writes to the rows of its member.
Recorded(r)     == [r EXCEPT !.saved = @ + 1]
Verified(r)     == [r EXCEPT !.pending = @ - 1, !.saved = @ + 1]
PaidOut(r)      == [r EXCEPT !.loan = "ACTIVE"]
Reversed(r)     == [r EXCEPT !.loan = "PAYOUT_REVERSED"]
Charged(r)      == [r EXCEPT !.loan = "OVERDUE", !.fee = 1]
Fined(r)        == [r EXCEPT !.fined = FineAmount, !.fine = "UNPAID"]
FinePaid(r, closes) == [r EXCEPT !.finePaid = @ + 1, !.fine = IF closes THEN "PAID" ELSE @]

\* A repayment goes to the installment first, then to its late fee.
ToFee(r) == r.repaid - r.feePaid = Repayable
Repaid(r) ==
  LET paid == [r EXCEPT !.repaid = @ + 1, !.feePaid = IF ToFee(r) THEN @ + 1 ELSE @]
  IN [paid EXCEPT !.loan = IF Owed(paid) = 0 THEN "PAID_OFF" ELSE @]

Effect(op, r, closes) ==
  CASE op = "record"   -> Recorded(r)
    [] op = "verify"   -> Verified(r)
    [] op = "disburse" -> PaidOut(r)
    [] op = "repay"    -> Repaid(r)
    [] op = "reverse"  -> Reversed(r)
    [] op = "overdue"  -> Charged(r)
    [] op = "fine"     -> Fined(r)
    [] op = "payFine"  -> FinePaid(r, closes)
    [] op = "preview"  -> r

\* LedgerService.create_entry, with accounts as debits less credits.
Entry(L, debit, credit, amount) ==
  IF amount <= 0 THEN L ELSE [L EXCEPT ![debit] = @ + amount, ![credit] = @ - amount]

\* The entry of each operation on row r.  All of a repayment but the late fee goes
\* to the receivable, interest included; a reversed payout posts nothing.
PostAccrual(op, r, L) ==
  CASE op \in {"record", "verify"} -> Entry(L, "cash", "savings", 1)
    [] op = "disburse" -> Entry(L, "receivable", "cash", Principal)
    [] op = "repay"    -> Entry(L, "cash", IF ToFee(r) THEN "penalty" ELSE "receivable", 1)
    [] op = "fine"     -> Entry(L, "cash", "penalty", FineAmount)
    [] OTHER -> L
Post(op, r, L) ==
  CASE op \in {"record", "verify"} -> Entry(L, "cash", "savings", 1)
    [] op = "disburse" -> Entry(L, "receivable", "cash", Principal)
    [] op = "repay"    -> Entry(L, "cash", IF ToFee(r) THEN "penalty" ELSE "receivable", 1)
    [] op = "payFine"  -> Entry(L, "cash", "penalty", 1)
    [] OTHER -> L

\* The rows as transaction c sees them.
Visible(c) ==
  [m \in Members |-> IF m \in call[c].wrote THEN Effect(call[c].op, rows[m], call[c].closes)
                     ELSE rows[m]]

\* rebuild_group_member_wallets visits the group's wallet, then every member's.
MembersFirst == Roster \o <<Group>>
RebuildAll == <<Group>> \o Roster

\* Operations that read the group's totals only before they hold its wallet, and
\* those that rebuild a member's wallet without holding the group's.
Single    == {"repay", "reverse", "payFine", "preview"}
Unguarded == {"fine", "overdue"}

\* Contribution services rebuild the group's wallet once more before all of them,
\* and disburse_loan asks get_group_balance, which rebuilds it, before it writes.
PlanOnce(op, m) ==
  CASE op = "preview"     -> <<Group>>
    [] op \in Unguarded   -> <<"write", m>>
    [] OTHER              -> <<"write">> \o RebuildAll
Plan(op, m) ==
  CASE op \in {"record", "verify"} -> <<"write", Group>> \o RebuildAll
    [] op = "disburse"    -> <<Group, "write">> \o RebuildAll
    [] op = "preview"     -> <<Group>>
    [] op \in Unguarded   -> <<"write", m>>
    [] OTHER              -> <<"write">> \o RebuildAll

Ops == {"record", "verify", "disburse", "repay", "reverse", "overdue", "fine", "payFine",
        "preview"}
LoanOps == {"disburse", "repay", "reverse", "overdue"}

\* The status checks of the services.  A PAID fine may be paid again.
AllowedAgain(op, r) ==
  CASE op = "verify" -> r # Gone
    [] op \in {"disburse", "preview"} -> r.loan = "APPROVED"
    [] op \in {"repay", "overdue"} -> r.loan \in {"ACTIVE", "OVERDUE"}
    [] op = "reverse" -> r.loan = "ACTIVE"
    [] op = "fine" -> r.fine = "none" /\ r # Gone
    [] op = "payFine" -> r.fine # "none"
    [] op = "record" -> r # Gone
Allowed(op, r) ==
  CASE op = "verify" -> r.pending > 0
    [] op \in {"disburse", "preview"} -> r.loan = "APPROVED"
    [] op \in {"repay", "overdue"} -> r.loan \in {"ACTIVE", "OVERDUE"}
    [] op = "reverse" -> r.loan = "ACTIVE"
    [] op = "fine" -> r.fine = "none" /\ r # Gone
    [] op = "payFine" -> r.fine # "none"
    [] op = "record" -> r # Gone

Open(c) == call[c] # Idle
Others(c) == {d \in Calls \ {c} : Open(d)}

\* Another transaction is busy with this member's loan, contribution or new fine.
Busy(c, op, m) ==
  \E d \in Others(c) :
    /\ call[d].member = m \/ m \in call[d].wrote
    /\ \/ {op, call[d].op} \subseteq LoanOps
       \/ op = call[d].op /\ op \in {"verify", "fine"}

\* Which overlap, if any, begins with c.
Overlaps(c, op, m) ==
  LET ops == {call[d].op : d \in Others(c)}
      pair(A, B) == (op \in A /\ ops \cap B # {}) \/ (op \in B /\ ops \cap A # {})
  IN    {k \in {"group"}  : pair(Single, Ops \ Unguarded)}
   \cup {k \in {"member"} : pair(Unguarded, Ops \ {"preview"})}
   \cup {k \in {"fine"}   : op = "payFine" /\ \E d \in Others(c) :
                              call[d].op = "payFine" /\ call[d].member = m}
   \cup {k \in {"job"}    : op = "overdue"}

-----------------------------------------------------------------------------
\* create_contribution with status PENDING: no transaction row, no rebuild.
Pledge(m) ==
  /\ rows[m].pending = 0 /\ rows[m] # Gone
  /\ begun < MaxCalls
  /\ begun' = begun + 1
  /\ rows' = [rows EXCEPT ![m].pending = 1]
  /\ UNCHANGED <<wallet, ledger, call, mishaps>>

Begin(c, op, m) ==
  /\ ~Open(c)
  /\ Allowed(op, rows[m]) /\ ~Busy(c, op, m)
  /\ begun < MaxCalls
  /\ begun' = begun + 1
  /\ call' = [call EXCEPT ![c] = [Idle EXCEPT !.op = op, !.member = m, !.todo = Plan(op, m)]]
  /\ mishaps' = mishaps \cup Overlaps(c, op, m)
  /\ UNCHANGED <<rows, wallet, ledger>>

\* sync_overdue_loans goes on to another borrower's loan in the same transaction.
NextLoan(c, m) ==
  /\ call[c].op = "overdue" /\ call[c].todo = << >>
  /\ m \notin call[c].wrote
  /\ Allowed("overdue", rows[m]) /\ ~Busy(c, "overdue", m)
  /\ call' = [call EXCEPT ![c].member = m, ![c].todo = Plan("overdue", m)]
  /\ UNCHANGED <<rows, wallet, ledger, begun, mishaps>>

Doing(c, what) == call[c].todo # << >> /\ Head(call[c].todo) = what

\* The rows are written; create_fine_payment also sums the payments it sees.
Write(c) ==
  /\ Doing(c, "write") /\ rows[call[c].member] # Gone
  /\ LET r == rows[call[c].member]
     IN call' = [call EXCEPT ![c].todo = Tail(@), ![c].wrote = @ \cup {call[c].member},
                             ![c].closes = r.finePaid + 1 >= r.fined]
  /\ UNCHANGED <<rows, wallet, ledger, begun, mishaps>>

\* A rebuild reads its sums ...
Exists(t) == t \in Members => rows[t] # Gone

Look(c, t) ==
  /\ Doing(c, t) /\ call[c].seen = Unread /\ Exists(t)
  /\ call' = [call EXCEPT ![c].seen = [read |-> TRUE, sums |-> Sums(Visible(c), t)]]
  /\ UNCHANGED <<rows, wallet, ledger, begun, mishaps>>

\* ... and saves them, once no other transaction holds the wallet.
HeldBy(d, t) == t \in DOMAIN call[d].stored

Store(c, t) ==
  /\ Doing(c, t) /\ call[c].seen # Unread /\ Exists(t)
  /\ \A d \in Others(c) : ~HeldBy(d, t)
  /\ call' = [call EXCEPT ![c].todo = Tail(@), ![c].seen = Unread,
                          ![c].stored = [u \in DOMAIN @ \cup {t} |->
                                           IF u = t THEN call[c].seen.sums ELSE @[u]]]
  /\ UNCHANGED <<rows, wallet, ledger, begun, mishaps>>

Commit(c) ==
  /\ Open(c) /\ call[c].todo = << >>
  /\ rows' = Visible(c)
  /\ wallet' = [t \in Targets |-> IF HeldBy(c, t) THEN call[c].stored[t] ELSE wallet[t]]
  /\ ledger' = Post(call[c].op, rows[call[c].member], ledger)
  /\ call' = [call EXCEPT ![c] = Idle]
  /\ UNCHANGED <<begun, mishaps>>

\* Rebuilds do not visit a member who is gone.
Skip(c, t) ==
  /\ Doing(c, t) /\ ~Exists(t)
  /\ call' = [call EXCEPT ![c].todo = Tail(@), ![c].seen = Unread]
  /\ UNCHANGED <<rows, wallet, ledger, begun, mishaps>>

\* RemoveGroupMemberView deletes the membership and by cascade its contributions,
\* loans, fines and wallet.  It waits for transactions that refer to them; the
\* ledger and the group's wallet stay as they are.
Remove(m) ==
  /\ rows[m] # Gone
  /\ begun < MaxCalls
  /\ \A c \in Calls : m \notin call[c].wrote /\ ~HeldBy(c, m)
  /\ rows' = [rows EXCEPT ![m] = Gone]
  /\ wallet' = [wallet EXCEPT ![m] = MemberSums(rows', m)]
  /\ begun' = begun + 1
  /\ mishaps' = mishaps \cup {"removed"}
                        \cup {k \in {"undermined"} : \E c \in Calls : Open(c)}
  /\ UNCHANGED <<ledger, call>>

\* A worker dies, a later statement fails or the database breaks a deadlock.
GiveUp(c) ==
  /\ Open(c)
  /\ call' = [call EXCEPT ![c] = Idle]
  /\ UNCHANGED <<rows, wallet, ledger, begun, mishaps>>

Next ==
  \/ \E m \in Members : Pledge(m) \/ Remove(m)
  \/ \E c \in Calls :
       \/ \E op \in Ops, m \in Members : Begin(c, op, m)
       \/ \E m \in Members : NextLoan(c, m)
       \/ Write(c)
       \/ \E t \in Targets : Look(c, t) \/ Store(c, t) \/ Skip(c, t)
       \/ Commit(c)
       \/ GiveUp(c)

Spec == Init /\ [][Next]_vars

-----------------------------------------------------------------------------
(***************************************************************************)
(* Properties.                                                             *)
(***************************************************************************)

Without(kinds) == mishaps \cap kinds = {}

\* Every variable keeps its type, and no more is repaid of a loan and its late fee
\* than is due.
TypeOK ==
  /\ \A m \in Members :
       /\ rows[m].loan \in {"gone", "APPROVED", "ACTIVE", "OVERDUE", "PAID_OFF", "PAYOUT_REVERSED"}
       /\ rows[m].fine \in {"none", "UNPAID", "PAID"}
       /\ \A f \in {"pending", "saved", "fined", "finePaid"} : rows[m][f] \in Nat
       /\ rows[m].fee \in 0..1 /\ rows[m].feePaid \in 0..rows[m].fee
       /\ rows[m].repaid - rows[m].feePaid \in 0..Repayable
  /\ DOMAIN wallet = Targets
  /\ \A c \in Calls :
       /\ call[c].op \in Ops \cup {"none"}
       /\ call[c].wrote \subseteq Members
       /\ DOMAIN call[c].stored \subseteq Targets
       /\ Range(call[c].todo) \subseteq Targets \cup {"write"}
  /\ begun \in 0..MaxCalls
  /\ mishaps \subseteq Mishaps

\* The stored wallets agree with the rows they are rebuilt from.
\*
\* Contributions and disbursements may overlap as they like, and the group's
\* stored wallet still agrees with its rows: each reads the totals again while
\* it holds the wallet.  Only an operation that rebuilds it once - a repayment,
\* fine payment, reversal or payout preview - can lose another's amount, and only
\* the removal of a member leaves amounts in it that no row stands for.
\*
\* All operations that touch a member's wallet while they hold the group's keep
\* every member's wallet right, however they overlap; only a new fine and the
\* overdue job, which do not take the group's, can leave one stale.
WalletsExact ==
  /\ Without({"group", "removed"}) => wallet[Group] = GroupSums(rows)
  /\ Without({"member"}) => \A m \in Members : wallet[m] = MemberSums(rows, m)

\* Whatever was lost, the next contribution or disbursement to commit puts the
\* group's wallet right, even if other transactions are open, unless a member
\* was removed under an open transaction.
Repaired ==
  [][\A c \in Calls :
       Commit(c) /\ call[c].op \in {"record", "verify", "disburse"} /\ Without({"undermined"})
         => wallet'[Group] = GroupSums(rows')]_vars

\* The ledger's cash is the group's balance by its rows, plus what was paid out
\* and came back: reverse_disbursement posts no entry.  Savings and penalty
\* income agree with contributions, fine payments and late fees paid, until a
\* member's removal deletes rows that have been posted.
\* And a fine is PAID exactly when its payments cover it, unless two of its payments
\* overlapped and each missed the other's amount.
BooksAgree ==
  LET w == GroupSums(rows)
      reversed == {m \in Members : rows[m].loan = "PAYOUT_REVERSED"}
  IN /\ Without({"removed"}) =>
          /\ ledger.cash = Balance(w) - Principal * Cardinality(reversed)
          /\ ledger.savings = -w.savings
          /\ ledger.penalty = -(w.fines + SumOf(rows, LAMBDA r : r.feePaid))
     /\ Without({"fine"}) =>
          \A m \in Members :
            rows[m].fine # "none" => (rows[m].fine = "PAID" <=> rows[m].finePaid >= rows[m].fined)

\* c cannot go on before d ends.
WaitsFor(c, d) ==
  \E t \in Targets : Doing(c, t) /\ call[c].seen # Unread /\ HeldBy(d, t)

\* Two rebuilds never wait for each other: all take the group's wallet first,
\* then the members' in one order.  The overdue job goes in the order of loans.
NoLockCycle ==
  Without({"job"}) =>
    \A c, d \in Calls : c # d => ~(WaitsFor(c, d) /\ WaitsFor(d, c))

=============================================================================

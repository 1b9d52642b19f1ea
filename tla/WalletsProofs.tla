--------------------------- MODULE WalletsProofs ---------------------------
(***************************************************************************)
(* TypeOK, WalletsExact, Repaired, BooksAgree and NoLockCycle for every    *)
(* roster, any number of open transactions and any amounts.                *)
(***************************************************************************)
EXTENDS Wallets, SumTheorems

-----------------------------------------------------------------------------
(* Rows and what the operations do to one of them. *)

LoanStates == {"gone", "APPROVED", "ACTIVE", "OVERDUE", "PAID_OFF", "PAYOUT_REVERSED"}

Row == [pending : Nat, saved : Nat, loan : LoanStates, repaid : Nat, fee : 0..1,
        feePaid : 0..1, fined : Nat, finePaid : Nat, fine : {"none", "UNPAID", "PAID"}]

\* A loan that runs still owes, its late fee unpaid; the fee is paid after the
\* installment; a fine that was not imposed has no amounts.
RowOK(r) ==
  /\ r \in Row
  /\ r.loan = "gone" => r = Gone
  /\ r.loan = "APPROVED" => r.repaid = 0 /\ r.fee = 0 /\ r.feePaid = 0
  /\ r.loan \in {"ACTIVE", "OVERDUE"} => r.feePaid = 0 /\ r.repaid < Repayable + r.fee
  /\ r.feePaid <= r.fee /\ r.repaid - r.feePaid \in 0..Repayable
  /\ r.fine = "none" => r.fined = 0 /\ r.finePaid = 0
  /\ r.fine # "none" => r.fined > 0

\* Operations that take turns on one member.
Clash(o, p) == {o, p} \subseteq LoanOps \/ (o = p /\ o \in {"verify", "fine"})

\* Rows that count the same in the group's wallet, in their member's.
SameInGroup(r, q) ==
  /\ r.saved = q.saved /\ r.repaid = q.repaid /\ r.finePaid = q.finePaid
  /\ Disbursed(r) <=> Disbursed(q)
SameInMember(r, q) ==
  /\ r.saved = q.saved /\ (Disbursed(r) <=> Disbursed(q)) /\ Owed(r) = Owed(q)
  /\ r.fine = q.fine /\ r.fined = q.fined /\ r.finePaid = q.finePaid

LEMMA Amounts ==
  /\ FineAmount \in Nat /\ Principal \in Nat /\ Repayable \in Nat
  /\ FineAmount > 0 /\ Principal > 0 /\ Repayable > 0 /\ MaxCalls \in Nat
  BY WalletsAssumptions

LEMMA GoneRow == Gone = [pending |-> 0, saved |-> 0, loan |-> "gone", repaid |-> 0, fee |-> 0,
                         feePaid |-> 0, fined |-> 0, finePaid |-> 0, fine |-> "none"]
  BY DEF Gone, NoRows

LEMMA GoneOK == RowOK(Gone) /\ RowOK(NoRows)
  BY GoneRow, Amounts DEF RowOK, Row, LoanStates, NoRows

LEMMA NotGone ==
  ASSUME NEW r, RowOK(r)
  PROVE  r # Gone <=> r.loan # "gone"
  BY GoneRow DEF RowOK

-----------------------------------------------------------------------------
(* What each operation leaves in a row, field by field. *)

Columns(pending, saved, loan, repaid, fee, feePaid, fined, finePaid, fine) ==
  [pending |-> pending, saved |-> saved, loan |-> loan, repaid |-> repaid, fee |-> fee,
   feePaid |-> feePaid, fined |-> fined, finePaid |-> finePaid, fine |-> fine]

LEMMA RecordedColumns ==
  ASSUME NEW r \in Row
  PROVE  Recorded(r) = Columns(r.pending, r.saved + 1, r.loan, r.repaid, r.fee,
                                r.feePaid, r.fined, r.finePaid, r.fine)
  BY DEF Recorded, Columns, Row

LEMMA PaidOutColumns ==
  ASSUME NEW r \in Row
  PROVE  PaidOut(r) = Columns(r.pending, r.saved, "ACTIVE", r.repaid, r.fee,
                               r.feePaid, r.fined, r.finePaid, r.fine)
  BY DEF PaidOut, Columns, Row

LEMMA ReversedColumns ==
  ASSUME NEW r \in Row
  PROVE  Reversed(r) = Columns(r.pending, r.saved, "PAYOUT_REVERSED", r.repaid, r.fee,
                                r.feePaid, r.fined, r.finePaid, r.fine)
  BY DEF Reversed, Columns, Row

LEMMA VerifiedColumns ==
  ASSUME NEW r \in Row
  PROVE  Verified(r) = Columns(r.pending - 1, r.saved + 1, r.loan, r.repaid, r.fee,
                               r.feePaid, r.fined, r.finePaid, r.fine)
<1> DEFINE p == [r EXCEPT !.pending = r.pending - 1]
<1>1. p = Columns(r.pending - 1, r.saved, r.loan, r.repaid, r.fee,
                  r.feePaid, r.fined, r.finePaid, r.fine)
  BY DEF Columns, Row
<1>2. Verified(r) = [p EXCEPT !.saved = p.saved + 1]
  BY DEF Verified, Row
<1> HIDE DEF p
<1> QED BY <1>1, <1>2 DEF Columns

LEMMA ChargedColumns ==
  ASSUME NEW r \in Row
  PROVE  Charged(r) = Columns(r.pending, r.saved, "OVERDUE", r.repaid, 1,
                              r.feePaid, r.fined, r.finePaid, r.fine)
<1> DEFINE p == [r EXCEPT !.loan = "OVERDUE"]
<1>1. p = Columns(r.pending, r.saved, "OVERDUE", r.repaid, r.fee,
                  r.feePaid, r.fined, r.finePaid, r.fine)
  BY DEF Columns, Row
<1>2. Charged(r) = [p EXCEPT !.fee = 1]
  BY DEF Charged, Row
<1> HIDE DEF p
<1> QED BY <1>1, <1>2 DEF Columns

LEMMA FinedColumns ==
  ASSUME NEW r \in Row
  PROVE  Fined(r) = Columns(r.pending, r.saved, r.loan, r.repaid, r.fee,
                            r.feePaid, FineAmount, r.finePaid, "UNPAID")
<1> DEFINE p == [r EXCEPT !.fined = FineAmount]
<1>1. p = Columns(r.pending, r.saved, r.loan, r.repaid, r.fee,
                  r.feePaid, FineAmount, r.finePaid, r.fine)
  BY DEF Columns, Row
<1>2. Fined(r) = [p EXCEPT !.fine = "UNPAID"]
  BY DEF Fined, Row
<1> HIDE DEF p
<1> QED BY <1>1, <1>2 DEF Columns

LEMMA FinePaidColumns ==
  ASSUME NEW r \in Row, NEW closes
  PROVE  FinePaid(r, closes) = Columns(r.pending, r.saved, r.loan, r.repaid, r.fee,
                                       r.feePaid, r.fined, r.finePaid + 1, IF closes THEN "PAID" ELSE r.fine)
<1> DEFINE p == [r EXCEPT !.finePaid = r.finePaid + 1]
<1>1. p = Columns(r.pending, r.saved, r.loan, r.repaid, r.fee,
                  r.feePaid, r.fined, r.finePaid + 1, r.fine)
  BY DEF Columns, Row
<1>2. FinePaid(r, closes) = [p EXCEPT !.fine = IF closes THEN "PAID" ELSE p.fine]
  BY DEF FinePaid, Row
<1> HIDE DEF p
<1> QED BY <1>1, <1>2 DEF Columns

LEMMA RepaidColumns ==
  ASSUME NEW r \in Row
  PROVE  LET q == Columns(r.pending, r.saved, r.loan, r.repaid + 1, r.fee,
                          IF ToFee(r) THEN r.feePaid + 1 ELSE r.feePaid, r.fined, r.finePaid, r.fine)
         IN Repaid(r) = [q EXCEPT !.loan = IF Owed(q) = 0 THEN "PAID_OFF" ELSE r.loan]
<1> DEFINE p == [r EXCEPT !.repaid = r.repaid + 1]
           s == [p EXCEPT !.feePaid = IF ToFee(r) THEN p.feePaid + 1 ELSE p.feePaid]
           q == Columns(r.pending, r.saved, r.loan, r.repaid + 1, r.fee,
                          IF ToFee(r) THEN r.feePaid + 1 ELSE r.feePaid, r.fined, r.finePaid, r.fine)
<1>1. p = Columns(r.pending, r.saved, r.loan, r.repaid + 1, r.fee,
                  r.feePaid, r.fined, r.finePaid, r.fine)
  BY DEF Columns, Row
<1>2. Repaid(r) = [s EXCEPT !.loan = IF Owed(s) = 0 THEN "PAID_OFF" ELSE s.loan]
  BY DEF Repaid, Row
<1>3. s = q
  <2> HIDE DEF p
  <2> QED BY <1>1 DEF Columns
<1>4. q.loan = r.loan
  BY DEF Columns
<1> HIDE DEF s, q
<1>5. Repaid(r) = [q EXCEPT !.loan = IF Owed(q) = 0 THEN "PAID_OFF" ELSE r.loan]
  BY <1>2, <1>3, <1>4, Zenon
<1> QED BY <1>5 DEF q

LEMMA EffectIs ==
  ASSUME NEW r, NEW op \in Ops, NEW cl
  PROVE  /\ op = "record" => Effect(op, r, cl) = Recorded(r)
         /\ op = "verify" => Effect(op, r, cl) = Verified(r)
         /\ op = "disburse" => Effect(op, r, cl) = PaidOut(r)
         /\ op = "repay" => Effect(op, r, cl) = Repaid(r)
         /\ op = "reverse" => Effect(op, r, cl) = Reversed(r)
         /\ op = "overdue" => Effect(op, r, cl) = Charged(r)
         /\ op = "fine" => Effect(op, r, cl) = Fined(r)
         /\ op = "payFine" => Effect(op, r, cl) = FinePaid(r, cl)
         /\ op = "preview" => Effect(op, r, cl) = r
  BY DEF Effect

\* A repayment of a loan that runs.
LEMMA RepaidRow ==
  ASSUME NEW r, RowOK(r), r.loan \in {"ACTIVE", "OVERDUE"}
  PROVE  /\ RowOK(Repaid(r)) /\ Repaid(r).loan \in {r.loan, "PAID_OFF"}
         /\ ToFee(r) <=> r.repaid = Repayable
         /\ Repaid(r).pending = r.pending /\ Repaid(r).saved = r.saved
         /\ Repaid(r).repaid = r.repaid + 1 /\ Repaid(r).fee = r.fee
         /\ Repaid(r).feePaid = IF ToFee(r) THEN r.feePaid + 1 ELSE r.feePaid
         /\ Repaid(r).fined = r.fined /\ Repaid(r).finePaid = r.finePaid
         /\ Repaid(r).fine = r.fine
<1>1. r.feePaid = 0 /\ r.repaid < Repayable + r.fee /\ r.repaid \in Nat /\ r.fee \in 0..1
      /\ Repayable \in Nat /\ Repayable > 0 /\ r.repaid <= Repayable
  BY Amounts DEF RowOK, Row
<1>2. ToFee(r) <=> r.repaid = Repayable
  BY <1>1 DEF ToFee
<1> DEFINE q == Columns(r.pending, r.saved, r.loan, r.repaid + 1, r.fee,
                        IF ToFee(r) THEN r.feePaid + 1 ELSE r.feePaid, r.fined, r.finePaid, r.fine)
           l == IF Owed(q) = 0 THEN "PAID_OFF" ELSE r.loan
<1>3. /\ q.repaid = r.repaid + 1 /\ q.fee = r.fee /\ q.loan = r.loan
      /\ q.feePaid = IF r.repaid = Repayable THEN 1 ELSE 0
  BY <1>1, <1>2 DEF Columns
<1>4. Repaid(r) = [q EXCEPT !.loan = l]
  BY RepaidColumns DEF RowOK
<1>5. Owed(q) = LET left == Repayable + (q.fee - q.feePaid) - q.repaid
                IN IF left < 0 THEN 0 ELSE left
  BY DEF Owed
<1>6. l \in {"ACTIVE", "OVERDUE", "PAID_OFF"} /\ l \in {r.loan, "PAID_OFF"}
  OBVIOUS
<1>7. l # "PAID_OFF" => r.repaid + 1 < Repayable + r.fee /\ r.repaid # Repayable
  <2> HIDE DEF q
  <2> QED BY <1>1, <1>3, <1>5
<1> HIDE DEF l
<1>8. Repaid(r) = Columns(r.pending, r.saved, l, r.repaid + 1, r.fee,
                          IF ToFee(r) THEN r.feePaid + 1 ELSE r.feePaid, r.fined, r.finePaid, r.fine)
  BY <1>4 DEF Columns
<1>9. r.feePaid + 1 = 1
  BY <1>1
<1> HIDE DEF q
<1> QED BY <1>1, <1>2, <1>6, <1>7, <1>8, <1>9 DEF Columns, RowOK, Row, LoanStates

LEMMA EffectRow ==
  ASSUME NEW r, RowOK(r), r # Gone, NEW op \in Ops, Allowed(op, r), NEW cl
  PROVE  RowOK(Effect(op, r, cl)) /\ Effect(op, r, cl) # Gone
<1> SUFFICES RowOK(Effect(op, r, cl)) /\ Effect(op, r, cl).loan # "gone"
  BY NotGone
<1>1. r \in Row /\ r.loan # "gone"
  BY NotGone DEF RowOK
<1>2. CASE op = "record"
  <2> SUFFICES RowOK(Recorded(r)) /\ Recorded(r).loan # "gone"
    BY <1>2, EffectIs
  <2> QED BY <1>1, RecordedColumns DEF RowOK, Row, Columns
<1>3. CASE op = "verify"
  <2> SUFFICES RowOK(Verified(r)) /\ Verified(r).loan # "gone"
    BY <1>3, EffectIs
  <2>1. r.pending > 0
    BY <1>3 DEF Allowed
  <2> QED BY <1>1, <2>1, VerifiedColumns DEF RowOK, Row, Columns
<1>4. CASE op = "disburse"
  <2> SUFFICES RowOK(PaidOut(r)) /\ PaidOut(r).loan # "gone"
    BY <1>4, EffectIs
  <2>1. r.loan = "APPROVED"
    BY <1>4 DEF Allowed
  <2> QED BY <1>1, <2>1, PaidOutColumns, Amounts DEF RowOK, Row, Columns, LoanStates
<1>5. CASE op = "repay"
  <2> SUFFICES RowOK(Repaid(r)) /\ Repaid(r).loan # "gone"
    BY <1>5, EffectIs
  <2>1. r.loan \in {"ACTIVE", "OVERDUE"}
    BY <1>5 DEF Allowed
  <2> QED BY <2>1, RepaidRow
<1>6. CASE op = "reverse"
  <2> SUFFICES RowOK(Reversed(r)) /\ Reversed(r).loan # "gone"
    BY <1>6, EffectIs
  <2> QED BY <1>1, ReversedColumns DEF RowOK, Row, Columns, LoanStates
<1>7. CASE op = "overdue"
  <2> SUFFICES RowOK(Charged(r)) /\ Charged(r).loan # "gone"
    BY <1>7, EffectIs
  <2>1. r.loan \in {"ACTIVE", "OVERDUE"}
    BY <1>7 DEF Allowed
  <2>2. r.feePaid = 0 /\ r.repaid \in Nat /\ r.repaid <= Repayable /\ Repayable \in Nat
    BY <2>1, Amounts DEF RowOK, Row
  <2> QED BY <1>1, <2>1, <2>2, ChargedColumns DEF RowOK, Row, Columns, LoanStates
<1>8. CASE op = "fine"
  <2> SUFFICES RowOK(Fined(r)) /\ Fined(r).loan # "gone"
    BY <1>8, EffectIs
  <2> QED BY <1>1, FinedColumns, Amounts DEF RowOK, Row, Columns
<1>9. CASE op = "payFine"
  <2> SUFFICES RowOK(FinePaid(r, cl)) /\ FinePaid(r, cl).loan # "gone"
    BY <1>9, EffectIs
  <2>1. r.fine # "none"
    BY <1>9 DEF Allowed
  <2> QED BY <1>1, <2>1, FinePaidColumns DEF RowOK, Row, Columns
<1>10. CASE op = "preview"
  BY <1>1, <1>10, EffectIs
<1> QED BY <1>2, <1>3, <1>4, <1>5, <1>6, <1>7, <1>8, <1>9, <1>10 DEF Ops

\* What an operation keeps of a row r, and what it makes of the rest in q.
Keeps(op, r, cl, q) ==
  /\ q.pending = IF op = "verify" THEN r.pending - 1 ELSE r.pending
  /\ q.saved = IF op \in {"record", "verify"} THEN r.saved + 1 ELSE r.saved
  /\ op \notin LoanOps => q.loan = r.loan
  /\ op = "disburse" => q.loan = "ACTIVE"
  /\ op = "repay" => q.loan \in {r.loan, "PAID_OFF"}
  /\ op = "reverse" => q.loan = "PAYOUT_REVERSED"
  /\ op = "overdue" => q.loan = "OVERDUE"
  /\ q.repaid = IF op = "repay" THEN r.repaid + 1 ELSE r.repaid
  /\ q.feePaid = IF op = "repay" /\ ToFee(r) THEN r.feePaid + 1 ELSE r.feePaid
  /\ q.fee = IF op = "overdue" THEN 1 ELSE r.fee
  /\ op # "fine" => q.fined = r.fined
  /\ q.finePaid = IF op = "payFine" THEN r.finePaid + 1 ELSE r.finePaid
  /\ q.fine = IF op = "fine" THEN "UNPAID"
              ELSE IF op = "payFine" /\ cl THEN "PAID" ELSE r.fine

LEMMA EffectKeeps ==
  ASSUME NEW r, RowOK(r), NEW op \in Ops, Allowed(op, r), NEW cl
  PROVE  Keeps(op, r, cl, Effect(op, r, cl))
<1>1. r \in Row
  BY DEF RowOK
<1>2. CASE op = "record"
  <2>1. Effect(op, r, cl) = Recorded(r)
    BY <1>2, EffectIs
  <2>2. Keeps("record", r, cl, Recorded(r))
    BY <1>1, RecordedColumns DEF Keeps, Columns, LoanOps
  <2> QED BY <1>2, <2>1, <2>2
<1>3. CASE op = "verify"
  <2>1. Effect(op, r, cl) = Verified(r)
    BY <1>3, EffectIs
  <2>2. Keeps("verify", r, cl, Verified(r))
    BY <1>1, VerifiedColumns DEF Keeps, Columns, LoanOps
  <2> QED BY <1>3, <2>1, <2>2
<1>4. CASE op = "disburse"
  <2>1. Effect(op, r, cl) = PaidOut(r)
    BY <1>4, EffectIs
  <2>2. Keeps("disburse", r, cl, PaidOut(r))
    BY <1>1, PaidOutColumns DEF Keeps, Columns, LoanOps
  <2> QED BY <1>4, <2>1, <2>2
<1>5. CASE op = "repay"
  <2>1. r.loan \in {"ACTIVE", "OVERDUE"}
    BY <1>5 DEF Allowed
  <2> QED BY <1>5, <2>1, RepaidRow, EffectIs DEF Keeps, LoanOps
<1>6. CASE op = "reverse"
  <2>1. Effect(op, r, cl) = Reversed(r)
    BY <1>6, EffectIs
  <2>2. Keeps("reverse", r, cl, Reversed(r))
    BY <1>1, ReversedColumns DEF Keeps, Columns, LoanOps
  <2> QED BY <1>6, <2>1, <2>2
<1>7. CASE op = "overdue"
  <2>1. Effect(op, r, cl) = Charged(r)
    BY <1>7, EffectIs
  <2>2. Keeps("overdue", r, cl, Charged(r))
    BY <1>1, ChargedColumns DEF Keeps, Columns, LoanOps
  <2> QED BY <1>7, <2>1, <2>2
<1>8. CASE op = "fine"
  <2>1. Effect(op, r, cl) = Fined(r)
    BY <1>8, EffectIs
  <2>2. Keeps("fine", r, cl, Fined(r))
    BY <1>1, FinedColumns DEF Keeps, Columns, LoanOps
  <2> QED BY <1>8, <2>1, <2>2
<1>9. CASE op = "payFine"
  <2>1. Effect(op, r, cl) = FinePaid(r, cl)
    BY <1>9, EffectIs
  <2>2. Keeps("payFine", r, cl, FinePaid(r, cl))
    BY <1>1, FinePaidColumns DEF Keeps, Columns, LoanOps
  <2> QED BY <1>9, <2>1, <2>2
<1>10. CASE op = "preview"
  BY <1>10, EffectIs DEF Keeps, LoanOps
<1> QED BY <1>2, <1>3, <1>4, <1>5, <1>6, <1>7, <1>8, <1>9, <1>10 DEF Ops

LEMMA AllowedIs ==
  ASSUME NEW r, NEW op \in Ops
  PROVE  /\ op = "record" => (Allowed(op, r) <=> r # Gone)
         /\ op = "verify" => (Allowed(op, r) <=> r.pending > 0)
         /\ op \in {"disburse", "preview"} => (Allowed(op, r) <=> r.loan = "APPROVED")
         /\ op \in {"repay", "overdue"} => (Allowed(op, r) <=> r.loan \in {"ACTIVE", "OVERDUE"})
         /\ op = "reverse" => (Allowed(op, r) <=> r.loan = "ACTIVE")
         /\ op = "fine" => (Allowed(op, r) <=> r.fine = "none" /\ r # Gone)
         /\ op = "payFine" => (Allowed(op, r) <=> r.fine # "none")
<1>1. CASE op = "record"
  BY <1>1 DEF Allowed
<1>2. CASE op = "verify"
  BY <1>2 DEF Allowed
<1>3. CASE op \in {"disburse", "preview"}
  BY <1>3 DEF Allowed
<1>4. CASE op \in {"repay", "overdue"}
  BY <1>4 DEF Allowed
<1>5. CASE op = "reverse"
  BY <1>5 DEF Allowed
<1>6. CASE op = "fine"
  BY <1>6 DEF Allowed
<1>7. CASE op = "payFine"
  BY <1>7 DEF Allowed
<1> QED BY <1>1, <1>2, <1>3, <1>4, <1>5, <1>6, <1>7 DEF Ops

\* An operation does not take away what another one, of another kind, relies on.
LEMMA EffectAllows ==
  ASSUME NEW r, RowOK(r), r # Gone, NEW op \in Ops, Allowed(op, r), NEW cl,
         NEW o \in Ops, o # "preview", Allowed(o, r), ~Clash(o, op)
  PROVE  Allowed(o, Effect(op, r, cl))
<1> DEFINE q == Effect(op, r, cl)
<1>1. Keeps(op, r, cl, q) /\ q # Gone
  BY EffectKeeps, EffectRow
<1> SUFFICES Allowed(o, q)
  OBVIOUS
<1> HIDE DEF q
<1>2. CASE o \in {"record", "payFine", "fine"}
  <2>1. o = "fine" => op \notin {"fine", "payFine"}
    BY AllowedIs DEF Clash
  <2>2. /\ o = "payFine" => q.fine # "none"
        /\ o = "fine" => q.fine = "none"
    <3>1. o = "payFine" => r.fine # "none"
      BY AllowedIs
    <3>2. o = "fine" => r.fine = "none"
      BY AllowedIs
    <3> QED BY <1>1, <2>1, <3>1, <3>2 DEF Keeps
  <2> QED BY <1>1, <1>2, <2>2, AllowedIs
<1>3. CASE o = "verify"
  <2>1. op # "verify"
    BY <1>3 DEF Clash
  <2>2. q.pending = r.pending
    BY <1>1, <2>1 DEF Keeps
  <2> QED BY <1>3, <2>2, AllowedIs
<1>4. CASE o \in LoanOps
  <2>1. op \notin LoanOps
    BY <1>4 DEF Clash
  <2>2. q.loan = r.loan
    BY <1>1, <2>1 DEF Keeps
  <2> QED BY <1>4, <2>2, AllowedIs DEF LoanOps
<1> QED BY <1>2, <1>3, <1>4 DEF Ops, LoanOps

\* A new fine and the overdue job change nothing that counts for the group.
LEMMA UnguardedSame ==
  ASSUME NEW r, RowOK(r), NEW op \in Unguarded, Allowed(op, r), NEW cl
  PROVE  SameInGroup(Effect(op, r, cl), r)
<1>1. op \in Ops
  BY DEF Unguarded, Ops
<1>2. Keeps(op, r, cl, Effect(op, r, cl))
  BY <1>1, EffectKeeps
<1> QED BY <1>2 DEF Unguarded, Allowed, Keeps, SameInGroup, Disbursed, LoanOps

LEMMA UnguardedThen ==
  ASSUME NEW r, RowOK(r), r # Gone, NEW op \in Unguarded, Allowed(op, r), NEW x,
         NEW o \in Ops, o # "preview", Allowed(o, r), ~Clash(o, op), NEW cl
  PROVE  SameInGroup(Effect(o, Effect(op, r, x), cl), Effect(o, r, cl))
<1> DEFINE q == Effect(op, r, x)
<1>1. op \in Ops
  BY DEF Unguarded, Ops
<1>2. Keeps(op, r, x, q) /\ RowOK(q) /\ Allowed(o, q) /\ SameInGroup(q, r)
  BY <1>1, EffectKeeps, EffectRow, EffectAllows, UnguardedSame
<1> HIDE DEF q
<1>3. Keeps(o, q, cl, Effect(o, q, cl)) /\ Keeps(o, r, cl, Effect(o, r, cl))
  BY <1>2, EffectKeeps
<1> DEFINE a == Effect(o, q, cl)
           b == Effect(o, r, cl)
<1>4. SameInGroup(a, b)
  <2> HIDE DEF a, b
  <2>1. a.saved = b.saved /\ a.repaid = b.repaid /\ a.finePaid = b.finePaid
    BY <1>2, <1>3 DEF Keeps, SameInGroup, a, b
  <2>2. Disbursed(a) <=> Disbursed(b)
    <3>1. CASE o = "repay"
      <4>1. op = "fine"
        BY <3>1 DEF Clash, LoanOps, Unguarded
      <4>2. q.loan = r.loan
        BY <1>2, <4>1 DEF Keeps, LoanOps
      <4>3. Disbursed(r) /\ Disbursed(q)
        BY <3>1, <4>2 DEF Allowed, Disbursed
      <4> QED BY <1>3, <3>1, <4>3 DEF Keeps, Disbursed, a, b
    <3>2. CASE o # "repay"
      BY <1>2, <1>3, <3>2 DEF Keeps, SameInGroup, Disbursed, LoanOps, a, b
    <3> QED BY <3>1, <3>2
  <2> QED BY <2>1, <2>2 DEF SameInGroup
<1> QED BY <1>4 DEF q

\* A pledge counts nowhere until it is verified.
LEMMA PledgeRow ==
  ASSUME NEW r, RowOK(r), r # Gone, NEW p, p = [r EXCEPT !.pending = 1]
  PROVE  /\ RowOK(p) /\ p # Gone
         /\ SameInGroup(p, r) /\ SameInMember(p, r)
         /\ p.fee = r.fee /\ p.feePaid = r.feePaid /\ p.loan = r.loan
         /\ p.pending = 1
<1>1. r \in Row /\ r.loan # "gone"
  BY NotGone DEF RowOK
<1>2. p = Columns(1, r.saved, r.loan, r.repaid, r.fee, r.feePaid, r.fined, r.finePaid, r.fine)
  BY <1>1 DEF Columns, Row
<1>3. RowOK(p) /\ p.loan # "gone"
  BY <1>1, <1>2 DEF RowOK, Row, Columns
<1>4. SameInGroup(p, r) /\ SameInMember(p, r)
  BY <1>2 DEF SameInGroup, SameInMember, Columns, Disbursed, Owed
<1> QED BY <1>2, <1>3, <1>4, NotGone DEF Columns

LEMMA PledgeThen ==
  ASSUME NEW r, RowOK(r), r # Gone, NEW p, p = [r EXCEPT !.pending = 1],
         NEW o \in Ops, Allowed(o, r), NEW cl
  PROVE  /\ Allowed(o, p)
         /\ SameInGroup(Effect(o, p, cl), Effect(o, r, cl))
         /\ SameInMember(Effect(o, p, cl), Effect(o, r, cl))
<1>1. /\ RowOK(p) /\ p # Gone /\ SameInGroup(p, r) /\ SameInMember(p, r)
      /\ p.fee = r.fee /\ p.feePaid = r.feePaid /\ p.loan = r.loan /\ p.pending = 1
  BY PledgeRow
<1>2. Allowed(o, p)
  <2>1. p.fine = r.fine
    BY <1>1 DEF SameInMember
  <2>2. CASE o = "record"
    BY <1>1, <2>2, AllowedIs
  <2>5. CASE o = "verify"
    <3>1. p.pending > 0
      BY <1>1
    <3> QED BY <2>5, <3>1, AllowedIs
  <2>3. CASE o \in {"fine", "payFine"}
    BY <1>1, <2>1, <2>3, AllowedIs
  <2>4. CASE o \in {"disburse", "preview", "repay", "overdue", "reverse"}
    BY <1>1, <2>4, AllowedIs
  <2> QED BY <2>2, <2>3, <2>4, <2>5 DEF Ops
<1> DEFINE a == Effect(o, p, cl)
           b == Effect(o, r, cl)
<1>3. Keeps(o, p, cl, a) /\ Keeps(o, r, cl, b)
  BY <1>1, <1>2, EffectKeeps
<1> SUFFICES SameInGroup(a, b) /\ SameInMember(a, b)
  BY <1>2
<1> HIDE DEF a, b
<1>4. ToFee(p) <=> ToFee(r)
  BY <1>1 DEF ToFee, SameInGroup
<1>5. /\ a.saved = b.saved /\ a.repaid = b.repaid /\ a.finePaid = b.finePaid
      /\ a.fee = b.fee /\ a.feePaid = b.feePaid /\ a.fine = b.fine
  BY <1>1, <1>3, <1>4 DEF Keeps, SameInMember, SameInGroup
<1>6. a.fined = b.fined
  <2>1. CASE o = "fine"
    <3>1. a = Fined(p) /\ b = Fined(r)
      BY <2>1, EffectIs DEF a, b
    <3>2. Fined(p).fined = FineAmount /\ Fined(r).fined = FineAmount
      BY <1>1, FinedColumns DEF Columns, RowOK
    <3> QED BY <3>1, <3>2
  <2>2. CASE o # "fine"
    BY <1>1, <1>3, <2>2 DEF Keeps, SameInMember
  <2> QED BY <2>1, <2>2
<1>7. Disbursed(a) <=> Disbursed(b)
  <2>1. CASE o = "repay"
    <3>1. Disbursed(r) /\ Disbursed(p)
      BY <1>1, <2>1, AllowedIs DEF Disbursed
    <3> QED BY <1>3, <2>1, <3>1 DEF Keeps, Disbursed
  <2>2. CASE o # "repay"
    BY <1>1, <1>3, <2>2 DEF Keeps, Disbursed, LoanOps
  <2> QED BY <2>1, <2>2
<1>8. Owed(a) = Owed(b)
  BY <1>5, Zenon DEF Owed
<1> QED BY <1>5, <1>6, <1>7, <1>8 DEF SameInGroup, SameInMember

-----------------------------------------------------------------------------
(* The sums. *)

LEMMA MembersFinite == IsFiniteSet(Members)
<1>1. /\ Roster \in Seq(Members) /\ Len(Roster) \in Nat
      /\ DOMAIN Roster = 1..Len(Roster) /\ IsFiniteSet(1..Len(Roster))
  BY WalletsAssumptions, FS_Interval
<1>2. Roster \in Surjection(1..Len(Roster), Members)
  BY <1>1 DEF Members, Range, Surjection
<1> QED BY <1>1, <1>2, FS_Surjection

LEMMA Names == Group \notin Members /\ "write" \notin Members /\ Group # "write"
  BY WalletsAssumptions DEF Group

LEMMA SameSums ==
  ASSUME NEW R, NEW Q, \A m \in Members : SameInGroup(Q[m], R[m])
  PROVE  GroupSums(Q) = GroupSums(R)
<1>1. /\ [m \in Members |-> Q[m].saved] = [m \in Members |-> R[m].saved]
      /\ [m \in Members |-> Q[m].repaid] = [m \in Members |-> R[m].repaid]
      /\ [m \in Members |-> Q[m].finePaid] = [m \in Members |-> R[m].finePaid]
      /\ [m \in Members |-> IF Disbursed(Q[m]) THEN Principal ELSE 0]
           = [m \in Members |-> IF Disbursed(R[m]) THEN Principal ELSE 0]
  BY DEF SameInGroup
<1> QED BY <1>1, Zenon DEF GroupSums, SumOf

LEMMA SameMember ==
  ASSUME NEW R, NEW Q, NEW m, SameInMember(Q[m], R[m])
  PROVE  MemberSums(Q, m) = MemberSums(R, m)
  BY DEF MemberSums, SameInMember

\* Changing the row of one member.
LEMMA SumOne ==
  ASSUME NEW h, NEW k, NEW y \in Members,
         \A x \in Members : h[x] \in Int /\ k[x] \in Int,
         \A x \in Members \ {y} : h[x] = k[x]
  PROVE  /\ SumFunctionOnSet(h, Members) \in Int
         /\ SumFunctionOnSet(k, Members) = (SumFunctionOnSet(h, Members) - h[y]) + k[y]
  BY MembersFinite, SumChange, SumInt

FeesPaid(R) == SumOf(R, LAMBDA r : r.feePaid)

LEMMA SumsOne ==
  ASSUME NEW R, NEW Q, NEW y \in Members,
         \A m \in Members : R[m] \in Row /\ Q[m] \in Row,
         \A m \in Members \ {y} : Q[m] = R[m]
  PROVE  /\ GroupSums(R).savings \in Int /\ GroupSums(R).repayments \in Int
         /\ GroupSums(R).fines \in Int /\ GroupSums(R).lent \in Int
         /\ FeesPaid(R) \in Int
         /\ GroupSums(Q).savings = (GroupSums(R).savings - R[y].saved) + Q[y].saved
         /\ GroupSums(Q).repayments = (GroupSums(R).repayments - R[y].repaid) + Q[y].repaid
         /\ GroupSums(Q).fines = (GroupSums(R).fines - R[y].finePaid) + Q[y].finePaid
         /\ GroupSums(Q).lent =
              (GroupSums(R).lent - (IF Disbursed(R[y]) THEN Principal ELSE 0))
                + (IF Disbursed(Q[y]) THEN Principal ELSE 0)
         /\ FeesPaid(Q) = (FeesPaid(R) - R[y].feePaid) + Q[y].feePaid
<1> DEFINE s(T) == [m \in Members |-> T[m].saved]
           p(T) == [m \in Members |-> T[m].repaid]
           f(T) == [m \in Members |-> T[m].finePaid]
           d(T) == [m \in Members |-> IF Disbursed(T[m]) THEN Principal ELSE 0]
           e(T) == [m \in Members |-> T[m].feePaid]
<1>1. \A T \in {R, Q} :
        /\ GroupSums(T).savings = SumFunctionOnSet(s(T), Members)
        /\ GroupSums(T).repayments = SumFunctionOnSet(p(T), Members)
        /\ GroupSums(T).fines = SumFunctionOnSet(f(T), Members)
        /\ GroupSums(T).lent = SumFunctionOnSet(d(T), Members)
        /\ FeesPaid(T) = SumFunctionOnSet(e(T), Members)
  BY DEF GroupSums, SumOf, FeesPaid
<1>2. \A m \in Members :
        /\ s(R)[m] \in Int /\ s(Q)[m] \in Int /\ p(R)[m] \in Int /\ p(Q)[m] \in Int
        /\ f(R)[m] \in Int /\ f(Q)[m] \in Int /\ d(R)[m] \in Int /\ d(Q)[m] \in Int
        /\ e(R)[m] \in Int /\ e(Q)[m] \in Int
  BY Amounts DEF Row
<1>3. \A m \in Members \ {y} :
        /\ s(R)[m] = s(Q)[m] /\ p(R)[m] = p(Q)[m] /\ f(R)[m] = f(Q)[m]
        /\ d(R)[m] = d(Q)[m] /\ e(R)[m] = e(Q)[m]
  OBVIOUS
<1>4. /\ s(R)[y] = R[y].saved /\ s(Q)[y] = Q[y].saved
      /\ p(R)[y] = R[y].repaid /\ p(Q)[y] = Q[y].repaid
      /\ f(R)[y] = R[y].finePaid /\ f(Q)[y] = Q[y].finePaid
      /\ d(R)[y] = (IF Disbursed(R[y]) THEN Principal ELSE 0)
      /\ d(Q)[y] = (IF Disbursed(Q[y]) THEN Principal ELSE 0)
      /\ e(R)[y] = R[y].feePaid /\ e(Q)[y] = Q[y].feePaid
  OBVIOUS
<1> HIDE DEF s, p, f, d, e
<1>5. /\ SumFunctionOnSet(s(R), Members) \in Int
      /\ SumFunctionOnSet(s(Q), Members) = (SumFunctionOnSet(s(R), Members) - s(R)[y]) + s(Q)[y]
  BY ONLY y \in Members, <1>2, <1>3, SumOne
<1>6. /\ SumFunctionOnSet(p(R), Members) \in Int
      /\ SumFunctionOnSet(p(Q), Members) = (SumFunctionOnSet(p(R), Members) - p(R)[y]) + p(Q)[y]
  BY ONLY y \in Members, <1>2, <1>3, SumOne
<1>7. /\ SumFunctionOnSet(f(R), Members) \in Int
      /\ SumFunctionOnSet(f(Q), Members) = (SumFunctionOnSet(f(R), Members) - f(R)[y]) + f(Q)[y]
  BY ONLY y \in Members, <1>2, <1>3, SumOne
<1>8. /\ SumFunctionOnSet(d(R), Members) \in Int
      /\ SumFunctionOnSet(d(Q), Members) = (SumFunctionOnSet(d(R), Members) - d(R)[y]) + d(Q)[y]
  BY ONLY y \in Members, <1>2, <1>3, SumOne
<1>9. /\ SumFunctionOnSet(e(R), Members) \in Int
      /\ SumFunctionOnSet(e(Q), Members) = (SumFunctionOnSet(e(R), Members) - e(R)[y]) + e(Q)[y]
  BY ONLY y \in Members, <1>2, <1>3, SumOne
<1> QED BY <1>1, <1>4, <1>5, <1>6, <1>7, <1>8, <1>9, Zenon

-----------------------------------------------------------------------------
(* What is left to do in a transaction. *)

Guarded == {"record", "verify", "disburse", "repay", "reverse", "payFine"}
Rereads == {"record", "verify", "disburse"}

LEMMA OpKinds ==
  /\ Ops = Guarded \cup Unguarded \cup {"preview"}
  /\ Guarded \cap Unguarded = {} /\ "preview" \notin Guarded \cup Unguarded
  /\ Single = (Guarded \ Rereads) \cup {"preview"} /\ Rereads \subseteq Guarded
  /\ "none" \notin Ops
  BY DEF Ops, Guarded, Unguarded, Single, Rereads

LEMMA Cons ==
  ASSUME NEW S, NEW x, NEW s \in Seq(S)
  PROVE  /\ <<x>> \o s # << >> /\ Head(<<x>> \o s) = x /\ Tail(<<x>> \o s) = s
         /\ Len(<<x>> \o s) = Len(s) + 1
         /\ x \in S => <<x>> \o s \in Seq(S)
  OBVIOUS

WriteGroupAll == <<"write", Group>> \o RebuildAll
GroupAll      == <<Group>> \o RebuildAll
GroupWriteAll == <<Group, "write">> \o RebuildAll
WriteAll      == <<"write">> \o RebuildAll

LEMMA Todos ==
  /\ Roster \in Seq(Members) /\ RebuildAll \in Seq(Targets)
  /\ WriteGroupAll # << >> /\ Head(WriteGroupAll) = "write" /\ Tail(WriteGroupAll) = GroupAll
  /\ GroupAll # << >> /\ Head(GroupAll) = Group /\ Tail(GroupAll) = RebuildAll
  /\ GroupWriteAll # << >> /\ Head(GroupWriteAll) = Group /\ Tail(GroupWriteAll) = WriteAll
  /\ WriteAll # << >> /\ Head(WriteAll) = "write" /\ Tail(WriteAll) = RebuildAll
  /\ RebuildAll # << >> /\ Head(RebuildAll) = Group /\ Tail(RebuildAll) = Roster
  /\ GroupAll # RebuildAll /\ GroupWriteAll # RebuildAll
  /\ {WriteGroupAll, GroupAll, GroupWriteAll, WriteAll} \subseteq Seq(Targets \cup {"write"})
<1>1. Roster \in Seq(Members) /\ RebuildAll = <<Group>> \o Roster
  BY WalletsAssumptions DEF RebuildAll
<1>2. Roster \in Seq(Targets) /\ Group \in Targets
  BY <1>1 DEF Targets
<1>3. /\ RebuildAll # << >> /\ Head(RebuildAll) = Group /\ Tail(RebuildAll) = Roster
      /\ RebuildAll \in Seq(Targets)
  BY <1>1, <1>2, Cons
<1>4. RebuildAll \in Seq(Targets \cup {"write"}) /\ Len(RebuildAll) \in Nat
  BY <1>3
<1>5. WriteGroupAll = <<"write">> \o GroupAll /\ GroupWriteAll = <<Group>> \o WriteAll
  BY <1>4 DEF WriteGroupAll, GroupAll, GroupWriteAll, WriteAll
<1>6. /\ GroupAll # << >> /\ Head(GroupAll) = Group /\ Tail(GroupAll) = RebuildAll
      /\ Len(GroupAll) = Len(RebuildAll) + 1 /\ GroupAll \in Seq(Targets \cup {"write"})
      /\ WriteAll # << >> /\ Head(WriteAll) = "write" /\ Tail(WriteAll) = RebuildAll
      /\ Len(WriteAll) = Len(RebuildAll) + 1 /\ WriteAll \in Seq(Targets \cup {"write"})
  BY <1>2, <1>4, Cons DEF GroupAll, WriteAll
<1>7. /\ WriteGroupAll # << >> /\ Head(WriteGroupAll) = "write" /\ Tail(WriteGroupAll) = GroupAll
      /\ WriteGroupAll \in Seq(Targets \cup {"write"})
      /\ GroupWriteAll # << >> /\ Head(GroupWriteAll) = Group /\ Tail(GroupWriteAll) = WriteAll
      /\ Len(GroupWriteAll) = Len(WriteAll) + 1 /\ GroupWriteAll \in Seq(Targets \cup {"write"})
  BY <1>2, <1>5, <1>6, Cons
<1> QED BY <1>1, <1>3, <1>4, <1>6, <1>7

\* How far a transaction k is: what it has left to do, written and stored.
Early(k) ==
  \/ /\ k.op \in {"record", "verify"} /\ DOMAIN k.stored = {}
     /\ \/ k.todo = WriteGroupAll /\ k.wrote = {}
        \/ k.todo = GroupAll /\ k.wrote = {k.member}
  \/ /\ k.op = "disburse" /\ k.wrote = {}
     /\ \/ k.todo = GroupWriteAll /\ DOMAIN k.stored = {}
        \/ k.todo = WriteAll /\ DOMAIN k.stored = {Group}
  \/ k.op \in Single /\ k.todo = WriteAll /\ k.wrote = {} /\ DOMAIN k.stored = {}
Ready(k) ==
  /\ k.todo = RebuildAll /\ k.wrote = {k.member}
  /\ DOMAIN k.stored = IF k.op \in Single THEN {} ELSE {Group}
Late(k) ==
  /\ k.todo \in Seq(Members) /\ k.wrote = {k.member}
  /\ Group \in DOMAIN k.stored /\ DOMAIN k.stored \subseteq Targets
  /\ k.member \in Range(k.todo) \cup DOMAIN k.stored

GuardedShape(k) == k.op \in Guarded /\ k.member \in Members /\ (Early(k) \/ Ready(k) \/ Late(k))

UnguardedShape(k) ==
  /\ k.op \in Unguarded /\ k.member \in Members
  /\ k.wrote \subseteq Members /\ DOMAIN k.stored \subseteq k.wrote
  /\ \/ k.todo = <<"write", k.member>> /\ k.member \notin k.wrote /\ k.wrote \subseteq DOMAIN k.stored
     \/ /\ k.todo = <<k.member>> /\ k.member \in k.wrote
        /\ k.wrote \subseteq DOMAIN k.stored \cup {k.member}
     \/ k.todo = << >> /\ k.member \in k.wrote /\ k.wrote \subseteq DOMAIN k.stored
  /\ k.op = "fine" => k.wrote \subseteq {k.member} /\ (k.todo # << >> => DOMAIN k.stored = {})

PreviewShape(k) ==
  /\ k.op = "preview" /\ k.member \in Members /\ k.wrote = {}
  /\ \/ k.todo = <<Group>> /\ DOMAIN k.stored = {}
     \/ k.todo = << >> /\ DOMAIN k.stored = {Group}

SeenShape(k) == k.seen # Unread => k.todo # << >> /\ Head(k.todo) \in Targets
Shape(k) == (GuardedShape(k) \/ UnguardedShape(k) \/ PreviewShape(k)) /\ SeenShape(k)

LEMMA ShapeFacts ==
  ASSUME NEW k, Shape(k)
  PROVE  /\ k.op \in Ops /\ k.member \in Members /\ k.wrote \subseteq Members
         /\ DOMAIN k.stored \subseteq Targets
         /\ k.op # "overdue" => k.wrote \subseteq {k.member}
         /\ k.op = "preview" => k.wrote = {} /\ DOMAIN k.stored \subseteq {Group}
         /\ k.todo = << >> => k.wrote \subseteq DOMAIN k.stored /\ k.seen = Unread
         /\ k.todo = << >> /\ k.op # "preview" => k.member \in k.wrote
         /\ k.op \in Unguarded => Group \notin DOMAIN k.stored /\ DOMAIN k.stored \subseteq k.wrote
         /\ k.op \notin Unguarded /\ k.todo = << >> => Group \in DOMAIN k.stored
         /\ k.op \notin Unguarded => DOMAIN k.stored = {} \/ Group \in DOMAIN k.stored
         /\ k.op \notin Unguarded /\ k.todo # << >> /\ Head(k.todo) \in Members =>
              Group \in DOMAIN k.stored
         /\ k.op = "fine" /\ k.todo # << >> => DOMAIN k.stored = {}
<1>1. CASE GuardedShape(k)
  <2>1. k.op \in Ops /\ k.op \notin Unguarded /\ k.op \notin {"overdue", "preview", "fine"}
    BY <1>1 DEF GuardedShape, Ops, Guarded, Unguarded
  <2>2. k.member \in Members
    BY <1>1 DEF GuardedShape
  <2>3. CASE Early(k)
    <3>1. k.todo # << >> /\ Head(k.todo) \notin Members
      BY <2>3, Todos, Names DEF Early
    <3>2. k.wrote \subseteq {k.member} /\ DOMAIN k.stored \subseteq {Group}
      BY <2>3 DEF Early
    <3> QED BY <2>1, <2>2, <3>1, <3>2 DEF Targets
  <2>4. CASE Ready(k)
    <3>1. k.todo # << >> /\ Head(k.todo) \notin Members
      BY <2>4, Todos, Names DEF Ready
    <3>2. k.wrote \subseteq {k.member} /\ DOMAIN k.stored \subseteq {Group}
      BY <2>4 DEF Ready
    <3> QED BY <2>1, <2>2, <3>1, <3>2 DEF Targets
  <2>5. CASE Late(k)
    <3>1. k.todo = << >> => Range(k.todo) = {}
      BY DEF Range
    <3> QED BY <1>1, <2>1, <2>2, <2>5, <3>1 DEF Late, Shape, SeenShape
  <2> QED BY <1>1, <2>3, <2>4, <2>5 DEF GuardedShape
<1>2. CASE UnguardedShape(k)
  <2>1. k.op \in Ops /\ k.op # "preview"
    BY <1>2 DEF UnguardedShape, Ops, Unguarded
  <2>2. k.op # "overdue" => k.wrote \subseteq {k.member}
    BY <1>2 DEF UnguardedShape, Unguarded
  <2>3. /\ k.op \in Unguarded /\ k.member \in Members /\ k.wrote \subseteq Members
        /\ DOMAIN k.stored \subseteq k.wrote
        /\ k.op = "fine" => (k.todo # << >> => DOMAIN k.stored = {})
    BY <1>2, Zenon DEF UnguardedShape
  <2>4. DOMAIN k.stored \subseteq Targets /\ Group \notin DOMAIN k.stored
    BY <2>3, Names DEF Targets
  <2>5. k.todo = << >> => k.member \in k.wrote /\ k.wrote \subseteq DOMAIN k.stored
    BY <1>2 DEF UnguardedShape
  <2>6. k.todo = << >> => k.seen = Unread
    BY Zenon DEF Shape, SeenShape
  <2> QED BY <2>1, <2>2, <2>3, <2>4, <2>5, <2>6
<1>3. CASE PreviewShape(k)
  <2>1. k.op \in Ops /\ k.op \notin Unguarded
    BY <1>3 DEF PreviewShape, Ops, Unguarded
  <2> QED BY <1>3, <2>1, Names DEF PreviewShape, Targets, Shape, SeenShape
<1> QED BY <1>1, <1>2, <1>3 DEF Shape

\* The last reading of the group's totals is next.
Final(k) == k.todo = IF k.op = "preview" THEN <<Group>> ELSE RebuildAll

LEMMA LongTodos ==
  \A todo \in {WriteGroupAll, GroupAll, GroupWriteAll, WriteAll, RebuildAll} :
    todo \notin Seq(Members) /\ todo # << >>
<1> SUFFICES ASSUME NEW todo \in {WriteGroupAll, GroupAll, GroupWriteAll, WriteAll, RebuildAll},
                    todo \in Seq(Members)
             PROVE  FALSE
  BY Todos
<1>1. todo # << >> /\ Head(todo) \in {"write", Group}
  BY Todos
<1>2. Head(todo) \in Members
  BY <1>1
<1> QED BY <1>1, <1>2, Names

LEMMA WriteShape ==
  ASSUME NEW k, NEW n, Shape(k), k.todo # << >>, Head(k.todo) = "write",
         n.op = k.op, n.member = k.member, n.todo = Tail(k.todo), n.seen = k.seen,
         n.stored = k.stored, n.wrote = k.wrote \cup {k.member}
  PROVE  /\ Shape(n) /\ n.seen = Unread /\ k.member \notin k.wrote
         /\ k.op # "overdue" => k.wrote = {}
         /\ k.op # "preview"
         /\ k.op \in Guarded => n.todo \notin Seq(Members) /\ DOMAIN k.stored \subseteq {Group}
<1>1. k.seen = Unread
  BY Names DEF Shape, SeenShape, Targets
<1>2. CASE GuardedShape(k)
  <2>1. /\ k.op \in Guarded /\ k.member \in Members
        /\ k.op \notin Unguarded /\ k.op # "preview" /\ k.op # "overdue"
    BY <1>2 DEF GuardedShape, Guarded, Unguarded
  <2>2. ~Late(k)
    <3> SUFFICES ASSUME Late(k) PROVE FALSE
      OBVIOUS
    <3>1. Head(k.todo) \in Members
      BY DEF Late
    <3> QED BY <3>1, Names
  <2>3. ~Ready(k)
    BY Todos, Names DEF Ready
  <2>4. Early(k)
    BY <1>2, <2>2, <2>3 DEF GuardedShape
  <2>5. \/ /\ k.op \in {"record", "verify"} /\ DOMAIN k.stored = {}
           /\ k.todo = WriteGroupAll /\ k.wrote = {}
        \/ /\ k.op = "disburse" /\ k.wrote = {}
           /\ k.todo = WriteAll /\ DOMAIN k.stored = {Group}
        \/ k.op \in Single /\ k.todo = WriteAll /\ k.wrote = {} /\ DOMAIN k.stored = {}
    BY <2>4, Todos, Names DEF Early
  <2>6. n.wrote = {n.member} /\ k.wrote = {} /\ DOMAIN k.stored \subseteq {Group}
    BY <2>5
  <2>7. \/ n.op \in {"record", "verify"} /\ DOMAIN n.stored = {} /\ n.todo = GroupAll
        \/ n.todo = RebuildAll /\ DOMAIN n.stored = IF n.op \in Single THEN {} ELSE {Group}
    BY <2>5, Todos DEF Single
  <2>8. Early(n) \/ Ready(n)
    BY <2>6, <2>7 DEF Early, Ready
  <2>9. n.todo \notin Seq(Members)
    BY <2>7, LongTodos
  <2> QED BY <1>1, <2>1, <2>6, <2>8, <2>9 DEF Shape, GuardedShape, SeenShape
<1>3. CASE UnguardedShape(k)
  <2>1. k.op \in Unguarded /\ k.op \notin Guarded /\ k.op # "preview"
    BY <1>3 DEF UnguardedShape, Guarded, Unguarded
  <2>2. k.todo = <<"write", k.member>> /\ k.member \notin k.wrote /\ k.wrote \subseteq DOMAIN k.stored
    BY <1>3, Names DEF UnguardedShape
  <2>3. n.todo = <<n.member>> /\ n.member \in n.wrote
        /\ n.wrote \subseteq DOMAIN n.stored \cup {n.member}
    BY <2>2
  <2>4. k.op # "overdue" => k.wrote = {}
    BY <1>3, <2>2 DEF UnguardedShape, Unguarded
  <2>5. n.op = "fine" => n.wrote \subseteq {n.member} /\ DOMAIN n.stored = {}
    BY <1>3, <2>2 DEF UnguardedShape
  <2>6. UnguardedShape(n)
    BY <1>3, <2>3, <2>5 DEF UnguardedShape
  <2> QED BY <1>1, <2>1, <2>2, <2>4, <2>6 DEF Shape, SeenShape
<1>4. CASE PreviewShape(k)
  BY <1>4, Names DEF PreviewShape
<1> QED BY <1>2, <1>3, <1>4 DEF Shape

LEMMA RangeTail ==
  ASSUME NEW S, NEW s \in Seq(S), s # << >>
  PROVE  Range(s) \subseteq Range(Tail(s)) \cup {Head(s)}
<1> SUFFICES ASSUME NEW i \in 1..Len(s), i # 1
             PROVE  s[i] \in Range(Tail(s))
  BY DEF Range
<1>1. /\ i - 1 \in 1..Len(Tail(s)) /\ Tail(s)[i - 1] = s[i]
      /\ DOMAIN Tail(s) = 1..Len(Tail(s))
  BY Len(s) \in Nat
<1> QED BY <1>1 DEF Range

LEMMA StoreShape ==
  ASSUME NEW k, NEW n, NEW t \in Targets, Shape(k), k.todo # << >>, Head(k.todo) = t,
         n.op = k.op, n.member = k.member, n.todo = Tail(k.todo), n.seen = Unread,
         DOMAIN n.stored = DOMAIN k.stored \cup {t}, n.wrote = k.wrote
  PROVE  /\ Shape(n)
         /\ k.op \notin Unguarded /\ n.todo \in Seq(Members) =>
              (t = Group /\ Final(k)) \/ (t \in Members /\ k.todo \in Seq(Members))
<1>1. CASE GuardedShape(k)
  <2>1. /\ k.op \in Guarded /\ k.member \in Members
        /\ k.op \notin Unguarded /\ k.op # "preview" /\ k.op # "overdue"
    BY <1>1 DEF GuardedShape, Guarded, Unguarded
  <2>2. CASE Early(k)
    <3>1. t = Group
      BY <2>2, Todos, Names DEF Early, Targets
    <3>2. \/ /\ k.op \in {"record", "verify"} /\ DOMAIN k.stored = {}
             /\ k.todo = GroupAll /\ k.wrote = {k.member}
          \/ /\ k.op = "disburse" /\ k.wrote = {}
             /\ k.todo = GroupWriteAll /\ DOMAIN k.stored = {}
      BY <2>2, <3>1, Todos, Names DEF Early
    <3>3. \/ /\ n.op \in {"record", "verify"} /\ n.todo = RebuildAll
             /\ n.wrote = {n.member} /\ DOMAIN n.stored = {Group}
          \/ /\ n.op = "disburse" /\ n.wrote = {}
             /\ n.todo = WriteAll /\ DOMAIN n.stored = {Group}
      BY <3>1, <3>2, Todos
    <3>4. Early(n) \/ Ready(n)
      BY <3>3 DEF Early, Ready, Single
    <3>5. n.todo \notin Seq(Members)
      BY <3>3, LongTodos
    <3> QED BY <2>1, <3>4, <3>5 DEF Shape, GuardedShape, SeenShape
  <2>3. CASE Ready(k)
    <3>1. t = Group /\ n.todo = Roster /\ Final(k)
      BY <2>1, <2>3, Todos DEF Ready, Final
    <3>2. DOMAIN n.stored = {Group} /\ n.wrote = {n.member}
      BY <2>3, <3>1 DEF Ready
    <3>3. n.member \in Range(n.todo)
      BY <2>1, <3>1 DEF Members
    <3>4. Late(n)
      BY <3>1, <3>2, <3>3, Todos DEF Late, Targets
    <3> QED BY <2>1, <3>1, <3>4 DEF Shape, GuardedShape, SeenShape
  <2>4. CASE Late(k)
    <3>1. t \in Members /\ n.todo \in Seq(Members) /\ k.todo \in Seq(Members)
      BY <2>4 DEF Late
    <3>2. Range(k.todo) \subseteq Range(n.todo) \cup {t}
      BY <3>1, RangeTail
    <3>3. Late(n)
      BY <2>4, <3>1, <3>2 DEF Late
    <3> QED BY <2>1, <3>1, <3>3 DEF Shape, GuardedShape, SeenShape
  <2> QED BY <1>1, <2>2, <2>3, <2>4 DEF GuardedShape
<1>2. CASE UnguardedShape(k)
  <2>1. k.op \in Unguarded
    BY <1>2 DEF UnguardedShape
  <2>2. k.todo = <<k.member>> /\ t = k.member /\ k.member \in k.wrote
        /\ k.wrote \subseteq DOMAIN k.stored \cup {k.member}
    BY <1>2, Names DEF UnguardedShape, Targets
  <2>3. n.todo = << >> /\ n.member \in n.wrote /\ n.wrote \subseteq DOMAIN n.stored
    BY <2>2
  <2>4. DOMAIN n.stored \subseteq n.wrote
    BY <1>2, <2>2 DEF UnguardedShape
  <2>5. UnguardedShape(n)
    BY <1>2, <2>3, <2>4 DEF UnguardedShape
  <2> QED BY <2>1, <2>5 DEF Shape, SeenShape
<1>3. CASE PreviewShape(k)
  <2>1. k.todo = <<Group>> /\ DOMAIN k.stored = {} /\ t = Group /\ Final(k)
    BY <1>3 DEF PreviewShape, Final
  <2>2. n.todo = << >> /\ DOMAIN n.stored = {Group}
    BY <2>1
  <2>3. PreviewShape(n)
    BY <1>3, <2>2 DEF PreviewShape
  <2> QED BY <2>1, <2>3 DEF Shape, SeenShape
<1> QED BY <1>1, <1>2, <1>3 DEF Shape

LEMMA SkipShape ==
  ASSUME NEW k, NEW n, NEW t \in Members, t \notin k.wrote,
         Shape(k), k.todo # << >>, Head(k.todo) = t,
         n.op = k.op, n.member = k.member, n.todo = Tail(k.todo), n.seen = Unread,
         n.stored = k.stored, n.wrote = k.wrote
  PROVE  /\ Shape(n) /\ k.op \in Guarded /\ k.todo \in Seq(Members)
<1>1. CASE GuardedShape(k)
  <2>1. k.op \in Guarded /\ k.member \in Members
    BY <1>1 DEF GuardedShape
  <2>2. ~Early(k) /\ ~Ready(k)
    BY Todos, Names DEF Early, Ready
  <2>3. Late(k)
    BY <1>1, <2>2 DEF GuardedShape
  <2>4. n.todo \in Seq(Members) /\ k.todo \in Seq(Members)
    BY <2>3 DEF Late
  <2>5. Range(k.todo) \subseteq Range(n.todo) \cup {t}
    BY <2>4, RangeTail
  <2>6. Late(n)
    BY <2>3, <2>4, <2>5 DEF Late
  <2> QED BY <2>1, <2>4, <2>6 DEF Shape, GuardedShape, SeenShape
<1>2. CASE UnguardedShape(k)
  BY <1>2, Names DEF UnguardedShape
<1>3. CASE PreviewShape(k)
  BY <1>3, Names DEF PreviewShape
<1> QED BY <1>1, <1>2, <1>3 DEF Shape

LEMMA LookShape ==
  ASSUME NEW k, NEW n, Shape(k), k.todo # << >>, Head(k.todo) \in Targets,
         n.op = k.op, n.member = k.member, n.todo = k.todo,
         n.stored = k.stored, n.wrote = k.wrote
  PROVE  Shape(n)
<1>1. SeenShape(n)
  BY DEF SeenShape
<1>2. Early(k) \/ Ready(k) \/ Late(k) => Early(n) \/ Ready(n) \/ Late(n)
  BY Zenon DEF Early, Ready, Late
<1>3. UnguardedShape(k) => UnguardedShape(n)
  BY Zenon DEF UnguardedShape
<1>4. PreviewShape(k) => PreviewShape(n)
  BY Zenon DEF PreviewShape
<1> QED BY <1>1, <1>2, <1>3, <1>4, Zenon DEF Shape, GuardedShape

LEMMA NextLoanShape ==
  ASSUME NEW k, NEW n, NEW m \in Members, Shape(k), k.op = "overdue", k.todo = << >>,
         m \notin k.wrote, n.op = k.op, n.member = m, n.todo = <<"write", m>>,
         n.seen = k.seen, n.stored = k.stored, n.wrote = k.wrote
  PROVE  Shape(n)
<1>1. UnguardedShape(k)
  BY DEF Shape, GuardedShape, PreviewShape, Guarded
<1>2. k.wrote \subseteq DOMAIN k.stored
  BY <1>1 DEF UnguardedShape
<1>3. UnguardedShape(n)
  BY <1>1, <1>2 DEF UnguardedShape
<1>4. n.seen = Unread
  BY ShapeFacts
<1> QED BY <1>3, <1>4 DEF Shape, SeenShape

LEMMA BeginShape ==
  ASSUME NEW n, NEW op \in Ops, NEW m \in Members, n.op = op, n.member = m,
         n.todo = Plan(op, m), n.seen = Unread, DOMAIN n.stored = {}, n.wrote = {}
  PROVE  Shape(n) /\ (n.op \notin Unguarded => n.todo \notin Seq(Members))
<1>1. SeenShape(n)
  BY DEF SeenShape
<1>2. CASE op = "preview"
  <2>1. n.todo = <<Group>>
    BY <1>2 DEF Plan, Unguarded
  <2>2. PreviewShape(n)
    BY <1>2, <2>1 DEF PreviewShape
  <2>3. n.todo \notin Seq(Members)
    BY <2>1, Names
  <2> QED BY <1>1, <2>2, <2>3 DEF Shape
<1>3. CASE op \in Unguarded
  <2>1. n.todo = <<"write", m>>
    BY <1>3 DEF Plan, Unguarded
  <2>2. UnguardedShape(n)
    BY <1>3, <2>1 DEF UnguardedShape
  <2> QED BY <1>1, <1>3, <2>2 DEF Shape
<1>4. CASE op \in Guarded
  <2>1. /\ op \in {"record", "verify"} => n.todo = WriteGroupAll
        /\ op = "disburse" => n.todo = GroupWriteAll
        /\ op \in {"repay", "reverse", "payFine"} => n.todo = WriteAll
    BY DEF Plan, Unguarded, WriteGroupAll, GroupWriteAll, WriteAll
  <2>2. Early(n)
    BY <1>4, <2>1 DEF Early, Guarded, Single
  <2>3. n.todo \notin Seq(Members)
    BY <1>4, <2>1, LongTodos DEF Guarded
  <2> QED BY <1>1, <1>4, <2>2, <2>3 DEF Shape, GuardedShape
<1> QED BY <1>2, <1>3, <1>4, OpKinds

-----------------------------------------------------------------------------
(* Transactions as records. *)

Parts(op, member, todo, seen, stored, wrote, closes) ==
  [op |-> op, member |-> member, todo |-> todo, seen |-> seen, stored |-> stored,
   wrote |-> wrote, closes |-> closes]
IsCall(k) == k = Parts(k.op, k.member, k.todo, k.seen, k.stored, k.wrote, k.closes)
CallsOK == call = [c \in Calls |-> call[c]] /\ \A c \in Calls : IsCall(call[c])

LEMMA PutOne ==
  ASSUME NEW k, IsCall(k), NEW v
  PROVE  /\ [k EXCEPT !.op = v] = Parts(v, k.member, k.todo, k.seen, k.stored, k.wrote, k.closes)
         /\ [k EXCEPT !.member = v] = Parts(k.op, v, k.todo, k.seen, k.stored, k.wrote, k.closes)
         /\ [k EXCEPT !.todo = v] = Parts(k.op, k.member, v, k.seen, k.stored, k.wrote, k.closes)
         /\ [k EXCEPT !.seen = v] = Parts(k.op, k.member, k.todo, v, k.stored, k.wrote, k.closes)
         /\ [k EXCEPT !.stored = v] = Parts(k.op, k.member, k.todo, k.seen, v, k.wrote, k.closes)
         /\ [k EXCEPT !.wrote = v] = Parts(k.op, k.member, k.todo, k.seen, k.stored, v, k.closes)
         /\ [k EXCEPT !.closes = v] = Parts(k.op, k.member, k.todo, k.seen, k.stored, k.wrote, v)
<1> DEFINE p == Parts(k.op, k.member, k.todo, k.seen, k.stored, k.wrote, k.closes)
<1>1. k = p
  BY Zenon DEF IsCall
<1>2. /\ [p EXCEPT !.op = v] = Parts(v, k.member, k.todo, k.seen, k.stored, k.wrote, k.closes)
      /\ [p EXCEPT !.member = v] = Parts(k.op, v, k.todo, k.seen, k.stored, k.wrote, k.closes)
      /\ [p EXCEPT !.todo = v] = Parts(k.op, k.member, v, k.seen, k.stored, k.wrote, k.closes)
      /\ [p EXCEPT !.seen = v] = Parts(k.op, k.member, k.todo, v, k.stored, k.wrote, k.closes)
      /\ [p EXCEPT !.stored = v] = Parts(k.op, k.member, k.todo, k.seen, v, k.wrote, k.closes)
      /\ [p EXCEPT !.wrote = v] = Parts(k.op, k.member, k.todo, k.seen, k.stored, v, k.closes)
      /\ [p EXCEPT !.closes = v] = Parts(k.op, k.member, k.todo, k.seen, k.stored, k.wrote, v)
  BY DEF Parts
<1> HIDE DEF p
<1> QED BY <1>1, <1>2, Zenon

LEMMA PartsFields ==
  ASSUME NEW op, NEW member, NEW todo, NEW seen, NEW stored, NEW wrote, NEW closes
  PROVE  LET k == Parts(op, member, todo, seen, stored, wrote, closes)
         IN /\ IsCall(k)
            /\ k.op = op /\ k.member = member /\ k.todo = todo /\ k.seen = seen
            /\ k.stored = stored /\ k.wrote = wrote /\ k.closes = closes
  BY DEF Parts, IsCall

\* The call of c becomes k, no other changes.
Becomes(c, k) ==
  /\ call'[c] = k /\ IsCall(k)
  /\ \A d \in Calls \ {c} : call'[d] = call[d]
  /\ call' = [d \in Calls |-> call'[d]]

LEMMA Becoming ==
  ASSUME CallsOK, NEW c \in Calls, NEW k, IsCall(k), call' = [call EXCEPT ![c] = k]
  PROVE  Becomes(c, k) /\ CallsOK'
<1>1. Becomes(c, k)
  BY DEF Becomes, CallsOK
<1>2. \A d \in Calls : IsCall(call'[d])
  BY <1>1 DEF Becomes, CallsOK
<1> QED BY <1>1, <1>2 DEF Becomes, CallsOK

LEMMA IdleCall == IsCall(Idle) /\ Idle.op = "none" /\ Idle.stored = << >> /\ Idle.wrote = {}
                  /\ Idle.todo = << >> /\ DOMAIN Idle.stored = {} /\ Idle.seen = Unread
                  /\ Idle.closes = FALSE
  BY DEF Idle, IsCall, Parts

LEMMA BeginBecomes ==
  ASSUME CallsOK, NEW c \in Calls, NEW op, NEW m, Begin(c, op, m)
  PROVE  Becomes(c, Parts(op, m, Plan(op, m), Unread, Idle.stored, {}, Idle.closes)) /\ CallsOK'
<1> DEFINE p == [Idle EXCEPT !.op = op]
           q == [p EXCEPT !.member = m]
           n == [Idle EXCEPT !.op = op, !.member = m, !.todo = Plan(op, m)]
           f == Parts(op, m, Plan(op, m), Unread, Idle.stored, {}, Idle.closes)
<1>1. p = Parts(op, Idle.member, Idle.todo, Unread, Idle.stored, {}, Idle.closes)
  <2>1. p = Parts(op, Idle.member, Idle.todo, Idle.seen, Idle.stored, Idle.wrote, Idle.closes)
    BY IdleCall, PutOne
  <2> QED BY <2>1, IdleCall, Zenon
<1>2. q = Parts(op, m, Idle.todo, Unread, Idle.stored, {}, Idle.closes)
  <2>1. q = [p EXCEPT !.member = m]
    OBVIOUS
  <2> HIDE DEF p, q
  <2> QED BY <1>1, <2>1 DEF Parts
<1>3. n = [q EXCEPT !.todo = Plan(op, m)]
  BY Zenon
<1>4. n = f
  <2> HIDE DEF q, n
  <2> QED BY <1>2, <1>3 DEF f, Parts
<1>5. call' = [call EXCEPT ![c] = n]
  BY Zenon DEF Begin
<1>6. IsCall(f)
  BY PartsFields
<1> HIDE DEF n, f
<1>7. Becomes(c, f) /\ CallsOK'
  BY <1>4, <1>5, <1>6, Becoming
<1> QED BY <1>7 DEF f

LEMMA NextLoanBecomes ==
  ASSUME CallsOK, NEW c \in Calls, NEW m, NextLoan(c, m)
  PROVE  LET k == call[c]
         IN Becomes(c, Parts(k.op, m, Plan("overdue", m), k.seen, k.stored, k.wrote, k.closes))
            /\ CallsOK'
<1> DEFINE k == call[c]
           p == [k EXCEPT !.member = m]
           n == [k EXCEPT !.member = m, !.todo = Plan("overdue", m)]
           f == Parts(k.op, m, Plan("overdue", m), k.seen, k.stored, k.wrote, k.closes)
<1>1. IsCall(k)
  BY DEF CallsOK
<1>2. p = Parts(k.op, m, k.todo, k.seen, k.stored, k.wrote, k.closes)
  BY <1>1, PutOne
<1>3. n = [p EXCEPT !.todo = Plan("overdue", m)]
  BY Zenon
<1>4. n = f
  <2> HIDE DEF p, n, k
  <2> QED BY <1>2, <1>3 DEF f, Parts
<1>5. call' = [call EXCEPT ![c] = n]
  BY DEF NextLoan, CallsOK
<1>6. IsCall(f)
  BY PartsFields
<1> HIDE DEF n, f
<1>7. Becomes(c, f) /\ CallsOK'
  BY <1>4, <1>5, <1>6, Becoming
<1> QED BY <1>7 DEF f

LEMMA WriteBecomes ==
  ASSUME CallsOK, NEW c \in Calls, Write(c)
  PROVE  LET k == call[c]
         IN Becomes(c, Parts(k.op, k.member, Tail(k.todo), k.seen, k.stored,
                             k.wrote \cup {k.member},
                             rows[k.member].finePaid + 1 >= rows[k.member].fined))
            /\ CallsOK'
<1> DEFINE k == call[c]
           z == rows[k.member].finePaid + 1 >= rows[k.member].fined
           p == [k EXCEPT !.todo = Tail(k.todo)]
           q == [p EXCEPT !.wrote = k.wrote \cup {k.member}]
           n == [k EXCEPT !.todo = Tail(k.todo), !.wrote = k.wrote \cup {k.member}, !.closes = z]
           f == Parts(k.op, k.member, Tail(k.todo), k.seen, k.stored, k.wrote \cup {k.member}, z)
<1>1. IsCall(k)
  BY DEF CallsOK
<1>2. p = Parts(k.op, k.member, Tail(k.todo), k.seen, k.stored, k.wrote, k.closes)
  BY <1>1, PutOne
<1>3. q = Parts(k.op, k.member, Tail(k.todo), k.seen, k.stored, k.wrote \cup {k.member}, k.closes)
  <2>1. q = [p EXCEPT !.wrote = k.wrote \cup {k.member}]
    OBVIOUS
  <2> HIDE DEF p, k, q
  <2> QED BY <1>2, <2>1 DEF Parts
<1>4. n = [q EXCEPT !.closes = z]
  BY Zenon
<1>5. n = f
  <2> HIDE DEF q, n, k, z
  <2> QED BY <1>3, <1>4 DEF f, Parts
<1>6. call' = [call EXCEPT ![c] = n]
  BY DEF Write, CallsOK
<1>7. IsCall(f)
  BY PartsFields
<1> HIDE DEF n, f
<1>8. Becomes(c, f) /\ CallsOK'
  BY <1>5, <1>6, <1>7, Becoming
<1> QED BY <1>8 DEF f

LEMMA LookBecomes ==
  ASSUME CallsOK, NEW c \in Calls, NEW t, Look(c, t)
  PROVE  LET k == call[c]
         IN Becomes(c, Parts(k.op, k.member, k.todo, [read |-> TRUE, sums |-> Sums(Visible(c), t)],
                             k.stored, k.wrote, k.closes))
            /\ CallsOK'
<1> DEFINE k == call[c]
           z == [read |-> TRUE, sums |-> Sums(Visible(c), t)]
           n == [k EXCEPT !.seen = z]
           f == Parts(k.op, k.member, k.todo, z, k.stored, k.wrote, k.closes)
<1>1. IsCall(k)
  BY DEF CallsOK
<1>2. n = f
  <2> HIDE DEF z
  <2> QED BY <1>1, PutOne
<1>3. call' = [call EXCEPT ![c] = n]
  BY DEF Look, CallsOK
<1>4. IsCall(f)
  BY PartsFields
<1> HIDE DEF n, f
<1>5. Becomes(c, f) /\ CallsOK'
  BY <1>2, <1>3, <1>4, Becoming
<1> QED BY <1>5 DEF f

LEMMA StoreBecomes ==
  ASSUME CallsOK, NEW c \in Calls, NEW t, Store(c, t)
  PROVE  LET k == call[c]
         IN Becomes(c, Parts(k.op, k.member, Tail(k.todo), Unread,
                             [u \in DOMAIN k.stored \cup {t} |->
                                IF u = t THEN k.seen.sums ELSE k.stored[u]],
                             k.wrote, k.closes))
            /\ CallsOK'
<1> DEFINE k == call[c]
           z == [u \in DOMAIN k.stored \cup {t} |-> IF u = t THEN k.seen.sums ELSE k.stored[u]]
           p == [k EXCEPT !.todo = Tail(k.todo)]
           q == [p EXCEPT !.seen = Unread]
           n == [k EXCEPT !.todo = Tail(k.todo), !.seen = Unread, !.stored = z]
           f == Parts(k.op, k.member, Tail(k.todo), Unread, z, k.wrote, k.closes)
<1>1. IsCall(k)
  BY DEF CallsOK
<1>2. p = Parts(k.op, k.member, Tail(k.todo), k.seen, k.stored, k.wrote, k.closes)
  BY <1>1, PutOne
<1>3. q = Parts(k.op, k.member, Tail(k.todo), Unread, k.stored, k.wrote, k.closes)
  <2>1. q = [p EXCEPT !.seen = Unread]
    OBVIOUS
  <2> HIDE DEF p, k, q
  <2> QED BY <1>2, <2>1 DEF Parts
<1>4. n = [q EXCEPT !.stored = z]
  BY Zenon
<1>5. n = f
  <2> HIDE DEF q, n, k, z
  <2> QED BY <1>3, <1>4 DEF f, Parts
<1>6. call' = [call EXCEPT ![c] = n]
  BY DEF Store, CallsOK
<1>7. IsCall(f)
  BY PartsFields
<1> HIDE DEF n, f
<1>8. Becomes(c, f) /\ CallsOK'
  BY <1>5, <1>6, <1>7, Becoming
<1> QED BY <1>8 DEF f

LEMMA SkipBecomes ==
  ASSUME CallsOK, NEW c \in Calls, NEW t, Skip(c, t)
  PROVE  LET k == call[c]
         IN Becomes(c, Parts(k.op, k.member, Tail(k.todo), Unread, k.stored, k.wrote, k.closes))
            /\ CallsOK'
<1> DEFINE k == call[c]
           p == [k EXCEPT !.todo = Tail(k.todo)]
           n == [k EXCEPT !.todo = Tail(k.todo), !.seen = Unread]
           f == Parts(k.op, k.member, Tail(k.todo), Unread, k.stored, k.wrote, k.closes)
<1>1. IsCall(k)
  BY DEF CallsOK
<1>2. p = Parts(k.op, k.member, Tail(k.todo), k.seen, k.stored, k.wrote, k.closes)
  BY <1>1, PutOne
<1>3. n = [p EXCEPT !.seen = Unread]
  BY Zenon
<1>4. n = f
  <2> HIDE DEF p, n, k
  <2> QED BY <1>2, <1>3 DEF f, Parts
<1>5. call' = [call EXCEPT ![c] = n]
  BY DEF Skip, CallsOK
<1>6. IsCall(f)
  BY PartsFields
<1> HIDE DEF n, f
<1>7. Becomes(c, f) /\ CallsOK'
  BY <1>4, <1>5, <1>6, Becoming
<1> QED BY <1>7 DEF f

LEMMA EndBecomes ==
  ASSUME CallsOK, NEW c \in Calls, Commit(c) \/ GiveUp(c)
  PROVE  Becomes(c, Idle) /\ CallsOK'
<1>1. call' = [call EXCEPT ![c] = Idle]
  BY Zenon DEF Commit, GiveUp
<1> QED BY <1>1, IdleCall, Becoming, Zenon

-----------------------------------------------------------------------------
(***************************************************************************)
(* The inductive invariant.  Its first half says how the open transactions *)
(* stand to the rows and to each other; its second half, what the sums     *)
(* they hold are worth.                                                    *)
(***************************************************************************)

\* What transaction k sees of the committed rows R.
View(k, R) == [m \in Members |-> IF m \in k.wrote THEN Effect(k.op, R[m], k.closes) ELSE R[m]]

Touched(k) == {k.member} \cup k.wrote

\* What k relied on when it began still holds.
CallSound(k, R) ==
  k # Idle =>
    /\ Shape(k)
    /\ k.op # "preview" =>
         /\ \A m \in Touched(k) : R[m] = Gone \/ Allowed(k.op, R[m])
         /\ \A m \in k.wrote : R[m] # Gone

\* No wallet is held twice; operations that take turns touch different members.
Pair(k, l) ==
  /\ DOMAIN k.stored \cap DOMAIN l.stored = {}
  /\ k # Idle /\ l # Idle /\ Clash(k.op, l.op) => Touched(k) \cap Touched(l) = {}

\* What overlaps as long as no mishap is recorded.
Alone ==
  /\ Without({"group"}) => \A c, d \in Calls :
       c # d /\ Open(c) /\ Open(d) /\ call[c].op \in Single => call[d].op \in Unguarded
  /\ Without({"member"}) => \A c, d \in Calls :
       c # d /\ Open(c) /\ Open(d) /\ call[c].op \in Unguarded => call[d].op = "preview"
  /\ Without({"fine"}) => \A c, d \in Calls :
       c # d /\ call[c].op = "payFine" /\ call[d].op = "payFine" => call[c].member # call[d].member
  /\ Without({"job"}) => \A c \in Calls : call[c].op # "overdue"
  /\ "undermined" \in mishaps => "removed" \in mishaps

RowsOK == rows = [m \in Members |-> rows[m]] /\ \A m \in Members : RowOK(rows[m])

Standing ==
  /\ RowsOK /\ CallsOK /\ Alone
  /\ \A c \in Calls : CallSound(call[c], rows)
  /\ \A c, d \in Calls : c # d => Pair(call[c], call[d])

\* The group's totals of k, once they are read for the last time, and the sums of
\* the members' wallets it holds are those of the rows it sees.
Trusted(k, M) ==
  /\ "undermined" \notin M
  /\ k.op \in Rereads \/ (k.op \in Single /\ "group" \notin M)
GroupSeen(k, R) ==
  /\ Final(k) /\ k.seen # Unread => k.seen.sums = GroupSums(View(k, R))
  /\ k.todo \in Seq(Members) => k.stored[Group] = GroupSums(View(k, R))
MemberSeen(k, R) ==
  \A t \in Members :
    /\ t \in DOMAIN k.stored => k.stored[t] = MemberSums(View(k, R), t)
    /\ k.todo # << >> /\ Head(k.todo) = t /\ k.seen # Unread =>
         R[t] = Gone \/ k.seen.sums = MemberSums(View(k, R), t)

\* A payment closes the fine just when it covers it.
FineSeen(k, R) ==
  k.op = "payFine" => \A m \in k.wrote : k.closes <=> R[m].finePaid + 1 >= R[m].fined

WorthOf(k, R, M) ==
  /\ Trusted(k, M) => GroupSeen(k, R)
  /\ "member" \notin M => MemberSeen(k, R)
  /\ "fine" \notin M => FineSeen(k, R)
Worth == \A c \in Calls : WorthOf(call[c], rows, mishaps)

Bounds ==
  /\ DOMAIN wallet = Targets
  /\ ledger \in [cash : Int, receivable : Int, savings : Int, penalty : Int]
  /\ begun \in 0..MaxCalls
  /\ mishaps \subseteq Mishaps

IInv == Standing /\ Worth /\ Bounds /\ WalletsExact /\ BooksAgree

LEMMA VisibleView ==
  ASSUME NEW c \in Calls
  PROVE  Visible(c) = View(call[c], rows)
  BY DEF Visible, View

LEMMA OpenIs ==
  ASSUME NEW k, NEW R, CallSound(k, R)
  PROVE  (k # Idle <=> k.op # "none") /\ (k.op # "none" <=> k.op \in Ops)
<1>1. k = Idle => k.op = "none"
  BY IdleCall
<1>2. k # Idle => k.op \in Ops
  BY ShapeFacts DEF CallSound
<1> QED BY <1>1, <1>2, OpKinds

LEMMA IdleSound ==
  /\ \A R : CallSound(Idle, R)
  /\ \A k : Pair(Idle, k) /\ Pair(k, Idle)
  BY IdleCall DEF CallSound, Pair

\* Going on with a transaction, or ending it.
LEMMA StepStanding ==
  ASSUME Standing, NEW c \in Calls, NEW n, Becomes(c, n), CallsOK', mishaps' = mishaps, RowsOK',
         CallSound(n, rows'), \A d \in Calls \ {c} : CallSound(call[d], rows'),
         \A d \in Calls \ {c} : Pair(n, call[d]) /\ Pair(call[d], n),
         n = Idle \/ (Open(c) /\ n.op = call[c].op /\ (n.op = "payFine" => n.member = call[c].member))
  PROVE  Standing'
<1>1. call'[c] = n /\ \A d \in Calls \ {c} : call'[d] = call[d]
  BY DEF Becomes
<1>2. \A d \in Calls : CallSound(call[d], rows)'
  BY <1>1
<1>3. \A d, e \in Calls : d # e => Pair(call[d], call[e])'
  <2> SUFFICES ASSUME NEW d \in Calls, NEW e \in Calls, d # e PROVE Pair(call[d], call[e])'
    OBVIOUS
  <2>1. CASE d = c
    BY <1>1, <2>1
  <2>2. CASE e = c
    BY <1>1, <2>2
  <2>3. CASE d # c /\ e # c
    BY <1>1, <2>3 DEF Standing
  <2> QED BY <2>1, <2>2, <2>3
<1>4. \A d \in Calls : Open(d)' => Open(d) /\ call'[d].op = call[d].op
  BY <1>1 DEF Open
<1>5. \A d \in Calls : call'[d].op # "none" => Open(d)'
  BY <1>2, OpenIs DEF Open
<1>6. \A d \in Calls : Open(d)' /\ call'[d].op = "payFine" => call'[d].member = call[d].member
  BY <1>1 DEF Open
<1>7. Alone'
  BY <1>4, <1>5, <1>6 DEF Alone, Standing, Without
<1> QED BY <1>2, <1>3, <1>7 DEF Standing

\* A step of c that leaves the rows alone.
LEMMA LocalStanding ==
  ASSUME Standing, NEW c \in Calls, Open(c), NEW n, Becomes(c, n), CallsOK', Shape(n),
         rows' = rows, mishaps' = mishaps,
         n.op = call[c].op, n.op = "payFine" => n.member = call[c].member,
         n.op # "preview" =>
           /\ \A m \in Touched(n) : rows[m] = Gone \/ Allowed(n.op, rows[m])
           /\ \A m \in n.wrote : rows[m] # Gone,
         \A d \in Calls \ {c} :
           /\ DOMAIN n.stored \cap DOMAIN call[d].stored = {}
           /\ Open(d) /\ Clash(n.op, call[d].op) => Touched(n) \cap Touched(call[d]) = {}
  PROVE  Standing'
<1>1. CallSound(n, rows') /\ \A d \in Calls \ {c} : CallSound(call[d], rows')
  BY DEF CallSound, Standing
<1>2. \A o, p : Clash(o, p) => Clash(p, o)
  BY DEF Clash
<1>3. \A d \in Calls \ {c} : Pair(n, call[d]) /\ Pair(call[d], n)
  BY <1>2 DEF Pair, Open
<1>4. RowsOK'
  BY DEF Standing, RowsOK
<1> QED BY <1>1, <1>3, <1>4, StepStanding

\* What Standing says of an open transaction, and of two.
LEMMA OpenSound ==
  ASSUME Standing, NEW c \in Calls, Open(c)
  PROVE  /\ Shape(call[c]) /\ IsCall(call[c])
         /\ call[c].op # "preview" =>
              /\ \A m \in Touched(call[c]) : rows[m] = Gone \/ Allowed(call[c].op, rows[m])
              /\ \A m \in call[c].wrote : rows[m] # Gone
         /\ \A d \in Calls \ {c} :
              /\ DOMAIN call[c].stored \cap DOMAIN call[d].stored = {}
              /\ Open(d) /\ Clash(call[c].op, call[d].op) =>
                   Touched(call[c]) \cap Touched(call[d]) = {}
  BY DEF Standing, CallSound, Pair, Open, CallsOK

\* Only an open transaction has something left to do.
LEMMA DoingOpen ==
  ASSUME NEW c \in Calls, call[c].todo # << >> \/ call[c].op # "none"
  PROVE  Open(c)
  BY IdleCall DEF Open

LEMMA NextLoanStanding ==
  ASSUME Standing, NEW c \in Calls, NEW m \in Members, NextLoan(c, m)
  PROVE  Standing'
<1> DEFINE k == call[c]
           n == Parts(k.op, m, Plan("overdue", m), k.seen, k.stored, k.wrote, k.closes)
<1>1. /\ k.op = "overdue" /\ k.todo = << >> /\ m \notin k.wrote
      /\ Allowed("overdue", rows[m]) /\ ~Busy(c, "overdue", m)
      /\ rows' = rows /\ mishaps' = mishaps
  BY DEF NextLoan
<1>2. Becomes(c, n) /\ CallsOK'
  BY NextLoanBecomes DEF Standing
<1>3. /\ n.op = k.op /\ n.member = m /\ n.todo = Plan("overdue", m) /\ n.seen = k.seen
      /\ n.stored = k.stored /\ n.wrote = k.wrote
  BY PartsFields
<1> HIDE DEF n
<1>4. Open(c)
  BY <1>1, DoingOpen
<1>5. Plan("overdue", m) = <<"write", m>>
  BY DEF Plan, Unguarded
<1>6. Shape(n)
  BY <1>1, <1>3, <1>4, <1>5, OpenSound, NextLoanShape
<1>7. Touched(n) \subseteq {m} \cup Touched(k)
  BY <1>3 DEF Touched
<1>8. ASSUME NEW d \in Calls \ {c}, Open(d), Clash(n.op, call[d].op)
      PROVE  Touched(n) \cap Touched(call[d]) = {}
  <2>1. {"overdue", call[d].op} \subseteq LoanOps
    BY <1>1, <1>3, <1>8 DEF Clash
  <2>2. m \notin Touched(call[d])
    BY <1>1, <1>8, <2>1 DEF Busy, Others, Touched
  <2> QED BY <1>3, <1>4, <1>7, <1>8, <2>2, OpenSound
<1> QED BY <1>1, <1>2, <1>3, <1>4, <1>6, <1>7, <1>8, OpenSound, LocalStanding

LEMMA WriteStanding ==
  ASSUME Standing, NEW c \in Calls, Write(c)
  PROVE  Standing'
<1> DEFINE k == call[c]
           n == Parts(k.op, k.member, Tail(k.todo), k.seen, k.stored, k.wrote \cup {k.member},
                      rows[k.member].finePaid + 1 >= rows[k.member].fined)
<1>1. /\ k.todo # << >> /\ Head(k.todo) = "write" /\ rows[k.member] # Gone
      /\ rows' = rows /\ mishaps' = mishaps
  BY DEF Write, Doing
<1>2. Becomes(c, n) /\ CallsOK'
  BY WriteBecomes DEF Standing
<1>3. /\ n.op = k.op /\ n.member = k.member /\ n.todo = Tail(k.todo) /\ n.seen = k.seen
      /\ n.stored = k.stored /\ n.wrote = k.wrote \cup {k.member}
  BY PartsFields
<1> HIDE DEF n
<1>4. Open(c)
  BY <1>1, DoingOpen
<1>5. Shape(n)
  BY <1>1, <1>3, <1>4, OpenSound, WriteShape
<1>6. Touched(n) = Touched(k)
  BY <1>3 DEF Touched
<1> QED BY <1>1, <1>2, <1>3, <1>4, <1>5, <1>6, OpenSound, LocalStanding

LEMMA LookStanding ==
  ASSUME Standing, NEW c \in Calls, NEW t \in Targets, Look(c, t)
  PROVE  Standing'
<1> DEFINE k == call[c]
           n == Parts(k.op, k.member, k.todo, [read |-> TRUE, sums |-> Sums(Visible(c), t)],
                      k.stored, k.wrote, k.closes)
<1>1. /\ k.todo # << >> /\ Head(k.todo) = t /\ rows' = rows /\ mishaps' = mishaps
  BY DEF Look, Doing
<1>2. Becomes(c, n) /\ CallsOK'
  BY LookBecomes DEF Standing
<1>3. /\ n.op = k.op /\ n.member = k.member /\ n.todo = k.todo
      /\ n.stored = k.stored /\ n.wrote = k.wrote
  BY PartsFields
<1> HIDE DEF n
<1>4. Open(c)
  BY <1>1, DoingOpen
<1>5. Shape(n)
  BY <1>1, <1>3, <1>4, OpenSound, LookShape
<1>6. Touched(n) = Touched(k)
  BY <1>3 DEF Touched
<1> QED BY <1>1, <1>2, <1>3, <1>4, <1>5, <1>6, OpenSound, LocalStanding

LEMMA StoreStanding ==
  ASSUME Standing, NEW c \in Calls, NEW t \in Targets, Store(c, t)
  PROVE  Standing'
<1> DEFINE k == call[c]
           z == [u \in DOMAIN k.stored \cup {t} |-> IF u = t THEN k.seen.sums ELSE k.stored[u]]
           n == Parts(k.op, k.member, Tail(k.todo), Unread, z, k.wrote, k.closes)
<1>1. /\ k.todo # << >> /\ Head(k.todo) = t /\ rows' = rows /\ mishaps' = mishaps
      /\ \A d \in Others(c) : ~HeldBy(d, t)
  BY DEF Store, Doing
<1>2. Becomes(c, n) /\ CallsOK'
  BY StoreBecomes DEF Standing
<1>3. /\ n.op = k.op /\ n.member = k.member /\ n.todo = Tail(k.todo) /\ n.seen = Unread
      /\ n.stored = z /\ n.wrote = k.wrote
  BY PartsFields
<1>4. DOMAIN z = DOMAIN k.stored \cup {t}
  OBVIOUS
<1> HIDE DEF n, z
<1>5. Open(c)
  BY <1>1, DoingOpen
<1>6. Shape(n)
  BY <1>1, <1>3, <1>4, <1>5, OpenSound, StoreShape
<1>7. Touched(n) = Touched(k)
  BY <1>3 DEF Touched
<1>8. \A d \in Calls \ {c} : t \notin DOMAIN call[d].stored
  BY <1>1, IdleCall DEF Others, HeldBy, Open
<1> QED BY <1>1, <1>2, <1>3, <1>4, <1>5, <1>6, <1>7, <1>8, OpenSound, LocalStanding

\* What a rebuild skips is a member, gone, whom the transaction has not written.
LEMMA SkipGone ==
  ASSUME Standing, NEW c \in Calls, NEW t \in Targets, Skip(c, t)
  PROVE  t \in Members /\ rows[t] = Gone /\ t \notin call[c].wrote
<1>1. t \in Members /\ rows[t] = Gone
  BY DEF Skip, Exists
<1>2. Open(c)
  BY DoingOpen DEF Skip, Doing
<1>3. call[c].op = "preview" => call[c].wrote = {}
  BY <1>2, OpenSound, ShapeFacts
<1> QED BY <1>1, <1>2, <1>3, OpenSound

LEMMA SkipStanding ==
  ASSUME Standing, NEW c \in Calls, NEW t \in Targets, Skip(c, t)
  PROVE  Standing'
<1> DEFINE k == call[c]
           n == Parts(k.op, k.member, Tail(k.todo), Unread, k.stored, k.wrote, k.closes)
<1>1. /\ k.todo # << >> /\ Head(k.todo) = t /\ rows' = rows /\ mishaps' = mishaps
  BY DEF Skip, Doing
<1>2. Becomes(c, n) /\ CallsOK'
  BY SkipBecomes DEF Standing
<1>3. /\ n.op = k.op /\ n.member = k.member /\ n.todo = Tail(k.todo) /\ n.seen = Unread
      /\ n.stored = k.stored /\ n.wrote = k.wrote
  BY PartsFields
<1> HIDE DEF n
<1>4. Open(c)
  BY <1>1, DoingOpen
<1>5. Shape(n)
  BY <1>1, <1>3, <1>4, OpenSound, SkipGone, SkipShape
<1>6. Touched(n) = Touched(k)
  BY <1>3 DEF Touched
<1> QED BY <1>1, <1>2, <1>3, <1>4, <1>5, <1>6, OpenSound, LocalStanding

LEMMA GiveUpStanding ==
  ASSUME Standing, NEW c \in Calls, GiveUp(c)
  PROVE  Standing'
<1>1. Becomes(c, Idle) /\ CallsOK' /\ rows' = rows /\ mishaps' = mishaps
  BY EndBecomes DEF GiveUp, Standing
<1>2. RowsOK' /\ \A d \in Calls \ {c} : CallSound(call[d], rows')
  BY <1>1 DEF Standing, RowsOK
<1> QED BY <1>1, <1>2, IdleSound, StepStanding

LEMMA OverlapsIs ==
  ASSUME NEW c \in Calls, NEW op \in Ops, NEW m \in Members
  PROVE  /\ "group" \notin Overlaps(c, op, m) => \A d \in Others(c) :
              /\ op \in Single => call[d].op \notin Ops \ Unguarded
              /\ call[d].op \in Single => op \in Unguarded
         /\ "member" \notin Overlaps(c, op, m) => \A d \in Others(c) :
              /\ op \in Unguarded => call[d].op \notin Ops \ {"preview"}
              /\ call[d].op \in Unguarded => op = "preview"
         /\ "fine" \notin Overlaps(c, op, m) /\ op = "payFine" => \A d \in Others(c) :
              call[d].op = "payFine" => call[d].member # m
         /\ "job" \notin Overlaps(c, op, m) => op # "overdue"
         /\ "undermined" \notin Overlaps(c, op, m)
         /\ Overlaps(c, op, m) \subseteq Mishaps
<1> DEFINE ops == {call[d].op : d \in Others(c)}
           g == (op \in Single /\ ops \cap (Ops \ Unguarded) # {})
                  \/ (op \in Ops \ Unguarded /\ ops \cap Single # {})
           u == (op \in Unguarded /\ ops \cap (Ops \ {"preview"}) # {})
                  \/ (op \in Ops \ {"preview"} /\ ops \cap Unguarded # {})
           f == op = "payFine" /\ \E d \in Others(c) : call[d].op = "payFine" /\ call[d].member = m
<1>1. \A x : x \in Overlaps(c, op, m) <=>
        (x = "group" /\ g) \/ (x = "member" /\ u) \/ (x = "fine" /\ f) \/ (x = "job" /\ op = "overdue")
  BY DEF Overlaps
<1>2. \A d \in Others(c) : call[d].op \in ops
  OBVIOUS
<1>3. ~g => \A d \in Others(c) :
              /\ op \in Single => call[d].op \notin Ops \ Unguarded
              /\ call[d].op \in Single => op \in Unguarded
  <2> HIDE DEF ops
  <2> QED BY <1>2
<1>4. ~u => \A d \in Others(c) :
              /\ op \in Unguarded => call[d].op \notin Ops \ {"preview"}
              /\ call[d].op \in Unguarded => op = "preview"
  <2> HIDE DEF ops
  <2> QED BY <1>2
<1>5. ~f /\ op = "payFine" => \A d \in Others(c) : call[d].op = "payFine" => call[d].member # m
  OBVIOUS
<1> HIDE DEF g, u, f
<1> QED BY <1>1, <1>3, <1>4, <1>5 DEF Mishaps

LEMMA BeginStanding ==
  ASSUME Standing, NEW c \in Calls, NEW op \in Ops, NEW m \in Members, Begin(c, op, m)
  PROVE  Standing'
<1> DEFINE n == Parts(op, m, Plan(op, m), Unread, Idle.stored, {}, Idle.closes)
<1>1. /\ ~Open(c) /\ Allowed(op, rows[m]) /\ ~Busy(c, op, m)
      /\ rows' = rows /\ mishaps' = mishaps \cup Overlaps(c, op, m)
  BY DEF Begin
<1>2. Becomes(c, n) /\ CallsOK'
  BY BeginBecomes DEF Standing
<1>3. /\ n.op = op /\ n.member = m /\ n.todo = Plan(op, m) /\ n.seen = Unread
      /\ DOMAIN n.stored = {} /\ n.wrote = {}
  BY PartsFields, IdleCall
<1> HIDE DEF n
<1>4. Shape(n)
  BY <1>3, BeginShape
<1>5. Touched(n) = {m}
  BY <1>3 DEF Touched
<1>6. CallSound(n, rows)
  BY <1>1, <1>3, <1>4, <1>5 DEF CallSound
<1>7. ASSUME NEW d \in Calls \ {c} PROVE Pair(n, call[d]) /\ Pair(call[d], n)
  <2>1. ASSUME call[d] # Idle, Clash(op, call[d].op) \/ Clash(call[d].op, op)
        PROVE  m \notin Touched(call[d])
    <3>1. d \in Others(c)
      BY <2>1 DEF Others, Open
    <3>2. {op, call[d].op} \subseteq LoanOps \/ (op = call[d].op /\ op \in {"verify", "fine"})
      BY <2>1 DEF Clash
    <3> QED BY <1>1, <3>1, <3>2 DEF Busy, Touched
  <2> QED BY <1>3, <1>5, <2>1 DEF Pair
<1>8. call'[c] = n /\ \A d \in Calls \ {c} : call'[d] = call[d]
  BY <1>2 DEF Becomes
<1>9. \A d \in Calls : CallSound(call[d], rows)'
  BY <1>1, <1>6, <1>8 DEF Standing
<1>10. \A d, e \in Calls : d # e => Pair(call[d], call[e])'
  BY <1>7, <1>8 DEF Standing
<1>11. Alone'
  <2>1. \A d \in Calls \ {c} : Open(d)' => d \in Others(c) /\ Open(d) /\ call'[d].op \in Ops
    BY <1>8, OpenIs DEF Others, Open, Standing
  <2>2. \A d \in Calls \ {c} : call'[d].op # "none" => d \in Others(c)
    BY <1>8, DoingOpen DEF Others
  <2>3. Without({"group"})' => \A d, e \in Calls :
          d # e /\ Open(d)' /\ Open(e)' /\ call'[d].op \in Single => call'[e].op \in Unguarded
    BY <1>1, <1>3, <1>8, <2>1, OverlapsIs DEF Alone, Standing, Without, Open
  <2>4. Without({"member"})' => \A d, e \in Calls :
          d # e /\ Open(d)' /\ Open(e)' /\ call'[d].op \in Unguarded => call'[e].op = "preview"
    BY <1>1, <1>3, <1>8, <2>1, OverlapsIs DEF Alone, Standing, Without, Open
  <2>5. Without({"fine"})' => \A d, e \in Calls :
          d # e /\ call'[d].op = "payFine" /\ call'[e].op = "payFine"
            => call'[d].member # call'[e].member
    BY <1>1, <1>3, <1>8, <2>2, OverlapsIs DEF Alone, Standing, Without
  <2>6. Without({"job"})' => \A d \in Calls : call'[d].op # "overdue"
    BY <1>1, <1>3, <1>8, OverlapsIs DEF Alone, Standing, Without
  <2>7. "undermined" \in mishaps' => "removed" \in mishaps'
    BY <1>1, OverlapsIs DEF Alone, Standing
  <2> QED BY <2>3, <2>4, <2>5, <2>6, <2>7 DEF Alone
<1>12. RowsOK'
  BY <1>1 DEF Standing, RowsOK
<1> QED BY <1>2, <1>9, <1>10, <1>11, <1>12 DEF Standing

\* A pledge changes one row, and nothing anyone relies on.
LEMMA PledgeRows ==
  ASSUME RowsOK, NEW m \in Members, Pledge(m)
  PROVE  /\ RowsOK' /\ rows[m] # Gone /\ rows'[m] = [rows[m] EXCEPT !.pending = 1]
         /\ \A x \in Members \ {m} : rows'[x] = rows[x]
<1>1. rows[m] # Gone /\ rows' = [rows EXCEPT ![m].pending = 1]
  BY DEF Pledge
<1>2. /\ rows'[m] = [rows[m] EXCEPT !.pending = 1]
      /\ \A x \in Members \ {m} : rows'[x] = rows[x]
      /\ rows' = [x \in Members |-> rows'[x]]
  BY <1>1 DEF RowsOK
<1>3. RowOK(rows'[m])
  BY <1>1, <1>2, PledgeRow DEF RowsOK
<1> QED BY <1>1, <1>2, <1>3 DEF RowsOK

LEMMA QuietCalls ==
  ASSUME Standing, call' = call, RowsOK', Alone',
         \A c \in Calls : CallSound(call[c], rows')
  PROVE  Standing'
  BY DEF Standing, CallsOK

LEMMA PledgeStanding ==
  ASSUME Standing, NEW m \in Members, Pledge(m)
  PROVE  Standing'
<1>1. call' = call /\ mishaps' = mishaps
  BY DEF Pledge
<1>2. /\ RowsOK' /\ rows[m] # Gone /\ rows'[m] = [rows[m] EXCEPT !.pending = 1]
      /\ \A x \in Members \ {m} : rows'[x] = rows[x]
  BY PledgeRows DEF Standing
<1>3. RowOK(rows[m]) /\ rows'[m] # Gone
  BY <1>2, PledgeRow DEF Standing, RowsOK
<1>4. ASSUME NEW c \in Calls PROVE CallSound(call[c], rows')
  <2> DEFINE k == call[c]
  <2> SUFFICES ASSUME k # Idle, k.op # "preview"
               PROVE  /\ \A x \in Touched(k) : rows'[x] = Gone \/ Allowed(k.op, rows'[x])
                      /\ \A x \in k.wrote : rows'[x] # Gone
    BY DEF CallSound, Standing
  <2>1. /\ \A x \in Touched(k) : rows[x] = Gone \/ Allowed(k.op, rows[x])
        /\ \A x \in k.wrote : rows[x] # Gone
        /\ k.op \in Ops /\ Touched(k) \subseteq Members
    BY ShapeFacts DEF CallSound, Standing, Touched
  <2>2. k.wrote \subseteq Touched(k)
    BY DEF Touched
  <2>3. Allowed(k.op, rows[m]) => Allowed(k.op, rows'[m])
    BY <1>2, <1>3, <2>1, PledgeThen
  <2> HIDE DEF k
  <2> QED BY <1>2, <1>3, <2>1, <2>2, <2>3
<1>5. Alone'
  BY <1>1 DEF Standing, Alone, Without, Open
<1> QED BY <1>1, <1>2, <1>4, <1>5, QuietCalls

LEMMA RemoveRows ==
  ASSUME RowsOK, NEW m \in Members, Remove(m)
  PROVE  RowsOK' /\ rows'[m] = Gone /\ \A x \in Members \ {m} : rows'[x] = rows[x]
<1>1. rows' = [rows EXCEPT ![m] = Gone]
  BY DEF Remove
<1> QED BY <1>1, GoneOK DEF RowsOK

LEMMA RemoveStanding ==
  ASSUME Standing, NEW m \in Members, Remove(m)
  PROVE  Standing'
<1>1. /\ call' = call /\ \A c \in Calls : m \notin call[c].wrote
      /\ mishaps' = mishaps \cup {"removed"} \cup {k \in {"undermined"} : \E c \in Calls : Open(c)}
  BY DEF Remove
<1>2. RowsOK' /\ rows'[m] = Gone /\ \A x \in Members \ {m} : rows'[x] = rows[x]
  BY RemoveRows DEF Standing
<1>3. ASSUME NEW c \in Calls PROVE CallSound(call[c], rows')
  <2> DEFINE k == call[c]
  <2> SUFFICES ASSUME k # Idle, k.op # "preview"
               PROVE  /\ \A x \in Touched(k) : rows'[x] = Gone \/ Allowed(k.op, rows'[x])
                      /\ \A x \in k.wrote : rows'[x] # Gone
    BY DEF CallSound, Standing
  <2>1. /\ \A x \in Touched(k) : rows[x] = Gone \/ Allowed(k.op, rows[x])
        /\ \A x \in k.wrote : rows[x] # Gone
        /\ k.op \in Ops /\ Touched(k) \subseteq Members
    BY ShapeFacts DEF CallSound, Standing, Touched
  <2>2. k.wrote \subseteq Touched(k) /\ m \notin k.wrote
    BY <1>1 DEF Touched
  <2> HIDE DEF k
  <2> QED BY <1>2, <2>1, <2>2
<1>4. Alone'
  BY <1>1 DEF Standing, Alone, Without, Open
<1> QED BY <1>1, <1>2, <1>3, <1>4, QuietCalls

\* What a commit leaves in the rows.
LEMMA CommitRows ==
  ASSUME Standing, NEW c \in Calls, Commit(c)
  PROVE  LET k == call[c]
         IN /\ Open(c) /\ Shape(k) /\ k.op \in Ops /\ k.todo = << >>
            /\ k.wrote \subseteq Members /\ k.wrote \subseteq DOMAIN k.stored
            /\ rows' = View(k, rows) /\ mishaps' = mishaps
            /\ \A m \in Members \ k.wrote : rows'[m] = rows[m]
            /\ \A m \in k.wrote :
                 /\ rows'[m] = Effect(k.op, rows[m], k.closes)
                 /\ RowOK(rows[m]) /\ rows[m] # Gone /\ Allowed(k.op, rows[m])
                 /\ RowOK(rows'[m]) /\ rows'[m] # Gone
                 /\ k.op # "preview"
            /\ RowsOK'
<1> DEFINE k == call[c]
<1>1. Open(c) /\ k.todo = << >> /\ rows' = View(k, rows) /\ mishaps' = mishaps
  BY VisibleView DEF Commit
<1>2. /\ Shape(k) /\ k.op \in Ops /\ k.wrote \subseteq Members
      /\ k.wrote \subseteq DOMAIN k.stored
      /\ k.op = "preview" => k.wrote = {}
  BY <1>1, OpenSound, ShapeFacts
<1>3. \A m \in k.wrote : k.op # "preview" /\ rows[m] # Gone /\ Allowed(k.op, rows[m])
  <2>1. k.op # "preview" =>
          /\ \A m \in Touched(k) : rows[m] = Gone \/ Allowed(k.op, rows[m])
          /\ \A m \in k.wrote : rows[m] # Gone
    BY <1>1, OpenSound
  <2>2. k.wrote \subseteq Touched(k)
    BY DEF Touched
  <2> HIDE DEF k
  <2> QED BY <1>2, <2>1, <2>2
<1> HIDE DEF k
<1>4. /\ \A m \in Members \ k.wrote : rows'[m] = rows[m]
      /\ \A m \in k.wrote : rows'[m] = Effect(k.op, rows[m], k.closes)
      /\ rows' = [m \in Members |-> rows'[m]]
  BY <1>1, <1>2 DEF View
<1>5. \A m \in k.wrote : RowOK(rows[m]) /\ RowOK(rows'[m]) /\ rows'[m] # Gone
  BY <1>2, <1>3, <1>4, EffectRow DEF Standing, RowsOK
<1>6. RowsOK'
  BY <1>4, <1>5 DEF Standing, RowsOK
<1> QED BY <1>1, <1>2, <1>3, <1>4, <1>5, <1>6, Zenon DEF k

\* Two transactions that wrote the same row do not take turns on it.
LEMMA SharedRow ==
  ASSUME Standing, NEW c \in Calls, Open(c), NEW d \in Calls \ {c}, Open(d),
         NEW m \in Touched(call[c]) \cap Touched(call[d])
  PROVE  ~Clash(call[d].op, call[c].op)
  BY OpenSound

LEMMA CommitStanding ==
  ASSUME Standing, NEW c \in Calls, Commit(c)
  PROVE  Standing'
<1> DEFINE k == call[c]
<1>1. /\ Open(c) /\ k.op \in Ops /\ RowsOK' /\ mishaps' = mishaps
      /\ \A m \in Members \ k.wrote : rows'[m] = rows[m]
      /\ \A m \in k.wrote :
           /\ rows'[m] = Effect(k.op, rows[m], k.closes)
           /\ RowOK(rows[m]) /\ rows[m] # Gone /\ Allowed(k.op, rows[m]) /\ rows'[m] # Gone
  BY CommitRows
<1>2. Becomes(c, Idle) /\ CallsOK'
  BY EndBecomes DEF Standing
<1>3. ASSUME NEW d \in Calls \ {c} PROVE CallSound(call[d], rows')
  <2> DEFINE l == call[d]
  <2> SUFFICES ASSUME l # Idle, l.op # "preview"
               PROVE  /\ \A x \in Touched(l) : rows'[x] = Gone \/ Allowed(l.op, rows'[x])
                      /\ \A x \in l.wrote : rows'[x] # Gone
    BY DEF CallSound, Standing
  <2>1. /\ \A x \in Touched(l) : rows[x] = Gone \/ Allowed(l.op, rows[x])
        /\ \A x \in l.wrote : rows[x] # Gone
        /\ l.op \in Ops /\ Touched(l) \subseteq Members /\ Open(d)
    BY ShapeFacts DEF CallSound, Standing, Touched, Open
  <2>2. l.wrote \subseteq Touched(l) /\ k.wrote \subseteq Touched(k)
    BY DEF Touched
  <2>3. ASSUME NEW x \in Touched(l), x \in k.wrote
        PROVE  Allowed(l.op, rows'[x])
    <3>1. ~Clash(l.op, k.op)
      BY <1>1, <2>1, <2>2, <2>3, SharedRow
    <3>2. Allowed(l.op, rows[x])
      BY <1>1, <2>1, <2>3
    <3> HIDE DEF k, l
    <3> QED BY <1>1, <2>1, <2>3, <3>1, <3>2, EffectAllows
  <2> HIDE DEF k, l
  <2> QED BY <1>1, <2>1, <2>2, <2>3
<1> QED BY <1>1, <1>2, <1>3, IdleSound, StepStanding

LEMMA InitStanding ==
  ASSUME Init
  PROVE  Standing
<1>1. /\ call = [c \in Calls |-> Idle] /\ rows = [m \in Members |-> NoRows] /\ mishaps = {}
  BY DEF Init
<1>2. RowsOK
  BY <1>1, GoneOK DEF RowsOK
<1>3. CallsOK
  BY <1>1, IdleCall DEF CallsOK
<1>4. Alone
  BY <1>1, IdleCall DEF Alone, Open
<1>5. /\ \A c \in Calls : CallSound(call[c], rows)
      /\ \A c, d \in Calls : c # d => Pair(call[c], call[d])
  BY <1>1, IdleSound
<1> QED BY <1>2, <1>3, <1>4, <1>5 DEF Standing

LEMMA NextStanding ==
  ASSUME Standing, [Next]_vars
  PROVE  Standing'
<1>1. CASE UNCHANGED vars
  BY <1>1 DEF vars, Standing, RowsOK, CallsOK, Alone, Without, Open
<1>2. CASE Next
  BY <1>2, PledgeStanding, RemoveStanding, BeginStanding, NextLoanStanding, WriteStanding,
     LookStanding, StoreStanding, SkipStanding, CommitStanding, GiveUpStanding DEF Next
<1> QED BY <1>1, <1>2

-----------------------------------------------------------------------------
(* What the sums that transactions hold are worth. *)

LEMMA MoreMishaps ==
  ASSUME NEW k, NEW R, NEW M, NEW N, WorthOf(k, R, M), M \subseteq N
  PROVE  WorthOf(k, R, N)
  BY DEF WorthOf, Trusted

LEMMA IdleWorth == \A R, M : WorthOf(Idle, R, M)
<1>1. /\ Idle.op \notin Rereads /\ Idle.op \notin Single /\ Idle.op # "payFine"
      /\ DOMAIN Idle.stored = {} /\ Idle.todo = << >>
  BY IdleCall DEF Rereads, Single
<1> QED BY <1>1 DEF WorthOf, Trusted, MemberSeen, FineSeen

LEMMA StepWorth ==
  ASSUME Worth, NEW c \in Calls, NEW n, Becomes(c, n), WorthOf(n, rows', mishaps'),
         \A d \in Calls \ {c} : WorthOf(call[d], rows', mishaps')
  PROVE  Worth'
  BY DEF Worth, Becomes

\* A step of c that leaves the rows alone.
LEMMA LocalWorth ==
  ASSUME Worth, NEW c \in Calls, NEW n, Becomes(c, n), rows' = rows, mishaps \subseteq mishaps',
         WorthOf(n, rows, mishaps')
  PROVE  Worth'
<1>1. \A d \in Calls \ {c} : WorthOf(call[d], rows', mishaps')
  BY MoreMishaps DEF Worth
<1> QED BY <1>1, StepWorth

LEMMA SameView ==
  ASSUME NEW k, NEW n, n.op = k.op, n.wrote = k.wrote, n.closes = k.closes, NEW R
  PROVE  View(n, R) = View(k, R)
  BY Zenon DEF View

LEMMA BeginWorth ==
  ASSUME Worth, Standing, NEW c \in Calls, NEW op \in Ops, NEW m \in Members, Begin(c, op, m)
  PROVE  Worth'
<1> DEFINE n == Parts(op, m, Plan(op, m), Unread, Idle.stored, {}, Idle.closes)
<1>1. rows' = rows /\ mishaps \subseteq mishaps'
  BY DEF Begin
<1>2. Becomes(c, n)
  BY BeginBecomes DEF Standing
<1>3. /\ n.op = op /\ n.member = m /\ n.todo = Plan(op, m) /\ n.seen = Unread
      /\ DOMAIN n.stored = {} /\ n.wrote = {}
  BY PartsFields, IdleCall
<1> HIDE DEF n
<1>4. op \notin Unguarded => n.todo \notin Seq(Members)
  BY <1>3, BeginShape
<1>5. op \in Rereads \cup Single => op \notin Unguarded
  BY OpKinds
<1>6. WorthOf(n, rows, mishaps')
  BY <1>3, <1>4, <1>5 DEF WorthOf, Trusted, GroupSeen, MemberSeen, FineSeen
<1> QED BY <1>1, <1>2, <1>6, LocalWorth

LEMMA NextLoanWorth ==
  ASSUME Worth, Standing, NEW c \in Calls, NEW m \in Members, NextLoan(c, m)
  PROVE  Worth'
<1> DEFINE k == call[c]
           n == Parts(k.op, m, Plan("overdue", m), k.seen, k.stored, k.wrote, k.closes)
<1>1. k.op = "overdue" /\ k.todo = << >> /\ rows' = rows /\ mishaps' = mishaps
  BY DEF NextLoan
<1>2. Becomes(c, n)
  BY NextLoanBecomes DEF Standing
<1>3. /\ n.op = k.op /\ n.seen = k.seen /\ n.stored = k.stored
      /\ n.wrote = k.wrote /\ n.closes = k.closes
  BY PartsFields
<1> HIDE DEF n
<1>4. k.seen = Unread
  BY <1>1, DoingOpen, OpenSound, ShapeFacts
<1>5. View(n, rows) = View(k, rows)
  BY <1>3, SameView
<1>6. WorthOf(k, rows, mishaps)
  BY DEF Worth
<1>7. n.op \notin Rereads /\ n.op \notin Single
  BY <1>1, <1>3 DEF Rereads, Single
<1>8. "member" \notin mishaps => MemberSeen(n, rows)
  BY <1>3, <1>4, <1>5, <1>6 DEF WorthOf, MemberSeen
<1>9. WorthOf(n, rows, mishaps)
  BY <1>1, <1>3, <1>7, <1>8 DEF WorthOf, Trusted, FineSeen
<1> QED BY <1>1, <1>2, <1>9, LocalWorth

LEMMA WriteWorth ==
  ASSUME Worth, Standing, NEW c \in Calls, Write(c)
  PROVE  Worth'
<1> DEFINE k == call[c]
           z == rows[k.member].finePaid + 1 >= rows[k.member].fined
           n == Parts(k.op, k.member, Tail(k.todo), k.seen, k.stored, k.wrote \cup {k.member}, z)
<1>1. k.todo # << >> /\ Head(k.todo) = "write" /\ rows' = rows /\ mishaps' = mishaps
  BY DEF Write, Doing
<1>2. Becomes(c, n)
  BY WriteBecomes DEF Standing
<1>3. /\ n.op = k.op /\ n.member = k.member /\ n.todo = Tail(k.todo) /\ n.seen = k.seen
      /\ n.stored = k.stored /\ n.wrote = k.wrote \cup {k.member} /\ n.closes = z
  BY PartsFields
<1> HIDE DEF n
<1>4. Shape(k)
  BY <1>1, DoingOpen, OpenSound
<1>5. /\ n.seen = Unread /\ k.member \notin k.wrote
      /\ k.op # "overdue" => k.wrote = {}
      /\ k.op # "preview"
      /\ k.op \in Guarded => n.todo \notin Seq(Members) /\ DOMAIN k.stored \subseteq {Group}
  BY <1>1, <1>3, <1>4, WriteShape
<1>6. WorthOf(k, rows, mishaps)
  BY DEF Worth
<1>7. Trusted(n, mishaps) => GroupSeen(n, rows)
  <2>1. Trusted(n, mishaps) => k.op \in Guarded
    BY <1>3, <1>5, OpKinds DEF Trusted
  <2> QED BY <1>5, <2>1 DEF GroupSeen
<1>8. ASSUME "member" \notin mishaps PROVE MemberSeen(n, rows)
  <2> SUFFICES ASSUME NEW t \in Members, t \in DOMAIN k.stored
               PROVE  k.stored[t] = MemberSums(View(n, rows), t)
    BY <1>3, <1>5 DEF MemberSeen
  <2>1. k.stored[t] = MemberSums(View(k, rows), t)
    BY <1>6, <1>8 DEF WorthOf, MemberSeen
  <2>2. k.op = "overdue" /\ t \in k.wrote /\ t # k.member
    <3>1. k.op \notin Guarded
      BY <1>5, Names
    <3>2. k.op \in Unguarded
      BY <1>4, <1>5, <3>1, ShapeFacts, OpKinds
    <3>3. k.op # "fine"
      BY <1>1, <1>4, ShapeFacts
    <3>4. t \in k.wrote
      BY <1>4, <3>2, ShapeFacts
    <3> QED BY <1>5, <3>2, <3>3, <3>4 DEF Unguarded
  <2>3. View(n, rows)[t] = Charged(rows[t]) /\ View(k, rows)[t] = Charged(rows[t])
    <3>1. /\ Effect("overdue", rows[t], n.closes) = Charged(rows[t])
          /\ Effect("overdue", rows[t], k.closes) = Charged(rows[t])
      BY EffectIs DEF Ops
    <3>2. n.op = "overdue" /\ t \in n.wrote
      BY <1>3, <2>2
    <3> QED BY <2>2, <3>1, <3>2 DEF View
  <2> QED BY <2>1, <2>3, Zenon DEF MemberSums
<1>9. FineSeen(n, rows)
  <2> SUFFICES ASSUME n.op = "payFine", NEW m \in n.wrote
               PROVE  n.closes <=> rows[m].finePaid + 1 >= rows[m].fined
    BY DEF FineSeen
  <2>1. m = k.member
    BY <1>3, <1>5
  <2> QED BY <1>3, <2>1
<1> QED BY <1>1, <1>2, <1>7, <1>8, <1>9, LocalWorth DEF WorthOf

LEMMA LookWorth ==
  ASSUME Worth, Standing, NEW c \in Calls, NEW t \in Targets, Look(c, t)
  PROVE  Worth'
<1> DEFINE k == call[c]
           z == [read |-> TRUE, sums |-> Sums(Visible(c), t)]
           n == Parts(k.op, k.member, k.todo, z, k.stored, k.wrote, k.closes)
<1>1. k.todo # << >> /\ Head(k.todo) = t /\ rows' = rows /\ mishaps' = mishaps
  BY DEF Look, Doing
<1>2. Becomes(c, n)
  BY LookBecomes DEF Standing
<1>3. /\ n.op = k.op /\ n.todo = k.todo /\ n.seen = z
      /\ n.stored = k.stored /\ n.wrote = k.wrote /\ n.closes = k.closes
  BY PartsFields
<1> HIDE DEF n
<1>4. View(n, rows) = View(k, rows) /\ WorthOf(k, rows, mishaps)
  BY <1>3, SameView DEF Worth
<1>5. n.seen.sums = Sums(View(k, rows), t)
  BY <1>3, VisibleView
<1>6. Final(n) => t = Group
  BY <1>1, <1>3, Todos DEF Final
<1>7. Trusted(n, mishaps) => GroupSeen(n, rows)
  <2>1. Trusted(n, mishaps) => Trusted(k, mishaps)
    BY <1>3 DEF Trusted
  <2>2. Final(n) => n.seen.sums = GroupSums(View(n, rows))
    BY <1>4, <1>5, <1>6 DEF Sums
  <2> QED BY <1>3, <1>4, <2>1, <2>2 DEF WorthOf, GroupSeen
<1>8. ASSUME "member" \notin mishaps PROVE MemberSeen(n, rows)
  <2>1. t \in Members => n.seen.sums = MemberSums(View(n, rows), t)
    BY <1>4, <1>5, Names DEF Sums
  <2>2. MemberSeen(k, rows)
    BY <1>4, <1>8 DEF WorthOf
  <2> QED BY <1>1, <1>3, <1>4, <2>1, <2>2 DEF MemberSeen
<1>9. "fine" \notin mishaps => FineSeen(n, rows)
  BY <1>3, <1>4 DEF WorthOf, FineSeen
<1> QED BY <1>1, <1>2, <1>7, <1>8, <1>9, LocalWorth DEF WorthOf

LEMMA StoreWorth ==
  ASSUME Worth, Standing, NEW c \in Calls, NEW t \in Targets, Store(c, t)
  PROVE  Worth'
<1> DEFINE k == call[c]
           z == [u \in DOMAIN k.stored \cup {t} |-> IF u = t THEN k.seen.sums ELSE k.stored[u]]
           n == Parts(k.op, k.member, Tail(k.todo), Unread, z, k.wrote, k.closes)
<1>1. /\ k.todo # << >> /\ Head(k.todo) = t /\ k.seen # Unread /\ Exists(t)
      /\ rows' = rows /\ mishaps' = mishaps
  BY DEF Store, Doing
<1>2. Becomes(c, n)
  BY StoreBecomes DEF Standing
<1>3. /\ n.op = k.op /\ n.member = k.member /\ n.todo = Tail(k.todo) /\ n.seen = Unread
      /\ n.stored = z /\ n.wrote = k.wrote /\ n.closes = k.closes
  BY PartsFields
<1>4. /\ DOMAIN z = DOMAIN k.stored \cup {t} /\ z[t] = k.seen.sums
      /\ \A u \in DOMAIN k.stored \ {t} : z[u] = k.stored[u]
  OBVIOUS
<1> HIDE DEF n, z
<1>5. View(n, rows) = View(k, rows) /\ WorthOf(k, rows, mishaps)
  BY <1>3, SameView DEF Worth
<1>6. Shape(k)
  BY <1>1, DoingOpen, OpenSound
<1>7. k.op \notin Unguarded /\ n.todo \in Seq(Members) =>
        (t = Group /\ Final(k)) \/ (t \in Members /\ k.todo \in Seq(Members))
  BY <1>1, <1>3, <1>4, <1>6, StoreShape
<1>8. ASSUME Trusted(n, mishaps) PROVE GroupSeen(n, rows)
  <2>1. GroupSeen(k, rows) /\ k.op \notin Unguarded
    BY <1>3, <1>5, <1>8, OpKinds DEF WorthOf, Trusted
  <2> SUFFICES ASSUME n.todo \in Seq(Members)
               PROVE  z[Group] = GroupSums(View(k, rows))
    BY <1>3, <1>5 DEF GroupSeen
  <2>2. CASE t = Group /\ Final(k)
    BY <1>1, <1>4, <2>1, <2>2 DEF GroupSeen
  <2>3. CASE t \in Members /\ k.todo \in Seq(Members)
    <3>1. Group \in DOMAIN k.stored
      BY <1>1, <1>6, <2>1, <2>3, ShapeFacts
    <3> QED BY <1>4, <2>1, <2>3, <3>1, Names DEF GroupSeen
  <2> QED BY <1>7, <2>1, <2>2, <2>3
<1>9. ASSUME "member" \notin mishaps PROVE MemberSeen(n, rows)
  <2>1. MemberSeen(k, rows)
    BY <1>5, <1>9 DEF WorthOf
  <2>2. t \in Members => k.seen.sums = MemberSums(View(k, rows), t)
    BY <1>1, <2>1 DEF MemberSeen, Exists
  <2> QED BY <1>3, <1>4, <1>5, <2>1, <2>2 DEF MemberSeen
<1>10. "fine" \notin mishaps => FineSeen(n, rows)
  BY <1>3, <1>5 DEF WorthOf, FineSeen
<1> QED BY <1>1, <1>2, <1>8, <1>9, <1>10, LocalWorth DEF WorthOf

LEMMA SkipWorth ==
  ASSUME Worth, Standing, NEW c \in Calls, NEW t \in Targets, Skip(c, t)
  PROVE  Worth'
<1> DEFINE k == call[c]
           n == Parts(k.op, k.member, Tail(k.todo), Unread, k.stored, k.wrote, k.closes)
<1>1. k.todo # << >> /\ Head(k.todo) = t /\ rows' = rows /\ mishaps' = mishaps
  BY DEF Skip, Doing
<1>2. Becomes(c, n)
  BY SkipBecomes DEF Standing
<1>3. /\ n.op = k.op /\ n.member = k.member /\ n.todo = Tail(k.todo) /\ n.seen = Unread
      /\ n.stored = k.stored /\ n.wrote = k.wrote /\ n.closes = k.closes
  BY PartsFields
<1> HIDE DEF n
<1>4. View(n, rows) = View(k, rows) /\ WorthOf(k, rows, mishaps)
  BY <1>3, SameView DEF Worth
<1>5. k.todo \in Seq(Members)
  BY <1>1, <1>3, DoingOpen, OpenSound, SkipGone, SkipShape
<1>6. Trusted(n, mishaps) => GroupSeen(n, rows)
  BY <1>3, <1>4, <1>5 DEF WorthOf, Trusted, GroupSeen
<1>7. "member" \notin mishaps => MemberSeen(n, rows)
  BY <1>3, <1>4 DEF WorthOf, MemberSeen
<1>8. "fine" \notin mishaps => FineSeen(n, rows)
  BY <1>3, <1>4 DEF WorthOf, FineSeen
<1> QED BY <1>1, <1>2, <1>6, <1>7, <1>8, LocalWorth DEF WorthOf

LEMMA GiveUpWorth ==
  ASSUME Worth, Standing, NEW c \in Calls, GiveUp(c)
  PROVE  Worth'
<1>1. Becomes(c, Idle) /\ rows' = rows /\ mishaps' = mishaps
  BY EndBecomes DEF GiveUp, Standing
<1> QED BY <1>1, IdleWorth, LocalWorth

LEMMA PledgeWorth ==
  ASSUME Worth, Standing, NEW m \in Members, Pledge(m)
  PROVE  Worth'
<1>1. call' = call /\ mishaps' = mishaps
  BY DEF Pledge
<1>2. /\ RowsOK' /\ rows[m] # Gone /\ rows'[m] = [rows[m] EXCEPT !.pending = 1]
      /\ \A x \in Members \ {m} : rows'[x] = rows[x]
  BY PledgeRows DEF Standing
<1>3. /\ RowOK(rows[m]) /\ rows'[m] # Gone
      /\ SameInGroup(rows'[m], rows[m]) /\ SameInMember(rows'[m], rows[m])
  BY <1>2, PledgeRow DEF Standing, RowsOK
<1>4. ASSUME NEW c \in Calls PROVE WorthOf(call[c], rows', mishaps)
  <2> DEFINE k == call[c]
             V == View(k, rows)
             W == View(k, rows')
  <2>1. WorthOf(k, rows, mishaps)
    BY DEF Worth
  <2>2. \A x \in Members : SameInGroup(W[x], V[x]) /\ SameInMember(W[x], V[x])
    <3>1. \A x \in Members \ {m} : W[x] = V[x]
      BY <1>2 DEF View
    <3>2. SameInGroup(W[m], V[m]) /\ SameInMember(W[m], V[m])
      <4>1. CASE m \in k.wrote
        <5>1. k.op \in Ops /\ Allowed(k.op, rows[m])
          <6>1. Open(c)
            BY <4>1, IdleCall DEF Open
          <6>2. k.op \in Ops /\ k.op # "preview" /\ m \in Touched(k)
            BY <4>1, <6>1, OpenSound, ShapeFacts DEF Touched
          <6> QED BY <1>2, <6>1, <6>2, OpenSound
        <5>2. W[m] = Effect(k.op, rows'[m], k.closes) /\ V[m] = Effect(k.op, rows[m], k.closes)
          BY <4>1 DEF View
        <5> HIDE DEF W, V, k
        <5> QED BY <1>2, <1>3, <5>1, <5>2, PledgeThen
      <4>2. CASE m \notin k.wrote
        BY <1>3, <4>2 DEF View
      <4> QED BY <4>1, <4>2
    <3>3. \A r : SameInGroup(r, r) /\ SameInMember(r, r)
      BY DEF SameInGroup, SameInMember
    <3> HIDE DEF W, V
    <3> QED BY <3>1, <3>2, <3>3
  <2> HIDE DEF W, V
  <2>3. GroupSums(W) = GroupSums(V) /\ \A x \in Members : MemberSums(W, x) = MemberSums(V, x)
    BY <2>2, SameSums, SameMember
  <2>4. Trusted(k, mishaps) => GroupSeen(k, rows')
    BY <2>1, <2>3 DEF WorthOf, GroupSeen, W, V
  <2>5. "member" \notin mishaps => MemberSeen(k, rows')
    BY <1>2, <1>3, <2>1, <2>3 DEF WorthOf, MemberSeen, W, V
  <2>6. "fine" \notin mishaps => FineSeen(k, rows')
    <3>1. \A x \in Members : rows'[x].finePaid = rows[x].finePaid /\ rows'[x].fined = rows[x].fined
      BY <1>2, <1>3 DEF SameInMember
    <3>2. k.wrote \subseteq Members
      BY IdleCall, OpenSound, ShapeFacts DEF Open
    <3> QED BY <2>1, <3>1, <3>2 DEF WorthOf, FineSeen
  <2> QED BY <2>4, <2>5, <2>6 DEF WorthOf
<1> QED BY <1>1, <1>4 DEF Worth

LEMMA RemoveWorth ==
  ASSUME Worth, Standing, NEW m \in Members, Remove(m)
  PROVE  Worth'
<1>1. /\ call' = call /\ \A c \in Calls : m \notin call[c].wrote /\ m \notin DOMAIN call[c].stored
      /\ mishaps' = mishaps \cup {"removed"} \cup {k \in {"undermined"} : \E c \in Calls : Open(c)}
  BY DEF Remove, HeldBy
<1>2. RowsOK' /\ rows'[m] = Gone /\ \A x \in Members \ {m} : rows'[x] = rows[x]
  BY RemoveRows DEF Standing
<1>3. ASSUME NEW c \in Calls PROVE WorthOf(call[c], rows', mishaps')
  <2> DEFINE k == call[c]
  <2>1. WorthOf(k, rows, mishaps) /\ mishaps \subseteq mishaps'
    BY <1>1 DEF Worth
  <2>2. CASE k = Idle
    BY <2>2, IdleWorth
  <2>3. CASE k # Idle
    <3>1. ~Trusted(k, mishaps')
      BY <1>1, <2>3 DEF Trusted, Open
    <3>2. ASSUME "member" \notin mishaps' PROVE MemberSeen(k, rows')
      <4>1. MemberSeen(k, rows)
        BY <2>1, <3>2 DEF WorthOf
      <4>2. \A t \in Members \ {m} :
              rows'[t] = rows[t] /\ MemberSums(View(k, rows'), t) = MemberSums(View(k, rows), t)
        BY <1>2 DEF MemberSums, View
      <4>3. m \notin DOMAIN k.stored
        BY <1>1
      <4> HIDE DEF k
      <4> QED BY <1>2, <4>1, <4>2, <4>3 DEF MemberSeen
    <3>3. "fine" \notin mishaps' => FineSeen(k, rows')
      <4>1. k.wrote \subseteq Members /\ m \notin k.wrote
        BY <1>1, <2>3, OpenSound, ShapeFacts DEF Open
      <4> QED BY <1>2, <2>1, <4>1 DEF WorthOf, FineSeen
    <3> QED BY <3>1, <3>2, <3>3 DEF WorthOf
  <2> QED BY <2>2, <2>3
<1> QED BY <1>1, <1>3 DEF Worth

\* A transaction that may still trust the group's totals it read holds the wallet.
LEMMA HoldsGroup ==
  ASSUME NEW k, Shape(k), k.op \in Rereads, Final(k) \/ k.todo \in Seq(Members)
  PROVE  Group \in DOMAIN k.stored
<1>1. k.op \in Guarded /\ k.op \notin Single /\ k.op \notin Unguarded /\ k.op # "preview"
  BY OpKinds DEF Rereads, Single
<1>2. Early(k) \/ Ready(k) \/ Late(k)
  BY <1>1 DEF Shape, GuardedShape, UnguardedShape, PreviewShape
<1>3. ~Early(k)
  <2>1. WriteGroupAll # RebuildAll /\ WriteAll # RebuildAll
    BY Todos, Names
  <2>2. k.todo = RebuildAll \/ k.todo \in Seq(Members)
    BY <1>1 DEF Final
  <2>3. k.todo \notin {WriteGroupAll, GroupAll, GroupWriteAll, WriteAll}
    BY <2>1, <2>2, Todos, LongTodos
  <2> QED BY <2>3 DEF Early
<1> QED BY <1>1, <1>2, <1>3 DEF Ready, Late

\* A commit of c leaves the group's totals right that another transaction d read
\* for the last time.
LEMMA CommitKeepsTotals ==
  ASSUME Standing, NEW c \in Calls, Commit(c), NEW d \in Calls \ {c}, Trusted(call[d], mishaps),
         Final(call[d]) \/ call[d].todo \in Seq(Members)
  PROVE  GroupSums(View(call[d], rows')) = GroupSums(View(call[d], rows))
<1> DEFINE k == call[c]
           l == call[d]
           V == View(l, rows)
           W == View(l, rows')
<1>1. /\ Open(c) /\ Shape(k) /\ k.op \in Ops /\ k.todo = << >>
      /\ k.wrote \subseteq Members
      /\ \A m \in Members \ k.wrote : rows'[m] = rows[m]
      /\ \A m \in k.wrote :
           /\ rows'[m] = Effect(k.op, rows[m], k.closes)
           /\ RowOK(rows[m]) /\ rows[m] # Gone /\ Allowed(k.op, rows[m])
           /\ k.op # "preview"
  BY CommitRows
<1>2. Open(d) /\ l.op \in Ops /\ Shape(l) /\ l.op \in Rereads \cup Single
  <2>1. l.op \in Rereads \cup Single
    BY DEF Trusted
  <2>2. Open(d)
    BY <2>1, OpKinds, DoingOpen
  <2> QED BY <2>1, <2>2, OpenSound, ShapeFacts
<1>3. k.op \in Unguarded \cup {"preview"}
  <2> SUFFICES ASSUME k.op \notin Unguarded, k.op # "preview" PROVE FALSE
    OBVIOUS
  <2>1. Group \in DOMAIN k.stored
    BY <1>1, ShapeFacts
  <2>2. l.op \in Rereads
    BY <1>1, <1>2 DEF Trusted, Standing, Alone, Without
  <2>3. Group \in DOMAIN l.stored
    BY <1>2, <2>2, HoldsGroup
  <2> QED BY <1>1, <2>1, <2>3, OpenSound
<1>4. \A m \in k.wrote : k.op \in Unguarded
  BY <1>1, <1>3
<1>5. ASSUME NEW m \in Members PROVE SameInGroup(W[m], V[m])
  <2>1. CASE m \notin k.wrote
    BY <1>1, <2>1 DEF View, SameInGroup
  <2>2. CASE m \in k.wrote /\ m \notin l.wrote
    <3>1. SameInGroup(rows'[m], rows[m])
      <4> HIDE DEF k
      <4> QED BY <1>1, <1>4, <2>2, UnguardedSame
    <3>2. W[m] = rows'[m] /\ V[m] = rows[m]
      BY <2>2 DEF View
    <3> QED BY <3>1, <3>2
  <2>3. CASE m \in k.wrote /\ m \in l.wrote
    <3>1. W[m] = Effect(l.op, rows'[m], l.closes) /\ V[m] = Effect(l.op, rows[m], l.closes)
      BY <2>3 DEF View
    <3>2. m \in Touched(k) /\ m \in Touched(l)
      BY <2>3 DEF Touched
    <3>3. ~Clash(l.op, k.op)
      BY <1>1, <1>2, <3>2, SharedRow
    <3>4. l.op # "preview"
      BY <1>2, <2>3, ShapeFacts
    <3>5. Allowed(l.op, rows[m])
      BY <1>1, <1>2, <2>3, <3>2, <3>4, OpenSound
    <3> HIDE DEF k, l, V, W
    <3> QED BY <1>1, <1>2, <1>4, <2>3, <3>1, <3>3, <3>4, <3>5, UnguardedThen
  <2> QED BY <2>1, <2>2, <2>3
<1> HIDE DEF V, W
<1>6. GroupSums(W) = GroupSums(V)
  BY <1>5, SameSums
<1> QED BY <1>6 DEF V, W

\* ... and the sums of members' wallets, and whether a payment closes its fine.
LEMMA CommitKeepsMembers ==
  ASSUME Standing, NEW c \in Calls, Commit(c), NEW d \in Calls \ {c},
         "member" \notin mishaps, MemberSeen(call[d], rows)
  PROVE  MemberSeen(call[d], rows')
<1> DEFINE k == call[c]
           l == call[d]
<1>1. /\ Open(c) /\ Shape(k) /\ k.op \in Ops /\ k.todo = << >>
      /\ k.wrote \subseteq Members /\ k.wrote \subseteq DOMAIN k.stored
      /\ \A m \in Members \ k.wrote : rows'[m] = rows[m]
  BY CommitRows
<1>2. DOMAIN k.stored \cap DOMAIN l.stored = {}
  BY <1>1, OpenSound
<1>3. ASSUME NEW t \in Members, t \in k.wrote, l.todo # << >>, Head(l.todo) = t
      PROVE  FALSE
  <2>1. Open(d)
    BY <1>3, DoingOpen
  <2>2. Shape(l) /\ l.op \in Ops
    BY <2>1, OpenSound, ShapeFacts
  <2>3. l.op # "preview"
    <3>1. l.op = "preview" => PreviewShape(l)
      BY <2>2 DEF Shape, GuardedShape, UnguardedShape, Guarded, Unguarded
    <3> QED BY <1>3, <3>1, Names DEF PreviewShape
  <2>4. k.op \notin Unguarded
    BY <1>1, <2>1, <2>3 DEF Standing, Alone, Without
  <2>5. k.op # "preview"
    BY <1>1, <1>3, ShapeFacts
  <2>6. l.op \notin Unguarded
    BY <1>1, <2>1, <2>5 DEF Standing, Alone, Without
  <2>7. Group \in DOMAIN k.stored /\ Group \in DOMAIN l.stored
    BY <1>1, <1>3, <2>2, <2>4, <2>6, ShapeFacts
  <2> QED BY <1>2, <2>7
<1>4. \A t \in Members \ k.wrote :
        rows'[t] = rows[t] /\ MemberSums(View(l, rows'), t) = MemberSums(View(l, rows), t)
  BY <1>1 DEF MemberSums, View
<1> HIDE DEF k, l
<1>5. MemberSeen(l, rows)
  BY DEF l
<1>6. MemberSeen(l, rows')
  BY <1>1, <1>2, <1>3, <1>4, <1>5 DEF MemberSeen
<1> QED BY <1>6 DEF l

LEMMA CommitKeepsFines ==
  ASSUME Standing, NEW c \in Calls, Commit(c), NEW d \in Calls \ {c},
         "fine" \notin mishaps, FineSeen(call[d], rows)
  PROVE  FineSeen(call[d], rows')
<1> DEFINE k == call[c]
           l == call[d]
<1>1. /\ Open(c) /\ Shape(k) /\ k.op \in Ops /\ k.wrote \subseteq Members
      /\ \A m \in Members \ k.wrote : rows'[m] = rows[m]
      /\ \A m \in k.wrote :
           /\ rows'[m] = Effect(k.op, rows[m], k.closes)
           /\ RowOK(rows[m]) /\ rows[m] # Gone /\ Allowed(k.op, rows[m])
  BY CommitRows
<1> SUFFICES ASSUME l.op = "payFine", NEW m \in l.wrote
             PROVE  l.closes <=> rows'[m].finePaid + 1 >= rows'[m].fined
  BY DEF FineSeen
<1>2. /\ Open(d) /\ Shape(l) /\ m \in Members /\ m = l.member
      /\ rows[m] # Gone /\ Allowed("payFine", rows[m])
  <2>1. Open(d)
    BY DoingOpen
  <2>2. Shape(l)
    BY <2>1, OpenSound
  <2>3. l.wrote \subseteq Members /\ l.wrote \subseteq {l.member}
    BY <2>2, ShapeFacts
  <2>4. m \in Touched(l)
    BY DEF Touched
  <2> QED BY <2>1, <2>2, <2>3, <2>4, OpenSound
<1>3. l.closes <=> rows[m].finePaid + 1 >= rows[m].fined
  BY DEF FineSeen
<1>4. CASE m \notin k.wrote
  BY <1>1, <1>2, <1>3, <1>4
<1>5. CASE m \in k.wrote
  <2>1. k.op # "payFine"
    <3>1. k.op = "payFine" => k.wrote \subseteq {k.member}
      BY <1>1, ShapeFacts
    <3> QED BY <1>2, <1>5, <3>1 DEF Standing, Alone, Without
  <2>2. k.op # "fine"
    <3>1. rows[m].fine # "none"
      BY <1>2, AllowedIs DEF Ops
    <3> QED BY <1>1, <1>5, <3>1, AllowedIs
  <2> HIDE DEF k, l
  <2>3. Keeps(k.op, rows[m], k.closes, rows'[m])
    BY <1>1, <1>5, EffectKeeps
  <2>4. rows'[m].finePaid = rows[m].finePaid /\ rows'[m].fined = rows[m].fined
    BY <2>1, <2>2, <2>3 DEF Keeps
  <2> QED BY <1>3, <2>4
<1> QED BY <1>4, <1>5

LEMMA CommitWorth ==
  ASSUME Worth, Standing, NEW c \in Calls, Commit(c)
  PROVE  Worth'
<1>1. Becomes(c, Idle) /\ mishaps' = mishaps
  BY EndBecomes, CommitRows DEF Standing
<1>2. ASSUME NEW d \in Calls \ {c} PROVE WorthOf(call[d], rows', mishaps')
  <2>1. WorthOf(call[d], rows, mishaps)
    BY DEF Worth
  <2>2. Trusted(call[d], mishaps) => GroupSeen(call[d], rows')
    BY <2>1, CommitKeepsTotals DEF WorthOf, GroupSeen
  <2>3. "member" \notin mishaps => MemberSeen(call[d], rows')
    BY <2>1, CommitKeepsMembers DEF WorthOf
  <2>4. "fine" \notin mishaps => FineSeen(call[d], rows')
    BY <2>1, CommitKeepsFines DEF WorthOf
  <2> QED BY <1>1, <2>2, <2>3, <2>4 DEF WorthOf
<1> QED BY <1>1, <1>2, IdleWorth, StepWorth

LEMMA InitWorth ==
  ASSUME Init
  PROVE  Worth
<1>1. \A c \in Calls : call[c] = Idle
  BY DEF Init
<1> QED BY <1>1, IdleWorth DEF Worth

LEMMA NextWorth ==
  ASSUME Worth, Standing, [Next]_vars
  PROVE  Worth'
<1>1. CASE UNCHANGED vars
  BY <1>1 DEF vars, Worth
<1>2. CASE Next
  BY <1>2, PledgeWorth, RemoveWorth, BeginWorth, NextLoanWorth, WriteWorth,
     LookWorth, StoreWorth, SkipWorth, CommitWorth, GiveUpWorth DEF Next
<1> QED BY <1>1, <1>2

-----------------------------------------------------------------------------
(* The stored wallets. *)

\* What a transaction stores in the group's wallet when it commits.
LEMMA CommitGroup ==
  ASSUME Standing, Worth, NEW c \in Calls, Commit(c), Trusted(call[c], mishaps)
  PROVE  Group \in DOMAIN call[c].stored /\ call[c].stored[Group] = GroupSums(rows')
<1> DEFINE k == call[c]
<1>1. Shape(k) /\ k.todo = << >> /\ rows' = View(k, rows)
  BY CommitRows
<1>2. k.op \notin Unguarded
  BY OpKinds DEF Trusted
<1>3. k.todo \in Seq(Members)
  BY <1>1
<1>4. k.stored[Group] = GroupSums(View(k, rows))
  BY <1>3 DEF Worth, WorthOf, GroupSeen
<1>5. Group \in DOMAIN k.stored
  BY <1>1, <1>2, ShapeFacts
<1> QED BY <1>1, <1>4, <1>5

LEMMA CommitExact ==
  ASSUME Standing, Worth, WalletsExact, NEW c \in Calls, Commit(c)
  PROVE  WalletsExact'
<1> DEFINE k == call[c]
<1>1. /\ Open(c) /\ Shape(k) /\ k.op \in Ops /\ k.todo = << >>
      /\ k.wrote \subseteq Members /\ k.wrote \subseteq DOMAIN k.stored
      /\ rows' = View(k, rows) /\ mishaps' = mishaps
      /\ \A m \in Members \ k.wrote : rows'[m] = rows[m]
      /\ \A m \in k.wrote :
           /\ rows'[m] = Effect(k.op, rows[m], k.closes)
           /\ RowOK(rows[m]) /\ Allowed(k.op, rows[m])
  BY CommitRows
<1>2. /\ \A t \in Targets : t \in DOMAIN k.stored => wallet'[t] = k.stored[t]
      /\ \A t \in Targets : t \notin DOMAIN k.stored => wallet'[t] = wallet[t]
  BY DEF Commit, HeldBy
<1>3. Group \in Targets /\ Members \subseteq Targets
  BY DEF Targets
<1>4. ASSUME "group" \notin mishaps, "removed" \notin mishaps
      PROVE  wallet'[Group] = GroupSums(rows')
  <2>1. CASE k.op \in Unguarded
    <3>1. Group \notin DOMAIN k.stored
      BY <1>1, <2>1, ShapeFacts
    <3>2. wallet'[Group] = GroupSums(rows)
      BY <1>2, <1>3, <1>4, <3>1 DEF WalletsExact, Without
    <3>3. \A m \in Members : SameInGroup(rows'[m], rows[m])
      <4>1. \A m \in k.wrote : SameInGroup(rows'[m], rows[m])
        <5> HIDE DEF k
        <5> QED BY <1>1, <2>1, UnguardedSame
      <4>2. \A r : SameInGroup(r, r)
        BY DEF SameInGroup
      <4> HIDE DEF k
      <4> QED BY <1>1, <4>1, <4>2
    <3>4. GroupSums(rows') = GroupSums(rows)
      BY <3>3, SameSums
    <3> QED BY <3>2, <3>4
  <2>2. CASE k.op \notin Unguarded
    <3>1. k.op \in Rereads \cup Single
      BY <1>1, <2>2, OpKinds
    <3>2. "undermined" \notin mishaps
      BY <1>4 DEF Standing, Alone
    <3>3. Trusted(k, mishaps)
      BY <1>4, <3>1, <3>2 DEF Trusted
    <3> QED BY <1>2, <1>3, <3>3, CommitGroup
  <2> QED BY <2>1, <2>2
<1>5. ASSUME "member" \notin mishaps, NEW m \in Members
      PROVE  wallet'[m] = MemberSums(rows', m)
  <2>1. CASE m \in DOMAIN k.stored
    <3>1. MemberSeen(k, rows)
      BY <1>5 DEF Worth, WorthOf
    <3>2. wallet'[m] = k.stored[m]
      BY <1>2, <1>3, <2>1
    <3> QED BY <1>1, <2>1, <3>1, <3>2 DEF MemberSeen
  <2>2. CASE m \notin DOMAIN k.stored
    <3>1. rows'[m] = rows[m] /\ wallet'[m] = wallet[m]
      BY <1>1, <1>2, <1>3, <2>2
    <3>2. wallet[m] = MemberSums(rows, m)
      BY <1>5 DEF WalletsExact, Without
    <3> QED BY <3>1, <3>2, Zenon DEF MemberSums
  <2> QED BY <2>1, <2>2
<1> QED BY <1>1, <1>4, <1>5 DEF WalletsExact, Without

LEMMA NextExact ==
  ASSUME Standing, Worth, WalletsExact, DOMAIN wallet = Targets, [Next]_vars
  PROVE  WalletsExact'
<1>1. ASSUME UNCHANGED <<rows, wallet>>, mishaps \subseteq mishaps' PROVE WalletsExact'
  BY <1>1 DEF WalletsExact, Without
<1>2. CASE UNCHANGED vars
  BY <1>1, <1>2 DEF vars
<1>3. ASSUME NEW c \in Calls, NEW op \in Ops, NEW m \in Members, Begin(c, op, m) PROVE WalletsExact'
  BY <1>1, <1>3 DEF Begin
<1>4. ASSUME NEW c \in Calls, NEW m \in Members, NextLoan(c, m) PROVE WalletsExact'
  BY <1>1, <1>4 DEF NextLoan
<1>5. ASSUME NEW c \in Calls, Write(c) \/ GiveUp(c) PROVE WalletsExact'
  BY <1>1, <1>5 DEF Write, GiveUp
<1>6. ASSUME NEW c \in Calls, NEW t \in Targets, Look(c, t) \/ Store(c, t) \/ Skip(c, t)
      PROVE  WalletsExact'
  BY <1>1, <1>6 DEF Look, Store, Skip
<1>7. ASSUME NEW m \in Members, Pledge(m) PROVE WalletsExact'
  <2>1. /\ RowsOK' /\ rows[m] # Gone /\ rows'[m] = [rows[m] EXCEPT !.pending = 1]
        /\ \A x \in Members \ {m} : rows'[x] = rows[x]
    BY <1>7, PledgeRows DEF Standing
  <2>2. SameInGroup(rows'[m], rows[m]) /\ SameInMember(rows'[m], rows[m])
    BY <2>1, PledgeRow DEF Standing, RowsOK
  <2>3. \A r : SameInGroup(r, r) /\ SameInMember(r, r)
    BY DEF SameInGroup, SameInMember
  <2>4. \A x \in Members : SameInGroup(rows'[x], rows[x]) /\ SameInMember(rows'[x], rows[x])
    BY <2>1, <2>2, <2>3
  <2>5. GroupSums(rows') = GroupSums(rows) /\ \A x \in Members : MemberSums(rows', x) = MemberSums(rows, x)
    BY <2>4, SameSums, SameMember
  <2> QED BY <1>7, <2>5 DEF Pledge, WalletsExact, Without
<1>8. ASSUME NEW m \in Members, Remove(m) PROVE WalletsExact'
  <2>1. RowsOK' /\ rows'[m] = Gone /\ \A x \in Members \ {m} : rows'[x] = rows[x]
    BY <1>8, RemoveRows DEF Standing
  <2>2. /\ wallet' = [wallet EXCEPT ![m] = MemberSums(rows', m)]
        /\ "removed" \in mishaps' /\ mishaps \subseteq mishaps' /\ m \in Targets
    BY <1>8 DEF Remove, Targets
  <2>3. wallet'[m] = MemberSums(rows', m)
    BY <2>2
  <2>4. \A x \in Members \ {m} : wallet'[x] = wallet[x] /\ MemberSums(rows', x) = MemberSums(rows, x)
    BY <2>1, <2>2 DEF MemberSums
  <2> QED BY <2>2, <2>3, <2>4 DEF WalletsExact, Without
<1>9. ASSUME NEW c \in Calls, Commit(c) PROVE WalletsExact'
  BY <1>9, CommitExact
<1> QED BY <1>2, <1>3, <1>4, <1>5, <1>6, <1>7, <1>8, <1>9 DEF Next

-----------------------------------------------------------------------------
(* The ledger. *)

Ledger == [cash : Int, receivable : Int, savings : Int, penalty : Int]
Back(R) == {m \in Members : R[m].loan = "PAYOUT_REVERSED"}

Books(R, L) ==
  /\ L.cash = Balance(GroupSums(R)) - Principal * Cardinality(Back(R))
  /\ L.savings = -GroupSums(R).savings
  /\ L.penalty = -(GroupSums(R).fines + FeesPaid(R))
Fines(R) ==
  \A m \in Members : R[m].fine # "none" => (R[m].fine = "PAID" <=> R[m].finePaid >= R[m].fined)

LEMMA BooksAre ==
  BooksAgree <=> /\ "removed" \notin mishaps => Books(rows, ledger)
                 /\ "fine" \notin mishaps => Fines(rows)
  BY DEF BooksAgree, Without, Books, Fines, Back, FeesPaid

LEMMA PostIs ==
  ASSUME NEW L \in Ledger, NEW op \in Ops, NEW r
  PROVE  /\ Post(op, r, L) \in Ledger
         /\ op \in {"record", "verify"} =>
              /\ Post(op, r, L).cash = L.cash + 1 /\ Post(op, r, L).savings = L.savings - 1
              /\ Post(op, r, L).penalty = L.penalty
         /\ op = "disburse" =>
              /\ Post(op, r, L).cash = L.cash - Principal /\ Post(op, r, L).savings = L.savings
              /\ Post(op, r, L).penalty = L.penalty
         /\ op = "repay" =>
              /\ Post(op, r, L).cash = L.cash + 1 /\ Post(op, r, L).savings = L.savings
              /\ Post(op, r, L).penalty = IF ToFee(r) THEN L.penalty - 1 ELSE L.penalty
         /\ op = "payFine" =>
              /\ Post(op, r, L).cash = L.cash + 1 /\ Post(op, r, L).savings = L.savings
              /\ Post(op, r, L).penalty = L.penalty - 1
         /\ op \in {"reverse", "overdue", "fine", "preview"} => Post(op, r, L) = L
<1>1. CASE op \in {"record", "verify"}
  <2>1. Post(op, r, L) = [L EXCEPT !["cash"] = L.cash + 1, !["savings"] = L.savings - 1]
    BY <1>1 DEF Post, Entry, Ledger
  <2> QED BY <1>1, <2>1 DEF Ledger
<1>2. CASE op = "disburse"
  <2>1. Post(op, r, L) = [L EXCEPT !["receivable"] = L.receivable + Principal,
                                   !["cash"] = L.cash - Principal]
    BY <1>2, Amounts DEF Post, Entry, Ledger
  <2> QED BY <1>2, <2>1, Amounts DEF Ledger
<1>3. CASE op = "repay" /\ ToFee(r)
  <2>1. Post(op, r, L) = [L EXCEPT !["cash"] = L.cash + 1, !["penalty"] = L.penalty - 1]
    BY <1>3 DEF Post, Entry, Ledger
  <2> QED BY <1>3, <2>1 DEF Ledger
<1>4. CASE op = "repay" /\ ~ToFee(r)
  <2>1. Post(op, r, L) = [L EXCEPT !["cash"] = L.cash + 1, !["receivable"] = L.receivable - 1]
    BY <1>4 DEF Post, Entry, Ledger
  <2> QED BY <1>4, <2>1 DEF Ledger
<1>5. CASE op = "payFine"
  <2>1. Post(op, r, L) = [L EXCEPT !["cash"] = L.cash + 1, !["penalty"] = L.penalty - 1]
    BY <1>5 DEF Post, Entry, Ledger
  <2> QED BY <1>5, <2>1 DEF Ledger
<1>6. CASE op \in {"reverse", "overdue", "fine", "preview"}
  BY <1>6 DEF Post
<1> QED BY <1>1, <1>2, <1>3, <1>4, <1>5, <1>6 DEF Ops

\* Rows that count the same for the ledger.
LEMMA BooksSame ==
  ASSUME NEW R, NEW Q, NEW L,
         \A m \in Members :
           /\ SameInGroup(Q[m], R[m]) /\ Q[m].feePaid = R[m].feePaid
           /\ Q[m].loan = "PAYOUT_REVERSED" <=> R[m].loan = "PAYOUT_REVERSED",
         Books(R, L)
  PROVE  Books(Q, L)
<1>1. GroupSums(Q) = GroupSums(R)
  BY SameSums
<1>2. [m \in Members |-> Q[m].feePaid] = [m \in Members |-> R[m].feePaid]
  OBVIOUS
<1>3. FeesPaid(Q) = FeesPaid(R)
  BY <1>2, Zenon DEF FeesPaid, SumOf
<1>4. Back(Q) = Back(R)
  BY DEF Back
<1> QED BY <1>1, <1>3, <1>4, Zenon DEF Books

LEMMA BackFinite == \A R : IsFiniteSet(Back(R)) /\ Cardinality(Back(R)) \in Nat
  BY MembersFinite, FS_Subset, FS_CardinalityType DEF Back

LEMMA Times == \A n \in Nat : Principal * n \in Int /\ Principal * (n + 1) = Principal * n + Principal
  BY Amounts

\* One row changes by an operation that posts an entry, or is a reversal.
LEMMA BooksOne ==
  ASSUME NEW R, NEW Q, NEW y \in Members, NEW op \in Guarded, NEW cl, NEW L \in Ledger,
         \A m \in Members : RowOK(R[m]) /\ RowOK(Q[m]),
         \A m \in Members \ {y} : Q[m] = R[m],
         Allowed(op, R[y]), Q[y] = Effect(op, R[y], cl),
         Books(R, L)
  PROVE  Books(Q, Post(op, R[y], L))
<1> DEFINE P == Post(op, R[y], L)
           u == GroupSums(R)
           w == GroupSums(Q)
           r == R[y]
           q == Q[y]
<1>1. op \in Ops /\ Keeps(op, r, cl, q)
  BY EffectKeeps, OpKinds
<1>2. r \in Row /\ q \in Row /\ \A m \in Members : R[m] \in Row /\ Q[m] \in Row
  BY DEF RowOK
<1>3. /\ u.savings \in Int /\ u.repayments \in Int /\ u.fines \in Int /\ u.lent \in Int
      /\ FeesPaid(R) \in Int
      /\ w.savings = (u.savings - r.saved) + q.saved
      /\ w.repayments = (u.repayments - r.repaid) + q.repaid
      /\ w.fines = (u.fines - r.finePaid) + q.finePaid
      /\ w.lent = (u.lent - (IF Disbursed(r) THEN Principal ELSE 0))
                    + (IF Disbursed(q) THEN Principal ELSE 0)
      /\ FeesPaid(Q) = (FeesPaid(R) - r.feePaid) + q.feePaid
  <2>1. \A m \in Members \ {y} : Q[m] = R[m]
    OBVIOUS
  <2>2. \A m \in Members : R[m] \in Row /\ Q[m] \in Row
    BY <1>2
  <2>3. /\ GroupSums(R).savings \in Int /\ GroupSums(R).repayments \in Int
        /\ GroupSums(R).fines \in Int /\ GroupSums(R).lent \in Int /\ FeesPaid(R) \in Int
        /\ GroupSums(Q).savings = (GroupSums(R).savings - R[y].saved) + Q[y].saved
        /\ GroupSums(Q).repayments = (GroupSums(R).repayments - R[y].repaid) + Q[y].repaid
        /\ GroupSums(Q).fines = (GroupSums(R).fines - R[y].finePaid) + Q[y].finePaid
        /\ GroupSums(Q).lent =
              (GroupSums(R).lent - (IF Disbursed(R[y]) THEN Principal ELSE 0))
                + (IF Disbursed(Q[y]) THEN Principal ELSE 0)
        /\ FeesPaid(Q) = (FeesPaid(R) - R[y].feePaid) + Q[y].feePaid
    BY ONLY y \in Members, <2>1, <2>2, SumsOne
  <2> QED BY <2>3, Zenon
<1>4. /\ L.cash = Balance(u) - Principal * Cardinality(Back(R))
      /\ L.savings = -u.savings
      /\ L.penalty = -(u.fines + FeesPaid(R))
  BY DEF Books
<1>5. /\ r.saved \in Nat /\ r.repaid \in Nat /\ r.finePaid \in Nat /\ r.feePaid \in Nat
      /\ Principal \in Nat /\ Principal * Cardinality(Back(R)) \in Int
  <2>1. Cardinality(Back(R)) \in Nat
    BY BackFinite
  <2>2. Principal * Cardinality(Back(R)) \in Int
    BY <2>1, Times
  <2> QED BY <1>2, <2>2, Amounts DEF Row
<1>6. op # "reverse" => Back(Q) = Back(R)
  <2> SUFFICES ASSUME op # "reverse"
               PROVE  q.loan = "PAYOUT_REVERSED" <=> r.loan = "PAYOUT_REVERSED"
    BY DEF Back
  <2>1. /\ op = "disburse" => r.loan = "APPROVED"
        /\ op = "repay" => r.loan \in {"ACTIVE", "OVERDUE"}
    BY <1>1, AllowedIs
  <2>2. op # "overdue"
    BY DEF Guarded
  <2> HIDE DEF q, r
  <2> QED BY <1>1, <2>1, <2>2 DEF Keeps, LoanOps
<1>7. op = "reverse" =>
        Principal * Cardinality(Back(Q)) = Principal * Cardinality(Back(R)) + Principal
  <2> SUFFICES ASSUME op = "reverse"
               PROVE  Principal * Cardinality(Back(Q)) = Principal * Cardinality(Back(R)) + Principal
    OBVIOUS
  <2>1. r.loan = "ACTIVE" /\ q.loan = "PAYOUT_REVERSED"
    BY <1>1, AllowedIs DEF Keeps
  <2>2. Back(Q) = Back(R) \cup {y} /\ y \notin Back(R)
    BY <2>1 DEF Back
  <2>3. Cardinality(Back(Q)) = Cardinality(Back(R)) + 1
    BY <2>2, BackFinite, FS_AddElement
  <2>4. Principal * (Cardinality(Back(R)) + 1) = Principal * Cardinality(Back(R)) + Principal
    BY BackFinite, Times
  <2> QED BY <2>3, <2>4, Zenon
<1>8. /\ op = "disburse" => ~Disbursed(r) /\ Disbursed(q)
      /\ op = "reverse" => Disbursed(r) /\ ~Disbursed(q)
      /\ op \notin {"disburse", "reverse"} => (Disbursed(r) <=> Disbursed(q))
  <2>1. /\ op = "disburse" => r.loan = "APPROVED"
        /\ op = "reverse" => r.loan = "ACTIVE"
        /\ op = "repay" => r.loan \in {"ACTIVE", "OVERDUE"}
        /\ op # "overdue"
    BY <1>1, AllowedIs DEF Guarded
  <2> HIDE DEF q, r
  <2> QED BY <1>1, <2>1 DEF Keeps, LoanOps, Disbursed
<1>9. /\ op \in {"record", "verify"} =>
           P.cash = L.cash + 1 /\ P.savings = L.savings - 1 /\ P.penalty = L.penalty
      /\ op = "disburse" =>
           P.cash = L.cash - Principal /\ P.savings = L.savings /\ P.penalty = L.penalty
      /\ op = "repay" =>
           /\ P.cash = L.cash + 1 /\ P.savings = L.savings
           /\ P.penalty = IF ToFee(r) THEN L.penalty - 1 ELSE L.penalty
      /\ op = "payFine" =>
           P.cash = L.cash + 1 /\ P.savings = L.savings /\ P.penalty = L.penalty - 1
      /\ op = "reverse" => P.cash = L.cash /\ P.savings = L.savings /\ P.penalty = L.penalty
  BY <1>1, PostIs
<1>10. /\ q.saved = IF op \in {"record", "verify"} THEN r.saved + 1 ELSE r.saved
       /\ q.repaid = IF op = "repay" THEN r.repaid + 1 ELSE r.repaid
       /\ q.feePaid = IF op = "repay" /\ ToFee(r) THEN r.feePaid + 1 ELSE r.feePaid
       /\ q.finePaid = IF op = "payFine" THEN r.finePaid + 1 ELSE r.finePaid
  BY <1>1 DEF Keeps
<1>11. Balance(u) = u.savings + u.repayments + u.fines - u.lent
       /\ Balance(w) = w.savings + w.repayments + w.fines - w.lent
  BY DEF Balance
<1> HIDE DEF P, u, w, r, q
<1>12. L.cash \in Int /\ L.savings \in Int /\ L.penalty \in Int
  BY DEF Ledger
<1>13. CASE op \in {"record", "verify"}
  BY <1>3, <1>4, <1>5, <1>6, <1>8, <1>9, <1>10, <1>11, <1>12, <1>13 DEF Books, P, w
<1>14. CASE op = "disburse"
  BY <1>3, <1>4, <1>5, <1>6, <1>8, <1>9, <1>10, <1>11, <1>12, <1>14 DEF Books, P, w
<1>15. CASE op = "repay" /\ ToFee(r)
  BY <1>3, <1>4, <1>5, <1>6, <1>8, <1>9, <1>10, <1>11, <1>12, <1>15 DEF Books, P, w
<1>18. CASE op = "repay" /\ ~ToFee(r)
  <2>1. /\ P.cash = L.cash + 1 /\ P.savings = L.savings /\ P.penalty = L.penalty
        /\ q.saved = r.saved /\ q.repaid = r.repaid + 1 /\ q.feePaid = r.feePaid
        /\ q.finePaid = r.finePaid /\ Back(Q) = Back(R)
        /\ Disbursed(r) <=> Disbursed(q)
    BY <1>6, <1>8, <1>9, <1>10, <1>18, Zenon
  <2>2. P.savings = -w.savings /\ P.penalty = -(w.fines + FeesPaid(Q))
    BY <1>3, <1>4, <1>5, <1>12, <2>1
  <2>3. P.cash = Balance(w) - Principal * Cardinality(Back(Q))
    BY <1>3, <1>4, <1>5, <1>11, <1>12, <2>1
  <2> QED BY <2>2, <2>3 DEF Books, P, w
<1>16. CASE op = "payFine"
  BY <1>3, <1>4, <1>5, <1>6, <1>8, <1>9, <1>10, <1>11, <1>12, <1>16 DEF Books, P, w
<1>17. CASE op = "reverse"
  BY <1>3, <1>4, <1>5, <1>7, <1>8, <1>9, <1>10, <1>11, <1>12, <1>17 DEF Books, P, w
<1> QED BY <1>13, <1>14, <1>15, <1>16, <1>17, <1>18 DEF Guarded

LEMMA CommitBooks ==
  ASSUME Standing, NEW c \in Calls, Commit(c), ledger \in Ledger, Books(rows, ledger)
  PROVE  Books(rows', ledger')
<1> DEFINE k == call[c]
           y == k.member
<1>1. /\ Open(c) /\ Shape(k) /\ k.op \in Ops /\ k.todo = << >>
      /\ k.wrote \subseteq Members /\ RowsOK'
      /\ \A m \in Members \ k.wrote : rows'[m] = rows[m]
      /\ \A m \in k.wrote :
           /\ rows'[m] = Effect(k.op, rows[m], k.closes)
           /\ RowOK(rows[m]) /\ rows[m] # Gone /\ Allowed(k.op, rows[m])
           /\ k.op # "preview"
  BY CommitRows
<1>2. ledger' = Post(k.op, rows[y], ledger)
  BY DEF Commit
<1>3. CASE k.op \in Guarded
  <2>1. y \in Members /\ k.wrote = {y}
    <3>1. k.op # "overdue" /\ k.op # "preview"
      BY <1>3 DEF Guarded
    <3> QED BY <1>1, <3>1, ShapeFacts
  <2>2. /\ \A m \in Members : RowOK(rows[m]) /\ RowOK(rows'[m])
        /\ \A m \in Members \ {y} : rows'[m] = rows[m]
        /\ Allowed(k.op, rows[y]) /\ rows'[y] = Effect(k.op, rows[y], k.closes)
    BY <1>1, <2>1 DEF Standing, RowsOK
  <2> HIDE DEF k, y
  <2>3. Books(rows', Post(k.op, rows[y], ledger))
    BY <1>3, <2>1, <2>2, BooksOne
  <2> QED BY <1>2, <2>3
<1>4. CASE k.op \notin Guarded
  <2>1. k.op \in {"overdue", "fine", "preview"}
    BY <1>1, <1>4, OpKinds DEF Unguarded
  <2>2. ledger' = ledger
    BY <1>2, <2>1, PostIs DEF Ops
  <2>3. ASSUME NEW m \in Members
        PROVE  /\ SameInGroup(rows'[m], rows[m]) /\ rows'[m].feePaid = rows[m].feePaid
               /\ rows'[m].loan = "PAYOUT_REVERSED" <=> rows[m].loan = "PAYOUT_REVERSED"
    <3>1. CASE m \notin k.wrote
      BY <1>1, <3>1 DEF SameInGroup
    <3>2. CASE m \in k.wrote
      <4>1. k.op \in Unguarded
        BY <1>1, <2>1, <3>2 DEF Unguarded
      <4> HIDE DEF k
      <4>2. SameInGroup(rows'[m], rows[m]) /\ Keeps(k.op, rows[m], k.closes, rows'[m])
        BY <1>1, <3>2, <4>1, UnguardedSame, EffectKeeps
      <4>3. k.op = "overdue" => rows[m].loan \in {"ACTIVE", "OVERDUE"}
        BY <1>1, <3>2, AllowedIs
      <4> QED BY <4>1, <4>2, <4>3 DEF Keeps, Unguarded, LoanOps
    <3> QED BY <3>1, <3>2
  <2>4. Books(rows', ledger)
    BY <2>3, BooksSame
  <2> QED BY <2>2, <2>4
<1> QED BY <1>3, <1>4

LEMMA CommitFines ==
  ASSUME Standing, Worth, NEW c \in Calls, Commit(c), "fine" \notin mishaps, Fines(rows)
  PROVE  Fines(rows')
<1> DEFINE k == call[c]
<1>1. /\ k.op \in Ops /\ k.wrote \subseteq Members
      /\ \A m \in Members \ k.wrote : rows'[m] = rows[m]
      /\ \A m \in k.wrote :
           /\ rows'[m] = Effect(k.op, rows[m], k.closes)
           /\ RowOK(rows[m]) /\ Allowed(k.op, rows[m]) /\ RowOK(rows'[m])
  BY CommitRows
<1>2. FineSeen(k, rows)
  BY DEF Worth, WorthOf
<1> HIDE DEF k
<1> SUFFICES ASSUME NEW m \in k.wrote, rows'[m].fine # "none"
             PROVE  rows'[m].fine = "PAID" <=> rows'[m].finePaid >= rows'[m].fined
  BY <1>1 DEF Fines
<1> DEFINE r == rows[m]
           q == rows'[m]
<1>3. /\ m \in Members /\ RowOK(r) /\ RowOK(q) /\ Allowed(k.op, r)
      /\ q = Effect(k.op, r, k.closes) /\ Keeps(k.op, r, k.closes, q)
  BY <1>1, EffectKeeps
<1>4. r.fine # "none" => (r.fine = "PAID" <=> r.finePaid >= r.fined)
  BY <1>3 DEF Fines
<1>5. k.op = "payFine" => (k.closes <=> r.finePaid + 1 >= r.fined)
  BY <1>2 DEF FineSeen
<1>6. r.finePaid \in Nat /\ r.fined \in Nat /\ q.fined \in Nat /\ r.fine \in {"none", "UNPAID", "PAID"}
  BY <1>3 DEF RowOK, Row
<1>7. q.fine # "none"
  OBVIOUS
<1>8. CASE k.op = "fine"
  <2>1. r.fine = "none"
    BY <1>1, <1>3, <1>8, AllowedIs
  <2>2. r.finePaid = 0
    BY <1>3, <2>1 DEF RowOK
  <2>3. q.fine = "UNPAID" /\ q.finePaid = 0
    BY <1>3, <1>8, <2>2 DEF Keeps
  <2>4. q.fined > 0
    BY <1>3, <1>7 DEF RowOK
  <2> QED BY <1>6, <2>3, <2>4
<1>9. CASE k.op = "payFine"
  <2>1. r.fine # "none"
    BY <1>1, <1>3, <1>9, AllowedIs
  <2>2. /\ q.finePaid = r.finePaid + 1 /\ q.fined = r.fined
        /\ q.fine = IF k.closes THEN "PAID" ELSE r.fine
    BY <1>3, <1>9 DEF Keeps
  <2> SUFFICES q.fine = "PAID" <=> q.finePaid >= q.fined
    OBVIOUS
  <2> HIDE DEF r, q
  <2>3. CASE k.closes
    <3>1. q.fine = "PAID" /\ r.finePaid + 1 >= r.fined
      BY <1>5, <1>9, <2>2, <2>3, Zenon
    <3> QED BY <2>2, <3>1
  <2>4. CASE ~k.closes
    <3>1. q.fine = r.fine /\ ~(r.finePaid + 1 >= r.fined)
      BY <1>5, <1>9, <2>2, <2>4, Zenon
    <3> QED BY <1>4, <1>6, <2>1, <2>2, <3>1
  <2> QED BY <2>3, <2>4
<1>10. CASE k.op \notin {"fine", "payFine"}
  <2>1. q.finePaid = r.finePaid /\ q.fined = r.fined /\ q.fine = r.fine
    BY <1>3, <1>10 DEF Keeps
  <2> QED BY <1>4, <1>7, <2>1
<1> QED BY <1>8, <1>9, <1>10

LEMMA NextBooks ==
  ASSUME Standing, Worth, ledger \in Ledger, BooksAgree, [Next]_vars
  PROVE  BooksAgree' /\ ledger' \in Ledger
<1>1. ("removed" \notin mishaps => Books(rows, ledger)) /\ ("fine" \notin mishaps => Fines(rows))
  BY BooksAre
<1>2. BooksAgree' <=> /\ "removed" \notin mishaps' => Books(rows', ledger')
                      /\ "fine" \notin mishaps' => Fines(rows')
  <2>1. (BooksAgree <=> /\ "removed" \notin mishaps => Books(rows, ledger)
                        /\ "fine" \notin mishaps => Fines(rows))'
    BY BooksAre, PTL
  <2> QED BY <2>1
<1> SUFFICES /\ "removed" \notin mishaps' => Books(rows', ledger')
             /\ "fine" \notin mishaps' => Fines(rows')
             /\ ledger' \in Ledger
  BY <1>2
<1>3. CASE rows' = rows /\ ledger' = ledger /\ mishaps \subseteq mishaps'
  BY <1>1, <1>3
<1>4. ASSUME NEW m \in Members, Pledge(m)
      PROVE  (Books(rows, ledger) => Books(rows', ledger')) /\ (Fines(rows) => Fines(rows'))
             /\ ledger' = ledger /\ mishaps' = mishaps
  <2>1. /\ RowsOK' /\ rows[m] # Gone /\ rows'[m] = [rows[m] EXCEPT !.pending = 1]
        /\ \A x \in Members \ {m} : rows'[x] = rows[x]
    BY <1>4, PledgeRows DEF Standing
  <2>2. /\ SameInGroup(rows'[m], rows[m]) /\ SameInMember(rows'[m], rows[m])
        /\ rows'[m].feePaid = rows[m].feePaid /\ rows'[m].loan = rows[m].loan
    BY <2>1, PledgeRow DEF Standing, RowsOK
  <2>3. ledger' = ledger /\ mishaps' = mishaps
    BY <1>4 DEF Pledge
  <2>4. \A x \in Members :
          /\ SameInGroup(rows'[x], rows[x]) /\ rows'[x].feePaid = rows[x].feePaid
          /\ rows'[x].loan = "PAYOUT_REVERSED" <=> rows[x].loan = "PAYOUT_REVERSED"
    <3>1. \A r : SameInGroup(r, r)
      BY DEF SameInGroup
    <3> QED BY <2>1, <2>2, <3>1
  <2>5. Books(rows, ledger) => Books(rows', ledger')
    BY <2>3, <2>4, BooksSame
  <2>6. Fines(rows) => Fines(rows')
    <3>1. \A x \in Members : /\ rows'[x].fine = rows[x].fine /\ rows'[x].fined = rows[x].fined
                             /\ rows'[x].finePaid = rows[x].finePaid
      BY <2>1, <2>2, Zenon DEF SameInMember
    <3> QED BY <3>1 DEF Fines
  <2> QED BY <2>3, <2>5, <2>6
<1>5. ASSUME NEW m \in Members, Remove(m)
      PROVE  /\ "removed" \in mishaps' /\ mishaps \subseteq mishaps' /\ ledger' = ledger
             /\ Fines(rows) => Fines(rows')
  <2>1. RowsOK' /\ rows'[m] = Gone /\ \A x \in Members \ {m} : rows'[x] = rows[x]
    BY <1>5, RemoveRows DEF Standing
  <2>2. Gone.fine = "none"
    BY GoneRow
  <2> QED BY <1>5, <2>1, <2>2 DEF Remove, Fines
<1>6. ASSUME NEW c \in Calls, Commit(c)
      PROVE  /\ Books(rows, ledger) => Books(rows', ledger')
             /\ "fine" \notin mishaps /\ Fines(rows) => Fines(rows')
             /\ ledger' \in Ledger /\ mishaps' = mishaps
  <2>1. mishaps' = mishaps /\ call[c].op \in Ops
    BY <1>6, CommitRows
  <2>2. ledger' \in Ledger
    BY <1>6, <2>1, PostIs DEF Commit
  <2> QED BY <1>6, <2>1, <2>2, CommitBooks, CommitFines
<1>7. CASE UNCHANGED vars
  BY <1>3, <1>7 DEF vars
<1>8. ASSUME NEW c \in Calls, NEW op \in Ops, NEW m \in Members, Begin(c, op, m)
      PROVE  rows' = rows /\ ledger' = ledger /\ mishaps \subseteq mishaps'
  BY <1>8 DEF Begin
<1>9. ASSUME NEW c \in Calls, NEW m \in Members, NextLoan(c, m)
      PROVE  rows' = rows /\ ledger' = ledger /\ mishaps \subseteq mishaps'
  BY <1>9 DEF NextLoan
<1>10. ASSUME NEW c \in Calls, Write(c) \/ GiveUp(c)
       PROVE  rows' = rows /\ ledger' = ledger /\ mishaps \subseteq mishaps'
  BY <1>10 DEF Write, GiveUp
<1>11. ASSUME NEW c \in Calls, NEW t \in Targets, Look(c, t) \/ Store(c, t) \/ Skip(c, t)
       PROVE  rows' = rows /\ ledger' = ledger /\ mishaps \subseteq mishaps'
  BY <1>11 DEF Look, Store, Skip
<1>12. CASE \E m \in Members : Pledge(m)
  BY <1>1, <1>4, <1>12
<1>13. CASE \E m \in Members : Remove(m)
  BY <1>1, <1>5, <1>13
<1>14. CASE \E c \in Calls : Commit(c)
  BY <1>1, <1>6, <1>14
<1> QED BY <1>3, <1>7, <1>8, <1>9, <1>10, <1>11, <1>12, <1>13, <1>14 DEF Next

-----------------------------------------------------------------------------
(* The theorems. *)

LEMMA InitIInv == Init => IInv
<1> SUFFICES ASSUME Init PROVE IInv
  OBVIOUS
<1>1. /\ rows = [m \in Members |-> NoRows] /\ wallet = [t \in Targets |-> Sums(rows, t)]
      /\ ledger = [cash |-> 0, receivable |-> 0, savings |-> 0, penalty |-> 0]
      /\ begun = 0 /\ mishaps = {}
  BY DEF Init
<1>2. WalletsExact
  <2>1. wallet[Group] = GroupSums(rows)
    BY <1>1 DEF Targets, Sums
  <2>2. \A m \in Members : wallet[m] = MemberSums(rows, m)
    BY <1>1, Names DEF Targets, Sums
  <2> QED BY <2>1, <2>2 DEF WalletsExact
<1>3. Bounds /\ ledger \in Ledger
  BY <1>1, Amounts DEF Bounds, Ledger
<1>4. BooksAgree
  <2> DEFINE zero == [m \in Members |-> 0]
  <2>1. /\ [m \in Members |-> rows[m].saved] = zero /\ [m \in Members |-> rows[m].repaid] = zero
        /\ [m \in Members |-> rows[m].finePaid] = zero /\ [m \in Members |-> rows[m].feePaid] = zero
        /\ [m \in Members |-> IF Disbursed(rows[m]) THEN Principal ELSE 0] = zero
    BY <1>1 DEF NoRows, Disbursed
  <2>2. \A m \in Members : zero[m] = 0
    OBVIOUS
  <2> HIDE DEF zero
  <2>3. SumFunctionOnSet(zero, Members) = 0
    BY <2>2, MembersFinite, SumZero
  <2>4. /\ GroupSums(rows).savings = 0 /\ GroupSums(rows).repayments = 0
        /\ GroupSums(rows).fines = 0 /\ GroupSums(rows).lent = 0 /\ FeesPaid(rows) = 0
    BY <2>1, <2>3, Zenon DEF GroupSums, SumOf, FeesPaid
  <2>5. Cardinality(Back(rows)) = 0
    <3>1. Back(rows) = {}
      BY <1>1 DEF Back, NoRows
    <3> QED BY <3>1, FS_EmptySet
  <2>6. Books(rows, ledger)
    BY <1>1, <2>4, <2>5, Amounts DEF Books, Balance
  <2>7. Fines(rows)
    BY <1>1 DEF Fines, NoRows
  <2> QED BY <2>6, <2>7, BooksAre
<1> QED BY <1>2, <1>3, <1>4, InitStanding, InitWorth DEF IInv

LEMMA NextBounds ==
  ASSUME Standing, Bounds, ledger' \in Ledger, [Next]_vars
  PROVE  Bounds'
<1>1. begun \in 0..MaxCalls /\ MaxCalls \in Nat /\ DOMAIN wallet = Targets /\ mishaps \subseteq Mishaps
      /\ ledger' \in [cash : Int, receivable : Int, savings : Int, penalty : Int]
  BY Amounts DEF Bounds, Ledger
<1> SUFFICES DOMAIN wallet' = Targets /\ begun' \in 0..MaxCalls /\ mishaps' \subseteq Mishaps
  BY <1>1 DEF Bounds
<1>2. CASE UNCHANGED <<wallet, begun, mishaps>>
  BY <1>1, <1>2
<1>3. ASSUME NEW c \in Calls, NEW op \in Ops, NEW m \in Members, Begin(c, op, m)
      PROVE  DOMAIN wallet' = Targets /\ begun' \in 0..MaxCalls /\ mishaps' \subseteq Mishaps
  BY <1>1, <1>3, OverlapsIs DEF Begin
<1>4. ASSUME NEW m \in Members, Pledge(m)
      PROVE  DOMAIN wallet' = Targets /\ begun' \in 0..MaxCalls /\ mishaps' \subseteq Mishaps
  BY <1>1, <1>4 DEF Pledge
<1>5. ASSUME NEW m \in Members, Remove(m)
      PROVE  DOMAIN wallet' = Targets /\ begun' \in 0..MaxCalls /\ mishaps' \subseteq Mishaps
  <2>1. DOMAIN wallet' = Targets
    BY <1>1, <1>5, Zenon DEF Remove
  <2>2. begun' \in 0..MaxCalls
    BY <1>1, <1>5 DEF Remove
  <2>3. mishaps' \subseteq Mishaps
    BY <1>1, <1>5 DEF Remove, Mishaps
  <2> QED BY <2>1, <2>2, <2>3
<1>6. ASSUME NEW c \in Calls, Commit(c)
      PROVE  DOMAIN wallet' = Targets /\ begun' = begun /\ mishaps' = mishaps
  BY <1>6 DEF Commit
<1>7. ASSUME NEW c \in Calls, NEW m \in Members, NextLoan(c, m)
      PROVE  UNCHANGED <<wallet, begun, mishaps>>
  BY <1>7 DEF NextLoan
<1>8. ASSUME NEW c \in Calls, Write(c) \/ GiveUp(c)
      PROVE  UNCHANGED <<wallet, begun, mishaps>>
  BY <1>8 DEF Write, GiveUp
<1>9. ASSUME NEW c \in Calls, NEW t \in Targets, Look(c, t) \/ Store(c, t) \/ Skip(c, t)
      PROVE  UNCHANGED <<wallet, begun, mishaps>>
  BY <1>9 DEF Look, Store, Skip
<1>10. CASE UNCHANGED vars
  BY <1>2, <1>10 DEF vars
<1> QED BY <1>1, <1>2, <1>3, <1>4, <1>5, <1>6, <1>7, <1>8, <1>9, <1>10 DEF Next

LEMMA NextIInv == IInv /\ [Next]_vars => IInv'
<1> SUFFICES ASSUME IInv, [Next]_vars PROVE IInv'
  OBVIOUS
<1>1. Standing /\ Worth /\ Bounds /\ WalletsExact /\ BooksAgree /\ DOMAIN wallet = Targets
      /\ ledger \in Ledger
  BY DEF IInv, Bounds, Ledger
<1>2. Standing' /\ Worth'
  BY <1>1, NextStanding, NextWorth
<1>3. WalletsExact' /\ BooksAgree' /\ ledger' \in Ledger
  BY <1>1, NextExact, NextBooks
<1>4. Bounds'
  BY <1>1, <1>3, NextBounds
<1> QED BY <1>2, <1>3, <1>4 DEF IInv

\* What a transaction has left to do names wallets and "write" only.
LEMMA TodoRange ==
  ASSUME NEW k, Shape(k)
  PROVE  Range(k.todo) \subseteq Targets \cup {"write"}
<1>1. \A s \in Seq(Targets \cup {"write"}) : Range(s) \subseteq Targets \cup {"write"}
  BY DEF Range
<1> SUFFICES k.todo \in Seq(Targets \cup {"write"})
  BY <1>1
<1>2. Group \in Targets /\ Members \subseteq Targets
  BY DEF Targets
<1>3. RebuildAll \in Seq(Targets \cup {"write"})
  BY Todos
<1>4. CASE GuardedShape(k)
  <2>1. k.todo \in {WriteGroupAll, GroupAll, GroupWriteAll, WriteAll, RebuildAll} \cup Seq(Members)
    BY <1>4 DEF GuardedShape, Early, Ready, Late
  <2> QED BY <1>2, <1>3, <2>1, Todos
<1>5. CASE UnguardedShape(k)
  <2>1. k.member \in Targets \cup {"write"}
    BY <1>2, <1>5 DEF UnguardedShape
  <2>2. \A S : \A x, y \in S : << >> \in Seq(S) /\ <<x>> \in Seq(S) /\ <<x, y>> \in Seq(S)
    OBVIOUS
  <2>3. k.todo \in {<<"write", k.member>>, <<k.member>>, << >>}
    BY <1>5, Zenon DEF UnguardedShape
  <2> QED BY <2>1, <2>2, <2>3
<1>6. CASE PreviewShape(k)
  <2>1. \A S : \A x \in S : << >> \in Seq(S) /\ <<x>> \in Seq(S)
    OBVIOUS
  <2>2. k.todo \in {<<Group>>, << >>}
    BY <1>6, Zenon DEF PreviewShape
  <2> QED BY <1>2, <2>1, <2>2
<1> QED BY <1>4, <1>5, <1>6 DEF Shape

\* Every variable keeps its type, and no more is repaid of a loan and its late fee
\* than is due.
THEOREM TypeCorrect == Spec => []TypeOK
<1>1. IInv => TypeOK
  <2> SUFFICES ASSUME IInv PROVE TypeOK
    OBVIOUS
  <2>1. Standing /\ Bounds
    BY DEF IInv
  <2>2. ASSUME NEW m \in Members
        PROVE  /\ rows[m].loan \in LoanStates /\ rows[m].fine \in {"none", "UNPAID", "PAID"}
               /\ \A f \in {"pending", "saved", "fined", "finePaid"} : rows[m][f] \in Nat
               /\ rows[m].fee \in 0..1 /\ rows[m].feePaid \in 0..rows[m].fee
               /\ rows[m].repaid - rows[m].feePaid \in 0..Repayable
    <3>1. RowOK(rows[m])
      BY <2>1 DEF Standing, RowsOK
    <3> QED BY <3>1 DEF RowOK, Row
  <2>3. ASSUME NEW c \in Calls
        PROVE  /\ call[c].op \in Ops \cup {"none"} /\ call[c].wrote \subseteq Members
               /\ DOMAIN call[c].stored \subseteq Targets
               /\ Range(call[c].todo) \subseteq Targets \cup {"write"}
    <3>1. CASE call[c] = Idle
      <4>1. Range(Idle.todo) = {}
        BY IdleCall DEF Range
      <4> QED BY <3>1, <4>1, IdleCall
    <3>2. CASE call[c] # Idle
      BY <2>1, <3>2, OpenSound, ShapeFacts, TodoRange DEF Open
    <3> QED BY <3>1, <3>2
  <2> QED BY <2>1, <2>2, <2>3 DEF TypeOK, Bounds, LoanStates
<1> QED BY <1>1, InitIInv, NextIInv, PTL DEF Spec

\* Whatever overlaps, the stored wallets agree with the rows, unless one of the
\* overlaps that may lose an amount has happened.
THEOREM WalletsStayExact == Spec => []WalletsExact
<1>1. IInv => WalletsExact
  BY DEF IInv
<1> QED BY <1>1, InitIInv, NextIInv, PTL DEF Spec

\* The next contribution or disbursement to commit puts the group's wallet right.
THEOREM CommitsRepair == Spec => Repaired
<1>1. IInv /\ [Next]_vars =>
        [\A c \in Calls :
           Commit(c) /\ call[c].op \in {"record", "verify", "disburse"} /\ Without({"undermined"})
             => wallet'[Group] = GroupSums(rows')]_vars
  <2> SUFFICES ASSUME IInv, NEW c \in Calls, Commit(c), call[c].op \in Rereads, "undermined" \notin mishaps
               PROVE  wallet'[Group] = GroupSums(rows')
    BY DEF Rereads, Without
  <2>1. Group \in DOMAIN call[c].stored /\ call[c].stored[Group] = GroupSums(rows')
    BY CommitGroup DEF Trusted, IInv
  <2>2. Group \in Targets
    BY DEF Targets
  <2> QED BY <2>1, <2>2 DEF Commit, HeldBy
<1> QED BY <1>1, InitIInv, NextIInv, PTL DEF Spec, Repaired

\* The ledger's cash, savings and penalty income agree with the rows, and a fine is
\* PAID exactly when its payments cover it.
THEOREM BooksStayAgreed == Spec => []BooksAgree
<1>1. IInv => BooksAgree
  BY DEF IInv
<1> QED BY <1>1, InitIInv, NextIInv, PTL DEF Spec

\* Two rebuilds never wait for each other's wallets, as long as the overdue job does
\* not run.
THEOREM NoCycle == Spec => []NoLockCycle
<1>1. IInv => NoLockCycle
  <2> SUFFICES ASSUME IInv, "job" \notin mishaps, NEW c \in Calls, NEW d \in Calls, c # d,
                      WaitsFor(c, d), WaitsFor(d, c)
               PROVE  FALSE
    BY DEF NoLockCycle, Without
  <2>1. Standing
    BY DEF IInv
  <2>2. /\ call[c].todo # << >> /\ DOMAIN call[c].stored # {}
        /\ call[d].todo # << >> /\ DOMAIN call[d].stored # {}
    BY DEF WaitsFor, Doing, HeldBy
  <2>3. ASSUME NEW e \in {c, d} PROVE Group \in DOMAIN call[e].stored
    <3>1. Shape(call[e])
      BY <2>1, <2>2, DoingOpen, OpenSound
    <3>2. call[e].op # "overdue"
      BY <2>1 DEF Standing, Alone, Without
    <3>3. call[e].op \notin Unguarded
      BY <2>2, <3>1, <3>2, ShapeFacts DEF Unguarded
    <3> QED BY <2>2, <3>1, <3>3, ShapeFacts
  <2>4. DOMAIN call[c].stored \cap DOMAIN call[d].stored = {}
    BY <2>1, <2>2, DoingOpen, OpenSound
  <2> QED BY <2>3, <2>4
<1> QED BY <1>1, InitIInv, NextIInv, PTL DEF Spec
=============================================================================

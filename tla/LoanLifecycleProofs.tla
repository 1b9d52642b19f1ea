------------------------ MODULE LoanLifecycleProofs -------------------------
(***************************************************************************)
(* Proofs about LoanLifecycle, for any borrowers, terms, dates and limits: *)
(* decisions on loans stand, no borrower has too many, and every loan has  *)
(* the terms and installments it should.                                   *)
(*                                                                         *)
(* The first two look at the statuses and borrowers of loans only; of the  *)
(* rest of a row they need no more than that it is a record that has both. *)
(***************************************************************************)
EXTENDS LoanLifecycle, SumTheorems, TLAPS

CallRows ==
  [job : {"none", "request", "approve", "reject", "overdue", "repay"},
   about : Borrowers \cup Nat, terms : Products \cup {NoTerms}]

Rows(S) == \A l \in S : {"status", "borrower"} \subseteq DOMAIN l

Types ==
  /\ \E S : loans \in Seq(S) /\ Rows(S)
  /\ call \in [Calls -> CallRows]
  /\ product \in Products \cup {NoTerms}

Deciding == {"approve", "reject"}

\* What is true of the loan a request is about, if no two decisions overlapped: it
\* is undecided while one is made, and was paid out if a repayment or the overdue job
\* has it.
Fits(c) ==
  /\ call[c].job \in Deciding => loans[call[c].about].status \in {"PENDING", "deleted"}
  /\ call[c].job \in Holding =>
       /\ PaidOut(loans[call[c].about]) \/ loans[call[c].about].status = "deleted"
       /\ Without({"late"}) => loans[call[c].about].status \in Out \cup {"deleted"}

CallInv ==
  /\ \A c \in Calls : call[c].job \in Deciding \cup Holding => call[c].about \in DOMAIN loans
  /\ Without({"stale"}) =>
       /\ \A c, d \in Calls :
            c # d /\ call[c].job \in Deciding /\ call[d].job \in Deciding
              => call[c].about # call[d].about
       /\ \A c \in Calls : Fits(c)

Inv == Types /\ CallInv

-----------------------------------------------------------------------------
\* What a step does to the loans, as far as their statuses go: nothing, a new loan,
\* one loan's new status, or the deletion of all.
Same     == UNCHANGED loans
Created  == /\ \A i \in DOMAIN loans : i \in DOMAIN loans' /\ loans'[i] = loans[i]
Turned(i, status) ==
  /\ DOMAIN loans' = DOMAIN loans
  /\ \A j \in DOMAIN loans : j # i => loans'[j] = loans[j]
  /\ loans'[i].status = status /\ loans'[i].borrower = loans[i].borrower
AllGone  == DOMAIN loans' = DOMAIN loans
            /\ \A i \in DOMAIN loans : loans'[i].status = "deleted"

LEMMA RowHasStatus ==
  ASSUME Types, NEW i \in DOMAIN loans
  PROVE  {"status", "borrower"} \subseteq DOMAIN loans[i]
<1>1. PICK S : loans \in Seq(S) /\ Rows(S)
  BY DEF Types
<1> QED BY <1>1 DEF Rows

\* A sequence of rows stays one when a row gets other columns, or is added.
LEMMA RowSaved ==
  ASSUME Types, NEW i \in DOMAIN loans, NEW row, DOMAIN row = DOMAIN loans[i],
         row.borrower = loans[i].borrower,
         loans' = [loans EXCEPT ![i] = row]
  PROVE  /\ \E S : loans' \in Seq(S) /\ Rows(S)
         /\ Turned(i, row.status)
<1>1. PICK S : loans \in Seq(S) /\ Rows(S)
  BY DEF Types
<1>2. i \in 1..Len(loans) /\ Len(loans) \in Nat /\ loans[i] \in S
  BY <1>1
<1>3. Rows(S \cup {row})
  BY <1>1, <1>2 DEF Rows
<1>4. loans \in Seq(S \cup {row})
  BY <1>1
<1>5. loans' \in Seq(S \cup {row})
  BY <1>2, <1>4
<1>6. Turned(i, row.status)
  BY <1>2, <1>4 DEF Turned
<1> QED BY <1>3, <1>5, <1>6

LEMMA StatusSaved ==
  ASSUME Types, NEW i \in DOMAIN loans, NEW status,
         loans' = [loans EXCEPT ![i].status = status]
  PROVE  /\ \E S : loans' \in Seq(S) /\ Rows(S)
         /\ Turned(i, status)
<1> DEFINE row == [loans[i] EXCEPT !.status = status]
<1>1. {"status", "borrower"} \subseteq DOMAIN loans[i]
  BY RowHasStatus
<1>2. DOMAIN row = DOMAIN loans[i] /\ row.status = status /\ row.borrower = loans[i].borrower
  BY <1>1
<1>3. loans' = [loans EXCEPT ![i] = row]
  OBVIOUS
<1> HIDE DEF row
<1> QED BY <1>2, <1>3, RowSaved

LEMMA LoanAdded ==
  ASSUME Types, NEW b, NEW t, loans' = Append(loans, Requested(b, t))
  PROVE  (\E S : loans' \in Seq(S) /\ Rows(S)) /\ Created
<1> DEFINE row == Requested(b, t)
<1>1. PICK S : loans \in Seq(S) /\ Rows(S)
  BY DEF Types
<1>2. {"status", "borrower"} \subseteq DOMAIN row
  BY DEF Requested
<1> HIDE DEF row
<1>3. Rows(S \cup {row}) /\ loans \in Seq(S \cup {row})
  BY <1>1, <1>2 DEF Rows
<1>4. loans' \in Seq(S \cup {row})
  BY <1>3 DEF row
<1>5. \A i \in DOMAIN loans : i \in DOMAIN loans' /\ loans'[i] = loans[i]
  BY <1>3 DEF row
<1> QED BY <1>3, <1>4, <1>5 DEF Created

LEMMA AllDeleted ==
  ASSUME Types, loans' = [i \in DOMAIN loans |-> [loans[i] EXCEPT !.status = "deleted"]]
  PROVE  (\E S : loans' \in Seq(S) /\ Rows(S)) /\ AllGone
<1> DEFINE T == {loans'[i] : i \in DOMAIN loans}
<1>1. PICK S : loans \in Seq(S) /\ Rows(S)
  BY DEF Types
<1>2. \A i \in DOMAIN loans : {"status", "borrower"} \subseteq DOMAIN loans[i]
  BY <1>1 DEF Rows
<1>3. \A i \in DOMAIN loans : {"status", "borrower"} \subseteq DOMAIN loans'[i] /\ loans'[i].status = "deleted"
  BY <1>2
<1>4. DOMAIN loans = 1..Len(loans) /\ Len(loans) \in Nat
  BY <1>1
<1>5. loans' \in Seq(T) /\ Rows(T)
  BY <1>3, <1>4 DEF Rows
<1> QED BY <1>3, <1>5 DEF AllGone

LEMMA DisburseTurns ==
  ASSUME Types, NEW i \in DOMAIN loans, Disburse(i)
  PROVE  (\E S : loans' \in Seq(S) /\ Rows(S)) /\ Turned(i, "ACTIVE")
<1> DEFINE out == [loans[i] EXCEPT !.status = "ACTIVE"]
           made(s) == [out EXCEPT !.by = product, !.start = today, !.schedule = s]
           row == IF out.schedule # << >> THEN out
                  ELSE made(Installments(out.total, product, today))
<1>1. loans' = [loans EXCEPT ![i] = row]
  BY DEF Disburse
<1>2. {"status", "borrower"} \subseteq DOMAIN loans[i]
  BY RowHasStatus
<1>3. DOMAIN out = DOMAIN loans[i] /\ out.status = "ACTIVE" /\ out.borrower = loans[i].borrower
  BY <1>2
<1>4. \A s : DOMAIN made(s) = DOMAIN out /\ made(s).status = out.status
             /\ made(s).borrower = out.borrower
  OBVIOUS
<1>5. DOMAIN row = DOMAIN loans[i] /\ row.status = "ACTIVE" /\ row.borrower = loans[i].borrower
  BY <1>3, <1>4
<1> HIDE DEF row
<1> QED BY <1>1, <1>5, RowSaved

-----------------------------------------------------------------------------
LEMMA Quieter ==
  ASSUME NEW kinds, mishaps \subseteq mishaps'
  PROVE  Without(kinds)' => Without(kinds)
  BY DEF Without

LEMMA BeginTypes ==
  ASSUME Types, NEW c \in Calls, NEW image \in CallRows, NEW kind \in Mishaps, NEW overlaps \in BOOLEAN,
         Begin(c, image, kind, overlaps)
  PROVE  /\ call' \in [Calls -> CallRows] /\ call'[c] = image
         /\ \A d \in Calls : d # c => call'[d] = call[d]
         /\ mishaps \subseteq mishaps' /\ (overlaps => kind \in mishaps')
         /\ UNCHANGED <<loans, product>>
  BY DEF Types, Begin

\* A step that begins no request and changes one loan keeps the conditions on
\* requests, if it keeps them for those about that loan.
LEMMA TurnKeeps ==
  ASSUME CallInv, NEW i \in DOMAIN loans, NEW status, Turned(i, status),
         \A c \in Calls : call'[c] = call[c] \/ call'[c] = Idle,
         mishaps \subseteq mishaps',
         Without({"stale"})' => \A c \in Calls : call'[c] = call[c] /\ call[c].about = i => Fits(c)'
  PROVE  CallInv'
<1>1. Without({"stale"})' => Without({"stale"})
  BY Quieter
<1>2. Without({"late"})' => Without({"late"})
  BY Quieter
<1>3. \A c \in Calls : call'[c].job # "none" => call'[c] = call[c]
  BY DEF Idle
<1>4. \A c \in Calls : call'[c].job \in Deciding \cup Holding => call'[c].about \in DOMAIN loans'
  BY <1>3 DEF CallInv, Turned, Deciding, Holding
<1>5. ASSUME Without({"stale"})', NEW c \in Calls
      PROVE  Fits(c)'
  <2>1. CASE call'[c].job \notin Deciding \cup Holding
    BY <2>1 DEF Fits
  <2>2. CASE call'[c].job \in Deciding \cup Holding
    <3>1. call'[c] = call[c] /\ call[c].about \in DOMAIN loans
      BY <2>2, <1>3 DEF CallInv, Deciding, Holding
    <3>2. CASE call[c].about = i
      BY <3>1, <3>2, <1>5
    <3>3. CASE call[c].about # i
      <4>1. loans'[call'[c].about] = loans[call[c].about]
        BY <3>1, <3>3 DEF Turned
      <4>2. Fits(c)
        BY <1>1, <1>5 DEF CallInv, Fits
      <4> QED BY <3>1, <4>1, <4>2, <1>2 DEF Fits, PaidOut
    <3> QED BY <3>2, <3>3
  <2> QED BY <2>1, <2>2
<1>6. Without({"stale"})' =>
        \A c, d \in Calls : c # d /\ call'[c].job \in Deciding /\ call'[d].job \in Deciding
                              => call'[c].about # call'[d].about
  BY <1>1, <1>3 DEF CallInv, Deciding, Holding
<1> QED BY <1>4, <1>5, <1>6 DEF CallInv, Fits

\* A step that begins no request and leaves the loans as they are, but for new ones
\* or the deletion of all, keeps them too.
LEMMA RestKeeps ==
  ASSUME CallInv, Same \/ Created \/ AllGone,
         \A c \in Calls : call'[c] = call[c] \/ call'[c] = Idle,
         mishaps' = mishaps
  PROVE  CallInv'
<1>1. \A c \in Calls : call'[c].job # "none" => call'[c] = call[c]
  BY DEF Idle
<1>2. \A c \in Calls : call'[c].job \in Deciding \cup Holding =>
        /\ call'[c] = call[c]
        /\ call'[c].about \in DOMAIN loans'
        /\ loans'[call'[c].about].status \in {loans[call[c].about].status, "deleted"}
  BY <1>1 DEF CallInv, Same, Created, AllGone, Deciding, Holding
<1>3. \A kinds : Without(kinds)' <=> Without(kinds)
  BY DEF Without
<1>4. ASSUME Without({"stale"})', NEW c \in Calls
      PROVE  Fits(c)'
  <2>1. Fits(c)
    BY <1>3, <1>4 DEF CallInv, Fits
  <2> QED BY <2>1, <1>2, <1>3 DEF Fits, PaidOut
<1>5. Without({"stale"})' =>
        \A c, d \in Calls : c # d /\ call'[c].job \in Deciding /\ call'[d].job \in Deciding
                              => call'[c].about # call'[d].about
  BY <1>1, <1>3 DEF CallInv, Deciding, Holding
<1> QED BY <1>2, <1>4, <1>5 DEF CallInv, Fits

\* A request begins on a loan it may be about, and on none another decision has.
LEMMA StartKeeps ==
  ASSUME CallInv, NEW c \in Calls, UNCHANGED loans,
         \A d \in Calls : d # c => call'[d] = call[d],
         mishaps \subseteq mishaps',
         call'[c].job \in Deciding \cup Holding => call'[c].about \in DOMAIN loans,
         Fits(c)',
         Without({"stale"})' /\ call'[c].job \in Deciding =>
           \A d \in Calls : call[d].job \in Deciding => call[d].about # call'[c].about
  PROVE  CallInv'
<1>1. Without({"stale"})' => Without({"stale"})
  BY Quieter
<1>2. Without({"late"})' => Without({"late"})
  BY Quieter
<1>3. \A d \in Calls : call'[d].job \in Deciding \cup Holding => call'[d].about \in DOMAIN loans'
  BY DEF CallInv
<1>4. ASSUME Without({"stale"})', NEW d \in Calls
      PROVE  Fits(d)'
  <2>1. CASE d = c
    BY <2>1
  <2>2. CASE d # c
    <3>1. Fits(d) /\ call'[d] = call[d]
      BY <2>2, <1>1, <1>4 DEF CallInv, Fits
    <3> QED BY <3>1, <1>2 DEF Fits, PaidOut
  <2> QED BY <2>1, <2>2
<1>5. Without({"stale"})' =>
        \A d, e \in Calls : d # e /\ call'[d].job \in Deciding /\ call'[e].job \in Deciding
                              => call'[d].about # call'[e].about
  BY <1>1 DEF CallInv
<1> QED BY <1>3, <1>4, <1>5 DEF CallInv, Fits

-----------------------------------------------------------------------------
\* The steps of the specification, and what each may do to a settled loan.
Stands ==
  Without({"stale"}) =>
    \A i \in DOMAIN loans :
      loans'[i].status # "deleted" =>
        /\ Final(loans[i]) => loans'[i].status = loans[i].status
        /\ PaidOut(loans[i]) => PaidOut(loans'[i])

LEMMA RestStands ==
  ASSUME Same \/ Created \/ AllGone
  PROVE  Stands
  BY DEF Stands, Same, Created, AllGone, PaidOut

LEMMA TurnStands ==
  ASSUME NEW i \in DOMAIN loans, NEW status, Turned(i, status),
         Without({"stale"}) => /\ ~Final(loans[i])
                               /\ PaidOut(loans[i]) => status \in Out \cup {"PAYOUT_REVERSED", "PAID_OFF"}
  PROVE  Stands
<1> SUFFICES ASSUME Without({"stale"}), NEW j \in DOMAIN loans
             PROVE  /\ Final(loans[j]) => loans'[j].status = loans[j].status
                    /\ PaidOut(loans[j]) => PaidOut(loans'[j])
  BY DEF Stands
<1>1. CASE j = i
  BY <1>1 DEF Turned, PaidOut
<1>2. CASE j # i
  BY <1>2 DEF Turned, PaidOut
<1> QED BY <1>1, <1>2

LEMMA SaveKeeps ==
  ASSUME Inv, NEW c \in Calls, NEW status, SaveStatus(c, status),
         \/ call[c].job \in Deciding
         \/ call[c].job \in Holding /\ status \in Out \cup {"PAID_OFF"}
  PROVE  Inv' /\ Stands
<1> DEFINE i == call[c].about
<1>1. i \in DOMAIN loans /\ loans[i].status # "deleted"
  BY DEF Inv, CallInv, SaveStatus, Live
<1>2. loans' = [loans EXCEPT ![i].status = status]
  BY DEF SaveStatus
<1>3. (\E S : loans' \in Seq(S) /\ Rows(S)) /\ Turned(i, status)
  BY <1>1, <1>2, StatusSaved DEF Inv
<1>4. /\ call' = [call EXCEPT ![c] = Idle] /\ mishaps \subseteq mishaps' /\ product' = product
      /\ call \in [Calls -> CallRows]
      /\ Without({"late"})' /\ status = "PAID_OFF" => Holders(i) \ {c} = {}
  BY DEF SaveStatus, NoteLate, Without, Inv, Types
<1>5. Types'
  BY <1>3, <1>4 DEF Inv, Types, CallRows, Idle
<1>6. Without({"stale"}) =>
        \/ call[c].job \in Deciding /\ loans[i].status = "PENDING"
        \/ call[c].job \in Holding /\ status \in Out \cup {"PAID_OFF"} /\ PaidOut(loans[i])
             /\ (Without({"late"}) => loans[i].status \in Out)
  BY <1>1 DEF Inv, CallInv, Fits, Deciding, Holding
<1>7. ASSUME Without({"stale"})', NEW d \in Calls, call'[d] = call[d], call[d].about = i
      PROVE  Fits(d)'
  <2>1. Without({"stale"})
    BY <1>4, <1>7, Quieter
  <2>2. CASE call[d].job \notin Deciding \cup Holding
    BY <2>2, <1>7 DEF Fits
  <2>3. CASE call[d].job \in Deciding \cup Holding
    <3>1. d # c
      BY <2>3, <1>4, <1>7 DEF Idle, Deciding, Holding
    <3>2. Fits(d) /\ Fits(c)
      BY <2>1 DEF Inv, CallInv
    <3>3. call[d].job \in Holding /\ call[c].job \in Holding
      BY <3>1, <3>2, <2>1, <2>3, <1>1, <1>6, <1>7 DEF Inv, CallInv, Fits, PaidOut, Out, Deciding, Holding
    <3>4. status \in Out \cup {"PAID_OFF"} /\ loans'[call'[d].about].status = status
      BY <3>3, <1>3, <1>7, <1>6, <2>1 DEF Turned, Deciding, Holding
    <3>5. Without({"late"})' => status # "PAID_OFF"
      BY <3>1, <3>3, <1>4, <1>7 DEF Holders
    <3> QED BY <3>3, <3>4, <3>5, <1>7 DEF Fits, PaidOut, Deciding, Holding
  <2> QED BY <2>2, <2>3
<1>8. \A d \in Calls : call'[d] = call[d] \/ call'[d] = Idle
  BY <1>4
<1>9. CallInv'
  BY <1>1, <1>3, <1>4, <1>7, <1>8, TurnKeeps DEF Inv
<1>10. Without({"stale"}) =>
         /\ ~Final(loans[i])
         /\ PaidOut(loans[i]) => status \in Out \cup {"PAYOUT_REVERSED", "PAID_OFF"}
  BY <1>6 DEF Final, PaidOut, Out
<1>11. Stands
  BY <1>1, <1>3, <1>10, TurnStands
<1> QED BY <1>5, <1>9, <1>11 DEF Inv

\* A payout or a reversal changes a loan no decision is being made on.
LEMMA MoveKeeps ==
  ASSUME Inv, NEW i \in DOMAIN loans, NEW status, Turned(i, status), Types',
         UNCHANGED call, mishaps \subseteq mishaps',
         \/ loans[i].status = "APPROVED"
         \/ /\ loans[i].status \in Out /\ status = "PAYOUT_REVERSED"
            /\ Without({"late"})' => Holders(i) = {}
  PROVE  Inv' /\ Stands
<1>1. ASSUME Without({"stale"})', NEW c \in Calls, call[c].about = i
      PROVE  Fits(c)'
  <2>1. Fits(c)
    BY <1>1, Quieter DEF Inv, CallInv
  <2>2. call[c].job \notin Deciding
    BY <2>1, <1>1 DEF Fits, Out
  <2>3. CASE call[c].job \in Holding
    <3>1. loans[i].status \in Out
      BY <2>1, <2>3, <1>1 DEF Fits, PaidOut, Out
    <3>2. loans'[call'[c].about].status = status
      BY <1>1 DEF Turned
    <3>3. status = "PAYOUT_REVERSED" /\ ~Without({"late"})'
      BY <3>1, <2>3, <1>1 DEF Out, Holders
    <3> QED BY <3>2, <3>3, <2>2 DEF Fits, PaidOut
  <2> QED BY <2>2, <2>3 DEF Fits
<1>2. CallInv'
  BY <1>1, TurnKeeps DEF Inv
<1>3. Stands
  BY TurnStands DEF Final, PaidOut, Out
<1> QED BY <1>2, <1>3 DEF Inv

LEMMA IndexNat ==
  ASSUME Types
  PROVE  DOMAIN loans \subseteq Nat
<1>1. PICK S : loans \in Seq(S) /\ Rows(S)
  BY DEF Types
<1> QED BY <1>1

\* A request that only begins.
LEMMA BeginKeeps ==
  ASSUME Inv, NEW c \in Calls, NEW image \in CallRows, NEW kind \in Mishaps, NEW overlaps \in BOOLEAN,
         Begin(c, image, kind, overlaps),
         \/ image.job = "request"
         \/ image.job \in Holding /\ image.about \in DOMAIN loans /\ loans[image.about].status \in Out
         \/ /\ image.job \in Deciding /\ image.about \in DOMAIN loans
            /\ loans[image.about].status = "PENDING" /\ kind = "stale"
            /\ ~overlaps => \A d \in Calls : call[d].job \in Deciding => call[d].about # image.about
  PROVE  Inv' /\ Stands
<1>1. /\ call' \in [Calls -> CallRows] /\ call'[c] = image
      /\ \A d \in Calls : d # c => call'[d] = call[d]
      /\ mishaps \subseteq mishaps' /\ (overlaps => kind \in mishaps')
      /\ UNCHANGED <<loans, product>>
  BY BeginTypes DEF Inv
<1>2. Types'
  BY <1>1 DEF Inv, Types
<1>3. Fits(c)'
  BY <1>1 DEF Fits, PaidOut, Out, Deciding, Holding
<1>4. call'[c].job \in Deciding \cup Holding => call'[c].about \in DOMAIN loans
  BY <1>1 DEF Deciding, Holding
<1>5. Without({"stale"})' /\ call'[c].job \in Deciding =>
        \A d \in Calls : call[d].job \in Deciding => call[d].about # call'[c].about
  BY <1>1 DEF Without, Deciding, Holding
<1>6. CallInv'
  BY <1>1, <1>3, <1>4, <1>5, StartKeeps DEF Inv
<1> QED BY <1>1, <1>2, <1>6, RestStands DEF Inv, Same

\* A step that only ends requests, and adds a loan or deletes all at most.
LEMMA RestOf ==
  ASSUME Inv, Same \/ Created \/ AllGone, Types',
         \A c \in Calls : call'[c] = call[c] \/ call'[c] = Idle,
         mishaps' = mishaps
  PROVE  Inv' /\ Stands
  BY RestKeeps, RestStands DEF Inv

LEMMA StepKeeps ==
  ASSUME Inv, [Next]_vars
  PROVE  Inv' /\ Stands
<1>0. Types /\ DOMAIN loans \subseteq Nat
  BY IndexNat DEF Inv
<1>1. CASE Tick
  <2>1. Types' BY <1>0, <1>1 DEF Tick, Types
  <2> QED BY <1>1, <2>1, RestOf DEF Tick, Same
<1>2. CASE \E b \in Borrowers : Save(b)
  <2>1. Types' BY <1>0, <1>2 DEF Save, Types
  <2> QED BY <1>2, <2>1, RestOf DEF Save, Same
<1>3. CASE EditProduct
  <2>1. Types' BY <1>0, <1>3 DEF EditProduct, Types
  <2> QED BY <1>3, <2>1, RestOf DEF EditProduct, Same
<1>4. CASE DeleteProduct
  <2>1. (\E S : loans' \in Seq(S) /\ Rows(S)) /\ AllGone
    BY <1>0, <1>4, AllDeleted DEF DeleteProduct
  <2>2. Types' BY <1>0, <1>4, <2>1 DEF DeleteProduct, Types
  <2> QED BY <1>4, <2>1, <2>2, RestOf DEF DeleteProduct
<1>5. ASSUME NEW c \in Calls, NEW b \in Borrowers, CountLoans(c, b)
      PROVE  Inv' /\ Stands
  <2> DEFINE image == [job |-> "request", about |-> b, terms |-> product]
             overlaps == \E d \in Calls : call[d].job = "request" /\ call[d].about = b
  <2>1. image \in CallRows /\ image.job = "request" /\ overlaps \in BOOLEAN /\ "crossed" \in Mishaps
    BY <1>0, <1>5 DEF CallRows, Types, Mishaps
  <2>2. Begin(c, image, "crossed", overlaps)
    BY <1>5 DEF CountLoans
  <2> HIDE DEF image, overlaps
  <2> QED BY <2>1, <2>2, BeginKeeps
<1>6. ASSUME NEW c \in Calls, CreateLoan(c)
      PROVE  Inv' /\ Stands
  <2>1. (\E S : loans' \in Seq(S) /\ Rows(S)) /\ Created
    BY <1>0, <1>6, LoanAdded DEF CreateLoan
  <2>2. Types' BY <1>0, <1>6, <2>1 DEF CreateLoan, Types, CallRows, Idle
  <2>3. \A d \in Calls : call'[d] = call[d] \/ call'[d] = Idle
    BY <1>0, <1>6 DEF CreateLoan, Types
  <2> QED BY <1>6, <2>1, <2>2, <2>3, RestOf DEF CreateLoan
<1>7. ASSUME NEW c \in Calls, NEW i \in DOMAIN loans, NEW job \in {"approve", "reject"}, ReadLoan(c, i, job)
      PROVE  Inv' /\ Stands
  <2> DEFINE image == [job |-> job, about |-> i, terms |-> NoTerms]
             overlaps == \E d \in Calls : call[d].job \in {"approve", "reject"} /\ call[d].about = i
  <2>1. /\ image \in CallRows /\ image.job \in Deciding /\ image.about = i
        /\ overlaps \in BOOLEAN /\ "stale" \in Mishaps
    BY <1>0 DEF CallRows, Mishaps, Deciding, Holding
  <2>2. Begin(c, image, "stale", overlaps) /\ loans[i].status = "PENDING"
    BY <1>7 DEF ReadLoan, Undecided
  <2>3. ~overlaps => \A d \in Calls : call[d].job \in Deciding => call[d].about # i
    BY DEF Deciding, Holding
  <2> HIDE DEF image, overlaps
  <2> QED BY <2>1, <2>2, <2>3, BeginKeeps
<1>8. ASSUME NEW c \in Calls, Approve(c) \/ Reject(c)
      PROVE  Inv' /\ Stands
  BY <1>8, SaveKeeps DEF Approve, Reject, Deciding, Holding
<1>9. ASSUME NEW c \in Calls, NEW i \in DOMAIN loans, NEW job \in Holding, ReadOut(c, i, job)
      PROVE  Inv' /\ Stands
  <2> DEFINE image == [job |-> job, about |-> i, terms |-> NoTerms]
  <2>1. image \in CallRows /\ image.job \in Holding /\ image.about = i /\ "late" \in Mishaps
    BY <1>0 DEF CallRows, Mishaps, Holding
  <2>2. Begin(c, image, "late", FALSE) /\ loans[i].status \in Out
    BY <1>9 DEF ReadOut
  <2> HIDE DEF image
  <2> QED BY <2>1, <2>2, BeginKeeps
<1>10. ASSUME NEW c \in Calls, SyncOverdue(c) \/ Repay(c)
       PROVE  Inv' /\ Stands
  BY <1>10, SaveKeeps DEF SyncOverdue, Repay, Refresh, Holding
<1>11. ASSUME NEW c \in Calls, GiveUp(c)
       PROVE  Inv' /\ Stands
  <2>1. Types' BY <1>0, <1>11 DEF GiveUp, Types, CallRows, Idle
  <2>2. \A d \in Calls : call'[d] = call[d] \/ call'[d] = Idle
    BY <1>0, <1>11 DEF GiveUp, Types
  <2> QED BY <1>11, <2>1, <2>2, RestOf DEF GiveUp, Same
<1>12. ASSUME NEW i \in DOMAIN loans, Disburse(i)
       PROVE  Inv' /\ Stands
  <2>6. (\E S : loans' \in Seq(S) /\ Rows(S)) /\ Turned(i, "ACTIVE")
    BY <1>0, <1>12, DisburseTurns
  <2>7. Types' BY <1>0, <1>12, <2>6 DEF Disburse, Types
  <2> QED BY <1>12, <2>6, <2>7, MoveKeeps DEF Disburse
<1>13. ASSUME NEW i \in DOMAIN loans, Reverse(i)
       PROVE  Inv' /\ Stands
  <2>1. /\ loans' = [loans EXCEPT ![i].status = "PAYOUT_REVERSED"] /\ loans[i].status \in Out
        /\ mishaps \subseteq mishaps' /\ (Without({"late"})' => Holders(i) = {})
    BY <1>13 DEF Reverse, NoteLate, Without, Out
  <2>2. (\E S : loans' \in Seq(S) /\ Rows(S)) /\ Turned(i, "PAYOUT_REVERSED")
    BY <1>0, <2>1, StatusSaved
  <2>3. Types' BY <1>0, <1>13, <2>2 DEF Reverse, Types
  <2> QED BY <1>13, <2>1, <2>2, <2>3, MoveKeeps DEF Reverse
<1>14. CASE UNCHANGED vars
  <2>1. Types' BY <1>0, <1>14 DEF vars, Types
  <2> QED BY <1>14, <2>1, RestOf DEF vars, Same
<1> QED
  BY <1>1, <1>2, <1>3, <1>4, <1>5, <1>6, <1>7, <1>8, <1>9, <1>10, <1>11, <1>12, <1>13, <1>14 DEF Next

LEMMA InitKeeps ==
  ASSUME Init
  PROVE  Inv
<1>1. loans \in Seq({}) /\ Rows({})
  BY DEF Init, Rows
<1>2. call \in [Calls -> CallRows]
  BY DEF Init, CallRows, Idle
<1>3. Types
  BY <1>1, <1>2 DEF Init, Types
<1>4. \A c \in Calls : call[c].job \notin Deciding \cup Holding
  BY DEF Init, Idle, Deciding, Holding
<1>5. CallInv
  BY <1>4 DEF CallInv, Fits
<1> QED BY <1>3, <1>5 DEF Inv

\* Decisions stand, for any number of borrowers, loans, requests and dates, and any
\* terms of the product.
THEOREM DecisionsStand == Spec => DecisionStands
<1>1. Init => Inv
  BY InitKeeps
<1>2. Inv /\ [Next]_vars => Inv' /\ Stands
  BY StepKeeps
<1>3. Stands => [Without({"stale"}) =>
       \A i \in DOMAIN loans :
         loans'[i].status # "deleted" =>
           /\ Final(loans[i]) => loans'[i].status = loans[i].status
           /\ PaidOut(loans[i]) => PaidOut(loans'[i])]_vars
  BY DEF Stands
<1> QED BY <1>1, <1>2, <1>3, PTL DEF Spec, DecisionStands

-----------------------------------------------------------------------------
(* The limit on loans. *)

Asks(c, b) == call[c].job = "request" /\ call[c].about = b
Orderly == Without({"crossed", "stale", "late"})

\* A request that has counted the loans leaves room for one more; as long as requests
\* of one borrower do not overlap, there is room for each.
LimitInv ==
  Orderly =>
    \A b \in Borrowers :
      /\ Cardinality(CurrentLoans(b)) <= MaxConcurrent
      /\ \A c \in Calls : Asks(c, b) => Cardinality(CurrentLoans(b)) < MaxConcurrent
      /\ \A c, d \in Calls : Asks(c, b) /\ Asks(d, b) => c = d

LEMMA LoansFinite ==
  ASSUME Types
  PROVE  /\ IsFiniteSet(DOMAIN loans) /\ Len(loans) + 1 \notin DOMAIN loans
         /\ \A b : IsFiniteSet(CurrentLoans(b)) /\ Cardinality(CurrentLoans(b)) \in Nat
<1>1. PICK S : loans \in Seq(S)
  BY DEF Types
<1>2. DOMAIN loans = 1..Len(loans) /\ Len(loans) \in Nat
  BY <1>1
<1>3. IsFiniteSet(DOMAIN loans)
  BY <1>2, FS_Interval
<1>4. ASSUME NEW b PROVE CurrentLoans(b) \in SUBSET DOMAIN loans
  BY DEF CurrentLoans
<1> QED BY <1>2, <1>3, <1>4, FS_Subset, FS_CardinalityType

\* A step that makes no loan current keeps the limit.
LEMMA FewerKeep ==
  ASSUME Types, LimitInv, Orderly' => Orderly,
         Orderly => \A b \in Borrowers : CurrentLoans(b)' \subseteq CurrentLoans(b),
         \A c \in Calls, b \in Borrowers : Asks(c, b)' => Asks(c, b)
  PROVE  LimitInv'
<1> SUFFICES ASSUME Orderly', NEW b \in Borrowers
             PROVE  /\ Cardinality(CurrentLoans(b)') <= MaxConcurrent
                    /\ \A c \in Calls : Asks(c, b)' => Cardinality(CurrentLoans(b)') < MaxConcurrent
                    /\ \A c, d \in Calls : Asks(c, b)' /\ Asks(d, b)' => c = d
  BY DEF LimitInv
<1>1. IsFiniteSet(CurrentLoans(b)) /\ CurrentLoans(b)' \in SUBSET CurrentLoans(b)
      /\ Cardinality(CurrentLoans(b)) \in Nat
  BY LoansFinite
<1>2. /\ Cardinality(CurrentLoans(b)') <= Cardinality(CurrentLoans(b))
      /\ Cardinality(CurrentLoans(b)') \in Nat
  BY <1>1, FS_Subset, FS_CardinalityType
<1>3. MaxConcurrent \in Nat
  BY LoanLifecycleAssumptions
<1> QED BY <1>1, <1>2, <1>3 DEF LimitInv

LEMMA MishapsGrow ==
  ASSUME [Next]_vars
  PROVE  mishaps \subseteq mishaps'
  BY DEF Next, vars, Tick, Save, EditProduct, DeleteProduct, Begin, CountLoans, CreateLoan,
         ReadLoan, NoteLate, SaveStatus, Approve, Reject, ReadOut, Refresh, SyncOverdue, Repay,
         GiveUp, Disburse, Reverse

LEMMA LimitNext ==
  ASSUME Inv, LimitInv, [Next]_vars
  PROVE  LimitInv'
<1>t. Types /\ call \in [Calls -> CallRows] /\ DOMAIN loans \subseteq Nat
  BY IndexNat DEF Inv, Types
<1>m. Orderly' => Orderly
  BY MishapsGrow, Quieter DEF Orderly
\* Requests that end, or begin something else.
<1>c. ASSUME NEW c \in Calls, call' = [call EXCEPT ![c] = Idle]
      PROVE  \A d \in Calls, b \in Borrowers : Asks(d, b)' => Asks(d, b) /\ d # c
  BY <1>t, <1>c DEF Asks, Idle
<1>s. ASSUME UNCHANGED loans
      PROVE  \A b \in Borrowers : CurrentLoans(b)' = CurrentLoans(b)
  BY <1>s DEF CurrentLoans
<1>0. ASSUME UNCHANGED <<loans, call>> PROVE LimitInv'
  <2>1. \A d \in Calls, b \in Borrowers : Asks(d, b)' => Asks(d, b)
    BY <1>0 DEF Asks
  <2> QED BY <1>t, <1>m, <1>s, <1>0, <2>1, FewerKeep
\* One loan changes its status.
<1>i. ASSUME NEW i \in DOMAIN loans, NEW status, Turned(i, status),
             Orderly /\ status \in Current => loans[i].status \in Current,
             \A d \in Calls, b \in Borrowers : Asks(d, b)' => Asks(d, b)
      PROVE  LimitInv'
  <2>1. Orderly => \A b \in Borrowers : CurrentLoans(b)' \subseteq CurrentLoans(b)
    BY <1>i DEF Turned, CurrentLoans
  <2> QED BY <1>t, <1>m, <1>i, <2>1, FewerKeep
<1>b. ASSUME NEW c \in Calls, NEW image \in CallRows, NEW kind \in Mishaps, NEW overlaps \in BOOLEAN,
             Begin(c, image, kind, overlaps), image.job # "request"
      PROVE  LimitInv'
  <2>1. \A d \in Calls, b \in Borrowers : Asks(d, b)' => Asks(d, b)
    BY <1>t, <1>b, BeginTypes DEF Asks
  <2>2. UNCHANGED loans
    BY <1>b DEF Begin
  <2> QED BY <1>t, <1>m, <1>s, <2>1, <2>2, FewerKeep
<1>1. CASE Tick \/ (\E b \in Borrowers : Save(b)) \/ EditProduct
  BY <1>0, <1>1 DEF Tick, Save, EditProduct
<1>2. CASE DeleteProduct
  <2>1. AllGone /\ call' = call
    BY <1>t, <1>2, AllDeleted DEF DeleteProduct
  <2>2. \A b \in Borrowers : CurrentLoans(b)' \subseteq CurrentLoans(b)
    BY <2>1 DEF AllGone, CurrentLoans, Current
  <2>3. \A d \in Calls, b \in Borrowers : Asks(d, b)' => Asks(d, b)
    BY <2>1 DEF Asks
  <2> QED BY <1>t, <1>m, <2>2, <2>3, FewerKeep
<1>3. ASSUME NEW c \in Calls, NEW b \in Borrowers, CountLoans(c, b)
      PROVE  LimitInv'
  <2> DEFINE image == [job |-> "request", about |-> b, terms |-> product]
             overlaps == \E d \in Calls : call[d].job = "request" /\ call[d].about = b
  <2>1. image \in CallRows /\ overlaps \in BOOLEAN /\ "crossed" \in Mishaps
        /\ image.job = "request" /\ image.about = b
    BY <1>t, <1>3 DEF CallRows, Types, Mishaps
  <2>2. Begin(c, image, "crossed", overlaps) /\ Cardinality(CurrentLoans(b)) < MaxConcurrent
    BY <1>3 DEF CountLoans
  <2>3. overlaps <=> \E d \in Calls : Asks(d, b)
    BY DEF Asks
  <2> HIDE DEF image, overlaps
  <2>4. /\ call'[c] = image /\ \A d \in Calls : d # c => call'[d] = call[d]
        /\ overlaps => "crossed" \in mishaps'
        /\ UNCHANGED loans
    BY <1>t, <2>1, <2>2, BeginTypes
  <2>5. ASSUME NEW d \in Calls, NEW e \in Borrowers
        PROVE  Asks(d, e)' <=> IF d = c THEN e = b ELSE Asks(d, e)
    BY <2>1, <2>4 DEF Asks
  <2>6. Orderly' => ~overlaps
    BY <2>4 DEF Orderly, Without
  <2>7. \A e \in Borrowers : CurrentLoans(e)' = CurrentLoans(e)
    BY <1>s, <2>4
  <2>8. ASSUME Orderly', NEW e \in Borrowers
        PROVE  /\ Cardinality(CurrentLoans(e)') <= MaxConcurrent
               /\ \A d \in Calls : Asks(d, e)' => Cardinality(CurrentLoans(e)') < MaxConcurrent
               /\ \A d, f \in Calls : Asks(d, e)' /\ Asks(f, e)' => d = f
    BY <1>m, <2>2, <2>3, <2>5, <2>6, <2>7, <2>8 DEF LimitInv
  <2> QED BY <2>8 DEF LimitInv
<1>4. ASSUME NEW c \in Calls, CreateLoan(c)
      PROVE  LimitInv'
  <2> DEFINE row == Requested(call[c].about, call[c].terms)
             n == Len(loans) + 1
  <2>1. PICK S : loans \in Seq(S)
    BY <1>t DEF Types
  <2>2. row.borrower = call[c].about
    BY DEF Requested
  <2>3. loans' = Append(loans, row) /\ call' = [call EXCEPT ![c] = Idle] /\ call[c].job = "request"
    BY <1>4 DEF CreateLoan
  <2> HIDE DEF row
  <2>4. /\ DOMAIN loans' = DOMAIN loans \cup {n} /\ n \notin DOMAIN loans
        /\ loans'[n].borrower = call[c].about
        /\ \A i \in DOMAIN loans : loans'[i] = loans[i]
    BY <2>1, <2>2, <2>3
  <2> HIDE DEF n
  <2>5. ASSUME NEW b \in Borrowers, b # call[c].about PROVE CurrentLoans(b)' = CurrentLoans(b)
    BY <2>4, <2>5 DEF CurrentLoans
  <2>6. ASSUME NEW b \in Borrowers PROVE CurrentLoans(b)' \subseteq CurrentLoans(b) \cup {n}
    BY <2>4 DEF CurrentLoans
  <2>7. ASSUME Orderly', NEW b \in Borrowers
        PROVE  /\ Cardinality(CurrentLoans(b)') <= MaxConcurrent
               /\ \A d \in Calls : Asks(d, b)' => Cardinality(CurrentLoans(b)') < MaxConcurrent
               /\ \A d, e \in Calls : Asks(d, b)' /\ Asks(e, b)' => d = e
    <3>1. \A d \in Calls : Asks(d, b)' => Asks(d, b) /\ d # c
      BY <1>c, <2>3
    <3>2. CASE b # call[c].about
      BY <1>m, <2>5, <2>7, <3>1, <3>2 DEF LimitInv
    <3>3. CASE b = call[c].about
      <4>1. Asks(c, b)
        BY <2>3, <3>3 DEF Asks
      <4>2. /\ Cardinality(CurrentLoans(b)) < MaxConcurrent
            /\ \A d \in Calls : ~(Asks(d, b)')
        BY <1>m, <2>7, <3>1, <4>1 DEF LimitInv
      <4>3. /\ IsFiniteSet(CurrentLoans(b) \cup {n})
            /\ Cardinality(CurrentLoans(b) \cup {n}) <= Cardinality(CurrentLoans(b)) + 1
            /\ Cardinality(CurrentLoans(b)) \in Nat /\ Cardinality(CurrentLoans(b) \cup {n}) \in Nat
        <5>1. IsFiniteSet(CurrentLoans(b)) /\ Cardinality(CurrentLoans(b)) \in Nat
          BY <1>t, LoansFinite
        <5> HIDE DEF CurrentLoans
        <5>2. /\ IsFiniteSet(CurrentLoans(b) \cup {n})
              /\ Cardinality(CurrentLoans(b) \cup {n}) =
                   IF n \in CurrentLoans(b) THEN Cardinality(CurrentLoans(b))
                   ELSE Cardinality(CurrentLoans(b)) + 1
          BY ONLY <5>1, FS_AddElement
        <5> QED BY ONLY <5>1, <5>2
      <4>4. /\ Cardinality(CurrentLoans(b)') <= Cardinality(CurrentLoans(b) \cup {n})
            /\ Cardinality(CurrentLoans(b)') \in Nat
        BY <2>6, <4>3, FS_Subset, FS_CardinalityType
      <4>5. MaxConcurrent \in Nat
        BY LoanLifecycleAssumptions
      <4>6. Cardinality(CurrentLoans(b)') <= MaxConcurrent
        BY <4>2, <4>3, <4>4, <4>5
      <4> QED BY <4>2, <4>6
    <3> QED BY <3>2, <3>3
  <2> QED BY <2>7 DEF LimitInv
<1>5. ASSUME NEW c \in Calls, NEW i \in DOMAIN loans, NEW job \in {"approve", "reject"}, ReadLoan(c, i, job)
      PROVE  LimitInv'
  <2> DEFINE image == [job |-> job, about |-> i, terms |-> NoTerms]
             overlaps == \E d \in Calls : call[d].job \in {"approve", "reject"} /\ call[d].about = i
  <2>1. image \in CallRows /\ image.job # "request" /\ overlaps \in BOOLEAN /\ "stale" \in Mishaps
    BY <1>t DEF CallRows, Mishaps
  <2>2. Begin(c, image, "stale", overlaps)
    BY <1>5 DEF ReadLoan
  <2> HIDE DEF image, overlaps
  <2> QED BY <1>b, <2>1, <2>2
<1>6. ASSUME NEW c \in Calls, NEW i \in DOMAIN loans, NEW job \in Holding, ReadOut(c, i, job)
      PROVE  LimitInv'
  <2> DEFINE image == [job |-> job, about |-> i, terms |-> NoTerms]
  <2>1. image \in CallRows /\ image.job # "request" /\ "late" \in Mishaps
    BY <1>t DEF CallRows, Mishaps, Holding
  <2>2. Begin(c, image, "late", FALSE)
    BY <1>6 DEF ReadOut
  <2> HIDE DEF image
  <2> QED BY <1>b, <2>1, <2>2
\* A decision is about an undecided loan, a repayment or the overdue job about one
\* that is out: both are counted.
<1>7. ASSUME NEW c \in Calls, NEW status, SaveStatus(c, status),
             \/ call[c].job \in Deciding
             \/ call[c].job \in Holding
      PROVE  LimitInv'
  <2> DEFINE i == call[c].about
  <2>1. i \in DOMAIN loans /\ loans[i].status # "deleted"
    BY <1>7 DEF Inv, CallInv, SaveStatus, Live
  <2>2. Turned(i, status) /\ call' = [call EXCEPT ![c] = Idle]
    BY <1>t, <1>7, <2>1, StatusSaved DEF SaveStatus
  <2>3. Orderly => loans[i].status \in Current
    BY <1>7, <2>1 DEF Inv, CallInv, Fits, Orderly, Without, Current, Out, Deciding, Holding
  <2> QED BY <1>c, <1>i, <2>1, <2>2, <2>3
<1>8. ASSUME NEW c \in Calls, Approve(c) \/ Reject(c) \/ SyncOverdue(c) \/ Repay(c)
      PROVE  LimitInv'
  BY <1>7, <1>8 DEF Approve, Reject, SyncOverdue, Repay, Refresh, Deciding, Holding
<1>9. ASSUME NEW c \in Calls, GiveUp(c)
      PROVE  LimitInv'
  <2>1. call' = [call EXCEPT ![c] = Idle] /\ UNCHANGED loans
    BY <1>9 DEF GiveUp
  <2> QED BY <1>t, <1>m, <1>c, <1>s, <2>1, FewerKeep
<1>10. ASSUME NEW i \in DOMAIN loans, Disburse(i)
       PROVE  LimitInv'
  <2>1. Turned(i, "ACTIVE")
    BY <1>t, <1>10, DisburseTurns
  <2>2. call' = call /\ loans[i].status = "APPROVED"
    BY <1>10 DEF Disburse
  <2>3. \A d \in Calls, b \in Borrowers : Asks(d, b)' => Asks(d, b)
    BY <2>2 DEF Asks
  <2> QED BY <1>i, <2>1, <2>2, <2>3 DEF Current
<1>11. ASSUME NEW i \in DOMAIN loans, Reverse(i)
       PROVE  LimitInv'
  <2>1. Turned(i, "PAYOUT_REVERSED")
    BY <1>t, <1>11, StatusSaved DEF Reverse
  <2>2. call' = call /\ "PAYOUT_REVERSED" \notin Current
    BY <1>11 DEF Reverse, Current
  <2>3. \A d \in Calls, b \in Borrowers : Asks(d, b)' => Asks(d, b)
    BY <2>2 DEF Asks
  <2> QED BY <1>i, <2>1, <2>2, <2>3
<1>12. CASE UNCHANGED vars
  BY <1>0, <1>12 DEF vars
<1> QED
  BY <1>1, <1>2, <1>3, <1>4, <1>5, <1>6, <1>8, <1>9, <1>10, <1>11, <1>12 DEF Next

\* No borrower has more current loans than the group allows, unless requests or
\* decisions overlapped, or a repayment or overdue job had read a loan that was
\* reversed or paid off since (request_loan).
THEOREM LimitStands == Spec => []LimitKept
<1>1. Init => Inv /\ LimitInv
  <2> SUFFICES ASSUME Init PROVE LimitInv
    BY InitKeeps
  <2>1. \A b \in Borrowers : CurrentLoans(b) = {} /\ \A c \in Calls : ~Asks(c, b)
    BY DEF Init, CurrentLoans, Asks, Idle
  <2> QED BY <2>1, FS_EmptySet, LoanLifecycleAssumptions DEF LimitInv
<1>2. Inv /\ LimitInv /\ [Next]_vars => Inv' /\ LimitInv'
  BY StepKeeps, LimitNext
<1>3. LimitInv => LimitKept
  BY DEF LimitInv, LimitKept, Orderly
<1> QED BY <1>1, <1>2, <1>3, PTL DEF Spec

-----------------------------------------------------------------------------
(* The calendar. *)

LEMMA DaysInType == \A m \in Nat : DaysIn(m) \in 28..31
  BY DEF DaysIn

LEMMA MonthsNat == LastMonth \in Nat /\ Months \subseteq Nat /\ LastMonth \in Months
                   /\ 0 \in Months
  BY LoanTermsAssumptions DEF Months

\* A month begins where the one before it ends.
LEMMA FirstStep ==
  /\ \A m \in Months : FirstDay[m] \in Nat
  /\ FirstDay[0] = 0
  /\ \A m \in Months : m + 1 \in Months => FirstDay[m + 1] = FirstDay[m] + DaysIn(m)
<1>l. \A m \in Months : Lengths[m] = DaysIn(m) /\ Lengths[m] \in Nat
  BY DaysInType, MonthsNat DEF Lengths
<1>f. \A m \in Months : FirstDay[m] = SumFunctionOnSet(Lengths, 0..(m - 1))
  BY DEF FirstDay
<1>s. ASSUME NEW m \in Months PROVE IsFiniteSet(0..(m - 1)) /\ 0..(m - 1) \subseteq Months
  <2>1. 0 \in Int /\ m - 1 \in Int
    BY MonthsNat
  <2>2. 0..(m - 1) \subseteq Months
    BY MonthsNat DEF Months
  <2> QED BY <2>1, <2>2, FS_Interval
<1>1. ASSUME NEW m \in Months PROVE FirstDay[m] \in Nat
  <2> DEFINE S == 0..(m - 1)
  <2>1. IsFiniteSet(S) /\ \A x \in S : Lengths[x] \in Nat
    BY <1>l, <1>s
  <2> HIDE DEF S
  <2>2. SumFunctionOnSet(Lengths, S) \in Nat
    BY ONLY <2>1, SumNat
  <2> QED BY <1>f, <2>2 DEF S
<1>2. FirstDay[0] = 0
  <2>1. 0..(0 - 1) = {}
    OBVIOUS
  <2>2. FirstDay[0] = SumFunctionOnSet(Lengths, {})
    BY <1>f, <2>1, MonthsNat, Zenon
  <2> QED BY <2>2, SumEmpty
<1>3. ASSUME NEW m \in Months, m + 1 \in Months
      PROVE  FirstDay[m + 1] = FirstDay[m] + DaysIn(m)
  <2> DEFINE S == 0..(m - 1)
  <2>1. IsFiniteSet(S) /\ (\A x \in S : Lengths[x] \in Int) /\ m \notin S /\ Lengths[m] \in Int
    <3>1. IsFiniteSet(S) /\ S \subseteq Months
      BY <1>s
    <3>2. m \notin S
      BY MonthsNat
    <3> QED BY <1>l, <3>1, <3>2
  <2>2. 0..((m + 1) - 1) = S \cup {m}
    BY MonthsNat
  <2> HIDE DEF S
  <2>3. SumFunctionOnSet(Lengths, S \cup {m}) = SumFunctionOnSet(Lengths, S) + Lengths[m]
    BY ONLY <2>1, SumAdd
  <2>4. FirstDay[m + 1] = SumFunctionOnSet(Lengths, S \cup {m})
    BY <1>f, <1>3, <2>2, Zenon
  <2>5. FirstDay[m] = SumFunctionOnSet(Lengths, S)
    BY <1>f DEF S
  <2> QED BY <1>l, <2>3, <2>4, <2>5
<1> QED BY <1>1, <1>2, <1>3

LEMMA FirstGrows ==
  ASSUME NEW m \in Months, NEW p \in Months, m < p
  PROVE  FirstDay[m] + DaysIn(m) <= FirstDay[p]
<1> DEFINE Q == {k \in Nat : k \in Months /\ m < k => FirstDay[m] + DaysIn(m) <= FirstDay[k]}
<1>1. 0 \in Q
  BY MonthsNat
<1>2. ASSUME NEW k \in Nat, k \in Q PROVE k + 1 \in Q
  <2> SUFFICES ASSUME k + 1 \in Months, m < k + 1
               PROVE  FirstDay[m] + DaysIn(m) <= FirstDay[k + 1]
    OBVIOUS
  <2>1. k \in Months /\ (k = m \/ m < k)
    BY MonthsNat DEF Months
  <2>2. FirstDay[k + 1] = FirstDay[k] + DaysIn(k)
    BY <2>1, FirstStep
  <2>3. DaysIn(k) \in Nat /\ DaysIn(m) \in Nat /\ FirstDay[k] \in Nat /\ FirstDay[m] \in Nat
    BY <2>1, MonthsNat, DaysInType, FirstStep
  <2> QED BY <1>2, <2>1, <2>2, <2>3
<1> HIDE DEF Q
<1>3. Nat \subseteq Q
  BY <1>1, <1>2, Induction
<1> QED BY <1>3, MonthsNat DEF Q

\* Every day of the calendar is in one of its months.
LEMMA MonthOf ==
  ASSUME NEW o \in Nat, 0 < o, o <= FirstDay[LastMonth] + DaysIn(LastMonth)
  PROVE  \E m \in Months : FirstDay[m] < o /\ o <= FirstDay[m] + DaysIn(m)
<1> DEFINE T == {m \in Months : o <= FirstDay[m] + DaysIn(m)}
<1>1. T \subseteq Nat /\ T # {}
  BY MonthsNat
<1> HIDE DEF T
<1>2. PICK m \in T : \A k \in T : m <= k
  BY <1>1, LeastNumber
<1>3. m \in Months /\ o <= FirstDay[m] + DaysIn(m)
  BY DEF T
<1>4. CASE m = 0
  BY <1>3, <1>4, FirstStep
<1>5. CASE m # 0
  <2>1. m - 1 \in Months /\ m - 1 \notin T /\ m = (m - 1) + 1
    BY <1>2, <1>3, <1>5, MonthsNat DEF Months
  <2>2. ~(o <= FirstDay[m - 1] + DaysIn(m - 1))
    BY <2>1 DEF T
  <2>3. FirstDay[m] = FirstDay[m - 1] + DaysIn(m - 1)
    BY <1>3, <2>1, FirstStep, Zenon
  <2>4. FirstDay[m] \in Nat
    BY <1>3, FirstStep
  <2> QED BY <1>3, <2>2, <2>3, <2>4
<1> QED BY <1>4, <1>5

LEMMA DateFields ==
  ASSUME NEW d \in Dates
  PROVE  /\ d.month \in Months /\ d.day \in 1..31 /\ d.day <= DaysIn(d.month)
         /\ Ordinal(d) \in Nat /\ Ordinal(d) = FirstDay[d.month] + d.day
         /\ 0 < Ordinal(d)
<1>1. d.month \in Months /\ d.day \in 1..31 /\ d.day <= DaysIn(d.month)
  BY DEF Dates
<1>2. FirstDay[d.month] \in Nat
  BY <1>1, FirstStep
<1> QED BY <1>1, <1>2 DEF Ordinal

LEMMA IsDate ==
  ASSUME NEW m \in Months, NEW k \in Nat, 0 < k, k <= DaysIn(m)
  PROVE  [month |-> m, day |-> k] \in Dates
<1>1. k \in 1..31
  BY DaysInType, MonthsNat
<1> QED BY <1>1 DEF Dates

\* Adding days gives the date that many days later, if the calendar has it.
LEMMA AddDaysDate ==
  ASSUME NEW d \in Dates, NEW n \in Nat, Ordinal(d) + n <= Ordinal(LastDay)
  PROVE  AddDays(d, n) \in Dates /\ Ordinal(AddDays(d, n)) = Ordinal(d) + n
<1> DEFINE o == Ordinal(d) + n
           P(m) == FirstDay[m] < o /\ o <= FirstDay[m] + DaysIn(m)
           m == CHOOSE m \in Months : P(m)
<1>1. o \in Nat /\ 0 < o
  BY DateFields
<1>2. Ordinal(LastDay) = FirstDay[LastMonth] + DaysIn(LastMonth)
  BY DEF Ordinal, LastDay
<1>3. \E k \in Months : P(k)
  <2> HIDE DEF o
  <2>1. o <= FirstDay[LastMonth] + DaysIn(LastMonth)
    BY <1>2 DEF o
  <2> QED BY <1>1, <2>1, MonthOf
<1>4. m \in Months /\ FirstDay[m] < o /\ o <= FirstDay[m] + DaysIn(m)
  <2> HIDE DEF P
  <2>1. m \in Months /\ P(m)
    BY <1>3
  <2> QED BY <2>1 DEF P
<1>5. AddDays(d, n) = [month |-> m, day |-> o - FirstDay[m]]
  BY DEF AddDays
<1> HIDE DEF m, o
<1>6. FirstDay[m] \in Nat /\ DaysIn(m) \in Nat
  BY <1>4, FirstStep, DaysInType, MonthsNat
<1>7. AddDays(d, n) \in Dates
  BY <1>1, <1>4, <1>5, <1>6, IsDate
<1>8. Ordinal(AddDays(d, n)) = o
  BY <1>1, <1>5, <1>6 DEF Ordinal
<1> QED BY <1>7, <1>8 DEF o

LEMMA OrdinalOrder ==
  ASSUME NEW d \in Dates, NEW e \in Dates, Ordinal(d) < Ordinal(e)
  PROVE  Before(d, e)
<1>1. /\ d.month \in Nat /\ e.month \in Nat /\ d.day \in Nat /\ e.day \in Nat
      /\ FirstDay[d.month] \in Nat /\ FirstDay[e.month] \in Nat
  <2>1. /\ d.month \in Months /\ d.day \in 1..31
        /\ e.month \in Months /\ e.day \in 1..31
    BY DateFields
  <2>2. FirstDay[d.month] \in Nat /\ FirstDay[e.month] \in Nat
    BY <2>1, FirstStep
  <2>3. d.month \in Nat /\ e.month \in Nat
    BY ONLY <2>1, MonthsNat
  <2>4. d.day \in Nat /\ e.day \in Nat
    BY ONLY <2>1
  <2> QED BY ONLY <2>2, <2>3, <2>4
<1>2. CASE d.month < e.month
  BY <1>2 DEF Before
<1>3. CASE d.month = e.month
  BY <1>1, <1>3, DateFields DEF Before
<1>4. CASE e.month < d.month
  <2>1. FirstDay[e.month] + DaysIn(e.month) <= FirstDay[d.month]
    BY <1>4, DateFields, FirstGrows
  <2>2. DaysIn(e.month) \in Nat
    BY <1>1, DaysInType
  <2>3. Ordinal(e) <= FirstDay[e.month] + DaysIn(e.month)
    BY <1>1, <2>2, DateFields
  <2> QED BY <1>1, <2>1, <2>2, <2>3, DateFields
<1> QED BY <1>1, <1>2, <1>3, <1>4

\* Adding months clips the day to the month.
LEMMA AddMonthsDate ==
  ASSUME NEW d \in Dates, NEW n \in Nat, d.month + n <= LastMonth
  PROVE  AddMonths(d, n) \in Dates /\ AddMonths(d, n).month = d.month + n
<1>1. d.month + n \in Months /\ d.month \in Nat /\ d.day \in Nat /\ 0 < d.day
  BY DateFields, MonthsNat DEF Months
<1>2. DaysIn(d.month + n) \in 28..31
  BY <1>1, DaysInType
<1> DEFINE k == IF d.day <= DaysIn(d.month + n) THEN d.day ELSE DaysIn(d.month + n)
<1>3. k \in Nat /\ 0 < k /\ k <= DaysIn(d.month + n)
  BY <1>1, <1>2
<1>4. AddMonths(d, n) = [month |-> d.month + n, day |-> k]
  BY DEF AddMonths
<1> HIDE DEF k
<1> QED BY <1>1, <1>3, <1>4, IsDate

\* Terms that the calendar reaches fall due on dates, one after the other.
LEMMA DueDates ==
  ASSUME NEW d \in Dates, NEW t \in Terms, Reaches(d, t), NEW k \in 0..InstallmentCount(t)
  PROVE  /\ After(d, t.unit, k) \in Dates
         /\ k < InstallmentCount(t) => Before(After(d, t.unit, k), After(d, t.unit, k + 1))
<1> DEFINE n == InstallmentCount(t)
<1>1. n \in Nat /\ k \in Nat /\ k <= n /\ t.unit \in Units
  BY DEF InstallmentCount, Terms
<1>2. Ordinal(d) \in Nat /\ d.month \in Nat /\ Ordinal(LastDay) \in Nat
  <2>1. LastDay \in Dates
    <3>1. DaysIn(LastMonth) \in 28..31
      BY MonthsNat, DaysInType
    <3> QED BY <3>1, MonthsNat, IsDate DEF LastDay
  <2> QED BY <2>1, DateFields, MonthsNat
<1> HIDE DEF n
<1>3. CASE t.unit = "DAYS"
  <2>1. \A j \in Nat : After(d, t.unit, j) = AddDays(d, j)
    BY <1>3 DEF After
  <2>2. Ordinal(d) + n <= Ordinal(LastDay)
    BY <1>3 DEF Reaches, n
  <2>3. \A j \in Nat : j <= n =>
          AddDays(d, j) \in Dates /\ Ordinal(AddDays(d, j)) = Ordinal(d) + j
    BY <1>1, <1>2, <2>2, AddDaysDate
  <2>4. ASSUME k < n PROVE Before(AddDays(d, k), AddDays(d, k + 1))
    <3>1. /\ AddDays(d, k) \in Dates /\ AddDays(d, k + 1) \in Dates
          /\ Ordinal(AddDays(d, k)) < Ordinal(AddDays(d, k + 1))
      BY <1>1, <1>2, <2>3, <2>4
    <3> QED BY <3>1, OrdinalOrder
  <2> QED BY <1>1, <2>1, <2>3, <2>4 DEF n
<1>4. CASE t.unit = "WEEKS"
  <2>1. \A j \in Nat : After(d, t.unit, j) = AddDays(d, 7 * j)
    BY <1>4 DEF After
  <2>2. Ordinal(d) + 7 * n <= Ordinal(LastDay)
    BY <1>4 DEF Reaches, n
  <2>3. ASSUME NEW j \in Nat, j <= n
        PROVE  AddDays(d, 7 * j) \in Dates /\ Ordinal(AddDays(d, 7 * j)) = Ordinal(d) + 7 * j
    <3>1. 7 * j \in Nat /\ Ordinal(d) + 7 * j <= Ordinal(LastDay)
      BY <1>1, <1>2, <2>2, <2>3
    <3> QED BY <3>1, AddDaysDate
  <2>4. ASSUME k < n PROVE Before(AddDays(d, 7 * k), AddDays(d, 7 * (k + 1)))
    <3>1. /\ AddDays(d, 7 * k) \in Dates /\ AddDays(d, 7 * (k + 1)) \in Dates
          /\ Ordinal(AddDays(d, 7 * k)) = Ordinal(d) + 7 * k
          /\ Ordinal(AddDays(d, 7 * (k + 1))) = Ordinal(d) + 7 * (k + 1)
      <4>1. k + 1 \in Nat /\ k + 1 <= n /\ k \in Nat /\ k <= n
        BY <1>1, <2>4
      <4> HIDE DEF Ordinal, AddDays
      <4> QED BY ONLY <4>1, <2>3
    <3>2. Ordinal(AddDays(d, 7 * k)) < Ordinal(AddDays(d, 7 * (k + 1)))
      BY <1>1, <1>2, <3>1
    <3> QED BY <3>1, <3>2, OrdinalOrder
  <2> QED BY <1>1, <2>1, <2>3, <2>4 DEF n
<1>5. CASE t.unit = "MONTHS"
  <2>1. \A j \in Nat : After(d, t.unit, j) = AddMonths(d, j)
    BY <1>5 DEF After
  <2>2. d.month + n <= LastMonth
    BY <1>5 DEF Reaches, n
  <2>3. \A j \in Nat : j <= n =>
          AddMonths(d, j) \in Dates /\ AddMonths(d, j).month = d.month + j
    BY <1>1, <1>2, <2>2, AddMonthsDate, MonthsNat
  <2>4. ASSUME k < n PROVE Before(AddMonths(d, k), AddMonths(d, k + 1))
    <3>1. AddMonths(d, k).month < AddMonths(d, k + 1).month
      BY <1>1, <1>2, <2>3, <2>4
    <3> QED BY <3>1 DEF Before
  <2> QED BY <1>1, <2>1, <2>3, <2>4 DEF n
<1> QED BY <1>1, <1>3, <1>4, <1>5 DEF Units

-----------------------------------------------------------------------------
(* Rounding. *)

LEMMA Division ==
  ASSUME NEW a \in Nat, NEW b \in Nat \ {0}
  PROVE  /\ a \div b \in Nat /\ a % b \in Nat /\ a % b < b
         /\ a = b * (a \div b) + (a % b)
  OBVIOUS

\* To the nearest: off by half a unit at most.
LEMMA RoundNear ==
  ASSUME NEW a \in Nat, NEW b \in Nat \ {0}
  PROVE  Round(a, b) \in Nat /\ 2 * (b * Round(a, b)) <= 2 * a + b
<1> DEFINE q == a \div b
           r == a % b
<1>1. q \in Nat /\ r \in Nat /\ r < b /\ a = b * q + r
  BY Division
<1>2. Round(a, b) = IF 2 * r > b \/ (2 * r = b /\ q % 2 = 1) THEN q + 1 ELSE q
  BY DEF Round
<1> HIDE DEF q, r
<1>3. CASE Round(a, b) = q
  BY <1>1, <1>3
<1>4. CASE Round(a, b) = q + 1 /\ 2 * r >= b
  <2>1. b * (q + 1) = b * q + b
    BY <1>1
  <2> QED BY <1>1, <1>4, <2>1
<1> QED BY <1>1, <1>2, <1>3, <1>4

\* The shares of all but the last never exceed the total, unless they are so small
\* that the rounding of n - 1 of them outweighs one.
LEMMA ShareFits ==
  ASSUME NEW T \in Nat, NEW n \in Nat \ {0}, 2 * T >= n * (n - 1)
  PROVE  (n - 1) * Share(T, n) <= T
<1> DEFINE s == Share(T, n)
<1>1. s \in Nat /\ 2 * (n * s) <= 2 * T + n
  BY RoundNear DEF Share
<1> HIDE DEF s
<1>2. SUFFICES ASSUME T + 1 <= (n - 1) * s PROVE FALSE
  <2>1. (n - 1) * s \in Int
    BY <1>1
  <2> QED BY <1>1, <1>2, <2>1 DEF s
<1>3. (n - 1) * s = n * s - s
  BY <1>1
<1>4. 2 * s + 2 <= n
  BY <1>1, <1>2, <1>3
<1>5. (n - 1) * (2 * s + 2) <= (n - 1) * n
  <2>1. n - 1 \in Nat /\ 2 * s + 2 \in Nat
    BY <1>1
  <2> QED BY <1>4, <2>1
<1>6. (n - 1) * (2 * s + 2) = 2 * ((n - 1) * s) + 2 * (n - 1)
  BY <1>1
<1>7. n * (n - 1) = (n - 1) * n
  OBVIOUS
<1> QED BY <1>1, <1>2, <1>5, <1>6, <1>7

LEMMA AmountType ==
  ASSUME NEW T \in Nat, NEW n \in Nat \ {0}, NEW i \in 1..n
  PROVE  /\ AmountDue(T, n, i) \in Int
         /\ 2 * T >= n * (n - 1) => AmountDue(T, n, i) >= 0
<1>1. Share(T, n) \in Nat
  BY RoundNear DEF Share
<1>2. (n - 1) * Share(T, n) \in Int
  BY <1>1
<1>3. 2 * T >= n * (n - 1) => (n - 1) * Share(T, n) <= T
  BY ShareFits
<1> HIDE DEF Share
<1> DEFINE p == (n - 1) * Share(T, n)
<1>4. AmountDue(T, n, i) = IF i = n THEN T - p ELSE Share(T, n)
  BY DEF AmountDue
<1> HIDE DEF p
<1>5. p \in Int /\ (2 * T >= n * (n - 1) => p <= T)
  BY <1>2, <1>3 DEF p
<1> QED BY <1>1, <1>4, <1>5

\* The last installment takes what the rounding of the others left.
LEMMA AmountsAddUp ==
  ASSUME NEW T \in Nat, NEW n \in Nat \ {0}, NEW f,
         \A i \in 1..n : f[i] = AmountDue(T, n, i)
  PROVE  SumFunctionOnSet(f, 1..n) = T
<1> DEFINE s == Share(T, n)
           Sum(j) == SumFunctionOnSet(f, 1..j)
           Q == {j \in Nat : j < n => Sum(j) = j * s}
<1>1. s \in Nat
  BY RoundNear DEF Share
<1>2. \A i \in 1..(n - 1) : f[i] = s
  BY DEF AmountDue
<1>3. f[n] = T - (n - 1) * s
  BY DEF AmountDue
<1> HIDE DEF s
<1>4. ASSUME NEW j \in Nat, j < n, f[j + 1] \in Int
      PROVE  Sum(j + 1) = Sum(j) + f[j + 1]
  <2> DEFINE S == 1..j
             y == j + 1
  <2>1. IsFiniteSet(S)
    BY FS_Interval
  <2>2. (\A x \in S : f[x] \in Int) /\ y \notin S /\ f[y] \in Int
    BY <1>1, <1>2, <1>4
  <2>3. 1..y = S \cup {y}
    OBVIOUS
  <2> HIDE DEF S, y
  <2>4. SumFunctionOnSet(f, S \cup {y}) = SumFunctionOnSet(f, S) + f[y]
    BY ONLY <2>1, <2>2, SumAdd
  <2>5. SumFunctionOnSet(f, 1..y) = SumFunctionOnSet(f, S) + f[y]
    BY ONLY <2>3, <2>4, Zenon
  <2> QED BY <2>5 DEF S, y
<1>5. 0 \in Q
  <2>1. 1..0 = {}
    OBVIOUS
  <2>2. Sum(0) = SumFunctionOnSet(f, {})
    BY <2>1, Zenon
  <2>3. 0 * s = 0
    BY <1>1
  <2> QED BY <2>2, <2>3, SumEmpty
<1>6. ASSUME NEW j \in Nat, j \in Q PROVE j + 1 \in Q
  <2> SUFFICES ASSUME j + 1 < n PROVE Sum(j + 1) = (j + 1) * s
    OBVIOUS
  <2>1. f[j + 1] = s /\ j < n
    BY <1>2
  <2>2. Sum(j + 1) = Sum(j) + f[j + 1] /\ Sum(j) = j * s
    BY <1>1, <1>4, <1>6, <2>1
  <2>3. (j + 1) * s = j * s + s
    BY <1>1
  <2> HIDE DEF Sum
  <2> QED BY <2>1, <2>2, <2>3
<1> HIDE DEF Q
<1>7. Nat \subseteq Q
  BY <1>5, <1>6, Induction
<1>8. Sum(n - 1) = (n - 1) * s
  BY <1>7 DEF Q
<1>9. (n - 1) * s \in Int
  BY <1>1
<1>10. n - 1 \in Nat /\ n - 1 < n /\ (n - 1) + 1 = n /\ f[n] \in Int
  BY <1>3, <1>9
<1>11. Sum(n) = Sum(n - 1) + f[n]
  <2>1. Sum((n - 1) + 1) = Sum(n - 1) + f[(n - 1) + 1]
    <3> HIDE DEF Sum
    <3>1. f[(n - 1) + 1] \in Int
      BY <1>10
    <3> QED BY <1>4, <1>10, <3>1
  <2> HIDE DEF Sum
  <2> QED BY <1>10, <2>1
<1> HIDE DEF Sum
<1>12. Sum(n) = T
  BY <1>3, <1>8, <1>9, <1>11
<1> QED BY <1>12 DEF Sum

-----------------------------------------------------------------------------
(* The rows of loans. *)

\* What the terms of a loan make of it: its total when it is asked for, its
\* installments when it is paid out.
Sound(l) ==
  /\ l.total = l.principal + Interest(l.terms)
  /\ \/ l.schedule = << >>
     \/ l.by \in Products /\ l.schedule = Installments(l.total, l.by, l.start)

\* A product that is gone took its loans with it, and a request that has read the
\* product goes on with terms it had.
TermsInv ==
  /\ TypeOK
  /\ \A c \in Calls : call[c].job = "request" =>
       call[c].about \in Borrowers /\ call[c].terms \in Products
  /\ product \in Products \/ \A i \in DOMAIN loans : loans[i].status = "deleted"
  /\ \A i \in DOMAIN loans :
       Sound(loans[i]) /\ loans[i].principal <= saved[loans[i].borrower]

LEMMA ProductTerms ==
  ASSUME NEW t \in Products
  PROVE  /\ t \in Terms /\ t.amount \in Nat /\ Interest(t) \in Nat /\ TotalRepayment(t) \in Nat
         /\ \A d \in Days : d \in Dates /\ Reaches(d, t)
<1>1. t \in Terms /\ t.amount \in Nat /\ t.rate \in Nat
  BY LoanLifecycleAssumptions DEF Terms
<1>2. t.amount * t.rate \in Nat /\ 10000 \in Nat \ {0}
  BY <1>1
<1>3. Interest(t) \in Nat
  BY <1>2, RoundNear DEF Interest
<1> HIDE DEF Interest
<1> QED BY <1>1, <1>3, LoanLifecycleAssumptions DEF TotalRepayment

\* Installments of a product's terms are amounts and dates.
LEMMA InstallmentsType ==
  ASSUME NEW T \in Nat, NEW t \in Products, NEW d \in Days
  PROVE  Installments(T, t, d) \in Seq([amount : Int, due : Dates])
<1> DEFINE n == InstallmentCount(t)
<1>1. n \in Nat \ {0}
  BY ProductTerms DEF InstallmentCount, Terms
<1>2. d \in Dates /\ t \in Terms /\ Reaches(d, t)
  BY ProductTerms
<1>3. ASSUME NEW i \in 1..n
      PROVE  [amount |-> AmountDue(T, n, i), due |-> After(d, t.unit, i)] \in [amount : Int, due : Dates]
  <2>1. AmountDue(T, n, i) \in Int
    BY <1>1, AmountType
  <2>2. After(d, t.unit, i) \in Dates
    BY <1>1, <1>2, DueDates
  <2> QED BY <2>1, <2>2
<1>4. Installments(T, t, d) = [i \in 1..n |-> [amount |-> AmountDue(T, n, i), due |-> After(d, t.unit, i)]]
  BY DEF Installments
<1> HIDE DEF n
<1> QED BY <1>1, <1>3, <1>4

\* A request for terms the borrower can afford makes a sound loan.
LEMMA RequestedSound ==
  ASSUME NEW b \in Borrowers, NEW t \in Products, today \in Days
  PROVE  Requested(b, t) \in Loan /\ Sound(Requested(b, t)) /\ Requested(b, t).principal = t.amount
         /\ Requested(b, t).borrower = b
<1>1. DueDate(t, today) \in Dates
  <2>1. t.count \in 0..InstallmentCount(t)
    BY ProductTerms DEF InstallmentCount, Terms
  <2> QED BY <2>1, ProductTerms, DueDates DEF DueDate
<1>2. t.amount \in Nat /\ TotalRepayment(t) \in Nat /\ TotalRepayment(t) = t.amount + Interest(t)
  BY ProductTerms DEF TotalRepayment
<1>3. NoTerms \in Products \cup {NoTerms} /\ "PENDING" \in Statuses
      /\ << >> \in Seq([amount : Int, due : Dates])
  BY DEF Statuses
<1> DEFINE row == Requested(b, t)
<1>4. /\ row.borrower = b /\ row.status = "PENDING" /\ row.terms = t /\ row.principal = t.amount
      /\ row.total = TotalRepayment(t) /\ row.schedule = << >>
  BY DEF Requested
<1>5. row \in Loan
  <2> HIDE DEF TotalRepayment, DueDate, NoTerms
  <2> QED BY <1>1, <1>2, <1>3 DEF Requested, Loan
<1> HIDE DEF row
<1>6. Sound(row)
  BY <1>2, <1>4 DEF Sound
<1> QED BY <1>4, <1>5, <1>6 DEF row

LEMMA StatusSound ==
  ASSUME NEW l \in Loan, NEW status \in Statuses
  PROVE  /\ [l EXCEPT !.status = status] \in Loan
         /\ [l EXCEPT !.status = status].principal = l.principal
         /\ [l EXCEPT !.status = status].borrower = l.borrower
         /\ Sound(l) => Sound([l EXCEPT !.status = status])
  BY DEF Loan, Sound

\* A payout makes the installments once, of the terms the product has by then.
Dated(l, t, d, s) == [borrower |-> l.borrower, status |-> l.status, terms |-> l.terms,
  principal |-> l.principal, total |-> l.total, due |-> l.due, by |-> t, start |-> d, schedule |-> s]

LEMMA DatedSound ==
  ASSUME NEW l \in Loan, NEW t \in Products, NEW d \in Days, Sound(l)
  PROVE  LET m == [l EXCEPT !.by = t, !.start = d, !.schedule = Installments(l.total, t, d)]
         IN m \in Loan /\ Sound(m) /\ m.principal = l.principal /\ m.borrower = l.borrower
<1> DEFINE s == Installments(l.total, t, d)
           m == Dated(l, t, d, s)
<1>1. s \in Seq([amount : Int, due : Dates])
  BY InstallmentsType DEF Loan
<1>2. [l EXCEPT !.by = t, !.start = d, !.schedule = s] = m
  <2> HIDE DEF s
  <2> DEFINE l1 == [l EXCEPT !.by = t]
             l2 == [l1 EXCEPT !.start = d]
             l3 == [l2 EXCEPT !.schedule = s]
  <2>1. l = Dated(l, l.by, l.start, l.schedule)
    BY DEF Loan, Dated
  <2>2. l1 = Dated(l, t, l.start, l.schedule)
    BY <2>1 DEF Dated
  <2> HIDE DEF l1
  <2>3. l2 = Dated(l, t, d, l.schedule)
    BY <2>2 DEF Dated
  <2> HIDE DEF l2
  <2>4. l3 = Dated(l, t, d, s)
    BY <2>3 DEF Dated
  <2> QED BY <2>4 DEF l1, l2
<1>3. /\ m.total = l.total /\ m.principal = l.principal /\ m.terms = l.terms
      /\ m.by = t /\ m.start = d /\ m.schedule = s /\ m.borrower = l.borrower
  BY DEF Dated
<1>4. m \in Loan
  <2> HIDE DEF s
  <2> QED BY <1>1 DEF Loan, Dated
<1>5. Sound(m)
  <2> HIDE DEF m
  <2> QED BY <1>3 DEF Sound
<1> QED BY <1>2, <1>3, <1>4, <1>5

-----------------------------------------------------------------------------
\* Steps that end requests and leave the loans as they are.
LEMMA TermsSame ==
  ASSUME TermsInv, UNCHANGED loans, \A c \in Calls : call'[c] = call[c] \/ call'[c] = Idle,
         call' \in [Calls -> [job : {"none", "request", "approve", "reject", "overdue", "repay"},
                              about : Borrowers \cup (0..MaxLoans), terms : Products \cup {NoTerms}]],
         today' \in Days, product' \in Products \cup {NoTerms},
         product' \in Products \/ product' = product,
         edits' \in 0..MaxEdits, mishaps' \subseteq Mishaps,
         saved' \in [Borrowers -> Nat], \A b \in Borrowers : saved[b] <= saved'[b]
  PROVE  TermsInv'
<1>1. TypeOK'
  BY DEF TermsInv, TypeOK
<1>2. \A c \in Calls : call'[c].job = "request" =>
        call'[c].about \in Borrowers /\ call'[c].terms \in Products
  BY DEF TermsInv, Idle
<1>3. product' \in Products \/ \A i \in DOMAIN loans' : loans'[i].status = "deleted"
  BY DEF TermsInv
<1>4. ASSUME NEW i \in DOMAIN loans
      PROVE  Sound(loans'[i]) /\ loans'[i].principal <= saved'[loans'[i].borrower]
  <2>1. loans[i] \in Loan
    BY DEF TermsInv, TypeOK
  <2>2. loans[i].principal \in Nat /\ loans[i].borrower \in Borrowers
    BY <2>1 DEF Loan
  <2>3. saved[loans[i].borrower] \in Nat /\ saved'[loans[i].borrower] \in Nat
    BY <2>2 DEF TermsInv, TypeOK
  <2> QED BY <2>2, <2>3 DEF TermsInv
<1> QED BY <1>1, <1>2, <1>3, <1>4 DEF TermsInv

LEMMA IdleTyped ==
  ASSUME TermsInv, NEW c \in Calls, call' = [call EXCEPT ![c] = Idle]
  PROVE  /\ call' \in [Calls -> [job : {"none", "request", "approve", "reject", "overdue", "repay"},
                                 about : Borrowers \cup (0..MaxLoans), terms : Products \cup {NoTerms}]]
         /\ \A d \in Calls : call'[d] = call[d] \/ call'[d] = Idle
<1>1. 0 \in 0..MaxLoans
  BY LoanLifecycleAssumptions
<1> QED BY <1>1 DEF TermsInv, TypeOK, Idle

\* Steps that save one loan while there is a product.
LEMMA TermsSaved ==
  ASSUME TermsInv, NEW i \in DOMAIN loans, loans[i].status # "deleted",
         NEW row \in Loan, Sound(row), row.principal = loans[i].principal,
         row.borrower = loans[i].borrower, loans' = [loans EXCEPT ![i] = row],
         call' = call \/ \E c \in Calls : call' = [call EXCEPT ![c] = Idle],
         UNCHANGED <<today, product, edits, saved>>, mishaps' \subseteq Mishaps
  PROVE  TermsInv'
<1>1. loans \in Seq(Loan) /\ Len(loans) \in Nat /\ Len(loans) <= MaxLoans
  BY DEF TermsInv, TypeOK
<1>2. /\ loans' \in Seq(Loan) /\ Len(loans') = Len(loans) /\ DOMAIN loans' = DOMAIN loans
      /\ loans'[i] = row /\ \A j \in DOMAIN loans : j # i => loans'[j] = loans[j]
  BY <1>1
<1>3. /\ call' \in [Calls -> [job : {"none", "request", "approve", "reject", "overdue", "repay"},
                              about : Borrowers \cup (0..MaxLoans), terms : Products \cup {NoTerms}]]
      /\ \A d \in Calls : call'[d] = call[d] \/ call'[d] = Idle
  BY IdleTyped DEF TermsInv, TypeOK
<1>4. TypeOK'
  BY <1>1, <1>2, <1>3 DEF TermsInv, TypeOK
<1>5. \A c \in Calls : call'[c].job = "request" =>
        call'[c].about \in Borrowers /\ call'[c].terms \in Products
  BY <1>3 DEF TermsInv, Idle
<1>6. product \in Products
  BY DEF TermsInv
<1>7. \A j \in DOMAIN loans : Sound(loans'[j]) /\ loans'[j].principal <= saved[loans'[j].borrower]
  BY <1>2 DEF TermsInv
<1>8. product' \in Products /\ saved' = saved
  BY <1>6
<1> QED BY <1>2, <1>4, <1>5, <1>7, <1>8 DEF TermsInv

\* Requests that begin.
LEMMA TermsBegin ==
  ASSUME TermsInv, NEW c \in Calls, NEW image, NEW kind \in Mishaps, NEW overlaps,
         Begin(c, image, kind, overlaps),
         image \in [job : {"none", "request", "approve", "reject", "overdue", "repay"},
                    about : Borrowers \cup (0..MaxLoans), terms : Products \cup {NoTerms}],
         image.job = "request" => image.about \in Borrowers /\ image.terms \in Products
  PROVE  TermsInv'
<1>1. /\ call' \in [Calls -> [job : {"none", "request", "approve", "reject", "overdue", "repay"},
                              about : Borrowers \cup (0..MaxLoans), terms : Products \cup {NoTerms}]]
      /\ call'[c] = image /\ \A d \in Calls : d # c => call'[d] = call[d]
  BY DEF Begin, TermsInv, TypeOK
<1>2. UNCHANGED <<today, product, edits, saved, loans>>
  BY DEF Begin
<1>3. mishaps' \subseteq Mishaps
  BY DEF Begin, TermsInv, TypeOK
<1>4. TypeOK'
  BY <1>1, <1>2, <1>3 DEF TermsInv, TypeOK
<1>5. \A d \in Calls : call'[d].job = "request" =>
        call'[d].about \in Borrowers /\ call'[d].terms \in Products
  BY <1>1 DEF TermsInv
<1> QED BY <1>2, <1>4, <1>5 DEF TermsInv, Sound

LEMMA TermsNext ==
  ASSUME Inv, TermsInv, [Next]_vars
  PROVE  TermsInv'
<1>t. /\ TypeOK /\ loans \in Seq(Loan) /\ Len(loans) \in Nat /\ Len(loans) <= MaxLoans
      /\ DOMAIN loans \subseteq 1..MaxLoans /\ MaxLoans \in Nat /\ MaxEdits \in Nat
      /\ MinimumSavings \in Nat /\ Savings \in Nat
      /\ \A i \in DOMAIN loans : loans[i] \in Loan
      /\ saved \in [Borrowers -> Nat]
  <2>1. TypeOK
    BY DEF TermsInv
  <2>2. MaxLoans \in Nat /\ MaxEdits \in Nat /\ MinimumSavings \in Nat /\ Savings \in Nat
    BY LoanLifecycleAssumptions
  <2>3. loans \in Seq(Loan) /\ Len(loans) <= MaxLoans /\ saved \in [Borrowers -> Nat]
    BY <2>1 DEF TypeOK
  <2>4. DOMAIN loans = 1..Len(loans) /\ Len(loans) \in Nat /\ \A i \in DOMAIN loans : loans[i] \in Loan
    BY <2>3
  <2> QED BY <2>1, <2>2, <2>3, <2>4
<1>s. \A b \in Borrowers : saved[b] <= saved[b]
  BY <1>t
<1>0. CASE UNCHANGED vars
  BY <1>0, <1>s, TermsSame DEF vars, TermsInv, TypeOK
<1>1. CASE Tick
  BY <1>1, <1>s, TermsSame DEF Tick, TermsInv, TypeOK
<1>2. ASSUME NEW b \in Borrowers, Save(b) PROVE TermsInv'
  <2>1. saved' \in [Borrowers -> Nat] /\ \A a \in Borrowers : saved[a] <= saved'[a]
    BY <1>2, <1>t DEF Save
  <2> QED BY <1>2, <2>1, TermsSame DEF Save, TermsInv, TypeOK
<1>3. CASE EditProduct
  <2>1. edits' \in 0..MaxEdits /\ product' \in Products
    BY <1>3, <1>t DEF EditProduct, TypeOK
  <2> QED BY <1>3, <1>s, <2>1, TermsSame DEF EditProduct, TermsInv, TypeOK
<1>4. CASE DeleteProduct
  <2>0. "deleted" \in Statuses
    BY DEF Statuses
  <2> DEFINE row(i) == [loans[i] EXCEPT !.status = "deleted"]
  <2>1. \A i \in DOMAIN loans :
          /\ row(i) \in Loan /\ Sound(row(i)) /\ row(i).status = "deleted"
          /\ row(i).principal = loans[i].principal /\ row(i).borrower = loans[i].borrower
    <3> SUFFICES ASSUME NEW i \in DOMAIN loans
                 PROVE  /\ row(i) \in Loan /\ Sound(row(i)) /\ row(i).status = "deleted"
                        /\ row(i).principal = loans[i].principal /\ row(i).borrower = loans[i].borrower
      OBVIOUS
    <3>1. loans[i] \in Loan /\ Sound(loans[i])
      BY <1>t DEF TermsInv
    <3>2. row(i).status = "deleted"
      BY <3>1 DEF Loan
    <3> QED BY <2>0, <3>1, <3>2, StatusSound
  <2>2. loans' = [i \in DOMAIN loans |-> row(i)]
    BY <1>4 DEF DeleteProduct
  <2> HIDE DEF row
  <2>3. /\ loans' \in Seq(Loan) /\ Len(loans') = Len(loans) /\ DOMAIN loans' = DOMAIN loans
        /\ \A i \in DOMAIN loans : loans'[i] = row(i)
    BY <1>t, <2>1, <2>2
  <2>4. product' = NoTerms /\ edits' = edits /\ UNCHANGED <<today, saved, call, mishaps>>
    BY <1>4 DEF DeleteProduct
  <2>5. TypeOK'
    BY <1>t, <2>3, <2>4 DEF TypeOK
  <2> QED BY <2>1, <2>3, <2>4, <2>5 DEF TermsInv
<1>5. ASSUME NEW c \in Calls, NEW b \in Borrowers, CountLoans(c, b) PROVE TermsInv'
  <2> DEFINE image == [job |-> "request", about |-> b, terms |-> product]
             overlaps == \E d \in Calls : call[d].job = "request" /\ call[d].about = b
  <2>1. product \in Products
    BY <1>5, <1>t DEF CountLoans, TypeOK
  <2>2. Begin(c, image, "crossed", overlaps) /\ "crossed" \in Mishaps
    BY <1>5 DEF CountLoans, Mishaps
  <2>3. /\ image \in [job : {"none", "request", "approve", "reject", "overdue", "repay"},
                      about : Borrowers \cup (0..MaxLoans), terms : Products \cup {NoTerms}]
        /\ image.about \in Borrowers /\ image.terms \in Products
    BY <2>1
  <2> HIDE DEF image, overlaps
  <2> QED BY <2>2, <2>3, TermsBegin
<1>6. ASSUME NEW c \in Calls, NEW i \in DOMAIN loans,
             \/ \E job \in {"approve", "reject"} : ReadLoan(c, i, job)
             \/ \E job \in Holding : ReadOut(c, i, job)
      PROVE  TermsInv'
  <2>1. PICK job \in {"approve", "reject", "overdue", "repay"}, kind \in Mishaps, overlaps \in BOOLEAN :
          Begin(c, [job |-> job, about |-> i, terms |-> NoTerms], kind, overlaps)
    BY <1>6 DEF ReadLoan, ReadOut, Mishaps, Holding
  <2> DEFINE image == [job |-> job, about |-> i, terms |-> NoTerms]
  <2>2. /\ image \in [job : {"none", "request", "approve", "reject", "overdue", "repay"},
                      about : Borrowers \cup (0..MaxLoans), terms : Products \cup {NoTerms}]
        /\ image.job # "request"
    BY <1>t
  <2> HIDE DEF image
  <2> QED BY <2>1, <2>2, TermsBegin DEF image
<1>7. ASSUME NEW c \in Calls, CreateLoan(c) PROVE TermsInv'
  <2> DEFINE b == call[c].about
             t == call[c].terms
             row == Requested(b, t)
             n == Len(loans) + 1
  <2>1. b \in Borrowers /\ t \in Products
    BY <1>7 DEF CreateLoan, TermsInv
  <2>2. row \in Loan /\ Sound(row) /\ row.principal = t.amount /\ row.borrower = b
    BY <1>t, <2>1, RequestedSound DEF TypeOK
  <2>3. /\ loans' = Append(loans, row) /\ Len(loans) < MaxLoans
        /\ call' = [call EXCEPT ![c] = Idle] /\ t.amount <= saved[b]
        /\ UNCHANGED <<today, product, edits, saved, mishaps>> /\ product # NoTerms
    BY <1>7 DEF CreateLoan, Affordable
  <2> HIDE DEF row
  <2>4. /\ loans' \in Seq(Loan) /\ Len(loans') <= MaxLoans
        /\ DOMAIN loans' = DOMAIN loans \cup {n}
        /\ loans'[n] = row /\ \A j \in DOMAIN loans : loans'[j] = loans[j]
    BY <1>t, <2>2, <2>3
  <2> HIDE DEF n
  <2>5. /\ call' \in [Calls -> [job : {"none", "request", "approve", "reject", "overdue", "repay"},
                                about : Borrowers \cup (0..MaxLoans), terms : Products \cup {NoTerms}]]
        /\ \A d \in Calls : call'[d] = call[d] \/ call'[d] = Idle
    BY <2>3, IdleTyped
  <2>6. TypeOK'
    BY <1>t, <2>3, <2>4, <2>5 DEF TypeOK
  <2>7. \A d \in Calls : call'[d].job = "request" =>
          call'[d].about \in Borrowers /\ call'[d].terms \in Products
    BY <2>5 DEF TermsInv, Idle
  <2>8. product \in Products
    BY <1>t, <2>3 DEF TypeOK
  <2>9. \A j \in DOMAIN loans' : Sound(loans'[j]) /\ loans'[j].principal <= saved[loans'[j].borrower]
    BY <2>2, <2>3, <2>4 DEF TermsInv
  <2>10. product' \in Products /\ saved' = saved
    BY <2>3, <2>8
  <2> QED BY <2>6, <2>7, <2>9, <2>10 DEF TermsInv
\* A loan that changes its status only.
<1>8. ASSUME NEW i \in DOMAIN loans, NEW status \in Statuses, loans[i].status # "deleted",
             loans' = [loans EXCEPT ![i].status = status],
             call' = call \/ \E c \in Calls : call' = [call EXCEPT ![c] = Idle],
             UNCHANGED <<today, product, edits, saved>>, mishaps' \subseteq Mishaps
      PROVE  TermsInv'
  <2> DEFINE row == [loans[i] EXCEPT !.status = status]
  <2>1. loans' = [loans EXCEPT ![i] = row]
    BY <1>8
  <2>2. /\ row \in Loan /\ Sound(row)
        /\ row.principal = loans[i].principal /\ row.borrower = loans[i].borrower
    BY <1>t, StatusSound DEF TermsInv
  <2> HIDE DEF row
  <2> QED BY <1>8, <2>1, <2>2, TermsSaved
<1>9. ASSUME NEW c \in Calls, NEW status \in Statuses, SaveStatus(c, status),
             call[c].job \in Deciding \cup Holding
      PROVE  TermsInv'
  <2>1. call[c].about \in DOMAIN loans /\ loans[call[c].about].status # "deleted"
    BY <1>9 DEF SaveStatus, Live, Inv, CallInv
  <2>2. mishaps' \subseteq Mishaps
    BY <1>9, <1>t DEF SaveStatus, NoteLate, TypeOK, Mishaps
  <2> QED BY <1>8, <1>9, <2>1, <2>2 DEF SaveStatus
<1>10. ASSUME NEW c \in Calls, Approve(c) \/ Reject(c) \/ SyncOverdue(c) \/ Repay(c) PROVE TermsInv'
  <2>1. Out \cup {"PAID_OFF", "APPROVED", "REJECTED"} \subseteq Statuses
    BY DEF Out, Statuses
  <2> QED BY <1>9, <1>10, <2>1 DEF Approve, Reject, SyncOverdue, Repay, Refresh, Deciding, Holding
<1>11. ASSUME NEW c \in Calls, GiveUp(c) PROVE TermsInv'
  <2>1. /\ call' \in [Calls -> [job : {"none", "request", "approve", "reject", "overdue", "repay"},
                                about : Borrowers \cup (0..MaxLoans), terms : Products \cup {NoTerms}]]
        /\ \A d \in Calls : call'[d] = call[d] \/ call'[d] = Idle
    BY <1>11, IdleTyped DEF GiveUp
  <2> QED BY <1>11, <1>s, <2>1, TermsSame DEF GiveUp, TermsInv, TypeOK
<1>12. ASSUME NEW i \in DOMAIN loans, Disburse(i) PROVE TermsInv'
  <2> DEFINE out == [loans[i] EXCEPT !.status = "ACTIVE"]
             made == [out EXCEPT !.by = product, !.start = today,
                                 !.schedule = Installments(out.total, product, today)]
             row == IF out.schedule # << >> THEN out ELSE made
  <2>1. loans' = [loans EXCEPT ![i] = row] /\ loans[i].status = "APPROVED"
        /\ UNCHANGED <<today, product, edits, saved, call, mishaps>>
    BY <1>12 DEF Disburse
  <2>2. product \in Products /\ today \in Days /\ "ACTIVE" \in Statuses
    BY <1>t, <2>1 DEF TermsInv, TypeOK, Statuses
  <2>3. /\ out \in Loan /\ Sound(out)
        /\ out.principal = loans[i].principal /\ out.borrower = loans[i].borrower
    BY <1>t, <2>2, StatusSound DEF TermsInv
  <2> HIDE DEF out
  <2>4. /\ made \in Loan /\ Sound(made)
        /\ made.principal = out.principal /\ made.borrower = out.borrower
    BY <2>2, <2>3, DatedSound
  <2> HIDE DEF made
  <2>5. /\ row \in Loan /\ Sound(row)
        /\ row.principal = loans[i].principal /\ row.borrower = loans[i].borrower
    BY <2>3, <2>4
  <2> HIDE DEF row
  <2> QED BY <1>t, <2>1, <2>5, TermsSaved DEF TypeOK
<1>13. ASSUME NEW i \in DOMAIN loans, Reverse(i) PROVE TermsInv'
  <2>1. mishaps' \subseteq Mishaps /\ "PAYOUT_REVERSED" \in Statuses
    BY <1>13, <1>t DEF Reverse, NoteLate, TypeOK, Mishaps, Statuses
  <2> QED BY <1>8, <1>13, <2>1 DEF Reverse
<1> QED
  BY <1>0, <1>1, <1>2, <1>3, <1>4, <1>5, <1>6, <1>7, <1>10, <1>11, <1>12, <1>13 DEF Next

LEMMA TermsInit == Init => TermsInv
<1> SUFFICES ASSUME Init PROVE TermsInv
  OBVIOUS
<1>1. loans = << >> /\ DOMAIN loans = {} /\ loans \in Seq(Loan) /\ Len(loans) = 0
  BY DEF Init
<1>2. 0 \in 0..MaxEdits /\ 0 \in 0..MaxLoans /\ 0 <= MaxLoans
  BY LoanLifecycleAssumptions
<1>3. TypeOK
  BY <1>1, <1>2 DEF Init, TypeOK, Idle
<1>4. \A c \in Calls : call[c].job # "request"
  BY DEF Init, Idle
<1>5. product \in Products
  BY DEF Init
<1> QED BY <1>1, <1>3, <1>4, <1>5 DEF TermsInv

LEMMA TermsInvariant == Spec => [](Inv /\ TermsInv)
<1>1. Inv /\ TermsInv /\ [Next]_vars => Inv' /\ TermsInv'
  BY StepKeeps, TermsNext
<1> QED BY InitKeeps, TermsInit, <1>1, PTL DEF Spec

\* What is due on a loan that is sound adds up and falls due in order.
LEMMA SoundTerms ==
  ASSUME NEW l \in Loan, Sound(l), l.schedule # << >>
  PROVE  LET n == Len(l.schedule)
         IN /\ n \in Nat \ {0}
            /\ SumFunctionOnSet([k \in 1..n |-> l.schedule[k].amount], 1..n) = l.total
            /\ \A k \in 1..(n - 1) : Before(l.schedule[k].due, l.schedule[k + 1].due)
            /\ 2 * l.total >= n * (n - 1) => \A k \in 1..n : l.schedule[k].amount >= 0
            /\ l.by = l.terms /\ l.due = DueDate(l.terms, l.start) /\ l.terms.count > 0
                 => l.schedule[n].due = l.due
<1> DEFINE t == l.by
           n == InstallmentCount(t)
           T == l.total
           f == [k \in 1..n |-> l.schedule[k].amount]
<1>1. t \in Products /\ l.schedule = Installments(T, t, l.start) /\ T \in Nat /\ l.start \in Days
  BY DEF Sound, Loan
<1>2. n \in Nat \ {0}
  BY <1>1, ProductTerms DEF InstallmentCount, Terms
<1>3. l.start \in Dates /\ t \in Terms /\ Reaches(l.start, t)
  BY <1>1, ProductTerms
<1>4. l.schedule = [i \in 1..n |-> [amount |-> AmountDue(T, n, i), due |-> After(l.start, t.unit, i)]]
  BY <1>1 DEF Installments
<1>5. \A i \in 1..n : l.schedule[i].amount = AmountDue(T, n, i)
                      /\ l.schedule[i].due = After(l.start, t.unit, i)
  <2> HIDE DEF n, T, t
  <2> QED BY <1>4
<1>6. Len(l.schedule) = n
  <2> HIDE DEF n, T, t
  <2> QED BY <1>2, <1>4
<1>7. SumFunctionOnSet(f, 1..n) = T
  <2>1. \A i \in 1..n : f[i] = AmountDue(T, n, i)
    BY <1>5
  <2> HIDE DEF f, n, T
  <2> QED BY <1>1, <1>2, <2>1, AmountsAddUp
<1>8. ASSUME NEW k \in 1..(n - 1)
      PROVE  Before(l.schedule[k].due, l.schedule[k + 1].due)
  <2>1. k \in 0..n /\ k < n /\ k \in 1..n /\ k + 1 \in 1..n
    BY <1>2
  <2>2. Before(After(l.start, t.unit, k), After(l.start, t.unit, k + 1))
    BY <1>3, <2>1, DueDates
  <2> QED BY <1>5, <2>1, <2>2
<1>9. 2 * T >= n * (n - 1) => \A k \in 1..n : l.schedule[k].amount >= 0
  BY <1>1, <1>2, <1>5, AmountType
<1>10. ASSUME l.by = l.terms, l.due = DueDate(l.terms, l.start), l.terms.count > 0
       PROVE  l.schedule[n].due = l.due
  <2>1. n = l.terms.count /\ n \in 1..n
    BY <1>2, <1>10 DEF InstallmentCount
  <2> QED BY <1>5, <1>10, <2>1 DEF DueDate
<1> QED
  <2> HIDE DEF n
  <2> QED BY <1>2, <1>6, <1>7, <1>8, <1>9, <1>10 DEF f, T

\* Every variable keeps its type, however requests overlap and the product changes: in
\* particular every due date the calendar arithmetic makes is a date (_add_months).
THEOREM TypeCorrect == Spec => []TypeOK
<1>1. TermsInv => TypeOK
  BY DEF TermsInv
<1> QED BY TermsInvariant, <1>1, PTL

\* What a borrower owes is what the terms he asked for make of it, and his
\* installments add up to it, in order, for any terms, dates and edits of the product.
THEOREM TermsStand == Spec => []TermsHold
<1>1. TermsInv => TermsHold
  <2> SUFFICES ASSUME TermsInv, NEW i \in DOMAIN loans
               PROVE  LET l == loans[i]
                          n == Len(l.schedule)
                      IN Live(l) =>
                           /\ l.total = l.principal + Interest(l.terms) /\ l.principal <= saved[l.borrower]
                           /\ n > 0 =>
                                /\ SumFunctionOnSet([k \in 1..n |-> l.schedule[k].amount], 1..n) = l.total
                                /\ \A k \in 1..(n - 1) : Before(l.schedule[k].due, l.schedule[k + 1].due)
                                /\ 2 * l.total >= n * (n - 1) => \A k \in 1..n : l.schedule[k].amount >= 0
                                /\ l.by = l.terms /\ l.due = DueDate(l.terms, l.start) /\ l.terms.count > 0
                                     => l.schedule[n].due = l.due
    BY DEF TermsHold
  <2> DEFINE l == loans[i]
             n == Len(l.schedule)
  <2>1. l \in Loan /\ Sound(l) /\ l.principal <= saved[l.borrower]
    BY DEF TermsInv, TypeOK
  <2>2. l.total = l.principal + Interest(l.terms)
    BY <2>1 DEF Sound
  <2>3. n > 0 => l.schedule # << >>
    OBVIOUS
  <2> HIDE DEF l
  <2>4. ASSUME n > 0
        PROVE  /\ SumFunctionOnSet([k \in 1..n |-> l.schedule[k].amount], 1..n) = l.total
               /\ \A k \in 1..(n - 1) : Before(l.schedule[k].due, l.schedule[k + 1].due)
               /\ 2 * l.total >= n * (n - 1) => \A k \in 1..n : l.schedule[k].amount >= 0
               /\ l.by = l.terms /\ l.due = DueDate(l.terms, l.start) /\ l.terms.count > 0
                    => l.schedule[n].due = l.due
    <3> HIDE DEF n
    <3>1. l.schedule # << >>
      BY <2>3, <2>4
    <3> QED BY ONLY <2>1, <3>1, SoundTerms, Zenon DEF n
  <2>5. l.principal <= saved[l.borrower]
    BY <2>1
  <2> HIDE DEF n
  <2> QED BY ONLY <2>2, <2>4, <2>5, Zenon DEF l, n
<1> QED BY TermsInvariant, <1>1, PTL

=============================================================================

-------------------------- MODULE RepaymentProofs --------------------------
(***************************************************************************)
(* TypeOK, InstallmentsSound and SerialSound for every number of           *)
(* installments, every amounts due and repaid, any number of payers and    *)
(* any late fees.                                                          *)
(*                                                                         *)
(* The allocation loop is the heart of it: an amount poured over the       *)
(* installments fills the first ones, reaches one, and leaves the rest     *)
(* alone.  Waterfall and Served say so for any balances, by induction over *)
(* the installments.                                                       *)
(***************************************************************************)
EXTENDS Repayment, SumTheorems

-----------------------------------------------------------------------------
(* The waterfall. *)

\* What the first n of the balances b come to.
Prefix(b, n) == SumFunctionOnSet(b, 1..n)

\* What an amount a pays on each of the balances b, the earlier ones first.
Taken(b, a) == [i \in Numbers |-> Least(b[i], Floor0(a - Prefix(b, i - 1)))]

LEMMA Intervals == \A m, n \in Int : IsFiniteSet(m..n)
  BY FS_Interval

LEMMA NumbersFinite == IsFiniteSet(Numbers) /\ N \in Nat /\ N > 0
  BY FS_Interval, RepaymentAssumptions DEF Numbers

LEMMA PrefixNat ==
  ASSUME NEW b \in [Numbers -> Nat], NEW n \in 0..N
  PROVE  Prefix(b, n) \in Nat
<1>1. 1..n \subseteq Numbers
  BY NumbersFinite DEF Numbers
<1>2. IsFiniteSet(1..n)
  BY Intervals
<1>3. \A i \in 1..n : b[i] \in Nat
  BY <1>1
<1> QED BY <1>2, <1>3, SumNat, Zenon DEF Prefix

LEMMA PrefixStep ==
  ASSUME NEW b \in [Numbers -> Nat], NEW n \in 0..N, n < N
  PROVE  Prefix(b, n + 1) = Prefix(b, n) + b[n + 1]
<1> DEFINE m == n + 1
<1>1. m \in Numbers /\ m \notin 1..n /\ 1..n \subseteq Numbers /\ n \in Int
  BY NumbersFinite DEF Numbers
<1>2. (1..n) \cup {m} = 1..m
  BY NumbersFinite
<1>3. IsFiniteSet(1..n)
  BY <1>1, Intervals
<1>4. (\A i \in 1..n : b[i] \in Int) /\ b[m] \in Int
  BY <1>1
<1> HIDE DEF m
<1>5. SumFunctionOnSet(b, (1..n) \cup {m}) = SumFunctionOnSet(b, 1..n) + b[m]
  BY <1>1, <1>3, <1>4, SumAdd, Zenon
<1>6. SumFunctionOnSet(b, 1..m) = SumFunctionOnSet(b, 1..n) + b[m]
  BY <1>2, <1>5, Zenon
<1> QED BY <1>6, Zenon DEF Prefix, m

LEMMA PrefixGrows ==
  ASSUME NEW b \in [Numbers -> Nat], NEW n \in 0..N, NEW m \in 0..n
  PROVE  Prefix(b, m) <= Prefix(b, n)
<1>1. 1..m \in SUBSET (1..n) /\ 1..n \subseteq Numbers /\ n \in Int
  BY NumbersFinite DEF Numbers
<1>2. IsFiniteSet(1..n)
  BY <1>1, Intervals
<1>3. \A i \in 1..n : b[i] \in Nat
  BY <1>1
<1> QED BY <1>1, <1>2, <1>3, SumSubset, Zenon DEF Prefix

LEMMA TakenNat ==
  ASSUME NEW b \in [Numbers -> Nat], NEW a \in Nat
  PROVE  Taken(b, a) \in [Numbers -> Nat]
<1> SUFFICES ASSUME NEW i \in Numbers
             PROVE  Least(b[i], Floor0(a - Prefix(b, i - 1))) \in Nat
  BY DEF Taken
<1>1. i - 1 \in 0..N
  BY NumbersFinite DEF Numbers
<1>2. Prefix(b, i - 1) \in Nat
  BY <1>1, PrefixNat
<1> QED BY <1>2 DEF Least, Floor0

\* What an amount pays in all is the amount, as far as there is something to pay.
LEMMA Waterfall ==
  ASSUME NEW b \in [Numbers -> Nat], NEW a \in Nat
  PROVE  SumFunctionOnSet(Taken(b, a), Numbers) = Least(a, SumFunctionOnSet(b, Numbers))
<1> DEFINE S == {n \in Nat : n <= N => Prefix(Taken(b, a), n) = Least(a, Prefix(b, n))}
<1>1. Taken(b, a) \in [Numbers -> Nat]
  BY TakenNat
<1>2. 0 \in S
  <2>1. 1..0 = {}
    OBVIOUS
  <2>2. Prefix(Taken(b, a), 0) = 0 /\ Prefix(b, 0) = 0
    BY <2>1, SumEmpty, Zenon DEF Prefix
  <2> QED BY <2>2 DEF Least
<1>3. ASSUME NEW n \in Nat, n \in S
      PROVE  n + 1 \in S
  <2> SUFFICES ASSUME n + 1 <= N
               PROVE  Prefix(Taken(b, a), n + 1) = Least(a, Prefix(b, n + 1))
    OBVIOUS
  <2>1. n \in 0..N /\ n < N /\ n + 1 \in Numbers /\ (n + 1) - 1 = n
    BY NumbersFinite DEF Numbers
  <2>2. Prefix(Taken(b, a), n) = Least(a, Prefix(b, n))
    BY <1>3, <2>1
  <2>3. Prefix(Taken(b, a), n + 1) = Prefix(Taken(b, a), n) + Taken(b, a)[n + 1]
    BY <1>1, <2>1, PrefixStep
  <2>4. Prefix(b, n + 1) = Prefix(b, n) + b[n + 1]
    BY <2>1, PrefixStep
  <2>5. Taken(b, a)[n + 1] = Least(b[n + 1], Floor0(a - Prefix(b, n)))
    BY <2>1, Zenon DEF Taken
  <2>6. Prefix(b, n) \in Nat /\ b[n + 1] \in Nat
    BY <2>1, PrefixNat
  <2> QED BY <2>2, <2>3, <2>4, <2>5, <2>6 DEF Least, Floor0
<1>4. Nat \subseteq S
  <2> HIDE DEF S
  <2> QED BY <1>2, <1>3, Induction
<1>5. Prefix(Taken(b, a), N) = Least(a, Prefix(b, N))
  BY <1>4, NumbersFinite
<1> QED BY <1>5, Zenon DEF Prefix, Numbers

\* An installment is reached only when all earlier ones are filled.
LEMMA Served ==
  ASSUME NEW b \in [Numbers -> Nat], NEW a \in Nat, NEW j \in Numbers, NEW i \in 1..(j - 1),
         Floor0(a - Prefix(b, j - 1)) > 0
  PROVE  i \in Numbers /\ Floor0(a - Prefix(b, i - 1)) >= b[i]
<1>1. i \in Numbers /\ i - 1 \in 0..N /\ i - 1 < N /\ (i - 1) + 1 = i
      /\ j - 1 \in 0..N /\ i \in 0..(j - 1) /\ i \in 0..N
  BY NumbersFinite DEF Numbers
<1>2. Prefix(b, i) = Prefix(b, i - 1) + b[i]
  <2>1. Prefix(b, (i - 1) + 1) = Prefix(b, i - 1) + b[(i - 1) + 1]
    BY <1>1, PrefixStep
  <2> QED BY <1>1, <2>1, Zenon
<1>3. Prefix(b, i) <= Prefix(b, j - 1)
  BY <1>1, PrefixGrows
<1>4. Prefix(b, i - 1) \in Nat /\ Prefix(b, j - 1) \in Nat /\ Prefix(b, i) \in Nat /\ b[i] \in Nat
  BY <1>1, PrefixNat
<1> QED BY <1>1, <1>2, <1>3, <1>4 DEF Floor0

-----------------------------------------------------------------------------
(* The installments. *)

Bounds == \A j \in Numbers : paid[j] <= Due[j] /\ feePaid[j] <= fee[j]

\* What the installments hold, and the late fees among it.
Held == SumFunctionOnSet([i \in Numbers |-> paid[i] + feePaid[i]], Numbers)
FeesPaid == SumFunctionOnSet(feePaid, Numbers)

LEMMA BalancesNat ==
  TypeOK /\ Bounds =>
    /\ Balances \in [Numbers -> Nat]
    /\ \A i \in Numbers :
         /\ Balances[i] = InstallmentBalance(i) /\ InstallmentBalance(i) \in Nat
         /\ LateFeeBalance(i) = fee[i] - feePaid[i] /\ LateFeeBalance(i) \in Nat
         /\ InstallmentBalance(i) = (Due[i] - paid[i]) + (fee[i] - feePaid[i])
<1> SUFFICES ASSUME TypeOK, Bounds
             PROVE  /\ Balances \in [Numbers -> Nat]
                    /\ \A i \in Numbers :
                         /\ Balances[i] = InstallmentBalance(i) /\ InstallmentBalance(i) \in Nat
                         /\ LateFeeBalance(i) = fee[i] - feePaid[i] /\ LateFeeBalance(i) \in Nat
                         /\ InstallmentBalance(i) = (Due[i] - paid[i]) + (fee[i] - feePaid[i])
  OBVIOUS
<1>1. ASSUME NEW i \in Numbers
      PROVE  /\ InstallmentBalance(i) \in Nat
             /\ LateFeeBalance(i) = fee[i] - feePaid[i] /\ LateFeeBalance(i) \in Nat
             /\ InstallmentBalance(i) = (Due[i] - paid[i]) + (fee[i] - feePaid[i])
  <2>1. Due[i] \in Nat /\ paid[i] \in Nat /\ fee[i] \in Nat /\ feePaid[i] \in Nat
        /\ paid[i] <= Due[i] /\ feePaid[i] <= fee[i]
    BY RepaymentAssumptions DEF TypeOK, Bounds
  <2> QED BY <2>1 DEF InstallmentBalance, LateFeeBalance, Floor0
<1>2. \A i \in Numbers : Balances[i] = InstallmentBalance(i)
  BY Zenon DEF Balances
<1> QED BY <1>1, <1>2 DEF Balances

LEMMA SumsNat ==
  TypeOK /\ Bounds =>
    Owed \in Nat /\ FeeDue \in Nat /\ Total \in Nat /\ Held \in Nat /\ FeesPaid \in Nat
<1> SUFFICES ASSUME TypeOK, Bounds
             PROVE  /\ Owed \in Nat /\ FeeDue \in Nat /\ Total \in Nat
                    /\ Held \in Nat /\ FeesPaid \in Nat
  OBVIOUS
<1> DEFINE F == [i \in Numbers |-> LateFeeBalance(i)]
           H == [i \in Numbers |-> paid[i] + feePaid[i]]
<1>1. \A i \in Numbers : /\ Balances[i] \in Nat /\ F[i] \in Nat /\ Due[i] \in Nat
                         /\ feePaid[i] \in Nat /\ paid[i] \in Nat
  BY BalancesNat, RepaymentAssumptions DEF TypeOK
<1>2. \A i \in Numbers : H[i] \in Nat
  BY <1>1
<1>3. FeeDue = SumFunctionOnSet(F, Numbers) /\ Held = SumFunctionOnSet(H, Numbers)
  BY Zenon DEF FeeDue, Held
<1> HIDE DEF F, H
<1> QED BY <1>1, <1>2, <1>3, NumbersFinite, SumNat, Zenon DEF Owed, Total, FeesPaid

\* What is owed, added up another way.
LEMMA OwedSplit ==
  TypeOK /\ Bounds => Owed + Held = (Total + FeeDue) + FeesPaid
<1> SUFFICES ASSUME TypeOK, Bounds
             PROVE  Owed + Held = (Total + FeeDue) + FeesPaid
  OBVIOUS
<1> DEFINE F == [i \in Numbers |-> LateFeeBalance(i)]
           H == [i \in Numbers |-> paid[i] + feePaid[i]]
           G == [i \in Numbers |-> Due[i] + F[i]]
           A == [i \in Numbers |-> G[i] + feePaid[i]]
<1>1. \A i \in Numbers :
        /\ Balances[i] \in Nat /\ F[i] \in Nat /\ Due[i] \in Nat
        /\ feePaid[i] \in Nat /\ paid[i] \in Nat
        /\ Balances[i] = (Due[i] - paid[i]) + F[i]
  BY BalancesNat, RepaymentAssumptions DEF TypeOK
<1>2. /\ \A i \in Numbers : Due[i] \in Int /\ F[i] \in Int /\ G[i] = Due[i] + F[i]
      /\ \A i \in Numbers : G[i] \in Int /\ feePaid[i] \in Int /\ A[i] = G[i] + feePaid[i]
      /\ \A i \in Numbers : Balances[i] \in Int /\ H[i] \in Int /\ A[i] = Balances[i] + H[i]
  BY <1>1
<1>3. FeeDue = SumFunctionOnSet(F, Numbers) /\ Held = SumFunctionOnSet(H, Numbers)
  BY Zenon DEF FeeDue, Held
<1> HIDE DEF F, H, G, A
<1>4. SumFunctionOnSet(G, Numbers) = Total + FeeDue
  <2>1. SumFunctionOnSet(G, Numbers) = SumFunctionOnSet(Due, Numbers) + SumFunctionOnSet(F, Numbers)
    BY ONLY <1>2, NumbersFinite, SumPlus
  <2> QED BY <1>3, <2>1, Zenon DEF Total
<1>5. SumFunctionOnSet(A, Numbers) = SumFunctionOnSet(G, Numbers) + FeesPaid
  <2>1. SumFunctionOnSet(A, Numbers)
          = SumFunctionOnSet(G, Numbers) + SumFunctionOnSet(feePaid, Numbers)
    BY ONLY <1>2, NumbersFinite, SumPlus
  <2> QED BY <2>1, Zenon DEF FeesPaid
<1>6. SumFunctionOnSet(A, Numbers) = Owed + Held
  <2>1. SumFunctionOnSet(A, Numbers)
          = SumFunctionOnSet(Balances, Numbers) + SumFunctionOnSet(H, Numbers)
    BY ONLY <1>2, NumbersFinite, SumPlus
  <2> QED BY <1>3, <2>1, Zenon DEF Owed
<1> QED BY <1>4, <1>5, <1>6, Zenon

\* Nothing is owed exactly when no installment has a balance; so for the late fees.
LEMMA NothingOwed ==
  TypeOK /\ Bounds =>
    /\ Owed = 0 <=> \A i \in Numbers : InstallmentBalance(i) = 0
    /\ FeeDue = 0 <=> \A i \in Numbers : LateFeeBalance(i) = 0
<1> SUFFICES ASSUME TypeOK, Bounds
             PROVE  /\ Owed = 0 <=> \A i \in Numbers : InstallmentBalance(i) = 0
                    /\ FeeDue = 0 <=> \A i \in Numbers : LateFeeBalance(i) = 0
  OBVIOUS
<1> DEFINE F == [i \in Numbers |-> LateFeeBalance(i)]
<1>1. \A i \in Numbers : /\ Balances[i] \in Nat /\ Balances[i] = InstallmentBalance(i)
                         /\ F[i] \in Nat /\ F[i] = LateFeeBalance(i)
  BY BalancesNat
<1>2. FeeDue = SumFunctionOnSet(F, Numbers)
  BY Zenon DEF FeeDue
<1> HIDE DEF F
<1>3. Owed = 0 <=> \A i \in Numbers : Balances[i] = 0
  BY <1>1, NumbersFinite, SumZero, Zenon DEF Owed
<1>4. FeeDue = 0 <=> \A i \in Numbers : F[i] = 0
  BY <1>1, <1>2, NumbersFinite, SumZero, Zenon
<1> QED BY <1>1, <1>3, <1>4, Zenon

-----------------------------------------------------------------------------
(* One repayment on the installments. *)

LEMMA AllocateStep ==
  ASSUME TypeOK, Bounds, NEW a \in Nat, Allocate(a)
  PROVE  /\ paid' \in [Numbers -> Nat] /\ feePaid' \in [Numbers -> Nat]
         /\ \A i \in Numbers :
              /\ paid[i] <= paid'[i] /\ paid'[i] <= Due[i]
              /\ feePaid'[i] <= fee[i]
              /\ (paid'[i] + feePaid'[i]) = (paid[i] + feePaid[i]) + Taken(Balances, a)[i]
              /\ LeftFor(i, a) \in Nat
              /\ LeftFor(i, a) = 0 => paid'[i] = paid[i] /\ feePaid'[i] = feePaid[i]
              /\ LeftFor(i, a) >= InstallmentBalance(i)
                   => paid'[i] = Due[i] /\ feePaid'[i] = fee[i]
<1>1. \A i \in Numbers : paid'[i] = paid[i] + ToPrincipal(i, a)
                         /\ feePaid'[i] = feePaid[i] + ToFee(i, a)
  BY Zenon DEF Allocate
<1>2. Balances \in [Numbers -> Nat]
  BY BalancesNat
<1>3. ASSUME NEW i \in Numbers
      PROVE  /\ paid'[i] \in Nat /\ feePaid'[i] \in Nat
             /\ paid[i] <= paid'[i] /\ paid'[i] <= Due[i]
             /\ feePaid'[i] <= fee[i]
             /\ (paid'[i] + feePaid'[i]) = (paid[i] + feePaid[i]) + Taken(Balances, a)[i]
             /\ LeftFor(i, a) \in Nat
             /\ LeftFor(i, a) = 0 => paid'[i] = paid[i] /\ feePaid'[i] = feePaid[i]
             /\ LeftFor(i, a) >= InstallmentBalance(i)
                  => paid'[i] = Due[i] /\ feePaid'[i] = fee[i]
  <2>1. i - 1 \in 0..N
    BY NumbersFinite DEF Numbers
  <2>2. Prefix(Balances, i - 1) \in Nat
    BY <1>2, <2>1, PrefixNat
  <2>3. LeftFor(i, a) = Floor0(a - Prefix(Balances, i - 1))
    BY Zenon DEF LeftFor, Prefix
  <2>4. LeftFor(i, a) \in Nat
    BY <2>2, <2>3 DEF Floor0
  <2>5. Taken(Balances, a)[i] = Least(Balances[i], LeftFor(i, a))
    BY <2>3, Zenon DEF Taken
  <2>6. /\ Due[i] \in Nat /\ paid[i] \in Nat /\ fee[i] \in Nat /\ feePaid[i] \in Nat
        /\ paid[i] <= Due[i] /\ feePaid[i] <= fee[i]
    BY RepaymentAssumptions DEF TypeOK, Bounds
  <2>7. /\ Balances[i] = (Due[i] - paid[i]) + (fee[i] - feePaid[i])
        /\ InstallmentBalance(i) = (Due[i] - paid[i]) + (fee[i] - feePaid[i])
        /\ LateFeeBalance(i) = fee[i] - feePaid[i]
    BY BalancesNat
  <2>8. ToPrincipal(i, a) = Least(Due[i] - paid[i], LeftFor(i, a))
        /\ ToFee(i, a) = Least(fee[i] - feePaid[i], LeftFor(i, a) - ToPrincipal(i, a))
    BY <2>7, Zenon DEF ToPrincipal, ToFee
  <2>9. paid'[i] = paid[i] + ToPrincipal(i, a) /\ feePaid'[i] = feePaid[i] + ToFee(i, a)
    BY <1>1
  <2> QED BY <2>4, <2>5, <2>6, <2>7, <2>8, <2>9 DEF Least
<1>4. paid' \in [Numbers -> Nat] /\ feePaid' \in [Numbers -> Nat]
  BY <1>3 DEF Allocate
<1> QED BY <1>3, <1>4

LEMMA AllocateHeld ==
  ASSUME TypeOK, Bounds, NEW a \in Nat, Allocate(a)
  PROVE  Held' = Held + a
<1> DEFINE H == [i \in Numbers |-> paid[i] + feePaid[i]]
           K == [i \in Numbers |-> paid'[i] + feePaid'[i]]
           T == Taken(Balances, a)
<1>1. Balances \in [Numbers -> Nat]
  BY BalancesNat
<1>2. T \in [Numbers -> Nat]
  BY <1>1, TakenNat
<1>3. \A i \in Numbers : H[i] \in Int /\ T[i] \in Int /\ K[i] = H[i] + T[i]
  BY <1>2, AllocateStep DEF TypeOK
<1>4. Held = SumFunctionOnSet(H, Numbers) /\ Held' = SumFunctionOnSet(K, Numbers)
  BY Zenon DEF Held
<1>5. SumFunctionOnSet(T, Numbers) = a
  <2>1. SumFunctionOnSet(T, Numbers) = Least(a, Owed)
    BY <1>1, Waterfall, Zenon DEF Owed
  <2>2. a <= Owed /\ Owed \in Nat
    BY SumsNat DEF Allocate
  <2> QED BY <2>1, <2>2 DEF Least
<1> HIDE DEF H, K, T
<1>6. SumFunctionOnSet(K, Numbers) = SumFunctionOnSet(H, Numbers) + SumFunctionOnSet(T, Numbers)
  BY ONLY <1>3, NumbersFinite, SumPlus
<1> QED BY <1>4, <1>5, <1>6, Zenon

\* The installments before one that gets something are filled.
LEMMA AllocateOrder ==
  ASSUME TypeOK, Bounds, NEW a \in Nat, Allocate(a),
         NEW j \in Numbers, LeftFor(j, a) > 0, NEW i \in 1..(j - 1)
  PROVE  i \in Numbers /\ paid'[i] = Due[i] /\ feePaid'[i] = fee[i]
<1>1. Balances \in [Numbers -> Nat]
  BY BalancesNat
<1>2. LeftFor(j, a) = Floor0(a - Prefix(Balances, j - 1))
      /\ LeftFor(i, a) = Floor0(a - Prefix(Balances, i - 1))
  BY Zenon DEF LeftFor, Prefix
<1>3. i \in Numbers /\ LeftFor(i, a) >= Balances[i]
  BY <1>1, <1>2, Served
<1>4. LeftFor(i, a) >= InstallmentBalance(i)
  BY <1>3, BalancesNat
<1> QED BY <1>3, <1>4, AllocateStep

-----------------------------------------------------------------------------
(* Types. *)

LEMMA FeesNat ==
  ASSUME NEW f \in [Numbers -> Nat], NEW p \in [Numbers -> Nat]
  PROVE  SumFunctionOnSet([i \in Numbers |-> Floor0(f[i] - p[i])], Numbers) \in Nat
<1> DEFINE F == [i \in Numbers |-> Floor0(f[i] - p[i])]
<1>1. \A i \in Numbers : F[i] \in Nat
  BY DEF Floor0
<1> HIDE DEF F
<1> QED BY ONLY <1>1, NumbersFinite, SumNat DEF F

LEMMA TotalNat == Total \in Nat
  BY NumbersFinite, RepaymentAssumptions, SumNat DEF Total

\* What a save leaves in the loan row.
LEMMA SavedNat ==
  ASSUME fee' \in [Numbers -> Nat], feePaid' \in [Numbers -> Nat], amountPaid' \in Int
  PROVE  RunningBalance' \in Nat /\ FeeDue' \in Nat
<1>1. FeeDue' \in Nat
  BY FeesNat, Zenon DEF FeeDue, LateFeeBalance
<1> QED BY <1>1, TotalNat DEF RunningBalance, Floor0, Total

LEMMA FinishTyped ==
  ASSUME TypeOK, NEW w \in Workers, Finish(w)
  PROVE  /\ lateFee' \in LateFees
         /\ image' \in [Workers -> [status : LoanStatus \cup {"none"},
                                    amountPaid : Nat, remaining : Nat]]
         /\ listed' \in [Numbers -> Marks \cup {"none"}]
         /\ overlapped' \in BOOLEAN
<1>1. NoImage \in [status : LoanStatus \cup {"none"}, amountPaid : Nat, remaining : Nat]
  BY DEF NoImage
<1>2. Nothing \in [Numbers -> Marks \cup {"none"}]
  BY DEF Nothing
<1> QED BY <1>1, <1>2 DEF TypeOK, Finish

LEMMA JobWorks == Job \in Workers /\ Payers \subseteq Workers
  BY DEF Workers

LEMMA ImageTyped ==
  ASSUME TypeOK, NEW w \in Workers
  PROVE  image[w].amountPaid \in Nat /\ image[w].remaining \in Nat
  BY DEF TypeOK

LEMMA InitTyped == Init => TypeOK /\ Bounds
<1> SUFFICES ASSUME Init PROVE TypeOK /\ Bounds
  OBVIOUS
<1>1. TypeOK
  <2>1. NoImage \in [status : LoanStatus \cup {"none"}, amountPaid : Nat, remaining : Nat]
    BY DEF NoImage
  <2>2. Nothing \in [Numbers -> Marks \cup {"none"}]
    BY DEF Nothing
  <2>3. lateFee \in LateFees /\ today \in 0..LastDay
    BY RepaymentAssumptions DEF Init
  <2>4. /\ paid \in [Numbers -> Nat] /\ fee \in [Numbers -> Nat]
        /\ feePaid \in [Numbers -> Nat] /\ mark \in [Numbers -> Marks]
    BY DEF Init, Marks
  <2>5. /\ status \in LoanStatus /\ amountPaid \in Nat /\ repaid \in Nat
        /\ overlapped \in BOOLEAN
    BY DEF Init, LoanStatus
  <2>6. remaining \in Nat
    BY TotalNat, Zenon DEF Init
  <2>7. image = [w \in Workers |-> NoImage] /\ listed = Nothing
    BY Zenon DEF Init
  <2>8. image \in [Workers -> [status : LoanStatus \cup {"none"}, amountPaid : Nat, remaining : Nat]]
    BY <2>1, <2>7, Zenon
  <2> QED BY <2>2, <2>3, <2>4, <2>5, <2>6, <2>7, <2>8, Zenon DEF TypeOK
<1>2. Bounds
  BY RepaymentAssumptions DEF Init, Bounds
<1> QED BY <1>1, <1>2

LEMMA NextTyped == TypeOK /\ Bounds /\ [Next]_vars => TypeOK' /\ Bounds'
<1> SUFFICES ASSUME TypeOK, Bounds, [Next]_vars PROVE TypeOK' /\ Bounds'
  OBVIOUS
<1>1. ASSUME NEW w \in Payers, NEW a \in Amounts, RepayLoan(w, a) PROVE TypeOK' /\ Bounds'
  <2>1. a \in Nat /\ w \in Workers /\ Allocate(a) /\ SaveLoan(image[w].amountPaid + a) /\ Finish(w)
    BY <1>1, RepaymentAssumptions, JobWorks, Zenon DEF RepayLoan
  <2>2. /\ today' = today /\ fee' = fee
        /\ repaid' = repaid + a
    BY <2>1, Zenon DEF Allocate
  <2>3. /\ paid' \in [Numbers -> Nat] /\ feePaid' \in [Numbers -> Nat]
        /\ \A i \in Numbers : paid'[i] <= Due[i] /\ feePaid'[i] <= fee[i]
    BY <2>1, AllocateStep
  <2>4. amountPaid' \in Nat
    BY <2>1, ImageTyped DEF SaveLoan
  <2>5. remaining' \in Nat /\ status' \in LoanStatus
    <3>1. RefreshedStatus' \in LoanStatus
      BY Zenon DEF RefreshedStatus, LoanStatus
    <3>2. fee' \in [Numbers -> Nat]
      BY <2>2 DEF TypeOK
    <3> QED BY <2>1, <2>3, <2>4, <3>1, <3>2, SavedNat DEF SaveLoan
  <2>6. mark' \in [Numbers -> Marks]
    <3>1. \A i \in Numbers : MarkOf(i)' \in Marks
      BY Zenon DEF MarkOf, Marks
    <3>2. \A i \in Numbers : mark[i] \in Marks
      BY DEF TypeOK
    <3>3. mark' = [i \in Numbers |->
             IF LeftFor(i, a) > 0 \/ i \in Overdue' THEN MarkOf(i)' ELSE mark[i]]
      BY <2>1, Zenon DEF Allocate
    <3> QED BY <3>1, <3>2, <3>3, Zenon
  <2>7. Bounds'
    BY <2>2, <2>3 DEF Bounds
  <2> QED BY <2>1, <2>2, <2>3, <2>4, <2>5, <2>6, <2>7, FinishTyped DEF TypeOK
<1>2. ASSUME NEW w \in Workers, ReadLoan(w) PROVE TypeOK' /\ Bounds'
  BY <1>2 DEF ReadLoan, TypeOK, Bounds, schedule, loan
<1>3. ASSUME NEW w \in Workers, GiveUp(w) PROVE TypeOK' /\ Bounds'
  BY <1>3, FinishTyped DEF GiveUp, TypeOK, Bounds, schedule, loan
<1>4. CASE CloseSettled
  BY <1>4, FinishTyped, JobWorks DEF CloseSettled, TypeOK, Bounds, schedule, LoanStatus
<1>5. CASE ListOverdue
  BY <1>5 DEF ListOverdue, TypeOK, Bounds, schedule, loan
<1>6. CASE NoneOverdue
  <2>1. /\ UNCHANGED <<today, schedule, repaid>> /\ Finish(Job)
        /\ amountPaid' = image[Job].amountPaid /\ remaining' = RunningBalance' /\ status' = "ACTIVE"
    BY <1>6, Zenon DEF NoneOverdue, SaveImage
  <2>2. amountPaid' \in Nat
    BY <2>1, ImageTyped, JobWorks
  <2>3. remaining' \in Nat
    BY <2>1, <2>2, SavedNat DEF TypeOK, schedule
  <2> QED BY <2>1, <2>2, <2>3, FinishTyped, JobWorks DEF TypeOK, Bounds, schedule, LoanStatus
<1>7. CASE ChargeOverdue
  <2> DEFINE Charged == {i \in Numbers : listed[i] # "none" /\ fee[i] = 0}
  <2>1. /\ today' = today /\ paid' = paid /\ feePaid' = feePaid /\ repaid' = repaid
        /\ fee' = [i \in Numbers |-> IF i \in Charged THEN lateFee ELSE fee[i]]
        /\ mark' = [i \in Numbers |->
             IF i \in Overdue' THEN "OVERDUE"
             ELSE IF i \in Charged THEN listed[i] ELSE mark[i]]
        /\ amountPaid' = image[Job].amountPaid /\ remaining' = RunningBalance' /\ status' = "OVERDUE"
        /\ Finish(Job)
    BY <1>7, Zenon DEF ChargeOverdue, SaveImage
  <2>2. amountPaid' \in Nat
    BY <2>1, ImageTyped, JobWorks
  <2>3. lateFee \in Nat
    BY RepaymentAssumptions DEF TypeOK
  <2>4. /\ fee' \in [Numbers -> Nat]
        /\ \A i \in Numbers : fee[i] <= fee'[i]
    BY <2>1, <2>3 DEF TypeOK
  <2>5. mark' \in [Numbers -> Marks]
    <3>1. ASSUME NEW i \in Numbers
          PROVE  (IF i \in Overdue' THEN "OVERDUE"
                  ELSE IF i \in Charged THEN listed[i] ELSE mark[i]) \in Marks
      BY DEF TypeOK, Marks
    <3> QED BY <2>1, <3>1
  <2>6. remaining' \in Nat
    BY <2>1, <2>2, <2>4, SavedNat DEF TypeOK
  <2>7. Bounds'
    BY <2>1, <2>4 DEF TypeOK, Bounds
  <2> QED BY <2>1, <2>2, <2>4, <2>5, <2>6, <2>7, FinishTyped, JobWorks DEF TypeOK, LoanStatus
<1>8. CASE DayPasses
  <2>1. today' \in 0..LastDay
    BY <1>8, RepaymentAssumptions DEF DayPasses, TypeOK
  <2> QED BY <1>8, <2>1 DEF DayPasses, TypeOK, Bounds, schedule, loan
<1>9. CASE UNCHANGED vars
  BY <1>9 DEF vars, TypeOK, Bounds
<1> QED BY <1>1, <1>2, <1>3, <1>4, <1>5, <1>6, <1>7, <1>8, <1>9 DEF Next, SyncOverdue

-----------------------------------------------------------------------------
(* What holds however the workers overlap. *)

\* The row's remaining balance is always recomputed; a late fee is charged only
\* after the due date; what the job has listed was overdue, hence not paid, and it
\* lists only when the loan it has read has a balance.
ChargeInv ==
  /\ remaining = RunningBalance
  /\ \A i \in Numbers :
       /\ fee[i] > 0 => i < today /\ lateFee > 0
       /\ listed[i] # "none" => i < today
       /\ listed[i] # "PAID"
  /\ listed # Nothing => image[Job].remaining > 0

\* The parts of InstallmentsSound.
PrincipalFirst ==
  \A j \in Numbers : paid[j] + feePaid[j] > 0 => \A i \in 1..(j - 1) : paid[i] = Due[i]
PaidMarks == \A j \in Numbers : mark[j] = "PAID" => InstallmentBalance(j) = 0
LateStatus == (status # "PAID_OFF" /\ FeeDue > 0) => status = "OVERDUE"

LEMMA SoundParts ==
  InstallmentsSound <=> repaid = Held /\ Bounds /\ PrincipalFirst /\ PaidMarks /\ LateStatus
  BY Zenon DEF InstallmentsSound, Held, Bounds, PrincipalFirst, PaidMarks, LateStatus

\* An installment that is not overdue has no late fee to pay, and one that is owes.
LEMMA OverdueOwes ==
  ASSUME TypeOK, Bounds, ChargeInv
  PROVE  /\ \A i \in Overdue : i \in Numbers /\ i < today /\ InstallmentBalance(i) > 0
         /\ Overdue = {} => FeeDue = 0
<1>1. ASSUME NEW i \in Numbers
      PROVE  /\ i \in Overdue => i < today /\ InstallmentBalance(i) > 0
             /\ i \notin Overdue => LateFeeBalance(i) = 0
  <2>1. /\ InstallmentBalance(i) = (Due[i] - paid[i]) + (fee[i] - feePaid[i])
        /\ LateFeeBalance(i) = fee[i] - feePaid[i]
    BY BalancesNat
  <2>2. /\ Due[i] \in Nat /\ paid[i] \in Nat /\ fee[i] \in Nat /\ feePaid[i] \in Nat
        /\ paid[i] <= Due[i] /\ feePaid[i] <= fee[i]
    BY RepaymentAssumptions DEF TypeOK, Bounds
  <2>3. fee[i] > 0 => i < today
    BY DEF ChargeInv
  <2>4. i \in Overdue <=> i < today /\ (paid[i] < Due[i] \/ feePaid[i] < fee[i])
    BY DEF Overdue
  <2> QED BY <2>1, <2>2, <2>3, <2>4
<1>2. \A i \in Overdue : i \in Numbers
  BY DEF Overdue
<1> QED BY <1>1, <1>2, NothingOwed

LEMMA InitSound == Init => InstallmentsSound /\ ChargeInv
<1> SUFFICES ASSUME Init PROVE InstallmentsSound /\ ChargeInv
  OBVIOUS
<1>1. TypeOK /\ Bounds
  BY InitTyped
<1>2. \A i \in Numbers : paid[i] = 0 /\ fee[i] = 0 /\ feePaid[i] = 0 /\ listed[i] = "none"
                         /\ mark[i] = "PENDING"
  BY DEF Init, Nothing
<1>3. Held = 0 /\ FeeDue = 0
  <2> DEFINE H == [i \in Numbers |-> paid[i] + feePaid[i]]
  <2>1. \A i \in Numbers : H[i] \in Nat /\ H[i] = 0
    BY <1>2
  <2>2. Held = SumFunctionOnSet(H, Numbers)
    BY Zenon DEF Held
  <2> HIDE DEF H
  <2>3. Held = 0
    BY <2>1, <2>2, NumbersFinite, SumZero, Zenon
  <2>4. \A i \in Numbers : LateFeeBalance(i) = 0
    BY <1>2 DEF LateFeeBalance, Floor0
  <2> QED BY <1>1, <2>3, <2>4, NothingOwed
<1>4. remaining = RunningBalance
  <2>1. remaining = Total /\ amountPaid = 0
    BY Zenon DEF Init
  <2> QED BY <1>3, <2>1, TotalNat DEF RunningBalance, Floor0
<1>5. ChargeInv
  <2>1. listed = Nothing
    BY Zenon DEF Init
  <2> QED BY <1>2, <1>4, <2>1 DEF ChargeInv
<1>6. repaid = Held
  BY <1>3, Zenon DEF Init
<1>7. PrincipalFirst /\ PaidMarks /\ LateStatus
  BY <1>2, <1>3 DEF PrincipalFirst, PaidMarks, LateStatus
<1> QED BY <1>1, <1>5, <1>6, <1>7, SoundParts

LEMMA RepayLoanSound ==
  ASSUME TypeOK, InstallmentsSound, ChargeInv, TypeOK', Bounds',
         NEW w \in Payers, NEW a \in Amounts, RepayLoan(w, a)
  PROVE  InstallmentsSound' /\ ChargeInv'
<1>1. /\ a \in Nat /\ w \in Workers /\ w # Job
      /\ Allocate(a) /\ SaveLoan(image[w].amountPaid + a) /\ Finish(w)
  BY RepaymentAssumptions, JobWorks, Zenon DEF RepayLoan
<1>2. Bounds /\ repaid = Held /\ PrincipalFirst /\ PaidMarks
  BY SoundParts
<1>3. /\ today' = today /\ fee' = fee /\ repaid' = repaid + a
      /\ lateFee' = lateFee /\ listed' = listed /\ image' = [image EXCEPT ![w] = NoImage]
  BY <1>1, Zenon DEF Allocate, Finish
<1>4. \A i \in Numbers :
        /\ paid[i] <= paid'[i] /\ paid'[i] <= Due[i]
        /\ LeftFor(i, a) \in Nat
        /\ LeftFor(i, a) = 0 => paid'[i] = paid[i] /\ feePaid'[i] = feePaid[i]
  BY <1>1, <1>2, AllocateStep
<1>5. repaid' = Held'
  BY <1>1, <1>2, <1>3, AllocateHeld, Zenon
<1>6. PrincipalFirst'
  <2> SUFFICES ASSUME NEW j \in Numbers, paid'[j] + feePaid'[j] > 0, NEW i \in 1..(j - 1)
               PROVE  paid'[i] = Due[i]
    BY DEF PrincipalFirst
  <2>1. CASE LeftFor(j, a) > 0
    BY <1>1, <1>2, <2>1, AllocateOrder
  <2>2. CASE LeftFor(j, a) = 0
    <3>1. paid[i] = Due[i] /\ i \in Numbers
      BY <1>2, <1>4, <2>2, NumbersFinite DEF PrincipalFirst, Numbers
    <3>2. paid'[i] \in Nat /\ paid[i] \in Nat /\ Due[i] \in Nat
      BY <3>1, RepaymentAssumptions DEF TypeOK
    <3> QED BY <1>4, <3>1, <3>2
  <2> QED BY <1>4, <2>1, <2>2
<1>7. PaidMarks'
  <2> SUFFICES ASSUME NEW j \in Numbers, mark'[j] = "PAID"
               PROVE  InstallmentBalance(j)' = 0
    BY Zenon DEF PaidMarks
  <2>1. mark'[j] = IF LeftFor(j, a) > 0 \/ j \in Overdue' THEN MarkOf(j)' ELSE mark[j]
    BY <1>1, Zenon DEF Allocate
  <2>2. CASE LeftFor(j, a) > 0 \/ j \in Overdue'
    <3>1. MarkOf(j)' = "PAID"
      BY <2>1, <2>2, Zenon
    <3>2. MarkOf(j)' = "PAID" => InstallmentBalance(j)' = 0
      BY DEF MarkOf
    <3> QED BY <3>1, <3>2
  <2>3. CASE ~(LeftFor(j, a) > 0 \/ j \in Overdue')
    <3>1. InstallmentBalance(j) = 0
      BY <1>2, <2>1, <2>3 DEF PaidMarks
    <3>2. paid'[j] = paid[j] /\ feePaid'[j] = feePaid[j] /\ fee'[j] = fee[j]
      BY <1>3, <1>4, <2>3
    <3> QED BY <3>1, <3>2, Zenon DEF InstallmentBalance, LateFeeBalance
  <2> QED BY <2>2, <2>3
<1>8. LateStatus'
  BY <1>1 DEF LateStatus, SaveLoan, RefreshedStatus
<1>9. ChargeInv'
  <2>1. remaining' = RunningBalance'
    BY <1>1, Zenon DEF SaveLoan
  <2>2. image'[Job] = image[Job]
    BY <1>1, <1>3, JobWorks DEF TypeOK
  <2> QED BY <1>3, <2>1, <2>2, Zenon DEF ChargeInv
<1>10. (InstallmentsSound <=> repaid = Held /\ Bounds /\ PrincipalFirst /\ PaidMarks /\ LateStatus)'
  BY SoundParts, PTL
<1> QED BY <1>5, <1>6, <1>7, <1>8, <1>9, <1>10

\* A step that touches neither the installments nor the loan row.
LEMMA QuietSound ==
  ASSUME TypeOK, InstallmentsSound, ChargeInv,
         UNCHANGED <<lateFee, schedule, repaid>>,
         UNCHANGED <<amountPaid, remaining>>, status' \in {status, "PAID_OFF"}
  PROVE  InstallmentsSound' /\ remaining' = RunningBalance'
<1>1. /\ paid' = paid /\ fee' = fee /\ feePaid' = feePaid /\ mark' = mark
      /\ repaid' = repaid /\ amountPaid' = amountPaid /\ remaining' = remaining
  BY Zenon DEF schedule
<1>2. FeeDue' = FeeDue /\ \A i \in Numbers : InstallmentBalance(i)' = InstallmentBalance(i)
  BY <1>1, Zenon DEF FeeDue, InstallmentBalance, LateFeeBalance
<1>3. Held' = Held
  BY <1>1, Zenon DEF Held
<1>4. repaid' = Held' /\ Bounds' /\ PrincipalFirst' /\ PaidMarks'
  BY <1>1, <1>2, <1>3, SoundParts, Zenon DEF Bounds, PrincipalFirst, PaidMarks
<1>5. LateStatus'
  BY <1>2, SoundParts DEF LateStatus
<1>6. (InstallmentsSound <=> repaid = Held /\ Bounds /\ PrincipalFirst /\ PaidMarks /\ LateStatus)'
  BY SoundParts, PTL
<1>7. remaining' = RunningBalance'
  BY <1>1, <1>2, Zenon DEF ChargeInv, RunningBalance, Total
<1> QED BY <1>4, <1>5, <1>6, <1>7

LEMMA NoneOverdueSound ==
  ASSUME TypeOK, InstallmentsSound, ChargeInv, NoneOverdue
  PROVE  InstallmentsSound' /\ ChargeInv'
<1>1. /\ today' = today /\ paid' = paid /\ fee' = fee /\ feePaid' = feePaid /\ mark' = mark
      /\ repaid' = repaid /\ lateFee' = lateFee
      /\ remaining' = RunningBalance' /\ status' = "ACTIVE"
      /\ Overdue = {} /\ listed' = Nothing
  BY Zenon DEF NoneOverdue, SaveImage, Finish, schedule
<1>2. FeeDue' = FeeDue /\ \A i \in Numbers : InstallmentBalance(i)' = InstallmentBalance(i)
  BY <1>1, Zenon DEF FeeDue, InstallmentBalance, LateFeeBalance
<1>3. Held' = Held
  BY <1>1, Zenon DEF Held
<1>4. FeeDue = 0
  BY <1>1, SoundParts, OverdueOwes
<1>5. repaid' = Held' /\ Bounds' /\ PrincipalFirst' /\ PaidMarks'
  BY <1>1, <1>2, <1>3, SoundParts, Zenon DEF Bounds, PrincipalFirst, PaidMarks
<1>6. LateStatus'
  BY <1>2, <1>4 DEF LateStatus
<1>7. (InstallmentsSound <=> repaid = Held /\ Bounds /\ PrincipalFirst /\ PaidMarks /\ LateStatus)'
  BY SoundParts, PTL
<1>8. ChargeInv'
  <2>1. \A i \in Numbers : listed'[i] = "none"
    BY <1>1 DEF Nothing
  <2> QED BY <1>1, <2>1 DEF ChargeInv
<1> QED BY <1>5, <1>6, <1>7, <1>8

LEMMA ChargeOverdueSound ==
  ASSUME TypeOK, InstallmentsSound, ChargeInv, TypeOK', Bounds', ChargeOverdue
  PROVE  InstallmentsSound' /\ ChargeInv'
<1> DEFINE Charged == {i \in Numbers : listed[i] # "none" /\ fee[i] = 0}
<1>1. /\ today' = today /\ paid' = paid /\ feePaid' = feePaid /\ repaid' = repaid
      /\ fee' = [i \in Numbers |-> IF i \in Charged THEN lateFee ELSE fee[i]]
      /\ mark' = [i \in Numbers |->
           IF i \in Overdue' THEN "OVERDUE"
           ELSE IF i \in Charged THEN listed[i] ELSE mark[i]]
      /\ remaining' = RunningBalance' /\ status' = "OVERDUE"
      /\ lateFee' = lateFee /\ listed' = Nothing
  BY Zenon DEF ChargeOverdue, SaveImage, Finish
<1>2. Held' = Held
  BY <1>1, Zenon DEF Held
<1>3. repaid' = Held' /\ PrincipalFirst' /\ LateStatus'
  BY <1>1, <1>2, SoundParts, Zenon DEF PrincipalFirst, LateStatus
<1>4. PaidMarks'
  <2> SUFFICES ASSUME NEW j \in Numbers, mark'[j] = "PAID"
               PROVE  InstallmentBalance(j)' = 0
    BY Zenon DEF PaidMarks
  <2>1. j \notin Charged /\ mark[j] = "PAID"
    BY <1>1 DEF ChargeInv
  <2>2. fee'[j] = fee[j]
    BY <1>1, <2>1
  <2>3. InstallmentBalance(j) = 0
    BY <2>1, SoundParts DEF PaidMarks
  <2> QED BY <1>1, <2>2, <2>3, Zenon DEF InstallmentBalance, LateFeeBalance
<1>5. ChargeInv'
  <2>1. \A i \in Numbers : listed'[i] = "none"
    BY <1>1 DEF Nothing
  <2>2. ASSUME NEW i \in Numbers, fee'[i] > 0
        PROVE  i < today /\ lateFee > 0
    <3>1. CASE i \in Charged
      BY <1>1, <2>2, <3>1 DEF ChargeInv
    <3>2. CASE i \notin Charged
      BY <1>1, <2>2, <3>2 DEF ChargeInv
    <3> QED BY <3>1, <3>2
  <2> HIDE DEF Charged
  <2> QED BY <1>1, <2>1, <2>2 DEF ChargeInv
<1>6. (InstallmentsSound <=> repaid = Held /\ Bounds /\ PrincipalFirst /\ PaidMarks /\ LateStatus)'
  BY SoundParts, PTL
<1> QED BY <1>3, <1>4, <1>5, <1>6

-----------------------------------------------------------------------------
(* What holds as long as no two workers overlap. *)

\* One worker at most holds an image, and it is the loan row; the row has recorded
\* every repayment; what the job has listed still owes.
SerialInv ==
  /\ \A w \in Workers : image[w] # NoImage =>
       /\ image[w] = [status |-> status, amountPaid |-> amountPaid, remaining |-> remaining]
       /\ \A v \in Workers : image[v] # NoImage => v = w
  /\ OldestFirst
  /\ amountPaid = repaid
  /\ \A i \in Numbers : listed[i] # "none" => InstallmentBalance(i) > 0
  /\ Owed = 0 => status = "PAID_OFF"

IInv == TypeOK /\ InstallmentsSound /\ ChargeInv /\ (~overlapped => SerialInv)

\* Without overlaps, what the row asks for can be placed on the installments.
LEMMA RowBelowOwed ==
  IInv /\ ~overlapped => remaining <= Owed /\ (lateFee = 0 => remaining = Owed)
<1> SUFFICES ASSUME IInv, ~overlapped
             PROVE  remaining <= Owed /\ (lateFee = 0 => remaining = Owed)
  OBVIOUS
<1>1. TypeOK /\ Bounds /\ ChargeInv /\ repaid = Held /\ amountPaid = repaid
  BY SoundParts DEF IInv, SerialInv
<1>2. Owed + Held = (Total + FeeDue) + FeesPaid
  BY <1>1, OwedSplit
<1>3. Owed \in Nat /\ FeeDue \in Nat /\ Total \in Nat /\ Held \in Nat /\ FeesPaid \in Nat
  BY <1>1, SumsNat
<1>4. remaining = Floor0(Total + FeeDue - amountPaid)
  BY <1>1, Zenon DEF ChargeInv, RunningBalance
<1>5. lateFee = 0 => FeesPaid = 0
  <2> SUFFICES ASSUME lateFee = 0 PROVE FeesPaid = 0
    OBVIOUS
  <2>1. \A i \in Numbers : feePaid[i] \in Nat /\ feePaid[i] = 0
    BY <1>1 DEF TypeOK, Bounds, ChargeInv
  <2> QED BY <2>1, NumbersFinite, SumZero, Zenon DEF FeesPaid
<1> QED BY <1>1, <1>2, <1>3, <1>4, <1>5 DEF Floor0

LEMMA InitSerial == Init => SerialInv
<1> SUFFICES ASSUME Init PROVE SerialInv
  OBVIOUS
<1>1. TypeOK /\ Bounds
  BY InitTyped
<1>2. \A i \in Numbers : paid[i] = 0 /\ fee[i] = 0 /\ feePaid[i] = 0 /\ listed[i] = "none"
  BY DEF Init, Nothing
<1>3. \A w \in Workers : image[w] = NoImage
  BY DEF Init
<1>4. OldestFirst
  BY <1>2 DEF OldestFirst
<1>5. Owed # 0
  <2>1. PICK i \in Numbers : Due[i] > 0
    BY RepaymentAssumptions
  <2>2. InstallmentBalance(i) > 0
    <3>1. paid[i] = 0 /\ fee[i] = 0 /\ feePaid[i] = 0 /\ Due[i] \in Nat
      BY <1>2, RepaymentAssumptions
    <3>2. InstallmentBalance(i) = (Due[i] - paid[i]) + (fee[i] - feePaid[i])
      BY <1>1, BalancesNat
    <3> QED BY <2>1, <3>1, <3>2
  <2> QED BY <1>1, <2>2, NothingOwed
<1>6. amountPaid = repaid
  BY Zenon DEF Init
<1> QED BY <1>2, <1>3, <1>4, <1>5, <1>6, Zenon DEF SerialInv

\* A worker that finishes leaves no image behind.
LEMMA FinishAlone ==
  ASSUME TypeOK, SerialInv, NEW w \in Workers, image[w] # NoImage, Finish(w)
  PROVE  \A v \in Workers : image'[v] = NoImage
  BY DEF TypeOK, SerialInv, Finish

\* The job has listed something only while it holds an image.
LEMMA ListingHolds ==
  ASSUME ChargeInv, listed # Nothing
  PROVE  image[Job] # NoImage /\ image[Job].remaining > 0
  BY DEF ChargeInv, NoImage

LEMMA RepayLoanSerial ==
  ASSUME IInv, ~overlapped, TypeOK', InstallmentsSound',
         NEW w \in Payers, NEW a \in Amounts, RepayLoan(w, a)
  PROVE  SerialInv'
<1>1. TypeOK /\ Bounds /\ ChargeInv /\ SerialInv
  BY SoundParts DEF IInv
<1>2. /\ a \in Nat /\ w \in Workers /\ w # Job /\ image[w] # NoImage
      /\ Allocate(a) /\ SaveLoan(image[w].amountPaid + a) /\ Finish(w)
  BY RepaymentAssumptions, JobWorks, Zenon DEF RepayLoan
<1>3. fee' = fee /\ repaid' = repaid + a /\ listed' = listed
  BY <1>2, Zenon DEF Allocate, Finish
<1>4. \A v \in Workers : image'[v] = NoImage
  BY <1>1, <1>2, FinishAlone, Zenon
<1>5. \A i \in Numbers : listed'[i] = "none"
  <2>1. image[Job] = NoImage
    BY <1>1, <1>2, JobWorks, Zenon DEF SerialInv
  <2>2. listed = Nothing
    BY <1>1, <2>1, ListingHolds, Zenon
  <2> QED BY <1>3, <2>2 DEF Nothing
<1>6. amountPaid' = repaid'
  <2>1. image[w].amountPaid = amountPaid
    BY <1>1, <1>2 DEF SerialInv
  <2>2. amountPaid' = image[w].amountPaid + a
    BY <1>2, Zenon DEF SaveLoan
  <2> QED BY <1>1, <1>3, <2>1, <2>2, Zenon DEF SerialInv
<1>7. (TypeOK /\ Bounds =>
        /\ Balances \in [Numbers -> Nat]
        /\ \A i \in Numbers :
             /\ Balances[i] = InstallmentBalance(i) /\ InstallmentBalance(i) \in Nat
             /\ LateFeeBalance(i) = fee[i] - feePaid[i] /\ LateFeeBalance(i) \in Nat
             /\ InstallmentBalance(i) = (Due[i] - paid[i]) + (fee[i] - feePaid[i]))'
  BY BalancesNat, PTL
<1>8. (InstallmentsSound <=> repaid = Held /\ Bounds /\ PrincipalFirst /\ PaidMarks /\ LateStatus)'
  BY SoundParts, PTL
<1>9. OldestFirst'
  <2> SUFFICES ASSUME NEW j \in Numbers, paid'[j] + feePaid'[j] > 0, NEW i \in 1..(j - 1)
               PROVE  InstallmentBalance(i)' = 0
    BY DEF OldestFirst
  <2>1. /\ LeftFor(j, a) \in Nat
        /\ LeftFor(j, a) = 0 => paid'[j] = paid[j] /\ feePaid'[j] = feePaid[j]
    BY <1>1, <1>2, AllocateStep
  <2>2. i \in Numbers
    BY NumbersFinite DEF Numbers
  <2>3. InstallmentBalance(i)' = (Due[i] - paid'[i]) + (fee'[i] - feePaid'[i])
    BY <1>7, <1>8, <2>2
  <2>4. Due[i] \in Nat /\ fee[i] \in Nat /\ paid[i] \in Nat /\ feePaid[i] \in Nat
    BY <1>1, <2>2, RepaymentAssumptions DEF TypeOK
  <2>5. CASE LeftFor(j, a) > 0
    <3>1. paid'[i] = Due[i] /\ feePaid'[i] = fee[i]
      BY <1>1, <1>2, <2>5, AllocateOrder
    <3> QED BY <1>3, <2>3, <2>4, <3>1
  <2>6. CASE LeftFor(j, a) = 0
    <3>1. InstallmentBalance(i) = 0
      BY <1>1, <2>1, <2>6 DEF SerialInv, OldestFirst
    <3>2. LeftFor(i, a) \in Nat /\
          (LeftFor(i, a) >= InstallmentBalance(i) => paid'[i] = Due[i] /\ feePaid'[i] = fee[i])
      BY <1>1, <1>2, <2>2, AllocateStep
    <3>3. paid'[i] = Due[i] /\ feePaid'[i] = fee[i]
      BY <3>1, <3>2
    <3> QED BY <1>3, <2>3, <2>4, <3>3
  <2> QED BY <2>1, <2>5, <2>6
<1>10. Owed' = 0 => status' = "PAID_OFF"
  <2> SUFFICES ASSUME Owed' = 0 PROVE status' = "PAID_OFF"
    OBVIOUS
  <2>1. (TypeOK /\ Bounds => Owed + Held = (Total + FeeDue) + FeesPaid)'
    BY OwedSplit, PTL
  <2>2. (TypeOK /\ Bounds =>
          Owed \in Nat /\ FeeDue \in Nat /\ Total \in Nat /\ Held \in Nat /\ FeesPaid \in Nat)'
    BY SumsNat, PTL
  <2>3. repaid' = Held'
    BY <1>8
  <2>4. RunningBalance' = Floor0(Total' + FeeDue' - amountPaid')
    BY Zenon DEF RunningBalance
  <2>5. RunningBalance' = 0
    BY <1>6, <1>8, <2>1, <2>2, <2>3, <2>4 DEF Floor0
  <2> QED BY <1>2, <2>5, Zenon DEF SaveLoan, RefreshedStatus
<1> QED BY <1>4, <1>5, <1>6, <1>9, <1>10, Zenon DEF SerialInv

LEMMA NoneOverdueSerial ==
  ASSUME IInv, ~overlapped, NoneOverdue
  PROVE  SerialInv'
<1>1. TypeOK /\ Bounds /\ ChargeInv /\ SerialInv
  BY SoundParts DEF IInv
<1>2. /\ paid' = paid /\ fee' = fee /\ feePaid' = feePaid /\ repaid' = repaid
      /\ image[Job].remaining > 0 /\ Finish(Job) /\ listed' = Nothing
      /\ amountPaid' = image[Job].amountPaid
  BY Zenon DEF NoneOverdue, SaveImage, Finish, schedule
<1>3. image[Job] # NoImage
  BY <1>2 DEF NoImage
<1>4. \A v \in Workers : image'[v] = NoImage
  BY <1>1, <1>2, <1>3, JobWorks, FinishAlone, Zenon
<1>5. \A i \in Numbers : listed'[i] = "none"
  BY <1>2 DEF Nothing
<1>6. image[Job].amountPaid = amountPaid /\ image[Job].remaining = remaining
  BY <1>1, <1>3, JobWorks DEF SerialInv
<1>7. amountPaid' = repaid'
  BY <1>1, <1>2, <1>6, Zenon DEF SerialInv
<1>8. \A i \in Numbers : InstallmentBalance(i)' = InstallmentBalance(i)
  BY <1>2, Zenon DEF InstallmentBalance, LateFeeBalance
<1>9. OldestFirst'
  BY <1>1, <1>2, <1>8, NumbersFinite DEF SerialInv, OldestFirst, Numbers
<1>10. Owed' = Owed
  BY <1>2, Zenon DEF Owed, Balances, InstallmentBalance, LateFeeBalance
<1>11. Owed # 0
  BY <1>1, <1>2, <1>6, RowBelowOwed, SumsNat DEF TypeOK
<1> QED BY <1>4, <1>5, <1>7, <1>9, <1>10, <1>11, Zenon DEF SerialInv

LEMMA ChargeOverdueSerial ==
  ASSUME IInv, ~overlapped, TypeOK', InstallmentsSound', ChargeOverdue
  PROVE  SerialInv'
<1> DEFINE Charged == {i \in Numbers : listed[i] # "none" /\ fee[i] = 0}
<1>1. TypeOK /\ Bounds /\ ChargeInv /\ SerialInv
  BY SoundParts DEF IInv
<1>2. /\ paid' = paid /\ feePaid' = feePaid /\ repaid' = repaid
      /\ fee' = [i \in Numbers |-> IF i \in Charged THEN lateFee ELSE fee[i]]
      /\ Finish(Job) /\ listed # Nothing /\ listed' = Nothing
      /\ amountPaid' = image[Job].amountPaid
  BY Zenon DEF ChargeOverdue, SaveImage, Finish
<1>3. image[Job] # NoImage /\ image[Job].remaining > 0
  BY <1>1, <1>2, ListingHolds, Zenon
<1>4. \A v \in Workers : image'[v] = NoImage
  BY <1>1, <1>2, <1>3, JobWorks, FinishAlone, Zenon
<1>5. \A i \in Numbers : listed'[i] = "none"
  BY <1>2 DEF Nothing
<1>6. image[Job].amountPaid = amountPaid /\ image[Job].remaining = remaining
  BY <1>1, <1>3, JobWorks DEF SerialInv
<1>7. amountPaid' = repaid'
  BY <1>1, <1>2, <1>6, Zenon DEF SerialInv
<1>8. ASSUME NEW i \in Numbers, InstallmentBalance(i) = 0
      PROVE  InstallmentBalance(i)' = 0
  <2>1. i \notin Charged
    BY <1>1, <1>8 DEF SerialInv
  <2>2. fee'[i] = fee[i]
    BY <1>2, <2>1
  <2> QED BY <1>2, <1>8, <2>2, Zenon DEF InstallmentBalance, LateFeeBalance
<1>9. OldestFirst'
  <2> SUFFICES ASSUME NEW j \in Numbers, paid'[j] + feePaid'[j] > 0, NEW i \in 1..(j - 1)
               PROVE  InstallmentBalance(i)' = 0
    BY DEF OldestFirst
  <2>1. i \in Numbers
    BY NumbersFinite DEF Numbers
  <2>2. InstallmentBalance(i) = 0
    BY <1>1, <1>2 DEF SerialInv, OldestFirst
  <2> QED BY <1>8, <2>1, <2>2
<1>10. (TypeOK /\ Bounds =>
        /\ Owed = 0 <=> \A i \in Numbers : InstallmentBalance(i) = 0
        /\ FeeDue = 0 <=> \A i \in Numbers : LateFeeBalance(i) = 0)'
  BY NothingOwed, PTL
<1>11. Owed' # 0
  <2>1. PICK k \in Numbers : InstallmentBalance(k) # 0
    <3>1. Owed # 0
      BY <1>1, <1>3, <1>6, RowBelowOwed, SumsNat DEF TypeOK
    <3> QED BY <1>1, <3>1, NothingOwed
  <2>2. /\ Due[k] \in Nat /\ paid[k] \in Nat /\ fee[k] \in Nat /\ feePaid[k] \in Nat
        /\ lateFee \in Nat /\ fee'[k] \in Nat /\ fee[k] <= fee'[k]
    BY <1>1, <1>2, RepaymentAssumptions DEF TypeOK
  <2>3. InstallmentBalance(k)' # 0
    <3>1. paid[k] <= Due[k] /\ feePaid[k] <= fee[k]
      BY <1>1 DEF Bounds
    <3>2. InstallmentBalance(k) = (Due[k] - paid[k]) + (fee[k] - feePaid[k])
      BY <1>1, BalancesNat
    <3>3. InstallmentBalance(k)' = (Due[k] - paid[k]) + Floor0(fee'[k] - feePaid[k])
      BY <1>2, Zenon DEF InstallmentBalance, LateFeeBalance
    <3>4. fee'[k] - feePaid[k] >= fee[k] - feePaid[k] /\ fee[k] - feePaid[k] >= 0
      BY <2>2, <3>1
    <3>5. Floor0(fee'[k] - feePaid[k]) = fee'[k] - feePaid[k]
      BY <2>2, <3>4 DEF Floor0
    <3>6. (Due[k] - paid[k]) + (fee[k] - feePaid[k]) # 0
      BY <2>1, <3>2
    <3>7. (Due[k] - paid[k]) + (fee'[k] - feePaid[k]) # 0
      BY <2>2, <3>1, <3>4, <3>6
    <3> QED BY <3>3, <3>5, <3>7
  <2>4. (InstallmentsSound <=> repaid = Held /\ Bounds /\ PrincipalFirst /\ PaidMarks /\ LateStatus)'
    BY SoundParts, PTL
  <2> QED BY <1>10, <2>3, <2>4
<1> QED BY <1>4, <1>5, <1>7, <1>9, <1>11, Zenon DEF SerialInv

-----------------------------------------------------------------------------
(* The invariant. *)

LEMMA InitIInv == Init => IInv
  BY InitTyped, InitSound, InitSerial DEF IInv

LEMMA NextIInv == IInv /\ [Next]_vars => IInv'
<1> SUFFICES ASSUME IInv, [Next]_vars PROVE IInv'
  OBVIOUS
<1>1. TypeOK /\ InstallmentsSound /\ ChargeInv /\ (~overlapped => SerialInv) /\ Bounds
  BY SoundParts DEF IInv
<1>2. TypeOK' /\ Bounds'
  BY <1>1, NextTyped
<1>3. ASSUME NEW w \in Payers, NEW a \in Amounts, RepayLoan(w, a) PROVE IInv'
  <2>1. InstallmentsSound' /\ ChargeInv'
    BY <1>1, <1>2, <1>3, RepayLoanSound
  <2>2. overlapped' = overlapped
    BY <1>3, Zenon DEF RepayLoan, Finish
  <2>3. ~overlapped => SerialInv'
    BY <1>2, <1>3, <2>1, RepayLoanSerial
  <2> QED BY <1>2, <2>1, <2>2, <2>3, Zenon DEF IInv
<1>4. ASSUME NEW w \in Workers, ReadLoan(w) PROVE IInv'
  <2>1. /\ image[w] = NoImage /\ UNCHANGED <<lateFee, schedule, repaid>>
        /\ UNCHANGED <<amountPaid, remaining>> /\ status' = status
        /\ today' = today /\ listed' = listed
        /\ paid' = paid /\ fee' = fee /\ feePaid' = feePaid
        /\ image' = [image EXCEPT ![w] =
             [status |-> status, amountPaid |-> amountPaid, remaining |-> remaining]]
        /\ overlapped' = (overlapped \/ image # [v \in Workers |-> NoImage])
    BY <1>4, Zenon DEF ReadLoan, schedule, loan
  <2>2. InstallmentsSound' /\ remaining' = RunningBalance'
    BY <1>1, <2>1, QuietSound
  <2>3. ChargeInv'
    <3>1. listed # Nothing => image'[Job].remaining > 0
      <4> SUFFICES ASSUME listed # Nothing PROVE image'[Job].remaining > 0
        OBVIOUS
      <4>1. image[Job] # NoImage /\ image[Job].remaining > 0
        BY <1>1, ListingHolds, Zenon
      <4> QED BY <1>1, <2>1, <4>1, JobWorks DEF TypeOK
    <3> QED BY <1>1, <2>1, <2>2, <3>1, Zenon DEF ChargeInv
  <2>4. ASSUME ~overlapped' PROVE SerialInv'
    <3>1. ~overlapped /\ image = [v \in Workers |-> NoImage]
      BY <2>1, <2>4, Zenon
    <3>2. \A v \in Workers : v # w => image'[v] = NoImage
      BY <1>1, <2>1, <3>1 DEF TypeOK
    <3>3. image'[w] = [status |-> status', amountPaid |-> amountPaid', remaining |-> remaining']
      BY <1>1, <2>1 DEF TypeOK
    <3>4. Owed' = Owed /\ \A i \in Numbers : InstallmentBalance(i)' = InstallmentBalance(i)
      BY <2>1, Zenon DEF Owed, Balances, InstallmentBalance, LateFeeBalance
    <3>5. OldestFirst'
      BY <1>1, <2>1, <3>1, <3>4, NumbersFinite DEF SerialInv, OldestFirst, Numbers
    <3>6. amountPaid' = repaid' /\ \A i \in Numbers : listed'[i] # "none" => InstallmentBalance(i)' > 0
      BY <1>1, <2>1, <3>1, <3>4 DEF SerialInv
    <3>7. Owed' = 0 => status' = "PAID_OFF"
      BY <1>1, <2>1, <3>1, <3>4 DEF SerialInv
    <3> QED BY <3>2, <3>3, <3>5, <3>6, <3>7, Zenon DEF SerialInv
  <2> QED BY <1>2, <2>2, <2>3, <2>4, Zenon DEF IInv
<1>5. ASSUME NEW w \in Workers, image[w] # NoImage, Finish(w),
             UNCHANGED <<today, schedule, repaid>>, UNCHANGED <<amountPaid, remaining>>,
             status' \in {status, "PAID_OFF"}
      PROVE  IInv'
  <2>1. /\ paid' = paid /\ fee' = fee /\ feePaid' = feePaid /\ repaid' = repaid
        /\ today' = today /\ amountPaid' = amountPaid /\ remaining' = remaining
        /\ lateFee' = lateFee /\ overlapped' = overlapped
        /\ image' = [image EXCEPT ![w] = NoImage]
        /\ listed' = IF w = Job THEN Nothing ELSE listed
    BY <1>5, Zenon DEF Finish, schedule
  <2>2. UNCHANGED <<lateFee, schedule, repaid>>
    BY <1>5, <2>1
  <2>3. InstallmentsSound' /\ remaining' = RunningBalance'
    BY <1>1, <1>5, <2>2, QuietSound
  <2>4. \A i \in Numbers : listed'[i] \in {listed[i], "none"}
    BY <2>1 DEF Nothing
  <2>5. ChargeInv'
    <3>1. listed' # Nothing => image'[Job].remaining > 0
      BY <1>1, <2>1, JobWorks DEF ChargeInv, TypeOK
    <3> QED BY <1>1, <2>1, <2>3, <2>4, <3>1 DEF ChargeInv
  <2>6. ASSUME ~overlapped PROVE SerialInv'
    <3>1. SerialInv
      BY <1>1, <2>6
    <3>2. \A v \in Workers : image'[v] = NoImage
      BY <1>1, <1>5, <3>1, FinishAlone, Zenon
    <3>3. Owed' = Owed /\ \A i \in Numbers : InstallmentBalance(i)' = InstallmentBalance(i)
      BY <2>1, Zenon DEF Owed, Balances, InstallmentBalance, LateFeeBalance
    <3>4. OldestFirst'
      BY <2>1, <3>1, <3>3, NumbersFinite DEF SerialInv, OldestFirst, Numbers
    <3>5. amountPaid' = repaid' /\ \A i \in Numbers : listed'[i] # "none" => InstallmentBalance(i)' > 0
      BY <2>1, <2>4, <3>1, <3>3 DEF SerialInv
    <3>6. Owed' = 0 => status' = "PAID_OFF"
      BY <1>5, <3>1, <3>3 DEF SerialInv
    <3> QED BY <3>2, <3>4, <3>5, <3>6, Zenon DEF SerialInv
  <2> QED BY <1>2, <2>1, <2>3, <2>5, <2>6, Zenon DEF IInv
<1>6. ASSUME NEW w \in Workers, GiveUp(w) PROVE IInv'
  BY <1>5, <1>6, Zenon DEF GiveUp, loan
<1>7. CASE CloseSettled
  BY <1>5, <1>7, JobWorks, Zenon DEF CloseSettled
<1>8. CASE ListOverdue
  <2>1. /\ UNCHANGED <<lateFee, schedule, repaid>> /\ UNCHANGED <<amountPaid, remaining>>
        /\ status' = status /\ today' = today /\ image' = image /\ overlapped' = overlapped
        /\ paid' = paid /\ fee' = fee /\ feePaid' = feePaid
        /\ image[Job].remaining > 0
        /\ listed' = [i \in Numbers |-> IF i \in Overdue THEN mark[i] ELSE "none"]
    BY <1>8, Zenon DEF ListOverdue, schedule, loan
  <2>2. InstallmentsSound' /\ remaining' = RunningBalance'
    BY <1>1, <2>1, QuietSound
  <2>3. \A i \in Numbers : listed'[i] # "none" =>
          listed'[i] = mark[i] /\ i < today /\ InstallmentBalance(i) > 0
    BY <1>1, <2>1, OverdueOwes
  <2>4. \A i \in Numbers : listed'[i] # "PAID"
    BY <1>1, <2>3, SoundParts DEF PaidMarks
  <2>5. ChargeInv'
    BY <1>1, <2>1, <2>2, <2>3, <2>4 DEF ChargeInv
  <2>6. ASSUME ~overlapped PROVE SerialInv'
    <3>1. SerialInv
      BY <1>1, <2>6
    <3>2. Owed' = Owed /\ \A i \in Numbers : InstallmentBalance(i)' = InstallmentBalance(i)
      BY <2>1, Zenon DEF Owed, Balances, InstallmentBalance, LateFeeBalance
    <3>3. OldestFirst'
      BY <2>1, <3>1, <3>2, NumbersFinite DEF SerialInv, OldestFirst, Numbers
    <3>4. amountPaid' = repaid' /\ \A i \in Numbers : listed'[i] # "none" => InstallmentBalance(i)' > 0
      BY <2>1, <2>3, <3>1, <3>2 DEF SerialInv
    <3>5. Owed' = 0 => status' = "PAID_OFF"
      BY <2>1, <3>1, <3>2 DEF SerialInv
    <3>6. amountPaid' = amountPaid /\ remaining' = remaining
      BY <2>1
    <3>7. \A v \in Workers : image'[v] # NoImage =>
            /\ image'[v] = [status |-> status', amountPaid |-> amountPaid', remaining |-> remaining']
            /\ \A u \in Workers : image'[u] # NoImage => u = v
      BY <2>1, <3>1, <3>6, Zenon DEF SerialInv
    <3> QED BY <3>3, <3>4, <3>5, <3>7, Zenon DEF SerialInv
  <2> QED BY <1>2, <2>1, <2>2, <2>5, <2>6, Zenon DEF IInv
<1>9. CASE NoneOverdue
  <2>1. InstallmentsSound' /\ ChargeInv'
    BY <1>1, <1>9, NoneOverdueSound
  <2>2. overlapped' = overlapped
    BY <1>9, Zenon DEF NoneOverdue, Finish
  <2>3. ~overlapped => SerialInv'
    BY <1>9, NoneOverdueSerial
  <2> QED BY <1>2, <2>1, <2>2, <2>3, Zenon DEF IInv
<1>10. CASE ChargeOverdue
  <2>1. InstallmentsSound' /\ ChargeInv'
    BY <1>1, <1>2, <1>10, ChargeOverdueSound
  <2>2. overlapped' = overlapped
    BY <1>10, Zenon DEF ChargeOverdue, Finish
  <2>3. ~overlapped => SerialInv'
    BY <1>2, <1>10, <2>1, ChargeOverdueSerial
  <2> QED BY <1>2, <2>1, <2>2, <2>3, Zenon DEF IInv
<1>11. CASE DayPasses \/ UNCHANGED vars
  <2>1. /\ UNCHANGED <<lateFee, schedule, repaid>> /\ UNCHANGED <<amountPaid, remaining>>
        /\ lateFee' = lateFee /\ repaid' = repaid
        /\ amountPaid' = amountPaid /\ remaining' = remaining
        /\ status' = status /\ image' = image /\ listed' = listed /\ overlapped' = overlapped
        /\ paid' = paid /\ fee' = fee /\ feePaid' = feePaid
    BY <1>11, Zenon DEF DayPasses, vars, schedule, loan
  <2>2. InstallmentsSound' /\ remaining' = RunningBalance'
    BY <1>1, <2>1, QuietSound
  <2>3. \A i \in Numbers : i < today => i < today'
    BY <1>1, <1>11 DEF DayPasses, vars, TypeOK, Numbers
  <2>4. ChargeInv'
    BY <1>1, <2>1, <2>2, <2>3 DEF ChargeInv
  <2>5. ASSUME ~overlapped PROVE SerialInv'
    <3>1. SerialInv
      BY <1>1, <2>5
    <3>2. Owed' = Owed /\ \A i \in Numbers : InstallmentBalance(i)' = InstallmentBalance(i)
      BY <2>1, Zenon DEF Owed, Balances, InstallmentBalance, LateFeeBalance
    <3>3. OldestFirst'
      BY <2>1, <3>1, <3>2, NumbersFinite DEF SerialInv, OldestFirst, Numbers
    <3> QED BY <2>1, <3>1, <3>2, <3>3, Zenon DEF SerialInv
  <2> QED BY <1>2, <2>1, <2>2, <2>4, <2>5, Zenon DEF IInv
<1> QED BY <1>3, <1>4, <1>6, <1>7, <1>8, <1>9, <1>10, <1>11 DEF Next, SyncOverdue

-----------------------------------------------------------------------------
(* The theorems. *)

\* Every variable keeps its type; no balance of an installment or of the loan row
\* is ever negative.
THEOREM TypeCorrect == Spec => []TypeOK
<1>1. IInv => TypeOK
  BY DEF IInv
<1> QED BY <1>1, InitIInv, NextIInv, PTL DEF Spec

\* Whoever overlaps whom, the installments hold exactly what was repaid, oldest
\* principal first and never more than is due, and PAID marks and the late-fee
\* status are right.
THEOREM InstallmentsStaySound == Spec => []InstallmentsSound
<1>1. IInv => InstallmentsSound
  BY DEF IInv
<1> QED BY <1>1, InitIInv, NextIInv, PTL DEF Spec

\* Calls that come one after another keep the loan row and the installments in step:
\* nothing repaid is forgotten, late fees are settled in order, what the row asks for
\* can be placed, and a loan with nothing owed is closed.
THEOREM SerialCallsSound == Spec => []SerialSound
<1>1. IInv => SerialSound
  <2> SUFFICES ASSUME IInv, ~overlapped
               PROVE  /\ OldestFirst
                      /\ amountPaid = repaid
                      /\ remaining <= Owed /\ (lateFee = 0 => remaining = Owed)
                      /\ Owed = 0 => status = "PAID_OFF"
    BY DEF SerialSound
  <2>1. SerialInv
    BY DEF IInv
  <2> QED BY <2>1, RowBelowOwed, Zenon DEF SerialInv
<1> QED BY <1>1, InitIInv, NextIInv, PTL DEF Spec
=============================================================================

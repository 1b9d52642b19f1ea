------------------------------ MODULE LoanTerms ------------------------------
(***************************************************************************)
(* The arithmetic of a loan's terms in finance/services/loan_service.py:   *)
(* its interest, its due date and its installments.                        *)
(*                                                                         *)
(* Amounts are natural numbers of cents, rates hundredths of a percent.  A *)
(* date is a month, counted from January of a leap year, and a day of it.  *)
(* Terms are those of a loan product: amount, rate, unit and count of its  *)
(* duration.                                                               *)
(***************************************************************************)
EXTENDS Integers, Sequences, FiniteSets, Functions

CONSTANT LastMonth  \* bound on the calendar

Months == 0..LastMonth
Units  == {"DAYS", "WEEKS", "MONTHS"}
Terms  == [amount : Nat, rate : Nat, unit : Units, count : Nat]

ASSUME LoanTermsAssumptions == LastMonth \in Nat

\* Decimal.quantize: to the nearest, ties to even.
Round(a, b) ==
  LET q == a \div b
      r == a % b
  IN IF 2 * r > b \/ (2 * r = b /\ q % 2 = 1) THEN q + 1 ELSE q

Interest(t) == Round(t.amount * t.rate, 10000)
TotalRepayment(t) == t.amount + Interest(t)

-----------------------------------------------------------------------------
\* calendar.monthrange
DaysIn(m) ==
  CASE m % 12 \in {3, 5, 8, 10} -> 30
    [] m % 12 = 1 -> IF (m \div 12) % 4 = 0 THEN 29 ELSE 28
    [] OTHER -> 31

Dates == {d \in [month : Months, day : 1..31] : d.day <= DaysIn(d.month)}

Lengths  == [m \in Months |-> DaysIn(m)]
FirstDay == [m \in Months |-> SumFunctionOnSet(Lengths, 0..(m - 1))]
Ordinal(d) == FirstDay[d.month] + d.day
Before(d, e) == d.month < e.month \/ (d.month = e.month /\ d.day < e.day)

\* date + timedelta
AddDays(d, n) ==
  LET o == Ordinal(d) + n
      m == CHOOSE m \in Months : FirstDay[m] < o /\ o <= FirstDay[m] + DaysIn(m)
  IN [month |-> m, day |-> o - FirstDay[m]]

\* _add_months clips the day to the length of the month.
AddMonthsUnclipped(d, n) == [month |-> d.month + n, day |-> d.day]
AddMonths(d, n) ==
  [month |-> d.month + n,
   day   |-> IF d.day <= DaysIn(d.month + n) THEN d.day ELSE DaysIn(d.month + n)]

After(d, unit, n) ==
  CASE unit = "DAYS"   -> AddDays(d, n)
    [] unit = "WEEKS"  -> AddDays(d, 7 * n)
    [] unit = "MONTHS" -> AddMonths(d, n)

\* _get_due_date_from_product
DueDate(t, today) == After(today, t.unit, t.count)

\* _generate_installments: equal rounded shares, the last one the remainder.
InstallmentCount(t) == IF t.count = 0 THEN 1 ELSE t.count
Share(total, n) == Round(total, n)
AmountDueEqual(total, n, i) == Share(total, n)
AmountDue(total, n, i) ==
  IF i = n THEN total - (n - 1) * Share(total, n) ELSE Share(total, n)

Installments(total, t, start) ==
  LET n == InstallmentCount(t)
  IN [i \in 1..n |-> [amount |-> AmountDue(total, n, i), due |-> After(start, t.unit, i)]]

\* The last installment of terms that start on day d falls within the calendar.
LastDay == [month |-> LastMonth, day |-> DaysIn(LastMonth)]
Reaches(d, t) ==
  LET n == InstallmentCount(t)
  IN CASE t.unit = "DAYS"   -> Ordinal(d) + n <= Ordinal(LastDay)
       [] t.unit = "WEEKS"  -> Ordinal(d) + 7 * n <= Ordinal(LastDay)
       [] t.unit = "MONTHS" -> d.month + n <= LastMonth

=============================================================================

--------------------------- MODULE FinancingQuote ---------------------------
(***************************************************************************)
(* The quote that saveFinancingDetails computes for a package and a plan:  *)
(* deposit, interest and monthly payment are rounded one by one.  Rates    *)
(* are in percent.  The products of the source are of floating point; with *)
(* the prices of the packages each is an integer or far from a half but    *)
(* for an error that the rounding removes.                                 *)
(***************************************************************************)
EXTENDS Integers

CngPackages == [A |-> 85000, B |-> 110000, C |-> 140000, D |-> 200000]

\* A tenure of 0 is the null of the full payment.
CngFinancingPlans ==
    [full   |-> [depositPct |-> 100, tenure |-> 0, interestPct |-> 0],
     gold   |-> [depositPct |-> 50, tenure |-> 6, interestPct |-> 10],
     silver |-> [depositPct |-> 20, tenure |-> 10, interestPct |-> 15],
     bronze |-> [depositPct |-> 10, tenure |-> 12, interestPct |-> 20]]

PackageId == {"A", "B", "C", "D"}
PlanId == {"full", "gold", "silver", "bronze"}

-----------------------------------------------------------------------------
\* Math.round of a quotient that is not negative: halves go up.
RoundedQuotient(a, b) == (2 * a + b) \div (2 * b)

Deposit(price, plan) == RoundedQuotient(price * plan.depositPct, 100)
Financed(price, plan) == price - Deposit(price, plan)
Interest(price, plan) == RoundedQuotient(price * plan.interestPct, 100)
TotalCost(price, plan) == price + Interest(price, plan)

\* Mutant: the interest is not part of what is paid off.
MonthlyPaymentOfPrice(price, plan) ==
    IF plan.tenure = 0 THEN 0 ELSE RoundedQuotient(Financed(price, plan), plan.tenure)

MonthlyPayment(price, plan) ==
    IF plan.tenure = 0 THEN 0
    ELSE RoundedQuotient(Financed(price, plan) + Interest(price, plan), plan.tenure)

-----------------------------------------------------------------------------
\* The columns that saveFinancingDetails computes.
QuoteAt(price, planId) ==
    LET plan == CngFinancingPlans[planId]
    IN  [plan |-> planId, price |-> price,
         deposit |-> Deposit(price, plan), financed |-> Financed(price, plan),
         interest |-> Interest(price, plan), monthly |-> MonthlyPayment(price, plan),
         total |-> TotalCost(price, plan)]

QuoteOf(packageId, planId) == QuoteAt(CngPackages[packageId], planId)

-----------------------------------------------------------------------------
\* What the applicant pays, deposit and monthly payments together, is the total
\* cost but for half a naira a month that the rounding of the payments adds or
\* takes; nothing of it is negative, and who pays in full pays the price.
AddsUp(quote) ==
    LET tenure == CngFinancingPlans[quote.plan].tenure
        paid   == quote.deposit + tenure * quote.monthly
    IN  /\ 2 * (paid - quote.total) <= tenure
        /\ 2 * (quote.total - paid) <= tenure
        /\ quote.financed >= 0
        /\ quote.monthly >= 0
        /\ tenure = 0 => paid = quote.price /\ quote.financed = 0
=============================================================================

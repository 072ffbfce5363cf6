----------------------------- MODULE LoanQuotes -----------------------------
(***************************************************************************)
(* What the backend announces of a repayment and of a new loan             *)
(* (backend/src/index.ts) against what the contract then does.  A preview  *)
(* reads the record of the loan with get_loan, so without the interest     *)
(* accrued since its last repayment, and the fee rate with get_fee_config. *)
(***************************************************************************)
EXTENDS Lending

\* parseLoanFromSimulation and parseFeeConfigFromSimulation.
Parsed(loan) ==
  [principal |-> loan.principal, outstanding |-> loan.outstanding,
   collateralValue |-> loan.value, interestFee |-> params.intFee]

\* Mutant: a repayment is not capped at the outstanding balance.
CappedRepaymentAll(loan, amount) == amount

CappedRepayment(loan, amount) == Lesser(amount, loan.outstanding)

\* POST /api/loan/repayment-preview; the threshold is taken to be 80 per cent.
RepaymentPreview(loan, amount) ==
  LET repayment == CappedRepayment(loan, amount)
      interest  == IF loan.outstanding > loan.principal
                   THEN Lesser(repayment, loan.outstanding - loan.principal) ELSE 0
      remaining == loan.outstanding - repayment
  IN  [repayment |-> repayment, interest |-> interest,
       principal |-> repayment - interest,
       fees      |-> BpsOf(interest, loan.interestFee),
       remaining |-> remaining, fullyRepaid |-> remaining = 0,
       health    |-> IF remaining = 0 THEN MaxI128
                     ELSE (loan.collateralValue * ((8 * BPS) \div 10) * BPS)
                            \div (remaining * BPS)]

\* POST /api/v1/loans/estimate, with ORIG_FEE_BPS as the contract has it.
LoanEstimate(principal) ==
  LET fee == BpsOf(principal, params.origFee)
  IN  [originationFee |-> fee, totalAmount |-> principal + fee]

\* A repayment never leaves less debt than previewed, and just what was
\* previewed when the loan owes no interest: the amounts, the fee, whether the
\* loan is closed, and its health where the threshold is 80 per cent.  A new
\* loan pays the fee that was estimated, but out of the amount lent: what its
\* borrower owes is not the estimated total.
QuotesHold ==
  [][/\ \A u \in Users, i \in DOMAIN loans, x \in Amounts :
          Repay(u, i, x) =>
            LET preview == RepaymentPreview(Parsed(loans[i]), x)
                after   == loans'[i]
            IN  /\ after.outstanding + after.interest >= preview.remaining
                /\ loans[i].interest + Accrued(loans[i]) = 0 =>
                     /\ after.outstanding = preview.remaining
                     /\ balance[u] - balance'[u] = preview.repayment
                     /\ balance'[Treasury] - balance[Treasury] = preview.fees
                     /\ (after.status = "Repaid") = preview.fullyRepaid
                     /\ params.liqThr = (8 * BPS) \div 10
                          => HealthFactor(after, params.liqThr) = preview.health
     /\ \A u \in Users, ids \in CollateralLists, x \in Amounts, d \in LoanDurations :
          RequestLoan(u, ids, x, d) =>
            balance'[u] - balance[u] = 2 * x - LoanEstimate(x).totalAmount
    ]_vars
=============================================================================

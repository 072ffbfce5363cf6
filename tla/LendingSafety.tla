--------------------------- MODULE LendingSafety ---------------------------
(***************************************************************************)
(* The safety theorems of Lending.  They rest on one inductive invariant,  *)
(* LoanInv: the status of a loan follows from its balances, and its        *)
(* principal stays within the LTV it was opened under.  The second part    *)
(* is what links the health factor to the parameters: without it nothing   *)
(* bounds the principal by the value that request_loan recorded.           *)
(***************************************************************************)
EXTENDS LendingProofs, LoanQuotes, FiniteSetTheorems

-----------------------------------------------------------------------------
(* What a step can do to the loans.                                        *)

LoanChange ==
  \/ \E u \in Users, x \in Amounts, ids \in CollateralLists, d \in LoanDurations :
       RequestLoan(u, ids, x, d)
  \/ \E u \in Users, x \in Amounts, i \in DOMAIN loans : Repay(u, i, x)
  \/ \E u \in Users, x \in Amounts, i \in DOMAIN loans : Liquidate(u, i, x)

\* Only request_loan, repay_loan and liquidate write a loan.
LEMMA LoanFrame ==
  ASSUME [Next]_vars
  PROVE  LoanChange \/ UNCHANGED <<loans, terms>>
<1>1. CASE Livestock
  BY <1>1 DEF Livestock, RegisterLivestock, UpdateAppraisal
<1>2. CASE Borrowing
  BY <1>2 DEF Borrowing, LoanChange
<1>3. CASE Administration
  BY <1>3 DEF Administration, SetParams, SetLtv, SetLiquidationThreshold,
              SetCloseFactor, UpdateFeeConfig, SetLoanLimits, SetAnimalCap,
              AddLiquidator, RemoveLiquidator, EmergencyWithdraw
<1>4. CASE Pausing \/ Time \/ UNCHANGED vars
  BY <1>4 DEF Pausing, Time, vars, lendingVars
<1>. QED
  BY <1>1, <1>2, <1>3, <1>4 DEF Next

\* The loan that request_loan appends, and the loans it leaves as they are.
LEMMA RequestLoanStep ==
  ASSUME TypeOK, NEW u \in Users, NEW x \in Amounts,
         NEW ids \in CollateralLists, NEW d \in LoanDurations,
         RequestLoan(u, ids, x, d)
  PROVE  LET n == Len(loans) + 1 IN
         /\ Len(loans) \in Nat /\ DOMAIN loans = 1 .. Len(loans)
         /\ DOMAIN terms = DOMAIN loans
         /\ DOMAIN loans' = 1 .. n
         /\ \A i \in DOMAIN loans : loans'[i] = loans[i] /\ terms'[i] = terms[i]
         /\ loans'[n].status = "Active" /\ loans'[n].interest = 0
         /\ loans'[n].principal = x /\ loans'[n].outstanding = x
         /\ loans'[n].value = TotalValue(ids)
         /\ terms'[n].ltv = params.ltv
         /\ x \in Nat \ {0} /\ TotalValue(ids) \in Nat
         /\ x <= BorrowLimit(ids)
<1>1. /\ Len(loans) \in Nat /\ DOMAIN loans = 1 .. Len(loans)
      /\ DOMAIN terms = DOMAIN loans
  BY LenProperties DEF TypeOK
<1>2. x \in Nat \ {0} /\ TotalValue(ids) \in Nat /\ x <= BorrowLimit(ids)
  BY LendingAssumption DEF RequestLoan, CanBorrow
<1>. DEFINE loan == [borrower |-> u, ids |-> ids, value |-> TotalValue(ids),
        principal |-> x, outstanding |-> x, interest |-> 0,
        lastTime |-> now, status |-> "Active",
        due |-> IF d = NoDue THEN NoDue ELSE now + d]
            term == [ltv |-> params.ltv, opened |-> now, charged |-> 0]
<1>3. loans' = Append(loans, loan) /\ terms' = Append(terms, term)
  BY DEF RequestLoan
<1>4. /\ loan.status = "Active" /\ loan.interest = 0 /\ loan.principal = x
      /\ loan.outstanding = x /\ loan.value = TotalValue(ids)
      /\ term.ltv = params.ltv
  OBVIOUS
<1>. HIDE DEF loan, term
<1>5. /\ DOMAIN loans' = 1 .. Len(loans) + 1
      /\ loans'[Len(loans) + 1] = loan /\ terms'[Len(loans) + 1] = term
      /\ \A i \in DOMAIN loans : loans'[i] = loans[i] /\ terms'[i] = terms[i]
  BY <1>1, <1>3 DEF TypeOK
<1>. QED
  BY <1>1, <1>2, <1>4, <1>5

-----------------------------------------------------------------------------
(* The inductive invariant.                                                *)

\* The principal left of a loan is within the LTV it was opened under.
WithinLtv ==
  \A i \in DOMAIN loans : loans[i].outstanding * BPS <= loans[i].value * terms[i].ltv

LoanInv == TypeOK /\ LoanStatusSound /\ WithinLtv

\* One loan of LoanInv.
LoanOK(loan, ltv) ==
  /\ loan.outstanding <= loan.principal
  /\ loan.status = "Active" <=> loan.outstanding > 0
  /\ loan.status = "Repaid" => loan.interest = 0
  /\ loan.outstanding * BPS <= loan.value * ltv

LEMMA ShrinkKeepsLtv ==
  ASSUME NEW a \in Nat, NEW b \in Nat, a <= b, NEW B \in Nat, NEW c \in Nat, b * B <= c
  PROVE  a * B <= c
<1>1. a * B <= b * B
  OBVIOUS
<1>2. a * B \in Nat /\ b * B \in Nat
  OBVIOUS
<1>. QED
  BY <1>1, <1>2

LEMMA LoanInvStep == LoanInv /\ [Next]_vars => LoanInv'
<1>. SUFFICES ASSUME LoanInv, [Next]_vars PROVE LoanInv'
  OBVIOUS
<1>1. TypeOK /\ TypeOK'
  BY NextType DEF LoanInv
<1>2. \A i \in DOMAIN loans : LoanOK(loans[i], terms[i].ltv)
  BY DEF LoanInv, LoanStatusSound, WithinLtv, LoanOK
<1>3. SUFFICES \A i \in DOMAIN loans' : LoanOK(loans'[i], terms'[i].ltv)
  BY <1>1 DEF LoanInv, LoanStatusSound, WithinLtv, LoanOK
<1>4. Len(loans) \in Nat /\ DOMAIN loans = 1 .. Len(loans) /\ DOMAIN terms = DOMAIN loans
  BY <1>1, LenProperties DEF TypeOK
<1>5. ASSUME NEW u \in Users, NEW x \in Amounts, NEW ids \in CollateralLists,
             NEW d \in LoanDurations, RequestLoan(u, ids, x, d)
      PROVE  \A i \in DOMAIN loans' : LoanOK(loans'[i], terms'[i].ltv)
  <2>. DEFINE n == Len(loans) + 1
  <2>1. /\ DOMAIN loans' = 1 .. n
        /\ \A i \in DOMAIN loans : loans'[i] = loans[i] /\ terms'[i] = terms[i]
        /\ loans'[n].status = "Active" /\ loans'[n].interest = 0
        /\ loans'[n].principal = x /\ loans'[n].outstanding = x
        /\ loans'[n].value = TotalValue(ids)
        /\ terms'[n].ltv = params.ltv
        /\ x \in Nat \ {0} /\ TotalValue(ids) \in Nat
        /\ x <= BorrowLimit(ids)
    BY <1>1, <1>5, RequestLoanStep
  <2>2. params.ltv \in Nat /\ BPS \in Nat \ {0}
    BY <1>1, LendingAssumption DEF TypeOK, Params
  <2>3. x * BPS <= TotalValue(ids) * params.ltv
    BY <2>1, <2>2, QuotientLimit DEF BorrowLimit, BpsOf
  <2>4. LoanOK(loans'[n], terms'[n].ltv)
    BY <2>1, <2>3 DEF LoanOK
  <2>. QED
    BY <1>2, <1>4, <2>1, <2>4
<1>6. ASSUME NEW u \in Users, NEW x \in Amounts, NEW i \in DOMAIN loans, Repay(u, i, x)
      PROVE  \A j \in DOMAIN loans' : LoanOK(loans'[j], terms'[j].ltv)
  <2>1. PICK int, ip, pp \in Nat : PaymentSplit(u, i, int, ip, pp)
    BY <1>1, <1>6, RepayStep
  <2>. USE DEF PaymentSplit
  <2>2. loans[i] \in Loan /\ loans[i].status = "Active" /\ terms[i] \in Terms
    BY <1>1, <1>4, <1>6, ElementOfSeq DEF Repay, IsOpen, TypeOK
  <2>3. DOMAIN loans' = DOMAIN loans /\ \A j \in DOMAIN loans \ {i} : loans'[j] = loans[j]
    BY <1>4, <2>1 DEF TypeOK
  <2>4. /\ loans'[i].outstanding = loans[i].outstanding - pp
        /\ loans'[i].interest = int - ip
        /\ loans'[i].principal = loans[i].principal
        /\ loans'[i].value = loans[i].value
        /\ loans'[i].status = IF loans[i].outstanding - pp = 0 /\ int - ip = 0
                              THEN "Repaid" ELSE "Active"
    BY <1>4, <2>1, <2>2 DEF Loan
  <2>5. \A j \in DOMAIN loans : terms'[j].ltv = terms[j].ltv
    <3>1. \A j \in DOMAIN loans : terms[j] \in Terms
      BY <1>1, <1>4, ElementOfSeq DEF TypeOK
    <3>. QED
      BY <1>4, <1>6, <3>1 DEF Repay, Terms
  <2>6. LoanOK(loans'[i], terms'[i].ltv)
    <3>1. /\ loans[i].outstanding \in Nat \ {0} /\ loans[i].value \in Nat
          /\ loans[i].principal \in Nat
          /\ loans[i].outstanding <= loans[i].principal
          /\ loans[i].outstanding * BPS <= loans[i].value * terms[i].ltv
      BY <1>2, <2>2 DEF Loan, LoanOK
    <3>2. (loans[i].outstanding - pp) * BPS <= loans[i].value * terms[i].ltv
      <4>1. loans[i].value * terms[i].ltv \in Nat /\ BPS \in Nat
        BY <2>2, <3>1, LendingAssumption DEF Terms
      <4>2. loans[i].outstanding - pp \in Nat /\ loans[i].outstanding - pp <= loans[i].outstanding
        BY <2>1, <3>1
      <4>. QED
        BY <3>1, <4>1, <4>2, ShrinkKeepsLtv
    <3>3. loans'[i].status = "Active" <=> loans[i].outstanding - pp > 0
      BY <2>1, <2>4, <3>1
    <3>4. loans'[i].status = "Repaid" => int - ip = 0
      BY <2>4
    <3>5. loans[i].outstanding - pp <= loans[i].principal
      BY <2>1, <3>1
    <3>. QED
      BY <2>4, <2>5, <3>2, <3>3, <3>4, <3>5 DEF LoanOK
  <2>. QED
    BY <1>2, <2>3, <2>5, <2>6
<1>7. ASSUME NEW u \in Users, NEW x \in Amounts, NEW i \in DOMAIN loans, Liquidate(u, i, x)
      PROVE  \A j \in DOMAIN loans' : LoanOK(loans'[j], terms'[j].ltv)
  <2>1. /\ loans[i] \in Loan /\ x \in Nat \ {0} /\ x <= loans[i].outstanding
        /\ loans' = [loans EXCEPT ![i] =
             [loans[i] EXCEPT !.outstanding = loans[i].outstanding - x,
                              !.status = IF loans[i].outstanding - x = 0
                                         THEN "Liquidated" ELSE "Active"]]
    BY <1>1, <1>7, LiquidateStep
  <2>2. DOMAIN loans' = DOMAIN loans /\ \A j \in DOMAIN loans \ {i} : loans'[j] = loans[j]
    BY <1>4, <2>1 DEF TypeOK
  <2>3. /\ loans'[i].outstanding = loans[i].outstanding - x
        /\ loans'[i].interest = loans[i].interest
        /\ loans'[i].principal = loans[i].principal
        /\ loans'[i].value = loans[i].value
        /\ loans'[i].status = IF loans[i].outstanding - x = 0
                              THEN "Liquidated" ELSE "Active"
    BY <1>4, <2>1 DEF Loan
  <2>4. terms' = terms /\ terms[i] \in Terms
    BY <1>1, <1>4, <1>7, ElementOfSeq DEF Liquidate, TypeOK
  <2>5. LoanOK(loans'[i], terms'[i].ltv)
    <3>1. /\ loans[i].outstanding \in Nat /\ loans[i].value \in Nat
          /\ loans[i].principal \in Nat
          /\ loans[i].outstanding <= loans[i].principal
          /\ loans[i].outstanding * BPS <= loans[i].value * terms[i].ltv
      BY <1>2, <2>1 DEF Loan, LoanOK
    <3>2. (loans[i].outstanding - x) * BPS <= loans[i].value * terms[i].ltv
      <4>1. loans[i].value * terms[i].ltv \in Nat /\ BPS \in Nat
        BY <2>4, <3>1, LendingAssumption DEF Terms
      <4>2. loans[i].outstanding - x \in Nat /\ loans[i].outstanding - x <= loans[i].outstanding
        BY <2>1, <3>1
      <4>. QED
        BY <3>1, <4>1, <4>2, ShrinkKeepsLtv
    <3>3. loans'[i].status = "Active" <=> loans[i].outstanding - x > 0
      BY <2>1, <2>3, <3>1
    <3>4. loans'[i].status # "Repaid"
      BY <2>3
    <3>5. loans[i].outstanding - x <= loans[i].principal
      BY <2>1, <3>1
    <3>. QED
      BY <2>3, <2>4, <3>2, <3>3, <3>4, <3>5 DEF LoanOK
  <2>. QED
    BY <1>2, <2>2, <2>4, <2>5
<1>8. CASE UNCHANGED <<loans, terms>>
  BY <1>2, <1>8
<1>. QED
  BY <1>5, <1>6, <1>7, <1>8, LoanFrame DEF LoanChange

LEMMA LoanInvariant == Spec => []LoanInv
<1>1. Init => LoanInv
  BY InitType DEF Init, LoanInv, LoanStatusSound, WithinLtv
<1>. QED
  BY <1>1, LoanInvStep, PTL DEF Spec

\* The status of a loan follows from what is owed, whatever the amounts of
\* its payments: Active exactly while principal is left, Repaid only without
\* interest.
THEOREM StatusSound == Spec => []LoanStatusSound
<1>1. LoanInv => LoanStatusSound
  BY DEF LoanInv
<1>. QED
  BY <1>1, LoanInvariant, PTL

-----------------------------------------------------------------------------
(* When a loan can be liquidated.                                          *)

\* A health factor below one hundred per cent puts the threshold below the
\* ratio of principal to value.
LEMMA UnhealthyBelow ==
  ASSUME NEW v \in Nat, NEW thr \in Nat, NEW ltv \in Nat, NEW o \in Nat \ {0},
         NEW B \in Nat \ {0}, o * B <= v * ltv, (v * thr * B) \div (o * B) < B
  PROVE  thr < ltv
<1>1. v * thr < o * B
  OBVIOUS
<1>2. v * thr < v * ltv
  <2>1. v * thr \in Nat /\ v * ltv \in Nat /\ o * B \in Nat
    OBVIOUS
  <2>. QED
    BY <1>1, <2>1
<1>3. ltv <= thr => v * ltv <= v * thr
  OBVIOUS
<1>. QED
  BY <1>2, <1>3

\* No reappraisal, repayment or passage of time makes a loan liquidatable:
\* only a threshold below the LTV the loan was opened under does.
THEOREM LiquidationNeedsLowerThreshold == Spec => []LiquidatableOnlyBelowLtv
<1>1. LoanInv => LiquidatableOnlyBelowLtv
  <2>. SUFFICES ASSUME LoanInv, NEW i \in DOMAIN loans,
                       loans[i].status = "Active",
                       HealthFactor(loans[i], params.liqThr) < BPS
                PROVE  params.liqThr < terms[i].ltv
    BY DEF LiquidatableOnlyBelowLtv
  <2>1. loans[i] \in Loan /\ terms[i] \in Terms /\ params \in Params
    <3>1. i \in 1 .. Len(loans) /\ i \in 1 .. Len(terms)
      BY LenProperties DEF LoanInv, TypeOK
    <3>. QED
      BY <3>1, ElementOfSeq DEF LoanInv, TypeOK
  <2>2. /\ loans[i].value \in Nat /\ params.liqThr \in Nat /\ terms[i].ltv \in Nat
        /\ loans[i].outstanding \in Nat \ {0} /\ loans[i].interest \in Nat
        /\ BPS \in Nat \ {0}
    BY <2>1, LendingAssumption, SMTT(20) DEF LoanInv, LoanStatusSound, Loan, Terms, Params
  <2>3. (loans[i].value * params.liqThr * BPS) \div (loans[i].outstanding * BPS) < BPS
    <3>1. loans[i].outstanding + loans[i].interest # 0
      BY <2>2
    <3>. QED
      BY <3>1 DEF HealthFactor
  <2>4. loans[i].outstanding * BPS <= loans[i].value * terms[i].ltv
    BY DEF LoanInv, WithinLtv
  <2>. QED
    BY <2>2, <2>3, <2>4, UnhealthyBelow
<1>. QED
  BY <1>1, LoanInvariant, PTL

-----------------------------------------------------------------------------
(* Closing a loan.                                                         *)

\* What one step does to one loan: nothing unless the loan is open, and only
\* liquidate under a full close factor makes it Liquidated.
LEMMA OneLoanStep ==
  ASSUME LoanInv, [Next]_vars, NEW i \in DOMAIN loans
  PROVE  /\ loans[i].status # "Active" => loans'[i] = loans[i]
         /\ loans[i].status = "Active" /\ loans'[i].status = "Liquidated"
              => params.closeFactor = BPS
<1>1. TypeOK
  BY DEF LoanInv
<1>2. loans \in Seq(Loan) /\ DOMAIN loans = 1 .. Len(loans) /\ loans[i] \in Loan
  BY <1>1, LenProperties, ElementOfSeq DEF TypeOK
<1>3. ASSUME NEW u \in Users, NEW x \in Amounts, NEW ids \in CollateralLists,
             NEW d \in LoanDurations, RequestLoan(u, ids, x, d)
      PROVE  loans'[i] = loans[i]
  BY <1>1, <1>3, RequestLoanStep
<1>4. ASSUME NEW u \in Users, NEW x \in Amounts, NEW j \in DOMAIN loans, Repay(u, j, x)
      PROVE  /\ loans[j].status = "Active"
             /\ i # j => loans'[i] = loans[i]
             /\ i = j => loans'[i].status # "Liquidated"
  <2>1. PICK int, ip, pp \in Nat : PaymentSplit(u, j, int, ip, pp)
    BY <1>1, <1>4, RepayStep
  <2>2. loans[j].status = "Active"
    BY <1>4 DEF Repay, IsOpen
  <2>. QED
    BY <1>2, <2>1, <2>2 DEF PaymentSplit, Loan
<1>5. ASSUME NEW u \in Users, NEW x \in Amounts, NEW j \in DOMAIN loans, Liquidate(u, j, x)
      PROVE  /\ loans[j].status = "Active"
             /\ i # j => loans'[i] = loans[i]
             /\ i = j /\ loans'[i].status = "Liquidated" => params.closeFactor = BPS
  <2>1. /\ loans[j] \in Loan /\ x \in Nat \ {0} /\ x <= loans[j].outstanding
        /\ x <= MaxRepay(loans[j])
        /\ loans' = [loans EXCEPT ![j] =
             [loans[j] EXCEPT !.outstanding = loans[j].outstanding - x,
                              !.status = IF loans[j].outstanding - x = 0
                                         THEN "Liquidated" ELSE "Active"]]
    BY <1>1, <1>5, LiquidateStep
  <2>2. loans[j].status = "Active"
    BY <1>5 DEF Liquidate, IsOpen
  <2>3. ASSUME i = j, loans'[i].status = "Liquidated"
        PROVE  params.closeFactor = BPS
    <3>1. loans[j].outstanding \in Nat /\ loans[j].outstanding - x = 0
      BY <1>2, <2>1, <2>3 DEF Loan
    <3>2. loans[j].outstanding \in Nat \ {0} /\ loans[j].outstanding <= MaxRepay(loans[j])
      BY <2>1, <3>1
    <3>3. params.closeFactor \in 0 .. BPS /\ BPS \in Nat \ {0}
      BY <1>1, LendingAssumption DEF TypeOK, Params
    <3>. QED
      BY <3>2, <3>3, WholeShare DEF MaxRepay, BpsOf
  <2>4. i # j => loans'[i] = loans[i]
    BY <1>2, <2>1
  <2>. QED
    BY <2>2, <2>3, <2>4
<1>6. loans[i].status = "Active" /\ loans'[i] = loans[i] => loans'[i].status # "Liquidated"
  OBVIOUS
<1>. QED
  BY <1>3, <1>4, <1>5, <1>6, LoanFrame DEF LoanChange

\* A Repaid or Liquidated loan never changes again.
THEOREM ClosedForGood == Spec => ClosedLoansFrozen
<1>1. LoanInv /\ [Next]_vars
        => [\A i \in DOMAIN loans : loans[i].status # "Active" => loans'[i] = loans[i]]_vars
  BY OneLoanStep
<1>. QED
  BY <1>1, LoanInvariant, PTL DEF Spec, ClosedLoansFrozen

\* As long as the close factor is below one hundred per cent, liquidators can
\* only make a loan smaller: no call makes it Liquidated.
THEOREM LiquidatedNeedsFullCloseFactor == Spec => ClosingNeedsFullCloseFactor
<1>1. LoanInv /\ [Next]_vars
        => [\A i \in DOMAIN loans :
              loans[i].status = "Active" /\ loans'[i].status = "Liquidated"
                => params.closeFactor = BPS]_vars
  BY OneLoanStep
<1>. QED
  BY <1>1, LoanInvariant, PTL DEF Spec, ClosingNeedsFullCloseFactor

-----------------------------------------------------------------------------
(* The liquidator whitelist.                                               *)

WhitelistInv == TypeOK /\ IsFiniteSet(whitelist) /\ WhitelistCounted

LEMMA WhitelistStep == WhitelistInv /\ [Next]_vars => WhitelistInv'
<1>. SUFFICES ASSUME WhitelistInv, [Next]_vars PROVE WhitelistInv'
  OBVIOUS
<1>1. TypeOK'
  BY NextType DEF WhitelistInv
<1>. SUFFICES IsFiniteSet(whitelist)' /\ WhitelistCounted'
  BY <1>1 DEF WhitelistInv
<1>2. /\ IsFiniteSet(whitelist) /\ wlCount = Cardinality(whitelist)
      /\ Cardinality(whitelist) \in Nat
  BY FS_CardinalityType DEF WhitelistInv, WhitelistCounted
<1>3. ASSUME NEW u, AddLiquidator(u)
      PROVE  IsFiniteSet(whitelist)' /\ WhitelistCounted'
  BY <1>2, <1>3, FS_AddElement DEF AddLiquidator, WhitelistCounted
<1>4. ASSUME NEW u, RemoveLiquidator(u)
      PROVE  IsFiniteSet(whitelist)' /\ WhitelistCounted'
  <2>1. u \in whitelist /\ Cardinality(whitelist \ {u}) = Cardinality(whitelist) - 1
        /\ IsFiniteSet(whitelist \ {u})
    BY <1>2, <1>4, FS_RemoveElement DEF RemoveLiquidator
  <2>2. wlCount > 0
    BY <1>2, <2>1, FS_EmptySet
  <2>. QED
    BY <1>2, <1>4, <2>1, <2>2 DEF RemoveLiquidator, WhitelistCounted
<1>5. ASSUME UNCHANGED <<whitelist, wlCount>>
      PROVE  IsFiniteSet(whitelist)' /\ WhitelistCounted'
  BY <1>2, <1>5 DEF WhitelistCounted
<1>6. CASE Livestock
  BY <1>5, <1>6 DEF Livestock, RegisterLivestock, UpdateAppraisal
<1>7. CASE Borrowing
  <2>1. ASSUME NEW u, NEW x, NEW ids, NEW d, RequestLoan(u, ids, x, d)
        PROVE  UNCHANGED <<whitelist, wlCount>>
    BY <2>1 DEF RequestLoan
  <2>2. ASSUME NEW u, NEW x, NEW i, Repay(u, i, x) \/ Liquidate(u, i, x)
        PROVE  UNCHANGED <<whitelist, wlCount>>
    BY <2>2 DEF Repay, Liquidate
  <2>. QED
    BY <1>5, <1>7, <2>1, <2>2 DEF Borrowing
<1>8. CASE Administration
  <2>1. CASE \E u \in Liquidators : AddLiquidator(u) \/ RemoveLiquidator(u)
    BY <1>3, <1>4, <2>1
  <2>2. CASE ~ \E u \in Liquidators : AddLiquidator(u) \/ RemoveLiquidator(u)
    <3>1. UNCHANGED <<whitelist, wlCount>>
      BY <1>8, <2>2
         DEF Administration, SetParams, SetLtv, SetLiquidationThreshold,
             SetCloseFactor, UpdateFeeConfig, SetLoanLimits, SetAnimalCap,
             EmergencyWithdraw
    <3>. QED
      BY <1>5, <3>1
  <2>. QED
    BY <2>1, <2>2
<1>9. CASE Pausing \/ Time \/ UNCHANGED vars
  BY <1>5, <1>9 DEF Pausing, Time, vars, lendingVars
<1>. QED
  BY <1>6, <1>7, <1>8, <1>9 DEF Next

\* The counter that opens liquidation to everyone at zero counts the entries.
THEOREM WhitelistCount == Spec => []WhitelistCounted
<1>1. Init => WhitelistInv
  BY InitType, FS_EmptySet DEF Init, WhitelistInv, WhitelistCounted
<1>2. WhitelistInv => WhitelistCounted
  BY DEF WhitelistInv
<1>. QED
  BY <1>1, <1>2, WhitelistStep, PTL DEF Spec

-----------------------------------------------------------------------------
(* The interest charged to a loan.                                         *)

\* When a loan was opened and when its interest was last accrued, and what
\* has been charged to it in between.
InterestOK(loan, term) ==
  /\ term.opened <= loan.lastTime /\ loan.lastTime <= now
  /\ term.charged * BPS * SecondsPerYear
       <= loan.principal * (BPS \div 10) * (loan.lastTime - term.opened)

InterestInv == LoanInv /\ \A i \in DOMAIN loans : InterestOK(loans[i], terms[i])

\* One accrual is at most simple interest at the highest rate on the
\* principal for the time it covers.
LEMMA AccrualBound ==
  ASSUME TypeOK, NEW loan \in Loan, loan.outstanding <= loan.principal,
         loan.lastTime <= now
  PROVE  Accrued(loan) * (BPS * SecondsPerYear)
           <= loan.principal * (BPS \div 10) * (now - loan.lastTime)
<1>. DEFINE D == BPS * SecondsPerYear
            y == loan.outstanding * params.intFee * (now - loan.lastTime)
            top == loan.principal * (BPS \div 10) * (now - loan.lastTime)
<1>0. BPS \in Nat \ {0} /\ SecondsPerYear \in Nat \ {0}
  BY LendingAssumption
<1>1. /\ loan.outstanding \in Nat /\ loan.principal \in Nat /\ params.intFee \in Nat
      /\ now - loan.lastTime \in Nat /\ BPS \div 10 \in Nat /\ params.intFee <= BPS \div 10
      /\ D \in Nat \ {0}
  <2>1. now \in Nat /\ loan.lastTime \in Nat
    BY PausableAssumption DEF TypeOK, PausableTypeOK, Loan
  <2>2. D \in Nat \ {0}
    BY <1>0
  <2>. QED
    BY <1>0, <2>1, <2>2, SMTT(20) DEF TypeOK, Loan, Params
<1>2. /\ y \in Nat /\ top \in Nat /\ y <= top
  <2>1. /\ loan.outstanding * params.intFee \in Nat /\ loan.principal * (BPS \div 10) \in Nat
        /\ loan.outstanding * params.intFee <= loan.principal * (BPS \div 10)
    BY <1>1, ProductMonotone
  <2>2. y \in Nat /\ top \in Nat /\ y <= top
    <3>. DEFINE a == loan.outstanding * params.intFee
                b == loan.principal * (BPS \div 10)
                t == now - loan.lastTime
    <3>1. a \in Nat /\ b \in Nat /\ t \in Nat /\ a <= b /\ t <= t
      BY <1>1, <2>1
    <3>. HIDE DEF a, b, t
    <3>2. a * t \in Nat /\ b * t \in Nat /\ a * t <= b * t
      BY <3>1, ProductMonotone
    <3>. QED
      BY <3>2 DEF a, b, t
  <2>. QED
    BY <2>2
<1>3. Accrued(loan) = 0 \/ Accrued(loan) = y \div D
  BY DEF Accrued
<1>. SUFFICES Accrued(loan) * D <= top
  OBVIOUS
<1>. HIDE DEF y, top, D
<1>4. CASE Accrued(loan) = 0
  BY <1>1, <1>2, <1>4
<1>5. CASE Accrued(loan) = y \div D
  <2>1. (y \div D) \in Nat /\ (y \div D) * D <= y
    BY <1>1, <1>2, QuotientBound
  <2>2. (y \div D) * D \in Nat
    BY <1>1, <2>1
  <2>. QED
    BY <1>2, <1>5, <2>1, <2>2
<1>. QED
  BY <1>3, <1>4, <1>5

\* What is charged so far and the next accrual, over the whole time.
LEMMA ChargesAdd ==
  ASSUME NEW charged \in Nat, NEW accrued \in Nat, NEW D \in Nat, NEW r \in Nat,
         NEW t1 \in Nat, NEW t2 \in Nat, NEW t3 \in Nat, t1 <= t2, t2 <= t3,
         charged * D <= r * (t2 - t1), accrued * D <= r * (t3 - t2)
  PROVE  (charged + accrued) * D <= r * (t3 - t1)
<1>1. (charged + accrued) * D = charged * D + accrued * D
  OBVIOUS
<1>2. r * (t3 - t1) = r * (t2 - t1) + r * (t3 - t2)
  OBVIOUS
<1>3. /\ charged * D \in Nat /\ accrued * D \in Nat
      /\ r * (t2 - t1) \in Nat /\ r * (t3 - t2) \in Nat
  OBVIOUS
<1>. QED
  BY <1>1, <1>2, <1>3

\* The clock never goes back.
LEMMA TimeGrows ==
  ASSUME TypeOK, [Next]_vars
  PROVE  now <= now'
<1>1. now \in Nat
  BY PausableAssumption DEF TypeOK, PausableTypeOK
<1>2. CASE Livestock
  <2>1. now' = now
    BY <1>2 DEF Livestock, RegisterLivestock, UpdateAppraisal
  <2>. QED
    BY <1>1, <2>1
<1>3. CASE Borrowing
  <2>1. ASSUME NEW u, NEW x, NEW ids, NEW d, RequestLoan(u, ids, x, d)
        PROVE  now' = now
    BY <2>1 DEF RequestLoan
  <2>2. ASSUME NEW u, NEW x, NEW i, Repay(u, i, x) \/ Liquidate(u, i, x)
        PROVE  now' = now
    BY <2>2 DEF Repay, Liquidate
  <2>3. now' = now
    BY <1>3, <2>1, <2>2 DEF Borrowing
  <2>. QED
    BY <1>1, <2>3
<1>4. CASE Administration
  <2>1. now' = now
    BY <1>4 DEF Administration, SetParams, SetLtv, SetLiquidationThreshold,
                SetCloseFactor, UpdateFeeConfig, SetLoanLimits, SetAnimalCap,
                AddLiquidator, RemoveLiquidator, EmergencyWithdraw
  <2>. QED
    BY <1>1, <2>1
<1>5. CASE Pausing \/ UNCHANGED vars
  BY <1>1, <1>5 DEF Pausing, vars
<1>6. CASE Time
  BY <1>1, <1>6 DEF Time, CloseLedger
<1>. QED
  BY <1>2, <1>3, <1>4, <1>5, <1>6 DEF Next

LEMMA InterestStep == InterestInv /\ [Next]_vars => InterestInv'
<1>. SUFFICES ASSUME InterestInv, [Next]_vars PROVE InterestInv'
  OBVIOUS
<1>1. LoanInv /\ LoanInv' /\ TypeOK /\ TypeOK'
  BY LoanInvStep DEF InterestInv, LoanInv
<1>. SUFFICES ASSUME NEW j \in DOMAIN loans' PROVE InterestOK(loans[j], terms[j])'
  BY <1>1 DEF InterestInv
<1>2. /\ now \in Nat /\ now' \in Nat /\ now <= now'
      /\ BPS \in Nat \ {0} /\ SecondsPerYear \in Nat \ {0} /\ BPS \div 10 \in Nat
  <2>1. now <= now'
    BY <1>1, TimeGrows
  <2>. QED
    BY <1>1, <2>1, PausableAssumption, LendingAssumption DEF TypeOK, PausableTypeOK
<1>3. /\ Len(loans) \in Nat /\ DOMAIN loans = 1 .. Len(loans) /\ DOMAIN terms = DOMAIN loans
      /\ \A i \in DOMAIN loans : loans[i] \in Loan /\ terms[i] \in Terms
  BY <1>1, LenProperties, ElementOfSeq DEF TypeOK
<1>4. ASSUME j \in DOMAIN loans, loans'[j].lastTime = loans[j].lastTime,
             loans'[j].principal = loans[j].principal, terms'[j] = terms[j]
      PROVE  InterestOK(loans[j], terms[j])'
  <2>1. InterestOK(loans[j], terms[j]) /\ loans[j].lastTime \in Nat
    BY <1>3, <1>4 DEF InterestInv, Loan
  <2>. QED
    BY <1>2, <1>4, <2>1 DEF InterestOK
<1>5. ASSUME NEW u \in Users, NEW x \in Amounts, NEW ids \in CollateralLists,
             NEW d \in LoanDurations, RequestLoan(u, ids, x, d)
      PROVE  InterestOK(loans[j], terms[j])'
  <2>1. /\ DOMAIN loans' = 1 .. Len(loans) + 1
        /\ \A i \in DOMAIN loans : loans'[i] = loans[i] /\ terms'[i] = terms[i]
    BY <1>1, <1>5, RequestLoanStep
  <2>2. CASE j \in DOMAIN loans
    BY <1>4, <2>1, <2>2
  <2>3. CASE j = Len(loans) + 1
    <3>1. /\ loans'[j].lastTime = now /\ terms'[j].opened = now /\ terms'[j].charged = 0
          /\ loans'[j] \in Loan
      <4>1. loans'[j] \in Loan
        BY <1>1, <2>1, <2>3, LenProperties, ElementOfSeq DEF TypeOK
      <4>. QED
        BY <1>1, <1>3, <1>5, <2>3, <4>1 DEF RequestLoan, TypeOK
    <3>. QED
      BY <1>2, <3>1 DEF InterestOK, Loan
  <2>. QED
    BY <1>3, <2>1, <2>2, <2>3
<1>6. ASSUME NEW u \in Users, NEW x \in Amounts, NEW i \in DOMAIN loans, Repay(u, i, x)
      PROVE  InterestOK(loans[j], terms[j])'
  <2>1. PICK int, ip, pp \in Nat : PaymentSplit(u, i, int, ip, pp)
    BY <1>1, <1>6, RepayStep
  <2>2. DOMAIN loans' = DOMAIN loans
        /\ \A k \in DOMAIN loans \ {i} : loans'[k] = loans[k] /\ terms'[k] = terms[k]
    BY <1>3, <1>6, <2>1 DEF Repay, PaymentSplit, TypeOK
  <2>3. CASE j # i
    BY <1>4, <2>2, <2>3
  <2>4. CASE j = i
    <3>1. /\ loans'[i].lastTime = now /\ loans'[i].principal = loans[i].principal
          /\ terms'[i].opened = terms[i].opened
          /\ terms'[i].charged = terms[i].charged + Accrued(loans[i])
          /\ now' = now
      BY <1>3, <1>6, <2>1 DEF Repay, PaymentSplit, Loan, Terms
    <3>2. InterestOK(loans[i], terms[i]) /\ loans[i].outstanding <= loans[i].principal
      BY <1>1 DEF InterestInv, LoanInv, LoanStatusSound
    <3>3. Accrued(loans[i]) \in Nat
          /\ Accrued(loans[i]) * (BPS * SecondsPerYear)
               <= loans[i].principal * (BPS \div 10) * (now - loans[i].lastTime)
      BY <1>1, <1>3, <3>2, AccruedNat, AccrualBound DEF InterestOK
    <3>. DEFINE D == BPS * SecondsPerYear
                r == loans[i].principal * (BPS \div 10)
                t1 == terms[i].opened
                t2 == loans[i].lastTime
                c == terms[i].charged
                a == Accrued(loans[i])
    <3>4. c \in Nat /\ D \in Nat /\ r \in Nat /\ t1 \in Nat /\ t2 \in Nat
      BY <1>2, <1>3 DEF Loan, Terms
    <3>5. c * D <= r * (t2 - t1) /\ t1 <= t2 /\ t2 <= now
      <4>1. c * BPS * SecondsPerYear = c * D
        BY <1>2, <3>4
      <4>. QED
        BY <3>2, <4>1 DEF InterestOK
    <3>6. a \in Nat /\ a * D <= r * (now - t2)
      BY <3>3
    <3>. HIDE DEF D, r, t1, t2, c, a
    <3>7. (c + a) * D <= r * (now - t1)
      BY <1>2, <3>4, <3>5, <3>6, ChargesAdd
    <3>8. (c + a) * BPS * SecondsPerYear = (c + a) * D
      BY <1>2, <3>4, <3>6 DEF D
    <3>9. t1 <= now
      BY <1>2, <3>4, <3>5
    <3>. QED
      BY <1>2, <2>4, <3>1, <3>7, <3>8, <3>9 DEF InterestOK, r, t1, c, a
  <2>. QED
    BY <2>3, <2>4
<1>7. ASSUME NEW u \in Users, NEW x \in Amounts, NEW i \in DOMAIN loans, Liquidate(u, i, x)
      PROVE  InterestOK(loans[j], terms[j])'
  <2>1. loans' = [loans EXCEPT ![i] =
             [loans[i] EXCEPT !.outstanding = loans[i].outstanding - x,
                              !.status = IF loans[i].outstanding - x = 0
                                         THEN "Liquidated" ELSE "Active"]]
    BY <1>1, <1>7, LiquidateStep
  <2>2. /\ DOMAIN loans' = DOMAIN loans /\ terms' = terms
        /\ loans'[j].lastTime = loans[j].lastTime /\ loans'[j].principal = loans[j].principal
    BY <1>3, <1>7, <2>1 DEF Liquidate, Loan
  <2>. QED
    BY <1>4, <2>2
<1>8. CASE UNCHANGED <<loans, terms>>
  BY <1>4, <1>8
<1>. QED
  BY <1>5, <1>6, <1>7, <1>8, LoanFrame DEF LoanChange

\* However a loan is repaid, all the interest ever charged to it is at most
\* simple interest on its principal at the highest rate.
THEOREM SimpleInterest == Spec => []InterestIsSimple
<1>1. Init => InterestInv
  <2>1. Init => LoanInv
    BY InitType DEF Init, LoanInv, LoanStatusSound, WithinLtv
  <2>. QED
    BY <2>1 DEF Init, InterestInv
<1>2. InterestInv => InterestIsSimple
  BY DEF InterestInv, InterestOK, InterestIsSimple
<1>. QED
  BY <1>1, <1>2, InterestStep, PTL DEF Spec

-----------------------------------------------------------------------------
(* The locks on collateral.                                                *)

Lists(loan, c) == \E k \in DOMAIN loan.ids : loan.ids[k] = c

\* What is true of one collateral and one loan.
LockOK(c, i) ==
  Lists(loans[i], c) => /\ i <= collaterals[c].loan
                        /\ loans[i].borrower = collaterals[c].owner

\* A loan lists existing collateral only, or a collateral registered later
\* would be listed by a loan it is not locked to.
LockInv ==
  /\ TypeOK
  /\ \A i \in DOMAIN loans : \A k \in DOMAIN loans[i].ids :
       loans[i].ids[k] \in DOMAIN collaterals
  /\ \A c \in DOMAIN collaterals : \A i \in DOMAIN loans : LockOK(c, i)
  /\ \A c \in DOMAIN collaterals :
       collaterals[c].loan # 0 =>
         /\ collaterals[c].loan \in DOMAIN loans
         /\ Lists(loans[collaterals[c].loan], c)

\* Repayments and liquidations keep what LockInv reads of a loan.
LEMMA LoanKeepsIds ==
  ASSUME TypeOK, NEW u \in Users, NEW x \in Amounts, NEW i \in DOMAIN loans,
         Repay(u, i, x) \/ Liquidate(u, i, x)
  PROVE  /\ DOMAIN loans' = DOMAIN loans /\ collaterals' = collaterals
         /\ \A j \in DOMAIN loans : /\ loans'[j].ids = loans[j].ids
                                    /\ loans'[j].borrower = loans[j].borrower
<1>1. \A j \in DOMAIN loans : loans[j] \in Loan
  BY LenProperties, ElementOfSeq DEF TypeOK
<1>2. CASE Repay(u, i, x)
  <2>1. PICK int, ip, pp \in Nat : PaymentSplit(u, i, int, ip, pp)
    BY <1>2, RepayStep
  <2>2. /\ DOMAIN loans' = DOMAIN loans
        /\ \A j \in DOMAIN loans \ {i} : loans'[j] = loans[j]
        /\ loans'[i].ids = loans[i].ids /\ loans'[i].borrower = loans[i].borrower
    BY <1>1, <2>1 DEF PaymentSplit, TypeOK, Loan
  <2>3. collaterals' = collaterals
    BY <1>2 DEF Repay
  <2>. QED
    BY <2>2, <2>3
<1>3. CASE Liquidate(u, i, x)
  <2>1. loans' = [loans EXCEPT ![i] =
             [loans[i] EXCEPT !.outstanding = loans[i].outstanding - x,
                              !.status = IF loans[i].outstanding - x = 0
                                         THEN "Liquidated" ELSE "Active"]]
    BY <1>3, LiquidateStep
  <2>2. /\ DOMAIN loans' = DOMAIN loans /\ collaterals' = collaterals
        /\ \A j \in DOMAIN loans \ {i} : loans'[j] = loans[j]
        /\ loans'[i].ids = loans[i].ids /\ loans'[i].borrower = loans[i].borrower
    BY <1>1, <1>3, <2>1 DEF Liquidate, TypeOK, Loan
  <2>. QED
    BY <2>2
<1>. QED
  BY <1>2, <1>3

LEMMA LockStep == LockInv /\ [Next]_vars => LockInv'
<1>. SUFFICES ASSUME LockInv, [Next]_vars PROVE LockInv'
  OBVIOUS
<1>1. TypeOK /\ TypeOK'
  BY NextType DEF LockInv
<1>2. /\ Len(loans) \in Nat /\ DOMAIN loans = 1 .. Len(loans)
      /\ Len(collaterals) \in Nat /\ DOMAIN collaterals = 1 .. Len(collaterals)
      /\ \A c \in DOMAIN collaterals : collaterals[c] \in Collateral
  BY <1>1, LenProperties, ElementOfSeq DEF TypeOK
<1>3. ASSUME DOMAIN loans' = DOMAIN loans,
             \A j \in DOMAIN loans : /\ loans'[j].ids = loans[j].ids
                                     /\ loans'[j].borrower = loans[j].borrower,
             collaterals' = collaterals
      PROVE  LockInv'
  BY <1>1, <1>3 DEF LockInv, LockOK, Lists
<1>4. ASSUME NEW u \in Users, NEW t \in AnimalTypes, NEW v \in Appraisals,
             RegisterLivestock(u, t, v)
      PROVE  LockInv'
  <2>. DEFINE n == Len(collaterals) + 1
              new == [owner |-> u, type |-> t, value |-> v, loan |-> 0]
  <2>1. /\ loans' = loans
        /\ collaterals' = Append(collaterals, new) /\ new.loan = 0
    BY <1>4 DEF RegisterLivestock
  <2>. HIDE DEF new
  <2>2. /\ DOMAIN collaterals' = 1 .. n /\ collaterals'[n].loan = 0
        /\ \A c \in DOMAIN collaterals : collaterals'[c] = collaterals[c]
    BY <1>1, <1>2, <2>1 DEF TypeOK
  <2>3. \A i \in DOMAIN loans : ~Lists(loans[i], n)
    BY <1>2 DEF LockInv, Lists
  <2>. QED
    BY <1>1, <1>2, <2>1, <2>2, <2>3 DEF LockInv, LockOK, Lists
<1>5. ASSUME NEW u \in Users, NEW v \in Appraisals, NEW id \in DOMAIN collaterals,
             UpdateAppraisal(u, id, v)
      PROVE  LockInv'
  <2>1. /\ loans' = loans /\ DOMAIN collaterals' = DOMAIN collaterals
        /\ \A c \in DOMAIN collaterals : /\ collaterals'[c].loan = collaterals[c].loan
                                         /\ collaterals'[c].owner = collaterals[c].owner
    BY <1>1, <1>2, <1>5 DEF UpdateAppraisal, TypeOK, Collateral
  <2>. QED
    BY <1>1, <2>1 DEF LockInv, LockOK, Lists
<1>6. ASSUME NEW u \in Users, NEW x \in Amounts, NEW ids \in CollateralLists,
             NEW d \in LoanDurations, RequestLoan(u, ids, x, d)
      PROVE  LockInv'
  <2>. DEFINE n == Len(loans) + 1
  <2>1. /\ DOMAIN loans' = 1 .. n
        /\ \A i \in DOMAIN loans : loans'[i] = loans[i]
        /\ loans'[n].ids = ids /\ loans'[n].borrower = u
    BY <1>1, <1>2, <1>6, RequestLoanStep DEF RequestLoan, TypeOK
  <2>2. /\ \A k \in DOMAIN ids : ids[k] \in DOMAIN collaterals
                                 /\ collaterals[ids[k]].owner = u
        /\ collaterals' = Locked(ids, n)
    BY <1>6 DEF CollateralLists, RequestLoan, CanBorrow
  <2>3. /\ DOMAIN collaterals' = DOMAIN collaterals
        /\ \A c \in DOMAIN collaterals :
             /\ collaterals'[c].owner = collaterals[c].owner
             /\ collaterals'[c].loan = IF \E k \in DOMAIN ids : ids[k] = c
                                       THEN n ELSE collaterals[c].loan
    BY <1>2, <2>2 DEF Locked, Collateral
  <2>4. \A i \in DOMAIN loans' : \A k \in DOMAIN loans'[i].ids :
          loans'[i].ids[k] \in DOMAIN collaterals'
    BY <1>2, <2>1, <2>2, <2>3 DEF LockInv
  <2>5. \A c \in DOMAIN collaterals' : \A i \in DOMAIN loans' : LockOK(c, i)'
    BY <1>2, <2>1, <2>2, <2>3 DEF LockInv, LockOK, Lists
  <2>6. \A c \in DOMAIN collaterals' :
          collaterals'[c].loan # 0 =>
            /\ collaterals'[c].loan \in DOMAIN loans'
            /\ Lists(loans'[collaterals'[c].loan], c)
    BY <1>2, <2>1, <2>2, <2>3 DEF LockInv, Lists
  <2>. QED
    BY <1>1, <2>4, <2>5, <2>6 DEF LockInv
<1>7. ASSUME NEW u \in Users, NEW x \in Amounts, NEW i \in DOMAIN loans,
             Repay(u, i, x) \/ Liquidate(u, i, x)
      PROVE  LockInv'
  <2>1. /\ DOMAIN loans' = DOMAIN loans /\ collaterals' = collaterals
        /\ \A j \in DOMAIN loans : /\ loans'[j].ids = loans[j].ids
                                   /\ loans'[j].borrower = loans[j].borrower
    BY <1>1, <1>7, LoanKeepsIds
  <2>. QED
    BY <1>3, <2>1
<1>8. CASE Livestock
  BY <1>4, <1>5, <1>8 DEF Livestock
<1>9. CASE Borrowing
  BY <1>6, <1>7, <1>9 DEF Borrowing
<1>10. ASSUME UNCHANGED <<loans, collaterals>>
       PROVE  LockInv'
  BY <1>3, <1>10
<1>11. CASE Administration
  BY <1>10, <1>11 DEF Administration, SetParams, SetLtv, SetLiquidationThreshold,
              SetCloseFactor, UpdateFeeConfig, SetLoanLimits, SetAnimalCap,
              AddLiquidator, RemoveLiquidator, EmergencyWithdraw
<1>12. CASE Pausing \/ Time \/ UNCHANGED vars
  BY <1>10, <1>12 DEF Pausing, Time, vars, lendingVars
<1>. QED
  BY <1>8, <1>9, <1>11, <1>12 DEF Next

\* A collateral is locked to the newest loan that lists it, whose borrower
\* owns it, however often it is pledged and reappraised.
THEOREM LatestLock == Spec => []LockIsLatest
<1>1. Init => LockInv
  BY InitType DEF Init, LockInv
<1>2. LockInv => LockIsLatest
  BY DEF LockInv, LockIsLatest, LockOK, Lists
<1>. QED
  BY <1>1, <1>2, LockStep, PTL DEF Spec

-----------------------------------------------------------------------------
(* The pool.                                                               *)

\* The fold of TotalOutstanding is the sum the lemmas of Arithmetic are about.
LEMMA FoldIsSum ==
  ASSUME NEW f
  PROVE  FoldFunction(LAMBDA x, acc : x + acc, 0, f) = SumOn(f, DOMAIN f)
  BY DEF FoldFunction, FoldFunctionOnSet, MapThenFoldSet, SumOn, PartialSums, SumStep

Owed == [i \in DOMAIN loans |-> loans[i].outstanding]

LEMMA TotalIsSum == TotalOutstanding = SumOn(Owed, DOMAIN loans)
<1>. DEFINE f == Owed
<1>1. TotalOutstanding = FoldFunction(LAMBDA x, acc : x + acc, 0, f)
  BY DEF TotalOutstanding, Owed
<1>2. DOMAIN f = DOMAIN loans
  BY DEF Owed
<1>. HIDE DEF f
<1>3. FoldFunction(LAMBDA x, acc : x + acc, 0, f) = SumOn(f, DOMAIN f)
  BY FoldIsSum
<1>. QED
  BY <1>1, <1>2, <1>3 DEF f

LEMMA TotalIsSumNext == TotalOutstanding' = SumOn(Owed', DOMAIN loans')
<1>1. (TotalOutstanding = SumOn(Owed, DOMAIN loans))'
  BY TotalIsSum, PTL
<1>. QED
  BY <1>1

LEMMA OwedType ==
  ASSUME TypeOK
  PROVE  IsFiniteSet(DOMAIN loans) /\ \A j \in DOMAIN loans : loans[j].outstanding \in Int
<1>1. DOMAIN loans = 1 .. Len(loans) /\ \A j \in DOMAIN loans : loans[j] \in Loan
  BY LenProperties, ElementOfSeq DEF TypeOK
<1>2. IsFiniteSet(DOMAIN loans)
  <2>1. Len(loans) \in Nat
    BY LenProperties DEF TypeOK
  <2>. QED
    BY <1>1, <2>1, FS_Interval
<1>. QED
  BY <1>1, <1>2 DEF Loan

LEMMA TotalUnchanged ==
  ASSUME loans' = loans
  PROVE  TotalOutstanding' = TotalOutstanding
<1>1. Owed' = Owed
  BY DEF Owed
<1>. QED
  BY <1>1, TotalIsSum, TotalIsSumNext

PoolInv == TypeOK /\ PoolAccounting

\* What a step that changes one loan does to the total.
LEMMA OneLoanOwed ==
  ASSUME TypeOK, TypeOK', NEW i \in DOMAIN loans, NEW d \in Int,
         DOMAIN loans' = DOMAIN loans,
         \A j \in DOMAIN loans \ {i} : loans'[j] = loans[j],
         loans'[i].outstanding = loans[i].outstanding + d
  PROVE  TotalOutstanding' = TotalOutstanding + d
<1>. DEFINE f == Owed
            g == Owed'
            S == DOMAIN loans
<1>1. IsFiniteSet(S) /\ i \in S
  BY OwedType
<1>2. \A j \in S : loans[j].outstanding \in Int
  BY OwedType
<1>3. /\ \A j \in S : f[j] \in Int
      /\ g[i] \in Int /\ g[i] = f[i] + d
      /\ \A j \in S \ {i} : g[j] = f[j]
  BY <1>1, <1>2 DEF Owed
<1>4. TotalOutstanding = SumOn(f, S) /\ TotalOutstanding' = SumOn(g, S)
  BY TotalIsSum, TotalIsSumNext
<1>. HIDE DEF f, g, S
<1>5. SumOn(g, S) = SumOn(f, S) - f[i] + g[i]
  BY <1>1, <1>3, SumExcept
<1>6. SumOn(f, S) \in Int /\ f[i] \in Int
  BY <1>1, <1>3, SumRemove
<1>. QED
  BY <1>3, <1>4, <1>5, <1>6

\* What a new loan adds to the total.
LEMMA NewLoanOwed ==
  ASSUME TypeOK, NEW n, n \notin DOMAIN loans, DOMAIN loans' = DOMAIN loans \cup {n},
         \A j \in DOMAIN loans : loans'[j] = loans[j],
         loans'[n].outstanding \in Int
  PROVE  TotalOutstanding' = TotalOutstanding + loans'[n].outstanding
<1>. DEFINE f == Owed
            g == Owed'
            S == DOMAIN loans
<1>1. IsFiniteSet(S) /\ n \notin S
  BY OwedType
<1>2. \A j \in S : loans[j].outstanding \in Int
  BY OwedType
<1>3. /\ \A j \in S : f[j] \in Int /\ g[j] = f[j]
      /\ g[n] \in Int /\ g[n] = loans'[n].outstanding
      /\ \A j \in S : g[j] \in Int
  BY <1>1, <1>2 DEF Owed
<1>4. TotalOutstanding = SumOn(f, S) /\ TotalOutstanding' = SumOn(g, S \cup {n})
  BY TotalIsSum, TotalIsSumNext
<1>. HIDE DEF f, g, S
<1>5. SumOn(g, S) = SumOn(f, S)
  BY <1>1, <1>3, SumCongruence
<1>6. SumOn(g, S \cup {n}) = SumOn(g, S) + g[n]
  BY <1>1, <1>3, SumAdd
<1>. QED
  BY <1>3, <1>4, <1>5, <1>6

LEMMA TotalType ==
  ASSUME TypeOK
  PROVE  TotalOutstanding \in Int
<1>. DEFINE f == Owed
            S == DOMAIN loans
<1>1. IsFiniteSet(S)
  BY OwedType
<1>2. \A j \in S : f[j] \in Int
  BY OwedType DEF Owed
<1>3. TotalOutstanding = SumOn(f, S)
  BY TotalIsSum
<1>. HIDE DEF f, S
<1>. QED
  BY <1>1, <1>2, <1>3, SumRemove

\* The balance of the contract and the two logs, after each step.
PoolChange(db, dt, de, dw) ==
  /\ balance'[Contract] = balance[Contract] + db
  /\ TotalOutstanding' = TotalOutstanding + dt
  /\ pool'.earned = pool.earned + de
  /\ pool'.withdrawn = pool.withdrawn + dw
  /\ db + dt + dw = de

LEMMA PoolStep == PoolInv /\ [Next]_vars => PoolInv'
<1>. SUFFICES ASSUME PoolInv, [Next]_vars PROVE PoolInv'
  OBVIOUS
<1>1. TypeOK /\ TypeOK'
  BY NextType DEF PoolInv
<1>2. /\ Contract \in Accounts /\ Treasury \in Accounts /\ Contract # Treasury
      /\ Contract \notin Users
      /\ balance \in [Accounts -> Nat] /\ pool \in [earned : Nat, withdrawn : Nat]
      /\ InitialBalance[Contract] \in Nat
  BY <1>1, LendingAssumption DEF TypeOK, Accounts
<1>3. /\ balance[Contract] \in Nat /\ pool.earned \in Nat /\ pool.withdrawn \in Nat
      /\ TotalOutstanding \in Int
  BY <1>1, <1>2, TotalType
<1>4. ASSUME NEW db \in Int, NEW dt \in Int, NEW de \in Int, NEW dw \in Int,
             PoolChange(db, dt, de, dw)
      PROVE  PoolInv'
  BY <1>1, <1>2, <1>3, <1>4 DEF PoolInv, PoolAccounting, PoolChange
<1>5. ASSUME NEW u \in Users, NEW x \in Amounts, NEW ids \in CollateralLists,
             NEW d \in LoanDurations, RequestLoan(u, ids, x, d)
      PROVE  PoolInv'
  <2>. DEFINE n == Len(loans) + 1
              fee == BpsOf(x, params.origFee)
              b == Transfer(balance, Contract, Treasury, fee)
  <2>1. /\ Len(loans) \in Nat /\ DOMAIN loans = 1 .. Len(loans) /\ DOMAIN loans' = 1 .. n
        /\ \A i \in DOMAIN loans : loans'[i] = loans[i]
        /\ loans'[n].outstanding = x /\ x \in Nat \ {0}
    BY <1>1, <1>5, RequestLoanStep
  <2>2. TotalOutstanding' = TotalOutstanding + x
    <3>1. n \notin DOMAIN loans /\ DOMAIN loans' = DOMAIN loans \cup {n}
      BY <2>1
    <3>. QED
      BY <1>1, <2>1, <3>1, NewLoanOwed
  <2>3. fee \in 0 .. x /\ Disbursement(x) = x - fee /\ x <= balance[Contract]
    BY <1>1, <1>5, <2>1, BpsOfBound DEF TypeOK, Params, Disbursement, RequestLoan
  <2>4. u \in Accounts /\ u # Contract
    BY <1>2 DEF Accounts
  <2>. HIDE DEF fee
  <2>5. b \in [Accounts -> Nat] /\ b[Contract] = balance[Contract] - fee
    <3>1. fee \in Nat /\ fee <= balance[Contract]
      BY <1>3, <2>1, <2>3
    <3>. QED
      BY <1>2, <3>1, TransferType, TransferBalances
  <2>6. balance' = Transfer(b, Contract, u, Disbursement(x)) /\ pool' = pool
    BY <1>5 DEF RequestLoan, fee
  <2>. HIDE DEF b
  <2>7. Transfer(b, Contract, u, Disbursement(x))[Contract] = b[Contract] - Disbursement(x)
    <3>1. Disbursement(x) \in Nat /\ Disbursement(x) <= b[Contract]
      BY <1>3, <2>1, <2>3, <2>5
    <3>. QED
      BY <1>2, <2>4, <2>5, <3>1, TransferBalances
  <2>8. PoolChange(-x, x, 0, 0)
    BY <1>3, <2>1, <2>2, <2>3, <2>5, <2>6, <2>7 DEF PoolChange
  <2>. QED
    BY <1>4, <2>1, <2>8
<1>6. ASSUME NEW u \in Users, NEW x \in Amounts, NEW i \in DOMAIN loans, Repay(u, i, x)
      PROVE  PoolInv'
  <2>1. PICK int, ip, pp \in Nat : PaymentSplit(u, i, int, ip, pp)
    BY <1>1, <1>6, RepayStep
  <2>. DEFINE b == Transfer(balance, u, Contract, ip + pp)
              fee == BpsOf(ip, params.intFee)
  <2>2. TotalOutstanding' = TotalOutstanding + (-pp)
    <3>1. loans[i] \in Loan
      BY <1>1, LenProperties, ElementOfSeq DEF TypeOK
    <3>2. /\ DOMAIN loans' = DOMAIN loans
          /\ \A j \in DOMAIN loans \ {i} : loans'[j] = loans[j]
          /\ loans'[i].outstanding = loans[i].outstanding - pp
          /\ loans[i].outstanding \in Nat
      BY <1>1, <2>1, <3>1 DEF PaymentSplit, TypeOK, Loan
    <3>3. loans'[i].outstanding = loans[i].outstanding + (-pp) /\ -pp \in Int
      BY <3>2
    <3>. QED
      BY <1>1, <3>2, <3>3, OneLoanOwed
  <2>3. fee \in 0 .. ip
    <3>1. params.intFee \in 0 .. BPS
      <4>1. params.intFee \in 0 .. (BPS \div 10) /\ BPS \in Nat \ {0}
        BY <1>1, LendingAssumption DEF TypeOK, Params
      <4>. QED
        BY <4>1
    <3>. QED
      BY <3>1, BpsOfBound
  <2>4. u \in Accounts /\ u # Contract
    BY <1>2 DEF Accounts
  <2>5. b \in [Accounts -> Nat] /\ b[Contract] = balance[Contract] + (ip + pp)
    <3>1. ip + pp \in Nat /\ ip + pp <= balance[u]
      BY <2>1 DEF PaymentSplit
    <3>. QED
      BY <1>2, <2>4, <3>1, TransferType, TransferBalances
  <2>6. /\ balance' = Transfer(b, Contract, Treasury, fee)
        /\ pool'.earned = pool.earned + (ip - fee) /\ pool'.withdrawn = pool.withdrawn
    BY <1>2, <2>1 DEF PaymentSplit
  <2>. HIDE DEF b, fee
  <2>7. Transfer(b, Contract, Treasury, fee)[Contract] = b[Contract] - fee
    <3>1. fee \in Nat /\ fee <= b[Contract]
      BY <1>3, <2>3, <2>5
    <3>. QED
      BY <1>2, <2>5, <3>1, TransferBalances
  <2>8. PoolChange(ip + pp - fee, -pp, ip - fee, 0)
    BY <1>3, <2>2, <2>3, <2>5, <2>6, <2>7 DEF PoolChange
  <2>. QED
    BY <1>4, <2>3, <2>8
<1>7. ASSUME NEW u \in Users, NEW x \in Amounts, NEW i \in DOMAIN loans, Liquidate(u, i, x)
      PROVE  PoolInv'
  <2>1. /\ loans[i] \in Loan /\ x \in Nat \ {0} /\ x <= loans[i].outstanding /\ x <= balance[u]
        /\ loans' = [loans EXCEPT ![i] =
             [loans[i] EXCEPT !.outstanding = loans[i].outstanding - x,
                              !.status = IF loans[i].outstanding - x = 0
                                         THEN "Liquidated" ELSE "Active"]]
    BY <1>1, <1>7, LiquidateStep
  <2>2. TotalOutstanding' = TotalOutstanding + (-x)
    <3>1. /\ DOMAIN loans' = DOMAIN loans
          /\ \A j \in DOMAIN loans \ {i} : loans'[j] = loans[j]
          /\ loans'[i].outstanding = loans[i].outstanding - x
          /\ loans[i].outstanding \in Nat
      BY <1>1, <2>1 DEF TypeOK, Loan
    <3>2. loans'[i].outstanding = loans[i].outstanding + (-x) /\ -x \in Int
      BY <2>1, <3>1
    <3>. QED
      BY <1>1, <3>1, <3>2, OneLoanOwed
  <2>3. balance'[Contract] = balance[Contract] + x /\ pool' = pool
    <3>1. u \in Accounts /\ u # Contract
      BY <1>2 DEF Accounts
    <3>2. balance' = Transfer(balance, u, Contract, x) /\ pool' = pool
      BY <1>7 DEF Liquidate
    <3>. QED
      BY <1>2, <2>1, <3>1, <3>2, TransferBalances
  <2>4. PoolChange(x, -x, 0, 0) /\ x \in Int /\ -x \in Int
    BY <1>3, <2>1, <2>2, <2>3 DEF PoolChange
  <2>. QED
    BY <1>4, <2>4
<1>8. ASSUME NEW a \in Recipients, EmergencyWithdraw(a)
      PROVE  PoolInv'
  <2>1. a \in Accounts /\ a # Contract
    BY LendingAssumption
  <2>2. /\ balance' = Transfer(balance, Contract, a, balance[Contract]) /\ loans' = loans
        /\ pool'.earned = pool.earned
        /\ pool'.withdrawn = pool.withdrawn + balance[Contract]
    BY <1>2, <1>8 DEF EmergencyWithdraw
  <2>3. balance'[Contract] = balance[Contract] - balance[Contract]
    BY <1>2, <1>3, <2>1, <2>2, TransferBalances
  <2>4. TotalOutstanding' = TotalOutstanding
    BY <2>2, TotalUnchanged
  <2>5. PoolChange(-balance[Contract], 0, 0, balance[Contract])
    BY <1>3, <2>2, <2>3, <2>4 DEF PoolChange
  <2>. QED
    BY <1>3, <1>4, <2>5
<1>9. ASSUME UNCHANGED <<loans, balance, pool>>
      PROVE  PoolInv'
  <2>1. TotalOutstanding' = TotalOutstanding
    BY <1>9, TotalUnchanged
  <2>. QED
    BY <1>1, <1>9, <2>1 DEF PoolInv, PoolAccounting
<1>10. CASE Livestock
  BY <1>9, <1>10 DEF Livestock, RegisterLivestock, UpdateAppraisal
<1>11. CASE Borrowing
  BY <1>5, <1>6, <1>7, <1>11 DEF Borrowing
<1>12. CASE Administration
  <2>1. CASE \E a \in Recipients : EmergencyWithdraw(a)
    BY <1>8, <2>1
  <2>2. CASE ~ \E a \in Recipients : EmergencyWithdraw(a)
    BY <1>9, <1>12, <2>2
       DEF Administration, SetParams, SetLtv, SetLiquidationThreshold, SetCloseFactor,
           UpdateFeeConfig, SetLoanLimits, SetAnimalCap, AddLiquidator, RemoveLiquidator
  <2>. QED
    BY <2>1, <2>2
<1>13. CASE Pausing \/ Time \/ UNCHANGED vars
  BY <1>9, <1>13 DEF Pausing, Time, vars, lendingVars
<1>. QED
  BY <1>10, <1>11, <1>12, <1>13 DEF Next

\* Between the pool and the loans no token is lost or made, for any number of
\* loans, partial payments, liquidations and emergency withdrawals.
THEOREM PoolBalances == Spec => []PoolAccounting
<1>1. Init => PoolInv
  <2>. SUFFICES ASSUME Init PROVE PoolInv
    OBVIOUS
  <2>1. TypeOK
    BY InitType
  <2>2. TotalOutstanding = 0
    <3>1. TotalOutstanding = SumOn(Owed, DOMAIN loans) /\ DOMAIN loans = {}
      BY TotalIsSum DEF Init
    <3>. QED
      BY <3>1, SumEmpty
  <2>3. InitialBalance[Contract] \in Nat
    BY LendingAssumption DEF Accounts
  <2>. QED
    BY <2>1, <2>2, <2>3 DEF Init, PoolInv, PoolAccounting
<1>2. PoolInv => PoolAccounting
  BY DEF PoolInv
<1>. QED
  BY <1>1, <1>2, PoolStep, PTL DEF Spec

-----------------------------------------------------------------------------
(* What lowers the health of a loan.                                       *)

\* A smaller debt and a threshold that is not lowered make a health factor no
\* smaller.
LEMMA HealthGrows ==
  ASSUME NEW v \in Nat, NEW t1 \in Nat, NEW t2 \in Nat, t1 <= t2,
         NEW o1 \in Nat \ {0}, NEW o2 \in Nat \ {0}, o2 <= o1, NEW B \in Nat \ {0}
  PROVE  (v * t1 * B) \div (o1 * B) <= (v * t2 * B) \div (o2 * B)
<1>. DEFINE n1 == v * t1 * B
            n2 == v * t2 * B
            d1 == o1 * B
            d2 == o2 * B
            q == n1 \div d1
<1>1. n1 \in Nat /\ n2 \in Nat /\ n1 <= n2
  <2>1. v * t1 \in Nat /\ v * t2 \in Nat /\ v * t1 <= v * t2
    BY ProductMonotone
  <2>. QED
    BY <2>1, ProductMonotone
<1>2. d1 \in Nat \ {0} /\ d2 \in Nat \ {0} /\ d2 <= d1
  <2>1. o2 * B \in Nat /\ o1 * B \in Nat /\ o2 * B <= o1 * B
    BY ProductMonotone
  <2>2. o2 * B > 0 /\ o1 * B > 0
    OBVIOUS
  <2>. QED
    BY <2>1, <2>2
<1>. HIDE DEF n1, n2, d1, d2
<1>3. q \in Nat /\ q * d1 <= n1
  BY <1>1, <1>2, QuotientBound
<1>. HIDE DEF q
<1>4. q * d2 <= n2
  <2>1. q * d2 \in Nat /\ q * d1 \in Nat /\ q * d2 <= q * d1
    BY <1>2, <1>3, ProductMonotone
  <2>. QED
    BY <1>1, <1>3, <2>1
<1>5. q <= n2 \div d2
  BY <1>1, <1>2, <1>3, <1>4
<1>. QED
  BY <1>5 DEF n1, n2, d1, d2, q

\* No step of the contract lends more on an open loan or changes the value of
\* its collateral.
LEMMA OpenLoanShrinks ==
  ASSUME LoanInv, [Next]_vars, NEW i \in DOMAIN loans
  PROVE  /\ loans'[i].value = loans[i].value
         /\ loans'[i].outstanding <= loans[i].outstanding
<1>1. TypeOK
  BY DEF LoanInv
<1>2. loans \in Seq(Loan) /\ loans[i] \in Loan /\ loans[i].outstanding \in Nat
  <2>1. loans \in Seq(Loan) /\ loans[i] \in Loan
    BY <1>1, LenProperties, ElementOfSeq DEF TypeOK
  <2>. QED
    BY <2>1 DEF Loan
<1>3. ASSUME loans'[i] = loans[i]
      PROVE  /\ loans'[i].value = loans[i].value
             /\ loans'[i].outstanding <= loans[i].outstanding
  BY <1>2, <1>3
<1>4. ASSUME NEW u \in Users, NEW x \in Amounts, NEW ids \in CollateralLists,
             NEW d \in LoanDurations, RequestLoan(u, ids, x, d)
      PROVE  loans'[i] = loans[i]
  BY <1>1, <1>4, RequestLoanStep
<1>5. ASSUME NEW u \in Users, NEW x \in Amounts, NEW j \in DOMAIN loans,
             Repay(u, j, x) \/ Liquidate(u, j, x)
      PROVE  /\ loans'[i].value = loans[i].value
             /\ loans'[i].outstanding <= loans[i].outstanding
  <2>1. CASE Repay(u, j, x)
    <3>1. PICK int, ip, pp \in Nat : PaymentSplit(u, j, int, ip, pp)
      BY <1>1, <2>1, RepayStep
    <3>2. CASE i = j
      <4>1. /\ loans'[i].value = loans[i].value
            /\ loans'[i].outstanding = loans[i].outstanding - pp
        BY <1>2, <3>1, <3>2 DEF PaymentSplit, Loan
      <4>. QED
        BY <1>2, <4>1
    <3>3. CASE i # j
      <4>1. loans'[i] = loans[i]
        BY <1>2, <3>1, <3>3 DEF PaymentSplit
      <4>. QED
        BY <1>3, <4>1
    <3>. QED
      BY <3>2, <3>3
  <2>2. CASE Liquidate(u, j, x)
    <3>1. /\ x \in Nat \ {0}
          /\ loans' = [loans EXCEPT ![j] =
               [loans[j] EXCEPT !.outstanding = loans[j].outstanding - x,
                                !.status = IF loans[j].outstanding - x = 0
                                           THEN "Liquidated" ELSE "Active"]]
      BY <1>1, <2>2, LiquidateStep
    <3>2. CASE i = j
      <4>1. /\ loans'[i].value = loans[i].value
            /\ loans'[i].outstanding = loans[i].outstanding - x
        BY <1>2, <3>1, <3>2 DEF Loan
      <4>. QED
        BY <1>2, <3>1, <4>1
    <3>3. CASE i # j
      <4>1. loans'[i] = loans[i]
        BY <1>2, <3>1, <3>3
      <4>. QED
        BY <1>3, <4>1
    <3>. QED
      BY <3>2, <3>3
  <2>. QED
    BY <1>5, <2>1, <2>2
<1>6. CASE UNCHANGED <<loans, terms>>
  BY <1>3, <1>6
<1>. QED
  BY <1>3, <1>4, <1>5, <1>6, LoanFrame DEF LoanChange

LEMMA HealthStep ==
  ASSUME LoanInv, [Next]_vars, NEW i \in DOMAIN loans,
         loans[i].status = "Active", loans'[i].status = "Active",
         HealthFactor(loans'[i], params'.liqThr) < HealthFactor(loans[i], params.liqThr)
  PROVE  params'.liqThr < params.liqThr
<1>1. LoanInv'
  BY LoanInvStep
<1>2. i \in DOMAIN loans'
  <2>1. TypeOK /\ DOMAIN loans = 1 .. Len(loans) /\ Len(loans) \in Nat
    BY LenProperties DEF LoanInv, TypeOK
  <2>2. ASSUME NEW u \in Users, NEW x \in Amounts, NEW ids \in CollateralLists,
               NEW d \in LoanDurations, RequestLoan(u, ids, x, d)
        PROVE  i \in DOMAIN loans'
    <3>1. DOMAIN loans' = 1 .. Len(loans) + 1
      BY <2>1, <2>2, RequestLoanStep
    <3>. QED
      BY <2>1, <3>1
  <2>3. ASSUME NEW u \in Users, NEW x \in Amounts, NEW j \in DOMAIN loans,
               Repay(u, j, x) \/ Liquidate(u, j, x)
        PROVE  i \in DOMAIN loans'
    BY <2>1, <2>3, LoanKeepsIds
  <2>4. CASE UNCHANGED <<loans, terms>>
    BY <2>4
  <2>. QED
    BY <2>2, <2>3, <2>4, LoanFrame DEF LoanChange
<1>3. /\ loans[i].value \in Nat /\ loans[i].outstanding \in Nat \ {0}
      /\ loans[i].interest \in Nat /\ params.liqThr \in Nat /\ BPS \in Nat \ {0}
  <2>1. loans[i] \in Loan /\ params \in Params
    BY LenProperties, ElementOfSeq DEF LoanInv, TypeOK
  <2>. QED
    BY <2>1, LendingAssumption DEF LoanInv, LoanStatusSound, Loan, Params
<1>4. /\ loans'[i].outstanding \in Nat \ {0}
      /\ loans'[i].interest \in Nat /\ params'.liqThr \in Nat
  <2>1. loans'[i] \in Loan /\ params' \in Params
    BY <1>1, <1>2, LenProperties, ElementOfSeq DEF LoanInv, TypeOK
  <2>. QED
    BY <1>1, <1>2, <2>1 DEF LoanInv, LoanStatusSound, Loan, Params
<1>5. /\ loans'[i].value = loans[i].value
      /\ loans'[i].outstanding <= loans[i].outstanding
  BY OpenLoanShrinks
<1>6. /\ HealthFactor(loans[i], params.liqThr)
           = (loans[i].value * params.liqThr * BPS) \div (loans[i].outstanding * BPS)
      /\ HealthFactor(loans'[i], params'.liqThr)
           = (loans[i].value * params'.liqThr * BPS) \div (loans'[i].outstanding * BPS)
  <2>1. loans[i].outstanding + loans[i].interest # 0
        /\ loans'[i].outstanding + loans'[i].interest # 0
    BY <1>3, <1>4
  <2>. QED
    BY <1>5, <2>1 DEF HealthFactor
<1>. DEFINE v == loans[i].value
            o1 == loans[i].outstanding
            o2 == loans'[i].outstanding
            t1 == params.liqThr
            t2 == params'.liqThr
<1>7. /\ v \in Nat /\ o1 \in Nat \ {0} /\ o2 \in Nat \ {0} /\ o2 <= o1
      /\ t1 \in Nat /\ t2 \in Nat /\ BPS \in Nat \ {0}
      /\ (v * t2 * BPS) \div (o2 * BPS) < (v * t1 * BPS) \div (o1 * BPS)
  BY <1>3, <1>4, <1>5, <1>6
<1>. HIDE DEF v, o1, o2, t1, t2
<1>8. CASE t1 <= t2
  <2>1. (v * t1 * BPS) \div (o1 * BPS) <= (v * t2 * BPS) \div (o2 * BPS)
    BY <1>7, <1>8, HealthGrows
  <2>2. (v * t1 * BPS) \div (o1 * BPS) \in Int /\ (v * t2 * BPS) \div (o2 * BPS) \in Int
    BY <1>7
  <2>. QED
    BY <1>7, <2>1, <2>2
<1>9. CASE t2 < t1
  BY <1>9 DEF t1, t2
<1>. QED
  BY <1>7, <1>8, <1>9

\* Whatever is repaid, liquidated or reappraised and however much time goes
\* by, only a lower threshold lowers the health of an open loan.
THEOREM HealthNeedsLowerThreshold == Spec => HealthDropsOnlyWithThreshold
<1>1. LoanInv /\ [Next]_vars
        => [\A i \in DOMAIN loans :
              /\ loans[i].status = "Active" /\ loans'[i].status = "Active"
              /\ HealthFactor(loans'[i], params'.liqThr) < HealthFactor(loans[i], params.liqThr)
              => params'.liqThr < params.liqThr]_vars
  BY HealthStep
<1>. QED
  BY <1>1, LoanInvariant, PTL DEF Spec, HealthDropsOnlyWithThreshold

-----------------------------------------------------------------------------
(* The life cycle.                                                         *)

StatusName(st) ==
  CASE st = "Active"     -> "active"
    [] st = "Repaid"     -> "repaid"
    [] st = "Liquidated" -> "liquidated"

LEMMA StatusNames ==
  /\ StatusName("Active") = "active"
  /\ StatusName("Repaid") = "repaid"
  /\ StatusName("Liquidated") = "liquidated"
  BY DEF StatusName

LEMMA LifecycleAt ==
  ASSUME NEW i \in 1 .. MaxLoans
  PROVE  LifecycleOf[i] = IF i \notin DOMAIN loans THEN "pending"
                          ELSE StatusName(loans[i].status)
  BY DEF LifecycleOf, StatusName

LEMMA LifecycleAtNext ==
  ASSUME NEW i \in 1 .. MaxLoans
  PROVE  LifecycleOf'[i] = IF i \notin DOMAIN loans' THEN "pending"
                           ELSE StatusName(loans'[i].status)
  BY DEF LifecycleOf, StatusName

LEMMA LifecycleFunction ==
  /\ LifecycleOf = [i \in 1 .. MaxLoans |-> LifecycleOf[i]]
  /\ LifecycleOf' = [i \in 1 .. MaxLoans |-> LifecycleOf'[i]]
<1>1. LifecycleOf = [i \in 1 .. MaxLoans |-> IF i \notin DOMAIN loans THEN "pending"
                                             ELSE StatusName(loans[i].status)]
  BY DEF LifecycleOf, StatusName
<1>2. LifecycleOf' = [i \in 1 .. MaxLoans |-> IF i \notin DOMAIN loans' THEN "pending"
                                              ELSE StatusName(loans'[i].status)]
  BY DEF LifecycleOf, StatusName
<1>3. LifecycleOf = [i \in 1 .. MaxLoans |-> LifecycleOf[i]]
  BY <1>1
<1>4. LifecycleOf' = [i \in 1 .. MaxLoans |-> LifecycleOf'[i]]
  BY <1>2
<1>. QED
  BY <1>3, <1>4

\* A change of one loan along the table is a step of the life cycle.
LEMMA LifecycleMove ==
  ASSUME NEW i \in 1 .. MaxLoans, NEW next \in Lifecycle!LoanStatus,
         next \in Lifecycle!TRANSITIONS[LifecycleOf[i]],
         LifecycleOf'[i] = next,
         \A j \in (1 .. MaxLoans) \ {i} : LifecycleOf'[j] = LifecycleOf[j]
  PROVE  Lifecycle!Next
<1>1. LifecycleOf' = [LifecycleOf EXCEPT ![i] = next]
  BY LifecycleFunction
<1>. QED
  BY <1>1 DEF Lifecycle!Next, Lifecycle!Transition

\* Every step of the contract is a step of the life cycle or leaves it alone.
LEMMA LifecycleStep == LoanInv /\ [Next]_vars => [Lifecycle!Next]_LifecycleOf
<1>. SUFFICES ASSUME LoanInv, [Next]_vars PROVE Lifecycle!Next \/ LifecycleOf' = LifecycleOf
  OBVIOUS
<1>1. TypeOK /\ DOMAIN loans = 1 .. Len(loans) /\ Len(loans) \in Nat /\ MaxLoans \in Nat
  BY LenProperties, LendingAssumption DEF LoanInv, TypeOK
<1>2. ASSUME \A j \in 1 .. MaxLoans : LifecycleOf'[j] = LifecycleOf[j]
      PROVE  LifecycleOf' = LifecycleOf
  BY <1>2, LifecycleFunction
<1>3. ASSUME NEW u \in Users, NEW x \in Amounts, NEW ids \in CollateralLists,
             NEW d \in LoanDurations, RequestLoan(u, ids, x, d)
      PROVE  Lifecycle!Next
  <2>. DEFINE n == Len(loans) + 1
  <2>1. /\ DOMAIN loans' = 1 .. n /\ loans'[n].status = "Active"
        /\ \A i \in DOMAIN loans : loans'[i] = loans[i]
        /\ n \in 1 .. MaxLoans
    BY <1>1, <1>3, RequestLoanStep DEF RequestLoan
  <2>2. LifecycleOf[n] = "pending" /\ LifecycleOf'[n] = "active"
    BY <1>1, <2>1, LifecycleAt, LifecycleAtNext, StatusNames
  <2>3. \A j \in (1 .. MaxLoans) \ {n} : LifecycleOf'[j] = LifecycleOf[j]
    <3>. TAKE j \in (1 .. MaxLoans) \ {n}
    <3>1. (j \in DOMAIN loans' <=> j \in DOMAIN loans)
          /\ (j \in DOMAIN loans => loans'[j] = loans[j])
      BY <1>1, <2>1
    <3>. QED
      BY <3>1, LifecycleAt, LifecycleAtNext
  <2>4. "active" \in Lifecycle!LoanStatus /\ "active" \in Lifecycle!TRANSITIONS["pending"]
    BY DEF Lifecycle!LoanStatus, Lifecycle!TRANSITIONS
  <2>. QED
    BY <2>1, <2>2, <2>3, <2>4, LifecycleMove
<1>4. ASSUME NEW i \in DOMAIN loans, DOMAIN loans' = DOMAIN loans,
             \A j \in DOMAIN loans \ {i} : loans'[j] = loans[j],
             loans[i].status = "Active",
             loans'[i].status \in {"Active", "Repaid", "Liquidated"}
      PROVE  Lifecycle!Next \/ LifecycleOf' = LifecycleOf
  <2>1. \A j \in (1 .. MaxLoans) \ {i} : LifecycleOf'[j] = LifecycleOf[j]
    BY <1>4, LifecycleAt, LifecycleAtNext
  <2>2. CASE i \notin 1 .. MaxLoans \/ loans'[i].status = "Active"
    <3>1. \A j \in 1 .. MaxLoans : LifecycleOf'[j] = LifecycleOf[j]
      BY <1>4, <2>1, <2>2, LifecycleAt, LifecycleAtNext
    <3>. QED
      BY <1>2, <3>1
  <2>3. CASE i \in 1 .. MaxLoans /\ loans'[i].status \in {"Repaid", "Liquidated"}
    <3>1. LifecycleOf[i] = "active" /\ LifecycleOf'[i] \in {"repaid", "liquidated"}
      BY <1>4, <2>3, LifecycleAt, LifecycleAtNext, StatusNames
    <3>2. /\ {"repaid", "liquidated"} \subseteq Lifecycle!LoanStatus
          /\ {"repaid", "liquidated"} \subseteq Lifecycle!TRANSITIONS["active"]
      BY DEF Lifecycle!LoanStatus, Lifecycle!TRANSITIONS
    <3>. QED
      BY <2>1, <2>3, <3>1, <3>2, LifecycleMove
  <2>. QED
    BY <1>4, <2>2, <2>3
<1>5. ASSUME NEW u \in Users, NEW x \in Amounts, NEW i \in DOMAIN loans, Repay(u, i, x)
      PROVE  Lifecycle!Next \/ LifecycleOf' = LifecycleOf
  <2>1. PICK int, ip, pp \in Nat : PaymentSplit(u, i, int, ip, pp)
    BY <1>1, <1>5, RepayStep
  <2>2. /\ DOMAIN loans' = DOMAIN loans
        /\ \A j \in DOMAIN loans \ {i} : loans'[j] = loans[j]
        /\ loans'[i].status \in {"Active", "Repaid"}
    <3>1. loans[i] \in Loan
      BY <1>1, ElementOfSeq DEF TypeOK
    <3>. QED
      BY <1>1, <2>1, <3>1 DEF PaymentSplit, TypeOK, Loan
  <2>3. loans[i].status = "Active"
    BY <1>5 DEF Repay, IsOpen
  <2>. QED
    BY <1>4, <2>2, <2>3
<1>6. ASSUME NEW u \in Users, NEW x \in Amounts, NEW i \in DOMAIN loans, Liquidate(u, i, x)
      PROVE  Lifecycle!Next \/ LifecycleOf' = LifecycleOf
  <2>1. /\ loans[i] \in Loan
        /\ loans' = [loans EXCEPT ![i] =
             [loans[i] EXCEPT !.outstanding = loans[i].outstanding - x,
                              !.status = IF loans[i].outstanding - x = 0
                                         THEN "Liquidated" ELSE "Active"]]
    BY <1>1, <1>6, LiquidateStep
  <2>2. /\ DOMAIN loans' = DOMAIN loans
        /\ \A j \in DOMAIN loans \ {i} : loans'[j] = loans[j]
        /\ loans'[i].status \in {"Active", "Liquidated"}
    BY <1>1, <2>1 DEF TypeOK, Loan
  <2>3. loans[i].status = "Active"
    BY <1>6 DEF Liquidate, IsOpen
  <2>. QED
    BY <1>4, <2>2, <2>3
<1>7. CASE UNCHANGED <<loans, terms>>
  <2>1. LifecycleOf' = LifecycleOf
    BY <1>2, <1>7, LifecycleAt, LifecycleAtNext
  <2>. QED
    BY <2>1
<1>. QED
  BY <1>3, <1>5, <1>6, <1>7, LoanFrame DEF LoanChange

\* The contract implements the life cycle of loanStateMachine.ts: every loan
\* starts pending and moves along its table, one loan at a time.
THEOREM ImplementsLifecycle == Spec => LifecycleSpec
<1>1. Init => Lifecycle!Init
  <2>. SUFFICES ASSUME Init PROVE Lifecycle!Init
    OBVIOUS
  <2>1. \A i \in 1 .. MaxLoans : LifecycleOf[i] = "pending"
    BY LifecycleAt DEF Init
  <2>. QED
    BY <2>1, LifecycleFunction DEF Lifecycle!Init
<1>. QED
  BY <1>1, LifecycleStep, LoanInvariant, PTL DEF Spec, LifecycleSpec, Lifecycle!Spec

-----------------------------------------------------------------------------
(* The quotes of the backend.                                              *)

\* The smaller of what is paid and what is due, interest included, leaves at
\* least what the smaller of what is paid and the principal leaves.
LEMMA CapIsOptimistic ==
  ASSUME NEW out \in Nat, NEW int \in Nat, NEW x \in Nat
  PROVE  (out + int) - Lesser(x, out + int) >= out - Lesser(x, out)
  BY DEF Lesser

\* What a payment does to a loan and to the balances, in the terms of the
\* preview: interest first, all of it capped at what is due.
LEMMA RepayAmounts ==
  ASSUME LoanInv, NEW u \in Users, NEW x \in Amounts, NEW i \in DOMAIN loans,
         Repay(u, i, x)
  PROVE  LET due == loans[i].interest + Accrued(loans[i])
             paid == Lesser(x, loans[i].outstanding + due)
             ip   == InterestPaid(due, paid)
             fee  == BpsOf(ip, params.intFee)
         IN  /\ x \in Nat \ {0} /\ due \in Nat /\ ip \in Nat
             /\ loans[i] \in Loan /\ loans[i].outstanding <= loans[i].principal
             /\ loans'[i].outstanding = loans[i].outstanding - (paid - ip)
             /\ loans'[i].interest = due - ip
             /\ loans'[i].value = loans[i].value
             /\ (loans'[i].status = "Repaid")
                  <=> (loans'[i].outstanding = 0 /\ loans'[i].interest = 0)
             /\ balance[u] - balance'[u] = paid
             /\ balance'[Treasury] - balance[Treasury] = fee
<1>. DEFINE out  == loans[i].outstanding
            due  == loans[i].interest + Accrued(loans[i])
            paid == Lesser(x, out + due)
            ip   == InterestPaid(due, paid)
            fee  == BpsOf(ip, params.intFee)
            left == out - (paid - ip)
            b    == Transfer(balance, u, Contract, paid)
<1>1. TypeOK
  BY DEF LoanInv
<1>2. /\ loans[i] \in Loan /\ i \in 1 .. Len(loans) /\ loans \in Seq(Loan)
      /\ DOMAIN loans = 1 .. Len(loans)
  BY <1>1, LenProperties, ElementOfSeq DEF TypeOK
<1>3. x \in Nat \ {0} /\ due \in Nat /\ out \in Nat
  <2>1. x > 0
    BY DEF Repay
  <2>2. Accrued(loans[i]) \in Nat
    BY <1>1, <1>2, AccruedNat
  <2>3. x \in Int
    BY LendingAssumption
  <2>4. loans[i].interest \in Nat /\ out \in Nat
    BY <1>2 DEF Loan
  <2>. QED
    BY <2>1, <2>2, <2>3, <2>4
<1>4. out <= loans[i].principal
  BY DEF LoanInv, LoanStatusSound
<1>5. /\ loans' = [loans EXCEPT ![i] =
           [loans[i] EXCEPT !.outstanding = left, !.interest = due - ip,
                            !.lastTime = now,
                            !.status = IF Settled(left, due - ip)
                                       THEN "Repaid" ELSE "Active"]]
      /\ balance' = Transfer(b, Contract, Treasury, fee)
      /\ paid <= balance[u]
  BY DEF Repay
<1>. HIDE DEF due, out
<1>6. paid \in Nat /\ ip \in Nat /\ ip <= paid
  BY <1>3 DEF Lesser, InterestPaid
<1>. HIDE DEF paid, ip
<1>7. /\ loans'[i].outstanding = left /\ loans'[i].interest = due - ip
      /\ loans'[i].value = loans[i].value
      /\ (loans'[i].status = "Repaid") <=> (left = 0 /\ due - ip = 0)
  BY <1>2, <1>5 DEF Loan, Settled
<1>8. /\ balance \in [Accounts -> Nat] /\ params.intFee \in 0 .. BPS
      /\ u \in Accounts /\ Contract \in Accounts /\ Treasury \in Accounts
      /\ u # Contract /\ u # Treasury /\ Contract # Treasury
  <2>1. params.intFee \in 0 .. (BPS \div 10) /\ BPS \in Nat \ {0}
    BY <1>1, LendingAssumption DEF TypeOK, Params
  <2>2. params.intFee \in 0 .. BPS
    BY <2>1
  <2>. QED
    BY <1>1, <2>2, LendingAssumption DEF TypeOK, Accounts
<1>9. fee \in 0 .. ip
  BY <1>6, <1>8, BpsOfBound
<1>. HIDE DEF fee
<1>10. /\ b \in [Accounts -> Nat] /\ b[u] = balance[u] - paid
       /\ b[Contract] = balance[Contract] + paid
       /\ b[Treasury] = balance[Treasury]
  BY <1>5, <1>6, <1>8, TransferType, TransferBalances
<1>11. fee \in Nat /\ fee <= b[Contract]
  BY <1>6, <1>8, <1>9, <1>10
<1>. HIDE DEF b
<1>12. balance'[u] = b[u] /\ balance'[Treasury] = b[Treasury] + fee
  BY <1>5, <1>8, <1>10, <1>11, TransferBalances
<1>13. balance[u] - balance'[u] = paid /\ balance'[Treasury] - balance[Treasury] = fee
  <2>1. balance[u] \in Nat /\ balance[Treasury] \in Nat
    BY <1>8
  <2>. QED
    BY <1>6, <1>10, <1>11, <1>12, <2>1
<1>. QED
  BY <1>2, <1>3, <1>4, <1>6, <1>7, <1>13 DEF out, due, paid, ip, fee

\* The preview of a repayment against the repayment.
LEMMA PreviewHolds ==
  ASSUME LoanInv, NEW u \in Users, NEW x \in Amounts, NEW i \in DOMAIN loans,
         Repay(u, i, x)
  PROVE  LET preview == RepaymentPreview(Parsed(loans[i]), x)
             after   == loans'[i]
         IN  /\ after.outstanding + after.interest >= preview.remaining
             /\ loans[i].interest + Accrued(loans[i]) = 0 =>
                  /\ after.outstanding = preview.remaining
                  /\ balance[u] - balance'[u] = preview.repayment
                  /\ balance'[Treasury] - balance[Treasury] = preview.fees
                  /\ (after.status = "Repaid") = preview.fullyRepaid
                  /\ params.liqThr = (8 * BPS) \div 10
                       => HealthFactor(after, params.liqThr) = preview.health
<1>. DEFINE out  == loans[i].outstanding
            due  == loans[i].interest + Accrued(loans[i])
            paid == Lesser(x, out + due)
            ip   == InterestPaid(due, paid)
            after == loans'[i]
            remaining == out - Lesser(x, out)
            preview == RepaymentPreview(Parsed(loans[i]), x)
<1>1. /\ x \in Nat \ {0} /\ due \in Nat /\ ip \in Nat
      /\ loans[i] \in Loan /\ out <= loans[i].principal
      /\ after.outstanding = out - (paid - ip) /\ after.interest = due - ip
      /\ after.value = loans[i].value
      /\ (after.status = "Repaid") <=> (after.outstanding = 0 /\ after.interest = 0)
      /\ balance[u] - balance'[u] = paid
      /\ balance'[Treasury] - balance[Treasury] = BpsOf(ip, params.intFee)
  BY RepayAmounts
<1>2. out \in Nat /\ loans[i].principal \in Nat /\ loans[i].value \in Nat
  BY <1>1 DEF Loan
<1>3. ~(out > loans[i].principal)
  BY <1>1, <1>2
<1>4. /\ preview.remaining = remaining /\ preview.repayment = Lesser(x, out)
      /\ preview.fees = BpsOf(0, params.intFee)
      /\ preview.fullyRepaid = (remaining = 0)
      /\ preview.health = IF remaining = 0 THEN MaxI128
                          ELSE (loans[i].value * ((8 * BPS) \div 10) * BPS)
                                 \div (remaining * BPS)
  BY <1>3 DEF RepaymentPreview, Parsed, CappedRepayment
<1>. HIDE DEF out, due, after, preview
<1>5. after.outstanding + after.interest = (out + due) - paid
  BY <1>1, <1>2 DEF paid, Lesser
<1>6. after.outstanding + after.interest >= preview.remaining
  BY <1>1, <1>2, <1>4, <1>5, CapIsOptimistic
<1>7. ASSUME due = 0
      PROVE  /\ after.outstanding = preview.remaining
             /\ balance[u] - balance'[u] = preview.repayment
             /\ balance'[Treasury] - balance[Treasury] = preview.fees
             /\ (after.status = "Repaid") = preview.fullyRepaid
             /\ params.liqThr = (8 * BPS) \div 10
                  => HealthFactor(after, params.liqThr) = preview.health
  <2>1. paid = Lesser(x, out) /\ ip = 0
    BY <1>1, <1>2, <1>7 DEF Lesser, InterestPaid
  <2>. HIDE DEF paid, ip
  <2>2. remaining \in Nat /\ paid \in Nat /\ after.outstanding = remaining
        /\ after.interest = 0
    BY <1>1, <1>2, <1>7, <2>1 DEF Lesser
  <2>. HIDE DEF remaining
  <2>3. (after.status = "Repaid") = preview.fullyRepaid
    BY <1>1, <1>4, <2>2, Zenon
  <2>4. after.outstanding + after.interest = 0 <=> remaining = 0
    BY <2>2
  <2>5. HealthFactor(after, params.liqThr) =
          IF remaining = 0 THEN MaxI128
          ELSE (loans[i].value * params.liqThr * BPS) \div (remaining * BPS)
    BY <1>1, <2>2, <2>4, Zenon DEF HealthFactor
  <2>. QED
    BY <1>1, <1>4, <2>1, <2>2, <2>3, <2>5, Zenon
<1>. QED
  BY <1>6, <1>7 DEF due, after, preview

\* The estimate of a loan against the loan: the fee is paid out of the amount.
LEMMA EstimateHolds ==
  ASSUME TypeOK, NEW u \in Users, NEW x \in Amounts,
         NEW ids \in CollateralLists, NEW d \in LoanDurations,
         RequestLoan(u, ids, x, d)
  PROVE  balance'[u] - balance[u] = 2 * x - LoanEstimate(x).totalAmount
<1>. DEFINE fee == BpsOf(x, params.origFee)
            b   == Transfer(balance, Contract, Treasury, fee)
<1>1. x \in Nat \ {0} /\ x <= balance[Contract]
  BY LendingAssumption DEF RequestLoan, CanBorrow
<1>2. /\ balance \in [Accounts -> Nat] /\ params.origFee \in 0 .. BPS
      /\ u \in Accounts /\ Contract \in Accounts /\ Treasury \in Accounts
      /\ u # Contract /\ u # Treasury /\ Contract # Treasury
  BY LendingAssumption DEF TypeOK, Params, Accounts
<1>3. fee \in 0 .. x
  BY <1>1, <1>2, BpsOfBound
<1>4. LoanEstimate(x).totalAmount = x + fee /\ Disbursement(x) = x - fee
      /\ balance' = Transfer(b, Contract, u, Disbursement(x))
  BY DEF LoanEstimate, Disbursement, RequestLoan
<1>. HIDE DEF fee
<1>5. b \in [Accounts -> Nat] /\ b[Contract] = balance[Contract] - fee
      /\ b[u] = balance[u]
  BY <1>1, <1>2, <1>3, TransferType, TransferBalances
<1>6. x - fee \in Nat /\ x - fee <= b[Contract]
  BY <1>1, <1>2, <1>3, <1>5
<1>. HIDE DEF b
<1>7. balance'[u] = balance[u] + (x - fee)
  BY <1>2, <1>4, <1>5, <1>6, TransferBalances
<1>8. balance[u] \in Nat
  BY <1>2
<1>. QED
  BY <1>1, <1>3, <1>4, <1>7, <1>8

\* A repayment never leaves less debt than POST /api/loan/repayment-preview
\* announced, and just what it announced when the loan owes no interest; a new
\* loan pays its borrower the amount less the fee of the estimate, whatever the
\* estimate calls its total.
THEOREM QuotesAreKept == Spec => QuotesHold
<1>. DEFINE P ==
       /\ \A u \in Users, i \in DOMAIN loans, x \in Amounts :
            Repay(u, i, x) =>
              LET preview == RepaymentPreview(Parsed(loans[i]), x)
                  after   == loans'[i]
              IN  /\ after.outstanding + after.interest >= preview.remaining
                  /\ loans[i].interest + Accrued(loans[i]) = 0 =>
                       /\ after.outstanding = preview.remaining
                       /\ balance[u] - balance'[u] = preview.repayment
                       /\ balance'[Treasury] - balance[Treasury] = preview.fees
                       /\ (after.status = "Repaid") = preview.fullyRepaid
                       /\ params.liqThr = (8 * BPS) \div 10
                            => HealthFactor(after, params.liqThr) = preview.health
       /\ \A u \in Users, ids \in CollateralLists, x \in Amounts, d \in LoanDurations :
            RequestLoan(u, ids, x, d) =>
              balance'[u] - balance[u] = 2 * x - LoanEstimate(x).totalAmount
<1>1. LoanInv => P
  BY PreviewHolds, EstimateHolds DEF LoanInv
<1>2. Spec => [][P]_vars
  BY <1>1, LoanInvariant, PTL DEF Spec
<1>. QED
  BY <1>2 DEF QuotesHold
=============================================================================

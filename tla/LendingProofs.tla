--------------------------- MODULE LendingProofs ---------------------------
(***************************************************************************)
(* Theorems about Lending for every value of its constants.  TypeOK is     *)
(* inductive by itself: it bounds the rates, and with them every fee by    *)
(* the amount it is taken from.                                            *)
(***************************************************************************)
EXTENDS Lending, Arithmetic, SequenceTheorems, TLAPS

-----------------------------------------------------------------------------
(* Lemmas about the arithmetic.                                            *)

LEMMA BpsOfBound ==
  ASSUME NEW x \in Nat, NEW rate \in 0 .. BPS
  PROVE  BpsOf(x, rate) \in 0 .. x
  BY LendingAssumption, ShareBound DEF BpsOf

\* A transfer the sender can pay keeps every balance a natural number.
LEMMA TransferType ==
  ASSUME NEW b \in [Accounts -> Nat], NEW f \in Accounts, NEW t \in Accounts,
         NEW x \in Nat, x <= b[f]
  PROVE  Transfer(b, f, t, x) \in [Accounts -> Nat]
  BY DEF Transfer

\* What a transfer between two accounts leaves on each.
LEMMA TransferBalances ==
  ASSUME NEW b \in [Accounts -> Nat], NEW f \in Accounts, NEW t \in Accounts,
         NEW x \in Nat, f # t, x <= b[f]
  PROVE  /\ Transfer(b, f, t, x)[f] = b[f] - x
         /\ Transfer(b, f, t, x)[t] = b[t] + x
         /\ \A a \in Accounts \ {f, t} : Transfer(b, f, t, x)[a] = b[a]
  BY DEF Transfer

\* Interest is charged in whole, non-negative units.
LEMMA AccruedNat ==
  ASSUME TypeOK, NEW loan \in Loan
  PROVE  Accrued(loan) \in Nat
<1>1. BPS * SecondsPerYear \in Nat \ {0}
  BY LendingAssumption
<1>2. CASE now > loan.lastTime /\ loan.outstanding > 0
  <2>1. now \in Nat /\ loan.lastTime \in Nat /\ loan.outstanding \in Nat
        /\ params.intFee \in Nat
    BY LendingAssumption DEF TypeOK, PausableTypeOK, Loan, Params
  <2>2. loan.outstanding * params.intFee * (now - loan.lastTime) \in Nat
    BY <1>2, <2>1
  <2>. QED
    BY <1>1, <1>2, <2>2 DEF Accrued
<1>3. CASE ~(now > loan.lastTime /\ loan.outstanding > 0)
  BY <1>3 DEF Accrued
<1>. QED
  BY <1>2, <1>3
-----------------------------------------------------------------------------
(* Type correctness.                                                       *)

LEMMA InitType == Init => TypeOK
<1>. SUFFICES ASSUME Init PROVE TypeOK
  OBVIOUS
<1>1. PausableTypeOK
  <2>1. 1 \in 1 .. MaxTime
    BY PausableAssumption
  <2>. QED
    BY <2>1, PausableAssumption DEF Init, PausableInit, PausableTypeOK
<1>2. params \in Params
  BY LendingAssumption DEF Init, Params
<1>3. /\ animalCap \in [AnimalTypes -> Nat]
      /\ whitelist \subseteq Users /\ wlCount \in Nat
      /\ balance \in [Accounts -> Nat]
      /\ pool \in [earned : Nat, withdrawn : Nat]
  BY LendingAssumption DEF Init, NoCap
<1>4. /\ collaterals \in Seq(Collateral) /\ loans \in Seq(Loan)
      /\ terms \in Seq(Terms) /\ Len(terms) = Len(loans)
  BY EmptySeq DEF Init
<1>. QED
  BY <1>1, <1>2, <1>3, <1>4 DEF TypeOK

\* request_loan appends a well-typed loan and locks well-typed collateral.
LEMMA RequestLoanType ==
  ASSUME TypeOK, NEW u \in Users, NEW x \in Amounts,
         NEW ids \in CollateralLists, NEW d \in LoanDurations,
         RequestLoan(u, ids, x, d)
  PROVE  TypeOK'
<1>. DEFINE loan == [borrower |-> u, ids |-> ids, value |-> TotalValue(ids),
        principal |-> x, outstanding |-> x, interest |-> 0,
        lastTime |-> now, status |-> "Active",
        due |-> IF d = NoDue THEN NoDue ELSE now + d]
            fee == BpsOf(x, params.origFee)
<1>1. x \in Nat \ {0} /\ now \in Nat /\ d \in Nat \cup {NoDue}
  BY LendingAssumption, PausableAssumption
     DEF RequestLoan, CanBorrow, TypeOK, PausableTypeOK
<1>2. ids \in Seq(Nat \ {0})
  <2>1. PICK n \in 1 .. MaxIds : ids \in [1 .. n -> DOMAIN collaterals]
    BY DEF CollateralLists
  <2>2. DOMAIN collaterals \subseteq Nat \ {0}
    BY DEF TypeOK
  <2>. QED
    BY <2>1, <2>2, LendingAssumption, SeqDef
<1>3. loan \in Loan
  <2>1. TotalValue(ids) \in Nat
    BY LendingAssumption DEF RequestLoan, CanBorrow
  <2>. QED
    BY <1>1, <1>2, <2>1 DEF Loan, LoanStatus
<1>4. loans' \in Seq(Loan) /\ Len(loans') = Len(loans) + 1
  BY <1>3, AppendProperties DEF RequestLoan, TypeOK
<1>5. terms' \in Seq(Terms) /\ Len(terms') = Len(terms) + 1
  <2>1. [ltv |-> params.ltv, opened |-> now, charged |-> 0] \in Terms
    BY <1>1 DEF TypeOK, Params, Terms
  <2>. QED
    BY <2>1, AppendProperties DEF RequestLoan, TypeOK
<1>6. collaterals' \in Seq(Collateral)
  <2>1. Len(collaterals) \in Nat /\ DOMAIN collaterals = 1 .. Len(collaterals)
        /\ \A c \in DOMAIN collaterals : collaterals[c] \in Collateral
    BY ElementOfSeq, LenProperties DEF TypeOK
  <2>2. Len(loans) + 1 \in Nat
    BY LenProperties DEF TypeOK
  <2>3. \A r \in Collateral, n \in Nat : [r EXCEPT !.loan = n] \in Collateral
    BY DEF Collateral
  <2>4. Locked(ids, Len(loans) + 1) \in [1 .. Len(collaterals) -> Collateral]
    BY <2>1, <2>2, <2>3 DEF Locked
  <2>. QED
    BY <2>1, <2>4, SeqDef DEF RequestLoan
<1>7. balance' \in [Accounts -> Nat]
  <2>1. fee \in 0 .. x /\ Disbursement(x) = x - fee
    BY <1>1, BpsOfBound DEF TypeOK, Params, Disbursement
  <2>2. balance \in [Accounts -> Nat] /\ x <= balance[Contract]
    BY DEF RequestLoan, TypeOK
  <2>3. /\ Contract \in Accounts /\ Treasury \in Accounts /\ u \in Accounts
        /\ Contract # Treasury
    BY LendingAssumption DEF Accounts
  <2>. DEFINE b == Transfer(balance, Contract, Treasury, fee)
  <2>4. b \in [Accounts -> Nat] /\ b[Contract] = balance[Contract] - fee
    BY <1>1, <2>1, <2>2, <2>3, TransferType, TransferBalances
  <2>. HIDE DEF b
  <2>5. Transfer(b, Contract, u, Disbursement(x)) \in [Accounts -> Nat]
    BY <1>1, <2>1, <2>2, <2>3, <2>4, TransferType
  <2>. QED
    BY <2>5 DEF RequestLoan, b
<1>. QED
  BY <1>4, <1>5, <1>6, <1>7
     DEF RequestLoan, TypeOK, PausableTypeOK, pauseVars

\* The effect of a payment by u on loan i: of the interest due, int, it pays
\* ip, and pp of the principal.
PaymentSplit(u, i, int, ip, pp) ==
  /\ int = loans[i].interest + Accrued(loans[i])
  /\ ip <= int /\ pp <= loans[i].outstanding
  /\ pp > 0 => ip = int
  /\ ip + pp <= balance[u]
  /\ loans' = [loans EXCEPT ![i] =
       [loans[i] EXCEPT !.outstanding = loans[i].outstanding - pp,
                        !.interest = int - ip,
                        !.lastTime = now,
                        !.status = IF loans[i].outstanding - pp = 0 /\ int - ip = 0
                                   THEN "Repaid" ELSE "Active"]]
  /\ balance' = Transfer(Transfer(balance, u, Contract, ip + pp),
                         Contract, Treasury, BpsOf(ip, params.intFee))
  /\ pool' = [pool EXCEPT !.earned = @ + (ip - BpsOf(ip, params.intFee))]

\* A payment is split into interest and principal: the principal goes down
\* only once the interest is paid, and neither share exceeds what is due.
LEMMA RepayStep ==
  ASSUME TypeOK, NEW u \in Users, NEW x \in Amounts, NEW i \in DOMAIN loans,
         Repay(u, i, x)
  PROVE  \E int, ip, pp \in Nat : PaymentSplit(u, i, int, ip, pp)
<1>. DEFINE out == loans[i].outstanding
            int == loans[i].interest + Accrued(loans[i])
            repaid == Lesser(x, out + int)
            ip == InterestPaid(int, repaid)
            pp == repaid - ip
<1>1. loans[i] \in Loan
  BY LenProperties, ElementOfSeq DEF TypeOK
<1>2. out \in Nat /\ int \in Nat
  BY <1>1, AccruedNat DEF Loan
<1>3. x \in Nat /\ balance[u] >= repaid
  BY LendingAssumption DEF Repay
<1>. HIDE DEF out, int
<1>4. /\ repaid \in Nat /\ ip \in Nat /\ pp \in Nat
      /\ ip <= int /\ pp <= out /\ (pp > 0 => ip = int) /\ ip + pp = repaid
  BY <1>2, <1>3 DEF Lesser, InterestPaid
<1>5. out - pp = out - (repaid - ip)
  OBVIOUS
<1>6. /\ loans' = [loans EXCEPT ![i] =
           [loans[i] EXCEPT !.outstanding = out - pp,
                            !.interest = int - ip,
                            !.lastTime = now,
                            !.status = IF out - pp = 0 /\ int - ip = 0
                                       THEN "Repaid" ELSE "Active"]]
      /\ balance' = Transfer(Transfer(balance, u, Contract, repaid),
                             Contract, Treasury, BpsOf(ip, params.intFee))
      /\ pool' = [pool EXCEPT !.earned = @ + (ip - BpsOf(ip, params.intFee))]
  BY DEF Repay, Settled, out, int
<1>. HIDE DEF repaid, ip, pp
<1>7. balance' = Transfer(Transfer(balance, u, Contract, ip + pp),
                         Contract, Treasury, BpsOf(ip, params.intFee))
  BY <1>4, <1>6
<1>8. ip + pp <= balance[u]
  BY <1>3, <1>4
<1>. QED
  BY <1>2, <1>4, <1>6, <1>7, <1>8 DEF out, int, PaymentSplit

LEMMA RepayType ==
  ASSUME TypeOK, NEW u \in Users, NEW x \in Amounts, NEW i \in DOMAIN loans,
         Repay(u, i, x)
  PROVE  TypeOK'
<1>1. PICK int, ip, pp \in Nat : PaymentSplit(u, i, int, ip, pp)
  BY RepayStep
<1>2. loans[i] \in Loan /\ i \in 1 .. Len(loans) /\ Len(loans) \in Nat
  BY LenProperties, ElementOfSeq DEF TypeOK
<1>3. loans' \in Seq(Loan) /\ Len(loans') = Len(loans)
  <2>. DEFINE st == IF loans[i].outstanding - pp = 0 /\ int - ip = 0
                    THEN "Repaid" ELSE "Active"
              new == [loans[i] EXCEPT !.outstanding = loans[i].outstanding - pp,
                                      !.interest = int - ip, !.lastTime = now,
                                      !.status = st]
  <2>1. /\ now \in Nat /\ loans[i].outstanding - pp \in Nat /\ int - ip \in Nat
        /\ st \in LoanStatus
    <3>1. now \in Nat
      BY PausableAssumption DEF TypeOK, PausableTypeOK
    <3>2. loans[i].outstanding - pp \in Nat /\ int - ip \in Nat
      BY <1>1, <1>2 DEF Loan, PaymentSplit
    <3>3. st \in LoanStatus
      BY DEF LoanStatus
    <3>. QED
      BY <3>1, <3>2, <3>3
  <2>2. loans' = [loans EXCEPT ![i] = new]
    BY <1>1 DEF PaymentSplit
  <2>. HIDE DEF st
  <2>3. new \in Loan
    BY <1>2, <2>1 DEF Loan
  <2>. HIDE DEF new
  <2>4. loans \in Seq(Loan)
    BY DEF TypeOK
  <2>. QED
    BY <1>2, <2>2, <2>3, <2>4, ExceptSeq
<1>4. BpsOf(ip, params.intFee) \in 0 .. ip
  <2>1. params.intFee \in 0 .. BPS
    BY LendingAssumption DEF TypeOK, Params
  <2>. QED
    BY <2>1, BpsOfBound
<1>5. balance' \in [Accounts -> Nat]
  <2>. DEFINE b == Transfer(balance, u, Contract, ip + pp)
  <2>1. /\ u \in Accounts /\ Contract \in Accounts /\ Treasury \in Accounts
        /\ u # Contract /\ balance \in [Accounts -> Nat]
    BY LendingAssumption DEF Accounts, TypeOK
  <2>2. b \in [Accounts -> Nat] /\ b[Contract] = balance[Contract] + (ip + pp)
    <3>1. ip + pp \in Nat /\ ip + pp <= balance[u]
      BY <1>1 DEF PaymentSplit
    <3>. QED
      BY <2>1, <3>1, TransferType, TransferBalances
  <2>. HIDE DEF b
  <2>3. BpsOf(ip, params.intFee) \in Nat /\ BpsOf(ip, params.intFee) <= b[Contract]
    BY <1>4, <2>1, <2>2
  <2>4. Transfer(b, Contract, Treasury, BpsOf(ip, params.intFee)) \in [Accounts -> Nat]
    BY <2>1, <2>2, <2>3, TransferType
  <2>. QED
    BY <1>1, <2>4 DEF b, PaymentSplit
<1>6. pool' \in [earned : Nat, withdrawn : Nat]
  <2>1. pool \in [earned : Nat, withdrawn : Nat] /\ pool.earned \in Nat
    BY DEF TypeOK
  <2>2. pool.earned + (ip - BpsOf(ip, params.intFee)) \in Nat
    BY <1>4, <2>1
  <2>3. \A n \in Nat : [pool EXCEPT !.earned = n] \in [earned : Nat, withdrawn : Nat]
    BY <2>1
  <2>. QED
    BY <1>1, <2>2, <2>3 DEF PaymentSplit
<1>7. terms' \in Seq(Terms) /\ Len(terms') = Len(terms)
  <2>1. i \in 1 .. Len(terms) /\ terms[i] \in Terms
    BY <1>2, ElementOfSeq DEF TypeOK
  <2>2. [terms[i] EXCEPT !.charged = @ + Accrued(loans[i])] \in Terms
    BY <1>2, <2>1, AccruedNat DEF Terms
  <2>3. terms' = [terms EXCEPT ![i] = [terms[i] EXCEPT !.charged = @ + Accrued(loans[i])]]
    BY DEF Repay
  <2>. QED
    BY <2>1, <2>2, <2>3, ExceptSeq DEF TypeOK
<1>. QED
  BY <1>3, <1>5, <1>6, <1>7
     DEF Repay, TypeOK, PausableTypeOK, pauseVars

\* liquidate takes principal only, never more than the close factor allows.
LEMMA LiquidateStep ==
  ASSUME TypeOK, NEW u \in Users, NEW x \in Amounts, NEW i \in DOMAIN loans,
         Liquidate(u, i, x)
  PROVE  /\ loans[i] \in Loan /\ i \in 1 .. Len(loans) /\ Len(loans) \in Nat
         /\ x \in Nat \ {0} /\ x <= balance[u]
         /\ x <= MaxRepay(loans[i]) /\ x <= loans[i].outstanding
         /\ loans' = [loans EXCEPT ![i] =
              [loans[i] EXCEPT !.outstanding = loans[i].outstanding - x,
                               !.status = IF loans[i].outstanding - x = 0
                                          THEN "Liquidated" ELSE "Active"]]
<1>1. loans[i] \in Loan /\ i \in 1 .. Len(loans) /\ Len(loans) \in Nat
  BY LenProperties, ElementOfSeq DEF TypeOK
<1>2. x \in Nat \ {0} /\ x <= balance[u] /\ x <= MaxRepay(loans[i])
  BY LendingAssumption DEF Liquidate
<1>3. loans[i].outstanding \in Nat /\ params.closeFactor \in 0 .. BPS
  BY <1>1 DEF Loan, TypeOK, Params
<1>4. MaxRepay(loans[i]) \in 0 .. loans[i].outstanding
  BY <1>3, BpsOfBound DEF MaxRepay
<1>5. x <= loans[i].outstanding
  BY <1>2, <1>3, <1>4
<1>. QED
  BY <1>1, <1>2, <1>5 DEF Liquidate

LEMMA LiquidateType ==
  ASSUME TypeOK, NEW u \in Users, NEW x \in Amounts, NEW i \in DOMAIN loans,
         Liquidate(u, i, x)
  PROVE  TypeOK'
<1>1. /\ loans[i] \in Loan /\ i \in 1 .. Len(loans) /\ x \in Nat
      /\ x <= balance[u] /\ x <= loans[i].outstanding
      /\ loans' = [loans EXCEPT ![i] =
           [loans[i] EXCEPT !.outstanding = loans[i].outstanding - x,
                            !.status = IF loans[i].outstanding - x = 0
                                       THEN "Liquidated" ELSE "Active"]]
  BY LiquidateStep
<1>2. loans' \in Seq(Loan) /\ Len(loans') = Len(loans)
  <2>. DEFINE new == [loans[i] EXCEPT !.outstanding = loans[i].outstanding - x,
                                      !.status = IF loans[i].outstanding - x = 0
                                                 THEN "Liquidated" ELSE "Active"]
  <2>1. new \in Loan
    <3>1. loans[i].outstanding - x \in Nat
      BY <1>1 DEF Loan
    <3>2. \A n \in Nat, st \in LoanStatus :
            [loans[i] EXCEPT !.outstanding = n, !.status = st] \in Loan
      BY <1>1 DEF Loan
    <3>. QED
      BY <3>1, <3>2 DEF LoanStatus
  <2>2. loans \in Seq(Loan) /\ loans' = [loans EXCEPT ![i] = new]
    BY <1>1 DEF TypeOK
  <2>. HIDE DEF new
  <2>. QED
    BY <1>1, <2>1, <2>2, ExceptSeq
<1>3. balance' \in [Accounts -> Nat]
  <2>1. u \in Accounts /\ Contract \in Accounts /\ balance \in [Accounts -> Nat]
    BY DEF Accounts, TypeOK
  <2>. QED
    BY <1>1, <2>1, TransferType DEF Liquidate
<1>. QED
  BY <1>2, <1>3 DEF Liquidate, TypeOK, PausableTypeOK, pauseVars

LEMMA LivestockType ==
  ASSUME TypeOK, Livestock
  PROVE  TypeOK'
<1>1. PICK u \in Users, v \in Appraisals :
        \/ \E t \in AnimalTypes : RegisterLivestock(u, t, v)
        \/ \E id \in DOMAIN collaterals : UpdateAppraisal(u, id, v)
  BY DEF Livestock
<1>2. ASSUME NEW t \in AnimalTypes, RegisterLivestock(u, t, v)
      PROVE  TypeOK'
  <2>1. [owner |-> u, type |-> t, value |-> v, loan |-> 0] \in Collateral
    BY <1>2, LendingAssumption DEF RegisterLivestock, Collateral
  <2>2. collaterals' \in Seq(Collateral)
    BY <1>2, <2>1, AppendProperties DEF RegisterLivestock, TypeOK
  <2>. QED
    BY <1>2, <2>2 DEF RegisterLivestock, TypeOK, PausableTypeOK, pauseVars
<1>3. ASSUME NEW id \in DOMAIN collaterals, UpdateAppraisal(u, id, v)
      PROVE  TypeOK'
  <2>1. id \in 1 .. Len(collaterals) /\ collaterals[id] \in Collateral
    BY LenProperties, ElementOfSeq DEF TypeOK
  <2>2. v \in Nat \ {0}
    BY <1>3, LendingAssumption DEF UpdateAppraisal
  <2>3. [collaterals[id] EXCEPT !.value = v] \in Collateral
    BY <2>1, <2>2 DEF Collateral
  <2>4. collaterals' = [collaterals EXCEPT ![id] = [collaterals[id] EXCEPT !.value = v]]
    BY <1>3 DEF UpdateAppraisal
  <2>5. collaterals' \in Seq(Collateral)
    BY <2>1, <2>3, <2>4, ExceptSeq DEF TypeOK
  <2>. QED
    BY <1>3, <2>5 DEF UpdateAppraisal, TypeOK, PausableTypeOK, pauseVars
<1>. QED
  BY <1>1, <1>2, <1>3

LEMMA AdministrationType ==
  ASSUME TypeOK, Administration
  PROVE  TypeOK'
<1>1. ASSUME NEW new \in Params, SetParams(new)
      PROVE  TypeOK'
  BY <1>1 DEF SetParams, TypeOK, PausableTypeOK, pauseVars
<1>2. /\ params \in Params /\ BPS \in Nat \ {0}
      /\ BPS \div 20 <= BPS \div 10 /\ BPS \div 20 <= BPS
  BY LendingAssumption DEF TypeOK
<1>3. ASSUME NEW v \in Ltvs, SetLtv(v)
      PROVE  TypeOK'
  <2>1. [params EXCEPT !.ltv = v] \in Params
    BY <1>2, LendingAssumption DEF Params
  <2>. QED
    BY <1>1, <1>3, <2>1 DEF SetLtv
<1>4. ASSUME NEW v \in Thresholds, SetLiquidationThreshold(v)
      PROVE  TypeOK'
  <2>1. [params EXCEPT !.liqThr = v] \in Params
    BY <1>2, LendingAssumption DEF Params
  <2>. QED
    BY <1>1, <1>4, <2>1 DEF SetLiquidationThreshold
<1>5. ASSUME NEW v \in CloseFactors, SetCloseFactor(v)
      PROVE  TypeOK'
  <2>1. v \in 0 .. BPS
    BY <1>2, <1>5, LendingAssumption DEF SetCloseFactor
  <2>2. [params EXCEPT !.closeFactor = v] \in Params
    BY <1>2, <2>1 DEF Params
  <2>. QED
    BY <1>1, <1>5, <2>2 DEF SetCloseFactor
<1>6. ASSUME NEW o \in FeeRates, NEW n \in FeeRates, UpdateFeeConfig(o, n)
      PROVE  TypeOK'
  <2>1. o \in 0 .. BPS /\ n \in 0 .. (BPS \div 10)
    BY <1>2, <1>6, LendingAssumption DEF UpdateFeeConfig
  <2>2. [params EXCEPT !.origFee = o, !.intFee = n] \in Params
    BY <1>2, <2>1 DEF Params
  <2>. QED
    BY <1>1, <1>6, <2>2 DEF UpdateFeeConfig
<1>7. ASSUME NEW lim \in LoanLimits, SetLoanLimits(lim[1], lim[2])
      PROVE  TypeOK'
  <2>1. lim[1] \in Nat /\ lim[2] \in Nat
    BY <1>7, LendingAssumption DEF SetLoanLimits
  <2>2. [params EXCEPT !.minLoan = lim[1], !.maxLoan = lim[2]] \in Params
    BY <1>2, <2>1 DEF Params
  <2>. QED
    BY <1>1, <1>7, <2>2 DEF SetLoanLimits
<1>8. ASSUME NEW t \in AnimalTypes, NEW v \in Caps, SetAnimalCap(t, v)
      PROVE  TypeOK'
  BY <1>8, LendingAssumption DEF SetAnimalCap, TypeOK, PausableTypeOK, pauseVars
<1>9. ASSUME NEW u \in Liquidators, AddLiquidator(u) \/ RemoveLiquidator(u)
      PROVE  TypeOK'
  BY <1>9, LendingAssumption
     DEF AddLiquidator, RemoveLiquidator, TypeOK, PausableTypeOK, pauseVars
<1>10. ASSUME NEW u \in Recipients, EmergencyWithdraw(u)
       PROVE  TypeOK'
  <2>1. /\ u \in Accounts /\ Contract \in Accounts /\ balance \in [Accounts -> Nat]
        /\ balance[Contract] \in Nat /\ balance[Contract] <= balance[Contract]
    BY LendingAssumption DEF Accounts, TypeOK
  <2>2. balance' \in [Accounts -> Nat]
    BY <1>10, <2>1, TransferType DEF EmergencyWithdraw
  <2>3. pool' \in [earned : Nat, withdrawn : Nat]
    <3>1. pool.withdrawn + balance[Contract] \in Nat
          /\ pool \in [earned : Nat, withdrawn : Nat]
      BY <2>1 DEF TypeOK
    <3>2. \A n \in Nat : [pool EXCEPT !.withdrawn = n] \in [earned : Nat, withdrawn : Nat]
      BY <3>1
    <3>3. pool' = [pool EXCEPT !.withdrawn = pool.withdrawn + balance[Contract]]
      BY <1>10 DEF EmergencyWithdraw
    <3>. QED
      BY <3>1, <3>2, <3>3
  <2>. QED
    BY <1>10, <2>2, <2>3 DEF EmergencyWithdraw, TypeOK, PausableTypeOK, pauseVars
<1>. QED
  BY <1>3, <1>4, <1>5, <1>6, <1>7, <1>8, <1>9, <1>10 DEF Administration

\* The pause and the clock touch nothing else.
LEMMA PauseAndTimeType ==
  ASSUME TypeOK, Pausing \/ Time
  PROVE  TypeOK'
<1>1. CASE Pausing
  <2>1. /\ now \in Nat /\ pauseDur \in Nat /\ pauseExp \in Nat /\ paused \in BOOLEAN
        /\ now' = now
    BY <1>1, PausableAssumption DEF Pausing, TypeOK, PausableTypeOK
  <2>2. CASE Pause
    <3>1. pauseExp' = now + pauseDur /\ pauseDur' = pauseDur /\ paused' = TRUE
      BY <2>2 DEF Pause
    <3>2. pauseExp' \in Nat
      BY <2>1, <3>1
    <3>. QED
      BY <1>1, <2>1, <3>1, <3>2 DEF Pausing, TypeOK, PausableTypeOK, lendingVars
  <2>3. CASE Unpause
    BY <1>1, <2>1, <2>3 DEF Unpause, Pausing, TypeOK, PausableTypeOK, lendingVars
  <2>4. ASSUME NEW d \in PauseDurations, SetPauseDuration(d)
        PROVE  TypeOK'
    <3>1. pauseDur' \in Nat
      BY <2>4, PausableAssumption DEF SetPauseDuration
    <3>. QED
      BY <1>1, <2>1, <2>4, <3>1
         DEF SetPauseDuration, Pausing, TypeOK, PausableTypeOK, lendingVars
  <2>. QED
    BY <1>1, <2>2, <2>3, <2>4 DEF Pausing
<1>2. CASE Time
  <2>1. now' \in 1 .. MaxTime
    BY <1>2, PausableAssumption DEF Time, CloseLedger, TypeOK, PausableTypeOK
  <2>. QED
    BY <1>2, <2>1 DEF Time, TypeOK, PausableTypeOK, pauseVars, lendingVars
<1>. QED
  BY <1>1, <1>2

LEMMA NextType == TypeOK /\ [Next]_vars => TypeOK'
<1>. SUFFICES ASSUME TypeOK, [Next]_vars PROVE TypeOK'
  OBVIOUS
<1>1. CASE Livestock
  BY <1>1, LivestockType
<1>2. CASE Borrowing
  BY <1>2, RequestLoanType, RepayType, LiquidateType DEF Borrowing
<1>3. CASE Administration
  BY <1>3, AdministrationType
<1>4. CASE Pausing \/ Time
  BY <1>4, PauseAndTimeType
<1>5. CASE UNCHANGED vars
  BY <1>5 DEF vars, TypeOK, PausableTypeOK, pauseVars
<1>. QED
  BY <1>1, <1>2, <1>3, <1>4, <1>5 DEF Next

\* Every field of every record keeps its type: no balance, debt or count goes
\* below zero, and the rates stay within the limits the setters check.
THEOREM TypeInvariant == Spec => []TypeOK
<1>. QED
  BY InitType, NextType, PTL DEF Spec
=============================================================================

------------------------------ MODULE Lending ------------------------------
(***************************************************************************)
(* The lending core of contracts/stellarkraal/src/lib.rs: livestock        *)
(* collateral, loans with interest, liquidation, the liquidator whitelist, *)
(* the risk and fee parameters, and the token balances they move.          *)
(*                                                                         *)
(* A contract invocation is atomic: an Err or a panic rolls every write    *)
(* back, so an error path is an action that is not enabled.  Accounts that *)
(* sign (require_auth) are the parameters of the actions; the admin check  *)
(* of the parameter setters is the subject of module Governance.  The      *)
(* rolling logs (appraisal_history, hf_history) and the count of animals   *)
(* are left out: no decision of the contract reads them.                   *)
(***************************************************************************)
EXTENDS Pausable, Sequences, FiniteSets, Functions

CONSTANTS
  Users,              \* addresses that own livestock, borrow and liquidate
  Contract,           \* env.current_contract_address()
  Treasury,           \* TREASURY
  AnimalTypes,
  BPS,                \* 10_000: one hundred per cent in basis points
  SecondsPerYear,     \* 31_536_000
  MaxI128,            \* i128::MAX
  DefaultMinLoan, DefaultMaxLoan,
  InitialBalance,     \* token holdings when the contract is initialised
  \* inputs the environment may choose
  Appraisals, Amounts, LoanDurations, Ltvs, Thresholds, CloseFactors,
  FeeRates, LoanLimits, Caps, Liquidators,
  Recipients,         \* of an emergency withdrawal, outside the contract
  \* bounds
  MaxCollaterals, MaxLoans, MaxIds

Accounts == Users \cup {Contract, Treasury}

NoDue == -1           \* due_ledger = None
NoCap == 0            \* no DataKey::AnimalCap entry

ASSUME LendingAssumption ==
  /\ Contract \notin Users /\ Treasury \notin Users /\ Contract # Treasury
  /\ BPS \in Nat \ {0} /\ SecondsPerYear \in Nat \ {0} /\ MaxI128 \in Nat
  /\ DefaultMinLoan \in Nat \ {0} /\ DefaultMaxLoan \in Nat
  /\ InitialBalance \in [Accounts -> Nat]
  /\ MaxCollaterals \in Nat /\ MaxLoans \in Nat /\ MaxIds \in Nat
  /\ Appraisals \subseteq Int /\ Amounts \subseteq Int
  /\ LoanDurations \subseteq Nat \cup {NoDue}
  /\ Ltvs \subseteq Nat /\ Thresholds \subseteq Nat
  /\ CloseFactors \subseteq Nat /\ FeeRates \subseteq Nat
  /\ Caps \subseteq Int /\ Liquidators \subseteq Users
  /\ Recipients \subseteq Accounts \ {Contract}
  /\ LoanLimits \subseteq Int \X Int

VARIABLES
  params,       \* instance storage: LTV, LIQ_THR, CLOSE_FACTOR, fees, limits
  animalCap,    \* DataKey::AnimalCap per type
  whitelist,    \* the addresses with a DataKey::WhitelistEntry
  wlCount,      \* WL_COUNT
  collaterals,  \* DataKey::Collateral(id) for id in 1 .. CollateralCounter
  loans,        \* DataKey::Loan(id) for id in 1 .. LoanCounter
  balance,      \* the token contract's balances
  terms,        \* history of each loan: the LTV it was opened under, when it
                \* was opened, all interest ever charged to it
  pool          \* history: interest kept by the contract, tokens taken out by
                \* emergency_withdraw

vars == <<now, paused, pauseExp, pauseDur, params, animalCap, whitelist,
          wlCount, collaterals, loans, balance, terms, pool>>

Params == [ltv : Nat, liqThr : Nat, closeFactor : 0 .. BPS,
           origFee : 0 .. BPS, intFee : 0 .. (BPS \div 10),
           minLoan : Nat, maxLoan : Nat]

Collateral == [owner : Users, type : AnimalTypes, value : Nat \ {0},
               loan : Nat]

LoanStatus == {"Active", "Repaid", "Liquidated"}

Loan == [borrower : Users, ids : Seq(Nat \ {0}), value : Nat,
         principal : Nat \ {0}, outstanding : Nat, interest : Nat,
         lastTime : Nat, status : LoanStatus, due : Nat \cup {NoDue}]

Terms == [ltv : Nat, opened : Nat, charged : Nat]

TypeOK ==
  /\ PausableTypeOK
  /\ params \in Params
  /\ animalCap \in [AnimalTypes -> Nat]
  /\ whitelist \subseteq Users
  /\ wlCount \in Nat
  /\ collaterals \in Seq(Collateral)
  /\ loans \in Seq(Loan)
  /\ balance \in [Accounts -> Nat]
  /\ terms \in Seq(Terms)
  /\ Len(terms) = Len(loans)
  /\ pool \in [earned : Nat, withdrawn : Nat]

-----------------------------------------------------------------------------
(* Arithmetic.  Every division of the contract rounds down.                *)

BpsOf(x, rate) == (x * rate) \div BPS

Lesser(a, b) == IF a <= b THEN a ELSE b

\* token::Client::transfer; the caller of this operator checks the balance.
Transfer(b, from, to, x) == [b EXCEPT ![from] = @ - x, ![to] = @ + x]

\* The ids of a request may repeat; each occurrence counts.
TotalValue(ids) ==
  FoldFunction(LAMBDA v, acc : v + acc, 0,
               [k \in DOMAIN ids |-> collaterals[ids[k]].value])

\* Mutant: interest bears interest.
AccruedCompound(loan) ==
  IF now > loan.lastTime /\ loan.outstanding > 0
  THEN ((loan.outstanding + loan.interest) * params.intFee * (now - loan.lastTime))
         \div (BPS * SecondsPerYear)
  ELSE 0

\* Interest since the last accrual, at INT_FEE per year on the principal.
Accrued(loan) ==
  IF now > loan.lastTime /\ loan.outstanding > 0
  THEN (loan.outstanding * params.intFee * (now - loan.lastTime))
         \div (BPS * SecondsPerYear)
  ELSE 0

\* Mutant: the interest counts as debt.
HealthFactorOnDebt(loan, thr) ==
  IF loan.outstanding + loan.interest = 0
  THEN MaxI128
  ELSE (loan.value * thr * BPS) \div ((loan.outstanding + loan.interest) * BPS)

\* compute_health_factor_with_thr: the debt test counts the interest, the
\* denominator does not.
HealthFactor(loan, thr) ==
  IF loan.outstanding + loan.interest = 0
  THEN MaxI128
  ELSE (loan.value * thr * BPS) \div (loan.outstanding * BPS)

MaxRepay(loan) == BpsOf(loan.outstanding, params.closeFactor)

MayLiquidate(u) == wlCount = 0 \/ u \in whitelist

-----------------------------------------------------------------------------
(* initialize; the contract's token balance is its lending pool.           *)

Init ==
  /\ PausableInit
  /\ \E ltv \in Ltvs, thr \in Thresholds :
       /\ ltv # 0 /\ 10 * ltv <= 9 * BPS
       /\ thr >= ltv
       /\ params = [ltv |-> ltv, liqThr |-> thr,
                    closeFactor |-> BPS \div 2,
                    origFee |-> BPS \div 200, intFee |-> BPS \div 10,
                    minLoan |-> DefaultMinLoan, maxLoan |-> DefaultMaxLoan]
  /\ animalCap = [t \in AnimalTypes |-> NoCap]
  /\ whitelist = {} /\ wlCount = 0
  /\ collaterals = <<>> /\ loans = <<>>
  /\ balance = InitialBalance
  /\ terms = <<>> /\ pool = [earned |-> 0, withdrawn |-> 0]

-----------------------------------------------------------------------------
(* Collateral.                                                             *)

RegisterLivestock(owner, type, value) ==
  /\ ~IsPaused
  /\ value > 0
  /\ animalCap[type] = NoCap \/ value <= animalCap[type]
  /\ Len(collaterals) < MaxCollaterals
  /\ collaterals' = Append(collaterals,
       [owner |-> owner, type |-> type, value |-> value, loan |-> 0])
  /\ UNCHANGED <<now, pauseVars, params, animalCap, whitelist, wlCount, loans,
                 balance, terms, pool>>

\* update_appraisal reads neither the cap of the type nor the loan.
UpdateAppraisal(owner, id, value) ==
  /\ ~IsPaused
  /\ value > 0
  /\ collaterals[id].owner = owner
  /\ collaterals' = [collaterals EXCEPT ![id].value = value]
  /\ UNCHANGED <<now, pauseVars, params, animalCap, whitelist, wlCount, loans,
                 balance, terms, pool>>

-----------------------------------------------------------------------------
(* Loans.                                                                  *)

CollateralLists == UNION {[1 .. n -> DOMAIN collaterals] : n \in 1 .. MaxIds}

\* Mutant: a lock is written only on an unlocked collateral.
LockedOnce(ids, loan) ==
  [c \in DOMAIN collaterals |->
     IF collaterals[c].loan = 0 /\ \E k \in DOMAIN ids : ids[k] = c
     THEN [collaterals[c] EXCEPT !.loan = loan]
     ELSE collaterals[c]]

Locked(ids, loan) ==
  [c \in DOMAIN collaterals |->
     IF \E k \in DOMAIN ids : ids[k] = c
     THEN [collaterals[c] EXCEPT !.loan = loan]
     ELSE collaterals[c]]

BorrowLimitByThreshold(ids) == BpsOf(TotalValue(ids), params.liqThr) \* mutant
BorrowLimit(ids) == BpsOf(TotalValue(ids), params.ltv)

\* request_loan's checks; the loan a collateral is locked to is not one.
CanBorrow(u, ids, amount) ==
  /\ ~IsPaused
  /\ amount > 0
  /\ amount >= params.minLoan /\ amount <= params.maxLoan
  /\ \A k \in DOMAIN ids : collaterals[ids[k]].owner = u
  /\ TotalValue(ids) \in 0 .. MaxI128
  /\ amount <= BorrowLimit(ids)

DisbursementGross(amount) == amount     \* mutant: the fee is not deducted
Disbursement(amount) == amount - BpsOf(amount, params.origFee)

RequestLoan(u, ids, amount, duration) ==
  /\ CanBorrow(u, ids, amount)
  /\ balance[Contract] >= amount
  /\ Len(loans) < MaxLoans
  /\ loans' = Append(loans,
       [borrower |-> u, ids |-> ids, value |-> TotalValue(ids),
        principal |-> amount, outstanding |-> amount, interest |-> 0,
        lastTime |-> now, status |-> "Active",
        due |-> IF duration = NoDue THEN NoDue ELSE now + duration])
  /\ collaterals' = Locked(ids, Len(loans) + 1)
  /\ balance' = Transfer(Transfer(balance, Contract, Treasury,
                                  BpsOf(amount, params.origFee)),
                         Contract, u, Disbursement(amount))
  /\ terms' = Append(terms, [ltv |-> params.ltv, opened |-> now, charged |-> 0])
  /\ UNCHANGED <<now, pauseVars, params, animalCap, whitelist, wlCount, pool>>

\* A closed loan answers LoanAlreadyClosed.
IsOpenAlways(loan) == TRUE              \* mutant: the status is not checked
IsOpen(loan) == loan.status = "Active"

\* How a payment is split: the interest due first, then the principal.
InterestPaid(interest, repaid) == Lesser(interest, repaid)

\* The test that closes a loan as Repaid.
SettledByInterest(outstanding, interest) == interest = 0       \* mutant
Settled(outstanding, interest) == outstanding = 0 /\ interest = 0

Repay(u, i, amount) ==
  LET loan      == loans[i]
      interest  == loan.interest + Accrued(loan)
      repaid    == Lesser(amount, loan.outstanding + interest)
      intPaid   == InterestPaid(interest, repaid)
      left      == loan.outstanding - (repaid - intPaid)
      fee       == BpsOf(intPaid, params.intFee)
  IN
  /\ amount > 0
  /\ loan.borrower = u
  /\ IsOpen(loan)
  /\ balance[u] >= repaid
  /\ loans' = [loans EXCEPT ![i] =
       [loan EXCEPT !.outstanding = left,
                    !.interest = interest - intPaid,
                    !.lastTime = now,
                    !.status = IF Settled(left, interest - intPaid)
                               THEN "Repaid" ELSE "Active"]]
  /\ balance' = Transfer(Transfer(balance, u, Contract, repaid),
                         Contract, Treasury, fee)
  /\ terms' = [terms EXCEPT ![i].charged = @ + Accrued(loan)]
  /\ pool' = [pool EXCEPT !.earned = @ + (intPaid - fee)]
  /\ UNCHANGED <<now, pauseVars, params, animalCap, whitelist, wlCount,
                 collaterals>>

\* No interest accrues here, and due_ledger is not read.
Liquidate(u, i, amount) ==
  LET loan == loans[i]
      left == loan.outstanding - amount
  IN
  /\ ~IsPaused
  /\ amount > 0
  /\ MayLiquidate(u)
  /\ IsOpen(loan)
  /\ HealthFactor(loan, params.liqThr) < BPS
  /\ amount <= MaxRepay(loan)
  /\ balance[u] >= amount
  /\ loans' = [loans EXCEPT ![i] =
       [loan EXCEPT !.outstanding = left,
                    !.status = IF left = 0 THEN "Liquidated" ELSE "Active"]]
  /\ balance' = Transfer(balance, u, Contract, amount)
  /\ UNCHANGED <<now, pauseVars, params, animalCap, whitelist, wlCount,
                 collaterals, terms, pool>>

-----------------------------------------------------------------------------
(* Administration.                                                         *)

SetParams(new) ==
  /\ params' = new
  /\ UNCHANGED <<now, pauseVars, animalCap, whitelist, wlCount, collaterals,
                 loans, balance, terms, pool>>

SetLtv(ltv) ==
  /\ 10 * ltv >= BPS /\ 10 * ltv <= 9 * BPS
  /\ SetParams([params EXCEPT !.ltv = ltv])

\* The new threshold is not compared with the LTV.
SetLiquidationThreshold(thr) ==
  /\ thr # 0 /\ thr <= BPS
  /\ SetParams([params EXCEPT !.liqThr = thr])

SetCloseFactor(cf) ==
  /\ cf # 0 /\ cf <= BPS
  /\ SetParams([params EXCEPT !.closeFactor = cf])

UpdateFeeConfig(orig, int) ==
  /\ ~IsPaused
  /\ orig <= BPS \div 20 /\ int <= BPS \div 20
  /\ SetParams([params EXCEPT !.origFee = orig, !.intFee = int])

SetLoanLimits(min, max) ==
  /\ min > 0 /\ max > 0 /\ max > min
  /\ SetParams([params EXCEPT !.minLoan = min, !.maxLoan = max])

SetAnimalCap(type, value) ==
  /\ value > 0
  /\ animalCap' = [animalCap EXCEPT ![type] = value]
  /\ UNCHANGED <<now, pauseVars, params, whitelist, wlCount, collaterals,
                 loans, balance, terms, pool>>

AddLiquidator(u) ==
  /\ u \notin whitelist
  /\ whitelist' = whitelist \cup {u}
  /\ wlCount' = wlCount + 1
  /\ UNCHANGED <<now, pauseVars, params, animalCap, collaterals, loans,
                 balance, terms, pool>>

RemoveLiquidator(u) ==
  /\ u \in whitelist
  /\ whitelist' = whitelist \ {u}
  /\ wlCount' = IF wlCount > 0 THEN wlCount - 1 ELSE 0
  /\ UNCHANGED <<now, pauseVars, params, animalCap, collaterals, loans,
                 balance, terms, pool>>

\* Takes the whole pool; the loans stay as they are.
EmergencyWithdraw(recipient) ==
  /\ IsPaused
  /\ balance' = Transfer(balance, Contract, recipient, balance[Contract])
  /\ pool' = [pool EXCEPT !.withdrawn = @ + balance[Contract]]
  /\ UNCHANGED <<now, pauseVars, params, animalCap, whitelist, wlCount,
                 collaterals, loans, terms>>

-----------------------------------------------------------------------------
Livestock ==
  \E u \in Users, v \in Appraisals :
    \/ \E t \in AnimalTypes : RegisterLivestock(u, t, v)
    \/ \E id \in DOMAIN collaterals : UpdateAppraisal(u, id, v)

Borrowing ==
  \E u \in Users, x \in Amounts :
    \/ \E ids \in CollateralLists, d \in LoanDurations : RequestLoan(u, ids, x, d)
    \/ \E i \in DOMAIN loans : Repay(u, i, x)
    \/ \E i \in DOMAIN loans : Liquidate(u, i, x)

Administration ==
  \/ \E v \in Ltvs : SetLtv(v)
  \/ \E v \in Thresholds : SetLiquidationThreshold(v)
  \/ \E v \in CloseFactors : SetCloseFactor(v)
  \/ \E o, n \in FeeRates : UpdateFeeConfig(o, n)
  \/ \E lim \in LoanLimits : SetLoanLimits(lim[1], lim[2])
  \/ \E t \in AnimalTypes, v \in Caps : SetAnimalCap(t, v)
  \/ \E u \in Liquidators : AddLiquidator(u)
  \/ \E u \in Liquidators : RemoveLiquidator(u)
  \/ \E a \in Recipients : EmergencyWithdraw(a)

lendingVars == <<params, animalCap, whitelist, wlCount, collaterals, loans,
                 balance, terms, pool>>

Pausing ==
  /\ Pause \/ Unpause \/ \E d \in PauseDurations : SetPauseDuration(d)
  /\ UNCHANGED <<now, lendingVars>>

Time == CloseLedger /\ UNCHANGED <<pauseVars, lendingVars>>

Next == Livestock \/ Borrowing \/ Administration \/ Pausing \/ Time

Spec == Init /\ [][Next]_vars

-----------------------------------------------------------------------------
(* Safety.                                                                 *)

\* A loan is Active exactly while principal is owed, never more than was
\* lent, and it counts as Repaid only when its interest is settled too.  It
\* takes repay_loan's split of a payment and both closing tests to keep this.
LoanStatusSound ==
  \A i \in DOMAIN loans :
    /\ loans[i].outstanding <= loans[i].principal
    /\ loans[i].status = "Active" <=> loans[i].outstanding > 0
    /\ loans[i].status = "Repaid" => loans[i].interest = 0

\* A loan can be liquidated only after the admin has put the liquidation
\* threshold below the LTV the loan was opened under: total_collateral_value
\* is fixed by request_loan and liquidate does not count interest, so neither
\* a new appraisal nor the passage of time makes a loan unsafe.
LiquidatableOnlyBelowLtv ==
  \A i \in DOMAIN loans :
    loans[i].status = "Active" /\ HealthFactor(loans[i], params.liqThr) < BPS
      => params.liqThr < terms[i].ltv

\* The interest charged to a loan over its life is at most simple interest
\* on its principal at the highest rate, however its repayments are spread:
\* nothing is charged twice and interest bears no interest.
InterestIsSimple ==
  \A i \in DOMAIN loans :
    terms[i].charged * BPS * SecondsPerYear
      <= loans[i].principal * (BPS \div 10) * (loans[i].lastTime - terms[i].opened)

\* A collateral names the newest loan that lists it, and no loan if none
\* does; the loan's borrower owns it.
LockIsLatest ==
  \A c \in DOMAIN collaterals :
    LET lists == {i \in DOMAIN loans : \E k \in DOMAIN loans[i].ids : loans[i].ids[k] = c}
    IN  /\ \A i \in lists : /\ i <= collaterals[c].loan
                           /\ loans[i].borrower = collaterals[c].owner
        /\ collaterals[c].loan \in lists \cup {0}

\* WL_COUNT counts the whitelist entries: liquidation is open to everyone
\* only when no entry is left.
WhitelistCounted == wlCount = Cardinality(whitelist)

TotalOutstanding ==
  FoldFunction(LAMBDA x, acc : x + acc, 0,
               [i \in DOMAIN loans |-> loans[i].outstanding])

\* No token is lost or made between the pool and the loans: what the contract
\* holds, is owed as principal and has withdrawn in an emergency is the
\* deposit it started with and the interest it kept after fees.
PoolAccounting ==
  balance[Contract] + TotalOutstanding + pool.withdrawn
    = InitialBalance[Contract] + pool.earned

-----------------------------------------------------------------------------
(* Action properties.                                                      *)

\* A Repaid or Liquidated loan never changes again.
ClosedLoansFrozen ==
  [][\A i \in DOMAIN loans : loans[i].status # "Active" => loans'[i] = loans[i]]_vars

\* A liquidator can close a loan only under a close factor of one hundred
\* per cent: any smaller cap leaves principal behind after every call.
ClosingNeedsFullCloseFactor ==
  [][\A i \in DOMAIN loans :
       loans[i].status = "Active" /\ loans'[i].status = "Liquidated"
         => params.closeFactor = BPS]_vars

\* The health of an open loan falls only in the step that lowers the
\* threshold; no repayment, liquidation, reappraisal or passage of time does.
HealthDropsOnlyWithThreshold ==
  [][\A i \in DOMAIN loans :
       /\ loans[i].status = "Active" /\ loans'[i].status = "Active"
       /\ HealthFactor(loans'[i], params'.liqThr) < HealthFactor(loans[i], params.liqThr)
       => params'.liqThr < params.liqThr]_vars

\* Every loan follows the life cycle of loanStateMachine.ts; a loan that
\* request_loan has not created yet is pending.
LifecycleOf ==
  [i \in 1 .. MaxLoans |->
     IF i \notin DOMAIN loans THEN "pending"
     ELSE CASE loans[i].status = "Active"     -> "active"
            [] loans[i].status = "Repaid"     -> "repaid"
            [] loans[i].status = "Liquidated" -> "liquidated"]

Lifecycle == INSTANCE LoanLifecycle WITH LoanIds <- 1 .. MaxLoans,
                                         status <- LifecycleOf

LifecycleSpec == Lifecycle!Spec
=============================================================================

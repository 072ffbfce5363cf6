--------------------------- MODULE LoanDeskProofs ---------------------------
(***************************************************************************)
(* Theorems about LoanDesk for every number of collaterals, requests, runs *)
(* of the job and loans.  That no collateral is pledged twice rests on     *)
(* what pendingPledges promises of a creation that is in flight: no open   *)
(* loan lists its collateral, but for one that an admin restored since.    *)
(***************************************************************************)
EXTENDS LoanDesk, SequenceTheorems, TLAPS

-----------------------------------------------------------------------------
(* Type correctness.                                                       *)

CollateralRecord == [value : Nat, deleted : BOOLEAN]
Creation == [collateral : Collaterals, amount : Nat]

LEMMA DeskInitType == Init => TypeOK
<1>. SUFFICES ASSUME Init PROVE TypeOK
  OBVIOUS
<1>1. loans \in Seq(LoanRecord) /\ Len(loans) <= MaxLoans
      /\ restored \in Seq(BOOLEAN) /\ Len(restored) = Len(loans)
  BY EmptySeq, LoanDeskAssumption DEF Init
<1>. QED
  BY <1>1 DEF Init, TypeOK

\* A health factor is a natural number, or none.
LEMMA HealthType ==
  ASSUME TypeOK, NEW c \in Collaterals, NEW amount \in Nat
  PROVE  HealthOf(c, amount) \in Nat \cup {NoHealth}
<1>1. CASE CollateralAlive(c) /\ amount > 0
  <2>1. collateral[c] \in CollateralRecord
    BY <1>1 DEF TypeOK, CollateralAlive, CollateralRecord
  <2>2. collateral[c].value \in Nat /\ (8 * SCALE) \div 10 \in Nat
    BY <2>1, LoanDeskAssumption DEF CollateralRecord
  <2>. DEFINE n == collateral[c].value * ((8 * SCALE) \div 10)
  <2>3. n \in Nat
    BY <2>2
  <2>. HIDE DEF n
  <2>4. n \div amount \in Nat
    BY <1>1, <2>3
  <2>. QED
    BY <1>1, <2>4 DEF HealthOf, n
<1>. QED
  BY <1>1 DEF HealthOf

\* Where the loans are, and what each of them is.
LEMMA LoansType ==
  ASSUME TypeOK
  PROVE  /\ Len(loans) \in Nat /\ DOMAIN loans = 1 .. Len(loans)
         /\ DOMAIN loans \subseteq LoanIds /\ DOMAIN restored = DOMAIN loans
         /\ \A i \in DOMAIN loans : loans[i] \in LoanRecord
  BY LenProperties, ElementOfSeq, LoanDeskAssumption DEF TypeOK, LoanIds

\* A turn of the job writes the health and the status of one loan.
LEMMA VisitLoans ==
  ASSUME TypeOK, NEW run \in Runs, NEW seen \in job[run], Visit(run, seen)
  PROVE  /\ seen \in Snapshot
         /\ \E health \in Nat \cup {NoHealth}, status \in LoanStatus :
              loans' \in {loans, UpdateLoan(seen, health, status)}
<1>1. seen \in Snapshot
  BY DEF TypeOK
<1>2. HealthOf(seen.collateral, seen.amount) \in Nat \cup {NoHealth}
  BY <1>1, HealthType DEF Snapshot
<1>3. RiskOf(HealthOf(seen.collateral, seen.amount)) \in LoanStatus
  BY DEF RiskOf, LoanStatus
<1>. QED
  BY <1>1, <1>2, <1>3 DEF Visit

LEMMA DeskStepType ==
  ASSUME TypeOK, Next
  PROVE  TypeOK'
<1>0. /\ Len(loans) \in Nat /\ DOMAIN loans = 1 .. Len(loans)
      /\ DOMAIN loans \subseteq LoanIds /\ DOMAIN restored = DOMAIN loans
      /\ \A i \in DOMAIN loans : loans[i] \in LoanRecord
  BY LoansType
<1>1. ASSUME NEW c \in Collaterals, NEW v \in Values, Register(c, v) \/ Appraise(c, v)
      PROVE  TypeOK'
  <2>1. v \in Nat
    BY LoanDeskAssumption
  <2>2. collateral' \in [Collaterals -> CollateralRecord \cup {None}]
    <3>1. CASE Register(c, v)
      BY <2>1, <3>1 DEF Register, TypeOK, CollateralRecord
    <3>2. CASE Appraise(c, v)
      <4>1. collateral[c] \in CollateralRecord
        BY <3>2 DEF Appraise, CollateralAlive, TypeOK, CollateralRecord
      <4>2. [collateral[c] EXCEPT !.value = v] \in CollateralRecord
        BY <2>1, <4>1 DEF CollateralRecord
      <4>3. collateral' = [collateral EXCEPT ![c] = [collateral[c] EXCEPT !.value = v]]
        BY <3>2 DEF Appraise
      <4>. QED
        BY <4>2, <4>3 DEF TypeOK, CollateralRecord
    <3>. QED
      BY <1>1, <3>1, <3>2
  <2>. QED
    BY <1>1, <2>2 DEF Register, Appraise, TypeOK, CollateralRecord, requestVars, jobVars
<1>2. ASSUME NEW c \in Collaterals, DeleteCollateral(c) \/ RestoreCollateral(c)
      PROVE  TypeOK'
  <2>1. collateral[c] \in CollateralRecord
    BY <1>2 DEF DeleteCollateral, RestoreCollateral, CollateralAlive, TypeOK, CollateralRecord
  <2>2. \A b \in BOOLEAN : [collateral[c] EXCEPT !.deleted = b] \in CollateralRecord
    BY <2>1 DEF CollateralRecord
  <2>3. \E b \in BOOLEAN :
          collateral' = [collateral EXCEPT ![c] = [collateral[c] EXCEPT !.deleted = b]]
    BY <1>2 DEF DeleteCollateral, RestoreCollateral
  <2>4. collateral' \in [Collaterals -> CollateralRecord \cup {None}]
    BY <2>2, <2>3 DEF TypeOK, CollateralRecord
  <2>. QED
    BY <1>2, <2>4
       DEF DeleteCollateral, RestoreCollateral, TypeOK, CollateralRecord, requestVars, jobVars
<1>3. ASSUME NEW r \in Requests, NEW c \in Collaterals, NEW a \in Amounts, BeginCreate(r, c, a)
      PROVE  TypeOK'
  <2>. DEFINE most == (collateral[c].value * 8) \div 10
              lent == IF a <= most THEN a ELSE most
  <2>1. most \in Nat /\ a \in Nat
    <3>1. collateral[c] \in CollateralRecord
      BY <1>3 DEF BeginCreate, CollateralAlive, TypeOK, CollateralRecord
    <3>2. collateral[c].value \in Nat
      BY <3>1 DEF CollateralRecord
    <3>. QED
      BY <3>2, LoanDeskAssumption
  <2>2. creating' = [creating EXCEPT ![r] = [collateral |-> c, amount |-> lent]]
        /\ pending' = pending \cup {c}
    BY <1>3 DEF BeginCreate
  <2>. HIDE DEF most
  <2>3. lent \in Nat
    BY <2>1
  <2>. HIDE DEF lent
  <2>4. creating' \in [Requests -> Creation \cup {None}] /\ pending' \subseteq Collaterals
    BY <2>2, <2>3 DEF TypeOK, Creation
  <2>. QED
    BY <1>3, <2>4 DEF BeginCreate, TypeOK, Creation, jobVars
<1>4. ASSUME NEW r \in Requests, FinishCreate(r) \/ FailCreate(r)
      PROVE  TypeOK'
  <2>1. creating' \in [Requests -> Creation \cup {None}] /\ pending' \subseteq Collaterals
    BY <1>4 DEF FinishCreate, FailCreate, Release, TypeOK, Creation
  <2>2. CASE FinishCreate(r)
    <3>. DEFINE new == [collateral |-> creating[r].collateral, amount |-> creating[r].amount,
                        status |-> "active", health |-> NoHealth, deleted |-> FALSE]
    <3>1. new \in LoanRecord
      <4>1. creating[r] \in Creation
        BY <2>2 DEF FinishCreate, TypeOK, Creation
      <4>. QED
        BY <4>1 DEF Creation, LoanRecord, LoanStatus
    <3>2. loans' = Append(loans, new) /\ restored' = Append(restored, FALSE)
          /\ Len(loans) < MaxLoans /\ UNCHANGED <<collateral, jobVars>>
      BY <2>2 DEF FinishCreate
    <3>. HIDE DEF new
    <3>3. loans' \in Seq(LoanRecord) /\ Len(loans') = Len(loans) + 1
      BY <3>1, <3>2, AppendProperties DEF TypeOK
    <3>4. restored' \in Seq(BOOLEAN) /\ Len(restored') = Len(restored) + 1
      BY <3>2, AppendProperties DEF TypeOK
    <3>5. Len(loans') <= MaxLoans /\ Len(restored') = Len(loans')
      BY <1>0, <3>2, <3>3, <3>4, LoanDeskAssumption DEF TypeOK
    <3>. QED
      BY <2>1, <3>2, <3>3, <3>4, <3>5 DEF TypeOK, Creation, jobVars
  <2>3. CASE FailCreate(r)
    BY <2>1, <2>3 DEF FailCreate, TypeOK, Creation, jobVars
  <2>. QED
    BY <1>4, <2>2, <2>3
\* A step that changes one loan, or none.
<1>5. ASSUME NEW i \in DOMAIN loans, NEW new \in LoanRecord,
             loans' = [loans EXCEPT ![i] = new],
             restored' \in Seq(BOOLEAN), Len(restored') = Len(restored),
             job' \in [Runs -> SUBSET Snapshot], holder' \in Runs \cup {None},
             UNCHANGED <<collateral, requestVars>>
      PROVE  TypeOK'
  <2>1. loans' \in Seq(LoanRecord) /\ Len(loans') = Len(loans)
    BY <1>0, <1>5, ExceptSeq DEF TypeOK
  <2>. QED
    BY <1>5, <2>1 DEF TypeOK, requestVars
<1>6. ASSUME NEW i \in DOMAIN loans, NEW a \in Payments, RecordRepayment(i, a)
      PROVE  TypeOK'
  <2>1. loans[i] \in LoanRecord /\ a \in Nat /\ a <= loans[i].amount
    BY <1>0, <1>6, LoanDeskAssumption DEF RecordRepayment
  <2>2. [loans[i] EXCEPT !.amount = loans[i].amount - a] \in LoanRecord
    <3>1. loans[i].amount - a \in Nat
      BY <2>1 DEF LoanRecord
    <3>2. \A n \in Nat : [loans[i] EXCEPT !.amount = n] \in LoanRecord
      BY <2>1 DEF LoanRecord
    <3>. QED
      BY <3>1, <3>2
  <2>3. loans' = [loans EXCEPT ![i] = [loans[i] EXCEPT !.amount = loans[i].amount - a]]
        /\ UNCHANGED <<collateral, requestVars, jobVars, restored>>
    BY <1>6 DEF RecordRepayment
  <2>. QED
    BY <1>5, <2>2, <2>3 DEF TypeOK, jobVars
<1>7. ASSUME NEW i \in DOMAIN loans, DeleteLoan(i) \/ RestoreLoan(i)
      PROVE  TypeOK'
  <2>1. \A b \in BOOLEAN : [loans[i] EXCEPT !.deleted = b] \in LoanRecord
    BY <1>0 DEF LoanRecord
  <2>2. \E b \in BOOLEAN :
          loans' = [loans EXCEPT ![i] = [loans[i] EXCEPT !.deleted = b]]
    BY <1>7 DEF DeleteLoan, RestoreLoan
  <2>3. restored' \in Seq(BOOLEAN) /\ Len(restored') = Len(restored)
    <3>1. restored' = restored \/ restored' = [restored EXCEPT ![i] = TRUE]
      BY <1>7 DEF DeleteLoan, RestoreLoan
    <3>2. i \in 1 .. Len(restored) /\ restored \in Seq(BOOLEAN)
      BY <1>0 DEF TypeOK
    <3>3. [restored EXCEPT ![i] = TRUE] \in Seq(BOOLEAN)
          /\ Len([restored EXCEPT ![i] = TRUE]) = Len(restored)
      BY <3>2, ExceptSeq
    <3>. QED
      BY <3>1, <3>2, <3>3
  <2>4. UNCHANGED <<collateral, requestVars, jobVars>>
    BY <1>7 DEF DeleteLoan, RestoreLoan
  <2>. QED
    BY <1>5, <2>1, <2>2, <2>3, <2>4 DEF TypeOK, jobVars
<1>8. ASSUME NEW run \in Runs, JobStart(run)
      PROVE  TypeOK'
  <2>1. OpenLoans \subseteq Snapshot
    BY <1>0 DEF OpenLoans, Visited, Snapshot, LoanRecord
  <2>. QED
    BY <1>8, <2>1 DEF JobStart, TypeOK, requestVars
<1>9. ASSUME NEW run \in Runs, NEW seen \in job[run], Visit(run, seen)
      PROVE  TypeOK'
  <2>1. PICK health \in Nat \cup {NoHealth}, status \in LoanStatus :
          loans' \in {loans, UpdateLoan(seen, health, status)}
    BY <1>9, VisitLoans
  <2>2. /\ job' \in [Runs -> SUBSET Snapshot] /\ holder' \in Runs \cup {None}
        /\ UNCHANGED <<collateral, requestVars, restored>>
    BY <1>9 DEF Visit, TypeOK
  <2>3. CASE loans' = loans \/ seen.id \notin DOMAIN loans
    <3>1. loans' = loans
      <4>1. CASE seen.id \notin DOMAIN loans
        <5>1. UpdateLoan(seen, health, status) = loans
          BY <1>0, <4>1 DEF UpdateLoan, TypeOK
        <5>. QED
          BY <2>1, <5>1
      <4>. QED
        BY <2>3, <4>1
    <3>. QED
      BY <2>2, <3>1 DEF TypeOK, requestVars
  <2>4. CASE loans' = UpdateLoan(seen, health, status) /\ seen.id \in DOMAIN loans
    <3>. DEFINE i == seen.id
                new == [loans[i] EXCEPT !.health = health, !.status = status]
    <3>1. new \in LoanRecord
      BY <1>0, <2>4 DEF LoanRecord
    <3>2. loans' = [loans EXCEPT ![i] = new]
      BY <1>0, <2>4 DEF UpdateLoan, TypeOK
    <3>. QED
      BY <1>5, <2>2, <2>4, <3>1, <3>2 DEF TypeOK
  <2>. QED
    BY <2>1, <2>3, <2>4
<1>. QED
  BY <1>1, <1>2, <1>3, <1>4, <1>6, <1>7, <1>8, <1>9
     DEF Next, Handlers, CreateAnswered, JobStarted, JobStep

LEMMA DeskType == TypeOK /\ [Next]_vars => TypeOK'
<1>1. TypeOK /\ UNCHANGED vars => TypeOK'
  BY DEF TypeOK, vars
<1>. QED
  BY <1>1, DeskStepType

\* Every record keeps its type, whatever the job and the handlers write over
\* each other: no amount owed goes below zero.
THEOREM DeskTypes == Spec => []TypeOK
<1>. QED
  BY DeskInitType, DeskType, PTL DEF Spec

-----------------------------------------------------------------------------
(* The pledges.                                                            *)

\* An open loan of a collateral that is being pledged was restored since.
PledgedByRestored ==
  \A i \in DOMAIN loans :
    loans[i].collateral \in pending /\ IsOpen(loans[i]) => restored[i]

PledgeInv == TypeOK /\ PledgesInFlight /\ PledgedByRestored /\ DoublePledgeNeedsRestore

\* What a turn of the job leaves of a loan: a status it may write keeps an
\* open loan open.
LEMMA VisitKeepsOpen ==
  ASSUME TypeOK, NEW run \in Runs, NEW seen \in job[run], Visit(run, seen)
  PROVE  /\ DOMAIN loans' = DOMAIN loans
         /\ \A i \in DOMAIN loans : /\ loans'[i].collateral = loans[i].collateral
                                    /\ IsOpen(loans'[i]) = IsOpen(loans[i])
<1>1. PICK health \in Nat \cup {NoHealth}, status \in LoanStatus :
        loans' \in {loans, UpdateLoan(seen, health, status)}
  BY VisitLoans
<1>2. /\ loans \in Seq(LoanRecord) /\ DOMAIN loans = 1 .. Len(loans)
      /\ \A i \in DOMAIN loans : loans[i] \in LoanRecord
  BY LoansType DEF TypeOK
<1>3. CASE loans' = loans
  BY <1>3
<1>4. CASE loans' = UpdateLoan(seen, health, status)
  <2>. DEFINE new == [loans[seen.id] EXCEPT !.health = health, !.status = status]
  <2>1. DOMAIN loans' = DOMAIN loans
        /\ \A i \in DOMAIN loans : loans'[i] = IF i = seen.id THEN new ELSE loans[i]
    BY <1>2, <1>4 DEF UpdateLoan
  <2>2. seen.id \in DOMAIN loans =>
          /\ new.collateral = loans[seen.id].collateral
          /\ new.deleted = loans[seen.id].deleted
          /\ new.status \in LoanStatus /\ loans[seen.id].status \in LoanStatus
    BY <1>2 DEF LoanRecord
  <2>. HIDE DEF new
  <2>. QED
    BY <2>1, <2>2 DEF IsOpen
<1>. QED
  BY <1>1, <1>3, <1>4

LEMMA CreatingType ==
  ASSUME TypeOK, NEW r \in Requests, creating[r] # None
  PROVE  creating[r] \in Creation /\ creating[r].collateral \in Collaterals
  BY DEF TypeOK, Creation

\* A creation releases its own pledge and nobody else's.
LEMMA ReleaseKeeps ==
  ASSUME TypeOK, PledgesInFlight, NEW r \in Requests, creating[r] # None, Release(r)
  PROVE  PledgesInFlight'
<1>. DEFINE active == {q \in Requests : creating[q] # None}
<1>1. /\ pending' = pending \ {creating[r].collateral}
      /\ creating' = [creating EXCEPT ![r] = None]
      /\ DOMAIN creating = Requests
  BY DEF Release, TypeOK
<1>2. {q \in Requests : creating'[q] # None} = active \ {r}
      /\ \A q \in active \ {r} : creating'[q] = creating[q]
  BY <1>1
<1>3. /\ pending = {creating[q].collateral : q \in active}
      /\ \A p, q \in active : creating[p].collateral = creating[q].collateral => p = q
      /\ r \in active
  BY DEF PledgesInFlight
<1>. HIDE DEF active
<1>4. pending' = {creating'[q].collateral : q \in active \ {r}}
  BY <1>1, <1>2, <1>3
<1>. QED
  BY <1>2, <1>3, <1>4 DEF PledgesInFlight

LEMMA PledgeStep == PledgeInv /\ [Next]_vars => PledgeInv'
<1>. SUFFICES ASSUME PledgeInv, [Next]_vars PROVE PledgeInv'
  OBVIOUS
<1>0. /\ TypeOK /\ TypeOK' /\ PledgesInFlight /\ PledgedByRestored
      /\ DoublePledgeNeedsRestore
  BY DeskType DEF PledgeInv
<1>1. /\ Len(loans) \in Nat /\ DOMAIN loans = 1 .. Len(loans)
      /\ DOMAIN restored = DOMAIN loans /\ restored \in Seq(BOOLEAN)
      /\ \A i \in DOMAIN loans : loans[i] \in LoanRecord
  BY <1>0, LoansType DEF TypeOK
\* No request begins or ends, and no loan becomes open unless it is restored.
<1>2. ASSUME UNCHANGED requestVars, DOMAIN loans' = DOMAIN loans,
             \A i \in DOMAIN loans : /\ loans'[i].collateral = loans[i].collateral
                                     /\ restored[i] => restored'[i]
                                     /\ IsOpen(loans'[i]) => IsOpen(loans[i]) \/ restored'[i]
      PROVE  PledgeInv'
  <2>1. PledgesInFlight'
    BY <1>0, <1>2 DEF PledgesInFlight, requestVars
  <2>2. PledgedByRestored' /\ DoublePledgeNeedsRestore'
    BY <1>0, <1>2 DEF PledgedByRestored, DoublePledgeNeedsRestore, requestVars
  <2>. QED
    BY <1>0, <2>1, <2>2 DEF PledgeInv
<1>3. ASSUME UNCHANGED <<loans, restored, requestVars>>
      PROVE  PledgeInv'
  BY <1>2, <1>3
<1>4. ASSUME NEW c \in Collaterals, NEW v \in Values, Register(c, v) \/ Appraise(c, v)
      PROVE  PledgeInv'
  BY <1>3, <1>4 DEF Register, Appraise
<1>5. ASSUME NEW c \in Collaterals, DeleteCollateral(c) \/ RestoreCollateral(c)
      PROVE  PledgeInv'
  BY <1>3, <1>5 DEF DeleteCollateral, RestoreCollateral
<1>6. ASSUME NEW r \in Requests, NEW c \in Collaterals, NEW a \in Amounts, BeginCreate(r, c, a)
      PROVE  PledgeInv'
  <2>. DEFINE active == {q \in Requests : creating[q] # None}
  <2>1. /\ creating[r] = None /\ c \notin pending
        /\ \A i \in DOMAIN loans : loans[i].collateral = c => ~IsOpen(loans[i])
        /\ pending' = pending \cup {c} /\ UNCHANGED <<loans, restored>>
    BY <1>6 DEF BeginCreate, CanPledge, IsCollateralPledged
  <2>2. /\ creating'[r].collateral = c /\ creating'[r] # None
        /\ \A q \in Requests \ {r} : creating'[q] = creating[q]
    <3>. DEFINE most == (collateral[c].value * 8) \div 10
                new == [collateral |-> c, amount |-> IF a <= most THEN a ELSE most]
    <3>1. creating' = [creating EXCEPT ![r] = new] /\ new.collateral = c
      BY <1>6 DEF BeginCreate
    <3>. HIDE DEF new
    <3>2. creating'[r] = new /\ \A q \in Requests \ {r} : creating'[q] = creating[q]
      BY <1>0, <3>1 DEF TypeOK
    <3>3. new \in Creation
      <4>1. collateral[c] \in CollateralRecord
        BY <1>0, <1>6 DEF BeginCreate, CollateralAlive, TypeOK, CollateralRecord
      <4>2. most \in Nat /\ a \in Nat
        BY <4>1, LoanDeskAssumption DEF CollateralRecord
      <4>. HIDE DEF most
      <4>. QED
        BY <4>2 DEF Creation, new
    <3>4. None \notin Creation
      BY LoanDeskAssumption DEF Creation
    <3>. QED
      BY <3>1, <3>2, <3>3, <3>4
  <2>3. {q \in Requests : creating'[q] # None} = active \cup {r}
    BY <2>1, <2>2
  <2>4. PledgesInFlight'
    <3>1. /\ pending = {creating[q].collateral : q \in active}
          /\ \A p, q \in active : creating[p].collateral = creating[q].collateral => p = q
          /\ r \notin active
      BY <1>0, <2>1 DEF PledgesInFlight
    <3>2. \A q \in active : creating'[q] = creating[q] /\ creating[q].collateral # c
      BY <2>1, <2>2, <3>1
    <3>. HIDE DEF active
    <3>3. pending' = {creating'[q].collateral : q \in active \cup {r}}
      BY <2>1, <2>2, <3>1, <3>2
    <3>4. \A p, q \in active \cup {r} :
            creating'[p].collateral = creating'[q].collateral => p = q
      BY <2>2, <3>1, <3>2
    <3>. QED
      BY <2>3, <3>3, <3>4 DEF PledgesInFlight
  <2>5. PledgedByRestored' /\ DoublePledgeNeedsRestore'
    BY <1>0, <2>1 DEF PledgedByRestored, DoublePledgeNeedsRestore
  <2>. QED
    BY <1>0, <2>4, <2>5 DEF PledgeInv
<1>7. ASSUME NEW r \in Requests, FinishCreate(r)
      PROVE  PledgeInv'
  <2>. DEFINE n == Len(loans) + 1
              c == creating[r].collateral
  <2>1. /\ creating[r] # None /\ Release(r) /\ c \in Collaterals
        /\ pending' = pending \ {c} /\ c \in pending
    <3>1. creating[r] # None /\ Release(r)
      BY <1>7 DEF FinishCreate
    <3>. QED
      BY <1>0, <3>1, CreatingType DEF Release, PledgesInFlight
  <2>2. PledgesInFlight'
    BY <1>0, <2>1, ReleaseKeeps
  <2>3. /\ DOMAIN loans' = 1 .. n /\ loans'[n].collateral = c
        /\ \A i \in DOMAIN loans : loans'[i] = loans[i] /\ restored'[i] = restored[i]
    <3>. DEFINE new == [collateral |-> creating[r].collateral, amount |-> creating[r].amount,
                        status |-> "active", health |-> NoHealth, deleted |-> FALSE]
    <3>1. loans' = Append(loans, new) /\ restored' = Append(restored, FALSE)
          /\ new.collateral = c
      BY <1>7 DEF FinishCreate
    <3>2. loans \in Seq(LoanRecord) /\ restored \in Seq(BOOLEAN)
          /\ Len(restored) = Len(loans)
      BY <1>0 DEF TypeOK
    <3>3. new \in LoanRecord
      <4>1. creating[r] \in Creation
        BY <1>0, <2>1, CreatingType
      <4>. QED
        BY <4>1 DEF Creation, LoanRecord, LoanStatus
    <3>. HIDE DEF new
    <3>4. /\ loans' \in Seq(LoanRecord) /\ Len(loans') = n /\ loans'[n] = new
          /\ \A i \in 1 .. Len(loans) : loans'[i] = loans[i]
      BY <3>1, <3>2, <3>3, AppendProperties
    <3>5. \A i \in 1 .. Len(restored) : restored'[i] = restored[i]
      <4>1. \A b \in BOOLEAN : \A i \in 1 .. Len(restored) :
              Append(restored, b)[i] = restored[i]
        BY <3>2, AppendProperties
      <4>. QED
        BY <3>1, <4>1
    <3>6. DOMAIN loans' = 1 .. n
      BY <3>4, LenProperties
    <3>. QED
      BY <1>1, <3>1, <3>2, <3>4, <3>5, <3>6
  <2>. HIDE DEF c
  <2>4. PledgedByRestored'
    BY <1>0, <1>1, <2>1, <2>3 DEF PledgedByRestored
  <2>5. DoublePledgeNeedsRestore'
    BY <1>0, <1>1, <2>1, <2>3 DEF PledgedByRestored, DoublePledgeNeedsRestore
  <2>. QED
    BY <1>0, <2>2, <2>4, <2>5 DEF PledgeInv
<1>8. ASSUME NEW r \in Requests, FailCreate(r)
      PROVE  PledgeInv'
  <2>1. /\ creating[r] # None /\ Release(r) /\ UNCHANGED <<loans, restored>>
        /\ pending' \subseteq pending
    BY <1>8 DEF FailCreate, Release
  <2>2. PledgesInFlight'
    BY <1>0, <2>1, ReleaseKeeps
  <2>3. PledgedByRestored' /\ DoublePledgeNeedsRestore'
    BY <1>0, <2>1 DEF PledgedByRestored, DoublePledgeNeedsRestore
  <2>. QED
    BY <1>0, <2>2, <2>3 DEF PledgeInv
<1>9. ASSUME NEW i \in DOMAIN loans, NEW a \in Payments, RecordRepayment(i, a)
      PROVE  PledgeInv'
  <2>1. /\ DOMAIN loans' = DOMAIN loans
        /\ \A j \in DOMAIN loans : /\ loans'[j].collateral = loans[j].collateral
                                   /\ loans'[j].status = loans[j].status
                                   /\ loans'[j].deleted = loans[j].deleted
    BY <1>0, <1>1, <1>9 DEF RecordRepayment, TypeOK, LoanRecord
  <2>2. UNCHANGED <<requestVars, restored>>
    BY <1>9 DEF RecordRepayment
  <2>. QED
    BY <1>2, <2>1, <2>2 DEF IsOpen
<1>10. ASSUME NEW i \in DOMAIN loans, DeleteLoan(i)
       PROVE  PledgeInv'
  <2>1. /\ DOMAIN loans' = DOMAIN loans
        /\ \A j \in DOMAIN loans : /\ loans'[j].collateral = loans[j].collateral
                                   /\ loans'[j].status = loans[j].status
                                   /\ loans'[j].deleted = loans[j].deleted \/ loans'[j].deleted
    BY <1>0, <1>1, <1>10 DEF DeleteLoan, TypeOK, LoanRecord
  <2>2. UNCHANGED <<requestVars, restored>>
    BY <1>10 DEF DeleteLoan
  <2>. QED
    BY <1>2, <2>1, <2>2 DEF IsOpen
<1>11. ASSUME NEW i \in DOMAIN loans, RestoreLoan(i)
       PROVE  PledgeInv'
  <2>1. /\ DOMAIN loans' = DOMAIN loans
        /\ loans'[i].collateral = loans[i].collateral
        /\ \A j \in DOMAIN loans \ {i} : loans'[j] = loans[j]
    BY <1>0, <1>1, <1>11 DEF RestoreLoan, TypeOK, LoanRecord
  <2>2. restored'[i] /\ \A j \in DOMAIN loans \ {i} : restored'[j] = restored[j]
    BY <1>1, <1>11 DEF RestoreLoan
  <2>3. UNCHANGED requestVars
    BY <1>11 DEF RestoreLoan
  <2>. QED
    BY <1>2, <2>1, <2>2, <2>3
<1>12. ASSUME NEW run \in Runs, JobStart(run)
       PROVE  PledgeInv'
  BY <1>3, <1>12 DEF JobStart
<1>13. ASSUME NEW run \in Runs, NEW seen \in job[run], Visit(run, seen)
       PROVE  PledgeInv'
  <2>1. UNCHANGED <<requestVars, restored>>
    BY <1>13 DEF Visit
  <2>. QED
    BY <1>0, <1>2, <1>13, <2>1, VisitKeepsOpen
<1>14. CASE UNCHANGED vars
  BY <1>3, <1>14 DEF vars, requestVars
<1>. QED
  BY <1>4, <1>5, <1>6, <1>7, <1>8, <1>9, <1>10, <1>11, <1>12, <1>13, <1>14
     DEF Next, Handlers, CreateAnswered, JobStarted, JobStep

LEMMA PledgeInvariant == Spec => []PledgeInv
<1>1. Init => PledgeInv
  BY DeskInitType
     DEF Init, PledgeInv, PledgesInFlight, PledgedByRestored, DoublePledgeNeedsRestore
<1>. QED
  BY <1>1, PledgeStep, PTL DEF Spec

\* pendingPledges holds the collateral of every creation in flight and of no
\* other, whatever order they end in and however they end.
THEOREM PendingPledgesExact == Spec => []PledgesInFlight
<1>1. PledgeInv => PledgesInFlight
  BY DEF PledgeInv
<1>. QED
  BY <1>1, PledgeInvariant, PTL

\* No interleaving of creations, deletions and the job pledges a collateral
\* to two open loans: only an admin who restores a loan does.
THEOREM NoDoublePledge == Spec => []DoublePledgeNeedsRestore
<1>1. PledgeInv => DoublePledgeNeedsRestore
  BY DEF PledgeInv
<1>. QED
  BY <1>1, PledgeInvariant, PTL
=============================================================================

------------------------------ MODULE LoanDesk ------------------------------
(***************************************************************************)
(* The backend's own record of collateral and loans: the in-memory store   *)
(* (backend/src/db/store.ts), the HTTP handlers of backend/src/index.ts    *)
(* that write it and the health factor job.                                *)
(*                                                                         *)
(* The process is single-threaded: a handler runs alone up to its next     *)
(* await.  An action is the code between two such points; what a handler   *)
(* read before an await and uses after it is kept in creating or job.  Who *)
(* may call a handler is left out.                                         *)
(***************************************************************************)
EXTENDS Integers, Sequences

CONSTANTS
  Collaterals,    \* ids of collateral records
  Requests,       \* HTTP requests in flight at a time
  Runs,           \* invocations of the health factor job in flight
  Cron,           \* the hourly one; the others are triggered by an admin
  Values,         \* appraised values the callers may send
  Amounts,        \* loan amounts the callers may send
  Payments,       \* repayments the callers may send
  SCALE,          \* 10_000
  WarnThreshold,  \* HEALTH_FACTOR_WARN
  MaxLoans,       \* bound: loans ever created
  None            \* nothing in flight; nobody holds the event loop

ASSUME LoanDeskAssumption ==
  /\ SCALE \in Nat \ {0} /\ WarnThreshold \in Nat /\ MaxLoans \in Nat
  /\ Values \subseteq Nat \ {0} /\ Amounts \subseteq Nat \ {0}
  /\ Payments \subseteq Nat \ {0}
  /\ Cron \in Runs /\ None \notin Runs
  /\ None \notin [collateral : Collaterals, amount : Nat]
  /\ None \notin [value : Nat, deleted : BOOLEAN]

VARIABLES
  collateral,   \* collateralTable: a record, or None for an id not registered
  loans,        \* loanTable, in insertion order
  pending,      \* pendingPledges
  creating,     \* request -> the loan it is about to insert
  job,          \* run -> the listActiveLoans() records it has yet to visit
  holder,       \* the run that has not awaited since its last loan, or None
  restored      \* history of each loan: whether it was ever restored

vars == <<collateral, loans, pending, creating, job, holder, restored>>

\* The statuses these handlers write: none of them closes a loan.
LoanStatus == {"active", "at_risk"}
NoHealth == -1                       \* health_factor = null

LoanIds == 1 .. MaxLoans

LoanRecord == [collateral : Collaterals, amount : Nat,
               status : LoanStatus, health : Nat \cup {NoHealth},
               deleted : BOOLEAN]

Snapshot == [id : LoanIds, collateral : Collaterals, amount : Nat,
             status : LoanStatus, health : Nat \cup {NoHealth}]

TypeOK ==
  /\ collateral \in [Collaterals ->
       [value : Nat, deleted : BOOLEAN] \cup {None}]
  /\ loans \in Seq(LoanRecord) /\ Len(loans) <= MaxLoans
  /\ pending \subseteq Collaterals
  /\ creating \in [Requests -> [collateral : Collaterals, amount : Nat] \cup {None}]
  /\ job \in [Runs -> SUBSET Snapshot]
  /\ holder \in Runs \cup {None}
  /\ restored \in Seq(BOOLEAN) /\ Len(restored) = Len(loans)

-----------------------------------------------------------------------------
(* Reading the store.                                                      *)

CollateralAlive(c) == collateral[c] # None /\ ~collateral[c].deleted

IsOpen(loan) == loan.status \in LoanStatus /\ ~loan.deleted

IsCollateralPledged(c) ==
  \E i \in DOMAIN loans : loans[i].collateral = c /\ IsOpen(loans[i])

\* computeHealthFactor, in whole basis points: null without collateral or debt.
HealthOf(c, amount) ==
  IF CollateralAlive(c) /\ amount > 0
  THEN (collateral[c].value * ((8 * SCALE) \div 10)) \div amount
  ELSE NoHealth

RiskOf(hf) == IF hf # NoHealth /\ hf < SCALE THEN "at_risk" ELSE "active"

\* updateLoan merges the two fields into the record as it is now.
UpdateLoan(seen, health, status) ==
  [loans EXCEPT ![seen.id].health = health, ![seen.id].status = status]

-----------------------------------------------------------------------------
Init ==
  /\ collateral = [c \in Collaterals |-> None]
  /\ loans = <<>> /\ restored = <<>>
  /\ pending = {}
  /\ creating = [r \in Requests |-> None]
  /\ job = [run \in Runs |-> {}]
  /\ holder = None

requestVars == <<pending, creating>>
jobVars == <<job, holder>>

(* Collateral.                                                             *)

Register(c, value) ==
  /\ collateral[c] = None
  /\ collateral' = [collateral EXCEPT ![c] =
       [value |-> value, deleted |-> FALSE]]
  /\ UNCHANGED <<loans, requestVars, jobVars, restored>>

\* PUT .../appraise and the PATCH handler that is registered first.
Appraise(c, value) ==
  /\ CollateralAlive(c)
  /\ collateral' = [collateral EXCEPT ![c].value = value]
  /\ UNCHANGED <<loans, requestVars, jobVars, restored>>

\* Refused while an open loan lists the collateral; pendingPledges is not read.
DeleteCollateral(c) ==
  /\ CollateralAlive(c)
  /\ ~IsCollateralPledged(c)
  /\ collateral' = [collateral EXCEPT ![c].deleted = TRUE]
  /\ UNCHANGED <<loans, requestVars, jobVars, restored>>

RestoreCollateral(c) ==
  /\ collateral[c] # None /\ collateral[c].deleted
  /\ collateral' = [collateral EXCEPT ![c].deleted = FALSE]
  /\ UNCHANGED <<loans, requestVars, jobVars, restored>>

-----------------------------------------------------------------------------
(* POST /api/loan/create.                                                  *)

CanPledgeIgnoringPending(c) == ~IsCollateralPledged(c)           \* mutant
CanPledge(c) == c \notin pending /\ ~IsCollateralPledged(c)

\* Up to the await of buildContractTx; at most eighty per cent is lent.
BeginCreate(r, c, requested) ==
  LET most == (collateral[c].value * 8) \div 10
  IN
  /\ creating[r] = None
  /\ CollateralAlive(c)
  /\ CanPledge(c)
  /\ pending' = pending \cup {c}
  /\ creating' = [creating EXCEPT ![r] =
       [collateral |-> c, amount |-> IF requested <= most THEN requested ELSE most]]
  /\ UNCHANGED <<collateral, loans, jobVars, restored>>

\* The finally clause.
Release(r) ==
  /\ pending' = pending \ {creating[r].collateral}
  /\ creating' = [creating EXCEPT ![r] = None]

\* buildContractTx resolves.  The request may have been answered 504 by the
\* timeout middleware: the handler goes on all the same.
FinishCreate(r) ==
  /\ creating[r] # None
  /\ Len(loans) < MaxLoans
  /\ loans' = Append(loans,
       [collateral |-> creating[r].collateral, amount |-> creating[r].amount,
        status |-> "active", health |-> NoHealth, deleted |-> FALSE])
  /\ restored' = Append(restored, FALSE)
  /\ Release(r)
  /\ UNCHANGED <<collateral, jobVars>>

\* Mutant: there is no finally, a failed request keeps the pledge.
FailCreateKeeping(r) ==
  /\ creating[r] # None
  /\ creating' = [creating EXCEPT ![r] = None]
  /\ UNCHANGED <<collateral, loans, pending, jobVars, restored>>

\* buildContractTx rejects: the RPC call failed, timed out or was refused by
\* an open circuit breaker.
FailCreate(r) ==
  /\ creating[r] # None
  /\ Release(r)
  /\ UNCHANGED <<collateral, loans, jobVars, restored>>

-----------------------------------------------------------------------------
(* Loans.                                                                  *)

\* PUT /api/loans/:id/repay; the status is neither read nor written.
RecordRepayment(i, amount) ==
  /\ ~loans[i].deleted
  /\ amount <= loans[i].amount
  /\ loans' = [loans EXCEPT ![i].amount = @ - amount]
  /\ UNCHANGED <<collateral, requestVars, jobVars, restored>>

\* The job's snapshots share the record objects, but read no deletedAt.
DeleteLoan(i) ==
  /\ ~loans[i].deleted
  /\ loans' = [loans EXCEPT ![i].deleted = TRUE]
  /\ UNCHANGED <<collateral, requestVars, jobVars, restored>>

\* The collateral may have been pledged again meanwhile.
RestoreLoan(i) ==
  /\ loans[i].deleted
  /\ loans' = [loans EXCEPT ![i].deleted = FALSE]
  /\ restored' = [restored EXCEPT ![i] = TRUE]
  /\ UNCHANGED <<collateral, requestVars, jobVars>>

-----------------------------------------------------------------------------
(* runHealthFactorJob.                                                     *)

Visited(i) == [id |-> i, collateral |-> loans[i].collateral,
               amount |-> loans[i].amount, status |-> loans[i].status,
               health |-> loans[i].health]

\* Mutant: a loan at risk is not visited again.
OpenLoansNotAtRisk ==
  {Visited(i) : i \in {j \in DOMAIN loans : loans[j].status = "active" /\ ~loans[j].deleted}}

\* listActiveLoans.
OpenLoans == {Visited(i) : i \in {j \in DOMAIN loans : IsOpen(loans[j])}}

JobStart(run) ==
  /\ job[run] = {}
  /\ OpenLoans # {}
  /\ job' = [job EXCEPT ![run] = OpenLoans]
  /\ holder' = run
  /\ UNCHANGED <<collateral, loans, requestVars, restored>>

\* One turn of the loop, which visits the loans in the order of their ids.
\* The collateral is read now, the loan is the one of the snapshot; the job
\* awaits only to send an alert, and an alert within its cooldown is not sent.
Visit(run, seen) ==
  LET hf     == HealthOf(seen.collateral, seen.amount)
      status == RiskOf(hf)
      rest   == job[run] \ {seen}
  IN
  /\ loans' = IF seen.health # hf \/ seen.status # status
              THEN UpdateLoan(seen, hf, status) ELSE loans
  /\ job' = [job EXCEPT ![run] = rest]
  /\ \/ rest = {} /\ holder' = None
     \/ rest # {} /\ holder' = run
     \/ rest # {} /\ hf # NoHealth /\ hf < WarnThreshold /\ holder' = None
  /\ UNCHANGED <<collateral, requestVars, restored>>

JobStep(run) ==
  /\ holder \in {run, None}
  /\ \E seen \in job[run] :
       /\ \A other \in job[run] : seen.id <= other.id
       /\ Visit(run, seen)

-----------------------------------------------------------------------------
\* The event loop runs another callback once the job awaits or ends.
Handlers ==
  /\ holder = None
  /\ \/ \E c \in Collaterals, v \in Values : Register(c, v) \/ Appraise(c, v)
     \/ \E c \in Collaterals : DeleteCollateral(c) \/ RestoreCollateral(c)
     \/ \E r \in Requests, c \in Collaterals, a \in Amounts : BeginCreate(r, c, a)
     \/ \E i \in DOMAIN loans, a \in Payments : RecordRepayment(i, a)
     \/ \E i \in DOMAIN loans : DeleteLoan(i) \/ RestoreLoan(i)

CreateAnswered(r) == holder = None /\ (FinishCreate(r) \/ FailCreate(r))

JobStarted(run) == holder = None /\ JobStart(run)

Next ==
  \/ Handlers
  \/ \E r \in Requests : CreateAnswered(r)
  \/ \E run \in Runs : JobStarted(run) \/ JobStep(run)

\* The circuit breaker answers every RPC call within ten seconds, the event
\* loop serves callbacks in turn, an alert is sent or given up, and cron
\* starts the job every hour.  Nobody has to trigger the job by hand.
Fairness ==
  /\ \A r \in Requests : SF_vars(CreateAnswered(r))
  /\ SF_vars(JobStarted(Cron))
  /\ \A run \in Runs : SF_vars(JobStep(run))

Spec == Init /\ [][Next]_vars /\ Fairness

-----------------------------------------------------------------------------
(* Properties.                                                             *)

\* pendingPledges holds exactly the collateral of the creations in flight,
\* and no two of them share one: a failed or late request releases its own
\* pledge and nobody else's.
PledgesInFlight ==
  LET active == {r \in Requests : creating[r] # None}
  IN  /\ pending = {creating[r].collateral : r \in active}
      /\ \A r, s \in active : creating[r].collateral = creating[s].collateral => r = s

\* Two open loans share a collateral only if an admin restored one of them:
\* concurrent creations never pledge a collateral twice.
DoublePledgeNeedsRestore ==
  \A i, j \in DOMAIN loans :
    /\ i # j /\ loans[i].collateral = loans[j].collateral
    /\ IsOpen(loans[i]) /\ IsOpen(loans[j])
    => restored[i] \/ restored[j]

\* The recorded health and status of the open loans.
HealthCurrent ==
  \A i \in DOMAIN loans :
    IsOpen(loans[i]) =>
      LET hf == HealthOf(loans[i].collateral, loans[i].amount)
      IN  loans[i].health = hf /\ loans[i].status = RiskOf(hf)

\* A run of the job may write a health factor of amounts that are no longer
\* owed, over a newer one of an overlapping run too.  Once the callers leave
\* the store alone, the hourly runs put that right.
HealthSettles ==
  <>[][\E run \in Runs : JobStarted(run) \/ JobStep(run)]_vars => <>[]HealthCurrent

-----------------------------------------------------------------------------
(* What the documentation says and the code does not do.                   *)

\* docs/faq.md: once the loan is fully repaid, the collateral record can be
\* released.  A collateral none of whose loans owes anything is not pledged.
RepaidReleasesCollateral ==
  \A c \in Collaterals :
    (\A i \in DOMAIN loans : loans[i].collateral = c => loans[i].amount = 0)
      => ~IsCollateralPledged(c)
=============================================================================

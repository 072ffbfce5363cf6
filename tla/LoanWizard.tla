---------------------------- MODULE LoanWizard ----------------------------
(***************************************************************************)
(* The loan wizard: context/LoanWizardContext.tsx and the four steps in    *)
(* components/wizard/steps.  Every change of the wizard's state is written *)
(* to localStorage and read back when the page is loaded again; the        *)
(* requests in flight, and the loan that was made, are not.                *)
(*                                                                         *)
(* The item list of StepCollateral.tsx, which is not closed and has no     *)
(* counterpart in the context, is left out: the step is taken as its two   *)
(* inputs and handleRegister.                                              *)
(***************************************************************************)
EXTENDS Integers

CONSTANTS
  Values,      \* appraised values; 0: none, or not positive
  Amounts,     \* loan amounts; 0: none, or not positive
  MaxIds,      \* bound: collaterals registered
  MaxReloads   \* bound: reloads of the page

ASSUME LoanWizardAssumption ==
  /\ {0} \subseteq Values /\ {0} \subseteq Amounts
  /\ Values \cup Amounts \cup {MaxIds, MaxReloads} \subseteq Nat

VARIABLES
  wizard,      \* the state of the context, and of localStorage
  flight,      \* what this load of the page waits for
  disbursed,   \* the last step shows the loan that was made
  registered,  \* collateral id -> its value on the ledger; 0: not used yet
  requested,   \* the loans on the ledger, each with its collateral's id
  reloads

wizardVars == <<wizard, flight, disbursed, registered, requested, reloads>>

Ids == 1..MaxIds

WizardState ==
  [step : 1..4, appraisedValue : Values, collateralId : 0..MaxIds,
   loanAmount : Amounts, loading : BOOLEAN, error : BOOLEAN]

Defaults ==
  [step |-> 1, appraisedValue |-> 0, collateralId |-> 0,
   loanAmount |-> 0, loading |-> FALSE, error |-> FALSE]

LoanWizardTypeOK ==
  /\ wizard \in WizardState
  /\ flight \in {"nothing", "registration", "request"}
  /\ disbursed \in BOOLEAN
  /\ registered \in [Ids -> Values]
  /\ requested \subseteq [id : 0..MaxIds, amount : Amounts]
  /\ reloads \in 0..MaxReloads

LoanWizardInit ==
  /\ wizard = Defaults
  /\ flight = "nothing" /\ disbursed = FALSE
  /\ registered = [i \in Ids |-> 0]
  /\ requested = {}
  /\ reloads = 0

-----------------------------------------------------------------------------
(* The context and its first three steps.                                  *)

CanProceed(w) ==
  CASE w.step = 1 -> w.appraisedValue > 0
    [] w.step = 2 -> w.loanAmount > 0
    [] OTHER -> TRUE

\* nextStep, which checks the state the handler was rendered with.
NextStep(w) ==
  IF CanProceed(wizard)
  THEN [w EXCEPT !.step = IF @ < 4 THEN @ + 1 ELSE 4, !.error = FALSE]
  ELSE w

Edits(w) == wizard' = w /\ UNCHANGED <<flight, disbursed, registered, requested, reloads>>

\* "Back", which the last step disables while it submits.
PrevStep ==
  /\ wizard.step > 1 /\ flight = "nothing" /\ ~disbursed
  /\ Edits([wizard EXCEPT !.step = @ - 1, !.error = FALSE])

SetValue(v) ==
  /\ wizard.step = 1 /\ ~wizard.loading
  /\ Edits([wizard EXCEPT !.appraisedValue = v])

SetAmount(a) ==
  /\ wizard.step = 2
  /\ Edits([wizard EXCEPT !.loanAmount = a])

\* 70 % of the value.
MaxLoan(v) == (v * 7) \div 10

\* Mutant: "Review Terms" only asks the context whether it may proceed.
AmountPositive == wizard.loanAmount > 0

AmountValid == wizard.loanAmount > 0 /\ wizard.loanAmount <= MaxLoan(wizard.appraisedValue)

ReviewTerms ==
  /\ wizard.step = 2
  /\ Edits(IF AmountValid THEN NextStep(wizard) ELSE [wizard EXCEPT !.error = TRUE])

ConfirmTerms == wizard.step = 3 /\ Edits(NextStep(wizard))

-----------------------------------------------------------------------------
(* The collateral is registered.                                           *)

HandleRegister ==
  /\ wizard.step = 1 /\ ~wizard.loading
  /\ IF wizard.appraisedValue > 0
     THEN /\ wizard' = [wizard EXCEPT !.loading = TRUE, !.error = FALSE]
          /\ flight' = "registration"
     ELSE /\ wizard' = [wizard EXCEPT !.error = TRUE]
          /\ UNCHANGED flight
  /\ UNCHANGED <<disbursed, registered, requested, reloads>>

\* The ledger gives the collateral the next id.
OnLedger(i) ==
  /\ registered[i] = 0 /\ \A j \in 1..i - 1 : registered[j] # 0
  /\ registered' = [registered EXCEPT ![i] = wizard.appraisedValue]

Registered(i) ==
  /\ flight = "registration"
  /\ OnLedger(i)
  /\ wizard' = [NextStep([wizard EXCEPT !.collateralId = i]) EXCEPT !.loading = FALSE]
  /\ flight' = "nothing"
  /\ UNCHANGED <<disbursed, requested, reloads>>

WizardRegistrationFails ==
  /\ flight = "registration"
  /\ wizard' = [wizard EXCEPT !.error = TRUE, !.loading = FALSE]
  /\ flight' = "nothing"
  /\ UNCHANGED <<disbursed, registered, requested, reloads>>

-----------------------------------------------------------------------------
(* The loan is requested.                                                  *)

HandleSubmit ==
  /\ wizard.step = 4 /\ flight = "nothing" /\ ~disbursed
  /\ wizard' = [wizard EXCEPT !.error = FALSE]
  /\ flight' = "request"
  /\ UNCHANGED <<disbursed, registered, requested, reloads>>

Disbursed ==
  /\ flight = "request"
  /\ requested' = requested \cup {[id |-> wizard.collateralId, amount |-> wizard.loanAmount]}
  /\ disbursed' = TRUE
  /\ flight' = "nothing"
  /\ UNCHANGED <<wizard, registered, reloads>>

RequestFails ==
  /\ flight = "request"
  /\ wizard' = [wizard EXCEPT !.error = TRUE]
  /\ flight' = "nothing"
  /\ UNCHANGED <<disbursed, registered, requested, reloads>>

\* "Request Another Loan".
Reset ==
  /\ disbursed
  /\ wizard' = Defaults /\ disbursed' = FALSE
  /\ UNCHANGED <<flight, registered, requested, reloads>>

\* The page is loaded again: the state comes back as it was, "loading" too,
\* and nobody waits for the request, which the ledger may still carry out.
ReloadPage ==
  /\ reloads < MaxReloads /\ reloads' = reloads + 1
  /\ flight' = "nothing" /\ disbursed' = FALSE
  /\ \/ UNCHANGED <<registered, requested>>
     \/ /\ flight = "registration"
        /\ \E i \in Ids : OnLedger(i)
        /\ UNCHANGED requested
     \/ /\ flight = "request"
        /\ requested' = requested \cup {[id |-> wizard.collateralId, amount |-> wizard.loanAmount]}
        /\ UNCHANGED registered
  /\ UNCHANGED wizard

LoanWizardNext ==
  \/ PrevStep \/ ReviewTerms \/ ConfirmTerms
  \/ \E v \in Values : SetValue(v)
  \/ \E a \in Amounts : SetAmount(a)
  \/ HandleRegister \/ WizardRegistrationFails
  \/ \E i \in Ids : Registered(i)
  \/ HandleSubmit \/ Disbursed \/ RequestFails \/ Reset
  \/ ReloadPage

LoanWizardSpec == LoanWizardInit /\ [][LoanWizardNext]_wizardVars

-----------------------------------------------------------------------------
(* Properties.                                                             *)

\* Whatever the user goes back to, edits again, registers anew or reloads,
\* the ledger is only asked for loans of at most 70 % of the value registered
\* under the collateral id they pledge.
LoansCovered == \A l \in requested : l.id \in Ids /\ l.amount <= MaxLoan(registered[l.id])
=============================================================================

----------------------------- MODULE FormDrafts -----------------------------
(***************************************************************************)
(* The draft of the collateral form                                        *)
(* (frontend/src/components/CollateralRegistrationForm.tsx; the hook       *)
(* useFormAutoSave.ts does the same for other forms): saved every five     *)
(* seconds under one key of localStorage, which the tabs of all accounts   *)
(* share, and offered to the account it was saved for.                     *)
(***************************************************************************)
EXTENDS Integers, Sequences

CONSTANTS
  Tabs, Accounts,
  MaxTexts,      \* bound: texts ever typed
  Nought         \* an empty form; nothing saved

ASSUME FormDraftsAssumption == MaxTexts \in Nat /\ Nought \notin 1 .. MaxTexts

VARIABLES
  heldFor,   \* text -> the accounts it was typed or saved for
  tab,       \* tab -> its account, its form and whether it offers a draft
  saved      \* the entry in localStorage: account and text

draftVars == <<heldFor, tab, saved>>

Texts == 1 .. MaxTexts

\* crossed is history: a tab of another account has saved since the offer.
TabState == [account : Accounts, form : Texts \cup {Nought}, offer : BOOLEAN,
             submitting : BOOLEAN, crossed : BOOLEAN]

DraftsTypeOK ==
  /\ heldFor \in Seq(SUBSET Accounts) /\ Len(heldFor) <= MaxTexts
  /\ tab \in [Tabs -> TabState]
  /\ saved \in [account : Accounts, text : Texts] \cup {Nought}

Blank(a, offer) ==
  [account |-> a, form |-> Nought, offer |-> offer, submitting |-> FALSE,
   crossed |-> FALSE]

DraftsInit ==
  /\ heldFor = <<>> /\ saved = Nought
  /\ tab \in [Tabs -> {Blank(a, FALSE) : a \in Accounts}]

-----------------------------------------------------------------------------
\* Mutant: whatever was saved is offered.
OfferedToAll(a) == saved # Nought

Offered(a) == saved # Nought /\ saved.account = a

\* The page is loaded for an account.
OpenForm(t, a) ==
  /\ tab' = [tab EXCEPT ![t] = Blank(a, Offered(a))]
  /\ UNCHANGED <<heldFor, saved>>

\* useWallet restores another account late: the form and the offer stay.
SwitchAccount(t, a) ==
  /\ a # tab[t].account
  /\ tab' = [tab EXCEPT ![t].account = a, ![t].offer = @ \/ Offered(a),
                        ![t].crossed = TRUE]
  /\ UNCHANGED <<heldFor, saved>>

\* The inputs are disabled during a registration.
TypeText(t) ==
  /\ Len(heldFor) < MaxTexts /\ ~tab[t].submitting
  /\ heldFor' = Append(heldFor, {tab[t].account})
  /\ tab' = [tab EXCEPT ![t].form = Len(heldFor) + 1]
  /\ UNCHANGED saved

\* Five seconds without a change: an unanswered offer does not hold it up.
AutoSave(t) ==
  /\ tab[t].form # Nought
  /\ saved' = [account |-> tab[t].account, text |-> tab[t].form]
  /\ tab' = [u \in Tabs |->
       IF tab[u].account # tab[t].account THEN [tab[u] EXCEPT !.crossed = TRUE] ELSE tab[u]]
  /\ heldFor' = [heldFor EXCEPT ![tab[t].form] = @ \cup {tab[t].account}]

\* restoreSavedData takes what is there by now, for whichever account.
RestoreDraft(t) ==
  /\ tab[t].offer /\ saved # Nought
  /\ tab' = [tab EXCEPT ![t].form = saved.text, ![t].offer = FALSE]
  /\ UNCHANGED <<heldFor, saved>>

DismissDraft(t) ==
  /\ tab[t].offer
  /\ tab' = [tab EXCEPT ![t].offer = FALSE]
  /\ saved' = Nought
  /\ UNCHANGED heldFor

\* The dialog is confirmed.
SubmitForm(t) ==
  /\ tab[t].form # Nought /\ ~tab[t].submitting
  /\ tab' = [tab EXCEPT ![t].submitting = TRUE]
  /\ UNCHANGED <<heldFor, saved>>

RegistrationFails(t) ==
  /\ tab[t].submitting
  /\ tab' = [tab EXCEPT ![t].submitting = FALSE]
  /\ UNCHANGED <<heldFor, saved>>

\* The form is emptied, and the draft removed, whosever it is.
RegistrationSucceeds(t) ==
  /\ tab[t].submitting
  /\ tab' = [tab EXCEPT ![t].submitting = FALSE, ![t].form = Nought]
  /\ saved' = Nought
  /\ UNCHANGED heldFor

DraftsNext ==
  \E t \in Tabs :
    \/ \E a \in Accounts : OpenForm(t, a) \/ SwitchAccount(t, a)
    \/ TypeText(t) \/ AutoSave(t) \/ RestoreDraft(t) \/ DismissDraft(t)
    \/ SubmitForm(t) \/ RegistrationFails(t) \/ RegistrationSucceeds(t)

DraftsSpec == DraftsInit /\ [][DraftsNext]_draftVars

-----------------------------------------------------------------------------
(* Properties.                                                             *)

\* A form registers what was typed or saved for its own account, whatever
\* drafts other tabs have left and however often the page was loaded: but for
\* a tab that changed its account, or another account's save after the page
\* was loaded.
OwnDraftOnly ==
  \A t \in Tabs :
    tab[t].submitting => tab[t].account \in heldFor[tab[t].form] \/ tab[t].crossed
=============================================================================

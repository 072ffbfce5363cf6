------------------------------ MODULE Frontend ------------------------------
(***************************************************************************)
(* The parts of the frontend that share no state with one another: the     *)
(* submission of a transaction, the wallet connection, the screens that    *)
(* fetch what is selected, the draft of the collateral form, the lists     *)
(* with their filters and pages, the loan wizard, the toasts, the dialogs, *)
(* the preferences, the converted amounts and the animated counters.       *)
(*                                                                         *)
(* As in Backend, a behaviour follows one part and leaves the others as    *)
(* they start.                                                             *)
(***************************************************************************)
EXTENDS Submissions, WalletSession, Screens, FormDrafts, ListViews, LoanWizard,
        Toasts, Dialogs, Preferences, Rates, Counters

VARIABLE side   \* the part that is followed

Sides == {"submissions", "wallets", "screens", "drafts", "lists", "wizard",
          "toasts", "dialogs", "preferences", "rates", "counters"}

FrontendInit ==
  /\ side \in Sides
  /\ SubmissionsInit /\ WalletsInit /\ ScreensInit /\ DraftsInit
  /\ ListViewsInit /\ LoanWizardInit /\ ToastsInit /\ DialogsInit
  /\ PreferencesInit /\ RatesInit /\ CountersInit
  /\ panel = "plain" \/ side = "submissions"
  /\ account = (CHOOSE w \in Wallets : TRUE) \/ side = "wallets"
  /\ screen = "once" \/ side = "screens"
  /\ tab = [t \in Tabs |-> Blank(CHOOSE a \in Accounts : TRUE, FALSE)] \/ side = "drafts"
  /\ listView = "filtered" \/ side = "lists"
  /\ stack = "plain" \/ side = "toasts"
  /\ (pane = "theme" /\ ~system) \/ side = "preferences"
  /\ (amount = 0 /\ reduced) \/ side = "counters"

Beside(s) ==
  /\ s # "submissions" => UNCHANGED submissionVars
  /\ s # "wallets" => UNCHANGED walletVars
  /\ s # "screens" => UNCHANGED screenVars
  /\ s # "drafts" => UNCHANGED draftVars
  /\ s # "lists" => UNCHANGED listVars
  /\ s # "wizard" => UNCHANGED wizardVars
  /\ s # "toasts" => UNCHANGED toastVars
  /\ s # "dialogs" => UNCHANGED dialogVars
  /\ s # "preferences" => UNCHANGED preferenceVars
  /\ s # "rates" => UNCHANGED rateVars
  /\ s # "counters" => UNCHANGED counterVars

On(s) == side = s /\ UNCHANGED side /\ Beside(s)

FrontendNext ==
  \/ SubmissionsNext /\ On("submissions")
  \/ WalletsNext /\ On("wallets")
  \/ ScreensNext /\ On("screens")
  \/ DraftsNext /\ On("drafts")
  \/ ListViewsNext /\ On("lists")
  \/ LoanWizardNext /\ On("wizard")
  \/ ToastsNext /\ On("toasts")
  \/ DialogsNext /\ On("dialogs")
  \/ PreferencesNext /\ On("preferences")
  \/ RatesNext /\ On("rates")
  \/ CountersNext /\ On("counters")

frontendVars ==
  <<side, submissionVars, walletVars, screenVars, draftVars, listVars, wizardVars,
    toastVars, dialogVars, preferenceVars, rateVars, counterVars>>

FrontendSpec ==
  FrontendInit /\ [][FrontendNext]_frontendVars /\ ScreensFairness /\ ToastsFairness
=============================================================================

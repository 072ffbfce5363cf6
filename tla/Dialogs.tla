------------------------------ MODULE Dialogs ------------------------------
(***************************************************************************)
(* The dialogs of the frontend in several tabs of one browser: the guide   *)
(* for new users (hooks/useOnboarding.ts, OnboardingModal.tsx), which is   *)
(* shown until it has been finished or skipped once, the panel of keyboard *)
(* shortcuts, and ui/Modal.tsx with the dialogs built from it, which keep  *)
(* the page below from scrolling.                                          *)
(*                                                                         *)
(* No caller of useOnboarding passes a wallet, so that the guide is shown  *)
(* without asking the backend for loans.                                   *)
(***************************************************************************)
EXTENDS Integers

CONSTANTS
  Windows,   \* the tabs of the browser
  Steps      \* the steps of the guide: 3

ASSUME DialogsAssumption == Steps \in Nat \ {0}

VARIABLES
  browser,     \* tab -> what it shows
  completed,   \* localStorage: stellarkraal_onboarding_completed
  done         \* history: the guide was finished or skipped, since a reset

dialogVars == <<browser, completed, done>>

Guided == {"dashboard", "demo"}
Places == Guided \cup {"home", "borrow", "modals"}

\* The Modals that keep the page from scrolling; "liquidation" is the one
\* that is mounted open.
Scrolling == {"basic", "confirm", "liquidation"}

Window == [place : Places, guide : BOOLEAN, step : 1..Steps, menu : BOOLEAN,
           help : BOOLEAN, modal : Scrolling \cup {"none"}, locked : BOOLEAN,
           typing : BOOLEAN]

DialogsTypeOK ==
  browser \in [Windows -> Window] /\ {completed, done} \subseteq BOOLEAN

Fresh(p) ==
  [place |-> p, guide |-> p \in Guided /\ ~completed, step |-> 1, menu |-> FALSE,
   help |-> FALSE, modal |-> "none", locked |-> FALSE, typing |-> FALSE]

DialogsInit ==
  /\ completed = FALSE /\ done = FALSE
  /\ browser = [w \in Windows |-> Fresh("home")]

-----------------------------------------------------------------------------
InDialog(w) ==
  LET b == browser[w] IN b.guide \/ b.help \/ b.modal # "none"

Becomes(w, b) == browser' = [browser EXCEPT ![w] = b] /\ UNCHANGED <<completed, done>>

\* The page is left for another: the cleanup of Modal runs, and the effect of
\* useOnboarding.  The panel of shortcuts is part of the layout and stays.
Unmount(b, p) == [Fresh(p) EXCEPT !.help = b.help]

\* A link, which a dialog covers.
FollowNavLink(w, p) ==
  ~InDialog(w) /\ p # browser[w].place /\ Becomes(w, Unmount(browser[w], p))

\* The buttons of the browser, which no dialog covers.
GoBack(w, p) == p # browser[w].place /\ Becomes(w, Unmount(browser[w], p))

Refresh(w) == Becomes(w, Fresh(browser[w].place))

FocusField(w) ==
  /\ ~InDialog(w) /\ browser[w].place \in Guided \cup {"borrow"}
  /\ Becomes(w, [browser[w] EXCEPT !.typing = ~@])

\* A shortcut is not taken in a field or while any dialog is open: a "?" opens
\* the panel and never closes it, and Escape has nothing to close.
Shortcut(w, key) ==
  LET b == browser[w]
  IN /\ ~b.typing /\ ~InDialog(w)
     /\ Becomes(w, CASE key = "?" -> [b EXCEPT !.help = ~@]
                     [] key = "h" -> Unmount(b, "home")
                     [] key \in {"d", "r"} -> Unmount(b, "dashboard")
                     [] key = "b" -> Unmount(b, "borrow")
                     [] key = "Escape" -> [b EXCEPT !.help = FALSE])

CloseHelp(w) == browser[w].help /\ Becomes(w, [browser[w] EXCEPT !.help = FALSE])

-----------------------------------------------------------------------------
(* ui/Modal.tsx, on the page of the borrower's collateral and on the page  *)
(* that shows the dialogs.                                                 *)

OpenModal(w, m) ==
  LET b == browser[w]
  IN /\ ~InDialog(w)
     /\ b.place = "modals" \/ (b.place = "borrow" /\ m = "confirm")
     /\ Becomes(w, [b EXCEPT !.modal = m, !.locked = TRUE])

\* The cross, Escape, the backdrop, and the buttons of the dialog.
CloseModal(w) ==
  /\ browser[w].modal # "none"
  /\ Becomes(w, [browser[w] EXCEPT !.modal = "none", !.locked = FALSE])

-----------------------------------------------------------------------------
(* The guide.                                                              *)

\* The help menu of the dashboard and the demo, or the buttons of the pages
\* that show the guide.
ToggleMenu(w) ==
  /\ ~InDialog(w) /\ browser[w].place \in Guided
  /\ Becomes(w, [browser[w] EXCEPT !.menu = ~@])

OpenOnboarding(w) ==
  LET b == browser[w]
  IN /\ ~InDialog(w)
     /\ b.menu \/ b.place \in {"demo", "modals"}
     /\ Becomes(w, [b EXCEPT !.guide = TRUE, !.step = 1, !.menu = FALSE])

\* Escape only closes the guide: it comes back with the next visit.
CloseOnboarding(w) == browser[w].guide /\ Becomes(w, [browser[w] EXCEPT !.guide = FALSE])

NextOfGuide(w) ==
  /\ browser[w].guide /\ browser[w].step < Steps
  /\ Becomes(w, [browser[w] EXCEPT !.step = @ + 1])

\* Mutant: the guide is only remembered once it has been read to its end.
CompletedAtEnd(b) == completed \/ b.step = Steps

\* handleSkip and handleComplete write the same.
Completed(b) == TRUE

HandleSkip(w) ==
  /\ browser[w].guide
  /\ completed' = Completed(browser[w]) /\ done' = TRUE
  /\ browser' = [browser EXCEPT ![w].guide = FALSE]

\* The last button: handleComplete, and the page of the loans.
HandlePrimaryAction(w) ==
  /\ browser[w].guide /\ browser[w].step = Steps
  /\ completed' = Completed(browser[w]) /\ done' = TRUE
  /\ browser' = [browser EXCEPT ![w] =
       Unmount(browser[w], "borrow")]

\* "Reset Demo" forgets; the guide is shown again when a page is visited.
ResetDemo(w) ==
  /\ ~InDialog(w) /\ browser[w].place = "demo"
  /\ completed' = FALSE /\ done' = FALSE
  /\ UNCHANGED browser

DialogsNext ==
  \E w \in Windows :
    \/ \E p \in Places : FollowNavLink(w, p) \/ GoBack(w, p)
    \/ Refresh(w) \/ FocusField(w)
    \/ \E key \in {"?", "h", "d", "r", "b", "Escape"} : Shortcut(w, key)
    \/ CloseHelp(w)
    \/ \E m \in Scrolling : OpenModal(w, m)
    \/ CloseModal(w) \/ ToggleMenu(w) \/ OpenOnboarding(w) \/ CloseOnboarding(w)
    \/ NextOfGuide(w) \/ HandleSkip(w) \/ HandlePrimaryAction(w) \/ ResetDemo(w)

DialogsSpec == DialogsInit /\ [][DialogsNext]_dialogVars

-----------------------------------------------------------------------------
(* Properties.                                                             *)

\* A guide that was finished or skipped, in whichever tab, opens in no tab
\* unless it is asked for: what the user finds after it is their own doing.
GuideLeftAlone ==
  [][ done /\ done' =>
        \A w \in Windows :
          ~browser[w].guide /\ browser'[w].guide => OpenOnboarding(w) ]_dialogVars
=============================================================================

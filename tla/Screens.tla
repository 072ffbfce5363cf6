------------------------------ MODULE Screens ------------------------------
(***************************************************************************)
(* What a screen of the frontend shows of the subject the user selected: a *)
(* loan, a repayment, an account.  Requests are neither cancelled nor told *)
(* apart when they are answered: the last answer to arrive is shown.       *)
(*                                                                         *)
(* "polled": hooks/useHealthFactor.ts asks at once and every 30 seconds,   *)
(* "debounced": components/LoanRepaymentCalculator.tsx asks 300 ms after   *)
(* the last input, "once": TransactionHistory.tsx and "profile": the       *)
(* profile page ask when the account changes.                              *)
(***************************************************************************)
EXTENDS Integers

CONSTANTS
  Subjects,
  Fetches,    \* bound: requests in flight
  NoData      \* nothing selected, shown or asked for

\* later: the requests in flight that were made after this one; late: one of
\* those has ended before it.
Fetch == [subject : Subjects, later : SUBSET Fetches, late : BOOLEAN]

ASSUME ScreensAssumption == NoData \notin Subjects /\ NoData \notin Fetch

VARIABLES
  screen,     \* "polled", "debounced", "once" or "profile"
  selected,
  shown,      \* the subject of what is shown
  armed,      \* the debounce timer
  fetching,   \* request -> its subject, and its place among the others
  failed,     \* an error is told beside what is shown
  overtaken   \* history: an answer came after one to a later request

screenVars == <<screen, selected, shown, armed, fetching, failed, overtaken>>

ScreenKinds == {"polled", "debounced", "once", "profile"}

ScreensTypeOK ==
  /\ screen \in ScreenKinds
  /\ {selected, shown} \subseteq Subjects \cup {NoData}
  /\ armed \in BOOLEAN
  /\ fetching \in [Fetches -> Fetch \cup {NoData}]
  /\ {failed, overtaken} \subseteq BOOLEAN

ScreensInit ==
  /\ screen \in ScreenKinds
  /\ selected = NoData /\ shown = NoData
  /\ armed = FALSE
  /\ fetching = [f \in Fetches |-> NoData]
  /\ failed = FALSE /\ overtaken = FALSE

-----------------------------------------------------------------------------
Ask(f, s) ==
  /\ fetching[f] = NoData
  /\ fetching' = [g \in Fetches |->
       CASE g = f -> [subject |-> s, later |-> {}, late |-> FALSE]
         [] g # f /\ fetching[g] = NoData -> NoData
         [] OTHER -> [fetching[g] EXCEPT !.later = @ \cup {f}]]
  /\ failed' = FALSE

\* The user selects: the effect of the hook runs.
Select(s) ==
  /\ s # selected
  /\ selected' = s
  /\ IF screen = "debounced"
     THEN armed' = TRUE /\ UNCHANGED <<fetching, failed>>
     ELSE armed' = FALSE /\ \E f \in Fetches : Ask(f, s)
  /\ UNCHANGED <<screen, shown, overtaken>>

\* An empty or unusable input: the calculator clears its preview and its timer.
Deselect ==
  /\ selected # NoData
  /\ selected' = NoData
  /\ armed' = FALSE
  /\ IF screen = "debounced" THEN shown' = NoData /\ failed' = FALSE
                              ELSE UNCHANGED <<shown, failed>>
  /\ UNCHANGED <<screen, fetching, overtaken>>

\* Mutant: the callback is the one of what was selected before.
WantedBefore == IF shown # NoData THEN shown ELSE selected

Wanted == selected

\* 300 ms without an input.
DebounceFires ==
  /\ armed
  /\ armed' = FALSE
  /\ \E f \in Fetches : Ask(f, Wanted)
  /\ UNCHANGED <<screen, selected, shown, overtaken>>

\* The interval, when the tab is visible, or the tab becomes visible.
Poll30 ==
  /\ screen = "polled" /\ selected # NoData
  /\ \E f \in Fetches : Ask(f, Wanted)
  /\ UNCHANGED <<screen, selected, shown, armed, overtaken>>

\* The button under the error of the transaction history.
RetryFetch ==
  /\ screen = "once" /\ failed /\ selected # NoData
  /\ \A f \in Fetches : fetching[f] = NoData
  /\ \E f \in Fetches : Ask(f, Wanted)
  /\ UNCHANGED <<screen, selected, shown, armed, overtaken>>

Ends(f) ==
  /\ fetching[f] # NoData
  /\ fetching' = [g \in Fetches |->
       IF g = f \/ fetching[g] = NoData THEN NoData
       ELSE [fetching[g] EXCEPT !.later = @ \ {f}, !.late = @ \/ f \in fetching[g].later]]
  /\ overtaken' = (overtaken \/ fetching[f].late)
  /\ UNCHANGED <<screen, selected, armed>>

FetchAnswered(f) ==
  Ends(f) /\ shown' = fetching[f].subject /\ UNCHANGED failed

\* The hook keeps the last health factor, of whichever loan, and the profile
\* page the last profile, under the error; the others clear what they show.
FetchFails(f) ==
  /\ Ends(f)
  /\ failed' = TRUE
  /\ shown' = IF screen \in {"polled", "profile"} THEN shown ELSE NoData

ScreensNext ==
  \/ \E s \in Subjects : Select(s)
  \/ Deselect \/ DebounceFires \/ Poll30 \/ RetryFetch
  \/ \E f \in Fetches : FetchAnswered(f) \/ FetchFails(f)

\* A tab is looked at again and again, and requests are answered.
ScreensFairness ==
  /\ WF_screenVars(Poll30) /\ \A f \in Fetches : SF_screenVars(FetchAnswered(f))

ScreensSpec == ScreensInit /\ [][ScreensNext]_screenVars /\ ScreensFairness

-----------------------------------------------------------------------------
(* Properties.                                                             *)

\* When all requests have ended, a screen that does not poll shows what is
\* selected or nothing, unless an answer was overtaken by one to a later
\* request, or the profile page tells of an error.
StaleOnlyIfOvertaken ==
  screen # "polled" /\ (\A f \in Fetches : fetching[f] = NoData) /\ ~armed /\ selected # NoData
    => \/ shown \in {selected, NoData} \/ overtaken
       \/ screen = "profile" /\ failed

\* Polling puts that right: once the user leaves the selection alone, the
\* health factor shown is in the end that of the selected loan, for good.
PolledScreenSettles ==
  <>[](screen = "polled" /\ selected # NoData) /\ <>[][UNCHANGED selected]_screenVars
    => <>[](shown = selected)
=============================================================================

------------------------------- MODULE Toasts -------------------------------
(***************************************************************************)
(* The two stacks of toasts of the frontend: components/toast ("plain"),   *)
(* which the layout mounts, and context/ToastContext.tsx ("limited"),      *)
(* which shows three at a time and means to queue the others.              *)
(***************************************************************************)
EXTENDS Integers, FiniteSets

CONSTANTS
  ToastIds,
  MaxVisible   \* 3

ASSUME ToastsAssumption == MaxVisible \in Nat \ {0}

VARIABLES
  stack,      \* "plain" or "limited"
  raised,     \* the toasts so far
  visible,
  exiting,    \* plain: those that fade out, to be removed in 300 ms
  expiring,   \* limited: those whose timer runs
  announced   \* limited: what the live region reads; {} or one toast

toastVars == <<stack, raised, visible, exiting, expiring, announced>>

ToastsTypeOK ==
  /\ stack \in {"plain", "limited"}
  /\ raised \subseteq ToastIds
  /\ {visible, exiting, expiring, announced} \subseteq SUBSET raised

ToastsInit ==
  /\ stack \in {"plain", "limited"}
  /\ raised = {} /\ visible = {} /\ exiting = {} /\ expiring = {} /\ announced = {}

-----------------------------------------------------------------------------
AddToast(t) ==
  /\ stack = "plain"
  /\ visible' = visible \cup {t}
  /\ UNCHANGED <<exiting, expiring, announced>>

\* The toast is taken out of the queue in the call that puts it there, shown
\* or not: flushQueue never finds one.
Toast(t) ==
  /\ stack = "limited"
  /\ visible' = IF Cardinality(visible) >= MaxVisible THEN visible ELSE visible \cup {t}
  /\ announced' = IF visible' # visible THEN {t} ELSE announced
  /\ expiring' = expiring \cup {t}
  /\ UNCHANGED exiting

Raise(t) ==
  /\ t \notin raised /\ raised' = raised \cup {t}
  /\ AddToast(t) \/ Toast(t)
  /\ UNCHANGED stack

Leaves(t) ==
  /\ visible' = visible \ {t}
  /\ UNCHANGED <<stack, raised>>

\* A click on the cross or the end of the four seconds, as often as they come.
HandleDismiss(t) ==
  /\ stack = "plain" /\ t \in visible
  /\ exiting' = exiting \cup {t}
  /\ UNCHANGED <<stack, raised, visible, expiring, announced>>

RemoveToast(t) ==
  /\ t \in exiting
  /\ Leaves(t)
  /\ exiting' = exiting \ {t}
  /\ UNCHANGED <<expiring, announced>>

\* Mutant: a dismissal leaves the list as it was, and only stops the timer.
DismissTimerOnly(t) ==
  /\ expiring' = expiring \ {t}
  /\ UNCHANGED <<stack, raised, visible, exiting, announced>>

\* The live region keeps the words of a toast that has gone, until another is
\* the last of the list; the list is a set here, so that any may be.
Dismiss(t) ==
  /\ Leaves(t)
  /\ expiring' = expiring \ {t}
  /\ announced' \in {announced} \cup {{u} : u \in visible'}
  /\ UNCHANGED exiting

CloseToast(t) == stack = "limited" /\ t \in visible /\ Dismiss(t)

ToastExpires(t) == t \in expiring /\ Dismiss(t)

ToastsNext ==
  \E t \in ToastIds :
    Raise(t) \/ HandleDismiss(t) \/ RemoveToast(t) \/ CloseToast(t) \/ ToastExpires(t)

\* Timers fire.
ToastsFairness ==
  \A t \in ToastIds :
    /\ WF_toastVars(HandleDismiss(t)) /\ WF_toastVars(RemoveToast(t))
    /\ WF_toastVars(ToastExpires(t))

ToastsSpec == ToastsInit /\ [][ToastsNext]_toastVars /\ ToastsFairness

-----------------------------------------------------------------------------
(* Properties.                                                             *)

\* No toast stays: however dismissals and timers overlap, what is shown goes,
\* and a toast that found the stack full takes no other's place.
ToastsLeave == \A t \in ToastIds : t \in raised ~> [](t \notin visible)
=============================================================================

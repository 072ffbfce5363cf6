------------------------------ MODULE Counters ------------------------------
(***************************************************************************)
(* A number that counts up to its value                                    *)
(* (frontend/src/components/AnimatedCounter.tsx), as on the cards of       *)
(* LoanSummaryCards.tsx.  An animation starts from the value the last      *)
(* finished one ended at; a change of the value cancels the one under way. *)
(***************************************************************************)
EXTENDS Integers

CONSTANTS
  CounterAmounts, \* values the counter is given
  Frames,      \* frames of an animation
  NoFrame      \* no frame is requested

Animation == [from : CounterAmounts, to : CounterAmounts, progress : 0..Frames]

ASSUME CountersAssumption ==
  /\ CounterAmounts \subseteq Nat /\ 0 \in CounterAmounts /\ Frames \in Nat \ {0}
  /\ NoFrame \notin Animation

VARIABLES
  amount,      \* the value the counter was last rendered with
  displayed,
  settledAt,   \* prevValueRef
  frame,       \* the animation whose next frame is requested, or NoFrame
  reduced,     \* prefers-reduced-motion
  cameBack     \* history: the value went back to settledAt under an animation

counterVars == <<amount, displayed, settledAt, frame, reduced, cameBack>>

CountersTypeOK ==
  /\ {amount, settledAt} \subseteq CounterAmounts /\ displayed \in Nat
  /\ frame \in Animation \cup {NoFrame}
  /\ {reduced, cameBack} \subseteq BOOLEAN

\* The effect: nothing to do when the value is the one settled at.
Animated(from, to) ==
  IF from = to THEN NoFrame ELSE [from |-> from, to |-> to, progress |-> 0]

CountersInit ==
  /\ amount \in CounterAmounts /\ reduced \in BOOLEAN
  /\ displayed = (IF reduced THEN amount ELSE 0)
  /\ settledAt = displayed
  /\ frame = Animated(settledAt, amount)
  /\ cameBack = FALSE

-----------------------------------------------------------------------------
\* Another value: the cleanup of the effect, then the effect.
Rerender(v) ==
  /\ v # amount
  /\ amount' = v
  /\ IF reduced
     THEN displayed' = v /\ settledAt' = v /\ UNCHANGED <<frame, cameBack>>
     ELSE /\ frame' = Animated(settledAt, v)
          /\ cameBack' = (settledAt = v /\ frame # NoFrame)
          /\ UNCHANGED <<displayed, settledAt>>
  /\ UNCHANGED reduced

\* Mutant: a finished animation leaves prevValueRef as it is.
SettledBefore(a) == settledAt

Settled(a) == IF a.progress = Frames THEN a.to ELSE settledAt

\* How far an animation has come; its easing is left out.
Shown(a) == a.from + ((a.to - a.from) * a.progress) \div Frames

\* The first frame shows the start; the last one shows the value.
TickFrame ==
  /\ frame # NoFrame
  /\ displayed' = Shown(frame)
  /\ settledAt' = Settled(frame)
  /\ frame' = IF frame.progress = Frames THEN NoFrame
              ELSE [frame EXCEPT !.progress = @ + 1]
  /\ UNCHANGED <<amount, reduced, cameBack>>

CountersNext == TickFrame \/ \E v \in CounterAmounts : Rerender(v)

CountersSpec == CountersInit /\ [][CountersNext]_counterVars

-----------------------------------------------------------------------------
(* Properties.                                                             *)

\* A counter at rest shows its value, however the value changed under the
\* animations before; only when it went back to where the last animation had
\* ended, no animation brings it there and a number in between stays.
CounterSettles == frame = NoFrame => displayed = amount \/ cameBack
=============================================================================

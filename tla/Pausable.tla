------------------------------ MODULE Pausable ------------------------------
(***************************************************************************)
(* The ledger clock and the emergency pause of contracts/stellarkraal.     *)
(* A pause carries an expiry timestamp and lapses by itself: the stored    *)
(* flag stays set and is_paused_raw compares the clock with the expiry.    *)
(* Modules Lending and Governance extend this module.                      *)
(***************************************************************************)
EXTENDS Integers

CONSTANTS
  MaxTime,            \* bound: the last ledger timestamp explored
  MaxPauseDuration,   \* MAX_PAUSE_DURATION
  DefaultPause,       \* the duration used before set_pause_duration is called
  PauseDurations      \* inputs: durations an admin may try to set

ASSUME PausableAssumption ==
  /\ MaxTime \in Nat \ {0}
  /\ MaxPauseDuration \in Nat
  /\ DefaultPause \in Nat
  /\ PauseDurations \subseteq Nat

VARIABLES
  now,        \* env.ledger().timestamp()
  paused,     \* PAUSED
  pauseExp,   \* PAUSE_EXP, 0 when never set or cleared
  pauseDur    \* PAUSE_DUR

pauseVars == <<paused, pauseExp, pauseDur>>

PausableTypeOK ==
  /\ now \in 1 .. MaxTime
  /\ paused \in BOOLEAN
  /\ pauseExp \in Nat
  /\ pauseDur \in Nat

PausableInit ==
  /\ now = 1
  /\ paused = FALSE
  /\ pauseExp = 0
  /\ pauseDur = DefaultPause

IsPausedUntilLifted == paused       \* mutant: the expiry is ignored

\* is_paused_raw: an expiry of 0 means that the pause has no end.
IsPaused == paused /\ (pauseExp = 0 \/ now < pauseExp)

Pause ==
  /\ ~IsPaused
  /\ paused' = TRUE
  /\ pauseExp' = now + pauseDur
  /\ UNCHANGED pauseDur

Unpause ==
  /\ IsPaused
  /\ paused' = FALSE
  /\ pauseExp' = 0
  /\ UNCHANGED pauseDur

SetPauseDuration(duration) ==
  /\ duration <= MaxPauseDuration
  /\ pauseDur' = duration
  /\ UNCHANGED <<paused, pauseExp>>

\* Ledgers close and their timestamps grow.
CloseLedger ==
  /\ now < MaxTime
  /\ now' = now + 1
=============================================================================

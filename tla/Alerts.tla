------------------------------- MODULE Alerts -------------------------------
(***************************************************************************)
(* The alerts about one loan (backend/src/jobs/healthFactorJob.ts), sent   *)
(* through the rules of backend/src/utils/alerting.ts.                     *)
(*                                                                         *)
(* An alert passes two cooldowns of an hour, each with a clock reading of  *)
(* its own; cron starts the job once an hour, and the job reaches a loan   *)
(* after it has awaited the alerts of the loans before it.                 *)
(***************************************************************************)
EXTENDS Integers

CONSTANTS
  Hour,           \* length of an hour and of a cooldown
  LastHour,       \* bound: hours that pass
  MaxDelay,       \* bound: what the loans before delay this one by
  MaxLag          \* bound: time between the two readings of the clock

ASSUME AlertsAssumption ==
  /\ {Hour, LastHour, MaxDelay, MaxLag} \subseteq Nat /\ MaxDelay + MaxLag < Hour

Levels == {"warning", "critical"}
Never == -Hour   \* no entry in the map

VARIABLES
  alertHour,       \* runs of the health factor job so far
  alertCooldowns,  \* level -> time of the entry of this loan
  lastFired,       \* level -> time of the entry of its rule
  quiet            \* level -> runs in a row that found it and sent nothing

alertVars == <<alertHour, alertCooldowns, lastFired, quiet>>

AlertsTypeOK ==
  /\ alertHour \in 0 .. LastHour
  /\ {alertCooldowns, lastFired} \subseteq [Levels -> Int]
  /\ quiet \in [Levels -> Nat]

AlertsInit ==
  /\ alertHour = 0
  /\ alertCooldowns = [l \in Levels |-> Never] /\ lastFired = alertCooldowns
  /\ quiet = [l \in Levels |-> 0]

-----------------------------------------------------------------------------
(* Alerts.                                                                 *)

IsOnCooldown(level, now) == now - alertCooldowns[level] < Hour
IsCoolingDown(level, now) == now - lastFired[level] < Hour

\* fireAlert; the sends that follow have no effect here, also when they fail.
FireAlert(level, now) ==
  lastFired' = IF IsCoolingDown(level, now) THEN lastFired
               ELSE [lastFired EXCEPT ![level] = now]

\* Mutant: the entry is renewed before the cooldown is looked up.
MaybeAlertRenewing(level, now, lag) ==
  /\ alertCooldowns' = [alertCooldowns EXCEPT ![level] = now]
  /\ IF IsOnCooldown(level, now) THEN UNCHANGED lastFired
                                 ELSE FireAlert(level, now + lag)

MaybeAlert(level, now, lag) ==
  IF IsOnCooldown(level, now) THEN UNCHANGED <<alertCooldowns, lastFired>>
  ELSE /\ alertCooldowns' = [alertCooldowns EXCEPT ![level] = now]
       /\ FireAlert(level, now + lag)

\* A run finds the loan below the threshold of a level.
RunAlerts(level, delay, lag) ==
  /\ alertHour < LastHour
  /\ alertHour' = alertHour + 1
  /\ MaybeAlert(level, alertHour * Hour + delay, lag)
  /\ quiet' = [l \in Levels |->
                 IF l = level /\ lastFired' = lastFired THEN quiet[l] + 1 ELSE 0]

\* A run finds it above.
RunQuietly ==
  /\ alertHour < LastHour
  /\ alertHour' = alertHour + 1
  /\ quiet' = [l \in Levels |-> 0]
  /\ UNCHANGED <<alertCooldowns, lastFired>>

AlertsNext ==
  \/ \E l \in Levels, delay \in 0 .. MaxDelay, lag \in 0 .. MaxLag : RunAlerts(l, delay, lag)
  \/ RunQuietly

AlertsSpec == AlertsInit /\ [][AlertsNext]_alertVars

-----------------------------------------------------------------------------
(* Properties.                                                             *)

\* Two cooldowns as long as the period of the job swallow alerts, but never
\* more than two in a row of a loan that stays below a threshold: whatever
\* the delays of the runs and the lag between the two clock readings.
AlertAtLeastEveryThirdRun == \A l \in Levels : quiet[l] <= 2
=============================================================================

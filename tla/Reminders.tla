----------------------------- MODULE Reminders -----------------------------
(***************************************************************************)
(* The repayment reminders (backend/src/jobs/repaymentReminderJob.ts)      *)
(* about one loan that stays below the threshold.  A run awaits the email  *)
(* before it marks the date; cron starts the next run whatever became of   *)
(* the one before.                                                         *)
(***************************************************************************)
EXTENDS Integers

CONSTANTS
  ReminderRuns,   \* bound: runs of the job in progress
  LastDay,        \* bound: days that pass
  Fetched,        \* what fetchLoans returns: "loans", an array, or "page"
  NoRun

VARIABLES
  reminderRun,      \* run -> its `today` and whether it awaits an email, or NoRun
  day, daysSent,    \* the day; the days for which an email was sent
  lastReminderDate

reminderVars == <<reminderRun, day, daysSent, lastReminderDate>>

NeverReminded == -1
Days == 0 .. LastDay
NoRuns == [r \in ReminderRuns |-> NoRun]

RemindersInit ==
  /\ reminderRun = NoRuns
  /\ day = 0 /\ daysSent = {}
  /\ lastReminderDate = NeverReminded

-----------------------------------------------------------------------------
\* defaultFetchLoans hands on what listLoans of db/store.ts returns: an object
\* with the page of loans in its field `data`, over which `for of` throws.
Iterable == Fetched # "page"

\* A run reads the date and its loans; one that throws is logged, and over.
StartReminders(r) ==
  /\ reminderRun[r] = NoRun
  /\ reminderRun' = IF Iterable
                    THEN [reminderRun EXCEPT ![r] = [today |-> day, sending |-> FALSE]]
                    ELSE reminderRun
  /\ UNCHANGED <<day, daysSent, lastReminderDate>>

Reaching(r) == reminderRun[r] # NoRun /\ ~reminderRun[r].sending
Sending(r) == reminderRun[r] # NoRun /\ reminderRun[r].sending

AlreadySentToday(today) == lastReminderDate = today

\* The loans before have been handled: the run awaits the email, unless one
\* was sent on its day.
ReachLoan(r) ==
  /\ Reaching(r)
  /\ reminderRun' = [reminderRun EXCEPT ![r] =
       IF AlreadySentToday(@.today) THEN NoRun ELSE [@ EXCEPT !.sending = TRUE]]
  /\ UNCHANGED <<day, daysSent, lastReminderDate>>

\* The email is sent, or logged without a transport, then marked.
ReminderSent(r) ==
  /\ Sending(r)
  /\ lastReminderDate' = reminderRun[r].today
  /\ daysSent' = daysSent \cup {reminderRun[r].today}
  /\ reminderRun' = [reminderRun EXCEPT ![r] = NoRun]
  /\ UNCHANGED day

ReminderFails(r) ==
  /\ Sending(r)
  /\ reminderRun' = [reminderRun EXCEPT ![r] = NoRun]
  /\ UNCHANGED <<day, daysSent, lastReminderDate>>

NewDay ==
  /\ day < LastDay
  /\ day' = day + 1
  /\ UNCHANGED <<reminderRun, daysSent, lastReminderDate>>

\* The process restarts.
RemindersLost ==
  /\ reminderRun' = NoRuns /\ lastReminderDate' = NeverReminded
  /\ UNCHANGED <<day, daysSent>>

RemindersNext ==
  \/ \E r \in ReminderRuns : \/ StartReminders(r) \/ ReachLoan(r)
                             \/ ReminderSent(r) \/ ReminderFails(r)
  \/ NewDay \/ RemindersLost

\* cron starts the job again and again, and its emails go out.
RemindersFairness ==
  \A r \in ReminderRuns :
    /\ SF_reminderVars(StartReminders(r))
    /\ SF_reminderVars(ReachLoan(r))
    /\ SF_reminderVars(ReminderSent(r))

RemindersSpec == RemindersInit /\ [][RemindersNext]_reminderVars /\ RemindersFairness

-----------------------------------------------------------------------------
(* What the documentation says and the code does not do.                   *)

\* jobs/repaymentReminderJob.ts: the job sends an email about a loan below
\* the threshold, if its emails go out.
LowLoanReminded == <>(daysSent # {})
=============================================================================

---------------------------- MODULE Submissions ----------------------------
(***************************************************************************)
(* One transaction a user wants, from the click to the result shown: the   *)
(* panels of the frontend ask the backend to build it, the wallet to sign  *)
(* it and the RPC to submit it (frontend/src/lib/stellarUtils.ts), and the *)
(* user clicks again when an error is shown.                               *)
(*                                                                         *)
(* The chain is external: it applies a transaction with the next sequence  *)
(* number of the account, within the time bound, in any later ledger; the  *)
(* RPC learns of ledgers with a delay.                                     *)
(***************************************************************************)
EXTENDS Integers, FiniteSets

CONSTANTS
  Clicks,        \* bound: times the user submits, 1 .. n
  Bound,         \* the 30 seconds a built transaction is valid
  PollFor,       \* the least time the polls of the RPC last: 20 of 1.5 s
  LastSecond,    \* bound: clock
  NotSent        \* a click that was not made

Stages == {"building", "signing", "sending", "polling", "failed", "done"}

Submission == [stage : Stages, seq : Nat, built : Nat, sent : Nat]

ASSUME SubmissionsAssumption ==
  /\ {Bound, PollFor, LastSecond} \subseteq Nat \ {0} /\ Bound <= PollFor
  /\ Clicks \subseteq Nat /\ IsFiniteSet(Clicks)
  /\ NotSent \notin Submission

VARIABLES
  panel,     \* "plain": a loading flag; "timed": useButtonState
  button,    \* "idle", "loading", "success" or "error"
  resets,    \* armed timers that set the button to "idle"
  sub,       \* click -> the submission it started, or NotSent
  mempool,   \* clicks whose transaction the network has and may apply
  appliedAt, \* clicks whose transaction was applied -> when
  second,    \* the time
  rpcSecond, \* ledgers closed up to here are known to the RPC
  excused    \* history: see OneTransaction

submissionVars == <<panel, button, resets, sub, mempool, appliedAt, second,
                    rpcSecond, excused>>

SubmissionsTypeOK ==
  /\ panel \in {"plain", "timed"}
  /\ button \in {"idle", "loading", "success", "error"}
  /\ resets \in 0 .. Cardinality(Clicks)
  /\ sub \in [Clicks -> {NotSent} \cup
       [stage : Stages, seq : 0 .. Cardinality(Clicks), built : Nat, sent : Nat]]
  /\ mempool \subseteq Clicks
  /\ DOMAIN appliedAt \subseteq Clicks
  /\ second \in 0 .. LastSecond /\ rpcSecond \in 0 .. second
  /\ excused \in BOOLEAN

SubmissionsInit ==
  /\ panel \in {"plain", "timed"}
  /\ button = "idle" /\ resets = 0
  /\ sub = [k \in Clicks |-> NotSent]
  /\ mempool = {} /\ appliedAt = [k \in {} |-> 0]
  /\ second = 0 /\ rpcSecond = 0
  /\ excused = FALSE

chainVars == <<mempool, appliedAt, second, rpcSecond>>
buttonVars == <<button, resets>>

-----------------------------------------------------------------------------
(* The chain and the RPC (external).                                       *)

Applied == DOMAIN appliedAt
Visible(k) == k \in Applied /\ appliedAt[k] <= rpcSecond
SequenceSeen == Cardinality({k \in Clicks : Visible(k)})
MaxTime(k) == sub[k].built + Bound

\* A ledger the RPC does not know yet.
LedgerApplies(k) ==
  /\ k \in mempool /\ rpcSecond < second
  /\ sub[k].seq = Cardinality(Applied) + 1
  /\ second <= MaxTime(k)
  /\ appliedAt' = [j \in Applied \cup {k} |-> IF j = k THEN second ELSE appliedAt[j]]
  /\ mempool' = mempool \ {k}
  /\ UNCHANGED <<panel, buttonVars, sub, second, rpcSecond, excused>>

Tick ==
  /\ second < LastSecond
  /\ second' = second + 1
  /\ UNCHANGED <<panel, buttonVars, sub, mempool, appliedAt, rpcSecond, excused>>

RpcCatchesUp ==
  /\ rpcSecond < second
  /\ rpcSecond' = rpcSecond + 1
  /\ UNCHANGED <<panel, buttonVars, sub, mempool, appliedAt, second, excused>>

-----------------------------------------------------------------------------
(* The button.                                                             *)

InFlight == {k \in Clicks : sub[k] # NotSent /\ sub[k].stage \notin {"failed", "done"}}

\* Disabled while "loading", and gone once a loan is shown.
Enabled == button # "loading" /\ \A k \in Clicks : sub[k] # NotSent => sub[k].stage # "done"

\* useButtonState: setSuccess and setError arm a timer, setLoading clears none.
Settle(state) ==
  IF panel = "timed" THEN button' = state /\ resets' = resets + 1
                     ELSE button' = "idle" /\ UNCHANGED resets

ButtonResets ==
  /\ resets > 0
  /\ button' = "idle" /\ resets' = resets - 1
  /\ UNCHANGED <<panel, sub, chainVars, excused>>

-----------------------------------------------------------------------------
(* A submission.                                                           *)

To(k, stage) == sub' = [sub EXCEPT ![k].stage = stage]
At(k, stage) == sub[k] # NotSent /\ sub[k].stage = stage

\* The handler of the button.  A click on a button that a timer has enabled
\* while a submission is in flight is excused.
Click(k) ==
  /\ Enabled /\ sub[k] = NotSent
  /\ \A j \in Clicks : j < k => sub[j] # NotSent
  /\ sub' = [sub EXCEPT ![k] = [stage |-> "building", seq |-> 0, built |-> 0, sent |-> 0]]
  /\ button' = "loading"
  /\ excused' = (excused \/ InFlight # {})
  /\ UNCHANGED <<panel, resets, chainVars>>

\* The backend reads the sequence number and sets the time bound.
Built(k) ==
  /\ At(k, "building")
  /\ sub' = [sub EXCEPT ![k].stage = "signing", ![k].seq = SequenceSeen + 1,
                        ![k].built = second]
  /\ UNCHANGED <<panel, buttonVars, chainVars, excused>>

Signed(k) ==
  /\ At(k, "signing")
  /\ sub' = [sub EXCEPT ![k].stage = "sending", ![k].sent = second]
  /\ UNCHANGED <<panel, buttonVars, chainVars, excused>>

\* sendTransaction answers: the network has it, or is asked to try again later,
\* which is not told apart.
Sent(k) ==
  /\ At(k, "sending")
  /\ To(k, "polling")
  /\ mempool' \in {mempool, mempool \cup {k}}
  /\ UNCHANGED <<panel, buttonVars, appliedAt, second, rpcSecond, excused>>

\* The catch clause, whatever threw.
Fail(k) == To(k, "failed") /\ Settle("error")

\* The backend answers with an error, the wallet refuses, or sendTransaction
\* does; the repayment panel and the registrations get no further, for the
\* backend requires a key of the first and has no route for the second.
Refused(k) ==
  /\ At(k, "building") \/ At(k, "signing") \/ At(k, "sending")
  /\ Fail(k)
  /\ UNCHANGED <<panel, chainVars, excused>>

\* fetch throws: the answer of sendTransaction or of a poll is lost.
AnswerLost(k) ==
  /\ At(k, "sending") \/ At(k, "polling")
  /\ mempool' \in IF At(k, "sending") THEN {mempool, mempool \cup {k}} ELSE {mempool}
  /\ Fail(k)
  /\ excused' = TRUE
  /\ UNCHANGED <<panel, appliedAt, second, rpcSecond>>

\* A poll finds it: the result is shown, and the loan lists are invalidated.
Found(k) ==
  /\ At(k, "polling") /\ Visible(k)
  /\ To(k, "done") /\ Settle("success")
  /\ UNCHANGED <<panel, chainVars, excused>>

\* Mutant: the polls end sooner.
PollsOverSooner(k) == second >= sub[k].sent + PollFor

\* The requests take time besides the twenty waits.
PollsOver(k) == second > sub[k].sent + PollFor

\* The last poll does not find it.  Excused when the RPC is late.
GiveUpPolling(k) ==
  /\ At(k, "polling") /\ PollsOver(k) /\ ~Visible(k)
  /\ Fail(k)
  /\ excused' = (excused \/ rpcSecond + 1 < second)
  /\ UNCHANGED <<panel, chainVars>>

SubmissionsNext ==
  \/ \E k \in Clicks : \/ Click(k) \/ Built(k) \/ Signed(k) \/ Sent(k) \/ Refused(k)
                       \/ AnswerLost(k) \/ Found(k) \/ GiveUpPolling(k)
                       \/ LedgerApplies(k)
  \/ ButtonResets \/ Tick \/ RpcCatchesUp

SubmissionsSpec == SubmissionsInit /\ [][SubmissionsNext]_submissionVars

-----------------------------------------------------------------------------
(* Properties.                                                             *)

\* However often the user clicks, the transaction is applied once: an error is
\* shown only when it can no longer be applied.  Excused: an answer was lost,
\* the RPC was late when it was asked for the last time, or a timer of an
\* earlier error enabled the button in the middle of a submission.
OneTransaction == Cardinality(Applied) > 1 => excused
=============================================================================

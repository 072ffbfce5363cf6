---------------------------- MODULE EventMirror ----------------------------
(***************************************************************************)
(* The contract event listener (backend/src/contractEventListener.ts):     *)
(* loops that poll the RPC for the contract's events and write the loans   *)
(* they find into the store, where the other handlers change them.         *)
(*                                                                         *)
(* A loop awaits only the RPC; the events of a page are handled at once.   *)
(***************************************************************************)
EXTENDS Integers, Sequences, FiniteSets, FiniteSetsExt

CONSTANTS
  Loops,         \* bound: calls of startEventListener
  EventKinds,    \* kinds of events the contract publishes
  PageSize,      \* events in an answer of the RPC
  Retention,     \* ledgers the RPC keeps
  MaxLedger, MaxEvents,   \* bounds
  NoLoop

ASSUME EventMirrorAssumption ==
  /\ {PageSize, Retention, MaxLedger} \subseteq Nat \ {0} /\ MaxEvents \in Nat
  /\ EventKinds \subseteq {"loan/requested", "livestock/registered",
                           "loan_repaid", "loan/liquidated"}
  /\ NoLoop \notin Loops

VARIABLES
  chainEvents,  \* published events in order: ledger and kind
  latest,       \* latest ledger of the RPC
  lastLedger,
  loop,         \* loop -> Off, Sleeping, or the startLedger of its request
  pollTimer,    \* the loop that set the timer last, or NoLoop
  mirrored,     \* event -> what the store has of its loan
  handled,      \* history: event -> number of times handled, two counted as many
  cutPages,     \* history: events left out by a page that ended in their ledger
  twoLoops      \* history: two loops have run at once

mirrorVars == <<chainEvents, latest, lastLedger, loop, pollTimer, mirrored,
                handled, cutPages, twoLoops>>

EventIds == 1 .. MaxEvents
Off == -1
Sleeping == -2

MirrorTypeOK ==
  /\ chainEvents \in Seq([ledger : 1 .. MaxLedger, kind : EventKinds])
  /\ Len(chainEvents) <= MaxEvents
  /\ latest \in 1 .. MaxLedger /\ lastLedger \in 0 .. MaxLedger
  /\ loop \in [Loops -> {Off, Sleeping} \cup 0 .. MaxLedger + 1]
  /\ pollTimer \in Loops \cup {NoLoop}
  /\ mirrored \in [EventIds -> {"absent", "asRequested", "changed"}]
  /\ handled \in [EventIds -> 0 .. 2]
  /\ cutPages \subseteq EventIds
  /\ twoLoops \in BOOLEAN

MirrorInit ==
  /\ chainEvents = <<>> /\ latest = 1
  /\ lastLedger = 0
  /\ loop = [l \in Loops |-> Off] /\ pollTimer = NoLoop
  /\ mirrored = [e \in EventIds |-> "absent"]
  /\ handled = [e \in EventIds |-> 0]
  /\ cutPages = {} /\ twoLoops = FALSE

-----------------------------------------------------------------------------
(* The chain, the RPC and the rest of the backend.                         *)

listenerVars == <<lastLedger, loop, pollTimer, mirrored, handled, cutPages, twoLoops>>

Publish(kind) ==
  /\ Len(chainEvents) < MaxEvents
  /\ chainEvents' = Append(chainEvents, [ledger |-> latest, kind |-> kind])
  /\ UNCHANGED <<latest, listenerVars>>

\* A ledger has closed: its events can be read.
CloseLedger ==
  /\ latest < MaxLedger
  /\ latest' = latest + 1
  /\ UNCHANGED <<chainEvents, listenerVars>>

Oldest == IF latest > Retention THEN latest - Retention ELSE 1

\* Events of closed ledgers from the given one on, as many as fit in a page.
Page(start) ==
  LET found == {e \in DOMAIN chainEvents :
                  chainEvents[e].ledger \in Max({start, Oldest}) .. latest - 1}
  IN  {e \in found : Cardinality({f \in found : f < e}) < PageSize}

\* A repayment, a deletion or the job changes the mirrored loan.
ChangeMirrored(e) ==
  /\ mirrored[e] = "asRequested"
  /\ mirrored' = [mirrored EXCEPT ![e] = "changed"]
  /\ UNCHANGED <<chainEvents, latest, lastLedger, loop, pollTimer, handled,
                 cutPages, twoLoops>>

-----------------------------------------------------------------------------
(* handleEvent: the one kind of event that has an effect.  The contract    *)
(* names the registration otherwise than the listener; the accessor of the *)
(* symbol throws on the borrower of loan_repaid, the accessor of the       *)
(* amount on the liquidator of loan/liquidated, and both are swallowed.    *)

Mirrors(e) == chainEvents[e].kind = "loan/requested"

\* insertLoan replaces the record under the id.
Mirrored(page) ==
  [e \in EventIds |-> IF e \in page /\ Mirrors(e) THEN "asRequested" ELSE mirrored[e]]

\* The events of the last ledger of a page that did not fit in it.
Cut(page) ==
  {e \in DOMAIN chainEvents :
     /\ page # {} /\ e > Max(page)
     /\ chainEvents[e].ledger = chainEvents[Max(page)].ledger}

-----------------------------------------------------------------------------
(* The loops.                                                              *)

Polling(l) == loop[l] \notin {Off, Sleeping}

\* Mutant: the position is taken to be the next ledger already.
NextStartLater == IF lastLedger > 0 THEN lastLedger + 2 ELSE 0

\* lastLedger + 1, or the cursor "0".
NextStart == IF lastLedger > 0 THEN lastLedger + 1 ELSE 0

\* startEventListener.
StartLoop(l) ==
  /\ loop[l] = Off
  /\ loop' = [loop EXCEPT ![l] = NextStart]
  /\ twoLoops' = (twoLoops \/ \E k \in Loops : loop[k] # Off)
  /\ UNCHANGED <<chainEvents, latest, lastLedger, pollTimer, mirrored, handled, cutPages>>

TimerFires(l) ==
  /\ loop[l] = Sleeping
  /\ loop' = [loop EXCEPT ![l] = NextStart]
  /\ UNCHANGED <<chainEvents, latest, lastLedger, pollTimer, mirrored, handled,
                 cutPages, twoLoops>>

Sleep(l) ==
  /\ loop' = [loop EXCEPT ![l] = Sleeping]
  /\ pollTimer' = l

\* Mutant: the position moves past the ledgers the RPC has closed.
LedgerAfterAll(page) == latest

LedgerAfter(page) ==
  IF page = {} THEN lastLedger
  ELSE Max({lastLedger, chainEvents[Max(page)].ledger})

\* The RPC answers: one page.
PollAnswered(l) ==
  /\ Polling(l) /\ (loop[l] = 0 \/ loop[l] \in Oldest .. latest - 1)
  /\ LET page == Page(loop[l])
     IN  /\ mirrored' = Mirrored(page)
         /\ handled' = [e \in EventIds |->
              IF e \in page /\ handled[e] < 2 THEN handled[e] + 1 ELSE handled[e]]
         /\ lastLedger' = LedgerAfter(page)
         /\ cutPages' = cutPages \cup Cut(page)
  /\ Sleep(l)
  /\ UNCHANGED <<chainEvents, latest, twoLoops>>

\* The RPC is unreachable, or refuses a ledger it does not have.
PollFails(l) ==
  /\ Polling(l)
  /\ Sleep(l)
  /\ UNCHANGED <<chainEvents, latest, lastLedger, mirrored, handled, cutPages, twoLoops>>

\* stopEventListener: without effect on a loop that awaits the RPC.
StopListener ==
  /\ pollTimer # NoLoop
  /\ loop' = [loop EXCEPT ![pollTimer] = IF @ = Sleeping THEN Off ELSE @]
  /\ pollTimer' = NoLoop
  /\ UNCHANGED <<chainEvents, latest, lastLedger, mirrored, handled, cutPages, twoLoops>>

MirrorNext ==
  \/ \E kind \in EventKinds : Publish(kind)
  \/ CloseLedger
  \/ \E e \in EventIds : ChangeMirrored(e)
  \/ \E l \in Loops : StartLoop(l) \/ TimerFires(l) \/ PollAnswered(l) \/ PollFails(l)
  \/ StopListener

\* A timer fires, and the RPC answers again and again what it can answer.
MirrorFairness ==
  \A l \in Loops : /\ WF_mirrorVars(TimerFires(l))
                   /\ SF_mirrorVars(PollAnswered(l))
                   /\ WF_mirrorVars(PollFails(l))

MirrorSpec == MirrorInit /\ [][MirrorNext]_mirrorVars /\ MirrorFairness

-----------------------------------------------------------------------------
(* Properties.                                                             *)

\* The listener never passes over an event the RPC still has, but for those
\* of a ledger in the middle of which a page ended: it is not asked for again.
\* And it handles none twice, writing a loan over what has changed since, but
\* when two loops have run: it was stopped during a poll, or started twice.
EachEventOnce ==
  \A e \in DOMAIN chainEvents :
    /\ chainEvents[e].ledger \in Oldest .. lastLedger
         => handled[e] > 0 \/ e \in cutPages
    /\ handled[e] > 1 => twoLoops

\* Every event is handled in time, unless a page was cut there, the listener
\* was stopped, or nothing happened for so long that the next ledger to ask
\* for is gone: then every poll fails, for good.
EventsHandled ==
  \A e \in EventIds :
    e \in DOMAIN chainEvents
      ~> \/ handled[e] > 0 \/ e \in cutPages
         \/ e \in DOMAIN chainEvents /\ chainEvents[e].ledger \notin Oldest .. latest - 1
         \/ lastLedger > 0 /\ NextStart < Oldest
         \/ \A l \in Loops : loop[l] = Off
=============================================================================

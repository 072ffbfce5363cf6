-------------------------------- MODULE Gate --------------------------------
(***************************************************************************)
(* The rate limits: backend/src/middleware/rateLimit.ts and the limiter of *)
(* transaction statuses in backend/src/routes/v1.ts, which the requests of *)
(* an address pass one after the other, and the countdown of               *)
(* frontend/src/hooks/useFetchWithRateLimit.ts, which keeps the user of    *)
(* LoanForm.tsx from trying again too soon.                                *)
(*                                                                         *)
(* A tick is a part of the minute that is the window of the limiters; the  *)
(* library counts the requests of an address from the first one on, until  *)
(* its window is over.                                                     *)
(***************************************************************************)
EXTENDS Integers, Sequences, FiniteSets, FiniteSetsExt, Functions

CONSTANTS
  Window60,    \* a minute
  Allowed,     \* limiter -> how many requests of a window it lets through
  LastTick,    \* bound: the clock
  MaxPerTick   \* bound: requests of the others behind the address

ASSUME GateAssumption ==
  /\ {Window60, LastTick, MaxPerTick} \subseteq Nat /\ Window60 > 0
  /\ {"global", "write"} \subseteq DOMAIN Allowed
  /\ \A k \in DOMAIN Allowed : Allowed[k] \in Nat \ {0}

VARIABLES
  tick,
  hits,        \* limiter -> requests counted in its window
  resetAt,     \* limiter -> the end of its window
  admitted,    \* history: tick -> requests let through to a write
  asked,       \* requests of this tick
  form,        \* the request of the form: "idle", "sent", or what answers it
  left,        \* the countdown on its button
  dueAt        \* when the interval next fires

gateVars == <<tick, hits, resetAt, admitted, asked, form, left, dueAt>>

Limiters == DOMAIN Allowed
Ticks == 0..LastTick

GateTypeOK ==
  /\ tick \in Ticks
  /\ hits \in [Limiters -> Nat] /\ resetAt \in [Limiters -> 0..LastTick + Window60]
  /\ admitted \in [Ticks -> Nat] /\ asked \in 0..MaxPerTick
  /\ form \in {"idle", "sent", "accepted", "refused"} /\ left \in 0..Window60
  /\ dueAt \in 0..LastTick + Window60

GateInit ==
  /\ tick = 0 /\ asked = 0
  /\ hits = [k \in Limiters |-> 0] /\ resetAt = [k \in Limiters |-> 0]
  /\ admitted = [t \in Ticks |-> 0]
  /\ form = "idle" /\ left = 0 /\ dueAt = 0

-----------------------------------------------------------------------------
(* The limiters.                                                           *)

\* The middleware of a path: globalLimiter is passed by all, authLimiter by
\* /api/auth, readLimiter and writeLimiter by the handlers that name them, and
\* txStatusLimiter by GET /transactions/:hash/status.
Chain(path) == <<"global">> \o (IF path = "other" THEN <<>> ELSE <<path>>)

\* Mutant: it is the window's beginning that the time is compared with.
WindowOverSoon(k) == tick > resetAt[k] - Window60

WindowOver(k) == tick >= resetAt[k]

\* The count with this request; one that is refused is counted too.
Counted(k) == IF WindowOver(k) THEN 1 ELSE hits[k] + 1

\* The first limiter of the chain that refuses, and those that have counted
\* the request: the ones after it never see it.
Refusing(path) == {i \in DOMAIN Chain(path) : Counted(Chain(path)[i]) > Allowed[Chain(path)[i]]}

Passed(path) ==
  LET last == IF Refusing(path) = {} THEN Len(Chain(path)) ELSE Min(Refusing(path))
  IN {Chain(path)[i] : i \in 1..last}

\* A request of the address arrives.
RequestArrives(path) ==
  /\ hits' = [k \in Limiters |-> IF k \in Passed(path) THEN Counted(k) ELSE hits[k]]
  /\ resetAt' = [k \in Limiters |->
       IF k \in Passed(path) /\ WindowOver(k) THEN tick + Window60 ELSE resetAt[k]]
  /\ admitted' = IF path = "write" /\ Refusing(path) = {}
                 THEN [admitted EXCEPT ![tick] = @ + 1] ELSE admitted

-----------------------------------------------------------------------------
(* The countdown of the form.                                              *)

\* The handler names the whole window, whatever is left of it.
RetryAfter == Window60

\* The form has one request under way at a time, and its buttons are disabled
\* during the countdown.
SubmitForm ==
  /\ form = "idle" /\ left = 0
  /\ form' = "sent"
  /\ UNCHANGED <<tick, hits, resetAt, admitted, asked, left, dueAt>>

\* POST /api/collateral/register and /api/loan/request pass the global limiter
\* alone.
FormArrives(path) ==
  /\ form = "sent"
  /\ RequestArrives(path)
  /\ form' = IF Refusing(path) = {} THEN "accepted" ELSE "refused"
  /\ UNCHANGED <<tick, asked, left, dueAt>>

\* fetchWithLimit: a 429 starts the countdown.
FormAnswered ==
  /\ form \in {"accepted", "refused"}
  /\ form' = "idle"
  /\ IF form = "refused" THEN left' = RetryAfter /\ dueAt' = tick + 1
     ELSE UNCHANGED <<left, dueAt>>
  /\ UNCHANGED <<tick, hits, resetAt, admitted, asked>>

\* The interval: it may fire late, and not before its time.
CountDown ==
  /\ left > 0 /\ tick >= dueAt
  /\ left' = left - 1 /\ dueAt' = dueAt + 1
  /\ UNCHANGED <<tick, hits, resetAt, admitted, asked, form>>

\* The other requests of the address.
OtherArrives(path) ==
  /\ asked < MaxPerTick /\ asked' = asked + 1
  /\ RequestArrives(path)
  /\ UNCHANGED <<tick, form, left, dueAt>>

TickPasses ==
  /\ tick < LastTick /\ tick' = tick + 1 /\ asked' = 0
  /\ UNCHANGED <<hits, resetAt, admitted, form, left, dueAt>>

GateNext ==
  \/ TickPasses \/ SubmitForm \/ FormAnswered \/ CountDown
  \/ FormArrives("other")
  \/ \E path \in {"other"} \cup (Limiters \ {"global"}) : OtherArrives(path)

GateSpec == GateInit /\ [][GateNext]_gateVars

-----------------------------------------------------------------------------
(* Properties.                                                             *)

\* In every minute an address has fewer than twice the requests let through
\* that the limit allows.  (More than the limit it may have: the last requests
\* of a window and the first of the next; but a window begins with a request,
\* which is a minute before the next.)
LessThanTwiceTheLimit ==
  \A t \in Ticks :
    MapThenSumSet(LAMBDA u : admitted[u], {u \in t..t + Window60 - 1 : u \in Ticks})
      < 2 * Allowed["write"]

=============================================================================

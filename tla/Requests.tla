------------------------------ MODULE Requests ------------------------------
(***************************************************************************)
(* The backend's HTTP server (backend/src/index.ts): its middleware, the   *)
(* handlers that call the RPC, the uploads, the health checks and the      *)
(* graceful shutdown, on top of the RPC calls of RpcPool.                  *)
(*                                                                         *)
(* A handler runs alone up to its next await; what follows the await of an *)
(* RPC call runs before any timer does.  The timers (timeouts, expiry of   *)
(* the stores, the shutdown poll) may fire at any time.  What the rate     *)
(* limiter, the token check, validation and a closing server turn away, or *)
(* a cache answers, has no effect and is left out, but for a repayment     *)
(* that does not validate.                                                 *)
(***************************************************************************)
EXTENDS RpcPool, Sequences, Functions

CONSTANTS
  Requests,   \* HTTP requests in progress at a time
  Sends,      \* what one user may send: an endpoint with its contents
  Endpoint,   \* send -> its field of Handlers
  Hash,       \* send -> its key to the deduplication store: of the body alone,
              \* which for a multipart upload is not parsed yet
  None

VARIABLES
  request,    \* request -> what is being handled, or None
  phase,      \* "up", "closing" (isShuttingDown), or how the process ended
  deduped,    \* the deduplication cache: hash -> the send it answers, or None
  stored,     \* the idempotency cache: repay -> whether it is answered
  built       \* history: repays prepared since they were forgotten

requestVars == <<request, phase, deduped, stored, built>>
allRequestVars == <<poolVars, requestVars>>

-----------------------------------------------------------------------------
(* The handlers: the RPC calls one awaits in turn, which of them it may do *)
(* without, whether it awaits something else before them, whether its      *)
(* answer is deduplicated (POST), and whether it sets the status 201.      *)

HandlerRecord(calls, caught, first, post, created) ==
  [calls |-> calls, caught |-> caught, first |-> first, post |-> post,
   created |-> created]

BuildContractTx == <<"getAccount", "prepareTransaction">>
Simulation == <<"getAccount", "simulateTransaction">>

\* POST /api/collateral/register, /loan/request, /loan/repay, /loan/liquidate.
RegisterCollateral == HandlerRecord(BuildContractTx, {}, FALSE, TRUE, FALSE)
RequestLoan == HandlerRecord(BuildContractTx, {}, FALSE, TRUE, FALSE)
RepayLoan == HandlerRecord(BuildContractTx, {}, FALSE, TRUE, FALSE)
LiquidateLoan == HandlerRecord(BuildContractTx, {}, FALSE, TRUE, FALSE)

\* POST /api/loan/create: the reservation of its collateral is LoanDesk's.
CreateLoan == HandlerRecord(BuildContractTx, {}, FALSE, TRUE, TRUE)

\* POST /api/loan/repayment-preview: the second simulation is of the fees.
PreviewRepayment ==
  HandlerRecord(Append(Simulation, "simulateTransaction"), {3}, FALSE, TRUE, FALSE)

\* GET /api/loans/:id, /api/loan/:id and /api/health/:loanId.
ShowLoan == HandlerRecord(Simulation, {1, 2}, FALSE, FALSE, FALSE)
ReadLoan == HandlerRecord(Simulation, {}, FALSE, FALSE, FALSE)
ReadHealth == HandlerRecord(Simulation, {}, FALSE, FALSE, FALSE)

\* POST /api/collateral: multer reads the file.
Upload == HandlerRecord(<<>>, {}, TRUE, TRUE, TRUE)

\* GET /api/health, and /ready and /deep of /api/v1/health.
CheckHealth == HandlerRecord(<<Raw>>, {1}, TRUE, FALSE, FALSE)
CheckReady == HandlerRecord(<<"getHealth">>, {1}, FALSE, FALSE, FALSE)
CheckDeep == HandlerRecord(<<"getHealth">>, {1}, FALSE, FALSE, FALSE)

Handlers ==
  [register |-> RegisterCollateral, request |-> RequestLoan, repay |-> RepayLoan,
   liquidate |-> LiquidateLoan, create |-> CreateLoan, preview |-> PreviewRepayment,
   show |-> ShowLoan, read |-> ReadLoan, loanHealth |-> ReadHealth, upload |-> Upload,
   health |-> CheckHealth, ready |-> CheckReady, deep |-> CheckDeep]

Handler(send) == Handlers[Endpoint[send]]

\* step: which of its calls the handler awaits; 0 for what it awaits first.
RequestRecord == [send : Sends, step : 0 .. 3, answered : BOOLEAN, again : BOOLEAN]

ASSUME RequestsAssumption ==
  /\ Waiters = Requests /\ None \notin Sends \cup RequestRecord
  /\ Endpoint \in [Sends -> DOMAIN Handlers]
  /\ \A p \in Sends : Range(Handler(p).calls) \subseteq Methods \cup {Raw}
  /\ DOMAIN Hash = Sends

Hashes == {Hash[p] : p \in Sends}
Repays == {p \in Sends : Endpoint[p] = "repay"}

\* Mounted before the timeout and the shutdown check.
Early(send) == Endpoint[send] \in {"health", "ready", "deep"}

RequestsTypeOK ==
  /\ PoolTypeOK
  /\ request \in [Requests -> RequestRecord \cup {None}]
  /\ phase \in {"up", "closing", "clean", "forced"}
  /\ deduped \in [Hashes -> Sends \cup {None}]
  /\ stored \in [Repays -> BOOLEAN]
  /\ built \subseteq Repays

NoRequest == [r \in Requests |-> None]
NothingDeduped == [h \in Hashes |-> None]
NothingStored == [p \in Repays |-> FALSE]

RequestsInit ==
  /\ PoolInit
  /\ request = NoRequest /\ phase = "up"
  /\ deduped = NothingDeduped /\ stored = NothingStored
  /\ built = {}

-----------------------------------------------------------------------------
(* A request comes in.                                                     *)

Alive == phase \in {"up", "closing"}

Comes(r, send) ==
  /\ request[r] = None
  /\ phase = "up" \/ (Early(send) /\ Alive)
  /\ Handler(send).post => deduped[Hash[send]] = None
  /\ send \in Repays => ~stored[send]

Handle(r, send, step) ==
  request' = [request EXCEPT ![r] =
    [send |-> send, step |-> step, answered |-> FALSE, again |-> send \in built]]

\* Up to the await of the first call.
Begin(r, send) ==
  /\ Comes(r, send) /\ ~Handler(send).first
  /\ \E c \in Calls : StartCall(c, Handler(send).calls[1], r)
  /\ Handle(r, send, 1)
  /\ UNCHANGED <<phase, deduped, stored, built>>

\* The pool is exhausted: answered at once.
BeginRefused(r, send) ==
  /\ Comes(r, send) /\ ~Handler(send).first
  /\ CallRefused(Handler(send).calls[1])
  /\ UNCHANGED requestVars

\* Up to the await of the file, or of the database.
BeginWaiting(r, send) ==
  /\ Comes(r, send) /\ Handler(send).first
  /\ Handle(r, send, 0)
  /\ UNCHANGED <<poolVars, phase, deduped, stored, built>>

\* A repayment that does not validate: its key is answered 400 from now on,
\* also when the request is corrected.
RepayInvalid(send) ==
  /\ phase = "up" /\ ~stored[send]
  /\ stored' = [stored EXCEPT ![send] = TRUE]
  /\ UNCHANGED <<poolVars, request, phase, deduped, built>>

-----------------------------------------------------------------------------
(* A handler answers.                                                      *)

\* res.json of a request that was answered 504 throws.  The deduplication has
\* looked at the status by then: 504, unless the handler has set it to 201.
Deduped(req) ==
  IF ~Handler(req.send).post \/ (req.answered /\ ~Handler(req.send).created)
  THEN deduped
  ELSE [deduped EXCEPT ![Hash[req.send]] = req.send]

\* Mutant: the idempotency key is kept only for an answer that was sent.
StoredIfSent(req) ==
  IF req.send \in Repays /\ ~req.answered
  THEN [stored EXCEPT ![req.send] = TRUE] ELSE stored

Stored(req) ==
  IF req.send \in Repays THEN [stored EXCEPT ![req.send] = TRUE] ELSE stored

Over(r) == request' = [request EXCEPT ![r] = None]

Respond(r) ==
  /\ deduped' = Deduped(request[r])
  /\ stored' = Stored(request[r])
  /\ built' = built \cup ({request[r].send} \cap Repays)
  /\ Over(r)

\* The error handler: nothing is kept of an error.
AnswerError(r) == Over(r) /\ UNCHANGED <<deduped, stored, built>>

\* A call that the handler may do without has failed; or another one.
AnswerFailure(r, step) ==
  IF step \in Handler(request[r].send).caught THEN Respond(r) ELSE AnswerError(r)

-----------------------------------------------------------------------------
(* What a handler awaits ends.                                             *)

CallsOf(r) == Handler(request[r].send).calls
Waiter(c) == call[c].waiter
Awaited(c) == Alive /\ call[c] # Nobody /\ Waiter(c) # Nobody

\* The file is read; the database answers.
Waited(r) ==
  /\ Alive /\ request[r] # None /\ request[r].step = 0
  /\ IF CallsOf(r) = <<>>
     THEN Respond(r) /\ UNCHANGED poolVars
     ELSE \/ /\ \E c \in Calls : StartCall(c, CallsOf(r)[1], r)
             /\ request' = [request EXCEPT ![r].step = 1]
             /\ UNCHANGED <<deduped, stored, built>>
          \/ CallRefused(CallsOf(r)[1]) /\ AnswerFailure(r, 1)
  /\ UNCHANGED phase

\* A call succeeds and there is another one: it is made, or its breaker
\* refuses it.
CallAnswered(c) ==
  /\ Awaited(c)
  /\ LET r == Waiter(c)  next == request[r].step + 1
     IN  /\ next \in DOMAIN CallsOf(r)
         /\ \/ /\ Continue(c, CallsOf(r)[next])
               /\ request' = [request EXCEPT ![r].step = next]
               /\ UNCHANGED <<deduped, stored, built>>
            \/ /\ ~Admits(CallsOf(r)[next])
               /\ CallSucceeds(c)
               /\ AnswerFailure(r, next)
  /\ UNCHANGED phase

\* The last call succeeds.
LastCallAnswered(c) ==
  /\ Awaited(c)
  /\ request[Waiter(c)].step = Len(CallsOf(Waiter(c)))
  /\ CallSucceeds(c)
  /\ Respond(Waiter(c))
  /\ UNCHANGED phase

\* The call fails, or its breaker gives it up.
CallRejected(c) ==
  /\ Awaited(c)
  /\ CallFails(c) \/ GiveUp(c)
  /\ AnswerFailure(Waiter(c), request[Waiter(c)].step)
  /\ UNCHANGED phase

\* A call its breaker gave up.
AbandonedCallEnds(c) ==
  /\ Alive /\ call[c] # Nobody /\ Waiter(c) = Nobody
  /\ CallSucceeds(c) \/ CallFails(c)
  /\ UNCHANGED requestVars

RetryCall(c) == Alive /\ Retry(c) /\ UNCHANGED requestVars
ResetCircuit(m) == Alive /\ HalfOpen(m) /\ UNCHANGED requestVars

-----------------------------------------------------------------------------
(* Timers.                                                                 *)

\* timeoutMiddleware answers 504; the handler goes on.
TimeOut(r) ==
  /\ Alive /\ request[r] # None /\ ~Early(request[r].send)
  /\ ~request[r].answered
  /\ request' = [request EXCEPT ![r].answered = TRUE]
  /\ UNCHANGED <<poolVars, phase, deduped, stored, built>>

DedupExpires(h) ==
  /\ Alive /\ deduped[h] # None
  /\ deduped' = [deduped EXCEPT ![h] = None]
  /\ UNCHANGED <<poolVars, request, phase, stored, built>>

KeyExpires(p) ==
  /\ Alive /\ stored[p]
  /\ stored' = [stored EXCEPT ![p] = FALSE]
  /\ built' = built \ {p}
  /\ UNCHANGED <<poolVars, request, phase, deduped>>

-----------------------------------------------------------------------------
(* gracefulShutdown.                                                       *)

\* SIGTERM, SIGINT, an uncaught exception or an unhandled rejection.
Signal ==
  /\ phase = "up"
  /\ phase' = "closing"
  /\ UNCHANGED <<poolVars, request, deduped, stored, built>>

\* Mutant: the pool is closed before the wait, which then ends at once.
CloseThenPoll ==
  /\ phase = "closing"
  /\ ClosePool /\ UNCHANGED <<call, breaker>>
  /\ phase' = "clean"
  /\ UNCHANGED <<request, deduped, stored, built>>

\* The poll finds no connection in use: close the pool, process.exit(0).
Poll ==
  /\ phase = "closing" /\ inUse = {}
  /\ ClosePool /\ UNCHANGED <<call, breaker>>
  /\ phase' = "clean"
  /\ UNCHANGED <<request, deduped, stored, built>>

\* SHUTDOWN_TIMEOUT_MS: process.exit(1).
ForceExit ==
  /\ phase = "closing"
  /\ phase' = "forced"
  /\ UNCHANGED <<poolVars, request, deduped, stored, built>>

\* Everything was in memory.
Restart ==
  /\ ~Alive
  /\ idle' = PoolMin /\ inUse' = {}
  /\ call' = NoCall /\ breaker' = AllClosed
  /\ request' = NoRequest /\ phase' = "up"
  /\ deduped' = NothingDeduped /\ stored' = NothingStored /\ built' = {}

-----------------------------------------------------------------------------
RequestsNext ==
  \/ \E r \in Requests, p \in Sends :
       Begin(r, p) \/ BeginRefused(r, p) \/ BeginWaiting(r, p)
  \/ \E r \in Requests : Waited(r) \/ TimeOut(r)
  \/ \E c \in Calls : \/ CallAnswered(c) \/ LastCallAnswered(c) \/ CallRejected(c)
                      \/ AbandonedCallEnds(c) \/ RetryCall(c)
  \/ \E m \in Methods : ResetCircuit(m)
  \/ \E h \in Hashes : DedupExpires(h)
  \/ \E p \in Repays : RepayInvalid(p) \/ KeyExpires(p)
  \/ Signal \/ Poll \/ ForceExit \/ Restart

RequestsSpec == RequestsInit /\ [][RequestsNext]_allRequestVars

-----------------------------------------------------------------------------
(* Properties.                                                             *)

\* A clean exit abandons no RPC call and no handler that awaits one.
CleanExitWaitsForRpc ==
  phase = "clean" =>
    /\ Running = {}
    /\ \A r \in Requests : request[r] # None => request[r].step = 0

\* A repayment is prepared twice for one idempotency key only by requests
\* that overlap: also an answer that came after the 504 is kept for a retry.
NoRepayAgain == \A r \in Requests : request[r] # None => ~request[r].again

-----------------------------------------------------------------------------
(* What the documentation says and the code does not do.                   *)

\* middleware/deduplication.ts: the cached response is the one of an identical
\* request.  Whoever is answered from the cache asked for what was done.
OnlyIdenticalDeduplicated ==
  \A p \in Sends : Handler(p).post => deduped[Hash[p]] \in {p, None}
=============================================================================

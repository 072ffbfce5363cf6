------------------------------ MODULE RpcPool ------------------------------
(***************************************************************************)
(* Calls of the backend to the Soroban RPC: the connection pool            *)
(* (backend/src/utils/connectionPool.ts) and the circuit breaker around    *)
(* each method (backend/src/utils/rpcClient.ts, with opossum).             *)
(*                                                                         *)
(* A call takes a connection, makes up to MaxAttempts attempts and gives   *)
(* the connection back.  The breaker answers its caller after ten seconds  *)
(* whatever happens; the attempts go on, with the connection.              *)
(***************************************************************************)
EXTENDS Integers, FiniteSets

CONSTANTS
  Calls,        \* bound: calls in progress at a time
  Waiters,      \* those who may await a call
  Methods,      \* RPC methods, each with a breaker of its own
  PoolMin, PoolMax,
  MaxAttempts,  \* MAX_RETRIES
  Nobody        \* no call; no caller

\* "raw" is pool.run without a breaker, as GET /api/health uses it.
Raw == "raw"

CallRecord == [method : Methods \cup {Raw}, attempt : 1 .. MaxAttempts,
               waiter : Waiters \cup {Nobody}]

ASSUME RpcPoolAssumption ==
  /\ PoolMin \in Nat /\ PoolMax \in Nat \ {0} /\ PoolMin <= PoolMax
  /\ MaxAttempts \in Nat \ {0}
  /\ IsFiniteSet(Calls) /\ Nobody \notin Waiters \cup CallRecord

VARIABLES
  idle,     \* pool.length
  inUse,    \* the calls whose connection is in inUse
  call,     \* call -> its method, attempt and caller; Nobody when it is free
  breaker   \* method -> the state of its circuit

poolVars == <<idle, inUse, call, breaker>>

\* A half-open circuit lets one call through, on "trial".
CircuitStates == {"closed", "open", "halfOpen", "trial"}

PoolTypeOK ==
  /\ idle \in 0 .. PoolMax
  /\ inUse \subseteq Calls
  /\ call \in [Calls -> CallRecord \cup {Nobody}]
  /\ breaker \in [Methods -> CircuitStates]

NoCall == [c \in Calls |-> Nobody]
AllClosed == [m \in Methods |-> "closed"]

PoolInit ==
  /\ idle = PoolMin /\ inUse = {}
  /\ call = NoCall /\ breaker = AllClosed

Running == {c \in Calls : call[c] # Nobody}

-----------------------------------------------------------------------------
(* The pool.                                                               *)

Exhausted == idle = 0 /\ Cardinality(inUse) >= PoolMax

Acquire(c) ==
  /\ ~Exhausted
  /\ idle' = IF idle > 0 THEN idle - 1 ELSE 0
  /\ inUse' = inUse \cup {c}

Release(c) ==
  /\ inUse' = inUse \ {c}
  /\ idle' = IF idle + Cardinality(inUse \ {c}) < PoolMax THEN idle + 1 ELSE idle

ClosePool == idle' = 0 /\ inUse' = {}

-----------------------------------------------------------------------------
(* The breaker.  Which failures open a closed circuit depends on the calls *)
(* of the last ten seconds: any one may.                                   *)

Admits(m) == m # Raw => breaker[m] \in {"closed", "halfOpen"}

\* The circuits after a call of m is let through, fails or succeeds.
Fired(m) == IF m # Raw /\ breaker[m] = "halfOpen"
            THEN [breaker EXCEPT ![m] = "trial"] ELSE breaker

AfterFailure(m) ==
  IF m = Raw THEN {breaker}
  ELSE {[breaker EXCEPT ![m] = s] :
          s \in IF breaker[m] = "closed" THEN {"closed", "open"} ELSE {"open"}}

AfterSuccess(m) ==
  IF m = Raw \/ breaker[m] \in {"closed", "open"} THEN breaker
  ELSE [breaker EXCEPT ![m] = "closed"]

\* resetTimeout.
HalfOpen(m) ==
  /\ breaker[m] = "open"
  /\ breaker' = [breaker EXCEPT ![m] = "halfOpen"]
  /\ UNCHANGED <<idle, inUse, call>>

-----------------------------------------------------------------------------
(* A call: what becomes of the pool and the breaker.  What its caller does *)
(* with the outcome is up to the module that fires it.                     *)

\* breaker.fire, which starts pool.run.
StartCall(c, m, w) ==
  /\ call[c] = Nobody /\ c \notin inUse
  /\ Admits(m)
  /\ Acquire(c)
  /\ call' = [call EXCEPT ![c] = [method |-> m, attempt |-> 1, waiter |-> w]]
  /\ breaker' = Fired(m)

\* acquire throws PoolExhaustedError, a failure like any other to the breaker.
CallRefused(m) ==
  /\ Admits(m) /\ Exhausted
  /\ breaker' \in AfterFailure(m)
  /\ UNCHANGED <<idle, inUse, call>>

\* An attempt fails and another one follows, after its backoff.
Retry(c) ==
  /\ call[c] # Nobody
  /\ call[c].attempt < MaxAttempts
  /\ call' = [call EXCEPT ![c].attempt = @ + 1]
  /\ UNCHANGED <<idle, inUse, breaker>>

\* pool.run ends.  The breaker ignores the outcome of a call it gave up.
CallSucceeds(c) ==
  /\ call[c] # Nobody
  /\ Release(c)
  /\ call' = [call EXCEPT ![c] = Nobody]
  /\ breaker' = IF call[c].waiter = Nobody THEN breaker
                ELSE AfterSuccess(call[c].method)

CallFails(c) ==
  /\ call[c] # Nobody /\ call[c].attempt = MaxAttempts
  /\ Release(c)
  /\ call' = [call EXCEPT ![c] = Nobody]
  /\ breaker' \in IF call[c].waiter = Nobody THEN {breaker}
                  ELSE AfterFailure(call[c].method)

\* A call succeeds and its caller fires the next one before anything else
\* runs: the connection just put back is the one taken.
Continue(c, m) ==
  /\ call[c] # Nobody /\ call[c].waiter # Nobody
  /\ Admits(m)
  /\ call' = [call EXCEPT ![c].method = m, ![c].attempt = 1]
  /\ breaker' = IF breaker[m] = "halfOpen"
                THEN [AfterSuccess(call[c].method) EXCEPT ![m] = "trial"]
                ELSE AfterSuccess(call[c].method)
  /\ UNCHANGED <<idle, inUse>>

\* The breaker's timeout: the caller gets an error, the call goes on.
GiveUp(c) ==
  /\ call[c] # Nobody /\ call[c].method # Raw /\ call[c].waiter # Nobody
  /\ call' = [call EXCEPT ![c].waiter = Nobody]
  /\ breaker' \in AfterFailure(call[c].method)
  /\ UNCHANGED <<idle, inUse>>
=============================================================================

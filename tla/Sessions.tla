------------------------------ MODULE Sessions ------------------------------
(***************************************************************************)
(* Wallet login, refresh tokens and API keys of the backend                *)
(* (backend/src/middleware/auth.ts, apiKey.ts).  An access token is not    *)
(* stored: it is good until it expires, also after a restart.  The cookie  *)
(* jar of the client is left out: any token ever issued may be presented   *)
(* again, by another tab or by a retry of a request whose answer was lost. *)
(***************************************************************************)
EXTENDS Integers, FiniteSets

CONSTANTS
  Nonces, Tokens, ApiKeys,      \* bounds: random values ever drawn
  ChallengeTtl, AccessTtl, RefreshTtl,
  EndOfSessions                 \* bound: clock

ASSUME SessionsAssumption ==
  {ChallengeTtl, AccessTtl, RefreshTtl, EndOfSessions} \subseteq Nat

VARIABLES
  sessionClock,
  challenges,    \* nonce -> when it expires, for the nonces on record
  refreshTokens, \* token -> its login and when it expires
  accessUntil,   \* when the newest access token expires
  apiKeys,       \* key -> whether it is in force
  drawn          \* random values that were drawn before

sessionVars == <<sessionClock, challenges, refreshTokens, accessUntil, apiKeys, drawn>>

SessionsTypeOK ==
  /\ sessionClock \in 0 .. EndOfSessions
  /\ DOMAIN challenges \subseteq Nonces
  /\ DOMAIN refreshTokens \subseteq Tokens
  /\ \A t \in DOMAIN refreshTokens :
       refreshTokens[t] \in [login : Nonces, exp : Nat]
  /\ accessUntil \in Nat
  /\ DOMAIN apiKeys \subseteq ApiKeys
  /\ drawn \subseteq Nonces \cup Tokens

Nothing == [x \in {} |-> 0]

SessionsInit ==
  /\ sessionClock = 0
  /\ challenges = Nothing /\ refreshTokens = Nothing /\ apiKeys = Nothing
  /\ accessUntil = 0
  /\ drawn = {}

Without(f, x) == [y \in DOMAIN f \ {x} |-> f[y]]
With(f, x, v) == [y \in DOMAIN f \cup {x} |-> IF y = x THEN v ELSE f[y]]

-----------------------------------------------------------------------------
\* GET /challenge.
Challenge(n) ==
  /\ n \notin drawn
  /\ drawn' = drawn \cup {n}
  /\ challenges' = With(challenges, n, sessionClock + ChallengeTtl)
  /\ UNCHANGED <<sessionClock, refreshTokens, accessUntil, apiKeys>>

ChallengeAccepted(n) == n \in DOMAIN challenges /\ sessionClock <= challenges[n]

\* issueTokens, given the refresh tokens that stay.
IssueTokens(t, login, kept) ==
  /\ t \notin drawn
  /\ drawn' = drawn \cup {t}
  /\ refreshTokens' = With(kept, t, [login |-> login, exp |-> sessionClock + RefreshTtl])
  /\ accessUntil' = sessionClock + AccessTtl

\* Mutant: the nonce is dropped only when the signature does not match.
LoginKeepingNonce(n, t) ==
  /\ ChallengeAccepted(n)
  /\ IssueTokens(t, n, refreshTokens)
  /\ UNCHANGED <<sessionClock, challenges, apiKeys>>

\* POST /login; the nonce is dropped before the signature is verified.
Login(n, t) ==
  /\ ChallengeAccepted(n)
  /\ challenges' = Without(challenges, n)
  /\ IssueTokens(t, n, refreshTokens)
  /\ UNCHANGED <<sessionClock, apiKeys>>

LoginWithBadSignature(n) ==
  /\ ChallengeAccepted(n)
  /\ challenges' = Without(challenges, n)
  /\ UNCHANGED <<sessionClock, refreshTokens, accessUntil, apiKeys, drawn>>

\* POST /refresh: the token is exchanged for another one of the same login.
Refresh(old, t) ==
  /\ old \in DOMAIN refreshTokens
  /\ sessionClock <= refreshTokens[old].exp
  /\ IssueTokens(t, refreshTokens[old].login, Without(refreshTokens, old))
  /\ UNCHANGED <<sessionClock, challenges, apiKeys>>

\* jwtMiddleware, for the one wallet modelled.
Authenticated ==
  sessionClock <= accessUntil \/ \E k \in DOMAIN apiKeys : apiKeys[k]

CreateApiKey(k) ==
  /\ Authenticated
  /\ k \notin DOMAIN apiKeys
  /\ apiKeys' = With(apiKeys, k, TRUE)
  /\ UNCHANGED <<sessionClock, challenges, refreshTokens, accessUntil, drawn>>

RevokeApiKey(k) ==
  /\ Authenticated
  /\ k \in DOMAIN apiKeys
  /\ apiKeys' = [apiKeys EXCEPT ![k] = FALSE]
  /\ UNCHANGED <<sessionClock, challenges, refreshTokens, accessUntil, drawn>>

SessionTick ==
  /\ sessionClock < EndOfSessions
  /\ sessionClock' = sessionClock + 1
  /\ UNCHANGED <<challenges, refreshTokens, accessUntil, apiKeys, drawn>>

\* All but the access tokens was in memory.
SessionsLost ==
  /\ challenges' = Nothing /\ refreshTokens' = Nothing /\ apiKeys' = Nothing
  /\ UNCHANGED <<sessionClock, accessUntil, drawn>>

SessionsNext ==
  \/ \E n \in Nonces : Challenge(n) \/ LoginWithBadSignature(n)
  \/ \E n \in Nonces, t \in Tokens : Login(n, t)
  \/ \E old, t \in Tokens : Refresh(old, t)
  \/ \E k \in ApiKeys : CreateApiKey(k) \/ RevokeApiKey(k)
  \/ SessionTick \/ SessionsLost

SessionsSpec == SessionsInit /\ [][SessionsNext]_sessionVars

-----------------------------------------------------------------------------
(* Properties.                                                             *)

\* A signed challenge opens one session, however often it is presented, and
\* a session has one refresh token, however often and in whatever order its
\* tokens are presented.
OneTokenPerLogin ==
  \A s, t \in DOMAIN refreshTokens :
    refreshTokens[s].login = refreshTokens[t].login => s = t
=============================================================================
